\* One worker whose completion commits although it sees an error.
CONSTANTS
  Worker = {w1, w2}
  Generation = {g1}
  Key = {k1, k2}
  NoGeneration = NoGeneration
  NoWorker = NoWorker
  Malformed = {}
  ChatTriggered = {g1}
  Lease = 2
  Skew = 1
  MaxOutputs = 1
  MaxTime = 5
  Faults = {"commit"}
  MaxFaults = 1
SYMMETRY Symmetry
SPECIFICATION Spec
INVARIANT ResultsReadable
CHECK_DEADLOCK FALSE
