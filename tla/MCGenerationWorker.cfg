\* Two workers and one row, claimed, lost and claimed again; every failure
\* but a commit whose answer is lost.
CONSTANTS
  Worker = {w1, w2}
  Generation = {g1}
  Key = {k1, k2, k3}
  NoGeneration = NoGeneration
  NoWorker = NoWorker
  Malformed = {}
  ChatTriggered = {g1}
  Lease = 2
  Skew = 1
  MaxOutputs = 2
  MaxTime = 5
  Faults = {"crash", "shutdown", "db", "reply", "unlink"}
  MaxFaults = 2
SYMMETRY Symmetry
SPECIFICATION Spec
INVARIANTS UniqueOwner OneResult ResultsReadable
CHECK_DEADLOCK FALSE
