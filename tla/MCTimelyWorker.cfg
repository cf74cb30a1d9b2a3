\* Two workers, one generation, two failures of any kind that leaves the
\* stored files alone; lease and skew at the edge of what renewals tolerate.
CONSTANTS
  Worker = {w1, w2}
  Generation = {g1}
  Key = {k1, k2, k3}
  NoGeneration = NoGeneration
  NoWorker = NoWorker
  Malformed = {}
  ChatTriggered = {g1}
  Lease = 3
  Skew = 2
  RenewEvery = 1
  MaxOutputs = 1
  MaxTime = 7
  Faults = {"crash", "shutdown", "db", "reply"}
  MaxFaults = 2
SPECIFICATION TimelySpec
INVARIANT LeaseKept
PROPERTY EverySubmissionSettles
