\* Two workers and two rows, one of them malformed and without a chat run;
\* lost claims, failed statements, lost answers and shutdowns, but no process
\* dies and every file that is to be deleted can be deleted.
CONSTANTS
  Worker = {w1, w2}
  Generation = {g1, g2}
  Key = {k1, k2}
  NoGeneration = NoGeneration
  NoWorker = NoWorker
  Malformed = {g2}
  ChatTriggered = {g1}
  Lease = 1
  Skew = 1
  MaxOutputs = 1
  MaxTime = 4
  Faults = {"shutdown", "db", "reply", "commit"}
  MaxFaults = 1
SYMMETRY Symmetry
SPECIFICATION Spec
INVARIANT NoOrphanedFiles
PROPERTY ImplementsQueue
CHECK_DEADLOCK FALSE
