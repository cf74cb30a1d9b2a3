\* A poll that reads the run before and the generation after its completion.
CONSTANTS
  Turn = {t1}
  MaxDeltas = 0
  Faults = {}
  MaxFaults = 0
  Worker = {w1}
  NoWorker = NoWorker
  Message = {m1}
  NoMessage = NoMessage
SPECIFICATION MediaSpec
INVARIANT CompletedHasMessage
CHECK_DEADLOCK FALSE
