\* One turn, two workers and one client that polls until it may stop.
CONSTANTS
  Turn = {t1}
  MaxDeltas = 2
  Faults = {"crash", "db", "reply"}
  MaxFaults = 2
  Worker = {w1, w2}
  NoWorker = NoWorker
  Message = {m1, m2}
  NoMessage = NoMessage
SPECIFICATION MediaSpec
INVARIANTS EventOrder EventsDurable AnsweredOnce NoStrandedRun AlwaysExplained
PROPERTIES EveryTurnEnds NeverTakenBack PollingSuffices
CHECK_DEADLOCK FALSE
