\* Two batches of images, or a video polled from 2 to 10 seconds in tenths.
CONSTANTS
  MaxOutputs = 4
  Concurrency = 2
  PollInterval = 20
  PollCeiling = 100
  MaxAttempts = 5
SPECIFICATION Spec
INVARIANTS KeepsSuccesses NothingLeftBehind FailureExplained
PROPERTIES PollsBackOff StopsAsking AlwaysAnswered
CHECK_DEADLOCK FALSE
