\* Three rows, two milliseconds of two ticks: ties and late commits happen.
CONSTANTS
  Row = {1, 2, 3}
  Kinds = {"projects", "conversations", "messages", "assets"}
  Limit = {1, 2}
  PerMs = 2
  MaxTime = 3
  MaxWrites = 6
SPECIFICATION Spec
INVARIANTS NothingSkipped NothingRepeated NoEmptyPage
PROPERTY ScrollingEnds
CHECK_DEADLOCK FALSE
