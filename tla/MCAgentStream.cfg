\* Two parts, two heartbeats that pile up, every failure.
CONSTANTS
  MaxParts = 2
  MaxPings = 2
  Faults = {"refuse", "cut", "garble"}
SPECIFICATION Spec
INVARIANTS OneEventWaits QuietAfterEnd
PROPERTIES ImplementsDelivery HandlerEnds TimeoutStopsAgent
CHECK_DEADLOCK FALSE
