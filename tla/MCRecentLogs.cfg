\* Three slots, seven lines: the array wraps twice.
CONSTANTS
  Capacity = 3
  RequestId = {"r1", "r2"}
  Word = {"slow"}
  None = None
  Lines <- MCLines
  Queries <- MCQueries
  MaxId = 7
SPECIFICATION Spec
INVARIANT NewestMatching
PROPERTY ImplementsWindow
CHECK_DEADLOCK FALSE
