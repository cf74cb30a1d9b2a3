\* Two pairs: two sessions, or one that is refreshed.  The clock runs past the
\* end of a session; one kind of failure in each run.
CONSTANTS
  Pair = {p1, p2}
  NoPair = NoPair
  Request = {r1, r2}
  Second = 2
  AccessTtl = 3
  SessionTtl = 5
  MaxTime = 6
  Faults = {"crash", "db", "reply"}
  MaxFaults = 1
SYMMETRY Symmetry
SPECIFICATION Spec
INVARIANTS OneLiveRefresh SessionNeverExtended
PROPERTY LogoutFinal
CHECK_DEADLOCK FALSE
