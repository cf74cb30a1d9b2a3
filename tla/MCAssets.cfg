\* Two assets, two requesters, two kinds of failure.
CONSTANTS
  Asset = {a1, a2}
  Request = {r1, r2}
  Faults = {"crash", "db", "reply", "write", "unlink"}
  MaxFaults = 2
SYMMETRY Symmetry
SPECIFICATION Spec
INVARIANTS AssetsIntact DeletionsHonest AttachmentsKept FilesAccountedFor
CHECK_DEADLOCK FALSE
