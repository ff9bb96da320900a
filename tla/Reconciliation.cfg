SPECIFICATION Spec
CONSTANTS
  Writers = {w1, w2, w3}
  Events = {e1, e2}
  MaxClock = 2
  None = None
SYMMETRY Symmetric
INVARIANTS
  TypeOK
  QuietReportsAgree
  PartsCoverTotal
CHECK_DEADLOCK FALSE
