SPECIFICATION Spec
CONSTANTS
  Requests = {r1, r2, r3}
  MaxAttempts = 1
  MaxVersion = 2
  Short = {}
SYMMETRY Symmetric
INVARIANT FailureStaysListed
CHECK_DEADLOCK FALSE
