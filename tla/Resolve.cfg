SPECIFICATION Spec
CONSTANTS
  Requests = {r1, r2, r3, r4}
  Events = {e1, e2}
  Keys = {k}
  Names = {n1}
  Alike <- MCAlike
  None = None
SYMMETRY Symmetric
INVARIANTS
  TypeOK
  TablesReconcile
  NeverAutoMerged
  AnswersHold
  AloneIsUnique
PROPERTIES
  ImplementsLife
CHECK_DEADLOCK FALSE
