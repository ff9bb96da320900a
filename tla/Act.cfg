SPECIFICATION Spec
CONSTANTS
  NoRow = NoRow
  Events = {e1, e2}
  Times = {1, 2}
  Requests = {r1, r2, r3}
  Contents = {ca}
  Queues = {q1, q2}
SYMMETRY Symmetric
INVARIANTS
  TypeOK
  ReceiptsReconcile
  RacesConfined
  NoTouchLost
  Traceable
PROPERTY
  ImplementsLedger
CHECK_DEADLOCK FALSE
