SPECIFICATION FairSpec
CONSTANTS
  Requests = {r1, r2, r3}
  MaxAttempts = 2
  MaxVersion = 2
  Short = {2}
INVARIANTS
  TypeOK
  QueueReconciles
  ResolvedAfterAct
  AloneIsCoherent
PROPERTIES
  EveryRunEnds
CHECK_DEADLOCK FALSE
