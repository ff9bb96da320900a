SPECIFICATION FairSpec
CONSTANTS
  Routes = {x1, x2}
  Readers = {u, v}
  Hours = {1, 2}
  MaxClock = 3
  NoRoute = NoRoute
INVARIANTS
  TypeOK
  
  AnsweredReadsEscalate
PROPERTY
  EveryReadEnds
CHECK_DEADLOCK FALSE
