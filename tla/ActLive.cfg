SPECIFICATION FairSpec
CONSTANTS
  NoRow = NoRow
  Events = {e1, e2}
  Times = {1, 2}
  Requests = {r1, r2}
  Contents = {ca}
  Queues = {q1}
PROPERTY
  EveryActEnds
CHECK_DEADLOCK FALSE
