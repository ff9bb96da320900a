SPECIFICATION FairSpec
CONSTANTS
  Last = 4
  AtOnce = 2
  Payloads = {"keyed", "named"}
  Holders = {"a"}
  Strangers = {"s"}
  From <- MCFrom
  Fresh <- MCFresh
INVARIANTS
  TypeOK
  AnswersHold
  StrandedOnlyByDeath
  LeadsEarned
  OneLeadUnlessMoved
PROPERTIES
  ImplementsLife
  SettlesUnlessDeath
CHECK_DEADLOCK FALSE
