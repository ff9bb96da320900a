SPECIFICATION Spec
CONSTANTS
  NoRow = NoRow
  e1 = e1
  e2 = e2
  e3 = e3
  Copies = {left, right}
  ca = ca
  cb = cb
  Times <- MCTimes
  Contents <- MCContents
  Events <- MCEvents
  Original <- MCOriginal
INVARIANTS
  TimesFollowSeen
CHECK_DEADLOCK FALSE
