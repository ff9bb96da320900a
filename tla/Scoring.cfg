SPECIFICATION Signals
CONSTANTS
  Confidences <- MCConfidences
  Unscored = Unscored
INVARIANTS
  OutcomeFollowsPolicy
PROPERTY
  MoreNeverHurts
