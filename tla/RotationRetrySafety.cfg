SPECIFICATION FairSpec
CONSTANTS
  Requests = {r1, r2}
  Nobody = Nobody
  Nothing = Nothing
  RotationWait = 1
  RejectionCooldown = 1
  MaxToken = 2
INVARIANTS
  RetryMovesForward
  RotationInTimeIsUsed
PROPERTIES
  EveryRequestEnds
