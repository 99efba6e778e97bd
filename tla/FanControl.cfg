SPECIFICATION Spec
CONSTANTS
  Temp = {0, 1, 2, 3, 4}
  Limits <- MCLimits
  NewLimit = {1}
  PERIOD = 2
  U8 = 4
INVARIANTS
  HighNeedsLow
  FollowsDemand
PROPERTY
  NoChatter
