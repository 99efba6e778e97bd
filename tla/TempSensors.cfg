SPECIFICATION Spec
CONSTANTS
  SENSORS = 3
  SMPS = 2
  Value = {0, 1}
  HOLD = 3
  MAX_STREAK = 5
INVARIANTS
  FollowsTheScans
  PublishedIsHottest
PROPERTY
  Debounced
