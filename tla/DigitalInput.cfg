\* A byte of ten values: it wraps within a pass that overruns.
CONSTANTS
  U8 = 10
  TIME10MS = 3
  LoopTime = 3
  PLL_CHECK_TIME = 3
SPECIFICATION InputSpec
INVARIANTS CellTellsInput FollowsSignal OnTime
PROPERTIES GapIsBridged NeverEarly
