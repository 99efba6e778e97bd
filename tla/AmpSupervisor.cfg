SPECIFICATION Spec
CONSTANTS
  A = A
  B = B
  Channel <- MCChannel
  ALL_CHANNEL = ALL_CHANNEL
  PowerOption = {0, 1, 2}
  Temp = {0, 2}
  ShutdownTemp = {1}
  CommandTemp = {1, 2, 3}
  MAX_TEMP = 3
  AMP_CHECK_TIME = 2
  NOISE_TIME = 1
  TIMER_SIGNAL_OFF_TIME = 1
  INITIALIZE_TIME = 2
  U8 = 8
SYMMETRY Symmetry
INVARIANTS
  Interlock
  ReactsInTime
  SleepsForLackOfSignal
  HotIsProtected
