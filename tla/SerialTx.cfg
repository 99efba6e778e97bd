SPECIFICATION FairSpec
CONSTANTS
  Byte = {b1, b2}
  STALE = STALE
  TX_MAX_SIZE = 4
INVARIANTS
  TestsStillHold
PROPERTIES
  ImplementsQueue
  KeepsSending
