SPECIFICATION FairSpec
CONSTANTS
  TCP_CLIENT_NUM = 2
  Pcb = {p1, p2}
  NULL = NULL
  TCP_SND_BUF_LEN = 2
  MaxMessage = 2
  TCP_SND_BUF = 2
  TCP_MSS = 1
  MEMP_NUM_TCP_SEG = 2
INVARIANTS RingAgrees EveryClientHasSlot StaleOnlyUntilCheck
PROPERTIES SharedOnlyAfterReuse WaitingBytesLeave
