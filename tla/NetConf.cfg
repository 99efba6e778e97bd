SPECIFICATION NetFairSpec
CONSTANTS
  Address = {a1, a2}
  NoAddress = NoAddress
  PHY_RESET_TO = 1
  PHY_READ_TO = 3
  MAX_DHCP_TRIES = 4
  TicksPerSecond = 1
  TriesAtNull = 8
  MaxRefusals = 1
INVARIANTS
  AddedOnce
  WaitHasClient
  StatusIsTrue
PROPERTIES
  Settles
  ComesUp
