SPECIFICATION FairSpec
CONSTANTS
  Prefix = {pre}
  NormalName = {normal}
  SetName = {set}
  InputName = {}
  END = END
  NONE = NONE
  MAX_COMMAND = 3
  RX_MAX_SIZE = 2
INVARIANTS
  StartsClean
PROPERTIES
  OwnCommand
  Served
