SPECIFICATION Spec
CONSTANTS
  Stored <- MCStored
  StoredAddress = {7}
  ThresholdValue = {1}
  VolumeValue = {30}
  AddressValue = {9}
INVARIANTS
  ResetIsComplete
  CellsInRange
  RamMatchesEeprom
  HysteresisAfterBoot
PROPERTIES
  BootIsRepeatable
