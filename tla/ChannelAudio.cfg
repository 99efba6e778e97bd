\* Volumes at both ends of the range, on both sides of 10, where the rows of the
\* table change, and below and at its largest value; balances at the centre, beside
\* it, at both ends and beyond.
CONSTANTS
  VolumeValue = {0, 1, 9, 16, 32, 96, 97}
  BalanceValue = {0, 1, 14, 15, 16, 29, 30, 31}
  BalanceArg = {0, 1, 14, 15, 16}
  StoredBalance = 15
  StrayByte = {0, 12, 255}
SPECIFICATION Spec
INVARIANTS ChipFollows TurnsDownOnly CellsHoldVolumes
PROPERTIES BalanceKeepsVolume
