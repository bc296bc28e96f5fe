SPECIFICATION AccessSpec
CONSTANTS
  Base = 2
  Channels = {1}
  MaxIndex = 3
  MaxBytes = 2
INVARIANTS
  VdmaTypeOK
  NoTornRead
  NoTornWrite
  ProgressShown
