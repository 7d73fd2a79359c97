CONSTANTS
  Bits <- const_Bits
  ENTRIES_PER_SECTOR = 3
  TornFlash = FALSE
SPECIFICATION DeviceSpec
INVARIANT LastStateIsRestored
