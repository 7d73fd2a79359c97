\* Power may also fail in the middle of an erase or of a program.
CONSTANTS
  Bits <- const_Bits
  ENTRIES_PER_SECTOR = 2
  TornFlash = TRUE
SPECIFICATION Spec
INVARIANT EntryIsDurable
