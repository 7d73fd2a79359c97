\* Torn erases and programs: the damage lasts until the next completed erase.
CONSTANTS
  Bits <- const_Bits
  ENTRIES_PER_SECTOR = 2
  TornFlash = TRUE
SPECIFICATION Spec
INVARIANTS TypeOK DurableUnlessDamaged
