SPECIFICATION Spec
CONSTANTS
  Bits <- const_Bits
  PAGE_SIZE = 2
  SECTOR_SIZE = 4
  SIZE = 8
  U32 = 12
  MaxLen = 4
INVARIANTS StaysOnChip WritesExactly ErasesExactly
