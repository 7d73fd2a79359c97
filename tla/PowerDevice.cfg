\* Power may fail between flash operations, never inside one.
CONSTANTS
  Bits <- const_Bits
  ENTRIES_PER_SECTOR = 4
  TornFlash = FALSE
SPECIFICATION DeviceSpec
INVARIANTS
  DeviceTypeOK
  EntryIsDurable
  ProgramsBlankPage
  ErasesOnlyFullSector
  CommandedLevelSurvives
  CompletedOffStaysOff
PROPERTY ImplementsDurableSettings
