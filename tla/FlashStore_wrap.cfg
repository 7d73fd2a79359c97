\* A power cut between the erase of a full sector and the next program.
CONSTANTS
  Bits <- const_Bits
  ENTRIES_PER_SECTOR = 3
  TornFlash = FALSE
SPECIFICATION Spec
PROPERTY CommitIsAtomic
