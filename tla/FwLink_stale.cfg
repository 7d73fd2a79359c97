SPECIFICATION FairSpec
CONSTANTS
  longer = longer
  shorter = shorter
  None = None
  Images <- const_Images
  Size <- const_Size
  MaxSize = 3
  ChunkUnits = 2
  WireUnits = 4
  KeepsAnswers = TRUE
  MaxFaults = 1
PROPERTY RetriesSucceed
