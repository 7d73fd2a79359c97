SPECIFICATION FairSpec
CONSTANTS
  longer = longer
  shorter = shorter
  None = None
  Images <- const_Images
  Size <- const_Size
  MaxSize = 3
  ChunkUnits = 2
  WireUnits = 4
  KeepsAnswers = FALSE
  MaxFaults = 5
INVARIANTS
  TypeOK
  SuccessMeansMarked
  FlowControl
  FirstTrySucceeds
PROPERTIES
  SessionsEnd
  RetriesSucceed
