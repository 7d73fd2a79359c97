SPECIFICATION FairSpec
CONSTANTS
  a = a
  u = u
  NL = NL
  Space = Space
  Letters <- const_Letters
  Others <- const_Others
  Updates <- const_Updates
  RX_LINE_SIZE = 3
  CHUNK = 2
  RingSize = 2
  FifoSize = 1
  MaxRead = 2
  MaxBytes = 5
INVARIANTS
  TypeOK
  UsedOnceInOrder
  LinesAreHeard
PROPERTY LoopReturns
