SPECIFICATION FairSpec
CONSTANTS
  N = 3
  factory = factory
  better = better
  broken = broken
  NoImage = NoImage
  Factory = factory
  Images <- const_Images
  Healthy <- const_Healthy
  Size <- const_Size
INVARIANTS TypeOK RunsWholeImage
PROPERTY ImplementsContract
PROPERTY AlwaysRecovers
