SPECIFICATION Spec
CONSTANTS
  Admin = Admin
  Joiners = {j1, j2}
  NoOne = NoOne
  NoMaterial = NoMaterial
  FetchLimit = 3
  SegmentCapacity = 4
  MaxEpoch = 3
  MaxKey = 6
  MaxHeads = 3
  MaxQueue = 2
  MaxComments = 1
SYMMETRY Symmetry
CONSTRAINT PlainIsLonger
CHECK_DEADLOCK FALSE
INVARIANTS
  TypeOK
  ForwardOnlyWindow
  RemovalRekeys
  HeadEpochsNeverDecrease
  NoOrphans
  FullGrantReadsAll
