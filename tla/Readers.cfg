SPECIFICATION ReadersSpec
CONSTANTS
  Offsets = {0, 1}
  Indices = {0, 1}
  UnitBases = {0, 7}
  MaxEntries = 3
  Pcs = {1}
  FrameSizes = {16, 32}
  None = None
  Elsewhere = Elsewhere
  AddrSize = 8
  MaxRecords = 3
  GroupBits = 2
  IntBits = 5
  ResultBits = 9
  MaxBytes = 5
  address_size_ = 8
  MaxOps = 3
INVARIANTS
  ListsMeant
  FramesMeant
  NumbersMeant
  OpsInTurn
  ConstantsMeant
  ElementGiven
CHECK_DEADLOCK FALSE
