SPECIFICATION PagesSpec
CONSTANTS
  Parts = {"tree", "pool", "compact"}
  NumKeys = 17
  OpKeys <- MCOpKeys
  LongKeys = {}
  LongExtra = 0
  Values <- MCValues
  Shapes <- MCShapes
  NumPages = 13
  MaxCellArea = 9
  Underflow = 4
  MaxOps = 3
  Pages = {p1, p2, p3, p4}
  Capacities = {0, 2, 3}
  MaxPins = 2
  MaxVersion = 1
  PairKeys = {"j", "k"}
  Vals = {"u"}
  Absent = "none"
  KeyOrder <- MCKeyOrder
  CopyBatch = 2
  MaxWrites = 3
  MaxCompacts = 2
  MaxCrashes = 1
  MaxSegment = 3
  IOMayFail = TRUE
SYMMETRY MCSymmetry
INVARIANTS
  TreeServesMap
  TreeKeepsShape
  RingMatchesFrames
  NoLostUpdate
  CompactKeepsPairs
  PinFindsRoom
PROPERTY PinnedStays
