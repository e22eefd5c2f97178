SPECIFICATION PagesSpec
CONSTANTS
  Parts = {"tree"}
  NumKeys = 6
  OpKeys = {1, 2, 3, 4, 5, 6}
  LongKeys = {2, 4, 5}
  LongExtra = 2
  Values <- MCValues
  Shapes <- NoShapes
  NumPages = 10
  MaxCellArea = 9
  Underflow = 2
  MaxOps = 6
  Pages = {p1, p2, p3, p4}
  Capacities = {0, 2, 3}
  MaxPins = 2
  MaxVersion = 1
  PairKeys = {"j", "k"}
  Vals = {"u"}
  Absent = "none"
  KeyOrder <- MCKeyOrder
  CopyBatch = 2
  MaxWrites = 3
  MaxCompacts = 2
  MaxCrashes = 1
  MaxSegment = 3
  IOMayFail = TRUE
INVARIANT NodesFit
