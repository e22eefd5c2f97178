SPECIFICATION CrashSpec
CONSTANTS
  NumKeys = 5
  OpKeys = {1, 4, 5}
  LongKeys = {}
  LongExtra = 0
  Values <- MCValues
  Shapes <- MCShapes
  NumPages = 5
  MaxCellArea = 9
  Underflow = 4
  MaxOps = 2
INVARIANT
  CrashKeepsCommitted
