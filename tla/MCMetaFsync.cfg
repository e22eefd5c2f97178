SPECIFICATION OpenSpec
CONSTANTS
  Parts = {"meta"}
  MaxGen = 6
  MaxSwaps = 6
  IOFailures = {"sync"}
  MaxRecords = 5
  MaxSegment = 3
  MaxBatch = 2
  Failures = {"write", "sync"}
  Proc = {p1, p2, p3}
  Inode = {i1, i2, i3, i4}
  None = None
  p1 = p1
  p2 = p2
  p3 = p3
  i1 = i1
  i2 = i2
  i3 = i3
  i4 = i4
  Chunk = 5
  ReserveTarget = 1
  ReservePages = 2
  MaxPages = 10
  MaxOwned = 3
  MayKill = TRUE
  MaxRestarts = 2
  SyncMayFail = TRUE
INVARIANT SwapIsSelected
