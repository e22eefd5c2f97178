SPECIFICATION Spec
CONSTANTS
  k1 = k1  k2 = k2  pageA = pageA  pageB = pageB
  Absent = Absent
  Unread = Unread
  Keys = {k1, k2}
  Vals = {v1, v2}
  Pages = {pageA, pageB}
  PageOf <- MCPageOf
  Readers = {}
  GroupCommit = {FALSE}
  IOMayFail = FALSE
  MaxTx = 2
  MaxLog = 3
  MaxCrash = 2
SYMMETRY Symmetry
INVARIANTS
  CrashRecoversMemory
PROPERTY CrashStateIsKVStore
