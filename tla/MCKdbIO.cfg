SPECIFICATION Spec
CONSTANTS
  k1 = k1  k2 = k2  pageA = pageA  pageB = pageB
  Absent = Absent
  Unread = Unread
  Keys = {k1, k2}
  Vals = {v1}
  Pages = {pageA, pageB}
  PageOf <- MCPageOf
  Readers = {r1}
  GroupCommit = {FALSE, TRUE}
  IOMayFail = TRUE
  MaxTx = 2
  MaxLog = 2
  MaxCrash = 1
SYMMETRY Symmetry
INVARIANTS
  AckedUpdatesSurvive
  ViewNotStale
