SPECIFICATION EventsSpec
CHECK_DEADLOCK FALSE
CONSTANTS
  Parts = {"serve"}
  Retrieved <- MCRetrieved
  x = x
  y = y
  z = z
  s1 = s1
  c1 = c1
  c2 = c2
  Nodes <- MCNodes
  Links <- MCLinks
  LinkOrder <- MCLinkOrder
  ReverseOrder <- MCReverseOrder
  Starts = {x, y, z}
  Searches <- MCSearches
  Times = {1, 2}
  Written <- MCWritten
  MaxAppends = 3
  Requests <- MCRequests
  Path <- MCPath
  Dir <- MCDir
  Severity <- MCSeverity
  Words <- MCWords
  Recency <- MCRecency
  Handlers = {h1, h2}
  Sessions = {s1}
  Calls = {c1, c2}
  Responses <- MCResponses
  BufferSize = 2
  MaxBatch = 2
  MaxFailures = 2
INVARIANT SendNeverPanics
