SPECIFICATION ProgramSpec
CHECK_DEADLOCK FALSE
CONSTANTS
  Parts = {"keys", "text", "query", "fts", "migrate", "backfill", "pool", "scan"}
  a = a
  b = b
  d = d
  e1 = e1
  e2 = e2
  none = none
  IDs <- MCIDs
  VersionDigits = 2
  Versions <- MCVersions
  Words <- MCWords
  Width = 4
  Lists <- MCLists
  Segments <- MCSegments
  Schema <- MCSchema
  Indexed <- MCIndexed
  NotNumber = none
  Nil <- MCNil
  ValueOf <- MCValueOf
  IntegerOf <- MCIntegerOf
  Timestamps = {"today"}
  Holds <- MCHolds
  Reachable <- MCReachable
  Strings <- MCStrings
  Queries <- MCQueries
  Tables <- MCTables
  Terms = {"t"}
  MaxDocs = 3
  Readers = {"r"}
  MaxSearches = 1
  MergeWhileActive = FALSE
  Nodes = {a, b, d}
  Links <- MCLinks
  Times = {1}
  Written = {}
  MaxAppends = 3
  LegacyKn <- MCKn
  LegacyRel <- MCRel
  LegacyNt <- MCNt
  LegacyEl = {e1, e2}
  MigrateBatch = 2
  MaxAlters = 2
  MaxCrashes = 2
  Keys = {1, 2, 3}
  Values = {"v"}
  Default = "d"
  BatchSize = 2
  MaxWrites = 2
  MinPages = 2
  MaxPages = 13
  StartPages = 5
  ShrinkConsecutive = 10
  Activity <- MCActivity
  Paths = {"doc", "adr", "src"}
  PathOrder <- MCPathOrder
  NoFile = NoFile
  LinesOf <- MCLines
  ADRs = {"adr"}
  Guides = {"doc"}
  Annotated = {"src"}
  DocModule <- MCDocModule
  Global = Global
  InModule <- MCInModule
  SlugOf <- MCSlug
  CommitWindow = 2
  Repositories <- MCRepositories
  Edits <- MCEdits
  Renames <- MCRenames
  Skipped = {}
  Unwatched = {"doc"}
  ImportsOf <- MCImports
  EntityBatch = 2
  RelationBatch = 2
  MaxWalk = 3
  MaxChanges = 2
  MaxScans = 2
INVARIANTS
  KeysAreExact
  TextSurvives
  QueriesAreExact
  SearchesAreExact
  MigrationsHold
  BackfillIsComplete
  ScanRecordsRepository
PROPERTIES
  ShrinkIsDamped
  HistoryOnlyGrows
  PoolReachesItsEnd
