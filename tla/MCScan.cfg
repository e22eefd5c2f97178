SPECIFICATION ScanSpec
CHECK_DEADLOCK FALSE
CONSTANTS
  Paths = {"doc", "adr", "src"}
  PathOrder <- MCPathOrder
  NoFile = NoFile
  LinesOf <- MCLines
  ADRs = {"adr"}
  Guides = {"doc"}
  Annotated = {"src"}
  DocModule <- MCDocModule
  Global = Global
  InModule <- MCInModule
  SlugOf <- MCSlug
  CommitWindow = 2
  Repositories <- MCRepositories
  Edits <- MCEdits
  Renames <- MCRenames
  Skipped = {}
  Unwatched = {"doc"}
  ImportsOf <- MCImports
  EntityBatch = 2
  RelationBatch = 2
  MaxWalk = 3
  MaxChanges = 2
  MaxScans = 2
INVARIANT RenamesAreRecorded
