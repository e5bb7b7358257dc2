CONSTANTS
  Generations = {}
  Saves = {}
  Migrations = {}
  Packages = {p1, p2}
  SongImports = {}
  Deletions = {}
  MaxRevision = 3
  MaxCrashes = 0
  NoOp = NoOp
  Nothing = Nothing
SPECIFICATION Spec
PROPERTIES NewerStays
CHECK_DEADLOCK FALSE
