CONSTANTS
  Generations = {}
  Saves = {s}
  Migrations = {}
  Packages = {p}
  SongImports = {}
  Deletions = {}
  MaxRevision = 2
  MaxCrashes = 0
  NoOp = NoOp
  Nothing = Nothing
SPECIFICATION Spec
PROPERTIES NewerStaysOnReimport
CHECK_DEADLOCK FALSE
