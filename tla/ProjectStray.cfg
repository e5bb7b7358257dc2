CONSTANTS
  Generations = {}
  Saves = {s}
  Migrations = {}
  Packages = {}
  SongImports = {}
  Deletions = {d}
  MaxRevision = 2
  MaxCrashes = 1
  NoOp = NoOp
  Nothing = Nothing
SPECIFICATION Spec
PROPERTIES StartRollsBack
CHECK_DEADLOCK FALSE
