CONSTANTS
  Generations = {g}
  Saves = {s}
  Migrations = {m}
  Packages = {p1, p2}
  Second = p2
  SongImports = {i}
  Deletions = {d}
  MaxRevision = 3
  MaxCrashes = 1
  NoOp = NoOp
  Nothing = Nothing
SPECIFICATION InstanceSpec
INVARIANTS CommittedIsOnDisk
PROPERTIES OlderNeedsConsent StartRestoresOrder KeepsItsPromises SongIsFreeAgain
CHECK_DEADLOCK FALSE
