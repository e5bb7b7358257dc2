CONSTANTS
  Registrations = {r1, r2}
  Recoveries = {v1}
  Retries = {t1}
  Deletions = {d1}
  SongDeletions = {s1}
  MaxFaults = 2
SPECIFICATION Spec
INVARIANTS TakeIsFindable RemovalIsAlone
PROPERTIES NothingLost PreparingEnds
CHECK_DEADLOCK FALSE
