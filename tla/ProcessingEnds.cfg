CONSTANTS
  SongJobs = {s1, s2}
  MelodyJobs = {m1}
  PlainJobs = {p1}
  Songs = {a, b, c, d}
  Workers = 2
  Capacity = 3
  Leases = 1
  NoJob = NoJob
SPECIFICATION MCEnds
PROPERTIES JobsEndUnlessReserved ShutdownDrains
CHECK_DEADLOCK FALSE
