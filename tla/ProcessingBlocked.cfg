CONSTANTS
  SongJobs = {s1, s2}
  MelodyJobs = {m1}
  PlainJobs = {}
  Songs = {a, b, c}
  Workers = 2
  Capacity = 3
  Leases = 1
  NoJob = NoJob
SPECIFICATION MCUndisturbed
PROPERTY
  AcceptedJobsEnd
CHECK_DEADLOCK FALSE
