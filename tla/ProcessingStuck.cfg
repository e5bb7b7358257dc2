CONSTANTS
  SongJobs = {s1}
  MelodyJobs = {}
  PlainJobs = {}
  Songs = {a}
  Workers = 1
  Capacity = 1
  Leases = 1
  NoJob = NoJob
SPECIFICATION Spec
INVARIANT
  SongNeverStuck
