CONSTANTS
  SongJobs = {s1, s2}
  MelodyJobs = {}
  PlainJobs = {}
  Songs = {a, b}
  Workers = 2
  Capacity = 1
  Leases = 1
  NoJob = NoJob
SPECIFICATION Spec
INVARIANTS
  SongOwnedOnce
  LeasesCoverWork
  RemovalIsQuiet
  SongNotAbandoned
  OutcomeMatchesPublication
  CancelledNeverWorks
  TurnsFollowTheQueue
PROPERTY
  Lifecycle
SYMMETRY Perms
