CONSTANTS
  Registrations = {r1}
  Recoveries = {}
  Retries = {}
  Deletions = {}
  SongDeletions = {s1}
  MaxFaults = 1
SPECIFICATION Spec
PROPERTIES SurvivesCrashes
CHECK_DEADLOCK FALSE
