SPECIFICATION OrderlySpec
CONSTANTS
  People = {a, b, c}
  Songs = {s}
  NoSong = NoSong
  Routes = {1}
  NotMeasured = 0
  Timings = {1, 2, 3, 4, 5}
  NoTiming = 0
  SelectTiming <- Outline
PROPERTIES FailoverGoesToTheOldestConnected AuthorityReturns
CHECK_DEADLOCK FALSE
