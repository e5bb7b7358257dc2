SPECIFICATION Spec
CONSTANTS
  People = {a, b}
  Songs = {s}
  NoSong = NoSong
  Routes = {1, 2}
  NotMeasured = 0
  Timings = {1, 2, 3, 4, 5}
  NoTiming = 0
  SelectTiming <- Outline
SYMMETRY Symmetry
INVARIANTS OneHost PerformanceKeepsItsDeadline
PROPERTIES DeadlineFrozen ReadyRoomStarts
CHECK_DEADLOCK FALSE
