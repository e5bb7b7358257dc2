CONSTANTS
  RoomIds = {r1, r2}
  NoRoom = NoRoom
  Grace = 2
  MaxSockets = 3
  MaxRestarts = 1
SPECIFICATION PresenceSpec
PROPERTIES WholeGrace ClosedAppLeaves
CHECK_DEADLOCK FALSE
