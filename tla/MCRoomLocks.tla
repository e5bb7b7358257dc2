----------------------------- MODULE MCRoomLocks -----------------------------
EXTENDS RoomLocks

\* Every request that came in is worked on.
ServedSpec == LocksSpec /\ LocksFairness
=============================================================================
