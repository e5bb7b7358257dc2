--------------------------- MODULE MCRoomSession ---------------------------
EXTENDS RoomSession, TLC, FiniteSetsExt

(***************************************************************************)
(* select_room_timing in outline: a conversation has the widest deadline    *)
(* (5), a singing room that of its slowest route, its ceiling (3) while one *)
(* is not measured, and the minimum (4 here, to tell it apart) without any. *)
(***************************************************************************)
Outline(routes, singing) ==
  LET measured == {r[2] : r \in routes}
  IN  IF routes = {} THEN 4
      ELSE IF ~singing THEN 5
      ELSE IF NotMeasured \in measured THEN 3
      ELSE Max(measured)

Symmetry == Permutations(People)

\* A room without a song: people come and go, stay away and host.
ComingsSpec == Init /\ [][Membership]_vars

\* The same, where a host who is away does not leave (its clock would run on for the next one),
\* and who is away does not go on reporting it: each report starts the grace anew.
OrderlySpec ==
  /\ Init
  /\ [][ /\ Membership
         /\ HostStays
         /\ ~\E p \in room.members \ Connected(room) : DisconnectParticipant(p) ]_vars
  /\ Fairness
=============================================================================
