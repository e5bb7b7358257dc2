----------------------------- MODULE MCRoomWatch -----------------------------
EXTENDS RoomWatch

CommandsOfApps == \E w \in Apps : Change(w)
ShowingFails   == \E w \in Apps : ShowFails(w)

\* Everything, fairly scheduled.
FairSpec == Spec /\ Fairness

\* The apps only watch, and every snapshot they get can be shown; the server may be restarted.
RestartingSpec == Init /\ [][Next /\ ~CommandsOfApps /\ ~ShowingFails]_vars /\ Fairness
=============================================================================
