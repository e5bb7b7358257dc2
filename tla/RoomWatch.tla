------------------------------ MODULE RoomWatch ------------------------------
(***************************************************************************)
(* How the apps in a room learn of its changes.  The server stores a change *)
(* and then publishes it by raising the version of the room, which it keeps *)
(* in memory only (ObservableRoomRepository).  Each app asks for changes    *)
(* after the version it remembers, the server holds the request until there *)
(* is one or a timeout, and the app shows what it gets (watchRoom).  The    *)
(* answer to a command of the app carries the room as well, but no version. *)
(* The room is the number of its changes.                                   *)
(***************************************************************************)
EXTENDS Naturals

CONSTANTS
  Apps,        \* the apps whose watch is followed
  Elsewhere,   \* who else changes the room: another app, or the server
  MaxChanges,  \* bound of the changes
  MaxFaults    \* bound of lost answers and server restarts together

ASSUME ElsewhereAssumption == Elsewhere \notin Apps

VARIABLES
  open,        \* the room is stored
  stored,      \* its changes
  members,     \* the apps that are participants of it
  publishing,  \* whose change is stored and not yet published
  versions,    \* the version of the room in the memory of the server
  phase,       \* where the watch of each app is
  answer,      \* what the request of each app has got so far
  reply,       \* the room in the answer to a command of the app, or 0
  seen,        \* the version each app remembers
  shown,       \* the room it shows
  status,      \* and the connection it shows
  faults

vars == <<open, stored, members, publishing, versions, phase, answer, reply, seen, shown, status, faults>>

AtServer == {"Asked", "Waiting", "Woken"}
Coming   == {"Answered", "NotFound", "Forbidden"}
Phase    == AtServer \cup Coming \cup {"Ready", "Paused", "Stopped"}

\* No room in an answer is the room 0.
Answer == [version : Nat, room : Nat, member : BOOLEAN]

TypeOK ==
  /\ open \in BOOLEAN
  /\ stored \in Nat
  /\ members \in SUBSET Apps
  /\ publishing \in {{}} \cup {{a} : a \in Apps \cup {Elsewhere}}
  /\ versions \in Nat
  /\ phase \in [Apps -> Phase]
  /\ answer \in [Apps -> Answer]
  /\ reply \in [Apps -> Nat]
  /\ seen \in [Apps -> Nat]
  /\ shown \in [Apps -> Nat]
  /\ status \in [Apps -> {"connected", "reconnecting", "closed", "removed"}]
  /\ faults \in Nat

server == <<open, stored, members, publishing, versions>>

Move(w, from, to) == phase[w] = from /\ phase' = [phase EXCEPT ![w] = to]

---------------------------------------------------------------------------
(* The server: the lock of the room lets in one command at a time.         *)

Store(a) ==
  /\ open /\ publishing = {} /\ stored < MaxChanges
  /\ stored' = stored + 1
  /\ publishing' = {a}
  /\ UNCHANGED <<versions, phase, answer, reply, seen, shown, status, faults>>

Change(a) ==
  /\ a \in Apps => a \in members /\ reply[a] = 0 /\ phase[a] # "Stopped"
  /\ Store(a)
  /\ UNCHANGED <<open, members>>

\* The host or RoomDepartures takes the participant out.
Remove(w) ==
  /\ w \in members
  /\ members' = members \ {w}
  /\ Store(Elsewhere)
  /\ UNCHANGED open

Close ==
  /\ open' = FALSE
  /\ Store(Elsewhere)
  /\ UNCHANGED members

\* The version is raised, and the command that changed the room answers.
Publish ==
  /\ publishing # {}
  /\ versions' = versions + 1
  /\ reply' = [w \in Apps |-> IF w \in publishing THEN stored ELSE reply[w]]
  /\ publishing' = {}
  /\ UNCHANGED <<open, stored, members, phase, answer, seen, shown, status, faults>>

\* room_member: who is not in a stored room does not wait for it.
Admit(w) ==
  /\ \/ open /\ w \in members /\ Move(w, "Asked", "Waiting")
     \/ open /\ w \notin members /\ Move(w, "Asked", "Forbidden")
     \/ ~open /\ Move(w, "Asked", "NotFound")
  /\ UNCHANGED <<server, answer, reply, seen, shown, status, faults>>

\* wait_for_change returns the version, when it is new ...
Wake(w) ==
  /\ versions > seen[w]
  /\ Move(w, "Waiting", "Woken")
  /\ answer' = [answer EXCEPT ![w].version = versions]
  /\ UNCHANGED <<server, reply, seen, shown, status, faults>>

\* ... or at its timeout.
TimesOut(w) ==
  /\ Move(w, "Waiting", "Woken")
  /\ answer' = [answer EXCEPT ![w].version = versions]
  /\ UNCHANGED <<server, reply, seen, shown, status, faults>>

\* The room is read after the wait.
Read(w) ==
  /\ Move(w, "Woken", "Answered")
  /\ answer' = [answer EXCEPT ![w].room = IF open THEN stored ELSE 0,
                              ![w].member = (w \in members)]
  /\ UNCHANGED <<server, reply, seen, shown, status, faults>>

---------------------------------------------------------------------------
(* The app.                                                                *)

Ask(w) ==
  /\ Move(w, "Ready", "Asked")
  /\ UNCHANGED <<server, answer, reply, seen, shown, status, faults>>

\* Mutant: only the next version is news.
NewsInOrder(w) ==
  phase[w] = "Answered" /\ answer[w].room # 0 /\ answer[w].version = seen[w] + 1

News(w) == phase[w] = "Answered" /\ answer[w].room # 0 /\ answer[w].version > seen[w]

\* Mutant: the version the server has by now is remembered.
ShowLatest(w) ==
  /\ News(w)
  /\ seen' = [seen EXCEPT ![w] = versions]
  /\ Move(w, "Answered", "Ready")
  /\ shown' = [shown EXCEPT ![w] = answer[w].room]
  /\ status' = [status EXCEPT ![w] = "connected"]
  /\ UNCHANGED <<server, answer, reply, faults>>

\* The snapshot is shown, or tells the app that it is no longer in the room.
Show(w) ==
  /\ News(w)
  /\ seen' = [seen EXCEPT ![w] = answer[w].version]
  /\ \/ /\ answer[w].member
        /\ Move(w, "Answered", "Ready")
        /\ shown' = [shown EXCEPT ![w] = answer[w].room]
        /\ status' = [status EXCEPT ![w] = "connected"]
     \/ /\ ~answer[w].member
        /\ Move(w, "Answered", "Stopped")
        /\ status' = [status EXCEPT ![w] = "removed"]
        /\ UNCHANGED shown
  /\ UNCHANGED <<server, answer, reply, faults>>

\* voice.synchronize failed for the snapshot, whose version is already remembered.
ShowFails(w) ==
  /\ News(w) /\ answer[w].member
  /\ faults < MaxFaults /\ faults' = faults + 1
  /\ seen' = [seen EXCEPT ![w] = answer[w].version]
  /\ Move(w, "Answered", "Ready")
  /\ status' = [status EXCEPT ![w] = "reconnecting"]
  /\ UNCHANGED <<server, answer, reply, shown>>

NoNews(w) ==
  /\ ~News(w) /\ answer[w].room # 0
  /\ Move(w, "Answered", "Ready")
  /\ UNCHANGED <<server, answer, reply, seen, shown, status, faults>>

\* Mutant: only an answer tells that the room was closed.
ClosedByAnswer(w) ==
  /\ answer[w].room = 0 /\ Move(w, "Answered", "Stopped")
  /\ status' = [status EXCEPT ![w] = "closed"]
  /\ UNCHANGED <<server, answer, reply, seen, shown, faults>>

\* The room was closed: told by the answer, or by the error of the request.
Closed(w) ==
  /\ \/ answer[w].room = 0 /\ Move(w, "Answered", "Stopped")
     \/ Move(w, "NotFound", "Stopped")
  /\ status' = [status EXCEPT ![w] = "closed"]
  /\ UNCHANGED <<server, answer, reply, seen, shown, faults>>

\* Any other error: the app says it reconnects and asks again in a second.
Fails(w, from) ==
  /\ Move(w, from, "Paused")
  /\ status' = [status EXCEPT ![w] = "reconnecting"]
  /\ UNCHANGED <<server, answer, reply, seen, shown>>

Forbidden(w) == Fails(w, "Forbidden") /\ UNCHANGED faults

Lose(w) ==
  /\ faults < MaxFaults /\ faults' = faults + 1
  /\ \E from \in AtServer \cup Coming : Fails(w, from)

Retry(w) ==
  /\ Move(w, "Paused", "Ready")
  /\ UNCHANGED <<server, answer, reply, seen, shown, status, faults>>

\* The answer to a command is shown, whatever came meanwhile (setSnapshot).
TakeReply(w) ==
  /\ reply[w] # 0
  /\ reply' = [reply EXCEPT ![w] = 0]
  /\ \/ /\ phase[w] # "Stopped"
        /\ shown' = [shown EXCEPT ![w] = reply[w]]
        /\ status' = [status EXCEPT ![w] = "connected"]
     \/ phase[w] = "Stopped" /\ UNCHANGED <<shown, status>>
  /\ UNCHANGED <<server, phase, answer, seen, faults>>

\* The rooms are stored; the versions and the requests under way are not.
Restart ==
  /\ faults < MaxFaults /\ faults' = faults + 1
  /\ versions' = 0
  /\ publishing' = {}
  /\ reply' = [w \in Apps |-> 0]
  /\ phase' = [w \in Apps |-> IF phase[w] \in AtServer THEN "Paused" ELSE phase[w]]
  /\ status' = [w \in Apps |-> IF phase[w] \in AtServer THEN "reconnecting" ELSE status[w]]
  /\ UNCHANGED <<open, stored, members, answer, seen, shown>>

---------------------------------------------------------------------------
Init ==
  /\ open = TRUE /\ stored = 1 /\ members = Apps /\ publishing = {} /\ versions = 1
  /\ phase = [w \in Apps |-> "Ready"]
  /\ answer = [w \in Apps |-> [version |-> 0, room |-> 0, member |-> FALSE]]
  /\ reply = [w \in Apps |-> 0]
  /\ seen = [w \in Apps |-> 0]
  /\ shown = [w \in Apps |-> 1]
  /\ status = [w \in Apps |-> "connected"]
  /\ faults = 0

Waiting(w) == Wake(w) \/ TimesOut(w)

Receive(w) == Show(w) \/ NoNews(w) \/ Closed(w) \/ Forbidden(w)

Next ==
  \/ \E a \in Apps \cup {Elsewhere} : Change(a)
  \/ Close \/ Publish \/ Restart
  \/ \E w \in Apps : \/ Remove(w)
                     \/ Ask(w) \/ Admit(w) \/ Waiting(w) \/ Read(w) \/ Receive(w)
                     \/ ShowFails(w) \/ Lose(w) \/ Retry(w) \/ TakeReply(w)

Spec == Init /\ [][Next]_vars

\* Threads and timers run: every request is asked, held no longer than its timeout and answered.
Fairness ==
  /\ WF_vars(Publish)
  /\ \A w \in Apps : /\ WF_vars(Ask(w)) /\ WF_vars(Admit(w)) /\ WF_vars(Waiting(w))
                     /\ WF_vars(Read(w)) /\ WF_vars(Receive(w)) /\ WF_vars(Retry(w))
---------------------------------------------------------------------------
(* Properties.                                                             *)

\* The version an app remembers never promises more than the snapshot it came with has, though
\* the version is read before the room and a change is stored before it is published
\* (observable_rooms.py:28, room_server_app.py:205): no change is skipped for good.
NewsIsCurrent ==
  [][\A w \in Apps : Show(w) => shown'[w] >= seen'[w] \/ status'[w] = "removed"]_vars

\* Every app that watches a room is told when it is closed (roomClient.ts:101,
\* RoomRecoveryCoordinator.ts:111), whatever restarts, losses and removals came before.
ClosedIsTold ==
  \A w \in Apps : ~open ~> status[w] \in {"closed", "removed"}

\* What the server has published reaches every app that watches, unless the room is closed, the
\* app taken out, or the count of the server starts again (roomClient.ts:88): the version the app
\* asks with never keeps it from a later one, however the answers overtake the changes.
VersionsAreFetched ==
  \A w \in Apps, k \in 1..MaxChanges :
    versions >= k ~> seen[w] >= k \/ ~open \/ w \notin members \/ versions < k

\* "After a reconnect or restart the frontend gets the authoritative snapshot again"
\* (Frontend-technology-contract.md:195): every participant comes to show every change.
CatchesUp ==
  \A w \in Apps, k \in 1..MaxChanges :
    stored >= k ~> shown[w] >= k \/ ~open \/ w \notin members

=============================================================================
