---------------------------- MODULE RoomSession ----------------------------
(***************************************************************************)
(* One room of the room server: who is in it, who hosts it, and the song    *)
(* it sings.  Every command runs under the lock of its room                 *)
(* (serialized_by_room; see RoomLocks) and is one action here.  The room is *)
(* a record with the fields of room/domain.py that the commands branch on.  *)
(* Time is kept as phases: the countdown of a start, its last second, and   *)
(* the song sounding; the grace of an absent host running or over.          *)
(* What the singers set of the sound (tempo, key, gains, radio, library) is *)
(* not here: no command below reads it.                                     *)
(***************************************************************************)
EXTENDS Naturals

CONSTANTS
  People,                  \* participant ids
  Songs, NoSong,           \* what can be selected, and nothing selected
  Routes, NotMeasured,     \* what a participant reports of its voice route, and nothing yet
  Timings, NoTiming,       \* the deadlines of a room, and none saved
  SelectTiming(_, _)       \* select_room_timing: of the connected routes, singing or not

ASSUME NothingAssumption ==
  NoSong \notin Songs /\ NotMeasured \notin Routes /\ NoTiming \notin Timings
ASSUME TimingAssumption ==
  \A routes \in SUBSET (People \X (Routes \cup {NotMeasured})), singing \in BOOLEAN :
    SelectTiming(routes, singing) \in Timings

VARIABLES
  open,   \* the room is stored
  room,   \* the Room
  sung    \* history: the delay this performance was first heard with, or NoTiming

vars == <<open, room, sung>>

Participant == [connected : BOOLEAN, ready : BOOLEAN, route : Routes \cup {NotMeasured},
                calibrated : BOOLEAN, role : {"Host", "Participant"}]

Room == [members      : SUBSET People,
         participants : [People -> Participant],
         older        : SUBSET (People \X People),   \* the order of the mapping: <<p, q>>, p came first
         host         : People,
         policy       : {"Transfer", "Close"},
         hostGone     : {"No", "Waiting", "Over"},   \* host_disconnected_at and its grace
         song         : Songs \cup {NoSong},
         playback     : {"Stopped", "Playing", "Paused"},
         started      : {"No", "Countdown", "LastSecond", "Sounding"},   \* playback_started_at
         timing       : Timings,                     \* room_playout_delay_ms
         singing      : Timings \cup {NoTiming},
         autoStart    : BOOLEAN,                     \* auto_start_pending
         shared       : BOOLEAN]                     \* collaborative_control

TypeOK == open \in BOOLEAN /\ room \in Room /\ sung \in Timings \cup {NoTiming}

\* A participant that just came in: nothing measured yet.
Seat(role, ready) ==
  [connected |-> TRUE, ready |-> ready, route |-> NotMeasured, calibrated |-> FALSE, role |-> role]

Connected(r) == {p \in r.members : r.participants[p].connected}

AllReady(r) ==
  /\ r.members # {}
  /\ \A p \in r.members : /\ r.participants[p].connected
                          /\ r.participants[p].ready
                          /\ r.participants[p].route # NotMeasured
                          /\ r.participants[p].calibrated

\* next(iter(...)): the first of these participants in the order they came.
Oldest(r, people) == CHOOSE p \in people : \A q \in people \ {p} : <<p, q>> \in r.older

\* room_timing: the song's deadline is only taken while it plays.
RoomTiming(r) ==
  SelectTiming({<<p, r.participants[p].route>> : p \in Connected(r)}, r.playback = "Playing")

WithTiming(r) == [r EXCEPT !.timing = RoomTiming(r)]

---------------------------------------------------------------------------
(* The media commands, from a room to a room.                              *)

Start(r) ==
  LET playing == [r EXCEPT !.playback = "Playing", !.autoStart = FALSE, !.started = "Countdown"]
  IN  IF r.playback = "Playing" THEN playing
      ELSE IF r.singing # NoTiming THEN [playing EXCEPT !.timing = r.singing]
      ELSE WithTiming(playing)

Pause(r) ==
  IF r.playback = "Paused" THEN r
  ELSE [WithTiming([r EXCEPT !.playback = "Paused", !.started = "No"])
          EXCEPT !.singing = IF r.singing = NoTiming /\ r.started = "Sounding"
                             THEN r.timing ELSE r.singing]

Stop(r) == WithTiming([r EXCEPT !.playback = "Stopped", !.started = "No",
                                !.singing = NoTiming, !.autoStart = FALSE])

Seek(r) == [r EXCEPT !.started = IF r.playback = "Playing" THEN "Sounding" ELSE "No"]

\* start_ready_room
StartReady(r) ==
  IF r.autoStart /\ r.song # NoSong /\ r.playback = "Stopped" /\ AllReady(r) THEN Start(r) ELSE r

---------------------------------------------------------------------------
(* The room is stored or deleted.  Heard keeps the history variable: a     *)
(* performance lasts until it is stopped, replaced or started over.        *)

StartedOver(r) ==
  room.playback = "Playing" /\ room.started \in {"LastSecond", "Sounding"} /\ r.started = "Countdown"

Heard(r) ==
  IF r.playback = "Stopped" \/ StartedOver(r) THEN NoTiming
  ELSE IF sung = NoTiming /\ r.playback = "Playing" /\ r.started = "Sounding" THEN r.timing
  ELSE sung

Save(r) == open /\ room' = r /\ sung' = Heard(r) /\ UNCHANGED open
Delete  == open /\ open' = FALSE /\ UNCHANGED <<room, sung>>

IsMember(p)     == p \in Connected(room)
IsHost(p)       == p = room.host /\ IsMember(p)
IsController(p) == IsMember(p) /\ (p = room.host \/ room.shared)

Without(r, p) ==
  [r EXCEPT !.members = @ \ {p},
            !.participants[p] = Seat("Participant", FALSE),
            !.older = {pair \in @ : p \notin {pair[1], pair[2]}}]

---------------------------------------------------------------------------
(* Membership and authority.                                               *)

\* CreateRoom made the room: its creator is there, ready, and hosts it.
Created(h, policy) ==
  [members      |-> {h},
   participants |-> [p \in People |-> IF p = h THEN Seat("Host", TRUE)
                                      ELSE Seat("Participant", FALSE)],
   older |-> {}, host |-> h, policy |-> policy, hostGone |-> "No", song |-> NoSong,
   playback |-> "Stopped", started |-> "No", timing |-> SelectTiming({<<h, NotMeasured>>}, FALSE),
   singing |-> NoTiming, autoStart |-> FALSE, shared |-> FALSE]

\* Mutant: a late joiner reopens the measurement of a playing room.
JoinRoomRetimed(p) ==
  LET here == p \in room.members
      role == IF here THEN room.participants[p].role ELSE "Participant"
  IN  Save(WithTiming([room EXCEPT !.members = @ \cup {p},
                                   !.participants[p] = Seat(role, room.song = NoSong),
                                   !.older = IF here THEN @ ELSE @ \cup (room.members \X {p}),
                                   !.hostGone = IF p = room.host THEN "No" ELSE @]))

JoinRoom(p) ==
  LET here   == p \in room.members
      role   == IF here THEN room.participants[p].role ELSE "Participant"
      joined == [room EXCEPT !.members = @ \cup {p},
                             !.participants[p] = Seat(role, room.song = NoSong),
                             !.older = IF here THEN @ ELSE @ \cup (room.members \X {p}),
                             !.hostGone = IF p = room.host THEN "No" ELSE @]
  IN  Save(IF room.playback # "Playing" THEN WithTiming(joined) ELSE joined)

DisconnectParticipant(p) ==
  /\ p \in room.members
  /\ Save([room EXCEPT !.participants[p].connected = FALSE,
                       !.participants[p].ready = FALSE,
                       !.hostGone = IF p = room.host THEN "Waiting" ELSE @])

\* host_grace_seconds have passed since host_disconnected_at.
GraceElapses ==
  /\ room.hostGone = "Waiting"
  /\ Save([room EXCEPT !.hostGone = "Over"])

\* Mutant: the absent host keeps the role it is shown with.
ResolveUndemoted ==
  LET heirs == Connected(room) \ {room.host}
      heir  == Oldest(room, heirs)
  IN  /\ room.hostGone = "Over"
      /\ IF room.policy = "Close" \/ heirs = {}
         THEN Delete
         ELSE Save([room EXCEPT !.participants[heir].role = "Host",
                                !.host = heir, !.hostGone = "No"])

\* Mutant: the failover takes the next participant, connected or not.
ResolveToAnyone ==
  LET heirs == room.members \ {room.host}
      heir  == Oldest(room, heirs)
  IN  /\ room.hostGone = "Over"
      /\ IF room.policy = "Close" \/ heirs = {}
         THEN Delete
         ELSE Save([room EXCEPT !.participants[room.host].role = "Participant",
                                !.participants[heir].role = "Host",
                                !.host = heir, !.hostGone = "No"])

\* Mutant: a room with nobody to take it over is left as it is.
ResolveOnlyHandsOver ==
  LET heirs == Connected(room) \ {room.host}
      heir  == Oldest(room, heirs)
  IN  /\ room.hostGone = "Over" /\ heirs # {}
      /\ IF room.policy = "Close"
         THEN Delete
         ELSE Save([room EXCEPT !.participants[room.host].role = "Participant",
                                !.participants[heir].role = "Host",
                                !.host = heir, !.hostGone = "No"])

\* Run by the sweep for every room, and by the resolve-host route.
ResolveHostDisconnect ==
  LET heirs == Connected(room) \ {room.host}
      heir  == Oldest(room, heirs)
  IN  /\ room.hostGone = "Over"
      /\ IF room.policy = "Close" \/ heirs = {}
         THEN Delete
         ELSE Save([room EXCEPT !.participants[room.host].role = "Participant",
                                !.participants[heir].role = "Host",
                                !.host = heir,
                                !.hostGone = "No"])

\* Asked by the participant, or by RoomDepartures when its app stayed away.
LeaveRoom(p) ==
  LET left == Without(room, p)
      heir == Oldest(left, left.members)
  IN  /\ p \in room.members
      /\ IF p # room.host THEN Save(left)
         ELSE IF room.policy = "Close" \/ left.members = {} THEN Delete
         ELSE Save([left EXCEPT !.participants[heir].role = "Host", !.host = heir])

TransferRoomHost(p, target) ==
  /\ IsHost(p) /\ IsMember(target) /\ target # p
  /\ Save([room EXCEPT !.participants[p].role = "Participant",
                       !.participants[target].role = "Host",
                       !.host = target,
                       !.hostGone = "No"])

RemoveRoomParticipant(p, target) ==
  /\ IsHost(p) /\ target \in room.members /\ target # p
  /\ Save(Without(room, target))

CloseRoom(p) == IsHost(p) /\ Delete

\* The sweep's removal of a room no request has named for an hour.
RemoveAbandoned == Delete

---------------------------------------------------------------------------
(* The song.                                                               *)

\* The holders of the song become Preparing and the others MissingSong: nobody is Ready.
SelectRoomSong(p, song) ==
  /\ IsController(p)
  /\ Save(WithTiming(
       [room EXCEPT !.song = song, !.autoStart = TRUE, !.playback = "Stopped",
                    !.started = "No", !.singing = NoTiming,
                    !.participants = [q \in People |-> [@[q] EXCEPT !.ready = FALSE]]]))

ClearRoomSong(p) ==
  /\ IsController(p)
  /\ Save(WithTiming(
       [room EXCEPT !.song = NoSong, !.autoStart = FALSE, !.playback = "Stopped",
                    !.started = "No", !.singing = NoTiming,
                    !.participants = [q \in People |-> [@[q] EXCEPT !.ready = (q \in room.members)]]]))

SetParticipantReadiness(p, ready) ==
  /\ IsMember(p)
  /\ Save(StartReady([room EXCEPT !.participants[p].ready = ready]))

\* Mutant: a resumed countdown is refined like a first one.
SetTimingResumed(p, delay, calibrated) ==
  LET reported == [room EXCEPT !.participants[p].route = delay,
                               !.participants[p].calibrated = calibrated]
      refines  == room.playback # "Playing" \/ room.started = "Countdown"
  IN  /\ p \in room.members
      /\ Save(IF refines THEN StartReady(WithTiming(reported)) ELSE reported)

\* Mutant: only a report of readiness starts the song.
SetTimingOnly(p, delay, calibrated) ==
  LET reported == [room EXCEPT !.participants[p].route = delay,
                               !.participants[p].calibrated = calibrated]
      refines  == \/ room.playback # "Playing"
                  \/ room.singing = NoTiming /\ room.started = "Countdown"
  IN  /\ p \in room.members
      /\ Save(IF refines THEN WithTiming(reported) ELSE reported)

\* A report is taken of any participant, an absent one too.
SetParticipantTiming(p, delay, calibrated) ==
  LET reported == [room EXCEPT !.participants[p].route = delay,
                               !.participants[p].calibrated = calibrated]
      refines  == \/ room.playback # "Playing"
                  \/ room.singing = NoTiming /\ room.started = "Countdown"
  IN  /\ p \in room.members
      /\ Save(IF refines THEN StartReady(WithTiming(reported)) ELSE reported)

StartSong(p) == IsController(p) /\ AllReady(room) /\ Save(Start(room))
PauseSong(p) == IsController(p) /\ Save(Pause(room))
StopSong(p)  == IsController(p) /\ Save(Stop(room))
SeekSong(p)  == IsController(p) /\ Save(Seek(room))

SetCollaborativeControl(p, enabled) ==
  /\ IsHost(p)
  /\ Save([room EXCEPT !.shared = enabled])

\* The clock reaches one second before the start, and the start.
CountdownCloses ==
  /\ room.started = "Countdown"
  /\ Save([room EXCEPT !.started = "LastSecond"])

SongBegins ==
  /\ room.started = "LastSecond"
  /\ Save([room EXCEPT !.started = "Sounding"])

---------------------------------------------------------------------------
Init ==
  /\ open = TRUE
  /\ \E h \in People, policy \in {"Transfer", "Close"} : room = Created(h, policy)
  /\ sung = NoTiming

Departures ==
  \/ \E p \in People : LeaveRoom(p)
  \/ \E p, t \in People : RemoveRoomParticipant(p, t)

Membership ==
  \/ \E p \in People : JoinRoom(p) \/ DisconnectParticipant(p) \/ CloseRoom(p)
  \/ \E p, t \in People : TransferRoomHost(p, t)
  \/ GraceElapses \/ ResolveHostDisconnect \/ RemoveAbandoned
  \/ Departures

Playing ==
  \/ \E p \in People : \/ \E s \in Songs : SelectRoomSong(p, s)
                       \/ ClearRoomSong(p)
                       \/ \E b \in BOOLEAN : SetParticipantReadiness(p, b)
                                             \/ SetCollaborativeControl(p, b)
                       \/ \E d \in Routes, b \in BOOLEAN : SetParticipantTiming(p, d, b)
                       \/ StartSong(p) \/ PauseSong(p) \/ StopSong(p) \/ SeekSong(p)
  \/ CountdownCloses \/ SongBegins

Next == Membership \/ Playing

Spec == Init /\ [][Next]_vars

\* The grace is a fixed time; the sweep asks every room every two seconds.
Fairness == WF_vars(GraceElapses) /\ WF_vars(ResolveHostDisconnect)
---------------------------------------------------------------------------
(* Properties.                                                             *)

\* The role every client is shown and the host the commands obey are changed in
\* different fields by five commands; they always name the same, one, present person.
OneHost == open => {p \in room.members : room.participants[p].role = "Host"} = {room.host}

\* The clock of host failover runs only while the host is away (membership_commands.py:73, :100).
\* It need not run then: a host that leaves may hand the room to somebody who is away.
AbsenceIsTimed == open /\ room.hostGone # "No" => ~IsMember(room.host)

\* A host who is away does not leave by command, which would hand the clock to the next one.
HostStays == LeaveRoom(room.host) => IsMember(room.host)

\* However the song comes to play - the button, a last report of readiness or of a route -
\* everyone in the room is there, ready and measured (commands.py:165, :193).
StartsTogether ==
  [][room.playback # "Playing" /\ room'.playback = "Playing" => AllReady(room')]_vars

\* From one second before the start the deadline of a playing room stands still, whoever
\* joins, leaves or reports a new route (timing.py:16, :49).
DeadlineFrozen ==
  [][ /\ room.started \in {"LastSecond", "Sounding"}
      /\ room'.playback = "Playing"
      => room'.timing = room.timing ]_vars

\* A performance that was heard keeps the deadline it was first heard with, through pauses,
\* resumed countdowns, seeks and route reports, until it is stopped or started over
\* (timing.py:49-50, commands.py:220, :244).
PerformanceKeepsItsDeadline ==
  sung # NoTiming => /\ room.playback = "Playing" => room.timing = sung
                     /\ room.playback = "Paused"  => room.singing = sung

\* "Start a selected song once project readiness and voice calibration both permit singing"
\* (commands.py:194): no step leaves a selection waiting in a room in which everyone is ready,
\* but the departure of the last one who was not, after which only a new report starts it.
Waits(r) == r.autoStart /\ r.song # NoSong /\ r.playback = "Stopped" /\ AllReady(r)

ReadyRoomStarts ==
  [][open' /\ Waits(room') => Waits(room) \/ Departures]_vars

\* Test "host transfer uses the oldest connected participant" (test_rooms.py:682): when the host
\* leaves, the room goes to the oldest of those still connected.
LeavingHandsToTheOldestConnected ==
  [][ (\E p \in People : p = room.host /\ LeaveRoom(p)) /\ open' /\ Connected(room') # {}
      => room'.host = Oldest(room', Connected(room')) ]_vars

\* "Authority therefore moves to the oldest still-connected participant"
\* (membership_commands.py:131): so does the failover of an absent host.
FailoverGoesToTheOldestConnected ==
  [][ ResolveHostDisconnect /\ open'
      => Connected(room') # {} /\ room'.host = Oldest(room', Connected(room')) ]_vars

\* A room whose host went away is not left without one: the host returns, another one is named
\* or the room closes.
AuthorityReturns ==
  open /\ room.hostGone # "No" ~> ~open \/ IsMember(room.host)
=============================================================================
