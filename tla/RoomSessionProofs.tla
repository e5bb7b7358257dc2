------------------------- MODULE RoomSessionProofs -------------------------
(***************************************************************************)
(* Proofs about RoomSession, for any set of people, songs, routes and      *)
(* timings, and any policy that selects the timing from the routes.        *)
(***************************************************************************)
EXTENDS RoomSession, TLAPS

-----------------------------------------------------------------------------
(* What the operators on a room return.                                    *)

\* The policy gives every room a deadline.
LEMMA TimingType ==
  ASSUME NEW r \in Room
  PROVE  RoomTiming(r) \in Timings
<1> DEFINE routes == {<<p, r.participants[p].route>> : p \in Connected(r)}
<1>1. routes \in SUBSET (People \X (Routes \cup {NotMeasured}))
  BY DEF Room, Participant, Connected
<1>2. (r.playback = "Playing") \in BOOLEAN
  OBVIOUS
<1> QED BY <1>1, <1>2, TimingAssumption DEF RoomTiming

LEMMA WithTimingType ==
  ASSUME NEW r \in Room
  PROVE  WithTiming(r) \in Room
BY TimingType DEF WithTiming, Room

LEMMA StartType ==
  ASSUME NEW r \in Room
  PROVE  Start(r) \in Room
<1> DEFINE playing == [r EXCEPT !.playback = "Playing", !.autoStart = FALSE, !.started = "Countdown"]
<1>1. playing \in Room
  BY DEF Room
<1>2. WithTiming(playing) \in Room
  BY <1>1, WithTimingType
<1>3. r.singing # NoTiming => [playing EXCEPT !.timing = r.singing] \in Room
  BY <1>1 DEF Room
<1> QED BY <1>1, <1>2, <1>3 DEF Start

LEMMA PauseType ==
  ASSUME NEW r \in Room
  PROVE  Pause(r) \in Room
<1> DEFINE paused == [r EXCEPT !.playback = "Paused", !.started = "No"]
<1>1. WithTiming(paused) \in Room
  <2>1. paused \in Room
    BY DEF Room
  <2> QED BY <2>1, WithTimingType
<1>2. (IF r.singing = NoTiming /\ r.started = "Sounding" THEN r.timing ELSE r.singing)
        \in Timings \cup {NoTiming}
  BY DEF Room
<1> HIDE DEF paused
<1>3. [WithTiming(paused) EXCEPT
         !.singing = IF r.singing = NoTiming /\ r.started = "Sounding" THEN r.timing ELSE r.singing]
        \in Room
  BY <1>1, <1>2 DEF Room
<1> QED BY <1>3 DEF Pause, paused

LEMMA StopType ==
  ASSUME NEW r \in Room
  PROVE  Stop(r) \in Room
<1>1. [r EXCEPT !.playback = "Stopped", !.started = "No",
                !.singing = NoTiming, !.autoStart = FALSE] \in Room
  BY DEF Room
<1> QED BY <1>1, WithTimingType DEF Stop

LEMMA SeekType ==
  ASSUME NEW r \in Room
  PROVE  Seek(r) \in Room
BY DEF Seek, Room

LEMMA StartReadyType ==
  ASSUME NEW r \in Room
  PROVE  StartReady(r) \in Room
BY StartType DEF StartReady

LEMMA WithoutType ==
  ASSUME NEW r \in Room, NEW p \in People
  PROVE  Without(r, p) \in Room
<1>1. Seat("Participant", FALSE) \in Participant
  BY DEF Seat, Participant
<1> QED BY <1>1 DEF Without, Room

LEMMA RoleType ==
  ASSUME NEW ps \in [People -> Participant], NEW p \in People,
         NEW role \in {"Host", "Participant"}
  PROVE  [ps EXCEPT ![p].role = role] \in [People -> Participant]
<1>1. [ps[p] EXCEPT !.role = role] \in Participant
  BY DEF Participant
<1> QED BY <1>1

LEMMA AwayType ==
  ASSUME NEW q \in Participant
  PROVE  [q EXCEPT !.connected = FALSE, !.ready = FALSE] \in Participant
BY DEF Participant

\* Saving a room keeps the types.
LEMMA SaveType ==
  ASSUME TypeOK, NEW r \in Room, Save(r)
  PROVE  TypeOK'
<1>1. Heard(r) \in Timings \cup {NoTiming}
  BY DEF Heard, TypeOK, Room
<1> QED BY <1>1 DEF Save, TypeOK

-----------------------------------------------------------------------------
(* What a step saves.  A step of membership leaves the song alone; a step  *)
(* of the song leaves the people alone.                                    *)

\* What the rest of the room knows of its people.
SamePeople(r) ==
  /\ r.members = room.members /\ r.older = room.older /\ r.host = room.host
  /\ \A p \in People : r.participants[p].role = room.participants[p].role

\* The song, the clock and the deadlines are as they were; an idle room may be timed anew.
SameSong(r) ==
  /\ r.playback = room.playback /\ r.started = room.started /\ r.singing = room.singing
  /\ room.playback = "Playing" => r.timing = room.timing

\* The people came one after the other: every group of them has an oldest.
OrderInv ==
  \A S \in SUBSET room.members : S # {} => \E p \in S : \A q \in S \ {p} : <<p, q>> \in room.older

LEMMA OldestIsOne ==
  ASSUME NEW r \in Room, NEW S \in SUBSET r.members, S # {},
         \E p \in S : \A q \in S \ {p} : <<p, q>> \in r.older
  PROVE  Oldest(r, S) \in S
BY DEF Oldest

\* Leaving keeps the order of the others.
LEMMA WithoutOrder ==
  ASSUME TypeOK, OrderInv, NEW p \in People,
         NEW S \in SUBSET Without(room, p).members, S # {}
  PROVE  \E x \in S : \A q \in S \ {x} : <<x, q>> \in Without(room, p).older
<1> DEFINE left == Without(room, p)
<1>1. /\ left.members = room.members \ {p}
      /\ left.older = {pair \in room.older : p \notin {pair[1], pair[2]}}
  BY DEF Without, TypeOK, Room
<1>2. PICK x \in S : \A q \in S \ {x} : <<x, q>> \in room.older
  BY <1>1 DEF OrderInv
<1>3. \A q \in S \ {x} : <<x, q>> \in left.older
  BY <1>1, <1>2
<1> QED BY <1>3

\* Every step of membership deletes the room or saves one that plays on.
LEMMA MembershipSaves ==
  ASSUME TypeOK, OrderInv, Membership
  PROVE  Delete \/ \E r \in Room : Save(r) /\ SameSong(r)
<1>0. room \in Room
  BY DEF TypeOK
<1>1. ASSUME NEW p \in People, JoinRoom(p)
      PROVE  \E r \in Room : Save(r) /\ SameSong(r)
  <2> DEFINE here == p \in room.members
             role == IF here THEN room.participants[p].role ELSE "Participant"
             joined == [room EXCEPT !.members = @ \cup {p},
                             !.participants[p] = Seat(role, room.song = NoSong),
                             !.older = IF here THEN @ ELSE @ \cup (room.members \X {p}),
                             !.hostGone = IF p = room.host THEN "No" ELSE @]
  <2>1. Seat(role, room.song = NoSong) \in Participant
    BY <1>0 DEF Seat, Participant, Room
  <2>2. joined \in Room
    BY <1>0, <2>1 DEF Room
  <2>3. SameSong(joined)
    BY <1>0 DEF SameSong, Room
  <2>4. WithTiming(joined) \in Room
    BY <2>2, WithTimingType
  <2>5. room.playback # "Playing" => SameSong(WithTiming(joined))
    BY <2>2, <2>3 DEF SameSong, WithTiming, Room
  <2> HIDE DEF joined
  <2>6. Save(joined) \/ (room.playback # "Playing" /\ Save(WithTiming(joined)))
    BY <1>1 DEF JoinRoom, joined
  <2> QED BY <2>2, <2>3, <2>4, <2>5, <2>6
<1>2. ASSUME NEW p \in People, DisconnectParticipant(p)
      PROVE  \E r \in Room : Save(r) /\ SameSong(r)
  <2> DEFINE r == [room EXCEPT !.participants[p].connected = FALSE,
                               !.participants[p].ready = FALSE,
                               !.hostGone = IF p = room.host THEN "Waiting" ELSE @]
  <2>1. [room.participants[p] EXCEPT !.connected = FALSE, !.ready = FALSE] \in Participant
    BY <1>0, AwayType DEF Room
  <2>2. r \in Room
    BY <1>0, <2>1 DEF Room
  <2>3. SameSong(r)
    BY <1>0 DEF SameSong, Room
  <2> QED BY <1>2, <2>2, <2>3 DEF DisconnectParticipant
<1>3. ASSUME NEW p \in People, LeaveRoom(p)
      PROVE  Delete \/ \E r \in Room : Save(r) /\ SameSong(r)
  <2> DEFINE left == Without(room, p)
             heir == Oldest(left, left.members)
             led == [left EXCEPT !.participants[heir].role = "Host", !.host = heir]
  <2>1. left \in Room
    BY <1>0, WithoutType
  <2>2. SameSong(left)
    BY <1>0 DEF SameSong, Without, Room
  <2>3. ASSUME left.members # {}
        PROVE  led \in Room /\ SameSong(led)
    <3>1. heir \in left.members
      BY <2>1, <2>3, OldestIsOne, WithoutOrder
    <3> HIDE DEF left, heir
    <3>2. heir \in People
      BY <2>1, <3>1 DEF Room
    <3>3. led \in Room
      BY <2>1, <3>2, RoleType DEF Room
    <3>4. SameSong(led)
      BY <2>1, <2>2 DEF Room, SameSong
    <3> QED BY <3>3, <3>4
  <2>4. Save(left) \/ Delete \/ (left.members # {} /\ Save(led))
    BY <1>3 DEF LeaveRoom
  <2> HIDE DEF left, led
  <2> QED BY <2>1, <2>2, <2>3, <2>4
<1>4. ASSUME NEW p \in People, NEW t \in People, RemoveRoomParticipant(p, t)
      PROVE  \E r \in Room : Save(r) /\ SameSong(r)
  <2>1. Without(room, t) \in Room
    BY <1>0, WithoutType
  <2>2. SameSong(Without(room, t))
    BY <1>0 DEF SameSong, Without, Room
  <2> QED BY <1>4, <2>1, <2>2 DEF RemoveRoomParticipant
<1>5. ASSUME NEW p \in People, NEW t \in People, TransferRoomHost(p, t)
      PROVE  \E r \in Room : Save(r) /\ SameSong(r)
  <2> DEFINE r == [room EXCEPT !.participants[p].role = "Participant",
                               !.participants[t].role = "Host",
                               !.host = t, !.hostGone = "No"]
  <2>1. [[room.participants EXCEPT ![p].role = "Participant"] EXCEPT ![t].role = "Host"]
          \in [People -> Participant]
    BY <1>0, RoleType DEF Room
  <2>2. r \in Room
    BY <1>0, <2>1 DEF Room
  <2>3. SameSong(r)
    BY <1>0 DEF SameSong, Room
  <2> QED BY <1>5, <2>2, <2>3, <2>1, <2>2 DEF TransferRoomHost
<1>6. ASSUME GraceElapses
      PROVE  \E r \in Room : Save(r) /\ SameSong(r)
  <2>1. [room EXCEPT !.hostGone = "Over"] \in Room
    BY <1>0 DEF Room
  <2>2. SameSong([room EXCEPT !.hostGone = "Over"])
    BY <1>0 DEF SameSong, Room
  <2> QED BY <1>6, <2>1, <2>2 DEF GraceElapses
<1>7. ASSUME ResolveHostDisconnect
      PROVE  Delete \/ \E r \in Room : Save(r) /\ SameSong(r)
  <2> DEFINE heirs == Connected(room) \ {room.host}
             heir == Oldest(room, heirs)
             led == [room EXCEPT !.participants[room.host].role = "Participant",
                                 !.participants[heir].role = "Host",
                                 !.host = heir, !.hostGone = "No"]
  <2>1. ASSUME heirs # {}
        PROVE  led \in Room /\ SameSong(led)
    <3>1. heirs \in SUBSET room.members
      BY DEF Connected
    <3>2. heir \in heirs
      BY <1>0, <2>1, <3>1, OldestIsOne DEF OrderInv
    <3> HIDE DEF heirs, heir
    <3>3. heir \in People
      BY <1>0, <3>1, <3>2 DEF Room
    <3>4. [[room.participants EXCEPT ![room.host].role = "Participant"] EXCEPT ![heir].role = "Host"]
            \in [People -> Participant]
      BY <1>0, <3>3, RoleType DEF Room
    <3>5. led \in Room
      BY <1>0, <3>3, <3>4 DEF Room
    <3>6. SameSong(led)
      BY <1>0 DEF SameSong, Room
    <3> QED BY <3>5, <3>6
  <2>2. Delete \/ (heirs # {} /\ Save(led))
    BY <1>7 DEF ResolveHostDisconnect
  <2> HIDE DEF heirs, led
  <2> QED BY <2>1, <2>2
<1>8. CASE RemoveAbandoned \/ \E p \in People : CloseRoom(p)
  BY <1>8 DEF RemoveAbandoned, CloseRoom
<1> QED
  BY <1>1, <1>2, <1>3, <1>4, <1>5, <1>6, <1>7, <1>8 DEF Membership, Departures

\* The media commands leave the people as they are.
LEMMA MediaKeepsPeople ==
  ASSUME NEW r \in Room
  PROVE  \A c \in {WithTiming(r), Start(r), Pause(r), Stop(r), Seek(r), StartReady(r)} :
           /\ c.members = r.members /\ c.older = r.older /\ c.host = r.host
           /\ c.participants = r.participants
<1>1. WithTiming(r).members = r.members /\ WithTiming(r).older = r.older
      /\ WithTiming(r).host = r.host /\ WithTiming(r).participants = r.participants
  BY DEF WithTiming, Room
<1>2. /\ Start(r).members = r.members /\ Start(r).older = r.older
      /\ Start(r).host = r.host /\ Start(r).participants = r.participants
  BY DEF Start, WithTiming, Room
<1>3. /\ Pause(r).members = r.members /\ Pause(r).older = r.older
      /\ Pause(r).host = r.host /\ Pause(r).participants = r.participants
  BY DEF Pause, WithTiming, Room
<1>4. /\ Stop(r).members = r.members /\ Stop(r).older = r.older
      /\ Stop(r).host = r.host /\ Stop(r).participants = r.participants
  BY DEF Stop, WithTiming, Room
<1>5. /\ Seek(r).members = r.members /\ Seek(r).older = r.older
      /\ Seek(r).host = r.host /\ Seek(r).participants = r.participants
  BY DEF Seek, Room
<1>6. /\ StartReady(r).members = r.members /\ StartReady(r).older = r.older
      /\ StartReady(r).host = r.host /\ StartReady(r).participants = r.participants
  BY <1>2 DEF StartReady
<1> QED BY <1>1, <1>2, <1>3, <1>4, <1>5, <1>6

LEMMA ReadyType ==
  ASSUME NEW q \in Participant, NEW b \in BOOLEAN
  PROVE  [q EXCEPT !.ready = b] \in Participant
BY DEF Participant

LEMMA RouteType ==
  ASSUME NEW q \in Participant, NEW route \in Routes, NEW b \in BOOLEAN
  PROVE  [q EXCEPT !.route = route, !.calibrated = b] \in Participant
BY DEF Participant

-----------------------------------------------------------------------------
(* The song.  SongInv is the inductive invariant of the playback: its first *)
(* part ties the clock to the playback, the others say where the deadline   *)
(* of a heard performance is kept while it plays, waits and counts down.    *)

SongInv(r, heard) ==
  /\ r.playback = "Playing" <=> r.started # "No"
  /\ heard # NoTiming => /\ r.playback # "Stopped"
                         /\ r.playback = "Playing" => r.timing = heard
                         /\ r.playback = "Paused"  => r.singing = heard
                         /\ r.started \in {"Countdown", "LastSecond"} => r.singing # NoTiming
  /\ r.playback = "Playing" /\ r.singing # NoTiming => r.timing = r.singing

\* What a step to r must do for the song.
Keeps(r) ==
  /\ SongInv(r, Heard(r))
  /\ room.playback # "Playing" /\ r.playback = "Playing" => AllReady(r)
  /\ room.started \in {"LastSecond", "Sounding"} /\ r.playback = "Playing" => r.timing = room.timing

\* Only the deadline may have changed, and not once it stands.
Refined(r) ==
  /\ r.playback = room.playback /\ r.started = room.started /\ r.singing = room.singing
  /\ \/ room.playback # "Playing"
     \/ room.singing = NoTiming /\ room.started = "Countdown"
     \/ r.timing = room.timing

LEMMA RefinedKeeps ==
  ASSUME TypeOK, SongInv(room, sung), NEW r \in Room, Refined(r)
  PROVE  Keeps(r)
BY NothingAssumption DEF TypeOK, Room, SongInv, Refined, Keeps, Heard, StartedOver

LEMMA StartKeeps ==
  ASSUME TypeOK, SongInv(room, sung), NEW r \in Room, Refined(r), AllReady(r),
         room.playback = "Playing" => r = room
  PROVE  Keeps(Start(r))
<1>1. AllReady(Start(r))
  BY MediaKeepsPeople DEF AllReady
<1>2. Start(r).playback = "Playing" /\ Start(r).started = "Countdown" /\ Start(r).singing = r.singing
  BY DEF Start, WithTiming, Room
<1>3. CASE room.playback = "Playing"
  <2>1. Start(r).timing = room.timing
    BY <1>3 DEF Start, Room, TypeOK, Refined
  <2> QED BY <1>1, <1>2, <1>3, <2>1 DEF Keeps, SongInv, Heard, StartedOver, Refined, TypeOK, Room
<1>4. CASE room.playback # "Playing"
  <2>1. r.singing # NoTiming => Start(r).timing = r.singing
    BY <1>4 DEF Start, Room, TypeOK, Refined
  <2> QED BY <1>1, <1>2, <1>4, <2>1 DEF Keeps, SongInv, Heard, StartedOver, Refined, TypeOK, Room
<1> QED BY <1>3, <1>4

LEMMA StartReadyKeeps ==
  ASSUME TypeOK, SongInv(room, sung), NEW r \in Room, Refined(r)
  PROVE  Keeps(StartReady(r))
<1>1. CASE r.playback = "Stopped" /\ AllReady(r)
  BY <1>1, StartKeeps, RefinedKeeps DEF StartReady, Refined
<1>2. CASE ~(r.playback = "Stopped" /\ AllReady(r))
  BY <1>2, RefinedKeeps DEF StartReady
<1> QED BY <1>1, <1>2

LEMMA PauseKeeps ==
  ASSUME TypeOK, SongInv(room, sung)
  PROVE  Keeps(Pause(room))
<1>1. CASE room.playback = "Paused"
  BY <1>1, RefinedKeeps DEF Pause, Refined, TypeOK
<1>2. CASE room.playback # "Paused"
  <2>1. /\ Pause(room).playback = "Paused" /\ Pause(room).started = "No"
        /\ Pause(room).singing = IF room.singing = NoTiming /\ room.started = "Sounding"
                                 THEN room.timing ELSE room.singing
    BY <1>2 DEF Pause, WithTiming, TypeOK, Room
  <2> QED BY <1>2, <2>1 DEF Keeps, SongInv, Heard, StartedOver, TypeOK, Room
<1> QED BY <1>1, <1>2

\* A stopped room has no performance.
LEMMA StoppedKeeps ==
  ASSUME TypeOK, NEW r \in Room, r.playback = "Stopped", r.started = "No"
  PROVE  Keeps(r)
BY DEF Keeps, SongInv, Heard

LEMMA SeekKeeps ==
  ASSUME TypeOK, SongInv(room, sung)
  PROVE  Keeps(Seek(room))
<1>1. /\ Seek(room).playback = room.playback /\ Seek(room).singing = room.singing
      /\ Seek(room).timing = room.timing
      /\ Seek(room).started = IF room.playback = "Playing" THEN "Sounding" ELSE "No"
  BY DEF Seek, TypeOK, Room
<1> QED BY <1>1 DEF Keeps, SongInv, Heard, StartedOver, TypeOK, Room

\* Every step of the song saves a room with the same people that keeps what is due to the song.
LEMMA PlayingSaves ==
  ASSUME TypeOK, SongInv(room, sung), Playing
  PROVE  \E r \in Room : Save(r) /\ SamePeople(r) /\ Keeps(r)
<1>0. room \in Room /\ SamePeople(room) /\ Refined(room)
  BY DEF TypeOK, SamePeople, Refined
<1>1. ASSUME NEW p \in People, NEW song \in Songs, SelectRoomSong(p, song)
      PROVE  \E r \in Room : Save(r) /\ SamePeople(r) /\ Keeps(r)
  <2> DEFINE selected ==
        [room EXCEPT !.song = song, !.autoStart = TRUE, !.playback = "Stopped",
                     !.started = "No", !.singing = NoTiming,
                     !.participants = [q \in People |-> [@[q] EXCEPT !.ready = FALSE]]]
  <2>1. [q \in People |-> [room.participants[q] EXCEPT !.ready = FALSE]] \in [People -> Participant]
    BY <1>0, ReadyType DEF Room
  <2>2. selected \in Room
    BY <1>0, <2>1 DEF Room
  <2>3. SamePeople(selected)
    BY <1>0 DEF SamePeople, Room, Participant
  <2>4. selected.playback = "Stopped" /\ selected.started = "No"
    BY <1>0 DEF Room
  <2>5. Save(WithTiming(selected))
    BY <1>1 DEF SelectRoomSong
  <2> HIDE DEF selected
  <2>6. WithTiming(selected) \in Room /\ SamePeople(WithTiming(selected))
    BY <2>2, <2>3, WithTimingType, MediaKeepsPeople DEF SamePeople
  <2>7. WithTiming(selected).playback = "Stopped" /\ WithTiming(selected).started = "No"
    BY <2>2, <2>4 DEF WithTiming, Room
  <2> QED BY <2>5, <2>6, <2>7, StoppedKeeps
<1>2. ASSUME NEW p \in People, ClearRoomSong(p)
      PROVE  \E r \in Room : Save(r) /\ SamePeople(r) /\ Keeps(r)
  <2> DEFINE cleared ==
        [room EXCEPT !.song = NoSong, !.autoStart = FALSE, !.playback = "Stopped",
                     !.started = "No", !.singing = NoTiming,
                     !.participants = [q \in People |-> [@[q] EXCEPT !.ready = (q \in room.members)]]]
  <2>1. [q \in People |-> [room.participants[q] EXCEPT !.ready = (q \in room.members)]]
          \in [People -> Participant]
    <3>1. \A q \in People : (q \in room.members) \in BOOLEAN
      OBVIOUS
    <3> QED BY <1>0, <3>1, ReadyType DEF Room
  <2>2. cleared \in Room
    BY <1>0, <2>1 DEF Room
  <2>3. SamePeople(cleared)
    BY <1>0 DEF SamePeople, Room, Participant
  <2>4. cleared.playback = "Stopped" /\ cleared.started = "No"
    BY <1>0 DEF Room
  <2>5. Save(WithTiming(cleared))
    BY <1>2 DEF ClearRoomSong
  <2> HIDE DEF cleared
  <2>6. WithTiming(cleared) \in Room /\ SamePeople(WithTiming(cleared))
    BY <2>2, <2>3, WithTimingType, MediaKeepsPeople DEF SamePeople
  <2>7. WithTiming(cleared).playback = "Stopped" /\ WithTiming(cleared).started = "No"
    BY <2>2, <2>4 DEF WithTiming, Room
  <2> QED BY <2>5, <2>6, <2>7, StoppedKeeps
<1>3. ASSUME NEW p \in People, NEW b \in BOOLEAN, SetParticipantReadiness(p, b)
      PROVE  \E r \in Room : Save(r) /\ SamePeople(r) /\ Keeps(r)
  <2> DEFINE r == [room EXCEPT !.participants[p].ready = b]
  <2>1. r \in Room
    BY <1>0, ReadyType DEF Room
  <2>2. SamePeople(r) /\ Refined(r)
    BY <1>0 DEF SamePeople, Refined, Room, Participant
  <2>3. Save(StartReady(r))
    BY <1>3 DEF SetParticipantReadiness
  <2> HIDE DEF r
  <2>4. StartReady(r) \in Room /\ SamePeople(StartReady(r))
    BY <2>1, <2>2, StartReadyType, MediaKeepsPeople DEF SamePeople
  <2> QED BY <2>1, <2>2, <2>3, <2>4, StartReadyKeeps
<1>4. ASSUME NEW p \in People, NEW d \in Routes, NEW b \in BOOLEAN, SetParticipantTiming(p, d, b)
      PROVE  \E r \in Room : Save(r) /\ SamePeople(r) /\ Keeps(r)
  <2> DEFINE reported == [room EXCEPT !.participants[p].route = d,
                                      !.participants[p].calibrated = b]
             refines  == \/ room.playback # "Playing"
                         \/ room.singing = NoTiming /\ room.started = "Countdown"
  <2>1. reported \in Room
    BY <1>0, RouteType DEF Room
  <2>2. SamePeople(reported) /\ Refined(reported)
    BY <1>0 DEF SamePeople, Refined, Room, Participant
  <2>3. Save(IF refines THEN StartReady(WithTiming(reported)) ELSE reported)
    BY <1>4 DEF SetParticipantTiming
  <2> HIDE DEF reported
  <2>4. CASE ~refines
    BY <2>1, <2>2, <2>3, <2>4, RefinedKeeps
  <2>5. CASE refines
    <3>1. WithTiming(reported) \in Room /\ SamePeople(WithTiming(reported))
      BY <2>1, <2>2, WithTimingType, MediaKeepsPeople DEF SamePeople
    <3>2. Refined(WithTiming(reported))
      BY <2>1, <2>2, <2>5 DEF Refined, WithTiming, Room
    <3>3. /\ StartReady(WithTiming(reported)) \in Room
          /\ SamePeople(StartReady(WithTiming(reported)))
      BY <3>1, StartReadyType, MediaKeepsPeople DEF SamePeople
    <3> QED BY <2>3, <2>5, <3>1, <3>2, <3>3, StartReadyKeeps
  <2> QED BY <2>4, <2>5
<1>5. ASSUME NEW p \in People, StartSong(p)
      PROVE  \E r \in Room : Save(r) /\ SamePeople(r) /\ Keeps(r)
  <2>1. Start(room) \in Room /\ SamePeople(Start(room))
    BY <1>0, StartType, MediaKeepsPeople DEF SamePeople
  <2> QED BY <1>0, <1>5, <2>1, StartKeeps DEF StartSong
<1>6. ASSUME NEW p \in People, PauseSong(p)
      PROVE  \E r \in Room : Save(r) /\ SamePeople(r) /\ Keeps(r)
  <2>1. Pause(room) \in Room /\ SamePeople(Pause(room))
    BY <1>0, PauseType, MediaKeepsPeople DEF SamePeople
  <2> QED BY <1>6, <2>1, PauseKeeps DEF PauseSong
<1>7. ASSUME NEW p \in People, StopSong(p)
      PROVE  \E r \in Room : Save(r) /\ SamePeople(r) /\ Keeps(r)
  <2>1. Stop(room) \in Room /\ SamePeople(Stop(room))
    BY <1>0, StopType, MediaKeepsPeople DEF SamePeople
  <2>2. Stop(room).playback = "Stopped" /\ Stop(room).started = "No"
    BY <1>0 DEF Stop, WithTiming, Room
  <2> QED BY <1>7, <2>1, <2>2, StoppedKeeps DEF StopSong
<1>8. ASSUME NEW p \in People, SeekSong(p)
      PROVE  \E r \in Room : Save(r) /\ SamePeople(r) /\ Keeps(r)
  <2>1. Seek(room) \in Room /\ SamePeople(Seek(room))
    BY <1>0, SeekType, MediaKeepsPeople DEF SamePeople
  <2> QED BY <1>8, <2>1, SeekKeeps DEF SeekSong
<1>9. ASSUME NEW p \in People, NEW b \in BOOLEAN, SetCollaborativeControl(p, b)
      PROVE  \E r \in Room : Save(r) /\ SamePeople(r) /\ Keeps(r)
  <2> DEFINE r == [room EXCEPT !.shared = b]
  <2>1. r \in Room /\ SamePeople(r) /\ Refined(r)
    BY <1>0 DEF Room, SamePeople, Refined
  <2> QED BY <1>9, <2>1, RefinedKeeps DEF SetCollaborativeControl
<1>10. ASSUME NEW next \in {"LastSecond", "Sounding"},
              Save([room EXCEPT !.started = next]),
              next = "LastSecond" => room.started = "Countdown",
              next = "Sounding"   => room.started = "LastSecond"
       PROVE  \E r \in Room : Save(r) /\ SamePeople(r) /\ Keeps(r)
  <2> DEFINE r == [room EXCEPT !.started = next]
  <2>1. r \in Room /\ SamePeople(r)
    BY <1>0 DEF Room, SamePeople
  <2>2. /\ r.playback = room.playback /\ r.timing = room.timing
        /\ r.singing = room.singing /\ r.started = next
    BY <1>0 DEF Room
  <2>3. Keeps(r)
    BY <1>0, <1>10, <2>2 DEF Keeps, SongInv, Heard, StartedOver, TypeOK, Room
  <2> QED BY <1>10, <2>1, <2>3
<1> QED
  BY <1>1, <1>2, <1>3, <1>4, <1>5, <1>6, <1>7, <1>8, <1>9, <1>10
  DEF Playing, CountdownCloses, SongBegins

-----------------------------------------------------------------------------
(* The people.  A step of membership keeps the order in which they came    *)
(* and the one host.                                                       *)

\* The two parts of the invariant, of a room that is saved.
Ordered(r) ==
  \A S \in SUBSET r.members : S # {} => \E p \in S : \A q \in S \ {p} : <<p, q>> \in r.older

Hosts(r) == {p \in r.members : r.participants[p].role = "Host"}

LEMMA MembershipPeople ==
  ASSUME TypeOK, OrderInv, OneHost, Membership
  PROVE  OrderInv' /\ OneHost'
<1>0. room \in Room /\ Ordered(room) /\ (open => Hosts(room) = {room.host})
  BY DEF TypeOK, OrderInv, OneHost, Ordered, Hosts
<1>1. ASSUME NEW r \in Room, Save(r), Ordered(r), Hosts(r) = {r.host}
      PROVE  OrderInv' /\ OneHost'
  BY <1>1 DEF Save, OrderInv, OneHost, Ordered, Hosts
<1>2. ASSUME Delete
      PROVE  OrderInv' /\ OneHost'
  BY <1>2 DEF Delete, OrderInv, OneHost
<1>3. ASSUME NEW r \in Room, Save(r), r.members = room.members, r.older = room.older,
             r.host = room.host,
             \A p \in People : r.participants[p].role = room.participants[p].role
      PROVE  OrderInv' /\ OneHost'
  <2>1. Ordered(r)
    BY <1>0, <1>3 DEF Ordered
  <2>2. Hosts(r) = {r.host}
    BY <1>0, <1>3 DEF Save, Hosts, Room
  <2> QED BY <1>1, <1>3, <2>1, <2>2
<1>4. ASSUME NEW p \in People, JoinRoom(p)
      PROVE  OrderInv' /\ OneHost'
  <2> DEFINE here == p \in room.members
             role == IF here THEN room.participants[p].role ELSE "Participant"
             joined == [room EXCEPT !.members = @ \cup {p},
                             !.participants[p] = Seat(role, room.song = NoSong),
                             !.older = IF here THEN @ ELSE @ \cup (room.members \X {p}),
                             !.hostGone = IF p = room.host THEN "No" ELSE @]
  <2>1. Seat(role, room.song = NoSong) \in Participant
    BY <1>0 DEF Seat, Participant, Room
  <2>2. joined \in Room
    BY <1>0, <2>1 DEF Room
  <2>3. /\ joined.members = room.members \cup {p}
        /\ joined.older = IF here THEN room.older ELSE room.older \cup (room.members \X {p})
        /\ joined.host = room.host
        /\ \A q \in People : joined.participants[q].role =
                               IF q = p THEN role ELSE room.participants[q].role
    BY <1>0 DEF Room, Seat, Participant
  <2>4. WithTiming(joined) \in Room
    BY <2>2, WithTimingType
  <2>5. PICK r \in {joined, WithTiming(joined)} : Save(r)
    BY <1>4 DEF JoinRoom
  <2> HIDE DEF joined
  <2>t. /\ WithTiming(joined).members = joined.members /\ WithTiming(joined).older = joined.older
        /\ WithTiming(joined).host = joined.host
        /\ WithTiming(joined).participants = joined.participants
    BY <2>2 DEF WithTiming, Room
  <2>6. /\ r \in Room
        /\ r.members = joined.members /\ r.older = joined.older /\ r.host = joined.host
        /\ r.participants = joined.participants
    <3>1. CASE r = joined
      BY <2>2, <3>1
    <3>2. CASE r = WithTiming(joined)
      BY <2>4, <2>t, <3>2
    <3> QED BY <2>5, <3>1, <3>2
  <2>7. Ordered(r)
    <3> SUFFICES ASSUME NEW S \in SUBSET (room.members \cup {p}), S # {}
                 PROVE  \E x \in S : \A q \in S \ {x} : <<x, q>> \in r.older
      BY <2>3, <2>6 DEF Ordered
    <3>1. CASE here
      BY <1>0, <2>3, <2>6, <3>1 DEF Ordered
    <3>2. CASE ~here /\ S \ {p} = {}
      BY <3>2
    <3>3. CASE ~here /\ S \ {p} # {}
      <4>1. PICK x \in S \ {p} : \A q \in (S \ {p}) \ {x} : <<x, q>> \in room.older
        BY <1>0, <3>3 DEF Ordered
      <4>2. <<x, p>> \in room.members \X {p}
        BY <4>1
      <4> QED BY <2>3, <2>6, <3>3, <4>1, <4>2
    <3> QED BY <3>1, <3>2, <3>3
  <2>8. Hosts(r) = {r.host}
    BY <1>0, <2>3, <2>5, <2>6 DEF Hosts, Save, Room
  <2> QED BY <1>1, <2>5, <2>6, <2>7, <2>8
<1>5. ASSUME NEW p \in People, DisconnectParticipant(p)
      PROVE  OrderInv' /\ OneHost'
  <2> DEFINE r == [room EXCEPT !.participants[p].connected = FALSE,
                               !.participants[p].ready = FALSE,
                               !.hostGone = IF p = room.host THEN "Waiting" ELSE @]
  <2>1. [room.participants[p] EXCEPT !.connected = FALSE, !.ready = FALSE] \in Participant
    BY <1>0, AwayType DEF Room
  <2>2. r \in Room
    BY <1>0, <2>1 DEF Room
  <2>3. /\ r.members = room.members /\ r.older = room.older /\ r.host = room.host
        /\ \A q \in People : r.participants[q].role = room.participants[q].role
    BY <1>0 DEF Room, Participant
  <2> QED BY <1>3, <1>5, <2>2, <2>3 DEF DisconnectParticipant
<1>6. ASSUME GraceElapses
      PROVE  OrderInv' /\ OneHost'
  <2> DEFINE r == [room EXCEPT !.hostGone = "Over"]
  <2>1. /\ r \in Room
        /\ r.members = room.members /\ r.older = room.older /\ r.host = room.host
        /\ \A q \in People : r.participants[q].role = room.participants[q].role
    BY <1>0 DEF Room
  <2> QED BY <1>3, <1>6, <2>1 DEF GraceElapses
\* What is left of the room when p goes: the others, in their order, and their hosts.
<1>7. ASSUME NEW p \in People, open
      PROVE  /\ Without(room, p) \in Room /\ Ordered(Without(room, p))
             /\ Hosts(Without(room, p)) = {room.host} \ {p}
             /\ Without(room, p).host = room.host
  <2> DEFINE left == Without(room, p)
  <2>1. /\ left.members = room.members \ {p} /\ left.host = room.host
        /\ \A q \in People : left.participants[q].role =
                               IF q = p THEN "Participant" ELSE room.participants[q].role
    BY <1>0 DEF Without, Room, Seat
  <2>2. Ordered(left)
    BY WithoutOrder DEF Ordered
  <2>3. Hosts(left) = {room.host} \ {p}
    BY <1>0, <1>7, <2>1 DEF Hosts, Room
  <2> QED BY <1>0, <2>1, <2>2, <2>3, WithoutType
\* The room with another host, when nobody else is called the host.
<1>8. ASSUME NEW r \in Room, Ordered(r), NEW heir \in r.members, Hosts(r) \subseteq {heir},
             NEW gone \in {"No", "Waiting", "Over"},
             Save([r EXCEPT !.participants[heir].role = "Host", !.host = heir, !.hostGone = gone])
      PROVE  OrderInv' /\ OneHost'
  <2> DEFINE led == [r EXCEPT !.participants[heir].role = "Host", !.host = heir, !.hostGone = gone]
  <2>1. led \in Room
    BY <1>8, RoleType DEF Room
  <2>2. /\ led.members = r.members /\ led.older = r.older /\ led.host = heir
        /\ \A q \in People : led.participants[q].role =
                               IF q = heir THEN "Host" ELSE r.participants[q].role
    BY <1>8 DEF Room, Participant
  <2>3. Ordered(led) /\ Hosts(led) = {led.host}
    BY <1>8, <2>2 DEF Ordered, Hosts, Room
  <2> QED BY <1>1, <1>8, <2>1, <2>3
<1>9. ASSUME NEW p \in People, LeaveRoom(p)
      PROVE  OrderInv' /\ OneHost'
  <2> DEFINE left == Without(room, p)
             heir == Oldest(left, left.members)
  <2>1. /\ left \in Room /\ Ordered(left) /\ Hosts(left) = {room.host} \ {p}
        /\ left.host = room.host
    BY <1>7, <1>9 DEF LeaveRoom, Save, Delete
  <2>2. CASE Delete
    BY <1>2, <2>2
  <2>3. CASE p # room.host /\ Save(left)
    BY <1>1, <2>1, <2>3
  <2>4. CASE /\ p = room.host /\ left.members # {}
             /\ Save([left EXCEPT !.participants[heir].role = "Host", !.host = heir])
    <3>1. heir \in left.members
      BY <2>1, <2>4, OldestIsOne DEF Ordered
    <3> HIDE DEF left, heir
    <3>2. [left EXCEPT !.participants[heir].role = "Host", !.host = heir]
            = [left EXCEPT !.participants[heir].role = "Host", !.host = heir,
                           !.hostGone = left.hostGone]
      BY <2>1 DEF Room
    <3>3. left.hostGone \in {"No", "Waiting", "Over"}
      BY <2>1 DEF Room
    <3> QED BY <1>8, <2>1, <2>4, <3>1, <3>2, <3>3
  <2> QED BY <1>9, <2>2, <2>3, <2>4 DEF LeaveRoom
<1>10. ASSUME NEW p \in People, NEW t \in People, RemoveRoomParticipant(p, t)
       PROVE  OrderInv' /\ OneHost'
  <2>1. t # room.host /\ Save(Without(room, t)) /\ open
    BY <1>10 DEF RemoveRoomParticipant, IsHost, Save
  <2> QED BY <1>1, <1>7, <2>1
\* Authority passes from the host to another member.
<1>11. ASSUME NEW heir \in room.members, heir # room.host,
              Save([room EXCEPT !.participants[room.host].role = "Participant",
                                !.participants[heir].role = "Host",
                                !.host = heir, !.hostGone = "No"])
       PROVE  OrderInv' /\ OneHost'
  <2> DEFINE r == [room EXCEPT !.participants[room.host].role = "Participant"]
  <2>1. r \in Room
    BY <1>0, RoleType DEF Room
  <2>2. /\ r.members = room.members /\ r.older = room.older
        /\ \A q \in People : r.participants[q].role =
                               IF q = room.host THEN "Participant" ELSE room.participants[q].role
    BY <1>0 DEF Room, Participant
  <2>3. Ordered(r) /\ Hosts(r) \subseteq {heir}
    BY <1>0, <1>11, <2>2 DEF Ordered, Hosts, Save, Room
  <2>4. [room EXCEPT !.participants[room.host].role = "Participant",
                     !.participants[heir].role = "Host", !.host = heir, !.hostGone = "No"]
          = [r EXCEPT !.participants[heir].role = "Host", !.host = heir, !.hostGone = "No"]
    BY <1>0 DEF Room
  <2> HIDE DEF r
  <2> QED BY <1>8, <1>11, <2>1, <2>2, <2>3, <2>4
<1>12. ASSUME NEW p \in People, NEW t \in People, TransferRoomHost(p, t)
       PROVE  OrderInv' /\ OneHost'
  <2>1. p = room.host /\ t \in room.members /\ t # p
    BY <1>12 DEF TransferRoomHost, IsHost, IsMember, Connected
  <2> QED BY <1>11, <1>12, <2>1 DEF TransferRoomHost
<1>13. ASSUME ResolveHostDisconnect
       PROVE  OrderInv' /\ OneHost'
  <2> DEFINE heirs == Connected(room) \ {room.host}
             heir == Oldest(room, heirs)
  <2>1. heirs # {} => heir \in heirs
    <3>1. heirs \in SUBSET room.members
      BY DEF Connected
    <3> QED BY <1>0, <3>1, OldestIsOne DEF Ordered
  <2>2. heirs \subseteq room.members \ {room.host}
    BY DEF Connected
  <2> QED BY <1>2, <1>11, <1>13, <2>1, <2>2 DEF ResolveHostDisconnect
<1>14. CASE RemoveAbandoned \/ \E p \in People : CloseRoom(p)
  BY <1>2, <1>14 DEF RemoveAbandoned, CloseRoom
<1> QED
  BY <1>4, <1>5, <1>6, <1>9, <1>10, <1>12, <1>13, <1>14 DEF Membership, Departures

-----------------------------------------------------------------------------
(* The inductive invariant and the theorems.                               *)

RoomInv == TypeOK /\ OrderInv /\ OneHost /\ SongInv(room, sung)

LEMMA RoomInit ==
  ASSUME Init
  PROVE  RoomInv
<1>1. PICK h \in People, policy \in {"Transfer", "Close"} : room = Created(h, policy)
  BY DEF Init
<1>2. {<<h, NotMeasured>>} \in SUBSET (People \X (Routes \cup {NotMeasured}))
  OBVIOUS
<1>3. SelectTiming({<<h, NotMeasured>>}, FALSE) \in Timings
  BY <1>2, TimingAssumption
<1>4. Seat("Host", TRUE) \in Participant /\ Seat("Participant", FALSE) \in Participant
  BY DEF Seat, Participant
<1>5. room \in Room
  BY <1>1, <1>3, <1>4 DEF Created, Room
<1>6. OrderInv /\ OneHost
  BY <1>1 DEF Created, Seat, OrderInv, OneHost
<1>7. SongInv(room, sung)
  BY <1>1 DEF Init, Created, SongInv
<1> QED BY <1>5, <1>6, <1>7 DEF Init, RoomInv, TypeOK

LEMMA RoomStep ==
  ASSUME RoomInv, [Next]_vars
  PROVE  /\ RoomInv'
         /\ room.playback # "Playing" /\ room'.playback = "Playing" => AllReady(room')
         /\ room.started \in {"LastSecond", "Sounding"} /\ room'.playback = "Playing"
              => room'.timing = room.timing
<1> USE DEF RoomInv
<1>1. CASE Membership
  <2>1. CASE Delete
    BY <1>1, <2>1, MembershipPeople DEF Delete, TypeOK
  <2>2. ASSUME NEW r \in Room, Save(r), SameSong(r)
        PROVE  TypeOK' /\ Keeps(r) /\ room' = r /\ sung' = Heard(r)
    BY <2>2, SaveType, RefinedKeeps DEF SameSong, Refined, Save
  <2> QED BY <1>1, <2>1, <2>2, MembershipSaves, MembershipPeople DEF Keeps
<1>2. CASE Playing
  <2>1. PICK r \in Room : Save(r) /\ SamePeople(r) /\ Keeps(r)
    BY <1>2, PlayingSaves
  <2>2. TypeOK' /\ room' = r /\ sung' = Heard(r) /\ open' = open
    BY <2>1, SaveType DEF Save
  <2>3. OrderInv'
    BY <2>1, <2>2 DEF OrderInv, SamePeople
  <2>4. OneHost'
    BY <2>1, <2>2 DEF OneHost, SamePeople, Room
  <2> QED BY <2>1, <2>2, <2>3, <2>4 DEF Keeps
<1>3. CASE UNCHANGED vars
  BY <1>3 DEF vars, TypeOK, OrderInv, OneHost
<1> QED BY <1>1, <1>2, <1>3 DEF Next

\* The invariant holds of every reachable state: the types (TypeOK) with it.
THEOREM RoomInvariant == Spec => []RoomInv
<1>1. Init => RoomInv
  BY RoomInit
<1>2. RoomInv /\ [Next]_vars => RoomInv'
  BY RoomStep
<1> QED BY <1>1, <1>2, PTL DEF Spec

\* The types of the room hold in every state.
THEOREM RoomTypeCorrect == Spec => []TypeOK
<1>1. RoomInv => TypeOK
  BY DEF RoomInv
<1> QED BY <1>1, RoomInvariant, PTL

\* However people come, go, stay away and hand the room over, the one participant that is shown
\* as the host is the one the commands obey.
THEOREM HostCorrect == Spec => []OneHost
<1>1. RoomInv => OneHost
  BY DEF RoomInv
<1> QED BY <1>1, RoomInvariant, PTL

\* A heard performance keeps its deadline, whatever the policy selects meanwhile.
THEOREM DeadlineCorrect == Spec => []PerformanceKeepsItsDeadline
<1>1. RoomInv => PerformanceKeepsItsDeadline
  BY DEF RoomInv, SongInv, PerformanceKeepsItsDeadline
<1> QED BY <1>1, RoomInvariant, PTL

\* No step starts the song unless everyone is there, ready and measured.
THEOREM StartCorrect == Spec => StartsTogether
<1>1. RoomInv /\ [Next]_vars =>
        [room.playback # "Playing" /\ room'.playback = "Playing" => AllReady(room')]_vars
  BY RoomStep
<1> QED BY <1>1, RoomInvariant, PTL DEF Spec, StartsTogether

\* From one second before the start the deadline of a playing room stands still.
THEOREM FreezeCorrect == Spec => DeadlineFrozen
<1>1. RoomInv /\ [Next]_vars =>
        [room.started \in {"LastSecond", "Sounding"} /\ room'.playback = "Playing"
           => room'.timing = room.timing]_vars
  BY RoomStep
<1> QED BY <1>1, RoomInvariant, PTL DEF Spec, DeadlineFrozen

-----------------------------------------------------------------------------
(* A room in which everyone is ready does not wait.                        *)

\* The deadline does not matter to a room that waits.
LEMMA TimingWaits ==
  ASSUME NEW r \in Room
  PROVE  Waits(WithTiming(r)) <=> Waits(r)
BY DEF WithTiming, Waits, AllReady, Room

\* start_ready_room leaves no room waiting.
LEMMA NoneWaits ==
  ASSUME NEW r \in Room
  PROVE  ~Waits(StartReady(r))
<1>1. CASE Waits(r)
  <2>1. StartReady(r).playback = "Playing"
    BY <1>1 DEF Waits, StartReady, Start, WithTiming, Room
  <2> QED BY <2>1 DEF Waits
<1>2. CASE ~Waits(r)
  BY <1>2 DEF Waits, StartReady
<1> QED BY <1>1, <1>2

\* Who comes in has measured nothing yet, and who goes away is not there.
LEMMA ComingWaits ==
  ASSUME TypeOK, NEW p \in People, JoinRoom(p) \/ DisconnectParticipant(p), open'
  PROVE  ~Waits(room')
<1>0. room \in Room BY DEF TypeOK
<1>1. CASE JoinRoom(p)
  <2> DEFINE here   == p \in room.members
             role   == IF here THEN room.participants[p].role ELSE "Participant"
             joined == [room EXCEPT !.members = @ \cup {p},
                                    !.participants[p] = Seat(role, room.song = NoSong),
                                    !.older = IF here THEN @ ELSE @ \cup (room.members \X {p}),
                                    !.hostGone = IF p = room.host THEN "No" ELSE @]
  <2>1. p \in joined.members /\ joined.participants[p].route = NotMeasured
    BY <1>0 DEF Room, Seat
  <2>2. room' = joined \/ room' = WithTiming(joined)
    BY <1>1 DEF JoinRoom, Save
  <2> HIDE DEF joined
  <2>3. p \in room'.members /\ room'.participants[p].route = NotMeasured
    <3>1. CASE room' = joined BY <3>1, <2>1
    <3>2. CASE room' = WithTiming(joined)
      <4>1. joined \in Room
        <5>1. role \in {"Host", "Participant"} BY <1>0 DEF Room, Participant
        <5>2. (room.song = NoSong) \in BOOLEAN OBVIOUS
        <5>3. Seat(role, room.song = NoSong) \in Participant BY <5>1, <5>2 DEF Seat, Participant
        <5> HIDE DEF role
        <5> QED BY <1>0, <5>3 DEF Room, joined
      <4> QED BY <3>2, <2>1, <4>1 DEF WithTiming, Room
    <3> QED BY <2>2, <3>1, <3>2
  <2> QED BY <2>3 DEF Waits, AllReady
<1>2. CASE DisconnectParticipant(p)
  <2>1. p \in room'.members /\ ~room'.participants[p].connected
    BY <1>0, <1>2 DEF DisconnectParticipant, Save, Room, Participant
  <2> QED BY <2>1 DEF Waits, AllReady
<1> QED BY <1>1, <1>2

\* Only the selection and who is ready matter to a room that waits.
LEMMA SameWaits ==
  ASSUME TypeOK, room'.members = room.members, room'.song = room.song,
         room'.playback = room.playback, room'.autoStart = room.autoStart,
         \A q \in People : /\ room'.participants[q].connected = room.participants[q].connected
                           /\ room'.participants[q].ready = room.participants[q].ready
                           /\ room'.participants[q].route = room.participants[q].route
                           /\ room'.participants[q].calibrated = room.participants[q].calibrated,
         Waits(room')
  PROVE  Waits(room)
<1>1. room.members \subseteq People BY DEF TypeOK, Room
<1>2. AllReady(room') BY DEF Waits
<1>3. AllReady(room) BY <1>1, <1>2 DEF AllReady
<1> QED BY <1>3 DEF Waits

\* Two roles change hands.
LEMMA RolesWait ==
  ASSUME TypeOK, NEW a \in People, NEW b \in People, NEW gone,
         Save([room EXCEPT !.participants[a].role = "Participant",
                           !.participants[b].role = "Host", !.host = b, !.hostGone = gone])
  PROVE  /\ \A q \in People :
              /\ room'.participants[q].connected = room.participants[q].connected
              /\ room'.participants[q].ready = room.participants[q].ready
              /\ room'.participants[q].route = room.participants[q].route
              /\ room'.participants[q].calibrated = room.participants[q].calibrated
         /\ room'.members = room.members /\ room'.song = room.song /\ room'.host = b
         /\ room'.playback = room.playback /\ room'.autoStart = room.autoStart
         /\ room'.older = room.older /\ room'.hostGone = gone
BY DEF TypeOK, Save, Room, Participant

\* No step leaves a room waiting that did not, but a departure.
LEMMA WaitingStarts ==
  ASSUME TypeOK, OrderInv, Next, open', Waits(room')
  PROVE  Waits(room) \/ Departures
<1>0. room \in Room BY DEF TypeOK
<1>1. ASSUME NEW p \in People, JoinRoom(p) \/ DisconnectParticipant(p) PROVE FALSE
  BY <1>1, ComingWaits
<1>2. ~RemoveAbandoned /\ \A p \in People : ~CloseRoom(p)
  BY DEF CloseRoom, RemoveAbandoned, Delete
<1>3. ASSUME NEW p \in People, NEW t \in People, TransferRoomHost(p, t) PROVE Waits(room)
  BY <1>3, RolesWait, SameWaits DEF TransferRoomHost
<1>4. CASE GraceElapses
  <2>1. /\ room'.members = room.members /\ room'.song = room.song
        /\ room'.playback = room.playback /\ room'.autoStart = room.autoStart
        /\ room'.participants = room.participants
    BY <1>0, <1>4 DEF GraceElapses, Save, Room
  <2> QED BY <2>1, SameWaits
<1>5. CASE ResolveHostDisconnect
  <2> DEFINE heirs == Connected(room) \ {room.host}
             heir  == Oldest(room, heirs)
  <2>1. heirs # {} /\ heirs \in SUBSET room.members
    BY <1>5 DEF ResolveHostDisconnect, Delete, Connected
  <2>2. heir \in heirs BY <1>0, <2>1, OldestIsOne DEF OrderInv
  <2>3. heir \in People /\ room.host \in People BY <1>0, <2>1, <2>2 DEF Room
  <2>4. Save([room EXCEPT !.participants[room.host].role = "Participant",
                          !.participants[heir].role = "Host", !.host = heir, !.hostGone = "No"])
    BY <1>5, <2>1 DEF ResolveHostDisconnect, Delete
  <2> HIDE DEF heir, heirs
  <2> QED BY <2>3, <2>4, RolesWait, SameWaits
<1>6. ASSUME NEW p \in People, NEW s \in Songs, SelectRoomSong(p, s) PROVE FALSE
  <2> DEFINE selected ==
        [room EXCEPT !.song = s, !.autoStart = TRUE, !.playback = "Stopped",
                     !.started = "No", !.singing = NoTiming,
                     !.participants = [q \in People |-> [@[q] EXCEPT !.ready = FALSE]]]
  <2>1. [q \in People |-> [room.participants[q] EXCEPT !.ready = FALSE]] \in [People -> Participant]
    BY <1>0, ReadyType DEF Room
  <2>2. selected \in Room BY <1>0, <2>1 DEF Room
  <2>3. p \in selected.members /\ ~selected.participants[p].ready
    BY <1>0, <1>6 DEF SelectRoomSong, IsController, IsMember, Connected, Room, Participant
  <2>4. room' = WithTiming(selected) BY <1>6 DEF SelectRoomSong, Save
  <2>5. ~Waits(selected) BY <2>3 DEF Waits, AllReady
  <2> HIDE DEF selected
  <2> QED BY <2>2, <2>4, <2>5, TimingWaits
<1>7. ASSUME NEW p \in People, ClearRoomSong(p) PROVE FALSE
  BY <1>0, <1>7 DEF ClearRoomSong, Save, WithTiming, Waits, Room
<1>8. ASSUME NEW p \in People, NEW b \in BOOLEAN, SetParticipantReadiness(p, b) PROVE FALSE
  <2>1. [room EXCEPT !.participants[p].ready = b] \in Room BY <1>0, ReadyType DEF Room
  <2> QED BY <1>8, <2>1, NoneWaits DEF SetParticipantReadiness, Save
<1>9. ASSUME NEW p \in People, NEW d \in Routes, NEW b \in BOOLEAN, SetParticipantTiming(p, d, b)
      PROVE  FALSE
  <2> DEFINE reported == [room EXCEPT !.participants[p].route = d,
                                      !.participants[p].calibrated = b]
             refines  == \/ room.playback # "Playing"
                         \/ room.singing = NoTiming /\ room.started = "Countdown"
  <2>1. reported \in Room BY <1>0, RouteType DEF Room
  <2>2. room' = IF refines THEN StartReady(WithTiming(reported)) ELSE reported
    BY <1>9 DEF SetParticipantTiming, Save
  <2>3. reported.playback = room.playback BY <1>0 DEF Room
  <2> HIDE DEF reported
  <2>4. CASE refines BY <2>1, <2>2, <2>4, NoneWaits, WithTimingType
  <2>5. CASE ~refines BY <2>2, <2>3, <2>5 DEF Waits
  <2> QED BY <2>4, <2>5
<1>10. ASSUME NEW p \in People, StartSong(p) \/ PauseSong(p) \/ StopSong(p) PROVE FALSE
  BY <1>0, <1>10 DEF StartSong, PauseSong, StopSong, Save, Start, Pause, Stop, WithTiming, Waits, Room
<1>11. ASSUME NEW p \in People, NEW b \in BOOLEAN, SetCollaborativeControl(p, b)
       PROVE  Waits(room)
  <2>1. /\ room'.members = room.members /\ room'.song = room.song
        /\ room'.playback = room.playback /\ room'.autoStart = room.autoStart
        /\ room'.participants = room.participants
    BY <1>0, <1>11 DEF SetCollaborativeControl, Save, Room
  <2> QED BY <2>1, SameWaits
<1>12. CASE CountdownCloses \/ SongBegins \/ \E p \in People : SeekSong(p)
  <2>1. /\ room'.members = room.members /\ room'.song = room.song
        /\ room'.playback = room.playback /\ room'.autoStart = room.autoStart
        /\ room'.participants = room.participants
    BY <1>0, <1>12 DEF CountdownCloses, SongBegins, SeekSong, Seek, Save, Room
  <2> QED BY <2>1, SameWaits
<1>13. CASE Membership
  BY <1>1, <1>2, <1>3, <1>4, <1>5, <1>13 DEF Membership
<1>14. CASE Playing
  BY <1>6, <1>7, <1>8, <1>9, <1>10, <1>11, <1>12, <1>14 DEF Playing
<1> QED BY <1>13, <1>14 DEF Next

\* "Start a selected song once project readiness and voice calibration both permit singing"
\* (commands.py:194): only a departure leaves a room waiting in which everyone is ready.
THEOREM ReadyCorrect == Spec => ReadyRoomStarts
<1>1. RoomInv /\ [Next]_vars => [open' /\ Waits(room') => Waits(room) \/ Departures]_vars
  BY WaitingStarts DEF RoomInv
<1> QED BY <1>1, RoomInvariant, PTL DEF Spec, ReadyRoomStarts

-----------------------------------------------------------------------------
(* The failover of an absent host, in a room which such a host does not     *)
(* leave by command.                                                       *)

\* Who is there, who hosts and the clock of its absence are as they were.
Stays(r) ==
  /\ r.host = room.host /\ r.members = room.members /\ r.hostGone = room.hostGone
  /\ \A q \in People : r.participants[q].connected = room.participants[q].connected

\* A step of the song leaves them so.
LEMMA PlayingStays ==
  ASSUME TypeOK, Playing
  PROVE  Stays(room') /\ open' = open
<1>0. room \in Room BY DEF TypeOK
<1>1. ASSUME NEW r \in Room, Stays(r)
      PROVE  \A c \in {WithTiming(r), Start(r), Pause(r), Stop(r), Seek(r), StartReady(r)} :
               Stays(c)
  <2>1. /\ WithTiming(r).hostGone = r.hostGone /\ Start(r).hostGone = r.hostGone
        /\ Pause(r).hostGone = r.hostGone /\ Stop(r).hostGone = r.hostGone
        /\ Seek(r).hostGone = r.hostGone
    BY DEF WithTiming, Start, Pause, Stop, Seek, Room
  <2>2. StartReady(r).hostGone = r.hostGone BY <2>1 DEF StartReady
  <2> QED BY <1>1, <2>1, <2>2, MediaKeepsPeople DEF Stays
<1>2. ASSUME NEW r, Save(r), Stays(r) PROVE Stays(room') /\ open' = open
  BY <1>2, Zenon DEF Save
<1>3. Stays(room) BY DEF Stays
<1>4. ASSUME NEW p \in People, NEW s \in Songs, SelectRoomSong(p, s)
      PROVE  Stays(room') /\ open' = open
  <2> DEFINE r == [room EXCEPT !.song = s, !.autoStart = TRUE, !.playback = "Stopped",
                     !.started = "No", !.singing = NoTiming,
                     !.participants = [q \in People |-> [@[q] EXCEPT !.ready = FALSE]]]
  <2>1. [q \in People |-> [room.participants[q] EXCEPT !.ready = FALSE]] \in [People -> Participant]
    BY <1>0, ReadyType DEF Room
  <2>2. r \in Room BY <1>0, <2>1 DEF Room
  <2>4. \A q \in People : r.participants[q].connected = room.participants[q].connected
    BY <1>0 DEF Room, Participant
  <2>5. Stays(r) BY <1>0, <2>4 DEF Room, Stays
  <2>3. Save(WithTiming(r)) BY <1>4 DEF SelectRoomSong
  <2> HIDE DEF r
  <2> QED BY <1>1, <1>2, <2>2, <2>3, <2>5
<1>5. ASSUME NEW p \in People, ClearRoomSong(p) PROVE Stays(room') /\ open' = open
  <2> DEFINE r == [room EXCEPT !.song = NoSong, !.autoStart = FALSE, !.playback = "Stopped",
                     !.started = "No", !.singing = NoTiming,
                     !.participants = [q \in People |-> [@[q] EXCEPT !.ready = (q \in room.members)]]]
  <2>1. [q \in People |-> [room.participants[q] EXCEPT !.ready = (q \in room.members)]]
          \in [People -> Participant]
    <3>1. \A q \in People : (q \in room.members) \in BOOLEAN OBVIOUS
    <3> QED BY <1>0, <3>1, ReadyType DEF Room
  <2>2. r \in Room BY <1>0, <2>1 DEF Room
  <2>4. \A q \in People : r.participants[q].connected = room.participants[q].connected
    BY <1>0 DEF Room, Participant
  <2>5. Stays(r) BY <1>0, <2>4 DEF Room, Stays
  <2>3. Save(WithTiming(r)) BY <1>5 DEF ClearRoomSong
  <2> HIDE DEF r
  <2> QED BY <1>1, <1>2, <2>2, <2>3, <2>5
<1>6. ASSUME NEW p \in People, NEW b \in BOOLEAN, SetParticipantReadiness(p, b)
      PROVE  Stays(room') /\ open' = open
  <2> DEFINE r == [room EXCEPT !.participants[p].ready = b]
  <2>1. r \in Room BY <1>0, ReadyType DEF Room
  <2>4. \A q \in People : r.participants[q].connected = room.participants[q].connected
    BY <1>0 DEF Room, Participant
  <2>5. Stays(r) BY <1>0, <2>4 DEF Room, Stays
  <2>2. Save(StartReady(r)) BY <1>6 DEF SetParticipantReadiness
  <2> HIDE DEF r
  <2> QED BY <1>1, <1>2, <2>1, <2>2, <2>5
<1>7. ASSUME NEW p \in People, NEW d \in Routes, NEW b \in BOOLEAN, SetParticipantTiming(p, d, b)
      PROVE  Stays(room') /\ open' = open
  <2> DEFINE reported == [room EXCEPT !.participants[p].route = d,
                                      !.participants[p].calibrated = b]
             refines  == \/ room.playback # "Playing"
                         \/ room.singing = NoTiming /\ room.started = "Countdown"
  <2>1. reported \in Room BY <1>0, RouteType DEF Room
  <2>6. \A q \in People : reported.participants[q].connected = room.participants[q].connected
    BY <1>0 DEF Room, Participant
  <2>5. Stays(reported) BY <1>0, <2>6 DEF Room, Stays
  <2>2. Save(IF refines THEN StartReady(WithTiming(reported)) ELSE reported)
    BY <1>7 DEF SetParticipantTiming
  <2> HIDE DEF reported, refines
  <2>3. WithTiming(reported) \in Room /\ Stays(WithTiming(reported))
    BY <1>1, <2>1, <2>5, WithTimingType
  <2>4. Stays(StartReady(WithTiming(reported))) BY <1>1, <2>3
  <2> QED BY <1>2, <2>1, <2>2, <2>4, <2>5
<1>8. ASSUME NEW p \in People, StartSong(p) \/ PauseSong(p) \/ StopSong(p) \/ SeekSong(p)
      PROVE  Stays(room') /\ open' = open
  <2>1. PICK r \in {Start(room), Pause(room), Stop(room), Seek(room)} : Save(r)
    BY <1>8 DEF StartSong, PauseSong, StopSong, SeekSong
  <2> QED BY <1>0, <1>1, <1>2, <1>3, <2>1
<1>9. ASSUME NEW p \in People, NEW b \in BOOLEAN, SetCollaborativeControl(p, b)
      PROVE  Stays(room') /\ open' = open
  BY <1>0, <1>9 DEF SetCollaborativeControl, Save, Room, Stays
<1>10. CASE CountdownCloses \/ SongBegins
  BY <1>0, <1>10 DEF CountdownCloses, SongBegins, Save, Room, Stays
<1> QED BY <1>4, <1>5, <1>6, <1>7, <1>8, <1>9, <1>10 DEF Playing

\* Where nobody else moves the clock of absence, it runs only while the host is away.
LEMMA AbsenceStep ==
  ASSUME TypeOK, AbsenceIsTimed, Next /\ HostStays
  PROVE  AbsenceIsTimed'
<1>0. room \in Room BY DEF TypeOK
<1> USE DEF AbsenceIsTimed, IsMember, Connected
<1>1. CASE Playing
  <2>1. room.members \subseteq People BY <1>0 DEF Room
  <2> QED BY <1>1, <2>1, PlayingStays DEF Stays
<1>2. ASSUME NEW p \in People, JoinRoom(p) PROVE AbsenceIsTimed'
  <2>1. /\ open' = open /\ room'.host = room.host
        /\ room'.hostGone = IF p = room.host THEN "No" ELSE room.hostGone
        /\ room'.members = room.members \cup {p}
        /\ \A q \in People \ {p} : room'.participants[q] = room.participants[q]
    BY <1>0, <1>2 DEF JoinRoom, Save, WithTiming, Room
  <2> QED BY <1>0, <2>1 DEF Room
<1>3. ASSUME NEW p \in People, DisconnectParticipant(p) PROVE AbsenceIsTimed'
  BY <1>0, <1>3 DEF DisconnectParticipant, Save, Room, Participant
<1>4. ASSUME Delete PROVE AbsenceIsTimed'
  BY <1>4 DEF Delete
<1>5. CASE GraceElapses
  BY <1>0, <1>5 DEF GraceElapses, Save, Room
<1>6. CASE ResolveHostDisconnect
  BY <1>0, <1>4, <1>6 DEF ResolveHostDisconnect, Save, Room
<1>7. ASSUME NEW p \in People, NEW t \in People, TransferRoomHost(p, t) PROVE AbsenceIsTimed'
  BY <1>0, <1>7 DEF TransferRoomHost, Save, Room
<1>8. ASSUME NEW p \in People, NEW t \in People, RemoveRoomParticipant(p, t) PROVE AbsenceIsTimed'
  BY <1>0, <1>8 DEF RemoveRoomParticipant, IsHost, Without, Save, Room
<1>9. ASSUME NEW p \in People, LeaveRoom(p), p # room.host PROVE AbsenceIsTimed'
  <2>1. Save(Without(room, p)) BY <1>9 DEF LeaveRoom
  <2>2. /\ open' = open /\ room'.host = room.host /\ room'.hostGone = room.hostGone
        /\ room'.members = room.members \ {p}
        /\ \A q \in People \ {p} : room'.participants[q] = room.participants[q]
    BY <1>0, <2>1 DEF Without, Save, Room
  <2> QED BY <1>0, <1>9, <2>2 DEF Room
<1>10. ASSUME LeaveRoom(room.host) PROVE AbsenceIsTimed'
  <2>1. room.hostGone = "No" \/ ~open BY <1>10 DEF HostStays
  <2>2. Delete \/ room'.hostGone = room.hostGone
    BY <1>0, <1>10 DEF LeaveRoom, Without, Save, Room
  <2>3. open BY <1>10 DEF LeaveRoom, Save, Delete
  <2> QED BY <1>4, <2>1, <2>2, <2>3
<1> QED
  BY <1>1, <1>2, <1>3, <1>4, <1>5, <1>6, <1>7, <1>8, <1>9, <1>10
  DEF Next, Membership, Departures, CloseRoom, RemoveAbandoned

\* A room begins with its host.
LEMMA AbsenceInit ==
  ASSUME Init
  PROVE  AbsenceIsTimed
BY DEF Init, Created, AbsenceIsTimed

\* The heir is the oldest of those who are there.
LEMMA HeirIsOldest ==
  ASSUME TypeOK, OrderInv, AbsenceIsTimed, ResolveHostDisconnect, open'
  PROVE  Connected(room') # {} /\ room'.host = Oldest(room', Connected(room'))
<1>0. room \in Room BY DEF TypeOK
<1> DEFINE heirs == Connected(room) \ {room.host}
           heir  == Oldest(room, heirs)
<1>1. heirs # {} /\ heirs \in SUBSET room.members
  BY DEF ResolveHostDisconnect, Delete, Connected
<1>2. heir \in heirs BY <1>0, <1>1, OldestIsOne DEF OrderInv
<1>3. heir \in People /\ room.host \in People BY <1>0, <1>1, <1>2 DEF Room
<1>4. Save([room EXCEPT !.participants[room.host].role = "Participant",
                        !.participants[heir].role = "Host", !.host = heir, !.hostGone = "No"])
  BY <1>1 DEF ResolveHostDisconnect, Delete
<1>5. open /\ room.hostGone # "No" BY <1>4 DEF ResolveHostDisconnect, Save
<1>6. heirs = Connected(room) BY <1>5 DEF AbsenceIsTimed, IsMember
<1> HIDE DEF heirs
<1>7. /\ \A q \in People : room'.participants[q].connected = room.participants[q].connected
      /\ room'.members = room.members /\ room'.host = heir /\ room'.older = room.older
  BY <1>3, <1>4, RolesWait
<1>8. Connected(room') = heirs
  BY <1>0, <1>6, <1>7 DEF Connected, Room
<1>9. Oldest(room', heirs) = Oldest(room, heirs)
  BY <1>7 DEF Oldest
<1> QED BY <1>1, <1>7, <1>8, <1>9

\* Where an absent host does not leave by command, the clock of its absence is its own.
THEOREM AbsenceCorrect == Init /\ [][Next /\ HostStays]_vars => []AbsenceIsTimed
<1>1. Init => RoomInv /\ AbsenceIsTimed
  BY RoomInit, AbsenceInit
<1>2. RoomInv /\ AbsenceIsTimed /\ [Next /\ HostStays]_vars => (RoomInv /\ AbsenceIsTimed)'
  <2>1. RoomInv /\ [Next /\ HostStays]_vars => RoomInv'
    BY RoomStep
  <2>2. AbsenceIsTimed /\ UNCHANGED vars => AbsenceIsTimed'
    BY DEF AbsenceIsTimed, IsMember, Connected, vars
  <2> QED BY <2>1, <2>2, AbsenceStep DEF RoomInv
<1> QED BY <1>1, <1>2, PTL

\* "Authority therefore moves to the oldest still-connected participant"
\* (membership_commands.py:131), in a room which an absent host does not leave by command.
THEOREM FailoverCorrect ==
  Init /\ [][Next /\ HostStays]_vars => FailoverGoesToTheOldestConnected
<1>1. Init => RoomInv
  BY RoomInit
<1>2. RoomInv /\ [Next /\ HostStays]_vars => RoomInv'
  BY RoomStep
<1>3. RoomInv /\ AbsenceIsTimed /\ [Next /\ HostStays]_vars =>
        [ResolveHostDisconnect /\ open'
           => Connected(room') # {} /\ room'.host = Oldest(room', Connected(room'))]_vars
  BY HeirIsOldest DEF RoomInv
<1> QED BY <1>1, <1>2, <1>3, AbsenceCorrect, PTL DEF FailoverGoesToTheOldestConnected
=============================================================================
