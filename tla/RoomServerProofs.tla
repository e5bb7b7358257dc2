-------------------------- MODULE RoomServerProofs --------------------------
(***************************************************************************)
(* Three modules about the room server and the apps that talk to it.       *)
(* RoomLocks: one command of a room at a time, an exact count of who uses  *)
(* a lock, and no save that undoes another.  RoomWatch: an app never       *)
(* remembers a version whose changes it did not get.  RoomPresence: an app *)
(* is taken out of its room only after a whole grace.  For any number of   *)
(* rooms, commands, apps, connections, changes, losses and restarts.       *)
(***************************************************************************)
EXTENDS RoomLocks, RoomWatch, RoomPresence, FiniteSetTheorems, TLAPS

-----------------------------------------------------------------------------
(* The locks.                                                              *)

\* Whoever is inside hold() has the lock the registry has for its room.
LockIsRegistered ==
  \A c \in Commands : pc[c] \in Inside => entry[room[c]] # NoLock /\ lock[c] = entry[room[c]]

\* Nobody changed a room since the command that has it loaded read it.
LoadIsCurrent ==
  \A c \in Commands : pc[c] = "Loaded" => loaded[c] = saved[room[c]]

LocksInv ==
  LocksTypeOK /\ RegistryIsExact /\ LockIsRegistered /\ OneAtATime /\ LoadIsCurrent

\* The users of a room are finitely many.
LEMMA UsersFinite ==
  ASSUME NEW r \in Rooms
  PROVE  IsFiniteSet(Users(r)) /\ Cardinality(Users(r)) \in Nat
<1>1. Users(r) \subseteq Commands
  BY DEF Users
<1> QED BY <1>1, CommandsAssumption, FS_Subset, FS_CardinalityType

\* At the beginning nobody is inside hold().
LEMMA LocksBegin == LocksInit => LocksInv
<1> SUFFICES ASSUME LocksInit PROVE LocksInv
  OBVIOUS
<1>1. LocksTypeOK
  BY DEF LocksInit, LocksTypeOK
<1>2. \A r \in Rooms : Users(r) = {}
  BY DEF LocksInit, Users, Inside
<1>3. RegistryIsExact
  BY <1>2, FS_EmptySet DEF LocksInit, RegistryIsExact
<1> QED BY <1>1, <1>3 DEF LocksInit, LocksInv, LockIsRegistered, OneAtATime, LoadIsCurrent,
     Inside, Owning

\* Who is inside hold() is counted.
LEMMA InsideIsCounted ==
  ASSUME LocksTypeOK, RegistryIsExact, NEW c \in Commands, pc[c] \in Inside
  PROVE  users[room[c]] \in Nat \ {0}
<1>1. room[c] \in Rooms /\ c \in Users(room[c])
  BY DEF LocksTypeOK, Users
<1>2. Cardinality(Users(room[c])) # 0
  BY <1>1, UsersFinite, FS_EmptySet
<1> QED BY <1>1, <1>2, UsersFinite DEF RegistryIsExact

\* Every step keeps the types; the count of users is never taken below zero.
LEMMA LocksTypeStep == LocksTypeOK /\ RegistryIsExact /\ [LocksNext]_lockVars => LocksTypeOK'
<1> SUFFICES ASSUME LocksTypeOK, RegistryIsExact, [LocksNext]_lockVars PROVE LocksTypeOK'
  OBVIOUS
<1>1. ASSUME NEW c \in Commands, Arrive(c) PROVE LocksTypeOK'
  BY <1>1 DEF Arrive, LocksTypeOK, Step, Inside
<1>2. ASSUME NEW c \in Commands, Register(c) PROVE LocksTypeOK'
  BY <1>2 DEF Register, LocksTypeOK, Step, Inside
<1>3. ASSUME NEW c \in Commands, Acquire(c) PROVE LocksTypeOK'
  BY <1>3 DEF Acquire, LocksTypeOK, Step, Inside
<1>4. ASSUME NEW c \in Commands, Load(c) PROVE LocksTypeOK'
  BY <1>4 DEF Load, LocksTypeOK, Step, Inside
<1>5. ASSUME NEW c \in Commands, Refuse(c) \/ Delete(c) \/ Release(c) PROVE LocksTypeOK'
  BY <1>5 DEF Refuse, Delete, Release, LocksTypeOK, Step, Inside
<1>6. ASSUME NEW c \in Commands, Save(c) PROVE LocksTypeOK'
  BY <1>6 DEF Save, LocksTypeOK, Step, Inside
<1>7. ASSUME NEW c \in Commands, Unregister(c) PROVE LocksTypeOK'
  <2>1. users[room[c]] \in Nat \ {0}
    BY <1>7, InsideIsCounted DEF Unregister, Step, Inside
  <2> QED BY <1>7, <2>1 DEF Unregister, LocksTypeOK, Step, Inside
<1>8. CASE Housekeeping
  BY <1>8 DEF Housekeeping, Judge, HourPasses, Sweep, LocksTypeOK, Inside
<1>9. CASE UNCHANGED lockVars
  BY <1>9 DEF lockVars, LocksTypeOK
<1> QED BY <1>1, <1>2, <1>3, <1>4, <1>5, <1>6, <1>7, <1>8, <1>9 DEF LocksNext, Serve, Work

\* A step that moves nobody in or out of hold() leaves the registry exact.
LEMMA RegistryUntouched ==
  ASSUME RegistryIsExact, UNCHANGED <<room, entry, users>>,
         \A c \in Commands : pc'[c] \in Inside <=> pc[c] \in Inside
  PROVE  RegistryIsExact'
<1>1. \A r \in Rooms : Users(r)' = Users(r)
  BY DEF Users
<1> QED BY <1>1 DEF RegistryIsExact

\* Every step keeps the registry exact.
LEMMA RegistryStep == LocksInv /\ [LocksNext]_lockVars => RegistryIsExact'
<1> SUFFICES ASSUME LocksInv, [LocksNext]_lockVars PROVE RegistryIsExact'
  OBVIOUS
<1> USE DEF LocksInv
<1>1. ASSUME NEW c \in Commands, Register(c) PROVE RegistryIsExact'
  <2>0. PICK r \in Rooms : r = room[c]
    BY DEF LocksTypeOK
  <2>1. c \notin Users(r)
    BY <1>1 DEF Register, Step, Users, Inside
  <2>2. Users(r)' = Users(r) \cup {c}
    BY <1>1, <2>0 DEF Register, Step, Users, Inside, LocksTypeOK
  <2>3. \A q \in Rooms \ {r} : Users(q)' = Users(q)
    BY <1>1, <2>0 DEF Register, Step, Users, Inside, LocksTypeOK
  <2>4. Cardinality(Users(r)') = Cardinality(Users(r)) + 1
    BY <2>1, <2>2, UsersFinite, FS_AddElement
  <2>5. entry'[r] # NoLock /\ users'[r] = users[r] + 1
    BY <1>1, <2>0, CommandsAssumption DEF Register, LocksTypeOK
  <2>6. \A q \in Rooms \ {r} : users'[q] = users[q] /\ entry'[q] = entry[q]
    BY <1>1, <2>0 DEF Register, LocksTypeOK
  <2> QED BY <2>2, <2>3, <2>4, <2>5, <2>6 DEF RegistryIsExact
<1>2. ASSUME NEW c \in Commands, Unregister(c) PROVE RegistryIsExact'
  <2>0. PICK r \in Rooms : r = room[c]
    BY DEF LocksTypeOK
  <2>1. c \in Users(r)
    BY <1>2, <2>0 DEF Unregister, Step, Users, Inside
  <2>2. Users(r)' = Users(r) \ {c}
    BY <1>2, <2>0 DEF Unregister, Step, Users, Inside, LocksTypeOK
  <2>3. \A q \in Rooms \ {r} : Users(q)' = Users(q)
    BY <1>2, <2>0 DEF Unregister, Step, Users, Inside, LocksTypeOK
  <2>4. /\ IsFiniteSet(Users(r)')
        /\ Cardinality(Users(r)') = Cardinality(Users(r)) - 1
    BY <2>1, <2>2, UsersFinite, FS_RemoveElement
  <2>5. Cardinality(Users(r)') = 0 <=> Users(r)' = {}
    BY <2>4, FS_EmptySet
  <2>6. entry[r] # NoLock
    BY <2>1 DEF RegistryIsExact
  <2>7. /\ users'[r] = users[r] - 1
        /\ entry'[r] = IF users'[r] = 0 THEN NoLock ELSE entry[r]
        /\ \A q \in Rooms \ {r} : users'[q] = users[q] /\ entry'[q] = entry[q]
    BY <1>2, <2>0 DEF Unregister, LocksTypeOK
  <2> QED BY <2>3, <2>4, <2>5, <2>6, <2>7 DEF RegistryIsExact
<1>3. ASSUME NEW c \in Commands,
             Arrive(c) \/ Acquire(c) \/ Load(c) \/ Refuse(c) \/ Save(c) \/ Delete(c) \/ Release(c)
      PROVE  RegistryIsExact'
  BY <1>3, RegistryUntouched
     DEF Arrive, Acquire, Load, Refuse, Save, Delete, Release, Step, Inside, LocksTypeOK
<1>4. CASE Housekeeping \/ UNCHANGED lockVars
  BY <1>4, RegistryUntouched DEF Housekeeping, Judge, HourPasses, Sweep, lockVars
<1> QED BY <1>1, <1>2, <1>3, <1>4 DEF LocksNext, Serve, Work

\* Every step keeps the lock of whoever is inside that of the registry, and one owner of it.
LEMMA LockStep == LocksInv /\ [LocksNext]_lockVars => LockIsRegistered' /\ OneAtATime'
<1> SUFFICES ASSUME LocksInv, [LocksNext]_lockVars PROVE LockIsRegistered' /\ OneAtATime'
  OBVIOUS
<1> USE DEF LocksInv
<1>1. ASSUME NEW c \in Commands, Register(c) PROVE LockIsRegistered' /\ OneAtATime'
  <2>1. /\ pc'[c] = "Waiting" /\ lock'[c] = entry'[room[c]] /\ entry'[room[c]] # NoLock
        /\ entry[room[c]] # NoLock => entry'[room[c]] = entry[room[c]]
        /\ \A r \in Rooms \ {room[c]} : entry'[r] = entry[r]
        /\ \A d \in Commands \ {c} : pc'[d] = pc[d] /\ lock'[d] = lock[d]
        /\ room' = room
    BY <1>1, CommandsAssumption DEF Register, Step, LocksTypeOK
  <2> QED BY <2>1 DEF LockIsRegistered, OneAtATime, Inside, Owning, LocksTypeOK
<1>2. ASSUME NEW c \in Commands, Unregister(c) PROVE LockIsRegistered' /\ OneAtATime'
  <2>1. /\ pc'[c] = "Ended" /\ lock' = lock /\ room' = room
        /\ \A r \in Rooms : entry'[r] # NoLock => entry'[r] = entry[r]
        /\ \A d \in Commands \ {c} : pc'[d] = pc[d]
    BY <1>2 DEF Unregister, Step, LocksTypeOK
  <2>2. ASSUME NEW d \in Commands, pc'[d] \in Inside
        PROVE  entry'[room[d]] # NoLock
    <3>1. RegistryIsExact'
      BY RegistryStep
    <3>2. PICK r \in Rooms : r = room[d]
      BY DEF LocksTypeOK
    <3>3. d \in Users(r)'
      BY <2>1, <2>2, <3>2 DEF Users
    <3> QED BY <3>1, <3>2, <3>3 DEF RegistryIsExact
  <2> QED BY <2>1, <2>2 DEF LockIsRegistered, OneAtATime, Inside, Owning, LocksTypeOK
<1>3. ASSUME NEW c \in Commands, Acquire(c) PROVE LockIsRegistered' /\ OneAtATime'
  <2>1. /\ pc[c] = "Waiting" /\ pc'[c] = "Holding"
        /\ \A d \in Commands \ {c} : pc'[d] = pc[d]
        /\ UNCHANGED <<lock, room, entry>>
    BY <1>3 DEF Acquire, Step, LocksTypeOK
  <2>2. \A d \in Commands : pc[d] \in Owning => lock[d] # lock[c]
    BY <1>3 DEF Acquire
  <2>3. \A d \in Commands : pc[d] \in Owning => room[d] # room[c]
    BY <2>1, <2>2 DEF LockIsRegistered, Inside, Owning
  <2> QED BY <2>1, <2>3 DEF LockIsRegistered, OneAtATime, Inside, Owning
<1>4. ASSUME NEW c \in Commands,
             Arrive(c) \/ Load(c) \/ Refuse(c) \/ Save(c) \/ Delete(c) \/ Release(c)
      PROVE  LockIsRegistered' /\ OneAtATime'
  <2>1. /\ \A d \in Commands : /\ pc'[d] \in Inside => pc[d] \in Inside
                               /\ pc'[d] \in Owning => pc[d] \in Owning
        /\ UNCHANGED <<lock, room, entry>>
    BY <1>4 DEF Arrive, Load, Refuse, Save, Delete, Release, Step, Inside, Owning, LocksTypeOK
  <2> QED BY <2>1 DEF LockIsRegistered, OneAtATime
<1>5. CASE Housekeeping \/ UNCHANGED lockVars
  BY <1>5 DEF Housekeeping, Judge, HourPasses, Sweep, lockVars, LockIsRegistered, OneAtATime
<1> QED BY <1>1, <1>2, <1>3, <1>4, <1>5 DEF LocksNext, Serve, Work

\* Every step keeps what is loaded equal to what is stored: nobody else saves meanwhile.
LEMMA LoadStep == LocksInv /\ [LocksNext]_lockVars => LoadIsCurrent'
<1> SUFFICES ASSUME LocksInv, [LocksNext]_lockVars PROVE LoadIsCurrent'
  OBVIOUS
<1> USE DEF LocksInv
<1>1. ASSUME NEW c \in Commands, Load(c) PROVE LoadIsCurrent'
  BY <1>1 DEF Load, Step, LoadIsCurrent, LocksTypeOK
<1>2. ASSUME NEW c \in Commands, Save(c) PROVE LoadIsCurrent'
  <2>1. /\ pc[c] = "Loaded" /\ pc'[c] = "Leaving" /\ UNCHANGED <<loaded, room>>
        /\ \A d \in Commands \ {c} : pc'[d] = pc[d]
        /\ \A r \in Rooms \ {room[c]} : saved'[r] = saved[r]
    BY <1>2 DEF Save, Step, LocksTypeOK
  <2>2. \A d \in Commands \ {c} : pc[d] = "Loaded" => room[d] # room[c]
    BY <2>1 DEF OneAtATime, Owning
  <2> QED BY <2>1, <2>2 DEF LoadIsCurrent, LocksTypeOK
<1>3. ASSUME NEW c \in Commands, Arrive(c) \/ Register(c) \/ Acquire(c) \/ Refuse(c) \/ Delete(c)
                                 \/ Release(c) \/ Unregister(c)
      PROVE  LoadIsCurrent'
  <2>1. /\ \A d \in Commands : pc'[d] = "Loaded" => pc[d] = "Loaded"
        /\ UNCHANGED <<loaded, room, saved>>
    BY <1>3 DEF Arrive, Register, Acquire, Refuse, Delete, Release, Unregister, Step,
         LocksTypeOK
  <2> QED BY <2>1 DEF LoadIsCurrent
<1>4. CASE Housekeeping \/ UNCHANGED lockVars
  BY <1>4 DEF Housekeeping, Judge, HourPasses, Sweep, lockVars, LoadIsCurrent
<1> QED BY <1>1, <1>2, <1>3, <1>4 DEF LocksNext, Serve, Work

\* The inductive invariant of the locks.
THEOREM LocksInvariant == LocksSpec => []LocksInv
<1>1. LocksInv /\ [LocksNext]_lockVars => LocksInv'
  BY LocksTypeStep, RegistryStep, LockStep, LoadStep DEF LocksInv
<1> QED BY LocksBegin, <1>1, PTL DEF LocksSpec

\* The variables keep their types.
THEOREM LocksTypeCorrect == LocksSpec => []LocksTypeOK
<1>1. LocksInv => LocksTypeOK
  BY DEF LocksInv
<1> QED BY LocksInvariant, <1>1, PTL

\* serialization.py:14: the commands of a room run one at a time, whatever locks come and go.
THEOREM CommandsTakeTurns == LocksSpec => []OneAtATime
<1>1. LocksInv => OneAtATime
  BY DEF LocksInv
<1> QED BY LocksInvariant, <1>1, PTL

\* serialization.py:18: the registry holds exactly the locks in use, so it never grows.
THEOREM RegistryCorrect == LocksSpec => []RegistryIsExact
<1>1. LocksInv => RegistryIsExact
  BY DEF LocksInv
<1> QED BY LocksInvariant, <1>1, PTL

\* serialization.py:58: no save undoes the change of another command, sweeps included.
THEOREM UpdatesKept == LocksSpec => NoUpdateUndone
<1>1. LocksInv /\ [LocksNext]_lockVars =>
        [\A r \in rooms \cap rooms' : saved[r] \subseteq saved'[r]]_lockVars
  <2> SUFFICES ASSUME LocksInv, LocksNext PROVE \A r \in Rooms : saved[r] \subseteq saved'[r]
    BY DEF LocksInv, LocksTypeOK
  <2>1. ASSUME NEW c \in Commands, Save(c) PROVE \A r \in Rooms : saved[r] \subseteq saved'[r]
    <3>1. saved[room[c]] = loaded[c]
      BY <2>1 DEF LocksInv, LoadIsCurrent, Save, Step
    <3> QED BY <2>1, <3>1 DEF LocksInv, LocksTypeOK, Save
  <2>2. CASE UNCHANGED saved
    BY <2>2
  <2> QED BY <2>1, <2>2 DEF LocksNext, Serve, Work, Housekeeping, Arrive, Register, Acquire,
       Load,
             Refuse, Delete, Release, Unregister, Judge, HourPasses, Sweep
<1> QED BY LocksInvariant, <1>1, PTL DEF LocksSpec, NoUpdateUndone

-----------------------------------------------------------------------------
(* The watch.                                                              *)

\* A version counts changes that are stored.
VersionsAreStored ==
  /\ versions <= stored
  /\ publishing # {} => versions < stored

\* An answer has the changes its version counts.
AnswersAreCurrent ==
  \A w \in Apps :
    /\ phase[w] = "Woken" => answer[w].version <= stored
    /\ phase[w] = "Answered" /\ answer[w].room # 0 => answer[w].version <= answer[w].room

WatchInv == TypeOK /\ VersionsAreStored /\ AnswersAreCurrent

\* At the beginning every app shows the room as it is.
LEMMA WatchInit == Init => WatchInv
BY DEF Init, WatchInv, TypeOK, VersionsAreStored, AnswersAreCurrent, Phase,
     Answer, AtServer, Coming

\* What the server does keeps the invariant.
LEMMA ServerStep ==
  ASSUME WatchInv,
         \/ \E a \in Apps \cup {Elsewhere} : Change(a)
         \/ Close \/ Publish \/ Restart \/ \E w \in Apps : Remove(w)
  PROVE  WatchInv'
<1> USE DEF WatchInv
<1>1. ASSUME NEW a \in Apps \cup {Elsewhere}, Store(a),
             open' \in BOOLEAN, members' \in SUBSET Apps
      PROVE  WatchInv'
  <2>1. TypeOK'
    BY <1>1 DEF Store, TypeOK
  <2>2. /\ publishing = {} /\ stored' = stored + 1 /\ stored \in Nat /\ versions \in Nat
        /\ UNCHANGED <<versions, phase, answer>> /\ answer \in [Apps -> Answer]
    BY <1>1 DEF Store, TypeOK
  <2>3. \A w \in Apps : answer[w].version \in Nat
    BY <2>2 DEF Answer
  <2> QED BY <2>1, <2>2, <2>3 DEF VersionsAreStored, AnswersAreCurrent
<1>2. CASE Publish
  <2>1. TypeOK'
    BY <1>2 DEF Publish, TypeOK
  <2> QED BY <1>2, <2>1 DEF Publish, TypeOK, VersionsAreStored, AnswersAreCurrent
<1>3. CASE Restart
  <2>1. TypeOK'
    BY <1>3 DEF Restart, TypeOK, Phase, AtServer
  <2>2. \A w \in Apps : /\ phase'[w] # "Woken"
                        /\ phase'[w] = "Answered" => phase[w] = "Answered"
    BY <1>3 DEF Restart, TypeOK, AtServer
  <2> QED BY <1>3, <2>1, <2>2 DEF Restart, TypeOK, VersionsAreStored,
       AnswersAreCurrent
<1> QED BY <1>1, <1>2, <1>3 DEF Change, Close, Remove, TypeOK

\* A step of the watch that neither wakes nor reads.
LEMMA OtherStep ==
  ASSUME WatchInv, TypeOK', UNCHANGED <<stored, publishing, versions, answer>>,
         \A w \in Apps : phase'[w] \in {"Woken", "Answered"} => phase'[w] = phase[w]
  PROVE  WatchInv'
BY DEF WatchInv, VersionsAreStored, AnswersAreCurrent

\* An answer keeps its type as it is filled in.
LEMMA AnswerType ==
  ASSUME answer \in [Apps -> Answer], NEW w \in Apps,
         NEW n \in Nat, NEW r \in Nat, NEW m \in BOOLEAN
  PROVE  /\ [answer EXCEPT ![w].version = n] \in [Apps -> Answer]
         /\ [answer EXCEPT ![w].room = r, ![w].member = m] \in [Apps -> Answer]
<1>1. /\ [answer[w] EXCEPT !.version = n] \in Answer
      /\ [[answer[w] EXCEPT !.room = r] EXCEPT !.member = m] \in Answer
  BY DEF Answer
<1>2. [answer EXCEPT ![w].version = n] = [answer EXCEPT ![w] = [answer[w] EXCEPT !.version = n]]
  BY DEF Answer
<1>3. [answer EXCEPT ![w].room = r, ![w].member = m]
        = [answer EXCEPT ![w] = [[answer[w] EXCEPT !.room = r] EXCEPT !.member = m]]
  BY DEF Answer
<1> QED BY <1>1, <1>2, <1>3

\* What a watch does keeps the invariant.
LEMMA AppStep ==
  ASSUME WatchInv, NEW w \in Apps,
         \/ Ask(w) \/ Admit(w) \/ Waiting(w) \/ Read(w) \/ Receive(w)
         \/ ShowFails(w) \/ Lose(w) \/ Retry(w) \/ TakeReply(w)
  PROVE  WatchInv'
<1> USE DEF WatchInv
<1>1. CASE Waiting(w)
  <2>1. TypeOK'
    <3>1. answer' \in [Apps -> Answer]
      <4>1. [answer EXCEPT ![w].version = versions] \in [Apps -> Answer]
        <5>1. versions \in Nat /\ 0 \in Nat /\ TRUE \in BOOLEAN
          BY DEF TypeOK
        <5> QED BY <5>1, AnswerType DEF TypeOK
      <4> QED BY <1>1, <4>1 DEF Waiting, Wake, TimesOut
    <3> QED BY <1>1, <3>1 DEF Waiting, Wake, TimesOut, Move,
         server, TypeOK, Phase, AtServer
  <2>2. /\ phase'[w] = "Woken" /\ answer'[w].version = versions
        /\ \A v \in Apps \ {w} : phase'[v] = phase[v] /\ answer'[v] = answer[v]
        /\ UNCHANGED <<stored, publishing, versions>>
    BY <1>1 DEF Waiting, Wake, TimesOut, Move, server,
         TypeOK, Answer
  <2> QED BY <2>1, <2>2 DEF VersionsAreStored, AnswersAreCurrent
<1>2. CASE Read(w)
  <2>1. TypeOK'
    <3>1. answer' \in [Apps -> Answer]
      <4>1. (IF open THEN stored ELSE 0) \in Nat /\ (w \in members) \in BOOLEAN
        BY DEF TypeOK
      <4> QED BY <1>2, <4>1, AnswerType DEF Read, TypeOK
    <3> QED BY <1>2, <3>1 DEF Read, Move, server, TypeOK, Phase,
         Coming
  <2>2. /\ phase[w] = "Woken" /\ phase'[w] = "Answered"
        /\ answer'[w].version = answer[w].version
        /\ answer'[w].room \in {0, stored}
        /\ \A v \in Apps \ {w} : phase'[v] = phase[v] /\ answer'[v] = answer[v]
        /\ UNCHANGED <<stored, publishing, versions>>
    BY <1>2 DEF Read, Move, server, TypeOK, Answer
  <2> QED BY <2>1, <2>2 DEF VersionsAreStored, AnswersAreCurrent
<1>3. CASE \/ Ask(w) \/ Admit(w) \/ Retry(w) \/ TakeReply(w)
           \/ ShowFails(w) \/ Lose(w)
  <2>1. TypeOK'
    <3>1. CASE Ask(w) \/ Admit(w) \/ Retry(w)
      BY <3>1 DEF Ask, Admit, Retry, Move, server, TypeOK,
           Phase, AtServer, Coming
    <3>2. CASE TakeReply(w)
      BY <3>2 DEF TakeReply, server, TypeOK
    <3>3. CASE ShowFails(w)
      <4>1. answer[w].version \in Nat
        BY DEF TypeOK, Answer
      <4> QED BY <3>3, <4>1 DEF ShowFails, Move, server, TypeOK,
           Phase
    <3>4. CASE Lose(w)
      BY <3>4 DEF Lose, Fails, Move, server, TypeOK, Phase
    <3> QED BY <1>3, <3>1, <3>2, <3>3, <3>4
  <2>2. \A v \in Apps : phase'[v] \in {"Woken", "Answered"} => phase'[v] = phase[v]
    BY <1>3 DEF Ask, Admit, Retry, TakeReply, ShowFails,
         Lose, Fails, Move, TypeOK
  <2> QED BY <1>3, <2>1, <2>2, OtherStep
             DEF Ask, Admit, Retry, TakeReply, ShowFails,
                  Lose, Fails, server
<1>4. CASE Receive(w)
  <2>1. TypeOK'
    BY <1>4 DEF Receive, Show, News, NoNews, Closed,
         Forbidden, Fails, Move, server, TypeOK,
                Phase, AtServer, Coming, Answer
  <2>2. \A v \in Apps : phase'[v] \in {"Woken", "Answered"} => phase'[v] = phase[v]
    BY <1>4 DEF Receive, Show, NoNews, Closed, Forbidden,
         Fails, Move, TypeOK
  <2> QED BY <1>4, <2>1, <2>2, OtherStep
             DEF Receive, Show, NoNews, Closed, Forbidden,
                  Fails, server
<1> QED BY <1>1, <1>2, <1>3, <1>4

\* The inductive invariant of the watch.
THEOREM WatchInvariant == Spec => []WatchInv
<1>1. WatchInv /\ [Next]_vars => WatchInv'
  <2> SUFFICES ASSUME WatchInv, [Next]_vars PROVE WatchInv'
    OBVIOUS
  <2>1. CASE UNCHANGED vars
    BY <2>1 DEF vars, WatchInv, TypeOK, VersionsAreStored, AnswersAreCurrent
  <2> QED BY <2>1, ServerStep, AppStep DEF Next
<1> QED BY WatchInit, <1>1, PTL DEF Spec

\* The variables keep their types; one change at a time is stored and not yet published.
THEOREM WatchTypeCorrect == Spec => []TypeOK
<1>1. WatchInv => TypeOK
  BY DEF WatchInv
<1> QED BY WatchInvariant, <1>1, PTL

\* observable_rooms.py:28, room_server_app.py:205: what an app shows has every change that the
\* version it remembers counts, so no change is ever skipped because its version was.
THEOREM NewsCorrect == Spec => NewsIsCurrent
<1>1. WatchInv =>
        [\A w \in Apps :
           Show(w) => shown'[w] >= seen'[w] \/ status'[w] = "removed"]_vars
  <2> SUFFICES ASSUME WatchInv, NEW w \in Apps, Show(w), status'[w] # "removed"
               PROVE  shown'[w] >= seen'[w]
    OBVIOUS
  <2>1. /\ phase[w] = "Answered" /\ answer[w].room # 0
        /\ seen'[w] = answer[w].version /\ shown'[w] = answer[w].room
    BY DEF WatchInv, TypeOK, Show, News
  <2>2. answer[w].version \in Nat /\ answer[w].room \in Nat
    BY DEF WatchInv, TypeOK, Answer
  <2> QED BY <2>1, <2>2 DEF WatchInv, AnswersAreCurrent
<1> QED BY WatchInvariant, <1>1, PTL DEF NewsIsCurrent

-----------------------------------------------------------------------------
(* The presence.                                                           *)

\* The connections that are to come are unused.
Unopened == \A s \in Sockets : s > opened => handler[s] = "unused"

\* The waiting departures have the last numbers, one after the other, and the entry is the last.
Numbered ==
  /\ \A i \in 1..Len(graces) : graces[i].number + Len(graces) = departures + i
  /\ graces = <<>> => departures = 0

\* Who has told its room is there, or is just saying goodbye, or has been away at least as long
\* as its last departure has waited.
Leaving == \E s \in Sockets : handler[s] = "leaving"
AwayAsLong ==
  told # NoRoom =>
    Online \/ Leaving \/ outdated \/ graces = <<>> \/ away >= graces[Len(graces)].age

PresenceInv == PresenceTypeOK /\ Unopened /\ Numbered /\ AwayAsLong

\* A presence begins without a connection.
LEMMA PresenceBegins ==
  ASSUME PresenceInit
  PROVE  PresenceInv
<1>1. graces = <<>> /\ <<>> \in Seq(Departure) /\ Len(graces) = 0 BY DEF PresenceInit
<1>2. 0 \in 0..MaxSockets /\ 0 \in 0..MaxRestarts /\ Grace \in 0..Grace
  BY PresenceAssumption
<1>3. PresenceTypeOK
  <2>1. handler \in [Sockets -> {"unused"}] /\ presence \in [Sockets -> {NoRoom}] BY DEF PresenceInit
  <2> QED BY <1>1, <1>2, <2>1 DEF PresenceInit, PresenceTypeOK, Places
<1>4. Unopened BY DEF PresenceInit, Unopened
<1>5. Numbered /\ AwayAsLong BY <1>1 DEF PresenceInit, Numbered, AwayAsLong
<1> QED BY <1>3, <1>4, <1>5 DEF PresenceInv

\* The types of what the parts of the invariant compare.
LEMMA PresenceTypes ==
  ASSUME PresenceTypeOK
  PROVE  /\ Len(graces) \in Nat /\ departures \in Nat /\ away \in 0..Grace /\ Grace \in Nat
         /\ \A i \in 1..Len(graces) : /\ graces[i].number \in Nat /\ graces[i].age \in 0..Grace
                                      /\ graces[i].room \in RoomIds
         /\ graces = <<>> <=> Len(graces) = 0
<1>1. graces \in Seq(Departure) /\ departures \in Nat /\ away \in 0..Grace /\ Grace \in Nat
  BY PresenceAssumption DEF PresenceTypeOK
<1>2. Len(graces) \in Nat /\ \A i \in 1..Len(graces) : graces[i] \in Departure BY <1>1
<1>3. graces = <<>> <=> Len(graces) = 0 BY <1>1
<1> QED BY <1>1, <1>2, <1>3 DEF Departure

\* A step that leaves the departures alone.
LEMMA GracesStay ==
  ASSUME Numbered, AwayAsLong, UNCHANGED <<departures, graces>>,
         \/ told' = NoRoom
         \/ Online' \/ Leaving'
         \/ /\ told' = told /\ away' = away /\ outdated' = outdated
            /\ (Online => Online') /\ (Leaving => Leaving')
  PROVE  Numbered' /\ AwayAsLong'
BY DEF Numbered, AwayAsLong

\* What the app does keeps the invariant.
LEMMA ClientStep ==
  ASSUME PresenceInv,
         \/ OpenApp \/ CloseApp \/ LoseLink \/ Connect \/ LeaveRoom \/ SetPresence
         \/ \E r \in RoomIds : JoinRoom(r)
  PROVE  PresenceInv'
<1> USE DEF PresenceInv
<1>1. CASE Connect
  <2>1. opened + 1 \in Sockets /\ handler[opened + 1] = "unused"
    <3>1. opened \in 0..MaxSockets /\ opened < MaxSockets /\ MaxSockets \in Nat
      BY <1>1, PresenceAssumption DEF Connect, PresenceTypeOK
    <3>2. opened + 1 \in Sockets /\ opened + 1 > opened BY <3>1 DEF Sockets
    <3> QED BY <3>2 DEF Unopened
  <2>2. PresenceTypeOK'
    BY <1>1, <2>1 DEF Connect, PresenceTypeOK, Sockets, Places, client, connections, waiting
  <2>3. Unopened'
    BY <1>1, <2>1 DEF Connect, Unopened, PresenceTypeOK, Sockets
  <2>4. \A s \in Sockets : handler[s] \in {"open", "leaving"} => handler'[s] = handler[s]
    BY <1>1, <2>1 DEF Connect
  <2>5. (Online => Online') /\ (Leaving => Leaving')
    BY <2>4 DEF Online, Leaving
  <2> QED BY <1>1, <2>2, <2>3, <2>5, GracesStay DEF Connect, waiting
<1>2. CASE SetPresence
  <2>1. link \in Sockets /\ handler[link] = "open" /\ handler' = handler
    BY <1>2 DEF SetPresence, PresenceTypeOK, Sockets
  <2>2. PresenceTypeOK'
    BY <1>2, <2>1, PresenceAssumption DEF SetPresence, PresenceTypeOK, Sockets, Places, client,
         waiting
  <2>3. Online' BY <2>1 DEF Online
  <2>4. Unopened' BY <1>2 DEF SetPresence, Unopened, client
  <2> QED BY <1>2, <2>2, <2>3, <2>4, GracesStay DEF SetPresence, waiting
<1>3. CASE OpenApp \/ CloseApp \/ LoseLink
  <2>1. PresenceTypeOK'
    <3>1. app' \in BOOLEAN /\ inRoom' \in Places /\ link' \in 0..MaxSockets
      <4>1. 0 \in 0..MaxSockets BY PresenceAssumption
      <4>2. app \in BOOLEAN /\ inRoom \in Places /\ NoRoom \in Places /\ link \in 0..MaxSockets
        BY DEF PresenceTypeOK, Places
      <4>3. app' \in {app, TRUE, FALSE} /\ inRoom' \in {inRoom, NoRoom} /\ link' \in {link, 0}
        BY <1>3 DEF OpenApp, CloseApp, LoseLink
      <4> QED BY <4>1, <4>2, <4>3, Zenon
    <3>2. UNCHANGED <<opened, connections, seats, waiting, away, restarts>>
      BY <1>3 DEF OpenApp, CloseApp, LoseLink
    <3> QED BY <3>1, <3>2 DEF PresenceTypeOK, connections, waiting
  <2>2. UNCHANGED <<opened, handler, told, outdated, away, departures, graces>>
    BY <1>3 DEF OpenApp, CloseApp, LoseLink, connections, waiting
  <2>3. Unopened' BY <2>2 DEF Unopened
  <2>4. (Online => Online') /\ (Leaving => Leaving')
    BY <2>2 DEF Online, Leaving
  <2> QED BY <2>1, <2>2, <2>3, <2>4, GracesStay
<1>4. CASE LeaveRoom \/ \E r \in RoomIds : JoinRoom(r)
  <2>1. PresenceTypeOK'
    BY <1>4 DEF LeaveRoom, JoinRoom, PresenceTypeOK, Places, waiting
  <2>2. told' = NoRoom /\ UNCHANGED <<opened, handler, departures, graces>>
    BY <1>4 DEF LeaveRoom, JoinRoom, waiting
  <2>3. Unopened' BY <2>2 DEF Unopened
  <2> QED BY <2>1, <2>2, <2>3, GracesStay
<1> QED BY <1>1, <1>2, <1>3, <1>4

\* What a connection does keeps the invariant.
LEMMA HandlerStep ==
  ASSUME PresenceInv, NEW s \in Sockets,
         Greeted(s) \/ Disconnect(s) \/ Gone(s)
  PROVE  PresenceInv'
<1> USE DEF PresenceInv
<1>0. \A h \in {"open", "leaving", "closed"} :
        handler[s] # "unused" /\ handler' = [handler EXCEPT ![s] = h] /\ opened' = opened
          => Unopened'
  BY DEF Unopened, PresenceTypeOK
<1>1. CASE Greeted(s)
  <2>1. PresenceTypeOK'
    <3>1. 0 \in 0..Grace /\ presence[s] \in Places BY PresenceAssumption DEF PresenceTypeOK
    <3>2. away' \in 0..Grace /\ told' \in Places /\ outdated' \in BOOLEAN
      BY <1>1, <3>1 DEF Greeted, PresenceTypeOK
    <3>3. handler' \in [Sockets -> {"unused", "greeting", "open", "leaving", "closed"}]
      BY <1>1 DEF Greeted, PresenceTypeOK
    <3>4. UNCHANGED <<client, presence, seats, waiting, restarts>> BY <1>1 DEF Greeted
    <3> QED BY <3>2, <3>3, <3>4 DEF PresenceTypeOK, client, waiting
  <2>2. Online' BY <1>1 DEF Greeted, Online, PresenceTypeOK
  <2>3. Unopened' BY <1>0, <1>1 DEF Greeted, client
  <2> QED BY <1>1, <2>1, <2>2, <2>3, GracesStay DEF Greeted, waiting
<1>2. CASE Disconnect(s)
  <2>1. PresenceTypeOK'
    BY <1>2 DEF Disconnect, PresenceTypeOK, client, waiting
  <2>2. Online' \/ Leaving'
    BY <1>2 DEF Disconnect, Online, Leaving, PresenceTypeOK
  <2>3. Unopened' BY <1>0, <1>2 DEF Disconnect, client
  <2> QED BY <1>2, <2>1, <2>2, <2>3, GracesStay DEF Disconnect, waiting
<1>3. CASE Gone(s)
  <2>0. Unopened' BY <1>0, <1>3 DEF Gone, client
  <2>1. CASE presence[s] = NoRoom
    <3>1. PresenceTypeOK'
      BY <1>3, <2>1 DEF Gone, PresenceTypeOK, client
    <3>2. UNCHANGED <<departures, graces>> /\ (told' = NoRoom \/ outdated')
      BY <1>3, <2>1 DEF Gone, PresenceTypeOK
    <3> QED BY <2>0, <3>1, <3>2 DEF Numbered, AwayAsLong
  <2>2. CASE presence[s] # NoRoom
    <3> DEFINE new == [number |-> departures + 1, room |-> presence[s], age |-> 0]
    <3>1. /\ departures' = departures + 1 /\ graces' = Append(graces, new)
          /\ away' = away
      BY <1>3, <2>2 DEF Gone
    <3>2. presence[s] \in RoomIds BY <2>2 DEF PresenceTypeOK, Places
    <3>3. new \in Departure
      BY <3>2, PresenceAssumption DEF PresenceTypeOK, Departure
    <3>4. graces' \in Seq(Departure)
      BY <3>1, <3>3 DEF PresenceTypeOK
    <3>5. PresenceTypeOK'
      BY <1>3, <3>1, <3>4 DEF Gone, PresenceTypeOK, client
    <3>6. /\ Len(graces') = Len(graces) + 1 /\ graces'[Len(graces) + 1] = new
          /\ \A i \in 1..Len(graces) : graces'[i] = graces[i]
          /\ graces' # <<>>
      BY <3>1, <3>3 DEF PresenceTypeOK
    <3>7. new.number = departures + 1 /\ new.age = 0 OBVIOUS
    <3> HIDE DEF new
    <3>8. Numbered'
      <4>1. Len(graces) \in Nat /\ departures \in Nat BY PresenceTypes
      <4>2. ASSUME NEW i \in 1..(Len(graces) + 1)
            PROVE  graces'[i].number + (Len(graces) + 1) = (departures + 1) + i
        <5>1. CASE i = Len(graces) + 1 BY <3>6, <3>7, <4>1, <5>1
        <5>2. CASE i # Len(graces) + 1
          <6>1. i \in 1..Len(graces) BY <4>1, <5>2
          <6>2. graces'[i].number = graces[i].number BY <3>6, <6>1, Zenon
          <6>3. graces[i].number \in Nat /\ graces[i].number + Len(graces) = departures + i
            BY <6>1, PresenceTypes DEF Numbered
          <6> QED BY <4>1, <6>1, <6>2, <6>3
        <5> QED BY <5>1, <5>2
      <4> QED BY <3>1, <3>6, <4>2 DEF Numbered
    <3>9. AwayAsLong'
      BY <3>1, <3>6, <3>7, PresenceTypes DEF AwayAsLong
    <3> QED BY <2>0, <3>5, <3>8, <3>9
  <2> QED BY <2>1, <2>2
<1> QED BY <1>1, <1>2, <1>3

\* The departure that ends is the last one if it is the only one, and only then.
LEMMA ExpireStep ==
  ASSUME PresenceInv, Expire
  PROVE  /\ PresenceInv'
         /\ Head(graces).number = departures =>
              Len(graces) = 1 /\ graces[Len(graces)].age = Grace
<1> USE DEF PresenceInv
<1>0. /\ graces # <<>> /\ Head(graces).age = Grace /\ Head(graces) = graces[1]
      /\ graces' = Tail(graces) /\ Len(graces) >= 1
      /\ Len(Tail(graces)) = Len(graces) - 1
      /\ \A i \in 1..(Len(graces) - 1) : Tail(graces)[i] = graces[i + 1]
      /\ Tail(graces) = <<>> <=> Len(graces) = 1
      /\ Tail(graces) \in Seq(Departure)
  <2>1. graces # <<>> /\ Head(graces).age = Grace /\ graces' = Tail(graces)
        /\ graces \in Seq(Departure)
    BY DEF Expire, Awake, PresenceTypeOK
  <2>2. Head(graces) = graces[1] /\ Len(graces) >= 1 BY <2>1
  <2>3. /\ Tail(graces) \in Seq(Departure) /\ Len(Tail(graces)) = Len(graces) - 1
        /\ \A i \in 1..(Len(graces) - 1) : Tail(graces)[i] = graces[i + 1]
    BY <2>1
  <2>4. Tail(graces) = <<>> <=> Len(graces) = 1
    <3>1. \A q \in Seq(Departure) : q = <<>> <=> Len(q) = 0 OBVIOUS
    <3>2. Tail(graces) = <<>> <=> Len(graces) - 1 = 0 BY <2>3, <3>1, Zenon
    <3>3. Len(graces) \in Nat BY <2>1
    <3> QED BY <3>2, <3>3
  <2> QED BY <2>1, <2>2, <2>3, <2>4
<1>1. graces[1].number + Len(graces) = departures + 1
  BY <1>0, PresenceTypes DEF Numbered
<1>2. graces[1].number = departures <=> Len(graces) = 1
  <2>1. 1 \in 1..Len(graces) BY <1>0, PresenceTypes
  <2>2. graces[1].number \in Nat /\ Len(graces) \in Nat /\ departures \in Nat
    BY <2>1, PresenceTypes
  <2>3. \A n, l, d \in Nat : n + l = d + 1 => (n = d <=> l = 1) OBVIOUS
  <2> QED BY <1>1, <2>2, <2>3, Zenon
<1>3. UNCHANGED <<client, connections, away>> /\ evicting' \subseteq RoomIds
  <2>1. 1 \in 1..Len(graces) BY <1>0, PresenceTypes
  <2>2. Head(graces).room \in RoomIds BY <1>0, <2>1, PresenceTypes
  <2>3. UNCHANGED <<client, connections, away>> BY DEF Expire
  <2> QED BY <2>2, <2>3 DEF Expire, PresenceTypeOK
<1>4. departures' = IF Len(graces) = 1 THEN 0 ELSE departures
  BY <1>0, <1>2 DEF Expire
<1>5. PresenceTypeOK'
  BY <1>0, <1>3, <1>4 DEF PresenceTypeOK, client, connections, Expire
<1>6. Unopened' BY <1>3 DEF Unopened, client, connections
<1>7. CASE Len(graces) = 1
  <2>1. graces' = <<>> /\ Len(graces') = 0 /\ departures' = 0 BY <1>0, <1>4, <1>7
  <2>2. Numbered' /\ AwayAsLong' BY <2>1 DEF Numbered, AwayAsLong
  <2>3. graces[Len(graces)].age = Grace BY <1>0, <1>7
  <2> QED BY <1>5, <1>6, <1>7, <2>2, <2>3
<1>8. CASE Len(graces) # 1
  <2>1. \A i \in 1..(Len(graces) - 1) : graces[i + 1].number + Len(graces) = departures + (i + 1)
    BY <1>0, PresenceTypes DEF Numbered
  <2>2. Numbered'
    <3>1. /\ graces' # <<>> /\ Len(graces') = Len(graces) - 1 /\ departures' = departures
          /\ \A i \in 1..(Len(graces) - 1) : graces'[i] = graces[i + 1]
      BY <1>0, <1>4, <1>8
    <3>2. ASSUME NEW i \in 1..(Len(graces) - 1)
          PROVE  graces'[i].number + (Len(graces) - 1) = departures + i
      <4>1. Len(graces) \in Nat /\ departures \in Nat /\ i + 1 \in 1..Len(graces)
        BY PresenceTypes
      <4>2. graces[i + 1].number \in Nat BY <4>1, PresenceTypes
      <4>3. graces'[i].number = graces[i + 1].number BY <3>1, Zenon
      <4>4. graces[i + 1].number + (Len(graces) - 1) = departures + i BY <2>1, <4>1, <4>2
      <4> QED BY <4>3, <4>4, Zenon
    <3> QED BY <3>1, <3>2 DEF Numbered
  <2>3. graces'[Len(graces')] = graces[Len(graces)] /\ graces' # <<>>
    <3>1. Len(graces) \in Nat /\ Len(graces) - 1 \in 1..(Len(graces) - 1)
          /\ (Len(graces) - 1) + 1 = Len(graces)
      BY <1>0, <1>8, PresenceTypes
    <3>2. Len(graces') = Len(graces) - 1 BY <1>0
    <3>3. graces'[Len(graces) - 1] = graces[(Len(graces) - 1) + 1] BY <1>0, <3>1, Zenon
    <3> QED BY <1>0, <1>8, <3>1, <3>2, <3>3
  <2>4. told' = told /\ outdated' = outdated /\ away' = away /\ handler' = handler
    BY <1>3 DEF connections
  <2>5. AwayAsLong'
    BY <1>0, <2>3, <2>4 DEF AwayAsLong, Online, Leaving
  <2> QED BY <1>2, <1>0, <1>5, <1>6, <1>8, <2>2, <2>5
<1> QED BY <1>7, <1>8

\* A tick makes the last departure older, and the time nobody was there with it.
LEMMA TickStep ==
  ASSUME PresenceInv, Tick
  PROVE  PresenceInv'
<1> USE DEF PresenceInv
<1>1. \A n \in 0..Grace : Older(n) \in 0..Grace /\ \A m \in 0..Grace : m >= n => Older(m) >= Older(n)
  BY PresenceAssumption DEF Older
<1>2. /\ Len(graces') = Len(graces)
      /\ graces' \in Seq(Departure)
      /\ \A i \in 1..Len(graces) : /\ graces'[i].number = graces[i].number
                                   /\ graces'[i].age = Older(graces[i].age)
      /\ graces' = <<>> <=> graces = <<>>
  <2> DEFINE Grown(g) == [g EXCEPT !.age = Older(@)]
             Kind == Departure
  <2>1. \A g \in Kind : /\ Grown(g) \in Kind /\ Grown(g).number = g.number
                        /\ Grown(g).age = Older(g.age)
    BY <1>1 DEF Departure
  <2>2. graces' = [i \in 1..Len(graces) |-> Grown(graces[i])] /\ Len(graces) \in Nat
    BY DEF Tick, PresenceTypeOK
  <2>3. \A i \in 1..Len(graces) : graces[i] \in Kind
    BY DEF PresenceTypeOK
  <2> HIDE DEF Grown, Kind
  <2>4. /\ graces' \in Seq(Kind) /\ Len(graces') = Len(graces)
        /\ \A i \in 1..Len(graces) : graces'[i] = Grown(graces[i])
    BY <2>1, <2>2, <2>3
  <2>5. graces' = <<>> <=> graces = <<>>
    BY <2>2, <2>4, PresenceTypes
  <2> QED BY <2>1, <2>3, <2>4, <2>5 DEF Kind
<1>3. /\ UNCHANGED <<client, connections, departures>> /\ handler' = handler /\ opened' = opened
      /\ told' = told /\ outdated' = outdated
      /\ away' = IF OnlineInRoom THEN 0 ELSE Older(away)
  BY DEF Tick, client, connections
<1>4. PresenceTypeOK'
  <2>1. Older(away) \in 0..Grace /\ 0 \in 0..Grace BY <1>1, PresenceTypes
  <2>2. away' \in 0..Grace BY <1>3, <2>1
  <2>3. UNCHANGED <<seats, evicting, restarts>> BY DEF Tick
  <2> QED BY <1>2, <1>3, <2>2, <2>3 DEF PresenceTypeOK, client, connections
<1>5. Unopened' BY <1>3 DEF Unopened
<1>6. Numbered' BY <1>2, <1>3 DEF Numbered
<1>7. AwayAsLong'
  <2>1. CASE OnlineInRoom
    <3>1. Online' BY <1>3, <2>1 DEF Online, OnlineInRoom
    <3> QED BY <3>1 DEF AwayAsLong
  <2>2. CASE ~OnlineInRoom
    <3>1. away' = Older(away) BY <1>3, <2>2
    <3>2. ASSUME graces # <<>>, away >= graces[Len(graces)].age
          PROVE  away' >= graces'[Len(graces')].age
      <4>1. Len(graces) \in 1..Len(graces) BY <3>2, PresenceTypes
      <4> QED BY <1>1, <1>2, <3>1, <3>2, <4>1, PresenceTypes
    <3> QED BY <1>2, <1>3, <3>2 DEF AwayAsLong, Online, Leaving
  <2> QED BY <2>1, <2>2
<1> QED BY <1>4, <1>5, <1>6, <1>7

\* Every step keeps the invariant.
LEMMA PresenceStep ==
  ASSUME PresenceInv, [PresenceNext]_presenceVars
  PROVE  PresenceInv'
<1>1. ASSUME NEW r \in RoomIds, Evict(r) PROVE PresenceInv'
  <2>1. UNCHANGED <<client, connections, departures, graces, away>>
    BY <1>1 DEF Evict
  <2>2. PresenceTypeOK' BY <1>1, <2>1 DEF PresenceInv, PresenceTypeOK, Evict, client, connections
  <2> QED BY <2>1, <2>2 DEF PresenceInv, Unopened, Numbered, AwayAsLong, Online, Leaving,
       client, connections
<1>2. CASE ServerRestarts
  <2>1. PresenceTypeOK'
    <3>1. <<>> \in Seq(Departure) OBVIOUS
    <3> QED BY <1>2, <3>1, PresenceAssumption DEF PresenceInv, PresenceTypeOK, ServerRestarts,
         Places
  <2>2. Unopened' BY <1>2 DEF PresenceInv, ServerRestarts, Unopened
  <2>3. Numbered' /\ AwayAsLong' BY <1>2 DEF ServerRestarts, Numbered, AwayAsLong
  <2> QED BY <2>1, <2>2, <2>3 DEF PresenceInv
<1>3. CASE UNCHANGED presenceVars
  <2>1. PresenceTypeOK'
    BY <1>3 DEF PresenceInv, PresenceTypeOK, presenceVars, client, connections, waiting
  <2> QED BY <1>3, <2>1
      DEF PresenceInv, Unopened, Numbered, AwayAsLong, Online, Leaving, presenceVars, client,
           connections,
           waiting
<1> QED BY <1>1, <1>2, <1>3, ClientStep, HandlerStep, ExpireStep, TickStep DEF PresenceNext,
     Handlers

\* The inductive invariant of the presence: types, the numbers of the waiting departures, and
\* how long who has told its room has been away.
THEOREM PresenceInvariant == PresenceSpec => []PresenceInv
<1>1. PresenceInit => PresenceInv BY PresenceBegins
<1>2. PresenceInv /\ [PresenceNext]_presenceVars => PresenceInv' BY PresenceStep
<1> QED BY <1>1, <1>2, PTL DEF PresenceSpec

\* The variables keep their types.
THEOREM PresenceTypeCorrect == PresenceSpec => []PresenceTypeOK
<1>1. PresenceInv => PresenceTypeOK BY DEF PresenceInv
<1> QED BY PresenceInvariant, <1>1, PTL

\* room_departures.py:34: the one departure whose number is still the entry is the last of those
\* that wait, so a room that was told is taken from an app only after a whole grace away.
THEOREM GraceCorrect == PresenceSpec => WholeGrace
<1>1. PresenceInv /\ [PresenceNext]_presenceVars =>
        [\A r \in RoomIds : r \in evicting' \ evicting /\ told = r
           => away = Grace \/ outdated \/ \E s \in Sockets : handler[s] = "leaving"]_presenceVars
  <2> SUFFICES ASSUME PresenceInv, [PresenceNext]_presenceVars, NEW r \in RoomIds,
                      r \in evicting' \ evicting, told = r
               PROVE  away = Grace \/ outdated \/ Leaving
    BY DEF Leaving
  <2>1. Expire
    BY DEF PresenceNext, OpenApp, CloseApp, LoseLink, Connect, LeaveRoom, SetPresence, JoinRoom,
         Handlers,
           Greeted, Disconnect, Gone, Evict, Tick, ServerRestarts, presenceVars, waiting
  <2>2. Head(graces).number = departures /\ ~Online
    BY <2>1 DEF Expire
  <2>3. graces # <<>> /\ graces[Len(graces)].age = Grace
    BY <2>1, <2>2, ExpireStep DEF Expire, Awake
  <2>4. told # NoRoom BY PresenceAssumption
  <2> QED BY <2>2, <2>3, <2>4, PresenceTypes DEF PresenceInv, AwayAsLong
<1> QED BY <1>1, PresenceInvariant, PTL DEF PresenceSpec, WholeGrace
=============================================================================
