------------------------------ MODULE RoomLocks ------------------------------
(***************************************************************************)
(* The commands of the rooms on the threads of the room server.  Each one   *)
(* takes the lock of its room from a registry, reads the room, changes it,  *)
(* saves or deletes it, and gives the lock back; a registry entry lives     *)
(* while some command has it.  The sweep deletes rooms nobody has used for  *)
(* an hour without taking their lock.  A room is the set of the commands    *)
(* whose change it carries; RoomSession says what the changes are.          *)
(***************************************************************************)
EXTENDS Naturals, FiniteSets

CONSTANTS
  Commands,   \* the requests the server gets, each executed once
  Rooms,
  NoLock      \* no registry entry

ASSUME CommandsAssumption == IsFiniteSet(Commands) /\ NoLock \notin Commands

VARIABLES
  pc,       \* where each command is
  room,     \* the room it names, which stays
  lock,     \* the lock it got; a lock is named after the command that made it
  loaded,   \* the room it read
  entry,    \* the registry: the lock of each room ...
  users,    \* ... and how many commands hold it or wait for it
  rooms,    \* the rooms that are stored ...
  saved,   \* ... and what the repository has of each
  fresh,    \* the rooms not known to be unused for an hour
  judged    \* the rooms the sweep has decided to delete

lockVars == <<pc, room, lock, loaded, entry, users, rooms, saved, fresh, judged>>

Inside == {"Waiting", "Holding", "Loaded", "Leaving", "Unregistering"}   \* of hold()
Owning == {"Holding", "Loaded", "Leaving"}                               \* of the lock

LocksTypeOK ==
  /\ pc \in [Commands -> {"Idle", "Arrived", "Ended"} \cup Inside]
  /\ room \in [Commands -> Rooms]
  /\ lock \in [Commands -> Commands \cup {NoLock}]
  /\ loaded \in [Commands -> SUBSET Commands]
  /\ entry \in [Rooms -> Commands \cup {NoLock}]
  /\ users \in [Rooms -> Nat]
  /\ rooms \in SUBSET Rooms
  /\ saved \in [Rooms -> SUBSET Commands]
  /\ fresh \in SUBSET Rooms
  /\ judged \in SUBSET Rooms

Users(r) == {c \in Commands : pc[c] \in Inside /\ room[c] = r}

Step(c, from, to) == pc[c] = from /\ pc' = [pc EXCEPT ![c] = to]

---------------------------------------------------------------------------
\* The middleware notes the room a request names before the request runs; what the server
\* does by itself, the failover of a host or a departure, is no request.
Arrive(c) ==
  /\ Step(c, "Idle", "Arrived")
  /\ fresh' = fresh \cup {room[c]} \/ UNCHANGED fresh
  /\ UNCHANGED <<room, lock, loaded, entry, users, rooms, saved, judged>>

\* RoomLocks.hold, under the lock of the registry.
Register(c) ==
  LET r == room[c]
  IN  /\ Step(c, "Arrived", "Waiting")
      /\ lock' = [lock EXCEPT ![c] = IF entry[r] = NoLock THEN c ELSE entry[r]]
      /\ entry' = [entry EXCEPT ![r] = lock'[c]]
      /\ users' = [users EXCEPT ![r] = @ + 1]
      /\ UNCHANGED <<room, loaded, rooms, saved, fresh, judged>>

Acquire(c) ==
  /\ ~\E d \in Commands : pc[d] \in Owning /\ lock[d] = lock[c]
  /\ Step(c, "Waiting", "Holding")
  /\ UNCHANGED <<room, lock, loaded, entry, users, rooms, saved, fresh, judged>>

\* load_room; a room that is not stored ends the command.
Load(c) ==
  /\ \/ /\ room[c] \in rooms
        /\ Step(c, "Holding", "Loaded")
        /\ loaded' = [loaded EXCEPT ![c] = saved[room[c]]]
     \/ /\ room[c] \notin rooms
        /\ Step(c, "Holding", "Leaving")
        /\ UNCHANGED loaded
  /\ UNCHANGED <<room, lock, entry, users, rooms, saved, fresh, judged>>

\* Refused by one of its guards, or nothing to change.
Refuse(c) ==
  /\ Step(c, "Loaded", "Leaving")
  /\ UNCHANGED <<room, lock, loaded, entry, users, rooms, saved, fresh, judged>>

\* Saving inserts a row that is not there (sqlite_rooms.py).
Save(c) ==
  /\ Step(c, "Loaded", "Leaving")
  /\ rooms' = rooms \cup {room[c]}
  /\ saved' = [saved EXCEPT ![room[c]] = loaded[c] \cup {c}]
  /\ UNCHANGED <<room, lock, loaded, entry, users, fresh, judged>>

Delete(c) ==
  /\ Step(c, "Loaded", "Leaving")
  /\ rooms' = rooms \ {room[c]}
  /\ UNCHANGED <<room, lock, loaded, entry, users, saved, fresh, judged>>

\* Mutant: a command that raised keeps the lock.
ReleaseSaved(c) ==
  /\ c \in saved[room[c]]
  /\ Step(c, "Leaving", "Unregistering")
  /\ UNCHANGED <<room, lock, loaded, entry, users, rooms, saved, fresh, judged>>

Release(c) ==
  /\ Step(c, "Leaving", "Unregistering")
  /\ UNCHANGED <<room, lock, loaded, entry, users, rooms, saved, fresh, judged>>

\* Mutant: whoever leaves takes the entry along.
UnregisterAlways(c) ==
  LET r == room[c]
  IN  /\ Step(c, "Unregistering", "Ended")
      /\ users' = [users EXCEPT ![r] = 0]
      /\ entry' = [entry EXCEPT ![r] = NoLock]
      /\ UNCHANGED <<room, lock, loaded, rooms, saved, fresh, judged>>

Unregister(c) ==
  LET r == room[c]
  IN  /\ Step(c, "Unregistering", "Ended")
      /\ users' = [users EXCEPT ![r] = @ - 1]
      /\ entry' = [entry EXCEPT ![r] = IF users'[r] = 0 THEN NoLock ELSE @]
      /\ UNCHANGED <<room, lock, loaded, rooms, saved, fresh, judged>>

---------------------------------------------------------------------------
HourPasses(r) ==
  /\ r \in fresh \cap rooms
  /\ fresh' = fresh \ {r}
  /\ UNCHANGED <<pc, room, lock, loaded, entry, users, rooms, saved, judged>>

\* RoomActivity.idle of the stored rooms; the others are forgotten, and count from when they
\* are seen again.
Judge ==
  /\ judged = {}
  /\ judged' = rooms \ fresh
  /\ fresh' = fresh \cup (Rooms \ rooms)
  /\ UNCHANGED <<pc, room, lock, loaded, entry, users, rooms, saved>>

Sweep(r) ==
  /\ r \in judged
  /\ rooms' = rooms \ {r}
  /\ judged' = judged \ {r}
  /\ UNCHANGED <<pc, room, lock, loaded, entry, users, saved, fresh>>

---------------------------------------------------------------------------
LocksInit ==
  /\ pc = [c \in Commands |-> "Idle"]
  /\ room \in [Commands -> Rooms]
  /\ lock = [c \in Commands |-> NoLock]
  /\ loaded = [c \in Commands |-> {}]
  /\ entry = [r \in Rooms |-> NoLock]
  /\ users = [r \in Rooms |-> 0]
  /\ rooms = Rooms
  /\ saved = [r \in Rooms |-> {}]
  /\ fresh = Rooms
  /\ judged = {}

Work(c) ==
  \/ Register(c) \/ Acquire(c) \/ Load(c)
  \/ Refuse(c) \/ Save(c) \/ Delete(c)
  \/ Release(c) \/ Unregister(c)

Serve == \E c \in Commands : Arrive(c) \/ Work(c)

Housekeeping == Judge \/ \E r \in Rooms : HourPasses(r) \/ Sweep(r)

LocksNext == Serve \/ Housekeeping

LocksSpec == LocksInit /\ [][LocksNext]_lockVars

\* Every request has a thread of its own, and threads are scheduled.
LocksFairness == \A c \in Commands : WF_lockVars(Work(c))
---------------------------------------------------------------------------
(* Properties.                                                             *)

\* "A room's commands run one at a time" (serialization.py:14): though locks come and go with
\* their registry entries, two commands of one room are never both between the reading and the
\* saving of it.
OneAtATime ==
  \A c, d \in Commands :
    pc[c] \in Owning /\ pc[d] \in Owning /\ room[c] = room[d] => c = d

\* "An entry lives only while it is in use" (serialization.py:18): the registry has an entry for
\* exactly the rooms some command holds or waits for, and counts them.
RegistryIsExact ==
  \A r \in Rooms : /\ users[r] = Cardinality(Users(r))
                   /\ entry[r] = NoLock <=> Users(r) = {}

\* "The later save would silently undo the earlier one" (serialization.py:58): a save never
\* takes back what another command changed, as long as the room is stored.
NoUpdateUndone ==
  [][\A r \in rooms \cap rooms' : saved[r] \subseteq saved'[r]]_lockVars

\* A command never stores a room again that was deleted, and whose uploaded songs went with it
\* (room_project_folders.py:10).
DeletedForGood ==
  [][rooms' \subseteq rooms]_lockVars

\* Whoever holds a lock lets it go, so every request is answered (serialization.py:27).
RequestsEnd == \A c \in Commands : pc[c] = "Arrived" ~> pc[c] = "Ended"
=============================================================================
