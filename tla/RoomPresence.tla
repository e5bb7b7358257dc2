---------------------------- MODULE RoomPresence ----------------------------
(***************************************************************************)
(* The app of one account at the room server: the sockets it opens one     *)
(* after another (api/social_socket.py), which of them the server counts   *)
(* as open (infrastructure/social_hub.py), and the departures that take an *)
(* app that went away out of its room once a grace has passed              *)
(* (infrastructure/room_departures.py).  Accounts share nothing here.      *)
(***************************************************************************)
EXTENDS Naturals, Sequences

CONSTANTS
    RoomIds,
    NoRoom,
    Grace,       \* departure_grace_seconds, in ticks
    MaxSockets,  \* bound of the connections the app makes
    MaxRestarts  \* bound of the restarts of the server

ASSUME PresenceAssumption ==
    /\ NoRoom \notin RoomIds
    /\ Grace \in Nat \ {0} /\ MaxSockets \in Nat /\ MaxRestarts \in Nat

VARIABLES
    app,        \* the app is open
    inRoom,     \* the room the app is in
    link,       \* the connection the app holds, 0 without one
    opened,     \* how many connections it has made
    handler,    \* place of the server's handler of each connection
    presence,   \* the presence each handler has received last
    told,       \* history: the room this run of the server heard of since the app joined it last
    seats,      \* the rooms in which the account's participant sits
    departures, \* RoomDepartures._departures of the account, 0 without an entry
    graces,     \* the departures waiting, in the order they began
    evicting,   \* the rooms a thread is about to take the participant out of
    outdated,   \* history: the goodbye handled last was of another presence than told
    away,       \* history: ticks since the hub has known no socket of the account in a room
    restarts

client == <<app, inRoom, link, opened>>
connections == <<handler, presence, told, outdated>>
waiting == <<departures, graces, evicting>>
presenceVars == <<client, connections, seats, waiting, away, restarts>>

Sockets == 1..MaxSockets
Places == RoomIds \cup {NoRoom}
Online == \E s \in Sockets : handler[s] = "open"
OnlineInRoom == \E s \in Sockets : handler[s] = "open" /\ presence[s] # NoRoom

Departure == [number : Nat, room : RoomIds, age : 0..Grace]

PresenceTypeOK ==
    /\ app \in BOOLEAN /\ inRoom \in Places
    /\ link \in 0..MaxSockets /\ opened \in 0..MaxSockets
    /\ handler \in [Sockets -> {"unused", "greeting", "open", "leaving", "closed"}]
    /\ presence \in [Sockets -> Places] /\ told \in Places
    /\ seats \subseteq RoomIds /\ evicting \subseteq RoomIds
    /\ departures \in Nat
    /\ graces \in Seq(Departure)
    /\ outdated \in BOOLEAN /\ away \in 0..Grace
    /\ restarts \in 0..MaxRestarts

PresenceInit ==
    /\ app = FALSE /\ inRoom = NoRoom /\ link = 0 /\ opened = 0
    /\ handler = [s \in Sockets |-> "unused"]
    /\ presence = [s \in Sockets |-> NoRoom] /\ told = NoRoom /\ outdated = FALSE
    /\ seats = {}
    /\ departures = 0 /\ graces = <<>> /\ evicting = {}
    /\ away = Grace /\ restarts = 0

\* The threads of a greeting or a goodbye take no tick, nor the second before a reconnection.
Settled == \A s \in Sockets : handler[s] \notin {"greeting", "leaving"}

-----------------------------------------------------------------------------
(* The app.  It joins and leaves rooms by requests of their own, and tells its room when *)
(* it connects and when the room changes.                                                *)
OpenApp ==
    /\ ~app
    /\ app' = TRUE /\ inRoom' = NoRoom
    /\ UNCHANGED <<link, opened, connections, seats, waiting, away, restarts>>

CloseApp ==
    /\ app
    /\ app' = FALSE /\ inRoom' = NoRoom /\ link' = 0
    /\ UNCHANGED <<opened, connections, seats, waiting, away, restarts>>

LoseLink ==
    /\ link # 0
    /\ link' = 0
    /\ UNCHANGED <<app, inRoom, opened, connections, seats, waiting, away, restarts>>

Connect ==
    /\ app /\ link = 0 /\ opened < MaxSockets /\ Settled
    /\ opened' = opened + 1 /\ link' = opened'
    /\ handler' = [handler EXCEPT ![opened'] = "greeting"]
    /\ presence' = [presence EXCEPT ![opened'] = inRoom]
    /\ UNCHANGED <<app, inRoom, told, outdated, seats, waiting, away, restarts>>

JoinRoom(r) ==
    /\ app /\ inRoom = NoRoom
    /\ inRoom' = r /\ seats' = seats \cup {r} /\ told' = NoRoom
    /\ UNCHANGED <<app, link, opened, handler, presence, outdated, waiting, away, restarts>>

LeaveRoom ==
    /\ app /\ inRoom # NoRoom
    /\ inRoom' = NoRoom /\ seats' = seats \ {inRoom} /\ told' = NoRoom
    /\ UNCHANGED <<app, link, opened, handler, presence, outdated, waiting, away, restarts>>

SetPresence ==
    /\ link # 0 /\ handler[link] = "open" /\ presence[link] # inRoom
    /\ presence' = [presence EXCEPT ![link] = inRoom]
    /\ told' = inRoom
    /\ away' = IF inRoom # NoRoom THEN 0 ELSE away
    /\ UNCHANGED <<client, handler, outdated, seats, waiting, restarts>>

-----------------------------------------------------------------------------
(* The handler of a connection: the greeting is kept by a thread before the hub knows the *)
(* socket, and the last goodbye by another before the departure begins.                   *)
Greeted(s) ==
    /\ handler[s] = "greeting"
    /\ handler' = [handler EXCEPT ![s] = "open"]
    /\ told' = presence[s] /\ outdated' = FALSE
    /\ away' = IF presence[s] # NoRoom THEN 0 ELSE away
    /\ UNCHANGED <<client, presence, seats, waiting, restarts>>

Disconnect(s) ==
    /\ handler[s] = "open" /\ link # s
    /\ handler' = [handler EXCEPT ![s] =
         IF \E t \in Sockets \ {s} : handler[t] = "open" THEN "closed" ELSE "leaving"]
    /\ UNCHANGED <<client, presence, told, outdated, seats, waiting, away, restarts>>

\* Mutant of Gone: a departure that waits already is enough.
GoneOnce(s) ==
    /\ handler[s] = "leaving"
    /\ handler' = [handler EXCEPT ![s] = "closed"]
    /\ outdated' = (presence[s] # told)
    /\ IF presence[s] = NoRoom \/ departures # 0
       THEN UNCHANGED <<departures, graces>>
       ELSE /\ departures' = departures + 1
            /\ graces' = Append(graces, [number |-> departures', room |-> presence[s], age |-> 0])
    /\ UNCHANGED <<client, presence, told, seats, evicting, away, restarts>>

Gone(s) ==
    /\ handler[s] = "leaving"
    /\ handler' = [handler EXCEPT ![s] = "closed"]
    /\ IF presence[s] = NoRoom
       THEN UNCHANGED <<departures, graces>>
       ELSE /\ departures' = departures + 1
            /\ graces' = Append(graces, [number |-> departures', room |-> presence[s], age |-> 0])
    /\ outdated' = (presence[s] # told)
    /\ UNCHANGED <<client, presence, told, seats, evicting, away, restarts>>

-----------------------------------------------------------------------------
(* Every departure sleeps as long, so they wake in the order they began. *)
Awake == graces # <<>> /\ Head(graces).age = Grace

\* Mutant of Expire: the entry goes before it is compared.
ExpirePopped ==
    /\ Awake
    /\ graces' = Tail(graces)
    /\ departures' = 0
    /\ evicting' = IF departures # 0 /\ ~Online
                   THEN evicting \cup {Head(graces).room} ELSE evicting
    /\ UNCHANGED <<client, connections, seats, away, restarts>>

Expire ==
    /\ Awake
    /\ graces' = Tail(graces)
    /\ IF Head(graces).number # departures
       THEN UNCHANGED <<departures, evicting>>
       ELSE /\ departures' = 0
            /\ evicting' = IF Online THEN evicting ELSE evicting \cup {Head(graces).room}
    /\ UNCHANGED <<client, connections, seats, away, restarts>>

Evict(r) ==
    /\ r \in evicting
    /\ evicting' = evicting \ {r}
    /\ seats' = seats \ {r}
    /\ UNCHANGED <<client, connections, departures, graces, away, restarts>>

Older(n) == IF n < Grace THEN n + 1 ELSE n

Tick ==
    /\ Settled
    /\ graces' = [i \in DOMAIN graces |-> [graces[i] EXCEPT !.age = Older(@)]]
    /\ away' = IF OnlineInRoom THEN 0 ELSE Older(away)
    /\ graces' # graces \/ away' # away
    /\ UNCHANGED <<client, connections, seats, departures, evicting, restarts>>

\* A restart ends every connection and forgets the departures; the rooms are stored.
ServerRestarts ==
    /\ restarts < MaxRestarts
    /\ restarts' = restarts + 1
    /\ link' = 0
    /\ handler' = [s \in Sockets |-> IF handler[s] = "unused" THEN "unused" ELSE "closed"]
    /\ departures' = 0 /\ graces' = <<>> /\ evicting' = {} /\ told' = NoRoom
    /\ UNCHANGED <<app, inRoom, opened, presence, outdated, seats, away>>

-----------------------------------------------------------------------------
Handlers == \E s \in Sockets : Greeted(s) \/ Disconnect(s) \/ Gone(s)
PresenceNext ==
    \/ OpenApp \/ CloseApp \/ LoseLink \/ Connect \/ LeaveRoom \/ SetPresence
    \/ \E r \in RoomIds : JoinRoom(r)
    \/ Handlers
    \/ Expire
    \/ \E r \in RoomIds : Evict(r)
    \/ Tick
    \/ ServerRestarts

\* The server's loop and threads go on, and time passes.
PresenceFairness ==
    /\ \A s \in Sockets : WF_presenceVars(Greeted(s) \/ Disconnect(s) \/ Gone(s))
    /\ WF_presenceVars(Expire) /\ WF_presenceVars(Tick)
    /\ \A r \in RoomIds : WF_presenceVars(Evict(r))

PresenceSpec == PresenceInit /\ [][PresenceNext]_presenceVars /\ PresenceFairness

-----------------------------------------------------------------------------
(* "One that reconnected and went away again is given the whole grace from its latest     *)
(* departure" (room_departures.py:34): the room an app has told last is taken from it only *)
(* when it has been away for the whole grace, unless its goodbye is still under way        *)
(* (social_socket.py:73) or an older connection outlived the one that told.                *)
WholeGrace == [][\A r \in RoomIds :
    r \in evicting' \ evicting /\ told = r
    => away = Grace \/ outdated \/ \E s \in Sockets : handler[s] = "leaving"]_presenceVars

(* "Someone whose app closed (or crashed) without leaving the room is taken out of it"    *)
(* (room_departures.py:17): once an app that has told its room is closed, its seat there  *)
(* is free again, unless the app opens again, the server is restarted, or an older        *)
(* connection with another presence outlived the one that told.                           *)
ClosedAppLeaves ==
    \A r \in RoomIds : ~app /\ told = r ~> r \notin seats \/ app \/ told # r \/ outdated
=============================================================================
