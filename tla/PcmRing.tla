------------------------------- MODULE PcmRing -------------------------------
(***************************************************************************)
(* PcmRingBuffer (AudioService/src/realtime): one thread pushes, one reads, *)
(* neither ever waits, and others may clear the ring, waiting for both to   *)
(* be outside it.  Every action is one access to an atomic or the copying   *)
(* of one frame.  A frame is its number; channels, tags and times of a      *)
(* frame go with it.                                                        *)
(***************************************************************************)
EXTENDS Naturals, Sequences

CONSTANTS
    Capacity,    \* capacityFrames_
    MaxBlock,    \* bound of the frames of one call
    MaxFrames,   \* bound of the frames pushed in all
    MaxCalls,    \* bound of the calls of each of the two callers
    Controls     \* the threads that clear the ring, once each

ASSUME RingAssumption ==
    /\ Capacity \in Nat \ {0} /\ MaxBlock \in Nat \ {0}
    /\ MaxFrames \in Nat /\ MaxCalls \in Nat

VARIABLES
    data, writeFrame, readFrame, users, clearing,
    caller,     \* the call each of the two callers is in
    calls,      \* how many calls each has made
    control,    \* the place of each clearing thread
    sent,       \* history: how many frames have been accepted
    delivered   \* what the last reading call handed out

ring == <<data, writeFrame, readFrame>>
lease == <<users, clearing>>
vars == <<ring, lease, caller, calls, control, sent, delivered>>

Callers == {"producer", "consumer"}
Ops == [producer |-> {"push"}, consumer |-> {"pop", "peek", "discard"}]
Idle == [place |-> "idle", op |-> "none", frames |-> 0, at |-> 0, copied |-> <<>>]
Least(a, b) == IF a < b THEN a ELSE b
Available == Least(writeFrame - readFrame, Capacity)
Slot(n) == n % Capacity

Places == {"idle", "entering", "checking", "copying", "storing", "leaving", "notifying"}
Calls == [place : Places, op : {"none", "push", "pop", "peek", "discard"}, frames : 0..MaxBlock,
          at : 0..MaxFrames, copied : Seq(0..MaxFrames)]

TypeOK ==
    /\ data \in [0..(Capacity - 1) -> 0..MaxFrames]
    /\ writeFrame \in 0..MaxFrames /\ readFrame \in 0..MaxFrames
    /\ users \in 0..2 /\ clearing \in BOOLEAN
    /\ caller \in [Callers -> Calls] /\ calls \in [Callers -> 0..MaxCalls]
    /\ \A c \in Callers : caller[c].op \in Ops[c] \cup {"none"}
    /\ control \in [Controls -> {"idle", "asking", "waiting for another", "draining", "blocked",
                                 "emptying", "ending", "telling", "done"}]
    /\ sent \in 0..MaxFrames /\ delivered \in Seq(0..MaxFrames)

Init ==
    /\ data = [i \in 0..(Capacity - 1) |-> 0]
    /\ writeFrame = 0 /\ readFrame = 0
    /\ users = 0 /\ clearing = FALSE
    /\ caller = [c \in Callers |-> Idle] /\ calls = [c \in Callers |-> 0]
    /\ control = [k \in Controls |-> "idle"]
    /\ sent = 0 /\ delivered = <<>>

Goes(c, place) == caller' = [caller EXCEPT ![c].place = place]
IsAt(c, place) == caller[c].place = place

-----------------------------------------------------------------------------
(* The lease of a call: the caller counts itself in, then looks whether the ring is being *)
(* cleared, and counts itself out.                                                        *)
Enter(c, op, n) ==
    /\ IsAt(c, "idle") /\ calls[c] < MaxCalls
    /\ op = "push" => sent + n <= MaxFrames
    /\ users' = users + 1
    /\ caller' = [caller EXCEPT ![c] =
         [place |-> "entering", op |-> op, frames |-> n, at |-> 0, copied |-> <<>>]]
    /\ calls' = [calls EXCEPT ![c] = @ + 1]
    /\ UNCHANGED <<ring, clearing, control, sent, delivered>>

Entered(c) ==
    /\ IsAt(c, "entering")
    /\ Goes(c, IF clearing THEN "leaving" ELSE "checking")
    /\ UNCHANGED <<ring, lease, calls, control, sent, delivered>>

Leave(c) ==
    /\ IsAt(c, "leaving")
    /\ users' = users - 1
    /\ IF users = 1 THEN Goes(c, "notifying") ELSE caller' = [caller EXCEPT ![c] = Idle]
    /\ UNCHANGED <<ring, clearing, calls, control, sent, delivered>>

\* Mutant of Notify: the last one out tells nobody.
NotifyNever(c) ==
    /\ IsAt(c, "notifying")
    /\ caller' = [caller EXCEPT ![c] = Idle]
    /\ UNCHANGED <<ring, lease, calls, control, sent, delivered>>

\* The last one out wakes those who wait for users_ while the ring is being cleared.
Notify(c) ==
    /\ IsAt(c, "notifying")
    /\ caller' = [caller EXCEPT ![c] = Idle]
    /\ control' = [k \in Controls |->
         IF clearing /\ control[k] = "blocked" THEN "draining" ELSE control[k]]
    /\ UNCHANGED <<ring, lease, calls, sent, delivered>>

-----------------------------------------------------------------------------
(* What a call does under its lease. *)
AfterCopying(call) == IF Len(call.copied) + 1 < call.frames THEN "copying" ELSE "storing"

Check ==
    /\ IsAt("producer", "checking")
    /\ IF caller["producer"].frames > Capacity - Available
       THEN Goes("producer", "leaving")
       ELSE caller' = [caller EXCEPT !["producer"].place = "copying", !["producer"].at = writeFrame]
    /\ UNCHANGED <<ring, lease, calls, control, sent, delivered>>

CopyIn ==
    LET p     == caller["producer"]
        frame == sent + Len(p.copied) + 1
    IN
    /\ p.place = "copying"
    /\ data' = [data EXCEPT ![Slot(p.at + Len(p.copied))] = frame]
    /\ caller' = [caller EXCEPT !["producer"].copied = Append(@, frame),
                                !["producer"].place = AfterCopying(p)]
    /\ UNCHANGED <<writeFrame, readFrame, lease, calls, control, sent, delivered>>

StoreWrite ==
    LET p == caller["producer"] IN
    /\ p.place = "storing"
    /\ writeFrame' = p.at + p.frames
    /\ sent' = sent + p.frames
    /\ Goes("producer", "leaving")
    /\ UNCHANGED <<data, readFrame, lease, calls, control, delivered>>

Look ==
    LET c     == caller["consumer"]
        count == Least(c.frames, Available)
    IN
    /\ c.place = "checking"
    /\ caller' = [caller EXCEPT
         !["consumer"].place = IF c.op = "discard" \/ count = 0 THEN "storing" ELSE "copying",
         !["consumer"].at = readFrame,
         !["consumer"].frames = count]
    /\ UNCHANGED <<ring, lease, calls, control, sent, delivered>>

CopyOut ==
    LET c == caller["consumer"] IN
    /\ c.place = "copying"
    /\ caller' = [caller EXCEPT !["consumer"].copied = Append(@, data[Slot(c.at + Len(c.copied))]),
                                !["consumer"].place = AfterCopying(c)]
    /\ UNCHANGED <<ring, lease, calls, control, sent, delivered>>

\* The frames are counted again, and go with the store of readFrame_; a peek stores nothing.
StoreRead ==
    LET c == caller["consumer"] IN
    /\ c.place = "storing"
    /\ readFrame' = IF c.op = "peek" THEN readFrame ELSE readFrame + Least(c.frames, Available)
    /\ delivered' = IF c.op = "discard" THEN delivered ELSE c.copied
    /\ Goes("consumer", "leaving")
    /\ UNCHANGED <<data, writeFrame, lease, calls, control, sent>>

-----------------------------------------------------------------------------
(* clear: one thread at a time, once both callers are out.  A thread that waits for a value *)
(* looks at it again when it is told.                                                       *)
Ask(k) ==
    /\ control[k] \in {"idle", "asking"}
    /\ clearing' = TRUE
    /\ control' = [control EXCEPT ![k] = IF clearing THEN "waiting for another" ELSE "draining"]
    /\ UNCHANGED <<ring, users, caller, calls, sent, delivered>>

\* Mutant of Drain: the callers found inside are not waited for.
DrainAtOnce(k) ==
    /\ control[k] = "draining"
    /\ control' = [control EXCEPT ![k] = "emptying"]
    /\ UNCHANGED <<ring, lease, caller, calls, sent, delivered>>

Drain(k) ==
    /\ control[k] = "draining"
    /\ control' = [control EXCEPT ![k] = IF users = 0 THEN "emptying" ELSE "blocked"]
    /\ UNCHANGED <<ring, lease, caller, calls, sent, delivered>>

Empty(k) ==
    /\ control[k] = "emptying"
    /\ readFrame' = writeFrame
    /\ control' = [control EXCEPT ![k] = "ending"]
    /\ UNCHANGED <<data, writeFrame, lease, caller, calls, sent, delivered>>

End(k) ==
    /\ control[k] = "ending"
    /\ clearing' = FALSE
    /\ control' = [control EXCEPT ![k] = "telling"]
    /\ UNCHANGED <<ring, users, caller, calls, sent, delivered>>

\* clearing_.notify_all wakes the threads that wait to clear the ring themselves.
Tell(k) ==
    /\ control[k] = "telling"
    /\ control' = [l \in Controls |-> IF l = k THEN "done"
                                      ELSE IF control[l] = "waiting for another" THEN "asking"
                                      ELSE control[l]]
    /\ UNCHANGED <<ring, lease, caller, calls, sent, delivered>>

-----------------------------------------------------------------------------
Inside(c) ==
    \/ Entered(c) \/ Leave(c) \/ Notify(c)
    \/ c = "producer" /\ (Check \/ CopyIn \/ StoreWrite)
    \/ c = "consumer" /\ (Look \/ CopyOut \/ StoreRead)
Clears(k) ==
    \/ control[k] = "asking" /\ Ask(k)
    \/ Drain(k) \/ Empty(k) \/ End(k) \/ Tell(k)

Next ==
    \/ \E c \in Callers, n \in 1..MaxBlock : \E op \in Ops[c] : Enter(c, op, n)
    \/ \E c \in Callers : Inside(c)
    \/ \E k \in Controls : Ask(k) \/ Clears(k)

\* A call that has begun goes on, and so does a thread that clears the ring.
Fairness ==
    /\ \A c \in Callers : WF_vars(Inside(c))
    /\ \A k \in Controls : WF_vars(Clears(k))

Spec == Init /\ [][Next]_vars /\ Fairness

-----------------------------------------------------------------------------
(* The frames between the two counters, as the callers will read them: what is copied but *)
(* not stored, what the other threads have loaded and when they may look changes nothing. *)
Queue == INSTANCE FrameQueue WITH
    queue <- [i \in 1..(writeFrame - readFrame) |-> data[Slot(readFrame + i - 1)]]

(* Whatever the three threads do between each other's accesses, the frames of the ring    *)
(* come out once, whole and in order, across the wrap, and none after it was cleared      *)
(* (PcmRingBuffer.hpp:27).                                                                *)
RingIsQueue == Queue!Spec

(* "clear drains them on a non-realtime thread" (PcmRingBuffer.hpp:27): it ends once the  *)
(* callers pause, so no wake-up of a waiting thread is lost (PcmRingBuffer.cpp:22-33).     *)
ClearEnds == \A k \in Controls : control[k] \notin {"idle", "done"} ~> control[k] = "done"
=============================================================================
