----------------------------- MODULE FrameQueue -----------------------------
(***************************************************************************)
(* What a ring buffer of the AudioService promises its two callers: the    *)
(* frames accepted are handed out once, whole and in order, none comes out *)
(* after the queue has been emptied, and no more than the capacity waits.  *)
(***************************************************************************)
EXTENDS Naturals, Sequences

CONSTANTS Capacity, MaxFrames

VARIABLES
    queue,     \* the frames accepted and not handed out, numbered in the order they came
    sent,      \* how many frames have been accepted
    delivered  \* the frames the last reading call handed out

qvars == <<queue, sent, delivered>>

Init == queue = <<>> /\ sent = 0 /\ delivered = <<>>

Push(n) ==
    /\ Len(queue) + n <= Capacity
    /\ queue' = queue \o [i \in 1..n |-> sent + i]
    /\ sent' = sent + n
    /\ UNCHANGED delivered

Peek(n) ==
    /\ delivered' = SubSeq(queue, 1, n)
    /\ UNCHANGED <<queue, sent>>

Discard(n) ==
    /\ queue' = SubSeq(queue, n + 1, Len(queue))
    /\ UNCHANGED <<sent, delivered>>

Pop(n) ==
    /\ delivered' = SubSeq(queue, 1, n)
    /\ queue' = SubSeq(queue, n + 1, Len(queue))
    /\ UNCHANGED sent

Clear ==
    /\ queue' = <<>>
    /\ UNCHANGED <<sent, delivered>>

Next ==
    \/ \E n \in 1..MaxFrames : Push(n)
    \/ \E n \in 0..Len(queue) : Peek(n) \/ Discard(n) \/ Pop(n)
    \/ Clear

Spec == Init /\ [][Next]_qvars
=============================================================================
