-------------------------------- MODULE Tape --------------------------------
(***************************************************************************)
(* What playing a source promises a listener: from the position commanded   *)
(* last, the frames of the song are heard one after the other, none is     *)
(* skipped or repeated, and none of an older position is heard after a     *)
(* newer one was commanded.                                                *)
(***************************************************************************)
EXTENDS Naturals, Sequences

CONSTANTS Length, Block

VARIABLES
    at,    \* how many frames of the song lie before the position
    heard  \* the frames the last callback played

Init == at = 0 /\ heard = <<>>

Hear(n) ==
    /\ heard' = [i \in 1..n |-> at + i]
    /\ at' = at + n

Move(f) ==
    /\ at' = f
    /\ heard' = <<>>

Next == \/ \E n \in 0..Block : at + n <= Length /\ Hear(n)
        \/ \E f \in 0..Length : Move(f)

Spec == Init /\ [][Next]_<<at, heard>>
=============================================================================
