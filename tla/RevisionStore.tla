----------------------------- MODULE RevisionStore -----------------------------
(***************************************************************************)
(* What the library promises of the revisions of one song: a revision that *)
(* can be read is never changed, one of them is active, and what replaces  *)
(* the active one has seen it.  ProjectPublication implements it with a    *)
(* database, directories, a quarantine and a journal, and with crashes.    *)
(***************************************************************************)
EXTENDS Naturals

CONSTANTS Generations, \* runs of the song processing, which publish AI results
          Saves,       \* saves of the editor
          Packages,    \* imports of a package
          Others,      \* the other authors of a revision
          MaxRevision,
          Nothing

VARIABLES active, \* the active revision, 0 while there is no such song
          kept,   \* what a reader of a committed revision finds
          seen    \* the revision the client of an editor save has before it

store == <<active, kept, seen>>

Revisions == 1..MaxRevision
Authors == Generations \cup Saves \cup Packages \cup Others
Lyrics == {"none", "baseline", "edited"}
Content == [by : Authors, lyrics : Lyrics, old : BOOLEAN]

Empty == [r \in Revisions |-> Nothing]

Init == /\ \/ active = 0 /\ kept = Empty
           \/ active = 1 /\ \E c \in Content : kept = [Empty EXCEPT ![1] = c]
        /\ seen = [o \in Saves |-> 0]

\* A generated revision never takes the place of edited lyrics, and a save
\* replaces only the revision its client has seen.
MayReplace(c) == /\ c.by \in Generations => active # 0 /\ kept[active].lyrics # "edited"
                 /\ c.by \in Saves => active # 0 /\ seen[c.by] = active

Publish(r) ==
  /\ kept[r] = Nothing
  /\ active' = r
  /\ \E c \in Content :
       /\ MayReplace(c)
       /\ c.by \notin Packages => r > active
       /\ kept' = [kept EXCEPT ![r] = c]
  /\ UNCHANGED seen

\* A package of a revision the library has makes that one active again.
Reactivate(r) == /\ kept[r] # Nothing
                 /\ active' = r
                 /\ UNCHANGED <<kept, seen>>

Open(o, r) == /\ r \in {0, active}
              /\ seen' = [seen EXCEPT ![o] = r]
              /\ UNCHANGED <<active, kept>>

\* The process ends, and with it the saves it was working on.
Forget == /\ \E lost \in SUBSET Saves : seen' = [o \in Saves |-> IF o \in lost THEN 0 ELSE seen[o]]
          /\ UNCHANGED <<active, kept>>

Delete == /\ active # 0
          /\ active' = 0
          /\ kept' = Empty
          /\ UNCHANGED seen

Next == \/ \E r \in Revisions : Publish(r) \/ Reactivate(r)
        \/ \E o \in Saves, r \in 0..MaxRevision : Open(o, r)
        \/ Forget
        \/ Delete

Spec == Init /\ [][Next]_store
================================================================================
