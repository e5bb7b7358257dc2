-------------------------- MODULE MCProjectPublication --------------------------
(***************************************************************************)
(* ProjectPublication with one operation of each kind, and a second        *)
(* package where few others are at work.                                   *)
(***************************************************************************)
EXTENDS ProjectPublication

CONSTANT Second \* the second package

\* Nothing was saved, migrated, made from a file or deleted, or lost in a crash.
Calm == crashes = 0 /\ \A o \in Saves \cup Migrations \cup SongImports \cup Deletions : at[o] = "idle"

\* The second package is imported where it is calm, and then it stays calm.
Instance == at[Second] # "idle" => Calm

InstanceNext == /\ (\E o \in Ops : (o = Second => Calm) /\ Acts(o)) \/ EndsAndStarts
                /\ Instance'

InstanceSpec == Init /\ [][InstanceNext]_vars /\ Fairness
================================================================================
