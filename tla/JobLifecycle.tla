---------------------------- MODULE JobLifecycle ----------------------------
(***************************************************************************)
(* The life of a background job as a client of the jobs API may observe    *)
(* it: what each saved row can be followed by, whatever the requests, the  *)
(* worker threads, cancellation and restarts do.  ProcessingJobs is shown  *)
(* to implement it.                                                        *)
(***************************************************************************)
EXTENDS JobStates

CONSTANT Jobs

VARIABLE job        \* the persisted state of each job, "None" before it is added

\* The rows one save may put in place of another.
Saved(from, to) ==
  \/ from = "Queued" /\ to \in {"Running", "Cancelled", "Failed"}
  \/ from = "Running" /\ to \in {"Cancelling", "Cancelled", "Succeeded", "Failed"}
  \/ from = "Cancelling" /\ to \in {"Cancelled", "Succeeded", "Failed"}
  \/ from = "Interrupted" /\ to = "Cancelled"

Init == job = [j \in Jobs |-> "None"]

Add(j) == /\ job[j] = "None"
          /\ job' = [job EXCEPT ![j] = "Queued"]

Save(j) == \E to \in JobState : Saved(job[j], to) /\ job' = [job EXCEPT ![j] = to]

\* One UPDATE over every unfinished job, at start-up.
Interrupt == job' = [j \in Jobs |-> IF job[j] \in Unfinished THEN "Interrupted" ELSE job[j]]

Next == \/ \E j \in Jobs : Add(j) \/ Save(j)
        \/ Interrupt

Spec == Init /\ [][Next]_job

-----------------------------------------------------------------------------
\* Every save is one transition of the table, or two of which the first is not
\* saved: Queued -> Running -> Failed in _fail, Running -> Cancelling ->
\* Cancelled in _cancel_running.
SavesFollowTheTable ==
  \A from, to \in JobState :
    Saved(from, to) => \/ Allowed(from, to)
                       \/ \E via \in JobState : Allowed(from, via) /\ Allowed(via, to)
=============================================================================
