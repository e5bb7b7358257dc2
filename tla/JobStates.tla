----------------------------- MODULE JobStates ------------------------------
(***************************************************************************)
(* The states of a background job and the transitions between them, from   *)
(* processing/domain.py.                                                   *)
(***************************************************************************)
JobState == {"Queued", "Running", "Cancelling", "Cancelled",
             "Succeeded", "Failed", "Interrupted"}

Terminal == {"Cancelled", "Succeeded", "Failed"}

\* The states mark_running_interrupted replaces at start-up.
Unfinished == {"Queued", "Running", "Cancelling"}

\* _ALLOWED_TRANSITIONS
Allowed(from, to) ==
  \/ from = "Queued" /\ to \in {"Running", "Cancelled", "Interrupted"}
  \/ from = "Running" /\ to \in {"Cancelling", "Succeeded", "Failed", "Interrupted"}
  \/ from = "Cancelling" /\ to \in {"Cancelled", "Succeeded", "Failed", "Interrupted"}
  \/ from = "Interrupted" /\ to \in {"Queued", "Cancelled", "Failed"}
=============================================================================
