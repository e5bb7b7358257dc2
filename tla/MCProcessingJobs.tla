-------------------------- MODULE MCProcessingJobs --------------------------
(* ProcessingJobs for TLC. *)
EXTENDS ProcessingJobs, TLC

Perms == Permutations(SongJobs) \union Permutations(Songs)

\* Every request names a song of its own, which an earlier run made Ready, and the jobs of
\* earlier are over.
OneEach == CHOOSE f \in [Jobs -> Songs] : \A j, k \in Jobs : f[j] = f[k] => j = k
OwnSongs(earlier) ==
  /\ job = [j \in Jobs |-> IF j \in earlier THEN "Succeeded" ELSE "None"]
  /\ at = [j \in Jobs |-> IF j \in earlier THEN "Done" ELSE "Idle"]
  /\ published = earlier \ PlainJobs
  /\ song = [s \in Songs |-> "Ready"]
  /\ songOf = OneEach
  /\ prior = [j \in Jobs |-> IF j \in earlier \intersect SongJobs THEN "Ready" ELSE "Imported"]
  /\ op = [s \in Songs |-> "None"]
  /\ queue = <<>> /\ tasks = {} /\ cancel = {} /\ waiting = <<>>
  /\ admLock = NoJob
  /\ lease = {}
  /\ pending = [j \in Jobs |-> "None"]
  /\ accepting = TRUE /\ removing = FALSE /\ process = "Up"

\* Requests and workers alone: nobody cancels, removes models or stops the program.
Undisturbed == \E j \in Jobs : Request(j) \/ Worker(j)
MCUndisturbed == OwnSongs({}) /\ [][Undisturbed]_vars /\ Fairness

\* As before, and the program may be shut down, which cancels what it finds.  A plain job comes
\* after all the others, or they after it: they would meet nowhere but in the executor's queue.
OneKind == OwnSongs(PlainJobs) \/ OwnSongs(SongJobs \union MelodyJobs)
MCEnds == OneKind /\ [][Undisturbed \/ Shutdown]_vars /\ Fairness
=============================================================================
