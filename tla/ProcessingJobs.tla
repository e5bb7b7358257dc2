--------------------------- MODULE ProcessingJobs ---------------------------
(***************************************************************************)
(* Background processing of songs in the desktop backend: the requests     *)
(* StartProcessing and ReprocessMelody, CancelProcessing, the job manager, *)
(* the bounded executor, the admission queue in front of the resource      *)
(* budget, the per-song operation registry, and the start-up recovery of   *)
(* what a crash interrupts.                                                *)
(*                                                                         *)
(* A job is created by one request and then carried by one worker thread,  *)
(* never by both at once, so at[j] is the place in the code of whichever   *)
(* of the two holds it.  One action is one transaction or one region under *)
(* a lock: between two actions every other thread may run.                 *)
(***************************************************************************)
EXTENDS JobStates, Naturals, Sequences, FiniteSets

CONSTANTS SongJobs,    \* jobs of StartProcessing
          MelodyJobs,  \* jobs of ReprocessMelody
          PlainJobs,   \* jobs without a song: imports, downloads, analyses
          Songs,
          Workers,     \* ResourceBudget.max_background_jobs
          Capacity,    \* ResourceBudget.queue_capacity
          Leases,      \* how many resource claims the budget holds at once
          NoJob

Jobs == SongJobs \union MelodyJobs \union PlainJobs

ASSUME JobsAssumption ==
  /\ SongJobs \intersect MelodyJobs = {}
  /\ SongJobs \intersect PlainJobs = {}
  /\ MelodyJobs \intersect PlainJobs = {}
  /\ NoJob \notin Jobs

ASSUME BoundsAssumption ==
  /\ Workers \in Nat \ {0}
  /\ Capacity \in Nat \ {0}
  /\ Leases \in Nat \ {0}

VARIABLES
  job,        \* jobs table: state of each job
  song,       \* songs table: status of each song
  published,  \* jobs whose revision is committed
  at,         \* where the request, then the worker, of each job is
  songOf,     \* the song of the request
  prior,      \* the status _launch read before it claimed the song
  op,         \* SongOperationRegistry._active
  queue,      \* BoundedJobExecutor._queue
  tasks,      \* BoundedJobExecutor._tasks
  cancel,     \* jobs whose threading.Event is set
  waiting,    \* StartProcessing._waiting
  admLock,    \* the request that holds _admission_changed
  lease,      \* jobs that hold a ResourceLease
  pending,    \* the state jobs.cancel returned, until _update_song has run
  accepting,  \* BoundedJobExecutor._accepting
  removing,   \* run_when_idle holds _state_lock while it removes a model
  process     \* "Up", or how far the start after a crash has come

rows == <<job, song, published>>
queues == <<queue, tasks, waiting, admLock>>
request == <<songOf, prior>>
control == <<accepting, removing, process>>
vars == <<rows, at, request, op, queues, cancel, lease, pending, control>>

SongStatus == {"Imported", "Queued", "Processing", "Cancelling",
               "Cancelled", "Ready", "Failed"}

\* _ALLOWED_START_STATES; ProjectInvalid is treated as Failed is.
Startable == {"Imported", "Ready", "Failed", "Cancelled"}

\* Phases of the request that creates the job.
Requesting == {"Loaded", "Leased", "Claimed", "Marked", "Added",
               "Restoring", "ReleaseClaim", "DropLease", "DropLeaseOnly"}

\* Phases of the pipeline itself, on a worker.
Working == {"Work", "Mark", "Check", "Stages", "Publish", "Published", "Returned",
            "Cancelled", "Raised", "Crashed", "Conflict"}

\* Phases in which a worker thread carries the job.
OnWorker == Working \union
            {"Admission", "Admitted", "Execute", "Failing", "Stopping",
             "Finishing", "Settling", "ReleasingOp", "ReleasingLease", "Leaving"}

Over == {"Done", "Refused", "Lost"}

Phase == {"Idle", "InQueue"} \union Requesting \union OnWorker \union Over

\* Phases in which the job owns the Processing entry of its song.
Owning == {"Claimed", "Marked", "Added", "Restoring", "ReleaseClaim", "DropLease", "InQueue"}
          \union (OnWorker \ {"ReleasingLease", "Leaving"})

Owns(j) == j \in SongJobs \union MelodyJobs /\ at[j] \in Owning

\* deque.remove; an element is in the line at most once.
Without(s, j) ==
  IF \E i \in 1..Len(s) : s[i] = j
  THEN LET i == CHOOSE i \in 1..Len(s) : s[i] = j
       IN  SubSeq(s, 1, i-1) \o SubSeq(s, i+1, Len(s))
  ELSE s

Room == Cardinality(lease) < Leases

Go(j, phase) == at' = [at EXCEPT ![j] = phase]
SetJob(j, state) == job' = [job EXCEPT ![j] = state]
SetSong(j, status) == song' = [song EXCEPT ![songOf[j]] = status]

-----------------------------------------------------------------------------
\* The statuses an import, or an earlier run of the program, leaves behind.
Init ==
  /\ job = [j \in Jobs |-> "None"]
  /\ song \in [Songs -> {"Imported", "Ready"}]
  /\ published = {}
  /\ at = [j \in Jobs |-> "Idle"]
  /\ songOf \in [Jobs -> Songs]
  /\ prior = [j \in Jobs |-> "Imported"]
  /\ op = [s \in Songs |-> "None"]
  /\ queue = <<>> /\ tasks = {} /\ cancel = {} /\ waiting = <<>>
  /\ admLock = NoJob
  /\ lease = {}
  /\ pending = [j \in Jobs |-> "None"]
  /\ accepting = TRUE /\ removing = FALSE /\ process = "Up"

-----------------------------------------------------------------------------
\* Requests.

\* StartProcessing._launch: the status is read before the song is claimed.
LoadSong(j) ==
  /\ process = "Up" /\ j \in SongJobs /\ at[j] = "Idle"
  /\ song[songOf[j]] \in Startable
  /\ Go(j, "Loaded")
  /\ prior' = [prior EXCEPT ![j] = song[songOf[j]]]
  /\ UNCHANGED <<rows, songOf, op, queues, cancel, lease, pending, control>>

\* ReprocessMelody.execute
LoadReady(j) ==
  /\ process = "Up" /\ j \in MelodyJobs /\ at[j] = "Idle"
  /\ song[songOf[j]] = "Ready"
  /\ Go(j, "Loaded")
  /\ UNCHANGED <<rows, request, op, queues, cancel, lease, pending, control>>

\* ReprocessMelody reserves resources in the request; a full budget refuses it.
LeaseMelody(j) ==
  /\ j \in MelodyJobs /\ at[j] = "Loaded"
  /\ IF Room
     THEN lease' = lease \union {j} /\ Go(j, "Leased")
     ELSE lease' = lease /\ Go(j, "Refused")
  /\ UNCHANGED <<rows, request, op, queues, cancel, pending, control>>

\* Mutant: a refused claim takes the way back of a failed request.
ClaimSongUndone(j) ==
  /\ j \in SongJobs /\ at[j] = "Loaded"
  /\ IF op[songOf[j]] = "None"
     THEN op' = [op EXCEPT ![songOf[j]] = "Processing"] /\ Go(j, "Claimed")
     ELSE op' = op /\ Go(j, "Restoring")
  /\ UNCHANGED <<rows, request, queues, cancel, lease, pending, control>>

\* SongOperationRegistry.claim, from _launch or ReprocessMelody._start.
ClaimSong(j) ==
  /\ \/ j \in SongJobs /\ at[j] = "Loaded"
     \/ j \in MelodyJobs /\ at[j] = "Leased"
  /\ IF op[songOf[j]] = "None"
     THEN op' = [op EXCEPT ![songOf[j]] = "Processing"] /\ Go(j, "Claimed")
     ELSE op' = op /\ Go(j, IF j \in SongJobs THEN "Refused" ELSE "DropLeaseOnly")
  /\ UNCHANGED <<rows, request, queues, cancel, lease, pending, control>>

\* Settings, preflight or the source file refuse the request.
PreflightFails(j) ==
  /\ j \in SongJobs /\ at[j] = "Claimed"
  /\ Go(j, "Restoring")
  /\ UNCHANGED <<rows, request, op, queues, cancel, lease, pending, control>>

\* StartProcessing._start_job, before it takes _admission_changed.
MarkQueued(j) ==
  /\ j \in SongJobs /\ at[j] = "Claimed"
  /\ SetSong(j, "Queued")
  /\ Go(j, "Marked")
  /\ UNCHANGED <<job, published, request, op, queues, cancel, lease, pending, control>>

\* Mutant: _admission_changed is given back before the job is submitted.
AddJobUnlocked(j) ==
  /\ j \in SongJobs /\ at[j] = "Marked" /\ admLock = NoJob
  /\ waiting' = Append(waiting, j)
  /\ SetJob(j, "Queued")
  /\ Go(j, "Added")
  /\ UNCHANGED <<song, published, request, op, queue, tasks, admLock, cancel, lease, pending, control>>

\* ProcessingJobManager.start: the job row.  A song job registers its turn
\* first and keeps _admission_changed until it is submitted.
AddJob(j) ==
  /\ \/ /\ j \in SongJobs /\ at[j] = "Marked" /\ admLock = NoJob
        /\ waiting' = Append(waiting, j)
        /\ admLock' = j
     \/ /\ \/ j \in MelodyJobs /\ at[j] = "Claimed"
           \/ j \in PlainJobs /\ at[j] = "Idle" /\ process = "Up"
        /\ UNCHANGED <<waiting, admLock>>
  /\ SetJob(j, "Queued")
  /\ Go(j, "Added")
  /\ UNCHANGED <<song, published, request, op, queue, tasks, cancel, lease, pending, control>>

Accepted == accepting /\ Len(queue) < Capacity

\* ProcessingJobManager._submit and BoundedJobExecutor.submit.
SubmitAccepted(j) ==
  /\ at[j] = "Added" /\ ~removing /\ Accepted
  /\ queue' = Append(queue, j)
  /\ tasks' = tasks \union {j}
  /\ admLock' = IF j \in SongJobs THEN NoJob ELSE admLock
  /\ Go(j, "InQueue")
  /\ UNCHANGED <<rows, request, op, waiting, cancel, lease, pending, control>>

\* BackendStopping or JobQueueFull: the job fails, the turn is given back.
SubmitRefused(j) ==
  /\ at[j] = "Added" /\ ~removing /\ ~Accepted
  /\ SetJob(j, IF job[j] \in Terminal THEN job[j] ELSE "Failed")
  /\ IF j \in SongJobs
     THEN waiting' = Without(waiting, j) /\ admLock' = NoJob
     ELSE UNCHANGED <<waiting, admLock>>
  /\ Go(j, IF j \in SongJobs THEN "Restoring"
           ELSE IF j \in MelodyJobs THEN "DropLease" ELSE "Refused")
  /\ UNCHANGED <<song, published, request, op, queue, tasks, cancel, lease, pending, control>>

\* The finally of _launch: the status read at the start is written back.
RestoreStatus(j) ==
  /\ at[j] = "Restoring"
  /\ SetSong(j, prior[j])
  /\ Go(j, "ReleaseClaim")
  /\ UNCHANGED <<job, published, request, op, queues, cancel, lease, pending, control>>

\* The finally of ReprocessMelody._start.
DropLease(j) ==
  /\ at[j] \in {"DropLease", "DropLeaseOnly"}
  /\ lease' = lease \ {j}
  /\ Go(j, IF at[j] = "DropLease" THEN "ReleaseClaim" ELSE "Refused")
  /\ UNCHANGED <<rows, request, op, queues, cancel, pending, control>>

ReleaseClaim(j) ==
  /\ at[j] = "ReleaseClaim"
  /\ op' = [op EXCEPT ![songOf[j]] = "None"]
  /\ Go(j, "Refused")
  /\ UNCHANGED <<rows, request, queues, cancel, lease, pending, control>>

Request(j) == \/ LoadSong(j) \/ LoadReady(j) \/ LeaseMelody(j) \/ ClaimSong(j)
              \/ PreflightFails(j) \/ MarkQueued(j) \/ AddJob(j)
              \/ SubmitAccepted(j) \/ SubmitRefused(j)
              \/ RestoreStatus(j) \/ DropLease(j) \/ ReleaseClaim(j)

-----------------------------------------------------------------------------
\* Workers.

\* BoundedJobExecutor._worker
Take(j) ==
  /\ queue # <<>> /\ Head(queue) = j
  /\ Cardinality({k \in Jobs : at[k] \in OnWorker}) < Workers
  /\ queue' = Tail(queue)
  /\ Go(j, IF j \in SongJobs THEN "Admission" ELSE "Execute")
  /\ UNCHANGED <<rows, request, op, tasks, waiting, admLock, cancel, lease, pending, control>>

\* StartProcessing._admit: only the head of the line asks for resources.
AtHead(j) == admLock = NoJob /\ waiting # <<>> /\ Head(waiting) = j

Admit(j) ==
  /\ at[j] = "Admission" /\ j \notin cancel /\ AtHead(j) /\ Room
  /\ lease' = lease \union {j}
  /\ Go(j, "Admitted")
  /\ UNCHANGED <<rows, request, op, queues, cancel, pending, control>>

\* Any error but ResourceBudgetExceeded, whatever the budget holds.
AdmissionFails(j) ==
  /\ at[j] = "Admission" /\ j \notin cancel /\ AtHead(j)
  /\ Go(j, "Failing")
  /\ UNCHANGED <<rows, request, op, queues, cancel, lease, pending, control>>

AdmissionCancelled(j) ==
  /\ at[j] = "Admission" /\ j \in cancel
  /\ Go(j, "Execute")
  /\ UNCHANGED <<rows, request, op, queues, cancel, lease, pending, control>>

\* Mutant: a finished job leaves its turn in the line.
LeaveTurnOnce(j) ==
  /\ j \in SongJobs /\ at[j] \in {"Admitted", "Finishing"} /\ admLock = NoJob
  /\ waiting' = IF at[j] = "Admitted" THEN Without(waiting, j) ELSE waiting
  /\ Go(j, IF at[j] = "Admitted" THEN "Execute" ELSE "Settling")
  /\ UNCHANGED <<rows, request, op, queue, tasks, admLock, cancel, lease, pending, control>>

\* StartProcessing._leave_queue, after the claim and again in _finish.
LeaveTurn(j) ==
  /\ j \in SongJobs /\ at[j] \in {"Admitted", "Finishing"} /\ admLock = NoJob
  /\ waiting' = Without(waiting, j)
  /\ Go(j, IF at[j] = "Admitted" THEN "Execute" ELSE "Settling")
  /\ UNCHANGED <<rows, request, op, queue, tasks, admLock, cancel, lease, pending, control>>

\* Mutants: _execute checks only one of the event and the saved state.
ExecuteByState(j) ==
  /\ at[j] = "Execute" /\ ~removing
  /\ IF job[j] = "Cancelled"
     THEN job' = job /\ Go(j, "Finishing")
     ELSE SetJob(j, "Running") /\ Go(j, "Work")
  /\ UNCHANGED <<song, published, request, op, queues, cancel, lease, pending, control>>

ExecuteByEvent(j) ==
  /\ at[j] = "Execute" /\ ~removing
  /\ IF j \in cancel
     THEN SetJob(j, IF job[j] \in Terminal THEN job[j] ELSE "Cancelled") /\ Go(j, "Finishing")
     ELSE SetJob(j, IF job[j] = "Queued" THEN "Running" ELSE job[j]) /\ Go(j, "Work")
  /\ UNCHANGED <<song, published, request, op, queues, cancel, lease, pending, control>>

\* ProcessingJobManager._execute, first region.
Execute(j) ==
  /\ at[j] = "Execute" /\ ~removing
  /\ IF j \in cancel \/ job[j] = "Cancelled"
     THEN SetJob(j, IF job[j] \in Terminal THEN job[j] ELSE "Cancelled") /\ Go(j, "Finishing")
     ELSE SetJob(j, "Running") /\ Go(j, "Work")
  /\ UNCHANGED <<song, published, request, op, queues, cancel, lease, pending, control>>

\* StartProcessing._run: the song is read, then marked, in two transactions.
LoadWork(j) ==
  /\ j \in SongJobs /\ at[j] = "Work"
  /\ \/ song[songOf[j]] \in Startable \union {"Queued"} /\ Go(j, "Mark")
     \/ song[songOf[j]] \notin Startable \union {"Queued"} /\ Go(j, "Raised")
  /\ UNCHANGED <<rows, request, op, queues, cancel, lease, pending, control>>

MarkProcessing(j) ==
  /\ at[j] = "Mark"
  /\ SetSong(j, "Processing")
  /\ Go(j, "Check")
  /\ UNCHANGED <<job, published, request, op, queues, cancel, lease, pending, control>>

\* JobContext.ensure_not_cancelled, before the pipeline and at each stage.
CheckCancelled(j) ==
  /\ \/ at[j] \in {"Check", "Stages"}
     \/ at[j] = "Work" /\ j \in MelodyJobs
  /\ Go(j, IF j \in cancel THEN "Cancelled"
           ELSE IF at[j] = "Stages" THEN "Publish" ELSE "Stages")
  /\ UNCHANGED <<rows, request, op, queues, cancel, lease, pending, control>>

\* The work ends with a DomainError, an unexpected exception, the refusal to
\* overwrite manual lyrics or, inside a stage that watches the event, with
\* JobCancelled.
WorkFails(j) ==
  /\ \/ at[j] \in {"Work", "Check", "Stages", "Publish"} /\ Go(j, "Raised")
     \/ at[j] \in {"Work", "Mark", "Check", "Stages", "Publish"} /\ Go(j, "Crashed")
     \/ at[j] = "Publish" /\ Go(j, "Conflict")
     \/ at[j] = "Stages" /\ j \in cancel /\ Go(j, "Cancelled")
     \/ at[j] = "Work" /\ j \in PlainJobs \intersect cancel /\ Go(j, "Cancelled")
  /\ UNCHANGED <<rows, request, op, queues, cancel, lease, pending, control>>

\* ProjectPublisher commits the revision and the Ready status together.
Publish(j) ==
  /\ at[j] = "Publish"
  /\ published' = published \union {j}
  /\ SetSong(j, "Ready")
  /\ \E end \in {"Published", "Crashed"} : Go(j, end)
  /\ UNCHANGED <<job, request, op, queues, cancel, lease, pending, control>>

PlainWork(j) ==
  /\ j \in PlainJobs /\ at[j] = "Work"
  /\ Go(j, "Returned")
  /\ UNCHANGED <<rows, request, op, queues, cancel, lease, pending, control>>

\* StartProcessing._run's except and finally: the status an end of the work
\* leaves on the song.  Melody and plain jobs have no status of their own.
StatusAfter(j) ==
  IF at[j] = "Conflict" THEN "Ready"
  ELSE IF at[j] # "Crashed" THEN IF j \in cancel THEN "Cancelled" ELSE "Failed"
  ELSE IF song[songOf[j]] \in {"Queued", "Processing"} THEN "Failed" ELSE song[songOf[j]]

Unwind(j) ==
  /\ at[j] \in {"Cancelled", "Raised", "Crashed", "Conflict"}
  /\ IF j \in SongJobs THEN SetSong(j, StatusAfter(j)) ELSE song' = song
  /\ Go(j, IF at[j] = "Cancelled" THEN "Stopping" ELSE "Failing")
  /\ UNCHANGED <<job, published, request, op, queues, cancel, lease, pending, control>>

\* Mutant: the error of the work is saved over any state.
SettleAnyState(j) ==
  /\ at[j] \in {"Failing", "Stopping"} /\ ~removing
  /\ SetJob(j, IF at[j] = "Failing" THEN "Failed" ELSE "Cancelled")
  /\ Go(j, "Finishing")
  /\ UNCHANGED <<song, published, request, op, queues, cancel, lease, pending, control>>

\* ProcessingJobManager._fail and _cancel_running, called by _run.
Settle(j) ==
  /\ at[j] \in {"Failing", "Stopping"} /\ ~removing
  /\ SetJob(j, IF job[j] \in Terminal THEN job[j]
               ELSE IF at[j] = "Failing" THEN "Failed" ELSE "Cancelled")
  /\ Go(j, "Finishing")
  /\ UNCHANGED <<song, published, request, op, queues, cancel, lease, pending, control>>

\* Mutant: a late cancellation wins over a committed revision.
SucceedUnlessCancelled(j) ==
  /\ at[j] \in {"Published", "Returned"} /\ ~removing
  /\ SetJob(j, IF j \in cancel \/ job[j] = "Cancelling" THEN "Cancelled" ELSE "Succeeded")
  /\ Go(j, "Finishing")
  /\ UNCHANGED <<song, published, request, op, queues, cancel, lease, pending, control>>

\* ProcessingJobManager._succeed_or_cancel
Succeed(j) ==
  /\ at[j] \in {"Published", "Returned"} /\ ~removing
  /\ SetJob(j, IF at[j] = "Returned" /\ (j \in cancel \/ job[j] = "Cancelling")
               THEN IF job[j] \in Terminal THEN job[j] ELSE "Cancelled"
               ELSE IF job[j] \in {"Running", "Cancelling"} THEN "Succeeded" ELSE job[j])
  /\ Go(j, "Finishing")
  /\ UNCHANGED <<song, published, request, op, queues, cancel, lease, pending, control>>

\* Mutant: only a song in Processing is settled.
SettleProcessing(j) ==
  /\ at[j] = "Settling"
  /\ IF song[songOf[j]] = "Processing"
     THEN SetSong(j, IF j \in cancel THEN "Cancelled" ELSE "Failed")
     ELSE song' = song
  /\ Go(j, "ReleasingOp")
  /\ UNCHANGED <<job, published, request, op, queues, cancel, lease, pending, control>>

\* StartProcessing._settle_unfinished, called by _finish.
SettleSong(j) ==
  /\ at[j] = "Settling"
  /\ IF song[songOf[j]] \in {"Queued", "Processing"}
     THEN SetSong(j, IF j \in cancel THEN "Cancelled" ELSE "Failed")
     ELSE song' = song
  /\ Go(j, "ReleasingOp")
  /\ UNCHANGED <<job, published, request, op, queues, cancel, lease, pending, control>>

\* on_finally of a job without an admission queue.
FinishOther(j) ==
  /\ j \notin SongJobs /\ at[j] = "Finishing"
  /\ Go(j, IF j \in MelodyJobs THEN "ReleasingOp" ELSE "Leaving")
  /\ UNCHANGED <<rows, request, op, queues, cancel, lease, pending, control>>

ReleaseOp(j) ==
  /\ at[j] = "ReleasingOp"
  /\ op' = [op EXCEPT ![songOf[j]] = "None"]
  /\ Go(j, "ReleasingLease")
  /\ UNCHANGED <<rows, request, queues, cancel, lease, pending, control>>

ReleaseLease(j) ==
  /\ at[j] = "ReleasingLease"
  /\ lease' = lease \ {j}
  /\ Go(j, "Leaving")
  /\ UNCHANGED <<rows, request, op, queues, cancel, pending, control>>

\* BoundedJobExecutor._run's finally.
LeaveExecutor(j) ==
  /\ at[j] = "Leaving" /\ ~removing
  /\ tasks' = tasks \ {j}
  /\ Go(j, "Done")
  /\ UNCHANGED <<rows, request, op, queue, waiting, admLock, cancel, lease, pending, control>>

\* What a scheduled worker thread goes on to do by itself.
Advance(j) == \/ Take(j) \/ Admit(j) \/ AdmissionCancelled(j)
              \/ LeaveTurn(j) \/ Execute(j) \/ LoadWork(j) \/ MarkProcessing(j)
              \/ CheckCancelled(j) \/ WorkFails(j) \/ Publish(j) \/ PlainWork(j)
              \/ Unwind(j) \/ Settle(j) \/ Succeed(j) \/ SettleSong(j)
              \/ FinishOther(j) \/ ReleaseOp(j) \/ ReleaseLease(j) \/ LeaveExecutor(j)

Worker(j) == Advance(j) \/ AdmissionFails(j)

-----------------------------------------------------------------------------
\* Cancellation, model removal, shutdown, crash and start-up.

CancelTo(state) ==
  IF state \in {"Queued", "Interrupted"} THEN "Cancelled"
  ELSE IF state = "Running" THEN "Cancelling" ELSE state

\* ProcessingJobManager.cancel; a terminal job is returned as it is.
RequestCancel(j) ==
  /\ process = "Up" /\ ~removing /\ job[j] # "None" /\ pending[j] = "None"
  /\ SetJob(j, CancelTo(job[j]))
  /\ cancel' = IF job[j] \notin Terminal /\ j \in tasks THEN cancel \union {j} ELSE cancel
  /\ pending' = [pending EXCEPT ![j] = IF j \in PlainJobs THEN "None" ELSE CancelTo(job[j])]
  /\ UNCHANGED <<song, published, at, request, op, queues, lease, control>>

\* CancelProcessing._update_song, a transaction of its own.
UpdateSong(j) ==
  /\ pending[j] # "None"
  /\ IF pending[j] \in {"Cancelling", "Cancelled"}
        /\ song[songOf[j]] \in {"Queued", "Processing", "Cancelling"}
     THEN SetSong(j, pending[j])
     ELSE song' = song
  /\ pending' = [pending EXCEPT ![j] = "None"]
  /\ UNCHANGED <<job, published, at, request, op, queues, cancel, lease, control>>

\* Mutant: a removal waits for the queue but not for the busy workers.
BeginRemovalEarly ==
  /\ process = "Up" /\ ~removing /\ queue = <<>>
  /\ removing' = TRUE
  /\ UNCHANGED <<rows, at, request, op, queues, cancel, lease, pending, accepting, process>>

\* ProcessingJobManager.run_when_idle with DeleteModel's removal.
BeginRemoval ==
  /\ process = "Up" /\ ~removing /\ tasks = {}
  /\ removing' = TRUE
  /\ UNCHANGED <<rows, at, request, op, queues, cancel, lease, pending, accepting, process>>

EndRemoval ==
  /\ removing /\ removing' = FALSE
  /\ UNCHANGED <<rows, at, request, op, queues, cancel, lease, pending, accepting, process>>

\* Mutant: the shutdown joins the workers without signalling the jobs.
ShutdownUnsignalled ==
  /\ process = "Up" /\ accepting
  /\ accepting' = FALSE
  /\ UNCHANGED <<rows, at, request, op, queues, cancel, lease, pending, removing, process>>

\* ApplicationContainer.shutdown: refuse new work, cancel what is registered.
Shutdown ==
  /\ process = "Up" /\ accepting
  /\ accepting' = FALSE
  /\ cancel' = cancel \union tasks
  /\ UNCHANGED <<rows, at, request, op, queues, lease, pending, removing, process>>

\* The process ends, at any point; only the database survives.
Crash ==
  /\ at' = [j \in Jobs |-> IF at[j] \in {"Idle"} \union Over THEN at[j] ELSE "Lost"]
  /\ op' = [s \in Songs |-> "None"]
  /\ queue' = <<>> /\ tasks' = {} /\ cancel' = {} /\ waiting' = <<>>
  /\ admLock' = NoJob
  /\ lease' = {}
  /\ pending' = [j \in Jobs |-> "None"]
  /\ accepting' = FALSE /\ removing' = FALSE /\ process' = "Down"
  /\ UNCHANGED <<rows, request>>

\* StartupRecovery: jobs, then songs, each in one transaction.
RecoverJobs ==
  /\ process = "Down"
  /\ job' = [j \in Jobs |-> IF job[j] \in Unfinished THEN "Interrupted" ELSE job[j]]
  /\ process' = "JobsRecovered"
  /\ UNCHANGED <<song, published, at, request, op, queues, cancel, lease, pending,
                 accepting, removing>>

RecoverSongs ==
  /\ process = "JobsRecovered"
  /\ song' = [s \in Songs |-> IF song[s] \in {"Queued", "Processing", "Cancelling"}
                              THEN "Failed" ELSE song[s]]
  /\ process' = "Up" /\ accepting' = TRUE
  /\ UNCHANGED <<job, published, at, request, op, queues, cancel, lease, pending, removing>>

System == \/ \E j \in Jobs : RequestCancel(j) \/ UpdateSong(j)
          \/ BeginRemoval \/ EndRemoval \/ Shutdown
          \/ Crash \/ RecoverJobs \/ RecoverSongs

Next == \/ \E j \in Jobs : Request(j) \/ Worker(j)
        \/ System

Spec == Init /\ [][Next]_vars

-----------------------------------------------------------------------------
\* Worker threads are scheduled and the work they run returns (stages and
\* processes have timeouts); a request that has begun goes on.  Nothing forces
\* a request, an admission error, a cancellation, a shutdown or a crash.
Fairness ==
  /\ \A j \in Jobs : WF_vars(Advance(j)) /\ WF_vars(at[j] # "Idle" /\ Request(j))
  /\ WF_vars(EndRemoval)

FairSpec == Spec /\ Fairness

-----------------------------------------------------------------------------
TypeOK ==
  /\ job \in [Jobs -> JobState \union {"None"}]
  /\ song \in [Songs -> SongStatus]
  /\ published \subseteq Jobs
  /\ at \in [Jobs -> Phase]
  /\ songOf \in [Jobs -> Songs]
  /\ prior \in [Jobs -> Startable]
  /\ op \in [Songs -> {"None", "Processing"}]
  /\ queue \in Seq(Jobs) /\ tasks \subseteq Jobs /\ cancel \subseteq Jobs
  /\ waiting \in Seq(Jobs) /\ admLock \in Jobs \union {NoJob}
  /\ lease \subseteq Jobs
  /\ pending \in [Jobs -> JobState \union {"None"}]
  /\ accepting \in BOOLEAN /\ removing \in BOOLEAN
  /\ process \in {"Up", "Down", "JobsRecovered"}

\* The registry knows only that a song is being processed, not by whom, and
\* both a refused request and a finished job release it.  Still no two jobs
\* own one song, and every owner's entry is there until its owner removes it.
SongOwnedOnce ==
  /\ \A j, k \in Jobs : Owns(j) /\ Owns(k) /\ songOf[j] = songOf[k] => j = k
  /\ \A j \in Jobs : Owns(j) => op[songOf[j]] = "Processing"
  /\ \A s \in Songs : op[s] = "Processing" => \E j \in Jobs : Owns(j) /\ songOf[j] = s

\* Heavy work runs only under a resource lease, the leases fit the budget, and
\* a job whose request or thread is over holds none.
LeasesCoverWork ==
  /\ \A j \in SongJobs \union MelodyJobs : at[j] \in Working => j \in lease
  /\ Cardinality(lease) <= Leases
  /\ \A j \in lease : at[j] \notin {"Idle", "Leaving"} \union Over

\* A song left Queued or Processing always has a live job that will still
\* settle it: no order of failures, refusals, cancellations and restarts
\* abandons it ("must not leave the song in Processing").
Settles(j) == /\ j \in SongJobs
              /\ at[j] \in Owning \ {"Claimed", "ReleaseClaim", "ReleasingOp"}

SongNotAbandoned ==
  process = "Up" =>
    \A s \in Songs : song[s] \in {"Queued", "Processing"} =>
      \E j \in Jobs : Settles(j) /\ songOf[j] = s

\* The outcome a client reads is the one the project on disk has: a song job
\* that reports success has published, and one whose revision is committed is
\* not reported as cancelled by the run that committed it, however late the
\* cancellation came.
OutcomeMatchesPublication ==
  /\ \A j \in SongJobs \union MelodyJobs : job[j] = "Succeeded" => j \in published
  /\ \A j \in published : at[j] # "Lost" => job[j] # "Cancelled"

\* A job that a client was told is Cancelled runs no work any more, also when
\* the cancellation arrived before the executor knew the job.
CancelledNeverWorks ==
  \A j \in Jobs : job[j] = "Cancelled" => at[j] \notin Working \ {"Cancelled"}

\* While a model is being removed no worker owns its files, and none can start.
RemovalIsQuiet ==
  removing => \A j \in Jobs : at[j] \notin {"InQueue"} \union OnWorker

\* "Register the turn in the same order in which workers receive their jobs":
\* a worker never waits behind a turn whose job still needs a worker.
TurnsFollowTheQueue ==
  \A i, k \in 1..Len(waiting) :
    i < k /\ at[waiting[k]] \in OnWorker => at[waiting[i]] \in OnWorker

\* A worker in the admission loop finds its own turn in the line, so reading
\* the head never fails.
TurnIsRegistered ==
  \A j \in Jobs : at[j] \in {"Admission", "Admitted"} => \E i \in 1..Len(waiting) : waiting[i] = j

\* The saved rows of every job follow the life of a job.
Life == INSTANCE JobLifecycle
Lifecycle == Life!Spec

\* A melody job that has its resources and waits for a worker.
Reserved == \E m \in MelodyJobs : at[m] = "InQueue" /\ m \in lease

\* Every job the executor accepted ends, whatever fails in front of it, as long
\* as no queued melody job sits on the budget for good.
JobsEndUnlessReserved ==
  \A j \in Jobs : []<>~Reserved => (at[j] = "InQueue" ~> at[j] \in Over)

\* Shutdown drains: the join over the worker threads returns.
ShutdownDrains == (process = "Up" /\ ~accepting) ~> (tasks = {})

-----------------------------------------------------------------------------
\* Claims of the documents that the code does not keep.

\* StartProcessing._admit: "queue until the resource budget has room", and run
\* then: every job the executor accepted ends.
AcceptedJobsEnd ==
  \A j \in Jobs : at[j] = "InQueue" ~> at[j] \in Over

\* ReconcileInterruptedSongs: "the user can retry instead of finding them stuck
\* forever": no song keeps a status that refuses a new start without a job.
SongNeverStuck ==
  process = "Up" =>
    \A s \in Songs : song[s] \in {"Queued", "Processing", "Cancelling"} =>
      \E j \in Jobs : at[j] \notin {"Idle"} \union Over /\ songOf[j] = s
=============================================================================
