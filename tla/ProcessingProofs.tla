-------------------------- MODULE ProcessingProofs --------------------------
(***************************************************************************)
(* Proofs about ProcessingJobs, for any sets of jobs and songs and any     *)
(* number of workers, queue places and leases: its types; the inductive    *)
(* invariant LifeInv that ties the state a job is saved in to the place    *)
(* its carrier has reached, and what follows from it; who owns the entry   *)
(* of a song in SongOperationRegistry and who settles a song; the leases   *)
(* of the budget and the task table a model's removal relies on; and the   *)
(* order of the turns in the admission queue.                              *)
(***************************************************************************)
EXTENDS ProcessingJobs, SequenceTheorems, FiniteSetTheorems, TLAPS

-----------------------------------------------------------------------------
(* Types. *)
\* Taking an element out of a sequence gives a sequence over the same set.
LEMMA WithoutType ==
  ASSUME NEW S, NEW s \in Seq(S), NEW j
  PROVE  Without(s, j) \in Seq(S)
<1>1. CASE \E i \in 1..Len(s) : s[i] = j
  <2> DEFINE p == CHOOSE i \in 1..Len(s) : s[i] = j
  <2>1. p \in 1..Len(s)
    BY <1>1
  <2> HIDE DEF p
  <2>2. SubSeq(s, 1, p-1) \in Seq(S)
    BY <2>1, SubSeqProperties
  <2>3. SubSeq(s, p+1, Len(s)) \in Seq(S)
    BY <2>1, SubSeqProperties
  <2>4. SubSeq(s, 1, p-1) \o SubSeq(s, p+1, Len(s)) \in Seq(S)
    BY <2>2, <2>3
  <2> QED BY <1>1, <2>4 DEF Without, p
<1>2. CASE ~ \E i \in 1..Len(s) : s[i] = j
  BY <1>2 DEF Without
<1> QED BY <1>1, <1>2

-----------------------------------------------------------------------------
\* Type correctness.

\* A step of a request keeps the types.
LEMMA RequestType ==
  ASSUME TypeOK, NEW j \in Jobs, Request(j)
  PROVE  TypeOK'
<1> USE JobsAssumption DEF TypeOK, Jobs, Phase, Requesting, OnWorker, Working, Over,
         SongStatus, Startable, JobState, Terminal, Unfinished, Go, SetJob, SetSong,
         rows, queues, request, control
<1>1. CASE LoadSong(j)
  BY <1>1 DEF LoadSong
<1>2. CASE LoadReady(j)
  BY <1>2 DEF LoadReady
<1>3. CASE LeaseMelody(j)
  BY <1>3 DEF LeaseMelody
<1>4. CASE ClaimSong(j)
  <2>1. CASE op[songOf[j]] = "None"
    <3>1. op' = [op EXCEPT ![songOf[j]] = "Processing"] /\ at' = [at EXCEPT ![j] = "Claimed"]
      BY <1>4, <2>1 DEF ClaimSong
    <3> QED BY <1>4, <3>1 DEF ClaimSong
  <2>2. CASE op[songOf[j]] # "None"
    <3>1. \E p \in {"Refused", "DropLeaseOnly"} : at' = [at EXCEPT ![j] = p]
      BY <1>4, <2>2 DEF ClaimSong
    <3> QED BY <1>4, <2>2, <3>1 DEF ClaimSong
  <2> QED BY <2>1, <2>2
<1>5. CASE PreflightFails(j)
  BY <1>5 DEF PreflightFails
<1>6. CASE MarkQueued(j)
  BY <1>6 DEF MarkQueued
<1>7. CASE AddJob(j)
  <2>1. CASE UNCHANGED <<waiting, admLock>>
    BY <1>7, <2>1 DEF AddJob
  <2>2. CASE waiting' = Append(waiting, j) /\ admLock' = j
    BY <1>7, <2>2 DEF AddJob
  <2> QED BY <1>7, <2>1, <2>2 DEF AddJob
<1>8. CASE SubmitAccepted(j)
  BY <1>8 DEF SubmitAccepted, Accepted
<1>9. CASE SubmitRefused(j)
  BY <1>9, WithoutType DEF SubmitRefused, Accepted
<1>10. CASE RestoreStatus(j)
  BY <1>10 DEF RestoreStatus
<1>11. CASE DropLease(j)
  BY <1>11 DEF DropLease
<1>12. CASE ReleaseClaim(j)
  BY <1>12 DEF ReleaseClaim
<1> QED BY <1>1, <1>2, <1>3, <1>4, <1>5, <1>6, <1>7, <1>8, <1>9, <1>10, <1>11, <1>12 DEF Request

\* A step of a worker keeps the types.
LEMMA WorkerType ==
  ASSUME TypeOK, NEW j \in Jobs, Worker(j)
  PROVE  TypeOK'
<1> USE JobsAssumption DEF TypeOK, Jobs, Phase, Requesting, OnWorker, Working, Over,
         SongStatus, Startable, JobState, Terminal, Unfinished, Go, SetJob, SetSong,
         rows, queues, request, control
<1>1. CASE Take(j)
  BY <1>1, HeadTailProperties DEF Take
<1>2. CASE Admit(j)
  BY <1>2 DEF Admit, AtHead
<1>3. CASE AdmissionFails(j)
  BY <1>3 DEF AdmissionFails, AtHead
<1>4. CASE AdmissionCancelled(j)
  BY <1>4 DEF AdmissionCancelled
<1>5. CASE LeaveTurn(j)
  BY <1>5, WithoutType DEF LeaveTurn
<1>6. CASE Execute(j)
  <2>1. at' \in [Jobs -> Phase]
    BY <1>6 DEF Execute
  <2>2. job' \in [Jobs -> JobState \union {"None"}]
    BY <1>6 DEF Execute
  <2> QED BY <1>6, <2>1, <2>2 DEF Execute
<1>7. CASE LoadWork(j)
  <2>1. \E p \in {"Mark", "Raised"} : Go(j, p)
    BY <1>7 DEF LoadWork
  <2> QED BY <1>7, <2>1 DEF LoadWork
<1>8. CASE MarkProcessing(j)
  BY <1>8 DEF MarkProcessing
<1>9. CASE CheckCancelled(j)
  BY <1>9 DEF CheckCancelled
<1>10. CASE WorkFails(j)
  <2>1. \E p \in {"Raised", "Crashed", "Conflict", "Cancelled"} : Go(j, p)
    BY <1>10 DEF WorkFails
  <2> QED BY <1>10, <2>1 DEF WorkFails
<1>11. CASE Publish(j)
  BY <1>11 DEF Publish
<1>12. CASE PlainWork(j)
  BY <1>12 DEF PlainWork
<1>13. CASE Unwind(j)
  BY <1>13 DEF Unwind, StatusAfter
<1>14. CASE Settle(j)
  BY <1>14 DEF Settle
<1>15. CASE Succeed(j)
  BY <1>15 DEF Succeed
<1>16. CASE SettleSong(j)
  BY <1>16 DEF SettleSong
<1>17. CASE FinishOther(j)
  BY <1>17 DEF FinishOther
<1>18. CASE ReleaseOp(j)
  BY <1>18 DEF ReleaseOp
<1>19. CASE ReleaseLease(j)
  BY <1>19 DEF ReleaseLease
<1>20. CASE LeaveExecutor(j)
  BY <1>20 DEF LeaveExecutor
<1> QED BY <1>1, <1>2, <1>3, <1>4, <1>5, <1>6, <1>7, <1>8, <1>9, <1>10, <1>11, <1>12, <1>13,
   <1>14, <1>15, <1>16, <1>17, <1>18, <1>19, <1>20 DEF Worker, Advance

\* Cancellation, removal, shutdown, crash and start-up keep the types.
LEMMA SystemType ==
  ASSUME TypeOK, System
  PROVE  TypeOK'
<1> USE JobsAssumption DEF TypeOK, Jobs, Phase, Requesting, OnWorker, Working, Over,
         SongStatus, Startable, JobState, Terminal, Unfinished, Go, SetJob, SetSong,
         rows, queues, request, control
<1>1. ASSUME NEW j \in Jobs, RequestCancel(j) PROVE TypeOK'
  BY <1>1 DEF RequestCancel, CancelTo
<1>2. ASSUME NEW j \in Jobs, UpdateSong(j) PROVE TypeOK'
  BY <1>2 DEF UpdateSong
<1>3. CASE BeginRemoval
  BY <1>3 DEF BeginRemoval
<1>4. CASE EndRemoval
  BY <1>4 DEF EndRemoval
<1>5. CASE Shutdown
  BY <1>5 DEF Shutdown
<1>6. CASE Crash
  <2>1. at' \in [Jobs -> Phase]
    BY <1>6 DEF Crash
  <2>2. op' \in [Songs -> {"None", "Processing"}] /\ pending' \in [Jobs -> JobState \union {"None"}]
    BY <1>6 DEF Crash
  <2>3. queue' \in Seq(Jobs) /\ waiting' \in Seq(Jobs)
    BY <1>6 DEF Crash
  <2> QED BY <1>6, <2>1, <2>2, <2>3 DEF Crash
<1>7. CASE RecoverJobs
  BY <1>7 DEF RecoverJobs
<1>8. CASE RecoverSongs
  BY <1>8 DEF RecoverSongs
<1> QED BY <1>1, <1>2, <1>3, <1>4, <1>5, <1>6, <1>7, <1>8 DEF System

\* The initial states are well typed.
LEMMA TypeInit == Init => TypeOK
<1> SUFFICES ASSUME Init PROVE TypeOK
  OBVIOUS
<1>1. song \in [Songs -> SongStatus] /\ at \in [Jobs -> Phase] /\ prior \in [Jobs -> Startable]
  BY DEF Init, SongStatus, Phase, Startable
<1>2. queue \in Seq(Jobs) /\ waiting \in Seq(Jobs)
  BY DEF Init
<1> QED BY <1>1, <1>2 DEF Init, TypeOK

\* Every step keeps the types.
LEMMA TypeStep ==
  ASSUME TypeOK, [Next]_vars
  PROVE  TypeOK'
<1>1. CASE UNCHANGED vars
  BY <1>1 DEF TypeOK, vars, rows, queues, request, control
<1>2. ASSUME NEW j \in Jobs, Request(j) PROVE TypeOK'
  BY <1>2, RequestType
<1>3. ASSUME NEW j \in Jobs, Worker(j) PROVE TypeOK'
  BY <1>3, WorkerType
<1>4. CASE System
  BY <1>4, SystemType
<1> QED BY <1>1, <1>2, <1>3, <1>4 DEF Next

\* Every variable keeps its type in every run of the program, for any jobs,
\* songs and bounds.
THEOREM TypeCorrect == Spec => []TypeOK
BY TypeInit, TypeStep, PTL DEF Spec

-----------------------------------------------------------------------------
(* The saved states of jobs. *)
\* The phases only jobs of one kind pass through.
SongPhase == {"Marked", "Restoring", "Admission", "Admitted", "Mark", "Check", "Settling"}
MelodyPhase == {"Leased", "DropLease", "DropLeaseOnly"}
SharedPhase == {"Loaded", "Claimed", "ReleaseClaim", "Stages", "Publish", "Published",
                "Conflict", "ReleasingOp", "ReleasingLease"}

PhaseFitsKind(j) ==
  /\ at[j] \in SongPhase => j \in SongJobs
  /\ at[j] \in MelodyPhase => j \in MelodyJobs
  /\ at[j] \in SharedPhase => j \notin PlainJobs
  /\ at[j] = "Returned" => j \in PlainJobs

\* The executor's queue holds each waiting job once.
QueueHoldsWaiting ==
  /\ \A i \in 1..Len(queue) : at[queue[i]] = "InQueue"
  /\ \A i, k \in 1..Len(queue) : queue[i] = queue[k] => i = k

\* No request, job or cancellation is under way in a stopped process.
Still(j) == process # "Up" => at[j] \in {"Idle"} \union Over /\ pending[j] = "None"

Finished == {"Finishing", "Settling", "ReleasingOp", "ReleasingLease", "Leaving", "Done"}

\* The state a job is saved in, by the place in the code its carrier has reached.
JobFitsPhase(j) ==
  /\ at[j] \in {"Idle", "Loaded", "Leased", "Claimed", "Marked", "DropLeaseOnly"} => job[j] =
      "None"
  /\ at[j] \in {"Added", "InQueue", "Admission", "Admitted", "Execute"}
       => job[j] \in {"Queued", "Cancelled"}
  /\ at[j] \in Working => job[j] \in {"Running", "Cancelling"}
  /\ at[j] = "Failing" => job[j] \in {"Queued", "Cancelled", "Running", "Cancelling"}
  /\ at[j] = "Stopping" => job[j] \in {"Running", "Cancelling"}
  /\ at[j] \in Finished => job[j] \in Terminal

\* A committed revision and the state its job is saved in.
CommitFitsJob(j) ==
  /\ at[j] = "Published" => j \in published
  /\ j \in published =>
       /\ at[j] \in {"Published", "Crashed", "Failing", "Lost"} \union Finished
       /\ at[j] # "Lost" => job[j] \in {"Running", "Cancelling", "Succeeded", "Failed"}
  /\ j \notin PlainJobs /\ job[j] = "Succeeded" => j \in published

LifeInv ==
  /\ TypeOK
  /\ QueueHoldsWaiting
  /\ \A j \in Jobs : PhaseFitsKind(j) /\ Still(j) /\ JobFitsPhase(j) /\ CommitFitsJob(j)

-----------------------------------------------------------------------------
\* Every action keeps LifeInv.

\* A step of a request keeps what LifeInv says of each job.
LEMMA RequestJobs ==
  ASSUME LifeInv, NEW j \in Jobs, Request(j), NEW k \in Jobs
  PROVE  PhaseFitsKind(k)' /\ Still(k)' /\ JobFitsPhase(k)' /\ CommitFitsJob(k)'
<1> USE JobsAssumption DEF LifeInv, TypeOK, PhaseFitsKind, Still, JobFitsPhase, CommitFitsJob,
         QueueHoldsWaiting, SongPhase, MelodyPhase, SharedPhase, Finished, Jobs, Requesting,
             Working, OnWorker,
         Over, JobState, Terminal, Unfinished, Go, SetJob, SetSong, rows, queues, request,
             control
<1>1. CASE LoadSong(j)
  BY <1>1 DEF LoadSong
<1>2. CASE LoadReady(j)
  BY <1>2 DEF LoadReady
<1>3. CASE LeaseMelody(j)
  <2>1. \E p \in {"Leased", "Refused"} : Go(j, p)
    BY <1>3 DEF LeaseMelody
  <2> QED BY <1>3, <2>1 DEF LeaseMelody
<1>4. CASE ClaimSong(j)
  BY <1>4 DEF ClaimSong
<1>5. CASE PreflightFails(j)
  BY <1>5 DEF PreflightFails
<1>6. CASE MarkQueued(j)
  BY <1>6 DEF MarkQueued
<1>7. CASE AddJob(j)
  BY <1>7 DEF AddJob
<1>8. CASE SubmitAccepted(j)
  BY <1>8 DEF SubmitAccepted, Accepted
<1>9. CASE SubmitRefused(j)
  BY <1>9 DEF SubmitRefused, Accepted
<1>10. CASE RestoreStatus(j)
  BY <1>10 DEF RestoreStatus
<1>11. CASE DropLease(j)
  BY <1>11 DEF DropLease
<1>12. CASE ReleaseClaim(j)
  BY <1>12 DEF ReleaseClaim
<1> QED BY <1>1, <1>2, <1>3, <1>4, <1>5, <1>6, <1>7, <1>8, <1>9, <1>10, <1>11, <1>12 DEF Request

\* A step of a worker keeps what LifeInv says of each job.
LEMMA WorkerJobs ==
  ASSUME LifeInv, NEW j \in Jobs, Worker(j), NEW k \in Jobs
  PROVE  PhaseFitsKind(k)' /\ Still(k)' /\ JobFitsPhase(k)' /\ CommitFitsJob(k)'
<1> USE JobsAssumption DEF LifeInv, TypeOK, PhaseFitsKind, Still, JobFitsPhase, CommitFitsJob,
         QueueHoldsWaiting, SongPhase, MelodyPhase, SharedPhase, Finished, Jobs, Requesting,
             Working, OnWorker,
         Over, JobState, Terminal, Unfinished, Go, SetJob, SetSong, rows, queues, request,
             control
<1>1. CASE Take(j)
  BY <1>1 DEF Take
<1>2. CASE Admit(j)
  BY <1>2 DEF Admit, AtHead
<1>3. CASE AdmissionFails(j)
  BY <1>3 DEF AdmissionFails, AtHead
<1>4. CASE AdmissionCancelled(j)
  BY <1>4 DEF AdmissionCancelled
<1>5. CASE LeaveTurn(j)
  BY <1>5 DEF LeaveTurn
<1>6. CASE Execute(j)
  BY <1>6 DEF Execute
<1>7. CASE LoadWork(j)
  BY <1>7 DEF LoadWork
<1>8. CASE MarkProcessing(j)
  <2>1. at' = [at EXCEPT ![j] = "Check"] /\ j \in SongJobs
    BY <1>8 DEF MarkProcessing
  <2> QED BY <1>8, <2>1 DEF MarkProcessing
<1>9. CASE CheckCancelled(j)
  BY <1>9 DEF CheckCancelled
<1>10. CASE WorkFails(j)
  <2>1. PICK p \in {"Raised", "Crashed", "Conflict", "Cancelled"} : Go(j, p)
    BY <1>10 DEF WorkFails
  <2>2. p = "Conflict" => j \notin PlainJobs
    BY <1>10, <2>1 DEF WorkFails
  <2> QED BY <1>10, <2>1, <2>2 DEF WorkFails
<1>11. CASE Publish(j)
  BY <1>11 DEF Publish
<1>12. CASE PlainWork(j)
  BY <1>12 DEF PlainWork
<1>13. CASE Unwind(j)
  BY <1>13 DEF Unwind, StatusAfter
<1>14. CASE Settle(j)
  BY <1>14 DEF Settle
<1>15. CASE Succeed(j)
  <2>1. \E state \in Terminal : /\ at' = [at EXCEPT ![j] = "Finishing"]
                                /\ job' = [job EXCEPT ![j] = state]
                                /\ at[j] = "Published" => state = "Succeeded"
                                /\ at[j] = "Returned" => j \in PlainJobs
    BY <1>15 DEF Succeed
  <2> QED BY <1>15, <2>1 DEF Succeed
<1>16. CASE SettleSong(j)
  BY <1>16 DEF SettleSong
<1>17. CASE FinishOther(j)
  BY <1>17 DEF FinishOther
<1>18. CASE ReleaseOp(j)
  BY <1>18 DEF ReleaseOp
<1>19. CASE ReleaseLease(j)
  BY <1>19 DEF ReleaseLease
<1>20. CASE LeaveExecutor(j)
  BY <1>20 DEF LeaveExecutor
<1> QED BY <1>1, <1>2, <1>3, <1>4, <1>5, <1>6, <1>7, <1>8, <1>9, <1>10, <1>11, <1>12, <1>13,
    <1>14, <1>15, <1>16, <1>17, <1>18, <1>19, <1>20 DEF Worker, Advance

\* A step of a request keeps the queue: a submitted job was not in it.
LEMMA RequestQueue ==
  ASSUME LifeInv, NEW j \in Jobs, Request(j)
  PROVE  QueueHoldsWaiting'
<1> USE DEF LifeInv, TypeOK, QueueHoldsWaiting, Go, queues
<1>1. CASE LoadSong(j)
  BY <1>1 DEF LoadSong
<1>2. CASE LoadReady(j)
  BY <1>2 DEF LoadReady
<1>3. CASE LeaseMelody(j)
  BY <1>3 DEF LeaseMelody
<1>4. CASE ClaimSong(j)
  BY <1>4 DEF ClaimSong
<1>5. CASE PreflightFails(j)
  BY <1>5 DEF PreflightFails
<1>6. CASE MarkQueued(j)
  BY <1>6 DEF MarkQueued
<1>7. CASE AddJob(j)
  BY <1>7 DEF AddJob
<1>8. CASE SubmitAccepted(j)
  <2>1. /\ Len(queue') = Len(queue) + 1
        /\ \A i \in 1..Len(queue) : queue'[i] = queue[i]
        /\ queue'[Len(queue) + 1] = j
    BY <1>8, AppendProperties DEF SubmitAccepted
  <2>2. \A i \in 1..Len(queue) : queue[i] # j
    BY <1>8 DEF SubmitAccepted
  <2>3. at'[j] = "InQueue" /\ \A k \in Jobs : k # j => at'[k] = at[k]
    BY <1>8 DEF SubmitAccepted
  <2>4. \A i \in 1..Len(queue) : queue[i] \in Jobs
    OBVIOUS
  <2>5. \A i \in 1..Len(queue') : at'[queue'[i]] = "InQueue"
    <3> SUFFICES ASSUME NEW i \in 1..Len(queue') PROVE at'[queue'[i]] = "InQueue"
      OBVIOUS
    <3>1. i \in 1..Len(queue) \/ i = Len(queue) + 1
      BY <2>1
    <3>2. CASE i \in 1..Len(queue)
      <4>1. queue'[i] = queue[i] /\ queue[i] \in Jobs /\ queue[i] # j /\ at[queue[i]] = "InQueue"
        BY <3>2, <2>1, <2>2, <2>4
      <4> QED BY <4>1, <2>3
    <3>3. CASE i = Len(queue) + 1
      BY <3>3, <2>1, <2>3
    <3> QED BY <3>1, <3>2, <3>3
  <2>6. \A i, k \in 1..Len(queue') : queue'[i] = queue'[k] => i = k
    <3>1. \A i \in 1..Len(queue') : i \in 1..Len(queue) \/ i = Len(queue) + 1
      BY <2>1
    <3>2. \A i, k \in 1..Len(queue) : queue'[i] = queue'[k] => i = k
      BY <2>1
    <3> QED BY <3>1, <3>2, <2>1, <2>2
  <2> QED BY <2>5, <2>6
<1>9. CASE SubmitRefused(j)
  BY <1>9 DEF SubmitRefused, Accepted
<1>10. CASE RestoreStatus(j)
  BY <1>10 DEF RestoreStatus
<1>11. CASE DropLease(j)
  BY <1>11 DEF DropLease
<1>12. CASE ReleaseClaim(j)
  BY <1>12 DEF ReleaseClaim
<1> QED BY <1>1, <1>2, <1>3, <1>4, <1>5, <1>6, <1>7, <1>8, <1>9, <1>10, <1>11, <1>12 DEF Request

\* A step of a worker keeps the queue: the job taken is in it no more.
LEMMA WorkerQueue ==
  ASSUME LifeInv, NEW j \in Jobs, Worker(j)
  PROVE  QueueHoldsWaiting'
<1> USE DEF LifeInv, TypeOK, QueueHoldsWaiting, Go, queues
<1>1. CASE Take(j)
  <2>1. /\ Len(queue') = Len(queue) - 1
        /\ \A i \in 1..Len(queue') : queue'[i] = queue[i+1]
    BY <1>1, HeadTailProperties DEF Take
  <2>2. 1 \in 1..Len(queue) /\ queue[1] = j
    BY <1>1, HeadTailProperties, EmptySeq DEF Take
  <2>3. \A i \in 2..Len(queue) : queue[i] # j
    BY <2>2
  <2>4. \A k \in Jobs : k # j => at'[k] = at[k]
    BY <1>1 DEF Take
  <2>5. \A i \in 1..Len(queue') : i+1 \in 2..Len(queue) /\ queue[i+1] \in Jobs
    BY <2>1
  <2>6. ASSUME NEW i \in 1..Len(queue')
        PROVE  at'[queue'[i]] = "InQueue"
    <3>1. i+1 \in 2..Len(queue) /\ queue[i+1] \in Jobs /\ queue'[i] = queue[i+1]
      BY <2>1, <2>5
    <3>2. queue[i+1] # j /\ at[queue[i+1]] = "InQueue"
      BY <3>1, <2>3
    <3> QED BY <3>1, <3>2, <2>4
  <2>7. ASSUME NEW i \in 1..Len(queue'), NEW k \in 1..Len(queue'), queue'[i] = queue'[k]
        PROVE  i = k
    <3>1. i+1 \in 1..Len(queue) /\ k+1 \in 1..Len(queue) /\ queue[i+1] = queue[k+1]
      BY <2>1, <2>7
    <3>2. i+1 = k+1
      BY <3>1
    <3> QED BY <3>2, <2>1
  <2> QED BY <2>6, <2>7
<1>2. CASE Admit(j)
  BY <1>2 DEF Admit, AtHead
<1>3. CASE AdmissionFails(j)
  BY <1>3 DEF AdmissionFails, AtHead
<1>4. CASE AdmissionCancelled(j)
  BY <1>4 DEF AdmissionCancelled
<1>5. CASE LeaveTurn(j)
  BY <1>5 DEF LeaveTurn
<1>6. CASE Execute(j)
  BY <1>6 DEF Execute
<1>7. CASE LoadWork(j)
  BY <1>7 DEF LoadWork
<1>8. CASE MarkProcessing(j)
  BY <1>8 DEF MarkProcessing
<1>9. CASE CheckCancelled(j)
  BY <1>9 DEF CheckCancelled
<1>10. CASE WorkFails(j)
  BY <1>10 DEF WorkFails
<1>11. CASE Publish(j)
  BY <1>11 DEF Publish
<1>12. CASE PlainWork(j)
  BY <1>12 DEF PlainWork
<1>13. CASE Unwind(j)
  BY <1>13 DEF Unwind, StatusAfter
<1>14. CASE Settle(j)
  BY <1>14 DEF Settle
<1>15. CASE Succeed(j)
  BY <1>15 DEF Succeed
<1>16. CASE SettleSong(j)
  BY <1>16 DEF SettleSong
<1>17. CASE FinishOther(j)
  BY <1>17 DEF FinishOther
<1>18. CASE ReleaseOp(j)
  BY <1>18 DEF ReleaseOp
<1>19. CASE ReleaseLease(j)
  BY <1>19 DEF ReleaseLease
<1>20. CASE LeaveExecutor(j)
  BY <1>20 DEF LeaveExecutor
<1> QED BY <1>1, <1>2, <1>3, <1>4, <1>5, <1>6, <1>7, <1>8, <1>9, <1>10, <1>11, <1>12, <1>13,
    <1>14, <1>15, <1>16, <1>17, <1>18, <1>19, <1>20 DEF Worker, Advance


\* Cancellation, removal, shutdown, crash and start-up keep LifeInv.
LEMMA SystemLife ==
  ASSUME LifeInv, System
  PROVE  /\ QueueHoldsWaiting'
         /\ \A k \in Jobs : PhaseFitsKind(k)' /\ Still(k)' /\ JobFitsPhase(k)' /\ CommitFitsJob(k)'
<1> USE JobsAssumption DEF LifeInv, TypeOK, PhaseFitsKind, Still, JobFitsPhase, CommitFitsJob,
         QueueHoldsWaiting, SongPhase, MelodyPhase, SharedPhase, Finished, Jobs, Requesting,
             Working, OnWorker,
         Over, JobState, Terminal, Unfinished, Go, SetJob, SetSong, rows, queues, request,
             control
<1>1. ASSUME NEW j \in Jobs, RequestCancel(j), NEW k \in Jobs PROVE PhaseFitsKind(k)' /\
    Still(k)' /\ JobFitsPhase(k)' /\ CommitFitsJob(k)'
  BY <1>1 DEF RequestCancel, CancelTo
<1>2. ASSUME NEW j \in Jobs, UpdateSong(j), NEW k \in Jobs PROVE PhaseFitsKind(k)' /\
    Still(k)' /\ JobFitsPhase(k)' /\ CommitFitsJob(k)'
  BY <1>2 DEF UpdateSong
<1>3. ASSUME NEW j \in Jobs, RequestCancel(j) \/ UpdateSong(j) PROVE QueueHoldsWaiting'
  BY <1>3 DEF RequestCancel, UpdateSong
<1>4. ASSUME BeginRemoval \/ EndRemoval \/ Shutdown, NEW k \in Jobs PROVE PhaseFitsKind(k)' /\
    Still(k)' /\ JobFitsPhase(k)' /\ CommitFitsJob(k)'
  BY <1>4 DEF BeginRemoval, EndRemoval, Shutdown
<1>5. ASSUME Crash, NEW k \in Jobs PROVE PhaseFitsKind(k)' /\ Still(k)' /\ JobFitsPhase(k)' /\
    CommitFitsJob(k)'
  BY <1>5 DEF Crash
<1>6. ASSUME RecoverJobs, NEW k \in Jobs PROVE PhaseFitsKind(k)' /\ Still(k)' /\
    JobFitsPhase(k)' /\ CommitFitsJob(k)'
  BY <1>6 DEF RecoverJobs
<1>7. ASSUME RecoverSongs, NEW k \in Jobs PROVE PhaseFitsKind(k)' /\ Still(k)' /\
    JobFitsPhase(k)' /\ CommitFitsJob(k)'
  BY <1>7 DEF RecoverSongs
<1>8. CASE BeginRemoval \/ EndRemoval \/ Shutdown \/ RecoverJobs \/ RecoverSongs
  <2>1. QueueHoldsWaiting'
    BY <1>8 DEF BeginRemoval, EndRemoval, Shutdown, RecoverJobs, RecoverSongs
  <2> QED BY <1>4, <1>6, <1>7, <1>8, <2>1
<1>9. CASE Crash
  <2>1. QueueHoldsWaiting'
    BY <1>9 DEF Crash
  <2> QED BY <1>5, <1>9, <2>1
<1> QED BY <1>1, <1>2, <1>3, <1>8, <1>9 DEF System

\* LifeInv is inductive.
THEOREM LifeInvariant == Spec => []LifeInv
<1>1. Init => LifeInv
  BY JobsAssumption, TypeInit DEF Init, LifeInv, PhaseFitsKind, Still, JobFitsPhase,
      CommitFitsJob,
     QueueHoldsWaiting, SongPhase, MelodyPhase, SharedPhase, Finished, Working, Jobs
<1>2. LifeInv /\ [Next]_vars => LifeInv'
  <2> SUFFICES ASSUME LifeInv, [Next]_vars PROVE LifeInv'
    OBVIOUS
  <2>1. TypeOK'
    BY TypeStep DEF LifeInv
  <2>2. CASE UNCHANGED vars
    BY <2>1, <2>2 DEF LifeInv, PhaseFitsKind, Still, JobFitsPhase, CommitFitsJob,
       QueueHoldsWaiting, vars, rows, queues, control
  <2>3. ASSUME NEW j \in Jobs, Request(j) PROVE LifeInv'
    BY <2>1, <2>3, RequestJobs, RequestQueue DEF LifeInv
  <2>4. ASSUME NEW j \in Jobs, Worker(j) PROVE LifeInv'
    BY <2>1, <2>4, WorkerJobs, WorkerQueue DEF LifeInv
  <2>5. CASE System
    BY <2>1, <2>5, SystemLife DEF LifeInv
  <2> QED BY <2>2, <2>3, <2>4, <2>5 DEF Next
<1> QED BY <1>1, <1>2, PTL DEF Spec

\* A cancelled job never works: once a client was told so, no pipeline of the
\* job runs, in any interleaving of the cancellation with the worker.
THEOREM CancelledStops == Spec => []CancelledNeverWorks
<1>1. LifeInv => CancelledNeverWorks
  BY DEF LifeInv, JobFitsPhase, CancelledNeverWorks
<1> QED BY <1>1, LifeInvariant, PTL

\* The saved outcome of a job is the one its published revision has.
THEOREM OutcomeCorrect == Spec => []OutcomeMatchesPublication
<1>1. LifeInv => OutcomeMatchesPublication
  BY JobsAssumption DEF LifeInv, TypeOK, CommitFitsJob, OutcomeMatchesPublication, Jobs
<1> QED BY <1>1, LifeInvariant, PTL

-----------------------------------------------------------------------------
\* The refinement.

\* A step of a request saves what JobLifecycle allows, or nothing.
LEMMA RequestSaves ==
  ASSUME LifeInv, NEW j \in Jobs, Request(j)
  PROVE  job' = job \/ Life!Add(j) \/ Life!Save(j)
<1> USE JobsAssumption DEF LifeInv, TypeOK, JobFitsPhase, Jobs, Working,
         JobState, Terminal, Unfinished, Go, SetJob, rows, Life!Add, Life!Save, Life!Saved,
             Life!JobState
<1>1. CASE \/ LoadSong(j) \/ LoadReady(j) \/ LeaseMelody(j) \/ ClaimSong(j)
           \/ PreflightFails(j) \/ MarkQueued(j) \/ SubmitAccepted(j) \/ RestoreStatus(j)
           \/ DropLease(j) \/ ReleaseClaim(j)
  BY <1>1 DEF LoadSong, LoadReady, LeaseMelody, ClaimSong, PreflightFails, MarkQueued,
      SubmitAccepted, RestoreStatus, DropLease, ReleaseClaim
<1>2. CASE AddJob(j)
  BY <1>2 DEF AddJob
<1>3. CASE SubmitRefused(j)
  <2>1. PICK to \in JobState : SetJob(j, to) /\ (to = job[j] \/ Life!Saved(job[j], to))
    BY <1>3 DEF SubmitRefused
  <2>2. CASE to = job[j]
    BY <2>1, <2>2
  <2>3. CASE Life!Saved(job[j], to)
    BY <2>1, <2>3
  <2> QED BY <2>1, <2>2, <2>3
<1> QED BY <1>1, <1>2, <1>3 DEF Request

\* A step of a worker saves what JobLifecycle allows, or nothing.
LEMMA WorkerSaves ==
  ASSUME LifeInv, NEW j \in Jobs, Worker(j)
  PROVE  job' = job \/ Life!Add(j) \/ Life!Save(j)
<1> USE JobsAssumption DEF LifeInv, TypeOK, JobFitsPhase, Jobs, Working,
         JobState, Terminal, Unfinished, Go, SetJob, rows, Life!Add, Life!Save, Life!Saved,
             Life!JobState
<1>1. CASE \/ Take(j) \/ Admit(j) \/ AdmissionFails(j) \/ AdmissionCancelled(j)
           \/ LeaveTurn(j) \/ LoadWork(j) \/ MarkProcessing(j) \/ CheckCancelled(j)
           \/ WorkFails(j) \/ Publish(j) \/ PlainWork(j) \/ Unwind(j)
           \/ SettleSong(j) \/ FinishOther(j) \/ ReleaseOp(j) \/ ReleaseLease(j)
           \/ LeaveExecutor(j)
  BY <1>1 DEF Take, Admit, AdmissionFails, AdmissionCancelled, LeaveTurn, LoadWork,
      MarkProcessing, CheckCancelled, WorkFails, Publish, PlainWork, Unwind, SettleSong,
      FinishOther, ReleaseOp, ReleaseLease, LeaveExecutor
<1>2. CASE Execute(j)
  <2>1. PICK to \in JobState : SetJob(j, to) /\ (to = job[j] \/ Life!Saved(job[j], to))
    BY <1>2 DEF Execute
  <2>2. CASE to = job[j]
    BY <2>1, <2>2
  <2>3. CASE Life!Saved(job[j], to)
    BY <2>1, <2>3
  <2> QED BY <2>1, <2>2, <2>3
<1>3. CASE Settle(j)
  <2>1. PICK to \in JobState : SetJob(j, to) /\ (to = job[j] \/ Life!Saved(job[j], to))
    BY <1>3 DEF Settle
  <2>2. CASE to = job[j]
    BY <2>1, <2>2
  <2>3. CASE Life!Saved(job[j], to)
    BY <2>1, <2>3
  <2> QED BY <2>1, <2>2, <2>3
<1>4. CASE Succeed(j)
  <2>1. PICK to \in JobState : SetJob(j, to) /\ (to = job[j] \/ Life!Saved(job[j], to))
    BY <1>4 DEF Succeed
  <2>2. CASE to = job[j]
    BY <2>1, <2>2
  <2>3. CASE Life!Saved(job[j], to)
    BY <2>1, <2>3
  <2> QED BY <2>1, <2>2, <2>3
<1> QED BY <1>1, <1>2, <1>3, <1>4 DEF Worker, Advance

\* So do cancellation, start-up recovery and the other system steps.
LEMMA SystemSaves ==
  ASSUME LifeInv, System
  PROVE  [Life!Next]_job
<1>1. ASSUME NEW j \in Jobs, RequestCancel(j) PROVE [Life!Next]_job
  <2>1. job' = [job EXCEPT ![j] = CancelTo(job[j])] /\ job[j] \in JobState
    BY <1>1 DEF RequestCancel, SetJob, LifeInv, TypeOK
  <2>2. CASE CancelTo(job[j]) = job[j]
    BY <2>1, <2>2 DEF LifeInv, TypeOK
  <2>3. CASE CancelTo(job[j]) # job[j]
    <3>1. CancelTo(job[j]) \in JobState /\ Life!Saved(job[j], CancelTo(job[j]))
      BY <2>1, <2>3 DEF CancelTo, JobState, Life!Saved
    <3> QED BY <2>1, <3>1 DEF Life!Save, Life!Next, JobState, Life!JobState
  <2> QED BY <2>2, <2>3
<1>2. ASSUME NEW j \in Jobs, UpdateSong(j) PROVE [Life!Next]_job
  BY <1>2 DEF UpdateSong
<1>3. CASE BeginRemoval \/ EndRemoval \/ Shutdown \/ Crash \/ RecoverSongs
  BY <1>3 DEF BeginRemoval, EndRemoval, Shutdown, Crash, RecoverSongs, rows
<1>4. CASE RecoverJobs
  BY <1>4 DEF RecoverJobs, Life!Next, Life!Interrupt, Unfinished, Life!Unfinished
<1> QED BY <1>1, <1>2, <1>3, <1>4 DEF System

\* The detailed system implements the life of a job: whatever requests, worker
\* threads, cancellations, shutdowns and restarts do, each saved row of a job
\* is followed only by what JobLifecycle allows.
THEOREM LifecycleImplemented == Spec => Lifecycle
<1>1. Init => Life!Init
  BY DEF Init, Life!Init
<1>2. LifeInv /\ [Next]_vars => [Life!Next]_job
  <2> SUFFICES ASSUME LifeInv, [Next]_vars PROVE [Life!Next]_job
    OBVIOUS
  <2>1. CASE UNCHANGED vars
    BY <2>1 DEF vars, rows
  <2>2. ASSUME NEW j \in Jobs, Request(j) PROVE [Life!Next]_job
    BY <2>2, RequestSaves DEF Life!Next
  <2>3. ASSUME NEW j \in Jobs, Worker(j) PROVE [Life!Next]_job
    BY <2>3, WorkerSaves DEF Life!Next
  <2>4. CASE System
    BY <2>4, SystemSaves
  <2> QED BY <2>1, <2>2, <2>3, <2>4 DEF Next
<1> QED BY <1>1, <1>2, LifeInvariant, PTL DEF Spec, Lifecycle, Life!Spec

\* Every save of the abstract life is a step of the transition table in
\* processing/domain.py, or two steps of which only the second is saved.
THEOREM SavesFollow == Life!SavesFollowTheTable
BY DEF Life!SavesFollowTheTable, Life!Saved, Allowed, Life!Allowed, JobState, Life!JobState

-----------------------------------------------------------------------------
(* What jobs do to their songs. *)
\* A step of a request other than claim and release changes no owner.
LEMMA RequestKeepsOwners ==
  ASSUME LifeInv, NEW j \in Jobs, NEW k \in Jobs,
         \/ LoadSong(j) \/ LoadReady(j) \/ LeaseMelody(j) \/ PreflightFails(j)
         \/ MarkQueued(j) \/ AddJob(j) \/ SubmitAccepted(j) \/ SubmitRefused(j)
         \/ RestoreStatus(j) \/ DropLease(j)
  PROVE  Owns(k)' <=> Owns(k)
<1> USE JobsAssumption DEF LifeInv, TypeOK, PhaseFitsKind, QueueHoldsWaiting, SongPhase,
         MelodyPhase, SharedPhase, Owns, Owning, OnWorker, Working, Jobs, Go, rows, queues,
             request, control
<1>1. CASE LoadSong(j)
  BY <1>1 DEF LoadSong
<1>2. CASE LoadReady(j)
  BY <1>2 DEF LoadReady
<1>3. CASE LeaseMelody(j)
  BY <1>3 DEF LeaseMelody
<1>4. CASE PreflightFails(j)
  BY <1>4 DEF PreflightFails
<1>5. CASE MarkQueued(j)
  BY <1>5 DEF MarkQueued
<1>6. CASE AddJob(j)
  BY <1>6 DEF AddJob
<1>7. CASE SubmitAccepted(j)
  BY <1>7 DEF SubmitAccepted, Accepted
<1>8. CASE SubmitRefused(j)
  BY <1>8 DEF SubmitRefused, Accepted
<1>9. CASE RestoreStatus(j)
  BY <1>9 DEF RestoreStatus
<1>10. CASE DropLease(j)
  BY <1>10 DEF DropLease
<1> QED BY <1>1, <1>2, <1>3, <1>4, <1>5, <1>6, <1>7, <1>8, <1>9, <1>10

\* A step of a worker other than the release changes no owner.
LEMMA WorkerKeepsOwners ==
  ASSUME LifeInv, NEW j \in Jobs, NEW k \in Jobs,
         \/ Take(j) \/ Admit(j) \/ AdmissionFails(j) \/ AdmissionCancelled(j)
         \/ LeaveTurn(j) \/ Execute(j) \/ LoadWork(j) \/ MarkProcessing(j)
         \/ CheckCancelled(j) \/ WorkFails(j) \/ Publish(j) \/ PlainWork(j)
         \/ Unwind(j) \/ Settle(j) \/ Succeed(j) \/ SettleSong(j)
         \/ FinishOther(j) \/ ReleaseLease(j) \/ LeaveExecutor(j)
  PROVE  Owns(k)' <=> Owns(k)
<1> USE JobsAssumption DEF LifeInv, TypeOK, PhaseFitsKind, QueueHoldsWaiting, SongPhase,
         MelodyPhase, SharedPhase, Owns, Owning, OnWorker, Working, Jobs, Go, rows, queues,
             request, control
<1>1. CASE Take(j)
  <2>1. 1 \in 1..Len(queue) /\ queue[1] = j
    BY <1>1, HeadTailProperties, EmptySeq DEF Take
  <2> QED BY <1>1, <2>1 DEF Take
<1>2. CASE Admit(j)
  BY <1>2 DEF Admit, AtHead
<1>3. CASE AdmissionFails(j)
  BY <1>3 DEF AdmissionFails, AtHead
<1>4. CASE AdmissionCancelled(j)
  BY <1>4 DEF AdmissionCancelled
<1>5. CASE LeaveTurn(j)
  BY <1>5 DEF LeaveTurn
<1>6. CASE Execute(j)
  BY <1>6 DEF Execute
<1>7. CASE LoadWork(j)
  BY <1>7 DEF LoadWork
<1>8. CASE MarkProcessing(j)
  BY <1>8 DEF MarkProcessing
<1>9. CASE CheckCancelled(j)
  BY <1>9 DEF CheckCancelled
<1>10. CASE WorkFails(j)
  <2>1. PICK p \in {"Raised", "Crashed", "Conflict", "Cancelled"} : Go(j, p)
    BY <1>10 DEF WorkFails
  <2> QED BY <1>10, <2>1 DEF WorkFails
<1>11. CASE Publish(j)
  BY <1>11 DEF Publish
<1>12. CASE PlainWork(j)
  BY <1>12 DEF PlainWork
<1>13. CASE Unwind(j)
  BY <1>13 DEF Unwind, StatusAfter
<1>14. CASE Settle(j)
  BY <1>14 DEF Settle
<1>15. CASE Succeed(j)
  BY <1>15 DEF Succeed
<1>16. CASE SettleSong(j)
  BY <1>16 DEF SettleSong
<1>17. CASE FinishOther(j)
  BY <1>17 DEF FinishOther
<1>18. CASE ReleaseLease(j)
  BY <1>18 DEF ReleaseLease
<1>19. CASE LeaveExecutor(j)
  BY <1>19 DEF LeaveExecutor
<1> QED BY <1>1, <1>2, <1>3, <1>4, <1>5, <1>6, <1>7, <1>8, <1>9, <1>10, <1>11, <1>12, <1>13,
    <1>14, <1>15, <1>16, <1>17, <1>18, <1>19

\* While owners and registry stay, ownership stays.
LEMMA OwnersKept ==
  ASSUME SongOwnedOnce, op' = op, songOf' = songOf, \A k \in Jobs : Owns(k)' <=> Owns(k)
  PROVE  SongOwnedOnce'
BY DEF SongOwnedOnce

\* A claim succeeds only on a song nobody owns.
LEMMA ClaimKeepsOwnership ==
  ASSUME LifeInv, SongOwnedOnce, NEW j \in Jobs, ClaimSong(j)
  PROVE  SongOwnedOnce'
<1> USE JobsAssumption DEF LifeInv, TypeOK, PhaseFitsKind, SongPhase, MelodyPhase, SharedPhase,
         Owns, Owning, OnWorker, Working, Jobs, Go, rows, queues, request, control
<1>1. CASE op[songOf[j]] = "None"
  <2>1. op' = [op EXCEPT ![songOf[j]] = "Processing"] /\ at' = [at EXCEPT ![j] = "Claimed"]
    BY <1>1 DEF ClaimSong
  <2>2. songOf' = songOf /\ j \notin PlainJobs
    BY DEF ClaimSong
  <2>3. \A k \in Jobs : Owns(k)' <=> Owns(k) \/ k = j
    BY <2>1, <2>2 DEF ClaimSong
  <2>4. \A k \in Jobs : Owns(k) => songOf[k] # songOf[j]
    BY <1>1 DEF SongOwnedOnce
  <2>5. songOf[j] \in Songs
    OBVIOUS
  <2> HIDE DEF Owns, Owning
  <2>6. \A i, k \in Jobs : Owns(i)' /\ Owns(k)' /\ songOf'[i] = songOf'[k] => i = k
    BY <2>2, <2>3, <2>4 DEF SongOwnedOnce
  <2>7. \A k \in Jobs : Owns(k)' => op'[songOf'[k]] = "Processing"
    BY <2>1, <2>2, <2>3, <2>5 DEF SongOwnedOnce
  <2>8. \A s \in Songs : op'[s] = "Processing" => \E k \in Jobs : Owns(k)' /\ songOf'[k] = s
    BY <2>1, <2>2, <2>3, <2>5 DEF SongOwnedOnce
  <2> QED BY <2>6, <2>7, <2>8 DEF SongOwnedOnce
<1>2. CASE op[songOf[j]] # "None"
  <2>1. PICK p \in {"Refused", "DropLeaseOnly"} : at' = [at EXCEPT ![j] = p]
    BY <1>2 DEF ClaimSong
  <2>2. \A k \in Jobs : Owns(k)' <=> Owns(k)
    BY <2>1 DEF ClaimSong
  <2>3. op' = op /\ songOf' = songOf
    BY <1>2 DEF ClaimSong
  <2> QED BY <2>2, <2>3, OwnersKept
<1> QED BY <1>1, <1>2

\* Only the one owner releases the entry of a song, and it owns it no more.
LEMMA ReleaseKeepsOwnership ==
  ASSUME LifeInv, SongOwnedOnce, NEW j \in Jobs, ReleaseClaim(j) \/ ReleaseOp(j)
  PROVE  SongOwnedOnce'
<1> USE JobsAssumption DEF LifeInv, TypeOK, PhaseFitsKind, SongPhase, MelodyPhase, SharedPhase,
         Owns, Owning, OnWorker, Working, Jobs, Go, rows, queues, request, control
<1>1. Owns(j)
  BY DEF ReleaseClaim, ReleaseOp
<1>2. op' = [op EXCEPT ![songOf[j]] = "None"] /\ songOf' = songOf
  BY DEF ReleaseClaim, ReleaseOp
<1>3. \A k \in Jobs : Owns(k)' <=> Owns(k) /\ k # j
  BY DEF ReleaseClaim, ReleaseOp
<1> HIDE DEF Owns, Owning
<1> QED BY <1>1, <1>2, <1>3 DEF SongOwnedOnce

\* The registry of song operations is exact: no two jobs own one song, each
\* owner's entry is there, and no entry outlives its owner.
THEOREM OwnershipCorrect == Spec => []SongOwnedOnce
<1>1. Init => SongOwnedOnce
  BY DEF Init, SongOwnedOnce, Owns, Owning, OnWorker, Working
<1>2. LifeInv /\ SongOwnedOnce /\ [Next]_vars => SongOwnedOnce'
  <2> SUFFICES ASSUME LifeInv, SongOwnedOnce, [Next]_vars PROVE SongOwnedOnce'
    OBVIOUS
  <2>1. CASE UNCHANGED vars
    BY <2>1, OwnersKept DEF Owns, vars, request
  <2>2. ASSUME NEW j \in Jobs, Request(j) PROVE SongOwnedOnce'
    <3>1. CASE ClaimSong(j)
      BY <3>1, ClaimKeepsOwnership
    <3>2. CASE ReleaseClaim(j)
      BY <3>2, ReleaseKeepsOwnership
    <3>3. CASE \/ LoadSong(j) \/ LoadReady(j) \/ LeaseMelody(j) \/ PreflightFails(j)
              \/ MarkQueued(j) \/ AddJob(j) \/ SubmitAccepted(j) \/ SubmitRefused(j)
              \/ RestoreStatus(j) \/ DropLease(j)
      <4>1. \A k \in Jobs : Owns(k)' <=> Owns(k)
        BY <3>3, RequestKeepsOwners
      <4>2. op' = op /\ songOf' = songOf
        BY <3>3 DEF LoadSong, LoadReady, LeaseMelody, PreflightFails, MarkQueued, AddJob,
            SubmitAccepted, SubmitRefused, RestoreStatus, DropLease, request
      <4> QED BY <4>1, <4>2, OwnersKept
    <3> QED BY <2>2, <3>1, <3>2, <3>3 DEF Request
  <2>3. ASSUME NEW j \in Jobs, Worker(j) PROVE SongOwnedOnce'
    <3>1. CASE ReleaseOp(j)
      BY <3>1, ReleaseKeepsOwnership
    <3>2. CASE \/ Take(j) \/ Admit(j) \/ AdmissionFails(j) \/ AdmissionCancelled(j)
              \/ LeaveTurn(j) \/ Execute(j) \/ LoadWork(j) \/ MarkProcessing(j)
              \/ CheckCancelled(j) \/ WorkFails(j) \/ Publish(j) \/ PlainWork(j)
              \/ Unwind(j) \/ Settle(j) \/ Succeed(j) \/ SettleSong(j)
              \/ FinishOther(j) \/ ReleaseLease(j) \/ LeaveExecutor(j)
      <4>1. \A k \in Jobs : Owns(k)' <=> Owns(k)
        BY <3>2, WorkerKeepsOwners
      <4>2. op' = op /\ songOf' = songOf
        BY <3>2 DEF Take, Admit, AdmissionFails, AdmissionCancelled, LeaveTurn, Execute,
            LoadWork, MarkProcessing, CheckCancelled, WorkFails, Publish, PlainWork, Unwind,
            Settle, Succeed, SettleSong, FinishOther, ReleaseLease, LeaveExecutor, request
      <4> QED BY <4>1, <4>2, OwnersKept
    <3> QED BY <2>3, <3>1, <3>2 DEF Worker, Advance
  <2>4. CASE System
    <3>1. CASE Crash
      <4>1. \A k \in Jobs : ~Owns(k)'
        BY <3>1 DEF Crash, Owns, Owning, OnWorker, Working, Over
      <4>2. \A s \in Songs : op'[s] = "None"
        BY <3>1 DEF Crash
      <4> QED BY <4>1, <4>2 DEF SongOwnedOnce
    <3>2. CASE ~Crash
      <4>1. op' = op /\ songOf' = songOf /\ at' = at
        BY <2>4, <3>2 DEF System, RequestCancel, UpdateSong, BeginRemoval, EndRemoval, Shutdown,
           RecoverJobs, RecoverSongs, request
      <4> QED BY <4>1, OwnersKept DEF Owns
    <3> QED BY <3>1, <3>2
  <2> QED BY <2>1, <2>2, <2>3, <2>4 DEF Next
<1> QED BY <1>1, <1>2, LifeInvariant, PTL DEF Spec

-----------------------------------------------------------------------------
\* Songs are settled.

\* A step of a request changes one song at most, and leaves it settled or with
\* a job that will settle it.
LEMMA RequestSettles ==
  ASSUME LifeInv, NEW j \in Jobs, Request(j)
  PROVE  /\ \A k \in Jobs : k # j => at'[k] = at[k]
         /\ \A s \in Songs : s # songOf[j] => song'[s] = song[s]
         /\ \/ Settles(j)'
            \/ song'[songOf[j]] \notin {"Queued", "Processing"}
            \/ ~Settles(j) /\ song' = song
<1> USE JobsAssumption DEF LifeInv, TypeOK, PhaseFitsKind, QueueHoldsWaiting, SongPhase,
         MelodyPhase, SharedPhase, Settles, Owning, OnWorker, Working, Startable, Jobs, Go,
             SetSong,
         rows, queues, request, control
<1>1. CASE LoadSong(j)
  BY <1>1 DEF LoadSong
<1>2. CASE LoadReady(j)
  BY <1>2 DEF LoadReady
<1>3. CASE LeaseMelody(j)
  <2>1. PICK p \in {"Leased", "Refused"} : Go(j, p)
    BY <1>3 DEF LeaseMelody
  <2> QED BY <1>3, <2>1 DEF LeaseMelody
<1>4. CASE ClaimSong(j)
  <2>1. PICK p \in {"Claimed", "Refused", "DropLeaseOnly"} : Go(j, p)
    BY <1>4 DEF ClaimSong
  <2> QED BY <1>4, <2>1 DEF ClaimSong
<1>5. CASE PreflightFails(j)
  BY <1>5 DEF PreflightFails
<1>6. CASE MarkQueued(j)
  BY <1>6 DEF MarkQueued
<1>7. CASE AddJob(j)
  BY <1>7 DEF AddJob
<1>8. CASE SubmitAccepted(j)
  BY <1>8 DEF SubmitAccepted, Accepted
<1>9. CASE SubmitRefused(j)
  BY <1>9 DEF SubmitRefused, Accepted
<1>10. CASE RestoreStatus(j)
  BY <1>10 DEF RestoreStatus
<1>11. CASE DropLease(j)
  BY <1>11 DEF DropLease
<1>12. CASE ReleaseClaim(j)
  BY <1>12 DEF ReleaseClaim
<1> QED BY <1>1, <1>2, <1>3, <1>4, <1>5, <1>6, <1>7, <1>8, <1>9, <1>10, <1>11, <1>12 DEF Request

\* The same of a step of a worker.
LEMMA WorkerSettles ==
  ASSUME LifeInv, NEW j \in Jobs, Worker(j)
  PROVE  /\ \A k \in Jobs : k # j => at'[k] = at[k]
         /\ \A s \in Songs : s # songOf[j] => song'[s] = song[s]
         /\ \/ Settles(j)'
            \/ song'[songOf[j]] \notin {"Queued", "Processing"}
            \/ ~Settles(j) /\ song' = song
<1> USE JobsAssumption DEF LifeInv, TypeOK, PhaseFitsKind, QueueHoldsWaiting, SongPhase,
         MelodyPhase, SharedPhase, Settles, Owning, OnWorker, Working, Startable, Jobs, Go,
             SetSong,
         rows, queues, request, control
<1>1. CASE Take(j)
  <2>1. 1 \in 1..Len(queue) /\ queue[1] = j
    BY <1>1, HeadTailProperties, EmptySeq DEF Take
  <2> QED BY <1>1, <2>1 DEF Take
<1>2. CASE Admit(j)
  BY <1>2 DEF Admit, AtHead
<1>3. CASE AdmissionFails(j)
  BY <1>3 DEF AdmissionFails, AtHead
<1>4. CASE AdmissionCancelled(j)
  BY <1>4 DEF AdmissionCancelled
<1>5. CASE LeaveTurn(j)
  BY <1>5 DEF LeaveTurn
<1>6. CASE Execute(j)
  BY <1>6 DEF Execute
<1>7. CASE LoadWork(j)
  <2>1. PICK p \in {"Mark", "Raised"} : Go(j, p)
    BY <1>7 DEF LoadWork
  <2> QED BY <1>7, <2>1 DEF LoadWork
<1>8. CASE MarkProcessing(j)
  BY <1>8 DEF MarkProcessing
<1>9. CASE CheckCancelled(j)
  BY <1>9 DEF CheckCancelled
<1>10. CASE WorkFails(j)
  <2>1. PICK p \in {"Raised", "Crashed", "Conflict", "Cancelled"} : Go(j, p)
    BY <1>10 DEF WorkFails
  <2> QED BY <1>10, <2>1 DEF WorkFails
<1>11. CASE Publish(j)
  <2>1. PICK p \in {"Published", "Crashed"} : Go(j, p)
    BY <1>11 DEF Publish
  <2> QED BY <1>11, <2>1 DEF Publish
<1>12. CASE PlainWork(j)
  BY <1>12 DEF PlainWork
<1>13. CASE Unwind(j)
  BY <1>13 DEF Unwind, StatusAfter
<1>14. CASE Settle(j)
  BY <1>14 DEF Settle
<1>15. CASE Succeed(j)
  BY <1>15 DEF Succeed
<1>16. CASE SettleSong(j)
  BY <1>16 DEF SettleSong
<1>17. CASE FinishOther(j)
  BY <1>17 DEF FinishOther
<1>18. CASE ReleaseOp(j)
  BY <1>18 DEF ReleaseOp
<1>19. CASE ReleaseLease(j)
  BY <1>19 DEF ReleaseLease
<1>20. CASE LeaveExecutor(j)
  BY <1>20 DEF LeaveExecutor
<1> QED BY <1>1, <1>2, <1>3, <1>4, <1>5, <1>6, <1>7, <1>8, <1>9, <1>10, <1>11, <1>12, <1>13,
    <1>14, <1>15, <1>16, <1>17, <1>18, <1>19, <1>20 DEF Worker, Advance

\* Such a step abandons no song.
LEMMA SettlersKept ==
  ASSUME TypeOK, SongNotAbandoned, process' = process, songOf' = songOf, NEW j \in Jobs,
         \A k \in Jobs : k # j => at'[k] = at[k],
         \A s \in Songs : s # songOf[j] => song'[s] = song[s],
         \/ Settles(j)'
         \/ song'[songOf[j]] \notin {"Queued", "Processing"}
         \/ ~Settles(j) /\ song' = song
  PROVE  SongNotAbandoned'
<1>1. \A k \in Jobs : k # j => (Settles(k)' <=> Settles(k))
  BY DEF Settles
<1> HIDE DEF Settles
<1> SUFFICES ASSUME process = "Up", NEW s \in Songs, song'[s] \in {"Queued", "Processing"}
             PROVE  \E k \in Jobs : Settles(k)' /\ songOf[k] = s
  BY DEF SongNotAbandoned
<1>2. CASE s = songOf[j] /\ Settles(j)'
  BY <1>2
<1>3. CASE s # songOf[j]
  BY <1>1, <1>3 DEF SongNotAbandoned
<1>4. CASE ~Settles(j) /\ song' = song
  BY <1>1, <1>4 DEF SongNotAbandoned
<1> QED BY <1>2, <1>3, <1>4

\* No song is left Queued or Processing without a live job that will settle
\* it, whatever fails, is cancelled or restarts.
THEOREM SongsSettle == Spec => []SongNotAbandoned
<1>1. Init => SongNotAbandoned
  BY DEF Init, SongNotAbandoned
<1>2. LifeInv /\ SongNotAbandoned /\ [Next]_vars => SongNotAbandoned'
  <2> SUFFICES ASSUME LifeInv, SongNotAbandoned, [Next]_vars PROVE SongNotAbandoned'
    OBVIOUS
  <2>1. CASE UNCHANGED vars
    BY <2>1 DEF SongNotAbandoned, Settles, vars, rows, request, control
  <2>2. ASSUME NEW j \in Jobs, Request(j) PROVE SongNotAbandoned'
    <3>1. process' = process /\ songOf' = songOf
      BY <2>2 DEF Request, LoadSong, LoadReady, LeaseMelody, ClaimSong, PreflightFails,
          MarkQueued, AddJob, SubmitAccepted, SubmitRefused, RestoreStatus, DropLease,
          ReleaseClaim, request, control
    <3> QED BY <2>2, <3>1, RequestSettles, SettlersKept DEF LifeInv
  <2>3. ASSUME NEW j \in Jobs, Worker(j) PROVE SongNotAbandoned'
    <3>1. process' = process /\ songOf' = songOf
      BY <2>3 DEF Worker, Advance, Take, Admit, AdmissionFails, AdmissionCancelled, LeaveTurn,
          Execute, LoadWork, MarkProcessing, CheckCancelled, WorkFails, Publish, PlainWork,
          Unwind, Settle, Succeed, SettleSong, FinishOther, ReleaseOp, ReleaseLease,
          LeaveExecutor, request, control
    <3> QED BY <2>3, <3>1, WorkerSettles, SettlersKept DEF LifeInv
  <2>4. CASE System
    <3>1. ASSUME NEW j \in Jobs, RequestCancel(j) PROVE SongNotAbandoned'
      BY <3>1 DEF RequestCancel, SongNotAbandoned, Settles, request, control
    <3>2. ASSUME NEW j \in Jobs, UpdateSong(j) PROVE SongNotAbandoned'
      <4>1. \A s \in Songs : song'[s] = song[s] \/ song'[s] \notin {"Queued", "Processing"}
        BY <3>2 DEF UpdateSong, SetSong, LifeInv, TypeOK
      <4> QED BY <3>2, <4>1 DEF UpdateSong, SongNotAbandoned, Settles, request, control
    <3>3. CASE BeginRemoval \/ EndRemoval \/ Shutdown
      BY <3>3 DEF BeginRemoval, EndRemoval, Shutdown, SongNotAbandoned, Settles, rows, request
    <3>4. CASE Crash \/ RecoverJobs
      BY <3>4 DEF Crash, RecoverJobs, SongNotAbandoned
    <3>5. CASE RecoverSongs
      <4>1. \A s \in Songs : song'[s] \notin {"Queued", "Processing"}
        BY <3>5 DEF RecoverSongs
      <4> QED BY <4>1 DEF SongNotAbandoned
    <3> QED BY <2>4, <3>1, <3>2, <3>3, <3>4, <3>5 DEF System
  <2> QED BY <2>1, <2>2, <2>3, <2>4 DEF Next
<1> QED BY <1>1, <1>2, LifeInvariant, PTL DEF Spec

-----------------------------------------------------------------------------
(* The leases of the budget and the task table. *)
\* Where a job may hold a lease, and where it must.
MayHold(j) ==
  \/ /\ j \in MelodyJobs
     /\ at[j] \in (OnWorker \ {"Leaving"})
                  \union {"Leased", "Claimed", "Added", "InQueue", "DropLease", "DropLeaseOnly"}
  \/ j \in SongJobs /\ at[j] \in OnWorker \ {"Admission", "Leaving"}

MustHold(j) ==
  \/ /\ j \in MelodyJobs
     /\ at[j] \in Working \union {"Leased", "Claimed", "Added", "InQueue", "Execute"}
  \/ j \in SongJobs /\ at[j] \in {"Admitted"} \union Working
  \/ j \in SongJobs /\ at[j] = "Execute" /\ j \notin cancel

LeaseFits(j) == (j \in lease => MayHold(j)) /\ (MustHold(j) => j \in lease)

\* _tasks holds every job a worker has or will get.
TaskFits(j) == at[j] \in {"InQueue"} \union OnWorker => j \in tasks

WithinBudget == IsFiniteSet(lease) /\ Cardinality(lease) <= Leases

RemovalExcludes == removing => tasks = {}

ResourceInv ==
  /\ WithinBudget /\ RemovalExcludes
  /\ \A j \in Jobs : LeaseFits(j) /\ TaskFits(j)

-----------------------------------------------------------------------------

\* A step of a request keeps the leases and tasks of each job in order.
LEMMA RequestResources ==
  ASSUME LifeInv, ResourceInv, NEW j \in Jobs, Request(j), NEW k \in Jobs
  PROVE  LeaseFits(k)' /\ TaskFits(k)'
<1> USE JobsAssumption DEF LifeInv, TypeOK, PhaseFitsKind, QueueHoldsWaiting, SongPhase,
         MelodyPhase, SharedPhase, ResourceInv, LeaseFits, TaskFits, MayHold, MustHold,
         OnWorker, Working, Over, Jobs, Go, SetJob, rows, queues, request, control
<1>1. CASE LoadSong(j)
  BY <1>1 DEF LoadSong
<1>2. CASE LoadReady(j)
  BY <1>2 DEF LoadReady
<1>3. CASE LeaseMelody(j)
  <2>1. CASE Room
    BY <1>3, <2>1 DEF LeaseMelody
  <2>2. CASE ~Room
    <3>1. lease' = lease /\ at' = [at EXCEPT ![j] = "Refused"]
      BY <1>3, <2>2 DEF LeaseMelody
    <3> QED BY <1>3, <3>1 DEF LeaseMelody
  <2> QED BY <2>1, <2>2
<1>4. CASE ClaimSong(j)
  <2>1. PICK p \in {"Claimed", "Refused", "DropLeaseOnly"} : Go(j, p)
    BY <1>4 DEF ClaimSong
  <2> QED BY <1>4, <2>1 DEF ClaimSong
<1>5. CASE PreflightFails(j)
  BY <1>5 DEF PreflightFails
<1>6. CASE MarkQueued(j)
  BY <1>6 DEF MarkQueued
<1>7. CASE AddJob(j)
  BY <1>7 DEF AddJob
<1>8. CASE SubmitAccepted(j)
  BY <1>8 DEF SubmitAccepted, Accepted
<1>9. CASE SubmitRefused(j)
  BY <1>9 DEF SubmitRefused, Accepted
<1>10. CASE RestoreStatus(j)
  BY <1>10 DEF RestoreStatus
<1>11. CASE DropLease(j)
  BY <1>11 DEF DropLease
<1>12. CASE ReleaseClaim(j)
  BY <1>12 DEF ReleaseClaim
<1> QED BY <1>1, <1>2, <1>3, <1>4, <1>5, <1>6, <1>7, <1>8, <1>9, <1>10, <1>11, <1>12 DEF Request

\* A step of a worker keeps the leases and tasks of each job in order.
LEMMA WorkerResources ==
  ASSUME LifeInv, ResourceInv, NEW j \in Jobs, Worker(j), NEW k \in Jobs
  PROVE  LeaseFits(k)' /\ TaskFits(k)'
<1> USE JobsAssumption DEF LifeInv, TypeOK, PhaseFitsKind, QueueHoldsWaiting, SongPhase,
         MelodyPhase, SharedPhase, ResourceInv, LeaseFits, TaskFits, MayHold, MustHold,
         OnWorker, Working, Over, Jobs, Go, SetJob, rows, queues, request, control
<1>1. CASE Take(j)
  <2>1. 1 \in 1..Len(queue) /\ queue[1] = j
    BY <1>1, HeadTailProperties, EmptySeq DEF Take
  <2> QED BY <1>1, <2>1 DEF Take
<1>2. CASE Admit(j)
  BY <1>2 DEF Admit, AtHead
<1>3. CASE AdmissionFails(j)
  BY <1>3 DEF AdmissionFails, AtHead
<1>4. CASE AdmissionCancelled(j)
  BY <1>4 DEF AdmissionCancelled
<1>5. CASE LeaveTurn(j)
  BY <1>5 DEF LeaveTurn
<1>6. CASE Execute(j)
  BY <1>6 DEF Execute
<1>7. CASE LoadWork(j)
  <2>1. PICK p \in {"Mark", "Raised"} : Go(j, p)
    BY <1>7 DEF LoadWork
  <2> QED BY <1>7, <2>1 DEF LoadWork
<1>8. CASE MarkProcessing(j)
  BY <1>8 DEF MarkProcessing
<1>9. CASE CheckCancelled(j)
  BY <1>9 DEF CheckCancelled
<1>10. CASE WorkFails(j)
  <2>1. PICK p \in {"Raised", "Crashed", "Conflict", "Cancelled"} : Go(j, p)
    BY <1>10 DEF WorkFails
  <2> QED BY <1>10, <2>1 DEF WorkFails
<1>11. CASE Publish(j)
  <2>1. PICK p \in {"Published", "Crashed"} : Go(j, p)
    BY <1>11 DEF Publish
  <2> QED BY <1>11, <2>1 DEF Publish
<1>12. CASE PlainWork(j)
  BY <1>12 DEF PlainWork
<1>13. CASE Unwind(j)
  BY <1>13 DEF Unwind, StatusAfter
<1>14. CASE Settle(j)
  BY <1>14 DEF Settle
<1>15. CASE Succeed(j)
  BY <1>15 DEF Succeed
<1>16. CASE SettleSong(j)
  BY <1>16 DEF SettleSong
<1>17. CASE FinishOther(j)
  BY <1>17 DEF FinishOther
<1>18. CASE ReleaseOp(j)
  BY <1>18 DEF ReleaseOp
<1>19. CASE ReleaseLease(j)
  BY <1>19 DEF ReleaseLease
<1>20. CASE LeaveExecutor(j)
  BY <1>20 DEF LeaveExecutor
<1> QED BY <1>1, <1>2, <1>3, <1>4, <1>5, <1>6, <1>7, <1>8, <1>9, <1>10, <1>11, <1>12, <1>13,
    <1>14, <1>15, <1>16, <1>17, <1>18, <1>19, <1>20 DEF Worker, Advance

\* A lease is added only while the budget has room.
LEMMA LeaseAdded ==
  ASSUME WithinBudget, Room, NEW j
  PROVE  IsFiniteSet(lease \union {j}) /\ Cardinality(lease \union {j}) <= Leases
<1>1. Cardinality(lease) \in Nat
  BY FS_CardinalityType DEF WithinBudget
<1>2. /\ IsFiniteSet(lease \union {j})
      /\ \/ Cardinality(lease \union {j}) = Cardinality(lease)
         \/ Cardinality(lease \union {j}) = Cardinality(lease) + 1
  BY FS_AddElement DEF WithinBudget
<1> QED BY <1>1, <1>2, BoundsAssumption DEF WithinBudget, Room

\* A lease given back leaves a finite set within the budget.
LEMMA LeaseRemoved ==
  ASSUME WithinBudget, NEW j
  PROVE  IsFiniteSet(lease \ {j}) /\ Cardinality(lease \ {j}) <= Leases
<1>1. Cardinality(lease) \in Nat
  BY FS_CardinalityType DEF WithinBudget
<1>2. /\ IsFiniteSet(lease \ {j})
      /\ \/ Cardinality(lease \ {j}) = Cardinality(lease)
         \/ Cardinality(lease \ {j}) = Cardinality(lease) - 1
  BY FS_RemoveElement DEF WithinBudget
<1> QED BY <1>1, <1>2, BoundsAssumption DEF WithinBudget

\* Every step stays within the budget, and starts no removal over a task.
LEMMA BudgetKept ==
  ASSUME LifeInv, ResourceInv, [Next]_vars
  PROVE  WithinBudget' /\ RemovalExcludes'
<1> USE DEF ResourceInv, rows, queues, request, control
<1>1. CASE UNCHANGED vars
  BY <1>1 DEF vars, WithinBudget, RemovalExcludes
<1>2. ASSUME NEW j \in Jobs, Request(j) PROVE WithinBudget' /\ RemovalExcludes'
  <2>1. CASE LeaseMelody(j)
    BY <2>1, LeaseAdded DEF LeaseMelody, WithinBudget, RemovalExcludes
  <2>2. CASE DropLease(j)
    BY <2>2, LeaseRemoved DEF DropLease, WithinBudget, RemovalExcludes
  <2>3. CASE \/ LoadSong(j) \/ LoadReady(j) \/ ClaimSong(j) \/ PreflightFails(j)
            \/ MarkQueued(j) \/ AddJob(j) \/ SubmitAccepted(j) \/ SubmitRefused(j)
            \/ RestoreStatus(j) \/ ReleaseClaim(j)
    BY <2>3 DEF LoadSong, LoadReady, ClaimSong, PreflightFails, MarkQueued, AddJob,
        SubmitAccepted, SubmitRefused, RestoreStatus, ReleaseClaim, WithinBudget,
        RemovalExcludes
  <2> QED BY <1>2, <2>1, <2>2, <2>3 DEF Request
<1>3. ASSUME NEW j \in Jobs, Worker(j) PROVE WithinBudget' /\ RemovalExcludes'
  <2>1. CASE Admit(j)
    BY <2>1, LeaseAdded DEF Admit, WithinBudget, RemovalExcludes
  <2>2. CASE ReleaseLease(j)
    BY <2>2, LeaseRemoved DEF ReleaseLease, WithinBudget, RemovalExcludes
  <2>3. CASE \/ Take(j) \/ AdmissionFails(j) \/ AdmissionCancelled(j) \/ LeaveTurn(j)
            \/ Execute(j) \/ LoadWork(j) \/ MarkProcessing(j) \/ CheckCancelled(j)
            \/ WorkFails(j) \/ Publish(j) \/ PlainWork(j) \/ Unwind(j)
            \/ Settle(j) \/ Succeed(j) \/ SettleSong(j) \/ FinishOther(j)
            \/ ReleaseOp(j) \/ LeaveExecutor(j)
    BY <2>3 DEF Take, AdmissionFails, AdmissionCancelled, LeaveTurn, Execute, LoadWork,
        MarkProcessing, CheckCancelled, WorkFails, Publish, PlainWork, Unwind, Settle,
        Succeed, SettleSong, FinishOther, ReleaseOp, LeaveExecutor, WithinBudget,
        RemovalExcludes
  <2> QED BY <1>3, <2>1, <2>2, <2>3 DEF Worker, Advance
<1>4. CASE System
  <2>1. CASE Crash
    BY <2>1, FS_EmptySet, BoundsAssumption DEF Crash, WithinBudget, RemovalExcludes
  <2>2. CASE ~Crash
    <3>1. lease' = lease /\ tasks' = tasks /\ (removing' => removing \/ tasks = {})
      BY <1>4, <2>2 DEF System, RequestCancel, UpdateSong, BeginRemoval, EndRemoval, Shutdown,
         RecoverJobs, RecoverSongs
    <3> QED BY <3>1 DEF WithinBudget, RemovalExcludes
  <2> QED BY <2>1, <2>2
<1> QED BY <1>1, <1>2, <1>3, <1>4 DEF Next

\* ResourceInv is inductive: leases and tasks always fit the phases of the jobs.
THEOREM ResourceInvariant == Spec => []ResourceInv
<1>1. Init => ResourceInv
  BY FS_EmptySet, BoundsAssumption DEF Init, ResourceInv, WithinBudget, RemovalExcludes,
     LeaseFits, TaskFits, MayHold, MustHold, OnWorker, Working
<1>2. LifeInv /\ ResourceInv /\ [Next]_vars => ResourceInv'
  <2> SUFFICES ASSUME LifeInv, ResourceInv, [Next]_vars, NEW k \in Jobs
               PROVE  LeaseFits(k)' /\ TaskFits(k)'
    BY BudgetKept DEF ResourceInv
  <2>1. CASE UNCHANGED vars
    BY <2>1 DEF ResourceInv, LeaseFits, TaskFits, MayHold, MustHold, vars, queues
  <2>2. ASSUME NEW j \in Jobs, Request(j) PROVE LeaseFits(k)' /\ TaskFits(k)'
    BY <2>2, RequestResources
  <2>3. ASSUME NEW j \in Jobs, Worker(j) PROVE LeaseFits(k)' /\ TaskFits(k)'
    BY <2>3, WorkerResources
  <2>4. CASE System
    <3>1. CASE Crash
      BY <3>1 DEF Crash, LeaseFits, TaskFits, MayHold, MustHold, OnWorker, Working, Over
    <3>2. CASE ~Crash
      <4>1. lease' = lease /\ tasks' = tasks /\ at' = at /\ cancel \subseteq cancel'
        BY <2>4, <3>2 DEF System, RequestCancel, UpdateSong, BeginRemoval, EndRemoval, Shutdown,
           RecoverJobs, RecoverSongs, queues
      <4> QED BY <4>1 DEF ResourceInv, LeaseFits, TaskFits, MayHold, MustHold
    <3> QED BY <3>1, <3>2
  <2> QED BY <2>1, <2>2, <2>3, <2>4 DEF Next
<1> QED BY <1>1, <1>2, LifeInvariant, PTL DEF Spec

\* The budget is never overdrawn, no heavy work runs without a lease, and no
\* lease outlives its job: what a failed request or a dead worker held is back.
THEOREM LeasesCorrect == Spec => []LeasesCoverWork
<1>1. LifeInv /\ ResourceInv => LeasesCoverWork
  BY JobsAssumption DEF LifeInv, TypeOK, ResourceInv, WithinBudget, LeaseFits, MayHold,
      MustHold,
     LeasesCoverWork, Jobs, OnWorker, Working, Over
<1> QED BY <1>1, LifeInvariant, ResourceInvariant, PTL

\* A model is removed only while no worker has, or is about to get, a job.
THEOREM RemovalCorrect == Spec => []RemovalIsQuiet
<1>1. ResourceInv => RemovalIsQuiet
  BY DEF ResourceInv, RemovalExcludes, TaskFits, RemovalIsQuiet
<1> QED BY <1>1, ResourceInvariant, PTL

-----------------------------------------------------------------------------
(* The turns of the admission queue, and the order workers receive jobs in. *)

Holds(s, a) == \E i \in 1..Len(s) : s[i] = a
Before(s, a, b) == \E i, k \in 1..Len(s) : i < k /\ s[i] = a /\ s[k] = b

\* What appending does to who is in a line and who is before whom.
LEMMA AppendTurns ==
  ASSUME NEW S, NEW s \in Seq(S), NEW x \in S
  PROVE  /\ \A a : Holds(Append(s, x), a) <=> Holds(s, a) \/ a = x
         /\ \A a, b : Before(Append(s, x), a, b) <=> Before(s, a, b) \/ (Holds(s, a) /\ b = x)
<1> DEFINE t == Append(s, x)
<1>1. /\ Len(s) \in Nat /\ Len(t) = Len(s) + 1
      /\ \A i \in 1..Len(s) : t[i] = s[i]
      /\ t[Len(s) + 1] = x
  OBVIOUS
<1> HIDE DEF t
<1>2. \A a : Holds(t, a) <=> Holds(s, a) \/ a = x
  <2>1. ASSUME NEW a, Holds(t, a) PROVE Holds(s, a) \/ a = x
    <3>1. PICK i \in 1..Len(t) : t[i] = a
      BY <2>1 DEF Holds
    <3>2. CASE i \in 1..Len(s)
      BY <1>1, <3>1, <3>2 DEF Holds
    <3>3. CASE i = Len(s) + 1
      BY <1>1, <3>1, <3>3
    <3> QED BY <1>1, <3>1, <3>2, <3>3
  <2>2. ASSUME NEW a, Holds(s, a) PROVE Holds(t, a)
    <3>1. PICK i \in 1..Len(s) : s[i] = a
      BY <2>2 DEF Holds
    <3>2. i \in 1..Len(t) /\ t[i] = a
      BY <1>1, <3>1
    <3> QED BY <3>2 DEF Holds
  <2>3. Holds(t, x)
    <3>1. Len(s) + 1 \in 1..Len(t)
      BY <1>1
    <3> QED BY <1>1, <3>1 DEF Holds
  <2> QED BY <2>1, <2>2, <2>3
<1>3. \A a, b : Before(t, a, b) <=> Before(s, a, b) \/ (Holds(s, a) /\ b = x)
  <2>1. ASSUME NEW a, NEW b, Before(t, a, b) PROVE Before(s, a, b) \/ (Holds(s, a) /\ b = x)
    <3>1. PICK i \in 1..Len(t), k \in 1..Len(t) : i < k /\ t[i] = a /\ t[k] = b
      BY <2>1 DEF Before
    <3>2. i \in 1..Len(s)
      BY <1>1, <3>1
    <3>3. CASE k \in 1..Len(s)
      BY <1>1, <3>1, <3>2, <3>3 DEF Before
    <3>4. CASE k = Len(s) + 1
      BY <1>1, <3>1, <3>2, <3>4 DEF Holds
    <3> QED BY <1>1, <3>1, <3>3, <3>4
  <2>2. ASSUME NEW a, NEW b, Before(s, a, b) PROVE Before(t, a, b)
    <3>1. PICK i \in 1..Len(s), k \in 1..Len(s) : i < k /\ s[i] = a /\ s[k] = b
      BY <2>2 DEF Before
    <3>2. i \in 1..Len(t) /\ k \in 1..Len(t) /\ t[i] = a /\ t[k] = b
      BY <1>1, <3>1
    <3> QED BY <3>1, <3>2 DEF Before
  <2>3. ASSUME NEW a, Holds(s, a) PROVE Before(t, a, x)
    <3>1. PICK i \in 1..Len(s) : s[i] = a
      BY <2>3 DEF Holds
    <3>2. i \in 1..Len(t) /\ Len(s) + 1 \in 1..Len(t) /\ i < Len(s) + 1 /\ t[i] = a
      BY <1>1, <3>1
    <3> QED BY <1>1, <3>2 DEF Before
  <2> QED BY <2>1, <2>2, <2>3
<1> QED BY <1>2, <1>3 DEF t

\* What taking an element out does.
LEMMA WithoutTurns ==
  ASSUME NEW S, NEW s \in Seq(S), NEW x, \A a : ~Before(s, a, a)
  PROVE  /\ \A a : Holds(Without(s, x), a) <=> Holds(s, a) /\ a # x
         /\ \A a, b : Before(Without(s, x), a, b) => Before(s, a, b)
<1>1. CASE ~Holds(s, x)
  <2>1. Without(s, x) = s
    BY <1>1 DEF Holds, Without
  <2> QED BY <1>1, <2>1
<1>2. CASE Holds(s, x)
  <2> DEFINE p == CHOOSE i \in 1..Len(s) : s[i] = x
             t == Without(s, x)
             From(i) == IF i < p THEN i ELSE i + 1
  <2>1. p \in 1..Len(s) /\ s[p] = x
    BY <1>2 DEF Holds
  <2>2. t = SubSeq(s, 1, p-1) \o SubSeq(s, p+1, Len(s))
    BY <1>2 DEF Without, Holds
  <2> HIDE DEF p, t
  <2>3. Len(s) \in Nat
    OBVIOUS
  <2>4. Len(t) = Len(s) - 1 /\ \A i \in 1..Len(t) : t[i] = s[From(i)]
    <3> DEFINE left == SubSeq(s, 1, p-1)
               right == SubSeq(s, p+1, Len(s))
    <3>1. /\ left \in Seq(S) /\ Len(left) = p - 1
          /\ \A i \in 1..(p - 1) : left[i] = s[i]
      BY <2>1
    <3>2. /\ right \in Seq(S) /\ Len(right) = Len(s) - p
          /\ \A i \in 1..(Len(s) - p) : right[i] = s[p + i]
      BY <2>1
    <3> HIDE DEF left, right
    <3>3. t = left \o right
      BY <2>2 DEF left, right
    <3>4. Len(t) = Len(s) - 1
      BY <2>1, <2>3, <3>1, <3>2, <3>3
    <3>5. ASSUME NEW i \in 1..(Len(s) - 1) PROVE t[i] = s[From(i)]
      <4>1. CASE i < p
        BY <2>1, <2>3, <3>1, <3>2, <3>3, <4>1
      <4>2. CASE ~(i < p)
        <5>1. t[i] = right[i - (p - 1)]
          BY <2>1, <2>3, <3>1, <3>2, <3>3, <4>2
        <5>2. i - (p - 1) \in 1..(Len(s) - p) /\ p + (i - (p - 1)) = i + 1
          BY <2>1, <2>3, <4>2
        <5> QED BY <3>2, <4>2, <5>1, <5>2
      <4> QED BY <4>1, <4>2
    <3> QED BY <3>4, <3>5
  <2>5. \A i \in 1..Len(t) : From(i) \in 1..Len(s) /\ From(i) # p
    BY <2>1, <2>3, <2>4
  <2>6. \A i, k \in 1..Len(t) : i < k => From(i) < From(k)
    BY <2>1, <2>3, <2>4
  <2>7. \A i \in 1..Len(s) : i # p => \E k \in 1..Len(t) : From(k) = i
    <3> SUFFICES ASSUME NEW i \in 1..Len(s), i # p PROVE \E k \in 1..Len(t) : From(k) = i
      OBVIOUS
    <3>1. CASE i < p
      <4>1. i \in 1..Len(t) /\ From(i) = i
        BY <2>1, <2>3, <2>4, <3>1
      <4> QED BY <4>1
    <3>2. CASE i > p
      <4>1. i - 1 \in 1..Len(t) /\ From(i - 1) = i
        BY <2>1, <2>3, <2>4, <3>2
      <4> QED BY <4>1
    <3> QED BY <2>1, <2>3, <3>1, <3>2
  <2> HIDE DEF From
  <2>8. \A i \in 1..Len(s) : s[i] = x => i = p
    <3> SUFFICES ASSUME NEW i \in 1..Len(s), s[i] = x, i # p PROVE FALSE
      OBVIOUS
    <3>1. i < p \/ p < i
      BY <2>1
    <3>2. Before(s, x, x)
      BY <2>1, <3>1 DEF Before
    <3> QED BY <3>2
  <2>9. ASSUME NEW a PROVE Holds(t, a) <=> Holds(s, a) /\ a # x
    <3>1. ASSUME Holds(t, a) PROVE Holds(s, a) /\ a # x
      <4>1. PICK i \in 1..Len(t) : t[i] = a
        BY <3>1 DEF Holds
      <4>2. From(i) \in 1..Len(s) /\ From(i) # p /\ s[From(i)] = a
        BY <2>4, <2>5, <4>1
      <4> QED BY <2>8, <4>2 DEF Holds
    <3>2. ASSUME Holds(s, a), a # x PROVE Holds(t, a)
      <4>1. PICK i \in 1..Len(s) : s[i] = a
        BY <3>2 DEF Holds
      <4>2. PICK k \in 1..Len(t) : From(k) = i
        BY <2>1, <2>7, <3>2, <4>1
      <4> QED BY <2>4, <4>1, <4>2 DEF Holds
    <3> QED BY <3>1, <3>2
  <2>10. ASSUME NEW a, NEW b, Before(t, a, b) PROVE Before(s, a, b)
    <3>1. PICK i \in 1..Len(t), k \in 1..Len(t) : i < k /\ t[i] = a /\ t[k] = b
      BY <2>10 DEF Before
    <3> QED BY <2>4, <2>5, <2>6, <3>1 DEF Before
  <2> QED BY <2>9, <2>10 DEF t
<1> QED BY <1>1, <1>2

\* What taking the head off does.
LEMMA TailTurns ==
  ASSUME NEW S, NEW s \in Seq(S), s # <<>>
  PROVE  /\ \A a : Holds(s, a) /\ a # Head(s) => Holds(Tail(s), a)
         /\ \A a, b : Before(s, a, b) /\ a # Head(s) => Before(Tail(s), a, b)
         /\ \A a, b : Before(s, a, b) => Holds(Tail(s), b)
<1>1. /\ Len(s) \in Nat /\ Len(s) >= 1 /\ Len(Tail(s)) = Len(s) - 1 /\ Head(s) = s[1]
      /\ \A i \in 1..(Len(s) - 1) : Tail(s)[i] = s[i + 1]
  OBVIOUS
<1>2. ASSUME NEW i \in 1..Len(s), i # 1
      PROVE  i - 1 \in 1..Len(Tail(s)) /\ Tail(s)[i - 1] = s[i]
  BY <1>1, <1>2
<1>3. ASSUME NEW a, Holds(s, a), a # Head(s) PROVE Holds(Tail(s), a)
  BY <1>1, <1>2, <1>3 DEF Holds
<1>4. ASSUME NEW a, NEW b, Before(s, a, b) PROVE Holds(Tail(s), b)
  <2>1. PICK i \in 1..Len(s), k \in 1..Len(s) : i < k /\ s[i] = a /\ s[k] = b
    BY <1>4 DEF Before
  <2>2. k # 1
    BY <1>1, <2>1
  <2> QED BY <1>2, <2>1, <2>2 DEF Holds
<1>5. ASSUME NEW a, NEW b, Before(s, a, b), a # Head(s) PROVE Before(Tail(s), a, b)
  <2>1. PICK i \in 1..Len(s), k \in 1..Len(s) : i < k /\ s[i] = a /\ s[k] = b
    BY <1>5 DEF Before
  <2>2. i # 1 /\ k # 1 /\ i - 1 < k - 1
    BY <1>1, <1>5, <2>1
  <2>3. /\ i - 1 \in 1..Len(Tail(s)) /\ Tail(s)[i - 1] = a
        /\ k - 1 \in 1..Len(Tail(s)) /\ Tail(s)[k - 1] = b
    BY <1>2, <2>1, <2>2
  <2> QED BY <2>2, <2>3 DEF Before
<1> QED BY <1>3, <1>4, <1>5

-----------------------------------------------------------------------------
\* Where a song job is while it has its turn.
HasTurn == {"Added", "InQueue"} \union
           (OnWorker \ {"Settling", "ReleasingOp", "ReleasingLease", "Leaving"})

\* One job's turn: it is in the line from the moment it is added until it leaves, and the
\* one that is being added holds _admission_changed.
TurnFits(j) ==
  /\ Holds(waiting, j) => j \in SongJobs /\ at[j] \in HasTurn
  /\ j \in SongJobs /\ at[j] \in {"Added", "InQueue", "Admission", "Admitted"} => Holds(waiting, j)
  /\ j \in SongJobs /\ at[j] = "Added" => admLock = j
  /\ at[j] = "InQueue" => Holds(queue, j)
  /\ ~Before(waiting, j, j)

\* Two jobs' turns: the one before is no later in the executor's queue.
OrderFits(a, b) ==
  Before(waiting, a, b) =>
    /\ at[a] # "Added"
    /\ at[b] \in OnWorker => at[a] \in OnWorker
    /\ at[a] = "InQueue" /\ at[b] = "InQueue" => Before(queue, a, b)

TurnInv == \A a, b \in Jobs : TurnFits(a) /\ OrderFits(a, b)

\* Only jobs are in the line.
LEMMA InLine ==
  ASSUME TypeOK
  PROVE  /\ \A a : Holds(waiting, a) => a \in Jobs
         /\ \A a, b : Before(waiting, a, b) => Holds(waiting, a) /\ Holds(waiting, b)
         /\ \A a, b : Before(waiting, a, b) => a \in Jobs /\ b \in Jobs
<1>1. waiting \in Seq(Jobs)
  BY DEF TypeOK
<1> QED BY <1>1, ElementOfSeq DEF Holds, Before

\* A step that leaves the line and the queue alone, and moves a job outside them or on along
\* the way of a job that has its turn.
LEMMA QuietTurns ==
  ASSUME TypeOK, TurnInv, NEW j \in Jobs, NEW p, Go(j, p),
         UNCHANGED <<waiting, queue, admLock>>,
         at[j] \notin {"Added", "InQueue"}, p \notin {"Added", "InQueue"},
         p \in {"Admission", "Admitted"} => at[j] = "Admission",
         j \in SongJobs /\ at[j] \in HasTurn => p \in HasTurn
  PROVE  TurnInv'
<1>1. ASSUME NEW a \in Jobs PROVE TurnFits(a)'
  <2>1. TurnFits(a)
    BY DEF TurnInv
  <2> QED BY <2>1 DEF TurnFits, Go, TypeOK, Holds, Before
<1>2. ASSUME NEW a \in Jobs, NEW b \in Jobs PROVE OrderFits(a, b)'
  <2>1. TurnFits(a) /\ TurnFits(b) /\ OrderFits(a, b)
    BY DEF TurnInv
  <2>2. Before(waiting, a, b) => Holds(waiting, a) /\ Holds(waiting, b)
    BY InLine
  <2>3. Before(waiting, a, b)' = Before(waiting, a, b) /\ Before(queue, a, b)' = Before(queue, a, b)
    BY DEF Before
  <2>4. j \in SongJobs /\ at[j] \in HasTurn => at[j] \in OnWorker /\ p \in OnWorker
    BY DEF HasTurn
  <2> QED BY <2>1, <2>2, <2>3, <2>4 DEF OrderFits, TurnFits, Go, TypeOK
<1> QED BY <1>1, <1>2 DEF TurnInv

\* A job that is added gets the last turn.
LEMMA AddTurns ==
  ASSUME LifeInv, TurnInv, NEW j \in Jobs, AddJob(j)
  PROVE  TurnInv'
<1> USE JobsAssumption DEF LifeInv
<1>0. /\ Go(j, "Added") /\ queue' = queue /\ at[j] \in {"Marked", "Claimed", "Idle"}
      /\ waiting \in Seq(Jobs)
  BY DEF AddJob, TypeOK
<1>1. CASE j \in SongJobs
  <2>1. waiting' = Append(waiting, j) /\ admLock = NoJob /\ admLock' = j
    BY <1>1 DEF AddJob
  <2>2. /\ \A a : Holds(waiting', a) <=> Holds(waiting, a) \/ a = j
        /\ \A a, b : Before(waiting', a, b) <=> Before(waiting, a, b) \/ (Holds(waiting, a) /\ b = j)
    BY <1>0, <2>1, AppendTurns
  <2>3. ~Holds(waiting, j)
    BY <1>0 DEF TurnInv, TurnFits, HasTurn, OnWorker, Working
  <2>4. \A a \in Jobs : a \in SongJobs => at[a] # "Added"
    BY <2>1 DEF TurnInv, TurnFits, Jobs
  <2>5. ASSUME NEW a \in Jobs PROVE TurnFits(a)'
    <3>1. TurnFits(a)
      BY DEF TurnInv
    <3>2. Holds(queue, a)' = Holds(queue, a)
      BY <1>0 DEF Holds
    <3> QED BY <1>0, <1>1, <2>1, <2>2, <2>3, <2>4, <3>1, <3>2 DEF TurnFits, Go, TypeOK, HasTurn
  <2>6. ASSUME NEW a \in Jobs, NEW b \in Jobs PROVE OrderFits(a, b)'
    <3>1. TurnFits(a) /\ TurnFits(b) /\ OrderFits(a, b)
      BY DEF TurnInv
    <3>2. Before(waiting, a, b) => Holds(waiting, a) /\ Holds(waiting, b)
      BY InLine
    <3>3. Before(queue, a, b)' = Before(queue, a, b)
      BY <1>0 DEF Before
    <3>4. "Added" \notin OnWorker
      BY DEF OnWorker, Working
    <3> QED BY <1>0, <2>2, <2>3, <2>4, <3>1, <3>2, <3>3, <3>4 DEF OrderFits, TurnFits, Go,
         TypeOK
  <2> QED BY <2>5, <2>6 DEF TurnInv
<1>2. CASE j \notin SongJobs
  <2>1. UNCHANGED <<waiting, admLock>>
    BY <1>2 DEF AddJob
  <2>2. ~Holds(waiting, j)
    BY <1>2 DEF TurnInv, TurnFits
  <2>3. ASSUME NEW a \in Jobs PROVE TurnFits(a)'
    <3>1. TurnFits(a)
      BY DEF TurnInv
    <3> QED BY <1>0, <1>2, <2>1, <3>1 DEF TurnFits, Go, TypeOK, Holds, Before
  <2>4. ASSUME NEW a \in Jobs, NEW b \in Jobs PROVE OrderFits(a, b)'
    <3>1. OrderFits(a, b)
      BY DEF TurnInv
    <3>2. Before(waiting, a, b) => Holds(waiting, a) /\ Holds(waiting, b)
      BY InLine
    <3>3. Before(waiting, a, b)' = Before(waiting, a, b) /\ Before(queue, a, b)' = Before(queue, a, b)
      BY <1>0, <2>1 DEF Before
    <3> QED BY <1>0, <2>2, <3>1, <3>2, <3>3 DEF OrderFits, Go, TypeOK
  <2> QED BY <2>3, <2>4 DEF TurnInv
<1> QED BY <1>1, <1>2

\* A job that is submitted joins the executor's queue after those whose turn is before its own.
LEMMA SubmitTurns ==
  ASSUME LifeInv, TurnInv, NEW j \in Jobs, SubmitAccepted(j)
  PROVE  TurnInv'
<1> USE JobsAssumption DEF LifeInv
<1>0. /\ Go(j, "InQueue") /\ waiting' = waiting /\ at[j] = "Added"
      /\ queue' = Append(queue, j) /\ queue \in Seq(Jobs)
      /\ admLock' = IF j \in SongJobs THEN NoJob ELSE admLock
  BY DEF SubmitAccepted, TypeOK
<1>1. /\ \A a : Holds(queue', a) <=> Holds(queue, a) \/ a = j
      /\ \A a, b : Before(queue', a, b) <=> Before(queue, a, b) \/ (Holds(queue, a) /\ b = j)
  BY <1>0, AppendTurns
<1>2. ASSUME NEW a \in Jobs PROVE TurnFits(a)'
  <2>1. TurnFits(a) /\ TurnFits(j)
    BY DEF TurnInv
  <2>2. Holds(waiting, a)' = Holds(waiting, a) /\ Before(waiting, a, a)' = Before(waiting, a, a)
    BY <1>0 DEF Holds, Before
  <2> QED BY <1>0, <1>1, <2>1, <2>2 DEF TurnFits, Go, TypeOK, HasTurn
<1>3. ASSUME NEW a \in Jobs, NEW b \in Jobs PROVE OrderFits(a, b)'
  <2>1. TurnFits(a) /\ TurnFits(b) /\ TurnFits(j) /\ OrderFits(a, b)
    BY DEF TurnInv
  <2>2. Before(waiting, a, b)' = Before(waiting, a, b)
    BY <1>0 DEF Before
  <2>3. "InQueue" \notin OnWorker /\ "Added" # "InQueue"
    BY DEF OnWorker, Working
  <2> QED BY <1>0, <1>1, <2>1, <2>2, <2>3 DEF OrderFits, TurnFits, Go, TypeOK
<1> QED BY <1>2, <1>3 DEF TurnInv

\* A step that takes j out of the line.
LEMMA LeftTurns ==
  ASSUME TypeOK, TurnInv, NEW j \in SongJobs, NEW p, Go(j, p), j \in Jobs,
         waiting' = Without(waiting, j), queue' = queue,
         p \notin {"Added", "InQueue", "Admission", "Admitted"},
         \A a \in SongJobs \ {j} : at[a] = "Added" => admLock' = a
  PROVE  TurnInv'
<1>0. waiting \in Seq(Jobs) /\ \A a : ~Before(waiting, a, a)
  <2>1. ASSUME NEW a, Before(waiting, a, a) PROVE FALSE
    BY <2>1, InLine DEF TurnInv, TurnFits
  <2> QED BY <2>1 DEF TypeOK
<1>1. /\ \A a : Holds(waiting', a) <=> Holds(waiting, a) /\ a # j
      /\ \A a, b : Before(waiting', a, b) => Before(waiting, a, b)
  BY <1>0, WithoutTurns
<1>2. ASSUME NEW a \in Jobs PROVE TurnFits(a)'
  <2>1. TurnFits(a)
    BY DEF TurnInv
  <2>2. Holds(queue, a)' = Holds(queue, a)
    BY DEF Holds
  <2> QED BY <1>1, <2>1, <2>2 DEF TurnFits, Go, TypeOK
<1>3. ASSUME NEW a \in Jobs, NEW b \in Jobs PROVE OrderFits(a, b)'
  <2>1. OrderFits(a, b)
    BY DEF TurnInv
  <2>2. Before(queue, a, b)' = Before(queue, a, b)
    BY DEF Before
  <2>3. Before(waiting', a, b) => Holds(waiting', a) /\ Holds(waiting', b)
    BY DEF Before, Holds
  <2> QED BY <1>1, <2>1, <2>2, <2>3 DEF OrderFits, Go, TypeOK
<1> QED BY <1>2, <1>3 DEF TurnInv

\* A worker takes the job at the head of the queue, so none of those before it still waits there.
LEMMA TakeTurns ==
  ASSUME LifeInv, TurnInv, NEW j \in Jobs, Take(j)
  PROVE  TurnInv'
<1> USE DEF LifeInv
<1> DEFINE p == IF j \in SongJobs THEN "Admission" ELSE "Execute"
<1>0. /\ queue \in Seq(Jobs) /\ queue # <<>> /\ Head(queue) = j /\ queue' = Tail(queue)
      /\ waiting' = waiting /\ admLock' = admLock /\ Go(j, p)
  BY DEF Take, TypeOK
<1>1. Len(queue) \in Nat /\ Len(queue) >= 1 /\ queue[1] = j /\ Len(Tail(queue)) = Len(queue) - 1
      /\ \A i \in 1..(Len(queue) - 1) : Tail(queue)[i] = queue[i + 1]
  BY <1>0
<1>2. at[j] = "InQueue" /\ ~Holds(Tail(queue), j)
  <2>1. 1 \in 1..Len(queue)
    BY <1>1
  <2>2. ASSUME NEW i \in 1..Len(Tail(queue)), Tail(queue)[i] = j PROVE FALSE
    <3>1. i + 1 \in 1..Len(queue) /\ queue[i + 1] = queue[1] /\ i + 1 # 1
      BY <1>1, <2>2
    <3> QED BY <2>1, <3>1 DEF QueueHoldsWaiting
  <2> QED BY <1>1, <2>1, <2>2 DEF QueueHoldsWaiting, Holds
<1>3. /\ \A a : Holds(queue, a) /\ a # j => Holds(queue', a)
      /\ \A a, b : Before(queue, a, b) /\ a # j => Before(queue', a, b)
      /\ \A a : ~Before(queue, a, j)
  BY <1>0, <1>2, TailTurns
<1>4. p \in HasTurn \cap OnWorker /\ "InQueue" \notin OnWorker
  BY DEF HasTurn, OnWorker, Working
<1>5. ASSUME NEW a \in Jobs PROVE TurnFits(a)'
  <2>1. TurnFits(a)
    BY DEF TurnInv
  <2>2. Holds(waiting, a)' = Holds(waiting, a) /\ Before(waiting, a, a)' = Before(waiting, a, a)
    BY <1>0 DEF Holds, Before
  <2>3. p \notin {"Added", "InQueue"}
    OBVIOUS
  <2>4. Holds(queue, a)' = Holds(queue', a)
    BY DEF Holds
  <2> HIDE DEF p
  <2> QED BY <1>0, <1>2, <1>3, <1>4, <2>1, <2>2, <2>3, <2>4 DEF TurnFits, Go, TypeOK
<1>6. ASSUME NEW a \in Jobs, NEW b \in Jobs PROVE OrderFits(a, b)'
  <2>1. TurnFits(a) /\ TurnFits(b) /\ OrderFits(a, b)
    BY DEF TurnInv
  <2>2. Before(waiting, a, b)' = Before(waiting, a, b) /\ Before(queue, a, b)' = Before(queue', a, b)
    BY <1>0 DEF Before
  <2>3. Before(waiting, a, b) => Holds(waiting, a) /\ Holds(waiting, b)
    BY InLine
  <2>4. p \notin {"Added", "InQueue"}
    OBVIOUS
  <2>5. at[a] \in HasTurn => at[a] \in {"Added", "InQueue"} \/ at[a] \in OnWorker
    BY DEF HasTurn
  <2>6. at' = [at EXCEPT ![j] = p]
    BY <1>0 DEF Go
  <2> HIDE DEF p
  <2>7. CASE b = j
    BY <1>2, <1>3, <1>4, <2>1, <2>2, <2>3, <2>4, <2>5, <2>6, <2>7 DEF OrderFits, TurnFits,
         TypeOK
  <2>8. CASE b # j
    BY <1>2, <1>3, <1>4, <2>1, <2>2, <2>3, <2>4, <2>5, <2>6, <2>8 DEF OrderFits, TurnFits,
         TypeOK
  <2> QED BY <2>7, <2>8
<1> QED BY <1>5, <1>6 DEF TurnInv

\* An empty line is in order.
LEMMA NoTurns ==
  ASSUME waiting = <<>>, admLock = NoJob, \A j \in Jobs : at[j] \in {"Idle"} \union Over
  PROVE  TurnInv
<1>1. Len(<<>>) = 0 /\ 1..0 = {}
  OBVIOUS
<1>2. \A a, b : ~Holds(waiting, a) /\ ~Before(waiting, a, b)
  BY <1>1 DEF Holds, Before
<1> QED BY <1>2 DEF TurnInv, TurnFits, OrderFits, Over

\* A step of a request keeps the turns in order.
LEMMA RequestTurns ==
  ASSUME LifeInv, TurnInv, NEW j \in Jobs, Request(j)
  PROVE  TurnInv'
<1> USE JobsAssumption DEF LifeInv, PhaseFitsKind, SongPhase, MelodyPhase, SharedPhase
<1> USE DEF HasTurn, OnWorker, Working, rows, queues, request, control
<1>1. CASE LoadSong(j)
  BY <1>1, QuietTurns DEF LoadSong
<1>2. CASE LoadReady(j)
  BY <1>2, QuietTurns DEF LoadReady
<1>3. CASE LeaseMelody(j)
  BY <1>3, QuietTurns DEF LeaseMelody
<1>4. CASE ClaimSong(j)
  BY <1>4, QuietTurns DEF ClaimSong
<1>5. CASE PreflightFails(j)
  BY <1>5, QuietTurns DEF PreflightFails
<1>6. CASE MarkQueued(j)
  BY <1>6, QuietTurns DEF MarkQueued
<1>7. CASE AddJob(j)
  BY <1>7, AddTurns
<1>8. CASE SubmitAccepted(j)
  BY <1>8, SubmitTurns
<1>9. CASE SubmitRefused(j)
  <2>1. CASE j \in SongJobs
    <3>1. \A a \in SongJobs \ {j} : at[a] # "Added"
      BY <1>9, <2>1 DEF SubmitRefused, TurnInv, TurnFits, Jobs
    <3> QED BY <1>9, <2>1, <3>1, LeftTurns DEF SubmitRefused
  <2>2. CASE j \notin SongJobs
    <3>1. /\ UNCHANGED <<waiting, queue, admLock>> /\ at[j] = "Added"
          /\ at' = [at EXCEPT ![j] = IF j \in MelodyJobs THEN "DropLease" ELSE "Refused"]
      BY <1>9, <2>2 DEF SubmitRefused, Go
    <3>2. ~Holds(waiting, j)
      BY <2>2 DEF TurnInv, TurnFits
    <3>3. ASSUME NEW a \in Jobs PROVE TurnFits(a)'
      <4>1. TurnFits(a)
        BY DEF TurnInv
      <4> QED BY <2>2, <3>1, <4>1 DEF TurnFits, TypeOK, Holds, Before
    <3>4. ASSUME NEW a \in Jobs, NEW b \in Jobs PROVE OrderFits(a, b)'
      <4>1. OrderFits(a, b)
        BY DEF TurnInv
      <4>2. Before(waiting, a, b) => Holds(waiting, a) /\ Holds(waiting, b)
        BY InLine
      <4>3. Before(waiting, a, b)' = Before(waiting, a, b) /\ Before(queue, a, b)' = Before(queue, a, b)
        BY <3>1 DEF Before
      <4> QED BY <3>1, <3>2, <4>1, <4>2, <4>3 DEF OrderFits, TypeOK
    <3> QED BY <3>3, <3>4 DEF TurnInv
  <2> QED BY <2>1, <2>2
<1>10. CASE RestoreStatus(j)
  BY <1>10, QuietTurns DEF RestoreStatus
<1>11. CASE DropLease(j)
  BY <1>11, QuietTurns DEF DropLease
<1>12. CASE ReleaseClaim(j)
  BY <1>12, QuietTurns DEF ReleaseClaim
<1> QED BY <1>1, <1>2, <1>3, <1>4, <1>5, <1>6, <1>7, <1>8, <1>9, <1>10, <1>11, <1>12 DEF Request

\* A step of a worker keeps the turns in order.
LEMMA WorkerTurns ==
  ASSUME LifeInv, TurnInv, NEW j \in Jobs, Worker(j)
  PROVE  TurnInv'
<1> USE JobsAssumption DEF LifeInv, PhaseFitsKind, SongPhase, MelodyPhase, SharedPhase
<1> USE DEF HasTurn, OnWorker, Working, rows, queues, request, control
<1>1. CASE Take(j)
  BY <1>1, TakeTurns
<1>2. CASE LeaveTurn(j)
  <2>1. \A a \in SongJobs \ {j} : at[a] # "Added"
    BY <1>2 DEF LeaveTurn, TurnInv, TurnFits, Jobs
  <2> QED BY <1>2, <2>1, LeftTurns DEF LeaveTurn
<1>3. CASE Admit(j)
  BY <1>3, QuietTurns DEF Admit
<1>4. CASE AdmissionFails(j)
  BY <1>4, QuietTurns DEF AdmissionFails
<1>5. CASE AdmissionCancelled(j)
  BY <1>5, QuietTurns DEF AdmissionCancelled
<1>6. CASE Execute(j)
  BY <1>6, QuietTurns DEF Execute
<1>7. CASE LoadWork(j)
  BY <1>7, QuietTurns DEF LoadWork
<1>8. CASE MarkProcessing(j)
  BY <1>8, QuietTurns DEF MarkProcessing
<1>9. CASE CheckCancelled(j)
  BY <1>9, QuietTurns DEF CheckCancelled
<1>10. CASE WorkFails(j)
  BY <1>10, QuietTurns DEF WorkFails
<1>11. CASE Publish(j)
  BY <1>11, QuietTurns DEF Publish
<1>12. CASE PlainWork(j)
  BY <1>12, QuietTurns DEF PlainWork
<1>13. CASE Unwind(j)
  BY <1>13, QuietTurns DEF Unwind
<1>14. CASE Settle(j)
  BY <1>14, QuietTurns DEF Settle
<1>15. CASE Succeed(j)
  BY <1>15, QuietTurns DEF Succeed
<1>16. CASE SettleSong(j)
  BY <1>16, QuietTurns DEF SettleSong
<1>17. CASE FinishOther(j)
  BY <1>17, QuietTurns DEF FinishOther
<1>18. CASE ReleaseOp(j)
  BY <1>18, QuietTurns DEF ReleaseOp
<1>19. CASE ReleaseLease(j)
  BY <1>19, QuietTurns DEF ReleaseLease
<1>20. CASE LeaveExecutor(j)
  BY <1>20, QuietTurns DEF LeaveExecutor
<1> QED BY <1>1, <1>2, <1>3, <1>4, <1>5, <1>6, <1>7, <1>8, <1>9, <1>10, <1>11, <1>12, <1>13,
           <1>14, <1>15, <1>16, <1>17, <1>18, <1>19, <1>20 DEF Worker, Advance

\* A cancellation, a removal, a shutdown, a crash and the recovery keep them too.
LEMMA SystemTurns ==
  ASSUME LifeInv, TurnInv, System
  PROVE  TurnInv'
<1>1. CASE Crash
  <2>1. waiting' = <<>> /\ admLock' = NoJob /\ \A j \in Jobs : at'[j] \in {"Idle"} \union Over
    BY <1>1 DEF Crash, Over
  <2> HIDE DEF Crash
  <2>2. Len(<<>>) = 0 /\ 1..0 = {}
    OBVIOUS
  <2>3. \A a, b : ~Holds(waiting, a)' /\ ~Before(waiting, a, b)'
    BY <2>1, <2>2 DEF Holds, Before
  <2> QED BY <2>1, <2>3 DEF TurnInv, TurnFits, OrderFits, Over
<1>2. CASE UNCHANGED <<at, waiting, queue, admLock>>
  BY <1>2 DEF TurnInv, TurnFits, OrderFits, Holds, Before
<1> QED BY <1>1, <1>2 DEF System, RequestCancel, UpdateSong, BeginRemoval, EndRemoval, Shutdown,
        RecoverJobs, RecoverSongs, queues

\* TurnInv is inductive, next to LifeInv.
THEOREM TurnInvariant == Spec => []TurnInv
<1>1. Init => TurnInv
  BY NoTurns DEF Init
<1>2. LifeInv /\ TurnInv /\ [Next]_vars => TurnInv'
  <2> SUFFICES ASSUME LifeInv, TurnInv, [Next]_vars PROVE TurnInv'
    OBVIOUS
  <2>1. CASE UNCHANGED vars
    BY <2>1 DEF TurnInv, TurnFits, OrderFits, Holds, Before, vars, queues
  <2> QED BY <2>1, RequestTurns, WorkerTurns, SystemTurns DEF Next
<1> QED BY <1>1, <1>2, LifeInvariant, PTL DEF Spec

\* "Register the turn in the same order in which workers receive their jobs": no worker waits
\* behind a turn whose job still needs a worker, so the workers never all wait for a job that
\* none of them can take (start_processing.py).
THEOREM TurnsKeepOrder == Spec => []TurnsFollowTheQueue
<1>1. LifeInv /\ TurnInv => TurnsFollowTheQueue
  <2> SUFFICES ASSUME LifeInv, TurnInv, NEW i \in 1..Len(waiting), NEW k \in 1..Len(waiting),
                      i < k, at[waiting[k]] \in OnWorker
               PROVE  at[waiting[i]] \in OnWorker
    BY DEF TurnsFollowTheQueue
  <2>1. waiting[i] \in Jobs /\ waiting[k] \in Jobs
    BY ElementOfSeq DEF LifeInv, TypeOK
  <2>2. Before(waiting, waiting[i], waiting[k])
    BY DEF Before
  <2> QED BY <2>1, <2>2 DEF TurnInv, OrderFits
<1> QED BY <1>1, LifeInvariant, TurnInvariant, PTL

\* A worker in the admission loop finds its turn in the line, so reading the head of the line
\* never fails.
THEOREM TurnsRegistered == Spec => []TurnIsRegistered
<1>1. LifeInv /\ TurnInv => TurnIsRegistered
  BY DEF LifeInv, PhaseFitsKind, SongPhase, TurnInv, TurnFits, Holds, TurnIsRegistered
<1> QED BY <1>1, LifeInvariant, TurnInvariant, PTL
=============================================================================
