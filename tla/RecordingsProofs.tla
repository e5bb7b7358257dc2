-------------------------- MODULE RecordingsProofs --------------------------
(***************************************************************************)
(* Proofs about Recordings, for any number of requests, crashes and failed *)
(* transactions: captured audio is never lost, a take nobody registered    *)
(* keeps the descriptor it is found by, and removals meet no job.          *)
(***************************************************************************)
EXTENDS Recordings, TLAPS

Files == {"none", "empty", "captured", "final"}
\* What folders are closed under.
LEMMA FolderKinds ==
  /\ Nothing \in Folders
  /\ [file : Files, descriptor : BOOLEAN] \subseteq Folders
  /\ \A f \in Folders : f # Nothing => f.file \in Files
  /\ \A f \in Folders : Undescribed(f) \in Folders
  /\ \A f \in Folders, file \in Files : f.file \in Files => [f EXCEPT !.file = file] \in Folders
<1>1. \A f \in Folders : f = Nothing \/ f \in [file : Files, descriptor : BOOLEAN]
  BY DEF Folders, Files
<1>2. \A f \in [file : Files, descriptor : BOOLEAN] : f \in Folders
  BY DEF Folders, Files
<1>3. Nothing \in Folders
  BY DEF Folders
<1>4. [file : Files, descriptor : BOOLEAN] \subseteq Folders
  BY <1>2
<1>5. \A f \in Folders : f # Nothing => f.file \in Files
  BY <1>1
<1>6. Undescribed(Nothing) = Nothing
  <2>1. ASSUME NEW file, NEW flag
        PROVE  [[file |-> file, descriptor |-> flag] EXCEPT !.descriptor = flag]
                 = [file |-> file, descriptor |-> flag]
    OBVIOUS
  <2> QED BY <2>1 DEF Nothing, Undescribed
<1>7. \A f \in [file : Files, descriptor : BOOLEAN] :
        Undescribed(f) \in [file : Files, descriptor : BOOLEAN]
  BY DEF Undescribed
<1>8. Nothing.file \notin Files
  BY DEF Nothing, Files
<1>9. \A f \in [file : Files, descriptor : BOOLEAN], file \in Files :
        [f EXCEPT !.file = file] \in [file : Files, descriptor : BOOLEAN]
  OBVIOUS
<1> QED BY <1>1, <1>2, <1>3, <1>4, <1>5, <1>6, <1>7, <1>8, <1>9

\* Every step keeps the types, variable by variable.
LEMMA TypeStep ==
  ASSUME TypeOK, [Next]_vars
  PROVE  TypeOK'
<1> USE RecordingsAssumption DEF TypeOK, vars, Next, Take, Registrar, Scheduler, Job, Removal,
     Startup,
     AllocateTarget, PrepareRecording, CaptureFrames, StopRecording, RegisterRecording, Look,
     WriteDescriptor, Persist, RemoveDescriptor, Retry, ResumeNothing, Schedule, Submit,
     QueueFailed, StartJob, PrepareFile, PreparationFailed, JobCancelled, MarkReady, TidyJob,
     Release, RecoverRecording, ReconcileAtStart, Reconcile, DiscardTarget, DeleteRecording,
     DeleteSong, Quarantine, PassOver, QuarantineFails, EraseRows, EraseFails,
     FinalizeQuarantine, Crash, Start, RecoverTransactions, StartFails,
     disk, rows, memory
<1>1. process' \in {"down", "starting", "up"}
  BY DEF Finish
<1>2. capture' \in {"none", "allocated", "writing", "stopped"}
  OBVIOUS
<1>3. home' \in Folders
  <2> HIDE DEF Take, ReconcileAtStart, RecoverRecording, Reconcile, AllocateTarget,
       PrepareRecording, CaptureFrames, StopRecording
  <2>1. CASE Take
    <3>1. CASE PrepareRecording
      BY <3>1, FolderKinds DEF PrepareRecording, Files
    <3>2. CASE CaptureFrames
      BY <3>2, FolderKinds DEF CaptureFrames, Files
    <3>3. CASE StopRecording
      <4>1. CASE home.file = "captured"
        BY <3>3, <4>1, FolderKinds DEF StopRecording, Files
      <4>2. CASE home.file # "captured"
        <5>1. [home EXCEPT !.file = home.file] = home
          BY DEF Folders, Nothing
        <5> QED BY <3>3, <4>2, <5>1 DEF StopRecording
      <4> QED BY <4>1, <4>2
    <3>4. CASE AllocateTarget
      BY <3>4, FolderKinds DEF AllocateTarget, Files
    <3> QED BY <2>1, <3>1, <3>2, <3>3, <3>4 DEF Take
  <2>2. ASSUME NEW a, Reconcile(a) PROVE home' \in Folders
    BY <2>2, FolderKinds DEF Reconcile, HasAudio, Files
  <2>3. ASSUME NEW a, WriteDescriptor(a) PROVE home' \in Folders
    BY <2>3, FolderKinds DEF Files
  <2> QED BY <2>1, <2>2, <2>3, FolderKinds DEF ReconcileAtStart, RecoverRecording
<1>4. trash' \in Folders
  BY FolderKinds
<1>5. song' \in BOOLEAN /\ erased' \in BOOLEAN
  OBVIOUS
<1>6. row' \in {"NoRow"} \cup Unsettled \cup Settled
  BY DEF Marked, Unsettled, Settled
<1>7. pending' \in BOOLEAN
  BY DEF Lock, Leave
<1>8. job' \in {"none", "queued", "working", "prepared", "ready", "releasing"}
  BY DEF Lock, Leave
<1>9. lock' \in {"free"} \cup Removals 
  BY DEF Lock, Leave, Removals
<1>10. moved' \in BOOLEAN
  BY DEF Leave
<1>11. journal' \in {"none", "empty", "take"}
  OBVIOUS
<1>12. at' \in [Requests \cup {Backend} -> Places]
  BY DEF Go, Arrives, Backend, After, Leave, Finish, Places, Requests, Removals
<1>13. faults' \in 0..MaxFaults
  OBVIOUS
<1> QED BY <1>1, <1>2, <1>3, <1>4, <1>5, <1>6, <1>7, <1>8, <1>9, <1>10, <1>11, <1>12, <1>13

-----------------------------------------------------------------------------
(***************************************************************************)
(* The parts of the invariant.                                             *)
(***************************************************************************)
Waiting == {"idle", "done"}
\* Nobody works while the backend is down, and only the starting thread while it starts.
StillUnlessUp ==
    /\ process # "up" =>
         lock = "free" /\ ~moved /\ job = "none" /\ \A r \in Requests : at[r] \in Waiting
    /\ process # "starting" => at[Backend] = "done"
    /\ process = "starting" /\ at[Backend] # "transactions" => journal # "take"
    /\ at[Backend] # "idle"

Target == [file |-> "none", descriptor |-> TRUE]
InHand == {"look", "describe", "persist", "tidy", "submit"}
\* A take that has not stopped is known to nobody but the audio service.
UnstoppedIsPrivate ==
    capture # "stopped" =>
        /\ row = "NoRow" /\ job = "none"
        /\ \A a \in Requests \cup {Backend} : at[a] \notin InHand
        /\ \A r \in Requests : at[r] # "schedule"
        /\ capture = "none" => home = Nothing
        /\ capture = "allocated" => home \in {Nothing, Target}
        /\ capture = "writing" => home.file \in {"empty", "captured"} /\ home.descriptor
        /\ trash = Nothing \/ (trash = Target /\ home = Nothing /\ capture = "allocated")

\* What a removal under way knows.
RemovalFacts ==
    /\ song \/ erased
    /\ moved => lock \in Removals /\ at[lock] \in {"erase", "finalize"} /\ trash # Nothing
    /\ \A d \in Deletions :
         /\ at[d] \in {"move", "erase"} => row # "NoRow"
         /\ at[d] \in {"erase", "finalize"} => moved /\ journal # "take"
    /\ \A s \in SongDeletions :
         /\ at[s] \in {"move", "erase"} => song
         /\ at[s] \in {"move", "erase"} /\ journal = "take" => capture # "none"
         /\ at[s] \in {"move", "erase"} /\ journal # "take" /\ capture = "stopped"
              => ~HasAudio(home)
    /\ \A r \in Removals : at[r] = "finalize" => erased
    /\ \A r \in Removals : at[r] = "erase" =>
          \/ ~HasAudio(home) /\ (capture = "stopped" \/ (home = Nothing /\ capture = "allocated"))
          \/ r \in SongDeletions /\ journal # "take" /\ capture # "stopped"
    /\ process = "up" /\ journal = "take"
         => trash # Nothing \/ \E s \in SongDeletions : at[s] \in {"move", "erase", "finalize"}

Claimed ==
    \/ \E a \in Requests \cup {Backend} : at[a] \in {"tidy", "submit"}
    \/ \E r \in Requests : at[r] = "schedule"
    \/ job # "none"
Restorable == HasAudio(trash) /\ moved /\ \E r \in Removals : at[r] = "erase"
ClaimedHasRow == Claimed /\ (HasAudio(home) \/ Restorable) => row # "NoRow"

\* Audio in the quarantine that could not be found again does not come back.
LeftForGood ==
    HasAudio(trash) /\ ~trash.descriptor /\ row = "NoRow" /\ song =>
        /\ journal # "take" /\ ~HasAudio(home)
        /\ \/ \E d \in Deletions : at[d] = "finalize"
           \/ /\ ~moved
              /\ \A a \in Requests \cup {Backend} : at[a] \notin {"describe", "persist"}
              /\ home.descriptor =>
                   process = "down" \/ at[Backend] \in {"transactions", "reconcile"}

\* A removal takes the lock only when it is free and no job runs; a job starts only then.
LEMMA RemovalIsAloneStep ==
  ASSUME TypeOK, RemovalIsAlone, [Next]_vars
  PROVE  RemovalIsAlone'
<1> USE RecordingsAssumption DEF TypeOK, RemovalIsAlone, Folders, Unsettled, Settled, Places,
   Go, Arrives, Marked, Undescribed, After, Backend, Removals, Requests, disk, rows, memory,
     Nothing, Unsettled, Settled, Unlocked, Empty, Idle, Lock, Leave, Movable, Unrecoverable
<1>1. CASE Take
  BY <1>1 DEF Take, AllocateTarget, PrepareRecording, CaptureFrames, StopRecording
<1>2. ASSUME NEW a \in Registrations, RegisterRecording(a) PROVE RemovalIsAlone'
  BY <1>2 DEF RegisterRecording
<1>3. ASSUME NEW a \in Recoveries, RecoverRecording(a) PROVE RemovalIsAlone'
  BY <1>3 DEF RecoverRecording, Reconcile
<1>4. ASSUME NEW a \in Retries, Retry(a) PROVE RemovalIsAlone'
  BY <1>4 DEF Retry
<1>5. ASSUME NEW a \in Requests \cup {Backend}, Registrar(a) PROVE RemovalIsAlone'
  BY <1>5 DEF Registrar, Look, WriteDescriptor, Persist, RemoveDescriptor
<1>6. ASSUME NEW a \in Requests \cup {Backend}, Scheduler(a) PROVE RemovalIsAlone'
  BY <1>6 DEF Scheduler, Schedule, Submit, QueueFailed, Finish
<1>7. CASE Job
  BY <1>7 DEF Job, StartJob, PrepareFile, PreparationFailed, JobCancelled, MarkReady, TidyJob,
      Release
<1>8. ASSUME NEW a \in Deletions, DiscardTarget(a) \/ DeleteRecording(a) PROVE RemovalIsAlone'
  BY <1>8 DEF DiscardTarget, DeleteRecording
<1>9. ASSUME NEW a \in SongDeletions, DeleteSong(a) PROVE RemovalIsAlone'
  BY <1>9 DEF DeleteSong
<1>10. ASSUME NEW a \in Removals, Removal(a) PROVE RemovalIsAlone'
  BY <1>10 DEF Removal, Quarantine, PassOver, QuarantineFails, EraseRows, FinalizeQuarantine
<1>11. ASSUME NEW a \in Removals, EraseFails(a) PROVE RemovalIsAlone'
  BY <1>11 DEF EraseFails
<1>12. CASE Startup
  BY <1>12 DEF Startup, Start, RecoverTransactions, StartFails, ReconcileAtStart, Reconcile,
      ResumeNothing
<1>13. CASE Crash
  BY <1>13 DEF Crash
<1>14. CASE UNCHANGED vars
  BY <1>14 DEF vars
<1> QED
  BY <1>1, <1>2, <1>3, <1>4, <1>5, <1>6, <1>7, <1>8, <1>9, <1>10, <1>11, <1>12, <1>13, <1>14
  DEF Next, Requests, Removals

\* A crash ends every request, and none arrives before the backend is up again.
LEMMA StillUnlessUpStep ==
  ASSUME TypeOK, RemovalIsAlone, StillUnlessUp, [Next]_vars
  PROVE  StillUnlessUp'
<1> USE RecordingsAssumption DEF TypeOK, RemovalIsAlone, StillUnlessUp, Folders, Unsettled,
     Settled, Places, Waiting,
   Go, Arrives, Marked, Undescribed, After, Backend, Removals, Requests, disk, rows, memory,
     Nothing, Unsettled, Settled, Unlocked, Empty, Idle, Lock, Leave, Movable, Unrecoverable
<1>1. CASE Take
  BY <1>1 DEF Take, AllocateTarget, PrepareRecording, CaptureFrames, StopRecording
<1>2. ASSUME NEW a \in Registrations, RegisterRecording(a) PROVE StillUnlessUp'
  BY <1>2 DEF RegisterRecording
<1>3. ASSUME NEW a \in Recoveries, RecoverRecording(a) PROVE StillUnlessUp'
  BY <1>3 DEF RecoverRecording, Reconcile
<1>4. ASSUME NEW a \in Retries, Retry(a) PROVE StillUnlessUp'
  BY <1>4 DEF Retry
<1>5. ASSUME NEW a \in Requests \cup {Backend}, Registrar(a) PROVE StillUnlessUp'
  BY <1>5 DEF Registrar, Look, WriteDescriptor, Persist, RemoveDescriptor
<1>6. ASSUME NEW a \in Requests \cup {Backend}, Scheduler(a) PROVE StillUnlessUp'
  BY <1>6 DEF Scheduler, Schedule, Submit, QueueFailed, Finish
<1>7. CASE Job
  BY <1>7 DEF Job, StartJob, PrepareFile, PreparationFailed, JobCancelled, MarkReady, TidyJob,
      Release
<1>8. ASSUME NEW a \in Deletions, DiscardTarget(a) \/ DeleteRecording(a) PROVE StillUnlessUp'
  BY <1>8 DEF DiscardTarget, DeleteRecording
<1>9. ASSUME NEW a \in SongDeletions, DeleteSong(a) PROVE StillUnlessUp'
  BY <1>9 DEF DeleteSong
<1>10. ASSUME NEW a \in Removals, Removal(a) PROVE StillUnlessUp'
  BY <1>10 DEF Removal, Quarantine, PassOver, QuarantineFails, EraseRows, FinalizeQuarantine
<1>11. ASSUME NEW a \in Removals, EraseFails(a) PROVE StillUnlessUp'
  BY <1>11 DEF EraseFails
<1>12. CASE Startup
  BY <1>12 DEF Startup, Start, RecoverTransactions, StartFails, ReconcileAtStart, Reconcile,
      ResumeNothing
<1>13. CASE Crash
  BY <1>13 DEF Crash
<1>14. CASE UNCHANGED vars
  BY <1>14 DEF vars
<1> QED
  BY <1>1, <1>2, <1>3, <1>4, <1>5, <1>6, <1>7, <1>8, <1>9, <1>10, <1>11, <1>12, <1>13, <1>14
  DEF Next, Requests, Removals

\* Before a take has stopped nobody can have found audio to register.
LEMMA UnstoppedIsPrivateStep ==
  ASSUME TypeOK, RemovalIsAlone, StillUnlessUp, RemovalFacts, UnstoppedIsPrivate, [Next]_vars
  PROVE  UnstoppedIsPrivate'
<1> USE RecordingsAssumption DEF TypeOK, RemovalIsAlone, StillUnlessUp, RemovalFacts,
     UnstoppedIsPrivate, Folders, Unsettled, Settled, Places, Waiting, HasAudio, InHand, Target,
   Go, Arrives, Marked, Undescribed, After, Backend, Removals, Requests, disk, rows, memory,
     Nothing, Unsettled, Settled, Unlocked, Empty, Idle, Lock, Leave, Movable, Unrecoverable
<1>1. CASE Take
  BY <1>1 DEF Take, AllocateTarget, PrepareRecording, CaptureFrames, StopRecording
<1>2. ASSUME NEW a \in Registrations, RegisterRecording(a) PROVE UnstoppedIsPrivate'
  BY <1>2 DEF RegisterRecording
<1>3. ASSUME NEW a \in Recoveries, RecoverRecording(a) PROVE UnstoppedIsPrivate'
  BY <1>3 DEF RecoverRecording, Reconcile
<1>4. ASSUME NEW a \in Retries, Retry(a) PROVE UnstoppedIsPrivate'
  BY <1>4 DEF Retry
<1>5. ASSUME NEW a \in Requests \cup {Backend}, Registrar(a) PROVE UnstoppedIsPrivate'
  BY <1>5 DEF Registrar, Look, WriteDescriptor, Persist, RemoveDescriptor
<1>6. ASSUME NEW a \in Requests \cup {Backend}, Scheduler(a) PROVE UnstoppedIsPrivate'
  BY <1>6 DEF Scheduler, Schedule, Submit, QueueFailed, Finish
<1>7. CASE Job
  BY <1>7 DEF Job, StartJob, PrepareFile, PreparationFailed, JobCancelled, MarkReady, TidyJob,
      Release
<1>8. ASSUME NEW a \in Deletions, DiscardTarget(a) \/ DeleteRecording(a) PROVE UnstoppedIsPrivate'
  BY <1>8 DEF DiscardTarget, DeleteRecording
<1>9. ASSUME NEW a \in SongDeletions, DeleteSong(a) PROVE UnstoppedIsPrivate'
  BY <1>9 DEF DeleteSong
<1>10. ASSUME NEW a \in Removals, Removal(a) PROVE UnstoppedIsPrivate'
  BY <1>10 DEF Removal, Quarantine, PassOver, QuarantineFails, EraseRows, FinalizeQuarantine
<1>11. ASSUME NEW a \in Removals, EraseFails(a) PROVE UnstoppedIsPrivate'
  BY <1>11 DEF EraseFails
<1>12. CASE Startup
  BY <1>12 DEF Startup, Start, RecoverTransactions, StartFails, ReconcileAtStart, Reconcile,
      ResumeNothing
<1>13. CASE Crash
  BY <1>13 DEF Crash
<1>14. CASE UNCHANGED vars
  BY <1>14 DEF vars
<1> QED
  BY <1>1, <1>2, <1>3, <1>4, <1>5, <1>6, <1>7, <1>8, <1>9, <1>10, <1>11, <1>12, <1>13, <1>14
  DEF Next, Requests, Removals

\* What a removal checked when it took the lock still holds at its later steps.
LEMMA RemovalFactsStep ==
  ASSUME TypeOK, RemovalIsAlone, StillUnlessUp, UnstoppedIsPrivate, TakeIsFindable,
           RemovalFacts, [Next]_vars
  PROVE  RemovalFacts'
<1> USE RecordingsAssumption DEF TypeOK, RemovalIsAlone, StillUnlessUp, UnstoppedIsPrivate,
     TakeIsFindable, RemovalFacts, Folders, Unsettled, Settled, Places, Waiting, InHand, Target,
     HasAudio,
   Go, Arrives, Marked, Undescribed, After, Backend, Removals, Requests, disk, rows, memory,
     Nothing, Unsettled, Settled, Unlocked, Empty, Idle, Lock, Leave, Movable, Unrecoverable
<1>1. CASE Take
  BY <1>1 DEF Take, AllocateTarget, PrepareRecording, CaptureFrames, StopRecording
<1>2. ASSUME NEW a \in Registrations, RegisterRecording(a) PROVE RemovalFacts'
  BY <1>2 DEF RegisterRecording
<1>3. ASSUME NEW a \in Recoveries, RecoverRecording(a) PROVE RemovalFacts'
  BY <1>3 DEF RecoverRecording, Reconcile
<1>4. ASSUME NEW a \in Retries, Retry(a) PROVE RemovalFacts'
  BY <1>4 DEF Retry
<1>5. ASSUME NEW a \in Requests \cup {Backend}, Registrar(a) PROVE RemovalFacts'
  BY <1>5 DEF Registrar, Look, WriteDescriptor, Persist, RemoveDescriptor
<1>6. ASSUME NEW a \in Requests \cup {Backend}, Scheduler(a) PROVE RemovalFacts'
  BY <1>6 DEF Scheduler, Schedule, Submit, QueueFailed, Finish
<1>7. CASE Job
  BY <1>7 DEF Job, StartJob, PrepareFile, PreparationFailed, JobCancelled, MarkReady, TidyJob,
      Release
<1>8. ASSUME NEW a \in Deletions, DiscardTarget(a) \/ DeleteRecording(a) PROVE RemovalFacts'
  BY <1>8 DEF DiscardTarget, DeleteRecording
<1>9. ASSUME NEW a \in SongDeletions, DeleteSong(a) PROVE RemovalFacts'
  BY <1>9 DEF DeleteSong
<1>10. ASSUME NEW a \in Removals, Removal(a) PROVE RemovalFacts'
  BY <1>10 DEF Removal, Quarantine, PassOver, QuarantineFails, EraseRows, FinalizeQuarantine
<1>11. ASSUME NEW a \in Removals, EraseFails(a) PROVE RemovalFacts'
  BY <1>11 DEF EraseFails
<1>12. CASE Startup
  BY <1>12 DEF Startup, Start, RecoverTransactions, StartFails, ReconcileAtStart, Reconcile,
      ResumeNothing
<1>13. CASE Crash
  BY <1>13 DEF Crash
<1>14. CASE UNCHANGED vars
  BY <1>14 DEF vars
<1> QED
  BY <1>1, <1>2, <1>3, <1>4, <1>5, <1>6, <1>7, <1>8, <1>9, <1>10, <1>11, <1>12, <1>13, <1>14
  DEF Next, Requests, Removals

\* Whoever is about to drop the descriptor of a take with audio has a row for it.
LEMMA ClaimedHasRowStep ==
  ASSUME TypeOK, RemovalIsAlone, StillUnlessUp, UnstoppedIsPrivate, RemovalFacts,
           ClaimedHasRow, [Next]_vars
  PROVE  ClaimedHasRow'
<1> USE RecordingsAssumption DEF TypeOK, RemovalIsAlone, StillUnlessUp, UnstoppedIsPrivate,
     RemovalFacts, ClaimedHasRow, Folders, Unsettled, Settled, Places, Waiting, InHand, Target,
     HasAudio, Claimed, Restorable,
   Go, Arrives, Marked, Undescribed, After, Backend, Removals, Requests, disk, rows, memory,
     Nothing, Unsettled, Settled, Unlocked, Empty, Idle, Lock, Leave, Movable, Unrecoverable
<1>1. CASE Take
  BY <1>1 DEF Take, AllocateTarget, PrepareRecording, CaptureFrames, StopRecording
<1>2. ASSUME NEW a \in Registrations, RegisterRecording(a) PROVE ClaimedHasRow'
  BY <1>2 DEF RegisterRecording
<1>3. ASSUME NEW a \in Recoveries, RecoverRecording(a) PROVE ClaimedHasRow'
  BY <1>3 DEF RecoverRecording, Reconcile
<1>4. ASSUME NEW a \in Retries, Retry(a) PROVE ClaimedHasRow'
  BY <1>4 DEF Retry
<1>5. ASSUME NEW a \in Requests \cup {Backend}, Registrar(a) PROVE ClaimedHasRow'
  BY <1>5 DEF Registrar, Look, WriteDescriptor, Persist, RemoveDescriptor
<1>6. ASSUME NEW a \in Requests \cup {Backend}, Scheduler(a) PROVE ClaimedHasRow'
  BY <1>6 DEF Scheduler, Schedule, Submit, QueueFailed, Finish
<1>7. CASE Job
  BY <1>7 DEF Job, StartJob, PrepareFile, PreparationFailed, JobCancelled, MarkReady, TidyJob,
      Release
<1>8. ASSUME NEW a \in Deletions, DiscardTarget(a) \/ DeleteRecording(a) PROVE ClaimedHasRow'
  BY <1>8 DEF DiscardTarget, DeleteRecording
<1>9. ASSUME NEW a \in SongDeletions, DeleteSong(a) PROVE ClaimedHasRow'
  BY <1>9 DEF DeleteSong
<1>10. ASSUME NEW a \in Removals, Removal(a) PROVE ClaimedHasRow'
  BY <1>10 DEF Removal, Quarantine, PassOver, QuarantineFails, EraseRows, FinalizeQuarantine
<1>11. ASSUME NEW a \in Removals, EraseFails(a) PROVE ClaimedHasRow'
  BY <1>11 DEF EraseFails
<1>12. CASE Startup
  BY <1>12 DEF Startup, Start, RecoverTransactions, StartFails, ReconcileAtStart, Reconcile,
      ResumeNothing
<1>13. CASE Crash
  BY <1>13 DEF Crash
<1>14. CASE UNCHANGED vars
  BY <1>14 DEF vars
<1> QED
  BY <1>1, <1>2, <1>3, <1>4, <1>5, <1>6, <1>7, <1>8, <1>9, <1>10, <1>11, <1>12, <1>13, <1>14
  DEF Next, Requests, Removals

\* Audio quarantined without a descriptor comes back only under its row.
LEMMA LeftForGoodStep ==
  ASSUME TypeOK, RemovalIsAlone, StillUnlessUp, UnstoppedIsPrivate, RemovalFacts,
           TakeIsFindable, LeftForGood, [Next]_vars
  PROVE  LeftForGood'
<1> USE RecordingsAssumption DEF TypeOK, RemovalIsAlone, StillUnlessUp, UnstoppedIsPrivate,
     RemovalFacts, TakeIsFindable, LeftForGood, Folders, Unsettled, Settled, Places, Waiting,
     InHand, Target, HasAudio,
   Go, Arrives, Marked, Undescribed, After, Backend, Removals, Requests, disk, rows, memory,
     Nothing, Unsettled, Settled, Unlocked, Empty, Idle, Lock, Leave, Movable, Unrecoverable
<1>1. CASE Take
  <2>1. CASE AllocateTarget
    BY <1>1, <2>1 DEF AllocateTarget
  <2>2. CASE PrepareRecording
    BY <1>1, <2>2 DEF PrepareRecording
  <2>3. CASE CaptureFrames
    BY <1>1, <2>3 DEF CaptureFrames
  <2>4. CASE StopRecording
    BY <1>1, <2>4 DEF StopRecording
  <2> QED BY <1>1, <2>1, <2>2, <2>3, <2>4 DEF Take
<1>2. ASSUME NEW a \in Registrations, RegisterRecording(a) PROVE LeftForGood'
  BY <1>2 DEF RegisterRecording
<1>3. ASSUME NEW a \in Recoveries, RecoverRecording(a) PROVE LeftForGood'
  BY <1>3 DEF RecoverRecording, Reconcile
<1>4. ASSUME NEW a \in Retries, Retry(a) PROVE LeftForGood'
  BY <1>4 DEF Retry
<1>5. ASSUME NEW a \in Requests \cup {Backend}, Registrar(a) PROVE LeftForGood'
  <2>1. CASE Look(a)
    BY <1>5, <2>1 DEF Look
  <2>2. CASE WriteDescriptor(a)
    BY <1>5, <2>2 DEF WriteDescriptor
  <2>3. CASE Persist(a)
    BY <1>5, <2>3 DEF Persist
  <2>4. CASE RemoveDescriptor(a)
    BY <1>5, <2>4 DEF RemoveDescriptor
  <2> QED BY <1>5, <2>1, <2>2, <2>3, <2>4 DEF Registrar
<1>6. ASSUME NEW a \in Requests \cup {Backend}, Scheduler(a) PROVE LeftForGood'
  <2>1. CASE Schedule(a)
    BY <1>6, <2>1 DEF Schedule, Finish
  <2>2. CASE Submit(a)
    BY <1>6, <2>2 DEF Submit, Finish
  <2>3. CASE QueueFailed(a)
    BY <1>6, <2>3 DEF QueueFailed, Finish
  <2> QED BY <1>6, <2>1, <2>2, <2>3 DEF Scheduler
<1>7. CASE Job
  BY <1>7 DEF Job, StartJob, PrepareFile, PreparationFailed, JobCancelled, MarkReady, TidyJob,
      Release
<1>8. ASSUME NEW a \in Deletions, DiscardTarget(a) \/ DeleteRecording(a) PROVE LeftForGood'
  <2>1. CASE DiscardTarget(a)
    BY <1>8, <2>1 DEF DiscardTarget
  <2>2. CASE DeleteRecording(a)
    BY <1>8, <2>2 DEF DeleteRecording
  <2> QED BY <1>8, <2>1, <2>2
<1>9. ASSUME NEW a \in SongDeletions, DeleteSong(a) PROVE LeftForGood'
  BY <1>9 DEF DeleteSong
<1>10. ASSUME NEW a \in Removals, Removal(a) PROVE LeftForGood'
  <2>1. CASE Quarantine(a)
    BY <1>10, <2>1 DEF Quarantine
  <2>2. CASE PassOver(a)
    BY <1>10, <2>2 DEF PassOver
  <2>3. CASE QuarantineFails(a)
    BY <1>10, <2>3 DEF QuarantineFails
  <2>4. CASE EraseRows(a)
    BY <1>10, <2>4 DEF EraseRows
  <2>5. CASE FinalizeQuarantine(a)
    BY <1>10, <2>5 DEF FinalizeQuarantine
  <2> QED BY <1>10, <2>1, <2>2, <2>3, <2>4, <2>5 DEF Removal
<1>11. ASSUME NEW a \in Removals, EraseFails(a) PROVE LeftForGood'
  BY <1>11 DEF EraseFails
<1>12. CASE Startup
  <2>1. CASE Start
    BY <1>12, <2>1 DEF Start
  <2>2. CASE RecoverTransactions
    BY <1>12, <2>2 DEF RecoverTransactions
  <2>3. CASE StartFails
    BY <1>12, <2>3 DEF StartFails
  <2>4. CASE ReconcileAtStart
    BY <1>12, <2>4 DEF ReconcileAtStart, Reconcile
  <2>5. CASE ResumeNothing
    BY <1>12, <2>5 DEF ResumeNothing
  <2> QED BY <1>12, <2>1, <2>2, <2>3, <2>4, <2>5 DEF Startup
<1>13. CASE Crash
  BY <1>13 DEF Crash
<1>14. CASE UNCHANGED vars
  BY <1>14 DEF vars
<1> QED
  BY <1>1, <1>2, <1>3, <1>4, <1>5, <1>6, <1>7, <1>8, <1>9, <1>10, <1>11, <1>12, <1>13, <1>14
  DEF Next, Requests, Removals

\* A captured take without a row keeps its descriptor.
LEMMA TakeIsFindableStep ==
  ASSUME TypeOK, RemovalIsAlone, StillUnlessUp, UnstoppedIsPrivate, RemovalFacts,
           ClaimedHasRow, LeftForGood, TakeIsFindable, [Next]_vars
  PROVE  TakeIsFindable'
<1> USE RecordingsAssumption DEF TypeOK, RemovalIsAlone, StillUnlessUp, UnstoppedIsPrivate,
     RemovalFacts, ClaimedHasRow, LeftForGood, TakeIsFindable, Folders, Unsettled, Settled,
     Places, Waiting, InHand, Target, HasAudio, Claimed, Restorable,
   Go, Arrives, Marked, Undescribed, After, Backend, Removals, Requests, disk, rows, memory,
     Nothing, Unsettled, Settled, Unlocked, Empty, Idle, Lock, Leave, Movable, Unrecoverable
<1>1. CASE Take
  BY <1>1 DEF Take, AllocateTarget, PrepareRecording, CaptureFrames, StopRecording
<1>2. ASSUME NEW a \in Registrations, RegisterRecording(a) PROVE TakeIsFindable'
  BY <1>2 DEF RegisterRecording
<1>3. ASSUME NEW a \in Recoveries, RecoverRecording(a) PROVE TakeIsFindable'
  BY <1>3 DEF RecoverRecording, Reconcile
<1>4. ASSUME NEW a \in Retries, Retry(a) PROVE TakeIsFindable'
  BY <1>4 DEF Retry
<1>5. ASSUME NEW a \in Requests \cup {Backend}, Registrar(a) PROVE TakeIsFindable'
  BY <1>5 DEF Registrar, Look, WriteDescriptor, Persist, RemoveDescriptor
<1>6. ASSUME NEW a \in Requests \cup {Backend}, Scheduler(a) PROVE TakeIsFindable'
  BY <1>6 DEF Scheduler, Schedule, Submit, QueueFailed, Finish
<1>7. CASE Job
  BY <1>7 DEF Job, StartJob, PrepareFile, PreparationFailed, JobCancelled, MarkReady, TidyJob,
      Release
<1>8. ASSUME NEW a \in Deletions, DiscardTarget(a) \/ DeleteRecording(a) PROVE TakeIsFindable'
  BY <1>8 DEF DiscardTarget, DeleteRecording
<1>9. ASSUME NEW a \in SongDeletions, DeleteSong(a) PROVE TakeIsFindable'
  BY <1>9 DEF DeleteSong
<1>10. ASSUME NEW a \in Removals, Removal(a) PROVE TakeIsFindable'
  BY <1>10 DEF Removal, Quarantine, PassOver, QuarantineFails, EraseRows, FinalizeQuarantine
<1>11. ASSUME NEW a \in Removals, EraseFails(a) PROVE TakeIsFindable'
  BY <1>11 DEF EraseFails
<1>12. CASE Startup
  BY <1>12 DEF Startup, Start, RecoverTransactions, StartFails, ReconcileAtStart, Reconcile,
      ResumeNothing
<1>13. CASE Crash
  BY <1>13 DEF Crash
<1>14. CASE UNCHANGED vars
  BY <1>14 DEF vars
<1> QED
  BY <1>1, <1>2, <1>3, <1>4, <1>5, <1>6, <1>7, <1>8, <1>9, <1>10, <1>11, <1>12, <1>13, <1>14
  DEF Next, Requests, Removals

\* The step of NothingLost.
AudioStays ==
  /\ HasAudio(home) /\ ~HasAudio(home)' => HasAudio(trash')
  /\ HasAudio(trash) /\ ~HasAudio(trash)' => HasAudio(home)' \/ erased

\* A folder whose file is replaced has the new file.
LEMMA FileSet == \A f \in Folders : \A file : [f EXCEPT !.file = file].file = file
  BY DEF Folders, Nothing

\* A reconciliation keeps captured audio.
LEMMA ReconcileKeepsAudio ==
  ASSUME home \in Folders, NEW a, Reconcile(a), HasAudio(home)
  PROVE  HasAudio(home')
  BY FileSet DEF Reconcile, HasAudio, Empty

\* So does closing the file of a take.
LEMMA StopKeepsAudio ==
  ASSUME home \in Folders, StopRecording, HasAudio(home)
  PROVE  HasAudio(home')
<1>1. CASE home.file = "captured"
  BY <1>1, FileSet DEF StopRecording, HasAudio
<1>2. CASE home.file = "final"
  BY <1>2, FileSet DEF StopRecording, HasAudio
<1> QED BY <1>1, <1>2 DEF HasAudio

\* No step loses captured audio.
LEMMA KeptStep ==
  ASSUME TypeOK, RemovalIsAlone, StillUnlessUp, UnstoppedIsPrivate, RemovalFacts, [Next]_vars
  PROVE  AudioStays
<1> USE RecordingsAssumption DEF AudioStays, TypeOK, RemovalIsAlone, StillUnlessUp,
     UnstoppedIsPrivate, RemovalFacts, Waiting, InHand, Target, HasAudio,
   Go, Arrives, Marked, Undescribed, After, Backend, Removals, Requests, disk, rows, memory,
     Nothing, Unsettled, Settled, Unlocked, Empty, Idle, Lock, Leave, Movable, Unrecoverable
<1>1. CASE Take
  <2>1. CASE AllocateTarget
    BY <1>1, <2>1 DEF AllocateTarget
  <2>2. CASE PrepareRecording
    BY <1>1, <2>2 DEF PrepareRecording
  <2>3. CASE CaptureFrames
    BY <1>1, <2>3 DEF CaptureFrames
  <2>4. CASE StopRecording
    <3>1. HasAudio(home) => HasAudio(home')
      BY <2>4, StopKeepsAudio
    <3> QED BY <2>4, <3>1 DEF StopRecording
  <2> QED BY <1>1, <2>1, <2>2, <2>3, <2>4 DEF Take
<1>2. ASSUME NEW a \in Registrations, RegisterRecording(a) PROVE AudioStays
  BY <1>2 DEF RegisterRecording
<1>3. ASSUME NEW a \in Recoveries, RecoverRecording(a) PROVE AudioStays
  <2>1. HasAudio(home) => HasAudio(home')
    BY <1>3, ReconcileKeepsAudio DEF RecoverRecording
  <2> QED BY <1>3, <2>1 DEF RecoverRecording, Reconcile
<1>4. ASSUME NEW a \in Retries, Retry(a) PROVE AudioStays
  BY <1>4 DEF Retry
<1>5. ASSUME NEW a \in Requests \cup {Backend}, Registrar(a) PROVE AudioStays
  <2>1. CASE Look(a)
    BY <1>5, <2>1 DEF Look
  <2>2. CASE WriteDescriptor(a)
    BY <1>5, <2>2 DEF WriteDescriptor
  <2>3. CASE Persist(a)
    BY <1>5, <2>3 DEF Persist
  <2>4. CASE RemoveDescriptor(a)
    BY <1>5, <2>4 DEF RemoveDescriptor
  <2> QED BY <1>5, <2>1, <2>2, <2>3, <2>4 DEF Registrar
<1>6. ASSUME NEW a \in Requests \cup {Backend}, Scheduler(a) PROVE AudioStays
  BY <1>6 DEF Scheduler, Schedule, Submit, QueueFailed, Finish
<1>7. CASE Job
  <2>1. CASE StartJob
    BY <1>7, <2>1 DEF StartJob
  <2>2. CASE PrepareFile
    BY <1>7, <2>2 DEF PrepareFile
  <2>3. CASE PreparationFailed
    BY <1>7, <2>3 DEF PreparationFailed
  <2>4. CASE JobCancelled
    BY <1>7, <2>4 DEF JobCancelled
  <2>5. CASE MarkReady
    BY <1>7, <2>5 DEF MarkReady
  <2>6. CASE TidyJob
    BY <1>7, <2>6 DEF TidyJob
  <2>7. CASE Release
    BY <1>7, <2>7 DEF Release
  <2> QED BY <1>7, <2>1, <2>2, <2>3, <2>4, <2>5, <2>6, <2>7 DEF Job
<1>8. ASSUME NEW a \in Deletions, DiscardTarget(a) \/ DeleteRecording(a) PROVE AudioStays
  BY <1>8 DEF DiscardTarget, DeleteRecording
<1>9. ASSUME NEW a \in SongDeletions, DeleteSong(a) PROVE AudioStays
  BY <1>9 DEF DeleteSong
<1>10. ASSUME NEW a \in Removals, Removal(a) PROVE AudioStays
  BY <1>10 DEF Removal, Quarantine, PassOver, QuarantineFails, EraseRows, FinalizeQuarantine
<1>11. ASSUME NEW a \in Removals, EraseFails(a) PROVE AudioStays
  BY <1>11 DEF EraseFails
<1>12. CASE Startup
  <2>1. CASE Start
    BY <1>12, <2>1 DEF Start
  <2>2. CASE RecoverTransactions
    BY <1>12, <2>2 DEF RecoverTransactions
  <2>3. CASE StartFails
    BY <1>12, <2>3 DEF StartFails
  <2>4. CASE ReconcileAtStart
    <3>1. HasAudio(home) => HasAudio(home')
      BY <2>4, ReconcileKeepsAudio DEF ReconcileAtStart
    <3> QED BY <2>4, <3>1 DEF ReconcileAtStart, Reconcile
  <2>5. CASE ResumeNothing
    BY <1>12, <2>5 DEF ResumeNothing
  <2> QED BY <1>12, <2>1, <2>2, <2>3, <2>4, <2>5 DEF Startup
<1>13. CASE Crash
  BY <1>13 DEF Crash
<1>14. CASE UNCHANGED vars
  BY <1>14 DEF vars
<1> QED
  BY <1>1, <1>2, <1>3, <1>4, <1>5, <1>6, <1>7, <1>8, <1>9, <1>10, <1>11, <1>12, <1>13, <1>14
  DEF Next, Requests, Removals

-----------------------------------------------------------------------------
\* The inductive invariant.
RecordingsInv ==
  /\ TypeOK /\ RemovalIsAlone /\ StillUnlessUp /\ UnstoppedIsPrivate
  /\ RemovalFacts /\ ClaimedHasRow /\ LeftForGood /\ TakeIsFindable

\* The invariant holds at first.
LEMMA RecordingsInit == Init => RecordingsInv
<1> SUFFICES ASSUME Init PROVE RecordingsInv
  OBVIOUS
<1> USE RecordingsAssumption DEF Init
<1>1. TypeOK
  <2>1. at \in [Requests \cup {Backend} -> Places]
    BY DEF Places
  <2>2. home \in Folders /\ trash \in Folders
    BY FolderKinds
  <2>3. faults \in 0..MaxFaults
    OBVIOUS
  <2> QED BY <2>1, <2>2, <2>3 DEF TypeOK
<1>2. RemovalIsAlone /\ StillUnlessUp
  BY DEF RemovalIsAlone, StillUnlessUp, Waiting, Removals, Requests, Backend
<1>3. UnstoppedIsPrivate
  BY DEF UnstoppedIsPrivate, InHand, Nothing
<1>4. RemovalFacts
  BY DEF RemovalFacts, Removals, Requests, Backend
<1>5. ClaimedHasRow /\ LeftForGood /\ TakeIsFindable
  BY DEF ClaimedHasRow, LeftForGood, TakeIsFindable, Claimed, Restorable, HasAudio, Nothing
<1> QED BY <1>1, <1>2, <1>3, <1>4, <1>5 DEF RecordingsInv

\* Every step keeps the invariant.
LEMMA RecordingsStep == RecordingsInv /\ [Next]_vars => RecordingsInv'
  BY TypeStep, RemovalIsAloneStep, StillUnlessUpStep, UnstoppedIsPrivateStep, RemovalFactsStep,
     ClaimedHasRowStep, LeftForGoodStep, TakeIsFindableStep DEF RecordingsInv

\* The inductive invariant of Recordings.
THEOREM RecordingsInvariant == Spec => []RecordingsInv
  BY RecordingsInit, RecordingsStep, PTL DEF Spec

\* Every variable of Recordings keeps its type.
THEOREM RecordingsTypeCorrect == Spec => []TypeOK
<1>1. RecordingsInv => TypeOK
  BY DEF RecordingsInv
<1> QED BY <1>1, RecordingsInvariant, PTL

\* A captured take nobody has registered keeps its recovery descriptor (register_recording.py:84).
THEOREM TakesAreFound == Spec => []TakeIsFindable
<1>1. RecordingsInv => TakeIsFindable
  BY DEF RecordingsInv
<1> QED BY <1>1, RecordingsInvariant, PTL

\* One removal at a time, and none beside a job (job_manager.py:125, delete_song.py:43).
THEOREM RemovalsTakeTurns == Spec => []RemovalIsAlone
<1>1. RecordingsInv => RemovalIsAlone
  BY DEF RecordingsInv
<1> QED BY <1>1, RecordingsInvariant, PTL

\* Captured audio moves to the quarantine and back, and is gone only with its row or song
\* (recording_files.py:57, :125, :146).
THEOREM AudioIsKept == Spec => NothingLost
<1>1. RecordingsInv /\ [Next]_vars => [AudioStays]_vars
  BY KeptStep DEF RecordingsInv
<1> QED BY <1>1, RecordingsInvariant, PTL DEF Spec, NothingLost, AudioStays
======================================================================
