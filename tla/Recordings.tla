----------------------------- MODULE Recordings -----------------------------
(***************************************************************************)
(* One take of one song: its directory is allocated by the backend and     *)
(* written by the audio service, then registered, prepared by a background *)
(* job, recovered, retried and deleted by requests that run in threads of  *)
(* their own, and reconciled when the backend starts after a crash         *)
(* (recordings/register_recording.py, reconcile.py, delete_recording.py,   *)
(* allocate_target.py, infrastructure/recording_files.py,                  *)
(* songs/delete_song.py, recovery/recover_transactions.py).                *)
(***************************************************************************)
EXTENDS Naturals

CONSTANTS
    Registrations,  \* POST /recordings
    Recoveries,     \* POST /recordings/{id}/recover
    Retries,        \* POST /recordings/{id}/prepare
    Deletions,      \* DELETE /recordings/{id}
    SongDeletions,  \* DELETE /songs/{id}
    MaxFaults       \* crashes of the backend and failed transactions

Backend == "backend"   \* the thread that starts the backend
Removals == Deletions \cup SongDeletions
Requests == Registrations \cup Recoveries \cup Retries \cup Removals

ASSUME RecordingsAssumption ==
    /\ MaxFaults \in Nat
    /\ Backend \notin Requests
    /\ "free" \notin Requests
    /\ Deletions \cap SongDeletions = {}

VARIABLES
    process,   \* of the backend
    capture,   \* what the audio service does with the take
    home,      \* the directory of the take
    trash,     \* the directory of the take in the quarantine
    song,      \* the song has a row
    row,       \* the take's row: its file status
    erased,    \* history: a removal has erased the take's row, or its song
    pending,   \* the take is in RegisterRecording._pending
    job,       \* place of the preparation job
    lock,      \* who holds ProcessingJobManager._state_lock across steps
    journal,   \* the journal entry of a song deletion, and whether it lists the take
    moved,     \* the running song deletion has quarantined the take
    at,        \* place of each request and of the starting thread
    faults

disk == <<home, trash, journal>>
rows == <<song, row, erased>>
memory == <<pending, job, lock, moved>>
vars == <<process, capture, disk, rows, memory, at, faults>>

\* A directory, or its absence: the recording file in it and the recovery descriptor.
Nothing == [file |-> "gone", descriptor |-> FALSE]
Folders == {Nothing} \cup
    [file : {"none", "empty", "captured", "final"}, descriptor : BOOLEAN]
HasAudio(folder) == folder.file \in {"captured", "final"}

Unsettled == {"Preparing", "PreparationFailed"}
Settled == {"Ready", "RecoveredIncomplete"}

Places ==
    {"idle", "transactions", "reconcile", "look", "describe", "persist", "tidy", "schedule",
     "submit", "move", "erase", "finalize", "done"}

TypeOK ==
    /\ process \in {"down", "starting", "up"}
    /\ capture \in {"none", "allocated", "writing", "stopped"}
    /\ home \in Folders /\ trash \in Folders
    /\ song \in BOOLEAN /\ erased \in BOOLEAN
    /\ row \in {"NoRow"} \cup Unsettled \cup Settled
    /\ pending \in BOOLEAN
    /\ job \in {"none", "queued", "working", "prepared", "ready", "releasing"}
    /\ lock \in {"free"} \cup Removals
    /\ journal \in {"none", "empty", "take"}
    /\ moved \in BOOLEAN
    /\ at \in [Requests \cup {Backend} -> Places]
    /\ faults \in 0..MaxFaults

Init ==
    /\ process = "up" /\ capture = "none"
    /\ home = Nothing /\ trash = Nothing
    /\ song = TRUE /\ row = "NoRow" /\ erased = FALSE
    /\ pending = FALSE /\ job = "none" /\ lock = "free"
    /\ journal = "none" /\ moved = FALSE
    /\ at = [a \in Requests \cup {Backend} |-> IF a = Backend THEN "done" ELSE "idle"]
    /\ faults = 0

Go(a, place) == at' = [at EXCEPT ![a] = place]
Arrives(r) == process = "up" /\ at[r] = "idle"
\* The statuses of a row that may be gone (_set_status, _release).
Marked(status) == IF row = "NoRow" THEN row ELSE status
Undescribed(folder) == [folder EXCEPT !.descriptor = FALSE]
\* What follows the reconciliation of the take: the start goes on, a request ends.
After(a) == IF a = Backend THEN "schedule" ELSE "done"

-----------------------------------------------------------------------------
(***************************************************************************)
(* The take: the backend allocates its directory with a recovery           *)
(* descriptor, the audio service opens the file, captures and stops.  On   *)
(* Windows a directory with an open file can be neither renamed nor        *)
(* removed.                                                                *)
(***************************************************************************)
AllocateTarget ==
    /\ process = "up" /\ capture = "none"
    /\ capture' = "allocated"
    /\ home' = [file |-> "none", descriptor |-> TRUE]
    /\ UNCHANGED <<process, trash, journal, rows, memory, at, faults>>

\* WavWriter::open fails when the directory is gone, and the take stays allocated.
PrepareRecording ==
    /\ capture = "allocated" /\ home # Nothing
    /\ capture' = "writing"
    /\ home' = [home EXCEPT !.file = "empty"]
    /\ UNCHANGED <<process, trash, journal, rows, memory, at, faults>>

CaptureFrames ==
    /\ capture = "writing" /\ home.file = "empty"
    /\ home' = [home EXCEPT !.file = "captured"]
    /\ UNCHANGED <<process, capture, trash, journal, rows, memory, at, faults>>

\* The writer is closed with its header, or the audio service dies without it.  A take is
\* longer than a song deletion: one that began before its allocation is over.
StopRecording ==
    /\ capture = "writing"
    /\ \A s \in SongDeletions : at[s] \in {"move", "erase"} => journal = "take"
    /\ capture' = "stopped"
    /\ \/ home' = [home EXCEPT !.file = IF @ = "captured" THEN "final" ELSE @]
       \/ home' = home
    /\ UNCHANGED <<process, trash, journal, rows, memory, at, faults>>

-----------------------------------------------------------------------------
(***************************************************************************)
(* RegisterRecording.execute, of a request and of a reconciliation.        *)
(***************************************************************************)
RegisterRecording(r) ==
    /\ Arrives(r) /\ capture = "stopped"
    /\ Go(r, "look")
    /\ UNCHANGED <<process, capture, disk, rows, memory, faults>>

\* Mutant of Look: a take that cannot be registered loses its descriptor.
LookTidies(a) ==
    /\ at[a] = "look"
    /\ Go(a, IF row # "NoRow" THEN After(a) ELSE IF home.file = "final" /\ song THEN "describe" ELSE "tidy")
    /\ UNCHANGED <<process, capture, disk, rows, memory, faults>>

\* The row, the file and the song are read; what is read may be stale when it is used.
Look(a) ==
    /\ at[a] = "look"
    /\ \/ row \in Settled /\ Go(a, "tidy")
       \/ row \in Unsettled /\ Go(a, After(a))
       \/ /\ row = "NoRow"
          /\ IF home.file = "final" /\ song
             THEN Go(a, "describe")
             ELSE Go(a, After(a))
    /\ UNCHANGED <<process, capture, disk, rows, memory, faults>>

\* atomic_write_text creates the directory again if it is gone.
WriteDescriptor(a) ==
    /\ at[a] = "describe"
    /\ home' = [file |-> IF home = Nothing THEN "none" ELSE home.file, descriptor |-> TRUE]
    /\ Go(a, "persist")
    /\ UNCHANGED <<process, capture, trash, journal, rows, memory, faults>>

\* The primary key refuses a second row.
Persist(a) ==
    /\ at[a] = "persist"
    /\ \/ /\ row = "NoRow"
          /\ row' = IF a \in Registrations THEN "Preparing" ELSE "RecoveredIncomplete"
          /\ Go(a, IF a \in Registrations THEN "schedule" ELSE "tidy")
       \/ /\ row # "NoRow"
          /\ Go(a, "done")
          /\ UNCHANGED row
    /\ UNCHANGED <<process, capture, disk, song, erased, memory, faults>>

RemoveDescriptor(a) ==
    /\ at[a] = "tidy"
    /\ home' = Undescribed(home)
    /\ Go(a, After(a))
    /\ UNCHANGED <<process, capture, trash, journal, rows, memory, faults>>

-----------------------------------------------------------------------------
(***************************************************************************)
(* Scheduling the preparation: RegisterRecording._lock is held from the    *)
(* check of _pending to the end of the submission.                         *)
(***************************************************************************)
Unlocked == \A a \in DOMAIN at : at[a] # "submit"

Retry(r) ==
    /\ Arrives(r) /\ row # "NoRow"
    /\ Go(r, IF row \in Unsettled THEN "schedule" ELSE "done")
    /\ UNCHANGED <<process, capture, disk, rows, memory, faults>>

\* resume_pending schedules an unsettled row, and the backend is up.
ResumeNothing ==
    /\ at[Backend] = "schedule" /\ row \notin Unsettled
    /\ process' = "up" /\ Go(Backend, "done")
    /\ UNCHANGED <<capture, disk, rows, memory, faults>>

Finish(a) ==
    /\ Go(a, "done")
    /\ process' = IF a = Backend THEN "up" ELSE process

Schedule(a) ==
    /\ at[a] = "schedule" /\ Unlocked
    /\ a = Backend => row \in Unsettled
    /\ \/ pending /\ Finish(a) /\ UNCHANGED <<pending, row>>
       \/ /\ ~pending
          /\ pending' = TRUE
          /\ row' = Marked("Preparing")
          /\ Go(a, "submit")
          /\ UNCHANGED process
    /\ UNCHANGED <<capture, disk, song, erased, job, lock, moved, faults>>

\* ProcessingJobManager._submit waits for a removal that holds the lock.
Submit(a) ==
    /\ at[a] = "submit" /\ lock = "free"
    /\ job' = "queued"
    /\ Finish(a)
    /\ UNCHANGED <<capture, disk, rows, pending, lock, moved, faults>>

QueueFailed(a) ==
    /\ at[a] = "submit" /\ lock = "free"
    /\ pending' = FALSE
    /\ row' = Marked("PreparationFailed")
    /\ Finish(a)
    /\ UNCHANGED <<capture, disk, song, erased, job, lock, moved, faults>>

-----------------------------------------------------------------------------
(***************************************************************************)
(* The preparation job.  A removal that holds the lock keeps it from       *)
(* starting; a cancellation or the shutdown ends it between two steps.     *)
(***************************************************************************)
StartJob ==
    /\ job = "queued" /\ lock = "free"
    /\ job' = "working"
    /\ UNCHANGED <<process, capture, disk, rows, pending, lock, moved, at, faults>>

PrepareFile ==
    /\ job = "working" /\ home.file = "final"
    /\ job' = "prepared"
    /\ UNCHANGED <<process, capture, disk, rows, pending, lock, moved, at, faults>>

PreparationFailed ==
    /\ job = "working"
    /\ row' = Marked("PreparationFailed")
    /\ job' = "releasing"
    /\ UNCHANGED <<process, capture, disk, song, erased, pending, lock, moved, at, faults>>

JobCancelled ==
    /\ job \in {"queued", "working", "prepared"} /\ lock = "free"
    /\ job' = "releasing"
    /\ UNCHANGED <<process, capture, disk, rows, pending, lock, moved, at, faults>>

MarkReady ==
    /\ job = "prepared"
    /\ row' = Marked("Ready")
    /\ job' = "ready"
    /\ UNCHANGED <<process, capture, disk, song, erased, pending, lock, moved, at, faults>>

TidyJob ==
    /\ job = "ready"
    /\ home' = Undescribed(home)
    /\ job' = "releasing"
    /\ UNCHANGED <<process, capture, trash, journal, rows, pending, lock, moved, at, faults>>

\* Mutant of Release: an unfinished preparation keeps its status.
ReleaseOnly ==
    /\ job = "releasing" /\ Unlocked
    /\ pending' = FALSE
    /\ job' = "none"
    /\ UNCHANGED <<process, capture, disk, rows, lock, moved, at, faults>>

Release ==
    /\ job = "releasing" /\ Unlocked
    /\ row' = IF row = "Preparing" THEN "PreparationFailed" ELSE row
    /\ pending' = FALSE
    /\ job' = "none"
    /\ UNCHANGED <<process, capture, disk, song, erased, lock, moved, at, faults>>

-----------------------------------------------------------------------------
(***************************************************************************)
(* ReconcileRecordings.execute: an empty take is discarded, one that is    *)
(* being written is left alone, any other is repaired and registered.      *)
(***************************************************************************)
\* Mutant of Empty: the length in a header that was never repaired is believed.
EmptyByHeader(folder) == folder.file \in {"none", "empty", "captured"}

Empty(folder) == folder.file \in {"none", "empty"}

Reconcile(a) ==
    /\ \/ /\ ~(home.descriptor /\ capture # "writing")
          /\ Go(a, After(a))
          /\ UNCHANGED home
       \/ /\ home.descriptor /\ capture # "writing" /\ Empty(home)
          /\ home' = Nothing
          /\ Go(a, After(a))
       \/ /\ home.descriptor /\ capture # "writing" /\ HasAudio(home)
          /\ home' = [home EXCEPT !.file = "final"]
          /\ Go(a, "look")
    /\ UNCHANGED <<process, capture, trash, journal, rows, memory, faults>>

RecoverRecording(r) == Arrives(r) /\ capture # "none" /\ Reconcile(r)
ReconcileAtStart == at[Backend] = "reconcile" /\ Reconcile(Backend)

-----------------------------------------------------------------------------
(***************************************************************************)
(* Removals run under ProcessingJobManager.run_when_idle: a preparation    *)
(* keeps them out, and they hold the lock to their end.                    *)
(***************************************************************************)
\* Mutant of Idle: a preparation does not keep removals out.
NobodyRemoves == lock = "free"

Idle == lock = "free" /\ job = "none"
Lock(r) == lock' = r /\ UNCHANGED <<pending, job>>
Leave(r) == Go(r, "done") /\ lock' = "free" /\ moved' = FALSE /\ UNCHANGED <<pending, job>>
Movable == home # Nothing /\ capture # "writing" /\ trash = Nothing

\* An unregistered take is discarded when it is empty, and kept otherwise.
DiscardTarget(r) ==
    /\ Arrives(r) /\ Idle /\ row = "NoRow"
    /\ home' = IF capture # "writing" /\ Empty(home) THEN Nothing ELSE home
    /\ Go(r, "done")
    /\ UNCHANGED <<process, capture, trash, journal, rows, memory, faults>>

DeleteRecording(r) ==
    /\ Arrives(r) /\ Idle /\ row # "NoRow"
    /\ IF row = "Preparing"
       THEN Go(r, "done") /\ UNCHANGED memory
       ELSE Go(r, "move") /\ Lock(r) /\ UNCHANGED moved
    /\ UNCHANGED <<process, capture, disk, rows, faults>>

\* The take is listed by its row or by its descriptor.
DeleteSong(r) ==
    /\ Arrives(r) /\ Idle /\ song
    /\ journal' = IF row # "NoRow" \/ home.descriptor THEN "take" ELSE "empty"
    /\ Lock(r) /\ UNCHANGED moved
    /\ Go(r, "move")
    /\ UNCHANGED <<process, capture, home, trash, rows, faults>>

Quarantine(r) ==
    /\ at[r] = "move" /\ Movable
    /\ r \in Deletions \/ journal = "take"
    /\ home' = Nothing /\ trash' = home
    /\ moved' = TRUE
    /\ Go(r, "erase")
    /\ UNCHANGED <<process, capture, journal, rows, pending, job, lock, faults>>

\* A song deletion passes over a take it does not list or whose directory is gone.
PassOver(r) ==
    /\ at[r] = "move" /\ r \in SongDeletions
    /\ journal # "take" \/ home = Nothing
    /\ Go(r, "erase")
    /\ UNCHANGED <<process, capture, disk, rows, memory, faults>>

QuarantineFails(r) ==
    /\ at[r] = "move" /\ ~Movable
    /\ r \in Deletions \/ (journal = "take" /\ home # Nothing)
    /\ journal' = IF r \in SongDeletions THEN "none" ELSE journal
    /\ Leave(r)
    /\ UNCHANGED <<process, capture, home, trash, rows, faults>>

EraseRows(r) ==
    /\ at[r] = "erase"
    /\ row' = "NoRow"
    /\ song' = (song /\ r \in Deletions)
    /\ erased' = TRUE
    /\ Go(r, "finalize")
    /\ UNCHANGED <<process, capture, disk, memory, faults>>

\* Restoring the take onto a directory that is back raises before the journal is completed.
EraseFails(r) ==
    /\ at[r] = "erase" /\ faults < MaxFaults
    /\ faults' = faults + 1
    /\ IF moved /\ home = Nothing
       THEN home' = trash /\ trash' = Nothing
       ELSE UNCHANGED <<home, trash>>
    /\ journal' = IF r \in SongDeletions /\ ~(moved /\ home # Nothing) THEN "none" ELSE journal
    /\ Leave(r)
    /\ UNCHANGED <<process, capture, rows>>

FinalizeQuarantine(r) ==
    /\ at[r] = "finalize"
    /\ trash' = IF moved THEN Nothing ELSE trash
    /\ journal' = IF r \in SongDeletions THEN "none" ELSE journal
    /\ Leave(r)
    /\ UNCHANGED <<process, capture, home, rows, faults>>

-----------------------------------------------------------------------------
(***************************************************************************)
(* A crash ends every request; the audio service goes on.  The next start  *)
(* recovers the journal, reconciles the takes and resumes preparations.    *)
(***************************************************************************)
Crash ==
    /\ process # "down" /\ faults < MaxFaults
    /\ faults' = faults + 1
    /\ process' = "down"
    /\ at' = [a \in DOMAIN at |-> IF at[a] = "idle" THEN "idle" ELSE "done"]
    /\ pending' = FALSE /\ job' = "none" /\ lock' = "free" /\ moved' = FALSE
    /\ UNCHANGED <<capture, disk, rows>>

Start ==
    /\ process = "down"
    /\ process' = "starting" /\ Go(Backend, "transactions")
    /\ UNCHANGED <<capture, disk, rows, memory, faults>>

Unrecoverable == journal = "take" /\ song /\ trash # Nothing /\ home # Nothing

RecoverTransactions ==
    /\ at[Backend] = "transactions" /\ ~Unrecoverable
    /\ IF journal = "take" /\ trash # Nothing
       THEN trash' = Nothing /\ home' = IF song THEN trash ELSE home
       ELSE UNCHANGED <<home, trash>>
    /\ journal' = "none"
    /\ Go(Backend, "reconcile")
    /\ UNCHANGED <<process, capture, rows, memory, faults>>

\* The directory in the way makes the recovery raise, and the backend does not start.
StartFails ==
    /\ at[Backend] = "transactions" /\ Unrecoverable
    /\ process' = "down" /\ Go(Backend, "done")
    /\ UNCHANGED <<capture, disk, rows, memory, faults>>

-----------------------------------------------------------------------------
Registrar(a) == Look(a) \/ WriteDescriptor(a) \/ Persist(a) \/ RemoveDescriptor(a)
Scheduler(a) == Schedule(a) \/ Submit(a) \/ QueueFailed(a)
Job == StartJob \/ PrepareFile \/ PreparationFailed \/ JobCancelled \/ MarkReady
       \/ TidyJob \/ Release
Removal(r) == Quarantine(r) \/ PassOver(r) \/ QuarantineFails(r) \/ EraseRows(r)
              \/ FinalizeQuarantine(r)
Startup == Start \/ RecoverTransactions \/ StartFails \/ ReconcileAtStart \/ ResumeNothing
Take == AllocateTarget \/ PrepareRecording \/ CaptureFrames \/ StopRecording

Next ==
    \/ Take
    \/ \E r \in Registrations : RegisterRecording(r)
    \/ \E r \in Recoveries : RecoverRecording(r)
    \/ \E r \in Retries : Retry(r)
    \/ \E r \in Deletions : DiscardTarget(r) \/ DeleteRecording(r)
    \/ \E r \in SongDeletions : DeleteSong(r)
    \/ \E a \in Registrations \cup Recoveries \cup {Backend} : Registrar(a)
    \/ \E a \in Registrations \cup Retries \cup {Backend} : Scheduler(a)
    \/ \E r \in Removals : Removal(r) \/ EraseFails(r)
    \/ Job
    \/ Startup
    \/ Crash

\* Threads go on, and the desktop app starts a backend that has died; nobody has to ask
\* for anything, and a take need not end.
Fairness ==
    /\ \A a \in Requests \cup {Backend} : WF_vars(Registrar(a) \/ Scheduler(a))
    /\ \A r \in Removals : WF_vars(Removal(r))
    /\ WF_vars(Job)
    /\ WF_vars(Startup)

Spec == Init /\ [][Next]_vars /\ Fairness

-----------------------------------------------------------------------------
(* A captured take nobody has registered keeps the descriptor it is found by: by the next *)
(* reconciliation or by the deletion of its song (register_recording.py:84, :92, :170).   *)
TakeIsFindable == HasAudio(home) /\ row = "NoRow" => home.descriptor

(* Captured audio never disappears from its directory but into the quarantine, and from   *)
(* there only back, or for good once a removal has erased the row or the song of the      *)
(* take, whatever requests and crashes meet (recording_files.py:57, :125, :146).          *)
NothingLost ==
    [][/\ HasAudio(home) /\ ~HasAudio(home)' => HasAudio(trash')
       /\ HasAudio(trash) /\ ~HasAudio(trash)' => HasAudio(home)' \/ erased]_vars

(* While a removal holds the take no job works on its files, and only one removal is past *)
(* the check (job_manager.py:125, recording_routes.py:156, delete_song.py:43).            *)
RemovalIsAlone ==
    \A r \in Removals : at[r] \in {"move", "erase", "finalize"} => lock = r /\ job = "none"

(* A take does not stay in preparation: its job settles it, or _queue_failed, or _release, *)
(* or the preparation is resumed after a crash (register_recording.py:96, :132, :137);     *)
(* unless the backend cannot start any more (SurvivesCrashes).                             *)
PreparingEnds == row = "Preparing" ~> row # "Preparing" \/ Unrecoverable

(* python/docs/greenfield-spec.md:2394: the backend survives a crash in a song deletion and *)
(* in the registration of a recording: it starts again.                                     *)
SurvivesCrashes == process = "down" ~> process = "up"
=============================================================================
