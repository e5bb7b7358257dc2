# Verification of the karaoke program

TLA+ models of the concurrent core of the karaoke program, the TLC runs that check them on small
instances, and the theorems TLAPS proves about them for every value of their constants. Every
definition is a translation of code under `src/`; `PROJECT.json` maps each one to its lines.

1. [The system](#1-the-system)
2. [What is modelled: modules, state, actions](#2-what-is-modelled)
3. [What TLC checks](#3-what-tlc-checks)
4. [Fairness](#4-fairness)
5. [What is proved](#5-what-is-proved)
6. [Where the code and its promises differ](#6-where-the-code-and-its-promises-differ)
7. [Abstractions](#7-abstractions)
8. [What is not modelled](#8-what-is-not-modelled)
9. [Plan](#9-plan)

Run from this directory, for instance: `tlc -workers 2 -config RoomPlays.cfg MCRoomSession`,
`tlapm RoomSessionProofs.tla`.

## 1. The system

The program is a desktop karaoke player for Windows. Five kinds of process take part:

- the **desktop backend** (`python/backend`, FastAPI on a thread pool) imports songs, separates and
  transcribes them in background jobs, and publishes the result as numbered revisions of a project;
- the **room server** (`python/backend/api/room_server_app.py`, the same code base, another process)
  keeps the rooms in which people sing together, relays voice, and serves the room's songs;
- the **AudioService** (C++) owns the devices, the realtime mixing, recording and the network audio;
- the **Electron main process** starts and watches the others and transfers projects;
- the **frontend** (TypeScript, React) drives the three through HTTP, long polls and a named pipe.

### Inventory

Each entry: the state it keeps; its operations; whom it talks to; what is hard; what makes it correct.

**Song processing** (`processing/`, `infrastructure/job_executor.py`, `infrastructure/sql_jobs.py`,
`projects/operations.py`). State: rows of jobs and songs, the executor's queue, tasks and cancel
events, the admission line, the leases of the resource budget, the registry of song operations.
Operations: StartProcessing, ReprocessMelody, CancelProcessing, worker loop, run_when_idle, shutdown,
start-up recovery. Calls the publisher, the model store and the stage cache. Hard: a job is handed
from a request thread to a worker, and each of job row, song row, claim, turn, lease and event is
changed under another lock or transaction; cancellation, refusal, exceptions, shutdown and crashes
come between any two of them. Correct: one owner per song, no song abandoned in a busy status, the
reported outcome is the one on disk, the budget holds, every accepted job ends.

**Rooms** (`room/`, `infrastructure/sqlite_rooms.py`). State: the stored room: participants in their
order of joining, roles, host and the clock of its absence, the selected song, playback, the deadline
(playout delay) of conversation and of singing. Operations: the commands of members, host and controllers, the failover of an absent
host and the sweep of unused rooms. Hard: the song starts by itself when the last condition is met, and any of
several apps may meet it; the deadline must stand still while somebody sings although seven commands
touch it; the host is recorded in three fields. Correct: one host, a song starts only when everyone is
ready and measured, a heard performance keeps its deadline, a room is never left without a host.

**Room locks and housekeeping** (`room/serialization.py`, `infrastructure/room_activity.py`,
`_RoomHousekeeping`). State: a registry of locks with user counts, the last use of each room.
Hard: locks are created and dropped while threads wait for them; the sweep takes none. Correct: the
commands of a room take turns, the registry does not grow, no update is undone.

**Watching a room** (`infrastructure/observable_rooms.py`, `api/room_server_app.py`, frontend
`roomClient.ts`, `RoomRecoveryCoordinator.ts`, `RoomSessionController.ts`). State: the version of each
room in the memory of the server, the version and snapshot each app has. Hard: versions are raised
after the room is stored and read before it, requests are lost, time out, and overlap with answers to
commands; the server restarts. Correct: no change is skipped for good, a closed room is noticed.

**Publication of projects** (`projects/`, `editor/save_document.py`, `packages/`,
`infrastructure/local_projects.py`, `infrastructure/recovery_journal.py`, `recovery/`). State: revision
rows, revision directories, staged files, journal entries, the active revision, the claim on the song.
Operations: publish a generated revision, save from the editor, migrate, import a package, recover.
Hard: files and database commit separately, with a crash or a failure between any two steps, and undoing is
itself a sequence of steps. Correct: the active revision is on disk, a committed revision never changes,
an edit is not replaced without being seen, a start puts everything in order.

**Song import and deletion** (`songs/`, `infrastructure/local_songs.py`): journalled moves of files
around a database transaction, with a quarantine; the same hazards on the same journal.

**Recordings** (`recordings/`, `infrastructure/recording_files.py`, frontend `recordingCoordinator.ts`).
State: the directory of a take with its file and its recovery descriptor, its row, its preparation job,
the quarantine. Operations: allocate, capture (by the AudioService), register, prepare, retry, recover,
reconcile at a start, delete, delete with the song. Hard: the audio exists before anything in the database
knows of it, two services write in one directory, and registration, preparation and removal meet.
Correct: captured audio is always findable, nothing is removed under a job, nothing is lost in a crash.

**Stage cache, AI workers, providers** (`processing/stage_runner.py`, `ai_worker/`): one stage at a
time in a child process with a timeout; results are numerical.

**Models, settings, storage, capabilities, diagnostics, history, lyrics, analysis**: single
transactions; the removal of a model takes part in the interleavings of song processing.

**Event stream** (`infrastructure/event_stream.py`): a bounded buffer with replay after a reconnect.

**Social hub and departures** (`social/`, `infrastructure/social_hub.py`, `api/social_socket.py`,
`infrastructure/room_departures.py`, Electron `SocialSocket.ts`). State: the sockets of each account with
the presence each told last, the departures that wait. Operations: connect, tell, disconnect, depart,
evict; friend requests and invitations with expiry. Hard: an app that reconnects has two sockets for a
while, departures sleep while others begin, and threads act on what the event loop decided before.
Correct: an app that returned within the grace stays, one that went away leaves its room.

**Voice relay** (`infrastructure/voice_*.py`, `AudioService/src/relay`): bounded windows of pending
packets by sequence number, session changes, and the timing policy computed from them.

**AudioService ring buffer** (`realtime/PcmRingBuffer`). State: two indices, the samples, the count of
users and the flag of a clearing thread. Hard: no lock; a third thread clears while the producer and
the consumer are inside. Correct: it is a queue, and clearing ends.

**AudioService media sources** (`media/MediaSource`). State: playback state, position, generation, the
ring, the requests to the decoding worker. Operations: load, play, pause, stop, seek, retune, unload. Hard: control
thread, worker and device callback share it with one mutex, atomics and generations. Correct: what is heard is the song
from the commanded position without a gap, an end is reached, no command hangs.

**AudioService recording** (`recording/`, `realtime/RealtimeEngine`). State: the recorder's state and
epoch, the bounded queue of blocks, the delay line that aligns voice and song, the writing worker.
Operations: prepare, start, pause, resume, stop, change of device. Hard: two producers, one of them the realtime
callback, a writer and control commands without a common lock. Correct: the file holds the frames
of the take, once and in order, with silence for those dropped; a pause takes nothing; commands return.

**AudioService sessions, clocks, jitter buffer, control pipe** (`session/ clock/ network/ ipc/`): state
machines behind one control pipe.

**AudioService backends, DSP, codecs, analysis**: drivers and numerical code.

**Electron main process** (`frontend/electron`): start, health, restart and update of the services.

**Frontend coordinators and pages** (`frontend/src/application`): optimistic state reconciled with
late answers; presentation.

## 2. What is modelled

| Module | Component | Kind |
| --- | --- | --- |
| `JobStates` | states and transition table of a job (`processing/domain.py`) | data |
| `JobLifecycle` | what a client may see of a job's row | abstract specification |
| `ProcessingJobs` | song processing in the backend | detailed specification, implements `JobLifecycle` |
| `RoomSession` | one room: membership, authority, performance | detailed specification |
| `RoomLocks` | the threads of the room server, their locks, the sweep | detailed specification |
| `RoomWatch` | how a change of a room reaches the apps | server and app composed |
| `RoomPresence` | the sockets of an account, its departures and its seats | app, hub and departures composed |
| `RevisionStore` | the revisions a reader of a song can rely on | abstract specification |
| `ProjectPublication` | everything that writes the revisions of a song, with the recovery | detailed specification, implements `RevisionStore` |
| `Recordings` | a take from its allocation to its removal, over two services | detailed specification |
| `FrameQueue` | a bounded queue of frames | abstract specification |
| `PcmRing` | the lock-free ring, access by access | detailed specification, implements `FrameQueue` |
| `Tape` | a song played from a position that can be moved | abstract specification |
| `MediaSource` | control thread, decoding worker and callback of a media source | detailed specification, implements `Tape` |
| `RecordingEngine` | callback, control thread and writing worker of a recording | detailed specification |
| `MC*` | fixed instances and restricted specifications for TLC | |
| `*Proofs` | the theorems about a module and their proofs; `RoomServerProofs` about `RoomLocks`, `RoomWatch` and `RoomPresence` | |

The three room modules cut one system along its locks. `RoomLocks` shows that the commands of a room
take turns between reading and saving it (`OneAtATime`, `NoUpdateUndone`), which is why a whole command
is one action of `RoomSession`; `RoomWatch` takes the saved rooms as a number of changes and follows
each to the screens. `RoomPresence` adds who is taken out of a room without asking. `RoomLocks`, `RoomWatch` and
`RoomPresence` share no names, so that one module of proofs extends the three.

The AudioService modules are cut at the ring: `PcmRing` shows that it is a queue, so `MediaSource` has a
sequence for it and `RecordingEngine` one for its queue of blocks, each push and pop one step.

### ProcessingJobs

A job is created by a request thread and then carried by one worker thread, never by both, so one
variable `at[j]` is the place in the code of whichever carries it; one action is one transaction or one
region under a lock, and everything else may happen between two of them.

| Variable | Code |
| --- | --- |
| `job`, `song`, `published` | rows of jobs and songs, committed revisions: what survives a crash |
| `op` | `SongOperationRegistry._active` |
| `queue`, `tasks`, `cancel`, `accepting` | `BoundedJobExecutor._queue`, `_tasks`, the events in it, `_accepting` |
| `waiting`, `admLock` | `StartProcessing._waiting` and who holds `_admission_changed` |
| `lease` | leases held from `ProcessingResourceScheduler` |
| `prior`, `songOf` | locals of the request: the status read first, the song named |
| `pending` | the state `jobs.cancel` returned to CancelProcessing, until it is written to the song |
| `removing` | `run_when_idle` holds the manager's lock while a model is removed |
| `process` | up, down, or how far start-up recovery has come |

Requests: `LoadSong LeaseMelody ClaimSong PreflightFails MarkQueued AddJob SubmitAccepted
SubmitRefused RestoreStatus DropLease ReleaseClaim` are the steps of `StartProcessing._launch`,
`ReprocessMelody.execute/_start` and `ProcessingJobManager.start/_submit` in the order of the code, their
`finally` blocks included. Workers: `Take Admit LeaveTurn Execute LoadWork MarkProcessing
CheckCancelled WorkFails Publish Unwind Settle Succeed SettleSong ReleaseOp ReleaseLease LeaveExecutor`
follow `BoundedJobExecutor._worker`, `ProcessingJobManager._run/_execute`, `StartProcessing._run/_finish`.
System: `RequestCancel UpdateSong BeginRemoval EndRemoval Shutdown Crash RecoverJobs RecoverSongs`.

### RoomSession

The room is a record with the fields of `room/domain.py` that commands branch on; a command is one
action that computes a new room and saves it (`Save`) or deletes it (`Delete`). The media commands
(`Start Pause Stop Seek`, `StartReady` for `start_ready_room`) are operators from a room to a room, as
they are functions in `commands.py`; `WithTiming` is `with_timing`. The order of the participants
mapping is the relation `older`, which has to be a strict total order for `next(iter(...))` to mean
the oldest. `select_room_timing` is a constant operator `SelectTiming` with only its range assumed:
the theorems hold for any policy, the runs use `Outline`, which tells apart a conversation, a
singing room, a room with an unmeasured route and a room without any. `sung` is a history variable:
the deadline the current performance was first heard with.

### RoomLocks

A command goes through `Arrive Register Acquire Load {Refuse | Save | Delete} Release Unregister`,
the code of `serialized_by_room` and `RoomLocks.hold`. `entry` and `users` are the registry; a lock is
named after the command that created it. The room is the set of commands whose change it carries, so a lost update is a command
missing from it. `Judge` and `Sweep` are the two halves of `sweep_once`.

### RoomWatch

Server: `Store` and `Publish` (`ObservableRoomRepository.save`, first half and second), `Admit Wake TimesOut
Read` of one held request, `Restart`, which forgets versions and requests. App: `Ask Show ShowFails
NoNews Closed Forbidden Lose Retry` of `watchRoom` and `RoomRecoveryCoordinator`, and `TakeReply`, the
answer to a command shown by `RoomSessionController.setSnapshot`. The room is the number of its
changes, so what is shown can be compared with what is stored.

### RoomPresence

One account. `link` is the socket the app holds, `handler[s]` where the server's coroutine of each
socket is: `greeting` (before `hub.connect`), `open`, `leaving` (after `hub.disconnect`, before
`departures.gone`), `closed`. `presence[s]` is what the hub knows from it. `departures` and `graces` are
`RoomDepartures._departures` and its sleeping tasks; `evicting` are the threads that leave the room.
Actions: `OpenApp CloseApp LoseLink Connect JoinRoom LeaveRoom SetPresence` of the app,
`Greeted Disconnect Gone` of a handler, `Expire Evict` of the departures, `Tick`, `ServerRestarts`. `told`,
`outdated` and `away` are history: what the server was told last, and for how long nobody was there.

### ProjectPublication

One song. `active` and `rows` are the database, `dirs` and `trash` the revision directories and the
quarantine, `journal` the recovery journal, `owner` the claim in `SongOperationRegistry`, `at[o]` and
`draft[o]` the place and the locals of each operation. Every operation is begun (`OpenEditor BeginSave
BeginWork Inspect BeginPackage BeginImport BeginDelete`), staged (`StageGeneration StageSave
StageMigration StagePackage`), renamed into place (`PublishRevision`), committed (`Commit`, `Activate`)
or undone (`RemoveRevision`), and its journal entry completed (`Complete`); a deletion goes through
`Quarantine DeleteRows FinalizeQuarantine`. Each of these steps has its failure, with the code's way of
handling it. `Crash` at any point, `Restart`, one `RecoverEntry` for each journal entry, `Ready`. The entries are
recovered in any order: they are read by file name, which is a random id. A package that finds the song
claimed is refused (`BeginPackage`). `overtaken` and `returned` are history, which no action reads: the packages that
were inspected and not yet at work when another package made its revision active, and the revisions
without a row that a recovery has put back among the songs.

### Recordings

One take. `home` and `trash` are its directory (a file that is not there, empty, captured or final, and
the recovery descriptor) in its place and in the quarantine, `row` the status of its row, `job` the place of its preparation job, `lock` who
holds `run_when_idle`, `journal` the entry of a song deletion. The AudioService side is
`AllocateTarget PrepareRecording CaptureFrames StopRecording`; registering is `RegisterRecording Look WriteDescriptor
Persist RemoveDescriptor Schedule Submit`; the job `StartJob PrepareFile MarkReady TidyJob Release` and its failures;
removing `DiscardTarget DeleteRecording DeleteSong Quarantine EraseRows FinalizeQuarantine`; the start
`Start RecoverTransactions Reconcile`. `Crash` is the end of the backend only: the AudioService goes on.

### PcmRing

Each access to shared memory is one action: `Enter Check CopyIn StoreWrite` of push, `Look CopyOut
StoreRead` of pop, peek and discard, `Leave Notify` of the lease, `Ask Drain Empty End Tell` of clear.
Samples are numbered in the order they are accepted. Stores and loads are sequentially consistent; the
code uses acquire and release on one index each and sequential consistency on the lease.

### MediaSource

`control` is the one command under way (`Call Lock`, then `Load Play Pause Stop Seek Retune` or
`Unload` with its wait), `worker` the decoding thread (`TakeRequest ApplyUnload Open ApplySeek DecodeChunk Read
PublishPending Fail`), `render` the callback (`Enter Look PopRing StorePosition CheckEmpty CheckEnd
Leave`). `generation` separates what was decoded before a seek from what comes after, and `suspended`
and `readers` are the gate that keeps the callback out while a command changes the state.

### RecordingEngine

`rec` is what the threads share of `RecordingEngine`, `engine` what they share of `RealtimeEngine`.
`push[t]` is the call of `push` the callback or the control thread is in (`ReadEpoch CheckTake
EnterProducer Recheck Place Publish ReleaseProducer WakeWorker`), `render` the callback (`BlockBegins
LookSuspended MixPerformance MixMaster BlockEnds`), `worker` the writer (`WriteBlock QueueIsEmpty CheckFinalizing
CheckQueueAgain Finalize WriterFails`), `op` the command (`Prepare OpenFile Start Pause Resume Stop
AwaitFinalized Abandon`, the tail of the delay line in `TakeTail AppendTail`, a change of device in `Invalidate
SetGeneration ReopenDevice`). Frames are numbered as they are rendered; `due` is the history of the
frames that belong to the take, `lost` the places of those that found the queue full.

## 3. What TLC checks

| Run | Instance | Shows |
| --- | --- | --- |
| `processing_races` | 2 song jobs, 2 songs, 2 workers, queue 1, 1 lease; everything enabled | ownership, leases, no abandoned song, truthful outcome, cancelled jobs do not work, both lines agree, quiet removal, `JobLifecycle` implemented |
| `processing_ends` | 2 song jobs, 1 melody job, a plain job before or after them, own songs, 1 lease; requests, workers, failures, shutdown | accepted jobs end, shutdown drains |
| `room_plays` | 2 people, 1 song, 2 routes, every command | one host, start, deadline |
| `room_hosts` | 3 people, membership commands | failover, liveness of authority |
| `room_locks` | 3 commands of 1 room, sweep | no lost update, every request ends |
| `room_watch` | 1 app, 4 changes, 2 faults | no skipped change, closing noticed, published versions fetched |
| `project_files` | one operation of each of 6 kinds and a second package, 3 revisions, 1 crash, failures everywhere | files and rows agree, recovery in any order of the journal, `RevisionStore` implemented, no claim kept, consent to older packages |
| `recordings` | 2 registrations, recovery, retry, deletion, song deletion, 2 crashes or failed transactions | captured audio findable and never lost, removals alone, preparations end |
| `room_presence` | 1 account, 3 sockets, 2 rooms, grace of 2 ticks, 1 restart | whole grace, who is gone leaves |
| `pcm_ring` | 3 frames, blocks up to 2, 4 frames in all, 2 calls of each caller, 2 clearing threads | `FrameQueue` implemented, clearing ends |
| `media_source` | 5 frames, ring 3, chunks of 3, blocks of 2, 3 commands | `Tape` implemented, songs end, commands return |
| `recording_engine` | 3 blocks of 2 frames, delay 3, queue 2, 4 commands after prepare, 1 change of device | the file is the take, pauses are silent, commands return |

Every property has a mutant in `PROJECT.json`: a plausible bug in one action, written
as an operator next to it ("Mutant ..."), under which TLC finds the property violated.

**Processing, safety.**
`SongOwnedOnce`: the registry compares operation kinds, not owners, and is released by refused
requests as well as by finished jobs; still one owner per song and an entry exactly while it owns.
`LeasesCoverWork`: heavy work holds a lease, the budget is never overdrawn, nothing over holds one.
`SongNotAbandoned`: a song Queued or Processing has a live job that will settle it, in any order of
refusals, failures, cancellations and restarts. `OutcomeMatchesPublication`: success means a committed
revision, and a committed revision is not reported cancelled. `CancelledNeverWorks`: also when the
cancellation came between the job row's commit and its registration in the executor.
`TurnsFollowTheQueue`: the admission line and the executor queue, two FIFOs under two locks, never
make a worker wait for a job that has no worker.
`RemovalIsQuiet`: no worker while model files are removed. `Lifecycle`: refinement of `JobLifecycle`.

**Processing, liveness.** `JobsEndUnlessReserved`, `ShutdownDrains`.

**Rooms.** `OneHost`: the three fields that name the host agree. `ReadyRoomStarts`: the song starts when
everyone is ready and measured, whichever report comes last. `DeadlineFrozen`,
`PerformanceKeepsItsDeadline`: what is heard keeps its deadline.
`FailoverGoesToTheOldestConnected`: to whom an absent host's room goes; it holds in rooms which an
absent host does not leave by command, and section 6 says what happens otherwise.
`AuthorityReturns`: a room without its host gets one or closes.

**Locks.** `NoUpdateUndone`: no save takes back another command's change. `RequestsEnd`.

**Watch.** `NewsIsCurrent`: what is shown has every change its version counts. `VersionsAreFetched`:
what is published reaches every watching app. `ClosedIsTold`: whatever restarts, losses and removals
come before.

**Departures.** `WholeGrace`: a departure takes a participant out only after the whole grace has passed
since the last goodbye, however many connections came and went. `ClosedAppLeaves`: who closes the app leaves its room.

**Projects.** `CommittedIsOnDisk`: a committed revision has its directory, or an entry that will bring it
back, at every step of every operation. `StartRestoresOrder`: in whatever order the recovery reads the journal, when it
is done every committed revision is in its place, the quarantine is empty, and a directory without a row is there only
if the recovery has put it back with its song. `KeepsItsPromises`: refinement of `RevisionStore`: revisions do
not change, a generation never replaces edited lyrics, a save replaces what its client saw.
`SongIsFreeAgain`: no claim is kept for ever. `OlderNeedsConsent`: an imported package makes the active revision go
back to an older one only if the user has accepted that, if the library has that revision already (it is activated
without a question), or if another package was imported between its inspection and its claim. Each of the last two is a case of
section 6; what generations, saves and migrations publish in the meantime adds none.

**Recordings.** `TakeIsFindable`, `RemovalIsAlone`, `NothingLost`, `PreparingEnds`.

**Audio.** `RingIsQueue`, `PlaysTheTape`: refinements of `FrameQueue` and `Tape`. `ClearEnds`,
`SongEnds`, `CommandsReturn`, `RecorderAnswers`: no lost wake-up, nobody waits for ever.
`FileIsTheTake`: the file is at every moment the beginning of the take, with silence where the queue was full.
`PausedTakesNothing`: not even from the callback that was running when the pause came.

Each module states its types in `TypeOK`, which holds in the instances of the runs and is proved where section 5
says so; it is not a property of the runs. Neither are `TurnIsRegistered`, `StartsTogether`, `AbsenceIsTimed`, `OneAtATime` and
`RegistryIsExact`, which hold and are stated in the modules as steps towards the others; all of them are proved, `AbsenceIsTimed` for rooms
which an absent host does not leave by command.

### Bounds

*Processing.* Two jobs on one song are needed for a race over it and are enough for the release of
another's claim; a queue of one makes refusal happen beside acceptance; one lease makes every second
job wait; two workers let one wait in admission while the other works. Liveness needs two song jobs in
the line and a melody job holding the lease; each on its own song (`OwnSongs`), since the race for
songs is checked by the other run; a plain job meets the others only in the executor's queue.
*Rooms.* Two people give every pair of host and guest, absent and present; the order among heirs needs a
third, and then the song is left out, which membership never reads except to set readiness. Two routes
beside "not measured" let a deadline change; four outcomes of `Outline` are told apart.
*Locks.* Three commands: one leaves while one holds and one waits, the case for a dropped entry.
*Watch.* Four changes and two faults allow a change before, during and after each request, two
restarts, or a loss and a restart; apps do not interact except through the room, so one is followed
and `Elsewhere` stands for the others; the theorems have no such bounds.
*Departures.* Two sockets overlap during a reconnection, the third is the one that comes back after
both; a grace of two ticks lets two departures sleep with different rests; two rooms let a goodbye be
of another room than the account is in. 283 thousand states.
*Projects.* The registry lets one operation work at a time, so two matter: one that read before and one that
committed meanwhile; one of each kind gives every pair. Two publications over the initial revision need
three numbers. One crash reaches every intermediate state; a second one during the recovery repeats an
entry, which `RecoverEntry` with `kept` already covers. A second package shows one that decided before the other was
imported; it comes only where of all others the first package and the generation are at work (`Instance` of
`MCProjectPublication`), because two packages among all six kinds and a crash are too many states, and what else publishes between
a package's decision and its claim is there with the first one. 758 thousand states.
*Recordings.* Two registrations, because the second may find the first one pending; one of every other
request; two faults let a crash follow a failed transaction or another crash. 314 thousand states.
*Ring.* Capacity 3 and blocks of 2 wrap in the middle of a block; two clearing threads contend for the
flag. 518 thousand states.
*Media.* The worker decodes when the ring is not yet empty, so a chunk of its size is published in
parts; the song has a partial last chunk and ends within a block; three commands put one between two others.
95 thousand states.
*Recording.* A delay of 3 is not a multiple of the block of 2, so the tail is a partial block; a queue of
one block overflows at the second; commands: a take, its pause, its resumption and its end, or two takes. 932
thousand states.

Symmetry is used only in runs without liveness (`processing_races`, `room_plays`). `CHECK_DEADLOCK
FALSE` where the system may stop: a deleted room, all requests answered, a stopped watch, a song
played, the bounded callbacks rendered, and
`processing_ends`, where the instance can end with all jobs over, or in the blocked state of section 6.

## 4. Fairness

Weak fairness, but for one case, and only where the code schedules the step by itself:

- **Processing**: `Advance(j)`, what a worker thread goes on to do, because threads are scheduled and each stage and
  child process has a timeout; the continuation of a request that has begun; the end of a model's
  removal. Nothing forces a new request, an admission error, a cancellation, a shutdown or a crash.
- **Rooms**: the grace of an absent host is a fixed time (`host_grace_seconds`), and the sweep asks
  every room every two seconds (`ResolveHostDisconnect`). The liveness of authority supposes that an
  absent client does not report its absence again and again, since each report starts the grace anew
  (`OrderlySpec`).
- **Locks**: `Work(c)`, the thread of a request that came in. A lock is contended by finitely many
  requests here; with an endless stream of them, Python's locks promise no order.
- **Watch**: a request is answered after at most 25 s, the app asks again at once or after 1 s, and the
  answer is received. Closing a room, changing it, losing an answer and restarting are never forced.
- **Departures**: the event loop runs the handlers, timers fire, threads run. The app is free to do nothing.
- **Projects, recordings**: a thread goes on to the end of what it began, and the desktop app starts a
  backend that ended again. No request, no failure and no crash is forced; a take need not end.
- **Ring**: a call that began goes on. `ClearEnds` needs that the callers make finitely many
  calls (`MaxCalls`): with callers that never pause, `users_` need not be seen at 0.
- **Media**: weak for the worker and for the callback, which the device calls periodically. Strong for a
  command, which takes a contended mutex and then needs one moment without a reader: the worker releases the
  mutex again and again, and the callback leaves between two periods, `suspended` keeping the next one out.
- **Recording**: one condition over the three threads, so that any of them moves while one can; stronger
  ones are not needed because the number of callbacks is bounded and every wait has a timeout or a wake-up.

## 5. What is proved

TLAPS checks the following for every value of the constants: any number of jobs, songs, workers,
people, commands, rooms, apps, changes, operations, revisions, requests, crashes and faults, any capacity, block and
delay. Each proof module ends in its theorems; what comes before are the invariant and its lemmas.

| Theorem | Says |
| --- | --- |
| `TypeCorrect` | `ProcessingJobs` keeps its types |
| `LifeInvariant` | the inductive invariant `LifeInv` |
| `CancelledStops`, `OutcomeCorrect` | `CancelledNeverWorks`, `OutcomeMatchesPublication` |
| `LifecycleImplemented`, `SavesFollow` | `ProcessingJobs` implements `JobLifecycle`, whose saves follow the transition table of the code |
| `OwnershipCorrect`, `SongsSettle` | `SongOwnedOnce`, `SongNotAbandoned` |
| `ResourceInvariant`, `LeasesCorrect`, `RemovalCorrect` | `LeasesCoverWork`, `RemovalIsQuiet` |
| `TurnInvariant`, `TurnsRegistered`, `TurnsKeepOrder` | `TurnIsRegistered`, `TurnsFollowTheQueue` |
| `RoomInvariant`, `RoomTypeCorrect` | the inductive invariant `RoomInv`; types |
| `HostCorrect`, `DeadlineCorrect` | `OneHost`, `PerformanceKeepsItsDeadline` |
| `StartCorrect`, `FreezeCorrect` | `StartsTogether`, `DeadlineFrozen` |
| `ReadyCorrect` | `ReadyRoomStarts` |
| `AbsenceCorrect`, `FailoverCorrect` | `AbsenceIsTimed`, `FailoverGoesToTheOldestConnected`, where an absent host does not leave by command |
| `LocksInvariant`, `LocksTypeCorrect`, `CommandsTakeTurns`, `RegistryCorrect`, `UpdatesKept` | the four safety properties of `RoomLocks` |
| `WatchInvariant`, `WatchTypeCorrect`, `NewsCorrect` | the safety properties of `RoomWatch` |
| `PresenceInvariant`, `PresenceTypeCorrect`, `GraceCorrect` | the inductive invariant `PresenceInv` of `RoomPresence`; types; `WholeGrace` |
| `PublicationInvariant`, `PublicationTypeCorrect` | the inductive invariant `PublicationInv`; types |
| `CommittedStaysOnDisk` | `CommittedIsOnDisk` |
| `StartRestores` | `StartRestoresOrder`, whatever the order of the journal |
| `LibraryKeepsItsPromises` | `KeepsItsPromises`: `ProjectPublication` implements `RevisionStore` |
| `PackagesNeedConsent` | `OlderNeedsConsent`, for any number of packages |
| `RecordingsInvariant`, `RecordingsTypeCorrect` | the inductive invariant `RecordingsInv`; types |
| `TakesAreFound`, `RemovalsTakeTurns`, `AudioIsKept` | `TakeIsFindable`, `RemovalIsAlone`, `NothingLost` |
| `RingInvariant`, `RingTypeCorrect` | the inductive invariant `RingInv`; types |
| `RingImplementsQueue` | `RingIsQueue`: `PcmRing` implements `FrameQueue` |
| `RecordingInvariant`, `RecordingTypeCorrect` | the inductive invariant `RecInv` of `RecordingEngine`; types |
| `FileIsAlwaysTheTake`, `PauseIsKept` | `FileIsTheTake`, `PausedTakesNothing` |
| `MediaInvariant`, `MediaTypeCorrect` | the inductive invariant `MediaInv` of `MediaSource`; types |
| `TapeImplemented` | `PlaysTheTape`: `MediaSource` implements `Tape` |
| `FinishedSongIsDecoded` | a song that is over is decoded to its last frame; what is unplayed is in the ring |
| `FinishedWhenHeard` | `FinishedIsTheEnd`, if the worker publishes nothing between the callback's two looks |

### Assumptions

`JobsAssumption` (the kinds of jobs are disjoint and `NoJob` is none of them), `BoundsAssumption`
(workers, capacity and leases are positive), `NothingAssumption` (the marks for no song, no route, no
deadline are none of the real ones), `TimingAssumption` (the timing policy always gives a deadline),
`CommandsAssumption` (finitely many commands, and `NoLock` is none), `ElsewhereAssumption`, `PresenceAssumption` (there is a grace),
`OpsAssumption`, `ContentAssumption` and `RecordingsAssumption` (the kinds of operations and of requests are
disjoint, and the marks are none of them), `RingAssumption`, `RecordingAssumption` and `MediaAssumption` (capacities,
blocks and chunks are positive, the other sizes and bounds natural numbers). TLC evaluates all of them in the runs. Three theorems have a hypothesis of their own: `AbsenceCorrect` and `FailoverCorrect` are about
`Init /\ [][Next /\ HostStays]_vars`: a host who is away does not leave by command, without which `RoomLeft.cfg` is a
counterexample (section 6). The run `room_hosts` makes the same restriction. `FinishedWhenHeard` supposes `[]LooksAtOnce`, that the ring is still empty when the
callback looks for the end; `MediaFinish.cfg` is the counterexample without.

### Arguments

*Processing.* What a client reads is a row; what is going on is the place in the code. `LifeInv` ties
them: for each phase the states the row can have, and for a committed revision the phases and states
it can be seen with. It needs three supports to be inductive: each kind of job stays on its own path
(`PhaseFitsKind`), the executor's queue holds a job once, and only while the job is in it
(`QueueHoldsWaiting`, otherwise `Take` could start a job twice), and a stopped process carries nothing
(`Still`). Truthful outcome, cancellation and the refinement of `JobLifecycle` follow from it step by
step. `SongOwnedOnce` is inductive above `LifeInv`: a claim succeeds only on a free entry, and whoever
releases an entry is its one owner. `SongNotAbandoned` rests on ownership: a step changes at most the
song of its own job, so a step that leaves a song busy leaves the owner that will settle it.
`ResourceInv` says which phases hold a lease and which a task, that the leases are within the budget,
and that a removal excludes tasks.

*Rooms.* `RoomInv` is `TypeOK`, `OrderInv`, `OneHost` and `SongInv`. `OrderInv`, every group of members
has an oldest, is needed so that an heir exists and is a member; it holds because a joiner is placed
after everyone and leaving removes pairs. `SongInv` says where the deadline of a heard performance is
while it plays (`timing`), is paused (`singing`) or counts down again (both): without the last clause
a resumed countdown could be refined by a route report, which is the mutant `SetTimingResumed`. Each
command is shown to save a room that `Keeps` the song, through one lemma per media operator, and to
keep the people in order, through `MembershipPeople`. `ReadyRoomStarts` compares what makes a room wait before and after
each command: the three that can complete the readiness of a room end in `StartIfReady`, whose result never waits; the
others change nothing it depends on, or are departures. `FailoverGoesToTheOldestConnected` needs that the host that is
replaced is not itself connected, for then the heirs are all the connected; that is `AbsenceIsTimed`, one direction of
the tie between the clock and the host. The other direction does not hold: a present host who leaves may hand the room to
somebody who is away, and no clock runs.

*Locks.* `LocksInv` adds to the properties that everyone inside `hold()` has the lock of the registry
(`LockIsRegistered`), which gives turns from the exclusion of one lock, and that a loaded room is still
the stored one (`LoadIsCurrent`), which gives that a save loses nothing. The count of users is a
cardinality; a step that moves one command in or out of `hold()` adds or removes one element.

*Watch.* `WatchInv`: a version counts stored changes, strictly fewer while one is being published, and
an answer on its way has the changes its version counts. Both orders, store before publish and
version before room, are used exactly once.

*Presence.* The departures that wait carry consecutive numbers, and the entry of the account is the number of the last
(`Numbered`), although the entry is removed and counting begins again: it is removed only with the last that waits. So
the one departure that still finds its number is the last one that waits. `AwayAsLong`
compares two clocks: while nobody of the account is connected, and no goodbye is under way, the time without a socket in
a room is at least the age of the last departure. Both together give `WholeGrace`.

*Turns.* `TurnInv`: a job is in the admission line from the moment it is added until it leaves its turn, and the one
that is being added is the job of the request that holds `_admission_changed` (`TurnFits`); of two jobs in the line the
earlier is on a worker if the later is, and before it in the executor's queue if both are queued (`OrderFits`). A new
job goes to the end of both lines because the lock is held across both additions.

*Projects.* `PublicationInv` says four kinds of things. Who may be where: whoever is between its claim
and its end is the registry's owner (`Owners`), except the import of a song, whose song nobody else knows (`Making`).
What the journal knows: an operation that could leave something half done has its entry, and an entry names what its
operation publishes (`Logged`, `Entries`). What a claim protects: the base of a work is still the active
revision, and a generation has seen that its lyrics are not edited (`Based`). And where the files are: in the
songs, or all of them in the quarantine for a deletion or import the journal knows (`Quarantined`), and equal to the
rows but for a revision that is published and not yet committed (`OnDisk`). `OnDisk` is the delicate one: such a revision
has an entry that will remove it (`Pending`), unless the recovery has read that entry while the song was in the quarantine:
then the directory is still there (`Away`) or has been put back (`returned`). When the journal is empty, the quarantine is
(`Quarantined`), so only the last case is left, which is `StartRestoresOrder`. The refinement maps a revision to what a reader finds, in
the songs or in the quarantine, and that is its row (`KeptIsRows`).
`OlderNeedsConsent` is about what happens between the decision and the claim. A package that needed no consent, and whose
revision the library did not have, was newer than the active revision; works that commit meanwhile go on from the active
one and skip no free number (`Filled`), so none gets past the package's number without taking it, and then the package
fails (`Newer`). The number could be free again only if it was another package's and that was undone; such a package
(`Revocable`) has not committed, so no work could go past its number. Only a package that commits can overtake.

*Recordings.* `RecordingsInv` holds beside `TypeOK`, `RemovalIsAlone` and `TakeIsFindable`: that nobody works while the
backend is down, and only the starting thread while it starts (`StillUnlessUp`); that a take that has not stopped is known to
the audio service only (`UnstoppedIsPrivate`, which is why a song deletion may move its directory but never captured audio); for
each place of a removal what it has moved and what the journal lists (`RemovalFacts`); that a registration past
its row, or a job, has a row while there is audio it could be restored to (`ClaimedHasRow`); and that audio in the
quarantine without a descriptor and without a row is about to be removed for good (`LeftForGood`): otherwise a crash could bring
back a take that nothing finds. `TakeIsFindable` and `NothingLost` fail without the last two.

*Ring.* `LeaseInv`: `users_` is the number of callers inside, the flag makes one clearing thread, and one that empties
found nobody inside after it set the flag. `IndexInv`: the counters stay a capacity apart, so slots
that differ in frame differ in place (`SlotsDiffer`, the one lemma about the remainder). `PushInv` and
`ReadInv` follow a block while it is copied: the producer writes slots no reader will look at before the index
moves, the consumer's copy is the oldest frames of the queue, and both survive the steps of the other because the other only moves
its own index. The queue of the refinement is the slots between the counters; the store of an index is
the only step that changes it.

*Recording.* `RecInv` has a control half and a data half. Control: `producers` counts the calls past
`EnterProducer`; a call that is between the second check and the queue has the tap of the take, and its epoch
makes it one of this take (`TapFits`); the control thread holds the performance only while the callback is out of it
(`CallbackFits`), so the two producers never place or publish frames at once (`Exclusive`), and a pause, an end or a
closing file has nobody in between (`Quiet`, `WorkerFits`). A change of the device is a generation that
only a running `Reconfigure` leaves different (`Generations`). Data: `due`, the frames that belong to the take, is
followed on its way. With the callback at work it is what has its place on the timeline and what the aligner still delays
(`Aligned`: in step with the callback's own block, and shifted by the rest of the lead); once control has taken the
tail it is the timeline and the tail (`TailFollows`); otherwise it is the timeline alone (`Whole`). What has
its place is in the file, in a queued block, in the block being published, or lost to a full queue
(`NoGap`), each with the right frames and in order (`FileHolds`, `QueueHolds`, `PutHolds`). `FileIsTheTake` is
a consequence of the last three, but `Place` can only be shown to keep them because the data half
says that the frames it places are the next of `due`, and the control half that nobody else places.

*Media.* `MediaInv` follows the song from the ear back to the file. `At` is the position with what the callback has
taken and not yet counted; the ring holds the frames after it (`RingFollows`), and, if the worker decodes for the last
command (`Current`), the chunk it holds and the decoder continue the ring (`Continues`) or it is about to move the decoder
to the position (`Restarting`). Otherwise what the worker has is thrown away, because generations only grow and
a request that waits carries the newest (`Asked`, `Generations`). Two cases are not obvious. An unload passes the worker
between two halves of a command, in which nothing else is asked (`Emptied`). And after an error that could not move
the decoder, it is somewhere else although the generation is the current one; then the source is `Failed` or about
to be, no end of the file is noted for that generation, so that no callback can leave `Failed` for `Finished`, and nothing is
decoded before the next command (`Lost`). `EndInv` adds when the end of the file is noted: the decoder has met it with
nothing left to read and nothing left to push, so the ring reaches to the last frame. What `Finished` leaves
unplayed is in the ring, then, and the ring is empty but for the case of section 6.

### Only model-checked

- Liveness under fairness (`JobsEndUnlessReserved`, `ShutdownDrains`, `AuthorityReturns`, `RequestsEnd`,
  `ClosedIsTold`, `VersionsAreFetched`, `ClosedAppLeaves`, `SongIsFreeAgain`, `PreparingEnds`, `ClearEnds`,
  `SongEnds`, `CommandsReturn`, `RecorderAnswers`): these need ENABLED, which is beyond the prover.
- That the queue of `RecordingEngine` stays within its capacity: the frames queued are a fold over the blocks, and what a
  fold computes would need induction over data. Nothing proved depends on it: a block that finds no room is `lost`,
  however the room is counted.

## 6. Where the code and its promises differ

Met while modelling. Each of these has a configuration beside the runs, with which TLC shows the
steps (for instance `tlc -config RoomLeft.cfg MCRoomSession`):

- `ProcessingStuck.cfg` (`MCProcessingJobs`, `SongNeverStuck`): a song whose job was cancelled is `Cancelling`;
  if the stage then raises an unforeseen exception, `_settle_unfinished` (`start_processing.py:233`)
  leaves it so, and it refuses every start until a restart settles it (`reconcile_songs.py:16`).
- `ProcessingBlocked.cfg` (`MCProcessingJobs`, `AcceptedJobsEnd`): ReprocessMelody reserves its lease before
  its job is queued; when every worker holds a processing job that waits for that lease, nothing moves until
  somebody cancels.
- `RoomLeft.cfg` (`MCRoomSession`, `LeavingHandsToTheOldestConnected`): a leaving host hands the room to the
  oldest participant, connected or not. The same configuration with `FailoverGoesToTheOldestConnected`:
  an absent host that leaves hands over with the clock of its absence running
  (`membership_commands.py:151`), so a connected successor loses the room when that grace is over. A host that is
  present and leaves may hand the room to somebody who is away; then no clock runs, and the room keeps an absent host
  until that one returns, leaves or is reported absent again.
- `RoomLocksUndone.cfg` (`MCRoomLocks`, `DeletedForGood`): the sweep deletes a room between the load and the
  save of a command, which stores it again, without its uploaded songs.
- `RoomWatchRestarted.cfg` (`MCRoomWatch`, `CatchesUp`): versions start again at 0 with the server, and an app
  that remembers a higher one takes every answer for old until they outgrow it.
- `ProjectOlder.cfg` (`ProjectPublication`, `NewerStays`): whether a package replaces a
  newer revision is decided before the claim (`import_package.py:49`) and not again after it; when another package is
  imported between the two, the active revision goes back without the consent `greenfield-spec.md:1853` asks for.
- `ProjectAgain.cfg` (`ProjectPublication`, `NewerStaysOnReimport`): the editor makes revision 2, then a package
  exported at revision 1 is imported. The library has its revision, so it is a `SameRevision` that needs no consent
  (`import_package.py:181`), and revision 1 becomes the active one (`import_package.py:192`). The documentation calls the
  import of a `SameRevision` idempotent (`greenfield-spec.md:1847`) and asks for a choice before a newer revision is
  replaced (`:1853`), but does not say which of the two holds for a revision that is both.
- `ProjectStray.cfg` (`ProjectPublication`, `StartRollsBack`): a publication fails after its
  directory is in place and leaves both to the next start; a deletion of the song is cut short by a crash. If the
  recovery reads the entry of the publication first, it finds no directory, because the song is in the quarantine, and
  completes the entry (`recover_transactions.py:54`); then the song is put back, with that directory, which no row and no entry
  knows. The other order removes it: `greenfield-spec.md:2424` has "finish or rollback deterministically".
- `RecordingsStart.cfg` (`Recordings`, `SurvivesCrashes`): a registration that found the take in its place
  writes the descriptor after a song deletion has moved the take to the quarantine, and so makes the directory
  again; if the backend crashes then, the recovery cannot move the quarantined one back over it
  (`recording_files.py:144`), and the backend starts neither now nor the next time
  (`greenfield-spec.md:2394`: the backend survives a crash in a song deletion).
- `MediaFinish.cfg` (`MediaSource`, `FinishedIsTheEnd`): the callback looks whether the ring is empty
  first and for the end of the file after it (`MediaSource.cpp:413`); when it underruns and the worker pushes
  the last frames and notes the end between the two, the song is over with those frames unplayed (the
  extension document, section 16, and the test `mediaEofFinishesWithTheExactSampleCount` have the exact end).
- `RecordingStops.cfg` (`MCRecordingEngine`, `StopReturns`): `pause` and `resume` check the state and then store
  the new one unconditionally (`RecordingEngine.cpp:174`, `:191`); when the writer fails between the two its
  `Failed` is replaced, and the next `stop` waits for a worker that is gone.

Without a configuration; the steps are in the modules:

- `cancel_processing.py:30`: a late or repeated cancellation of an old job writes its state to a song a newer job
  is processing (`RequestCancel`, `UpdateSong`).
- `membership_commands.py:161`: when the last participant who was not ready leaves, nothing starts the
  song; `ReadyRoomStarts` therefore excepts `Departures`.
- `room_server_app.py:91`: a room named by a request after the sweep judged it unused is deleted all the same
  (`Judge`, `Arrive`, `Sweep`).
- `RoomSessionController.ts:136`: the late answer to a command is shown over a newer snapshot of the
  watch, which does not come back (`TakeReply`).
- `roomClient.ts:110`: the version is remembered before the snapshot is handled; if the audio service
  then refuses it, it is not asked for again (`ShowFails`).
- `room_server_access.py:14`: a participant removed between two polls is refused the next one, takes that for a lost
  connection and asks for ever (`Forbidden`).
- `room_departures.py:16`: a half-open older connection that ends after the newer one speaks for the account with
  its own, older presence: the seat of the newer stays (`outdated` in `ClosedAppLeaves`).
- `social_socket.py:73`: between the hub's disconnection and `gone`, the timer of an earlier departure can
  fire and take the participant out at once, not after the whole grace (`leaving` in `WholeGrace`).
- `save_document.py`: a save takes the next number after the active revision; while a directory of that number is left, every
  save of the song conflicts until a generation skips the number.
- `delete_recording.py`: the deletion of one take has no journal entry, so a crash between the quarantine and
  the deletion of the row leaves a row without a file, which no recovery restores (`DeleteRecording`).
- `MediaSource.cpp`: a load that fails after a seek, stop or retune came while it was opening is taken for an
  outdated one and its failure dropped: the source stays in a state from which play is accepted, in silence (`opened` in `SongEnds`).

## 7. Abstractions

- Time is phases: a countdown, its last second, the song sounding; a grace running or over; an hour
  without use. Phases of different clocks are not ordered with each other, so every order is allowed.
- What a stage computes is one step that succeeds, fails in a foreseen or unforeseen way, conflicts or is cancelled.
  The budget is a number of leases of one size.
- `_settle_unfinished` reads and writes the song in two transactions (`start_processing.py:232`); `SettleSong` is one
  step: what a late cancellation writes to the song between the two is written over, and the song ends as it does
  without it.
- `ProjectInvalid`, which only the reconciliation of the library writes, is treated as `Failed` is.
- A room leaves out what no modelled command branches on (tempo, key, gains, radio, library); the return reserve a room
  is created with is not told apart from one that was computed.
- A rejoining participant is unmeasured again, as in the code; identity and tokens are checked before
  the command and appear only as membership.
- The latest snapshot is all the app keeps, so the queue of synchronizations is collapsed to it.
- A held request sees a version at its waking and the room at its reading, as in the code; the
  transport delays, loses, but does not duplicate (one request is open at a time).
- A lock is reentrant in the code and no modelled command enters it twice.
- A thread step that reads or writes one shared atomic is one action, and the orders of memory are taken
  as sequentially consistent; locks are held across the steps that hold them in the code.
- *Departures*: a greeting, a goodbye and a reconnection take less than a tick (`Settled`): the grace is
  60 s (`room_server_app.py:56`) and the app reconnects within 30 s. The accounts' own
  record of rooms (`accounts.left`) and the friends told are left out.
- *Projects*: the directories are changed by the program only; the content of a revision is who wrote it, the
  state of its lyrics and whether it is of an old format; the content lock is taken only under the claim and
  adds no order of its own; removing a directory during an undo succeeds; the clip of a package, the status of the song and
  the library archive are left out. A client of the editor survives a crash of the backend.
- *Recordings*: a song deletion is shorter than a take (`StopRecording`); Windows refuses to move a
  directory with an open file (`Movable`); the executor's slots, idempotency keys, metadata, later revisions of a
  recording and the archive are left out.
- *Ring*: the tags, times and epoch that travel with the frames and the wrapper with a generation are left out.
- *Media*: a seek goes to a frame of the song: the code clamps it once the length is known
  (`MediaSource.cpp:203`). Looping, a start scheduled by the clock of a room and the resynchronization to it, rates, loudness,
  the flush of the processor's latency and the destructor are left out.
- *Recording*: what else is written beside the samples (session frames, gaps, gain, overruns), the companion
  files, taps other than performance and master (they take the way of master), the lateness of the voice in
  the aligner and the destructor are left out. `Place` is one step for the room check, the lead and the timeline of
  `push`, because the producers exclude each other; the limit of block descriptors (one for each frame
  of the capacity, `RecordingEngine.cpp:112`) and of 2048 frames for a chunk of the tail (`:210`) are left out beside the
  capacity in frames. A wait on an atomic is a guard.

## 8. What is not modelled

`PROJECT.json` lists every component with its status. Within modelled components: idempotency keys and
progress reports (processing); the library of a room and its republishing, tempo and
position arithmetic, the timing policy itself (rooms); friends and invitations (social hub); the
transfer of a project and the voice session (frontend). Whole components: the event stream, the
voice relay, the sessions, clocks, jitter buffer and control pipe of the AudioService, the Electron main process and the remaining coordinators, in the order of
the plan below.

Most of the repository has nothing a model of this kind could say: verification and artifact scripts that are
run once and compare recordings, the numerical code of stages, scoring, DSP and codecs, device drivers, lyrics
providers, validation, wiring, pages, translations and packaging. The share of lines the map covers is
small for that reason, and not because the modules stop half way: the concurrent core of the program is a small part of its text.

## 9. Plan

Done, with their proofs: `JobStates`, `JobLifecycle`, `ProcessingJobs`; `RoomSession`, `RoomLocks`, `RoomWatch`, `RoomPresence`; `RevisionStore`,
`ProjectPublication`; `Recordings`; `FrameQueue`, `PcmRing`; `Tape`, `MediaSource`; `RecordingEngine`. Every safety property a run
checks is stated by a theorem. Next, in this order:

1. `RoomLibrary` and `RoomTimeline`: the order of shared songs; position under tempo changes.
2. `EventStream`: replay after a reconnect against a bounded buffer.
3. `VoiceWindow`: pending packets of the voice relay by sequence number, session changes, expiry; the
   jitter buffer of the AudioService has the same shape.
4. `AudioSession`, `ServiceSupervisor`: the state machines of the AudioService sessions and of the
   managed processes in Electron.

The runs are few and broad, one or two for each component, so that a change of one module is checked in minutes.
