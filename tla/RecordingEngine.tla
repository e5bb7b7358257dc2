-------------------------- MODULE RecordingEngine --------------------------
(***************************************************************************)
(* A recording of AudioService: the render callback of the device pushes    *)
(* blocks of frames into a queue and never waits, a worker writes them to   *)
(* the file, and the control thread prepares, starts, pauses, resumes and   *)
(* stops the take or changes the device under it (RecordingEngine, and the  *)
(* part of RealtimeEngine that owns the performance).                       *)
(* A frame is its number in the session.  A take of the performance goes    *)
(* through the aligner, which delays it by Lead frames; one of the master   *)
(* does not.  The companions of a take (backing, vocal, dry, timeline) move *)
(* with its frames; its metadata is left out.                               *)
(***************************************************************************)
EXTENDS Integers, SequencesExt

CONSTANTS
  Block,        \* frames of one callback
  Lead,         \* PerformanceAligner.leadFrames_
  Capacity,     \* queue_.capacityFrames
  MaxBlocks,    \* bound of the callbacks
  MaxCommands,  \* bound of the commands
  MaxChanges    \* bound of the changes of device among them

ASSUME RecordingAssumption ==
  /\ Block \in Nat \ {0} /\ Lead \in Nat /\ Capacity \in Nat \ {0}
  /\ MaxBlocks \in Nat /\ MaxCommands \in Nat /\ MaxChanges \in Nat

VARIABLES
  rec,     \* what the threads share of RecordingEngine
  engine,  \* what they share of RealtimeEngine
  push,    \* the call of push each producer is in
  render,  \* the callback of the device
  worker,  \* the writing thread and its file
  op,      \* the command of the control thread
  due,     \* history: the frames that belong to the take
  lost,    \* history: the places of those that found the queue full
  revived  \* history: pause or resume replaced the state Failed

vars == <<rec, engine, push, render, worker, op, due, lost, revived>>
histories == <<due, lost, revived>>

Silence == 0
Taps    == {"Performance", "Master"}
Threads == {"render", "control"}
Frames  == Nat
Open    == {"Prepared", "Recording", "Paused"}
Zeros   == [i \in 1..Lead |-> Silence]

\* The frames the running callback renders.
Own == [i \in 1..Block |-> Block * engine.blocks + i]

Least(a, b) == IF a < b THEN a ELSE b
Drop(s, n)  == SubSeq(s, n + 1, Len(s))
Queued      == FoldLeft(LAMBDA n, b : n + Len(b.frames), 0, rec.queue)

NoPush  == [at |-> "done", tap |-> "Master", frames |-> <<>>, offset |-> 0,
            generation |-> 0, epoch |-> 0, wakes |-> FALSE]
NoCallback == [at |-> "idle", generation |-> 0, active |-> FALSE]
NoCommand == [at |-> "idle", name |-> "none", tap |-> "Master", next |-> "Finished",
              preserve |-> FALSE, tail |-> <<>>]

States  == Open \cup {"Idle", "Finalizing", "Finished", "Failed"}
Recs    == [state : States, epoch : Nat, generation : Nat, tap : Taps, lead : 0..Lead,
            timeline : Nat, producers : 0..2, queue : Seq([offset : Nat, frames : Seq(Frames)])]
Engines == [suspended : BOOLEAN, readers : 0..1, aligner : Seq(Frames), blocks : 0..MaxBlocks,
            generation : 0..MaxChanges, device : 0..MaxChanges, commands : 0..MaxCommands]
Calls   == [at : {"done", "reading", "checking", "entering", "rechecking", "placing", "publishing",
                  "leaving", "waking"},
            tap : Taps, frames : Seq(Frames), offset : Nat, generation : Nat, epoch : Nat,
            wakes : BOOLEAN]
Renders == [at : {"idle", "looking", "performance", "master"}, generation : Nat, active : BOOLEAN]
Writers == [at : {"none", "top", "writing", "checking", "closing", "finishing", "asleep", "gone"},
            woken : BOOLEAN, terminate : BOOLEAN, file : Seq(Frames)]
Orders  == [at : {"idle", "preparing", "joining", "holding", "appending", "storing", "pausing",
                  "finalizing", "stopping", "failing", "abandoning", "released", "renumbering",
                  "reopening", "resuming"},
            name : {"none", "Prepare", "Resume", "Finish", "Reconfigure"}, tap : Taps,
            next : {"Paused", "Finished"}, preserve : BOOLEAN, tail : Seq(Frames)]

TypeOK ==
  /\ rec \in Recs /\ engine \in Engines /\ Len(engine.aligner) = Lead
  /\ push \in [Threads -> Calls] /\ render \in Renders /\ worker \in Writers /\ op \in Orders
  /\ due \in Seq(Frames) /\ lost \subseteq Nat /\ revived \in BOOLEAN

Init ==
  /\ rec = [state |-> "Idle", epoch |-> 0, generation |-> 0, tap |-> "Master", lead |-> 0,
            timeline |-> 0, producers |-> 0, queue |-> <<>>]
  /\ engine = [suspended |-> FALSE, readers |-> 0, aligner |-> Zeros, blocks |-> 0,
               generation |-> 0, device |-> 0, commands |-> 0]
  /\ push = [t \in Threads |-> NoPush]
  /\ render = NoCallback
  /\ worker = [at |-> "none", woken |-> FALSE, terminate |-> FALSE, file |-> <<>>]
  /\ op = NoCommand
  /\ due = <<>> /\ lost = {} /\ revived = FALSE

---------------------------------------------------------------------------
(* RecordingEngine::push, by the callback and, for the tail of the          *)
(* performance, by the control thread.                                      *)

\* The call is done with the take; only an accepted or an overrun block wakes the worker.
Leaving(wakes) == [NoPush EXCEPT !.at = "leaving", !.wakes = wakes]

Offer(t, tap, frames, generation) ==
  push' = [push EXCEPT ![t] = [NoPush EXCEPT !.at = "reading", !.tap = tap, !.frames = frames,
                                             !.generation = generation]]

ReadEpoch(t) ==
  /\ push[t].at = "reading"
  /\ push' = [push EXCEPT ![t].at = "checking", ![t].epoch = rec.epoch]
  /\ UNCHANGED <<rec, engine, render, worker, op, histories>>

CheckTake(t) ==
  /\ push[t].at = "checking"
  /\ push' = [push EXCEPT ![t] = IF /\ push[t].generation = rec.generation
                                    /\ rec.state = "Recording" /\ push[t].tap = rec.tap
                                 THEN [@ EXCEPT !.at = "entering"] ELSE NoPush]
  /\ UNCHANGED <<rec, engine, render, worker, op, histories>>

EnterProducer(t) ==
  /\ push[t].at = "entering"
  /\ rec' = [rec EXCEPT !.producers = @ + 1]
  /\ push' = [push EXCEPT ![t].at = "rechecking"]
  /\ UNCHANGED <<engine, render, worker, op, histories>>

Recheck(t) ==
  /\ push[t].at = "rechecking"
  /\ push' = [push EXCEPT ![t] = IF /\ rec.state = "Recording"
                                    /\ push[t].generation = rec.generation
                                    /\ push[t].epoch = rec.epoch
                                 THEN [@ EXCEPT !.at = "placing"] ELSE Leaving(FALSE)]
  /\ UNCHANGED <<rec, engine, render, worker, op, histories>>

\* What a block loses to the lead, and the frames of it that belong to the take.
Dropped(t) == Least(rec.lead, Len(push[t].frames))
Kept(t)    == Drop(push[t].frames, Dropped(t))

\* The lead is dropped, the rest takes its place on the timeline and, with room, in the queue.
Place(t) ==
  LET fits == Queued + Len(Kept(t)) <= Capacity
  IN  /\ push[t].at = "placing"
      /\ rec' = [rec EXCEPT !.lead = @ - Dropped(t), !.timeline = @ + Len(Kept(t))]
      /\ push' = [push EXCEPT ![t] = IF Kept(t) # <<>> /\ fits
                                     THEN [@ EXCEPT !.at = "publishing", !.frames = Kept(t),
                                                    !.offset = rec.timeline]
                                     ELSE Leaving(Kept(t) # <<>>)]
      /\ due' = IF t = "render" THEN due \o Own ELSE due
      /\ lost' = IF fits THEN lost
                 ELSE lost \cup ((rec.timeline + 1)..(rec.timeline + Len(Kept(t))))
      /\ UNCHANGED <<engine, render, worker, op, revived>>

Publish(t) ==
  /\ push[t].at = "publishing"
  /\ rec' = [rec EXCEPT !.queue = Append(@, [offset |-> push[t].offset, frames |-> push[t].frames])]
  /\ push' = [push EXCEPT ![t] = Leaving(TRUE)]
  /\ UNCHANGED <<engine, render, worker, op, histories>>

\* The last one wakes the worker, and whoever drains, when the take is not recording any more.
ReleaseProducer(t) ==
  /\ push[t].at = "leaving"
  /\ rec' = [rec EXCEPT !.producers = @ - 1]
  /\ worker' = [worker EXCEPT !.woken = @ \/ (rec.producers = 1 /\ rec.state # "Recording")]
  /\ push' = [push EXCEPT ![t] = IF push[t].wakes THEN [NoPush EXCEPT !.at = "waking"] ELSE NoPush]
  /\ UNCHANGED <<engine, render, op, histories>>

WakeWorker(t) ==
  /\ push[t].at = "waking"
  /\ worker' = [worker EXCEPT !.woken = TRUE]
  /\ push' = [push EXCEPT ![t] = NoPush]
  /\ UNCHANGED <<rec, engine, render, op, histories>>

---------------------------------------------------------------------------
(* RealtimeEngine::onRender: the performance first, then the master.        *)

BlockBegins ==
  /\ render.at = "idle" /\ engine.blocks < MaxBlocks /\ engine.device = engine.generation
  /\ engine' = [engine EXCEPT !.readers = @ + 1]
  /\ render' = [render EXCEPT !.at = "looking", !.generation = engine.generation]
  /\ UNCHANGED <<rec, push, worker, op, histories>>

\* While control holds the performance the callback leaves the aligner alone.
LookSuspended ==
  /\ render.at = "looking" /\ engine.suspended
  /\ engine' = [engine EXCEPT !.readers = @ - 1]
  /\ render' = [render EXCEPT !.at = "master", !.active = FALSE]
  /\ Offer("render", "Master", Own, render.generation)
  /\ UNCHANGED <<rec, worker, op, histories>>

\* PerformanceAligner: what comes out is what went in Lead frames ago.
MixPerformance ==
  LET mixed == engine.aligner \o Own
  IN  /\ render.at = "looking" /\ ~engine.suspended
      /\ engine' = [engine EXCEPT !.aligner = Drop(mixed, Block)]
      /\ render' = [render EXCEPT !.at = "performance", !.active = TRUE]
      /\ Offer("render", "Performance", SubSeq(mixed, 1, Block), render.generation)
      /\ UNCHANGED <<rec, worker, op, histories>>

MixMaster ==
  /\ render.at = "performance" /\ push["render"].at = "done"
  /\ render' = [render EXCEPT !.at = "master"]
  /\ Offer("render", "Master", Own, render.generation)
  /\ UNCHANGED <<rec, engine, worker, op, histories>>

BlockEnds ==
  /\ render.at = "master" /\ push["render"].at = "done"
  /\ engine' = [engine EXCEPT !.blocks = @ + 1, !.readers = IF render.active THEN @ - 1 ELSE @]
  /\ render' = NoCallback
  /\ UNCHANGED <<rec, push, worker, op, histories>>

---------------------------------------------------------------------------
(* RecordingEngine::workerMain.                                             *)

SilenceUntil(offset) ==
  worker.file \o [i \in 1..(IF offset > Len(worker.file) THEN offset - Len(worker.file) ELSE 0)
                    |-> Silence]

WorkerTurns ==
  /\ worker.at = "top"
  /\ worker' = [worker EXCEPT !.at = IF worker.terminate THEN "gone" ELSE "writing"]
  /\ UNCHANGED <<rec, engine, push, render, op, histories>>

WriteBlock ==
  /\ worker.at = "writing" /\ rec.queue # <<>>
  /\ worker' = [worker EXCEPT !.file = SilenceUntil(Head(rec.queue).offset) \o Head(rec.queue).frames]
  /\ rec' = [rec EXCEPT !.queue = Tail(@)]
  /\ UNCHANGED <<engine, push, render, op, histories>>

QueueIsEmpty ==
  /\ worker.at = "writing" /\ rec.queue = <<>>
  /\ worker' = [worker EXCEPT !.at = "checking"]
  /\ UNCHANGED <<rec, engine, push, render, op, histories>>

CheckFinalizing ==
  /\ worker.at = "checking"
  /\ worker' = [worker EXCEPT !.at = IF rec.state = "Finalizing" /\ rec.producers = 0
                                     THEN "closing" ELSE "asleep"]
  /\ UNCHANGED <<rec, engine, push, render, op, histories>>

\* Mutant of CheckQueueAgain: what came since the queue was found empty is not looked for.
CheckQueueOnce ==
  /\ worker.at = "closing"
  /\ worker' = [worker EXCEPT !.at = "finishing"]
  /\ UNCHANGED <<rec, engine, push, render, op, histories>>

\* The last producer may have published after the queue was found empty.
CheckQueueAgain ==
  /\ worker.at = "closing"
  /\ worker' = [worker EXCEPT !.at = IF rec.queue # <<>> THEN "top" ELSE "finishing"]
  /\ UNCHANGED <<rec, engine, push, render, op, histories>>

Finalize ==
  /\ worker.at = "finishing"
  /\ worker' = [worker EXCEPT !.file = SilenceUntil(rec.timeline), !.at = "asleep"]
  /\ rec' = [rec EXCEPT !.state = "Finished"]
  /\ UNCHANGED <<engine, push, render, op, histories>>

WriterFails ==
  /\ (worker.at = "writing" /\ rec.queue # <<>>) \/ worker.at = "finishing"
  /\ worker' = [worker EXCEPT !.at = "gone"]
  /\ rec' = [rec EXCEPT !.state = "Failed"]
  /\ UNCHANGED <<engine, push, render, op, histories>>

WorkerWakes ==
  /\ worker.at = "asleep" /\ worker.woken
  /\ worker' = [worker EXCEPT !.at = "top", !.woken = FALSE]
  /\ UNCHANGED <<rec, engine, push, render, op, histories>>

---------------------------------------------------------------------------
(* The commands.  Go is the next step of the running one.                   *)

Go(at)  == op' = [op EXCEPT !.at = at]
Ends    == op' = NoCommand
Wake    == worker' = [worker EXCEPT !.woken = TRUE]

Command(at, command) ==
  /\ op = NoCommand /\ engine.commands < MaxCommands
  /\ engine' = [engine EXCEPT !.commands = @ + 1]
  /\ op' = [command EXCEPT !.at = at]

\* Prepare: pushes of the take before are turned away, the worker of that take ends.
Prepare(tap) ==
  /\ rec.state \notin {"Recording", "Paused", "Finalizing"}
  /\ Command("preparing", [NoCommand EXCEPT !.name = "Prepare", !.tap = tap])
  /\ rec' = [rec EXCEPT !.epoch = @ + 1]
  /\ UNCHANGED <<push, render, worker, histories>>

\* drainProducers, and stopWorker where it follows.
StopsWorker == op.at \in {"preparing", "failing"}

DrainProducers ==
  /\ op.at \in {"preparing", "pausing", "stopping", "failing"} /\ rec.producers = 0
  /\ IF StopsWorker
     THEN /\ worker' = [worker EXCEPT !.terminate = TRUE, !.woken = TRUE]
          /\ Go(IF op.at = "preparing" THEN "joining" ELSE "abandoning")
     ELSE /\ Go("released") /\ UNCHANGED worker
  /\ UNCHANGED <<rec, engine, push, render, histories>>

OpenFile ==
  /\ op.at = "joining" /\ worker.at \in {"none", "gone"}
  /\ rec' = [rec EXCEPT !.state = "Prepared", !.tap = op.tap, !.timeline = 0, !.queue = <<>>]
  /\ worker' = [at |-> "top", woken |-> FALSE, terminate |-> FALSE, file |-> <<>>]
  /\ due' = <<>> /\ lost' = {} /\ Ends
  /\ UNCHANGED <<engine, push, render, revived>>

OpenFails ==
  /\ op.at = "joining" /\ worker.at \in {"none", "gone"}
  /\ rec' = [rec EXCEPT !.state = "Failed"]
  /\ worker' = [worker EXCEPT !.at = "none"] /\ Ends
  /\ UNCHANGED <<engine, push, render, histories>>

Start ==
  /\ rec.state = "Prepared"
  /\ op = NoCommand /\ engine.commands < MaxCommands
  /\ engine' = [engine EXCEPT !.commands = @ + 1]
  /\ rec' = [rec EXCEPT !.state = "Recording", !.lead = IF rec.tap = "Performance" THEN Lead ELSE 0]
  /\ Wake
  /\ UNCHANGED <<push, render, op, histories>>

CheckPaused ==
  /\ rec.state = "Paused" /\ Command("resuming", [NoCommand EXCEPT !.name = "Resume"])
  /\ UNCHANGED <<rec, push, render, worker, histories>>

\* The state is stored, whatever the worker made of it since it was checked.
Resume ==
  /\ op.at = "resuming"
  /\ rec' = [rec EXCEPT !.state = "Recording", !.lead = IF rec.tap = "Performance" THEN Lead ELSE 0]
  /\ revived' = (revived \/ rec.state # "Paused")
  /\ Wake /\ Ends
  /\ UNCHANGED <<engine, push, render, due, lost>>

---------------------------------------------------------------------------
(* RealtimeEngine::finishRecording: the segment pauses or the take ends.    *)

Holds == rec.state = "Recording" /\ rec.tap = "Performance"

FinishRecording(next) ==
  /\ op = NoCommand /\ engine.commands < MaxCommands /\ rec.state # "Idle"
  /\ next = "Paused" => rec.state = "Recording"
  /\ engine' = [engine EXCEPT !.commands = @ + 1, !.suspended = Holds]
  /\ op' = [NoCommand EXCEPT !.name = "Finish", !.next = next,
                             !.at = IF Holds THEN "holding" ELSE "appending"]
  /\ UNCHANGED <<rec, push, render, worker, histories>>

\* The callback is out of the aligner: what it still holds is the end of the segment.
TakeTail ==
  LET dropped == Least(rec.lead, Lead)
  IN  /\ op.at = "holding" /\ engine.readers = 0
      /\ op' = [op EXCEPT !.at = "appending", !.tail = Drop(engine.aligner, dropped)]
      /\ engine' = [engine EXCEPT !.aligner = Zeros]
      /\ rec' = [rec EXCEPT !.lead = 0]
      /\ UNCHANGED <<push, render, worker, histories>>

\* A failed take is given up: its producers and its worker are waited for.
Fail ==
  /\ rec' = [rec EXCEPT !.state = "Failed"]
  /\ Go("failing")

Chunk    == Least(Len(op.tail), Capacity)
HasSpace == rec.state # "Recording" \/ Queued + Chunk <= Capacity

AppendTail ==
  /\ op.at = "appending" /\ op.tail # <<>> /\ push["control"].at = "done" /\ HasSpace
  /\ IF rec.state # "Recording"
     THEN Fail /\ UNCHANGED push
     ELSE /\ Offer("control", "Performance", SubSeq(op.tail, 1, Chunk), rec.generation)
          /\ op' = [op EXCEPT !.tail = Drop(@, Chunk)] /\ UNCHANGED rec
  /\ UNCHANGED <<engine, render, worker, histories>>

\* TailQueueDrainTimeout.
TailTimesOut ==
  /\ op.at = "appending" /\ op.tail # <<>> /\ push["control"].at = "done" /\ ~HasSpace
  /\ Fail
  /\ UNCHANGED <<engine, push, render, worker, histories>>

TailIsIn == op.at = "appending" /\ op.tail = <<>> /\ push["control"].at = "done"

CheckRecording ==
  /\ TailIsIn /\ op.next = "Paused"
  /\ IF rec.state = "Recording" THEN Go("storing") /\ UNCHANGED rec
     ELSE IF op.name = "Reconfigure" THEN Fail
     ELSE Go("released") /\ UNCHANGED rec
  /\ UNCHANGED <<engine, push, render, worker, histories>>

\* Mutant of Pause: a producer that was counted before is not waited for.
PauseAtOnce ==
  /\ op.at = "storing"
  /\ rec' = [rec EXCEPT !.state = "Paused"]
  /\ revived' = (revived \/ rec.state # "Recording")
  /\ Go("released")
  /\ UNCHANGED <<engine, push, render, worker, due, lost>>

Pause ==
  /\ op.at = "storing"
  /\ rec' = [rec EXCEPT !.state = "Paused"]
  /\ revived' = (revived \/ rec.state # "Recording")
  /\ Go("pausing")
  /\ UNCHANGED <<engine, push, render, worker, due, lost>>

Closing == rec' = [rec EXCEPT !.state = IF @ \in Open THEN "Finalizing" ELSE @]

\* Mutant of Stop: the worker is left asleep.
StopSilently ==
  /\ TailIsIn /\ op.next = "Finished"
  /\ Closing /\ Go("finalizing")
  /\ UNCHANGED <<engine, push, render, worker, histories>>

Stop ==
  /\ TailIsIn /\ op.next = "Finished"
  /\ Closing /\ Wake /\ Go("finalizing")
  /\ UNCHANGED <<engine, push, render, histories>>

AwaitFinalized ==
  /\ op.at = "finalizing" /\ rec.state # "Finalizing" /\ Go("stopping")
  /\ UNCHANGED <<rec, engine, push, render, worker, histories>>

Abandon ==
  /\ op.at = "abandoning" /\ worker.at \in {"none", "gone"}
  /\ rec' = [rec EXCEPT !.state = "Failed"]
  /\ Go("released")
  /\ UNCHANGED <<engine, push, render, worker, histories>>

\* The callback may use the performance again.
ReleasePerformance ==
  /\ op.at = "released"
  /\ engine' = [engine EXCEPT !.suspended = FALSE]
  /\ IF op.name = "Reconfigure" THEN Go("renumbering") ELSE Ends
  /\ UNCHANGED <<rec, push, render, worker, histories>>

---------------------------------------------------------------------------
(* The device is changed: RealtimeEngine::invalidate, and prepare once the  *)
(* device has stopped.  preserve keeps a paused take open for the next one. *)

Invalidate(preserve) ==
  LET live == rec.tap = "Performance" /\ rec.state \in {"Recording", "Paused"}
      ends == live /\ (~preserve \/ rec.state = "Recording")
  IN  /\ op = NoCommand /\ engine.commands < MaxCommands /\ engine.generation < MaxChanges
      /\ engine' = [engine EXCEPT !.commands = @ + 1, !.generation = @ + 1,
                                  !.suspended = ends /\ Holds]
      /\ op' = [NoCommand EXCEPT !.name = "Reconfigure", !.preserve = preserve,
                                 !.next = IF preserve THEN "Paused" ELSE "Finished",
                                 !.at = IF ~ends THEN "renumbering"
                                        ELSE IF Holds THEN "holding" ELSE "appending"]
      /\ UNCHANGED <<rec, push, render, worker, histories>>

SetGeneration ==
  /\ op.at = "renumbering"
  /\ rec' = [rec EXCEPT !.generation = engine.generation,
                        !.state = IF op.preserve /\ @ \in {"Prepared", "Paused"} THEN @
                                  ELSE IF @ \in Open THEN "Finalizing" ELSE @]
  /\ worker' = [worker EXCEPT !.woken = @ \/ ~(op.preserve /\ rec.state \in {"Prepared", "Paused"})]
  /\ Go("reopening")
  /\ UNCHANGED <<engine, push, render, histories>>

ReopenDevice ==
  /\ op.at = "reopening" /\ render.at = "idle"
  /\ engine' = [engine EXCEPT !.aligner = Zeros, !.device = engine.generation]
  /\ Ends
  /\ UNCHANGED <<rec, push, render, worker, histories>>

---------------------------------------------------------------------------
Push(t) ==
  \/ ReadEpoch(t) \/ CheckTake(t) \/ EnterProducer(t) \/ Recheck(t)
  \/ Place(t) \/ Publish(t) \/ ReleaseProducer(t) \/ WakeWorker(t)

Pushes == \E t \in Threads : Push(t)

Rendering == LookSuspended \/ MixPerformance \/ MixMaster \/ BlockEnds

Writing ==
  \/ WorkerTurns \/ WriteBlock \/ QueueIsEmpty \/ CheckFinalizing \/ CheckQueueAgain
  \/ Finalize \/ WorkerWakes

Commands ==
  \/ \E tap \in Taps : Prepare(tap)
  \/ Start \/ CheckPaused
  \/ \E next \in {"Paused", "Finished"} : FinishRecording(next)
  \/ \E preserve \in BOOLEAN : Invalidate(preserve)

Control ==
  \/ DrainProducers \/ OpenFile \/ OpenFails \/ Resume \/ TakeTail \/ AppendTail \/ TailTimesOut
  \/ CheckRecording \/ Pause \/ Stop \/ AwaitFinalized \/ Abandon \/ ReleasePerformance
  \/ SetGeneration \/ ReopenDevice

Next == Pushes \/ BlockBegins \/ Rendering \/ Writing \/ WriterFails \/ Commands \/ Control

\* While a thread can take a step one of them does; no callback need ever come.
Fairness == WF_vars(Pushes \/ Rendering \/ Writing \/ Control)

Spec == Init /\ [][Next]_vars /\ Fairness
---------------------------------------------------------------------------
(* Properties.                                                             *)

\* "No silent loss of PCM" (AudioService-runtime-media-extension.md, section 30): the file is at
\* every moment the beginning of the take - every block rendered while it recorded, segment by
\* segment, undelayed, with silence where the queue was full - and all of it once it is finished,
\* whatever the callback was doing when the take was paused, stopped or moved to another device.
FileIsTheTake ==
  /\ Len(worker.file) <= Len(due)
  /\ \A i \in 1..Len(worker.file) : worker.file[i] = IF i \in lost THEN Silence ELSE due[i]
  /\ rec.state = "Finished" => Len(worker.file) = Len(due)

\* Once a pause has returned nothing more goes into the take until it is resumed (test
\* performanceRecordingDrainsStopAndPauseWithoutCapturingThePause).
PausedTakesNothing == [][rec.state = "Paused" /\ op = NoCommand => due' = due]_vars

\* Every command of the recording returns, whatever fails, while neither pause nor resume has
\* replaced the state of a worker that is gone (RecordingEngine.cpp:174, :191).
RecorderAnswers == op # NoCommand ~> op = NoCommand \/ revived

\* "stop" always returns: not so, see RecordingStops.cfg.
StopReturns == op # NoCommand ~> op = NoCommand
=============================================================================
