----------------------- MODULE RecordingEngineProofs -----------------------
(***************************************************************************)
(* Proofs about RecordingEngine, for any block, lead and capacity and any   *)
(* number of callbacks, commands and changes of the device: the file is     *)
(* always the beginning of the take, all of it once it is finished, and a   *)
(* take that is paused takes nothing.                                       *)
(*                                                                         *)
(* The control parts of the invariant say which threads can meet: control   *)
(* holds the performance only while the callback is out of it, so that two  *)
(* producers never place frames at once and every frame still on its way    *)
(* is either with the callback and the aligner or in the tail of control.   *)
(* The data parts follow each frame from there to the queue and the file.   *)
(***************************************************************************)
EXTENDS RecordingEngine, TLAPS

Placing(t)  == push[t].at = "placing"
Putting(t)  == push[t].at \in {"placing", "publishing"}
Nobody      == ~Putting("render") /\ ~Putting("control")
Underway(t) == push[t].at \in {"reading", "checking", "entering", "rechecking", "placing"}
Inside(t)   == IF push[t].at \in {"rechecking", "placing", "publishing", "leaving"} THEN 1 ELSE 0
Held        == engine.suspended /\ op.at # "holding"
Mixing      == Underway("render") /\ push["render"].tap = "Performance"

\* The places the frames a producer keeps will take.
Slots(t)  == (rec.timeline + 1)..(rec.timeline + Len(Kept(t)))

\* What a producer appends to the queue.
Cell(t) == [offset |-> push[t].offset, frames |-> push[t].frames]

Counted == rec.producers = Inside("render") + Inside("control")

CommandFits ==
  /\ op.at \in {"preparing", "joining"} => rec.state \notin {"Recording", "Paused", "Finalizing"}
  /\ op.at = "joining" => Nobody
  /\ op.at \in {"holding", "appending", "storing"} /\ (op.next = "Paused" \/ engine.suspended)
       => rec.state \in {"Recording", "Failed"}
  /\ op.at = "holding" => engine.suspended /\ rec.tap = "Performance"
  /\ op.at = "storing" => op.next = "Paused"
  /\ op.at \in {"appending", "storing"} /\ rec.state = "Recording" /\ rec.tap = "Performance"
       => engine.suspended
  /\ op.at = "storing" /\ rec.tap = "Performance" => engine.suspended
  /\ op.at = "renumbering" /\ rec.state = "Recording" => rec.tap = "Master"
  /\ op.at \in {"reopening", "pausing", "released", "stopping", "finalizing"} => rec.state # "Recording"
  /\ op.at = "resuming" => rec.state \in {"Paused", "Failed"} /\ Nobody
  /\ op.at \in {"failing", "abandoning"} => rec.state = "Failed"
  /\ engine.suspended => op.at \in {"holding", "appending", "storing", "pausing", "finalizing",
                                    "stopping", "failing", "abandoning", "released"}
  /\ op.at = "appending" /\ op.tail # <<>> => engine.suspended
  /\ op.name = "Reconfigure" => op.at \notin {"idle", "preparing", "joining", "resuming"}

CallbackFits ==
  /\ engine.readers = (IF render.at = "looking" \/ render.active THEN 1 ELSE 0)
  /\ render.active => render.at \in {"performance", "master"}
  /\ render.at # "idle" => engine.blocks < MaxBlocks
  /\ Held => ~render.active
  /\ render.at \in {"idle", "looking"} => push["render"].at = "done"
  /\ Mixing \/ (Putting("render") /\ push["render"].tap = "Performance") => render.active
  /\ push["control"].at # "done" => op.at = "appending" /\ engine.suspended
  /\ Underway("control") \/ Putting("control") => push["control"].tap = "Performance"

TapFits(t) ==
    /\ push[t].epoch <= rec.epoch
    /\ Putting(t) => push[t].tap = rec.tap
    /\ push[t].at \in {"entering", "rechecking"} /\ push[t].epoch = rec.epoch
         => push[t].tap = rec.tap /\ op.at \notin {"preparing", "joining"}
TapsFit == TapFits("render") /\ TapFits("control")

Generations ==
  /\ op.name # "Reconfigure" \/ op.at = "reopening" => engine.generation = rec.generation
  /\ op.at # "reopening" => /\ engine.device = rec.generation
                            /\ render.at # "idle" => render.generation = rec.generation
                            /\ Mixing => push["render"].generation = rec.generation
  /\ Underway("control") => push["control"].generation = rec.generation
  /\ Underway("control") /\ push["control"].at # "reading" => push["control"].epoch = rec.epoch

Quiet ==
  /\ rec.state \in {"Idle", "Prepared", "Finished"} => Nobody
  /\ rec.state = "Paused" /\ op.at # "pausing" => Nobody
  /\ rec.tap = "Performance" /\ rec.state \notin {"Recording", "Failed"}
       => ~Placing("render") /\ ~Placing("control")

WorkerFits ==
  /\ worker.at \in {"closing", "finishing"} => rec.state = "Finalizing" /\ Nobody
  /\ worker.at = "finishing" \/ rec.state \in {"Prepared", "Finished"} => rec.queue = <<>>
  /\ rec.state = "Prepared" => rec.timeline = 0 /\ due = <<>>

Controlled ==
  /\ Counted /\ CommandFits /\ CallbackFits /\ TapsFit /\ Generations /\ Quiet /\ WorkerFits
Fits == TypeOK /\ Controlled

\* What belongs to the take has its place on the timeline, but for what the aligner still delays.
Whole ==
  \/ rec.tap = "Master" \/ rec.state \in {"Idle", "Prepared", "Paused", "Finalizing", "Finished"}
  \/ op.at \in {"storing", "resuming"}
  => rec.timeline = Len(due)

MasterIsOwn ==
  /\ rec.tap = "Master" /\ (rec.state = "Recording" \/ Placing("render") \/ Placing("control"))
       => rec.lead = 0
  /\ Underway("render") /\ push["render"].tap = "Master" => push["render"].frames = Own

WillTake == \/ push["render"].at = "placing"
            \/ /\ push["render"].generation = rec.generation
               /\ push["render"].at = "reading" \/ push["render"].epoch = rec.epoch
Follows == rec.tap = "Performance" /\ ~Held /\ (rec.state = "Recording" \/ Placing("render"))
Through == IF Mixing THEN push["render"].frames \o engine.aligner ELSE engine.aligner

\* The block in flight and the aligner hold the frames of the callback, and after the lead the
\* end of what belongs to the take.
InStep  == /\ Len(push["render"].frames) = Block
           /\ \A j \in 1..Block : Through[Lead + j] = Own[j]
Delayed == /\ Len(due) = rec.timeline + (Lead - rec.lead)
           /\ \A k \in (rec.lead + 1)..Lead : Through[k] = due[rec.timeline + k - rec.lead]
Aligned ==
  /\ Mixing => InStep
  /\ Follows => Delayed
  /\ Follows /\ Mixing /\ ~WillTake => rec.lead = Lead

Rest    == IF Underway("control") THEN push["control"].frames \o op.tail ELSE op.tail
Trailed == /\ Len(due) = rec.timeline + Len(Rest)
           /\ \A k \in 1..Len(Rest) : Rest[k] = due[rec.timeline + k]
TailFollows ==
  Held /\ op.at = "appending" /\ (rec.state = "Recording" \/ Placing("control"))
    => rec.lead = 0 /\ rec.tap = "Performance" /\ Trailed

Complete == rec.state = "Finished" => Len(worker.file) = Len(due)

Good(b) ==
  /\ b.offset >= Len(worker.file) /\ b.offset + Len(b.frames) <= rec.timeline
  /\ \A k \in 1..Len(b.frames) : b.frames[k] = due[b.offset + k] /\ b.offset + k \notin lost
Covers(b, p) == b.offset < p /\ p <= b.offset + Len(b.frames)
Before(a, b) == a.offset + Len(a.frames) <= b.offset

FileHolds ==
  /\ Len(worker.file) <= rec.timeline /\ rec.timeline <= Len(due)
  /\ lost \subseteq 1..rec.timeline
  /\ \A i \in 1..Len(worker.file) : worker.file[i] = IF i \in lost THEN Silence ELSE due[i]
QueueHolds ==
  /\ \A i \in 1..Len(rec.queue) : Good(rec.queue[i])
  /\ \A j \in 1..Len(rec.queue) : \A i \in 1..(j - 1) : Before(rec.queue[i], rec.queue[j])
PutHolds ==
  \A t \in Threads : push[t].at = "publishing" =>
     Good(push[t]) /\ \A i \in 1..Len(rec.queue) : Before(rec.queue[i], push[t])
NoGap ==
  \A p \in (Len(worker.file) + 1)..rec.timeline :
     \/ p \in lost
     \/ \E i \in 1..Len(rec.queue) : Covers(rec.queue[i], p)
     \/ \E t \in Threads : push[t].at = "publishing" /\ Covers(push[t], p)
Stored == FileHolds /\ QueueHolds /\ PutHolds /\ NoGap

RecInv == Fits /\ Whole /\ MasterIsOwn /\ Aligned /\ TailFollows /\ Stored /\ Complete

---------------------------------------------------------------------------
(* Sequences, the operators of the model, and what disturbs nothing.        *)

\* The producers are the callback and the control thread.
LEMMA ThreadsAre ==
  "render" \in Threads /\ "control" \in Threads /\ \A t \in Threads : t = "render" \/ t = "control"
BY DEF Threads

\* The types of the fields the steps compare and count.
LEMMA Types ==
  ASSUME TypeOK
  PROVE  /\ rec.state \in States /\ rec.epoch \in Nat /\ rec.generation \in Nat /\ rec.tap \in Taps
         /\ rec.lead \in 0..Lead /\ rec.timeline \in Nat /\ rec.producers \in Nat
         /\ engine.suspended \in BOOLEAN /\ engine.readers \in Nat /\ engine.generation \in Nat
         /\ render.active \in BOOLEAN /\ op.next \in {"Paused", "Finished"}
         /\ \A t \in Threads :
              push[t].epoch \in Nat /\ push[t].generation \in Nat /\ push[t].tap \in Taps
<1>1. /\ rec.state \in States /\ rec.epoch \in Nat /\ rec.generation \in Nat /\ rec.tap \in Taps
      /\ rec.lead \in 0..Lead /\ rec.timeline \in Nat /\ rec.producers \in Nat
  BY DEF TypeOK, Recs
<1>2. engine.suspended \in BOOLEAN /\ engine.readers \in Nat /\ engine.generation \in Nat
  BY RecordingAssumption DEF TypeOK, Engines
<1>3. render.active \in BOOLEAN BY DEF TypeOK, Renders
<1>4. op.next \in {"Paused", "Finished"} BY DEF TypeOK, Orders
<1>5. \A t \in Threads : push[t].epoch \in Nat /\ push[t].generation \in Nat /\ push[t].tap \in Taps
  BY DEF TypeOK, Calls
<1> QED BY <1>1, <1>2, <1>3, <1>4, <1>5

\* What is left of a sequence without its first n elements.
LEMMA DropDoes ==
  ASSUME NEW s \in Seq(Frames), NEW n \in 0..Len(s)
  PROVE  /\ Drop(s, n) \in Seq(Frames) /\ Len(Drop(s, n)) = Len(s) - n
         /\ \A i \in 1..(Len(s) - n) : Drop(s, n)[i] = s[n + i]
BY DEF Drop

\* The first n elements of a sequence.
LEMMA TakeDoes ==
  ASSUME NEW s \in Seq(Frames), NEW n \in 0..Len(s)
  PROVE  /\ SubSeq(s, 1, n) \in Seq(Frames) /\ Len(SubSeq(s, 1, n)) = n
         /\ \A i \in 1..n : SubSeq(s, 1, n)[i] = s[i]
OBVIOUS

\* Two sequences, one after the other.
LEMMA ConcatDoes ==
  ASSUME NEW s \in Seq(Frames), NEW r \in Seq(Frames)
  PROVE  /\ s \o r \in Seq(Frames) /\ Len(s \o r) = Len(s) + Len(r)
         /\ \A i \in 1..Len(s) : (s \o r)[i] = s[i]
         /\ \A i \in 1..Len(r) : (s \o r)[Len(s) + i] = r[i]
OBVIOUS

\* The first element of a sequence and the rest.
LEMMA HeadIs ==
  ASSUME NEW S, NEW q \in Seq(S), q # <<>>
  PROVE  /\ Head(q) \in S /\ Head(q) = q[1] /\ Len(q) \in Nat \ {0}
         /\ Tail(q) \in Seq(S) /\ Len(Tail(q)) = Len(q) - 1
         /\ \A i \in 1..(Len(q) - 1) : Tail(q)[i] = q[i + 1]
OBVIOUS

\* The elements of a sequence are of its set.
LEMMA ElementIs ==
  ASSUME NEW S, NEW q \in Seq(S)
  PROVE  Len(q) \in Nat /\ \A i \in 1..Len(q) : q[i] \in S
OBVIOUS

\* The product of two numbers is a number.
LEMMA TimesIsNat == \A m, n \in Nat : m * n \in Nat
OBVIOUS

\* The frames of the running callback.
LEMMA OwnIs ==
  ASSUME TypeOK
  PROVE  Own \in Seq(Frames) /\ Len(Own) = Block
<1>1. Block \in Nat /\ Block * engine.blocks \in Nat
  BY RecordingAssumption, TimesIsNat DEF TypeOK, Engines
<1>2. \A i \in 1..Block : Block * engine.blocks + i \in Frames
  BY <1>1 DEF Frames
<1> QED BY <1>1, <1>2 DEF Own

\* The emptied aligner.
LEMMA ZerosAre == Zeros \in Seq(Frames) /\ Len(Zeros) = Lead
BY RecordingAssumption DEF Zeros, Frames, Silence

\* The file, filled with silence up to a place.
LEMMA SilenceDoes ==
  ASSUME worker \in Writers, NEW offset \in Nat
  PROVE  /\ SilenceUntil(offset) \in Seq(Frames)
         /\ Len(SilenceUntil(offset)) = (IF offset > Len(worker.file) THEN offset ELSE Len(worker.file))
         /\ \A i \in 1..Len(worker.file) : SilenceUntil(offset)[i] = worker.file[i]
         /\ \A i \in (Len(worker.file) + 1)..offset : SilenceUntil(offset)[i] = Silence
<1> DEFINE f == worker.file
           n == IF offset > Len(f) THEN offset - Len(f) ELSE 0
           quiet == [i \in 1..n |-> Silence]
<1>1. f \in Seq(Frames) /\ Len(f) \in Nat /\ n \in Nat BY DEF Writers
<1>2. quiet \in Seq(Frames) /\ Len(quiet) = n /\ \A i \in 1..n : quiet[i] = Silence
  BY <1>1 DEF Frames, Silence
<1>3. SilenceUntil(offset) = f \o quiet BY DEF SilenceUntil
<1>4. \A i \in (Len(f) + 1)..offset : i - Len(f) \in 1..n /\ i = Len(f) + (i - Len(f))
  BY <1>1
<1>5. Len(f) + n = IF offset > Len(f) THEN offset ELSE Len(f)
  <2>1. \A a, b \in Nat : a + (IF b > a THEN b - a ELSE 0) = IF b > a THEN b ELSE a
    OBVIOUS
  <2> QED BY <2>1, <1>1, Zenon
<1> HIDE DEF f, quiet, n
<1>6. /\ \A i \in 1..Len(f) : (f \o quiet)[i] = f[i]
      /\ \A i \in 1..n : (f \o quiet)[Len(f) + i] = quiet[i]
      /\ f \o quiet \in Seq(Frames) /\ Len(f \o quiet) = Len(f) + n
  BY <1>1, <1>2, ConcatDoes
<1>7. \A i \in (Len(f) + 1)..offset : (f \o quiet)[i] = Silence
  BY <1>2, <1>4, <1>6
<1> QED BY <1>3, <1>5, <1>6, <1>7 DEF f

\* What stands for no block, no command and no callback has the type of one.
LEMMA Blank ==
  /\ NoPush \in Calls /\ NoCommand \in Orders /\ NoCallback \in Renders
  /\ \A w \in BOOLEAN : Leaving(w) \in Calls
<1>1. <<>> \in Seq(Frames) OBVIOUS
<1>2. NoPush \in Calls BY <1>1 DEF NoPush, Calls, Taps
<1>3. NoCommand \in Orders BY <1>1 DEF NoCommand, Orders, Taps
<1>4. NoCallback \in Renders BY DEF NoCallback, Renders
<1>5. ASSUME NEW w \in BOOLEAN PROVE Leaving(w) \in Calls
  BY <1>2, <1>5, Zenon DEF Leaving, Calls
<1> QED BY <1>2, <1>3, <1>4, <1>5

\* A call of push begins with a call record.
LEMMA OfferTyped ==
  ASSUME push \in [Threads -> Calls], NEW t \in Threads, NEW tap \in Taps, NEW s \in Seq(Frames),
         NEW n \in Nat, Offer(t, tap, s, n)
  PROVE  push' \in [Threads -> Calls]
<1>1. [NoPush EXCEPT !.at = "reading", !.tap = tap, !.frames = s, !.generation = n] \in Calls
  BY Blank, Zenon DEF Calls
<1> QED BY <1>1, Zenon DEF Offer

\* One call record replaced by another.
LEMMA AnswerTyped ==
  ASSUME push \in [Threads -> Calls], NEW t \in Threads, NEW c \in Calls,
         push' = [push EXCEPT ![t] = c]
  PROVE  push' \in [Threads -> Calls]
BY Zenon

\* The counters stay in range when a callback ends.
LEMMA BlockEndsHas ==
  ASSUME TypeOK, CallbackFits, BlockEnds
  PROVE  /\ (IF render.active THEN engine.readers - 1 ELSE engine.readers) \in 0..1
         /\ engine.blocks + 1 \in 0..MaxBlocks
<1>1. /\ engine.blocks \in 0..MaxBlocks /\ MaxBlocks \in Nat /\ engine.readers \in 0..1
  BY RecordingAssumption DEF TypeOK, Engines
<1>2. engine.blocks + 1 \in 0..MaxBlocks
  BY <1>1 DEF BlockEnds, CallbackFits
<1>3. CASE render.active
  BY <1>1, <1>2, <1>3 DEF CallbackFits
<1>4. CASE ~render.active
  BY <1>1, <1>2, <1>4
<1> QED BY <1>3, <1>4

\* What the aligner gives out and what it keeps.
LEMMA MixedIs ==
  ASSUME TypeOK
  PROVE  /\ engine.aligner \o Own \in Seq(Frames) /\ Len(engine.aligner \o Own) = Lead + Block
         /\ \A i \in 1..Lead : (engine.aligner \o Own)[i] = engine.aligner[i]
         /\ \A i \in 1..Block : (engine.aligner \o Own)[Lead + i] = Own[i]
         /\ SubSeq(engine.aligner \o Own, 1, Block) \in Seq(Frames)
         /\ Len(SubSeq(engine.aligner \o Own, 1, Block)) = Block
         /\ \A i \in 1..Block : SubSeq(engine.aligner \o Own, 1, Block)[i] = (engine.aligner \o Own)[i]
         /\ Drop(engine.aligner \o Own, Block) \in Seq(Frames)
         /\ Len(Drop(engine.aligner \o Own, Block)) = Lead
         /\ \A i \in 1..Lead :
              Drop(engine.aligner \o Own, Block)[i] = (engine.aligner \o Own)[Block + i]
<1>1. Lead \in Nat /\ Block \in Nat /\ engine.aligner \in Seq(Frames) /\ Len(engine.aligner) = Lead
  BY RecordingAssumption DEF TypeOK, Engines
<1>2. /\ engine.aligner \o Own \in Seq(Frames) /\ Len(engine.aligner \o Own) = Lead + Block
      /\ \A i \in 1..Lead : (engine.aligner \o Own)[i] = engine.aligner[i]
      /\ \A i \in 1..Block : (engine.aligner \o Own)[Lead + i] = Own[i]
  <2>1. Own \in Seq(Frames) /\ Len(Own) = Block BY OwnIs
  <2>2. /\ engine.aligner \o Own \in Seq(Frames)
        /\ Len(engine.aligner \o Own) = Len(engine.aligner) + Len(Own)
        /\ \A i \in 1..Len(engine.aligner) : (engine.aligner \o Own)[i] = engine.aligner[i]
        /\ \A i \in 1..Len(Own) : (engine.aligner \o Own)[Len(engine.aligner) + i] = Own[i]
    BY <1>1, <2>1, ConcatDoes
  <2> QED BY <1>1, <2>1, <2>2, Zenon
<1> DEFINE mixed == engine.aligner \o Own
<1>3. Block \in 0..Len(mixed) /\ Len(mixed) - Block = Lead BY <1>1, <1>2
<1> HIDE DEF mixed
<1>4. /\ SubSeq(mixed, 1, Block) \in Seq(Frames) /\ Len(SubSeq(mixed, 1, Block)) = Block
      /\ \A i \in 1..Block : SubSeq(mixed, 1, Block)[i] = mixed[i]
  BY <1>2, <1>3, TakeDoes DEF mixed
<1>5. /\ Drop(mixed, Block) \in Seq(Frames) /\ Len(Drop(mixed, Block)) = Lead
      /\ \A i \in 1..Lead : Drop(mixed, Block)[i] = mixed[Block + i]
  BY <1>2, <1>3, DropDoes DEF mixed
<1> QED BY <1>2, <1>4, <1>5 DEF mixed

\* What the aligner lets through and what it keeps are, one after the other, what it held and took.
LEMMA MixedSplits ==
  ASSUME TypeOK
  PROVE  \A i \in 1..(Lead + Block) :
           (SubSeq(engine.aligner \o Own, 1, Block) \o Drop(engine.aligner \o Own, Block))[i]
             = (engine.aligner \o Own)[i]
<1> DEFINE mixed == engine.aligner \o Own
           out   == SubSeq(mixed, 1, Block)
           left  == Drop(mixed, Block)
<1>1. /\ out \in Seq(Frames) /\ Len(out) = Block /\ \A i \in 1..Block : out[i] = mixed[i]
      /\ left \in Seq(Frames) /\ Len(left) = Lead /\ \A i \in 1..Lead : left[i] = mixed[Block + i]
  BY MixedIs
<1>2. Lead \in Nat /\ Block \in Nat BY RecordingAssumption
<1> HIDE DEF mixed, out, left
<1>3. /\ \A i \in 1..Block : (out \o left)[i] = out[i]
      /\ \A i \in 1..Lead : (out \o left)[Block + i] = left[i]
  BY <1>1, ConcatDoes
<1>4. ASSUME NEW i \in 1..(Lead + Block) PROVE (out \o left)[i] = mixed[i]
  <2>1. CASE i \in 1..Block BY <2>1, <1>1, <1>3
  <2>2. CASE i \notin 1..Block
    <3>1. i - Block \in 1..Lead /\ i = Block + (i - Block) BY <2>2, <1>2
    <3> QED BY <3>1, <1>1, <1>3
  <2> QED BY <2>1, <2>2
<1> QED BY <1>4 DEF mixed, out, left

\* What the aligner holds of the segment, once the lead is dropped.
LEMMA TailIs ==
  ASSUME TypeOK
  PROVE  /\ Drop(engine.aligner, Least(rec.lead, Lead)) \in Seq(Frames)
         /\ Len(Drop(engine.aligner, Least(rec.lead, Lead))) = Lead - rec.lead
         /\ \A i \in 1..(Lead - rec.lead) :
              Drop(engine.aligner, Least(rec.lead, Lead))[i] = engine.aligner[rec.lead + i]
<1>1. /\ Lead \in Nat /\ rec.lead \in 0..Lead /\ engine.aligner \in Seq(Frames)
      /\ Len(engine.aligner) = Lead
  BY RecordingAssumption DEF TypeOK, Engines, Recs
<1>2. Least(rec.lead, Lead) = rec.lead /\ rec.lead \in 0..Len(engine.aligner)
  BY <1>1 DEF Least
<1>3. /\ Drop(engine.aligner, rec.lead) \in Seq(Frames)
      /\ Len(Drop(engine.aligner, rec.lead)) = Len(engine.aligner) - rec.lead
      /\ \A i \in 1..(Len(engine.aligner) - rec.lead) :
           Drop(engine.aligner, rec.lead)[i] = engine.aligner[rec.lead + i]
  BY <1>1, <1>2, DropDoes
<1> QED BY <1>1, <1>2, <1>3, Zenon

\* The next chunk of the tail and the rest of it.
LEMMA ChunkIs ==
  ASSUME TypeOK
  PROVE  /\ Chunk \in 0..Len(op.tail)
         /\ SubSeq(op.tail, 1, Chunk) \in Seq(Frames) /\ Len(SubSeq(op.tail, 1, Chunk)) = Chunk
         /\ \A i \in 1..Chunk : SubSeq(op.tail, 1, Chunk)[i] = op.tail[i]
         /\ Drop(op.tail, Chunk) \in Seq(Frames) /\ Len(Drop(op.tail, Chunk)) = Len(op.tail) - Chunk
         /\ \A i \in 1..(Len(op.tail) - Chunk) : Drop(op.tail, Chunk)[i] = op.tail[Chunk + i]
<1>1. op.tail \in Seq(Frames) /\ Len(op.tail) \in Nat BY DEF TypeOK, Orders
<1>2. Chunk \in 0..Len(op.tail) BY <1>1, RecordingAssumption DEF Chunk, Least
<1> QED BY <1>1, <1>2, TakeDoes, DropDoes

\* A chunk of the tail and the rest are the tail.
LEMMA ChunkSplits ==
  ASSUME TypeOK
  PROVE  /\ Len(SubSeq(op.tail, 1, Chunk) \o Drop(op.tail, Chunk)) = Len(op.tail)
         /\ \A i \in 1..Len(op.tail) :
              (SubSeq(op.tail, 1, Chunk) \o Drop(op.tail, Chunk))[i] = op.tail[i]
<1> DEFINE tail == op.tail
           out  == SubSeq(tail, 1, Chunk)
           left == Drop(tail, Chunk)
<1>1. /\ out \in Seq(Frames) /\ Len(out) = Chunk /\ \A i \in 1..Chunk : out[i] = tail[i]
      /\ left \in Seq(Frames) /\ Len(left) = Len(tail) - Chunk
      /\ \A i \in 1..(Len(tail) - Chunk) : left[i] = tail[Chunk + i]
      /\ Chunk \in 0..Len(tail)
  BY ChunkIs
<1>2. Len(tail) \in Nat BY DEF TypeOK, Orders
<1> HIDE DEF tail, out, left
<1>3. /\ \A i \in 1..Chunk : (out \o left)[i] = out[i]
      /\ \A i \in 1..(Len(tail) - Chunk) : (out \o left)[Chunk + i] = left[i]
      /\ Len(out \o left) = Chunk + (Len(tail) - Chunk)
  BY <1>1, ConcatDoes
<1>4. ASSUME NEW i \in 1..Len(tail) PROVE (out \o left)[i] = tail[i]
  <2>1. CASE i \in 1..Chunk BY <2>1, <1>1, <1>3
  <2>2. CASE i \notin 1..Chunk
    <3>1. i - Chunk \in 1..(Len(tail) - Chunk) /\ i = Chunk + (i - Chunk) BY <2>2, <1>1, <1>2
    <3>2. (out \o left)[Chunk + (i - Chunk)] = left[i - Chunk] BY <1>3, <3>1
    <3>3. left[i - Chunk] = tail[Chunk + (i - Chunk)] BY <1>1, <3>1
    <3> QED BY <3>1, <3>2, <3>3
  <2> QED BY <2>1, <2>2
<1>5. Len(out \o left) = Len(tail) BY <1>1, <1>2, <1>3
<1> QED BY <1>4, <1>5 DEF tail, out, left

\* What is written for the first block of the queue are frames.
LEMMA WrittenIs ==
  ASSUME TypeOK, rec.queue # <<>>
  PROVE  /\ Head(rec.queue).offset \in Nat /\ Head(rec.queue).frames \in Seq(Frames)
         /\ SilenceUntil(Head(rec.queue).offset) \o Head(rec.queue).frames \in Seq(Frames)
<1>1. Head(rec.queue) \in [offset : Nat, frames : Seq(Frames)]
  BY HeadIs DEF TypeOK, Recs
<1>2. SilenceUntil(Head(rec.queue).offset) \in Seq(Frames) BY <1>1, SilenceDoes DEF TypeOK
<1> QED BY <1>1, <1>2, ConcatDoes

\* The queued blocks are offsets with frames.
LEMMA QueueIs ==
  ASSUME TypeOK
  PROVE  /\ Len(rec.queue) \in Nat
         /\ \A i \in 1..Len(rec.queue) :
              rec.queue[i].offset \in Nat /\ rec.queue[i].frames \in Seq(Frames)
<1>1. rec.queue \in Seq([offset : Nat, frames : Seq(Frames)]) BY DEF TypeOK, Recs
<1>2. \A i \in 1..Len(rec.queue) : rec.queue[i] \in [offset : Nat, frames : Seq(Frames)]
  BY <1>1, ElementIs
<1> QED BY <1>1, <1>2, ElementIs

\* Nothing on the way of the frames, or of the take, is touched.
LEMMA DelayedStays ==
  ASSUME Delayed, Through' = Through, UNCHANGED <<due, rec.timeline, rec.lead>>
  PROVE  Delayed'
BY DEF Delayed

\* The block in flight is left as it is.
LEMMA InStepStays ==
  ASSUME InStep, Through' = Through, Own' = Own, UNCHANGED push["render"].frames
  PROVE  InStep'
BY DEF InStep

\* The tail is left as it is.
LEMMA TrailedStays ==
  ASSUME Trailed, Rest' = Rest, UNCHANGED <<due, rec.timeline>>
  PROVE  Trailed'
BY DEF Trailed

\* With the whole lead to be dropped the take begins with the next frame.
LEMMA DelayedFromHere ==
  ASSUME rec'.lead = Lead, rec'.timeline = Len(due'), rec'.timeline \in Nat
  PROVE  Delayed'
BY RecordingAssumption DEF Delayed

\* When control has pushed the tail of a performance, all that belongs to the take is on it.
LEMMA TailIsDone ==
  ASSUME RecInv, op.at = "appending", op.tail = <<>>, push["control"].at = "done",
         rec.state = "Recording"
  PROVE  rec.timeline = Len(due)
<1>1. CASE rec.tap = "Master" BY <1>1 DEF RecInv, Whole
<1>2. CASE rec.tap = "Performance"
  <2>1. Held BY <1>2 DEF RecInv, Fits, Controlled, CommandFits, Held
  <2>2. Trailed BY <2>1 DEF RecInv, TailFollows
  <2>3. Rest = <<>> BY DEF Rest, Underway
  <2>4. rec.timeline \in Nat BY Types DEF RecInv, Fits
  <2> QED BY <2>2, <2>3, <2>4 DEF Trailed
<1> QED BY <1>1, <1>2, Types DEF RecInv, Fits, Taps

\* Control and the callback never place or publish frames at once.
LEMMA Exclusive ==
  ASSUME Fits
  PROVE  ~(Putting("render") /\ Putting("control"))
BY ThreadsAre DEF Fits, Controlled, CommandFits, CallbackFits, TapsFit, TapFits, Putting,
     Underway, Held

\* A block of the queue as it is after a step.
GoodNext(b) ==
  /\ b.offset >= Len(worker'.file) /\ b.offset + Len(b.frames) <= rec'.timeline
  /\ \A k \in 1..Len(b.frames) : b.frames[k] = due'[b.offset + k] /\ b.offset + k \notin lost'

\* A step that touches neither the queue nor the file, and publishes nothing, keeps them.
LEMMA StoredStays ==
  ASSUME Stored, UNCHANGED <<worker.file, rec.timeline, rec.queue, due, lost>>,
         \A t \in Threads : (push[t].at = "publishing") <=> (push'[t].at = "publishing"),
         \A t \in Threads : push[t].at = "publishing" => UNCHANGED <<push[t].offset, push[t].frames>>
  PROVE  Stored'
<1>1. FileHolds' BY DEF Stored, FileHolds
<1>2. QueueHolds' BY DEF Stored, QueueHolds, Good, Before
<1>4. PutHolds' BY DEF Stored, PutHolds, Good, Before
<1>5. NoGap' BY DEF Stored, NoGap, Covers
<1> QED BY <1>1, <1>2, <1>4, <1>5 DEF Stored

---------------------------------------------------------------------------
(* The producers.                                                          *)

\* What ReadEpoch does, field by field.
LEMMA ReadEpochDoes ==
  ASSUME TypeOK, NEW t \in Threads, ReadEpoch(t)
  PROVE  /\ push[t].at = "reading" /\ push'[t].at = "checking" /\ push'[t].epoch = rec.epoch
         /\ (\A u \in Threads : u # t => push'[u] = push[u])
         /\ UNCHANGED <<push[t].tap, push[t].frames, push[t].offset, push[t].generation, rec,
                        engine, render, worker, op, due, lost>>
BY DEF TypeOK, Calls, Threads, histories, ReadEpoch

\* ReadEpoch keeps the types.
LEMMA ReadEpochTyped ==
  ASSUME TypeOK, Counted, CallbackFits, NEW t \in Threads, ReadEpoch(t)
  PROVE  TypeOK'
<1>1. [push[t] EXCEPT !.at = "checking", !.epoch = rec.epoch] \in Calls
  BY ZenonT(20) DEF TypeOK, Calls, Recs
<1>2. push' = [push EXCEPT ![t] = [push[t] EXCEPT !.at = "checking", !.epoch = rec.epoch]]
  BY DEF ReadEpoch, TypeOK
<1>3. push' \in [Threads -> Calls] BY <1>1, <1>2, AnswerTyped DEF TypeOK
<1> QED BY <1>3, ReadEpochDoes DEF TypeOK, ReadEpoch, histories

\* A call that has read the epoch belongs to the take of that epoch.
LEMMA ReadEpochKeeps ==
  ASSUME RecInv, NEW t \in Threads, ReadEpoch(t)
  PROVE  RecInv'
<1>1. TypeOK'
  BY ReadEpochTyped DEF RecInv, Fits, Controlled
<1>2. Controlled'
  BY ReadEpochDoes, Types, ThreadsAre, SMTT(30) DEF RecInv, Fits, Controlled, Counted,
       CommandFits, CallbackFits, TapsFit, TapFits, Generations, Quiet, WorkerFits, Placing,
       Putting, Nobody, Underway, Inside, Held, Mixing, States, Open, Taps
<1>3. Own' = Own
  BY ReadEpochDoes DEF Own, RecInv, Fits
<1>4. Whole'
  BY ReadEpochDoes, Types, ThreadsAre DEF RecInv, Fits, Whole
<1>5. MasterIsOwn'
  BY <1>3, ReadEpochDoes, Types, ThreadsAre DEF RecInv, Fits, MasterIsOwn, Placing, Underway
<1>6. (Mixing' => InStep') /\ (Follows' => Delayed')
  BY <1>3, ReadEpochDoes, Types, ThreadsAre, InStepStays, DelayedStays
  DEF RecInv, Fits, Aligned, Follows, Mixing, Held, Placing, Underway, Through
<1>7. (Follows /\ Mixing /\ ~WillTake => rec.lead = Lead)'
  BY ReadEpochDoes, Types, ThreadsAre DEF RecInv, Fits, Aligned, Follows, Mixing, Held,
       Placing, Underway, WillTake
<1>8. TailFollows'
  BY ReadEpochDoes, Types, ThreadsAre, TrailedStays DEF RecInv, Fits, TailFollows, Held,
       Placing, Underway, Rest
<1>9. Complete'
  BY ReadEpochDoes, Types, ThreadsAre DEF RecInv, Fits, Complete
<1>10. Stored'
  BY ReadEpochDoes, ThreadsAre, StoredStays DEF RecInv, Fits
<1> QED BY <1>1, <1>2, <1>4, <1>5, <1>6, <1>7, <1>8, <1>9, <1>10 DEF RecInv, Fits, Aligned

\* What CheckTake does, field by field.
LEMMA CheckTakeDoes ==
  ASSUME TypeOK, NEW t \in Threads, CheckTake(t)
  PROVE  /\ push[t].at = "checking" /\ (\A u \in Threads : u # t => push'[u] = push[u])
         /\ UNCHANGED <<rec, engine, render, worker, op, due, lost>>
         /\ \/ /\ push[t].generation = rec.generation /\ rec.state = "Recording"
               /\ push[t].tap = rec.tap /\ push'[t].at = "entering"
               /\ UNCHANGED <<push[t].tap, push[t].frames, push[t].offset, push[t].generation,
                              push[t].epoch>>
            \/ /\ ~(/\ push[t].generation = rec.generation /\ rec.state = "Recording"
                   /\ push[t].tap = rec.tap)
               /\ push'[t].at = "done" /\ push'[t].tap = "Master" /\ push'[t].frames = <<>>
               /\ push'[t].offset = 0 /\ push'[t].generation = 0 /\ push'[t].epoch = 0
BY DEF TypeOK, Calls, Threads, histories, CheckTake, NoPush

\* CheckTake keeps the types.
LEMMA CheckTakeTyped ==
  ASSUME TypeOK, Counted, CallbackFits, NEW t \in Threads, CheckTake(t)
  PROVE  TypeOK'
<1>1. [push[t] EXCEPT !.at = "entering"] \in Calls
  BY ZenonT(20) DEF TypeOK, Calls
<1>2. (IF push[t].generation = rec.generation /\ rec.state = "Recording" /\ push[t].tap = rec.tap
       THEN [push[t] EXCEPT !.at = "entering"] ELSE NoPush) \in Calls
  BY <1>1, Blank
<1>3. push' \in [Threads -> Calls] BY <1>2, AnswerTyped DEF TypeOK, CheckTake
<1> QED BY <1>3, CheckTakeDoes DEF TypeOK, CheckTake, histories

\* A block of the running take is not turned away, so nothing of the take is left out.
LEMMA CheckTakeKeeps ==
  ASSUME RecInv, NEW t \in Threads, CheckTake(t)
  PROVE  RecInv'
<1>1. TypeOK'
  BY CheckTakeTyped DEF RecInv, Fits, Controlled
<1>2. Controlled'
  BY CheckTakeDoes, Types, ThreadsAre, SMTT(30) DEF RecInv, Fits, Controlled, Counted,
       CommandFits, CallbackFits, TapsFit, TapFits, Generations, Quiet, WorkerFits, Placing,
       Putting, Nobody, Underway, Inside, Held, Mixing, States, Open, Taps
<1>3. Own' = Own
  BY CheckTakeDoes DEF Own, RecInv, Fits
<1>4. Whole'
  BY CheckTakeDoes, Types, ThreadsAre DEF RecInv, Fits, Whole
<1>5. MasterIsOwn'
  BY <1>3, CheckTakeDoes, Types, ThreadsAre DEF RecInv, Fits, MasterIsOwn, Placing, Underway
<1>6. (Mixing' => InStep') /\ (Follows' => Delayed')
  BY <1>3, CheckTakeDoes, Types, ThreadsAre, InStepStays, DelayedStays
  DEF RecInv, Fits, Controlled, Aligned, Follows, Mixing, Held, Placing, Underway, Through,
       CommandFits, Generations
<1>7. (Follows /\ Mixing /\ ~WillTake => rec.lead = Lead)'
  BY CheckTakeDoes, Types, ThreadsAre DEF RecInv, Fits, Aligned, Follows, Mixing, Held,
       Placing, Underway, WillTake
<1>8. TailFollows'
  BY CheckTakeDoes, Types, ThreadsAre, TrailedStays DEF RecInv, Fits, Controlled, TailFollows,
       Held, Placing, Underway, Rest, CallbackFits, Generations
<1>9. Complete'
  BY CheckTakeDoes, Types, ThreadsAre DEF RecInv, Fits, Complete
<1>10. Stored'
  BY CheckTakeDoes, ThreadsAre, StoredStays DEF RecInv, Fits
<1> QED BY <1>1, <1>2, <1>4, <1>5, <1>6, <1>7, <1>8, <1>9, <1>10 DEF RecInv, Fits, Aligned

\* What EnterProducer does, field by field.
LEMMA EnterProducerDoes ==
  ASSUME TypeOK, NEW t \in Threads, EnterProducer(t)
  PROVE  /\ push[t].at = "entering" /\ push'[t].at = "rechecking"
         /\ (\A u \in Threads : u # t => push'[u] = push[u]) /\ rec'.producers = rec.producers + 1
         /\ UNCHANGED <<push[t].tap, push[t].frames, push[t].offset, push[t].generation,
                        push[t].epoch, rec.state, rec.epoch, rec.generation, rec.tap, rec.lead,
                        rec.timeline, rec.queue, engine, render, worker, op, due, lost>>
BY DEF TypeOK, Recs, Calls, Threads, histories, EnterProducer

\* EnterProducer keeps the types.
LEMMA EnterProducerTyped ==
  ASSUME TypeOK, Counted, CallbackFits, NEW t \in Threads, EnterProducer(t)
  PROVE  TypeOK'
<1>1. rec.producers + 1 \in 0..2 BY ThreadsAre DEF Counted, Inside, EnterProducer
<1>2. rec' \in Recs BY <1>1, ZenonT(20) DEF TypeOK, Recs, EnterProducer
<1>3. [push[t] EXCEPT !.at = "rechecking"] \in Calls BY ZenonT(20) DEF TypeOK, Calls
<1>4. push' \in [Threads -> Calls] BY <1>3, AnswerTyped DEF TypeOK, EnterProducer
<1> QED BY <1>2, <1>4, EnterProducerDoes DEF TypeOK, EnterProducer, histories

\* A producer that is counted is waited for by whoever drains.
LEMMA EnterProducerKeeps ==
  ASSUME RecInv, NEW t \in Threads, EnterProducer(t)
  PROVE  RecInv'
<1>1. TypeOK'
  BY EnterProducerTyped DEF RecInv, Fits, Controlled
<1>2. Controlled'
  BY EnterProducerDoes, Types, ThreadsAre, SMTT(30) DEF RecInv, Fits, Controlled, Counted,
       CommandFits, CallbackFits, TapsFit, TapFits, Generations, Quiet, WorkerFits, Placing,
       Putting, Nobody, Underway, Inside, Held, Mixing, States, Open, Taps
<1>3. Own' = Own
  BY EnterProducerDoes DEF Own, RecInv, Fits
<1>4. Whole'
  BY EnterProducerDoes, Types, ThreadsAre DEF RecInv, Fits, Whole
<1>5. MasterIsOwn'
  BY <1>3, EnterProducerDoes, Types, ThreadsAre DEF RecInv, Fits, MasterIsOwn, Placing, Underway
<1>6. (Mixing' => InStep') /\ (Follows' => Delayed')
  BY <1>3, EnterProducerDoes, Types, ThreadsAre, InStepStays, DelayedStays
  DEF RecInv, Fits, Aligned, Follows, Mixing, Held, Placing, Underway, Through
<1>7. (Follows /\ Mixing /\ ~WillTake => rec.lead = Lead)'
  BY EnterProducerDoes, Types, ThreadsAre DEF RecInv, Fits, Aligned, Follows, Mixing, Held,
       Placing, Underway, WillTake
<1>8. TailFollows'
  BY EnterProducerDoes, Types, ThreadsAre, TrailedStays DEF RecInv, Fits, TailFollows, Held,
       Placing, Underway, Rest
<1>9. Complete'
  BY EnterProducerDoes, Types, ThreadsAre DEF RecInv, Fits, Complete
<1>10. Stored'
  BY EnterProducerDoes, ThreadsAre, StoredStays DEF RecInv, Fits
<1> QED BY <1>1, <1>2, <1>4, <1>5, <1>6, <1>7, <1>8, <1>9, <1>10 DEF RecInv, Fits, Aligned

\* What Recheck does, field by field.
LEMMA RecheckDoes ==
  ASSUME TypeOK, NEW t \in Threads, Recheck(t)
  PROVE  /\ push[t].at = "rechecking" /\ (\A u \in Threads : u # t => push'[u] = push[u])
         /\ UNCHANGED <<rec, engine, render, worker, op, due, lost>>
         /\ \/ /\ rec.state = "Recording" /\ push[t].generation = rec.generation
               /\ push[t].epoch = rec.epoch /\ push'[t].at = "placing"
               /\ UNCHANGED <<push[t].tap, push[t].frames, push[t].offset, push[t].generation,
                              push[t].epoch>>
            \/ /\ ~(/\ rec.state = "Recording" /\ push[t].generation = rec.generation
                  /\ push[t].epoch = rec.epoch)
               /\ push'[t].at = "leaving" /\ push'[t].tap = "Master" /\ push'[t].frames = <<>>
               /\ push'[t].offset = 0 /\ push'[t].generation = 0 /\ push'[t].epoch = 0
BY DEF TypeOK, Calls, Threads, histories, Recheck, Leaving, NoPush

\* Recheck keeps the types.
LEMMA RecheckTyped ==
  ASSUME TypeOK, Counted, CallbackFits, NEW t \in Threads, Recheck(t)
  PROVE  TypeOK'
<1>1. [push[t] EXCEPT !.at = "placing"] \in Calls BY ZenonT(20) DEF TypeOK, Calls
<1>2. push' \in [Threads -> Calls] BY <1>1, Blank, AnswerTyped DEF TypeOK, Recheck
<1> QED BY <1>2, RecheckDoes DEF TypeOK, Recheck, histories

\* A block of a take that was replaced meanwhile is turned away before the lead is touched.
LEMMA RecheckKeeps ==
  ASSUME RecInv, NEW t \in Threads, Recheck(t)
  PROVE  RecInv'
<1>1. TypeOK'
  BY RecheckTyped DEF RecInv, Fits, Controlled
<1>2. Controlled'
  BY RecheckDoes, Types, ThreadsAre, SMTT(30) DEF RecInv, Fits, Controlled, Counted,
       CommandFits, CallbackFits, TapsFit, TapFits, Generations, Quiet, WorkerFits, Placing,
       Putting, Nobody, Underway, Inside, Held, Mixing, States, Open, Taps
<1>3. Own' = Own
  BY RecheckDoes DEF Own, RecInv, Fits
<1>4. Whole'
  BY RecheckDoes, Types, ThreadsAre DEF RecInv, Fits, Whole
<1>5. MasterIsOwn'
  BY <1>3, RecheckDoes, Types, ThreadsAre DEF RecInv, Fits, MasterIsOwn, Placing, Underway
<1>6. (Mixing' => InStep') /\ (Follows' => Delayed')
  <2>1. ASSUME Mixing' PROVE InStep'
    <3>1. Mixing /\ Through' = Through /\ UNCHANGED push["render"].frames
      BY <2>1, RecheckDoes, ThreadsAre DEF RecInv, Fits, Through, Mixing, Underway
    <3> QED BY <1>3, <2>1, <3>1, InStepStays DEF RecInv, Aligned
  <2>2. ASSUME Follows' PROVE Delayed'
    <3>1. Follows /\ rec.lead \in 0..Lead
      BY <2>2, RecheckDoes, Types, ThreadsAre
      DEF RecInv, Fits, Controlled, TapsFit, TapFits, Follows, Held, Placing
    <3>2. Delayed BY <3>1 DEF RecInv, Aligned
    <3>3. CASE Mixing <=> Mixing'
      <4>1. Through' = Through
        BY <3>3, RecheckDoes, ThreadsAre DEF RecInv, Fits, Through, Mixing, Underway
      <4> QED BY <3>2, <4>1, RecheckDoes, DelayedStays DEF RecInv, Fits
    <3>4. CASE ~(Mixing <=> Mixing')
      <4>1. rec.lead = Lead
        BY <3>1, <3>4, RecheckDoes, Types, ThreadsAre, SMTT(20)
        DEF RecInv, Fits, Controlled, Aligned, Follows, Mixing, Held, Placing, Underway,
             WillTake,
            CallbackFits, TapsFit, TapFits, Generations, CommandFits
      <4>2. rec.timeline = Len(due) /\ rec.timeline \in Nat
        BY <3>2, <4>1, Types, RecordingAssumption DEF Delayed, RecInv, Fits
      <4> QED BY <4>1, <4>2, DelayedFromHere, RecheckDoes DEF RecInv, Fits
    <3> QED BY <3>3, <3>4
  <2> QED BY <2>1, <2>2
<1>7. (Follows /\ Mixing /\ ~WillTake => rec.lead = Lead)'
  BY RecheckDoes, Types, ThreadsAre DEF RecInv, Fits, Aligned, Follows, Mixing, Held, Placing,
       Underway, WillTake
<1>8. TailFollows'
  BY RecheckDoes, Types, ThreadsAre, TrailedStays DEF RecInv, Fits, Controlled, TailFollows,
       Held, Placing, Underway, Rest, Generations
<1>9. Complete'
  BY RecheckDoes, Types, ThreadsAre DEF RecInv, Fits, Complete
<1>10. Stored'
  BY RecheckDoes, ThreadsAre, StoredStays DEF RecInv, Fits
<1> QED BY <1>1, <1>2, <1>4, <1>5, <1>6, <1>7, <1>8, <1>9, <1>10 DEF RecInv, Fits, Aligned

\* What Place does, field by field.
LEMMA PlaceDoes ==
  ASSUME TypeOK, NEW t \in Threads, Place(t)
  PROVE  /\ push[t].at = "placing" /\ (\A u \in Threads : u # t => push'[u] = push[u])
         /\ due' = (IF t = "render" THEN due \o Own ELSE due) /\ rec'.lead = rec.lead - Dropped(t)
         /\ rec'.timeline = rec.timeline + Len(Kept(t))
         /\ UNCHANGED <<rec.state, rec.epoch, rec.generation, rec.tap, rec.producers, rec.queue,
                        engine, render, worker, op>>
         /\ \/ /\ Kept(t) # <<>> /\ push'[t].offset = rec.timeline /\ push'[t].frames = Kept(t)
               /\ push'[t].at = "publishing"
               /\ UNCHANGED <<push[t].tap, push[t].generation, push[t].epoch, lost>>
            \/ /\ push'[t].at = "leaving" /\ push'[t].tap = "Master" /\ push'[t].frames = <<>>
               /\ push'[t].offset = 0 /\ push'[t].generation = 0 /\ push'[t].epoch = 0
               /\ lost' = lost \cup Slots(t)
            \/ /\ Kept(t) = <<>> /\ push'[t].at = "leaving" /\ push'[t].tap = "Master"
               /\ push'[t].frames = <<>> /\ push'[t].offset = 0 /\ push'[t].generation = 0
               /\ push'[t].epoch = 0
               /\ UNCHANGED lost
BY DEF TypeOK, Recs, Calls, Threads, histories, Place, Leaving, NoPush, Dropped, Kept, Slots

\* What a block loses to the lead and what is left of it.
LEMMA KeptIs ==
  ASSUME TypeOK, NEW t \in Threads
  PROVE  /\ Dropped(t) \in 0..Len(push[t].frames) /\ rec.lead - Dropped(t) \in 0..Lead
         /\ Dropped(t) = IF rec.lead < Len(push[t].frames) THEN rec.lead ELSE Len(push[t].frames)
         /\ Kept(t) \in Seq(Frames) /\ Len(Kept(t)) = Len(push[t].frames) - Dropped(t)
         /\ \A i \in 1..Len(Kept(t)) : Kept(t)[i] = push[t].frames[Dropped(t) + i]
<1>1. push[t].frames \in Seq(Frames) /\ rec.lead \in 0..Lead /\ rec.lead \in Nat /\ Lead \in Nat
  BY RecordingAssumption DEF TypeOK, Calls, Recs
<1>2. /\ Dropped(t) \in 0..Len(push[t].frames) /\ rec.lead - Dropped(t) \in 0..Lead
      /\ Dropped(t) = IF rec.lead < Len(push[t].frames) THEN rec.lead ELSE Len(push[t].frames)
  BY <1>1 DEF Dropped, Least
<1> QED BY <1>1, <1>2, DropDoes DEF Kept

\* Place keeps the types.
LEMMA PlaceTyped ==
  ASSUME TypeOK, Counted, CallbackFits, NEW t \in Threads, Place(t)
  PROVE  TypeOK'
<1>1. /\ rec.timeline \in Nat /\ Kept(t) \in Seq(Frames) /\ Len(Kept(t)) \in Nat
      /\ rec.lead - Dropped(t) \in 0..Lead
  BY KeptIs DEF TypeOK, Recs
<1>2. rec.timeline + Len(Kept(t)) \in Nat /\ Slots(t) \subseteq Nat
  BY <1>1 DEF Slots
<1>3. rec' \in Recs
  BY <1>1, <1>2, ZenonT(20) DEF TypeOK, Recs, Place
<1>4. [push[t] EXCEPT !.at = "publishing", !.frames = Kept(t), !.offset = rec.timeline] \in Calls
  BY <1>1, ZenonT(20) DEF TypeOK, Calls
<1>5. Leaving(Kept(t) # <<>>) \in Calls
  BY Blank, Zenon
<1>6. push' \in [Threads -> Calls]
  BY <1>4, <1>5, AnswerTyped, Zenon DEF TypeOK, Place
<1>7. due \o Own \in Seq(Frames)
  BY OwnIs, ConcatDoes DEF TypeOK
<1>8. due' \in Seq(Frames)
  BY <1>7, PlaceDoes DEF TypeOK
<1>9. lost' \subseteq Nat
  BY <1>2, PlaceDoes DEF TypeOK
<1> QED BY <1>3, <1>6, <1>8, <1>9, PlaceDoes DEF TypeOK, Place

\* A block of the master loses nothing: it follows what belongs to the take.
LEMMA PlaceOfMaster ==
  ASSUME RecInv, NEW t \in Threads, Place(t), rec.tap = "Master"
  PROVE  /\ t = "render" /\ rec.lead = 0 /\ Kept(t) = Own /\ rec.timeline = Len(due)
<1>1. t = "render" /\ rec.lead = 0 /\ push[t].frames = Own /\ TypeOK /\ rec.timeline = Len(due)
  BY PlaceDoes, ThreadsAre
  DEF RecInv, Fits, Controlled, MasterIsOwn, Whole, Placing, Putting, Underway, CallbackFits,
       TapsFit, TapFits
<1>2. Own \in Seq(Frames) /\ Len(Own) = Block /\ Block \in Nat BY <1>1, OwnIs, RecordingAssumption
<1>3. Len(Own) \in Nat /\ Dropped(t) = 0 BY <1>1, <1>2 DEF Dropped, Least
<1>4. Drop(Own, 0) = Own BY <1>2 DEF Drop
<1> QED BY <1>1, <1>3, <1>4 DEF Kept

\* The callback places a block of the performance: it was mixed in step with the aligner.
LEMMA PlaceOfPerformance ==
  ASSUME RecInv, Place("render"), rec.tap = "Performance"
  PROVE  /\ Mixing /\ Follows /\ InStep /\ Delayed /\ ~Held /\ ~Mixing'
         /\ Through = push["render"].frames \o engine.aligner /\ Through' = engine.aligner
         /\ Len(due') = Len(due) + Block
         /\ \A i \in 1..Len(due) : due'[i] = due[i]
         /\ \A k \in (rec.lead + 1)..(Lead + Block) : Through[k] = due'[rec.timeline + k - rec.lead]
<1>1. "render" \in Threads BY ThreadsAre
<1>2. Mixing /\ Follows /\ ~Held /\ ~Mixing' /\ TypeOK
  BY <1>1, PlaceDoes, Types DEF RecInv, Fits, Controlled, Mixing, Follows, Held, Placing,
       Putting, Underway,
     CallbackFits, TapsFit, TapFits
<1>3. InStep /\ Delayed BY <1>2 DEF RecInv, Aligned
<1>4. Through = push["render"].frames \o engine.aligner /\ Through' = engine.aligner
  BY <1>1, <1>2, PlaceDoes DEF Through
<1>5. /\ due \in Seq(Frames) /\ Own \in Seq(Frames) /\ Len(Own) = Block /\ due' = due \o Own
      /\ rec.lead \in 0..Lead /\ rec.timeline \in Nat /\ Lead \in Nat /\ Block \in Nat
      /\ Len(due) \in Nat
  <2>1. Own \in Seq(Frames) /\ Len(Own) = Block BY <1>2, OwnIs
  <2>2. due' = due \o Own BY <1>1, <1>2, PlaceDoes
  <2>3. due \in Seq(Frames) BY <1>2 DEF TypeOK
  <2>4. Len(due) \in Nat BY <2>3
  <2>5. rec.lead \in 0..Lead /\ rec.timeline \in Nat BY <1>2, Types
  <2> QED BY <2>1, <2>2, <2>3, <2>4, <2>5, RecordingAssumption
<1>6. /\ Len(due') = Len(due) + Block /\ \A i \in 1..Len(due) : due'[i] = due[i]
      /\ \A j \in 1..Block : due'[Len(due) + j] = Own[j]
  BY <1>5, ConcatDoes
<1>7. ASSUME NEW k \in (rec.lead + 1)..(Lead + Block)
      PROVE  Through[k] = due'[rec.timeline + k - rec.lead]
  <2>1. Len(due) = rec.timeline + (Lead - rec.lead) BY <1>3 DEF Delayed
  <2>2. CASE k <= Lead
    <3>1. k \in (rec.lead + 1)..Lead /\ rec.timeline + k - rec.lead \in 1..Len(due)
      <4>1. rec.lead \in Nat /\ rec.lead <= Lead /\ rec.timeline \in Nat /\ Lead \in Nat
        BY <1>5
      <4>2. k \in Int /\ rec.lead + 1 <= k BY <4>1
      <4>3. /\ k \in (rec.lead + 1)..Lead
            /\ rec.timeline + k - rec.lead \in 1..(rec.timeline + (Lead - rec.lead))
        BY <2>2, <4>1, <4>2
      <4> QED BY <2>1, <4>3, Zenon
    <3>2. Through[k] = due[rec.timeline + k - rec.lead] BY <1>3, <3>1 DEF Delayed
    <3> QED BY <3>1, <3>2, <1>6, Zenon
  <2>3. CASE ~(k <= Lead)
    <3>1. /\ k - Lead \in 1..Block /\ k = Lead + (k - Lead)
          /\ rec.timeline + k - rec.lead = Len(due) + (k - Lead)
      <4>1. /\ rec.lead \in Nat /\ rec.lead <= Lead /\ rec.timeline \in Nat /\ Lead \in Nat
            /\ Block \in Nat
        BY <1>5
      <4>2. /\ k - Lead \in 1..Block /\ k = Lead + (k - Lead)
            /\ rec.timeline + k - rec.lead = (rec.timeline + (Lead - rec.lead)) + (k - Lead)
        BY <2>3, <4>1
      <4> QED BY <2>1, <4>2, Zenon
    <3> QED BY <3>1, <1>3, <1>6 DEF InStep
  <2> QED BY <2>2, <2>3
<1> QED BY <1>2, <1>3, <1>4, <1>6, <1>7

\* A chunk of the tail loses nothing either, the lead is spent.
LEMMA PlaceOfTail ==
  ASSUME RecInv, Place("control")
  PROVE  /\ Held /\ op.at = "appending" /\ rec.lead = 0 /\ rec.tap = "Performance" /\ Trailed
         /\ Rest = push["control"].frames \o op.tail /\ Kept("control") = push["control"].frames
         /\ Underway("control") /\ ~Underway("control")'
<1>1. "control" \in Threads BY ThreadsAre
<1>2. Held /\ op.at = "appending" /\ Underway("control") /\ ~Underway("control")' /\ TypeOK
  BY <1>1, PlaceDoes DEF RecInv, Fits, Controlled, CallbackFits, CommandFits, Held, Underway
<1>3. rec.lead = 0 /\ rec.tap = "Performance" /\ Trailed
  BY <1>1, <1>2, PlaceDoes DEF RecInv, TailFollows, Placing
<1>4. push["control"].frames \in Seq(Frames) BY <1>1, <1>2 DEF TypeOK, Calls
<1>5. Dropped("control") = 0 BY <1>3, <1>4 DEF Dropped, Least
<1>6. Kept("control") = push["control"].frames BY <1>4, <1>5 DEF Kept, Drop
<1> QED BY <1>2, <1>3, <1>6 DEF Rest

\* The take after frames have been placed on it: it is longer, or as it was.
LEMMA PlacedIs ==
  ASSUME RecInv, NEW t \in Threads, Place(t)
  PROVE  /\ due' \in Seq(Frames) /\ Len(due) <= Len(due')
         /\ \A i \in 1..Len(due) : due'[i] = due[i]
         /\ rec.timeline + Len(Kept(t)) <= Len(due')
         /\ \A k \in 1..Len(Kept(t)) : Kept(t)[k] = due'[rec.timeline + k]
<1>1. /\ TypeOK /\ rec.timeline \in Nat /\ Len(due) \in Nat /\ due \in Seq(Frames)
      /\ rec.timeline <= Len(due) /\ Lead \in Nat /\ Block \in Nat /\ rec.lead \in 0..Lead
  BY Types, RecordingAssumption DEF RecInv, Fits, Stored, FileHolds, TypeOK
<1>2. CASE rec.tap = "Master"
  <2>1. t = "render" /\ Kept(t) = Own /\ rec.timeline = Len(due) BY <1>2, PlaceOfMaster
  <2>2. due' = due \o Own BY <1>1, <2>1, PlaceDoes
  <2>3. Own \in Seq(Frames) /\ Len(Own) = Block BY <1>1, OwnIs
  <2> QED BY <1>1, <2>1, <2>2, <2>3, ConcatDoes
<1>3. CASE rec.tap = "Performance" /\ t = "render"
  <2>1. /\ InStep /\ Delayed /\ Through = push["render"].frames \o engine.aligner
        /\ Len(due') = Len(due) + Block /\ \A i \in 1..Len(due) : due'[i] = due[i]
        /\ \A k \in (rec.lead + 1)..(Lead + Block) : Through[k] = due'[rec.timeline + k - rec.lead]
    BY <1>3, PlaceOfPerformance
  <2>2. /\ push["render"].frames \in Seq(Frames) /\ engine.aligner \in Seq(Frames)
        /\ Len(push["render"].frames) = Block /\ Len(due) = rec.timeline + (Lead - rec.lead)
    BY <1>1, <1>3, <2>1 DEF TypeOK, Calls, Engines, InStep, Delayed
  <2>3. \A i \in 1..Block : Through[i] = push["render"].frames[i]
    BY <2>1, <2>2, ConcatDoes
  <2>4. /\ Dropped(t) = IF rec.lead < Block THEN rec.lead ELSE Block
        /\ Len(Kept(t)) = Block - Dropped(t)
        /\ \A i \in 1..Len(Kept(t)) : Kept(t)[i] = push["render"].frames[Dropped(t) + i]
    BY <1>1, <1>3, <2>2, KeptIs
  <2>5. due' \in Seq(Frames)
    <3>1. due' = due \o Own BY <1>1, <1>3, PlaceDoes
    <3>2. Own \in Seq(Frames) BY <1>1, OwnIs
    <3> QED BY <1>1, <3>1, <3>2, ConcatDoes
  <2>6. CASE rec.lead < Block
    <3>1. Dropped(t) = rec.lead /\ Len(Kept(t)) = Block - rec.lead BY <2>4, <2>6
    <3>2. ASSUME NEW k \in 1..Len(Kept(t)) PROVE Kept(t)[k] = due'[rec.timeline + k]
      <4>1. /\ rec.lead + k \in 1..Block /\ rec.lead + k \in (rec.lead + 1)..(Lead + Block)
            /\ rec.timeline + (rec.lead + k) - rec.lead = rec.timeline + k
        <5>1. /\ rec.lead \in Nat /\ rec.timeline \in Nat /\ Lead \in Nat /\ Block \in Nat
              /\ k \in 1..(Block - rec.lead)
          BY <1>1, <3>1
        <5> QED BY <5>1
      <4>2. Kept(t)[k] = push["render"].frames[rec.lead + k] BY <2>4, <3>1
      <4>3. push["render"].frames[rec.lead + k] = Through[rec.lead + k] BY <2>3, <4>1
      <4>4. Through[rec.lead + k] = due'[rec.timeline + (rec.lead + k) - rec.lead] BY <2>1, <4>1
      <4> QED BY <4>1, <4>2, <4>3, <4>4
    <3>3. rec.timeline + Len(Kept(t)) <= Len(due')
      <4>1. Len(due') = (rec.timeline + (Lead - rec.lead)) + Block BY <2>1, <2>2, Zenon
      <4>2. /\ rec.lead \in Nat /\ rec.lead <= Lead /\ rec.timeline \in Nat /\ Lead \in Nat
            /\ Block \in Nat
        BY <1>1
      <4>3. rec.timeline + (Block - rec.lead) <= (rec.timeline + (Lead - rec.lead)) + Block
        BY <4>2
      <4> QED BY <3>1, <4>1, <4>3, Zenon
    <3> QED BY <1>1, <2>1, <2>5, <3>2, <3>3
  <2>7. CASE ~(rec.lead < Block)
    <3>1. Len(Kept(t)) = 0 BY <1>1, <2>4, <2>7
    <3> QED BY <1>1, <2>1, <2>5, <3>1
  <2> QED BY <2>6, <2>7
<1>4. CASE t = "control"
  <2>1. /\ Trailed /\ Rest = push["control"].frames \o op.tail /\ Kept(t) = push["control"].frames
    BY <1>4, PlaceOfTail
  <2>2. due' = due BY <1>1, <1>4, PlaceDoes
  <2>3. push["control"].frames \in Seq(Frames) /\ op.tail \in Seq(Frames)
    BY <1>1, <1>4 DEF TypeOK, Calls, Orders
  <2> DEFINE mine == push["control"].frames
             tail == op.tail
  <2> HIDE DEF mine, tail
  <2>4. /\ mine \in Seq(Frames) /\ tail \in Seq(Frames) /\ Rest = mine \o tail
        /\ Kept(t) = mine /\ Len(mine) \in Nat /\ Len(tail) \in Nat
    BY <2>1, <2>3 DEF mine, tail
  <2>5. /\ Len(Rest) = Len(mine) + Len(tail)
        /\ \A i \in 1..Len(mine) : Rest[i] = mine[i]
    BY <2>4, ConcatDoes
  <2>6. 1..Len(mine) \subseteq 1..Len(Rest) /\ rec.timeline + Len(mine) <= Len(due)
    BY <1>1, <2>1, <2>4, <2>5 DEF Trailed
  <2>7. \A k \in 1..Len(mine) : mine[k] = due[rec.timeline + k]
    BY <2>1, <2>5, <2>6 DEF Trailed
  <2> QED BY <1>1, <2>2, <2>4, <2>6, <2>7
<1> QED BY <1>1, <1>2, <1>3, <1>4, ThreadsAre, Types DEF Taps

\* Placing a block of the master keeps the timeline at the end of the take.
LEMMA PlaceWhole ==
  ASSUME RecInv, NEW t \in Threads, Place(t)
  PROVE  Whole' /\ MasterIsOwn' /\ Complete'
<1>1. Own' = Own BY PlaceDoes DEF Own, RecInv, Fits
<1>2. TypeOK /\ rec.timeline \in Nat BY Types DEF RecInv, Fits
<1>3. CASE rec.tap = "Master"
  <2>1. /\ t = "render" /\ rec.lead = 0 /\ Kept(t) = Own /\ rec.timeline = Len(due)
    BY <1>3, PlaceOfMaster
  <2>2. due' = due \o Own /\ rec'.timeline = rec.timeline + Len(Own)
    BY <1>2, <2>1, PlaceDoes
  <2>3. Whole' BY <1>2, <2>1, <2>2, OwnIs, ConcatDoes DEF Whole, TypeOK
  <2>4. rec'.lead = 0
    <3>1. Len(push[t].frames) \in Nat BY <1>2 DEF TypeOK, Calls
    <3>2. Dropped(t) = 0 BY <2>1, <3>1 DEF Dropped, Least
    <3> QED BY <1>2, <2>1, <3>2, PlaceDoes
  <2>5. MasterIsOwn'
    BY <1>1, <1>2, <2>1, <2>4, PlaceDoes, ThreadsAre DEF RecInv, MasterIsOwn, Underway
  <2>6. Complete'
    BY <1>2, <2>1, PlaceDoes, ThreadsAre DEF RecInv, Fits, Controlled, Quiet, Nobody, Putting,
         Complete
  <2> QED BY <2>3, <2>5, <2>6
<1>4. CASE rec.tap = "Performance"
  <2>1. /\ rec.state \in {"Recording", "Failed"} /\ op.at \notin {"storing", "resuming"}
        /\ UNCHANGED <<rec.state, rec.tap, op>>
    BY <1>2, <1>4, PlaceDoes, ThreadsAre, Types DEF RecInv, Fits, Controlled, Quiet, Nobody,
         Putting, Placing, States,
       CommandFits, CallbackFits, TapsFit, TapFits, Held, Underway
  <2>2. Whole' /\ Complete' BY <1>4, <2>1 DEF Whole, Complete
  <2>3. MasterIsOwn'
    BY <1>1, <1>2, <1>4, PlaceDoes, ThreadsAre DEF RecInv, MasterIsOwn, Underway
  <2> QED BY <2>2, <2>3
<1> QED BY <1>2, <1>3, <1>4, Types DEF Taps

\* After a block is placed the aligner, or the tail, still continues the take.
LEMMA PlaceAligned ==
  ASSUME RecInv, NEW t \in Threads, Place(t)
  PROVE  Aligned' /\ TailFollows'
<1>1. Own' = Own BY PlaceDoes DEF Own, RecInv, Fits
<1>2. /\ TypeOK /\ rec.timeline \in Nat /\ Lead \in Nat /\ Block \in Nat /\ rec.lead \in 0..Lead
  BY Types, RecordingAssumption DEF RecInv, Fits
<1>3. CASE rec.tap = "Master"
  <2>1. ~Follows' /\ t = "render" /\ ~Underway("render")'
    BY <1>2, <1>3, PlaceDoes, PlaceOfMaster DEF Follows, Underway
  <2>2. Aligned' BY <2>1 DEF Aligned, Mixing
  <2>3. ~(op.at = "appending" /\ Held) \/ (rec.state # "Recording" /\ ~Placing("control"))
    BY <1>3 DEF RecInv, TailFollows
  <2>4. TailFollows' BY <1>2, <2>1, <2>3, PlaceDoes, ThreadsAre DEF TailFollows, Held, Placing
  <2> QED BY <2>2, <2>4
<1>4. CASE rec.tap = "Performance" /\ t = "render"
  <2>1. /\ InStep /\ Delayed /\ Through = push["render"].frames \o engine.aligner
        /\ ~Held /\ ~Mixing' /\ Through' = engine.aligner
        /\ Len(due') = Len(due) + Block
        /\ \A k \in (rec.lead + 1)..(Lead + Block) : Through[k] = due'[rec.timeline + k - rec.lead]
    BY <1>4, PlaceOfPerformance
  <2>2. /\ push["render"].frames \in Seq(Frames) /\ engine.aligner \in Seq(Frames)
        /\ Len(engine.aligner) = Lead
        /\ Len(push["render"].frames) = Block /\ Len(due) = rec.timeline + (Lead - rec.lead)
    BY <1>2, <1>4, <2>1 DEF TypeOK, Calls, Engines, InStep, Delayed
  <2>3. \A i \in 1..Lead : Through[Block + i] = engine.aligner[i]
    BY <2>1, <2>2, ConcatDoes
  <2>4. /\ Dropped(t) \in 0..Block /\ Dropped(t) <= rec.lead /\ Len(Kept(t)) = Block - Dropped(t)
        /\ rec'.lead = rec.lead - Dropped(t) /\ rec'.timeline = rec.timeline + Len(Kept(t))
    <3>1. /\ Dropped(t) \in 0..Len(push[t].frames) /\ rec.lead - Dropped(t) \in 0..Lead
          /\ Len(Kept(t)) = Len(push[t].frames) - Dropped(t)
      BY <1>2, KeptIs
    <3>3. Dropped(t) <= rec.lead
      <4>1. Dropped(t) \in Int BY <1>4, <2>2, <3>1, <1>2
      <4>2. rec.lead \in Int BY <1>2
      <4> QED BY <3>1, <4>1, <4>2
    <3>2. rec'.lead = rec.lead - Dropped(t) /\ rec'.timeline = rec.timeline + Len(Kept(t))
      BY <1>2, PlaceDoes
    <3> QED BY <1>4, <2>2, <3>1, <3>2, <3>3, Zenon
  <2>5. ASSUME NEW k \in (rec'.lead + 1)..Lead
        PROVE  Through'[k] = due'[rec'.timeline + k - rec'.lead]
    <3>1. /\ k \in 1..Lead /\ Block + k \in (rec.lead + 1)..(Lead + Block)
          /\ rec'.timeline + k - rec'.lead = rec.timeline + (Block + k) - rec.lead
      <4>1. /\ k \in (rec.lead - Dropped(t) + 1)..Lead /\ rec.timeline \in Nat /\ Lead \in Nat
            /\ Block \in Nat /\ rec.lead \in Nat /\ rec.lead <= Lead
            /\ Dropped(t) \in 0..Block /\ Dropped(t) <= rec.lead
        BY <1>2, <2>4
      <4>2. /\ k \in 1..Lead /\ Block + k \in (rec.lead + 1)..(Lead + Block)
            /\ (rec.timeline + (Block - Dropped(t))) + k - (rec.lead - Dropped(t))
                 = rec.timeline + (Block + k) - rec.lead
        BY <4>1
      <4> QED BY <2>4, <4>2, Zenon
    <3> QED BY <2>1, <2>3, <3>1
  <2>6. Len(due') = rec'.timeline + (Lead - rec'.lead)
    <3>1. Len(due') = rec.timeline + (Lead - rec.lead) + Block BY <2>1, <2>2
    <3>2. rec'.timeline = rec.timeline + (Block - Dropped(t)) BY <2>4
    <3>3. /\ rec.timeline \in Nat /\ Lead \in Nat /\ Block \in Nat /\ rec.lead \in 0..Lead
          /\ Dropped(t) \in 0..Block
      BY <1>2, <2>4
    <3>4. rec.timeline + (Lead - rec.lead) + Block
            = (rec.timeline + (Block - Dropped(t))) + (Lead - (rec.lead - Dropped(t)))
      BY <3>3
    <3> QED BY <2>4, <3>1, <3>2, <3>4
  <2>7. Aligned' BY <2>1, <2>5, <2>6 DEF Aligned, Delayed
  <2>8. TailFollows' BY <1>2, <2>1, PlaceDoes DEF TailFollows, Held
  <2> QED BY <2>7, <2>8
<1>5. CASE t = "control"
  <2>1. /\ Held /\ op.at = "appending" /\ rec.lead = 0 /\ rec.tap = "Performance" /\ Trailed
        /\ Rest = push["control"].frames \o op.tail /\ Kept(t) = push["control"].frames
        /\ ~Underway("control")'
    BY <1>5, PlaceOfTail
  <2>2. Held' /\ due' = due /\ ~Follows' BY <1>2, <1>5, <2>1, PlaceDoes DEF Held, Follows
  <2>3. ~Mixing'
    BY <1>2, <1>5, <2>1, PlaceDoes, ThreadsAre DEF RecInv, Fits, Controlled, CallbackFits,
         Mixing, Underway
  <2>4. push["control"].frames \in Seq(Frames) /\ op.tail \in Seq(Frames)
    BY <1>2, <1>5 DEF TypeOK, Calls, Orders
  <2> DEFINE mine == push["control"].frames
             tail == op.tail
  <2> HIDE DEF mine, tail
  <2>5. /\ mine \in Seq(Frames) /\ tail \in Seq(Frames) /\ Rest = mine \o tail
        /\ Kept(t) = mine /\ Len(mine) \in Nat /\ Len(tail) \in Nat
    BY <2>1, <2>4 DEF mine, tail
  <2>6. /\ Rest' = tail /\ rec'.timeline = rec.timeline + Len(mine)
        /\ UNCHANGED <<op, rec.tap>>
    BY <1>2, <1>5, <2>1, PlaceDoes DEF Rest, mine, tail
  <2>12. /\ Len(Rest) = Len(mine) + Len(tail)
         /\ \A i \in 1..Len(tail) : Rest[Len(mine) + i] = tail[i]
    BY <2>5, ConcatDoes
  <2>13. Len(due) = rec.timeline + Len(Rest) BY <2>1 DEF Trailed
  <2>7. Len(due') = rec'.timeline + Len(Rest')
    BY <1>2, <2>2, <2>5, <2>6, <2>12, <2>13
  <2>8. ASSUME NEW k \in 1..Len(Rest') PROVE Rest'[k] = due'[rec'.timeline + k]
    <3>1. k \in 1..Len(tail) BY <2>6
    <3>2. /\ Len(mine) + k \in 1..Len(Rest)
          /\ rec.timeline + (Len(mine) + k) = rec'.timeline + k
      BY <1>2, <2>5, <2>6, <2>12, <3>1
    <3>3. Rest[Len(mine) + k] = due[rec.timeline + (Len(mine) + k)]
      BY <2>1, <3>2 DEF Trailed
    <3> QED BY <2>2, <2>6, <2>12, <3>1, <3>2, <3>3
  <2>9. rec'.lead = 0
    <3>1. Dropped(t) = 0 BY <1>2, <1>5, <2>1, <2>4 DEF Dropped, Least
    <3> QED BY <1>2, <2>1, <3>1, PlaceDoes
  <2>10. Aligned' BY <2>2, <2>3 DEF Aligned
  <2>11. TailFollows' BY <2>1, <2>6, <2>7, <2>8, <2>9 DEF TailFollows, Trailed
  <2> QED BY <2>10, <2>11
<1> QED BY <1>2, <1>3, <1>4, <1>5, ThreadsAre, Types DEF Taps

\* A block that is placed is on its way to the queue, or lost, at its own place.
LEMMA PlaceStored ==
  ASSUME RecInv, NEW t \in Threads, Place(t)
  PROVE  Stored'
<1> DEFINE n == Len(Kept(t))
           m == rec.timeline
<1>1. /\ TypeOK /\ Stored /\ m \in Nat /\ n \in Nat /\ Len(worker.file) \in Nat /\ Len(worker.file) <= m
      /\ m <= Len(due) /\ Len(due) \in Nat /\ Len(due') \in Nat /\ lost \subseteq 1..m
      /\ \A i \in 1..Len(rec.queue) : rec.queue[i].offset \in Nat /\ Len(rec.queue[i].frames) \in Nat
  <2>1. TypeOK /\ Stored /\ m \in Nat /\ n \in Nat BY KeptIs, Types DEF RecInv, Fits
  <2>2. Len(worker.file) \in Nat /\ Len(due) \in Nat BY <2>1 DEF TypeOK, Writers
  <2>3. Len(due') \in Nat BY PlacedIs
  <2>4. Len(worker.file) <= m /\ m <= Len(due) /\ lost \subseteq 1..m
    BY <2>1 DEF Stored, FileHolds
  <2> QED BY <2>1, <2>2, <2>3, <2>4, QueueIs
<1>2. /\ Len(due) <= Len(due') /\ \A i \in 1..Len(due) : due'[i] = due[i]
      /\ m + n <= Len(due') /\ \A k \in 1..n : Kept(t)[k] = due'[m + k]
  BY PlacedIs
<1>3. /\ rec'.timeline = m + n /\ UNCHANGED <<worker, rec.queue>>
      /\ \A u \in Threads : u # t => push'[u] = push[u] /\ push[u].at # "publishing"
      /\ push[t].at = "placing"
      /\ lost' = lost \/ (lost' = lost \cup Slots(t) /\ push'[t].at # "publishing")
  BY <1>1, PlaceDoes, Exclusive, ThreadsAre DEF RecInv, Putting
<1>4. /\ lost' \cap 1..m = lost /\ lost' \subseteq 1..(m + n) /\ lost \subseteq lost'
      /\ push'[t].at = "publishing" => lost' = lost
  BY <1>1, <1>3 DEF Slots
<1>5. \/ /\ push'[t].at = "publishing" /\ push'[t].offset = m /\ push'[t].frames = Kept(t)
         /\ lost' = lost
      \/ push'[t].at # "publishing" /\ (n = 0 \/ lost' = lost \cup ((m + 1)..(m + n)))
  BY <1>1, PlaceDoes DEF Slots
<1> HIDE DEF n, m
<1>6. FileHolds'
  <2>1. 1..Len(worker.file) \subseteq 1..m /\ 1..Len(worker.file) \subseteq 1..Len(due)
    BY <1>1
  <2>2. \A i \in 1..Len(worker.file) : (i \in lost <=> i \in lost') /\ due'[i] = due[i]
    BY <1>2, <1>4, <2>1
  <2>3. /\ Len(worker'.file) <= rec'.timeline /\ rec'.timeline <= Len(due')
        /\ lost' \subseteq 1..rec'.timeline
    BY <1>1, <1>2, <1>3, <1>4
  <2> QED BY <1>1, <1>3, <2>2, <2>3 DEF Stored, FileHolds
<1>7. ASSUME NEW i \in 1..Len(rec.queue) PROVE GoodNext(rec.queue[i])
  <2>1. Good(rec.queue[i]) /\ rec.queue[i].offset \in Nat /\ Len(rec.queue[i].frames) \in Nat
    BY <1>1 DEF Stored, QueueHolds
  <2>2. ASSUME NEW k \in 1..Len(rec.queue[i].frames)
        PROVE  /\ rec.queue[i].frames[k] = due'[rec.queue[i].offset + k]
               /\ rec.queue[i].offset + k \notin lost'
    <3>1. rec.queue[i].offset + k \in 1..m /\ rec.queue[i].offset + k \in 1..Len(due)
      <4>1. rec.queue[i].offset + Len(rec.queue[i].frames) <= m BY <2>1 DEF Good, m
      <4>2. /\ m <= Len(due) /\ m \in Nat /\ Len(due) \in Nat
            /\ rec.queue[i].offset \in Nat /\ Len(rec.queue[i].frames) \in Nat
        BY <1>1, <2>1
      <4>3. k \in Nat /\ 1 <= k /\ k <= Len(rec.queue[i].frames) BY <4>2
      <4> DEFINE o == rec.queue[i].offset
                 l == Len(rec.queue[i].frames)
                 d == Len(due)
      <4>4. o + l <= m /\ m <= d /\ m \in Nat /\ d \in Nat /\ o \in Nat /\ l \in Nat /\ k <= l
        BY <4>1, <4>2, <4>3
      <4> HIDE DEF o, l, d
      <4>5. o + k \in 1..m /\ o + k \in 1..d BY <4>3, <4>4
      <4> QED BY <4>5 DEF o, d
    <3> QED BY <1>2, <1>4, <2>1, <3>1 DEF Good
  <2>3. /\ rec.queue[i].offset >= Len(worker'.file)
        /\ rec.queue[i].offset + Len(rec.queue[i].frames) <= rec'.timeline
    <3>1. /\ rec.queue[i].offset >= Len(worker.file)
          /\ rec.queue[i].offset + Len(rec.queue[i].frames) <= m
      BY <2>1 DEF Good, m
    <3>2. worker'.file = worker.file /\ rec'.timeline = m + n /\ m \in Nat /\ n \in Nat
      BY <1>1, <1>3
    <3>3. rec.queue[i].offset + Len(rec.queue[i].frames) \in Nat BY <2>1
    <3> DEFINE end == rec.queue[i].offset + Len(rec.queue[i].frames)
    <3>4. end \in Nat /\ end <= m BY <3>1, <3>3
    <3> HIDE DEF end
    <3>5. end <= m + n BY <3>2, <3>4
    <3> QED BY <3>1, <3>2, <3>5, Zenon DEF end
  <2> QED BY <1>3, <2>2, <2>3 DEF GoodNext
<1>8. QueueHolds'
  <2>1. rec'.queue = rec.queue BY <1>3
  <2>2. \A i \in 1..Len(rec'.queue) : GoodNext(rec'.queue[i]) BY <2>1, <1>7
  <2>3. \A j \in 1..Len(rec'.queue) : \A i \in 1..(j - 1) : Before(rec'.queue[i], rec'.queue[j])
    BY <1>1, <2>1 DEF Stored, QueueHolds
  <2> QED BY <2>2, <2>3 DEF QueueHolds, Before, Good, GoodNext
<1>9. PutHolds'
  <2>1. SUFFICES ASSUME push'[t].at = "publishing"
                 PROVE  /\ GoodNext(push'[t])
                        /\ \A i \in 1..Len(rec.queue) : Before(rec.queue[i], push'[t])
    <3>1. /\ \A u \in Threads : push'[u].at = "publishing" => u = t
          /\ rec'.queue = rec.queue
      BY <1>3
    <3> QED BY <3>1 DEF PutHolds, Before, Good, GoodNext
  <2>2. /\ push'[t].offset = m /\ push'[t].frames = Kept(t) /\ lost' = lost /\ Len(Kept(t)) = n
    BY <1>5, <2>1 DEF n
  <2>3. ASSUME NEW k \in 1..n PROVE Kept(t)[k] = due'[m + k] /\ m + k \notin lost'
    BY <1>1, <1>2, <2>2
  <2>4. GoodNext(push'[t])
    <3>1. m >= Len(worker'.file) /\ m + n <= rec'.timeline BY <1>1, <1>3
    <3> QED BY <2>2, <2>3, <3>1 DEF GoodNext
  <2>5. \A i \in 1..Len(rec.queue) : Before(rec.queue[i], push'[t])
    BY <1>1, <2>2 DEF Stored, QueueHolds, Good, Before, m
  <2> QED BY <2>4, <2>5
<1>10. NoGap'
  <2>1. ASSUME NEW p \in (Len(worker.file) + 1)..(m + n), p \notin lost'
        PROVE  \/ \E i \in 1..Len(rec.queue) : Covers(rec.queue[i], p)
               \/ \E u \in Threads : push'[u].at = "publishing" /\ Covers(push'[u], p)
    <3>1. CASE p <= m
      <4>1. p \in (Len(worker.file) + 1)..rec.timeline /\ p \notin lost
        BY <1>1, <1>4, <2>1, <3>1 DEF m
      <4>2. ~\E u \in Threads : push[u].at = "publishing" BY <1>3
      <4> QED BY <1>1, <4>1, <4>2 DEF Stored, NoGap
    <3>2. CASE ~(p <= m)
      <4>1. p \in (m + 1)..(m + n) /\ n # 0 BY <1>1, <3>2
      <4>2. push'[t].at = "publishing" /\ push'[t].offset = m /\ Len(push'[t].frames) = n
        BY <1>5, <2>1, <4>1 DEF n
      <4>3. Covers(push'[t], p) BY <1>1, <4>1, <4>2 DEF Covers
      <4> QED BY <4>2, <4>3
    <3> QED BY <3>1, <3>2
  <2> QED BY <1>3, <2>1 DEF NoGap, Covers
<1> QED BY <1>6, <1>8, <1>9, <1>10 DEF Stored

\* Placing moves the frames a block keeps to the next places of the timeline.
LEMMA PlaceKeeps ==
  ASSUME RecInv, NEW t \in Threads, Place(t)
  PROVE  RecInv'
<1>1. TypeOK'
  BY PlaceTyped DEF RecInv, Fits, Controlled
<1>2. Controlled'
  BY PlaceDoes, Types, ThreadsAre, SMTT(30) DEF RecInv, Fits, Controlled, Counted, CommandFits,
       CallbackFits, TapsFit, TapFits, Generations, Quiet, WorkerFits, Placing, Putting,
       Nobody, Underway, Inside, Held, Mixing, States, Open, Taps
<1>3. Whole' /\ MasterIsOwn' /\ Complete' /\ Aligned' /\ TailFollows' /\ Stored'
  BY PlaceWhole, PlaceAligned, PlaceStored
<1> QED BY <1>1, <1>2, <1>3 DEF RecInv, Fits

\* What Publish does, field by field.
LEMMA PublishDoes ==
  ASSUME TypeOK, NEW t \in Threads, Publish(t)
  PROVE  /\ push[t].at = "publishing" /\ push'[t].at = "leaving" /\ push'[t].tap = "Master"
         /\ push'[t].frames = <<>> /\ push'[t].offset = 0 /\ push'[t].generation = 0
         /\ push'[t].epoch = 0 /\ (\A u \in Threads : u # t => push'[u] = push[u])
         /\ rec'.queue = Append(rec.queue, Cell(t))
         /\ UNCHANGED <<rec.state, rec.epoch, rec.generation, rec.tap, rec.lead, rec.timeline,
                        rec.producers, engine, render, worker, op, due, lost>>
BY DEF TypeOK, Recs, Calls, Threads, histories, Publish, Leaving, NoPush, Cell

\* Publish keeps the types.
LEMMA PublishTyped ==
  ASSUME TypeOK, Counted, CallbackFits, NEW t \in Threads, Publish(t)
  PROVE  TypeOK'
<1>1. push' \in [Threads -> Calls]
  BY Blank, ZenonT(20) DEF TypeOK, Calls, Publish, Threads, Taps
<1>2. Append(rec.queue, Cell(t)) \in Seq([offset : Nat, frames : Seq(Frames)])
  BY SMT DEF TypeOK, Recs, Calls, Cell
<1>3. rec' \in Recs
  BY <1>2, ZenonT(20) DEF TypeOK, Recs, Publish, Leaving, NoPush, States, Open, Taps, Cell
<1>4. revived' \in BOOLEAN
  BY DEF TypeOK, Publish, histories
<1> QED BY <1>1, <1>3, <1>4, PublishDoes DEF TypeOK

\* A block that is published is the last of the queue.
LEMMA PublishStored ==
  ASSUME RecInv, NEW t \in Threads, Publish(t)
  PROVE  Stored'
<1>1. /\ TypeOK /\ Stored /\ push[t].at = "publishing"
      /\ rec.queue \in Seq([offset : Nat, frames : Seq(Frames)])
      /\ rec'.queue = Append(rec.queue, Cell(t)) /\ push'[t].at # "publishing"
      /\ UNCHANGED <<worker.file, rec.timeline, due, lost>>
      /\ Cell(t).offset = push[t].offset /\ Cell(t).frames = push[t].frames
  BY PublishDoes DEF RecInv, Fits, TypeOK, Recs, Cell
<1>2. \A u \in Threads : push'[u].at # "publishing" /\ (push[u].at = "publishing" => u = t)
  BY <1>1, PublishDoes, Exclusive, ThreadsAre DEF RecInv, Putting
<1> DEFINE n == Len(rec.queue)
           b == Cell(t)
<1>3. /\ n \in Nat /\ Len(rec'.queue) = n + 1 /\ rec'.queue[n + 1] = b
      /\ \A i \in 1..n : rec'.queue[i] = rec.queue[i]
  BY <1>1
<1>4. Good(b) /\ \A i \in 1..n : Before(rec.queue[i], b) /\ Good(rec.queue[i])
  BY <1>1 DEF Stored, PutHolds, QueueHolds, Good, Before
<1> HIDE DEF n, b
<1>5. \A c : Good(c) => GoodNext(c)
  BY <1>1 DEF Good, GoodNext
<1>6. FileHolds' BY <1>1 DEF Stored, FileHolds
<1>7. QueueHolds'
  <2>1. \A i \in 1..(n + 1) : GoodNext(rec'.queue[i])
    <3>1. ASSUME NEW i \in 1..(n + 1) PROVE GoodNext(rec'.queue[i])
      <4>1. CASE i = n + 1 BY <1>3, <1>4, <1>5, <4>1
      <4>2. CASE i # n + 1
        <5>1. i \in 1..n BY <1>3, <4>2
        <5> QED BY <1>3, <1>4, <1>5, <5>1
      <4> QED BY <4>1, <4>2
    <3> QED BY <3>1
  <2>2. ASSUME NEW j \in 1..(n + 1), NEW i \in 1..(j - 1) PROVE Before(rec'.queue[i], rec'.queue[j])
    <3>1. i \in 1..n /\ (j = n + 1 \/ j \in 1..n) BY <1>3
    <3>2. CASE j = n + 1 BY <1>3, <1>4, <3>1, <3>2
    <3>3. CASE j \in 1..n BY <1>1, <1>3, <3>1, <3>3 DEF Stored, QueueHolds, n
    <3> QED BY <3>1, <3>2, <3>3
  <2> QED BY <1>3, <2>1, <2>2 DEF QueueHolds, Before, Good, GoodNext
<1>8. PutHolds' BY <1>2 DEF PutHolds
<1>9. NoGap'
  <2>1. ASSUME NEW p \in (Len(worker.file) + 1)..rec.timeline, p \notin lost
        PROVE  \E i \in 1..(n + 1) : Covers(rec'.queue[i], p)
    <3>1. \/ \E i \in 1..n : Covers(rec.queue[i], p)
          \/ \E u \in Threads : push[u].at = "publishing" /\ Covers(push[u], p)
      BY <1>1, <2>1 DEF Stored, NoGap, n
    <3>2. CASE \E i \in 1..n : Covers(rec.queue[i], p)
      <4>1. PICK i \in 1..n : Covers(rec.queue[i], p) BY <3>2
      <4>2. i \in 1..(n + 1) BY <1>3
      <4> QED BY <1>3, <4>1, <4>2
    <3>3. CASE \E u \in Threads : push[u].at = "publishing" /\ Covers(push[u], p)
      <4>1. Covers(b, p) BY <1>1, <1>2, <3>3 DEF Covers, b
      <4>2. n + 1 \in 1..(n + 1) BY <1>3
      <4> QED BY <1>3, <4>1, <4>2
    <3> QED BY <3>1, <3>2, <3>3
  <2> QED BY <1>1, <1>3, <2>1 DEF NoGap, Covers
<1> QED BY <1>6, <1>7, <1>8, <1>9 DEF Stored

\* Publishing moves them into the queue.
LEMMA PublishKeeps ==
  ASSUME RecInv, NEW t \in Threads, Publish(t)
  PROVE  RecInv'
<1>1. TypeOK'
  BY PublishTyped DEF RecInv, Fits, Controlled
<1>2. Controlled'
  BY PublishDoes, Types, ThreadsAre, SMTT(30) DEF RecInv, Fits, Controlled, Counted,
       CommandFits, CallbackFits, TapsFit, TapFits, Generations, Quiet, WorkerFits, Placing,
       Putting, Nobody, Underway, Inside, Held, Mixing, States, Open, Taps
<1>3. Own' = Own
  BY PublishDoes DEF Own, RecInv, Fits
<1>4. Whole'
  BY PublishDoes, Types, ThreadsAre DEF RecInv, Fits, Whole
<1>5. MasterIsOwn'
  BY <1>3, PublishDoes, Types, ThreadsAre DEF RecInv, Fits, MasterIsOwn, Placing, Underway
<1>6. (Mixing' => InStep') /\ (Follows' => Delayed')
  BY <1>3, PublishDoes, Types, ThreadsAre, InStepStays, DelayedStays
  DEF RecInv, Fits, Aligned, Follows, Mixing, Held, Placing, Underway, Through
<1>7. (Follows /\ Mixing /\ ~WillTake => rec.lead = Lead)'
  BY PublishDoes, Types, ThreadsAre DEF RecInv, Fits, Aligned, Follows, Mixing, Held, Placing,
       Underway, WillTake
<1>8. TailFollows'
  BY PublishDoes, Types, ThreadsAre, TrailedStays DEF RecInv, Fits, Controlled, TailFollows,
       Held, Placing, Underway, Rest, CommandFits
<1>9. Complete'
  BY PublishDoes, Types, ThreadsAre DEF RecInv, Fits, Complete
<1>10. Stored'
  BY PublishStored
<1> QED BY <1>1, <1>2, <1>4, <1>5, <1>6, <1>7, <1>8, <1>9, <1>10 DEF RecInv, Fits, Aligned

\* What ReleaseProducer does, field by field.
LEMMA ReleaseProducerDoes ==
  ASSUME TypeOK, NEW t \in Threads, ReleaseProducer(t)
  PROVE  /\ push[t].at = "leaving" /\ push'[t].at \in {"done", "waking"}
         /\ push'[t].tap = "Master" /\ push'[t].frames = <<>> /\ push'[t].offset = 0
         /\ push'[t].generation = 0 /\ push'[t].epoch = 0
         /\ (\A u \in Threads : u # t => push'[u] = push[u]) /\ rec'.producers = rec.producers - 1
         /\ UNCHANGED <<rec.state, rec.epoch, rec.generation, rec.tap, rec.lead, rec.timeline,
                        rec.queue, worker.at, worker.file, engine, render, op, due, lost>>
BY DEF TypeOK, Recs, Calls, Writers, Threads, histories, ReleaseProducer, NoPush

\* ReleaseProducer keeps the types.
LEMMA ReleaseProducerTyped ==
  ASSUME TypeOK, Counted, CallbackFits, NEW t \in Threads, ReleaseProducer(t)
  PROVE  TypeOK'
<1>1. push' \in [Threads -> Calls]
  BY Blank, ZenonT(20) DEF TypeOK, Calls, ReleaseProducer, Threads, Taps
<1>2. rec.producers - 1 \in 0..2
  BY ThreadsAre DEF Counted, Inside, ReleaseProducer
<1>3. rec' \in Recs
  BY <1>2, ZenonT(20) DEF TypeOK, Recs, ReleaseProducer, NoPush, States, Open, Taps
<1>4. worker' \in Writers
  BY ZenonT(20) DEF TypeOK, Writers, ReleaseProducer, NoPush
<1>5. revived' \in BOOLEAN
  BY DEF TypeOK, ReleaseProducer, histories
<1> QED BY <1>1, <1>3, <1>4, <1>5, ReleaseProducerDoes DEF TypeOK

\* ReleaseProducer keeps the invariant.
LEMMA ReleaseProducerKeeps ==
  ASSUME RecInv, NEW t \in Threads, ReleaseProducer(t)
  PROVE  RecInv'
<1>1. TypeOK'
  BY ReleaseProducerTyped DEF RecInv, Fits, Controlled
<1>2. Controlled'
  BY ReleaseProducerDoes, Types, ThreadsAre, SMTT(30) DEF RecInv, Fits, Controlled, Counted,
       CommandFits, CallbackFits, TapsFit, TapFits, Generations, Quiet, WorkerFits, Placing,
       Putting, Nobody, Underway, Inside, Held, Mixing, States, Open, Taps
<1>3. Own' = Own
  BY ReleaseProducerDoes DEF Own, RecInv, Fits
<1>4. Whole'
  BY ReleaseProducerDoes, Types, ThreadsAre DEF RecInv, Fits, Whole
<1>5. MasterIsOwn'
  BY <1>3, ReleaseProducerDoes, Types, ThreadsAre DEF RecInv, Fits, MasterIsOwn, Placing,
       Underway
<1>6. (Mixing' => InStep') /\ (Follows' => Delayed')
  BY <1>3, ReleaseProducerDoes, Types, ThreadsAre, InStepStays, DelayedStays
  DEF RecInv, Fits, Aligned, Follows, Mixing, Held, Placing, Underway, Through
<1>7. (Follows /\ Mixing /\ ~WillTake => rec.lead = Lead)'
  BY ReleaseProducerDoes, Types, ThreadsAre DEF RecInv, Fits, Aligned, Follows, Mixing, Held,
       Placing, Underway, WillTake
<1>8. TailFollows'
  BY ReleaseProducerDoes, Types, ThreadsAre, TrailedStays DEF RecInv, Fits, TailFollows, Held,
       Placing, Underway, Rest
<1>9. Complete'
  BY ReleaseProducerDoes, Types, ThreadsAre DEF RecInv, Fits, Complete
<1>10. Stored'
  BY ReleaseProducerDoes, ThreadsAre, StoredStays DEF RecInv, Fits
<1> QED BY <1>1, <1>2, <1>4, <1>5, <1>6, <1>7, <1>8, <1>9, <1>10 DEF RecInv, Fits, Aligned

\* What WakeWorker does, field by field.
LEMMA WakeWorkerDoes ==
  ASSUME TypeOK, NEW t \in Threads, WakeWorker(t)
  PROVE  /\ push[t].at = "waking" /\ push'[t].at = "done" /\ push'[t].tap = "Master"
         /\ push'[t].frames = <<>> /\ push'[t].offset = 0 /\ push'[t].generation = 0
         /\ push'[t].epoch = 0 /\ (\A u \in Threads : u # t => push'[u] = push[u])
         /\ UNCHANGED <<worker.at, worker.file, rec, engine, render, op, due, lost>>
BY DEF TypeOK, Calls, Writers, Threads, histories, WakeWorker, NoPush

\* WakeWorker keeps the types.
LEMMA WakeWorkerTyped ==
  ASSUME TypeOK, Counted, CallbackFits, NEW t \in Threads, WakeWorker(t)
  PROVE  TypeOK'
<1>1. push' \in [Threads -> Calls]
  BY Blank, ZenonT(20) DEF TypeOK, Calls, WakeWorker, Threads, Taps
<1>2. worker' \in Writers
  BY ZenonT(20) DEF TypeOK, Writers, WakeWorker, NoPush
<1>3. revived' \in BOOLEAN
  BY DEF TypeOK, WakeWorker, histories
<1> QED BY <1>1, <1>2, <1>3, WakeWorkerDoes DEF TypeOK

\* WakeWorker keeps the invariant.
LEMMA WakeWorkerKeeps ==
  ASSUME RecInv, NEW t \in Threads, WakeWorker(t)
  PROVE  RecInv'
<1>1. TypeOK'
  BY WakeWorkerTyped DEF RecInv, Fits, Controlled
<1>2. Controlled'
  BY WakeWorkerDoes, Types, ThreadsAre, SMTT(30) DEF RecInv, Fits, Controlled, Counted,
       CommandFits, CallbackFits, TapsFit, TapFits, Generations, Quiet, WorkerFits, Placing,
       Putting, Nobody, Underway, Inside, Held, Mixing, States, Open, Taps
<1>3. Own' = Own
  BY WakeWorkerDoes DEF Own, RecInv, Fits
<1>4. Whole'
  BY WakeWorkerDoes, Types, ThreadsAre DEF RecInv, Fits, Whole
<1>5. MasterIsOwn'
  BY <1>3, WakeWorkerDoes, Types, ThreadsAre DEF RecInv, Fits, MasterIsOwn, Placing, Underway
<1>6. (Mixing' => InStep') /\ (Follows' => Delayed')
  BY <1>3, WakeWorkerDoes, Types, ThreadsAre, InStepStays, DelayedStays
  DEF RecInv, Fits, Aligned, Follows, Mixing, Held, Placing, Underway, Through
<1>7. (Follows /\ Mixing /\ ~WillTake => rec.lead = Lead)'
  BY WakeWorkerDoes, Types, ThreadsAre DEF RecInv, Fits, Aligned, Follows, Mixing, Held,
       Placing, Underway, WillTake
<1>8. TailFollows'
  BY WakeWorkerDoes, Types, ThreadsAre, TrailedStays DEF RecInv, Fits, TailFollows, Held,
       Placing, Underway, Rest
<1>9. Complete'
  BY WakeWorkerDoes, Types, ThreadsAre DEF RecInv, Fits, Complete
<1>10. Stored'
  BY WakeWorkerDoes, ThreadsAre, StoredStays DEF RecInv, Fits
<1> QED BY <1>1, <1>2, <1>4, <1>5, <1>6, <1>7, <1>8, <1>9, <1>10 DEF RecInv, Fits, Aligned

---------------------------------------------------------------------------
(* The callback.                                                           *)

\* What BlockBegins does, field by field.
LEMMA BlockBeginsDoes ==
  ASSUME TypeOK, BlockBegins
  PROVE  /\ render.at = "idle" /\ engine.blocks < MaxBlocks /\ engine.device = engine.generation
         /\ engine'.readers = engine.readers + 1 /\ render'.at = "looking"
         /\ render'.generation = engine.generation
         /\ UNCHANGED <<engine.suspended, engine.aligner, engine.blocks, engine.generation,
                        engine.device, render.active, rec, push, worker, op, due, lost>>
BY DEF TypeOK, Engines, Renders, histories, BlockBegins

\* BlockBegins keeps the types.
LEMMA BlockBeginsTyped ==
  ASSUME TypeOK, Counted, CallbackFits, BlockBegins
  PROVE  TypeOK'
<1>1. engine.readers + 1 \in 0..1
  BY SMT DEF CallbackFits, BlockBegins, TypeOK, Renders
<1>2. engine' \in Engines
  BY <1>1, ZenonT(20) DEF TypeOK, Engines, BlockBegins
<1>3. engine.generation \in Nat
  BY Types
<1>4. render' \in Renders
  BY <1>3, ZenonT(20) DEF TypeOK, Renders, BlockBegins
<1>5. Len(engine'.aligner) = Lead
  BY BlockBeginsDoes DEF TypeOK
<1>6. revived' \in BOOLEAN
  BY DEF TypeOK, BlockBegins, histories
<1> QED BY <1>2, <1>4, <1>5, <1>6, BlockBeginsDoes DEF TypeOK

\* BlockBegins keeps the invariant.
LEMMA BlockBeginsKeeps ==
  ASSUME RecInv, BlockBegins
  PROVE  RecInv'
<1>1. TypeOK'
  BY BlockBeginsTyped DEF RecInv, Fits, Controlled
<1>2. Controlled'
  BY BlockBeginsDoes, Types, ThreadsAre, SMTT(30) DEF RecInv, Fits, Controlled, Counted,
       CommandFits, CallbackFits, TapsFit, TapFits, Generations, Quiet, WorkerFits, Placing,
       Putting, Nobody, Underway, Inside, Held, Mixing, States, Open, Taps
<1>3. Own' = Own
  BY BlockBeginsDoes DEF Own, RecInv, Fits
<1>4. Whole'
  BY BlockBeginsDoes, Types, ThreadsAre DEF RecInv, Fits, Whole
<1>5. MasterIsOwn'
  BY <1>3, BlockBeginsDoes, Types, ThreadsAre DEF RecInv, Fits, MasterIsOwn, Placing, Underway
<1>6. (Mixing' => InStep') /\ (Follows' => Delayed')
  BY <1>3, BlockBeginsDoes, Types, ThreadsAre, InStepStays, DelayedStays
  DEF RecInv, Fits, Aligned, Follows, Mixing, Held, Placing, Underway, Through
<1>7. (Follows /\ Mixing /\ ~WillTake => rec.lead = Lead)'
  BY BlockBeginsDoes, Types, ThreadsAre DEF RecInv, Fits, Aligned, Follows, Mixing, Held,
       Placing, Underway, WillTake
<1>8. TailFollows'
  BY BlockBeginsDoes, TrailedStays DEF RecInv, Fits, TailFollows, Held, Placing, Underway, Rest
<1>9. Complete'
  BY BlockBeginsDoes, Types, ThreadsAre DEF RecInv, Fits, Complete
<1>10. Stored'
  BY BlockBeginsDoes, ThreadsAre, StoredStays DEF RecInv, Fits
<1> QED BY <1>1, <1>2, <1>4, <1>5, <1>6, <1>7, <1>8, <1>9, <1>10 DEF RecInv, Fits, Aligned

\* What LookSuspended does, field by field.
LEMMA LookSuspendedDoes ==
  ASSUME TypeOK, LookSuspended
  PROVE  /\ render.at = "looking" /\ engine.suspended /\ engine'.readers = engine.readers - 1
         /\ render'.at = "master" /\ ~render'.active /\ push'["render"].at = "reading"
         /\ push'["render"].tap = "Master" /\ push'["render"].frames = Own
         /\ push'["render"].offset = 0 /\ push'["render"].generation = render.generation
         /\ push'["render"].epoch = 0
         /\ UNCHANGED <<engine.suspended, engine.aligner, engine.blocks, engine.generation,
                        engine.device, render.generation, push["control"], rec, worker, op, due,
                        lost>>
BY DEF TypeOK, Engines, Calls, Renders, Threads, histories, LookSuspended, Offer, NoPush

\* LookSuspended keeps the types.
LEMMA LookSuspendedTyped ==
  ASSUME TypeOK, Counted, CallbackFits, LookSuspended
  PROVE  TypeOK'
<1>1. engine.readers - 1 \in 0..1
  BY SMT DEF CallbackFits, LookSuspended
<1>2. engine' \in Engines
  BY <1>1, ZenonT(20) DEF TypeOK, Engines, LookSuspended, Offer, NoPush
<1>3. render' \in Renders
  BY ZenonT(20) DEF TypeOK, Renders, LookSuspended, Offer, NoPush
<1>4. /\ Offer("render", "Master", Own, render.generation)
      /\ Own \in Seq(Frames) /\ render.generation \in Nat
  BY OwnIs, SMT DEF LookSuspended, TypeOK, Renders
<1>5. push' \in [Threads -> Calls]
  BY <1>4, OfferTyped, ThreadsAre, Zenon DEF TypeOK, Taps
<1>6. Len(engine'.aligner) = Lead
  BY LookSuspendedDoes DEF TypeOK
<1>7. revived' \in BOOLEAN
  BY DEF TypeOK, LookSuspended, histories
<1> QED BY <1>2, <1>3, <1>5, <1>6, <1>7, LookSuspendedDoes DEF TypeOK

\* A callback that finds the performance held leaves the aligner to control.
LEMMA LookSuspendedKeeps ==
  ASSUME RecInv, LookSuspended
  PROVE  RecInv'
<1>1. TypeOK'
  BY LookSuspendedTyped DEF RecInv, Fits, Controlled
<1>2. Controlled'
  BY LookSuspendedDoes, Types, ThreadsAre, SMTT(30) DEF RecInv, Fits, Controlled, Counted,
       CommandFits, CallbackFits, TapsFit, TapFits, Generations, Quiet, WorkerFits, Placing,
       Putting, Nobody, Underway, Inside, Held, Mixing, States, Open, Taps
<1>3. Own' = Own
  BY LookSuspendedDoes DEF Own, RecInv, Fits
<1>4. Whole'
  BY LookSuspendedDoes, Types, ThreadsAre DEF RecInv, Fits, Whole
<1>5. MasterIsOwn'
  BY <1>3, LookSuspendedDoes, Types, ThreadsAre DEF RecInv, Fits, MasterIsOwn, Placing, Underway
<1>6. (Mixing' => InStep') /\ (Follows' => Delayed')
  BY <1>3, LookSuspendedDoes, Types, ThreadsAre, InStepStays, DelayedStays
  DEF RecInv, Fits, Controlled, Aligned, Follows, Mixing, Held, Placing, Underway, Through,
       CallbackFits
<1>7. (Follows /\ Mixing /\ ~WillTake => rec.lead = Lead)'
  BY LookSuspendedDoes, Types, ThreadsAre DEF RecInv, Fits, Aligned, Follows, Mixing, Held,
       Placing, Underway, WillTake
<1>8. TailFollows'
  BY LookSuspendedDoes, Types, ThreadsAre, TrailedStays DEF RecInv, Fits, TailFollows, Held,
       Placing, Underway, Rest
<1>9. Complete'
  BY LookSuspendedDoes, Types, ThreadsAre DEF RecInv, Fits, Complete
<1>10. Stored'
  BY LookSuspendedDoes, ThreadsAre, StoredStays DEF RecInv, Fits, Controlled, CallbackFits
<1> QED BY <1>1, <1>2, <1>4, <1>5, <1>6, <1>7, <1>8, <1>9, <1>10 DEF RecInv, Fits, Aligned

\* What MixPerformance does, field by field.
LEMMA MixPerformanceDoes ==
  ASSUME TypeOK, MixPerformance
  PROVE  /\ render.at = "looking" /\ ~engine.suspended
         /\ engine'.aligner = Drop(engine.aligner \o Own, Block) /\ render'.at = "performance"
         /\ render'.active /\ push'["render"].at = "reading"
         /\ push'["render"].tap = "Performance"
         /\ push'["render"].frames = SubSeq(engine.aligner \o Own, 1, Block)
         /\ push'["render"].offset = 0 /\ push'["render"].generation = render.generation
         /\ push'["render"].epoch = 0
         /\ UNCHANGED <<engine.suspended, engine.readers, engine.blocks, engine.generation,
                        engine.device, render.generation, push["control"], rec, worker, op, due,
                        lost>>
BY DEF TypeOK, Engines, Calls, Renders, Threads, histories, MixPerformance, Offer, NoPush

\* MixPerformance keeps the types.
LEMMA MixPerformanceTyped ==
  ASSUME TypeOK, Counted, CallbackFits, MixPerformance
  PROVE  TypeOK'
<1>1. Drop(engine.aligner \o Own, Block) \in Seq(Frames)
  BY MixedIs
<1>2. engine' \in Engines
  BY <1>1, ZenonT(20) DEF TypeOK, Engines, MixPerformance, Offer, NoPush
<1>3. render' \in Renders
  BY ZenonT(20) DEF TypeOK, Renders, MixPerformance, Offer, NoPush
<1>4. /\ Offer("render", "Performance", SubSeq(engine.aligner \o Own, 1, Block), render.generation)
      /\ SubSeq(engine.aligner \o Own, 1, Block) \in Seq(Frames) /\ render.generation \in Nat
  BY MixedIs, SMT DEF MixPerformance, TypeOK, Renders
<1>5. push' \in [Threads -> Calls]
  BY <1>4, OfferTyped, ThreadsAre, Zenon DEF TypeOK, Taps
<1>6. Len(engine'.aligner) = Lead
  BY ZerosAre, MixedIs, MixPerformanceDoes
<1>7. revived' \in BOOLEAN
  BY DEF TypeOK, MixPerformance, histories
<1> QED BY <1>2, <1>3, <1>5, <1>6, <1>7, MixPerformanceDoes DEF TypeOK

\* What leaves the aligner and what stays in it are what it held and the new block.
LEMMA MixPerformanceAligned ==
  ASSUME RecInv, MixPerformance
  PROVE  Aligned' /\ TailFollows'
<1>1. Own' = Own BY MixPerformanceDoes DEF Own, RecInv, Fits
<1>2. TypeOK /\ ~Mixing /\ Mixing' /\ Own \in Seq(Frames) /\ Lead \in Nat /\ Block \in Nat
  BY MixPerformanceDoes, OwnIs, RecordingAssumption DEF RecInv, Fits, Controlled, CallbackFits,
       Mixing, Underway
<1>3. /\ Through = engine.aligner
      /\ Through' = SubSeq(engine.aligner \o Own, 1, Block) \o Drop(engine.aligner \o Own, Block)
      /\ push'["render"].frames = SubSeq(engine.aligner \o Own, 1, Block)
  BY <1>2, MixPerformanceDoes DEF Through
<1>4. /\ \A i \in 1..Lead : Through'[i] = Through[i]
      /\ \A i \in 1..Block : Through'[Lead + i] = Own[i]
  <2>1. 1..Lead \subseteq 1..(Lead + Block) /\ \A i \in 1..Block : Lead + i \in 1..(Lead + Block)
    BY <1>2
  <2>2. /\ \A i \in 1..Lead : (engine.aligner \o Own)[i] = engine.aligner[i]
        /\ \A i \in 1..Block : (engine.aligner \o Own)[Lead + i] = Own[i]
    BY <1>2, MixedIs
  <2>3. \A i \in 1..(Lead + Block) : Through'[i] = (engine.aligner \o Own)[i]
    BY <1>2, <1>3, MixedSplits
  <2> QED BY <1>3, <2>1, <2>2, <2>3
<1>5. InStep'
  BY <1>1, <1>2, <1>3, <1>4, MixedIs DEF InStep
<1>6. ASSUME Follows' PROVE Delayed' /\ WillTake'
  <2>1. Follows /\ WillTake' /\ rec.lead \in 0..Lead
    BY <1>2, <1>6, MixPerformanceDoes, Types
    DEF RecInv, Fits, Controlled, Follows, Held, Placing, WillTake, Generations, CommandFits
  <2>2. Delayed BY <2>1 DEF RecInv, Aligned
  <2>3. UNCHANGED <<due, rec.timeline, rec.lead>> BY <1>2, MixPerformanceDoes
  <2>4. (rec.lead + 1)..Lead \subseteq 1..Lead BY <2>1
  <2> QED BY <1>4, <2>1, <2>2, <2>3, <2>4 DEF Delayed
<1>7. TailFollows'
  BY <1>2, MixPerformanceDoes DEF RecInv, Fits, Controlled, CommandFits, Held, TailFollows
<1> QED BY <1>5, <1>6, <1>7 DEF Aligned

\* The block goes through the aligner.
LEMMA MixPerformanceKeeps ==
  ASSUME RecInv, MixPerformance
  PROVE  RecInv'
<1>1. TypeOK'
  BY MixPerformanceTyped DEF RecInv, Fits, Controlled
<1>2. Controlled'
  BY MixPerformanceDoes, Types, ThreadsAre, SMTT(30) DEF RecInv, Fits, Controlled, Counted,
       CommandFits, CallbackFits, TapsFit, TapFits, Generations, Quiet, WorkerFits, Placing,
       Putting, Nobody, Underway, Inside, Held, Mixing, States, Open, Taps
<1>3. Own' = Own
  BY MixPerformanceDoes DEF Own, RecInv, Fits
<1>4. Whole'
  BY MixPerformanceDoes, Types, ThreadsAre DEF RecInv, Fits, Whole
<1>5. MasterIsOwn'
  BY <1>3, MixPerformanceDoes, Types, ThreadsAre DEF RecInv, Fits, MasterIsOwn, Placing,
       Underway
<1>6. Aligned' /\ TailFollows'
  BY MixPerformanceAligned
<1>9. Complete'
  BY MixPerformanceDoes, Types, ThreadsAre DEF RecInv, Fits, Complete
<1>10. Stored'
  BY MixPerformanceDoes, ThreadsAre, StoredStays DEF RecInv, Fits, Controlled, CallbackFits
<1> QED BY <1>1, <1>2, <1>4, <1>5, <1>6, <1>9, <1>10 DEF RecInv, Fits

\* What MixMaster does, field by field.
LEMMA MixMasterDoes ==
  ASSUME TypeOK, MixMaster
  PROVE  /\ render.at = "performance" /\ push["render"].at = "done" /\ render'.at = "master"
         /\ push'["render"].at = "reading" /\ push'["render"].tap = "Master"
         /\ push'["render"].frames = Own /\ push'["render"].offset = 0
         /\ push'["render"].generation = render.generation /\ push'["render"].epoch = 0
         /\ UNCHANGED <<render.generation, render.active, push["control"], rec, engine, worker,
                        op, due, lost>>
BY DEF TypeOK, Calls, Renders, Threads, histories, MixMaster, Offer, NoPush

\* MixMaster keeps the types.
LEMMA MixMasterTyped ==
  ASSUME TypeOK, Counted, CallbackFits, MixMaster
  PROVE  TypeOK'
<1>1. render' \in Renders
  BY ZenonT(20) DEF TypeOK, Renders, MixMaster, Offer, NoPush
<1>2. /\ Offer("render", "Master", Own, render.generation)
      /\ Own \in Seq(Frames) /\ render.generation \in Nat
  BY OwnIs, SMT DEF MixMaster, TypeOK, Renders
<1>3. push' \in [Threads -> Calls]
  BY <1>2, OfferTyped, ThreadsAre, Zenon DEF TypeOK, Taps
<1>4. revived' \in BOOLEAN
  BY DEF TypeOK, MixMaster, histories
<1> QED BY <1>1, <1>3, <1>4, MixMasterDoes DEF TypeOK

\* MixMaster keeps the invariant.
LEMMA MixMasterKeeps ==
  ASSUME RecInv, MixMaster
  PROVE  RecInv'
<1>1. TypeOK'
  BY MixMasterTyped DEF RecInv, Fits, Controlled
<1>2. Controlled'
  BY MixMasterDoes, Types, ThreadsAre, SMTT(30) DEF RecInv, Fits, Controlled, Counted,
       CommandFits, CallbackFits, TapsFit, TapFits, Generations, Quiet, WorkerFits, Placing,
       Putting, Nobody, Underway, Inside, Held, Mixing, States, Open, Taps
<1>3. Own' = Own
  BY MixMasterDoes DEF Own, RecInv, Fits
<1>4. Whole'
  BY MixMasterDoes, Types, ThreadsAre DEF RecInv, Fits, Whole
<1>5. MasterIsOwn'
  BY <1>3, MixMasterDoes, Types, ThreadsAre DEF RecInv, Fits, MasterIsOwn, Placing, Underway
<1>6. (Mixing' => InStep') /\ (Follows' => Delayed')
  BY <1>3, MixMasterDoes, Types, ThreadsAre, InStepStays, DelayedStays
  DEF RecInv, Fits, Aligned, Follows, Mixing, Held, Placing, Underway, Through
<1>7. (Follows /\ Mixing /\ ~WillTake => rec.lead = Lead)'
  BY MixMasterDoes, Types, ThreadsAre DEF RecInv, Fits, Aligned, Follows, Mixing, Held,
       Placing, Underway, WillTake
<1>8. TailFollows'
  BY MixMasterDoes, Types, ThreadsAre, TrailedStays DEF RecInv, Fits, TailFollows, Held,
       Placing, Underway, Rest
<1>9. Complete'
  BY MixMasterDoes, Types, ThreadsAre DEF RecInv, Fits, Complete
<1>10. Stored'
  BY MixMasterDoes, ThreadsAre, StoredStays DEF RecInv, Fits
<1> QED BY <1>1, <1>2, <1>4, <1>5, <1>6, <1>7, <1>8, <1>9, <1>10 DEF RecInv, Fits, Aligned

\* What BlockEnds does, field by field.
LEMMA BlockEndsDoes ==
  ASSUME TypeOK, BlockEnds
  PROVE  /\ render.at = "master" /\ push["render"].at = "done"
         /\ engine'.blocks = engine.blocks + 1
         /\ engine'.readers = (IF render.active THEN engine.readers - 1 ELSE engine.readers)
         /\ render'.at = "idle" /\ render'.generation = 0 /\ ~render'.active
         /\ UNCHANGED <<engine.suspended, engine.aligner, engine.generation, engine.device, rec,
                        push, worker, op, due, lost>>
BY DEF TypeOK, Engines, Renders, histories, BlockEnds, NoCallback

\* BlockEnds keeps the types.
LEMMA BlockEndsTyped ==
  ASSUME TypeOK, Counted, CallbackFits, BlockEnds
  PROVE  TypeOK'
<1>1. /\ (IF render.active THEN engine.readers - 1 ELSE engine.readers) \in 0..1
      /\ engine.blocks + 1 \in 0..MaxBlocks
  BY BlockEndsHas
<1>2. engine' \in Engines
  BY <1>1, ZenonT(20) DEF TypeOK, Engines, BlockEnds, NoCallback
<1>3. render' \in Renders
  BY ZenonT(20) DEF TypeOK, Renders, BlockEnds, NoCallback
<1>4. Len(engine'.aligner) = Lead
  BY BlockEndsDoes DEF TypeOK
<1>5. revived' \in BOOLEAN
  BY DEF TypeOK, BlockEnds, histories
<1> QED BY <1>2, <1>3, <1>4, <1>5, BlockEndsDoes DEF TypeOK

\* BlockEnds keeps the invariant.
LEMMA BlockEndsKeeps ==
  ASSUME RecInv, BlockEnds
  PROVE  RecInv'
<1>1. TypeOK'
  BY BlockEndsTyped DEF RecInv, Fits, Controlled
<1>2. Controlled'
  BY BlockEndsDoes, Types, ThreadsAre, SMTT(30) DEF RecInv, Fits, Controlled, Counted,
       CommandFits, CallbackFits, TapsFit, TapFits, Generations, Quiet, WorkerFits, Placing,
       Putting, Nobody, Underway, Inside, Held, Mixing, States, Open, Taps
<1>3. ~Underway("render")'
  BY BlockEndsDoes DEF Underway, RecInv, Fits
<1>4. Whole'
  BY BlockEndsDoes, Types, ThreadsAre DEF RecInv, Fits, Whole
<1>5. MasterIsOwn'
  BY <1>3, BlockEndsDoes, Types, ThreadsAre DEF RecInv, Fits, MasterIsOwn, Placing, Underway
<1>6. (Mixing' => InStep') /\ (Follows' => Delayed')
  BY <1>3, BlockEndsDoes, Types, ThreadsAre, InStepStays, DelayedStays
  DEF RecInv, Fits, Aligned, Follows, Mixing, Held, Placing, Underway, Through
<1>7. (Follows /\ Mixing /\ ~WillTake => rec.lead = Lead)'
  BY BlockEndsDoes, Types, ThreadsAre DEF RecInv, Fits, Aligned, Follows, Mixing, Held,
       Placing, Underway, WillTake
<1>8. TailFollows'
  BY BlockEndsDoes, TrailedStays DEF RecInv, Fits, TailFollows, Held, Placing, Underway, Rest
<1>9. Complete'
  BY BlockEndsDoes, Types, ThreadsAre DEF RecInv, Fits, Complete
<1>10. Stored'
  BY BlockEndsDoes, ThreadsAre, StoredStays DEF RecInv, Fits
<1> QED BY <1>1, <1>2, <1>4, <1>5, <1>6, <1>7, <1>8, <1>9, <1>10 DEF RecInv, Fits, Aligned

---------------------------------------------------------------------------
(* The worker.                                                             *)

\* What WorkerTurns does, field by field.
LEMMA WorkerTurnsDoes ==
  ASSUME TypeOK, WorkerTurns
  PROVE  /\ worker.at = "top" /\ worker'.at \in {"gone", "writing"}
         /\ UNCHANGED <<worker.file, rec, engine, push, render, op, due, lost>>
BY DEF TypeOK, Writers, histories, WorkerTurns

\* WorkerTurns keeps the types.
LEMMA WorkerTurnsTyped ==
  ASSUME TypeOK, Counted, CallbackFits, WorkerTurns
  PROVE  TypeOK'
<1>1. worker' \in Writers
  BY ZenonT(20) DEF TypeOK, Writers, WorkerTurns
<1>2. revived' \in BOOLEAN
  BY DEF TypeOK, WorkerTurns, histories
<1> QED BY <1>1, <1>2, WorkerTurnsDoes DEF TypeOK

\* WorkerTurns keeps the invariant.
LEMMA WorkerTurnsKeeps ==
  ASSUME RecInv, WorkerTurns
  PROVE  RecInv'
<1>1. TypeOK'
  BY WorkerTurnsTyped DEF RecInv, Fits, Controlled
<1>2. Controlled'
  BY WorkerTurnsDoes, Types, ThreadsAre, SMTT(30) DEF RecInv, Fits, Controlled, Counted,
       CommandFits, CallbackFits, TapsFit, TapFits, Generations, Quiet, WorkerFits, Placing,
       Putting, Nobody, Underway, Inside, Held, Mixing, States, Open, Taps
<1>3. Own' = Own
  BY WorkerTurnsDoes DEF Own, RecInv, Fits
<1>4. Whole'
  BY WorkerTurnsDoes, Types, ThreadsAre DEF RecInv, Fits, Whole
<1>5. MasterIsOwn'
  BY <1>3, WorkerTurnsDoes, Types, ThreadsAre DEF RecInv, Fits, MasterIsOwn, Placing, Underway
<1>6. (Mixing' => InStep') /\ (Follows' => Delayed')
  BY <1>3, WorkerTurnsDoes, Types, ThreadsAre, InStepStays, DelayedStays
  DEF RecInv, Fits, Aligned, Follows, Mixing, Held, Placing, Underway, Through
<1>7. (Follows /\ Mixing /\ ~WillTake => rec.lead = Lead)'
  BY WorkerTurnsDoes, Types, ThreadsAre DEF RecInv, Fits, Aligned, Follows, Mixing, Held,
       Placing, Underway, WillTake
<1>8. TailFollows'
  BY WorkerTurnsDoes, Types, ThreadsAre, TrailedStays DEF RecInv, Fits, TailFollows, Held,
       Placing, Underway, Rest
<1>9. Complete'
  BY WorkerTurnsDoes, Types, ThreadsAre DEF RecInv, Fits, Complete
<1>10. Stored'
  BY WorkerTurnsDoes, ThreadsAre, StoredStays DEF RecInv, Fits
<1> QED BY <1>1, <1>2, <1>4, <1>5, <1>6, <1>7, <1>8, <1>9, <1>10 DEF RecInv, Fits, Aligned

\* What WriteBlock does, field by field.
LEMMA WriteBlockDoes ==
  ASSUME TypeOK, WriteBlock
  PROVE  /\ worker.at = "writing" /\ rec.queue # <<>> /\ worker'.at = "writing"
         /\ worker'.file = SilenceUntil(Head(rec.queue).offset) \o Head(rec.queue).frames
         /\ rec'.queue = Tail(rec.queue)
         /\ UNCHANGED <<rec.state, rec.epoch, rec.generation, rec.tap, rec.lead, rec.timeline,
                        rec.producers, engine, push, render, op, due, lost>>
BY DEF TypeOK, Recs, Writers, histories, WriteBlock

\* WriteBlock keeps the types.
LEMMA WriteBlockTyped ==
  ASSUME TypeOK, Counted, CallbackFits, WriteBlock
  PROVE  TypeOK'
<1>1. SilenceUntil(Head(rec.queue).offset) \o Head(rec.queue).frames \in Seq(Frames)
  BY WrittenIs DEF WriteBlock
<1>2. worker' \in Writers
  BY <1>1, ZenonT(20) DEF TypeOK, Writers, WriteBlock
<1>3. Tail(rec.queue) \in Seq([offset : Nat, frames : Seq(Frames)])
  BY SMT DEF TypeOK, Recs, WriteBlock
<1>4. rec' \in Recs
  BY <1>3, ZenonT(20) DEF TypeOK, Recs, WriteBlock, States, Open, Taps
<1>5. revived' \in BOOLEAN
  BY DEF TypeOK, WriteBlock, histories
<1> QED BY <1>2, <1>4, <1>5, WriteBlockDoes DEF TypeOK

\* Between the file and the first block of the queue there are only lost frames: silence is
\* what belongs there.
LEMMA WriteBlockStored ==
  ASSUME RecInv, WriteBlock
  PROVE  Stored'
<1> DEFINE f == worker.file
           b == rec.queue[1]
           e == b.offset + Len(b.frames)
           n == Len(rec.queue)
           next == SilenceUntil(b.offset) \o b.frames
<1>1. /\ TypeOK /\ Stored /\ n \in Nat /\ n >= 1 /\ Head(rec.queue) = b
      /\ f \in Seq(Frames) /\ Len(f) \in Nat /\ b.offset \in Nat /\ b.frames \in Seq(Frames)
      /\ Len(b.frames) \in Nat /\ e \in Nat /\ rec.timeline \in Nat /\ worker \in Writers
      /\ \A i \in 1..n : rec.queue[i].offset \in Nat /\ Len(rec.queue[i].frames) \in Nat
  <2>1. TypeOK /\ Stored /\ rec.queue # <<>> /\ rec.queue \in Seq([offset : Nat, frames : Seq(Frames)])
    BY WriteBlockDoes DEF RecInv, Fits, TypeOK, Recs
  <2>2. n \in Nat \ {0} /\ Head(rec.queue) = b BY <2>1, HeadIs
  <2>3. n >= 1 /\ 1 \in 1..n BY <2>2
  <2>4. b.offset \in Nat /\ b.frames \in Seq(Frames) BY <2>1, <2>3, QueueIs
  <2>5. Len(b.frames) \in Nat /\ e \in Nat
    <3>1. Len(b.frames) \in Nat BY <2>4
    <3> HIDE DEF b
    <3> QED BY <2>4, <3>1
  <2>6. f \in Seq(Frames) /\ Len(f) \in Nat /\ worker \in Writers /\ rec.timeline \in Nat
    BY <2>1, Types DEF TypeOK, Writers
  <2>7. \A i \in 1..n : rec.queue[i].offset \in Nat /\ Len(rec.queue[i].frames) \in Nat
    BY <2>1, QueueIs
  <2> QED BY <2>1, <2>2, <2>3, <2>4, <2>5, <2>6, <2>7
<1>2. /\ worker'.file = next /\ rec'.queue = Tail(rec.queue)
      /\ UNCHANGED <<rec.timeline, push, due, lost>>
  BY <1>1, WriteBlockDoes
<1>3. /\ Len(rec'.queue) = n - 1 /\ \A i \in 1..(n - 1) : rec'.queue[i] = rec.queue[i + 1]
  BY <1>1, <1>2, HeadIs, WriteBlockDoes DEF TypeOK, Recs
<1>4. Good(b) /\ b.offset >= Len(f) /\ e <= rec.timeline
  BY <1>1 DEF Stored, QueueHolds, Good
<1>5. /\ SilenceUntil(b.offset) \in Seq(Frames)
      /\ Len(SilenceUntil(b.offset)) = b.offset
      /\ \A i \in 1..Len(f) : SilenceUntil(b.offset)[i] = f[i]
      /\ \A i \in (Len(f) + 1)..b.offset : SilenceUntil(b.offset)[i] = Silence
  <2>1. Len(SilenceUntil(b.offset)) = IF b.offset > Len(f) THEN b.offset ELSE Len(f)
    BY <1>1, SilenceDoes, Zenon
  <2>2. Len(SilenceUntil(b.offset)) = b.offset BY <1>1, <1>4, <2>1
  <2> QED BY <1>1, <2>2, SilenceDoes
<1>6. /\ next \in Seq(Frames) /\ Len(next) = e
      /\ \A i \in 1..b.offset : next[i] = SilenceUntil(b.offset)[i]
      /\ \A k \in 1..Len(b.frames) : next[b.offset + k] = b.frames[k]
  <2> DEFINE quiet == SilenceUntil(b.offset)
             mine  == b.frames
  <2>1. /\ quiet \in Seq(Frames) /\ Len(quiet) = b.offset /\ mine \in Seq(Frames)
        /\ next = quiet \o mine /\ e = b.offset + Len(mine)
    BY <1>1, <1>5
  <2> HIDE DEF quiet, mine, next, e
  <2>2. /\ next \in Seq(Frames) /\ Len(next) = e
        /\ \A i \in 1..b.offset : next[i] = quiet[i]
        /\ \A k \in 1..Len(mine) : next[b.offset + k] = mine[k]
    <3>1. /\ quiet \o mine \in Seq(Frames) /\ Len(quiet \o mine) = Len(quiet) + Len(mine)
          /\ \A i \in 1..Len(quiet) : (quiet \o mine)[i] = quiet[i]
          /\ \A k \in 1..Len(mine) : (quiet \o mine)[Len(quiet) + k] = mine[k]
      BY <2>1, ConcatDoes
    <3> QED BY <2>1, <3>1
  <2> QED BY <2>2 DEF quiet, mine
<1>7. \A j \in 2..n : Before(b, rec.queue[j])
  <2>1. \A j \in 2..n : j \in 1..n /\ 1 \in 1..(j - 1) BY <1>1
  <2> QED BY <1>1, <2>1 DEF Stored, QueueHolds
<1>8. \A t \in Threads : push[t].at = "publishing" => Before(b, push[t])
  BY <1>1 DEF Stored, PutHolds
<1> HIDE DEF f, b, e, n, next
<1>9. FileHolds'
  <2>1. ASSUME NEW i \in 1..e PROVE next[i] = IF i \in lost THEN Silence ELSE due[i]
    <3>1. CASE i <= Len(f)
      <4>1. i \in 1..Len(f) /\ i \in 1..b.offset BY <1>1, <1>4, <3>1
      <4> QED BY <1>1, <1>5, <1>6, <4>1 DEF Stored, FileHolds, f
    <3>2. CASE ~(i <= Len(f)) /\ i <= b.offset
      <4>1. i \in (Len(f) + 1)..b.offset /\ i \in 1..b.offset /\ i \in (Len(f) + 1)..rec.timeline
        BY <1>1, <1>4, <3>2 DEF e
      <4>2. ~\E j \in 1..n : Covers(rec.queue[j], i)
        <5>1. ~Covers(b, i) BY <1>1, <3>2 DEF Covers
        <5>2. ASSUME NEW j \in 2..n PROVE ~Covers(rec.queue[j], i)
          <6>1. /\ b.offset + Len(b.frames) <= rec.queue[j].offset /\ rec.queue[j].offset \in Nat
            BY <1>1, <1>7 DEF Before
          <6> QED BY <1>1, <3>2, <6>1 DEF Covers
        <5>3. \A j \in 1..n : j = 1 \/ j \in 2..n BY <1>1
        <5> QED BY <5>1, <5>2, <5>3 DEF b
      <4>3. ~\E t \in Threads : push[t].at = "publishing" /\ Covers(push[t], i)
        <5>1. ASSUME NEW t \in Threads, push[t].at = "publishing" PROVE ~Covers(push[t], i)
          <6>1. b.offset + Len(b.frames) <= push[t].offset /\ push[t].offset \in Nat
            BY <1>1, <1>8, <5>1 DEF Before, TypeOK, Calls
          <6> QED BY <1>1, <3>2, <6>1 DEF Covers
        <5> QED BY <5>1
      <4>4. i \in lost BY <1>1, <4>1, <4>2, <4>3 DEF Stored, NoGap, f, n
      <4> QED BY <1>5, <1>6, <4>1, <4>4
    <3>3. CASE ~(i <= b.offset)
      <4>1. i - b.offset \in 1..Len(b.frames) /\ i = b.offset + (i - b.offset)
        BY <1>1, <3>3 DEF e
      <4> QED BY <1>4, <1>6, <4>1 DEF Good
    <3> QED BY <3>1, <3>2, <3>3
  <2> QED BY <1>1, <1>2, <1>4, <1>6, <2>1 DEF Stored, FileHolds
<1>10. \A c : Good(c) /\ c.offset >= e => GoodNext(c)
  BY <1>2, <1>6 DEF Good, GoodNext
<1>11. QueueHolds'
  <2>1. \A i \in 1..(n - 1) : i + 1 \in 2..n /\ i + 1 \in 1..n BY <1>1
  <2>2. ASSUME NEW i \in 1..(n - 1) PROVE GoodNext(rec'.queue[i])
    <3>1. rec'.queue[i] = rec.queue[i + 1] /\ i + 1 \in 2..n /\ i + 1 \in 1..n BY <1>3, <2>1
    <3>2. Good(rec.queue[i + 1]) BY <1>1, <3>1 DEF Stored, QueueHolds, n
    <3>3. rec.queue[i + 1].offset >= e BY <1>1, <1>7, <3>1 DEF Before, e
    <3> QED BY <1>10, <3>1, <3>2, <3>3
  <2>3. ASSUME NEW j \in 1..(n - 1), NEW i \in 1..(j - 1) PROVE Before(rec'.queue[i], rec'.queue[j])
    <3>1. i \in 1..(n - 1) /\ i + 1 \in 1..((j + 1) - 1) /\ j + 1 \in 1..n BY <1>1
    <3>2. Before(rec.queue[i + 1], rec.queue[j + 1])
      BY <1>1, <3>1 DEF Stored, QueueHolds, n
    <3> QED BY <1>3, <3>1, <3>2
  <2> QED BY <1>3, <2>2, <2>3 DEF QueueHolds, Before, Good, GoodNext
<1>12. PutHolds'
  <2>1. \A i \in 1..(n - 1) : i + 1 \in 1..n BY <1>1
  <2>2. ASSUME NEW t \in Threads, push[t].at = "publishing"
        PROVE  GoodNext(push[t]) /\ \A i \in 1..(n - 1) : Before(rec'.queue[i], push[t])
    <3>1. Good(push[t]) /\ \A i \in 1..n : Before(rec.queue[i], push[t])
      BY <1>1, <2>2 DEF Stored, PutHolds, n
    <3>2. push[t].offset >= e BY <1>8, <2>2 DEF Before, e
    <3>3. GoodNext(push[t]) BY <1>10, <3>1, <3>2
    <3> QED BY <1>3, <2>1, <3>1, <3>3
  <2> QED BY <1>2, <1>3, <2>2 DEF PutHolds, Before, Good, GoodNext
<1>13. NoGap'
  <2>1. ASSUME NEW p \in (e + 1)..rec.timeline, p \notin lost,
               ~\E t \in Threads : push[t].at = "publishing" /\ Covers(push[t], p)
        PROVE  \E i \in 1..(n - 1) : Covers(rec'.queue[i], p)
    <3>1. p \in (Len(f) + 1)..rec.timeline BY <1>1, <1>4 DEF e
    <3>2. PICK j \in 1..n : Covers(rec.queue[j], p)
      BY <1>1, <2>1, <3>1 DEF Stored, NoGap, f, n
    <3>3. j # 1 BY <1>1, <3>2 DEF Covers, b, e
    <3>4. j - 1 \in 1..(n - 1) /\ (j - 1) + 1 = j BY <1>1, <3>3
    <3>5. rec'.queue[j - 1] = rec.queue[j] BY <1>3, <3>4
    <3> QED BY <3>2, <3>4, <3>5
  <2> QED BY <1>2, <1>3, <1>6, <2>1 DEF NoGap, Covers
<1> QED BY <1>9, <1>11, <1>12, <1>13 DEF Stored

\* WriteBlock keeps the invariant.
LEMMA WriteBlockKeeps ==
  ASSUME RecInv, WriteBlock
  PROVE  RecInv'
<1>1. TypeOK'
  BY WriteBlockTyped DEF RecInv, Fits, Controlled
<1>2. Controlled'
  BY WriteBlockDoes, Types, ThreadsAre, SMTT(30) DEF RecInv, Fits, Controlled, Counted,
       CommandFits, CallbackFits, TapsFit, TapFits, Generations, Quiet, WorkerFits, Placing,
       Putting, Nobody, Underway, Inside, Held, Mixing, States, Open, Taps
<1>3. Own' = Own
  BY WriteBlockDoes DEF Own, RecInv, Fits
<1>4. Whole'
  BY WriteBlockDoes, Types, ThreadsAre DEF RecInv, Fits, Whole
<1>5. MasterIsOwn'
  BY <1>3, WriteBlockDoes, Types, ThreadsAre DEF RecInv, Fits, MasterIsOwn, Placing, Underway
<1>6. (Mixing' => InStep') /\ (Follows' => Delayed')
  BY <1>3, WriteBlockDoes, Types, ThreadsAre, InStepStays, DelayedStays
  DEF RecInv, Fits, Aligned, Follows, Mixing, Held, Placing, Underway, Through
<1>7. (Follows /\ Mixing /\ ~WillTake => rec.lead = Lead)'
  BY WriteBlockDoes, Types, ThreadsAre DEF RecInv, Fits, Aligned, Follows, Mixing, Held,
       Placing, Underway, WillTake
<1>8. TailFollows'
  BY WriteBlockDoes, Types, ThreadsAre, TrailedStays DEF RecInv, Fits, TailFollows, Held,
       Placing, Underway, Rest
<1>9. Complete'
  BY WriteBlockDoes, Types, ThreadsAre DEF RecInv, Fits, Controlled, Complete, WorkerFits
<1>10. Stored'
  BY WriteBlockStored
<1> QED BY <1>1, <1>2, <1>4, <1>5, <1>6, <1>7, <1>8, <1>9, <1>10 DEF RecInv, Fits, Aligned

\* What QueueIsEmpty does, field by field.
LEMMA QueueIsEmptyDoes ==
  ASSUME TypeOK, QueueIsEmpty
  PROVE  /\ worker.at = "writing" /\ worker'.at = "checking"
         /\ UNCHANGED <<worker.file, rec, engine, push, render, op, due, lost>>
BY DEF TypeOK, Writers, histories, QueueIsEmpty

\* QueueIsEmpty keeps the types.
LEMMA QueueIsEmptyTyped ==
  ASSUME TypeOK, Counted, CallbackFits, QueueIsEmpty
  PROVE  TypeOK'
<1>1. worker' \in Writers
  BY ZenonT(20) DEF TypeOK, Writers, QueueIsEmpty
<1>2. revived' \in BOOLEAN
  BY DEF TypeOK, QueueIsEmpty, histories
<1> QED BY <1>1, <1>2, QueueIsEmptyDoes DEF TypeOK

\* QueueIsEmpty keeps the invariant.
LEMMA QueueIsEmptyKeeps ==
  ASSUME RecInv, QueueIsEmpty
  PROVE  RecInv'
<1>1. TypeOK'
  BY QueueIsEmptyTyped DEF RecInv, Fits, Controlled
<1>2. Controlled'
  BY QueueIsEmptyDoes, Types, ThreadsAre, SMTT(30) DEF RecInv, Fits, Controlled, Counted,
       CommandFits, CallbackFits, TapsFit, TapFits, Generations, Quiet, WorkerFits, Placing,
       Putting, Nobody, Underway, Inside, Held, Mixing, States, Open, Taps
<1>3. Own' = Own
  BY QueueIsEmptyDoes DEF Own, RecInv, Fits
<1>4. Whole'
  BY QueueIsEmptyDoes, Types, ThreadsAre DEF RecInv, Fits, Whole
<1>5. MasterIsOwn'
  BY <1>3, QueueIsEmptyDoes, Types, ThreadsAre DEF RecInv, Fits, MasterIsOwn, Placing, Underway
<1>6. (Mixing' => InStep') /\ (Follows' => Delayed')
  BY <1>3, QueueIsEmptyDoes, Types, ThreadsAre, InStepStays, DelayedStays
  DEF RecInv, Fits, Aligned, Follows, Mixing, Held, Placing, Underway, Through
<1>7. (Follows /\ Mixing /\ ~WillTake => rec.lead = Lead)'
  BY QueueIsEmptyDoes, Types, ThreadsAre DEF RecInv, Fits, Aligned, Follows, Mixing, Held,
       Placing, Underway, WillTake
<1>8. TailFollows'
  BY QueueIsEmptyDoes, Types, ThreadsAre, TrailedStays DEF RecInv, Fits, TailFollows, Held,
       Placing, Underway, Rest
<1>9. Complete'
  BY QueueIsEmptyDoes, Types, ThreadsAre DEF RecInv, Fits, Complete
<1>10. Stored'
  BY QueueIsEmptyDoes, ThreadsAre, StoredStays DEF RecInv, Fits
<1> QED BY <1>1, <1>2, <1>4, <1>5, <1>6, <1>7, <1>8, <1>9, <1>10 DEF RecInv, Fits, Aligned

\* What CheckFinalizing does, field by field.
LEMMA CheckFinalizingDoes ==
  ASSUME TypeOK, CheckFinalizing
  PROVE  /\ worker.at = "checking"
         /\ UNCHANGED <<worker.file, rec, engine, push, render, op, due, lost>>
         /\ \/ rec.state = "Finalizing" /\ rec.producers = 0 /\ worker'.at = "closing"
            \/ worker'.at = "asleep"
BY DEF TypeOK, Writers, histories, CheckFinalizing

\* CheckFinalizing keeps the types.
LEMMA CheckFinalizingTyped ==
  ASSUME TypeOK, Counted, CallbackFits, CheckFinalizing
  PROVE  TypeOK'
<1>1. worker' \in Writers
  BY ZenonT(20) DEF TypeOK, Writers, CheckFinalizing
<1>2. revived' \in BOOLEAN
  BY DEF TypeOK, CheckFinalizing, histories
<1> QED BY <1>1, <1>2, CheckFinalizingDoes DEF TypeOK

\* CheckFinalizing keeps the invariant.
LEMMA CheckFinalizingKeeps ==
  ASSUME RecInv, CheckFinalizing
  PROVE  RecInv'
<1>1. TypeOK'
  BY CheckFinalizingTyped DEF RecInv, Fits, Controlled
<1>2. Controlled'
  BY CheckFinalizingDoes, Types, ThreadsAre, SMTT(30) DEF RecInv, Fits, Controlled, Counted,
       CommandFits, CallbackFits, TapsFit, TapFits, Generations, Quiet, WorkerFits, Placing,
       Putting, Nobody, Underway, Inside, Held, Mixing, States, Open, Taps
<1>3. Own' = Own
  BY CheckFinalizingDoes DEF Own, RecInv, Fits
<1>4. Whole'
  BY CheckFinalizingDoes, Types, ThreadsAre DEF RecInv, Fits, Whole
<1>5. MasterIsOwn'
  BY <1>3, CheckFinalizingDoes, Types, ThreadsAre DEF RecInv, Fits, MasterIsOwn, Placing,
       Underway
<1>6. (Mixing' => InStep') /\ (Follows' => Delayed')
  BY <1>3, CheckFinalizingDoes, Types, ThreadsAre, InStepStays, DelayedStays
  DEF RecInv, Fits, Aligned, Follows, Mixing, Held, Placing, Underway, Through
<1>7. (Follows /\ Mixing /\ ~WillTake => rec.lead = Lead)'
  BY CheckFinalizingDoes, Types, ThreadsAre DEF RecInv, Fits, Aligned, Follows, Mixing, Held,
       Placing, Underway, WillTake
<1>8. TailFollows'
  BY CheckFinalizingDoes, Types, ThreadsAre, TrailedStays DEF RecInv, Fits, TailFollows, Held,
       Placing, Underway, Rest
<1>9. Complete'
  BY CheckFinalizingDoes, Types, ThreadsAre DEF RecInv, Fits, Complete
<1>10. Stored'
  BY CheckFinalizingDoes, ThreadsAre, StoredStays DEF RecInv, Fits
<1> QED BY <1>1, <1>2, <1>4, <1>5, <1>6, <1>7, <1>8, <1>9, <1>10 DEF RecInv, Fits, Aligned

\* What CheckQueueAgain does, field by field.
LEMMA CheckQueueAgainDoes ==
  ASSUME TypeOK, CheckQueueAgain
  PROVE  /\ worker.at = "closing"
         /\ UNCHANGED <<worker.file, rec, engine, push, render, op, due, lost>>
         /\ \/ rec.queue = <<>> /\ worker'.at = "finishing"
            \/ worker'.at = "top"
BY DEF TypeOK, Writers, histories, CheckQueueAgain

\* CheckQueueAgain keeps the types.
LEMMA CheckQueueAgainTyped ==
  ASSUME TypeOK, Counted, CallbackFits, CheckQueueAgain
  PROVE  TypeOK'
<1>1. worker' \in Writers
  BY ZenonT(20) DEF TypeOK, Writers, CheckQueueAgain
<1>2. revived' \in BOOLEAN
  BY DEF TypeOK, CheckQueueAgain, histories
<1> QED BY <1>1, <1>2, CheckQueueAgainDoes DEF TypeOK

\* CheckQueueAgain keeps the invariant.
LEMMA CheckQueueAgainKeeps ==
  ASSUME RecInv, CheckQueueAgain
  PROVE  RecInv'
<1>1. TypeOK'
  BY CheckQueueAgainTyped DEF RecInv, Fits, Controlled
<1>2. Controlled'
  BY CheckQueueAgainDoes, Types, ThreadsAre, SMTT(30) DEF RecInv, Fits, Controlled, Counted,
       CommandFits, CallbackFits, TapsFit, TapFits, Generations, Quiet, WorkerFits, Placing,
       Putting, Nobody, Underway, Inside, Held, Mixing, States, Open, Taps
<1>3. Own' = Own
  BY CheckQueueAgainDoes DEF Own, RecInv, Fits
<1>4. Whole'
  BY CheckQueueAgainDoes, Types, ThreadsAre DEF RecInv, Fits, Whole
<1>5. MasterIsOwn'
  BY <1>3, CheckQueueAgainDoes, Types, ThreadsAre DEF RecInv, Fits, MasterIsOwn, Placing,
       Underway
<1>6. (Mixing' => InStep') /\ (Follows' => Delayed')
  BY <1>3, CheckQueueAgainDoes, Types, ThreadsAre, InStepStays, DelayedStays
  DEF RecInv, Fits, Aligned, Follows, Mixing, Held, Placing, Underway, Through
<1>7. (Follows /\ Mixing /\ ~WillTake => rec.lead = Lead)'
  BY CheckQueueAgainDoes, Types, ThreadsAre DEF RecInv, Fits, Aligned, Follows, Mixing, Held,
       Placing, Underway, WillTake
<1>8. TailFollows'
  BY CheckQueueAgainDoes, Types, ThreadsAre, TrailedStays DEF RecInv, Fits, TailFollows, Held,
       Placing, Underway, Rest
<1>9. Complete'
  BY CheckQueueAgainDoes, Types, ThreadsAre DEF RecInv, Fits, Complete
<1>10. Stored'
  BY CheckQueueAgainDoes, ThreadsAre, StoredStays DEF RecInv, Fits
<1> QED BY <1>1, <1>2, <1>4, <1>5, <1>6, <1>7, <1>8, <1>9, <1>10 DEF RecInv, Fits, Aligned

\* What Finalize does, field by field.
LEMMA FinalizeDoes ==
  ASSUME TypeOK, Finalize
  PROVE  /\ worker.at = "finishing" /\ worker'.at = "asleep"
         /\ worker'.file = SilenceUntil(rec.timeline) /\ rec'.state = "Finished"
         /\ UNCHANGED <<rec.epoch, rec.generation, rec.tap, rec.lead, rec.timeline, rec.producers,
                        rec.queue, engine, push, render, op, due, lost>>
BY DEF TypeOK, Recs, Writers, histories, Finalize

\* Finalize keeps the types.
LEMMA FinalizeTyped ==
  ASSUME TypeOK, Counted, CallbackFits, Finalize
  PROVE  TypeOK'
<1>1. SilenceUntil(rec.timeline) \in Seq(Frames)
  BY SilenceDoes, Types DEF TypeOK
<1>2. worker' \in Writers
  BY <1>1, ZenonT(20) DEF TypeOK, Writers, Finalize
<1>3. rec' \in Recs
  BY ZenonT(20) DEF TypeOK, Recs, Finalize, States, Open, Taps
<1>4. revived' \in BOOLEAN
  BY DEF TypeOK, Finalize, histories
<1> QED BY <1>2, <1>3, <1>4, FinalizeDoes DEF TypeOK

\* With the queue empty and nobody placing, what is not in the file is lost.
LEMMA FinalizeStored ==
  ASSUME RecInv, Finalize
  PROVE  Stored'
<1> DEFINE f == worker.file
           m == rec.timeline
<1>1. /\ TypeOK /\ Stored /\ f \in Seq(Frames) /\ Len(f) \in Nat /\ m \in Nat /\ worker \in Writers
      /\ Len(f) <= m /\ rec.queue = <<>> /\ Nobody
  BY FinalizeDoes, Types DEF RecInv, Fits, Controlled, WorkerFits, TypeOK, Writers, Stored,
       FileHolds
<1>2. /\ worker'.file = SilenceUntil(m) /\ UNCHANGED <<rec.timeline, rec.queue, push, due, lost>>
  BY <1>1, FinalizeDoes
<1>3. ~\E t \in Threads : push[t].at = "publishing" BY <1>1, ThreadsAre DEF Nobody, Putting
<1>4. \A p \in (Len(f) + 1)..m : p \in lost BY <1>1, <1>3 DEF Stored, NoGap
<1>5. /\ SilenceUntil(m) \in Seq(Frames)
      /\ Len(SilenceUntil(m)) = m
      /\ \A i \in 1..Len(f) : SilenceUntil(m)[i] = f[i]
      /\ \A i \in (Len(f) + 1)..m : SilenceUntil(m)[i] = Silence
  <2>1. Len(SilenceUntil(m)) = IF m > Len(f) THEN m ELSE Len(f)
    BY <1>1, SilenceDoes, Zenon
  <2>2. Len(SilenceUntil(m)) = m BY <1>1, <2>1
  <2> QED BY <1>1, <2>2, SilenceDoes
<1>6. FileHolds'
  <2>1. \A i \in 1..m : i \in 1..Len(f) \/ i \in (Len(f) + 1)..m BY <1>1
  <2>2. \A i \in 1..m : SilenceUntil(m)[i] = IF i \in lost THEN Silence ELSE due[i]
    BY <1>1, <1>4, <1>5, <2>1 DEF Stored, FileHolds
  <2> QED BY <1>1, <1>2, <1>5, <2>2 DEF Stored, FileHolds
<1>7. QueueHolds' /\ PutHolds'
  BY <1>1, <1>2, <1>3 DEF QueueHolds, PutHolds
<1>8. NoGap' BY <1>1, <1>2, <1>5 DEF NoGap
<1> QED BY <1>6, <1>7, <1>8 DEF Stored

\* The take is finished with the file as long as what belongs to it.
LEMMA FinalizeKeeps ==
  ASSUME RecInv, Finalize
  PROVE  RecInv'
<1>1. TypeOK'
  BY FinalizeTyped DEF RecInv, Fits, Controlled
<1>2. Controlled'
  BY FinalizeDoes, Types, ThreadsAre, SMTT(30) DEF RecInv, Fits, Controlled, Counted,
       CommandFits, CallbackFits, TapsFit, TapFits, Generations, Quiet, WorkerFits, Placing,
       Putting, Nobody, Underway, Inside, Held, Mixing, States, Open, Taps
<1>3. Own' = Own
  BY FinalizeDoes DEF Own, RecInv, Fits
<1>4. Whole'
  BY FinalizeDoes, Types, ThreadsAre DEF RecInv, Fits, Controlled, Whole, WorkerFits
<1>5. MasterIsOwn'
  BY <1>3, FinalizeDoes, Types, ThreadsAre DEF RecInv, Fits, MasterIsOwn, Placing, Underway
<1>6. (Mixing' => InStep') /\ (Follows' => Delayed')
  BY <1>3, FinalizeDoes, Types, ThreadsAre, InStepStays, DelayedStays
  DEF RecInv, Fits, Aligned, Follows, Mixing, Held, Placing, Underway, Through
<1>7. (Follows /\ Mixing /\ ~WillTake => rec.lead = Lead)'
  BY FinalizeDoes, Types, ThreadsAre DEF RecInv, Fits, Aligned, Follows, Mixing, Held, Placing,
       Underway, WillTake
<1>8. TailFollows'
  BY FinalizeDoes, Types, ThreadsAre, TrailedStays DEF RecInv, Fits, TailFollows, Held,
       Placing, Underway, Rest
<1>9. Complete'
  <2>1. rec.timeline = Len(due)
    BY FinalizeDoes DEF RecInv, Fits, Controlled, WorkerFits, Whole
  <2>2. rec.timeline >= Len(worker.file) /\ rec.timeline \in Nat /\ Len(worker.file) \in Nat
    BY Types DEF RecInv, Fits, Stored, FileHolds, TypeOK, Writers
  <2>3. Len(SilenceUntil(rec.timeline))
          = IF rec.timeline > Len(worker.file) THEN rec.timeline ELSE Len(worker.file)
    BY <2>2, SilenceDoes, Zenon DEF RecInv, Fits, TypeOK
  <2>4. Len(SilenceUntil(rec.timeline)) = rec.timeline
    BY <2>2, <2>3
  <2> QED BY <2>1, <2>4, FinalizeDoes DEF Complete, RecInv, Fits
<1>10. Stored'
  BY FinalizeStored
<1> QED BY <1>1, <1>2, <1>4, <1>5, <1>6, <1>7, <1>8, <1>9, <1>10 DEF RecInv, Fits, Aligned

\* What WriterFails does, field by field.
LEMMA WriterFailsDoes ==
  ASSUME TypeOK, WriterFails
  PROVE  /\ ((worker.at = "writing" /\ rec.queue # <<>>) \/ worker.at = "finishing")
         /\ worker'.at = "gone" /\ rec'.state = "Failed"
         /\ UNCHANGED <<worker.file, rec.epoch, rec.generation, rec.tap, rec.lead, rec.timeline,
                        rec.producers, rec.queue, engine, push, render, op, due, lost>>
BY DEF TypeOK, Recs, Writers, histories, WriterFails

\* WriterFails keeps the types.
LEMMA WriterFailsTyped ==
  ASSUME TypeOK, Counted, CallbackFits, WriterFails
  PROVE  TypeOK'
<1>1. worker' \in Writers
  BY ZenonT(20) DEF TypeOK, Writers, WriterFails
<1>2. rec' \in Recs
  BY ZenonT(20) DEF TypeOK, Recs, WriterFails, States, Open, Taps
<1>3. revived' \in BOOLEAN
  BY DEF TypeOK, WriterFails, histories
<1> QED BY <1>1, <1>2, <1>3, WriterFailsDoes DEF TypeOK

\* A failed worker leaves the file as it is.
LEMMA WriterFailsKeeps ==
  ASSUME RecInv, WriterFails
  PROVE  RecInv'
<1>1. TypeOK'
  BY WriterFailsTyped DEF RecInv, Fits, Controlled
<1>2. Controlled'
  BY WriterFailsDoes, Types, ThreadsAre, SMTT(30) DEF RecInv, Fits, Controlled, Counted,
       CommandFits, CallbackFits, TapsFit, TapFits, Generations, Quiet, WorkerFits, Placing,
       Putting, Nobody, Underway, Inside, Held, Mixing, States, Open, Taps
<1>3. Own' = Own
  BY WriterFailsDoes DEF Own, RecInv, Fits
<1>4. Whole'
  BY WriterFailsDoes, Types, ThreadsAre DEF RecInv, Fits, Whole
<1>5. MasterIsOwn'
  BY <1>3, WriterFailsDoes, Types, ThreadsAre DEF RecInv, Fits, MasterIsOwn, Placing, Underway
<1>6. (Mixing' => InStep') /\ (Follows' => Delayed')
  BY <1>3, WriterFailsDoes, Types, ThreadsAre, InStepStays, DelayedStays
  DEF RecInv, Fits, Aligned, Follows, Mixing, Held, Placing, Underway, Through
<1>7. (Follows /\ Mixing /\ ~WillTake => rec.lead = Lead)'
  BY WriterFailsDoes, Types, ThreadsAre DEF RecInv, Fits, Aligned, Follows, Mixing, Held,
       Placing, Underway, WillTake
<1>8. TailFollows'
  BY WriterFailsDoes, Types, ThreadsAre, TrailedStays DEF RecInv, Fits, TailFollows, Held,
       Placing, Underway, Rest
<1>9. Complete'
  BY WriterFailsDoes, Types, ThreadsAre DEF RecInv, Fits, Complete
<1>10. Stored'
  BY WriterFailsDoes, ThreadsAre, StoredStays DEF RecInv, Fits
<1> QED BY <1>1, <1>2, <1>4, <1>5, <1>6, <1>7, <1>8, <1>9, <1>10 DEF RecInv, Fits, Aligned

\* What WorkerWakes does, field by field.
LEMMA WorkerWakesDoes ==
  ASSUME TypeOK, WorkerWakes
  PROVE  /\ worker.at = "asleep" /\ worker'.at = "top"
         /\ UNCHANGED <<worker.file, rec, engine, push, render, op, due, lost>>
BY DEF TypeOK, Writers, histories, WorkerWakes

\* WorkerWakes keeps the types.
LEMMA WorkerWakesTyped ==
  ASSUME TypeOK, Counted, CallbackFits, WorkerWakes
  PROVE  TypeOK'
<1>1. worker' \in Writers
  BY ZenonT(20) DEF TypeOK, Writers, WorkerWakes
<1>2. revived' \in BOOLEAN
  BY DEF TypeOK, WorkerWakes, histories
<1> QED BY <1>1, <1>2, WorkerWakesDoes DEF TypeOK

\* WorkerWakes keeps the invariant.
LEMMA WorkerWakesKeeps ==
  ASSUME RecInv, WorkerWakes
  PROVE  RecInv'
<1>1. TypeOK'
  BY WorkerWakesTyped DEF RecInv, Fits, Controlled
<1>2. Controlled'
  BY WorkerWakesDoes, Types, ThreadsAre, SMTT(30) DEF RecInv, Fits, Controlled, Counted,
       CommandFits, CallbackFits, TapsFit, TapFits, Generations, Quiet, WorkerFits, Placing,
       Putting, Nobody, Underway, Inside, Held, Mixing, States, Open, Taps
<1>3. Own' = Own
  BY WorkerWakesDoes DEF Own, RecInv, Fits
<1>4. Whole'
  BY WorkerWakesDoes, Types, ThreadsAre DEF RecInv, Fits, Whole
<1>5. MasterIsOwn'
  BY <1>3, WorkerWakesDoes, Types, ThreadsAre DEF RecInv, Fits, MasterIsOwn, Placing, Underway
<1>6. (Mixing' => InStep') /\ (Follows' => Delayed')
  BY <1>3, WorkerWakesDoes, Types, ThreadsAre, InStepStays, DelayedStays
  DEF RecInv, Fits, Aligned, Follows, Mixing, Held, Placing, Underway, Through
<1>7. (Follows /\ Mixing /\ ~WillTake => rec.lead = Lead)'
  BY WorkerWakesDoes, Types, ThreadsAre DEF RecInv, Fits, Aligned, Follows, Mixing, Held,
       Placing, Underway, WillTake
<1>8. TailFollows'
  BY WorkerWakesDoes, Types, ThreadsAre, TrailedStays DEF RecInv, Fits, TailFollows, Held,
       Placing, Underway, Rest
<1>9. Complete'
  BY WorkerWakesDoes, Types, ThreadsAre DEF RecInv, Fits, Complete
<1>10. Stored'
  BY WorkerWakesDoes, ThreadsAre, StoredStays DEF RecInv, Fits
<1> QED BY <1>1, <1>2, <1>4, <1>5, <1>6, <1>7, <1>8, <1>9, <1>10 DEF RecInv, Fits, Aligned

---------------------------------------------------------------------------
(* The commands.                                                           *)

\* What Prepare does, field by field.
LEMMA PrepareDoes ==
  ASSUME TypeOK, NEW tap, Prepare(tap)
  PROVE  /\ op.at = "idle" /\ rec.state \notin {"Recording", "Paused", "Finalizing"}
         /\ op'.at = "preparing" /\ op'.name = "Prepare" /\ op'.next = "Finished" /\ ~op'.preserve
         /\ op'.tail = <<>> /\ rec'.epoch = rec.epoch + 1
         /\ UNCHANGED <<engine.suspended, engine.readers, engine.aligner, engine.blocks,
                        engine.generation, engine.device, rec.state, rec.generation, rec.tap,
                        rec.lead, rec.timeline, rec.producers, rec.queue, push, render, worker,
                        due, lost>>
BY DEF TypeOK, Recs, Engines, Orders, histories, Prepare, Command, NoCommand

\* Prepare keeps the types.
LEMMA PrepareTyped ==
  ASSUME TypeOK, Counted, CallbackFits, NEW tap \in Taps, Prepare(tap)
  PROVE  TypeOK'
<1>1. op' \in Orders
  BY Blank, ZenonT(20) DEF TypeOK, Orders, Prepare, Command, Taps
<1>2. engine.commands + 1 \in 0..MaxCommands
  BY RecordingAssumption DEF TypeOK, Engines, Prepare, Command
<1>3. engine' \in Engines
  BY <1>2, ZenonT(20) DEF TypeOK, Engines, Prepare, Command, NoCommand
<1>4. rec.epoch + 1 \in Nat
  BY Types
<1>5. rec' \in Recs
  BY <1>4, ZenonT(20) DEF TypeOK, Recs, Prepare, Command, NoCommand, States, Open, Taps
<1>6. Len(engine'.aligner) = Lead
  BY PrepareDoes DEF TypeOK
<1>7. revived' \in BOOLEAN
  BY DEF TypeOK, Prepare, histories
<1> QED BY <1>1, <1>3, <1>5, <1>6, <1>7, PrepareDoes DEF TypeOK

\* Prepare keeps the invariant.
LEMMA PrepareKeeps ==
  ASSUME RecInv, NEW tap \in Taps, Prepare(tap)
  PROVE  RecInv'
<1>1. TypeOK'
  BY PrepareTyped DEF RecInv, Fits, Controlled
<1>2. Controlled'
  BY PrepareDoes, Types, ThreadsAre, SMTT(30) DEF RecInv, Fits, Controlled, Counted,
       CommandFits, CallbackFits, TapsFit, TapFits, Generations, Quiet, WorkerFits, Placing,
       Putting, Nobody, Underway, Inside, Held, Mixing, States, Open, Taps
<1>3. Own' = Own
  BY PrepareDoes DEF Own, RecInv, Fits
<1>4. Whole'
  BY PrepareDoes, Types, ThreadsAre DEF RecInv, Fits, Whole
<1>5. MasterIsOwn'
  BY <1>3, PrepareDoes, Types, ThreadsAre DEF RecInv, Fits, MasterIsOwn, Placing, Underway
<1>6. (Mixing' => InStep') /\ (Follows' => Delayed')
  BY <1>3, PrepareDoes, Types, ThreadsAre, InStepStays, DelayedStays
  DEF RecInv, Fits, Aligned, Follows, Mixing, Held, Placing, Underway, Through
<1>7. (Follows /\ Mixing /\ ~WillTake => rec.lead = Lead)'
  BY PrepareDoes, Types, ThreadsAre DEF RecInv, Fits, Aligned, Follows, Mixing, Held, Placing,
       Underway, WillTake
<1>8. TailFollows'
  BY PrepareDoes, Types, ThreadsAre, TrailedStays DEF RecInv, Fits, TailFollows, Held, Placing,
       Underway, Rest
<1>9. Complete'
  BY PrepareDoes, Types, ThreadsAre DEF RecInv, Fits, Complete
<1>10. Stored'
  BY PrepareDoes, ThreadsAre, StoredStays DEF RecInv, Fits
<1> QED BY <1>1, <1>2, <1>4, <1>5, <1>6, <1>7, <1>8, <1>9, <1>10 DEF RecInv, Fits, Aligned

\* What Start does, field by field.
LEMMA StartDoes ==
  ASSUME TypeOK, Start
  PROVE  /\ op.at = "idle" /\ rec.state = "Prepared" /\ rec'.state = "Recording"
         /\ rec'.lead = (IF rec.tap = "Performance" THEN Lead ELSE 0)
         /\ UNCHANGED <<engine.suspended, engine.readers, engine.aligner, engine.blocks,
                        engine.generation, engine.device, rec.epoch, rec.generation, rec.tap,
                        rec.timeline, rec.producers, rec.queue, worker.at, worker.file, push,
                        render, op, due, lost>>
BY DEF TypeOK, Recs, Engines, Writers, Orders, histories, Start, Wake, NoCommand

\* Start keeps the types.
LEMMA StartTyped ==
  ASSUME TypeOK, Counted, CallbackFits, Start
  PROVE  TypeOK'
<1>1. engine.commands + 1 \in 0..MaxCommands
  BY RecordingAssumption DEF TypeOK, Engines, Start
<1>2. engine' \in Engines
  BY <1>1, ZenonT(20) DEF TypeOK, Engines, Start, Wake, NoCommand
<1>3. (IF rec.tap = "Performance" THEN Lead ELSE 0) \in 0..Lead
  BY RecordingAssumption
<1>4. rec' \in Recs
  BY <1>3, ZenonT(20) DEF TypeOK, Recs, Start, Wake, NoCommand, States, Open, Taps
<1>5. worker' \in Writers
  BY ZenonT(20) DEF TypeOK, Writers, Start, Wake, NoCommand
<1>6. Len(engine'.aligner) = Lead
  BY StartDoes DEF TypeOK
<1>7. revived' \in BOOLEAN
  BY DEF TypeOK, Start, histories
<1> QED BY <1>2, <1>4, <1>5, <1>6, <1>7, StartDoes DEF TypeOK

\* The take begins with the next frame, whatever the aligner still holds.
LEMMA StartKeeps ==
  ASSUME RecInv, Start
  PROVE  RecInv'
<1>1. TypeOK'
  BY StartTyped DEF RecInv, Fits, Controlled
<1>2. Controlled'
  BY StartDoes, Types, ThreadsAre, SMTT(30) DEF RecInv, Fits, Controlled, Counted, CommandFits,
       CallbackFits, TapsFit, TapFits, Generations, Quiet, WorkerFits, Placing, Putting,
       Nobody, Underway, Inside, Held, Mixing, States, Open, Taps
<1>3. Own' = Own
  BY StartDoes DEF Own, RecInv, Fits
<1>4. Whole'
  BY StartDoes, Types, ThreadsAre DEF RecInv, Fits, Whole
<1>5. MasterIsOwn'
  BY <1>3, StartDoes, Types, ThreadsAre DEF RecInv, Fits, MasterIsOwn, Placing, Underway
<1>6. (Mixing' => InStep') /\ (Follows' => Delayed')
  BY <1>3, StartDoes, Types, ThreadsAre, InStepStays, DelayedStays, DelayedFromHere
  DEF RecInv, Fits, Aligned, Follows, Mixing, Held, Placing, Underway, Through, Whole
<1>7. (Follows /\ Mixing /\ ~WillTake => rec.lead = Lead)'
  BY StartDoes, Types, ThreadsAre DEF RecInv, Fits, Aligned, Follows, Mixing, Held, Placing,
       Underway, WillTake
<1>8. TailFollows'
  BY StartDoes, Types, ThreadsAre, TrailedStays DEF RecInv, Fits, TailFollows, Held, Placing,
       Underway, Rest
<1>9. Complete'
  BY StartDoes, Types, ThreadsAre DEF RecInv, Fits, Complete
<1>10. Stored'
  BY StartDoes, ThreadsAre, StoredStays DEF RecInv, Fits
<1> QED BY <1>1, <1>2, <1>4, <1>5, <1>6, <1>7, <1>8, <1>9, <1>10 DEF RecInv, Fits, Aligned

\* What CheckPaused does, field by field.
LEMMA CheckPausedDoes ==
  ASSUME TypeOK, CheckPaused
  PROVE  /\ op.at = "idle" /\ rec.state = "Paused" /\ op'.at = "resuming" /\ op'.name = "Resume"
         /\ op'.next = "Finished" /\ ~op'.preserve /\ op'.tail = <<>>
         /\ UNCHANGED <<engine.suspended, engine.readers, engine.aligner, engine.blocks,
                        engine.generation, engine.device, rec, push, render, worker, due, lost>>
BY DEF TypeOK, Engines, Orders, histories, CheckPaused, Command, NoCommand

\* CheckPaused keeps the types.
LEMMA CheckPausedTyped ==
  ASSUME TypeOK, Counted, CallbackFits, CheckPaused
  PROVE  TypeOK'
<1>1. op' \in Orders
  BY Blank, ZenonT(20) DEF TypeOK, Orders, CheckPaused, Command, Taps
<1>2. engine.commands + 1 \in 0..MaxCommands
  BY RecordingAssumption DEF TypeOK, Engines, CheckPaused, Command
<1>3. engine' \in Engines
  BY <1>2, ZenonT(20) DEF TypeOK, Engines, CheckPaused, Command, NoCommand
<1>4. Len(engine'.aligner) = Lead
  BY CheckPausedDoes DEF TypeOK
<1>5. revived' \in BOOLEAN
  BY DEF TypeOK, CheckPaused, histories
<1> QED BY <1>1, <1>3, <1>4, <1>5, CheckPausedDoes DEF TypeOK

\* CheckPaused keeps the invariant.
LEMMA CheckPausedKeeps ==
  ASSUME RecInv, CheckPaused
  PROVE  RecInv'
<1>1. TypeOK'
  BY CheckPausedTyped DEF RecInv, Fits, Controlled
<1>2. Controlled'
  BY CheckPausedDoes, Types, ThreadsAre, SMTT(30) DEF RecInv, Fits, Controlled, Counted,
       CommandFits, CallbackFits, TapsFit, TapFits, Generations, Quiet, WorkerFits, Placing,
       Putting, Nobody, Underway, Inside, Held, Mixing, States, Open, Taps
<1>3. Own' = Own
  BY CheckPausedDoes DEF Own, RecInv, Fits
<1>4. Whole'
  BY CheckPausedDoes, Types, ThreadsAre DEF RecInv, Fits, Whole
<1>5. MasterIsOwn'
  BY <1>3, CheckPausedDoes, Types, ThreadsAre DEF RecInv, Fits, MasterIsOwn, Placing, Underway
<1>6. (Mixing' => InStep') /\ (Follows' => Delayed')
  BY <1>3, CheckPausedDoes, Types, ThreadsAre, InStepStays, DelayedStays
  DEF RecInv, Fits, Aligned, Follows, Mixing, Held, Placing, Underway, Through
<1>7. (Follows /\ Mixing /\ ~WillTake => rec.lead = Lead)'
  BY CheckPausedDoes, Types, ThreadsAre DEF RecInv, Fits, Aligned, Follows, Mixing, Held,
       Placing, Underway, WillTake
<1>8. TailFollows'
  BY CheckPausedDoes, Types, ThreadsAre, TrailedStays DEF RecInv, Fits, TailFollows, Held,
       Placing, Underway, Rest
<1>9. Complete'
  BY CheckPausedDoes, Types, ThreadsAre DEF RecInv, Fits, Complete
<1>10. Stored'
  BY CheckPausedDoes, ThreadsAre, StoredStays DEF RecInv, Fits
<1> QED BY <1>1, <1>2, <1>4, <1>5, <1>6, <1>7, <1>8, <1>9, <1>10 DEF RecInv, Fits, Aligned

\* What FinishRecording does, field by field.
LEMMA FinishRecordingDoes ==
  ASSUME TypeOK, NEW next, FinishRecording(next)
  PROVE  /\ op.at = "idle" /\ (next = "Paused" => rec.state = "Recording") /\ rec.state # "Idle"
         /\ op'.name = "Finish" /\ op'.next = next /\ op'.tail = <<>> /\ ~op'.preserve
         /\ UNCHANGED <<engine.readers, engine.aligner, engine.blocks, engine.generation,
                        engine.device, rec, push, render, worker, due, lost>>
         /\ \/ /\ rec.state = "Recording" /\ rec.tap = "Performance" /\ engine'.suspended
               /\ op'.at = "holding"
            \/ /\ ~(rec.state = "Recording" /\ rec.tap = "Performance") /\ ~engine'.suspended
               /\ op'.at = "appending"
BY DEF TypeOK, Engines, Orders, histories, FinishRecording, Holds, NoCommand

\* FinishRecording keeps the types.
LEMMA FinishRecordingTyped ==
  ASSUME TypeOK, Counted, CallbackFits, NEW next \in {"Paused", "Finished"},
           FinishRecording(next)
  PROVE  TypeOK'
<1>1. op' \in Orders
  BY ZenonT(20) DEF TypeOK, Orders, FinishRecording, Holds, NoCommand, Taps
<1>2. engine.commands + 1 \in 0..MaxCommands /\ Holds \in BOOLEAN
  BY RecordingAssumption DEF TypeOK, Engines, FinishRecording, Holds
<1>3. engine' \in Engines
  BY <1>2, ZenonT(20) DEF TypeOK, Engines, FinishRecording, Holds, NoCommand
<1>4. Len(engine'.aligner) = Lead
  BY FinishRecordingDoes DEF TypeOK
<1>5. revived' \in BOOLEAN
  BY DEF TypeOK, FinishRecording, histories
<1> QED BY <1>1, <1>3, <1>4, <1>5, FinishRecordingDoes DEF TypeOK

\* Control holds the performance of a take that records, and nothing else.
LEMMA FinishRecordingKeeps ==
  ASSUME RecInv, NEW next \in {"Paused", "Finished"}, FinishRecording(next)
  PROVE  RecInv'
<1>1. TypeOK'
  BY FinishRecordingTyped DEF RecInv, Fits, Controlled
<1>2. Controlled'
  BY FinishRecordingDoes, Types, ThreadsAre, SMTT(30) DEF RecInv, Fits, Controlled, Counted,
       CommandFits, CallbackFits, TapsFit, TapFits, Generations, Quiet, WorkerFits, Placing,
       Putting, Nobody, Underway, Inside, Held, Mixing, States, Open, Taps
<1>3. Own' = Own
  BY FinishRecordingDoes DEF Own, RecInv, Fits
<1>4. Whole'
  BY FinishRecordingDoes, Types, ThreadsAre DEF RecInv, Fits, Whole
<1>5. MasterIsOwn'
  BY <1>3, FinishRecordingDoes, Types, ThreadsAre DEF RecInv, Fits, MasterIsOwn, Placing,
       Underway
<1>6. (Mixing' => InStep') /\ (Follows' => Delayed')
  BY <1>3, FinishRecordingDoes, Types, ThreadsAre, InStepStays, DelayedStays
  DEF RecInv, Fits, Controlled, Aligned, Follows, Mixing, Held, Placing, Underway, Through,
       CommandFits
<1>7. (Follows /\ Mixing /\ ~WillTake => rec.lead = Lead)'
  BY FinishRecordingDoes, Types, ThreadsAre DEF RecInv, Fits, Controlled, Aligned, Follows,
       Mixing, Held, Placing, Underway, WillTake, CommandFits
<1>8. TailFollows'
  BY FinishRecordingDoes, Types, ThreadsAre, TrailedStays DEF RecInv, Fits, TailFollows, Held,
       Placing, Underway, Rest
<1>9. Complete'
  BY FinishRecordingDoes, Types, ThreadsAre DEF RecInv, Fits, Complete
<1>10. Stored'
  BY FinishRecordingDoes, ThreadsAre, StoredStays DEF RecInv, Fits
<1> QED BY <1>1, <1>2, <1>4, <1>5, <1>6, <1>7, <1>8, <1>9, <1>10 DEF RecInv, Fits, Aligned

\* What Invalidate does, field by field.
LEMMA InvalidateDoes ==
  ASSUME TypeOK, NEW preserve \in BOOLEAN, Invalidate(preserve)
  PROVE  /\ op.at = "idle" /\ engine'.generation = engine.generation + 1
         /\ op'.name = "Reconfigure" /\ op'.next = (IF preserve THEN "Paused" ELSE "Finished")
         /\ op'.preserve = preserve /\ op'.tail = <<>>
         /\ UNCHANGED <<engine.readers, engine.aligner, engine.blocks, engine.device, rec, push,
                        render, worker, due, lost>>
         /\ \/ /\ rec.state = "Recording" /\ rec.tap = "Performance" /\ engine'.suspended
               /\ op'.at = "holding"
            \/ /\ rec.state = "Paused" /\ rec.tap = "Performance" /\ ~preserve
               /\ ~engine'.suspended /\ op'.at = "appending"
            \/ /\ ~(rec.state = "Recording" /\ rec.tap = "Performance") /\ ~engine'.suspended
               /\ op'.at = "renumbering"
BY DEF TypeOK, Engines, Orders, histories, Invalidate, Holds, NoCommand

\* Invalidate keeps the types.
LEMMA InvalidateTyped ==
  ASSUME TypeOK, Counted, CallbackFits, NEW preserve \in BOOLEAN, Invalidate(preserve)
  PROVE  TypeOK'
<1>1. op' \in Orders
  BY ZenonT(20) DEF TypeOK, Orders, Invalidate, Holds, NoCommand, Taps
<1>2. engine.commands + 1 \in 0..MaxCommands /\ engine.generation + 1 \in 0..MaxChanges
  BY RecordingAssumption DEF TypeOK, Engines, Invalidate
<1>3. engine' \in Engines
  BY <1>2, ZenonT(20) DEF TypeOK, Engines, Invalidate, Holds, NoCommand
<1>4. Len(engine'.aligner) = Lead
  BY InvalidateDoes DEF TypeOK
<1>5. revived' \in BOOLEAN
  BY DEF TypeOK, Invalidate, histories
<1> QED BY <1>1, <1>3, <1>4, <1>5, InvalidateDoes DEF TypeOK

\* Invalidate keeps the invariant.
LEMMA InvalidateKeeps ==
  ASSUME RecInv, NEW preserve \in BOOLEAN, Invalidate(preserve)
  PROVE  RecInv'
<1>1. TypeOK'
  BY InvalidateTyped DEF RecInv, Fits, Controlled
<1>2. Controlled'
  BY InvalidateDoes, Types, ThreadsAre, SMTT(30) DEF RecInv, Fits, Controlled, Counted,
       CommandFits, CallbackFits, TapsFit, TapFits, Generations, Quiet, WorkerFits, Placing,
       Putting, Nobody, Underway, Inside, Held, Mixing, States, Open, Taps
<1>3. Own' = Own
  BY InvalidateDoes DEF Own, RecInv, Fits
<1>4. Whole'
  BY InvalidateDoes, Types, ThreadsAre DEF RecInv, Fits, Whole
<1>5. MasterIsOwn'
  BY <1>3, InvalidateDoes, Types, ThreadsAre DEF RecInv, Fits, MasterIsOwn, Placing, Underway
<1>6. (Mixing' => InStep') /\ (Follows' => Delayed')
  BY <1>3, InvalidateDoes, Types, ThreadsAre, InStepStays, DelayedStays
  DEF RecInv, Fits, Controlled, Aligned, Follows, Mixing, Held, Placing, Underway, Through,
       CommandFits
<1>7. (Follows /\ Mixing /\ ~WillTake => rec.lead = Lead)'
  BY InvalidateDoes, Types, ThreadsAre DEF RecInv, Fits, Controlled, Aligned, Follows, Mixing,
       Held, Placing, Underway, WillTake, CommandFits
<1>8. TailFollows'
  BY InvalidateDoes, Types, ThreadsAre, TrailedStays DEF RecInv, Fits, TailFollows, Held,
       Placing, Underway, Rest
<1>9. Complete'
  BY InvalidateDoes, Types, ThreadsAre DEF RecInv, Fits, Complete
<1>10. Stored'
  BY InvalidateDoes, ThreadsAre, StoredStays DEF RecInv, Fits
<1> QED BY <1>1, <1>2, <1>4, <1>5, <1>6, <1>7, <1>8, <1>9, <1>10 DEF RecInv, Fits, Aligned

\* What DrainProducers does, field by field.
LEMMA DrainProducersDoes ==
  ASSUME TypeOK, DrainProducers
  PROVE  /\ rec.producers = 0
         /\ UNCHANGED <<op.name, op.next, op.preserve, op.tail, worker.at, worker.file, rec,
                        engine, push, render, due, lost>>
         /\ \/ op.at = "preparing" /\ op'.at = "joining"
            \/ op.at = "failing" /\ op'.at = "abandoning"
            \/ op.at \in {"pausing", "stopping"} /\ op'.at = "released"
BY DEF TypeOK, Writers, Orders, histories, DrainProducers, StopsWorker, Go

\* DrainProducers keeps the types.
LEMMA DrainProducersTyped ==
  ASSUME TypeOK, Counted, CallbackFits, DrainProducers
  PROVE  TypeOK'
<1>1. op' \in Orders
  BY ZenonT(20) DEF TypeOK, Orders, DrainProducers, StopsWorker, Go, Taps
<1>2. worker' \in Writers
  BY ZenonT(20) DEF TypeOK, Writers, DrainProducers, StopsWorker, Go
<1>3. revived' \in BOOLEAN
  BY DEF TypeOK, DrainProducers, histories
<1> QED BY <1>1, <1>2, <1>3, DrainProducersDoes DEF TypeOK

\* DrainProducers keeps the invariant.
LEMMA DrainProducersKeeps ==
  ASSUME RecInv, DrainProducers
  PROVE  RecInv'
<1>1. TypeOK'
  BY DrainProducersTyped DEF RecInv, Fits, Controlled
<1>2. Controlled'
  BY DrainProducersDoes, Types, ThreadsAre, SMTT(30) DEF RecInv, Fits, Controlled, Counted,
       CommandFits, CallbackFits, TapsFit, TapFits, Generations, Quiet, WorkerFits, Placing,
       Putting, Nobody, Underway, Inside, Held, Mixing, States, Open, Taps
<1>3. Own' = Own
  BY DrainProducersDoes DEF Own, RecInv, Fits
<1>4. Whole'
  BY DrainProducersDoes, Types, ThreadsAre DEF RecInv, Fits, Whole
<1>5. MasterIsOwn'
  BY <1>3, DrainProducersDoes, Types, ThreadsAre DEF RecInv, Fits, MasterIsOwn, Placing,
       Underway
<1>6. (Mixing' => InStep') /\ (Follows' => Delayed')
  BY <1>3, DrainProducersDoes, Types, ThreadsAre, InStepStays, DelayedStays
  DEF RecInv, Fits, Aligned, Follows, Mixing, Held, Placing, Underway, Through
<1>7. (Follows /\ Mixing /\ ~WillTake => rec.lead = Lead)'
  BY DrainProducersDoes, Types, ThreadsAre DEF RecInv, Fits, Aligned, Follows, Mixing, Held,
       Placing, Underway, WillTake
<1>8. TailFollows'
  BY DrainProducersDoes, Types, ThreadsAre, TrailedStays DEF RecInv, Fits, TailFollows, Held,
       Placing, Underway, Rest
<1>9. Complete'
  BY DrainProducersDoes, Types, ThreadsAre DEF RecInv, Fits, Complete
<1>10. Stored'
  BY DrainProducersDoes, ThreadsAre, StoredStays DEF RecInv, Fits
<1> QED BY <1>1, <1>2, <1>4, <1>5, <1>6, <1>7, <1>8, <1>9, <1>10 DEF RecInv, Fits, Aligned

\* What OpenFile does, field by field.
LEMMA OpenFileDoes ==
  ASSUME TypeOK, OpenFile
  PROVE  /\ op.at = "joining" /\ op'.at = "idle" /\ op'.name = "none" /\ op'.next = "Finished"
         /\ ~op'.preserve /\ op'.tail = <<>> /\ rec'.state = "Prepared" /\ rec'.tap = op.tap
         /\ rec'.timeline = 0 /\ rec'.queue = <<>> /\ worker'.at = "top" /\ worker'.file = <<>>
         /\ due' = <<>> /\ lost' = {}
         /\ UNCHANGED <<rec.epoch, rec.generation, rec.lead, rec.producers, engine, push, render>>
BY DEF TypeOK, Recs, Writers, Orders, histories, OpenFile, Ends, NoCommand

\* OpenFile keeps the types.
LEMMA OpenFileTyped ==
  ASSUME TypeOK, Counted, CallbackFits, OpenFile
  PROVE  TypeOK'
<1>1. op' \in Orders
  BY Blank, ZenonT(20) DEF TypeOK, Orders, OpenFile, Ends, Taps
<1>2. <<>> \in Seq([offset : Nat, frames : Seq(Frames)]) /\ op.tap \in Taps /\ 0 \in Nat
  BY SMT DEF TypeOK, Orders
<1>3. rec' \in Recs
  BY <1>2, ZenonT(20) DEF TypeOK, Recs, OpenFile, Ends, NoCommand, States, Open, Taps
<1>4. <<>> \in Seq(Frames)
  BY SMT
<1>5. worker' \in Writers
  BY <1>4, ZenonT(20) DEF TypeOK, Writers, OpenFile, Ends, NoCommand
<1>6. <<>> \in Seq(Frames)
  BY SMT
<1>7. due' \in Seq(Frames)
  BY <1>6, ZenonT(20) DEF TypeOK, OpenFile, Ends, NoCommand
<1>8. lost' \subseteq Nat
  BY ZenonT(20) DEF TypeOK, OpenFile, Ends, NoCommand
<1>9. revived' \in BOOLEAN
  BY DEF TypeOK, OpenFile, histories
<1> QED BY <1>1, <1>3, <1>5, <1>7, <1>8, <1>9, OpenFileDoes DEF TypeOK

\* A new file, queue and timeline are empty.
LEMMA OpenFileStored ==
  ASSUME RecInv, OpenFile
  PROVE  Stored'
<1>1. /\ worker'.file = <<>> /\ rec'.timeline = 0 /\ rec'.queue = <<>> /\ due' = <<>> /\ lost' = {}
      /\ UNCHANGED push /\ Nobody
  BY OpenFileDoes DEF RecInv, Fits, Controlled, CommandFits
<1>2. \A t \in Threads : push'[t].at # "publishing"
  BY <1>1, ThreadsAre DEF Nobody, Putting
<1> QED BY <1>1, <1>2 DEF Stored, FileHolds, QueueHolds, PutHolds, NoGap

\* OpenFile keeps the invariant.
LEMMA OpenFileKeeps ==
  ASSUME RecInv, OpenFile
  PROVE  RecInv'
<1>1. TypeOK'
  BY OpenFileTyped DEF RecInv, Fits, Controlled
<1>2. Controlled'
  BY OpenFileDoes, Types, ThreadsAre, SMTT(30) DEF RecInv, Fits, Controlled, Counted,
       CommandFits, CallbackFits, TapsFit, TapFits, Generations, Quiet, WorkerFits, Placing,
       Putting, Nobody, Underway, Inside, Held, Mixing, States, Open, Taps
<1>3. Own' = Own
  BY OpenFileDoes DEF Own, RecInv, Fits
<1>4. Whole'
  BY OpenFileDoes, Types, ThreadsAre DEF RecInv, Fits, Whole
<1>5. MasterIsOwn'
  BY <1>3, OpenFileDoes, Types, ThreadsAre DEF RecInv, Fits, Controlled, MasterIsOwn, Placing,
       Underway, CommandFits, Nobody, Putting
<1>6. (Mixing' => InStep') /\ (Follows' => Delayed')
  BY <1>3, OpenFileDoes, Types, ThreadsAre, InStepStays, DelayedStays
  DEF RecInv, Fits, Controlled, Aligned, Follows, Mixing, Held, Placing, Underway, Through,
       CommandFits, Nobody, Putting
<1>7. (Follows /\ Mixing /\ ~WillTake => rec.lead = Lead)'
  BY OpenFileDoes, Types, ThreadsAre DEF RecInv, Fits, Aligned, Follows, Mixing, Held, Placing,
       Underway, WillTake
<1>8. TailFollows'
  BY OpenFileDoes, Types, ThreadsAre, TrailedStays DEF RecInv, Fits, TailFollows, Held,
       Placing, Underway, Rest
<1>9. Complete'
  BY OpenFileDoes, Types, ThreadsAre DEF RecInv, Fits, Complete
<1>10. Stored'
  BY OpenFileStored
<1> QED BY <1>1, <1>2, <1>4, <1>5, <1>6, <1>7, <1>8, <1>9, <1>10 DEF RecInv, Fits, Aligned

\* What OpenFails does, field by field.
LEMMA OpenFailsDoes ==
  ASSUME TypeOK, OpenFails
  PROVE  /\ op.at = "joining" /\ op'.at = "idle" /\ op'.name = "none" /\ op'.next = "Finished"
         /\ ~op'.preserve /\ op'.tail = <<>> /\ rec'.state = "Failed" /\ worker'.at = "none"
         /\ UNCHANGED <<rec.epoch, rec.generation, rec.tap, rec.lead, rec.timeline, rec.producers,
                        rec.queue, worker.file, engine, push, render, due, lost>>
BY DEF TypeOK, Recs, Writers, Orders, histories, OpenFails, Ends, NoCommand

\* OpenFails keeps the types.
LEMMA OpenFailsTyped ==
  ASSUME TypeOK, Counted, CallbackFits, OpenFails
  PROVE  TypeOK'
<1>1. op' \in Orders
  BY Blank, ZenonT(20) DEF TypeOK, Orders, OpenFails, Ends, Taps
<1>2. rec' \in Recs
  BY ZenonT(20) DEF TypeOK, Recs, OpenFails, Ends, NoCommand, States, Open, Taps
<1>3. worker' \in Writers
  BY ZenonT(20) DEF TypeOK, Writers, OpenFails, Ends, NoCommand
<1>4. revived' \in BOOLEAN
  BY DEF TypeOK, OpenFails, histories
<1> QED BY <1>1, <1>2, <1>3, <1>4, OpenFailsDoes DEF TypeOK

\* OpenFails keeps the invariant.
LEMMA OpenFailsKeeps ==
  ASSUME RecInv, OpenFails
  PROVE  RecInv'
<1>1. TypeOK'
  BY OpenFailsTyped DEF RecInv, Fits, Controlled
<1>2. Controlled'
  BY OpenFailsDoes, Types, ThreadsAre, SMTT(30) DEF RecInv, Fits, Controlled, Counted,
       CommandFits, CallbackFits, TapsFit, TapFits, Generations, Quiet, WorkerFits, Placing,
       Putting, Nobody, Underway, Inside, Held, Mixing, States, Open, Taps
<1>3. Own' = Own
  BY OpenFailsDoes DEF Own, RecInv, Fits
<1>4. Whole'
  BY OpenFailsDoes, Types, ThreadsAre DEF RecInv, Fits, Whole
<1>5. MasterIsOwn'
  BY <1>3, OpenFailsDoes, Types, ThreadsAre DEF RecInv, Fits, MasterIsOwn, Placing, Underway
<1>6. (Mixing' => InStep') /\ (Follows' => Delayed')
  BY <1>3, OpenFailsDoes, Types, ThreadsAre, InStepStays, DelayedStays
  DEF RecInv, Fits, Aligned, Follows, Mixing, Held, Placing, Underway, Through
<1>7. (Follows /\ Mixing /\ ~WillTake => rec.lead = Lead)'
  BY OpenFailsDoes, Types, ThreadsAre DEF RecInv, Fits, Aligned, Follows, Mixing, Held,
       Placing, Underway, WillTake
<1>8. TailFollows'
  BY OpenFailsDoes, Types, ThreadsAre, TrailedStays DEF RecInv, Fits, TailFollows, Held,
       Placing, Underway, Rest
<1>9. Complete'
  BY OpenFailsDoes, Types, ThreadsAre DEF RecInv, Fits, Complete
<1>10. Stored'
  BY OpenFailsDoes, ThreadsAre, StoredStays DEF RecInv, Fits
<1> QED BY <1>1, <1>2, <1>4, <1>5, <1>6, <1>7, <1>8, <1>9, <1>10 DEF RecInv, Fits, Aligned

\* What Resume does, field by field.
LEMMA ResumeDoes ==
  ASSUME TypeOK, Resume
  PROVE  /\ op.at = "resuming" /\ op'.at = "idle" /\ op'.name = "none" /\ op'.next = "Finished"
         /\ ~op'.preserve /\ op'.tail = <<>> /\ rec'.state = "Recording"
         /\ rec'.lead = (IF rec.tap = "Performance" THEN Lead ELSE 0)
         /\ UNCHANGED <<rec.epoch, rec.generation, rec.tap, rec.timeline, rec.producers,
                        rec.queue, worker.at, worker.file, engine, push, render, due, lost>>
BY DEF TypeOK, Recs, Writers, Orders, histories, Resume, Wake, Ends, NoCommand

\* Resume keeps the types.
LEMMA ResumeTyped ==
  ASSUME TypeOK, Counted, CallbackFits, Resume
  PROVE  TypeOK'
<1>1. op' \in Orders
  BY Blank, ZenonT(20) DEF TypeOK, Orders, Resume, Wake, Ends, Taps
<1>2. (IF rec.tap = "Performance" THEN Lead ELSE 0) \in 0..Lead
  BY RecordingAssumption
<1>3. rec' \in Recs
  BY <1>2, ZenonT(20) DEF TypeOK, Recs, Resume, Wake, Ends, NoCommand, States, Open, Taps
<1>4. worker' \in Writers
  BY ZenonT(20) DEF TypeOK, Writers, Resume, Wake, Ends, NoCommand
<1>5. revived' \in BOOLEAN
  BY DEF TypeOK, Resume, histories
<1> QED BY <1>1, <1>3, <1>4, <1>5, ResumeDoes DEF TypeOK

\* So does the next segment: control stored the timeline at the end of the last one.
LEMMA ResumeKeeps ==
  ASSUME RecInv, Resume
  PROVE  RecInv'
<1>1. TypeOK'
  BY ResumeTyped DEF RecInv, Fits, Controlled
<1>2. Controlled'
  BY ResumeDoes, Types, ThreadsAre, SMTT(30) DEF RecInv, Fits, Controlled, Counted,
       CommandFits, CallbackFits, TapsFit, TapFits, Generations, Quiet, WorkerFits, Placing,
       Putting, Nobody, Underway, Inside, Held, Mixing, States, Open, Taps
<1>3. Own' = Own
  BY ResumeDoes DEF Own, RecInv, Fits
<1>4. Whole'
  BY ResumeDoes, Types, ThreadsAre DEF RecInv, Fits, Whole
<1>5. MasterIsOwn'
  BY <1>3, ResumeDoes, Types, ThreadsAre DEF RecInv, Fits, MasterIsOwn, Placing, Underway
<1>6. (Mixing' => InStep') /\ (Follows' => Delayed')
  BY <1>3, ResumeDoes, Types, ThreadsAre, InStepStays, DelayedStays, DelayedFromHere
  DEF RecInv, Fits, Aligned, Follows, Mixing, Held, Placing, Underway, Through, Whole
<1>7. (Follows /\ Mixing /\ ~WillTake => rec.lead = Lead)'
  BY ResumeDoes, Types, ThreadsAre DEF RecInv, Fits, Aligned, Follows, Mixing, Held, Placing,
       Underway, WillTake
<1>8. TailFollows'
  BY ResumeDoes, Types, ThreadsAre, TrailedStays DEF RecInv, Fits, TailFollows, Held, Placing,
       Underway, Rest
<1>9. Complete'
  BY ResumeDoes, Types, ThreadsAre DEF RecInv, Fits, Complete
<1>10. Stored'
  BY ResumeDoes, ThreadsAre, StoredStays DEF RecInv, Fits
<1> QED BY <1>1, <1>2, <1>4, <1>5, <1>6, <1>7, <1>8, <1>9, <1>10 DEF RecInv, Fits, Aligned

\* What TakeTail does, field by field.
LEMMA TakeTailDoes ==
  ASSUME TypeOK, TakeTail
  PROVE  /\ op.at = "holding" /\ engine.readers = 0 /\ op'.at = "appending"
         /\ op'.tail = Drop(engine.aligner, Least(rec.lead, Lead)) /\ engine'.aligner = Zeros
         /\ rec'.lead = 0
         /\ UNCHANGED <<op.name, op.next, op.preserve, engine.suspended, engine.readers,
                        engine.blocks, engine.generation, engine.device, rec.state, rec.epoch,
                        rec.generation, rec.tap, rec.timeline, rec.producers, rec.queue, push,
                        render, worker, due, lost>>
BY DEF TypeOK, Recs, Engines, Orders, histories, TakeTail

\* TakeTail keeps the types.
LEMMA TakeTailTyped ==
  ASSUME TypeOK, Counted, CallbackFits, TakeTail
  PROVE  TypeOK'
<1>1. Drop(engine.aligner, Least(rec.lead, Lead)) \in Seq(Frames)
  BY TailIs
<1>2. op' \in Orders
  BY <1>1, ZenonT(20) DEF TypeOK, Orders, TakeTail, Taps
<1>3. Zeros \in Seq(Frames)
  BY ZerosAre
<1>4. engine' \in Engines
  BY <1>3, ZenonT(20) DEF TypeOK, Engines, TakeTail
<1>5. 0 \in 0..Lead
  BY RecordingAssumption
<1>6. rec' \in Recs
  BY <1>5, ZenonT(20) DEF TypeOK, Recs, TakeTail, States, Open, Taps
<1>7. Len(engine'.aligner) = Lead
  BY ZerosAre, MixedIs, TakeTailDoes
<1>8. revived' \in BOOLEAN
  BY DEF TypeOK, TakeTail, histories
<1> QED BY <1>2, <1>4, <1>6, <1>7, <1>8, TakeTailDoes DEF TypeOK

\* The tail is what the aligner holds of the segment.
LEMMA TakeTailAligned ==
  ASSUME RecInv, TakeTail
  PROVE  Aligned' /\ TailFollows'
<1>1. TypeOK /\ ~Mixing /\ ~Mixing' /\ Held' /\ ~Held /\ ~Underway("control")' /\ ~Placing("control")'
  BY TakeTailDoes, ThreadsAre, Types DEF RecInv, Fits, Controlled, CallbackFits, CommandFits,
       Mixing, Underway, Held, Placing
<1>2. Aligned'
  BY <1>1 DEF Aligned, Follows
<1>3. /\ Rest' = Drop(engine.aligner, Least(rec.lead, Lead)) /\ Through = engine.aligner
      /\ UNCHANGED <<rec.state, rec.tap, rec.timeline, due>> /\ rec'.lead = 0 /\ rec.tap = "Performance"
  BY <1>1, TakeTailDoes DEF Rest, Through, RecInv, Fits, Controlled, CommandFits
<1>4. ASSUME rec.state = "Recording" PROVE Trailed'
  <2>1. Delayed BY <1>1, <1>3, <1>4 DEF RecInv, Aligned, Follows
  <2>2. rec.lead \in 0..Lead /\ rec.timeline \in Nat /\ Lead \in Nat
    BY <1>1, Types, RecordingAssumption
  <2>3. \A k \in 1..(Lead - rec.lead) :
           /\ rec.lead + k \in (rec.lead + 1)..Lead
           /\ rec.timeline + (rec.lead + k) - rec.lead = rec.timeline + k
    BY <2>2
  <2>4. /\ Len(Rest') = Lead - rec.lead
        /\ \A k \in 1..(Lead - rec.lead) : Rest'[k] = Through[rec.lead + k]
    BY <1>1, <1>3, TailIs
  <2>5. \A k \in 1..(Lead - rec.lead) : Rest'[k] = due[rec.timeline + k]
    BY <2>1, <2>3, <2>4 DEF Delayed
  <2> QED BY <1>3, <2>1, <2>4, <2>5 DEF Trailed, Delayed
<1>5. TailFollows'
  BY <1>1, <1>3, <1>4 DEF TailFollows
<1> QED BY <1>2, <1>5

\* The callback is out: what the aligner holds is the tail of control.
LEMMA TakeTailKeeps ==
  ASSUME RecInv, TakeTail
  PROVE  RecInv'
<1>1. TypeOK'
  BY TakeTailTyped DEF RecInv, Fits, Controlled
<1>2. Controlled'
  BY TakeTailDoes, Types, ThreadsAre, SMTT(30) DEF RecInv, Fits, Controlled, Counted,
       CommandFits, CallbackFits, TapsFit, TapFits, Generations, Quiet, WorkerFits, Placing,
       Putting, Nobody, Underway, Inside, Held, Mixing, States, Open, Taps
<1>3. Own' = Own
  BY TakeTailDoes DEF Own, RecInv, Fits
<1>4. Whole'
  BY TakeTailDoes, Types, ThreadsAre DEF RecInv, Fits, Whole
<1>5. MasterIsOwn'
  BY <1>3, TakeTailDoes, Types, ThreadsAre DEF RecInv, Fits, MasterIsOwn, Placing, Underway
<1>6. Aligned' /\ TailFollows'
  BY TakeTailAligned
<1>9. Complete'
  BY TakeTailDoes, Types, ThreadsAre DEF RecInv, Fits, Complete
<1>10. Stored'
  BY TakeTailDoes, ThreadsAre, StoredStays DEF RecInv, Fits
<1> QED BY <1>1, <1>2, <1>4, <1>5, <1>6, <1>9, <1>10 DEF RecInv, Fits

\* What AppendTail does, field by field.
LEMMA AppendTailDoes ==
  ASSUME TypeOK, AppendTail
  PROVE  /\ op.at = "appending" /\ op.tail # <<>> /\ push["control"].at = "done"
         /\ UNCHANGED <<engine, render, worker, due, lost>>
         /\ \/ /\ rec.state # "Recording" /\ op'.at = "failing" /\ rec'.state = "Failed"
               /\ UNCHANGED <<push, op.name, op.next, op.preserve, op.tail, rec.epoch,
                              rec.generation, rec.tap, rec.lead, rec.timeline, rec.producers,
                              rec.queue>>
            \/ /\ rec.state = "Recording" /\ op'.tail = Drop(op.tail, Chunk)
               /\ push'["control"].at = "reading" /\ push'["control"].tap = "Performance"
               /\ push'["control"].frames = SubSeq(op.tail, 1, Chunk)
               /\ push'["control"].offset = 0 /\ push'["control"].generation = rec.generation
               /\ push'["control"].epoch = 0
               /\ UNCHANGED <<rec, op.at, op.name, op.next, op.preserve, push["render"]>>
<1>1. CASE rec.state # "Recording"
  BY <1>1 DEF TypeOK, Recs, Orders, histories, AppendTail, Fail, Go
<1>2. CASE rec.state = "Recording"
  <2>1. /\ op.at = "appending" /\ op.tail # <<>> /\ push["control"].at = "done"
        /\ Offer("control", "Performance", SubSeq(op.tail, 1, Chunk), rec.generation)
        /\ op' = [op EXCEPT !.tail = Drop(op.tail, Chunk)]
        /\ UNCHANGED <<rec, engine, render, worker, due, lost>>
    BY <1>2 DEF AppendTail, histories
  <2>2. /\ op'.tail = Drop(op.tail, Chunk)
        /\ UNCHANGED <<op.at, op.name, op.next, op.preserve>>
    BY <2>1 DEF TypeOK, Orders
  <2>3. /\ push'["control"].at = "reading" /\ push'["control"].tap = "Performance"
        /\ push'["control"].frames = SubSeq(op.tail, 1, Chunk)
        /\ push'["control"].offset = 0 /\ push'["control"].generation = rec.generation
        /\ push'["control"].epoch = 0
        /\ UNCHANGED push["render"]
    BY <2>1 DEF TypeOK, Threads, Offer, NoPush
  <2> QED BY <1>2, <2>1, <2>2, <2>3
<1> QED BY <1>1, <1>2

\* AppendTail keeps the types.
LEMMA AppendTailTyped ==
  ASSUME TypeOK, Counted, CallbackFits, AppendTail
  PROVE  TypeOK'
<1>1. CASE rec.state # "Recording"
  <2>1. op' \in Orders BY <1>1, ZenonT(20) DEF TypeOK, Orders, AppendTail, Fail, Go
  <2>2. rec' \in Recs BY <1>1, ZenonT(20) DEF TypeOK, Recs, States, AppendTail, Fail
  <2> QED BY <1>1, <2>1, <2>2 DEF TypeOK, AppendTail, histories
<1>2. CASE rec.state = "Recording"
  <2>1. /\ Offer("control", "Performance", SubSeq(op.tail, 1, Chunk), rec.generation)
        /\ op' = [op EXCEPT !.tail = Drop(op.tail, Chunk)]
        /\ UNCHANGED <<rec, engine, render, worker, due, lost, revived>>
    BY <1>2 DEF AppendTail, histories
  <2>2. op' \in Orders BY <2>1, ChunkIs, ZenonT(20) DEF TypeOK, Orders
  <2>3. push' \in [Threads -> Calls]
    BY <2>1, ChunkIs, OfferTyped, ThreadsAre, Types, Zenon DEF TypeOK, Taps
  <2> QED BY <2>1, <2>2, <2>3 DEF TypeOK
<1> QED BY <1>1, <1>2

\* A chunk of the tail goes into a call of push, nothing else moves.
LEMMA AppendTailAligned ==
  ASSUME RecInv, AppendTail
  PROVE  Aligned' /\ TailFollows'
<1>1. Own' = Own BY AppendTailDoes DEF Own, RecInv, Fits
<1>2. (Mixing' => InStep') /\ (Follows' => Delayed')
  BY <1>1, AppendTailDoes, Types, ThreadsAre, InStepStays, DelayedStays, SMTT(10)
  DEF RecInv, Fits, Controlled, Aligned, Follows, Mixing, Held, Placing, Underway, Through,
       CommandFits, CallbackFits
<1>3. (Follows /\ Mixing /\ ~WillTake => rec.lead = Lead)'
  BY AppendTailDoes, Types, ThreadsAre, SMTT(10)
  DEF RecInv, Fits, Controlled, Aligned, Follows, Mixing, Held, Placing, Underway, WillTake,
       CommandFits, CallbackFits
<1>4. CASE rec.state # "Recording"
  <2>1. op'.at = "failing" BY <1>4, AppendTailDoes DEF RecInv, Fits
  <2>2. TailFollows' BY <2>1 DEF TailFollows
  <2> QED BY <1>2, <1>3, <2>2 DEF Aligned
<1>5. CASE rec.state = "Recording"
  <2>1. /\ Rest = op.tail /\ Rest' = SubSeq(op.tail, 1, Chunk) \o Drop(op.tail, Chunk)
        /\ UNCHANGED <<due, rec, engine>> /\ op'.at = "appending" /\ op.at = "appending"
    BY <1>5, AppendTailDoes DEF RecInv, Fits, Rest, Underway
  <2>2. Len(Rest') = Len(Rest) /\ \A i \in 1..Len(Rest) : Rest'[i] = Rest[i]
    BY <2>1, ChunkSplits DEF RecInv, Fits
  <2>3. Trailed => Trailed'
    BY <2>1, <2>2 DEF Trailed
  <2> QED BY <1>2, <1>3, <1>5, <2>1, <2>3 DEF RecInv, Aligned, TailFollows, Held
<1> QED BY <1>2, <1>3, <1>4, <1>5 DEF Aligned

\* The tail is pushed chunk by chunk.
LEMMA AppendTailKeeps ==
  ASSUME RecInv, AppendTail
  PROVE  RecInv'
<1>1. TypeOK'
  BY AppendTailTyped DEF RecInv, Fits, Controlled
<1>2. Controlled'
  BY AppendTailDoes, Types, ThreadsAre, SMTT(30) DEF RecInv, Fits, Controlled, Counted,
       CommandFits, CallbackFits, TapsFit, TapFits, Generations, Quiet, WorkerFits, Placing,
       Putting, Nobody, Underway, Inside, Held, Mixing, States, Open, Taps
<1>3. Own' = Own
  BY AppendTailDoes DEF Own, RecInv, Fits
<1>4. Whole'
  BY AppendTailDoes, Types, ThreadsAre DEF RecInv, Fits, Whole
<1>5. MasterIsOwn'
  BY <1>3, AppendTailDoes, Types, ThreadsAre DEF RecInv, Fits, MasterIsOwn, Placing, Underway
<1>6. Aligned' /\ TailFollows'
  BY AppendTailAligned
<1>9. Complete'
  BY AppendTailDoes, Types, ThreadsAre DEF RecInv, Fits, Complete
<1>10. Stored'
  BY AppendTailDoes, ThreadsAre, StoredStays DEF RecInv, Fits
<1> QED BY <1>1, <1>2, <1>4, <1>5, <1>6, <1>9, <1>10 DEF RecInv, Fits

\* What TailTimesOut does, field by field.
LEMMA TailTimesOutDoes ==
  ASSUME TypeOK, TailTimesOut
  PROVE  /\ op.at = "appending" /\ op.tail # <<>> /\ push["control"].at = "done"
         /\ op'.at = "failing" /\ rec'.state = "Failed"
         /\ UNCHANGED <<op.name, op.next, op.preserve, op.tail, rec.epoch, rec.generation,
                        rec.tap, rec.lead, rec.timeline, rec.producers, rec.queue, engine, push,
                        render, worker, due, lost>>
BY DEF TypeOK, Recs, Orders, histories, TailTimesOut, Fail, Go

\* TailTimesOut keeps the types.
LEMMA TailTimesOutTyped ==
  ASSUME TypeOK, Counted, CallbackFits, TailTimesOut
  PROVE  TypeOK'
<1>1. op' \in Orders
  BY ZenonT(20) DEF TypeOK, Orders, TailTimesOut, Fail, Go, Taps
<1>2. rec' \in Recs
  BY ZenonT(20) DEF TypeOK, Recs, TailTimesOut, Fail, Go, States, Open, Taps
<1>3. revived' \in BOOLEAN
  BY DEF TypeOK, TailTimesOut, histories
<1> QED BY <1>1, <1>2, <1>3, TailTimesOutDoes DEF TypeOK

\* TailTimesOut keeps the invariant.
LEMMA TailTimesOutKeeps ==
  ASSUME RecInv, TailTimesOut
  PROVE  RecInv'
<1>1. TypeOK'
  BY TailTimesOutTyped DEF RecInv, Fits, Controlled
<1>2. Controlled'
  BY TailTimesOutDoes, Types, ThreadsAre, SMTT(30) DEF RecInv, Fits, Controlled, Counted,
       CommandFits, CallbackFits, TapsFit, TapFits, Generations, Quiet, WorkerFits, Placing,
       Putting, Nobody, Underway, Inside, Held, Mixing, States, Open, Taps
<1>3. Own' = Own
  BY TailTimesOutDoes DEF Own, RecInv, Fits
<1>4. Whole'
  BY TailTimesOutDoes, Types, ThreadsAre DEF RecInv, Fits, Whole
<1>5. MasterIsOwn'
  BY <1>3, TailTimesOutDoes, Types, ThreadsAre DEF RecInv, Fits, MasterIsOwn, Placing, Underway
<1>6. (Mixing' => InStep') /\ (Follows' => Delayed')
  BY <1>3, TailTimesOutDoes, Types, ThreadsAre, InStepStays, DelayedStays
  DEF RecInv, Fits, Aligned, Follows, Mixing, Held, Placing, Underway, Through
<1>7. (Follows /\ Mixing /\ ~WillTake => rec.lead = Lead)'
  BY TailTimesOutDoes, Types, ThreadsAre DEF RecInv, Fits, Aligned, Follows, Mixing, Held,
       Placing, Underway, WillTake
<1>8. TailFollows'
  BY TailTimesOutDoes, Types, ThreadsAre, TrailedStays DEF RecInv, Fits, TailFollows, Held,
       Placing, Underway, Rest
<1>9. Complete'
  BY TailTimesOutDoes, Types, ThreadsAre DEF RecInv, Fits, Complete
<1>10. Stored'
  BY TailTimesOutDoes, ThreadsAre, StoredStays DEF RecInv, Fits
<1> QED BY <1>1, <1>2, <1>4, <1>5, <1>6, <1>7, <1>8, <1>9, <1>10 DEF RecInv, Fits, Aligned

\* What CheckRecording does, field by field.
LEMMA CheckRecordingDoes ==
  ASSUME TypeOK, CheckRecording
  PROVE  /\ op.at = "appending" /\ op.tail = <<>> /\ push["control"].at = "done"
         /\ op.next = "Paused"
         /\ UNCHANGED <<engine, push, render, worker, due, lost>>
         /\ \/ /\ rec.state = "Recording" /\ op'.at = "storing"
               /\ UNCHANGED <<rec, op.name, op.next, op.preserve, op.tail>>
            \/ /\ rec.state # "Recording" /\ op'.at = "failing" /\ rec'.state = "Failed"
               /\ UNCHANGED <<op.name, op.next, op.preserve, op.tail, rec.epoch, rec.generation,
                              rec.tap, rec.lead, rec.timeline, rec.producers, rec.queue>>
            \/ /\ rec.state # "Recording" /\ op'.at = "released"
               /\ UNCHANGED <<rec, op.name, op.next, op.preserve, op.tail>>
BY DEF TypeOK, Recs, Orders, histories, CheckRecording, Fail, Go, TailIsIn

\* CheckRecording keeps the types.
LEMMA CheckRecordingTyped ==
  ASSUME TypeOK, Counted, CallbackFits, CheckRecording
  PROVE  TypeOK'
<1>1. op' \in Orders
  BY ZenonT(20) DEF TypeOK, Orders, CheckRecording, Fail, Go, TailIsIn, Taps
<1>2. rec' \in Recs
  BY ZenonT(20) DEF TypeOK, Recs, CheckRecording, Fail, Go, TailIsIn, States, Open, Taps
<1>3. revived' \in BOOLEAN
  BY DEF TypeOK, CheckRecording, histories
<1> QED BY <1>1, <1>2, <1>3, CheckRecordingDoes DEF TypeOK

\* Once the tail is in, the timeline is at the end of the take.
LEMMA CheckRecordingKeeps ==
  ASSUME RecInv, CheckRecording
  PROVE  RecInv'
<1>1. TypeOK'
  BY CheckRecordingTyped DEF RecInv, Fits, Controlled
<1>2. Controlled'
  BY CheckRecordingDoes, Types, ThreadsAre, SMTT(30) DEF RecInv, Fits, Controlled, Counted,
       CommandFits, CallbackFits, TapsFit, TapFits, Generations, Quiet, WorkerFits, Placing,
       Putting, Nobody, Underway, Inside, Held, Mixing, States, Open, Taps
<1>3. Own' = Own
  BY CheckRecordingDoes DEF Own, RecInv, Fits
<1>4. Whole'
  BY CheckRecordingDoes, Types, ThreadsAre, TailIsDone DEF RecInv, Fits, Whole
<1>5. MasterIsOwn'
  BY <1>3, CheckRecordingDoes, Types, ThreadsAre DEF RecInv, Fits, MasterIsOwn, Placing,
       Underway
<1>6. (Mixing' => InStep') /\ (Follows' => Delayed')
  BY <1>3, CheckRecordingDoes, Types, ThreadsAre, InStepStays, DelayedStays
  DEF RecInv, Fits, Aligned, Follows, Mixing, Held, Placing, Underway, Through
<1>7. (Follows /\ Mixing /\ ~WillTake => rec.lead = Lead)'
  BY CheckRecordingDoes, Types, ThreadsAre DEF RecInv, Fits, Aligned, Follows, Mixing, Held,
       Placing, Underway, WillTake
<1>8. TailFollows'
  BY CheckRecordingDoes, Types, ThreadsAre, TrailedStays DEF RecInv, Fits, TailFollows, Held,
       Placing, Underway, Rest
<1>9. Complete'
  BY CheckRecordingDoes, Types, ThreadsAre DEF RecInv, Fits, Complete
<1>10. Stored'
  BY CheckRecordingDoes, ThreadsAre, StoredStays DEF RecInv, Fits
<1> QED BY <1>1, <1>2, <1>4, <1>5, <1>6, <1>7, <1>8, <1>9, <1>10 DEF RecInv, Fits, Aligned

\* What Pause does, field by field.
LEMMA PauseDoes ==
  ASSUME TypeOK, Pause
  PROVE  /\ op.at = "storing" /\ op'.at = "pausing" /\ rec'.state = "Paused"
         /\ UNCHANGED <<op.name, op.next, op.preserve, op.tail, rec.epoch, rec.generation,
                        rec.tap, rec.lead, rec.timeline, rec.producers, rec.queue, engine, push,
                        render, worker, due, lost>>
BY DEF TypeOK, Recs, Orders, histories, Pause, Go

\* Pause keeps the types.
LEMMA PauseTyped ==
  ASSUME TypeOK, Counted, CallbackFits, Pause
  PROVE  TypeOK'
<1>1. op' \in Orders
  BY ZenonT(20) DEF TypeOK, Orders, Pause, Go, Taps
<1>2. rec' \in Recs
  BY ZenonT(20) DEF TypeOK, Recs, Pause, Go, States, Open, Taps
<1>3. revived' \in BOOLEAN
  BY DEF TypeOK, Pause, histories
<1> QED BY <1>1, <1>2, <1>3, PauseDoes DEF TypeOK

\* A paused take is whole.
LEMMA PauseKeeps ==
  ASSUME RecInv, Pause
  PROVE  RecInv'
<1>1. TypeOK'
  BY PauseTyped DEF RecInv, Fits, Controlled
<1>2. Controlled'
  BY PauseDoes, Types, ThreadsAre, SMTT(30) DEF RecInv, Fits, Controlled, Counted, CommandFits,
       CallbackFits, TapsFit, TapFits, Generations, Quiet, WorkerFits, Placing, Putting,
       Nobody, Underway, Inside, Held, Mixing, States, Open, Taps
<1>3. Own' = Own
  BY PauseDoes DEF Own, RecInv, Fits
<1>4. Whole'
  BY PauseDoes, Types, ThreadsAre DEF RecInv, Fits, Whole
<1>5. MasterIsOwn'
  BY <1>3, PauseDoes, Types, ThreadsAre DEF RecInv, Fits, MasterIsOwn, Placing, Underway
<1>6. (Mixing' => InStep') /\ (Follows' => Delayed')
  BY <1>3, PauseDoes, Types, ThreadsAre, InStepStays, DelayedStays
  DEF RecInv, Fits, Aligned, Follows, Mixing, Held, Placing, Underway, Through
<1>7. (Follows /\ Mixing /\ ~WillTake => rec.lead = Lead)'
  BY PauseDoes, Types, ThreadsAre DEF RecInv, Fits, Aligned, Follows, Mixing, Held, Placing,
       Underway, WillTake
<1>8. TailFollows'
  BY PauseDoes, Types, ThreadsAre, TrailedStays DEF RecInv, Fits, TailFollows, Held, Placing,
       Underway, Rest
<1>9. Complete'
  BY PauseDoes, Types, ThreadsAre DEF RecInv, Fits, Complete
<1>10. Stored'
  BY PauseDoes, ThreadsAre, StoredStays DEF RecInv, Fits
<1> QED BY <1>1, <1>2, <1>4, <1>5, <1>6, <1>7, <1>8, <1>9, <1>10 DEF RecInv, Fits, Aligned

\* What Stop does, field by field.
LEMMA StopDoes ==
  ASSUME TypeOK, Stop
  PROVE  /\ op.at = "appending" /\ op.tail = <<>> /\ push["control"].at = "done"
         /\ op.next = "Finished" /\ op'.at = "finalizing"
         /\ rec'.state = (IF rec.state \in {"Prepared", "Recording", "Paused"}
                          THEN "Finalizing" ELSE rec.state)
         /\ UNCHANGED <<op.name, op.next, op.preserve, op.tail, rec.epoch, rec.generation,
                        rec.tap, rec.lead, rec.timeline, rec.producers, rec.queue, worker.at,
                        worker.file, engine, push, render, due, lost>>
BY DEF TypeOK, Recs, Writers, Orders, histories, Stop, Closing, Open, Wake, Go, TailIsIn

\* Stop keeps the types.
LEMMA StopTyped ==
  ASSUME TypeOK, Counted, CallbackFits, Stop
  PROVE  TypeOK'
<1>1. op' \in Orders
  BY ZenonT(20) DEF TypeOK, Orders, Stop, Closing, Open, Wake, Go, TailIsIn, Taps
<1>2. (IF rec.state \in Open THEN "Finalizing" ELSE rec.state) \in States
  BY Types DEF States
<1>3. rec' \in Recs
  BY <1>2, ZenonT(20) DEF TypeOK, Recs, Stop, Closing, Open, Wake, Go, TailIsIn, Taps
<1>4. worker' \in Writers
  BY ZenonT(20) DEF TypeOK, Writers, Stop, Closing, Open, Wake, Go, TailIsIn
<1>5. revived' \in BOOLEAN
  BY DEF TypeOK, Stop, histories
<1> QED BY <1>1, <1>3, <1>4, <1>5, StopDoes DEF TypeOK

\* A take that is closed is whole.
LEMMA StopKeeps ==
  ASSUME RecInv, Stop
  PROVE  RecInv'
<1>1. TypeOK'
  BY StopTyped DEF RecInv, Fits, Controlled
<1>2. Controlled'
  BY StopDoes, Types, ThreadsAre, SMTT(30) DEF RecInv, Fits, Controlled, Counted, CommandFits,
       CallbackFits, TapsFit, TapFits, Generations, Quiet, WorkerFits, Placing, Putting,
       Nobody, Underway, Inside, Held, Mixing, States, Open, Taps
<1>3. Own' = Own
  BY StopDoes DEF Own, RecInv, Fits
<1>4. Whole'
  BY StopDoes, Types, ThreadsAre, TailIsDone DEF RecInv, Fits, Whole
<1>5. MasterIsOwn'
  BY <1>3, StopDoes, Types, ThreadsAre DEF RecInv, Fits, MasterIsOwn, Placing, Underway
<1>6. (Mixing' => InStep') /\ (Follows' => Delayed')
  BY <1>3, StopDoes, Types, ThreadsAre, InStepStays, DelayedStays
  DEF RecInv, Fits, Aligned, Follows, Mixing, Held, Placing, Underway, Through
<1>7. (Follows /\ Mixing /\ ~WillTake => rec.lead = Lead)'
  BY StopDoes, Types, ThreadsAre DEF RecInv, Fits, Aligned, Follows, Mixing, Held, Placing,
       Underway, WillTake
<1>8. TailFollows'
  BY StopDoes, Types, ThreadsAre, TrailedStays DEF RecInv, Fits, TailFollows, Held, Placing,
       Underway, Rest
<1>9. Complete'
  BY StopDoes, Types, ThreadsAre DEF RecInv, Fits, Complete
<1>10. Stored'
  BY StopDoes, ThreadsAre, StoredStays DEF RecInv, Fits
<1> QED BY <1>1, <1>2, <1>4, <1>5, <1>6, <1>7, <1>8, <1>9, <1>10 DEF RecInv, Fits, Aligned

\* What AwaitFinalized does, field by field.
LEMMA AwaitFinalizedDoes ==
  ASSUME TypeOK, AwaitFinalized
  PROVE  /\ op.at = "finalizing" /\ rec.state # "Finalizing" /\ op'.at = "stopping"
         /\ UNCHANGED <<op.name, op.next, op.preserve, op.tail, rec, engine, push, render, worker,
                        due, lost>>
BY DEF TypeOK, Orders, histories, AwaitFinalized, Go

\* AwaitFinalized keeps the types.
LEMMA AwaitFinalizedTyped ==
  ASSUME TypeOK, Counted, CallbackFits, AwaitFinalized
  PROVE  TypeOK'
<1>1. op' \in Orders
  BY ZenonT(20) DEF TypeOK, Orders, AwaitFinalized, Go, Taps
<1>2. revived' \in BOOLEAN
  BY DEF TypeOK, AwaitFinalized, histories
<1> QED BY <1>1, <1>2, AwaitFinalizedDoes DEF TypeOK

\* AwaitFinalized keeps the invariant.
LEMMA AwaitFinalizedKeeps ==
  ASSUME RecInv, AwaitFinalized
  PROVE  RecInv'
<1>1. TypeOK'
  BY AwaitFinalizedTyped DEF RecInv, Fits, Controlled
<1>2. Controlled'
  BY AwaitFinalizedDoes, Types, ThreadsAre, SMTT(30) DEF RecInv, Fits, Controlled, Counted,
       CommandFits, CallbackFits, TapsFit, TapFits, Generations, Quiet, WorkerFits, Placing,
       Putting, Nobody, Underway, Inside, Held, Mixing, States, Open, Taps
<1>3. Own' = Own
  BY AwaitFinalizedDoes DEF Own, RecInv, Fits
<1>4. Whole'
  BY AwaitFinalizedDoes, Types, ThreadsAre DEF RecInv, Fits, Whole
<1>5. MasterIsOwn'
  BY <1>3, AwaitFinalizedDoes, Types, ThreadsAre DEF RecInv, Fits, MasterIsOwn, Placing,
       Underway
<1>6. (Mixing' => InStep') /\ (Follows' => Delayed')
  BY <1>3, AwaitFinalizedDoes, Types, ThreadsAre, InStepStays, DelayedStays
  DEF RecInv, Fits, Aligned, Follows, Mixing, Held, Placing, Underway, Through
<1>7. (Follows /\ Mixing /\ ~WillTake => rec.lead = Lead)'
  BY AwaitFinalizedDoes, Types, ThreadsAre DEF RecInv, Fits, Aligned, Follows, Mixing, Held,
       Placing, Underway, WillTake
<1>8. TailFollows'
  BY AwaitFinalizedDoes, Types, ThreadsAre, TrailedStays DEF RecInv, Fits, TailFollows, Held,
       Placing, Underway, Rest
<1>9. Complete'
  BY AwaitFinalizedDoes, Types, ThreadsAre DEF RecInv, Fits, Complete
<1>10. Stored'
  BY AwaitFinalizedDoes, ThreadsAre, StoredStays DEF RecInv, Fits
<1> QED BY <1>1, <1>2, <1>4, <1>5, <1>6, <1>7, <1>8, <1>9, <1>10 DEF RecInv, Fits, Aligned

\* What Abandon does, field by field.
LEMMA AbandonDoes ==
  ASSUME TypeOK, Abandon
  PROVE  /\ op.at = "abandoning" /\ op'.at = "released" /\ rec'.state = "Failed"
         /\ UNCHANGED <<op.name, op.next, op.preserve, op.tail, rec.epoch, rec.generation,
                        rec.tap, rec.lead, rec.timeline, rec.producers, rec.queue, engine, push,
                        render, worker, due, lost>>
BY DEF TypeOK, Recs, Orders, histories, Abandon, Go

\* Abandon keeps the types.
LEMMA AbandonTyped ==
  ASSUME TypeOK, Counted, CallbackFits, Abandon
  PROVE  TypeOK'
<1>1. op' \in Orders
  BY ZenonT(20) DEF TypeOK, Orders, Abandon, Go, Taps
<1>2. rec' \in Recs
  BY ZenonT(20) DEF TypeOK, Recs, Abandon, Go, States, Open, Taps
<1>3. revived' \in BOOLEAN
  BY DEF TypeOK, Abandon, histories
<1> QED BY <1>1, <1>2, <1>3, AbandonDoes DEF TypeOK

\* Abandon keeps the invariant.
LEMMA AbandonKeeps ==
  ASSUME RecInv, Abandon
  PROVE  RecInv'
<1>1. TypeOK'
  BY AbandonTyped DEF RecInv, Fits, Controlled
<1>2. Controlled'
  BY AbandonDoes, Types, ThreadsAre, SMTT(30) DEF RecInv, Fits, Controlled, Counted,
       CommandFits, CallbackFits, TapsFit, TapFits, Generations, Quiet, WorkerFits, Placing,
       Putting, Nobody, Underway, Inside, Held, Mixing, States, Open, Taps
<1>3. Own' = Own
  BY AbandonDoes DEF Own, RecInv, Fits
<1>4. Whole'
  BY AbandonDoes, Types, ThreadsAre DEF RecInv, Fits, Whole
<1>5. MasterIsOwn'
  BY <1>3, AbandonDoes, Types, ThreadsAre DEF RecInv, Fits, MasterIsOwn, Placing, Underway
<1>6. (Mixing' => InStep') /\ (Follows' => Delayed')
  BY <1>3, AbandonDoes, Types, ThreadsAre, InStepStays, DelayedStays
  DEF RecInv, Fits, Aligned, Follows, Mixing, Held, Placing, Underway, Through
<1>7. (Follows /\ Mixing /\ ~WillTake => rec.lead = Lead)'
  BY AbandonDoes, Types, ThreadsAre DEF RecInv, Fits, Aligned, Follows, Mixing, Held, Placing,
       Underway, WillTake
<1>8. TailFollows'
  BY AbandonDoes, Types, ThreadsAre, TrailedStays DEF RecInv, Fits, TailFollows, Held, Placing,
       Underway, Rest
<1>9. Complete'
  BY AbandonDoes, Types, ThreadsAre DEF RecInv, Fits, Complete
<1>10. Stored'
  BY AbandonDoes, ThreadsAre, StoredStays DEF RecInv, Fits
<1> QED BY <1>1, <1>2, <1>4, <1>5, <1>6, <1>7, <1>8, <1>9, <1>10 DEF RecInv, Fits, Aligned

\* What ReleasePerformance does, field by field.
LEMMA ReleasePerformanceDoes ==
  ASSUME TypeOK, ReleasePerformance
  PROVE  /\ op.at = "released" /\ ~engine'.suspended
         /\ UNCHANGED <<engine.readers, engine.aligner, engine.blocks, engine.generation,
                        engine.device, rec, push, render, worker, due, lost>>
         /\ \/ /\ op.name = "Reconfigure" /\ op'.at = "renumbering"
               /\ UNCHANGED <<op.name, op.next, op.preserve, op.tail>>
            \/ /\ op.name # "Reconfigure" /\ op'.at = "idle" /\ op'.name = "none"
               /\ op'.next = "Finished" /\ ~op'.preserve /\ op'.tail = <<>>
BY DEF TypeOK, Engines, Orders, histories, ReleasePerformance, Go, Ends, NoCommand

\* ReleasePerformance keeps the types.
LEMMA ReleasePerformanceTyped ==
  ASSUME TypeOK, Counted, CallbackFits, ReleasePerformance
  PROVE  TypeOK'
<1>1. op' \in Orders
  BY Blank, ZenonT(20) DEF TypeOK, Orders, ReleasePerformance, Go, Ends, Taps
<1>2. engine' \in Engines
  BY ZenonT(20) DEF TypeOK, Engines, ReleasePerformance, Go, Ends, NoCommand
<1>3. Len(engine'.aligner) = Lead
  BY ReleasePerformanceDoes DEF TypeOK
<1>4. revived' \in BOOLEAN
  BY DEF TypeOK, ReleasePerformance, histories
<1> QED BY <1>1, <1>2, <1>3, <1>4, ReleasePerformanceDoes DEF TypeOK

\* ReleasePerformance keeps the invariant.
LEMMA ReleasePerformanceKeeps ==
  ASSUME RecInv, ReleasePerformance
  PROVE  RecInv'
<1>1. TypeOK'
  BY ReleasePerformanceTyped DEF RecInv, Fits, Controlled
<1>2. Controlled'
  BY ReleasePerformanceDoes, Types, ThreadsAre, SMTT(30) DEF RecInv, Fits, Controlled, Counted,
       CommandFits, CallbackFits, TapsFit, TapFits, Generations, Quiet, WorkerFits, Placing,
       Putting, Nobody, Underway, Inside, Held, Mixing, States, Open, Taps
<1>3. Own' = Own
  BY ReleasePerformanceDoes DEF Own, RecInv, Fits
<1>4. Whole'
  BY ReleasePerformanceDoes, Types, ThreadsAre DEF RecInv, Fits, Whole
<1>5. MasterIsOwn'
  BY <1>3, ReleasePerformanceDoes, Types, ThreadsAre DEF RecInv, Fits, MasterIsOwn, Placing,
       Underway
<1>6. (Mixing' => InStep') /\ (Follows' => Delayed')
  BY <1>3, ReleasePerformanceDoes, Types, ThreadsAre, InStepStays, DelayedStays
  DEF RecInv, Fits, Controlled, Aligned, Follows, Mixing, Held, Placing, Underway, Through,
       CommandFits, CallbackFits, TapsFit, TapFits, Nobody, Putting
<1>7. (Follows /\ Mixing /\ ~WillTake => rec.lead = Lead)'
  BY ReleasePerformanceDoes, Types, ThreadsAre DEF RecInv, Fits, Controlled, Aligned, Follows,
       Mixing, Held, Placing, Underway, WillTake, CommandFits
<1>8. TailFollows'
  BY ReleasePerformanceDoes, Types, ThreadsAre, TrailedStays DEF RecInv, Fits, TailFollows,
       Held, Placing, Underway, Rest
<1>9. Complete'
  BY ReleasePerformanceDoes, Types, ThreadsAre DEF RecInv, Fits, Complete
<1>10. Stored'
  BY ReleasePerformanceDoes, ThreadsAre, StoredStays DEF RecInv, Fits
<1> QED BY <1>1, <1>2, <1>4, <1>5, <1>6, <1>7, <1>8, <1>9, <1>10 DEF RecInv, Fits, Aligned

\* What SetGeneration does, field by field.
LEMMA SetGenerationDoes ==
  ASSUME TypeOK, SetGeneration
  PROVE  /\ op.at = "renumbering" /\ op'.at = "reopening" /\ rec'.generation = engine.generation
         /\ UNCHANGED <<op.name, op.next, op.preserve, op.tail, rec.epoch, rec.tap, rec.lead,
                        rec.timeline, rec.producers, rec.queue, worker.at, worker.file, engine,
                        push, render, due, lost>>
         /\ \/ /\ rec.state \in {"Prepared", "Paused"}
               /\ UNCHANGED rec.state
            \/ rec.state \in {"Prepared", "Recording", "Paused"} /\ rec'.state = "Finalizing"
            \/ /\ rec.state \notin {"Prepared", "Recording", "Paused"}
               /\ UNCHANGED rec.state
BY DEF TypeOK, Recs, Writers, Orders, histories, SetGeneration, Open, Go

\* SetGeneration keeps the types.
LEMMA SetGenerationTyped ==
  ASSUME TypeOK, Counted, CallbackFits, SetGeneration
  PROVE  TypeOK'
<1>1. op' \in Orders
  BY ZenonT(20) DEF TypeOK, Orders, SetGeneration, Open, Go, Taps
<1>2. /\ engine.generation \in Nat
      /\ (IF op.preserve /\ rec.state \in {"Prepared", "Paused"} THEN rec.state
         ELSE IF rec.state \in Open THEN "Finalizing" ELSE rec.state) \in States
  BY Types DEF States
<1>3. rec' \in Recs
  BY <1>2, ZenonT(20) DEF TypeOK, Recs, SetGeneration, Open, Go, Taps
<1>4. worker' \in Writers
  BY ZenonT(20) DEF TypeOK, Writers, SetGeneration, Open, Go
<1>5. revived' \in BOOLEAN
  BY DEF TypeOK, SetGeneration, histories
<1> QED BY <1>1, <1>3, <1>4, <1>5, SetGenerationDoes DEF TypeOK

\* Only a take of the master is closed by the change of the device itself.
LEMMA SetGenerationKeeps ==
  ASSUME RecInv, SetGeneration
  PROVE  RecInv'
<1>1. TypeOK'
  BY SetGenerationTyped DEF RecInv, Fits, Controlled
<1>2. Controlled'
  BY SetGenerationDoes, Types, ThreadsAre, SMTT(30) DEF RecInv, Fits, Controlled, Counted,
       CommandFits, CallbackFits, TapsFit, TapFits, Generations, Quiet, WorkerFits, Placing,
       Putting, Nobody, Underway, Inside, Held, Mixing, States, Open, Taps
<1>3. Own' = Own
  BY SetGenerationDoes DEF Own, RecInv, Fits
<1>4. Whole'
  BY SetGenerationDoes, Types, ThreadsAre DEF RecInv, Fits, Controlled, Whole, CommandFits
<1>5. MasterIsOwn'
  BY <1>3, SetGenerationDoes, Types, ThreadsAre DEF RecInv, Fits, MasterIsOwn, Placing, Underway
<1>6. (Mixing' => InStep') /\ (Follows' => Delayed')
  BY <1>3, SetGenerationDoes, Types, ThreadsAre, InStepStays, DelayedStays
  DEF RecInv, Fits, Aligned, Follows, Mixing, Held, Placing, Underway, Through
<1>7. (Follows /\ Mixing /\ ~WillTake => rec.lead = Lead)'
  BY SetGenerationDoes, Types, ThreadsAre DEF RecInv, Fits, Aligned, Follows, Mixing, Held,
       Placing, Underway, WillTake
<1>8. TailFollows'
  BY SetGenerationDoes, Types, ThreadsAre, TrailedStays DEF RecInv, Fits, TailFollows, Held,
       Placing, Underway, Rest
<1>9. Complete'
  BY SetGenerationDoes, Types, ThreadsAre DEF RecInv, Fits, Complete
<1>10. Stored'
  BY SetGenerationDoes, ThreadsAre, StoredStays DEF RecInv, Fits
<1> QED BY <1>1, <1>2, <1>4, <1>5, <1>6, <1>7, <1>8, <1>9, <1>10 DEF RecInv, Fits, Aligned

\* What ReopenDevice does, field by field.
LEMMA ReopenDeviceDoes ==
  ASSUME TypeOK, ReopenDevice
  PROVE  /\ op.at = "reopening" /\ render.at = "idle" /\ op'.at = "idle" /\ op'.name = "none"
         /\ op'.next = "Finished" /\ ~op'.preserve /\ op'.tail = <<>> /\ engine'.aligner = Zeros
         /\ engine'.device = engine.generation
         /\ UNCHANGED <<engine.suspended, engine.readers, engine.blocks, engine.generation, rec,
                        push, render, worker, due, lost>>
BY DEF TypeOK, Engines, Orders, histories, ReopenDevice, Ends, NoCommand

\* ReopenDevice keeps the types.
LEMMA ReopenDeviceTyped ==
  ASSUME TypeOK, Counted, CallbackFits, ReopenDevice
  PROVE  TypeOK'
<1>1. op' \in Orders
  BY Blank, ZenonT(20) DEF TypeOK, Orders, ReopenDevice, Ends, Taps
<1>2. Zeros \in Seq(Frames)
  BY ZerosAre
<1>3. engine' \in Engines
  BY <1>2, ZenonT(20) DEF TypeOK, Engines, ReopenDevice, Ends, NoCommand
<1>4. Len(engine'.aligner) = Lead
  BY ZerosAre, MixedIs, ReopenDeviceDoes
<1>5. revived' \in BOOLEAN
  BY DEF TypeOK, ReopenDevice, histories
<1> QED BY <1>1, <1>3, <1>4, <1>5, ReopenDeviceDoes DEF TypeOK

\* No callback runs while the aligner is emptied.
LEMMA ReopenDeviceKeeps ==
  ASSUME RecInv, ReopenDevice
  PROVE  RecInv'
<1>1. TypeOK'
  BY ReopenDeviceTyped DEF RecInv, Fits, Controlled
<1>2. Controlled'
  BY ReopenDeviceDoes, Types, ThreadsAre, SMTT(30) DEF RecInv, Fits, Controlled, Counted,
       CommandFits, CallbackFits, TapsFit, TapFits, Generations, Quiet, WorkerFits, Placing,
       Putting, Nobody, Underway, Inside, Held, Mixing, States, Open, Taps
<1>3. Own' = Own
  BY ReopenDeviceDoes DEF Own, RecInv, Fits
<1>4. Whole'
  BY ReopenDeviceDoes, Types, ThreadsAre DEF RecInv, Fits, Whole
<1>5. MasterIsOwn'
  BY <1>3, ReopenDeviceDoes, Types, ThreadsAre DEF RecInv, Fits, MasterIsOwn, Placing, Underway
<1>6. (Mixing' => InStep') /\ (Follows' => Delayed')
  BY <1>3, ReopenDeviceDoes, Types, ThreadsAre, InStepStays, DelayedStays
  DEF RecInv, Fits, Controlled, Aligned, Follows, Mixing, Held, Placing, Underway, Through,
       CommandFits, CallbackFits
<1>7. (Follows /\ Mixing /\ ~WillTake => rec.lead = Lead)'
  BY ReopenDeviceDoes, Types, ThreadsAre DEF RecInv, Fits, Aligned, Follows, Mixing, Held,
       Placing, Underway, WillTake
<1>8. TailFollows'
  BY ReopenDeviceDoes, Types, ThreadsAre, TrailedStays DEF RecInv, Fits, TailFollows, Held,
       Placing, Underway, Rest
<1>9. Complete'
  BY ReopenDeviceDoes, Types, ThreadsAre DEF RecInv, Fits, Complete
<1>10. Stored'
  BY ReopenDeviceDoes, ThreadsAre, StoredStays DEF RecInv, Fits
<1> QED BY <1>1, <1>2, <1>4, <1>5, <1>6, <1>7, <1>8, <1>9, <1>10 DEF RecInv, Fits, Aligned

---------------------------------------------------------------------------
(* The theorems.                                                           *)

\* The app has just been started.
LEMMA RecordingInit == Init => RecInv
<1> SUFFICES ASSUME Init PROVE RecInv
  OBVIOUS
<1>1. TypeOK
  <2>1. Lead \in Nat /\ MaxBlocks \in Nat /\ MaxCommands \in Nat /\ MaxChanges \in Nat
    BY RecordingAssumption
  <2>2. /\ <<>> \in Seq([offset : Nat, frames : Seq(Frames)]) /\ <<>> \in Seq(Frames)
    OBVIOUS
  <2>3. 0 \in 0..Lead /\ 0 \in 0..2 /\ 0 \in 0..1 /\ 0 \in 0..MaxBlocks /\ 0 \in 0..MaxChanges
        /\ 0 \in 0..MaxCommands /\ 0 \in Nat
    BY <2>1
  <2>4. rec \in Recs BY <2>2, <2>3, ZenonT(20) DEF Init, Recs, States, Taps
  <2>5. engine \in Engines BY <2>3, ZerosAre, ZenonT(20) DEF Init, Engines
  <2>6. worker \in Writers BY <2>2, ZenonT(20) DEF Init, Writers
  <2>7. push \in [Threads -> Calls] BY Blank, Zenon DEF Init
  <2> QED BY <2>2, <2>4, <2>5, <2>6, <2>7, Blank, ZerosAre DEF Init, TypeOK
<1>2. /\ rec.state = "Idle" /\ rec.tap = "Master" /\ rec.timeline = 0 /\ rec.producers = 0
      /\ rec.queue = <<>> /\ rec.epoch = 0 /\ rec.generation = 0 /\ engine.generation = 0
      /\ engine.device = 0 /\ engine.readers = 0 /\ ~engine.suspended
      /\ worker.at = "none" /\ worker.file = <<>> /\ due = <<>> /\ lost = {}
      /\ op.at = "idle" /\ op.name = "none" /\ op.tail = <<>>
      /\ render.at = "idle" /\ ~render.active
  BY DEF Init, NoCommand, NoCallback
<1>3. \A t \in Threads : push[t].at = "done" /\ push[t].epoch = 0
  BY DEF Init, NoPush
<1>4. Controlled
  BY <1>2, <1>3, ThreadsAre
  DEF Controlled, Counted, CommandFits, CallbackFits, TapsFit, TapFits, Generations, Quiet,
      WorkerFits, Placing, Putting, Nobody, Underway, Inside, Held, Mixing
<1>5. Whole /\ MasterIsOwn /\ Complete
  BY <1>2, <1>3, ThreadsAre DEF Whole, MasterIsOwn, Complete, Placing, Underway
<1>6. Aligned /\ TailFollows
  BY <1>2, <1>3, ThreadsAre
  DEF Aligned, TailFollows, Follows, Mixing, Held, Placing, Underway
<1>7. Stored
  BY <1>2, <1>3 DEF Stored, FileHolds, QueueHolds, PutHolds, NoGap
<1> QED BY <1>1, <1>4, <1>5, <1>6, <1>7 DEF RecInv, Fits

\* A step that changes nothing.
LEMMA RecordingStutters ==
  ASSUME RecInv, UNCHANGED vars
  PROVE  RecInv'
<1>1. UNCHANGED <<rec, engine, push, render, worker, op, due, lost, revived>>
  BY DEF vars
<1>2. TypeOK'
  BY <1>1 DEF RecInv, Fits, TypeOK
<1>3. Controlled'
  BY <1>1
  DEF RecInv, Fits, Controlled, Counted, CommandFits, CallbackFits, TapsFit, TapFits,
       Generations,
      Quiet, WorkerFits, Placing, Putting, Nobody, Underway, Inside, Held, Mixing
<1>4. Own' = Own /\ Through' = Through /\ Rest' = Rest
  BY <1>1 DEF Own, Through, Rest, Mixing, Underway
<1>5. Whole' /\ MasterIsOwn' /\ Complete'
  BY <1>1, <1>4 DEF RecInv, Whole, MasterIsOwn, Complete, Placing, Underway
<1>6. Aligned'
  BY <1>1, <1>4, InStepStays, DelayedStays
  DEF RecInv, Aligned, Follows, Mixing, Held, Placing, Underway, WillTake
<1>7. TailFollows'
  BY <1>1, <1>4, TrailedStays DEF RecInv, TailFollows, Held, Placing
<1>8. Stored'
  BY <1>1, StoredStays DEF RecInv
<1> QED BY <1>2, <1>3, <1>5, <1>6, <1>7, <1>8 DEF RecInv, Fits

\* Every step keeps the invariant.
LEMMA RecordingStep == RecInv /\ [Next]_vars => RecInv'
<1> SUFFICES ASSUME RecInv, [Next]_vars PROVE RecInv'
  OBVIOUS
<1>1. CASE Pushes
  BY <1>1, ReadEpochKeeps, CheckTakeKeeps, EnterProducerKeeps, RecheckKeeps, PlaceKeeps,
     PublishKeeps, ReleaseProducerKeeps, WakeWorkerKeeps DEF Pushes, Push
<1>2. CASE BlockBegins \/ Rendering
  BY <1>2, BlockBeginsKeeps, LookSuspendedKeeps, MixPerformanceKeeps, MixMasterKeeps,
       BlockEndsKeeps
  DEF Rendering
<1>3. CASE Writing \/ WriterFails
  BY <1>3, WorkerTurnsKeeps, WriteBlockKeeps, QueueIsEmptyKeeps, CheckFinalizingKeeps,
     CheckQueueAgainKeeps, FinalizeKeeps, WorkerWakesKeeps, WriterFailsKeeps DEF Writing
<1>4. CASE Commands
  BY <1>4, PrepareKeeps, StartKeeps, CheckPausedKeeps, FinishRecordingKeeps, InvalidateKeeps
  DEF Commands
<1>5. CASE Control
  BY <1>5, DrainProducersKeeps, OpenFileKeeps, OpenFailsKeeps, ResumeKeeps, TakeTailKeeps,
     AppendTailKeeps, TailTimesOutKeeps, CheckRecordingKeeps, PauseKeeps, StopKeeps,
     AwaitFinalizedKeeps, AbandonKeeps, ReleasePerformanceKeeps, SetGenerationKeeps,
     ReopenDeviceKeeps DEF Control
<1>6. CASE UNCHANGED vars BY <1>6, RecordingStutters
<1> QED BY <1>1, <1>2, <1>3, <1>4, <1>5, <1>6 DEF Next

\* The inductive invariant: who can be where, and where each frame of the take is.
THEOREM RecordingInvariant == Spec => []RecInv
<1>1. Init => RecInv BY RecordingInit
<1>2. RecInv /\ [Next]_vars => RecInv' BY RecordingStep
<1> QED BY <1>1, <1>2, PTL DEF Spec

\* The state of the engine, of its threads and of the running command stays within its types.
THEOREM RecordingTypeCorrect == Spec => []TypeOK
<1>1. RecInv => TypeOK BY DEF RecInv, Fits
<1> QED BY <1>1, RecordingInvariant, PTL

\* "No silent loss of PCM": the file is the beginning of the take at every moment, with silence
\* only where the queue was full, and the whole take once it is finished.
THEOREM FileIsAlwaysTheTake == Spec => []FileIsTheTake
<1>1. RecInv => FileIsTheTake
  <2> SUFFICES ASSUME RecInv PROVE FileIsTheTake
    OBVIOUS
  <2>1. FileHolds /\ Complete BY DEF RecInv, Stored
  <2>2. Len(worker.file) \in Nat /\ rec.timeline \in Nat /\ Len(due) \in Nat
    BY Types DEF RecInv, Fits, TypeOK, Writers
  <2> QED BY <2>1, <2>2 DEF FileHolds, Complete, FileIsTheTake
<1> QED BY <1>1, RecordingInvariant, PTL

\* Once a pause has returned no producer is between the checks and the queue, so that nothing
\* more goes into the take until it is resumed.
THEOREM PauseIsKept == Spec => PausedTakesNothing
<1>1. RecInv /\ [Next]_vars => [rec.state = "Paused" /\ op = NoCommand => due' = due]_vars
  <2> SUFFICES ASSUME RecInv, [Next]_vars, rec.state = "Paused", op = NoCommand
               PROVE  due' = due
    OBVIOUS
  <2>1. op.at = "idle" /\ ~Placing("render") /\ ~Placing("control")
    BY DEF NoCommand, RecInv, Fits, Controlled, Quiet, Nobody, Putting, Placing
  <2>2. CASE Pushes
    <3>1. \A t \in Threads : ~Place(t) BY <2>1, ThreadsAre DEF Place, Placing
    <3> QED BY <2>2, <3>1
        DEF Pushes, Push, ReadEpoch, CheckTake, EnterProducer, Recheck, Publish,
             ReleaseProducer,
            WakeWorker, histories
  <2>3. CASE BlockBegins \/ Rendering
    BY <2>3 DEF Rendering, BlockBegins, LookSuspended, MixPerformance, MixMaster, BlockEnds,
         histories
  <2>4. CASE Writing \/ WriterFails
    BY <2>4 DEF Writing, WriterFails, WorkerTurns, WriteBlock, QueueIsEmpty, CheckFinalizing,
                CheckQueueAgain, Finalize, WorkerWakes, histories
  <2>5. CASE Commands
    BY <2>5 DEF Commands, Prepare, Start, CheckPaused, FinishRecording, Invalidate, histories
  <2>6. CASE Control
    BY <2>1, <2>6
    DEF Control, DrainProducers, OpenFile, OpenFails, Resume, TakeTail, AppendTail,
         TailTimesOut,
        CheckRecording, TailIsIn, Pause, Stop, AwaitFinalized, Abandon, ReleasePerformance,
        SetGeneration, ReopenDevice, histories
  <2>7. CASE UNCHANGED vars BY <2>7 DEF vars
  <2> QED BY <2>2, <2>3, <2>4, <2>5, <2>6, <2>7 DEF Next
<1> QED BY <1>1, RecordingInvariant, PTL DEF Spec, PausedTakesNothing
=============================================================================
