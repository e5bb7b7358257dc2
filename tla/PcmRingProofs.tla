---------------------------- MODULE PcmRingProofs ----------------------------
(***************************************************************************)
(* Proofs about PcmRing, for any capacity, any blocks and any number of    *)
(* threads that clear it: its counters stay within the capacity, whoever   *)
(* empties it is alone, and it implements FrameQueue.                      *)
(***************************************************************************)
EXTENDS PcmRing, SequenceTheorems, TLAPS

Within == {"checking", "copying", "storing"}
Clearing == {"draining", "blocked", "emptying", "ending"}
Counted(c) == IF caller[c].place \in {"idle", "notifying"} THEN 0 ELSE 1

\* users_ counts the calls that have entered; one thread clears, and alone.
LeaseInv ==
    /\ users = Counted("producer") + Counted("consumer")
    /\ \A k \in Controls : control[k] \in Clearing => clearing
    /\ \A k, l \in Controls : control[k] \in Clearing /\ control[l] \in Clearing => k = l
    /\ \A k \in Controls : control[k] \in {"emptying", "ending"} =>
         \A c \in Callers : caller[c].place \notin Within

\* The counters never overtake each other.
IndexInv ==
    /\ writeFrame = sent
    /\ readFrame <= writeFrame /\ writeFrame <= readFrame + Capacity

\* A push copies into slots nobody reads, the frames it was given.
PushInv ==
    LET p == caller["producer"] IN
    /\ p.place = "entering" \/ p.place \in Within =>
         p.frames >= 1 /\ sent + p.frames <= MaxFrames
    /\ p.place \in {"entering", "checking"} => p.copied = <<>>
    /\ p.place \in {"copying", "storing"} =>
         /\ p.at = writeFrame /\ writeFrame + p.frames <= readFrame + Capacity
         /\ IF p.place = "copying" THEN Len(p.copied) < p.frames ELSE Len(p.copied) = p.frames
         /\ \A i \in 1..Len(p.copied) : data[Slot(writeFrame + i - 1)] = sent + i

\* A reading call copies the oldest frames of the queue.
ReadInv ==
    LET c == caller["consumer"] IN
    /\ c.place \in {"entering", "checking"} => c.copied = <<>>
    /\ c.place = "entering" \/ c.place \in Within => c.op \in {"pop", "peek", "discard"}
    /\ c.place \in {"copying", "storing"} =>
         /\ c.at = readFrame /\ readFrame + c.frames <= writeFrame
         /\ c.place = "copying" => Len(c.copied) < c.frames /\ c.op # "discard"
         /\ c.place = "storing" =>
              IF c.op = "discard" THEN c.copied = <<>> ELSE Len(c.copied) = c.frames
         /\ \A i \in 1..Len(c.copied) : c.copied[i] = data[Slot(readFrame + i - 1)]

RingInv == TypeOK /\ LeaseInv /\ IndexInv /\ PushInv /\ ReadInv

-----------------------------------------------------------------------------
\* Frames less than a capacity apart lie in different slots.
LEMMA SlotsDiffer ==
  ASSUME NEW m \in Nat, NEW n \in Nat, m < n, n < m + Capacity
  PROVE  Slot(m) # Slot(n)
<1> USE RingAssumption
<1>1. SUFFICES ASSUME m % Capacity = n % Capacity PROVE FALSE
  BY DEF Slot
<1> DEFINE k == (n \div Capacity) - (m \div Capacity)
<1>2. m = Capacity * (m \div Capacity) + (m % Capacity)
  OBVIOUS
<1>3. n = Capacity * (n \div Capacity) + (n % Capacity)
  OBVIOUS
<1>4. (m \div Capacity) \in Int /\ (n \div Capacity) \in Int
  OBVIOUS
<1>5. k \in Int /\ n - m = Capacity * k
  BY <1>1, <1>2, <1>3, <1>4
<1> HIDE DEF k
<1>6. Capacity * k > 0 /\ Capacity * k < Capacity
  BY <1>5
<1>7. CASE k <= 0
  BY <1>5, <1>6, <1>7
<1>8. CASE k >= 1
  BY <1>5, <1>6, <1>8
<1> QED BY <1>5, <1>7, <1>8

\* Every counter has its slot.
LEMMA SlotType == \A n \in Nat : Slot(n) \in 0..(Capacity - 1)
  BY RingAssumption DEF Slot

Operations == {"none", "push", "pop", "peek", "discard"}

\* What a step makes of the call of c; the other call is not touched.
Becomes(c, place, op, frames, at, copied) ==
    /\ caller' \in [Callers -> Calls]
    /\ caller'[c].place = place /\ caller'[c].op = op /\ caller'[c].frames = frames
    /\ caller'[c].at = at /\ caller'[c].copied = copied
    /\ \A d \in Callers \ {c} : caller'[d] = caller[d]

\* Setting one field of a call leaves a call.
LEMMA CallUpdates ==
  ASSUME NEW p \in Calls
  PROVE  /\ \A x \in Places : [p EXCEPT !.place = x] \in Calls
         /\ \A x \in 0..MaxBlock : [p EXCEPT !.frames = x] \in Calls
         /\ \A x \in 0..MaxFrames : [p EXCEPT !.at = x] \in Calls
         /\ \A x \in Seq(0..MaxFrames) : [p EXCEPT !.copied = x] \in Calls
  BY DEF Calls

\* What each assignment to caller makes of the call, field by field.
LEMMA GoesBecomes ==
  ASSUME caller \in [Callers -> Calls], NEW c \in Callers, NEW x \in Places, Goes(c, x)
  PROVE  Becomes(c, x, caller[c].op, caller[c].frames, caller[c].at, caller[c].copied)
  BY DEF Calls, Goes, Becomes

LEMMA EnterBecomes ==
  ASSUME caller \in [Callers -> Calls], NEW c \in Callers, NEW n \in 1..MaxBlock, NEW op \in Ops[c],
         Enter(c, op, n)
  PROVE  Becomes(c, "entering", op, n, 0, <<>>)
<1>1. op \in Operations
  BY DEF Ops, Callers, Operations
<1>2. [place |-> "entering", op |-> op, frames |-> n, at |-> 0, copied |-> <<>>] \in Calls
  BY <1>1, RingAssumption DEF Calls, Operations, Places
<1> QED BY <1>2 DEF Enter, Becomes

LEMMA IdleBecomes ==
  ASSUME caller \in [Callers -> Calls], NEW c \in Callers, caller' = [caller EXCEPT ![c] = Idle]
  PROVE  Becomes(c, "idle", "none", 0, 0, <<>>)
<1>1. Idle \in Calls
  BY RingAssumption DEF Calls, Idle, Places
<1> QED BY <1>1 DEF Becomes, Idle

LEMMA CheckBecomes ==
  ASSUME caller \in [Callers -> Calls], writeFrame \in 0..MaxFrames,
         caller' = [caller EXCEPT !["producer"].place = "copying", !["producer"].at = writeFrame]
  PROVE  LET p == caller["producer"]
         IN  Becomes("producer", "copying", p.op, p.frames, writeFrame, p.copied)
  BY DEF Becomes, Calls, Callers, Places

LEMMA CopyBecomes ==
  ASSUME caller \in [Callers -> Calls], NEW c \in Callers, NEW s \in Seq(0..MaxFrames),
         NEW x \in Places,
         caller' = [caller EXCEPT ![c].copied = s, ![c].place = x]
  PROVE  Becomes(c, x, caller[c].op, caller[c].frames, caller[c].at, s)
<1> DEFINE q == [caller[c] EXCEPT !.copied = s]
<1>1. q \in Calls
  BY CallUpdates
<1>2. q.copied = s /\ q.op = caller[c].op /\ q.frames = caller[c].frames /\ q.at = caller[c].at
  BY DEF Calls
<1>3. caller' = [caller EXCEPT ![c] = [q EXCEPT !.place = x]]
  BY DEF Calls
<1> HIDE DEF q
<1>4. [q EXCEPT !.place = x] \in Calls
  BY <1>1, CallUpdates
<1>5. /\ [q EXCEPT !.place = x].place = x
      /\ [q EXCEPT !.place = x].op = q.op
      /\ [q EXCEPT !.place = x].frames = q.frames
      /\ [q EXCEPT !.place = x].at = q.at
      /\ [q EXCEPT !.place = x].copied = q.copied
  BY <1>1 DEF Calls
<1> DEFINE r == [q EXCEPT !.place = x]
<1> HIDE DEF r
<1> QED BY <1>2, <1>3, <1>4, <1>5 DEF Becomes, r

LEMMA LookBecomes ==
  ASSUME caller \in [Callers -> Calls], NEW c \in Callers, NEW x \in Places, NEW a \in 0..MaxFrames,
         NEW n \in 0..MaxBlock,
         caller' = [caller EXCEPT ![c].place = x, ![c].at = a, ![c].frames = n]
  PROVE  Becomes(c, x, caller[c].op, n, a, caller[c].copied)
<1> DEFINE q == [caller[c] EXCEPT !.place = x]
           r == [q EXCEPT !.at = a]
<1>1. q \in Calls
  BY CallUpdates
<1>2. q.place = x /\ q.op = caller[c].op /\ q.copied = caller[c].copied
  BY DEF Calls
<1>3. caller' = [caller EXCEPT ![c] = [r EXCEPT !.frames = n]]
  BY DEF Calls
<1> HIDE DEF q
<1>4. r \in Calls
  BY <1>1, CallUpdates
<1>5. r.place = q.place /\ r.op = q.op /\ r.copied = q.copied /\ r.at = a
  BY <1>1 DEF Calls
<1> HIDE DEF r
<1> DEFINE t == [r EXCEPT !.frames = n]
<1>6. t \in Calls
  BY <1>4, CallUpdates
<1>7. t.place = r.place /\ t.op = r.op /\ t.copied = r.copied /\ t.at = r.at /\ t.frames = n
  BY <1>4 DEF Calls
<1>8. caller' = [caller EXCEPT ![c] = t]
  BY <1>3
<1> HIDE DEF t
<1>9. /\ caller' \in [Callers -> Calls] /\ caller'[c] = t
      /\ \A d \in Callers \ {c} : caller'[d] = caller[d]
  BY <1>6, <1>8
<1> QED BY <1>2, <1>5, <1>7, <1>9 DEF Becomes

\* The types of the fields of a call, apart.
LEMMA CallTypes ==
  ASSUME TypeOK, NEW c \in Callers
  PROVE  /\ caller[c].place \in Places /\ caller[c].op \in Operations
         /\ caller[c].frames \in 0..MaxBlock /\ caller[c].frames \in Nat
         /\ caller[c].at \in 0..MaxFrames /\ caller[c].at \in Nat
         /\ caller[c].copied \in Seq(0..MaxFrames) /\ Len(caller[c].copied) \in Nat
<1>1. caller[c] \in Calls
  BY DEF TypeOK
<1>2. /\ caller[c].place \in Places /\ caller[c].op \in Operations
      /\ caller[c].frames \in 0..MaxBlock /\ caller[c].at \in 0..MaxFrames
      /\ caller[c].copied \in Seq(0..MaxFrames)
  BY <1>1 DEF Calls, Operations
<1> QED BY <1>2, RingAssumption

\* The counters are numbers.
LEMMA Numbers ==
  ASSUME TypeOK
  PROVE  /\ writeFrame \in Nat /\ readFrame \in Nat /\ sent \in Nat /\ users \in Nat
         /\ Capacity \in Nat \ {0} /\ MaxBlock \in Nat \ {0} /\ MaxFrames \in Nat /\ MaxCalls \in Nat
<1>1. /\ writeFrame \in 0..MaxFrames /\ readFrame \in 0..MaxFrames
      /\ sent \in 0..MaxFrames /\ users \in 0..2
  BY DEF TypeOK
<1> QED BY <1>1, RingAssumption

\* What Available is while the counters are in order.
LEMMA AvailableValue ==
  ASSUME TypeOK, IndexInv
  PROVE  Available = writeFrame - readFrame /\ Available \in Nat
  BY Numbers DEF IndexInv, Available, Least

\* What each action makes of the call it moves.
LEMMA EnteredBecomes ==
  ASSUME TypeOK, NEW c \in Callers, Entered(c)
  PROVE  Becomes(c, IF clearing THEN "leaving" ELSE "checking",
                 caller[c].op, caller[c].frames, caller[c].at, caller[c].copied)
  BY GoesBecomes DEF Entered, TypeOK, Places

LEMMA LeaveBecomes ==
  ASSUME TypeOK, NEW c \in Callers, Leave(c)
  PROVE  IF users = 1
         THEN Becomes(c, "notifying", caller[c].op, caller[c].frames, caller[c].at, caller[c].copied)
         ELSE Becomes(c, "idle", "none", 0, 0, <<>>)
  BY GoesBecomes, IdleBecomes DEF Leave, TypeOK, Places

LEMMA ChecksBecomes ==
  ASSUME TypeOK, Check
  PROVE  LET p == caller["producer"] IN
         IF p.frames > Capacity - Available
         THEN Becomes("producer", "leaving", p.op, p.frames, p.at, p.copied)
         ELSE Becomes("producer", "copying", p.op, p.frames, writeFrame, p.copied)
  BY GoesBecomes, CheckBecomes DEF Check, TypeOK, Places, Callers

LEMMA CopyInBecomes ==
  ASSUME TypeOK, PushInv, CopyIn
  PROVE  LET p == caller["producer"] IN
         Becomes("producer", AfterCopying(p), p.op, p.frames, p.at,
                 Append(p.copied, sent + Len(p.copied) + 1))
<1> DEFINE p == caller["producer"]
<1>0. "producer" \in Callers
  BY DEF Callers
<1>1. sent + Len(p.copied) + 1 \in 0..MaxFrames
  <2>1. p.place = "copying" /\ p.frames \in Nat /\ Len(p.copied) \in Nat
    BY <1>0, CallTypes DEF CopyIn
  <2>2. sent + p.frames <= MaxFrames /\ Len(p.copied) < p.frames
    BY <2>1 DEF PushInv, Within
  <2>3. sent \in Nat /\ MaxFrames \in Nat
    BY Numbers
  <2>4. ASSUME NEW n \in Nat, NEW f \in Nat, sent + f <= MaxFrames, n < f
        PROVE  sent + n + 1 \in 0..MaxFrames
    BY <2>3, <2>4
  <2> QED BY <2>1, <2>2, <2>4
<1>2. Append(p.copied, sent + Len(p.copied) + 1) \in Seq(0..MaxFrames)
  BY <1>0, <1>1, CallTypes
<1>3. AfterCopying(p) \in Places
  BY DEF AfterCopying, Places
<1>4. caller' = [caller EXCEPT !["producer"].copied = Append(p.copied, sent + Len(p.copied) + 1),
                               !["producer"].place = AfterCopying(p)]
  BY <1>0 DEF CopyIn, TypeOK
<1> QED BY <1>0, <1>2, <1>3, <1>4, CopyBecomes DEF TypeOK

LEMMA CopyOutBecomes ==
  ASSUME TypeOK, CopyOut
  PROVE  LET c == caller["consumer"] IN
         Becomes("consumer", AfterCopying(c), c.op, c.frames, c.at,
                 Append(c.copied, data[Slot(c.at + Len(c.copied))]))
<1> DEFINE c == caller["consumer"]
<1>0. "consumer" \in Callers
  BY DEF Callers
<1>1. data[Slot(c.at + Len(c.copied))] \in 0..MaxFrames
  <2>1. c.at + Len(c.copied) \in Nat
    BY <1>0, CallTypes
  <2> QED BY <2>1, SlotType DEF TypeOK
<1>2. Append(c.copied, data[Slot(c.at + Len(c.copied))]) \in Seq(0..MaxFrames)
  BY <1>0, <1>1, CallTypes
<1>3. AfterCopying(c) \in Places
  BY DEF AfterCopying, Places
<1>4. caller' = [caller EXCEPT !["consumer"].copied = Append(c.copied, data[Slot(c.at + Len(c.copied))]),
                               !["consumer"].place = AfterCopying(c)]
  BY <1>0 DEF CopyOut, TypeOK
<1> QED BY <1>0, <1>2, <1>3, <1>4, CopyBecomes DEF TypeOK

LEMMA LooksBecomes ==
  ASSUME TypeOK, IndexInv, Look
  PROVE  LET c     == caller["consumer"]
             count == Least(c.frames, Available)
         IN  Becomes("consumer", IF c.op = "discard" \/ count = 0 THEN "storing" ELSE "copying",
                     c.op, count, readFrame, c.copied)
<1> DEFINE c == caller["consumer"]
           count == Least(c.frames, Available)
           x == IF c.op = "discard" \/ count = 0 THEN "storing" ELSE "copying"
<1>1. count \in 0..MaxBlock
  <2>1. c.frames \in 0..MaxBlock
    BY CallTypes DEF Callers
  <2> QED BY <2>1, AvailableValue, Numbers DEF Least
<1>2. x \in Places
  BY DEF Places
<1>3. caller' = [caller EXCEPT !["consumer"].place = x, !["consumer"].at = readFrame,
                               !["consumer"].frames = count]
  BY DEF Look
<1> HIDE DEF count, x
<1>4. Becomes("consumer", x, c.op, count, readFrame, c.copied)
  BY <1>1, <1>2, <1>3, LookBecomes DEF TypeOK, Callers
<1> QED BY <1>4 DEF count, x

-----------------------------------------------------------------------------
\* The frames a push copies stay within the bound of the frames pushed in all.
LEMMA Fits ==
  ASSUME TypeOK, NEW n \in Nat, NEW f \in Nat, sent + f <= MaxFrames, n < f
  PROVE  sent + n + 1 \in 0..MaxFrames
<1>1. sent \in Nat /\ MaxFrames \in Nat
  BY Numbers
<1> QED BY <1>1

\* A clearing thread touches no call.
LEMMA ControlsStep ==
  ASSUME NEW k \in Controls, Ask(k) \/ Drain(k) \/ Empty(k) \/ End(k) \/ Tell(k)
  PROVE  UNCHANGED <<caller, calls, data, writeFrame, users, sent, delivered>>
  BY DEF Ask, Drain, Empty, End, Tell, ring, lease

\* Every step leaves calls that the type allows.
LEMMA CallerType ==
  ASSUME TypeOK, IndexInv, PushInv, [Next]_vars
  PROVE  /\ caller' \in [Callers -> Calls]
         /\ \A c \in Callers : caller'[c].op \in Ops[c] \cup {"none"}
<1> DEFINE Typed == /\ caller' \in [Callers -> Calls]
                   /\ \A c \in Callers : caller'[c].op \in Ops[c] \cup {"none"}
<1>0. \A c \in Callers : caller[c].op \in Ops[c] \cup {"none"}
  BY DEF TypeOK
<1>1. ASSUME NEW c \in Callers, NEW n \in 1..MaxBlock, NEW op \in Ops[c], Enter(c, op, n)
      PROVE  Typed
  <2>1. Becomes(c, "entering", op, n, 0, <<>>)
    BY <1>1, EnterBecomes DEF TypeOK
  <2> QED BY <1>0, <2>1 DEF Becomes
<1>2. ASSUME NEW c \in Callers, Entered(c) PROVE Typed
  BY <1>0, <1>2, EnteredBecomes DEF Becomes
<1>3. ASSUME NEW c \in Callers, Leave(c) PROVE Typed
  BY <1>0, <1>3, LeaveBecomes DEF Becomes
<1>4. ASSUME NEW c \in Callers, Notify(c) PROVE Typed
  BY <1>0, <1>4, IdleBecomes DEF Becomes, Notify, TypeOK
<1>5. CASE Check
  BY <1>0, <1>5, ChecksBecomes DEF Becomes, Callers
<1>6. CASE CopyIn
  BY <1>0, <1>6, CopyInBecomes DEF Becomes, Callers
<1>7. CASE StoreWrite
  BY <1>0, <1>7, GoesBecomes DEF Becomes, Callers, StoreWrite, TypeOK, Places
<1>8. CASE Look
  BY <1>0, <1>8, LooksBecomes DEF Becomes, Callers
<1>9. CASE CopyOut
  BY <1>0, <1>9, CopyOutBecomes DEF Becomes, Callers
<1>10. CASE StoreRead
  BY <1>0, <1>10, GoesBecomes DEF Becomes, Callers, StoreRead, TypeOK, Places
<1>11. ASSUME NEW k \in Controls, Ask(k) \/ Drain(k) \/ Empty(k) \/ End(k) \/ Tell(k)
       PROVE  Typed
  BY <1>0, <1>11, ControlsStep DEF TypeOK
<1>12. CASE UNCHANGED vars
  BY <1>0, <1>12 DEF vars, TypeOK
<1> HIDE DEF Typed
<1> QED BY <1>1, <1>2, <1>3, <1>4, <1>5, <1>6, <1>7, <1>8, <1>9, <1>10, <1>11, <1>12
        DEF Next, Inside, Clears, Typed

\* Every step keeps the types.
LEMMA TypeStep ==
  ASSUME RingInv, [Next]_vars
  PROVE  TypeOK'
<1> USE DEF RingInv
<1>1. /\ caller' \in [Callers -> Calls]
      /\ \A c \in Callers : caller'[c].op \in Ops[c] \cup {"none"}
  BY CallerType
<1>2. data' \in [0..(Capacity - 1) -> 0..MaxFrames]
  <2>1. CASE CopyIn
    <3> DEFINE p == caller["producer"]
    <3>1. Len(p.copied) \in Nat /\ p.frames \in Nat /\ p.at \in Nat
      BY CallTypes DEF Callers
    <3>2. sent + p.frames <= MaxFrames /\ Len(p.copied) < p.frames
      BY <2>1, <3>1 DEF PushInv, Within, CopyIn
    <3> HIDE DEF p
    <3>3. p.at + Len(p.copied) \in Nat
      BY <3>1
    <3>5. sent + Len(p.copied) + 1 \in 0..MaxFrames
      BY <3>1, <3>2, Fits
    <3>4. data' = [data EXCEPT ![Slot(p.at + Len(p.copied))] = sent + Len(p.copied) + 1]
      BY <2>1 DEF CopyIn, p
    <3> QED BY <3>3, <3>4, <3>5, SlotType DEF TypeOK
  <2>2. CASE ~CopyIn
    <3>1. data' = data
      BY <2>2 DEF vars, Next, Inside, Clears, Enter, Entered, Leave, Notify, Check, CopyIn,
           StoreWrite,
          Look, CopyOut, StoreRead, Ask, Drain, Empty, End, Tell, ring, lease
    <3> QED BY <3>1 DEF TypeOK
  <2> QED BY <2>1, <2>2
<1>3. writeFrame' \in 0..MaxFrames /\ sent' \in 0..MaxFrames
  <2>1. CASE StoreWrite
    <3> DEFINE p == caller["producer"]
    <3>1. p.frames \in Nat /\ p.at \in Nat
      BY CallTypes DEF Callers
    <3>2. sent + p.frames <= MaxFrames /\ p.at = sent
      BY <2>1 DEF PushInv, Within, IndexInv, StoreWrite
    <3>3. sent + p.frames \in 0..MaxFrames
      BY <3>1, <3>2, Numbers
    <3> QED BY <2>1, <3>2, <3>3 DEF StoreWrite
  <2>2. CASE ~StoreWrite
    <3>1. writeFrame' = writeFrame /\ sent' = sent
      BY <2>2 DEF vars, Next, Inside, Clears, Enter, Entered, Leave, Notify, Check, CopyIn,
           StoreWrite,
          Look, CopyOut, StoreRead, Ask, Drain, Empty, End, Tell, ring, lease
    <3> QED BY <3>1 DEF TypeOK
  <2> QED BY <2>1, <2>2
<1>4. readFrame' \in 0..MaxFrames /\ delivered' \in Seq(0..MaxFrames)
  <2>1. CASE StoreRead
    <3> DEFINE c == caller["consumer"]
    <3>1. c.frames \in Nat /\ c.copied \in Seq(0..MaxFrames)
      BY CallTypes DEF Callers
    <3>2. Least(c.frames, Available) \in 0..(writeFrame - readFrame)
      BY <3>1, AvailableValue, Numbers DEF Least
    <3>3. writeFrame \in 0..MaxFrames
      BY DEF TypeOK
    <3>4. readFrame + Least(c.frames, Available) \in 0..MaxFrames
      BY <3>2, <3>3, Numbers
    <3> QED BY <2>1, <3>1, <3>4 DEF TypeOK, StoreRead
  <2>2. CASE ~StoreRead
    <3>1. (readFrame' = readFrame \/ readFrame' = writeFrame) /\ delivered' = delivered
      BY <2>2 DEF vars, Next, Inside, Clears, Enter, Entered, Leave, Notify, Check, CopyIn,
           StoreWrite,
          Look, CopyOut, StoreRead, Ask, Drain, Empty, End, Tell, ring, lease
    <3> QED BY <3>1 DEF TypeOK
  <2> QED BY <2>1, <2>2
<1>5. users' \in 0..2
  <2>1. ASSUME NEW c \in Callers, NEW n \in 1..MaxBlock, NEW op \in Ops[c], Enter(c, op, n)
        PROVE  users' \in 0..2
    BY <2>1 DEF Enter, LeaseInv, Counted, IsAt, Callers
  <2>2. ASSUME NEW c \in Callers, Leave(c) PROVE users' \in 0..2
    BY <2>2 DEF Leave, LeaseInv, Counted, IsAt, Callers
  <2>3. CASE UNCHANGED users
    BY <2>3 DEF TypeOK
  <2> QED BY <2>1, <2>2, <2>3 DEF vars, Next, Inside, Clears, Entered, Notify, Check, CopyIn,
       StoreWrite, Look, CopyOut, StoreRead, Ask, Drain, Empty, End, Tell, lease
<1>6. clearing' \in BOOLEAN
  BY DEF vars, Next, Inside, Clears, Enter, Entered, Leave, Notify, Check, CopyIn, StoreWrite,
          Look, CopyOut, StoreRead, Ask, Drain, Empty, End, Tell, ring, lease, TypeOK
<1>7. calls' \in [Callers -> 0..MaxCalls]
  <2>1. ASSUME NEW c \in Callers, NEW n \in 1..MaxBlock, NEW op \in Ops[c], Enter(c, op, n)
        PROVE  calls' \in [Callers -> 0..MaxCalls]
    <3>1. calls[c] \in 0..MaxCalls /\ calls[c] < MaxCalls
      BY <2>1 DEF Enter, TypeOK
    <3>2. calls[c] + 1 \in 0..MaxCalls
      BY <3>1, Numbers
    <3> QED BY <2>1, <3>2 DEF Enter, TypeOK
  <2>2. CASE UNCHANGED calls
    BY <2>2 DEF TypeOK
  <2> QED BY <2>1, <2>2 DEF vars, Next, Inside, Clears, Entered, Leave, Notify, Check, CopyIn,
       StoreWrite, Look, CopyOut, StoreRead, Ask, Drain, Empty, End, Tell
<1>8. control' \in [Controls -> {"idle", "asking", "waiting for another", "draining", "blocked",
                                 "emptying", "ending", "telling", "done"}]
  BY DEF vars, Next, Inside, Clears, Enter, Entered, Leave, Notify, Check, CopyIn, StoreWrite,
          Look, CopyOut, StoreRead, Ask, Drain, Empty, End, Tell, ring, lease, TypeOK
<1> QED BY <1>1, <1>2, <1>3, <1>4, <1>5, <1>6, <1>7, <1>8 DEF TypeOK

-----------------------------------------------------------------------------
\* Every step keeps users_ the count of the calls inside, and the thread that empties the ring alone.
LEMMA LeaseStep ==
  ASSUME RingInv, [Next]_vars
  PROVE  LeaseInv'
<1> USE DEF RingInv
<1>0. users \in Nat
  BY Numbers
<1>1. ASSUME NEW c \in Callers, NEW n \in 1..MaxBlock, NEW op \in Ops[c], Enter(c, op, n)
      PROVE  LeaseInv'
  <2>1. Becomes(c, "entering", op, n, 0, <<>>)
    BY <1>1, EnterBecomes DEF TypeOK
  <2> QED BY <1>0, <1>1, <2>1 DEF Becomes, Enter, IsAt, LeaseInv, Counted, Callers, Within
<1>2. ASSUME NEW c \in Callers, Entered(c) PROVE LeaseInv'
  <2>1. caller[c].place = "entering" /\ UNCHANGED <<users, clearing, control>>
    BY <1>2 DEF Entered, IsAt, lease
  <2>2. Becomes(c, IF clearing THEN "leaving" ELSE "checking",
                caller[c].op, caller[c].frames, caller[c].at, caller[c].copied)
    BY <1>2, EnteredBecomes
  <2> QED BY <1>0, <2>1, <2>2 DEF Becomes, LeaseInv, Counted, Callers, Within, Clearing
<1>3. ASSUME NEW c \in Callers, Leave(c) PROVE LeaseInv'
  <2>1. /\ caller[c].place = "leaving" /\ UNCHANGED <<clearing, control>>
        /\ users' = users - 1
    BY <1>3 DEF Leave, IsAt
  <2>2. /\ caller'[c].place = IF users = 1 THEN "notifying" ELSE "idle"
        /\ \A d \in Callers \ {c} : caller'[d] = caller[d]
    BY <1>3, LeaveBecomes DEF Becomes
  <2> QED BY <1>0, <2>1, <2>2 DEF LeaseInv, Counted, Callers, Within
<1>4. ASSUME NEW c \in Callers, Notify(c) PROVE LeaseInv'
  <2>1. /\ caller[c].place = "notifying" /\ UNCHANGED <<users, clearing>>
        /\ control' = [k \in Controls |->
              IF clearing /\ control[k] = "blocked" THEN "draining" ELSE control[k]]
    BY <1>4 DEF Notify, IsAt, lease
  <2>2. Becomes(c, "idle", "none", 0, 0, <<>>)
    BY <1>4, IdleBecomes DEF Notify, TypeOK
  <2>3. users' = Counted("producer")' + Counted("consumer")'
    BY <1>0, <2>1, <2>2 DEF LeaseInv, Counted, Becomes, Callers
  <2>4. \A k \in Controls : /\ control'[k] \in Clearing <=> control[k] \in Clearing
                            /\ control'[k] \in {"emptying", "ending"} => control'[k] = control[k]
    BY <2>1 DEF Clearing
  <2>5. \A d \in Callers : caller'[d].place \in Within => caller[d].place \in Within
    BY <2>2 DEF Becomes, Within
  <2> QED BY <2>1, <2>3, <2>4, <2>5 DEF LeaseInv
<1>5. ASSUME NEW c \in Callers, caller[c].place \in Within, NEW x \in Within \cup {"leaving"},
             caller'[c].place = x, \A d \in Callers \ {c} : caller'[d] = caller[d],
             UNCHANGED <<users, clearing, control>>
      PROVE  LeaseInv'
  BY <1>0, <1>5 DEF LeaseInv, Counted, Callers, Within
<1>6. CASE Check
  <2>1. caller["producer"].place = "checking" /\ UNCHANGED <<users, clearing, control>>
    BY <1>6 DEF Check, IsAt, lease
  <2>2. /\ caller'["producer"].place \in {"leaving", "copying"}
        /\ \A d \in Callers \ {"producer"} : caller'[d] = caller[d]
    BY <1>6, ChecksBecomes DEF Becomes
  <2> QED BY <1>5, <2>1, <2>2 DEF Within, Callers
<1>7. CASE CopyIn
  <2>1. caller["producer"].place = "copying" /\ UNCHANGED <<users, clearing, control>>
    BY <1>7 DEF CopyIn, lease
  <2>2. /\ caller'["producer"].place \in {"copying", "storing"}
        /\ \A d \in Callers \ {"producer"} : caller'[d] = caller[d]
    BY <1>7, CopyInBecomes DEF Becomes, AfterCopying
  <2> QED BY <1>5, <2>1, <2>2 DEF Within, Callers
<1>8. CASE StoreWrite
  <2>1. caller["producer"].place = "storing" /\ UNCHANGED <<users, clearing, control>>
    BY <1>8 DEF StoreWrite, lease
  <2>2. /\ caller'["producer"].place = "leaving"
        /\ \A d \in Callers \ {"producer"} : caller'[d] = caller[d]
    BY <1>8, GoesBecomes DEF Becomes, StoreWrite, TypeOK, Callers, Places
  <2> QED BY <1>5, <2>1, <2>2 DEF Within, Callers
<1>9. CASE Look
  <2>1. caller["consumer"].place = "checking" /\ UNCHANGED <<users, clearing, control>>
    BY <1>9 DEF Look, lease
  <2>2. /\ caller'["consumer"].place \in {"copying", "storing"}
        /\ \A d \in Callers \ {"consumer"} : caller'[d] = caller[d]
    BY <1>9, LooksBecomes DEF Becomes
  <2> QED BY <1>5, <2>1, <2>2 DEF Within, Callers
<1>10. CASE CopyOut
  <2>1. caller["consumer"].place = "copying" /\ UNCHANGED <<users, clearing, control>>
    BY <1>10 DEF CopyOut, lease
  <2>2. /\ caller'["consumer"].place \in {"copying", "storing"}
        /\ \A d \in Callers \ {"consumer"} : caller'[d] = caller[d]
    BY <1>10, CopyOutBecomes DEF Becomes, AfterCopying
  <2> QED BY <1>5, <2>1, <2>2 DEF Within, Callers
<1>11. CASE StoreRead
  <2>1. caller["consumer"].place = "storing" /\ UNCHANGED <<users, clearing, control>>
    BY <1>11 DEF StoreRead, lease
  <2>2. /\ caller'["consumer"].place = "leaving"
        /\ \A d \in Callers \ {"consumer"} : caller'[d] = caller[d]
    BY <1>11, GoesBecomes DEF Becomes, StoreRead, TypeOK, Callers, Places
  <2> QED BY <1>5, <2>1, <2>2 DEF Within, Callers
<1>12. ASSUME NEW k \in Controls, Ask(k) PROVE LeaseInv'
  BY <1>12 DEF Ask, LeaseInv, Counted, Clearing, TypeOK
<1>13. ASSUME NEW k \in Controls, Drain(k) PROVE LeaseInv'
  <2>1. control[k] = "draining" /\ UNCHANGED <<users, clearing, caller>>
    BY <1>13 DEF Drain, lease
  <2>2. control' = [control EXCEPT ![k] = IF users = 0 THEN "emptying" ELSE "blocked"]
    BY <1>13 DEF Drain
  <2>3. users = 0 => \A d \in Callers : caller[d].place \notin Within
    BY DEF LeaseInv, Counted, Callers, Within
  <2> QED BY <2>1, <2>2, <2>3 DEF LeaseInv, Counted, Clearing, TypeOK
<1>14. ASSUME NEW k \in Controls, Empty(k) PROVE LeaseInv'
  BY <1>14 DEF Empty, lease, LeaseInv, Counted, Clearing, TypeOK
<1>15. ASSUME NEW k \in Controls, End(k) PROVE LeaseInv'
  BY <1>15 DEF End, LeaseInv, Counted, Clearing, TypeOK
<1>16. ASSUME NEW k \in Controls, Tell(k) PROVE LeaseInv'
  <2>1. UNCHANGED <<users, clearing, caller>>
    BY <1>16 DEF Tell, lease
  <2>2. \A l \in Controls : /\ control'[l] \in Clearing => control'[l] = control[l]
                            /\ control'[l] \in {"emptying", "ending"} => control'[l] = control[l]
    BY <1>16 DEF Tell, Clearing
  <2> QED BY <2>1, <2>2 DEF LeaseInv, Counted
<1>17. CASE UNCHANGED vars
  BY <1>17 DEF vars, lease, LeaseInv, Counted
<1> QED BY <1>1, <1>2, <1>3, <1>4, <1>6, <1>7, <1>8, <1>9, <1>10, <1>11, <1>12, <1>13, <1>14,
           <1>15, <1>16, <1>17 DEF Next, Inside, Clears

-----------------------------------------------------------------------------
\* Every step keeps the counters a capacity apart at most.
LEMMA IndexStep ==
  ASSUME RingInv, [Next]_vars
  PROVE  IndexInv'
<1> USE DEF RingInv
<1>1. CASE StoreWrite
  <2> DEFINE p == caller["producer"]
  <2>1. p.frames \in Nat
    BY CallTypes DEF Callers
  <2>2. /\ writeFrame' = writeFrame + p.frames /\ sent' = sent + p.frames
        /\ readFrame' = readFrame /\ writeFrame + p.frames <= readFrame + Capacity
    BY <1>1 DEF StoreWrite, PushInv
  <2> HIDE DEF p
  <2> QED BY <2>1, <2>2, Numbers DEF IndexInv
<1>2. CASE StoreRead
  <2> DEFINE c == caller["consumer"]
  <2>1. c.frames \in Nat
    BY CallTypes DEF Callers
  <2>2. UNCHANGED <<writeFrame, sent>>
    BY <1>2 DEF StoreRead
  <2>3. readFrame' = readFrame \/ readFrame' = readFrame + Least(c.frames, Available)
    BY <1>2 DEF StoreRead
  <2>4. Least(c.frames, Available) \in 0..(writeFrame - readFrame)
    BY <2>1, AvailableValue, Numbers DEF Least
  <2> HIDE DEF c
  <2> QED BY <2>2, <2>3, <2>4, Numbers DEF IndexInv
<1>3. ASSUME NEW k \in Controls, Empty(k) PROVE IndexInv'
  BY <1>3, Numbers DEF Empty, IndexInv
<1>4. CASE UNCHANGED <<writeFrame, readFrame, sent>>
  BY <1>4 DEF IndexInv
<1> QED BY <1>1, <1>2, <1>3, <1>4
    DEF vars, Next, Inside, Clears, Enter, Entered, Leave, Notify, Check, CopyIn,
        Look, CopyOut, Ask, Drain, End, Tell, ring

-----------------------------------------------------------------------------
\* A push that copies knows how many slots are left to it.
LEMMA CopyInNumbers ==
  ASSUME RingInv, caller["producer"].place = "copying"
  PROVE  LET p == caller["producer"] IN
         /\ p.at = writeFrame /\ p.frames \in Nat /\ Len(p.copied) \in Nat
         /\ p.copied \in Seq(0..MaxFrames)
         /\ Len(p.copied) < p.frames
         /\ writeFrame + p.frames <= readFrame + Capacity
         /\ writeFrame - readFrame + Len(p.copied) < Capacity
         /\ readFrame <= writeFrame
         /\ sent + p.frames <= MaxFrames
<1> USE DEF RingInv
<1> DEFINE p == caller["producer"]
<1>1. p.frames \in Nat /\ Len(p.copied) \in Nat /\ p.copied \in Seq(0..MaxFrames)
  BY CallTypes DEF Callers
<1>2. /\ p.at = writeFrame /\ Len(p.copied) < p.frames
      /\ writeFrame + p.frames <= readFrame + Capacity
      /\ sent + p.frames <= MaxFrames
  BY DEF PushInv, Within
<1>3. readFrame <= writeFrame
  BY DEF IndexInv
<1> HIDE DEF p
<1>4. writeFrame - readFrame + Len(p.copied) < Capacity
  BY <1>1, <1>2, Numbers
<1> QED BY <1>1, <1>2, <1>3, <1>4 DEF p

\* The slot a push writes holds no frame that is in the ring or already copied.
LEMMA CopyInKeeps ==
  ASSUME RingInv, CopyIn, NEW n \in Nat, readFrame <= n,
         n < writeFrame + Len(caller["producer"].copied)
  PROVE  data'[Slot(n)] = data[Slot(n)]
<1> USE DEF RingInv
<1> DEFINE p == caller["producer"]
<1>1. caller["producer"].place = "copying"
  BY DEF CopyIn
<1>2. data' = [data EXCEPT ![Slot(writeFrame + Len(p.copied))] = sent + Len(p.copied) + 1]
  BY <1>1, CopyInNumbers DEF CopyIn
<1>3. /\ n < writeFrame + Len(p.copied) /\ writeFrame + Len(p.copied) < n + Capacity
      /\ writeFrame + Len(p.copied) \in Nat
  <2>1. Len(p.copied) \in Nat /\ writeFrame - readFrame + Len(p.copied) < Capacity
    BY <1>1, CopyInNumbers
  <2>2. ASSUME NEW m \in Nat, n < writeFrame + m, writeFrame - readFrame + m < Capacity
        PROVE  writeFrame + m < n + Capacity /\ writeFrame + m \in Nat
    BY <2>2, Numbers
  <2> QED BY <2>1, <2>2
<1>4. Slot(n) # Slot(writeFrame + Len(p.copied))
  BY <1>3, SlotsDiffer
<1>5. Slot(n) \in 0..(Capacity - 1)
  BY SlotType
<1> QED BY <1>2, <1>4, <1>5 DEF TypeOK

\* What the slot it writes holds afterwards.
LEMMA CopyInWrites ==
  ASSUME RingInv, CopyIn
  PROVE  LET p == caller["producer"]
         IN  data'[Slot(writeFrame + Len(p.copied))] = sent + Len(p.copied) + 1
<1> USE DEF RingInv
<1> DEFINE p == caller["producer"]
<1>1. caller["producer"].place = "copying"
  BY DEF CopyIn
<1>2. data' = [data EXCEPT ![Slot(writeFrame + Len(p.copied))] = sent + Len(p.copied) + 1]
  BY <1>1, CopyInNumbers DEF CopyIn
<1>3. writeFrame + Len(p.copied) \in Nat
  <2>1. Len(p.copied) \in Nat /\ writeFrame \in Nat
    BY <1>1, CopyInNumbers, Numbers
  <2> HIDE DEF p
  <2> QED BY <2>1
<1>4. Slot(writeFrame + Len(p.copied)) \in 0..(Capacity - 1)
  BY <1>3, SlotType
<1> QED BY <1>2, <1>4 DEF TypeOK

\* Every step keeps what a push has copied.
LEMMA PushStep ==
  ASSUME RingInv, [Next]_vars
  PROVE  PushInv'
<1> USE DEF RingInv
<1> DEFINE p == caller["producer"]
<1>0. p.frames \in Nat /\ Len(p.copied) \in Nat /\ "producer" \in Callers
  BY CallTypes DEF Callers
<1>1. ASSUME NEW c \in Callers, NEW n \in 1..MaxBlock, NEW op \in Ops[c], Enter(c, op, n)
      PROVE  PushInv'
  <2>1. Becomes(c, "entering", op, n, 0, <<>>) /\ UNCHANGED <<data, writeFrame, readFrame, sent>>
    BY <1>1, EnterBecomes DEF TypeOK, Enter, ring
  <2>2. CASE c = "producer"
    <3>1. op = "push" /\ sent + n <= MaxFrames
      BY <1>1, <2>2 DEF Ops, Enter
    <3> QED BY <2>1, <2>2, <3>1 DEF Becomes, PushInv, Within
  <2>3. CASE c # "producer"
    BY <1>0, <2>1, <2>3 DEF Becomes, PushInv
  <2> QED BY <2>2, <2>3
<1>2. ASSUME NEW c \in Callers, NEW x \in {"checking", "leaving", "notifying", "idle"},
             caller'[c].place = x, \A d \in Callers \ {c} : caller'[d] = caller[d],
             x = "checking" => /\ caller[c].place = "entering"
                               /\ caller'[c].frames = caller[c].frames
                               /\ caller'[c].copied = caller[c].copied,
             UNCHANGED <<data, writeFrame, readFrame, sent>>
      PROVE  PushInv'
  <2>1. CASE c = "producer"
    BY <1>2, <2>1 DEF PushInv, Within
  <2>2. CASE c # "producer"
    BY <1>0, <1>2, <2>2 DEF PushInv
  <2> QED BY <2>1, <2>2
<1>3. ASSUME NEW c \in Callers, Entered(c) PROVE PushInv'
  BY <1>2, <1>3, EnteredBecomes DEF Becomes, Entered, IsAt, ring
<1>4. ASSUME NEW c \in Callers, Leave(c) PROVE PushInv'
  BY <1>2, <1>4, LeaveBecomes DEF Becomes, Leave, ring
<1>5. ASSUME NEW c \in Callers, Notify(c) PROVE PushInv'
  BY <1>2, <1>5, IdleBecomes DEF Becomes, Notify, TypeOK, ring
<1>6. CASE Check
  <2>1. p.place = "checking" /\ UNCHANGED <<data, writeFrame, readFrame, sent>>
    BY <1>6 DEF Check, IsAt, ring
  <2>2. p.copied = <<>> /\ p.frames >= 1 /\ sent + p.frames <= MaxFrames
    BY <2>1 DEF PushInv, Within
  <2>3. CASE p.frames > Capacity - Available
    BY <1>0, <1>2, <1>6, <2>1, <2>3, ChecksBecomes DEF Becomes
  <2>4. CASE ~(p.frames > Capacity - Available)
    <3>1. /\ caller'["producer"].place = "copying" /\ caller'["producer"].frames = p.frames
          /\ caller'["producer"].at = writeFrame /\ caller'["producer"].copied = <<>>
      BY <1>6, <2>2, <2>4, ChecksBecomes DEF Becomes
    <3>2. writeFrame + p.frames <= readFrame + Capacity
      BY <1>0, <2>4, AvailableValue, Numbers
    <3>3. Len(<<>>) = 0 /\ 0 < p.frames
      BY <1>0, <2>2
    <3> HIDE DEF p
    <3> QED BY <2>1, <2>2, <3>1, <3>2, <3>3 DEF PushInv, Within
  <2> QED BY <2>3, <2>4
<1>7. CASE CopyIn
  <2> DEFINE frame == sent + Len(p.copied) + 1
             q == caller'["producer"]
  <2>1. /\ q.place = AfterCopying(p) /\ q.frames = p.frames /\ q.at = p.at
        /\ q.copied = Append(p.copied, frame)
    BY <1>7, CopyInBecomes DEF Becomes
  <2>2. p.place = "copying" /\ UNCHANGED <<writeFrame, readFrame, sent>>
    BY <1>7 DEF CopyIn
  <2>3. /\ p.at = writeFrame /\ Len(p.copied) < p.frames /\ p.copied \in Seq(0..MaxFrames)
        /\ writeFrame + p.frames <= readFrame + Capacity /\ readFrame <= writeFrame
        /\ sent + p.frames <= MaxFrames
    BY <2>2, CopyInNumbers
  <2>4. Len(q.copied) = Len(p.copied) + 1
    BY <2>1, <2>3
  <2>5. \A i \in 1..Len(q.copied) : data'[Slot(writeFrame + i - 1)] = sent + i
    <3> SUFFICES ASSUME NEW i \in 1..(Len(p.copied) + 1)
                 PROVE  data'[Slot(writeFrame + i - 1)] = sent + i
      BY <2>4
    <3>1. CASE i \in 1..Len(p.copied)
      <4>1. data[Slot(writeFrame + i - 1)] = sent + i
        BY <2>2, <3>1 DEF PushInv
      <4>2. /\ writeFrame + i - 1 \in Nat /\ readFrame <= writeFrame + i - 1
            /\ writeFrame + i - 1 < writeFrame + Len(p.copied)
        <5>1. ASSUME NEW m \in Nat, i \in 1..m
              PROVE  /\ writeFrame + i - 1 \in Nat /\ readFrame <= writeFrame + i - 1
                     /\ writeFrame + i - 1 < writeFrame + m
          BY <2>3, <5>1, Numbers
        <5> QED BY <1>0, <3>1, <5>1
      <4> QED BY <1>7, <4>1, <4>2, CopyInKeeps
    <3>2. CASE i = Len(p.copied) + 1
      <4>1. writeFrame + i - 1 = writeFrame + Len(p.copied) /\ sent + i = frame
        <5>1. ASSUME NEW m \in Nat, i = m + 1
              PROVE  writeFrame + i - 1 = writeFrame + m /\ sent + i = sent + m + 1
          BY <5>1, Numbers
        <5> QED BY <1>0, <3>2, <5>1
      <4> QED BY <1>7, <4>1, CopyInWrites
    <3> QED BY <1>0, <3>1, <3>2
  <2>6. IF q.place = "copying" THEN Len(q.copied) < q.frames
        ELSE q.place = "storing" /\ Len(q.copied) = q.frames
    BY <1>0, <2>1, <2>3, <2>4 DEF AfterCopying
  <2>7. p.frames >= 1
    BY <2>2 DEF PushInv, Within
  <2> HIDE DEF p, frame
  <2> QED BY <2>1, <2>2, <2>3, <2>5, <2>6, <2>7 DEF PushInv, Within
<1>8. CASE StoreWrite
  <2>1. caller'["producer"].place = "leaving"
    BY <1>8, GoesBecomes DEF Becomes, StoreWrite, TypeOK, Callers, Places
  <2> QED BY <2>1 DEF PushInv, Within
<1>9. CASE Look
  BY <1>9, LooksBecomes DEF Becomes, Look, PushInv, ring, Callers
<1>10. CASE CopyOut
  BY <1>10, CopyOutBecomes DEF Becomes, CopyOut, PushInv, ring, Callers
<1>11. ASSUME caller'["producer"] = p, UNCHANGED <<data, writeFrame, sent>>,
              readFrame' \in Nat, readFrame <= readFrame'
       PROVE  PushInv'
  <2>1. p.place \in {"copying", "storing"} => writeFrame + p.frames <= readFrame' + Capacity
    <3>1. p.place \in {"copying", "storing"} => writeFrame + p.frames <= readFrame + Capacity
      BY DEF PushInv
    <3> HIDE DEF p
    <3> QED BY <1>0, <1>11, <3>1, Numbers
  <2> QED BY <1>11, <2>1 DEF PushInv
<1>12. CASE StoreRead
  <2> DEFINE c == caller["consumer"]
  <2>1. c.frames \in Nat
    BY CallTypes DEF Callers
  <2>2. Least(c.frames, Available) \in Nat
    BY <2>1, AvailableValue DEF Least
  <2>3. readFrame' \in Nat /\ readFrame <= readFrame'
    BY <1>12, <2>2, Numbers DEF StoreRead
  <2>4. caller'["producer"] = p /\ UNCHANGED <<data, writeFrame, sent>>
    BY <1>12, GoesBecomes DEF Becomes, StoreRead, TypeOK, Callers, Places
  <2> QED BY <1>11, <2>3, <2>4
<1>13. ASSUME NEW k \in Controls, Empty(k) PROVE PushInv'
  <2>1. readFrame' = writeFrame /\ UNCHANGED <<data, writeFrame, sent, caller>>
    BY <1>13 DEF Empty
  <2>2. readFrame <= writeFrame
    BY DEF IndexInv
  <2> QED BY <1>11, <2>1, <2>2, Numbers
<1>14. CASE UNCHANGED <<data, writeFrame, readFrame, sent, caller>>
  BY <1>14 DEF PushInv
<1> HIDE DEF p
<1> QED BY <1>1, <1>3, <1>4, <1>5, <1>6, <1>7, <1>8, <1>9, <1>10, <1>12, <1>13, <1>14
    DEF vars, Next, Inside, Clears, Ask, Drain, End, Tell, ring

-----------------------------------------------------------------------------
\* What a reading call knows while it copies or is about to store.
LEMMA ReadNumbers ==
  ASSUME RingInv, caller["consumer"].place \in {"copying", "storing"}
  PROVE  LET c == caller["consumer"] IN
         /\ c.at = readFrame /\ readFrame + c.frames <= writeFrame
         /\ c.frames \in Nat /\ Len(c.copied) \in Nat /\ c.copied \in Seq(0..MaxFrames)
         /\ Least(c.frames, Available) = c.frames
         /\ Len(c.copied) <= c.frames
<1> USE DEF RingInv
<1> DEFINE c == caller["consumer"]
<1>1. c.frames \in Nat /\ Len(c.copied) \in Nat /\ c.copied \in Seq(0..MaxFrames)
  BY CallTypes DEF Callers
<1>2. c.at = readFrame /\ readFrame + c.frames <= writeFrame
  BY DEF ReadInv
<1>3. ASSUME NEW f \in Nat, readFrame + f <= writeFrame PROVE Least(f, Available) = f
  BY <1>3, AvailableValue, Numbers DEF Least
<1>4. Len(c.copied) <= c.frames
  <2>1. CASE c.place = "storing" /\ c.op = "discard"
    <3>1. Len(c.copied) = 0
      BY <2>1 DEF ReadInv
    <3> QED BY <1>1, <3>1
  <2>2. CASE ~(c.place = "storing" /\ c.op = "discard")
    BY <1>1, <2>2 DEF ReadInv
  <2> QED BY <2>1, <2>2
<1> QED BY <1>1, <1>2, <1>3, <1>4

\* Every step keeps what a reading call has copied the oldest frames of the ring.
LEMMA ReadStep ==
  ASSUME RingInv, [Next]_vars
  PROVE  ReadInv'
<1> USE DEF RingInv
<1> DEFINE c == caller["consumer"]
           d == caller'["consumer"]
<1>0. c.frames \in Nat /\ Len(c.copied) \in Nat /\ c.copied \in Seq(0..MaxFrames)
      /\ "consumer" \in Callers
  BY CallTypes DEF Callers
<1>1. ASSUME NEW e \in Callers, NEW n \in 1..MaxBlock, NEW op \in Ops[e], Enter(e, op, n)
      PROVE  ReadInv'
  <2>1. Becomes(e, "entering", op, n, 0, <<>>) /\ UNCHANGED <<data, writeFrame, readFrame>>
    BY <1>1, EnterBecomes DEF TypeOK, Enter, ring
  <2>2. CASE e = "consumer"
    BY <2>1, <2>2 DEF Becomes, ReadInv, Within, Ops
  <2>3. CASE e # "consumer"
    BY <1>0, <2>1, <2>3 DEF Becomes, ReadInv
  <2> QED BY <2>2, <2>3
<1>2. ASSUME NEW e \in Callers, NEW x \in {"checking", "leaving", "notifying", "idle"},
             caller'[e].place = x, \A b \in Callers \ {e} : caller'[b] = caller[b],
             x = "checking" => /\ caller[e].place = "entering"
                               /\ caller'[e].op = caller[e].op
                               /\ caller'[e].copied = caller[e].copied,
             UNCHANGED <<data, writeFrame, readFrame>>
      PROVE  ReadInv'
  <2>1. CASE e = "consumer"
    BY <1>2, <2>1 DEF ReadInv, Within
  <2>2. CASE e # "consumer"
    BY <1>0, <1>2, <2>2 DEF ReadInv
  <2> QED BY <2>1, <2>2
<1>3. ASSUME NEW e \in Callers, Entered(e) PROVE ReadInv'
  BY <1>2, <1>3, EnteredBecomes DEF Becomes, Entered, IsAt, ring
<1>4. ASSUME NEW e \in Callers, Leave(e) PROVE ReadInv'
  BY <1>2, <1>4, LeaveBecomes DEF Becomes, Leave, ring
<1>5. ASSUME NEW e \in Callers, Notify(e) PROVE ReadInv'
  BY <1>2, <1>5, IdleBecomes DEF Becomes, Notify, TypeOK, ring
<1>6. CASE Check
  BY <1>6, ChecksBecomes DEF Becomes, Check, ReadInv, ring, Callers
<1>7. CASE CopyIn
  <2>1. d = c /\ UNCHANGED <<writeFrame, readFrame>>
    BY <1>7, CopyInBecomes DEF Becomes, CopyIn, Callers
  <2>2. ASSUME c.place \in {"copying", "storing"}, NEW i \in 1..Len(c.copied)
        PROVE  c.copied[i] = data'[Slot(readFrame + i - 1)]
    <3>1. c.copied[i] = data[Slot(readFrame + i - 1)]
      BY <2>2 DEF ReadInv
    <3>2. Len(c.copied) <= c.frames /\ readFrame + c.frames <= writeFrame
      BY <2>2, ReadNumbers
    <3>3. ASSUME NEW m \in Nat, NEW f \in Nat, NEW l \in Nat,
                 i \in 1..m, m <= f, readFrame + f <= writeFrame
          PROVE  /\ readFrame + i - 1 \in Nat /\ readFrame <= readFrame + i - 1
                 /\ readFrame + i - 1 < writeFrame + l
      BY <3>3, Numbers
    <3>4. Len(caller["producer"].copied) \in Nat
      BY CallTypes DEF Callers
    <3>5. /\ readFrame + i - 1 \in Nat /\ readFrame <= readFrame + i - 1
          /\ readFrame + i - 1 < writeFrame + Len(caller["producer"].copied)
      BY <1>0, <2>2, <3>2, <3>3, <3>4
    <3> QED BY <1>7, <3>1, <3>5, CopyInKeeps
  <2> HIDE DEF c, d
  <2> QED BY <2>1, <2>2 DEF ReadInv, c, d
<1>8. CASE StoreWrite
  <2>1. d = c /\ UNCHANGED <<data, readFrame>>
    BY <1>8, GoesBecomes DEF Becomes, StoreWrite, TypeOK, Callers, Places
  <2>2. writeFrame <= writeFrame'
    <3>1. caller["producer"].frames \in Nat
      BY CallTypes DEF Callers
    <3>2. writeFrame' = writeFrame + caller["producer"].frames
      BY <1>8 DEF StoreWrite, PushInv
    <3> QED BY <3>1, <3>2, Numbers
  <2>3. writeFrame' \in Nat
    <3>1. writeFrame' \in 0..MaxFrames
      BY TypeStep DEF TypeOK
    <3> QED BY <3>1
  <2>4. c.place \in {"copying", "storing"} => readFrame + c.frames <= writeFrame'
    <3>1. c.place \in {"copying", "storing"} => readFrame + c.frames <= writeFrame
      BY DEF ReadInv
    <3> HIDE DEF c
    <3> QED BY <1>0, <2>2, <2>3, <3>1, Numbers
  <2> HIDE DEF c, d
  <2> QED BY <2>1, <2>4 DEF ReadInv, c, d
<1>9. CASE Look
  <2> DEFINE count == Least(c.frames, Available)
  <2>1. /\ d.place = IF c.op = "discard" \/ count = 0 THEN "storing" ELSE "copying"
        /\ d.op = c.op /\ d.frames = count /\ d.at = readFrame /\ d.copied = c.copied
    BY <1>9, LooksBecomes DEF Becomes
  <2>2. c.place = "checking" /\ UNCHANGED <<data, writeFrame, readFrame>>
    BY <1>9 DEF Look, ring
  <2>3. c.copied = <<>> /\ c.op \in {"pop", "peek", "discard"}
    BY <2>2 DEF ReadInv, Within
  <2>4. count \in Nat /\ readFrame + count <= writeFrame
    <3> HIDE DEF c
    <3> QED BY <1>0, AvailableValue, Numbers DEF Least
  <2>5. Len(<<>>) = 0
    OBVIOUS
  <2> HIDE DEF c, d, count
  <2>6. d.place = "copying" => Len(d.copied) < d.frames /\ d.op # "discard"
    BY <2>1, <2>3, <2>4, <2>5
  <2>7. d.place = "storing" => IF d.op = "discard" THEN d.copied = <<>> ELSE Len(d.copied) = d.frames
    BY <2>1, <2>3, <2>5
  <2> QED BY <2>1, <2>2, <2>3, <2>4, <2>5, <2>6, <2>7 DEF ReadInv, Within, d
<1>10. CASE CopyOut
  <2> DEFINE frame == data[Slot(c.at + Len(c.copied))]
  <2>1. /\ d.place = AfterCopying(c) /\ d.op = c.op /\ d.frames = c.frames /\ d.at = c.at
        /\ d.copied = Append(c.copied, frame)
    BY <1>10, CopyOutBecomes DEF Becomes
  <2>2. c.place = "copying" /\ UNCHANGED <<data, writeFrame, readFrame>>
    BY <1>10 DEF CopyOut, ring
  <2>3. /\ c.at = readFrame /\ readFrame + c.frames <= writeFrame
        /\ Len(c.copied) < c.frames /\ c.op # "discard" /\ c.op \in {"pop", "peek", "discard"}
    BY <2>2 DEF ReadInv, Within
  <2>4. Len(d.copied) = Len(c.copied) + 1
    BY <1>0, <2>1
  <2>5. \A i \in 1..Len(d.copied) : d.copied[i] = data[Slot(readFrame + i - 1)]
    <3> SUFFICES ASSUME NEW i \in 1..(Len(c.copied) + 1)
                 PROVE  Append(c.copied, frame)[i] = data[Slot(readFrame + i - 1)]
      BY <2>1, <2>4
    <3>1. CASE i \in 1..Len(c.copied)
      <4>1. c.copied[i] = data[Slot(readFrame + i - 1)]
        BY <2>2, <3>1 DEF ReadInv
      <4> HIDE DEF c, frame
      <4> QED BY <1>0, <3>1, <4>1
    <3>2. CASE i = Len(c.copied) + 1
      <4>1. ASSUME NEW m \in Nat, i = m + 1 PROVE readFrame + i - 1 = readFrame + m
        BY <4>1, Numbers
      <4>2. readFrame + i - 1 = c.at + Len(c.copied)
        BY <1>0, <2>3, <3>2, <4>1
      <4>3. Append(c.copied, frame)[i] = frame
        <5> HIDE DEF c, frame
        <5> QED BY <1>0, <3>2
      <4> QED BY <4>2, <4>3
    <3> QED BY <1>0, <3>1, <3>2
  <2>6. IF d.place = "copying" THEN Len(d.copied) < d.frames
        ELSE d.place = "storing" /\ Len(d.copied) = d.frames
    <3> HIDE DEF d
    <3> QED BY <1>0, <2>1, <2>3, <2>4 DEF AfterCopying
  <2> HIDE DEF c, frame
  <2>7. d.place \in {"copying", "storing"} /\ d.op \in {"pop", "peek"} /\ d.at = readFrame'
        /\ readFrame' + d.frames <= writeFrame'
    BY <2>1, <2>2, <2>3, <2>6
  <2>8. UNCHANGED <<data, readFrame>>
    BY <2>2
  <2> HIDE DEF d
  <2> QED BY <2>5, <2>6, <2>7, <2>8 DEF ReadInv, Within, d
<1>11. CASE StoreRead
  <2>1. d.place = "leaving"
    BY <1>11, GoesBecomes DEF Becomes, StoreRead, TypeOK, Callers, Places
  <2> QED BY <2>1 DEF ReadInv, Within
<1>12. ASSUME NEW k \in Controls, Empty(k) PROVE ReadInv'
  <2>1. c.place \notin Within
    BY <1>12 DEF Empty, LeaseInv, Callers
  <2>2. caller' = caller
    BY <1>12 DEF Empty
  <2> QED BY <2>1, <2>2 DEF ReadInv, Within
<1>13. CASE UNCHANGED <<data, writeFrame, readFrame, caller>>
  BY <1>13 DEF ReadInv
<1> HIDE DEF c, d
<1> QED BY <1>1, <1>3, <1>4, <1>5, <1>6, <1>7, <1>8, <1>9, <1>10, <1>11, <1>12, <1>13
    DEF vars, Next, Inside, Clears, Ask, Drain, End, Tell, ring

-----------------------------------------------------------------------------
\* The ring starts empty, with nobody inside.
LEMMA RingInit == Init => RingInv
<1> SUFFICES ASSUME Init PROVE RingInv
  OBVIOUS
<1> USE RingAssumption
<1>1. Idle \in Calls
  BY DEF Calls, Idle, Places
<1>2. TypeOK
  BY <1>1 DEF Init, TypeOK, Idle, Callers, Ops
<1>3. LeaseInv
  BY DEF Init, LeaseInv, Counted, Idle, Callers, Clearing
<1>4. IndexInv
  BY DEF Init, IndexInv
<1>5. PushInv /\ ReadInv
  BY DEF Init, PushInv, ReadInv, Idle, Callers, Within
<1> QED BY <1>2, <1>3, <1>4, <1>5 DEF RingInv

\* In every state users_ counts the callers inside, the thread that empties the ring is alone in
\* it, the counters are a capacity apart at most, a push has copied its own frames into free slots and a reading
\* call the oldest ones (PcmRingBuffer.cpp).
THEOREM RingInvariant == Spec => []RingInv
<1>1. RingInv /\ [Next]_vars => RingInv'
  BY TypeStep, LeaseStep, IndexStep, PushStep, ReadStep DEF RingInv
<1> QED BY RingInit, <1>1, PTL DEF Spec

\* No counter, slot or call leaves its type.
THEOREM RingTypeCorrect == Spec => []TypeOK
<1>1. RingInv => TypeOK
  BY DEF RingInv
<1> QED BY RingInvariant, <1>1, PTL

-----------------------------------------------------------------------------
\* The frames a ring of slots d holds between the counters r and w.
Frames(d, r, w) == [i \in 1..(w - r) |-> d[Slot(r + i - 1)]]

Slots == [0..(Capacity - 1) -> 0..MaxFrames]

\* The frames between two counters, one by one.
LEMMA FramesAre ==
  ASSUME NEW d \in Slots, NEW r \in Nat, NEW w \in Nat, r <= w
  PROVE  /\ Frames(d, r, w) \in Seq(0..MaxFrames) /\ Len(Frames(d, r, w)) = w - r
         /\ \A i \in 1..(w - r) : Frames(d, r, w)[i] = d[Slot(r + i - 1)]
<1>1. w - r \in Nat
  OBVIOUS
<1>2. ASSUME NEW i \in 1..(w - r) PROVE d[Slot(r + i - 1)] \in 0..MaxFrames
  <2>1. r + i - 1 \in Nat
    BY <1>2
  <2> QED BY <2>1, SlotType DEF Slots
<1>3. Frames(d, r, w) \in [1..(w - r) -> 0..MaxFrames]
  BY <1>2 DEF Frames
<1> QED BY <1>1, <1>3 DEF Frames

\* The frames before and after n of them.
LEMMA FramesSplit ==
  ASSUME NEW d \in Slots, NEW r \in Nat, NEW w \in Nat, r <= w, NEW n \in 0..(w - r)
  PROVE  /\ SubSeq(Frames(d, r, w), 1, n) = Frames(d, r, r + n)
         /\ SubSeq(Frames(d, r, w), n + 1, Len(Frames(d, r, w))) = Frames(d, r + n, w)
<1> DEFINE whole == Frames(d, r, w)
           left == Frames(d, r, r + n)
           right == Frames(d, r + n, w)
<1>1. /\ whole \in Seq(0..MaxFrames) /\ Len(whole) = w - r
      /\ \A i \in 1..(w - r) : whole[i] = d[Slot(r + i - 1)]
  BY FramesAre
<1>2. /\ left \in Seq(0..MaxFrames) /\ Len(left) = n
      /\ \A i \in 1..n : left[i] = d[Slot(r + i - 1)]
  <2>1. r + n \in Nat /\ r <= r + n /\ (r + n) - r = n
    OBVIOUS
  <2> QED BY <2>1, FramesAre
<1>3. /\ right \in Seq(0..MaxFrames) /\ Len(right) = w - (r + n)
      /\ \A i \in 1..(w - (r + n)) : right[i] = d[Slot((r + n) + i - 1)]
  <2>1. r + n \in Nat /\ r + n <= w
    OBVIOUS
  <2> QED BY <2>1, FramesAre
<1> HIDE DEF whole, left, right
<1>4. SubSeq(whole, 1, n) = left
  <2>1. /\ SubSeq(whole, 1, n) \in Seq(0..MaxFrames) /\ Len(SubSeq(whole, 1, n)) = n
        /\ \A i \in 1..n : SubSeq(whole, 1, n)[i] = whole[i]
    <3>1. 1 \in Int /\ n \in Int /\ n - 1 + 1 = n /\ (IF 1 <= n THEN n - 1 + 1 ELSE 0) = n
      OBVIOUS
    <3>2. ASSUME NEW i \in 1..n PROVE whole[i] \in 0..MaxFrames /\ 1 + i - 1 = i
      <4>1. i \in 1..(w - r) /\ 1 + i - 1 = i
        OBVIOUS
      <4> QED BY <1>1, <4>1, ElementOfSeq
    <3> QED BY <3>1, <3>2, SubSeqProperties
  <2> QED BY <1>1, <1>2, <2>1, SeqEqual
<1>5. SubSeq(whole, n + 1, Len(whole)) = right
  <2> DEFINE rest == SubSeq(whole, n + 1, Len(whole))
  <2> DEFINE len == w - r
  <2>0. len \in Nat /\ n + 1 \in Int /\ len - (n + 1) + 1 = w - (r + n)
        /\ (IF n + 1 <= len THEN len - (n + 1) + 1 ELSE 0) = w - (r + n)
    OBVIOUS
  <2> HIDE DEF len
  <2>4. ASSUME NEW i \in (n + 1)..len PROVE whole[i] \in 0..MaxFrames
    <3>1. i \in 1..len
      BY <2>0
    <3> QED BY <1>1, <3>1, ElementOfSeq DEF len
  <2>5. rest = SubSeq(whole, n + 1, len)
    BY <1>1 DEF len
  <2>1. rest \in Seq(0..MaxFrames) /\ Len(rest) = w - (r + n)
    BY <2>0, <2>4, <2>5, SubSeqProperties
  <2>6. \A i \in 1..(w - (r + n)) : rest[i] = whole[(n + 1) + i - 1]
    BY <2>0, <2>4, <2>5, SubSeqProperties
  <2>2. \A i \in 1..(w - (r + n)) : rest[i] = whole[n + i]
    <3>1. ASSUME NEW i \in 1..(w - (r + n)) PROVE (n + 1) + i - 1 = n + i
      OBVIOUS
    <3> QED BY <2>6, <3>1
  <2>3. ASSUME NEW i \in 1..(w - (r + n)) PROVE rest[i] = right[i]
    <3>1. n + i \in 1..(w - r) /\ r + (n + i) - 1 = (r + n) + i - 1
      BY <2>3
    <3> QED BY <1>1, <1>3, <2>2, <3>1
  <2> HIDE DEF rest
  <2>7. rest = right
    BY <1>3, <2>1, <2>3, SeqEqual
  <2> QED BY <2>7 DEF rest
<1> QED BY <1>4, <1>5 DEF whole, left, right

\* The frames before w and n more.
LEMMA FramesJoin ==
  ASSUME NEW d \in Slots, NEW r \in Nat, NEW w \in Nat, r <= w, NEW n \in Nat
  PROVE  Frames(d, r, w + n) = Frames(d, r, w) \o Frames(d, w, w + n)
<1> DEFINE whole == Frames(d, r, w + n)
           left == Frames(d, r, w)
           right == Frames(d, w, w + n)
<1>0. w + n \in Nat /\ r <= w + n /\ w <= w + n /\ (w + n) - w = n
  OBVIOUS
<1>1. /\ whole \in Seq(0..MaxFrames) /\ Len(whole) = (w + n) - r
      /\ \A i \in 1..((w + n) - r) : whole[i] = d[Slot(r + i - 1)]
  BY <1>0, FramesAre
<1>2. /\ left \in Seq(0..MaxFrames) /\ Len(left) = w - r
      /\ \A i \in 1..(w - r) : left[i] = d[Slot(r + i - 1)]
  BY FramesAre
<1>3. /\ right \in Seq(0..MaxFrames) /\ Len(right) = n
      /\ \A i \in 1..n : right[i] = d[Slot(w + i - 1)]
  <2>1. /\ right \in Seq(0..MaxFrames) /\ Len(right) = (w + n) - w
        /\ \A i \in 1..((w + n) - w) : right[i] = d[Slot(w + i - 1)]
    <3> HIDE DEF right
    <3> QED BY <1>0, FramesAre DEF right
  <2> HIDE DEF right
  <2> QED BY <1>0, <2>1
<1> HIDE DEF whole, left, right
<1>4. /\ left \o right \in Seq(0..MaxFrames) /\ Len(left \o right) = (w + n) - r
      /\ \A i \in 1..((w + n) - r) :
           (left \o right)[i] = IF i <= w - r THEN left[i] ELSE right[i - (w - r)]
  <2>1. (w - r) + n = (w + n) - r
    OBVIOUS
  <2>2. /\ left \o right \in Seq(0..MaxFrames) /\ Len(left \o right) = (w - r) + n
        /\ \A i \in 1..((w - r) + n) :
             (left \o right)[i] = IF i <= w - r THEN left[i] ELSE right[i - (w - r)]
    <3> DEFINE m == w - r
    <3>1. Len(left) = m
      BY <1>2
    <3> HIDE DEF m
    <3>2. /\ left \o right \in Seq(0..MaxFrames) /\ Len(left \o right) = m + n
          /\ \A i \in 1..(m + n) : (left \o right)[i] = IF i <= m THEN left[i] ELSE right[i - m]
      BY <1>2, <1>3, <3>1, ConcatProperties
    <3> QED BY <3>2 DEF m
  <2> QED BY <2>1, <2>2
<1>5. ASSUME NEW i \in 1..((w + n) - r) PROVE whole[i] = (left \o right)[i]
  <2>1. CASE i <= w - r
    <3>1. i \in 1..(w - r)
      BY <2>1
    <3> QED BY <1>1, <1>2, <1>4, <2>1, <3>1
  <2>2. CASE ~(i <= w - r)
    <3>1. i - (w - r) \in 1..n /\ w + (i - (w - r)) - 1 = r + i - 1
      BY <2>2
    <3>2. right[i - (w - r)] = d[Slot(w + (i - (w - r)) - 1)]
      BY <1>3, <3>1
    <3>3. (left \o right)[i] = right[i - (w - r)]
      BY <1>4, <2>2
    <3>4. whole[i] = d[Slot(r + i - 1)]
      BY <1>1
    <3> QED BY <3>1, <3>2, <3>3, <3>4
  <2> QED BY <2>1, <2>2
<1>6. whole = left \o right
  BY <1>1, <1>4, <1>5, SeqEqual
<1> QED BY <1>6 DEF whole, left, right

-----------------------------------------------------------------------------
\* The queue of FrameQueue is the frames between the counters.
Waiting == Frames(data, readFrame, writeFrame)

\* The frames that wait, one by one.
LEMMA WaitingAre ==
  ASSUME TypeOK, IndexInv
  PROVE  /\ data \in Slots /\ readFrame <= writeFrame
         /\ Waiting \in Seq(0..MaxFrames) /\ Len(Waiting) = writeFrame - readFrame
         /\ \A i \in 1..(writeFrame - readFrame) : Waiting[i] = data[Slot(readFrame + i - 1)]
<1>1. data \in Slots /\ readFrame <= writeFrame
  BY DEF TypeOK, Slots, IndexInv
<1> QED BY <1>1, FramesAre, Numbers DEF Waiting

\* A push is the one step that accepts frames: it stores a counter.
LEMMA StoreWritePushes ==
  ASSUME RingInv, RingInv', StoreWrite
  PROVE  \E n \in 1..MaxFrames :
           /\ Len(Waiting) + n <= Capacity
           /\ Waiting' = Waiting \o [i \in 1..n |-> sent + i]
           /\ sent' = sent + n
           /\ delivered' = delivered
<1> USE DEF RingInv
<1> DEFINE n == caller["producer"].frames
           copied == caller["producer"].copied
<1>1. /\ n \in Nat /\ n >= 1 /\ sent + n <= MaxFrames /\ Len(copied) = n
      /\ writeFrame + n <= readFrame + Capacity
      /\ \A i \in 1..n : data[Slot(writeFrame + i - 1)] = sent + i
  BY CallTypes DEF Callers, StoreWrite, PushInv, Within
<1>2. /\ writeFrame' = writeFrame + n /\ sent' = sent + n
      /\ UNCHANGED <<data, readFrame, delivered>>
  BY DEF StoreWrite, PushInv
<1> HIDE DEF n
<1>3. n \in 1..MaxFrames
  BY <1>1, Numbers
<1>4. Len(Waiting) + n <= Capacity
  BY <1>1, WaitingAre, Numbers
<1>5. Frames(data, writeFrame, writeFrame + n) = [i \in 1..n |-> sent + i]
  <2>1. (writeFrame + n) - writeFrame = n
    BY <1>1, Numbers
  <2> QED BY <1>1, <2>1 DEF Frames
<1>6. Waiting' = Frames(data, readFrame, writeFrame + n)
  BY <1>2 DEF Waiting, Frames
<1>7. Waiting' = Waiting \o [i \in 1..n |-> sent + i]
  <2>1. Frames(data, readFrame, writeFrame + n)
          = Frames(data, readFrame, writeFrame) \o Frames(data, writeFrame, writeFrame + n)
    <3>1. /\ data \in Slots /\ readFrame <= writeFrame
          /\ readFrame \in Nat /\ writeFrame \in Nat /\ n \in Nat
      BY <1>1, WaitingAre, Numbers
    <3> HIDE DEF RingInv
    <3> QED BY <3>1, FramesJoin
  <2> QED BY <1>5, <1>6, <2>1 DEF Waiting
<1> QED BY <1>2, <1>3, <1>4, <1>7

\* A reading call hands out what it copied as it stores its counter.
LEMMA StoreReadTakes ==
  ASSUME RingInv, RingInv', StoreRead
  PROVE  \E n \in 0..Len(Waiting) :
           /\ sent' = sent
           /\ \/ delivered' = SubSeq(Waiting, 1, n) /\ Waiting' = Waiting
              \/ delivered' = delivered /\ Waiting' = SubSeq(Waiting, n + 1, Len(Waiting))
              \/ delivered' = SubSeq(Waiting, 1, n) /\ Waiting' = SubSeq(Waiting, n + 1, Len(Waiting))
<1> USE DEF RingInv
<1> DEFINE c == caller["consumer"]
           n == c.frames
<1>1. /\ n \in Nat /\ c.copied \in Seq(0..MaxFrames) /\ readFrame + n <= writeFrame
      /\ Least(n, Available) = n
  BY ReadNumbers DEF StoreRead
<1>2. c.op \in {"pop", "peek", "discard"}
  BY DEF StoreRead, ReadInv, Within
<1>3. c.op # "discard" => c.copied = Frames(data, readFrame, readFrame + n)
  <2>1. SUFFICES ASSUME c.op # "discard" PROVE c.copied = Frames(data, readFrame, readFrame + n)
    OBVIOUS
  <2>2. Len(c.copied) = n /\ \A i \in 1..n : c.copied[i] = data[Slot(readFrame + i - 1)]
    BY <2>1 DEF StoreRead, ReadInv
  <2> HIDE DEF c
  <2>3. /\ (readFrame + n) - readFrame = n /\ readFrame + n \in Nat /\ readFrame <= readFrame + n
        /\ readFrame \in Nat
    <3> HIDE DEF n
    <3> QED BY <1>1, Numbers
  <2>4. data \in Slots
    BY WaitingAre
  <2> DEFINE first == Frames(data, readFrame, readFrame + n)
  <2>5. /\ first \in Seq(0..MaxFrames) /\ Len(first) = (readFrame + n) - readFrame
        /\ \A i \in 1..((readFrame + n) - readFrame) : first[i] = data[Slot(readFrame + i - 1)]
    BY <2>3, <2>4, FramesAre
  <2> HIDE DEF first
  <2>6. Len(first) = n /\ \A i \in 1..n : first[i] = data[Slot(readFrame + i - 1)]
    BY <2>3, <2>5
  <2>7. \A i \in 1..Len(c.copied) : c.copied[i] = first[i]
    BY <2>2, <2>6
  <2>8. c.copied = first
    BY <1>1, <2>2, <2>5, <2>6, <2>7, SeqEqual
  <2> QED BY <2>8 DEF first
<1>4. n \in 0..(writeFrame - readFrame)
  <2> HIDE DEF n
  <2> QED BY <1>1, Numbers
<1>5. /\ SubSeq(Waiting, 1, n) = Frames(data, readFrame, readFrame + n)
      /\ SubSeq(Waiting, n + 1, Len(Waiting)) = Frames(data, readFrame + n, writeFrame)
  BY <1>4, WaitingAre, FramesSplit, Numbers DEF Waiting
<1>6. /\ UNCHANGED <<data, writeFrame, sent>>
      /\ readFrame' = IF c.op = "peek" THEN readFrame ELSE readFrame + n
      /\ delivered' = IF c.op = "discard" THEN delivered ELSE c.copied
  BY <1>1 DEF StoreRead
<1>7. Waiting' = Frames(data, readFrame', writeFrame)
  BY <1>6 DEF Waiting, Frames
<1>8. n \in 0..Len(Waiting)
  BY <1>4, WaitingAre
<1> HIDE DEF n
<1>9. CASE c.op = "peek"
  <2>1. delivered' = SubSeq(Waiting, 1, n) /\ Waiting' = Waiting /\ sent' = sent
    BY <1>3, <1>5, <1>6, <1>7, <1>9 DEF Waiting
  <2> QED BY <1>8, <2>1
<1>10. CASE c.op = "discard"
  <2>1. delivered' = delivered /\ Waiting' = SubSeq(Waiting, n + 1, Len(Waiting)) /\ sent' = sent
    BY <1>5, <1>6, <1>7, <1>10
  <2> QED BY <1>8, <2>1
<1>11. CASE c.op = "pop"
  <2>1. /\ delivered' = SubSeq(Waiting, 1, n) /\ sent' = sent
        /\ Waiting' = SubSeq(Waiting, n + 1, Len(Waiting))
    BY <1>3, <1>5, <1>6, <1>7, <1>11
  <2> QED BY <1>8, <2>1
<1> QED BY <1>2, <1>9, <1>10, <1>11

\* Copying a frame in leaves every frame that waits where it is.
LEMMA CopyInStutters ==
  ASSUME RingInv, CopyIn
  PROVE  Waiting' = Waiting
<1> USE DEF RingInv
<1>1. UNCHANGED <<writeFrame, readFrame>>
  BY DEF CopyIn
<1>2. Len(caller["producer"].copied) \in Nat
  BY CallTypes DEF Callers
<1>3. ASSUME NEW i \in 1..(writeFrame - readFrame)
      PROVE  data'[Slot(readFrame + i - 1)] = data[Slot(readFrame + i - 1)]
  <2>1. ASSUME NEW l \in Nat
        PROVE  /\ readFrame + i - 1 \in Nat /\ readFrame <= readFrame + i - 1
               /\ readFrame + i - 1 < writeFrame + l
    BY <1>3, Numbers
  <2> QED BY <1>2, <2>1, CopyInKeeps
<1> QED BY <1>1, <1>3 DEF Waiting, Frames

\* Emptying the ring empties the queue.
LEMMA EmptyClears ==
  ASSUME RingInv, NEW k \in Controls, Empty(k)
  PROVE  Waiting' = <<>> /\ UNCHANGED <<sent, delivered>>
<1>1. readFrame' = writeFrame' /\ UNCHANGED <<sent, delivered>> /\ writeFrame' = writeFrame
  BY DEF Empty
<1>2. writeFrame - writeFrame = 0
  BY Numbers DEF RingInv
<1>3. Waiting' = [i \in 1..0 |-> data'[Slot(readFrame' + i - 1)]]
  BY <1>1, <1>2 DEF Waiting, Frames
<1> QED BY <1>1, <1>3

\* The frames accepted come out once, whole and in order, whatever the callers and the threads
\* that clear the ring do between each other's accesses: the ring implements FrameQueue (PcmRingBuffer.hpp:27).
THEOREM RingImplementsQueue == Spec => RingIsQueue
<1>1. Init => Queue!Init
  <2> SUFFICES ASSUME Init PROVE Queue!Init
    OBVIOUS
  <2>1. writeFrame - readFrame = 0 /\ sent = 0 /\ delivered = <<>>
    BY DEF Init
  <2> QED BY <2>1 DEF Queue!Init
<1>2. RingInv /\ RingInv' /\ [Next]_vars => [Queue!Next]_(Queue!qvars)
  <2> SUFFICES ASSUME RingInv, RingInv', [Next]_vars
               PROVE  Queue!Next \/ (Waiting' = Waiting /\ UNCHANGED <<sent, delivered>>)
    BY DEF Queue!qvars, Waiting, Frames
  <2>1. CASE StoreWrite
    BY <2>1, StoreWritePushes DEF Queue!Next, Queue!Push, Waiting, Frames
  <2>2. CASE StoreRead
    BY <2>2, StoreReadTakes
       DEF Queue!Next, Queue!Peek, Queue!Discard, Queue!Pop, Waiting, Frames
  <2>3. ASSUME NEW k \in Controls, Empty(k)
        PROVE  Queue!Next
    BY <2>3, EmptyClears DEF Queue!Next, Queue!Clear, Waiting, Frames
  <2>4. CASE CopyIn
    BY <2>4, CopyInStutters DEF CopyIn
  <2>5. CASE UNCHANGED <<data, writeFrame, readFrame, sent, delivered>>
    BY <2>5 DEF Waiting, Frames
  <2> QED BY <2>1, <2>2, <2>3, <2>4, <2>5
      DEF vars, Next, Inside, Clears, Enter, Entered, Leave, Notify, Check,
          Look, CopyOut, Ask, Drain, End, Tell, ring
<1> QED BY RingInvariant, <1>1, <1>2, PTL DEF Spec, RingIsQueue, Queue!Spec
=============================================================================
