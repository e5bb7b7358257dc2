-------------------------- MODULE MediaSourceProofs --------------------------
(***************************************************************************)
(* What a media source plays is the song from the position commanded last: *)
(* MediaSource implements Tape, for any song, ring, chunk, block of the    *)
(* device and number of commands.                                          *)
(***************************************************************************)
EXTENDS MediaSource, TLAPS

-----------------------------------------------------------------------------
(* The invariant.                                                          *)

\* What the decoder has is for the position commanded last.
Current == decodeGeneration = generation
\* The position behind the ring.
End == At + Len(ring)

\* The decoded frames not yet in the ring, and the decoder, continue the ring.
Continues ==
  /\ End + Len(pending) = decoderFrame
  /\ \A i \in 1..Len(pending) : pending[i] = End + i

\* The decoder is about to be moved to the position.
Restarting == ring = <<>> /\ At = (IF worker.seek THEN worker.frame ELSE 0)

\* The file could not be opened there; nothing is decoded until another command.
Lost ==
  /\ eofGeneration < generation
  /\ \/ worker.place = "failing"
     \/ worker.place \in {"waiting", "looking", "asleep"} /\ state \in {"Empty", "Failed"}

\* The callback counts as a reader from its first step to its last.
Called == render.place # "idle" => readers = 1

\* The ring holds the frames of the song that follow the position.
RingFollows == End <= Length /\ \A i \in 1..Len(ring) : ring[i] = At + i

\* A request that waits is the one of the last command, and the ring is empty until it is met.
Asked ==
  /\ requests \cap {"load", "seek"} # {} =>
       ring = <<>> /\ requestedGeneration = generation /\ decodeGeneration < generation
  /\ "seek" \in requests => seekFrame = At
  /\ "load" \in requests /\ "seek" \notin requests => At = 0

\* From the request to unload to the second half of the command nothing else is asked, and what
\* is decoded is old.
Emptied ==
  /\ control.place = "unloading" \/ control.emptied =>
       decodeGeneration < generation /\ requests \subseteq {"unload"}
  /\ "unload" \in requests => control.place = "unloading" /\ ~unloadCompleted
  /\ worker.place = "unloading" =>
       control.place = "unloading" /\ ~unloadCompleted /\ "unload" \notin requests

Generations == eofGeneration <= decodeGeneration /\ decodeGeneration <= generation

\* Where the decoder is, if it works for the last command.
Decoded ==
  /\ worker.place = "reading" => pending = <<>>
  /\ worker.place = "seeking" => worker.seek
  /\ Current /\ worker.place \in {"opening", "seeking"} => Restarting /\ eofGeneration < generation
  /\ Current /\ worker.place \notin {"opening", "seeking"} => Continues \/ Lost

MediaInv ==
  TypeOK /\ Called /\ RingFollows /\ Asked /\ Emptied /\ Generations /\ Decoded

\* A step as the listener sees it.
Plays == [Heard!Next]_<<At, heard>>

-----------------------------------------------------------------------------
(* Types, sequences and records.                                           *)

\* The numbers of the model.
LEMMA Numbers ==
  /\ Length \in Nat /\ MaxCommands \in Nat /\ Capacity \in Nat /\ Capacity # 0
  /\ Chunk \in Nat /\ Chunk # 0 /\ Block \in Nat /\ Block # 0
BY MediaAssumption

\* The types of what the invariant compares.
LEMMA Types ==
  ASSUME TypeOK
  PROVE  /\ At \in Nat /\ End \in Nat /\ Len(ring) \in Nat /\ Len(pending) \in Nat
         /\ position \in Nat /\ render.taken \in Nat /\ decoderFrame \in Nat
         /\ generation \in Nat /\ eofGeneration \in Nat /\ decodeGeneration \in Nat
<1>1. ring \in Seq(Frames) /\ pending \in Seq(Frames) BY DEF TypeOK
<1>2. Len(ring) \in Nat /\ Len(pending) \in Nat BY <1>1
<1>3. position \in Nat /\ decoderFrame \in Nat BY Numbers DEF TypeOK
<1>4. render.taken \in Nat BY Numbers DEF TypeOK, Calls
<1>5. At \in Nat BY <1>3, <1>4 DEF At
<1>6. End \in Nat BY <1>2, <1>5 DEF End
<1> QED BY <1>2, <1>3, <1>4, <1>5, <1>6 DEF TypeOK

\* The first frames of a sequence of frames, and the others.
LEMMA Split ==
  ASSUME NEW s \in Seq(Frames), NEW n \in 0..Len(s)
  PROVE  /\ SubSeq(s, 1, n) \in Seq(Frames) /\ Len(SubSeq(s, 1, n)) = n
         /\ \A i \in 1..n : SubSeq(s, 1, n)[i] = s[i]
         /\ SubSeq(s, n + 1, Len(s)) \in Seq(Frames)
         /\ Len(SubSeq(s, n + 1, Len(s))) = Len(s) - n
         /\ \A i \in 1..(Len(s) - n) : SubSeq(s, n + 1, Len(s))[i] = s[n + i]
<1>1. Len(s) \in Nat /\ n \in Nat /\ n <= Len(s) OBVIOUS
<1>2. \A i \in 1..Len(s) : s[i] \in Frames OBVIOUS
<1>3. /\ SubSeq(s, 1, n) = [i \in 1..n |-> s[i]]
      /\ SubSeq(s, n + 1, Len(s)) = [i \in 1..(Len(s) - n) |-> s[n + i]]
  OBVIOUS
<1>4. /\ [i \in 1..n |-> s[i]] \in Seq(Frames) /\ Len([i \in 1..n |-> s[i]]) = n
  BY <1>1, <1>2
<1>5. /\ [i \in 1..(Len(s) - n) |-> s[n + i]] \in Seq(Frames)
      /\ Len([i \in 1..(Len(s) - n) |-> s[n + i]]) = Len(s) - n
  BY <1>1, <1>2
<1> QED BY <1>3, <1>4, <1>5

\* One sequence of frames after another.
LEMMA Joined ==
  ASSUME NEW s \in Seq(Frames), NEW t \in Seq(Frames)
  PROVE  /\ s \o t \in Seq(Frames) /\ Len(s \o t) = Len(s) + Len(t)
         /\ \A i \in 1..Len(s) : (s \o t)[i] = s[i]
         /\ \A i \in 1..Len(t) : (s \o t)[Len(s) + i] = t[i]
OBVIOUS

\* Nothing is a sequence of frames.
LEMMA Silence == <<>> \in Seq(Frames) /\ Len(<<>>) = 0
OBVIOUS

\* A command that goes on is a command.
LEMMA OrderGoes ==
  ASSUME control \in Orders,
         NEW p \in {"idle", "locking", "pausing", "unloading"}, NEW e \in BOOLEAN
  PROVE  /\ Rest \in Orders /\ Rest.place = "idle" /\ ~Rest.emptied
         /\ [control EXCEPT !.place = p, !.emptied = e] \in Orders
         /\ [control EXCEPT !.place = p, !.emptied = e].place = p
         /\ [control EXCEPT !.place = p, !.emptied = e].emptied = e
         /\ [control EXCEPT !.place = p] \in Orders
         /\ [control EXCEPT !.place = p].place = p
         /\ [control EXCEPT !.place = p].emptied = control.emptied
<1>1. Rest \in Orders /\ Rest.place = "idle" /\ ~Rest.emptied
  BY Numbers DEF Orders, Rest
<1>2. /\ [control EXCEPT !.place = p, !.emptied = e] \in Orders
      /\ [control EXCEPT !.place = p, !.emptied = e].place = p
      /\ [control EXCEPT !.place = p, !.emptied = e].emptied = e
  BY DEF Orders
<1>3. /\ [control EXCEPT !.place = p] \in Orders
      /\ [control EXCEPT !.place = p].place = p
      /\ [control EXCEPT !.place = p].emptied = control.emptied
  BY DEF Orders
<1> QED BY <1>1, <1>2, <1>3

\* A worker that goes on is a worker, and keeps what it has been asked.
LEMMA JobGoes ==
  ASSUME worker \in Jobs, NEW p, GoesOn(p),
         p \in {"waiting", "looking", "asleep", "unloading", "opening", "seeking", "decoding",
                "reading", "publishing", "failing"}
  PROVE  worker' \in Jobs /\ worker'.place = p /\ UNCHANGED <<worker.seek, worker.frame>>
BY DEF GoesOn, Jobs

\* A callback that goes on is a callback.
LEMMA CallGoes ==
  ASSUME render \in Calls, NEW p, Place(p),
         p \in {"idle", "entered", "popping", "storing", "checking", "ending", "leaving"}
  PROVE  render' \in Calls /\ render'.place = p /\ render'.taken = render.taken
BY DEF Place, Calls

-----------------------------------------------------------------------------
(* Steps that leave the decoding alone.                                    *)

\* What the ring and the decoder hold is judged by the position alone.
LEMMA Undisturbed ==
  ASSUME TypeOK, RingFollows, Asked, Generations, Decoded, At' = At,
         UNCHANGED <<ring, generation, eofGeneration, requests, requestedGeneration, seekFrame,
                     worker, decoderFrame, decodeGeneration, pending>>,
         state' = state \/ state \notin {"Empty", "Failed"} \/ eofGeneration = generation
  PROVE  RingFollows' /\ Asked' /\ Generations' /\ Decoded'
<1>1. End' = End BY DEF End
<1>2. RingFollows' BY <1>1 DEF RingFollows
<1>3. Asked' BY DEF Asked
<1>4. Generations' BY DEF Generations
<1>5. (Continues => Continues') /\ (Restarting => Restarting') BY <1>1 DEF Continues, Restarting
<1>6. (Current' <=> Current) /\ (Lost => Lost') BY Types DEF Current, Lost
<1>7. Decoded' BY <1>5, <1>6 DEF Decoded
<1> QED BY <1>2, <1>3, <1>4, <1>7

\* Nothing is heard and the position stays.
LEMMA Unheard ==
  ASSUME At' = At, heard' = heard
  PROVE  Plays
BY DEF Plays

\* A command that carries out nothing has the callback outside.
LEMMA AloneIs ==
  ASSUME MediaInv, Alone
  PROVE  /\ render.place = "idle" /\ At = position /\ control.place = "pausing"
         /\ "unload" \notin requests /\ worker.place # "unloading"
<1>1. render.place = "idle" BY DEF MediaInv, Alone, Called
<1>2. At = position BY <1>1, Types DEF At, MediaInv
<1>3. control.place = "pausing" BY DEF Alone
<1> QED BY <1>1, <1>2, <1>3 DEF MediaInv, Emptied

-----------------------------------------------------------------------------
(* The control thread.                                                     *)

\* A command that begins, takes the mutex, or has waited for the worker.
LEMMA WaitStep ==
  ASSUME MediaInv,
         Lock \/ Unloaded \/ \E c \in Commands, f \in 0..Length : Call(c, f)
  PROVE  MediaInv' /\ Plays
<1> USE DEF MediaInv
<1>1. /\ control' \in Orders /\ commands' \in 0..MaxCommands
      /\ mutex' \in {"free", "control", "worker"} /\ suspended' \in BOOLEAN
      /\ control'.place # "unloading"
      /\ (control.place # "unloading" \/ unloadCompleted)
      /\ (control'.emptied => control.emptied \/ control.place = "unloading")
  <2>1. CASE Lock
    BY <2>1, OrderGoes DEF Lock, TypeOK
  <2>2. CASE Unloaded
    BY <2>2, OrderGoes DEF Unloaded, TypeOK
  <2>3. ASSUME NEW c \in Commands, NEW f \in 0..Length, Call(c, f)
        PROVE  /\ control' \in Orders /\ commands' \in 0..MaxCommands
               /\ UNCHANGED <<mutex, suspended>> /\ control.place = "idle"
               /\ control'.place = "locking" /\ ~control'.emptied
    <3>1. control' \in Orders /\ control'.place = "locking" /\ ~control'.emptied
      BY <2>3 DEF Call, Rest, Orders
    <3>2. commands' \in 0..MaxCommands
      <4>1. commands' = commands + 1 /\ commands < MaxCommands BY <2>3 DEF Call
      <4>2. commands \in 0..MaxCommands BY DEF TypeOK
      <4> QED BY <4>1, <4>2, Numbers
    <3> QED BY <2>3, <3>1, <3>2 DEF Call, locks
  <2> QED BY <2>1, <2>2, <2>3 DEF TypeOK
<1>2. UNCHANGED <<shared, readers, asked, woken, worker, decoding, render, heard>>
  BY DEF Lock, Unloaded, Call, locks
<1>3. TypeOK' BY <1>1, <1>2 DEF TypeOK, shared, asked, decoding
<1>4. At' = At BY <1>2 DEF At, shared
<1>5. Called' BY <1>2 DEF Called
<1>6. RingFollows' /\ Asked' /\ Generations' /\ Decoded'
  BY <1>2, <1>4, Undisturbed DEF shared, asked, decoding
<1>7. Emptied' BY <1>1, <1>2 DEF Emptied, shared, asked, decoding
<1> QED BY <1>2, <1>3, <1>4, <1>5, <1>6, <1>7, Unheard

\* The first half of load and of unload: what is decoded is old.
LEMMA RequestUnloadStep ==
  ASSUME MediaInv, RequestUnload
  PROVE  MediaInv' /\ Plays
<1> USE DEF MediaInv
<1>1. /\ Alone /\ generation' = generation + 1 /\ state' = "Empty" /\ requests' = {"unload"}
      /\ unloadCompleted' = FALSE /\ requestedGeneration' = generation + 1 /\ woken' = TRUE
      /\ mutex' = "free" /\ control' = [control EXCEPT !.place = "unloading"]
      /\ UNCHANGED <<position, ring, suspended, seekFrame, heard, readers, commands, worker,
                     decoding, eofGeneration, render>>
  BY DEF RequestUnload, Others, Wake, TypeOK
<1>2. control' \in Orders /\ control'.place = "unloading"
  BY <1>1, OrderGoes DEF TypeOK
<1>3. TypeOK'
  <2>1. generation' \in Nat /\ requestedGeneration' \in Nat BY <1>1, Types
  <2>2. state' \in States /\ requests' \subseteq {"load", "seek", "unload"} BY <1>1 DEF States
  <2> QED BY <1>1, <1>2, <2>1, <2>2 DEF TypeOK, decoding
<1>4. At' = At /\ End' = End BY <1>1 DEF At, End
<1>5. Called' BY <1>1 DEF Called
<1>6. RingFollows' BY <1>1, <1>4 DEF RingFollows
<1>7. decodeGeneration' = decodeGeneration /\ decodeGeneration < generation'
      /\ eofGeneration' = eofGeneration /\ eofGeneration <= decodeGeneration
  BY <1>1, Types DEF Generations, decoding
<1>8. Asked' BY <1>1 DEF Asked
<1>9. Emptied' BY <1>1, <1>2, <1>7, AloneIs DEF Emptied
<1>10. Generations' BY <1>1, <1>7, Types DEF Generations
<1>11. Decoded' BY <1>1, <1>7, Types DEF Decoded, Current, decoding
<1> QED BY <1>1, <1>3, <1>4, <1>5, <1>6, <1>8, <1>9, <1>10, <1>11, Unheard

\* A command that moves the position: the ring is emptied and what is decoded is old.
LEMMA SeekStep ==
  ASSUME MediaInv, Alone, Release, Others, NEW f \in 0..Length, RequestSeek(f), state' \in States
  PROVE  MediaInv' /\ Plays
<1> USE DEF MediaInv
<1>1. /\ generation' = generation + 1 /\ ring' = <<>> /\ position' = f /\ heard' = <<>>
      /\ requests' = requests \cup {"seek"} /\ seekFrame' = f /\ requestedGeneration' = generation'
      /\ woken' = TRUE /\ mutex' = "free" /\ suspended' = FALSE /\ control' = Rest
      /\ UNCHANGED <<unloadCompleted, readers, commands, worker, decoding, eofGeneration, render>>
  BY DEF RequestSeek, Release, Others, Wake
<1>2. Rest \in Orders /\ Rest.place = "idle" /\ ~Rest.emptied
  BY OrderGoes DEF TypeOK
<1>3. TypeOK'
  <2>1. generation' \in Nat /\ requestedGeneration' \in Nat BY <1>1, Types
  <2>2. requests' \subseteq {"load", "seek", "unload"} BY <1>1 DEF TypeOK
  <2>3. Len(ring') <= Capacity /\ ring' \in Seq(Frames) /\ heard' \in Seq(Frames)
    BY <1>1, Silence, Numbers
  <2> QED BY <1>1, <1>2, <2>1, <2>2, <2>3 DEF TypeOK, decoding
<1>4. At' = f /\ Len(ring') = 0 /\ End' = f
  <2>1. At' = f BY <1>1, AloneIs DEF At
  <2> QED BY <1>1, <2>1, Silence DEF End
<1>5. Called' BY <1>1 DEF Called
<1>6. RingFollows' BY <1>4, Numbers DEF RingFollows
<1>7. decodeGeneration' = decodeGeneration /\ decodeGeneration < generation'
      /\ eofGeneration' = eofGeneration /\ eofGeneration <= decodeGeneration
  BY <1>1, Types DEF Generations, decoding
<1>8. Asked' BY <1>1, <1>4, <1>7 DEF Asked
<1>9. Emptied' BY <1>1, <1>2, AloneIs DEF Emptied
<1>10. Generations' BY <1>1, <1>7, Types DEF Generations
<1>11. Decoded' BY <1>1, <1>7, Types DEF Decoded, Current, decoding
<1>12. Plays
  BY <1>1, <1>4 DEF Plays, Heard!Next, Heard!Move
<1> QED BY <1>3, <1>5, <1>6, <1>8, <1>9, <1>10, <1>11, <1>12

\* A command that does not move the position.
LEMMA StayStep ==
  ASSUME MediaInv, Alone, Release, Others, NoSeek, state' \in States, woken' \in BOOLEAN,
         state' = state \/ state \notin {"Empty", "Failed"}
  PROVE  MediaInv' /\ Plays
<1> USE DEF MediaInv
<1>1. /\ mutex' = "free" /\ suspended' = FALSE /\ control' = Rest
      /\ UNCHANGED <<generation, ring, position, heard, requests, requestedGeneration, seekFrame,
                     unloadCompleted, readers, commands, worker, decoding, eofGeneration, render>>
  BY DEF NoSeek, Release, Others
<1>2. Rest \in Orders /\ Rest.place = "idle" /\ ~Rest.emptied
  BY OrderGoes DEF TypeOK
<1>3. TypeOK' BY <1>1, <1>2 DEF TypeOK, decoding
<1>4. At' = At BY <1>1 DEF At
<1>5. Called' BY <1>1 DEF Called
<1>6. RingFollows' /\ Asked' /\ Generations' /\ Decoded'
  BY <1>1, <1>4, Undisturbed DEF decoding
<1>7. Emptied' BY <1>1, <1>2, AloneIs DEF Emptied
<1> QED BY <1>1, <1>3, <1>4, <1>5, <1>6, <1>7, Unheard

\* The second halves of load and of unload: the position is the beginning.
LEMMA EmptyStep ==
  ASSUME MediaInv, Load \/ Unload
  PROVE  MediaInv' /\ Plays
<1> USE DEF MediaInv
<1>1. /\ Alone /\ control.emptied /\ ring' = <<>> /\ position' = 0 /\ heard' = <<>>
      /\ mutex' = "free" /\ suspended' = FALSE /\ control' = Rest
      /\ UNCHANGED <<seekFrame, unloadCompleted, readers, commands, worker, decoding,
                     eofGeneration, render>>
  BY DEF Load, Unload, Commanded, Release, Others, asked
<1>2. \/ /\ generation' = generation + 1 /\ requestedGeneration' = generation' /\ state' = "Loading"
         /\ requests' = requests \cup {"load"} /\ woken' = TRUE
      \/ UNCHANGED <<generation, requestedGeneration, state, requests, woken>>
  BY DEF Load, Unload, Wake, asked
<1>3. Rest \in Orders /\ Rest.place = "idle" /\ ~Rest.emptied
  BY OrderGoes DEF TypeOK
<1>4. requests = {} /\ decodeGeneration < generation /\ eofGeneration <= decodeGeneration
  BY <1>1, AloneIs DEF Emptied, Generations
<1>5. /\ generation' \in Nat /\ decodeGeneration' = decodeGeneration
      /\ decodeGeneration < generation' /\ eofGeneration' = eofGeneration
  BY <1>1, <1>2, <1>4, Types DEF decoding
<1>6. TypeOK'
  <2>1. /\ requestedGeneration' \in Nat /\ state' \in States /\ woken' \in BOOLEAN
        /\ requests' \subseteq {"load", "seek", "unload"}
    BY <1>2, <1>5 DEF TypeOK, States
  <2>2. 0 \in 0..Length BY Numbers
  <2>3. Len(ring') <= Capacity /\ ring' \in Seq(Frames) /\ heard' \in Seq(Frames)
    BY <1>1, Silence, Numbers
  <2> QED BY <1>1, <1>3, <1>5, <2>1, <2>2, <2>3 DEF TypeOK, decoding
<1>7. At' = 0 /\ Len(ring') = 0 /\ End' = 0
  <2>1. At' = 0 BY <1>1, AloneIs DEF At
  <2> QED BY <1>1, <2>1, Silence DEF End
<1>8. Called' BY <1>1 DEF Called
<1>9. RingFollows' BY <1>7, Numbers DEF RingFollows
<1>10. Asked' BY <1>1, <1>2, <1>4, <1>5, <1>7 DEF Asked
<1>11. Emptied' BY <1>1, <1>2, <1>3, <1>4, AloneIs DEF Emptied
<1>12. Generations' BY <1>4, <1>5, Types DEF Generations
<1>13. Decoded' BY <1>1, <1>5, Types DEF Decoded, Current, decoding
<1>14. Plays
  <2>1. 0 \in 0..Length BY Numbers
  <2> QED BY <1>1, <1>7, <2>1 DEF Plays, Heard!Next, Heard!Move
<1> QED BY <1>6, <1>8, <1>9, <1>10, <1>11, <1>12, <1>13, <1>14

\* Every step of the control thread.
LEMMA ControlStep ==
  ASSUME MediaInv, Controls \/ \E c \in Commands, f \in 0..Length : Call(c, f)
  PROVE  MediaInv' /\ Plays
<1>0. /\ TypeOK /\ state \in States /\ woken \in BOOLEAN /\ 0 \in 0..Length /\ position \in 0..Length
      /\ control.frame \in 0..Length
  BY Numbers DEF MediaInv, TypeOK, Orders
<1>1. CASE Play
  <2>1. Alone /\ Release /\ Others BY <1>1 DEF Play, Commanded
  <2>2. CASE state = "Finished"
    BY <1>0, <1>1, <2>1, <2>2, SeekStep DEF Play, States
  <2>3. CASE state # "Finished"
    <3>1. /\ NoSeek /\ state' \in States /\ woken' \in BOOLEAN
          /\ state' = state \/ state \notin {"Empty", "Failed"}
      BY <1>0, <1>1, <2>3 DEF Play, Wake, States
    <3> QED BY <2>1, <3>1, StayStep
  <2> QED BY <2>2, <2>3
<1>2. CASE Pause
  <2>1. Alone /\ Release /\ Others /\ NoSeek BY <1>2 DEF Pause, Commanded
  <2>2. state' \in States /\ woken' \in BOOLEAN /\ (state' = state \/ state \notin {"Empty", "Failed"})
    BY <1>0, <1>2 DEF Pause, States
  <2> QED BY <2>1, <2>2, StayStep
<1>3. CASE Stop
  <2>1. Alone /\ Release /\ Others BY <1>3 DEF Stop, Commanded
  <2>2. CASE state \in {"Empty", "Failed"}
    <3>1. NoSeek /\ state' = state /\ woken' = woken BY <1>3, <2>2 DEF Stop
    <3> QED BY <1>0, <2>1, <3>1, StayStep
  <2>3. CASE state \notin {"Empty", "Failed"}
    <3>1. RequestSeek(0) /\ state' \in States BY <1>3, <2>3 DEF Stop, States
    <3> QED BY <1>0, <2>1, <3>1, SeekStep
  <2> QED BY <2>2, <2>3
<1>4. CASE Seek
  <2>1. Alone /\ Release /\ Others BY <1>4 DEF Seek, Commanded
  <2>2. CASE state = "Empty"
    <3>1. NoSeek /\ state' = state /\ woken' = woken BY <1>4, <2>2 DEF Seek
    <3> QED BY <1>0, <2>1, <3>1, StayStep
  <2>3. CASE state # "Empty"
    <3>1. RequestSeek(control.frame) /\ state' \in States BY <1>0, <1>4, <2>3 DEF Seek, States
    <3> QED BY <1>0, <2>1, <3>1, SeekStep
  <2> QED BY <2>2, <2>3
<1>5. CASE Retune
  <2>1. Alone /\ Release /\ Others /\ state' = state BY <1>5 DEF Retune, Commanded
  <2>2. CASE state = "Empty"
    <3>1. NoSeek /\ woken' = woken BY <1>5, <2>2 DEF Retune
    <3> QED BY <1>0, <2>1, <3>1, StayStep
  <2>3. CASE state # "Empty"
    <3>1. RequestSeek(position) BY <1>5, <2>3 DEF Retune
    <3> QED BY <1>0, <2>1, <3>1, SeekStep
  <2> QED BY <2>2, <2>3
<1> QED BY <1>1, <1>2, <1>3, <1>4, <1>5, WaitStep, RequestUnloadStep, EmptyStep DEF Controls

-----------------------------------------------------------------------------
(* The worker.                                                             *)

\* A step of the worker that publishes nothing and takes no request.
LEMMA JobStep ==
  ASSUME MediaInv,
         UNCHANGED <<generation, eofGeneration, position, ring, requests, requestedGeneration,
                     seekFrame, readers, control, decodeGeneration, render, heard>>,
         worker'.place # "unloading",
         unloadCompleted' = unloadCompleted \/ "unload" \notin requests
  PROVE  /\ At' = At /\ End' = End
         /\ Called' /\ RingFollows' /\ Asked' /\ Emptied' /\ Generations' /\ Plays
<1> USE DEF MediaInv
<1>1. At' = At /\ End' = End BY DEF At, End
<1>2. Called' BY DEF Called
<1>3. RingFollows' BY <1>1 DEF RingFollows
<1>4. Asked' BY <1>1 DEF Asked
<1>5. Emptied' BY DEF Emptied
<1>6. Generations' BY DEF Generations
<1> QED BY <1>1, <1>2, <1>3, <1>4, <1>5, <1>6, Unheard

\* The worker looks for work, falls asleep and wakes up.
LEMMA IdleStep ==
  ASSUME MediaInv, Remember \/ FallAsleep \/ WakeUp
  PROVE  MediaInv' /\ Plays
<1> USE DEF MediaInv
<1>1. PICK p \in {"looking", "asleep", "waiting"} : GoesOn(p)
  BY DEF Remember, FallAsleep, WakeUp
<1>2. /\ UNCHANGED <<shared, suspended, readers, asked, decoding, commanding, render, heard>>
      /\ mutex' \in {"free", "control", "worker"} /\ woken' \in BOOLEAN
      /\ worker.place \in {"looking", "asleep", "waiting"}
  BY DEF Remember, FallAsleep, WakeUp, Works, locks, TypeOK
<1>3. worker' \in Jobs /\ worker'.place = p BY <1>1, JobGoes DEF TypeOK
<1>4. TypeOK' BY <1>2, <1>3 DEF TypeOK, shared, asked, decoding, commanding
<1>5. At' = At /\ End' = End
      /\ Called' /\ RingFollows' /\ Asked' /\ Emptied' /\ Generations' /\ Plays
  BY <1>2, <1>3, JobStep DEF shared, asked, decoding, commanding
<1>6. Current => Continues \/ Lost BY <1>2 DEF Decoded
<1>7. (Continues => Continues') /\ (Lost => Lost') /\ (Current' <=> Current)
  BY <1>2, <1>3, <1>5 DEF Continues, Lost, Current, shared, decoding
<1>8. Decoded' BY <1>3, <1>6, <1>7 DEF Decoded
<1> QED BY <1>4, <1>5, <1>8

\* What the worker does first of what it has been asked.
LEMMA FirstIs ==
  /\ FirstOf(requests) \in {"unloading", "opening", "seeking", "decoding"}
  /\ FirstOf(requests) = "unloading" <=> "unload" \in requests
  /\ FirstOf(requests) = "opening" => "load" \in requests
  /\ FirstOf(requests) = "seeking" => "seek" \in requests /\ "load" \notin requests
  /\ FirstOf(requests) = "decoding" => requests \cap {"load", "seek", "unload"} = {}
BY DEF FirstOf

\* The worker takes the requests: it decodes for the last command from now on.
LEMMA TakeStep ==
  ASSUME MediaInv, TakeRequest
  PROVE  MediaInv' /\ Plays
<1> DEFINE first == FirstOf(requests)
<1> USE DEF MediaInv
<1>1. /\ worker.place = "looking" /\ mutex' = "free" /\ requests' = {}
      /\ worker' = [place |-> first, seek |-> "seek" \in requests, frame |-> seekFrame]
      /\ decodeGeneration' = IF first \in {"opening", "seeking"} THEN requestedGeneration
                             ELSE decodeGeneration
      /\ requests # {} \/ Behind
      /\ UNCHANGED <<shared, suspended, readers, requestedGeneration, seekFrame, unloadCompleted,
                     woken, opened, decoderFrame, decoderEof, pending, commanding, render, heard>>
  BY DEF TakeRequest
<1>2. /\ first \in {"unloading", "opening", "seeking", "decoding"}
      /\ first = "unloading" <=> "unload" \in requests
      /\ first = "opening" => "load" \in requests
      /\ first = "seeking" => "seek" \in requests
      /\ first = "decoding" => requests = {}
  BY FirstIs DEF TypeOK
<1> HIDE DEF first
<1>3. /\ worker'.place = first /\ worker'.seek = ("seek" \in requests) /\ worker'.frame = seekFrame
      /\ worker' \in Jobs
  BY <1>1, <1>2 DEF TypeOK, Jobs
<1>4. TypeOK' BY <1>1, <1>3 DEF TypeOK, shared, commanding
<1>5. At' = At /\ End' = End BY <1>1 DEF At, End, shared
<1>6. Called' /\ RingFollows' BY <1>1, <1>5 DEF Called, RingFollows, shared
<1>7. Asked' BY <1>1 DEF Asked
<1>8. first \in {"opening", "seeking"} =>
        /\ ring = <<>> /\ requestedGeneration = generation /\ decodeGeneration < generation
        /\ "seek" \in requests => seekFrame = At
        /\ "seek" \notin requests => At = 0
        /\ control.place # "unloading" /\ ~control.emptied
  BY <1>2 DEF Asked, Emptied
<1>9. first = "unloading" =>
        control.place = "unloading" /\ ~unloadCompleted /\ decodeGeneration < generation
  BY <1>2 DEF Emptied
<1>10. Emptied' BY <1>1, <1>2, <1>3, <1>8, <1>9 DEF Emptied, commanding, shared
<1>11. /\ eofGeneration' = eofGeneration /\ generation' = generation
       /\ first \in {"opening", "seeking"} => decodeGeneration' = generation /\ eofGeneration < generation
       /\ first \notin {"opening", "seeking"} => decodeGeneration' = decodeGeneration
  BY <1>1, <1>8, Types DEF Generations, shared
<1>12. Generations' BY <1>11, Types DEF Generations
<1>13. ASSUME first \in {"opening", "seeking"} PROVE Decoded'
  <2>1. Restarting' BY <1>1, <1>3, <1>5, <1>8, <1>13 DEF Restarting, shared
  <2> QED BY <1>2, <1>3, <1>11, <1>13, <2>1 DEF Decoded
<1>14. ASSUME first = "unloading" PROVE Decoded'
  <2>1. ~Current' BY <1>9, <1>11, <1>14, Types DEF Current
  <2> QED BY <1>3, <1>14, <2>1 DEF Decoded
<1>15. ASSUME first = "decoding" PROVE Decoded'
  <2>1. state \notin {"Empty", "Failed"} BY <1>1, <1>2, <1>15 DEF Behind
  <2>2. Current => Continues BY <1>1, <2>1 DEF Decoded, Lost
  <2>3. (Current' <=> Current) /\ (Continues => Continues')
    BY <1>1, <1>5, <1>11, <1>15 DEF Current, Continues
  <2> QED BY <1>3, <1>15, <2>2, <2>3 DEF Decoded
<1> QED
  BY <1>1, <1>2, <1>4, <1>5, <1>6, <1>7, <1>10, <1>12, <1>13, <1>14, <1>15, Unheard DEF shared

\* The worker closes the file: what it has decoded is old.
LEMMA ApplyUnloadStep ==
  ASSUME MediaInv, ApplyUnload
  PROVE  MediaInv' /\ Plays
<1> USE DEF MediaInv
<1>1. /\ worker.place = "unloading" /\ opened' = FALSE /\ decoderEof' = FALSE /\ decoderFrame' = 0
      /\ pending' = <<>> /\ unloadCompleted' = TRUE /\ GoesOn("waiting")
      /\ UNCHANGED <<shared, requests, requestedGeneration, seekFrame, woken, decodeGeneration,
                     locks, commanding, render, heard>>
  BY DEF ApplyUnload, Works
<1>2. worker' \in Jobs /\ worker'.place = "waiting" BY <1>1, JobGoes DEF TypeOK
<1>3. TypeOK'
  <2>1. 0 \in 0..Length BY Numbers
  <2> QED BY <1>1, <1>2, <2>1, Silence DEF TypeOK, shared, locks, commanding
<1>4. "unload" \notin requests /\ decodeGeneration < generation BY <1>1 DEF Emptied
<1>5. Called' /\ RingFollows' /\ Asked' /\ Emptied' /\ Generations' /\ Plays
  BY <1>1, <1>2, <1>4, JobStep DEF shared, locks, commanding
<1>6. ~Current' BY <1>1, <1>4, Types DEF Current, shared
<1>7. Decoded' BY <1>2, <1>6 DEF Decoded
<1> QED BY <1>3, <1>5, <1>7

\* The worker opens the file, moves the decoder, decodes or meets an error.
Decoding == Open \/ ApplySeek \/ DecodeChunk \/ Throw \/ Read

\* What no such step changes.
LEMMA DecodingKeeps ==
  ASSUME MediaInv, Decoding
  PROVE  /\ UNCHANGED <<state, generation, eofGeneration, position, ring, requests,
                        requestedGeneration, seekFrame, unloadCompleted, readers, control,
                        decodeGeneration, render, heard, mutex, suspended, woken, commands>>
         /\ \E p \in {"waiting", "seeking", "decoding", "reading", "publishing", "failing"} : GoesOn(p)
         /\ worker' \in Jobs /\ worker'.place # "unloading"
         /\ UNCHANGED <<worker.seek, worker.frame>>
<1>1. UNCHANGED <<state, generation, eofGeneration, position, ring, requests,
                  requestedGeneration, seekFrame, unloadCompleted, readers, control,
                  decodeGeneration, render, heard, mutex, suspended, woken, commands>>
  BY DEF Decoding, Open, ApplySeek, DecodeChunk, Throw, Read, Works, shared, asked, locks,
         commanding, decoding
<1>2. \E p \in {"waiting", "seeking", "decoding", "reading", "publishing", "failing"} : GoesOn(p)
  BY DEF Decoding, Open, ApplySeek, DecodeChunk, Throw, Read
<1>3. PICK p \in {"waiting", "seeking", "decoding", "reading", "publishing", "failing"} : GoesOn(p)
  BY <1>2
<1>4. worker \in Jobs BY DEF MediaInv, TypeOK
<1>5. worker' \in Jobs /\ worker'.place = p /\ UNCHANGED <<worker.seek, worker.frame>>
  BY <1>3, <1>4, JobGoes
<1> QED BY <1>1, <1>2, <1>5

\* What the decoder reads is the next chunk of the song.
LEMMA ChunkIs ==
  ASSUME NEW d \in 0..Length, NEW n, n = Least(Chunk, Length - d)
  PROVE  /\ n \in Nat /\ d + n \in 0..Length
         /\ [i \in 1..n |-> d + i] \in Seq(Frames) /\ Len([i \in 1..n |-> d + i]) = n
<1>1. n \in Nat /\ d \in Nat /\ d + n <= Length BY Numbers DEF Least
<1>2. \A i \in 1..n : d + i \in 1..Length BY <1>1, Numbers
<1>3. [i \in 1..n |-> d + i] \in Seq(Frames) /\ Len([i \in 1..n |-> d + i]) = n
  <2>1. \A i \in 1..n : d + i \in Frames BY <1>2 DEF Frames
  <2> QED BY <1>1, <2>1
<1> QED BY <1>1, <1>3, Numbers

\* Where the decoder is after such a step.
LEMMA DecodingStep ==
  ASSUME MediaInv, Decoding
  PROVE  /\ opened' \in BOOLEAN /\ decoderFrame' \in 0..Length /\ decoderEof' \in BOOLEAN
         /\ pending' \in Seq(Frames) /\ Decoded'
<1> USE DEF MediaInv
<1>0. /\ UNCHANGED <<state, generation, eofGeneration, position, ring, decodeGeneration, render>>
      /\ At' = At /\ End' = End /\ (Current' <=> Current)
      /\ worker \in Jobs /\ worker'.seek = worker.seek /\ worker'.frame = worker.frame
      /\ opened \in BOOLEAN /\ decoderFrame \in 0..Length /\ decoderEof \in BOOLEAN
      /\ pending \in Seq(Frames) /\ 0 \in 0..Length /\ worker.frame \in 0..Length
  BY DecodingKeeps, Numbers DEF At, End, Current, TypeOK, Jobs
<1>1. CASE Open
  <2>1. /\ worker.place = "opening" /\ opened' = TRUE /\ decoderEof' = FALSE /\ decoderFrame' = 0
        /\ pending' = <<>> /\ worker'.place = IF worker.seek THEN "seeking" ELSE "decoding"
    BY <1>0, <1>1, JobGoes DEF Open
  <2>2. Current => Restarting /\ eofGeneration < generation BY <2>1 DEF Decoded
  <2>3. CASE worker.seek
    <3>1. Restarting => Restarting' BY <1>0 DEF Restarting
    <3>2. Decoded' BY <1>0, <2>1, <2>2, <2>3, <3>1 DEF Decoded
    <3> QED BY <1>0, <2>1, <3>2, Silence
  <2>4. CASE ~worker.seek
    <3>1. Restarting => Continues'
      BY <1>0, <2>1, <2>4, Silence DEF Restarting, Continues, End
    <3>2. Decoded' BY <1>0, <2>1, <2>2, <2>4, <3>1 DEF Decoded
    <3> QED BY <1>0, <2>1, <3>2, Silence
  <2> QED BY <2>3, <2>4
<1>2. CASE ApplySeek
  <2>1. /\ worker.place = "seeking" /\ decoderEof' = FALSE /\ decoderFrame' = worker.frame
        /\ pending' = <<>> /\ opened' = opened /\ worker'.place = "decoding"
    BY <1>0, <1>2, JobGoes DEF ApplySeek
  <2>2. worker.seek /\ (Current => Restarting) BY <2>1 DEF Decoded
  <2>3. Restarting => Continues'
    BY <1>0, <2>1, <2>2, Silence DEF Restarting, Continues, End
  <2>4. Decoded' BY <1>0, <2>1, <2>2, <2>3 DEF Decoded
  <2> QED BY <1>0, <2>1, <2>4, Silence
<1>3. CASE DecodeChunk
  <2>1. /\ worker.place = "decoding" /\ UNCHANGED <<opened, decoderFrame, decoderEof, pending>>
        /\ worker'.place \in {"waiting", "publishing", "reading"}
        /\ worker'.place = "reading" => pending = <<>>
    BY <1>0, <1>3, JobGoes DEF DecodeChunk, decoding
  <2>2. Current => Continues BY <2>1 DEF Decoded, Lost
  <2>3. Continues => Continues' BY <1>0, <2>1 DEF Continues
  <2>4. Decoded' BY <1>0, <2>1, <2>2, <2>3 DEF Decoded
  <2> QED BY <1>0, <2>1, <2>4
<1>4. CASE Throw
  <2>1. /\ worker.place \in {"opening", "seeking", "reading"}
        /\ UNCHANGED <<opened, decoderFrame, decoderEof, pending>> /\ worker'.place = "failing"
    BY <1>0, <1>4, JobGoes DEF Throw, decoding
  <2>2. Current => Continues \/ eofGeneration < generation BY <2>1 DEF Decoded, Lost
  <2>3. /\ Continues => Continues'
        /\ eofGeneration < generation => Lost'
    BY <1>0, <2>1 DEF Continues, Lost
  <2>4. Decoded' BY <1>0, <2>1, <2>2, <2>3 DEF Decoded
  <2> QED BY <1>0, <2>1, <2>4
<1>5. CASE Read /\ ~Current
  <2>1. UNCHANGED <<opened, decoderFrame, decoderEof, pending>> /\ worker'.place = "waiting"
    BY <1>0, <1>5, JobGoes DEF Read, Current
  <2>2. Decoded' BY <1>0, <1>5, <2>1 DEF Decoded
  <2> QED BY <1>0, <2>1, <2>2
<1>6. CASE Read /\ Current
  <2> DEFINE n == Least(Chunk, Length - decoderFrame)
  <2>1. /\ worker.place = "reading" /\ opened' = opened /\ decoderEof' = (n = 0)
        /\ pending' = [i \in 1..n |-> decoderFrame + i] /\ decoderFrame' = decoderFrame + n
        /\ worker'.place = "publishing"
    BY <1>0, <1>6, JobGoes DEF Read, Current
  <2>2. /\ n \in Nat /\ decoderFrame + n \in 0..Length
        /\ [i \in 1..n |-> decoderFrame + i] \in Seq(Frames)
        /\ Len([i \in 1..n |-> decoderFrame + i]) = n
    BY <1>0, ChunkIs
  <2> HIDE DEF n
  <2>3. Continues /\ pending = <<>> BY <1>6, <2>1 DEF Decoded, Lost
  <2>4. End = decoderFrame BY <2>3, Silence, Types DEF Continues
  <2>5. Len(pending') = n /\ \A i \in 1..n : pending'[i] = decoderFrame + i BY <2>1, <2>2
  <2>6. Continues' BY <1>0, <2>1, <2>4, <2>5 DEF Continues
  <2>7. Decoded' BY <2>1, <2>6 DEF Decoded
  <2>8. (n = 0) \in BOOLEAN OBVIOUS
  <2> QED BY <1>0, <2>1, <2>2, <2>7, <2>8
<1> QED BY <1>1, <1>2, <1>3, <1>4, <1>5, <1>6 DEF Decoding

\* Such a step keeps the invariant.
LEMMA DecodingKept ==
  ASSUME MediaInv, Decoding
  PROVE  MediaInv' /\ Plays
<1>1. TypeOK' BY DecodingKeeps, DecodingStep DEF MediaInv, TypeOK
<1>2. Called' /\ RingFollows' /\ Asked' /\ Emptied' /\ Generations' /\ Plays
  BY DecodingKeeps, JobStep
<1> QED BY <1>1, <1>2, DecodingStep DEF MediaInv

\* The worker publishes what it has decoded for the position commanded last, and only that.
LEMMA PublishStep ==
  ASSUME MediaInv, PublishPending
  PROVE  /\ MediaInv' /\ Plays
         /\ End <= End' /\ (Current => End' + Len(pending') = decoderFrame)
<1> DEFINE n == Least(Len(pending), Capacity - Len(ring))
           first == SubSeq(pending, 1, n)
           left == SubSeq(pending, n + 1, Len(pending))
<1> USE DEF MediaInv
<1>1. /\ worker.place = "publishing" /\ GoesOn("waiting")
      /\ UNCHANGED <<generation, position, asked, woken, opened, decoderFrame, decoderEof,
                     decodeGeneration, locks, commanding, render, heard>>
  BY DEF PublishPending, Works
<1>2. worker' \in Jobs /\ worker'.place = "waiting" BY <1>1, JobGoes DEF TypeOK
<1>3. At' = At /\ Called' BY <1>1 DEF At, Called, locks
<1>4. Emptied' BY <1>1, <1>2 DEF Emptied, asked, commanding
<1>5. CASE ~Current
  <2>1. pending' = <<>> /\ UNCHANGED <<ring, state, eofGeneration>>
    BY <1>5 DEF PublishPending, Current
  <2>2. TypeOK' BY <1>1, <1>2, <2>1, Silence DEF TypeOK, asked, locks, commanding
  <2>3. ~Current' BY <1>1, <1>5 DEF Current
  <2>4. Decoded' BY <1>2, <2>3 DEF Decoded
  <2>5. RingFollows' /\ Asked' /\ Generations' /\ Plays
    BY <1>1, <1>2, <2>1, JobStep DEF asked, locks, commanding
  <2>6. End' = End /\ End \in Nat BY <1>3, <2>1, Types DEF End
  <2> QED BY <1>3, <1>4, <1>5, <2>2, <2>4, <2>5, <2>6
<1>6. CASE Current
  <2>1. /\ ring' = ring \o first /\ pending' = left
        /\ eofGeneration' = eofGeneration \/ eofGeneration' = decodeGeneration
        /\ state' = state \/ state' = "Ready"
    BY <1>6 DEF PublishPending, Current
  <2>2. /\ Len(ring) \in Nat /\ Len(pending) \in Nat /\ End \in Nat /\ At \in Nat
        /\ Len(ring) <= Capacity
        /\ ring \in Seq(Frames) /\ pending \in Seq(Frames)
    BY Types DEF TypeOK
  <2>3. n \in 0..Len(pending) /\ Len(ring) + n <= Capacity BY <2>2, Numbers DEF Least
  <2>4. /\ first \in Seq(Frames) /\ Len(first) = n /\ \A i \in 1..n : first[i] = pending[i]
        /\ left \in Seq(Frames) /\ Len(left) = Len(pending) - n
        /\ \A i \in 1..(Len(pending) - n) : left[i] = pending[n + i]
    BY <2>2, <2>3, Split
  <2> HIDE DEF n, first, left
  <2>5. /\ ring' \in Seq(Frames) /\ Len(ring') = Len(ring) + n
        /\ \A i \in 1..Len(ring) : ring'[i] = ring[i]
        /\ \A i \in 1..n : ring'[Len(ring) + i] = first[i]
    BY <2>1, <2>2, <2>4, Joined
  <2>6. Continues BY <1>1, <1>6 DEF Decoded, Lost
  <2>7. /\ End' = End + n /\ End + Len(pending) = decoderFrame
        /\ decoderFrame \in 0..Length /\ decoderFrame' = decoderFrame
    BY <1>1, <1>3, <2>2, <2>3, <2>5, <2>6 DEF End, Continues, TypeOK
  <2>8. End' <= Length BY <2>2, <2>3, <2>7, Numbers
  <2>9. \A i \in 1..Len(ring') : ring'[i] = At + i
    <3> SUFFICES ASSUME NEW i \in 1..Len(ring') PROVE ring'[i] = At + i OBVIOUS
    <3>1. CASE i \in 1..Len(ring) BY <2>5, <3>1 DEF RingFollows
    <3>2. CASE i \notin 1..Len(ring)
      <4>1. PICK j \in 1..n : i = Len(ring) + j
        <5>1. i - Len(ring) \in 1..n /\ i = Len(ring) + (i - Len(ring))
          BY <2>2, <2>3, <2>5, <3>2
        <5> QED BY <5>1
      <4>2. ring'[i] = pending[j] BY <2>4, <2>5, <4>1
      <4>3. j \in 1..Len(pending) BY <2>2, <2>3, <4>1
      <4>4. pending[j] = End + j BY <2>6, <4>3 DEF Continues
      <4>5. End + j = At + i BY <2>2, <4>1 DEF End
      <4> QED BY <4>2, <4>4, <4>5
    <3> QED BY <3>1, <3>2
  <2>10. RingFollows' BY <1>3, <2>8, <2>9 DEF RingFollows
  <2>11. Continues'
    <3>1. Len(pending') = Len(pending) - n BY <2>1, <2>4
    <3>2. End' + Len(pending') = decoderFrame' BY <2>2, <2>3, <2>7, <3>1
    <3>3. \A i \in 1..Len(pending') : pending'[i] = End' + i
      <4> SUFFICES ASSUME NEW i \in 1..Len(pending') PROVE pending'[i] = End' + i OBVIOUS
      <4>1. i \in 1..(Len(pending) - n) /\ n + i \in 1..Len(pending) BY <2>2, <2>3, <3>1
      <4>2. pending'[i] = pending[n + i] BY <2>1, <2>4, <4>1
      <4>3. pending[n + i] = End + (n + i) BY <2>6, <4>1 DEF Continues
      <4>4. End + (n + i) = End' + i BY <2>2, <2>3, <2>7, <4>1
      <4> QED BY <4>2, <4>3, <4>4
    <3> QED BY <3>2, <3>3 DEF Continues
  <2>12. TypeOK'
    <3>1. state' \in States BY <2>1 DEF TypeOK, States
    <3>2. Len(ring') <= Capacity BY <2>3, <2>5
    <3>3. eofGeneration' \in Nat BY <2>1 DEF TypeOK
    <3> QED BY <1>1, <1>2, <2>1, <2>4, <2>5, <3>1, <3>2, <3>3 DEF TypeOK, asked, locks, commanding
  <2>13. Asked'
    <3>1. requests \cap {"load", "seek"} = {} BY <1>6, Types DEF Asked, Current
    <3>2. requests' \cap {"load", "seek"} = {} BY <1>1, <3>1 DEF asked
    <3> QED BY <3>2 DEF Asked
  <2>14. Generations' BY <1>1, <2>1, Types DEF Generations
  <2>15. Decoded' BY <1>2, <2>11 DEF Decoded
  <2>16. End <= End' /\ End' + Len(pending') = decoderFrame BY <2>2, <2>3, <2>7, <2>11 DEF Continues
  <2> QED BY <1>1, <1>3, <1>4, <2>10, <2>12, <2>13, <2>14, <2>15, <2>16, Unheard
<1> QED BY <1>5, <1>6

\* The worker tells that the file has failed.
LEMMA FailStep ==
  ASSUME MediaInv, Fail
  PROVE  MediaInv' /\ Plays
<1> USE DEF MediaInv
<1>1. /\ worker.place = "failing" /\ GoesOn("waiting")
      /\ state' = IF decodeGeneration = generation THEN "Failed" ELSE state
      /\ UNCHANGED <<generation, eofGeneration, position, ring, asked, woken, decoding, locks,
                     commanding, render, heard>>
  BY DEF Fail, Works
<1>2. worker' \in Jobs /\ worker'.place = "waiting" BY <1>1, JobGoes DEF TypeOK
<1>3. TypeOK' BY <1>1, <1>2 DEF TypeOK, States, asked, locks, decoding, commanding
<1>4. At' = At /\ End' = End
      /\ Called' /\ RingFollows' /\ Asked' /\ Emptied' /\ Generations' /\ Plays
  BY <1>1, <1>2, JobStep DEF asked, locks, decoding, commanding
<1>5. Current => Continues \/ eofGeneration < generation BY <1>1 DEF Decoded, Lost
<1>6. /\ Current' <=> Current
      /\ Continues => Continues'
      /\ Current /\ eofGeneration < generation => Lost'
  BY <1>1, <1>2, <1>4 DEF Current, Continues, Lost, decoding
<1>7. Decoded' BY <1>2, <1>5, <1>6 DEF Decoded
<1> QED BY <1>3, <1>4, <1>7

-----------------------------------------------------------------------------
(* The callback.                                                           *)

\* A step of the callback that plays nothing.
LEMMA RenderKeeps ==
  ASSUME MediaInv, Renders, At' = At, ring' = ring, heard' = heard,
         render' \in Calls, render'.place # "idle" => readers' = 1, readers' \in 0..1,
         position' \in 0..Length, woken' \in BOOLEAN,
         state' = state \/ (eofGeneration = generation /\ state' = "Finished")
  PROVE  MediaInv' /\ Plays /\ End' = End
<1> USE DEF MediaInv
<1>1. UNCHANGED <<generation, eofGeneration, mutex, suspended, requests, requestedGeneration,
                  seekFrame, unloadCompleted, control, commands, worker, opened, decoderFrame,
                  decoderEof, decodeGeneration, pending>>
  BY DEF Renders, asked, commanding, decoding
<1>2. TypeOK' BY <1>1 DEF TypeOK, States
<1>3. Called' BY DEF Called
<1>4. RingFollows' /\ Asked' /\ Generations' /\ Decoded' BY <1>1, Undisturbed
<1>5. Emptied' BY <1>1 DEF Emptied
<1>6. End' = End BY DEF End
<1> QED BY <1>2, <1>3, <1>4, <1>5, <1>6, Unheard

\* The callback plays what the ring holds: the frames that follow the position.
LEMMA PopStep ==
  ASSUME MediaInv, PopRing
  PROVE  MediaInv' /\ Plays /\ End' = End
<1> DEFINE n == Least(Block, Len(ring))
           first == SubSeq(ring, 1, n)
           left == SubSeq(ring, n + 1, Len(ring))
<1> USE DEF MediaInv
<1>1. /\ render.place = "popping" /\ heard' = first /\ ring' = left
      /\ render' = [render EXCEPT !.place = "storing", !.taken = n]
      /\ UNCHANGED <<state, position, readers, woken, generation, eofGeneration, mutex, suspended,
                     requests, requestedGeneration, seekFrame, unloadCompleted, control, commands,
                     worker, opened, decoderFrame, decoderEof, decodeGeneration, pending>>
  BY DEF PopRing, Renders, asked, commanding, decoding
<1>2. /\ ring \in Seq(Frames) /\ Len(ring) \in Nat /\ At \in Nat /\ End \in Nat
      /\ Len(ring) <= Capacity
  BY Types DEF TypeOK
<1>3. n \in 0..Len(ring) /\ n \in 0..Block BY <1>2, Numbers DEF Least
<1>4. /\ first \in Seq(Frames) /\ Len(first) = n /\ \A i \in 1..n : first[i] = ring[i]
      /\ left \in Seq(Frames) /\ Len(left) = Len(ring) - n
      /\ \A i \in 1..(Len(ring) - n) : left[i] = ring[n + i]
      /\ first = [i \in 1..n |-> ring[i]]
  <2>1. first = [i \in 1..n |-> ring[i]] BY <1>2, <1>3
  <2> QED BY <1>2, <1>3, <2>1, Split
<1> HIDE DEF n, first, left
<1>5. render' \in Calls /\ render'.place = "storing" /\ render'.taken = n
  BY <1>1, <1>3 DEF TypeOK, Calls
<1>6. At = position BY <1>1, <1>2 DEF At, TypeOK
<1>7. At' = At + n BY <1>1, <1>5, <1>6 DEF At
<1>8. Len(ring') = Len(ring) - n BY <1>1, <1>4
<1>9. End' = End BY <1>2, <1>3, <1>7, <1>8 DEF End
<1>10. TypeOK'
  <2>1. Len(ring') <= Capacity BY <1>2, <1>3, <1>8, Numbers
  <2> QED BY <1>1, <1>4, <1>5, <2>1 DEF TypeOK
<1>11. Called' BY <1>1, <1>5 DEF Called
<1>12. RingFollows'
  <2>1. \A i \in 1..Len(ring') : ring'[i] = At' + i
    <3> SUFFICES ASSUME NEW i \in 1..Len(ring') PROVE ring'[i] = At' + i OBVIOUS
    <3>1. i \in 1..(Len(ring) - n) /\ n + i \in 1..Len(ring) BY <1>2, <1>3, <1>8
    <3>2. ring'[i] = ring[n + i] BY <1>1, <1>4, <3>1
    <3>3. ring[n + i] = At + (n + i) BY <3>1 DEF RingFollows
    <3>4. At + (n + i) = At' + i BY <1>2, <1>3, <1>7, <3>1
    <3> QED BY <3>2, <3>3, <3>4
  <2> QED BY <1>9, <2>1 DEF RingFollows
<1>13. ring = <<>> => ring' = ring /\ At' = At
  <2>1. ASSUME ring = <<>> PROVE n = 0 BY <1>3, <2>1, Silence
  <2>2. ASSUME ring = <<>> PROVE Len(ring') = 0 BY <1>3, <1>8, <2>2, Silence
  <2>3. ring' \in Seq(Frames) BY <1>1, <1>4
  <2>4. Len(ring') = 0 => ring' = <<>> BY <2>3
  <2> QED BY <1>2, <1>7, <2>1, <2>2, <2>4
<1>14. Asked'
  <2>1. requests \cap {"load", "seek"} = {} => Asked'
    <3> SUFFICES ASSUME requests' \cap {"load", "seek"} = {} PROVE Asked' BY <1>1
    <3> QED BY DEF Asked
  <2>2. ring = <<>> => Asked' BY <1>1, <1>13 DEF Asked
  <2> QED BY <2>1, <2>2 DEF Asked
<1>15. Emptied' /\ Generations' BY <1>1 DEF Emptied, Generations
<1>16. Decoded'
  <2>1. (Current' <=> Current) /\ (Lost => Lost') BY <1>1 DEF Current, Lost
  <2>2. Continues => Continues' BY <1>1, <1>9 DEF Continues
  <2>3. Restarting => Restarting' BY <1>1, <1>13 DEF Restarting
  <2> QED BY <1>1, <2>1, <2>2, <2>3 DEF Decoded
<1>17. Plays
  <2>1. \A i \in 1..n : ring[i] = At + i BY <1>2, <1>3 DEF RingFollows
  <2>2. heard' = [i \in 1..n |-> At + i]
    <3>1. [i \in 1..n |-> ring[i]] = [i \in 1..n |-> At + i] BY <2>1
    <3> QED BY <1>1, <1>4, <3>1
  <2>3. At + n <= Length BY <1>2, <1>3, Numbers DEF RingFollows, End
  <2>4. Heard!Hear(n) BY <1>7, <2>2 DEF Heard!Hear
  <2>5. Heard!Next BY <1>3, <2>3, <2>4 DEF Heard!Next
  <2> QED BY <2>5 DEF Plays
<1> QED BY <1>9, <1>10, <1>11, <1>12, <1>14, <1>15, <1>16, <1>17

\* The position becomes what the callback has played up to.
LEMMA StoreStep ==
  ASSUME MediaInv, StorePosition
  PROVE  MediaInv' /\ Plays /\ End' = End
<1>1. /\ render.place = "storing" /\ position' = Least(position + render.taken, Length)
      /\ Place("checking") /\ UNCHANGED <<state, ring, readers, woken, heard>> /\ Renders
  BY DEF StorePosition
<1>2. render' \in Calls /\ render'.place = "checking"
  BY <1>1, CallGoes DEF MediaInv, TypeOK
<1>3. At = position + render.taken BY <1>1 DEF At
<1>4. End = At + Len(ring) /\ End <= Length BY DEF End, MediaInv, RingFollows
<1>5. At \in Nat /\ Len(ring) \in Nat BY Types DEF MediaInv
<1>6. At \in 0..Length BY <1>4, <1>5, Numbers
<1>7. position' = At BY <1>1, <1>3, <1>6, Numbers DEF Least
<1>8. At' = At BY <1>2, <1>5, <1>7 DEF At
<1>9. readers = 1 /\ readers \in 0..1 /\ woken \in BOOLEAN
  BY <1>1 DEF MediaInv, Called, TypeOK
<1> QED BY <1>1, <1>2, <1>6, <1>7, <1>8, <1>9, RenderKeeps

\* Every step of the callback.
LEMMA CallbackStep ==
  ASSUME MediaInv, Callback
  PROVE  MediaInv' /\ Plays /\ End' = End
<1>0. /\ render \in Calls /\ (render.place # "idle" => readers = 1) /\ readers \in 0..1
      /\ woken \in BOOLEAN /\ position \in 0..Length /\ generation \in Nat
      /\ 0 \in 0..Block
  BY Numbers DEF MediaInv, Called, TypeOK
<1>1. CASE Enter
  <2>1. /\ render.place = "idle" /\ readers' = 1 /\ Place("entered")
        /\ UNCHANGED <<state, position, ring, woken, heard>> /\ Renders
    BY <1>1 DEF Enter
  <2>2. render' \in Calls /\ render'.place = "entered" BY <1>0, <2>1, CallGoes
  <2>3. At' = At BY <2>1, <2>2 DEF At
  <2> QED BY <1>0, <2>1, <2>2, <2>3, RenderKeeps
<1>2. CASE Look
  <2>1. /\ render.place = "entered" /\ Renders
        /\ UNCHANGED <<state, position, ring, readers, woken, heard>>
        /\ render' \in Calls /\ render'.place \in {"leaving", "popping"}
    BY <1>0, <1>2 DEF Look, Calls
  <2>2. At' = At BY <2>1 DEF At
  <2> QED BY <1>0, <2>1, <2>2, RenderKeeps
<1>3. CASE CheckEmpty
  <2>1. /\ render.place = "checking" /\ Renders
        /\ UNCHANGED <<state, position, ring, readers, heard>> /\ woken' \in BOOLEAN
        /\ Place(IF ring = <<>> THEN "ending" ELSE "leaving")
    BY <1>0, <1>3 DEF CheckEmpty
  <2>2. render' \in Calls /\ render'.place \in {"ending", "leaving"} BY <1>0, <2>1, CallGoes
  <2>3. At' = At BY <2>1, <2>2 DEF At
  <2> QED BY <1>0, <2>1, <2>2, <2>3, RenderKeeps
<1>4. CASE CheckEnd
  <2>1. /\ render.place = "ending" /\ Renders /\ Place("leaving") /\ woken' = TRUE
        /\ UNCHANGED <<position, ring, readers, heard>>
        /\ state' = state \/ (eofGeneration = generation /\ state' = "Finished")
    BY <1>4 DEF CheckEnd, Wake
  <2>2. render' \in Calls /\ render'.place = "leaving" BY <1>0, <2>1, CallGoes
  <2>3. At' = At BY <2>1, <2>2 DEF At
  <2> QED BY <1>0, <2>1, <2>2, <2>3, RenderKeeps
<1>5. CASE Leave
  <2>1. /\ render.place = "leaving" /\ readers' = 0 /\ Renders
        /\ render' = [place |-> "idle", generation |-> 0, taken |-> 0]
        /\ UNCHANGED <<state, position, ring, woken, heard>>
    BY <1>5 DEF Leave
  <2>2. render' \in Calls /\ render'.place = "idle" BY <1>0, <2>1 DEF Calls
  <2>3. At' = At BY <2>1, <2>2 DEF At
  <2> QED BY <1>0, <2>1, <2>2, <2>3, RenderKeeps
<1> QED BY <1>1, <1>2, <1>3, <1>4, <1>5, PopStep, StoreStep DEF Callback

-----------------------------------------------------------------------------
(* The theorems.                                                           *)

\* A new source has nothing to play.
LEMMA MediaStart == Init => MediaInv /\ Heard!Init
<1> SUFFICES ASSUME Init PROVE MediaInv /\ Heard!Init OBVIOUS
<1>1. At = 0 /\ End = 0 /\ Len(ring) = 0 /\ Len(pending) = 0 /\ heard = <<>>
  <2>1. At = 0 BY DEF Init, At
  <2>2. Len(ring) = 0 /\ Len(pending) = 0 /\ heard = <<>> BY Silence DEF Init
  <2> QED BY <2>1, <2>2 DEF End
<1>2. 0 \in 0..Length /\ 0 \in 0..MaxCommands /\ 0 \in 0..Block BY Numbers
<1>3. TypeOK
  <2>1. Rest \in Orders BY <1>2 DEF Orders, Rest
  <2>2. worker \in Jobs BY <1>2 DEF Init, Jobs
  <2>3. render \in Calls BY <1>2 DEF Init, Calls
  <2>4. Len(ring) <= Capacity BY <1>1, Numbers
  <2>5. ring \in Seq(Frames) /\ pending \in Seq(Frames) /\ heard \in Seq(Frames)
    BY Silence DEF Init
  <2>6. /\ state \in States /\ mutex \in {"free", "control", "worker"} /\ control \in Orders
        /\ requests \subseteq {"load", "seek", "unload"} /\ readers \in 0..1
    BY <2>1 DEF Init, States
  <2>7. /\ generation \in Nat /\ eofGeneration \in Nat /\ requestedGeneration \in Nat
        /\ decodeGeneration \in Nat
        /\ position \in 0..Length /\ seekFrame \in 0..Length /\ decoderFrame \in 0..Length
        /\ commands \in 0..MaxCommands
    BY <1>2 DEF Init
  <2>8. /\ suspended \in BOOLEAN /\ unloadCompleted \in BOOLEAN /\ woken \in BOOLEAN
        /\ opened \in BOOLEAN /\ decoderEof \in BOOLEAN
    BY DEF Init
  <2> QED BY <2>2, <2>3, <2>4, <2>5, <2>6, <2>7, <2>8 DEF TypeOK
<1>4. Called /\ Asked /\ Emptied /\ Generations
  BY DEF Init, Called, Asked, Emptied, Generations, Rest
<1>5. RingFollows BY <1>1, Numbers DEF RingFollows
<1>6. Continues BY <1>1 DEF Init, Continues
<1>7. Decoded BY <1>6 DEF Init, Decoded
<1> QED BY <1>1, <1>3, <1>4, <1>5, <1>7 DEF MediaInv, Heard!Init

\* Every step keeps the invariant and is a step the listener may see.
LEMMA MediaStep == MediaInv /\ [Next]_vars => MediaInv' /\ Plays
<1> SUFFICES ASSUME MediaInv, [Next]_vars PROVE MediaInv' /\ Plays OBVIOUS
<1>1. CASE Decodes \/ Throw
  BY <1>1, IdleStep, TakeStep, ApplyUnloadStep, DecodingKept, PublishStep, FailStep
     DEF Decodes, Decoding
<1>2. CASE UNCHANGED vars
  <2>1. UNCHANGED <<state, generation, eofGeneration, position, ring, mutex, suspended, readers,
                    requests, requestedGeneration, seekFrame, unloadCompleted, woken, control,
                    commands, worker, opened, decoderFrame, decoderEof, decodeGeneration, pending,
                    render, heard>>
    BY <1>2 DEF vars, shared, locks, asked, commanding, decoding
  <2>2. At' = At BY <2>1 DEF At
  <2>3. RingFollows' /\ Asked' /\ Generations' /\ Decoded'
    BY <2>1, <2>2, Undisturbed DEF MediaInv
  <2>4. TypeOK' /\ Called' /\ Emptied' BY <2>1 DEF MediaInv, TypeOK, Called, Emptied
  <2> QED BY <2>1, <2>2, <2>3, <2>4, Unheard DEF MediaInv
<1> QED BY <1>1, <1>2, ControlStep, CallbackStep DEF Next

\* What is decoded for the last command continues the ring, the ring continues the position, and
\* a request that waits makes everything decoded before it old (MediaSource.cpp:430-640).
THEOREM MediaInvariant == Spec => []MediaInv
<1>1. Init => MediaInv BY MediaStart
<1>2. MediaInv /\ [Next]_vars => MediaInv' BY MediaStep
<1> QED BY <1>1, <1>2, PTL DEF Spec

\* The fields of a source keep their types.
THEOREM MediaTypeCorrect == Spec => []TypeOK
<1>1. MediaInv => TypeOK BY DEF MediaInv
<1> QED BY <1>1, MediaInvariant, PTL

\* "Old PCM must not be played after a seek": what is heard follows the position commanded last,
\* frame after frame, whatever the worker had decoded or was decoding for an older one.
THEOREM TapeImplemented == Spec => PlaysTheTape
<1>1. Init => Heard!Init BY MediaStart
<1>2. MediaInv /\ [Next]_vars => [Heard!Next]_<<At, heard>> BY MediaStep DEF Plays
<1> QED BY <1>1, <1>2, MediaInvariant, PTL DEF Spec, PlaysTheTape, Heard!Spec

-----------------------------------------------------------------------------
(* The end of the song.                                                    *)

\* The decoder says so only behind the last frame.
AtTheEnd == decoderEof => decoderFrame = Length

\* Before the first command there is nothing to do.
Unused ==
  generation = 0 => /\ state = "Empty" /\ requests = {}
                    /\ worker.place \in {"waiting", "looking", "asleep"}
                    /\ render.place \in {"idle", "entered", "leaving"}

\* When the end is noted for the last command, the ring reaches to the last frame.
EndNoted == generation # 0 /\ eofGeneration = generation => End = Length

EndInv == AtTheEnd /\ Unused /\ EndNoted

\* The decoder meets the end of the file when there is nothing left to read.
LEMMA AtTheEndStep ==
  ASSUME MediaInv, AtTheEnd, [Next]_vars
  PROVE  AtTheEnd'
<1>1. CASE Open \/ ApplySeek \/ ApplyUnload
  BY <1>1 DEF Open, ApplySeek, ApplyUnload, AtTheEnd
<1>2. CASE Read
  <2>1. CASE UNCHANGED <<decoderFrame, decoderEof>> BY <2>1 DEF AtTheEnd
  <2>2. CASE ~UNCHANGED <<decoderFrame, decoderEof>>
    <3>1. /\ decoderEof' = (Least(Chunk, Length - decoderFrame) = 0)
          /\ decoderFrame' = decoderFrame + Least(Chunk, Length - decoderFrame)
      BY <1>2, <2>2 DEF Read
    <3>2. decoderFrame \in 0..Length BY DEF MediaInv, TypeOK
    <3>3. Least(Chunk, Length - decoderFrame) = 0 => decoderFrame = Length
      BY <3>2, Numbers DEF Least
    <3>4. decoderEof' => decoderFrame' = decoderFrame + 0 BY <3>1
    <3>5. decoderFrame + 0 = decoderFrame BY <3>2, Numbers
    <3> QED BY <3>1, <3>3, <3>4, <3>5 DEF AtTheEnd
  <2> QED BY <2>1, <2>2
<1>3. CASE UNCHANGED <<decoderFrame, decoderEof>> BY <1>3 DEF AtTheEnd
<1>4. CASE Controls \/ Callback \/ \E c \in Commands, f \in 0..Length : Call(c, f)
  <2>1. UNCHANGED decoding
    BY <1>4 DEF Controls, Callback, Call, Lock, RequestUnload, Unloaded, Load, Unload, Play, Pause,
       Stop, Seek, Retune, Others, Enter, Look, PopRing, StorePosition, CheckEmpty, CheckEnd, Leave,
       Renders
  <2> QED BY <1>3, <2>1 DEF decoding
<1>5. CASE \/ Remember \/ TakeRequest \/ FallAsleep \/ WakeUp \/ DecodeChunk \/ PublishPending
           \/ Fail \/ Throw
  BY <1>3, <1>5 DEF Remember, TakeRequest, FallAsleep, WakeUp, DecodeChunk, PublishPending, Fail,
     Throw, decoding
<1>6. CASE UNCHANGED vars BY <1>3, <1>6 DEF vars, decoding
<1> QED BY <1>1, <1>2, <1>4, <1>5, <1>6 DEF Next, Decodes

\* How a step moves the position behind the ring.
LEMMA EndMoves ==
  ASSUME MediaInv, [Next]_vars
  PROVE  \/ generation' = generation + 1 /\ eofGeneration' = eofGeneration
         \/ PublishPending
         \/ /\ UNCHANGED <<generation, eofGeneration>>
            /\ End' = End \/ eofGeneration < generation
<1>1. CASE Callback
  BY <1>1, CallbackStep DEF Callback, Enter, Look, PopRing, StorePosition, CheckEmpty, CheckEnd,
     Leave, Renders
<1>2. CASE Lock \/ Unloaded \/ \E c \in Commands, f \in 0..Length : Call(c, f)
  BY <1>2 DEF Lock, Unloaded, Call, shared, End, At
<1>3. CASE RequestUnload \/ Load
  BY <1>3 DEF RequestUnload, Load, Others
<1>4. CASE Unload
  <2>1. control.emptied /\ UNCHANGED <<generation, eofGeneration>>
    BY <1>4 DEF Unload, Others
  <2>2. eofGeneration < generation BY <2>1, Types DEF MediaInv, Emptied, Generations
  <2> QED BY <2>1, <2>2
<1>5. CASE Play \/ Pause \/ Stop \/ Seek \/ Retune
  <2>1. Others /\ (NoSeek \/ \E f : RequestSeek(f))
    BY <1>5 DEF Play, Pause, Stop, Seek, Retune
  <2>2. CASE NoSeek BY <2>1, <2>2 DEF NoSeek, Others, End, At
  <2>3. CASE \E f : RequestSeek(f) BY <2>1, <2>3 DEF RequestSeek, Others
  <2> QED BY <2>1, <2>2, <2>3
<1>6. CASE Decodes /\ ~PublishPending
  <2>1. UNCHANGED <<generation, eofGeneration, position, ring, render>>
    BY <1>6 DEF Decodes, Remember, TakeRequest, FallAsleep, WakeUp, ApplyUnload, Open, ApplySeek,
       DecodeChunk, Read, Fail, Works, shared
  <2> QED BY <2>1 DEF End, At
<1>7. CASE Throw BY <1>7 DEF Throw, Works, shared, End, At
<1>8. CASE UNCHANGED vars BY <1>8 DEF vars, shared, End, At
<1> QED BY <1>1, <1>2, <1>3, <1>4, <1>5, <1>6, <1>7, <1>8 DEF Next, Controls

\* The position behind the ring stays a number.
LEMMA EndStays == TypeOK' => (End \in Nat)'
<1>1. TypeOK => End \in Nat BY Types
<1> QED BY <1>1, PTL

\* The end is noted when the last frame is in the ring.
LEMMA EndNotedStep ==
  ASSUME MediaInv, AtTheEnd, EndNoted, [Next]_vars
  PROVE  EndNoted'
<1>1. CASE generation' = generation + 1 /\ eofGeneration' = eofGeneration
  <2>1. eofGeneration < generation' BY <1>1, Types DEF MediaInv, Generations
  <2> QED BY <1>1, <2>1, Types DEF EndNoted, MediaInv
<1>2. CASE PublishPending
  <2>1. /\ End <= End' /\ End' <= Length /\ End \in Nat /\ End' \in Nat
        /\ (Current => End' + Len(pending') = decoderFrame)
    <3>1. MediaInv' BY <1>2, PublishStep
    <3>2. End' <= Length BY <3>1 DEF MediaInv, RingFollows
    <3> QED BY <1>2, <3>1, <3>2, EndStays, PublishStep, Types DEF MediaInv
  <2>2. generation' = generation BY <1>2 DEF PublishPending
  <2>3. CASE eofGeneration' = eofGeneration
    BY <2>1, <2>2, <2>3, Numbers DEF EndNoted
  <2>4. CASE eofGeneration' # eofGeneration
    <3>1. Current /\ decoderEof /\ pending' = <<>> BY <1>2, <2>4 DEF PublishPending, Current
    <3>2. End' = Length BY <2>1, <3>1, Silence DEF AtTheEnd
    <3> QED BY <3>2 DEF EndNoted
  <2> QED BY <2>3, <2>4
<1>3. CASE UNCHANGED <<generation, eofGeneration>> /\ (End' = End \/ eofGeneration < generation)
  BY <1>3, Types DEF EndNoted, MediaInv
<1> QED BY <1>1, <1>2, <1>3, EndMoves

\* Nothing happens before the first command.
LEMMA UnusedStep ==
  ASSUME MediaInv, Unused, [Next]_vars
  PROVE  Unused'
<1> SUFFICES ASSUME generation' = 0
    PROVE  /\ state' = "Empty" /\ requests' = {}
           /\ worker'.place \in {"waiting", "looking", "asleep"}
           /\ render'.place \in {"idle", "entered", "leaving"}
  BY DEF Unused
<1>1. generation = 0 /\ eofGeneration = 0 /\ decodeGeneration = 0
  <2>1. generation' \in {generation, generation + 1}
    BY EndMoves DEF PublishPending
  <2> QED BY <2>1, Types DEF MediaInv, Generations
<1>2. /\ state = "Empty" /\ requests = {} /\ worker.place \in {"waiting", "looking", "asleep"}
      /\ render.place \in {"idle", "entered", "leaving"}
  BY <1>1 DEF Unused
<1>3. ~control.emptied /\ generation' # generation + 1
  BY <1>1 DEF MediaInv, Emptied
<1>4. CASE Controls \/ \E c \in Commands, f \in 0..Length : Call(c, f)
  <2>1. ~RequestUnload /\ ~Load /\ ~Unload
    BY <1>3 DEF RequestUnload, Load, Unload
  <2> QED
    BY <1>2, <1>3, <1>4, <2>1
       DEF Controls, Call, Lock, Unloaded, Play, Pause, Stop, Seek, Retune, NoSeek, Others, RequestSeek,
           shared, asked
<1>5. CASE Decodes \/ Throw
  <2>1. Remember \/ FallAsleep \/ WakeUp
    BY <1>2, <1>5 DEF Decodes, Throw, TakeRequest, Behind, ApplyUnload, Open, ApplySeek, DecodeChunk,
       Read, PublishPending, Fail
  <2>2. PICK p \in {"looking", "asleep", "waiting"} : GoesOn(p)
    BY <2>1 DEF Remember, FallAsleep, WakeUp
  <2>3. worker'.place = p BY <2>2, JobGoes DEF MediaInv, TypeOK
  <2>4. UNCHANGED <<shared, asked, render>> BY <2>1 DEF Remember, FallAsleep, WakeUp, Works
  <2> QED BY <1>2, <2>3, <2>4 DEF shared, asked
<1>6. CASE Callback
  <2>1. (Enter \/ Look \/ Leave) /\ UNCHANGED <<state, asked, worker>>
    BY <1>2, <1>6 DEF Callback, Enter, Look, Leave, PopRing, StorePosition, CheckEmpty, CheckEnd,
       Renders
  <2>2. render'.place \in {"idle", "entered", "leaving"}
    <3>1. render \in Calls BY DEF MediaInv, TypeOK
    <3>2. CASE Enter BY <3>1, <3>2, CallGoes DEF Enter
    <3>3. CASE Look BY <1>2, <3>1, <3>3 DEF Look, Calls
    <3>4. CASE Leave BY <3>4 DEF Leave
    <3> QED BY <2>1, <3>2, <3>3, <3>4
  <2> QED BY <1>2, <2>1, <2>2 DEF asked
<1>7. CASE UNCHANGED vars BY <1>2, <1>7 DEF vars, shared, asked
<1> QED BY <1>4, <1>5, <1>6, <1>7 DEF Next

\* A song that is over has been decoded to its last frame, and what has not been played of it is
\* in the ring (MediaSource.cpp:413, :662-671).
FinishedIsDecoded ==
  [][state # "Finished" /\ state' = "Finished" => position + Len(ring) = Length]_vars

\* The end is the one of the last command.
LEMMA EndInvariant == Spec => [](MediaInv /\ EndInv)
<1>1. Init => EndInv BY DEF Init, EndInv, AtTheEnd, Unused, EndNoted
<1>2. MediaInv /\ EndInv /\ [Next]_vars => EndInv'
  BY AtTheEndStep, UnusedStep, EndNotedStep DEF EndInv
<1> QED BY <1>1, <1>2, MediaInvariant, PTL DEF Spec

\* Only the callback ends a song, at the end that is noted.
LEMMA FinishedBy ==
  ASSUME MediaInv, EndInv, [Next]_vars, state # "Finished", state' = "Finished"
  PROVE  position + Len(ring) = Length /\ render.place = "ending"
<1>1. CheckEnd
  <2>1. CASE Controls \/ \E c \in Commands, f \in 0..Length : Call(c, f)
    BY <2>1 DEF Controls, Call, Lock, RequestUnload, Unloaded, Load, Unload, Play, Pause, Stop, Seek,
       Retune, shared
  <2>2. CASE Decodes \/ Throw
    BY <2>2 DEF Decodes, Throw, Remember, TakeRequest, FallAsleep, WakeUp, ApplyUnload, Open,
       ApplySeek, DecodeChunk, Read, PublishPending, Fail, shared
  <2>3. CASE Callback
    BY <2>3 DEF Callback, Enter, Look, PopRing, StorePosition, CheckEmpty, Leave
  <2>4. CASE UNCHANGED vars BY <2>4 DEF vars, shared
  <2> QED BY <2>1, <2>2, <2>3, <2>4 DEF Next
<1>2. render.place = "ending" /\ eofGeneration = generation BY <1>1 DEF CheckEnd
<1>3. generation # 0 BY <1>2 DEF EndInv, Unused
<1>4. End = Length BY <1>2, <1>3 DEF EndInv, EndNoted
<1>5. At = position BY <1>2, Types DEF At, MediaInv
<1> QED BY <1>2, <1>4, <1>5 DEF End

\* Nothing of a song that is over is left in the file.
THEOREM FinishedSongIsDecoded == Spec => FinishedIsDecoded
<1>1. MediaInv /\ EndInv /\ [Next]_vars =>
        [state # "Finished" /\ state' = "Finished" => position + Len(ring) = Length]_vars
  BY FinishedBy
<1> QED BY <1>1, EndInvariant, PTL DEF Spec, FinishedIsDecoded

\* The worker publishes nothing between the two looks of the callback.
LooksAtOnce == render.place = "ending" => ring = <<>>

\* "At the end of the song the exact final position is kept", if the worker publishes nothing between
\* the look at the ring and the look at the end (MediaSource.cpp:413); otherwise it may not be.
THEOREM FinishedWhenHeard == Spec /\ []LooksAtOnce => FinishedIsTheEnd
<1>1. MediaInv /\ EndInv /\ LooksAtOnce /\ [Next]_vars =>
        [state # "Finished" /\ state' = "Finished" => position = Length]_vars
  <2> SUFFICES ASSUME MediaInv, EndInv, LooksAtOnce, [Next]_vars,
                      state # "Finished", state' = "Finished"
               PROVE  position = Length
    OBVIOUS
  <2>1. position + Len(ring) = Length /\ ring = <<>> BY FinishedBy DEF LooksAtOnce
  <2>2. position \in Nat BY Types DEF MediaInv
  <2> QED BY <2>1, <2>2, Silence
<1> QED BY <1>1, EndInvariant, PTL DEF Spec, FinishedIsTheEnd
=============================================================================
