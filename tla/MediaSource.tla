---------------------------- MODULE MediaSource ----------------------------
(***************************************************************************)
(* One source of the media player of the AudioService (media/MediaSource):  *)
(* a control thread that carries out commands, a worker that decodes ahead  *)
(* into a ring, and the callback of the device that plays from the ring and *)
(* never waits.  The ring is the queue PcmRing shows it to be; a command    *)
(* meets neither the callback (RenderPause) nor a critical section of the   *)
(* worker (mutex_), so it is one step once both are out.  The song plays at *)
(* its own rate, unscheduled and without a loop.                            *)
(***************************************************************************)
EXTENDS Naturals, Sequences

CONSTANTS
    Length,      \* frames of the song
    Capacity,    \* frames of the ring
    Chunk,       \* decodeChunkFrames_
    Block,       \* frames of one callback
    MaxCommands  \* bound of the commands

ASSUME MediaAssumption ==
    /\ Length \in Nat /\ MaxCommands \in Nat
    /\ Capacity \in Nat \ {0} /\ Chunk \in Nat \ {0} /\ Block \in Nat \ {0}

VARIABLES
    state, generation, eofGeneration,
    position,     \* sourcePosition_
    ring,         \* the decoded frames waiting to be played
    mutex,        \* who holds mutex_
    suspended, readers,
    requests,     \* loadRequested_, seekRequested_, unloadRequested_
    requestedGeneration, seekFrame, unloadCompleted,
    woken,        \* wakeEpoch_ has moved since the worker looked
    control,      \* the command being carried out
    commands,     \* how many have been given
    worker,       \* the place of the worker, and the requests it has taken
    opened,       \* the decoder has a file: format_.channels is not 0
    decoderFrame, decoderEof, decodeGeneration,
    pending,      \* the decoded frames not yet in the ring
    render,       \* the callback
    heard         \* history: the frames the callback played last

shared == <<state, generation, eofGeneration, position, ring>>
locks == <<mutex, suspended, readers>>
asked == <<requests, requestedGeneration, seekFrame, unloadCompleted>>
commanding == <<control, commands>>
decoding == <<opened, decoderFrame, decoderEof, decodeGeneration, pending>>
vars == <<shared, locks, asked, woken, commanding, worker, decoding, render, heard>>

States == {"Empty", "Loading", "Ready", "Playing", "Paused", "Finished", "Failed"}
Commands == {"load", "unload", "play", "pause", "stop", "seek", "retune"}
None == "none"
Least(a, b) == IF a < b THEN a ELSE b
Frames == 1..Length

Orders == [place : {"idle", "locking", "pausing", "unloading"}, command : Commands \cup {None},
           frame : 0..Length, emptied : BOOLEAN]
Jobs == [place : {"waiting", "looking", "asleep", "unloading", "opening", "seeking", "decoding",
                  "reading", "publishing", "failing"},
         seek : BOOLEAN, frame : 0..Length]
Calls == [place : {"idle", "entered", "popping", "storing", "checking", "ending", "leaving"},
          generation : Nat, taken : 0..Block]

TypeOK ==
    /\ state \in States /\ generation \in Nat /\ eofGeneration \in Nat
    /\ position \in 0..Length /\ ring \in Seq(Frames) /\ Len(ring) <= Capacity
    /\ mutex \in {"free", "control", "worker"} /\ suspended \in BOOLEAN /\ readers \in 0..1
    /\ requests \subseteq {"load", "seek", "unload"} /\ requestedGeneration \in Nat
    /\ seekFrame \in 0..Length /\ unloadCompleted \in BOOLEAN /\ woken \in BOOLEAN
    /\ control \in Orders /\ commands \in 0..MaxCommands
    /\ worker \in Jobs
    /\ opened \in BOOLEAN /\ decoderFrame \in 0..Length /\ decoderEof \in BOOLEAN
    /\ decodeGeneration \in Nat /\ pending \in Seq(Frames)
    /\ render \in Calls
    /\ heard \in Seq(Frames)

Rest == [place |-> "idle", command |-> None, frame |-> 0, emptied |-> FALSE]

Init ==
    /\ state = "Empty" /\ generation = 0 /\ eofGeneration = 0 /\ position = 0 /\ ring = <<>>
    /\ mutex = "free" /\ suspended = FALSE /\ readers = 0
    /\ requests = {} /\ requestedGeneration = 0 /\ seekFrame = 0 /\ unloadCompleted = TRUE
    /\ woken = FALSE /\ control = Rest /\ commands = 0
    /\ worker = [place |-> "waiting", seek |-> FALSE, frame |-> 0]
    /\ opened = FALSE /\ decoderFrame = 0 /\ decoderEof = FALSE /\ decodeGeneration = 0
    /\ pending = <<>>
    /\ render = [place |-> "idle", generation |-> 0, taken |-> 0] /\ heard = <<>>

-----------------------------------------------------------------------------
(* The control thread: it takes the mutex, suspends the callback, waits until the callback *)
(* is out, and carries out the command.                                                    *)
Call(c, f) ==
    /\ control.place = "idle" /\ commands < MaxCommands
    /\ c # "seek" => f = 0
    /\ control' = [Rest EXCEPT !.place = "locking", !.command = c, !.frame = f]
    /\ commands' = commands + 1
    /\ UNCHANGED <<shared, locks, asked, woken, worker, decoding, render, heard>>

Lock ==
    /\ control.place = "locking" /\ mutex = "free"
    /\ mutex' = "control" /\ suspended' = TRUE
    /\ control' = [control EXCEPT !.place = "pausing"]
    /\ UNCHANGED <<shared, readers, asked, woken, commands, worker, decoding, render, heard>>

Alone == control.place = "pausing" /\ readers = 0
Release == mutex' = "free" /\ suspended' = FALSE /\ control' = Rest
Commanded(c) == Alone /\ control.command = c /\ Release
Wake == woken' = TRUE
Others == UNCHANGED <<readers, commands, worker, decoding, eofGeneration, render>>

\* requestSeekLocked.
RequestSeek(f) ==
    /\ generation' = generation + 1
    /\ ring' = <<>> /\ position' = f /\ heard' = <<>>
    /\ requests' = requests \cup {"seek"} /\ seekFrame' = f
    /\ requestedGeneration' = generation'
    /\ Wake
    /\ UNCHANGED unloadCompleted

NoSeek == UNCHANGED <<generation, ring, position, heard, requests, requestedGeneration, seekFrame,
                      unloadCompleted>>

\* requestUnloadAndWait: the first half of load and of unload.  The callback stays suspended.
RequestUnload ==
    /\ Alone /\ control.command \in {"load", "unload"} /\ ~control.emptied
    /\ generation' = generation + 1
    /\ state' = "Empty"
    /\ requests' = {"unload"} \cup (requests \ {"load", "seek"})
    /\ unloadCompleted' = FALSE /\ requestedGeneration' = generation'
    /\ Wake
    /\ mutex' = "free"
    /\ control' = [control EXCEPT !.place = "unloading"]
    /\ UNCHANGED <<position, ring, suspended, seekFrame, heard>>
    /\ Others

Unloaded ==
    /\ control.place = "unloading" /\ unloadCompleted /\ mutex = "free"
    /\ suspended' = FALSE
    /\ control' = [control EXCEPT !.place = "locking", !.emptied = TRUE]
    /\ UNCHANGED <<shared, mutex, readers, asked, woken, commands, worker, decoding, render, heard>>

Load ==
    /\ Commanded("load") /\ control.emptied
    /\ generation' = generation + 1 /\ requestedGeneration' = generation'
    /\ ring' = <<>> /\ position' = 0 /\ heard' = <<>>
    /\ state' = "Loading"
    /\ requests' = requests \cup {"load"}
    /\ Wake
    /\ UNCHANGED <<seekFrame, unloadCompleted>>
    /\ Others

Unload ==
    /\ Commanded("unload") /\ control.emptied
    /\ ring' = <<>> /\ position' = 0 /\ heard' = <<>>
    /\ UNCHANGED <<state, generation, woken, asked>>
    /\ Others

Play ==
    /\ Commanded("play")
    /\ IF state \in {"Ready", "Paused", "Finished"}
       THEN /\ state' = "Playing"
            /\ IF state = "Finished" THEN RequestSeek(0) ELSE (NoSeek /\ Wake)
       ELSE /\ NoSeek
            /\ UNCHANGED <<state, woken>>
    /\ Others

Pause ==
    /\ Commanded("pause")
    /\ state' = IF state = "Playing" THEN "Paused" ELSE state
    /\ NoSeek
    /\ UNCHANGED woken
    /\ Others

Stop ==
    /\ Commanded("stop")
    /\ IF state \in {"Empty", "Failed"}
       THEN /\ NoSeek
            /\ UNCHANGED <<state, woken>>
       ELSE /\ state' = "Ready"
            /\ RequestSeek(0)
    /\ Others

Seek ==
    /\ Commanded("seek")
    /\ IF state = "Empty"
       THEN /\ NoSeek
            /\ UNCHANGED <<state, woken>>
       ELSE /\ RequestSeek(control.frame)
            /\ state' = IF state = "Finished" THEN "Ready" ELSE state
    /\ Others

\* setRate and setTranspose with another value: decoded again from the position.
Retune ==
    /\ Commanded("retune")
    /\ IF state = "Empty"
       THEN /\ NoSeek
            /\ UNCHANGED woken
       ELSE RequestSeek(position)
    /\ UNCHANGED state
    /\ Others

-----------------------------------------------------------------------------
(* The worker. *)
Works == UNCHANGED <<locks, commanding, render, heard>>
GoesOn(place) == worker' = [worker EXCEPT !.place = place]

Behind ==
    /\ ~decoderEof \/ pending # <<>>
    /\ state \notin {"Empty", "Failed"}
    /\ Len(ring) <= (Capacity - 1) \div 2

\* waitForWorkerRequest remembers wakeEpoch_ before it looks for work.
Remember ==
    /\ worker.place = "waiting" /\ mutex = "free"
    /\ mutex' = "worker" /\ woken' = FALSE
    /\ GoesOn("looking")
    /\ UNCHANGED <<shared, suspended, readers, asked, decoding, commanding, render, heard>>

FirstOf(asks) ==
    IF "unload" \in asks THEN "unloading" ELSE IF "load" \in asks THEN "opening"
    ELSE IF "seek" \in asks THEN "seeking" ELSE "decoding"

TakeRequest ==
    /\ worker.place = "looking"
    /\ requests # {} \/ Behind
    /\ mutex' = "free"
    /\ worker' = [place |-> FirstOf(requests), seek |-> "seek" \in requests, frame |-> seekFrame]
    /\ requests' = {}
    /\ decodeGeneration' = IF FirstOf(requests) \in {"opening", "seeking"}
                           THEN requestedGeneration ELSE decodeGeneration
    /\ UNCHANGED <<shared, suspended, readers, requestedGeneration, seekFrame, unloadCompleted,
                   woken, opened, decoderFrame, decoderEof, pending, commanding, render, heard>>

FallAsleep ==
    /\ worker.place = "looking"
    /\ ~(requests # {} \/ Behind)
    /\ mutex' = "free"
    /\ GoesOn("asleep")
    /\ UNCHANGED <<shared, suspended, readers, asked, woken, decoding, commanding, render, heard>>

WakeUp ==
    /\ worker.place = "asleep" /\ woken
    /\ GoesOn("waiting")
    /\ UNCHANGED <<shared, asked, woken, decoding>> /\ Works

\* Mutant of ApplyUnload: a source that has no file open has nothing to unload.
ApplyUnloadOpened ==
    /\ worker.place = "unloading" /\ mutex = "free"
    /\ opened' = FALSE /\ decoderEof' = FALSE /\ decoderFrame' = 0 /\ pending' = <<>>
    /\ unloadCompleted' = (unloadCompleted \/ opened)
    /\ GoesOn("waiting")
    /\ UNCHANGED <<shared, requests, requestedGeneration, seekFrame, woken, decodeGeneration>>
    /\ Works

ApplyUnload ==
    /\ worker.place = "unloading" /\ mutex = "free"
    /\ opened' = FALSE /\ decoderEof' = FALSE /\ decoderFrame' = 0 /\ pending' = <<>>
    /\ unloadCompleted' = TRUE
    /\ GoesOn("waiting")
    /\ UNCHANGED <<shared, requests, requestedGeneration, seekFrame, woken, decodeGeneration>>
    /\ Works

Open ==
    /\ worker.place = "opening"
    /\ opened' = TRUE /\ decoderEof' = FALSE /\ decoderFrame' = 0 /\ pending' = <<>>
    /\ GoesOn(IF worker.seek THEN "seeking" ELSE "decoding")
    /\ UNCHANGED <<shared, asked, woken, decodeGeneration>> /\ Works

\* A decoder without a file seeks nothing and says nothing.
ApplySeek ==
    /\ worker.place = "seeking"
    /\ decoderFrame' = worker.frame /\ decoderEof' = FALSE /\ pending' = <<>>
    /\ GoesOn("decoding")
    /\ UNCHANGED <<shared, asked, woken, opened, decodeGeneration>> /\ Works

DecodeChunk ==
    /\ worker.place = "decoding"
    /\ GoesOn(IF state \in {"Empty", "Failed"} \/ ~opened THEN "waiting"
              ELSE IF pending # <<>> \/ decoderEof THEN "publishing" ELSE "reading")
    /\ UNCHANGED <<shared, asked, woken, decoding>> /\ Works

\* The file throws: it does not open, seek or decode.
Throw ==
    /\ \/ worker.place = "opening"
       \/ worker.place \in {"seeking", "reading"} /\ opened
    /\ GoesOn("failing")
    /\ UNCHANGED <<shared, asked, woken, decoding>> /\ Works

Read ==
    /\ worker.place = "reading"
    /\ IF decodeGeneration # generation
       THEN /\ GoesOn("waiting")
            /\ UNCHANGED <<decoderFrame, decoderEof, pending>>
       ELSE LET n == Least(Chunk, Length - decoderFrame) IN
            /\ decoderEof' = (n = 0)
            /\ pending' = [i \in 1..n |-> decoderFrame + i]
            /\ decoderFrame' = decoderFrame + n
            /\ GoesOn("publishing")
    /\ UNCHANGED <<shared, asked, woken, opened, decodeGeneration>> /\ Works

\* Mutant of PublishPending: the frames decoded for an older position are pushed as well.
PublishAnyGeneration ==
    LET n    == Least(Len(pending), Capacity - Len(ring))
        left == SubSeq(pending, n + 1, Len(pending))
    IN
    /\ worker.place = "publishing" /\ mutex = "free"
    /\ GoesOn("waiting")
    /\ ring' = ring \o SubSeq(pending, 1, n)
    /\ pending' = left
    /\ eofGeneration' = IF decoderEof /\ left = <<>> THEN decodeGeneration ELSE eofGeneration
    /\ state' = IF state = "Loading" THEN "Ready" ELSE state
    /\ UNCHANGED <<generation, position, asked, woken, opened, decoderFrame, decoderEof,
                   decodeGeneration>> /\ Works

PublishPending ==
    LET n    == Least(Len(pending), Capacity - Len(ring))
        left == SubSeq(pending, n + 1, Len(pending))
        ends == decoderEof /\ left = <<>>
    IN
    /\ worker.place = "publishing" /\ mutex = "free"
    /\ GoesOn("waiting")
    /\ IF decodeGeneration # generation
       THEN /\ pending' = <<>>
            /\ UNCHANGED <<ring, state, eofGeneration>>
       ELSE /\ ring' = ring \o SubSeq(pending, 1, n)
            /\ pending' = left
            /\ eofGeneration' = IF ends THEN decodeGeneration ELSE eofGeneration
            /\ state' = IF state = "Loading" /\ (n # 0 \/ ends) THEN "Ready" ELSE state
    /\ UNCHANGED <<generation, position, asked, woken, opened, decoderFrame, decoderEof,
                   decodeGeneration>> /\ Works

Fail ==
    /\ worker.place = "failing" /\ mutex = "free"
    /\ state' = IF decodeGeneration = generation THEN "Failed" ELSE state
    /\ GoesOn("waiting")
    /\ UNCHANGED <<generation, eofGeneration, position, ring, asked, woken, decoding>> /\ Works

-----------------------------------------------------------------------------
(* The callback. *)
Renders == UNCHANGED <<generation, eofGeneration, mutex, suspended, asked, commanding, worker, decoding>>
Place(place) == render' = [render EXCEPT !.place = place]

Enter ==
    /\ render.place = "idle"
    /\ readers' = 1
    /\ Place("entered")
    /\ UNCHANGED <<state, position, ring, woken, heard>> /\ Renders

Look ==
    /\ render.place = "entered"
    /\ render' = [render EXCEPT !.place = IF suspended \/ state # "Playing" THEN "leaving" ELSE "popping",
                                !.generation = generation]
    /\ UNCHANGED <<state, position, ring, readers, woken, heard>> /\ Renders

PopRing ==
    LET n == Least(Block, Len(ring)) IN
    /\ render.place = "popping"
    /\ heard' = SubSeq(ring, 1, n)
    /\ ring' = SubSeq(ring, n + 1, Len(ring))
    /\ render' = [render EXCEPT !.place = "storing", !.taken = n]
    /\ UNCHANGED <<state, position, readers, woken>> /\ Renders

StorePosition ==
    /\ render.place = "storing"
    /\ position' = Least(position + render.taken, Length)
    /\ Place("checking")
    /\ UNCHANGED <<state, ring, readers, woken, heard>> /\ Renders

\* The ring is looked at first, the end of the file after it.
CheckEmpty ==
    /\ render.place = "checking"
    /\ Place(IF ring = <<>> THEN "ending" ELSE "leaving")
    /\ woken' = (woken \/ ring # <<>>)
    /\ UNCHANGED <<state, position, ring, readers, heard>> /\ Renders

\* Mutant of CheckEnd: a callback that has played the last frame there was wakes nobody.
CheckEndAsleep ==
    /\ render.place = "ending"
    /\ state' = IF eofGeneration = render.generation /\ generation = render.generation
                THEN "Finished" ELSE state
    /\ Place("leaving")
    /\ UNCHANGED <<position, ring, readers, woken, heard>> /\ Renders

CheckEnd ==
    /\ render.place = "ending"
    /\ state' = IF eofGeneration = render.generation /\ generation = render.generation
                THEN "Finished" ELSE state
    /\ Wake
    /\ Place("leaving")
    /\ UNCHANGED <<position, ring, readers, heard>> /\ Renders

Leave ==
    /\ render.place = "leaving"
    /\ readers' = 0
    /\ render' = [place |-> "idle", generation |-> 0, taken |-> 0]
    /\ UNCHANGED <<state, position, ring, woken, heard>> /\ Renders

-----------------------------------------------------------------------------
Controls ==
    \/ Lock \/ RequestUnload \/ Unloaded \/ Load \/ Unload
    \/ Play \/ Pause \/ Stop \/ Seek \/ Retune
Decodes ==
    \/ Remember \/ TakeRequest \/ FallAsleep \/ WakeUp \/ ApplyUnload \/ Open \/ ApplySeek
    \/ DecodeChunk \/ Read \/ PublishPending \/ Fail
Callback ==
    \/ Enter \/ Look \/ PopRing \/ StorePosition \/ CheckEmpty \/ CheckEnd \/ Leave

Next ==
    \/ \E c \in Commands, f \in 0..Length : Call(c, f)
    \/ Controls \/ Decodes \/ Throw \/ Callback

\* The device goes on calling, the worker goes on, and a command gets the mutex and a moment
\* between two callbacks in the end.
Fairness == SF_vars(Controls) /\ WF_vars(Decodes) /\ WF_vars(Callback)

Spec == Init /\ [][Next]_vars /\ Fairness

-----------------------------------------------------------------------------
(* "Old PCM must not be played after a seek" (AudioService-runtime-media-extension.md, 12):*)
(* what is heard follows the position commanded last, frame after frame, whatever the      *)
(* worker had decoded or was decoding for an older one.                                    *)
At == position + (IF render.place = "storing" THEN render.taken ELSE 0)
Heard == INSTANCE Tape WITH at <- At
PlaysTheTape == Heard!Spec

(* A source that plays a file it has opened comes to its end, is paused, stopped, unloaded *)
(* or fails: no wake-up of the worker is lost and no frame is left undecoded (:600-624).   *)
SongEnds == state = "Playing" /\ opened ~> state # "Playing"

(* Every command returns, whatever the worker and the callback are in the middle of.       *)
CommandsReturn == control.place # "idle" ~> control.place = "idle"

(* "At the end of the song PlaybackState = Finished, the exact final position is kept"     *)
(* (AudioService-runtime-media-extension.md, 16).                                          *)
FinishedIsTheEnd == [][state # "Finished" /\ state' = "Finished" => position = Length]_vars
=============================================================================
