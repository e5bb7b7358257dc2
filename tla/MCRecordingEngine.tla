------------------------- MODULE MCRecordingEngine -------------------------
EXTENDS RecordingEngine

\* A take of either kind has been prepared: no callback has come and its worker is asleep.
Prepared ==
  /\ \E tap \in Taps :
       rec = [state |-> "Prepared", epoch |-> 1, generation |-> 0, tap |-> tap, lead |-> 0,
              timeline |-> 0, producers |-> 0, queue |-> <<>>]
  /\ engine = [suspended |-> FALSE, readers |-> 0, aligner |-> Zeros, blocks |-> 0,
               generation |-> 0, device |-> 0, commands |-> 1]
  /\ push = [t \in Threads |-> NoPush]
  /\ render = NoCallback
  /\ worker = [at |-> "asleep", woken |-> FALSE, terminate |-> FALSE, file |-> <<>>]
  /\ op = NoCommand
  /\ due = <<>> /\ lost = {} /\ revived = FALSE

PreparedSpec == Prepared /\ [][Next]_vars /\ Fairness
=============================================================================
