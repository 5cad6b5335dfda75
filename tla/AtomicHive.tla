----------------------------- MODULE AtomicHive -----------------------------
(***************************************************************************)
(* What the configuration manager promises of a hive and its log: whatever *)
(* step a save had reached when the machine stopped, the next load finds   *)
(* one whole image, either what the last completed save left or what the   *)
(* save that did not complete was writing.                                 *)
(***************************************************************************)
CONSTANTS Images,       \* what a hive can hold
          Down          \* the view while the hive is not loaded

VARIABLES view,         \* the image in memory
          saved,        \* the image the next load will find
          attempt       \* the image of the last save that was begun

vars == <<view, saved, attempt>>

Init == view \in Images /\ saved = view /\ attempt = view

\* A cell is written in memory.
Write == view \in Images /\ view' \in Images /\ UNCHANGED <<saved, attempt>>

\* A save of the whole image begins.
Attempt == view \in Images /\ attempt' = view /\ UNCHANGED <<view, saved>>

\* The save takes effect, in one step.
Commit == saved' = attempt /\ UNCHANGED <<view, attempt>>

\* The machine stops: the save under way has taken effect or it never will.
Crash == view' = Down /\ saved' \in {saved, attempt} /\ UNCHANGED attempt

Load == view = Down /\ view' = saved /\ attempt' = saved /\ UNCHANGED saved

Next == Write \/ Attempt \/ Commit \/ Crash \/ Load

Spec == Init /\ [][Next]_vars
=============================================================================
