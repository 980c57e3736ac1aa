---------------------------- MODULE Multitasking ----------------------------
(***************************************************************************)
(* What a scheduler promises the programs it runs: each of them goes on    *)
(* from where it was, as if it had the processor to itself.  A program     *)
(* starts at its first step, and giving the processor to another changes   *)
(* the progress of none.  Nothing is said of order, of slots or of frames. *)
(***************************************************************************)
EXTENDS Naturals

CONSTANTS
  Slots,   \* the names a program can have
  Steps    \* progress is counted modulo this

VARIABLES
  started,   \* the programs there are
  running,   \* the one that has the processor
  progress   \* how far each of them is

vars == <<started, running, progress>>

Init ==
  /\ running \in Slots
  /\ started = {running}
  /\ progress = [s \in Slots |-> 0]

Start(s) ==
  /\ s \notin started
  /\ started' = started \cup {s}
  /\ progress[s] = 0
  /\ UNCHANGED <<running, progress>>

Advance ==
  /\ progress' = [progress EXCEPT ![running] = (@ + 1) % Steps]
  /\ UNCHANGED <<started, running>>

Switch(s) ==
  /\ s \in started
  /\ running' = s
  /\ UNCHANGED <<started, progress>>

Next == Advance \/ \E s \in Slots : Start(s) \/ Switch(s)

Spec == Init /\ [][Next]_vars
=============================================================================
