--------------------------- MODULE MCWindowManager ---------------------------
(***************************************************************************)
(* Four windows: one in the main thread's hands, one in front of it, one   *)
(* behind it and one that a process opens meanwhile.                       *)
(***************************************************************************)
EXTENDS WindowManager, TLC

Symmetry == Permutations(Wins)
=============================================================================
