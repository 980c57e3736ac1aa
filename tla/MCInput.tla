------------------------------ MODULE MCInput ------------------------------
(***************************************************************************)
(* A ring of three slots, which three handlers' pushes can lap during one  *)
(* of the GUI loop's; lines of two and three characters, as MAX_CMD is     *)
(* half of KEYBOARD_BUFFER_SIZE; terminals between which the focus can     *)
(* move while a line is typed.                                             *)
(***************************************************************************)
EXTENDS Input, TLC

CONSTANTS t1, t2

MCTerminals == {t1, t2}
Symmetry == Permutations(MCTerminals)
=============================================================================
