---------------------------- MODULE MCInterrupts ----------------------------
(***************************************************************************)
(* All four lines with the network card on 11, behind the mouse's slave    *)
(* PIC, as on the machines the Makefile starts.                            *)
(***************************************************************************)
EXTENDS Interrupts
=============================================================================
