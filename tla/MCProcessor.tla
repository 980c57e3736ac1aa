---------------------------- MODULE MCProcessor ----------------------------
(***************************************************************************)
(* Five slots: the table fills up, exec fails, and a process created       *)
(* behind the current one is passed by the search and by the wrap.  All    *)
(* four interrupt lines, with the network card behind the mouse's PIC, as  *)
(* on the machines the Makefile starts.                                    *)
(***************************************************************************)
EXTENDS Processor
=============================================================================
