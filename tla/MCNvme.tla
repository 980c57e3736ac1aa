------------------------------- MODULE MCNvme -------------------------------
(***************************************************************************)
(* What the two runs say of the I/O queues: rings of four entries that     *)
(* nine calls go round twice, two of which may time out; and a ring of     *)
(* sixteen entries on a page for two.                                      *)
(***************************************************************************)
EXTENDS Nvme
=============================================================================
