----------------------------- MODULE MCHeapIrq -----------------------------
(***************************************************************************)
(* Requests of 4 and 40 bytes: a freed block of 40 is split by a request   *)
(* for 4 and its rest of 12 can be taken by a request that came meanwhile. *)
(***************************************************************************)
EXTENDS HeapIrq

MCBase == 4096
MCSizes == {4, 40}
MCRawSizes == {4096}
MCMaxBlocks == 4
MCMaxAddr == 4 * 4096
=============================================================================
