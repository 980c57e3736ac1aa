------------------------------- MODULE MCHeap -------------------------------
(***************************************************************************)
(* A heap that starts inside a page, with requests that round up (1 to 4), *)
(* that fit the rest of a split block exactly (12) and that a split can    *)
(* serve twice (40), and raw allocations that leave the placement address  *)
(* inside a page and on a page.                                            *)
(***************************************************************************)
EXTENDS Heap

MCBase == 4096
MCSizes == {1, 12, 40}
MCRawSizes == {4096}
MCMaxBlocks == 4
MCMaxAddr == 4 * 4096
=============================================================================
