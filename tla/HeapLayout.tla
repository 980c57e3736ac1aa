----------------------------- MODULE HeapLayout -----------------------------
(***************************************************************************)
(* The sizes and roundings of src/lib/memory.c, shared by the two modules  *)
(* about its heap.                                                         *)
(***************************************************************************)
EXTENDS Naturals

HdrSize == 24      \* sizeof(malloc_block_t)
PageSize == 4096

(* Bytes from addr on, len of them. *)
Region == [addr : Nat, len : Nat]

Apart(r, s) == r.addr + r.len <= s.addr \/ s.addr + s.len <= r.addr

(* Mutant: the size is cut to a multiple of four instead of raised to one. *)
RoundDown4(n) == (n \div 4) * 4

RoundUp4(n) == ((n + 3) \div 4) * 4

PageUp(a) == IF a % PageSize = 0 THEN a ELSE (a \div PageSize) * PageSize + PageSize
=============================================================================
