----------------------------- MODULE Allocator -----------------------------
(***************************************************************************)
(* What a kernel allocator promises its callers: it hands out regions of   *)
(* memory, no two of them that are in use at once share a byte, and a      *)
(* region stays what it was until it is given back.  Nothing is said of    *)
(* headers, of free lists or of where a region comes from.                 *)
(***************************************************************************)
EXTENDS Naturals

VARIABLE regions   \* the regions in use, each an address and a length

Region == [addr : Nat, len : Nat]

(* r and s share no byte. *)
Apart(r, s) == r.addr + r.len <= s.addr \/ s.addr + s.len <= r.addr

Init == regions = {}

(* Some region, apart from every region in use, is handed out. *)
Alloc ==
  \E r \in regions' \ regions :
    /\ r \in Region
    /\ \A s \in regions : Apart(r, s)
    /\ regions' = regions \cup {r}

(* A region in use is given back. *)
Free == \E r \in regions : regions' = regions \ {r}

Next == Alloc \/ Free

Spec == Init /\ [][Next]_regions
=============================================================================
