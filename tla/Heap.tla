-------------------------------- MODULE Heap --------------------------------
(***************************************************************************)
(* The kernel heap of src/lib/memory.c, one call at a time.                *)
(*                                                                         *)
(* Memory from Base upwards is carved at placement_addr.  kmalloc puts a   *)
(* malloc_block_t header in front of what it returns and keeps every       *)
(* header for ever on the list free_list; kfree only sets a flag, and a    *)
(* later kmalloc takes the first flagged block of the list that is large   *)
(* enough, splitting it when the rest can hold a header and four bytes.    *)
(* kmalloc_raw_aligned carves page-aligned memory without a header, which  *)
(* can never be given back.  kmalloc_z is kmalloc and a memset of what was *)
(* asked for: it has kmalloc's transitions.                                *)
(*                                                                         *)
(* `blocks` is free_list in list order, a block being its header's address *)
(* and fields.  The chain of next pointers is broken up in HeapIrq.        *)
(***************************************************************************)
EXTENDS HeapLayout, Sequences, SequencesExt

CONSTANTS
  Base,        \* the address memory_init was given
  Sizes,       \* the sizes callers ask kmalloc for
  RawSizes,    \* the sizes callers ask kmalloc_raw_aligned for
  MaxBlocks,   \* bound: no new block once the list has this many
  MaxAddr      \* bound: no call is made that would carve past it

ASSUME HeapAssumption ==
  /\ Base \in Nat
  /\ Sizes \subseteq Nat
  /\ RawSizes \subseteq Nat \ {0}
  /\ MaxBlocks \in Nat
  /\ MaxAddr \in Nat

VARIABLES
  blocks,          \* the list free_list, first block first
  placement_addr,  \* where the next new memory is carved
  raw,             \* history: the regions kmalloc_raw_aligned has returned
  ret              \* history: what the last call returned, and what it was asked

vars == <<blocks, placement_addr, raw, ret>>

Block == [addr : Nat, size : Nat, free : {0, 1}]
Ret == [call : {"none", "kmalloc", "kmalloc_a", "raw", "kfree"},
        ptr : Nat, need : Nat]

End(b) == b.addr + HdrSize + b.size
Payload(b) == [addr |-> b.addr + HdrSize, len |-> b.size]
Extent(b) == [addr |-> b.addr, len |-> HdrSize + b.size]
------------------------------------------------------------------------------
Init ==
  /\ blocks = <<>>
  /\ placement_addr = Base
  /\ raw = {}
  /\ ret = [call |-> "none", ptr |-> 0, need |-> 0]

(* Mutant: a block is taken by its size alone. *)
FitsBySize(i, n) == blocks[i].size >= n

Fits(i, n) == blocks[i].free = 1 /\ blocks[i].size >= n

(* find_free_block: the first block of the list that is free and holds n. *)
FirstFit(i, n) ==
  /\ Fits(i, n)
  /\ \A j \in DOMAIN blocks : j < i => ~Fits(j, n)

(* Mutant: the header of the new block is taken for part of its payload. *)
SplitForgetsHeader(i, n) ==
  InsertAt([blocks EXCEPT ![i] = [addr |-> @.addr, size |-> n, free |-> 0]],
           i + 1,
           [addr |-> blocks[i].addr + HdrSize + n,
            size |-> blocks[i].size - n,
            free |-> 1])

(* Mutant: the block is shortened and what is left is in no block. *)
SplitDropsRest(i, n) == [blocks EXCEPT ![i] = [addr |-> @.addr, size |-> n, free |-> 0]]

(* Block i is cut after n bytes; what is left becomes a free block behind it. *)
Split(i, n) ==
  InsertAt([blocks EXCEPT ![i] = [addr |-> @.addr, size |-> n, free |-> 0]],
           i + 1,
           [addr |-> blocks[i].addr + HdrSize + n,
            size |-> blocks[i].size - n - HdrSize,
            free |-> 1])

(* The branch of kmalloc that reuses a block. *)
Reuse(call, need, n, place) ==
  \E i \in DOMAIN blocks :
    /\ FirstFit(i, n)
    /\ blocks' = IF blocks[i].size >= n + HdrSize + 4
                 THEN Split(i, n)
                 ELSE [blocks EXCEPT ![i].free = 0]
    /\ placement_addr' = place
    /\ ret' = [call |-> call, ptr |-> blocks[i].addr + HdrSize, need |-> need]

(* The branch of kmalloc that carves a block and puts it first on the list. *)
Carve(call, need, n, place) ==
  /\ \A i \in DOMAIN blocks : ~Fits(i, n)
  /\ blocks' = <<[addr |-> place, size |-> n, free |-> 0]>> \o blocks
  /\ placement_addr' = place + HdrSize + n
  /\ ret' = [call |-> call, ptr |-> place + HdrSize, need |-> need]

(* The body of kmalloc, with placement_addr as its caller left it. *)
KmallocFrom(call, need, place) ==
  /\ Len(blocks) < MaxBlocks
  /\ place + HdrSize + RoundUp4(need) <= MaxAddr
  /\ \/ Reuse(call, need, RoundUp4(need), place)
     \/ Carve(call, need, RoundUp4(need), place)
  /\ raw' = raw

Kmalloc(need) == KmallocFrom("kmalloc", need, placement_addr)

(* The placement address is moved to a page, and then kmalloc decides. *)
KmallocA(need) == KmallocFrom("kmalloc_a", need, PageUp(placement_addr))

KmallocRawAligned(need) ==
  LET addr == PageUp(placement_addr) IN
  /\ addr + need <= MaxAddr
  /\ placement_addr' = addr + need
  /\ raw' = raw \cup {[addr |-> addr, len |-> need]}
  /\ ret' = [call |-> "raw", ptr |-> addr, need |-> need]
  /\ blocks' = blocks

(* kfree of a pointer that kmalloc returned and that is still in use.  The *)
(* kernel's callers give kfree nothing else, but for ahci_init (README).   *)
Kfree(i) ==
  /\ blocks[i].free = 0
  /\ blocks' = [blocks EXCEPT ![i].free = 1]
  /\ ret' = [call |-> "kfree", ptr |-> blocks[i].addr + HdrSize, need |-> 0]
  /\ UNCHANGED <<placement_addr, raw>>

Next ==
  \/ \E need \in Sizes : Kmalloc(need)
  \/ \E need \in Sizes : KmallocA(need)
  \/ \E need \in RawSizes : KmallocRawAligned(need)
  \/ \E i \in DOMAIN blocks : Kfree(i)

Spec == Init /\ [][Next]_vars
------------------------------------------------------------------------------
(* Every variable has its type. *)
TypeOK ==
  /\ blocks \in Seq(Block)
  /\ placement_addr \in Nat
  /\ raw \subseteq Region
  /\ ret \in Ret

BlocksInside ==
  \A i \in DOMAIN blocks :
    Base <= blocks[i].addr /\ End(blocks[i]) <= placement_addr

BlocksApart ==
  \A i, j \in DOMAIN blocks : i # j => Apart(Extent(blocks[i]), Extent(blocks[j]))

RawInside ==
  \A r \in raw : Base <= r.addr /\ r.addr + r.len <= placement_addr /\ r.len > 0

RawApart ==
  /\ \A r \in raw : \A i \in DOMAIN blocks : Apart(r, Extent(blocks[i]))
  /\ \A r, s \in raw : r # s => Apart(r, s)

(* No header and no payload, in use or free, ever shares a byte with       *)
(* another one or with raw memory, and all of it lies between Base and     *)
(* placement_addr, whatever splits and page alignments came before.        *)
HeapSound == BlocksInside /\ BlocksApart /\ RawInside /\ RawApart

(* What the last kmalloc returned is in use and has room for what its      *)
(* caller asked, also when a freed block was cut to the rounded size.      *)
ReturnedUsable ==
  ret.call \in {"kmalloc", "kmalloc_a"} =>
    \E i \in DOMAIN blocks :
      /\ blocks[i].addr + HdrSize = ret.ptr
      /\ blocks[i].free = 0
      /\ blocks[i].size >= ret.need

(* Bytes are lost to page alignment only: what follows a block is, at once *)
(* or at the next page, another block, raw memory or the placement         *)
(* address.  A split that forgot part of the block would break this.       *)
Starts == {blocks[i].addr : i \in DOMAIN blocks} \cup {r.addr : r \in raw}
            \cup {placement_addr}

NoLostBytes ==
  \A i \in DOMAIN blocks :
    End(blocks[i]) \in Starts \/ PageUp(End(blocks[i])) \in Starts

(* An address that holds a header holds one for ever, and the block behind *)
(* it never grows: kmalloc only cuts blocks and kfree joins none, which is *)
(* why a pointer that was freed twice still meets a header.                *)
HeadersStay ==
  [][\A i \in DOMAIN blocks : \E j \in DOMAIN blocks' :
       /\ blocks'[j].addr = blocks[i].addr
       /\ blocks'[j].size <= blocks[i].size]_vars

(* The regions in use, as the callers of the heap see them. *)
Regions ==
  {Payload(blocks[i]) : i \in {k \in DOMAIN blocks : blocks[k].free = 0}} \cup raw

Abs == INSTANCE Allocator WITH regions <- Regions

(* The heap implements the abstract allocator. *)
ImplementsAllocator == Abs!Spec
=============================================================================
