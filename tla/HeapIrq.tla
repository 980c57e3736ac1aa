------------------------------ MODULE HeapIrq ------------------------------
(***************************************************************************)
(* The heap of src/lib/memory.c when interrupts come in between.           *)
(*                                                                         *)
(* From sti in kernel_main on, the GUI loop calls kmalloc, kmalloc_a and   *)
(* kfree with interrupts on, and interrupt handlers call them too: the     *)
(* keyboard's runs shell commands, the network card's sends replies.  A    *)
(* handler runs with interrupts off, so its calls are one step here; the   *)
(* main thread's are cut where the code reads or writes free_list, a       *)
(* header or placement_addr.                                               *)
(*                                                                         *)
(* free_list and placement_addr are ordinary variables and the build is    *)
(* optimised (-O2): what the main thread has read or written in a call, it *)
(* may use again later in that call without reading it anew.               *)
(*                                                                         *)
(* raced records that a handler has interfered with a call of the main     *)
(* thread: it took the block that the main thread had found, or moved      *)
(* placement_addr or free_list between the main thread's reading and using *)
(* it.  No lock excludes this, and what follows is a corrupt heap (two     *)
(* owners of one block, a block that is its own successor, a list that has *)
(* lost a block): the model stops there.  What it shows is that nothing    *)
(* else can go wrong.                                                      *)
(***************************************************************************)
EXTENDS HeapLayout, FiniteSets

CONSTANTS
  Base,        \* where placement_addr starts
  Sizes,       \* the sizes asked for
  RawSizes,    \* the sizes a handler asks kmalloc_raw_aligned for (elf_load)
  MaxBlocks,   \* bound: headers there can be
  MaxAddr      \* bound: no call is begun that would carve past it

ASSUME HeapIrqAssumption ==
  /\ Base \in Nat \ {0}
  /\ Sizes \subseteq Nat
  /\ RawSizes \subseteq Nat \ {0}
  /\ MaxBlocks \in Nat
  /\ MaxAddr \in Nat

VARIABLES
  mem,             \* the headers in memory, by address
  free_list,
  placement_addr,
  main,            \* the main thread's call: where it is and its locals
  held,            \* history: the regions that callers have and who has them
  raced            \* history: a handler interfered with the main thread's call

vars == <<mem, free_list, placement_addr, main, held, raced>>

NULL == 0

(* block is find_free_block's curr and kmalloc's block, addr what was read *)
(* from placement_addr, head what was read from free_list, n the rounded   *)
(* size.                                                                   *)
Idle == [pc |-> "idle", n |-> 0, block |-> NULL, addr |-> NULL, head |-> NULL]

SplitPcs == {"check", "new_size", "new_next", "old_size", "old_next", "take"}
CarvePcs == {"header", "link", "advance"}
Pcs == {"idle", "align", "round", "walk", "carve"} \cup SplitPcs \cup CarvePcs

Init ==
  /\ mem = [a \in {} |-> NULL]
  /\ free_list = NULL
  /\ placement_addr = Base
  /\ main = Idle
  /\ held = {}
  /\ raced = FALSE

(* The list that starts with a: the least set closed under next. *)
Closed(m, S) == \A x \in S : m[x].next \in S \cup {NULL}

From(m, a) ==
  {x \in DOMAIN m : \A S \in SUBSET DOMAIN m :
                      a \in S \cup {NULL} /\ Closed(m, S) => x \in S}

Listed == From(mem, free_list)

FitsAt(a, n) == mem[a].free = 1 /\ mem[a].size >= n

FirstFit(a, n) ==
  /\ a \in Listed /\ FitsAt(a, n)
  /\ \A b \in Listed \ {a} : FitsAt(b, n) => a \notin From(mem, b)

Splits(a, n) == mem[a].size >= n + HdrSize + 4

Room == Cardinality(DOMAIN mem) + (IF main.pc = "idle" THEN 0 ELSE 1) < MaxBlocks

(* The headers with one written at a. *)
Put(m, a, header) == [x \in DOMAIN m \cup {a} |-> IF x = a THEN header ELSE m[x]]

Hold(who, a, n) == held \cup {[owner |-> who, addr |-> a, len |-> n]}
------------------------------------------------------------------------------
(* The main thread calls kmalloc or kmalloc_z. *)
Kmalloc(need) ==
  /\ main.pc = "idle" /\ Room
  /\ placement_addr + HdrSize + RoundUp4(need) <= MaxAddr
  /\ main' = [pc |-> "walk", n |-> RoundUp4(need), block |-> free_list, addr |-> NULL,
              head |-> free_list]
  /\ UNCHANGED <<mem, free_list, placement_addr, held, raced>>

(* wm_init, which runs with interrupts on, calls kmalloc_a. *)
KmallocA(need) ==
  /\ main.pc = "idle" /\ Room
  /\ PageUp(placement_addr) + HdrSize + RoundUp4(need) <= MaxAddr
  /\ main' = [Idle EXCEPT !.pc = "align", !.n = RoundUp4(need)]
  /\ UNCHANGED <<mem, free_list, placement_addr, held, raced>>

(* placement_addr is read, and found aligned or not. *)
Align ==
  /\ main.pc = "align"
  /\ main' = IF placement_addr % PageSize = 0
             THEN [main EXCEPT !.pc = "walk", !.addr = placement_addr,
                               !.block = free_list, !.head = free_list]
             ELSE [main EXCEPT !.pc = "round", !.addr = placement_addr]
  /\ UNCHANGED <<mem, free_list, placement_addr, held, raced>>

(* The aligned address is written, and kmalloc starts its walk. *)
Round ==
  /\ main.pc = "round"
  /\ placement_addr' = PageUp(main.addr)
  /\ main' = [main EXCEPT !.pc = "walk", !.addr = PageUp(@),
                          !.block = free_list, !.head = free_list]
  /\ UNCHANGED <<mem, free_list, held, raced>>

(* find_free_block looks at one block. *)
Walk ==
  /\ main.pc = "walk"
  /\ main' = IF main.block = NULL THEN [main EXCEPT !.pc = "carve"]
             ELSE IF FitsAt(main.block, main.n) THEN [main EXCEPT !.pc = "check"]
             ELSE [main EXCEPT !.block = mem[@].next]
  /\ UNCHANGED <<mem, free_list, placement_addr, held, raced>>

Check ==
  /\ main.pc = "check"
  /\ main' = [main EXCEPT !.pc = IF Splits(main.block, main.n) THEN "new_size" ELSE "take"]
  /\ UNCHANGED <<mem, free_list, placement_addr, held, raced>>

NewBlock == main.block + HdrSize + main.n

SplitStep(pc, next, m) ==
  /\ main.pc = pc
  /\ main' = [main EXCEPT !.pc = next]
  /\ mem' = m
  /\ UNCHANGED <<free_list, placement_addr, held, raced>>

NewSize ==
  SplitStep("new_size", "new_next",
    Put(mem, NewBlock, [size |-> mem[main.block].size - main.n - HdrSize,
                        free |-> 0, next |-> NULL]))

(* Mutant: the new block is not given its successor. *)
NewNextForgets ==
  SplitStep("new_next", "old_size", Put(mem, NewBlock, [mem[NewBlock] EXCEPT !.free = 1]))

NewNext ==
  SplitStep("new_next", "old_size",
    Put(mem, NewBlock, [size |-> mem[NewBlock].size, free |-> 1,
                        next |-> mem[main.block].next]))

(* Mutant: the found block keeps its size. *)
OldSizeForgets == SplitStep("old_size", "old_next", mem)

OldSize ==
  SplitStep("old_size", "old_next",
    Put(mem, main.block, [mem[main.block] EXCEPT !.size = main.n]))

OldNext ==
  SplitStep("old_next", "take",
    Put(mem, main.block, [mem[main.block] EXCEPT !.next = NewBlock]))

(* The block is taken and returned. *)
Take ==
  /\ main.pc = "take"
  /\ mem' = Put(mem, main.block, [mem[main.block] EXCEPT !.free = 0])
  /\ held' = Hold("main", main.block + HdrSize, main.n)
  /\ main' = Idle
  /\ UNCHANGED <<free_list, placement_addr, raced>>

(* No block was found: placement_addr is read, or used as kmalloc_a knows it. *)
Carve ==
  /\ main.pc = "carve"
  /\ \E addr \in {placement_addr, main.addr} \ {NULL} :
       /\ main' = [main EXCEPT !.pc = "header", !.addr = addr]
       /\ raced' = (addr # placement_addr)
  /\ UNCHANGED <<mem, free_list, placement_addr, held>>

(* The header is written; free_list is read, or used as the walk knows it. *)
Header ==
  /\ main.pc = "header"
  /\ \E head \in {free_list, main.head} :
       /\ mem' = Put(mem, main.addr, [size |-> main.n, free |-> 0, next |-> head])
       /\ raced' = (head # free_list)
  /\ main' = [main EXCEPT !.pc = "link"]
  /\ UNCHANGED <<free_list, placement_addr, held>>

Link ==
  /\ main.pc = "link"
  /\ free_list' = main.addr
  /\ main' = [main EXCEPT !.pc = "advance"]
  /\ UNCHANGED <<mem, placement_addr, held, raced>>

(* placement_addr is read again, raised and written; the block returned. *)
Advance ==
  /\ main.pc = "advance"
  /\ placement_addr' = placement_addr + HdrSize + main.n
  /\ held' = Hold("main", main.addr + HdrSize, main.n)
  /\ main' = Idle
  /\ UNCHANGED <<mem, free_list, raced>>

(* kfree is one store.  owner gives back a region it has. *)
Kfree(r) ==
  /\ r.owner = "main" => main.pc = "idle"
  /\ mem' = Put(mem, r.addr - HdrSize, [mem[r.addr - HdrSize] EXCEPT !.free = 1])
  /\ held' = held \ {r}
  /\ UNCHANGED <<free_list, placement_addr, main, raced>>
------------------------------------------------------------------------------
(* A handler's whole call of kmalloc, placement_addr being place. *)
IrqReuse(n, place) ==
  \E a \in Listed :
    LET b == a + HdrSize + n IN
    /\ FirstFit(a, n)
    /\ mem' = IF Splits(a, n)
              THEN Put(Put(mem, a, [size |-> n, free |-> 0, next |-> b]), b,
                       [size |-> mem[a].size - n - HdrSize, free |-> 1,
                        next |-> mem[a].next])
              ELSE Put(mem, a, [mem[a] EXCEPT !.free = 0])
    /\ placement_addr' = place
    /\ held' = Hold("irq", a + HdrSize, n)
    /\ raced' = (main.pc \in SplitPcs /\ main.block = a)
    /\ UNCHANGED <<free_list, main>>

IrqCarve(n, place) ==
  /\ \A a \in Listed : ~FitsAt(a, n)
  /\ mem' = Put(mem, place, [size |-> n, free |-> 0, next |-> free_list])
  /\ free_list' = place
  /\ placement_addr' = place + HdrSize + n
  /\ held' = Hold("irq", place + HdrSize, n)
  /\ raced' = (main.pc \in CarvePcs \cup {"round"})
  /\ UNCHANGED main

IrqKmallocFrom(n, place) ==
  /\ Room
  /\ place + HdrSize + n <= MaxAddr
  /\ IrqReuse(n, place) \/ IrqCarve(n, place)

IrqKmalloc(need) == IrqKmallocFrom(RoundUp4(need), placement_addr)

IrqKmallocA(need) == IrqKmallocFrom(RoundUp4(need), PageUp(placement_addr))

IrqRaw(need) ==
  LET addr == PageUp(placement_addr) IN
  /\ addr + need <= MaxAddr
  /\ placement_addr' = addr + need
  /\ held' = Hold("raw", addr, need)
  /\ raced' = (main.pc \in CarvePcs \cup {"round"})
  /\ UNCHANGED <<mem, free_list, main>>

Main ==
  \/ \E need \in Sizes : Kmalloc(need) \/ KmallocA(need)
  \/ Align \/ Round
  \/ Walk \/ Check \/ NewSize \/ NewNext \/ OldSize \/ OldNext \/ Take
  \/ Carve \/ Header \/ Link \/ Advance

Irq ==
  \/ \E need \in Sizes : IrqKmalloc(need) \/ IrqKmallocA(need)
  \/ \E need \in RawSizes : IrqRaw(need)

Next ==
  /\ ~raced
  /\ Main \/ Irq \/ \E r \in {h \in held : h.owner # "raw"} : Kfree(r)

Spec == Init /\ [][Next]_vars
------------------------------------------------------------------------------
(* Every variable has its type. *)
TypeOK ==
  /\ mem \in [DOMAIN mem -> [size : Nat, free : {0, 1}, next : DOMAIN mem \cup {NULL}]]
  /\ \A a \in DOMAIN mem : a \in Nat /\ a >= Base
  /\ free_list \in DOMAIN mem \cup {NULL}
  /\ placement_addr \in Nat /\ placement_addr >= Base
  /\ main \in [pc : Pcs, n : Nat, block : DOMAIN mem \cup {NULL}, addr : Nat,
               head : DOMAIN mem \cup {NULL}]
  /\ held \subseteq [owner : {"main", "irq", "raw"}, addr : Nat, len : Nat]
  /\ raced \in BOOLEAN

(* The header that the main thread has written and not yet put on the list. *)
Unlinked ==
  CASE main.pc \in {"new_next", "old_size", "old_next"} -> {NewBlock}
    [] main.pc = "link" -> {main.addr}
    [] OTHER -> {}

(* At every instant at which a handler can come, the list ends, holds each *)
(* header but the one being put on it, and its blocks share no byte;       *)
(* each caller's region is a block of it in use and large enough.          *)
ListSound ==
  /\ TypeOK
  /\ ~raced =>
       /\ free_list # NULL => \E a \in Listed : mem[a].next = NULL
       /\ Listed = DOMAIN mem \ Unlinked
       /\ \A a, b \in Listed : a < b => a + HdrSize + mem[a].size <= b
       /\ \A h \in held : h.owner # "raw" =>
            /\ h.addr - HdrSize \in Listed
            /\ mem[h.addr - HdrSize].free = 0
            /\ mem[h.addr - HdrSize].size >= h.len

(* The regions that callers have, whoever they are. *)
Regions == {[addr |-> h.addr, len |-> h.len] : h \in held}

Abs == INSTANCE Allocator WITH regions <- Regions

(* Main thread and handlers together see one allocator, up to the first    *)
(* interference.                                                           *)
AllocatorUnlessRaced == Abs!Init /\ [][raced' \/ Abs!Next]_Regions
=============================================================================
