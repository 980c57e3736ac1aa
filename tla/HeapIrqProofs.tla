--------------------------- MODULE HeapIrqProofs ---------------------------
(***************************************************************************)
(* Proofs about HeapIrq, for every base, sizes, number of blocks and order *)
(* of calls and interrupts.  ListSound is inductive with what the main     *)
(* thread may rely on between two of its accesses as long as no handler    *)
(* interfered (InHand), and once the block that is being split is known to *)
(* cover the new one until its size is written (Sized), and the block      *)
(* being carved to lie above everything (Limit).  The list is a least      *)
(* closed set, so what becomes of it when a header changes (SameList,      *)
(* Pushed, InsertedAfter) needs no induction.                              *)
(***************************************************************************)
EXTENDS HeapIrq, TLAPS

End(a) == a + HdrSize + mem[a].size

(* The headers whose blocks share no byte: a new block lies in the one it  *)
(* is split from until that one's size is written.                         *)
Sized == DOMAIN mem \ (IF main.pc \in {"new_next", "old_size"} THEN {NewBlock} ELSE {})

(* Where what is there ends: where the main thread carves, if it does. *)
Limit == IF main.pc \in CarvePcs THEN main.addr ELSE placement_addr

(* a is the block that the main thread carves. *)
Carved(a) == main.pc \in {"link", "advance"} /\ a = main.addr

ListEnds == free_list # NULL => \E a \in Listed : mem[a].next = NULL
AllListed == Listed = DOMAIN mem \ Unlinked
Spaced == \A a, b \in Sized : a < b => End(a) <= b
Below == \A a \in Sized : Carved(a) \/ End(a) <= Limit

RawClear ==
  \A h \in held : h.owner = "raw" =>
    /\ h.len > 0 /\ h.addr + h.len <= Limit
    /\ \A a \in Sized : h.addr + h.len <= a \/ End(a) <= h.addr

(* Each caller has a block of its own. *)
Owned ==
  \A h \in held : h.owner # "raw" =>
    /\ h.addr - HdrSize \in DOMAIN mem \ Unlinked
    /\ mem[h.addr - HdrSize].free = 0
    /\ mem[h.addr - HdrSize].size >= h.len

OneOwner ==
  \A h, k \in held : h.owner # "raw" /\ k.owner # "raw" /\ h.addr = k.addr => h = k

(* What the main thread relies on. *)
SplitKnown ==
  /\ main.pc \in SplitPcs => main.block # NULL /\ mem[main.block].free = 1
                                               /\ mem[main.block].size >= main.n
  /\ main.pc \in {"new_size", "new_next", "old_size"} => Splits(main.block, main.n)
  /\ main.pc \in {"new_next", "old_size"} =>
       /\ NewBlock \in DOMAIN mem
       /\ mem[NewBlock].size = mem[main.block].size - main.n - HdrSize
  /\ main.pc \in {"old_size", "old_next"} => mem[NewBlock].next = mem[main.block].next
  /\ main.pc = "old_next" => mem[main.block].size = main.n /\ NewBlock \in DOMAIN mem

CarveKnown ==
  /\ main.pc = "round" => PageUp(placement_addr) = PageUp(main.addr)
  /\ main.pc \in CarvePcs => Base <= main.addr /\ main.addr <= placement_addr
  /\ main.pc \in {"link", "advance"} =>
       main.addr \in DOMAIN mem /\ mem[main.addr].size = main.n /\ mem[main.addr].free = 0
  /\ main.pc = "link" => mem[main.addr].next = free_list
  /\ main.pc = "advance" =>
       \A h \in held : h.owner # "raw" => h.addr # main.addr + HdrSize

Listing == ListEnds /\ AllListed
Spacing == Spaced /\ Below /\ RawClear
Owning == Owned /\ OneOwner
InHand == SplitKnown /\ CarveKnown

IInv == TypeOK /\ (~raced => Listing /\ Spacing /\ Owning /\ InHand)
------------------------------------------------------------------------------
(* Roundings. *)
LEMMA Roundings ==
  ASSUME NEW x \in Nat
  PROVE  /\ RoundUp4(x) \in Nat
         /\ PageUp(x) \in Nat /\ x <= PageUp(x) /\ PageUp(PageUp(x)) = PageUp(x)
<1>1. RoundUp4(x) \in Nat /\ PageUp(x) \in Nat /\ x <= PageUp(x)
  BY DEF RoundUp4, PageUp, PageSize
<1>2. PageUp(x) % PageSize = 0
  BY DEF PageUp, PageSize
<1> QED
  BY <1>1, <1>2 DEF PageUp

(* A list is closed under next and no larger set is needed. *)
LEMMA ListClosed ==
  ASSUME NEW m, NEW s \in DOMAIN m \cup {NULL},
         \A x \in DOMAIN m : m[x].next \in DOMAIN m \cup {NULL}
  PROVE  /\ From(m, s) \subseteq DOMAIN m
         /\ s \in From(m, s) \cup {NULL}
         /\ Closed(m, From(m, s))
  BY DEF From, Closed

LEMMA ListLeast ==
  ASSUME NEW m, NEW s, NEW T \in SUBSET DOMAIN m, s \in T \cup {NULL}, Closed(m, T)
  PROVE  From(m, s) \subseteq T
  BY DEF From

(* A closed set that holds a list's start holds the list, also when it is  *)
(* closed with a changed header, if that passes on what the old one did.   *)
LEMMA ListWithin ==
  ASSUME NEW m, NEW s \in DOMAIN m \cup {NULL}, NEW T, s \in T \cup {NULL},
         \A x \in DOMAIN m : m[x].next \in DOMAIN m \cup {NULL},
         \A x \in From(m, s) \cap T : m[x].next \in T \cup {NULL}
  PROVE  From(m, s) \subseteq T
<1> DEFINE U == From(m, s) \cap T
<1>1. U \in SUBSET DOMAIN m /\ s \in U \cup {NULL}
  BY ListClosed
<1>2. Closed(m, U)
  BY ListClosed DEF Closed
<1> HIDE DEF U
<1>3. From(m, s) \subseteq U
  BY <1>1, <1>2, ListLeast
<1> QED
  BY <1>3 DEF U

(* A list stays when its headers' successors do. *)
LEMMA SameList ==
  ASSUME NEW m, NEW w, NEW s \in DOMAIN m \cup {NULL},
         \A x \in DOMAIN m : m[x].next \in DOMAIN m \cup {NULL},
         \A x \in DOMAIN w : w[x].next \in DOMAIN w \cup {NULL},
         \A x \in From(m, s) : x \in DOMAIN w /\ w[x].next = m[x].next
  PROVE  From(w, s) = From(m, s)
<1>1. s \in From(m, s) \cup {NULL} /\ Closed(m, From(m, s))
  BY ListClosed
<1>2. s \in DOMAIN w \cup {NULL}
  BY <1>1
<1>3. From(w, s) \subseteq From(m, s)
  <2> DEFINE T == From(m, s)
  <2>1. T \in SUBSET DOMAIN w /\ s \in T \cup {NULL} /\ Closed(w, T)
    BY <1>1 DEF Closed
  <2> HIDE DEF T
  <2>2. From(w, s) \subseteq T
    BY <2>1, ListLeast
  <2> QED
    BY <2>2 DEF T
<1>4. From(m, s) \subseteq From(w, s)
  <2> DEFINE T == From(w, s)
  <2>1. s \in T \cup {NULL} /\ Closed(w, T)
    BY <1>2, ListClosed
  <2>2. \A x \in From(m, s) \cap T : m[x].next \in T \cup {NULL}
    BY <2>1 DEF Closed
  <2> HIDE DEF T
  <2>3. From(m, s) \subseteq T
    BY <2>1, <2>2, ListWithin
  <2> QED
    BY <2>3 DEF T
<1> QED
  BY <1>3, <1>4

(* A header put in front of a list. *)
LEMMA Pushed ==
  ASSUME NEW m, NEW w, NEW s \in DOMAIN m \cup {NULL}, NEW b \in DOMAIN w, b # NULL,
         \A x \in DOMAIN m : m[x].next \in DOMAIN m \cup {NULL},
         \A x \in DOMAIN w : w[x].next \in DOMAIN w \cup {NULL},
         \A x \in From(m, s) : x \in DOMAIN w /\ w[x].next = m[x].next,
         w[b].next = s
  PROVE  From(w, b) = From(m, s) \cup {b}
<1>1. s \in From(m, s) \cup {NULL} /\ Closed(m, From(m, s))
  BY ListClosed
<1>2. From(w, b) \subseteq From(m, s) \cup {b}
  <2> DEFINE T == From(m, s) \cup {b}
  <2>1. T \in SUBSET DOMAIN w /\ b \in T \cup {NULL} /\ Closed(w, T)
    BY <1>1 DEF Closed
  <2> HIDE DEF T
  <2>2. From(w, b) \subseteq T
    BY <2>1, ListLeast
  <2> QED
    BY <2>2 DEF T
<1>3. b \in From(w, b) /\ Closed(w, From(w, b))
  BY ListClosed
<1>4. From(m, s) \subseteq From(w, b)
  <2> DEFINE T == From(w, b)
  <2>1. s \in T \cup {NULL}
    BY <1>3 DEF Closed
  <2>2. \A x \in From(m, s) \cap T : m[x].next \in T \cup {NULL}
    BY <1>3 DEF Closed
  <2> HIDE DEF T
  <2>3. From(m, s) \subseteq T
    BY <2>1, <2>2, ListWithin
  <2> QED
    BY <2>3 DEF T
<1> QED
  BY <1>2, <1>3, <1>4

(* A header put behind another one of the list. *)
LEMMA InsertedAfter ==
  ASSUME NEW m, NEW w, NEW s \in DOMAIN m \cup {NULL},
         NEW a \in From(m, s), NEW b \in DOMAIN w, b \notin From(m, s), b # NULL,
         \A x \in DOMAIN m : m[x].next \in DOMAIN m \cup {NULL},
         \A x \in DOMAIN w : w[x].next \in DOMAIN w \cup {NULL},
         From(m, s) \subseteq DOMAIN w,
         \A x \in From(m, s) \ {a} : w[x].next = m[x].next,
         w[a].next = b, w[b].next = m[a].next
  PROVE  From(w, s) = From(m, s) \cup {b}
<1>1. s \in From(m, s) \cup {NULL} /\ Closed(m, From(m, s))
  BY ListClosed
<1>2. s \in DOMAIN w \cup {NULL}
  BY <1>1
<1>3. From(w, s) \subseteq From(m, s) \cup {b}
  <2> DEFINE T == From(m, s) \cup {b}
  <2>1. T \in SUBSET DOMAIN w /\ s \in T \cup {NULL} /\ Closed(w, T)
    BY <1>1 DEF Closed
  <2> HIDE DEF T
  <2>2. From(w, s) \subseteq T
    BY <2>1, ListLeast
  <2> QED
    BY <2>2 DEF T
<1>4. s \in From(w, s) \cup {NULL} /\ Closed(w, From(w, s))
  BY <1>2, ListClosed
<1>5. From(m, s) \subseteq From(w, s)
  <2> DEFINE T == From(w, s)
  <2>1. ASSUME NEW x \in From(m, s) \cap T PROVE m[x].next \in T \cup {NULL}
    <3>1. w[x].next \in T \cup {NULL}
      BY <1>4 DEF Closed
    <3>2. CASE x = a
      BY <1>4, <3>1, <3>2 DEF Closed
    <3>3. CASE x # a
      BY <3>1, <3>3
    <3> QED
      BY <3>2, <3>3
  <2> HIDE DEF T
  <2>2. s \in T \cup {NULL}
    BY <1>4 DEF T
  <2>3. From(m, s) \subseteq T
    BY <2>1, <2>2, ListWithin
  <2> QED
    BY <2>3 DEF T
<1>6. b \in From(w, s)
  BY <1>4, <1>5 DEF Closed
<1> QED
  BY <1>3, <1>5, <1>6
------------------------------------------------------------------------------
(* Headers and calls. *)
Headers(D) == [size : Nat, free : {0, 1}, next : D \cup {NULL}]
CallsOver(D) == [pc : Pcs, n : Nat, block : D \cup {NULL}, addr : Nat, head : D \cup {NULL}]

(* A header written keeps the headers' type. *)
LEMMA PutTyped ==
  ASSUME NEW m, NEW a, m \in [DOMAIN m -> Headers(DOMAIN m)],
         NEW h \in Headers(DOMAIN m \cup {a})
  PROVE  Put(m, a, h) \in [DOMAIN Put(m, a, h) -> Headers(DOMAIN Put(m, a, h))]
<1> DEFINE D == DOMAIN m \cup {a}
<1>1. DOMAIN Put(m, a, h) = D
  BY DEF Put
<1>2. ASSUME NEW x \in D PROVE (IF x = a THEN h ELSE m[x]) \in Headers(D)
  <2>1. CASE x = a
    BY <2>1
  <2>2. CASE x # a
    <3>1. m[x] \in Headers(DOMAIN m)
      BY <2>2
    <3> QED
      BY <2>2, <3>1 DEF Headers
  <2> QED
    BY <2>1, <2>2
<1>3. Put(m, a, h) \in [D -> Headers(D)]
  BY <1>2 DEF Put
<1> QED
  BY <1>1, <1>3

(* A call that goes on. *)
LEMMA CallGoesOn ==
  ASSUME NEW D, NEW c \in CallsOver(D), NEW p \in Pcs
  PROVE  /\ [c EXCEPT !.pc = p] \in CallsOver(D)
         /\ [c EXCEPT !.pc = p].pc = p
         /\ [c EXCEPT !.pc = p].n = c.n
         /\ [c EXCEPT !.pc = p].block = c.block
         /\ [c EXCEPT !.pc = p].addr = c.addr
         /\ [c EXCEPT !.pc = p].head = c.head
  BY DEF CallsOver

LEMMA CallMovesOn ==
  ASSUME NEW D, NEW c \in CallsOver(D), NEW b \in D \cup {NULL}
  PROVE  [c EXCEPT !.block = b] \in CallsOver(D) /\ [c EXCEPT !.block = b].pc = c.pc
  BY DEF CallsOver

(* The types, one by one. *)
Typed ==
  /\ mem \in [DOMAIN mem -> Headers(DOMAIN mem)]
  /\ \A a \in DOMAIN mem : /\ a \in Nat /\ a >= Base /\ a # NULL
                           /\ mem[a] \in Headers(DOMAIN mem)
                           /\ mem[a].size \in Nat /\ mem[a].free \in {0, 1}
                           /\ mem[a].next \in DOMAIN mem \cup {NULL}
                           /\ End(a) \in Nat /\ End(a) >= a + HdrSize
  /\ free_list \in DOMAIN mem \cup {NULL} /\ NULL \notin DOMAIN mem
  /\ placement_addr \in Nat /\ placement_addr >= Base
  /\ main \in CallsOver(DOMAIN mem)
  /\ main.pc \in Pcs /\ main.n \in Nat /\ main.addr \in Nat
  /\ main.block \in DOMAIN mem \cup {NULL} /\ main.head \in DOMAIN mem \cup {NULL}
  /\ Limit \in Nat
  /\ \A h \in held : /\ h \in [owner : {"main", "irq", "raw"}, addr : Nat, len : Nat]
                     /\ h.addr \in Nat /\ h.len \in Nat
                     /\ h.owner \in {"main", "irq", "raw"}
  /\ Base \in Nat \ {0} /\ HdrSize = 24 /\ NULL = 0

LEMMA Types == TypeOK => Typed
<1> SUFFICES ASSUME TypeOK PROVE Typed
  OBVIOUS
<1>1. mem \in [DOMAIN mem -> Headers(DOMAIN mem)] /\ main \in CallsOver(DOMAIN mem)
  BY DEF TypeOK, Headers, CallsOver
<1>2. Base \in Nat \ {0} /\ HdrSize = 24 /\ NULL = 0
  BY HeapIrqAssumption DEF HdrSize, NULL
<1>3. \A a \in DOMAIN mem : a \in Nat /\ a >= Base /\ a # NULL
  BY <1>2 DEF TypeOK
<1>4. \A a \in DOMAIN mem : /\ mem[a] \in Headers(DOMAIN mem)
                            /\ mem[a].size \in Nat /\ mem[a].free \in {0, 1}
                            /\ mem[a].next \in DOMAIN mem \cup {NULL}
  <2> TAKE a \in DOMAIN mem
  <2>1. mem[a] \in Headers(DOMAIN mem)
    BY <1>1
  <2> QED
    BY <2>1 DEF Headers
<1>5. \A a \in DOMAIN mem : End(a) \in Nat /\ End(a) >= a + HdrSize
  BY <1>2, <1>3, <1>4 DEF End
<1>6. /\ free_list \in DOMAIN mem \cup {NULL} /\ NULL \notin DOMAIN mem
      /\ placement_addr \in Nat /\ placement_addr >= Base
  BY <1>3 DEF TypeOK
<1>7. /\ main.pc \in Pcs /\ main.n \in Nat /\ main.addr \in Nat
      /\ main.block \in DOMAIN mem \cup {NULL} /\ main.head \in DOMAIN mem \cup {NULL}
  BY <1>1 DEF CallsOver
<1>8. Limit \in Nat
  BY <1>6, <1>7 DEF Limit
<1>9. \A h \in held : /\ h \in [owner : {"main", "irq", "raw"}, addr : Nat, len : Nat]
                      /\ h.addr \in Nat /\ h.len \in Nat
                      /\ h.owner \in {"main", "irq", "raw"}
  BY DEF TypeOK
<1> QED
  BY <1>1, <1>2, <1>3, <1>4, <1>5, <1>6, <1>7, <1>8, <1>9 DEF Typed

LEMMA TypesNext == TypeOK' => Typed'
  BY Types, PTL
------------------------------------------------------------------------------
(* What a step leaves of the parts of the invariant.                       *)

(* The list, when the successors of its headers stay.                      *)
LEMMA ListingKept ==
  ASSUME TypeOK, TypeOK', Listing, free_list' = free_list,
         \A x \in Listed : x \in DOMAIN mem' /\ mem'[x].next = mem[x].next,
         DOMAIN mem' \ Unlinked' = DOMAIN mem \ Unlinked
  PROVE  Listing'
<1>1. \A x \in DOMAIN mem : mem[x].next \in DOMAIN mem \cup {NULL}
  BY Types DEF Typed
<1>2. \A x \in DOMAIN mem' : mem'[x].next \in DOMAIN mem' \cup {NULL}
  BY TypesNext DEF Typed
<1>3. free_list \in DOMAIN mem \cup {NULL}
  BY Types DEF Typed
<1>4. Listed' = Listed
  BY <1>1, <1>2, <1>3, SameList DEF Listed
<1> QED
  BY <1>4 DEF Listing, ListEnds, AllListed

(* The list, when a block is put behind another one, or in front.          *)
LEMMA ListingInsert ==
  ASSUME TypeOK, TypeOK', Listing, free_list' = free_list,
         NEW a \in Listed, NEW b \in DOMAIN mem', b \notin Listed,
         Listed \subseteq DOMAIN mem',
         \A x \in Listed \ {a} : mem'[x].next = mem[x].next,
         mem'[a].next = b, mem'[b].next = mem[a].next,
         DOMAIN mem' \ Unlinked' = (DOMAIN mem \ Unlinked) \cup {b}
  PROVE  Listing'
<1>1. \A x \in DOMAIN mem : mem[x].next \in DOMAIN mem \cup {NULL}
  BY Types DEF Typed
<1>2. \A x \in DOMAIN mem' : x # NULL /\ mem'[x].next \in DOMAIN mem' \cup {NULL}
  BY TypesNext DEF Typed
<1>3. free_list \in DOMAIN mem \cup {NULL}
  BY Types DEF Typed
<1>4. Listed' = Listed \cup {b}
  BY <1>1, <1>2, <1>3, InsertedAfter DEF Listed
<1>5. ListEnds'
  <2> SUFFICES ASSUME free_list # NULL PROVE \E x \in Listed \cup {b} : mem'[x].next = NULL
    BY <1>4 DEF ListEnds
  <2>1. PICK x \in Listed : mem[x].next = NULL
    BY DEF Listing, ListEnds
  <2>2. CASE x = a
    BY <2>1, <2>2
  <2>3. CASE x # a
    BY <2>1, <2>3
  <2> QED
    BY <2>2, <2>3
<1> QED
  BY <1>4, <1>5 DEF Listing, AllListed

LEMMA ListingPush ==
  ASSUME TypeOK, TypeOK', Listing, NEW b \in DOMAIN mem', free_list' = b,
         Listed \subseteq DOMAIN mem', \A x \in Listed : mem'[x].next = mem[x].next,
         mem'[b].next = free_list,
         DOMAIN mem' \ Unlinked' = (DOMAIN mem \ Unlinked) \cup {b}
  PROVE  Listing'
<1>1. \A x \in DOMAIN mem : mem[x].next \in DOMAIN mem \cup {NULL}
  BY Types DEF Typed
<1>2. \A x \in DOMAIN mem' : x # NULL /\ mem'[x].next \in DOMAIN mem' \cup {NULL}
  BY TypesNext DEF Typed
<1>3. free_list \in DOMAIN mem \cup {NULL}
  BY Types DEF Typed
<1>4. Listed' = Listed \cup {b}
  BY <1>1, <1>2, <1>3, Pushed DEF Listed
<1>5. ListEnds'
  BY <1>4 DEF Listing, ListEnds
<1> QED
  BY <1>4, <1>5 DEF Listing, AllListed

(* The blocks, when their sizes stay, what is above them does not come     *)
(* down, and raw memory is taken from above only.                          *)
LEMMA SpacingKept ==
  ASSUME TypeOK, TypeOK', Spacing, Sized' = Sized,
         \A a \in Sized : mem'[a].size = mem[a].size,
         Limit <= Limit',
         \A a \in Sized : Carved(a) => Carved(a)' \/ End(a) <= Limit',
         \A h \in held' : h.owner = "raw" =>
           \/ h \in held
           \/ /\ h.len > 0 /\ Limit <= h.addr /\ h.addr + h.len <= Limit'
              /\ \A a \in Sized : ~Carved(a)
  PROVE  Spacing'
<1>1. \A a \in Sized : /\ a \in Nat /\ End(a) \in Nat /\ End(a)' = End(a) /\ End(a) > a
  BY Types DEF Typed, End, Sized
<1>2. Limit \in Nat /\ Limit' \in Nat /\ \A h \in held' : h.addr \in Nat /\ h.len \in Nat
  BY Types, TypesNext DEF Typed
<1>3. Spaced'
  BY <1>1 DEF Spacing, Spaced
<1>4. Below'
  <2> SUFFICES ASSUME NEW a \in Sized PROVE Carved(a)' \/ End(a) <= Limit'
    BY <1>1 DEF Below
  <2>1. Carved(a) \/ End(a) <= Limit
    BY DEF Spacing, Below
  <2> QED
    BY <1>1, <1>2, <2>1
<1>5. RawClear'
  <2> SUFFICES ASSUME NEW h \in held', h.owner = "raw"
               PROVE  /\ h.len > 0 /\ h.addr + h.len <= Limit'
                      /\ \A a \in Sized : h.addr + h.len <= a \/ End(a) <= h.addr
    BY <1>1 DEF RawClear
  <2>1. CASE h \in held
    BY <1>2, <2>1 DEF Spacing, RawClear
  <2>2. CASE /\ h.len > 0 /\ Limit <= h.addr /\ h.addr + h.len <= Limit'
             /\ \A a \in Sized : ~Carved(a)
    BY <1>1, <1>2, <2>2 DEF Spacing, Below
  <2> QED
    BY <2>1, <2>2
<1> QED
  BY <1>3, <1>4, <1>5 DEF Spacing

(* The blocks, when one is split.                                          *)
LEMMA SpacingSplit ==
  ASSUME TypeOK, TypeOK', Spacing, NEW a \in Sized, NEW b \in DOMAIN mem',
         Sized' = Sized \cup {b}, b \notin Sized,
         \A x \in Sized \ {a} : mem'[x].size = mem[x].size,
         End(a)' <= b, End(b)' = End(a), a < b,
         Limit <= Limit', ~Carved(a), \A x \in Sized : Carved(x) => Carved(x)',
         \A h \in held' : h.owner = "raw" => h \in held
  PROVE  Spacing'
<1>1. \A x \in Sized : x \in Nat /\ End(x) \in Nat /\ End(x) > x
  BY Types DEF Typed, Sized
<1>2. \A x \in Sized \ {a} : End(x)' = End(x)
  BY DEF End
<1>3. /\ Limit \in Nat /\ Limit' \in Nat /\ \A h \in held' : h.addr \in Nat /\ h.len \in Nat
      /\ b \in Nat /\ End(b)' \in Nat /\ End(a)' \in Nat
  BY Types, TypesNext DEF Typed, Sized
<1>4. b < End(a) /\ End(a) <= Limit
  <2>1. End(b)' >= b + HdrSize /\ HdrSize = 24
    BY TypesNext DEF Typed, HdrSize
  <2> QED
    BY <1>1, <1>3, <2>1 DEF Spacing, Below
<1>5. Spaced'
  <2> SUFFICES ASSUME NEW x \in Sized \cup {b}, NEW y \in Sized \cup {b}, x < y
               PROVE  End(x)' <= y
    BY DEF Spaced
  <2>1. ASSUME x = b PROVE End(x)' <= y
    <3>1. y \in Sized /\ a < y /\ y # a
      BY <1>1, <1>3, <2>1
    <3>2. End(a) <= y
      BY <3>1 DEF Spacing, Spaced
    <3> QED
      BY <2>1, <3>2
  <2>2. ASSUME x \in Sized \ {a} PROVE End(x)' <= y
    <3>1. CASE y \in Sized
      BY <1>2, <2>2, <3>1 DEF Spacing, Spaced
    <3>2. CASE y = b
      <4>1. x < a
        <5>1. a < x => End(a) <= x
          BY <2>2 DEF Spacing, Spaced
        <5> QED
          BY <1>1, <1>3, <1>4, <2>2, <3>2, <5>1
      <4>2. End(x) <= a
        BY <2>2, <4>1 DEF Spacing, Spaced
      <4> QED
        BY <1>1, <1>2, <1>3, <2>2, <3>2, <4>2
    <3> QED
      BY <3>1, <3>2
  <2>3. ASSUME x = a PROVE End(x)' <= y
    <3>1. CASE y = b
      BY <2>3, <3>1
    <3>2. CASE y \in Sized
      <4>1. End(a) <= y
        BY <2>3, <3>2 DEF Spacing, Spaced
      <4> QED
        BY <1>1, <1>3, <1>4, <2>3, <3>2, <4>1
    <3> QED
      BY <3>1, <3>2
  <2> QED
    BY <2>1, <2>2, <2>3
<1>6. Below'
  <2> SUFFICES ASSUME NEW x \in Sized \cup {b} PROVE Carved(x)' \/ End(x)' <= Limit'
    BY DEF Below
  <2>1. CASE x = b \/ x = a
    BY <1>1, <1>3, <1>4, <2>1
  <2>2. CASE x \in Sized \ {a}
    BY <1>1, <1>2, <1>3, <2>2 DEF Spacing, Below
  <2> QED
    BY <2>1, <2>2
<1>7. RawClear'
  <2> SUFFICES ASSUME NEW h \in held', h.owner = "raw", NEW x \in Sized \cup {b}
               PROVE  /\ h.len > 0 /\ h.addr + h.len <= Limit'
                      /\ h.addr + h.len <= x \/ End(x)' <= h.addr
    BY <1>3 DEF RawClear
  <2>1. /\ h.len > 0 /\ h.addr + h.len <= Limit
        /\ \A y \in Sized : h.addr + h.len <= y \/ End(y) <= h.addr
    BY DEF Spacing, RawClear
  <2>2. CASE x = b \/ x = a
    BY <1>1, <1>3, <1>4, <2>1, <2>2
  <2>3. CASE x \in Sized \ {a}
    BY <1>2, <1>3, <2>1, <2>3
  <2> QED
    BY <2>1, <2>2, <2>3
<1> QED
  BY <1>5, <1>6, <1>7 DEF Spacing

(* The blocks, when one is put on top of them.                             *)
LEMMA SpacingTop ==
  ASSUME TypeOK, TypeOK', Spacing, NEW b \in DOMAIN mem',
         Sized' = Sized \cup {b}, Limit <= b, \A x \in Sized : ~Carved(x),
         \A x \in Sized : mem'[x].size = mem[x].size,
         Limit <= Limit', Carved(b)' \/ End(b)' <= Limit',
         \A h \in held' : h.owner = "raw" => h \in held
  PROVE  Spacing'
<1>1. \A x \in Sized : x \in Nat /\ End(x) \in Nat /\ End(x) > x /\ End(x)' = End(x)
  BY Types DEF Typed, Sized, End
<1>2. /\ Limit \in Nat /\ Limit' \in Nat /\ \A h \in held' : h.addr \in Nat /\ h.len \in Nat
      /\ b \in Nat /\ End(b)' \in Nat
  BY Types, TypesNext DEF Typed
<1>3. \A x \in Sized : End(x) <= Limit /\ x < b
  BY <1>1, <1>2 DEF Spacing, Below
<1>4. Spaced'
  <2> SUFFICES ASSUME NEW x \in Sized \cup {b}, NEW y \in Sized \cup {b}, x < y
               PROVE  End(x)' <= y
    BY DEF Spaced
  <2>1. x \in Sized
    BY <1>1, <1>2, <1>3
  <2> QED
    BY <1>1, <1>2, <1>3, <2>1 DEF Spacing, Spaced
<1>5. Below'
  <2> SUFFICES ASSUME NEW x \in Sized \cup {b} PROVE Carved(x)' \/ End(x)' <= Limit'
    BY DEF Below
  <2> QED
    BY <1>1, <1>2, <1>3
<1>6. RawClear'
  <2> SUFFICES ASSUME NEW h \in held', h.owner = "raw", NEW x \in Sized \cup {b}
               PROVE  /\ h.len > 0 /\ h.addr + h.len <= Limit'
                      /\ h.addr + h.len <= x \/ End(x)' <= h.addr
    BY DEF RawClear
  <2>1. /\ h.len > 0 /\ h.addr + h.len <= Limit
        /\ \A y \in Sized : h.addr + h.len <= y \/ End(y) <= h.addr
    BY DEF Spacing, RawClear
  <2> QED
    BY <1>1, <1>2, <2>1
<1> QED
  BY <1>4, <1>5, <1>6 DEF Spacing

(* Blocks in use stay so, and a new region is a block's of its own.        *)
LEMMA OwningKept ==
  ASSUME TypeOK, Owning,
         \A x \in DOMAIN mem \ Unlinked : mem[x].free = 0 =>
           x \in DOMAIN mem' \ Unlinked' /\ mem'[x].free = 0 /\ mem'[x].size = mem[x].size,
         \A h \in held' : h \in held \/ h.owner = "raw"
  PROVE  Owning'
  BY DEF Owning, Owned, OneOwner

LEMMA OwningNew ==
  ASSUME TypeOK, Owning,
         \A x \in DOMAIN mem \ Unlinked : mem[x].free = 0 =>
           x \in DOMAIN mem' \ Unlinked' /\ mem'[x].free = 0 /\ mem'[x].size = mem[x].size,
         NEW a \in DOMAIN mem' \ Unlinked', a \in Nat, NEW n \in Nat, NEW who,
         mem'[a].free = 0, mem'[a].size >= n,
         \A h \in held : h.owner # "raw" => h.addr # a + HdrSize,
         held' = held \cup {[owner |-> who, addr |-> a + HdrSize, len |-> n]}
  PROVE  Owning'
<1> DEFINE k == [owner |-> who, addr |-> a + HdrSize, len |-> n]
<1>1. k.addr = a + HdrSize /\ k.len = n /\ k.addr - HdrSize = a
  BY DEF HdrSize
<1>2. held' = held \cup {k}
  OBVIOUS
<1> HIDE DEF k
<1>3. Owned'
  <2> SUFFICES ASSUME NEW h \in held', h.owner # "raw"
               PROVE  /\ h.addr - HdrSize \in DOMAIN mem' \ Unlinked'
                      /\ mem'[h.addr - HdrSize].free = 0
                      /\ mem'[h.addr - HdrSize].size >= h.len
    BY DEF Owned
  <2>1. CASE h \in held
    BY <2>1 DEF Owning, Owned
  <2>2. CASE h = k
    BY <1>1, <2>2
  <2> QED
    BY <1>2, <2>1, <2>2
<1>4. OneOwner'
  BY <1>1, <1>2 DEF Owning, OneOwner
<1> QED
  BY <1>3, <1>4 DEF Owning
------------------------------------------------------------------------------
(* The initial state, and the main thread's steps. *)
LEMMA InitInv == Init => IInv
<1> SUFFICES ASSUME Init PROVE IInv
  OBVIOUS
<1>1. /\ mem = [a \in {} |-> NULL] /\ DOMAIN mem = {} /\ free_list = NULL
      /\ placement_addr = Base /\ main = Idle /\ held = {} /\ raced = FALSE
      /\ Base \in Nat \ {0} /\ NULL \in Nat
  BY HeapIrqAssumption DEF Init, NULL
<1>2. main.pc = "idle"
  BY <1>1 DEF Idle
<1>3. TypeOK
  <2>1. main \in [pc : Pcs, n : Nat, block : DOMAIN mem \cup {NULL}, addr : Nat,
                  head : DOMAIN mem \cup {NULL}]
    BY <1>1 DEF Idle, Pcs
  <2>2. mem \in [DOMAIN mem -> [size : Nat, free : {0, 1}, next : DOMAIN mem \cup {NULL}]]
    BY <1>1
  <2>3. /\ \A a \in DOMAIN mem : a \in Nat /\ a >= Base
        /\ free_list \in DOMAIN mem \cup {NULL}
        /\ placement_addr \in Nat /\ placement_addr >= Base
    BY <1>1
  <2>4. held \subseteq [owner : {"main", "irq", "raw"}, addr : Nat, len : Nat]
    BY <1>1
  <2> QED
    BY <1>1, <2>1, <2>2, <2>3, <2>4 DEF TypeOK
<1>4. Listed = {} /\ Sized = {} /\ DOMAIN mem \ Unlinked = {}
  BY <1>1 DEF Listed, From, Sized
<1>5. Listing /\ Spacing /\ Owning
  BY <1>1, <1>4 DEF Listing, ListEnds, AllListed, Spacing, Spaced, Below, RawClear,
                    Owning, Owned, OneOwner
<1>6. InHand
  BY <1>2 DEF InHand, SplitKnown, CarveKnown, SplitPcs, CarvePcs
<1> QED
  BY <1>3, <1>5, <1>6 DEF IInv

LEMMA TypedStep ==
  ASSUME mem' \in [DOMAIN mem' -> Headers(DOMAIN mem')],
         \A a \in DOMAIN mem' : a \in Nat /\ a >= Base,
         free_list' \in DOMAIN mem' \cup {NULL},
         placement_addr' \in Nat, placement_addr' >= Base,
         main' \in CallsOver(DOMAIN mem'),
         held' \subseteq [owner : {"main", "irq", "raw"}, addr : Nat, len : Nat],
         raced' \in BOOLEAN
  PROVE  TypeOK'
  BY DEF TypeOK, Headers, CallsOver

LEMMA CallsGrow ==
  ASSUME NEW D, NEW E, D \subseteq E, NEW c \in CallsOver(D)
  PROVE  c \in CallsOver(E)
  BY DEF CallsOver

LEMMA IdleIs ==
  ASSUME NEW D
  PROVE  Idle \in CallsOver(D) /\ Idle.pc = "idle"
  BY DEF Idle, CallsOver, Pcs, NULL

(* A header is written. *)
LEMMA MemWritten ==
  ASSUME TypeOK, NEW a \in Nat, a >= Base, NEW h \in Headers(DOMAIN mem \cup {a}),
         mem' = Put(mem, a, h), free_list' \in {free_list, a},
         placement_addr' \in Nat, placement_addr <= placement_addr',
         main' \in CallsOver(DOMAIN mem), raced' \in BOOLEAN,
         held' \subseteq [owner : {"main", "irq", "raw"}, addr : Nat, len : Nat]
  PROVE  /\ TypeOK'
         /\ DOMAIN mem' = DOMAIN mem \cup {a} /\ mem'[a] = h
         /\ \A x \in DOMAIN mem \ {a} : mem'[x] = mem[x]
<1>1. /\ DOMAIN mem' = DOMAIN mem \cup {a} /\ mem'[a] = h
      /\ \A x \in DOMAIN mem \ {a} : mem'[x] = mem[x]
  <2> DEFINE w == Put(mem, a, h)
  <2>1. mem' = w
    OBVIOUS
  <2>2. DOMAIN w = DOMAIN mem \cup {a} /\ w[a] = h /\ \A x \in DOMAIN mem \ {a} : w[x] = mem[x]
    BY DEF Put
  <2> HIDE DEF w
  <2> QED
    BY <2>1, <2>2
<1>2. mem' \in [DOMAIN mem' -> Headers(DOMAIN mem')]
  BY PutTyped, Types DEF Typed
<1>3. main' \in CallsOver(DOMAIN mem')
  BY <1>1, CallsGrow
<1>4. \A x \in DOMAIN mem' : x \in Nat /\ x >= Base
  BY <1>1, Types DEF Typed
<1>5. free_list' \in DOMAIN mem' \cup {NULL} /\ placement_addr' >= Base
  BY <1>1, Types DEF Typed
<1>6. TypeOK'
  BY <1>2, <1>3, <1>4, <1>5, TypedStep
<1> QED
  BY <1>1, <1>6

(* The main thread reads, and writes placement_addr at most. *)
LEMMA Reading ==
  ASSUME IInv, ~raced, mem' = mem, free_list' = free_list, held' = held,
         main' \in CallsOver(DOMAIN mem), raced' \in BOOLEAN,
         placement_addr' \in Nat, placement_addr <= placement_addr',
         main.pc \notin {"new_next", "old_size", "old_next"} \cup CarvePcs,
         main'.pc \notin {"new_next", "old_size", "old_next", "link", "advance"},
         ~raced' => placement_addr <= Limit'
  PROVE  TypeOK' /\ (~raced' => Listing' /\ Spacing' /\ Owning')
<1> USE DEF IInv
<1>1. TypeOK'
  <2>1. placement_addr' >= Base
    BY Types DEF Typed
  <2> QED
    BY <2>1, Types, TypedStep DEF Typed, TypeOK
<1>2. Sized' = Sized /\ Unlinked = {} /\ Unlinked' = {} /\ Limit = placement_addr
  BY DEF Sized, Unlinked, Limit, CarvePcs
<1>3. \A a : ~Carved(a)
  BY DEF Carved, CarvePcs
<1>4. Listing'
  BY <1>1, <1>2, Types, ListingKept, ListClosed DEF Typed, Listed
<1>5. ~raced' => Spacing'
  BY <1>1, <1>2, <1>3, SpacingKept
<1>6. Owning'
  BY <1>2, OwningKept
<1> QED
  BY <1>1, <1>4, <1>5, <1>6

LEMMA CallStep ==
  ASSUME IInv, ~raced, \E need \in Sizes : Kmalloc(need) \/ KmallocA(need)
  PROVE  IInv'
<1>1. PICK need \in Sizes : Kmalloc(need) \/ KmallocA(need)
  OBVIOUS
<1>2. need \in Nat /\ RoundUp4(need) \in Nat
  BY Roundings, HeapIrqAssumption
<1>3. /\ main.pc = "idle" /\ mem' = mem /\ free_list' = free_list /\ held' = held
      /\ placement_addr' = placement_addr /\ raced' = raced
  BY <1>1 DEF Kmalloc, KmallocA
<1>4. main' \in CallsOver(DOMAIN mem) /\ main'.pc \in {"walk", "align"}
  <2> DEFINE n == RoundUp4(need)
  <2>1. n \in Nat /\ NULL \in Nat
    BY <1>2 DEF NULL
  <2>2. free_list \in DOMAIN mem \cup {NULL}
    BY Types DEF Typed, IInv
  <2>3. CASE Kmalloc(need)
    <3>1. main' = [pc |-> "walk", n |-> n, block |-> free_list, addr |-> NULL,
                   head |-> free_list]
      BY <2>3 DEF Kmalloc
    <3> HIDE DEF n
    <3> QED
      BY <2>1, <2>2, <3>1 DEF CallsOver, Pcs
  <2>4. CASE KmallocA(need)
    <3>1. main' = [Idle EXCEPT !.pc = "align", !.n = n]
      BY <2>4 DEF KmallocA
    <3> HIDE DEF n
    <3>2. main' = [pc |-> "align", n |-> n, block |-> NULL, addr |-> NULL, head |-> NULL]
      BY <3>1 DEF Idle
    <3> QED
      BY <2>1, <3>2 DEF CallsOver, Pcs
  <2> QED
    BY <1>1, <2>3, <2>4
<1>5. placement_addr \in Nat /\ raced \in BOOLEAN
  BY Types DEF Typed, IInv, TypeOK
<1>6. placement_addr <= Limit'
  BY <1>3, <1>4, <1>5 DEF Limit, CarvePcs
<1>7. TypeOK' /\ (~raced' => Listing' /\ Spacing' /\ Owning')
  BY <1>3, <1>4, <1>5, <1>6, Reading DEF CarvePcs
<1>8. InHand'
  BY <1>4 DEF InHand, SplitKnown, CarveKnown, SplitPcs, CarvePcs
<1> QED
  BY <1>7, <1>8 DEF IInv

LEMMA AlignStep == ASSUME IInv, ~raced, Align PROVE IInv'
<1>1. /\ main.pc = "align" /\ mem' = mem /\ free_list' = free_list /\ held' = held
      /\ placement_addr' = placement_addr /\ raced' = raced
      /\ main' = IF placement_addr % PageSize = 0
                 THEN [main EXCEPT !.pc = "walk", !.addr = placement_addr,
                                   !.block = free_list, !.head = free_list]
                 ELSE [main EXCEPT !.pc = "round", !.addr = placement_addr]
  BY DEF Align
<1>2. /\ main \in CallsOver(DOMAIN mem) /\ placement_addr \in Nat
      /\ free_list \in DOMAIN mem \cup {NULL} /\ raced \in BOOLEAN
  BY Types DEF Typed, IInv, TypeOK
<1>3. main' \in CallsOver(DOMAIN mem)
      /\ (main'.pc = "walk" \/ (main'.pc = "round" /\ main'.addr = placement_addr))
  <2>1. main \in [pc : Pcs, n : Nat, block : DOMAIN mem \cup {NULL}, addr : Nat,
                  head : DOMAIN mem \cup {NULL}]
    BY <1>2 DEF CallsOver
  <2>2. CASE placement_addr % PageSize = 0
    <3>1. main' = [main EXCEPT !.pc = "walk", !.addr = placement_addr,
                               !.block = free_list, !.head = free_list]
      BY <1>1, <2>2
    <3>2. main' \in CallsOver(DOMAIN mem)
      BY <1>2, <3>1 DEF CallsOver, Pcs
    <3>3. main'.pc = "walk"
      BY <2>1, <3>1
    <3> QED
      BY <3>2, <3>3
  <2>3. CASE ~(placement_addr % PageSize = 0)
    <3>1. main' = [main EXCEPT !.pc = "round", !.addr = placement_addr]
      BY <1>1, <2>3
    <3>2. main' \in CallsOver(DOMAIN mem)
      BY <1>2, <3>1 DEF CallsOver, Pcs
    <3>3. main'.pc = "round" /\ main'.addr = placement_addr
      BY <2>1, <3>1
    <3> QED
      BY <3>2, <3>3
  <2> QED
    BY <2>2, <2>3
<1>4. placement_addr <= Limit'
  BY <1>1, <1>2, <1>3 DEF Limit, CarvePcs
<1>5. TypeOK' /\ (~raced' => Listing' /\ Spacing' /\ Owning')
  BY <1>1, <1>2, <1>3, <1>4, Reading DEF CarvePcs
<1>6. InHand'
  BY <1>1, <1>3 DEF InHand, SplitKnown, CarveKnown, SplitPcs, CarvePcs
<1> QED
  BY <1>5, <1>6 DEF IInv

(* What a handler has raised meanwhile, it has raised to the same page.    *)
LEMMA RoundStep == ASSUME IInv, ~raced, Round PROVE IInv'
<1>1. /\ main.pc = "round" /\ mem' = mem /\ free_list' = free_list /\ held' = held
      /\ placement_addr' = PageUp(main.addr) /\ raced' = raced
      /\ main' = [main EXCEPT !.pc = "walk", !.addr = PageUp(@),
                              !.block = free_list, !.head = free_list]
  BY DEF Round
<1>2. /\ main \in CallsOver(DOMAIN mem) /\ placement_addr \in Nat /\ main.addr \in Nat
      /\ free_list \in DOMAIN mem \cup {NULL} /\ raced \in BOOLEAN
  BY Types DEF Typed, IInv, TypeOK
<1>3. placement_addr' \in Nat /\ placement_addr <= placement_addr'
  BY <1>1, <1>2, Roundings DEF IInv, InHand, CarveKnown
<1>4. main' \in CallsOver(DOMAIN mem) /\ main'.pc = "walk"
  <2> DEFINE d == PageUp(main.addr)
  <2>1. main' = [main EXCEPT !.pc = "walk", !.addr = d, !.block = free_list, !.head = free_list]
    BY <1>1
  <2>2. d \in Nat
    BY <1>2, Roundings
  <2> HIDE DEF d
  <2>3. main' \in CallsOver(DOMAIN mem)
    BY <1>2, <2>1, <2>2 DEF CallsOver, Pcs
  <2>4. main \in [pc : Pcs, n : Nat, block : DOMAIN mem \cup {NULL}, addr : Nat,
                  head : DOMAIN mem \cup {NULL}]
    BY <1>2 DEF CallsOver
  <2>5. main'.pc = "walk"
    BY <2>1, <2>4
  <2> QED
    BY <2>3, <2>5
<1>5. placement_addr <= Limit'
  BY <1>1, <1>2, <1>3, <1>4 DEF Limit, CarvePcs
<1>6. TypeOK' /\ (~raced' => Listing' /\ Spacing' /\ Owning')
  BY <1>1, <1>2, <1>3, <1>4, <1>5, Reading DEF CarvePcs
<1>7. InHand'
  BY <1>4 DEF InHand, SplitKnown, CarveKnown, SplitPcs, CarvePcs
<1> QED
  BY <1>6, <1>7 DEF IInv

(* A block is looked at.                                                   *)
LEMMA WalkStep == ASSUME IInv, ~raced, Walk PROVE IInv'
<1>1. /\ main.pc = "walk" /\ mem' = mem /\ free_list' = free_list /\ held' = held
      /\ placement_addr' = placement_addr /\ raced' = raced
      /\ main' = IF main.block = NULL THEN [main EXCEPT !.pc = "carve"]
                 ELSE IF FitsAt(main.block, main.n) THEN [main EXCEPT !.pc = "check"]
                 ELSE [main EXCEPT !.block = mem[main.block].next]
  BY DEF Walk
<1>2. /\ main \in CallsOver(DOMAIN mem) /\ placement_addr \in Nat
      /\ main.block \in DOMAIN mem \cup {NULL} /\ raced \in BOOLEAN
      /\ \A a \in DOMAIN mem : mem[a].next \in DOMAIN mem \cup {NULL}
  BY Types DEF Typed, IInv, TypeOK
<1>3. /\ main' \in CallsOver(DOMAIN mem)
      /\ \/ main'.pc \in {"walk", "carve"}
         \/ /\ main'.pc = "check" /\ main'.block = main.block /\ main'.n = main.n
            /\ main.block # NULL /\ FitsAt(main.block, main.n)
  <2>1. CASE main.block = NULL
    BY <1>1, <1>2, <2>1, CallGoesOn DEF Pcs
  <2>2. CASE main.block # NULL /\ FitsAt(main.block, main.n)
    BY <1>1, <1>2, <2>2, CallGoesOn DEF Pcs, SplitPcs
  <2>3. CASE main.block # NULL /\ ~FitsAt(main.block, main.n)
    <3> DEFINE b == mem[main.block].next
    <3>1. b \in DOMAIN mem \cup {NULL} /\ main' = [main EXCEPT !.block = b]
      BY <1>1, <1>2, <2>3
    <3> HIDE DEF b
    <3> QED
      BY <1>1, <1>2, <3>1, CallMovesOn
  <2> QED
    BY <2>1, <2>2, <2>3
<1>4. placement_addr <= Limit'
  BY <1>1, <1>2, <1>3 DEF Limit, CarvePcs
<1>5. TypeOK' /\ (~raced' => Listing' /\ Spacing' /\ Owning')
  BY <1>1, <1>2, <1>3, <1>4, Reading DEF CarvePcs
<1>6. InHand'
  BY <1>1, <1>3 DEF InHand, SplitKnown, CarveKnown, SplitPcs, CarvePcs, FitsAt
<1> QED
  BY <1>5, <1>6 DEF IInv

LEMMA CheckStep == ASSUME IInv, ~raced, Check PROVE IInv'
<1>1. /\ main.pc = "check" /\ mem' = mem /\ free_list' = free_list /\ held' = held
      /\ placement_addr' = placement_addr /\ raced' = raced
      /\ main' = [main EXCEPT !.pc = IF Splits(main.block, main.n) THEN "new_size" ELSE "take"]
  BY DEF Check
<1>2. main \in CallsOver(DOMAIN mem) /\ placement_addr \in Nat /\ raced \in BOOLEAN
  BY Types DEF Typed, IInv, TypeOK
<1>3. /\ main' \in CallsOver(DOMAIN mem) /\ main'.block = main.block /\ main'.n = main.n
      /\ \/ main'.pc = "new_size" /\ Splits(main.block, main.n)
         \/ main'.pc = "take"
  BY <1>1, <1>2, CallGoesOn DEF Pcs, SplitPcs
<1>4. placement_addr <= Limit'
  BY <1>1, <1>2, <1>3 DEF Limit, CarvePcs
<1>5. TypeOK' /\ (~raced' => Listing' /\ Spacing' /\ Owning')
  BY <1>1, <1>2, <1>3, <1>4, Reading DEF CarvePcs
<1>6. InHand'
  BY <1>1, <1>3 DEF IInv, InHand, SplitKnown, CarveKnown, SplitPcs, CarvePcs, Splits
<1> QED
  BY <1>5, <1>6 DEF IInv

(* The address read or known is raced unless it is the present one.        *)
LEMMA CarveStep == ASSUME IInv, ~raced, Carve PROVE IInv'
<1>1. /\ main.pc = "carve" /\ mem' = mem /\ free_list' = free_list /\ held' = held
      /\ placement_addr' = placement_addr
  BY DEF Carve
<1>2. PICK addr \in {placement_addr, main.addr} \ {NULL} :
        main' = [main EXCEPT !.pc = "header", !.addr = addr] /\ raced' = (addr # placement_addr)
  BY DEF Carve
<1>3. /\ main \in CallsOver(DOMAIN mem) /\ placement_addr \in Nat /\ addr \in Nat
      /\ placement_addr >= Base
  BY Types DEF Typed, IInv
<1>4. /\ main' \in CallsOver(DOMAIN mem) /\ main'.pc = "header" /\ main'.addr = addr
      /\ raced' \in BOOLEAN
  <2>1. main' \in CallsOver(DOMAIN mem)
    BY <1>2, <1>3 DEF CallsOver, Pcs, CarvePcs
  <2>2. main \in [pc : Pcs, n : Nat, block : DOMAIN mem \cup {NULL}, addr : Nat,
                  head : DOMAIN mem \cup {NULL}]
    BY <1>3 DEF CallsOver
  <2>3. main'.pc = "header" /\ main'.addr = addr
    BY <1>2, <2>2
  <2>4. raced' \in BOOLEAN
    BY <1>2
  <2> QED
    BY <2>1, <2>3, <2>4
<1>5. ~raced' => addr = placement_addr
  BY <1>2, Zenon
<1>6. ~raced' => placement_addr <= Limit'
  BY <1>1, <1>3, <1>4, <1>5 DEF Limit, CarvePcs
<1>7. TypeOK' /\ (~raced' => Listing' /\ Spacing' /\ Owning')
  BY <1>1, <1>3, <1>4, <1>6, Reading DEF CarvePcs
<1>8. ~raced' => InHand'
  BY <1>1, <1>3, <1>4, <1>5 DEF IInv, InHand, SplitKnown, CarveKnown, SplitPcs, CarvePcs
<1> QED
  BY <1>7, <1>8 DEF IInv

(* A step of the main thread in a block that it splits or takes.           *)
LEMMA InSplit ==
  ASSUME IInv, ~raced, main.pc \in SplitPcs
  PROVE  /\ main.block \in DOMAIN mem /\ main.block \in Nat /\ main.n \in Nat
         /\ mem[main.block] \in Headers(DOMAIN mem) /\ mem[main.block].free = 1
         /\ mem[main.block].size \in Nat /\ mem[main.block].size >= main.n
         /\ NewBlock \in Nat /\ NewBlock = main.block + 24 + main.n /\ NewBlock >= Base
         /\ main \in CallsOver(DOMAIN mem) /\ HdrSize = 24
         /\ Limit = placement_addr /\ placement_addr \in Nat /\ \A a : ~Carved(a)
         /\ TypeOK /\ Listing /\ Spacing /\ Owning /\ InHand
<1>1. main.pc \notin CarvePcs
  BY DEF SplitPcs, CarvePcs
<1>2. Limit = placement_addr /\ \A a : ~Carved(a)
  BY <1>1 DEF Limit, Carved, CarvePcs
<1>3. /\ main.block \in DOMAIN mem /\ mem[main.block].free = 1
      /\ mem[main.block].size >= main.n
  BY Types DEF Typed, IInv, InHand, SplitKnown
<1>4. /\ main.block \in Nat /\ main.n \in Nat /\ main.block >= Base /\ Base \in Nat
      /\ mem[main.block] \in Headers(DOMAIN mem) /\ mem[main.block].size \in Nat
      /\ main \in CallsOver(DOMAIN mem) /\ placement_addr \in Nat /\ HdrSize = 24
  BY <1>3, Types DEF Typed, IInv
<1>5. NewBlock \in Nat /\ NewBlock = main.block + 24 + main.n /\ NewBlock >= Base
  BY <1>4 DEF NewBlock
<1> QED
  BY <1>2, <1>3, <1>4, <1>5 DEF IInv

LEMMA SplitGoesOn ==
  ASSUME NEW p \in SplitPcs, NEW q \in SplitPcs, NEW m, SplitStep(p, q, m),
         main \in CallsOver(DOMAIN mem)
  PROVE  /\ main.pc = p /\ mem' = m
         /\ free_list' = free_list /\ placement_addr' = placement_addr
         /\ held' = held /\ raced' = raced
         /\ main' \in CallsOver(DOMAIN mem)
         /\ main'.pc = q /\ main'.n = main.n /\ main'.block = main.block
         /\ NewBlock' = NewBlock /\ Limit' = placement_addr /\ \A a : ~Carved(a)'
<1>1. main' = [main EXCEPT !.pc = q] /\ q \in Pcs
  BY DEF SplitStep, Pcs
<1>2. /\ main' \in CallsOver(DOMAIN mem)
      /\ main'.pc = q /\ main'.n = main.n /\ main'.block = main.block
  BY <1>1, CallGoesOn
<1>3. NewBlock' = NewBlock
  BY <1>2 DEF NewBlock
<1>4. main'.pc \notin CarvePcs /\ placement_addr' = placement_addr
  BY <1>2 DEF SplitPcs, CarvePcs, SplitStep
<1>5. Limit' = placement_addr /\ \A a : ~Carved(a)'
  BY <1>4 DEF Limit, Carved, CarvePcs
<1> QED
  BY <1>2, <1>3, <1>5 DEF SplitStep

(* The new block lies in the block that is split, and in no other.         *)
LEMMA NewSizeStep == ASSUME IInv, ~raced, NewSize PROVE IInv'
<1> DEFINE b == NewBlock
           h == [size |-> mem[main.block].size - main.n - HdrSize, free |-> 0, next |-> NULL]
<1>1. main.pc = "new_size" /\ main.pc \in SplitPcs
  BY DEF NewSize, SplitStep, SplitPcs
<1>2. /\ mem' = Put(mem, b, h) /\ free_list' = free_list /\ placement_addr' = placement_addr
      /\ held' = held /\ raced' = raced /\ main' \in CallsOver(DOMAIN mem)
      /\ main'.pc = "new_next" /\ main'.n = main.n /\ main'.block = main.block
      /\ NewBlock' = b /\ Limit' = placement_addr /\ \A a : ~Carved(a)'
  BY <1>1, InSplit, SplitGoesOn DEF NewSize, SplitPcs
<1>3. mem[main.block].size >= main.n + 28
  BY <1>1, InSplit DEF InHand, SplitKnown, Splits, HdrSize
<1>4. /\ Sized = DOMAIN mem /\ Unlinked = {} /\ Unlinked' = {b}
      /\ Sized' = DOMAIN mem' \ {b}
  BY <1>1, <1>2 DEF Sized, Unlinked
<1>5. b \notin DOMAIN mem
  <2> SUFFICES ASSUME b \in DOMAIN mem PROVE FALSE
    OBVIOUS
  <2>1. main.block \in Sized /\ b \in Sized /\ main.block < b
    BY <1>1, <1>4, InSplit
  <2>2. End(main.block) <= b
    BY <1>1, <2>1, InSplit DEF Spacing, Spaced
  <2> QED
    BY <1>1, <1>3, <2>2, InSplit DEF End
<1>6. h \in Headers(DOMAIN mem \cup {b}) /\ h.size = mem[main.block].size - main.n - HdrSize
  <2> DEFINE n == mem[main.block].size - main.n - HdrSize
  <2>1. n \in Nat
    BY <1>1, <1>3, InSplit
  <2>2. h = [size |-> n, free |-> 0, next |-> NULL]
    OBVIOUS
  <2> HIDE DEF n, h
  <2>3. h \in Headers(DOMAIN mem \cup {b}) /\ h.size = n
    BY <2>1, <2>2 DEF Headers
  <2> QED
    BY <2>3 DEF n
<1>7. /\ TypeOK' /\ DOMAIN mem' = DOMAIN mem \cup {b} /\ mem'[b] = h
      /\ \A x \in DOMAIN mem : mem'[x] = mem[x]
  <2> HIDE DEF b, h
  <2>1. /\ raced' \in BOOLEAN
        /\ held' \subseteq [owner : {"main", "irq", "raw"}, addr : Nat, len : Nat]
    BY <1>1, <1>2, InSplit DEF TypeOK
  <2>2. b \in Nat /\ b >= Base /\ TypeOK /\ placement_addr \in Nat
    BY <1>1, InSplit DEF b
  <2> QED
    BY <1>2, <1>5, <1>6, <2>1, <2>2, MemWritten
<1> HIDE DEF h, b
<1>8. Listing'
  <2>1. \A x \in Listed : x \in DOMAIN mem' /\ mem'[x].next = mem[x].next
    BY <1>7 DEF Listed, From
  <2>2. DOMAIN mem' \ Unlinked' = DOMAIN mem \ Unlinked
    BY <1>4, <1>5, <1>7
  <2> QED
    BY <1>1, <1>2, <1>7, <2>1, <2>2, InSplit, ListingKept
<1>9. Spacing'
  <2>1. Sized' = Sized /\ \A a \in Sized : mem'[a].size = mem[a].size
    BY <1>4, <1>5, <1>7
  <2>2. Limit <= Limit'
    BY <1>1, <1>2, InSplit
  <2> QED
    BY <1>1, <1>2, <1>7, <2>1, <2>2, InSplit, SpacingKept
<1>10. Owning'
  <2>1. \A x \in DOMAIN mem \ Unlinked :
          x \in DOMAIN mem' \ Unlinked' /\ mem'[x].free = mem[x].free /\ mem'[x].size = mem[x].size
    BY <1>4, <1>5, <1>7
  <2> QED
    BY <1>1, <1>2, <2>1, InSplit, OwningKept
<1>11. InHand'
  <2>1. mem'[main.block] = mem[main.block] /\ main.block # NULL
    BY <1>1, <1>7, InSplit, Types DEF Typed
  <2>2. SplitKnown'
    BY <1>1, <1>2, <1>6, <1>7, <2>1, InSplit DEF InHand, SplitKnown, Splits, b
  <2>3. CarveKnown'
    BY <1>2 DEF CarveKnown, CarvePcs
  <2> QED
    BY <2>2, <2>3 DEF InHand
<1> QED
  BY <1>7, <1>8, <1>9, <1>10, <1>11 DEF IInv

LEMMA NewNextStep == ASSUME IInv, ~raced, NewNext PROVE IInv'
<1> DEFINE b == NewBlock
           h == [size |-> mem[b].size, free |-> 1, next |-> mem[main.block].next]
<1>1. main.pc = "new_next" /\ main.pc \in SplitPcs
  BY DEF NewNext, SplitStep, SplitPcs
<1>2. /\ b \in DOMAIN mem /\ b # main.block /\ mem[b] \in Headers(DOMAIN mem)
      /\ mem[b].size = mem[main.block].size - main.n - HdrSize
      /\ mem[main.block].size >= main.n + 28
  BY <1>1, InSplit, Types DEF Typed, InHand, SplitKnown, Splits
<1>3. mem[main.block].next \in DOMAIN mem \cup {NULL} /\ mem[b].size \in Nat
  BY <1>1, <1>2, InSplit, Types DEF Typed
<1>4. /\ mem' = Put(mem, b, h) /\ free_list' = free_list /\ placement_addr' = placement_addr
      /\ held' = held /\ raced' = raced /\ main' \in CallsOver(DOMAIN mem)
      /\ main'.pc = "old_size" /\ main'.n = main.n /\ main'.block = main.block
      /\ NewBlock' = b /\ Limit' = placement_addr /\ \A a : ~Carved(a)'
  BY <1>1, InSplit, SplitGoesOn DEF NewNext, SplitPcs
<1>5. h \in Headers(DOMAIN mem \cup {b}) /\ h.size = mem[b].size /\ h.next = mem[main.block].next
  BY <1>3 DEF Headers
<1> HIDE DEF h
<1>6. /\ TypeOK' /\ DOMAIN mem' = DOMAIN mem /\ mem'[b] = h
      /\ \A x \in DOMAIN mem \ {b} : mem'[x] = mem[x]
  <2>1. /\ raced' \in BOOLEAN
        /\ held' \subseteq [owner : {"main", "irq", "raw"}, addr : Nat, len : Nat]
    BY <1>1, <1>4, InSplit DEF TypeOK
  <2>2. b \in Nat /\ b >= Base /\ TypeOK /\ placement_addr \in Nat
    BY <1>1, InSplit
  <2> HIDE DEF b
  <2>3. /\ TypeOK' /\ DOMAIN mem' = DOMAIN mem \cup {b} /\ mem'[b] = h
        /\ \A x \in DOMAIN mem \ {b} : mem'[x] = mem[x]
    BY <1>4, <1>5, <2>1, <2>2, MemWritten
  <2> QED
    BY <1>2, <2>3
<1>7. /\ Unlinked = {b} /\ Unlinked' = {b} /\ Sized' = Sized
      /\ \A x \in Sized : mem'[x] = mem[x]
  BY <1>1, <1>4, <1>6 DEF Unlinked, Sized
<1>8. Listing'
  <2>1. Listed = DOMAIN mem \ {b}
    BY <1>1, <1>7, InSplit DEF Listing, AllListed
  <2>2. \A x \in Listed : x \in DOMAIN mem' /\ mem'[x].next = mem[x].next
    BY <1>6, <2>1
  <2>3. DOMAIN mem' \ Unlinked' = DOMAIN mem \ Unlinked
    BY <1>6, <1>7
  <2> QED
    BY <1>1, <1>4, <1>6, <2>2, <2>3, InSplit, ListingKept
<1>9. Spacing'
  <2>1. Limit <= Limit'
    BY <1>1, <1>4, InSplit
  <2> QED
    BY <1>1, <1>4, <1>6, <1>7, <2>1, InSplit, SpacingKept
<1>10. Owning'
  <2>1. \A x \in DOMAIN mem \ Unlinked :
          x \in DOMAIN mem' \ Unlinked' /\ mem'[x].free = mem[x].free /\ mem'[x].size = mem[x].size
    BY <1>6, <1>7
  <2> QED
    BY <1>1, <1>4, <2>1, InSplit, OwningKept
<1>11. InHand'
  <2>1. mem'[main.block] = mem[main.block] /\ main.block # NULL
    BY <1>1, <1>2, <1>6, InSplit, Types DEF Typed
  <2>2. SplitKnown'
    BY <1>1, <1>2, <1>4, <1>5, <1>6, <2>1, InSplit DEF InHand, SplitKnown, Splits
  <2>3. CarveKnown'
    BY <1>4 DEF CarveKnown, CarvePcs
  <2> QED
    BY <2>2, <2>3 DEF InHand
<1> QED
  BY <1>6, <1>8, <1>9, <1>10, <1>11 DEF IInv

(* The found block's size is written: the blocks lie side by side.         *)
LEMMA OldSizeStep == ASSUME IInv, ~raced, OldSize PROVE IInv'
<1> DEFINE b == NewBlock
           c == main.block
           h == [size |-> main.n, free |-> mem[c].free, next |-> mem[c].next]
<1>1. main.pc = "old_size" /\ main.pc \in SplitPcs
  BY DEF OldSize, SplitStep, SplitPcs
<1>2. /\ b \in DOMAIN mem /\ c \in DOMAIN mem /\ b # c
      /\ mem[b].size = mem[c].size - main.n - HdrSize
      /\ mem[c].size >= main.n + 28 /\ mem[b].next = mem[c].next
  BY <1>1, InSplit DEF InHand, SplitKnown, Splits
<1>3. mem[c].next \in DOMAIN mem \cup {NULL} /\ mem[c].free = 1 /\ main.n \in Nat
  BY <1>1, InSplit, Types DEF Typed
<1>4. [mem[c] EXCEPT !.size = main.n] = h
  <2>1. mem[c] \in [size : Nat, free : {0, 1}, next : DOMAIN mem \cup {NULL}]
    BY <1>1, InSplit DEF Headers
  <2> QED
    BY <2>1
<1>5. /\ mem' = Put(mem, c, h) /\ free_list' = free_list /\ placement_addr' = placement_addr
      /\ held' = held /\ raced' = raced /\ main' \in CallsOver(DOMAIN mem)
      /\ main'.pc = "old_next" /\ main'.n = main.n /\ main'.block = c
      /\ NewBlock' = b /\ Limit' = placement_addr /\ \A a : ~Carved(a)'
  BY <1>1, <1>4, InSplit, SplitGoesOn DEF OldSize, SplitPcs
<1>6. /\ h \in Headers(DOMAIN mem \cup {c}) /\ h.size = main.n /\ h.free = 1
      /\ h.next = mem[c].next
  BY <1>3 DEF Headers
<1> HIDE DEF h
<1>7. /\ TypeOK' /\ DOMAIN mem' = DOMAIN mem /\ mem'[c] = h
      /\ \A x \in DOMAIN mem \ {c} : mem'[x] = mem[x]
  <2>1. /\ raced' \in BOOLEAN
        /\ held' \subseteq [owner : {"main", "irq", "raw"}, addr : Nat, len : Nat]
    BY <1>1, <1>5, InSplit DEF TypeOK
  <2>2. c \in Nat /\ c >= Base /\ TypeOK /\ placement_addr \in Nat
    BY <1>1, InSplit, Types DEF Typed
  <2> HIDE DEF c
  <2>3. /\ TypeOK' /\ DOMAIN mem' = DOMAIN mem \cup {c} /\ mem'[c] = h
        /\ \A x \in DOMAIN mem \ {c} : mem'[x] = mem[x]
    BY <1>5, <1>6, <2>1, <2>2, MemWritten
  <2> QED
    BY <1>2, <2>3
<1>8. /\ Unlinked = {b} /\ Unlinked' = {b} /\ Sized = DOMAIN mem \ {b}
      /\ Sized' = DOMAIN mem
  BY <1>1, <1>5, <1>7 DEF Unlinked, Sized
<1>9. Listing'
  <2>1. \A x \in DOMAIN mem : x \in DOMAIN mem' /\ mem'[x].next = mem[x].next
    BY <1>6, <1>7
  <2>2. \A x \in Listed : x \in DOMAIN mem' /\ mem'[x].next = mem[x].next
    BY <2>1 DEF Listed, From
  <2>3. DOMAIN mem' \ Unlinked' = DOMAIN mem \ Unlinked
    BY <1>7, <1>8
  <2> QED
    BY <1>1, <1>5, <1>7, <2>2, <2>3, InSplit, ListingKept
<1>10. Spacing'
  <2>1. PICK x, y : x = c /\ y = b
    OBVIOUS
  <2>2. /\ x \in Sized /\ y \in DOMAIN mem' /\ y \notin Sized /\ Sized' = Sized \cup {y}
        /\ \A z \in Sized \ {x} : mem'[z].size = mem[z].size
    BY <1>2, <1>7, <1>8, <2>1
  <2>3. x \in Nat /\ main.n \in Nat /\ mem[x].size \in Nat /\ HdrSize = 24 /\ y = x + 24 + main.n
    BY <1>1, <2>1, InSplit
  <2>4. /\ mem'[x].size = main.n /\ mem'[y].size = mem[x].size - main.n - HdrSize
    BY <1>2, <1>6, <1>7, <2>1
  <2>5. End(x)' <= y /\ End(y)' = End(x) /\ x < y
    BY <2>3, <2>4 DEF End
  <2>6. /\ Limit <= Limit' /\ ~Carved(x) /\ (\A z \in Sized : Carved(z) => Carved(z)')
        /\ TypeOK /\ Spacing
    BY <1>1, <1>5, InSplit
  <2> QED
    BY <1>5, <1>7, <2>2, <2>5, <2>6, SpacingSplit
<1>11. Owning'
  <2>1. \A x \in DOMAIN mem \ Unlinked : mem[x].free = 0 =>
          x \in DOMAIN mem' \ Unlinked' /\ mem'[x].free = 0 /\ mem'[x].size = mem[x].size
    BY <1>3, <1>7, <1>8
  <2> QED
    BY <1>1, <1>5, <2>1, InSplit, OwningKept
<1>12. InHand'
  <2>1. c # NULL
    BY <1>2, <1>1, InSplit, Types DEF Typed
  <2>2. SplitKnown'
    BY <1>1, <1>2, <1>3, <1>5, <1>6, <1>7, <2>1, InSplit DEF SplitKnown
  <2>3. CarveKnown'
    BY <1>5 DEF CarveKnown, CarvePcs
  <2> QED
    BY <2>2, <2>3 DEF InHand
<1> QED
  BY <1>7, <1>9, <1>10, <1>11, <1>12 DEF IInv

(* The new block is put behind the found one.                              *)
LEMMA OldNextStep == ASSUME IInv, ~raced, OldNext PROVE IInv'
<1> DEFINE b == NewBlock
           c == main.block
           h == [size |-> mem[c].size, free |-> mem[c].free, next |-> b]
<1>1. main.pc = "old_next" /\ main.pc \in SplitPcs
  BY DEF OldNext, SplitStep, SplitPcs
<1>2. /\ b \in DOMAIN mem /\ c \in DOMAIN mem /\ b # c
      /\ mem[b].next = mem[c].next /\ mem[c].size = main.n
  BY <1>1, InSplit DEF InHand, SplitKnown
<1>3. mem[c].size \in Nat /\ mem[c].free = 1 /\ main.n \in Nat
  BY <1>1, InSplit, Types DEF Typed
<1>4. [mem[c] EXCEPT !.next = b] = h
  <2>1. mem[c] \in [size : Nat, free : {0, 1}, next : DOMAIN mem \cup {NULL}]
    BY <1>1, InSplit DEF Headers
  <2> QED
    BY <2>1
<1>5. /\ mem' = Put(mem, c, h) /\ free_list' = free_list /\ placement_addr' = placement_addr
      /\ held' = held /\ raced' = raced /\ main' \in CallsOver(DOMAIN mem)
      /\ main'.pc = "take" /\ main'.n = main.n /\ main'.block = c
      /\ NewBlock' = b /\ Limit' = placement_addr /\ \A a : ~Carved(a)'
  BY <1>1, <1>4, InSplit, SplitGoesOn DEF OldNext, SplitPcs
<1>6. /\ h \in Headers(DOMAIN mem \cup {c}) /\ h.size = mem[c].size /\ h.free = 1 /\ h.next = b
  BY <1>2, <1>3 DEF Headers
<1> HIDE DEF h
<1>7. /\ TypeOK' /\ DOMAIN mem' = DOMAIN mem /\ mem'[c] = h
      /\ \A x \in DOMAIN mem \ {c} : mem'[x] = mem[x]
  <2>1. /\ raced' \in BOOLEAN
        /\ held' \subseteq [owner : {"main", "irq", "raw"}, addr : Nat, len : Nat]
    BY <1>1, <1>5, InSplit DEF TypeOK
  <2>2. c \in Nat /\ c >= Base /\ TypeOK /\ placement_addr \in Nat
    BY <1>1, InSplit, Types DEF Typed
  <2> HIDE DEF c
  <2>3. /\ TypeOK' /\ DOMAIN mem' = DOMAIN mem \cup {c} /\ mem'[c] = h
        /\ \A x \in DOMAIN mem \ {c} : mem'[x] = mem[x]
    BY <1>5, <1>6, <2>1, <2>2, MemWritten
  <2> QED
    BY <1>2, <2>3
<1>8. /\ Unlinked = {b} /\ Unlinked' = {} /\ Sized' = Sized
      /\ \A x \in DOMAIN mem : mem'[x].size = mem[x].size /\ mem'[x].free = mem[x].free
  BY <1>1, <1>3, <1>5, <1>6, <1>7 DEF Unlinked, Sized
<1>9. Listing'
  <2>1. Listed = DOMAIN mem \ {b}
    BY <1>1, <1>8, InSplit DEF Listing, AllListed
  <2>2. /\ c \in Listed /\ b \in DOMAIN mem' /\ b \notin Listed /\ Listed \subseteq DOMAIN mem'
        /\ \A x \in Listed \ {c} : mem'[x].next = mem[x].next
        /\ mem'[c].next = b /\ mem'[b].next = mem[c].next
    BY <1>2, <1>6, <1>7, <2>1
  <2>3. DOMAIN mem' \ Unlinked' = (DOMAIN mem \ Unlinked) \cup {b}
    BY <1>2, <1>7, <1>8
  <2>4. TypeOK /\ Listing
    BY <1>1, InSplit
  <2> HIDE DEF b, c
  <2> QED
    BY <1>5, <1>7, <2>2, <2>3, <2>4, ListingInsert
<1>10. Spacing'
  <2>1. Limit <= Limit' /\ \A a \in Sized : mem'[a].size = mem[a].size
    BY <1>1, <1>5, <1>8, InSplit DEF Sized
  <2> QED
    BY <1>1, <1>5, <1>7, <1>8, <2>1, InSplit, SpacingKept
<1>11. Owning'
  <2>1. \A x \in DOMAIN mem \ Unlinked :
          x \in DOMAIN mem' \ Unlinked' /\ mem'[x].free = mem[x].free /\ mem'[x].size = mem[x].size
    BY <1>7, <1>8
  <2> QED
    BY <1>1, <1>5, <2>1, InSplit, OwningKept
<1>12. InHand'
  <2>1. c # NULL
    BY <1>2, <1>1, InSplit, Types DEF Typed
  <2>2. SplitKnown'
    BY <1>2, <1>3, <1>5, <1>6, <1>7, <2>1 DEF SplitKnown
  <2>3. CarveKnown'
    BY <1>5 DEF CarveKnown, CarvePcs
  <2> QED
    BY <2>2, <2>3 DEF InHand
<1> QED
  BY <1>7, <1>9, <1>10, <1>11, <1>12 DEF IInv

(* The block is taken: it was free, so no caller has it.                   *)
LEMMA TakeStep == ASSUME IInv, ~raced, Take PROVE IInv'
<1> DEFINE c == main.block
           h == [size |-> mem[c].size, free |-> 0, next |-> mem[c].next]
<1>1. main.pc = "take" /\ main.pc \in SplitPcs
  BY DEF Take, SplitPcs
<1>2. /\ c \in DOMAIN mem /\ c \in Nat /\ c >= Base /\ mem[c].free = 1 /\ main.n \in Nat
      /\ mem[c].size \in Nat /\ mem[c].size >= main.n /\ mem[c].next \in DOMAIN mem \cup {NULL}
  BY <1>1, InSplit, Types DEF Typed
<1>3. [mem[c] EXCEPT !.free = 0] = h
  <2>1. mem[c] \in [size : Nat, free : {0, 1}, next : DOMAIN mem \cup {NULL}]
    BY <1>1, InSplit DEF Headers
  <2> QED
    BY <2>1
<1>4. /\ mem' = Put(mem, c, h) /\ free_list' = free_list /\ placement_addr' = placement_addr
      /\ raced' = raced /\ main' \in CallsOver(DOMAIN mem) /\ main'.pc = "idle"
      /\ held' = held \cup {[owner |-> "main", addr |-> c + HdrSize, len |-> main.n]}
  BY <1>3, IdleIs DEF Take, Hold
<1>5. /\ h \in Headers(DOMAIN mem \cup {c}) /\ h.size = mem[c].size /\ h.free = 0
      /\ h.next = mem[c].next
  BY <1>2 DEF Headers
<1> HIDE DEF h, c
<1>6. /\ TypeOK' /\ DOMAIN mem' = DOMAIN mem /\ mem'[c] = h
      /\ \A x \in DOMAIN mem \ {c} : mem'[x] = mem[x]
  <2>1. raced' \in BOOLEAN /\ TypeOK /\ placement_addr \in Nat
    BY <1>1, <1>4, InSplit DEF TypeOK
  <2>2. held' \subseteq [owner : {"main", "irq", "raw"}, addr : Nat, len : Nat]
    BY <1>2, <1>4, <2>1 DEF TypeOK, HdrSize
  <2>3. /\ TypeOK' /\ DOMAIN mem' = DOMAIN mem \cup {c} /\ mem'[c] = h
        /\ \A x \in DOMAIN mem \ {c} : mem'[x] = mem[x]
    BY <1>2, <1>4, <1>5, <2>1, <2>2, MemWritten
  <2> QED
    BY <1>2, <2>3
<1>7. /\ Unlinked = {} /\ Unlinked' = {} /\ Sized' = Sized /\ Sized = DOMAIN mem
      /\ Limit' = placement_addr
  BY <1>1, <1>4, <1>6 DEF Unlinked, Sized, Limit, CarvePcs
<1>8. Listing'
  <2>1. \A x \in Listed : x \in DOMAIN mem' /\ mem'[x].next = mem[x].next
    BY <1>5, <1>6 DEF Listed, From
  <2> QED
    BY <1>1, <1>4, <1>6, <1>7, <2>1, InSplit, ListingKept
<1>9. Spacing'
  <2>1. \A a \in Sized : mem'[a].size = mem[a].size
    BY <1>5, <1>6, <1>7
  <2>2. Limit <= Limit' /\ \A a : ~Carved(a)
    BY <1>1, <1>7, InSplit
  <2>3. \A k \in held' : k.owner = "raw" => k \in held
    BY <1>4
  <2> QED
    BY <1>1, <1>6, <1>7, <2>1, <2>2, <2>3, InSplit, SpacingKept
<1>10. Owning'
  <2>1. \A x \in DOMAIN mem \ Unlinked : mem[x].free = 0 =>
          x \in DOMAIN mem' \ Unlinked' /\ mem'[x].free = 0 /\ mem'[x].size = mem[x].size
    BY <1>2, <1>6, <1>7
  <2>2. \A k \in held : k.owner # "raw" => k.addr # c + HdrSize
    BY <1>1, <1>2, InSplit DEF Owning, Owned
  <2>3. c \in DOMAIN mem' \ Unlinked' /\ mem'[c].free = 0 /\ mem'[c].size >= main.n
    BY <1>2, <1>5, <1>6, <1>7
  <2> QED
    BY <1>1, <1>2, <1>4, <2>1, <2>2, <2>3, InSplit, OwningNew
<1>11. InHand'
  BY <1>4 DEF InHand, SplitKnown, CarveKnown, SplitPcs, CarvePcs
<1> QED
  BY <1>6, <1>8, <1>9, <1>10, <1>11 DEF IInv

(* What holds while the main thread carves.                                *)
LEMMA InCarve ==
  ASSUME IInv, ~raced, main.pc \in CarvePcs
  PROVE  /\ main.addr \in Nat /\ main.addr >= Base /\ main.addr <= placement_addr
         /\ main.n \in Nat /\ placement_addr \in Nat /\ placement_addr >= Base
         /\ Limit = main.addr /\ Sized = DOMAIN mem /\ HdrSize = 24
         /\ main \in CallsOver(DOMAIN mem) /\ raced \in BOOLEAN
         /\ held \subseteq [owner : {"main", "irq", "raw"}, addr : Nat, len : Nat]
         /\ TypeOK /\ Listing /\ Spacing /\ Owning /\ CarveKnown
<1>1. Limit = main.addr /\ Sized = DOMAIN mem
  BY DEF Limit, Sized, CarvePcs
<1>2. /\ main.addr \in Nat /\ main.n \in Nat /\ placement_addr \in Nat /\ HdrSize = 24
      /\ main \in CallsOver(DOMAIN mem) /\ placement_addr >= Base /\ Base \in Nat
  BY Types DEF Typed, IInv
<1> QED
  BY <1>1, <1>2 DEF IInv, InHand, CarveKnown, TypeOK

(* The new header is written above everything.                             *)
LEMMA HeaderStep == ASSUME IInv, ~raced, Header PROVE IInv'
<1>1. main.pc = "header" /\ main.pc \in CarvePcs
  BY DEF Header, CarvePcs
<1>2. PICK head \in {free_list, main.head} :
        /\ mem' = Put(mem, main.addr, [size |-> main.n, free |-> 0, next |-> head])
        /\ raced' = (head # free_list)
  BY DEF Header
<1>3. ~raced' => head = free_list
  BY <1>2, Zenon
<1>4. raced' \in BOOLEAN
  BY <1>2
<1>5. PICK b : b = main.addr
  OBVIOUS
<1> DEFINE h == [size |-> main.n, free |-> 0, next |-> head]
<1>6. head \in DOMAIN mem \cup {NULL}
  BY Types DEF Typed, IInv
<1>7. h \in Headers(DOMAIN mem \cup {b}) /\ h.size = main.n /\ h.free = 0 /\ h.next = head
  BY <1>1, <1>6, InCarve DEF Headers
<1>8. /\ free_list' = free_list /\ placement_addr' = placement_addr /\ held' = held
      /\ main' \in CallsOver(DOMAIN mem) /\ main'.pc = "link" /\ main'.addr = b
      /\ main'.n = main.n
  BY <1>1, <1>5, InCarve, CallGoesOn DEF Header, Pcs, CarvePcs
<1>9. mem' = Put(mem, b, h)
  BY <1>2, <1>5
<1> HIDE DEF h
<1>10. /\ TypeOK' /\ DOMAIN mem' = DOMAIN mem \cup {b} /\ mem'[b] = h
       /\ \A x \in DOMAIN mem \ {b} : mem'[x] = mem[x]
  BY <1>1, <1>4, <1>5, <1>7, <1>8, <1>9, InCarve, MemWritten
<1> SUFFICES ASSUME ~raced' PROVE Listing' /\ Spacing' /\ Owning' /\ InHand'
  BY <1>10 DEF IInv
<1>11. \A x \in Sized : x \in Nat /\ End(x) \in Nat /\ End(x) > x /\ ~Carved(x)
  BY <1>1, Types DEF IInv, Typed, Sized, Carved
<1>12. b \notin DOMAIN mem
  BY <1>1, <1>5, <1>11, InCarve DEF Spacing, Below
<1>13. /\ Unlinked = {} /\ Unlinked' = {b} /\ Sized = DOMAIN mem
       /\ Sized' = Sized \cup {b} /\ Limit = b /\ Limit' = b /\ Carved(b)'
  BY <1>1, <1>5, <1>8, <1>10, InCarve DEF Unlinked, Sized, Limit, Carved, CarvePcs
<1>14. Listing'
  <2>1. \A x \in Listed : x \in DOMAIN mem' /\ mem'[x].next = mem[x].next
    BY <1>10, <1>12 DEF Listed, From
  <2>2. DOMAIN mem' \ Unlinked' = DOMAIN mem \ Unlinked
    BY <1>10, <1>12, <1>13
  <2> QED
    BY <1>1, <1>8, <1>10, <2>1, <2>2, InCarve, ListingKept
<1>15. Spacing'
  <2>1. \A x \in Sized : mem'[x].size = mem[x].size
    BY <1>10, <1>12, <1>13
  <2>2. b \in DOMAIN mem' /\ Limit <= b /\ Limit <= Limit'
    BY <1>1, <1>5, <1>10, <1>13, InCarve
  <2> QED
    BY <1>1, <1>8, <1>10, <1>11, <1>13, <2>1, <2>2, InCarve, SpacingTop
<1>16. Owning'
  <2>1. \A x \in DOMAIN mem \ Unlinked :
          x \in DOMAIN mem' \ Unlinked' /\ mem'[x].free = mem[x].free /\ mem'[x].size = mem[x].size
    BY <1>10, <1>12, <1>13
  <2> QED
    BY <1>1, <1>8, <2>1, InCarve, OwningKept
<1>17. InHand'
  <2>1. SplitKnown'
    BY <1>8 DEF SplitKnown, SplitPcs
  <2>2. CarveKnown'
    BY <1>1, <1>3, <1>5, <1>7, <1>8, <1>10, InCarve DEF CarveKnown, CarvePcs
  <2> QED
    BY <2>1, <2>2 DEF InHand
<1> QED
  BY <1>14, <1>15, <1>16, <1>17

(* The new header is put in front of the list.                             *)
LEMMA LinkStep == ASSUME IInv, ~raced, Link PROVE IInv'
<1>1. main.pc = "link" /\ main.pc \in CarvePcs
  BY DEF Link, CarvePcs
<1>2. /\ free_list' = main.addr /\ mem' = mem /\ placement_addr' = placement_addr
      /\ held' = held /\ raced' = raced
      /\ main' \in CallsOver(DOMAIN mem) /\ main'.pc = "advance" /\ main'.addr = main.addr
      /\ main'.n = main.n
  BY <1>1, InCarve, CallGoesOn DEF Link, Pcs, CarvePcs
<1>3. /\ main.addr \in DOMAIN mem /\ mem[main.addr].size = main.n
      /\ mem[main.addr].free = 0 /\ mem[main.addr].next = free_list
  BY <1>1, InCarve DEF CarveKnown
<1>4. TypeOK'
  <2>1. /\ mem \in [DOMAIN mem -> Headers(DOMAIN mem)]
        /\ \A a \in DOMAIN mem : a \in Nat /\ a >= Base
    BY Types DEF IInv, Typed
  <2> QED
    BY <1>1, <1>2, <1>3, <2>1, InCarve, TypedStep
<1>5. /\ Unlinked = {main.addr} /\ Unlinked' = {} /\ Sized' = Sized
      /\ Limit' = Limit /\ \A a : Carved(a)' <=> Carved(a)
  BY <1>1, <1>2, InCarve DEF Unlinked, Sized, Limit, Carved, CarvePcs
<1>6. Listing'
  <2>1. Listed \subseteq DOMAIN mem
    BY DEF Listed, From
  <2>2. DOMAIN mem' \ Unlinked' = (DOMAIN mem \ Unlinked) \cup {main.addr}
    BY <1>2, <1>3, <1>5
  <2> QED
    BY <1>1, <1>2, <1>3, <1>4, <2>1, <2>2, InCarve, ListingPush
<1>7. Spacing'
  <2>1. Limit <= Limit' /\ (\A a \in Sized : mem'[a].size = mem[a].size)
    BY <1>1, <1>2, <1>5, InCarve
  <2> QED
    BY <1>1, <1>2, <1>4, <1>5, <2>1, InCarve, SpacingKept
<1>8. Owning'
  <2>1. \A x \in DOMAIN mem \ Unlinked :
          x \in DOMAIN mem' \ Unlinked' /\ mem'[x].free = mem[x].free /\ mem'[x].size = mem[x].size
    BY <1>2, <1>5
  <2> QED
    BY <1>1, <1>2, <2>1, InCarve, OwningKept
<1>9. InHand'
  <2>1. \A h \in held : h.owner # "raw" => h.addr # main.addr + HdrSize
    BY <1>1, <1>5, InCarve DEF Owning, Owned
  <2>2. SplitKnown'
    BY <1>2 DEF SplitKnown, SplitPcs
  <2>3. CarveKnown'
    BY <1>1, <1>2, <1>3, <2>1, InCarve DEF CarveKnown, CarvePcs
  <2> QED
    BY <2>2, <2>3 DEF InHand
<1> QED
  BY <1>4, <1>6, <1>7, <1>8, <1>9 DEF IInv

(* The block is the main thread's, and placement_addr above it.            *)
LEMMA AdvanceStep == ASSUME IInv, ~raced, Advance PROVE IInv'
<1> DEFINE c == main.addr
<1>1. main.pc = "advance" /\ main.pc \in CarvePcs
  BY DEF Advance, CarvePcs
<1>2. /\ c \in DOMAIN mem /\ mem[c].size = main.n /\ mem[c].free = 0 /\ c \in Nat
      /\ \A h \in held : h.owner # "raw" => h.addr # c + HdrSize
  BY <1>1, InCarve DEF CarveKnown
<1>3. /\ placement_addr' = placement_addr + HdrSize + main.n /\ mem' = mem
      /\ free_list' = free_list /\ raced' = raced
      /\ main' \in CallsOver(DOMAIN mem) /\ main'.pc = "idle"
      /\ held' = held \cup {[owner |-> "main", addr |-> c + HdrSize, len |-> main.n]}
  BY IdleIs DEF Advance, Hold
<1>4. /\ Unlinked = {} /\ Unlinked' = {} /\ Sized' = Sized /\ Limit' = placement_addr'
      /\ Limit = c /\ c <= placement_addr /\ placement_addr' \in Nat
      /\ \A a : Carved(a) => a = c
  BY <1>1, <1>3, InCarve DEF Unlinked, Sized, Limit, Carved, CarvePcs
<1> HIDE DEF c
<1>5. TypeOK'
  <2>1. /\ mem \in [DOMAIN mem -> Headers(DOMAIN mem)]
        /\ \A a \in DOMAIN mem : a \in Nat /\ a >= Base
        /\ free_list \in DOMAIN mem \cup {NULL} /\ Base \in Nat
    BY Types DEF IInv, Typed
  <2>2. held' \subseteq [owner : {"main", "irq", "raw"}, addr : Nat, len : Nat]
    BY <1>1, <1>2, <1>3, InCarve
  <2>3. placement_addr' \in Nat /\ placement_addr' >= Base /\ raced' \in BOOLEAN
    BY <1>1, <1>3, <2>1, InCarve
  <2> QED
    BY <1>3, <2>1, <2>2, <2>3, TypedStep
<1>6. Listing'
  <2>1. \A x \in Listed : x \in DOMAIN mem' /\ mem'[x].next = mem[x].next
    BY <1>3 DEF Listed, From
  <2> QED
    BY <1>1, <1>3, <1>4, <1>5, <2>1, InCarve, ListingKept
<1>7. Spacing'
  <2>1. Limit <= Limit' /\ End(c) <= Limit'
    BY <1>1, <1>2, <1>3, <1>4, InCarve DEF End
  <2>2. \A h \in held' : h.owner = "raw" => h \in held
    BY <1>3
  <2> QED
    BY <1>1, <1>3, <1>4, <1>5, <2>1, <2>2, InCarve, SpacingKept
<1>8. Owning'
  <2>1. \A x \in DOMAIN mem \ Unlinked :
          x \in DOMAIN mem' \ Unlinked' /\ mem'[x].free = mem[x].free /\ mem'[x].size = mem[x].size
    BY <1>3, <1>4
  <2>2. c \in DOMAIN mem' \ Unlinked' /\ mem'[c].free = 0 /\ mem'[c].size >= main.n
    BY <1>1, <1>2, <1>3, <1>4, InCarve
  <2> QED
    BY <1>1, <1>2, <1>3, <2>1, <2>2, InCarve, OwningNew
<1>9. InHand'
  BY <1>3 DEF InHand, SplitKnown, CarveKnown, SplitPcs, CarvePcs
<1> QED
  BY <1>5, <1>6, <1>7, <1>8, <1>9 DEF IInv

(* A region given back: no other caller has its block, nor the main thread.*)
LEMMA KfreeStep ==
  ASSUME IInv, ~raced, NEW r \in held, r.owner # "raw", Kfree(r)
  PROVE  IInv'
<1> DEFINE c == r.addr - HdrSize
           h == [size |-> mem[c].size, free |-> 1, next |-> mem[c].next]
<1>1. /\ c \in DOMAIN mem \ Unlinked /\ mem[c].free = 0
      /\ mem[c].size \in Nat /\ mem[c].next \in DOMAIN mem \cup {NULL}
      /\ mem[c] \in Headers(DOMAIN mem) /\ c \in Nat /\ c >= Base
  BY Types DEF IInv, Typed, Owning, Owned
<1>2. [mem[c] EXCEPT !.free = 1] = h
  <2>1. mem[c] \in [size : Nat, free : {0, 1}, next : DOMAIN mem \cup {NULL}]
    BY <1>1 DEF Headers
  <2> QED
    BY <2>1
<1>3. /\ mem' = Put(mem, c, h) /\ held' = held \ {r} /\ free_list' = free_list
      /\ placement_addr' = placement_addr /\ main' = main /\ raced' = raced
  BY <1>2 DEF Kfree
<1>4. h \in Headers(DOMAIN mem \cup {c}) /\ h.size = mem[c].size /\ h.next = mem[c].next
  BY <1>1 DEF Headers
<1>5. \A k \in held : k.owner # "raw" /\ k # r => k.addr - HdrSize # c
  <2> SUFFICES ASSUME NEW k \in held, k.owner # "raw", k # r PROVE k.addr - HdrSize # c
    OBVIOUS
  <2>1. k.addr # r.addr /\ k.addr \in Nat /\ r.addr \in Nat
    BY Types DEF IInv, Typed, Owning, OneOwner
  <2> QED
    BY <2>1 DEF HdrSize
<1> HIDE DEF h
<1>6. /\ TypeOK' /\ DOMAIN mem' = DOMAIN mem /\ mem'[c] = h
      /\ \A x \in DOMAIN mem \ {c} : mem'[x] = mem[x]
  <2>1. /\ TypeOK /\ raced' \in BOOLEAN /\ main' \in CallsOver(DOMAIN mem)
        /\ placement_addr \in Nat
        /\ held' \subseteq [owner : {"main", "irq", "raw"}, addr : Nat, len : Nat]
    BY <1>3, Types DEF IInv, Typed, TypeOK
  <2> HIDE DEF c
  <2>2. /\ TypeOK' /\ DOMAIN mem' = DOMAIN mem \cup {c} /\ mem'[c] = h
        /\ \A x \in DOMAIN mem \ {c} : mem'[x] = mem[x]
    BY <1>1, <1>3, <1>4, <2>1, MemWritten
  <2> QED
    BY <1>1, <2>2
<1>7. \A x \in DOMAIN mem : mem'[x].size = mem[x].size /\ mem'[x].next = mem[x].next
  BY <1>4, <1>6
<1>8. /\ Unlinked' = Unlinked /\ Sized' = Sized /\ Limit' = Limit /\ NewBlock' = NewBlock
      /\ \A a : Carved(a)' <=> Carved(a)
  BY <1>3, <1>6 DEF Unlinked, Sized, Limit, Carved, NewBlock
<1>9. Listing'
  <2>1. \A x \in Listed : x \in DOMAIN mem' /\ mem'[x].next = mem[x].next
    BY <1>6, <1>7 DEF Listed, From
  <2> QED
    BY <1>3, <1>6, <1>8, <2>1, ListingKept DEF IInv
<1>10. Spacing'
  <2>1. Limit <= Limit' /\ \A a \in Sized : mem'[a].size = mem[a].size
    BY <1>7, <1>8, Types DEF IInv, Typed, Sized
  <2> QED
    BY <1>3, <1>6, <1>8, <2>1, SpacingKept DEF IInv
<1>11. Owning'
  <2>1. Owned'
    <3> SUFFICES ASSUME NEW k \in held, k # r, k.owner # "raw"
                 PROVE  /\ k.addr - HdrSize \in DOMAIN mem \ Unlinked
                        /\ mem'[k.addr - HdrSize].free = 0
                        /\ mem'[k.addr - HdrSize].size >= k.len
      BY <1>3, <1>6, <1>8 DEF Owned
    <3> QED
      BY <1>5, <1>6 DEF IInv, Owning, Owned
  <2>2. OneOwner'
    BY <1>3 DEF IInv, Owning, OneOwner
  <2> QED
    BY <2>1, <2>2 DEF Owning
<1>12. SplitKnown'
  <2>1. main.pc \in SplitPcs => main.block # c /\ main.block \in DOMAIN mem
    BY <1>1, InSplit
  <2>2. main.pc \in {"old_size", "old_next"} => NewBlock \in DOMAIN mem
    BY DEF IInv, InHand, SplitKnown
  <2> QED
    BY <1>3, <1>6, <1>7, <1>8, <2>1, <2>2 DEF IInv, InHand, SplitKnown, Splits, SplitPcs
<1>13. CarveKnown'
  <2>1. main.pc \in {"link", "advance"} => main.addr # c
    BY <1>1, Types DEF IInv, InHand, CarveKnown, Typed, Unlinked
  <2> QED
    BY <1>3, <1>6, <2>1 DEF IInv, InHand, CarveKnown
<1> QED
  BY <1>3, <1>6, <1>9, <1>10, <1>11, <1>12, <1>13 DEF IInv, InHand
------------------------------------------------------------------------------
(* The handlers' steps.  What a handler finds and leaves of the main       *)
(* thread's call.                                                          *)
LEMMA Interrupted ==
  ASSUME IInv, ~raced, main' = main
  PROVE  /\ NewBlock' = NewBlock /\ Unlinked' = Unlinked /\ \A x : Carved(x)' <=> Carved(x)
         /\ Sized' \cap DOMAIN mem = Sized \cap DOMAIN mem'
         /\ DOMAIN mem' \ Sized' \subseteq {NewBlock} /\ DOMAIN mem \ Sized \subseteq {NewBlock}
         /\ Listed = DOMAIN mem \ Unlinked /\ Unlinked \subseteq DOMAIN mem
         /\ Listed \subseteq Sized /\ Sized \subseteq DOMAIN mem
         /\ DOMAIN mem # Sized =>
              /\ main.pc \in {"new_next", "old_size"}
              /\ NewBlock \in DOMAIN mem /\ NewBlock \notin Listed
              /\ main.block \in Listed /\ main.block < NewBlock /\ NewBlock < End(main.block)
<1>1. NewBlock' = NewBlock
  BY DEF NewBlock
<1>2. Unlinked' = Unlinked /\ \A x : Carved(x)' <=> Carved(x)
  BY <1>1 DEF Unlinked, Carved
<1>3. /\ Sized' \cap DOMAIN mem = Sized \cap DOMAIN mem'
      /\ DOMAIN mem' \ Sized' \subseteq {NewBlock} /\ DOMAIN mem \ Sized \subseteq {NewBlock}
      /\ Sized \subseteq DOMAIN mem
  BY <1>1 DEF Sized
<1>4. Listed = DOMAIN mem \ Unlinked
  BY DEF IInv, Listing, AllListed
<1>5. main.pc \in {"new_next", "old_size", "old_next"} =>
        Unlinked = {NewBlock} /\ NewBlock \in DOMAIN mem
  BY DEF Unlinked, IInv, InHand, SplitKnown
<1>6. Unlinked \subseteq DOMAIN mem
  <2>1. main.pc = "link" => main.addr \in DOMAIN mem
    BY DEF IInv, InHand, CarveKnown
  <2> QED
    BY <1>5, <2>1 DEF Unlinked
<1>7. main.pc \in {"new_next", "old_size"} =>
        main.block \in Listed /\ main.block < NewBlock /\ NewBlock < End(main.block)
  <2> SUFFICES ASSUME main.pc \in {"new_next", "old_size"}
               PROVE  main.block \in Listed /\ main.block < NewBlock /\ NewBlock < End(main.block)
    OBVIOUS
  <2>1. main.pc \in SplitPcs /\ main.pc \in {"new_size", "new_next", "old_size"}
    BY DEF SplitPcs
  <2>2. Splits(main.block, main.n)
    BY <2>1 DEF IInv, InHand, SplitKnown
  <2>3. main.block < NewBlock /\ NewBlock < End(main.block)
    BY <2>1, <2>2, InSplit DEF Splits, End
  <2> QED
    BY <1>4, <1>5, <2>1, <2>3, InSplit
<1>8. Listed \subseteq Sized
  BY <1>4, <1>5 DEF Sized
<1> QED
  BY <1>1, <1>2, <1>3, <1>4, <1>5, <1>6, <1>7, <1>8 DEF Sized

(* Where a handler's call may find placement_addr.                         *)
LEMMA Places ==
  ASSUME IInv, NEW place \in {placement_addr, PageUp(placement_addr)}
  PROVE  /\ place \in Nat /\ placement_addr \in Nat /\ placement_addr <= place
         /\ place >= Base /\ PageUp(place) = PageUp(placement_addr)
<1>1. placement_addr \in Nat /\ placement_addr >= Base /\ Base \in Nat
  BY Types DEF IInv, Typed
<1> QED
  BY <1>1, Roundings

(* The main thread's knowledge of a split survives when neither of its two *)
(* headers is written.                                                     *)
LEMMA SplitKnownKept ==
  ASSUME IInv, ~raced, main' = main,
         main.pc \in SplitPcs => mem'[main.block] = mem[main.block],
         main.pc \in {"new_next", "old_size", "old_next"} =>
           NewBlock \in DOMAIN mem' /\ mem'[NewBlock] = mem[NewBlock]
  PROVE  SplitKnown'
<1>1. NewBlock' = NewBlock
  BY DEF NewBlock
<1> QED
  BY <1>1 DEF IInv, InHand, SplitKnown, Splits, SplitPcs

(* kmalloc in a handler finds a free block, and splits it.                 *)
LEMMA IrqSplitStep ==
  ASSUME IInv, ~raced, NEW n \in Nat, NEW place \in {placement_addr, PageUp(placement_addr)},
         NEW a \in Listed, FitsAt(a, n), Splits(a, n), NEW b, b = a + HdrSize + n,
         mem' = Put(Put(mem, a, [size |-> n, free |-> 0, next |-> b]), b,
                    [size |-> mem[a].size - n - HdrSize, free |-> 1, next |-> mem[a].next]),
         placement_addr' = place, free_list' = free_list, main' = main,
         held' = Hold("irq", a + HdrSize, n),
         raced' = (main.pc \in SplitPcs /\ main.block = a)
  PROVE  IInv'
<1> DEFINE h == [size |-> n, free |-> 0, next |-> b]
           k == [size |-> mem[a].size - n - HdrSize, free |-> 1, next |-> mem[a].next]
<1>1. /\ a \in DOMAIN mem /\ a \in Sized /\ a \notin Unlinked
      /\ mem[a].free = 1 /\ mem[a].size >= n + 28 /\ mem[a].size \in Nat
      /\ a \in Nat /\ a >= Base /\ mem[a].next \in DOMAIN mem \cup {NULL} /\ HdrSize = 24
      /\ Base \in Nat
  BY Interrupted, Types DEF FitsAt, Splits, IInv, Typed
<1>2. b \in Nat /\ b = a + 24 + n /\ b >= Base /\ b # a
  BY <1>1
<1>3. PICK w : w = Put(mem, a, h)
  OBVIOUS
<1>4. h \in Headers(DOMAIN mem \cup {a, b})
  BY <1>1, <1>2 DEF Headers
<1>5. k \in Headers(DOMAIN mem \cup {a, b}) /\ k.size = mem[a].size - n - 24
  <2> DEFINE s == mem[a].size - n - HdrSize
             c == mem[a].next
  <2>1. s \in Nat /\ c \in DOMAIN mem \cup {NULL} /\ s = mem[a].size - n - 24
    BY <1>1
  <2>2. k = [size |-> s, free |-> 1, next |-> c]
    OBVIOUS
  <2> HIDE DEF s, c, k
  <2> QED
    BY <2>1, <2>2 DEF Headers
<1>6. h.size = n /\ h.free = 0 /\ h.next = b /\ k.free = 1 /\ k.next = mem[a].next
  OBVIOUS
<1>7. mem' = Put(w, b, k)
  BY <1>3
<1> HIDE DEF h, k
<1>8. /\ DOMAIN mem' = DOMAIN mem \cup {b} /\ mem'[a] = h /\ mem'[b] = k
      /\ \A x \in DOMAIN mem \ {a, b} : mem'[x] = mem[x]
      /\ mem' = [x \in DOMAIN mem \cup {b} |-> mem'[x]]
  <2>1. /\ DOMAIN w = DOMAIN mem /\ w[a] = h
        /\ \A x \in DOMAIN mem \ {a} : w[x] = mem[x]
    BY <1>1, <1>3 DEF Put
  <2>2. /\ DOMAIN mem' = DOMAIN w \cup {b} /\ mem'[b] = k
        /\ \A x \in DOMAIN w \ {b} : mem'[x] = w[x]
    BY <1>7 DEF Put
  <2>3. mem' = [x \in DOMAIN w \cup {b} |-> mem'[x]]
    BY <1>7 DEF Put
  <2> QED
    BY <1>1, <1>2, <2>1, <2>2, <2>3
<1>9. TypeOK'
  <2>1. mem' \in [DOMAIN mem' -> Headers(DOMAIN mem')]
    <3> DEFINE D == DOMAIN mem \cup {b}
    <3>1. ASSUME NEW x \in D PROVE mem'[x] \in Headers(D)
      <4>1. h \in Headers(D) /\ k \in Headers(D)
        BY <1>1, <1>4, <1>5 DEF Headers
      <4>2. x # b => mem[x] \in Headers(D)
        BY Types DEF IInv, Typed, Headers
      <4> QED
        BY <1>8, <4>1, <4>2
    <3>2. mem' \in [D -> Headers(D)]
      BY <1>8, <3>1
    <3> QED
      BY <1>8, <3>2
  <2>2. \A x \in DOMAIN mem' : x \in Nat /\ x >= Base
    BY <1>2, <1>8, Types DEF IInv, Typed
  <2>3. /\ free_list' \in DOMAIN mem' \cup {NULL} /\ placement_addr' \in Nat
        /\ placement_addr' >= Base /\ raced' \in BOOLEAN
    BY <1>8, Places, Types DEF IInv, Typed
  <2>4. main' \in CallsOver(DOMAIN mem')
    BY <1>8, CallsGrow, Types DEF IInv, Typed
  <2>5. held' \subseteq [owner : {"main", "irq", "raw"}, addr : Nat, len : Nat]
    BY <1>1 DEF IInv, TypeOK, Hold
  <2> QED
    BY <2>1, <2>2, <2>3, <2>4, <2>5, TypedStep
<1> SUFFICES ASSUME ~raced' PROVE Listing' /\ Spacing' /\ Owning' /\ InHand'
  BY <1>9 DEF IInv
<1>10. main.pc \in SplitPcs => main.block # a
  BY Zenon
<1>11. \A x \in Sized : /\ x \in Nat /\ End(x) \in Nat /\ End(x) > x
                        /\ \A y \in Sized : x < y => End(x) <= y
  BY Types DEF IInv, Typed, Sized, Spacing, Spaced
<1>12. a < b /\ b < End(a) /\ End(a) = a + 24 + mem[a].size
  BY <1>1, <1>2 DEF End
<1>13. b \notin Sized
  BY <1>1, <1>2, <1>11, <1>12
<1>14. b \notin DOMAIN mem
  <2> SUFFICES ASSUME b \in DOMAIN mem PROVE FALSE
    OBVIOUS
  <2>1. /\ main.pc \in SplitPcs /\ b = NewBlock /\ main.block \in Sized
        /\ main.block < NewBlock /\ NewBlock < End(main.block)
    BY <1>13, Interrupted DEF SplitPcs
  <2>2. main.block # a /\ main.block \in Nat
    BY <1>10, <1>11, <2>1
  <2> QED
    BY <1>1, <1>2, <1>11, <1>12, <2>1, <2>2
<1>15. /\ NewBlock' = NewBlock /\ Unlinked' = Unlinked /\ \A x : Carved(x)' <=> Carved(x)
       /\ Sized' = Sized \cup {b} /\ b \notin Unlinked
  <2>1. NewBlock = b => main.pc \notin {"new_next", "old_size"}
    BY <1>14 DEF IInv, InHand, SplitKnown
  <2>2. Sized' = Sized \cup {b}
    BY <1>8, <1>14, <2>1, Interrupted DEF Sized
  <2> QED
    BY <1>14, <2>2, Interrupted
<1>16. Listing'
  <2>1. /\ b \in DOMAIN mem' /\ b \notin Listed /\ Listed \subseteq DOMAIN mem'
        /\ \A x \in Listed \ {a} : mem'[x].next = mem[x].next
        /\ mem'[a].next = b /\ mem'[b].next = mem[a].next
    BY <1>6, <1>8, <1>14, Interrupted
  <2>2. DOMAIN mem' \ Unlinked' = (DOMAIN mem \ Unlinked) \cup {b}
    BY <1>8, <1>15
  <2> QED
    BY <1>9, <2>1, <2>2, ListingInsert DEF IInv
<1>17. ~Carved(a)
  BY <1>1 DEF Carved, IInv, InHand, CarveKnown
<1>18. Limit <= Limit'
  <2>1. placement_addr <= placement_addr' /\ placement_addr \in Nat /\ placement_addr' \in Nat
    BY Places
  <2> QED
    BY <2>1, Types DEF IInv, Typed, Limit
<1>19. Spacing'
  <2>1. \A x \in Sized \ {a} : mem'[x].size = mem[x].size
    BY <1>8, <1>13, Interrupted
  <2>2. mem'[a].size = n /\ mem'[b].size = mem[a].size - n - 24
    BY <1>5, <1>6, <1>8
  <2>3. End(a)' <= b /\ End(b)' = End(a)
    BY <1>1, <1>2, <1>12, <2>2 DEF End
  <2>4. \A x \in held' : x.owner = "raw" => x \in held
    BY DEF Hold
  <2>5. b \in DOMAIN mem' /\ TypeOK /\ Spacing
    BY <1>8 DEF IInv
  <2> QED
    BY <1>1, <1>9, <1>12, <1>13, <1>15, <1>17, <1>18, <2>1, <2>3, <2>4, <2>5, SpacingSplit
<1>20. Owning'
  <2>1. \A x \in DOMAIN mem \ Unlinked : mem[x].free = 0 =>
          x \in DOMAIN mem' \ Unlinked' /\ mem'[x].free = 0 /\ mem'[x].size = mem[x].size
    BY <1>1, <1>8, <1>14, <1>15
  <2>2. \A x \in held : x.owner # "raw" => x.addr # a + HdrSize
    BY <1>1 DEF IInv, Owning, Owned
  <2>3. a \in DOMAIN mem' \ Unlinked' /\ mem'[a].free = 0 /\ mem'[a].size >= n
    BY <1>1, <1>6, <1>8, <1>15
  <2> QED
    BY <1>1, <2>1, <2>2, <2>3, OwningNew DEF IInv, Hold
<1>21. SplitKnown'
  <2>1. main.pc \in SplitPcs => main.block \in DOMAIN mem
    BY InSplit
  <2>2. main.pc \in {"new_next", "old_size", "old_next"} =>
          NewBlock \in DOMAIN mem /\ NewBlock # a
    BY <1>1 DEF IInv, InHand, SplitKnown, Unlinked
  <2> QED
    BY <1>8, <1>10, <1>14, <2>1, <2>2, SplitKnownKept
<1>22. CarveKnown'
  <2>1. main.pc = "round" => PageUp(placement_addr') = PageUp(main.addr)
    BY Places DEF IInv, InHand, CarveKnown
  <2>2. main.pc \in CarvePcs => Base <= main.addr /\ main.addr <= placement_addr'
    BY InCarve, Places DEF IInv, InHand, CarveKnown
  <2>3. main.pc \in {"link", "advance"} =>
          /\ main.addr \in DOMAIN mem' /\ mem'[main.addr] = mem[main.addr]
          /\ mem[main.addr].size = main.n /\ mem[main.addr].free = 0
    BY <1>1, <1>8, <1>14 DEF IInv, InHand, CarveKnown
  <2>4. main.pc = "advance" => \A x \in held' : x.owner # "raw" => x.addr # main.addr + HdrSize
    <3> SUFFICES ASSUME main.pc = "advance", NEW x \in held', x.owner # "raw",
                        x.addr = main.addr + HdrSize
                 PROVE  FALSE
      OBVIOUS
    <3>1. main.addr # a /\ main.addr \in Nat /\ HdrSize = 24
      BY <1>1, Types DEF IInv, InHand, CarveKnown, Typed
    <3>2. x \notin held
      BY DEF IInv, InHand, CarveKnown
    <3>3. x.addr = a + HdrSize
      BY <3>2 DEF Hold
    <3> QED
      BY <1>1, <3>1, <3>3
  <2> QED
    BY <2>1, <2>2, <2>3, <2>4 DEF IInv, InHand, CarveKnown
<1> QED
  BY <1>16, <1>19, <1>20, <1>21, <1>22 DEF InHand

(* kmalloc in a handler finds a free block, and takes all of it.           *)
LEMMA IrqTakeStep ==
  ASSUME IInv, ~raced, NEW n \in Nat, NEW place \in {placement_addr, PageUp(placement_addr)},
         NEW a \in Listed, FitsAt(a, n),
         mem' = Put(mem, a, [mem[a] EXCEPT !.free = 0]),
         placement_addr' = place, free_list' = free_list, main' = main,
         held' = Hold("irq", a + HdrSize, n),
         raced' = (main.pc \in SplitPcs /\ main.block = a)
  PROVE  IInv'
<1> DEFINE h == [size |-> mem[a].size, free |-> 0, next |-> mem[a].next]
<1>1. /\ a \in DOMAIN mem /\ a \in Sized /\ a \notin Unlinked
      /\ mem[a].free = 1 /\ mem[a].size >= n /\ mem[a].size \in Nat
      /\ mem[a] \in Headers(DOMAIN mem)
      /\ a \in Nat /\ a >= Base /\ mem[a].next \in DOMAIN mem \cup {NULL} /\ HdrSize = 24
  BY Interrupted, Types DEF FitsAt, IInv, Typed
<1>2. mem' = Put(mem, a, h)
  <2>1. mem[a] \in [size : Nat, free : {0, 1}, next : DOMAIN mem \cup {NULL}]
    BY <1>1 DEF Headers
  <2>2. [mem[a] EXCEPT !.free = 0] = h
    BY <2>1
  <2> QED
    BY <2>2
<1>3. /\ h \in Headers(DOMAIN mem \cup {a}) /\ h.size = mem[a].size /\ h.free = 0
      /\ h.next = mem[a].next
  BY <1>1 DEF Headers
<1> HIDE DEF h
<1>4. /\ TypeOK' /\ DOMAIN mem' = DOMAIN mem /\ mem'[a] = h
      /\ \A x \in DOMAIN mem \ {a} : mem'[x] = mem[x]
  <2>1. /\ TypeOK /\ raced' \in BOOLEAN /\ main' \in CallsOver(DOMAIN mem)
    BY Types DEF IInv, Typed
  <2>2. held' \subseteq [owner : {"main", "irq", "raw"}, addr : Nat, len : Nat]
    BY <1>1 DEF IInv, TypeOK, Hold
  <2>3. placement_addr' \in Nat /\ placement_addr <= placement_addr'
    BY Places
  <2>4. /\ TypeOK' /\ DOMAIN mem' = DOMAIN mem \cup {a} /\ mem'[a] = h
        /\ \A x \in DOMAIN mem \ {a} : mem'[x] = mem[x]
    BY <1>1, <1>2, <1>3, <2>1, <2>2, <2>3, MemWritten
  <2> QED
    BY <1>1, <2>4
<1> SUFFICES ASSUME ~raced' PROVE Listing' /\ Spacing' /\ Owning' /\ InHand'
  BY <1>4 DEF IInv
<1>5. main.pc \in SplitPcs => main.block # a
  BY Zenon
<1>6. \A x \in DOMAIN mem : mem'[x].size = mem[x].size /\ mem'[x].next = mem[x].next
  BY <1>3, <1>4
<1>7. Unlinked' = Unlinked /\ Sized' = Sized /\ \A x : Carved(x)' <=> Carved(x)
  BY <1>4, Interrupted DEF Sized
<1>8. Listing'
  <2>1. \A x \in Listed : x \in DOMAIN mem' /\ mem'[x].next = mem[x].next
    BY <1>4, <1>6 DEF Listed, From
  <2> QED
    BY <1>4, <1>7, <2>1, ListingKept DEF IInv
<1>9. Spacing'
  <2>1. Limit <= Limit'
    BY Places, Types DEF IInv, Typed, Limit
  <2>2. \A x \in Sized : mem'[x].size = mem[x].size
    BY <1>6 DEF Sized
  <2>3. \A x \in held' : x.owner = "raw" => x \in held
    BY DEF Hold
  <2> QED
    BY <1>4, <1>7, <2>1, <2>2, <2>3, SpacingKept DEF IInv
<1>10. Owning'
  <2>1. \A x \in DOMAIN mem \ Unlinked : mem[x].free = 0 =>
          x \in DOMAIN mem' \ Unlinked' /\ mem'[x].free = 0 /\ mem'[x].size = mem[x].size
    BY <1>1, <1>4, <1>7
  <2>2. \A x \in held : x.owner # "raw" => x.addr # a + HdrSize
    BY <1>1 DEF IInv, Owning, Owned
  <2>3. a \in DOMAIN mem' \ Unlinked' /\ mem'[a].free = 0 /\ mem'[a].size >= n
    BY <1>1, <1>3, <1>4, <1>7
  <2> QED
    BY <1>1, <2>1, <2>2, <2>3, OwningNew DEF IInv, Hold
<1>11. SplitKnown'
  <2>1. main.pc \in SplitPcs => main.block \in DOMAIN mem
    BY InSplit
  <2>2. main.pc \in {"new_next", "old_size", "old_next"} =>
          NewBlock \in DOMAIN mem /\ NewBlock # a
    BY <1>1 DEF IInv, InHand, SplitKnown, Unlinked
  <2> QED
    BY <1>4, <1>5, <2>1, <2>2, SplitKnownKept
<1>12. CarveKnown'
  <2>1. main.pc = "round" => PageUp(placement_addr') = PageUp(main.addr)
    BY Places DEF IInv, InHand, CarveKnown
  <2>2. main.pc \in CarvePcs => Base <= main.addr /\ main.addr <= placement_addr'
    BY InCarve, Places DEF IInv, InHand, CarveKnown
  <2>3. main.pc \in {"link", "advance"} =>
          /\ main.addr \in DOMAIN mem' /\ mem'[main.addr] = mem[main.addr]
          /\ mem[main.addr].size = main.n /\ mem[main.addr].free = 0
    BY <1>1, <1>4 DEF IInv, InHand, CarveKnown
  <2>4. main.pc = "advance" => \A x \in held' : x.owner # "raw" => x.addr # main.addr + HdrSize
    <3> SUFFICES ASSUME main.pc = "advance", NEW x \in held', x.owner # "raw",
                        x.addr = main.addr + HdrSize
                 PROVE  FALSE
      OBVIOUS
    <3>1. main.addr # a /\ main.addr \in Nat /\ HdrSize = 24
      BY <1>1, Types DEF IInv, InHand, CarveKnown, Typed
    <3>2. x \notin held
      BY DEF IInv, InHand, CarveKnown
    <3>3. x.addr = a + HdrSize
      BY <3>2 DEF Hold
    <3> QED
      BY <1>1, <3>1, <3>3
  <2> QED
    BY <2>1, <2>2, <2>3, <2>4 DEF IInv, InHand, CarveKnown
<1> QED
  BY <1>8, <1>9, <1>10, <1>11, <1>12 DEF InHand

(* The main thread is not about to carve, or to raise placement_addr.      *)
LEMMA NotCarving ==
  ASSUME IInv, ~raced, main' = main, main.pc \notin CarvePcs \cup {"round"}
  PROVE  CarveKnown' /\ Limit = placement_addr /\ Limit' = placement_addr'
         /\ \A x : ~Carved(x) /\ ~Carved(x)'
  BY DEF CarveKnown, Limit, Carved, CarvePcs

(* kmalloc in a handler finds none, and carves a block.                    *)
LEMMA IrqCarveStep ==
  ASSUME IInv, ~raced, NEW n \in Nat, NEW place \in {placement_addr, PageUp(placement_addr)},
         IrqCarve(n, place)
  PROVE  IInv'
<1> DEFINE h == [size |-> n, free |-> 0, next |-> free_list]
<1>1. /\ mem' = Put(mem, place, h) /\ free_list' = place
      /\ placement_addr' = place + HdrSize + n /\ main' = main
      /\ held' = held \cup {[owner |-> "irq", addr |-> place + HdrSize, len |-> n]}
      /\ raced' = (main.pc \in CarvePcs \cup {"round"})
  BY DEF IrqCarve, Hold
<1>2. h \in Headers(DOMAIN mem \cup {place}) /\ h.size = n /\ h.free = 0 /\ h.next = free_list
  BY Types DEF Headers, IInv, Typed
<1>3. /\ place \in Nat /\ placement_addr \in Nat /\ placement_addr <= place /\ place >= Base
      /\ HdrSize = 24 /\ place + HdrSize \in Nat
  BY Places DEF HdrSize
<1> HIDE DEF h
<1>4. /\ TypeOK' /\ DOMAIN mem' = DOMAIN mem \cup {place} /\ mem'[place] = h
      /\ \A x \in DOMAIN mem \ {place} : mem'[x] = mem[x]
  <2>1. /\ TypeOK /\ raced' \in BOOLEAN /\ main' \in CallsOver(DOMAIN mem)
    BY <1>1, Types DEF IInv, Typed
  <2>2. held' \subseteq [owner : {"main", "irq", "raw"}, addr : Nat, len : Nat]
    BY <1>1, <1>3 DEF IInv, TypeOK
  <2>3. placement_addr' \in Nat /\ placement_addr <= placement_addr'
    BY <1>1, <1>3
  <2> QED
    BY <1>1, <1>2, <1>3, <2>1, <2>2, <2>3, MemWritten
<1> SUFFICES ASSUME ~raced' PROVE Listing' /\ Spacing' /\ Owning' /\ InHand'
  BY <1>4 DEF IInv
<1>5. main.pc \notin CarvePcs \cup {"round"}
  BY <1>1, Zenon
<1>6. /\ CarveKnown' /\ Limit = placement_addr /\ Limit' = placement_addr'
      /\ \A x : ~Carved(x) /\ ~Carved(x)'
  BY <1>1, <1>5, NotCarving
<1>7. \A x \in Sized : x \in Nat /\ End(x) \in Nat /\ End(x) > x /\ End(x) <= placement_addr
  BY <1>6, Types DEF IInv, Typed, Sized, Spacing, Below
<1>8. place \notin DOMAIN mem
  <2>1. place \notin Sized
    BY <1>3, <1>7
  <2>2. DOMAIN mem # Sized => NewBlock < place /\ NewBlock \in Nat
    <3> SUFFICES ASSUME DOMAIN mem # Sized PROVE NewBlock < place /\ NewBlock \in Nat
      OBVIOUS
    <3>1. /\ NewBlock \in DOMAIN mem /\ main.block \in Sized /\ NewBlock < End(main.block)
      BY <1>1, Interrupted
    <3>2. NewBlock \in Nat
      BY <3>1, Types DEF IInv, Typed
    <3> QED
      BY <1>3, <1>7, <3>1, <3>2
  <2>3. DOMAIN mem \ Sized \subseteq {NewBlock}
    BY <1>1, Interrupted
  <2> QED
    BY <1>3, <2>1, <2>2, <2>3
<1>9. /\ Unlinked' = Unlinked /\ Sized' = Sized \cup {place} /\ place \notin Unlinked
      /\ place \notin Sized
  <2>1. main.pc \in {"new_next", "old_size"} => NewBlock \in DOMAIN mem
    BY DEF IInv, InHand, SplitKnown
  <2>2. Sized' = Sized \cup {place}
    BY <1>1, <1>4, <1>8, <2>1, Interrupted DEF Sized
  <2> QED
    BY <1>1, <1>8, <2>2, Interrupted
<1>10. Listing'
  <2>1. /\ place \in DOMAIN mem' /\ Listed \subseteq DOMAIN mem' /\ mem'[place].next = free_list
        /\ \A x \in Listed : mem'[x].next = mem[x].next
    BY <1>1, <1>2, <1>4, <1>8, Interrupted
  <2>2. DOMAIN mem' \ Unlinked' = (DOMAIN mem \ Unlinked) \cup {place}
    BY <1>4, <1>9
  <2> QED
    BY <1>1, <1>4, <2>1, <2>2, ListingPush DEF IInv
<1>11. Spacing'
  <2>1. PICK b : b = place
    OBVIOUS
  <2>2. /\ b \in DOMAIN mem' /\ Sized' = Sized \cup {b} /\ Limit <= b /\ Limit <= Limit'
        /\ \A x \in Sized : ~Carved(x) /\ mem'[x].size = mem[x].size
    BY <1>1, <1>3, <1>4, <1>6, <1>8, <1>9, <2>1 DEF Sized
  <2>3. End(b)' <= Limit'
    BY <1>1, <1>2, <1>3, <1>4, <1>6, <2>1 DEF End
  <2>4. \A x \in held' : x.owner = "raw" => x \in held
    BY <1>1
  <2> QED
    BY <1>4, <2>2, <2>3, <2>4, SpacingTop DEF IInv
<1>12. Owning'
  <2>1. \A x \in DOMAIN mem \ Unlinked :
          x \in DOMAIN mem' \ Unlinked' /\ mem'[x].free = mem[x].free /\ mem'[x].size = mem[x].size
    BY <1>4, <1>8, <1>9
  <2>2. \A x \in held : x.owner # "raw" => x.addr # place + HdrSize
    BY <1>3, <1>8 DEF IInv, Owning, Owned
  <2>3. place \in DOMAIN mem' \ Unlinked' /\ mem'[place].free = 0 /\ mem'[place].size >= n
    BY <1>2, <1>4, <1>9
  <2> QED
    BY <1>1, <1>3, <2>1, <2>2, <2>3, OwningNew DEF IInv
<1>13. SplitKnown'
  <2>1. main.pc \in SplitPcs => main.block \in DOMAIN mem
    BY InSplit
  <2>2. main.pc \in {"new_next", "old_size", "old_next"} => NewBlock \in DOMAIN mem
    BY DEF IInv, InHand, SplitKnown
  <2> QED
    BY <1>1, <1>4, <1>8, <2>1, <2>2, SplitKnownKept
<1> QED
  BY <1>6, <1>10, <1>11, <1>12, <1>13 DEF InHand

(* kmalloc_raw_aligned in a handler: no header, and nothing goes back.     *)
LEMMA IrqRawStep ==
  ASSUME IInv, ~raced, NEW need \in RawSizes, IrqRaw(need)
  PROVE  IInv'
<1> DEFINE addr == PageUp(placement_addr)
<1>1. /\ placement_addr' = addr + need /\ mem' = mem /\ free_list' = free_list /\ main' = main
      /\ held' = held \cup {[owner |-> "raw", addr |-> addr, len |-> need]}
      /\ raced' = (main.pc \in CarvePcs \cup {"round"})
  BY DEF IrqRaw, Hold
<1>2. /\ need \in Nat /\ need > 0 /\ addr \in Nat /\ placement_addr \in Nat
      /\ placement_addr <= addr /\ addr >= Base
  BY HeapIrqAssumption, Places
<1> HIDE DEF addr
<1>3. TypeOK'
  <2>1. /\ mem \in [DOMAIN mem -> Headers(DOMAIN mem)] /\ main \in CallsOver(DOMAIN mem)
        /\ \A a \in DOMAIN mem : a \in Nat /\ a >= Base
        /\ free_list \in DOMAIN mem \cup {NULL} /\ Base \in Nat
    BY Types DEF IInv, Typed
  <2>2. held' \subseteq [owner : {"main", "irq", "raw"}, addr : Nat, len : Nat]
    BY <1>1, <1>2 DEF IInv, TypeOK
  <2>3. placement_addr' \in Nat /\ placement_addr' >= Base /\ raced' \in BOOLEAN
    BY <1>1, <1>2, <2>1
  <2> QED
    BY <1>1, <2>1, <2>2, <2>3, TypedStep
<1> SUFFICES ASSUME ~raced' PROVE Listing' /\ Spacing' /\ Owning' /\ InHand'
  BY <1>3 DEF IInv
<1>4. main.pc \notin CarvePcs \cup {"round"}
  BY <1>1, Zenon
<1>5. /\ CarveKnown' /\ Limit = placement_addr /\ Limit' = placement_addr'
      /\ \A x : ~Carved(x) /\ ~Carved(x)'
  BY <1>1, <1>4, NotCarving
<1>6. Unlinked' = Unlinked /\ Sized' = Sized
  BY <1>1, Interrupted DEF Sized
<1>7. Listing'
  <2>1. \A x \in Listed : x \in DOMAIN mem' /\ mem'[x].next = mem[x].next
    BY <1>1 DEF Listed, From
  <2> QED
    BY <1>1, <1>3, <1>6, <2>1, ListingKept DEF IInv
<1>8. Spacing'
  <2>1. Limit <= Limit' /\ \A a \in Sized : mem'[a].size = mem[a].size
    BY <1>1, <1>2, <1>5
  <2>2. \A h \in held' : h.owner = "raw" =>
          \/ h \in held
          \/ h.len > 0 /\ Limit <= h.addr /\ h.addr + h.len <= Limit' /\ \A a \in Sized : ~Carved(a)
    BY <1>1, <1>2, <1>5
  <2> QED
    BY <1>3, <1>5, <1>6, <2>1, <2>2, SpacingKept DEF IInv
<1>9. Owning'
  <2>1. \A x \in DOMAIN mem \ Unlinked :
          x \in DOMAIN mem' \ Unlinked' /\ mem'[x].free = mem[x].free /\ mem'[x].size = mem[x].size
    BY <1>1, <1>6
  <2>2. \A h \in held' : h \in held \/ h.owner = "raw"
    BY <1>1
  <2> QED
    BY <2>1, <2>2, OwningKept DEF IInv
<1>10. SplitKnown'
  <2>1. main.pc \in {"new_next", "old_size", "old_next"} => NewBlock \in DOMAIN mem
    BY DEF IInv, InHand, SplitKnown
  <2> QED
    BY <1>1, <2>1, SplitKnownKept
<1> QED
  BY <1>5, <1>7, <1>8, <1>9, <1>10 DEF InHand

LEMMA IrqKmallocStep ==
  ASSUME IInv, ~raced, NEW need \in Sizes, IrqKmalloc(need) \/ IrqKmallocA(need)
  PROVE  IInv'
<1> DEFINE n == RoundUp4(need)
<1>1. n \in Nat
  BY HeapIrqAssumption, Roundings
<1>2. PICK place \in {placement_addr, PageUp(placement_addr)} :
        IrqReuse(n, place) \/ IrqCarve(n, place)
  BY DEF IrqKmalloc, IrqKmallocA, IrqKmallocFrom
<1> HIDE DEF n
<1>3. CASE IrqReuse(n, place)
  <2>1. PICK a \in Listed : /\ FirstFit(a, n)
                            /\ mem' = IF Splits(a, n)
                                      THEN Put(Put(mem, a, [size |-> n, free |-> 0,
                                                            next |-> a + HdrSize + n]),
                                               a + HdrSize + n,
                                               [size |-> mem[a].size - n - HdrSize, free |-> 1,
                                                next |-> mem[a].next])
                                      ELSE Put(mem, a, [mem[a] EXCEPT !.free = 0])
                            /\ placement_addr' = place
                            /\ held' = Hold("irq", a + HdrSize, n)
                            /\ raced' = (main.pc \in SplitPcs /\ main.block = a)
                            /\ free_list' = free_list /\ main' = main
    BY <1>3 DEF IrqReuse
  <2>2. FitsAt(a, n)
    BY <2>1 DEF FirstFit
  <2>3. CASE Splits(a, n)
    <3>1. PICK b : b = a + HdrSize + n
      OBVIOUS
    <3>2. mem' = Put(Put(mem, a, [size |-> n, free |-> 0, next |-> b]), b,
                     [size |-> mem[a].size - n - HdrSize, free |-> 1, next |-> mem[a].next])
      BY <2>1, <2>3, <3>1
    <3> QED
      BY <1>1, <2>1, <2>2, <2>3, <3>1, <3>2, IrqSplitStep
  <2>4. CASE ~Splits(a, n)
    BY <1>1, <2>1, <2>2, <2>4, IrqTakeStep
  <2> QED
    BY <2>3, <2>4
<1> QED
  BY <1>1, <1>2, <1>3, IrqCarveStep

LEMMA NextInv == IInv /\ [Next]_vars => IInv'
<1> SUFFICES ASSUME IInv, [Next]_vars PROVE IInv'
  OBVIOUS
<1>1. CASE Next
  <2>1. ~raced
    BY <1>1 DEF Next
  <2>2. CASE Main
    BY <2>1, <2>2, CallStep, AlignStep, RoundStep, WalkStep, CheckStep, NewSizeStep, NewNextStep,
       OldSizeStep, OldNextStep, TakeStep, CarveStep, HeaderStep, LinkStep, AdvanceStep DEF Main
  <2>3. CASE Irq
    BY <2>1, <2>3, IrqKmallocStep, IrqRawStep DEF Irq
  <2>4. CASE \E r \in held : r.owner # "raw" /\ Kfree(r)
    BY <2>1, <2>4, KfreeStep
  <2> QED
    BY <1>1, <2>2, <2>3, <2>4 DEF Next
<1>2. CASE UNCHANGED vars
  <2>1. /\ mem' = mem /\ free_list' = free_list /\ placement_addr' = placement_addr
        /\ main' = main /\ held' = held /\ raced' = raced
    BY <1>2 DEF vars
  <2> QED
    BY <2>1 DEF IInv, TypeOK, Listing, ListEnds, AllListed, Listed, From, Closed, Unlinked,
       NewBlock, Spacing, Spaced, Below, RawClear, Sized, Limit, Carved, End, Owning, Owned, OneOwner,
       InHand, SplitKnown, CarveKnown, Splits
<1> QED
  BY <1>1, <1>2

(* The list ends, holds each header but the one being put on it, its       *)
(* blocks share no byte and each caller's region is a block of it in use,  *)
(* at every instant at which a handler can come.                           *)
THEOREM ListIsSound == Spec => []ListSound
<1>1. IInv => ListSound
  <2> SUFFICES ASSUME IInv, ~raced
               PROVE  \A a, b \in Listed : a < b => a + HdrSize + mem[a].size <= b
    BY Types DEF IInv, ListSound, Listing, ListEnds, AllListed, Owning, Owned
  <2>1. Listed \subseteq Sized
    BY DEF IInv, Listing, AllListed, Unlinked, Sized
  <2> QED
    BY <2>1 DEF IInv, Spacing, Spaced, End
<1> QED
  BY InitInv, NextInv, <1>1, PTL DEF Spec
------------------------------------------------------------------------------
(* The regions: what a step adds to them is apart from them.               *)
FreshAt(addr, len) ==
  \A h \in held : /\ h.addr + h.len <= addr \/ addr + len <= h.addr
                  /\ h.addr # addr \/ h.len # len

(* A region that a block holds.                                            *)
LEMMA RegionOf ==
  ASSUME IInv, ~raced, NEW h \in held, h.owner # "raw"
  PROVE  LET a == h.addr - HdrSize IN
         a \in Sized /\ a \in Nat /\ h.addr = a + 24 /\ h.addr + h.len <= End(a)
                     /\ a \notin Unlinked /\ mem[a].free = 0
<1> DEFINE a == h.addr - HdrSize
<1>1. a \in DOMAIN mem \ Unlinked /\ mem[a].size >= h.len /\ mem[a].free = 0
  BY DEF IInv, Owning, Owned
<1>2. a \in Sized
  BY <1>1 DEF Sized, Unlinked
<1>3. a \in Nat /\ h.addr \in Nat /\ h.len \in Nat /\ mem[a].size \in Nat /\ HdrSize = 24
  BY <1>1, Types DEF IInv, Typed
<1> QED
  BY <1>1, <1>2, <1>3 DEF End

LEMMA BlockFresh ==
  ASSUME IInv, ~raced, NEW a \in Sized, NEW n \in Nat, mem[a].size >= n,
         \A h \in held : h.owner # "raw" => h.addr # a + HdrSize
  PROVE  FreshAt(a + HdrSize, n)
<1> SUFFICES ASSUME NEW h \in held
             PROVE  /\ h.addr + h.len <= a + 24 \/ a + 24 + n <= h.addr
                    /\ h.addr # a + 24 \/ h.len # n
  BY DEF FreshAt, HdrSize
<1>1. /\ a \in Nat /\ End(a) \in Nat /\ End(a) = a + 24 + mem[a].size /\ mem[a].size \in Nat
      /\ h.addr \in Nat /\ h.len \in Nat
  BY Types DEF IInv, Typed, Sized, End
<1>2. CASE h.owner = "raw"
  <2>1. h.len > 0 /\ (h.addr + h.len <= a \/ End(a) <= h.addr)
    BY <1>2 DEF IInv, Spacing, RawClear
  <2> QED
    BY <1>1, <2>1
<1>3. CASE h.owner # "raw"
  <2> DEFINE b == h.addr - HdrSize
  <2>1. b \in Sized /\ b \in Nat /\ h.addr = b + 24 /\ h.addr + h.len <= End(b)
    BY <1>3, RegionOf
  <2>2. End(b) \in Nat
    BY <2>1, Types DEF IInv, Typed, Sized
  <2>3. h.addr # a + 24
    BY <1>3 DEF HdrSize
  <2> HIDE DEF b
  <2>4. a < b => End(a) <= b
    BY <2>1 DEF IInv, Spacing, Spaced
  <2>5. b < a => End(b) <= a
    BY <2>1 DEF IInv, Spacing, Spaced
  <2> QED
    BY <1>1, <2>1, <2>2, <2>3, <2>4, <2>5
<1> QED
  BY <1>2, <1>3

(* Where nothing is carved at the moment, all regions end below            *)
(* placement_addr.                                                         *)
LEMMA TopFresh ==
  ASSUME IInv, ~raced, main.pc \notin CarvePcs, NEW addr \in Nat, NEW n \in Nat,
         placement_addr < addr \/ (placement_addr = addr /\ n > 0)
  PROVE  FreshAt(addr, n)
<1> SUFFICES ASSUME NEW h \in held PROVE h.addr + h.len <= placement_addr
  <2>1. placement_addr \in Nat /\ \A h \in held : h.addr \in Nat /\ h.len \in Nat
    BY Types DEF IInv, Typed
  <2> QED
    BY <2>1 DEF FreshAt
<1>1. Limit = placement_addr /\ \A a : ~Carved(a)
  BY DEF Limit, Carved, CarvePcs
<1>2. CASE h.owner = "raw"
  BY <1>1, <1>2 DEF IInv, Spacing, RawClear
<1>3. CASE h.owner # "raw"
  <2> DEFINE b == h.addr - HdrSize
  <2>1. b \in Sized /\ h.addr + h.len <= End(b)
    BY <1>3, RegionOf
  <2>2. End(b) \in Nat /\ h.addr \in Nat /\ h.len \in Nat /\ placement_addr \in Nat
    BY <2>1, Types DEF IInv, Typed, Sized
  <2> HIDE DEF b
  <2>3. End(b) <= placement_addr
    BY <1>1, <2>1 DEF IInv, Spacing, Below
  <2> QED
    BY <2>1, <2>2, <2>3
<1> QED
  BY <1>2, <1>3

LEMMA FreshIsAlloc ==
  ASSUME NEW addr \in Nat, NEW n \in Nat, NEW who, FreshAt(addr, n),
         held' = held \cup {[owner |-> who, addr |-> addr, len |-> n]}
  PROVE  Abs!Next
<1> DEFINE r == [addr |-> addr, len |-> n]
<1>1. r \in Abs!Region /\ r.addr = addr /\ r.len = n
  BY DEF Abs!Region
<1>2. Regions' = Regions \cup {r}
  <2> DEFINE k == [owner |-> who, addr |-> addr, len |-> n]
  <2>1. [addr |-> k.addr, len |-> k.len] = r /\ held' = held \cup {k}
    OBVIOUS
  <2> HIDE DEF k, r
  <2> QED
    BY <2>1 DEF Regions
<1>3. r \notin Regions
  BY DEF Regions, FreshAt
<1>4. \A s \in Regions : Abs!Apart(r, s)
  BY DEF Regions, FreshAt, Abs!Apart
<1> HIDE DEF r
<1> QED
  BY <1>1, <1>2, <1>3, <1>4 DEF Abs!Next, Abs!Alloc

(* A handler's call that did not interfere is an Alloc.                    *)
LEMMA IrqAllocs ==
  ASSUME IInv, ~raced, ~raced', Irq
  PROVE  Abs!Next
<1>1. CASE \E need \in Sizes : IrqKmalloc(need) \/ IrqKmallocA(need)
  <2>1. PICK need \in Sizes : IrqKmalloc(need) \/ IrqKmallocA(need)
    BY <1>1
  <2> DEFINE n == RoundUp4(need)
  <2>2. n \in Nat
    BY HeapIrqAssumption, Roundings
  <2>3. PICK place \in {placement_addr, PageUp(placement_addr)} :
          IrqReuse(n, place) \/ IrqCarve(n, place)
    BY <2>1 DEF IrqKmalloc, IrqKmallocA, IrqKmallocFrom
  <2> HIDE DEF n
  <2>4. CASE IrqReuse(n, place)
    <3>1. PICK a \in Listed : FirstFit(a, n) /\ held' = Hold("irq", a + HdrSize, n)
      BY <2>4 DEF IrqReuse
    <3>2. /\ a \in DOMAIN mem \ Unlinked /\ mem[a].free = 1 /\ mem[a].size >= n
      BY <3>1 DEF IInv, Listing, AllListed, FirstFit, FitsAt
    <3>3. a \in Sized /\ a \in Nat /\ HdrSize = 24
      BY <3>2, Types DEF IInv, Typed, Sized, Unlinked
    <3>4. \A h \in held : h.owner # "raw" => h.addr # a + HdrSize
      BY <3>2, <3>3 DEF IInv, Owning, Owned
    <3>5. FreshAt(a + HdrSize, n) /\ a + HdrSize \in Nat
      BY <2>2, <3>2, <3>3, <3>4, BlockFresh
    <3> QED
      BY <2>2, <3>1, <3>5, FreshIsAlloc DEF Hold
  <2>5. CASE IrqCarve(n, place)
    <3>1. main.pc \notin CarvePcs
      BY <2>5, Zenon DEF IrqCarve
    <3> DEFINE addr == place + HdrSize
    <3>2. addr \in Nat /\ placement_addr \in Nat /\ placement_addr < addr
      BY Places DEF HdrSize
    <3>3. held' = Hold("irq", addr, n)
      BY <2>5 DEF IrqCarve
    <3> HIDE DEF addr
    <3>4. FreshAt(addr, n)
      BY <2>2, <3>1, <3>2, TopFresh
    <3> QED
      BY <2>2, <3>2, <3>3, <3>4, FreshIsAlloc DEF Hold
  <2> QED
    BY <2>3, <2>4, <2>5
<1>2. CASE \E need \in RawSizes : IrqRaw(need)
  <2>1. PICK need \in RawSizes : IrqRaw(need)
    BY <1>2
  <2> DEFINE addr == PageUp(placement_addr)
  <2>2. main.pc \notin CarvePcs
    BY <2>1, Zenon DEF IrqRaw
  <2>3. need \in Nat /\ need > 0 /\ addr \in Nat /\ placement_addr \in Nat /\ placement_addr <= addr
    BY HeapIrqAssumption, Places
  <2>4. held' = held \cup {[owner |-> "raw", addr |-> addr, len |-> need]}
    BY <2>1 DEF IrqRaw, Hold
  <2> HIDE DEF addr
  <2>5. FreshAt(addr, need)
    BY <2>2, <2>3, TopFresh
  <2> QED
    BY <2>3, <2>4, <2>5, FreshIsAlloc
<1> QED
  BY <1>1, <1>2 DEF Irq

(* The main thread's last access of a call is an Alloc, the others are no  *)
(* step of the allocator.                                                  *)
LEMMA MainAllocs ==
  ASSUME IInv, ~raced, Main
  PROVE  Abs!Next \/ UNCHANGED Regions
<1>1. CASE Take
  <2> DEFINE a == main.block
  <2>1. main.pc = "take" /\ held' = Hold("main", a + HdrSize, main.n)
    BY <1>1 DEF Take
  <2>2. /\ a \in DOMAIN mem /\ a \in Nat /\ main.n \in Nat /\ mem[a].free = 1
        /\ mem[a].size >= main.n /\ HdrSize = 24
    BY <2>1, InSplit DEF SplitPcs
  <2>3. a \in Sized
    BY <2>1, <2>2 DEF Sized
  <2>4. \A h \in held : h.owner # "raw" => h.addr # a + HdrSize
    BY <2>2 DEF IInv, Owning, Owned
  <2> HIDE DEF a
  <2>5. FreshAt(a + HdrSize, main.n) /\ a + HdrSize \in Nat
    BY <2>2, <2>3, <2>4, BlockFresh
  <2> QED
    BY <2>1, <2>2, <2>5, FreshIsAlloc DEF Hold
<1>2. CASE Advance
  <2> DEFINE a == main.addr
  <2>1. main.pc = "advance" /\ held' = Hold("main", a + HdrSize, main.n)
    BY <1>2 DEF Advance
  <2>2. /\ a \in Sized /\ a \in Nat /\ main.n \in Nat /\ mem[a].size = main.n /\ HdrSize = 24
        /\ \A h \in held : h.owner # "raw" => h.addr # a + HdrSize
    BY <2>1, InCarve DEF CarvePcs, CarveKnown
  <2> HIDE DEF a
  <2>3. FreshAt(a + HdrSize, main.n) /\ a + HdrSize \in Nat
    BY <2>2, BlockFresh
  <2> QED
    BY <2>1, <2>2, <2>3, FreshIsAlloc DEF Hold
<1>3. CASE ~Take /\ ~Advance
  <2>1. held' = held
    BY <1>3 DEF Main, Kmalloc, KmallocA, Align, Round, Walk, Check, NewSize, NewNext, OldSize,
                OldNext, SplitStep, Carve, Header, Link
  <2> QED
    BY <2>1 DEF Regions
<1> QED
  BY <1>1, <1>2, <1>3

(* Only the region given back goes.                                        *)
LEMMA KfreeFrees ==
  ASSUME IInv, ~raced, NEW r \in held, r.owner # "raw", Kfree(r)
  PROVE  Abs!Next
<1> DEFINE q == [addr |-> r.addr, len |-> r.len]
           a == r.addr - HdrSize
<1>1. ASSUME NEW h \in held, h # r PROVE h.addr # r.addr \/ h.len # r.len
  <2>1. CASE h.owner # "raw"
    BY <1>1, <2>1 DEF IInv, Owning, OneOwner
  <2>2. CASE h.owner = "raw"
    <3>1. /\ a \in Sized /\ a \in Nat /\ r.addr = a + 24 /\ r.addr + r.len <= End(a)
      BY RegionOf
    <3>2. End(a) \in Nat /\ h.addr \in Nat /\ h.len \in Nat /\ r.len \in Nat
      BY <3>1, Types DEF IInv, Typed, Sized
    <3> HIDE DEF a
    <3>3. h.len > 0 /\ (h.addr + h.len <= a \/ End(a) <= h.addr)
      BY <2>2, <3>1 DEF IInv, Spacing, RawClear
    <3> QED
      BY <3>1, <3>2, <3>3
  <2> QED
    BY <2>1, <2>2
<1>2. held' = held \ {r}
  BY DEF Kfree
<1>3. q \in Regions /\ Regions' = Regions \ {q}
  BY <1>1, <1>2 DEF Regions
<1> HIDE DEF q
<1> QED
  BY <1>3 DEF Abs!Next, Abs!Free

(* Main thread and handlers together hand out and take back regions of     *)
(* memory that share no byte, up to the first interference.                *)
THEOREM OneAllocator == Spec => AllocatorUnlessRaced
<1>1. Init => Abs!Init
  BY DEF Init, Abs!Init, Regions
<1>2. IInv /\ [Next]_vars => [raced' \/ Abs!Next]_Regions
  <2> SUFFICES ASSUME IInv, [Next]_vars, ~raced' PROVE Abs!Next \/ UNCHANGED Regions
    OBVIOUS
  <2>1. CASE Next
    <3>1. ~raced
      BY <2>1 DEF Next
    <3> QED
      BY <2>1, <3>1, MainAllocs, IrqAllocs, KfreeFrees DEF Next
  <2>2. CASE UNCHANGED vars
    BY <2>2 DEF vars, Regions
  <2> QED
    BY <2>1, <2>2
<1> QED
  BY <1>1, <1>2, InitInv, NextInv, PTL DEF Spec, AllocatorUnlessRaced
=============================================================================
