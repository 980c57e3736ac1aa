----------------------------- MODULE HeapProofs -----------------------------
(***************************************************************************)
(* Proofs about Heap, for every base address, every set of request sizes   *)
(* and heaps of any length.  HeapSound becomes inductive with the types    *)
(* and with the placement address never below Base, which an empty heap    *)
(* does not say; the refinement rests on the same IInv.  NoLostBytes is    *)
(* inductive beside it: what a call leaves, carves or splits is continued  *)
(* by the header behind it (Continued).                                    *)
(***************************************************************************)
EXTENDS Heap, SequenceTheorems, TLAPS

IInv == TypeOK /\ HeapSound /\ Base <= placement_addr

(* RoundUp4 and PageUp only go up. *)
LEMMA RoundUp4Up == ASSUME NEW n \in Nat PROVE RoundUp4(n) \in Nat /\ RoundUp4(n) >= n
  BY DEF RoundUp4

LEMMA PageUpUp == ASSUME NEW a \in Nat PROVE PageUp(a) \in Nat /\ PageUp(a) >= a
  BY DEF PageUp, PageSize

(* What InsertAt returns, element by element. *)
LEMMA InsertAtElements ==
  ASSUME NEW S, NEW s \in Seq(S), NEW e \in S, NEW i \in 1 .. Len(s) + 1
  PROVE  /\ InsertAt(s, i, e) \in Seq(S)
         /\ Len(InsertAt(s, i, e)) = Len(s) + 1
         /\ \A j \in 1 .. Len(s) + 1 :
              InsertAt(s, i, e)[j] = IF j < i THEN s[j]
                                     ELSE IF j = i THEN e ELSE s[j - 1]
<1> DEFINE front == SubSeq(s, 1, i - 1)
           back == SubSeq(s, i, Len(s))
<1>1. /\ front \in Seq(S) /\ Len(front) = i - 1
      /\ \A j \in 1 .. i - 1 : front[j] = s[j]
  OBVIOUS
<1>2. /\ back \in Seq(S) /\ Len(back) = Len(s) - i + 1
      /\ \A j \in 1 .. Len(s) - i + 1 : back[j] = s[i + j - 1]
  OBVIOUS
<1>3. <<e>> \in Seq(S) /\ Len(<<e>>) = 1 /\ <<e>>[1] = e
  OBVIOUS
<1> HIDE DEF front, back
<1>4. /\ front \o <<e>> \in Seq(S) /\ Len(front \o <<e>>) = i
      /\ \A j \in 1 .. i : (front \o <<e>>)[j] = IF j < i THEN s[j] ELSE e
  BY <1>1, <1>3
<1>5. InsertAt(s, i, e) = (front \o <<e>>) \o back
  BY DEF InsertAt, front, back
<1>6. i \in Nat /\ Len(s) \in Nat /\ i <= Len(s) + 1
  OBVIOUS
<1>7. /\ (front \o <<e>>) \o back \in Seq(S)
      /\ Len((front \o <<e>>) \o back) = i + (Len(s) - i + 1)
      /\ \A j \in 1 .. i + (Len(s) - i + 1) :
           ((front \o <<e>>) \o back)[j] =
             IF j <= i THEN (front \o <<e>>)[j] ELSE back[j - i]
  <2> DEFINE lead == front \o <<e>>
  <2>1. lead \in Seq(S) /\ Len(lead) = i
    BY <1>4
  <2> HIDE DEF lead
  <2>2. /\ lead \o back \in Seq(S)
        /\ Len(lead \o back) = Len(lead) + Len(back)
        /\ \A j \in 1 .. Len(lead) + Len(back) :
             (lead \o back)[j] = IF j <= Len(lead) THEN lead[j] ELSE back[j - Len(lead)]
    BY <1>2, <2>1, ConcatProperties
  <2>3. /\ lead \o back \in Seq(S)
        /\ Len(lead \o back) = i + (Len(s) - i + 1)
        /\ \A j \in 1 .. i + (Len(s) - i + 1) :
             (lead \o back)[j] = IF j <= i THEN lead[j] ELSE back[j - i]
    BY <1>2, <2>1, <2>2
  <2> QED
    BY <2>3 DEF lead
<1>8. ASSUME NEW j \in 1 .. Len(s) + 1
      PROVE  InsertAt(s, i, e)[j] = IF j < i THEN s[j]
                                    ELSE IF j = i THEN e ELSE s[j - 1]
  <2>1. CASE j <= i
    BY <1>4, <1>5, <1>6, <1>7, <2>1
  <2>2. CASE j > i
    <3>1. j - i \in 1 .. Len(s) - i + 1 /\ i + (j - i) - 1 = j - 1
      BY <1>6, <2>2
    <3>2. InsertAt(s, i, e)[j] = back[j - i]
      BY <1>5, <1>6, <1>7, <2>2
    <3> QED BY <1>2, <1>6, <2>2, <3>1, <3>2
  <2> QED BY <1>6, <2>1, <2>2
<1> QED BY <1>5, <1>6, <1>7, <1>8

(* What setting a block's flag makes of it. *)
LEMMA BlockUpdates ==
  ASSUME NEW b \in Block
  PROVE  /\ b.addr \in Nat /\ b.size \in Nat /\ b.free \in {0, 1}
         /\ [b EXCEPT !.free = 0]
               = [addr |-> b.addr, size |-> b.size, free |-> 0]
         /\ [b EXCEPT !.free = 1]
               = [addr |-> b.addr, size |-> b.size, free |-> 1]
  BY DEF Block

(* The list after a split: every block is where it was or one place later, *)
(* and block i has become two that tile it.                                *)
LEMMA SplitElements ==
  ASSUME TypeOK, NEW i \in DOMAIN blocks, NEW n \in Nat,
         blocks[i].size >= n + HdrSize + 4
  PROVE  /\ Split(i, n) \in Seq(Block)
         /\ Len(Split(i, n)) = Len(blocks) + 1
         /\ \A j \in 1 .. Len(blocks) + 1 :
              Split(i, n)[j] =
                IF j < i THEN blocks[j]
                ELSE IF j = i
                     THEN [addr |-> blocks[i].addr, size |-> n, free |-> 0]
                ELSE IF j = i + 1
                     THEN [addr |-> blocks[i].addr + HdrSize + n,
                           size |-> blocks[i].size - n - HdrSize,
                           free |-> 1]
                ELSE blocks[j - 1]
<1> DEFINE own == [addr |-> blocks[i].addr, size |-> n, free |-> 0]
           rest == [addr |-> blocks[i].addr + HdrSize + n,
                    size |-> blocks[i].size - n - HdrSize,
                    free |-> 1]
           cut == [blocks EXCEPT ![i] = own]
<1>1. /\ blocks \in Seq(Block) /\ blocks[i] \in Block
      /\ i \in 1 .. Len(blocks) /\ Len(blocks) \in Nat
  BY DEF TypeOK
<1>2. own \in Block /\ rest \in Block
  <2>1. blocks[i].addr \in Nat /\ blocks[i].size \in Nat
    BY <1>1, BlockUpdates
  <2> QED BY <2>1 DEF Block, HdrSize
<1>3. Split(i, n) = InsertAt(cut, i + 1, rest)
  BY <1>1, BlockUpdates DEF Split
<1> HIDE DEF own, rest
<1>4. /\ cut \in Seq(Block) /\ Len(cut) = Len(blocks)
      /\ \A j \in 1 .. Len(blocks) : cut[j] = IF j = i THEN own ELSE blocks[j]
  BY <1>1, <1>2, ExceptSeq
<1> HIDE DEF cut
<1>5. i + 1 \in 1 .. Len(cut) + 1
  BY <1>1, <1>4
<1>6. /\ InsertAt(cut, i + 1, rest) \in Seq(Block)
      /\ Len(InsertAt(cut, i + 1, rest)) = Len(cut) + 1
      /\ \A j \in 1 .. Len(cut) + 1 :
           InsertAt(cut, i + 1, rest)[j] = IF j < i + 1 THEN cut[j]
                                  ELSE IF j = i + 1 THEN rest ELSE cut[j - 1]
  <2>1. cut \in Seq(Block) /\ rest \in Block /\ i + 1 \in 1 .. Len(cut) + 1
    BY <1>2, <1>4, <1>5
  <2> DEFINE k == i + 1
  <2>2. k \in 1 .. Len(cut) + 1
    BY <2>1
  <2> HIDE DEF k
  <2>3. /\ InsertAt(cut, k, rest) \in Seq(Block)
        /\ Len(InsertAt(cut, k, rest)) = Len(cut) + 1
        /\ \A j \in 1 .. Len(cut) + 1 :
             InsertAt(cut, k, rest)[j] = IF j < k THEN cut[j]
                                         ELSE IF j = k THEN rest ELSE cut[j - 1]
    BY <2>1, <2>2, InsertAtElements
  <2> QED BY <2>3 DEF k
<1>7. ASSUME NEW j \in 1 .. Len(blocks) + 1
      PROVE  Split(i, n)[j] =
                IF j < i THEN blocks[j] ELSE IF j = i THEN own
                ELSE IF j = i + 1 THEN rest ELSE blocks[j - 1]
  <2>1. CASE j < i + 1
    BY <1>1, <1>3, <1>4, <1>6, <2>1
  <2>2. CASE j = i + 1
    BY <1>1, <1>3, <1>4, <1>6, <2>2
  <2>3. CASE j > i + 1
    <3>1. j - 1 \in 1 .. Len(blocks) /\ j - 1 # i
      BY <1>1, <2>3
    <3> QED BY <1>1, <1>3, <1>4, <1>6, <2>3, <3>1
  <2> QED BY <1>1, <2>1, <2>2, <2>3
<1> QED BY <1>3, <1>4, <1>6, <1>7 DEF own, rest
------------------------------------------------------------------------------
(* The heap is empty at first. *)
LEMMA InitIInv == Init => IInv
<1> SUFFICES ASSUME Init PROVE IInv
  OBVIOUS
<1>1. blocks = <<>> /\ placement_addr = Base /\ raw = {}
      /\ ret = [call |-> "none", ptr |-> 0, need |-> 0]
  BY DEF Init
<1>2. TypeOK
  BY <1>1, HeapAssumption DEF TypeOK, Ret
<1>3. DOMAIN blocks = {}
  BY <1>1
<1>4. HeapSound
  BY <1>1, <1>3 DEF HeapSound, BlocksInside, BlocksApart, RawInside, RawApart
<1> QED BY <1>1, <1>2, <1>4, HeapAssumption DEF IInv

(* A list whose blocks each lie within a block of the present list, two of *)
(* them in different ones or apart, keeps the heap sound.                  *)
Within(b, c) == c.addr <= b.addr /\ End(b) <= End(c)

LEMMA WithinApart ==
  ASSUME NEW b \in Block, NEW c \in Block, Within(b, c), NEW d \in Block, NEW e \in Block,
         Within(d, e), Apart(Extent(c), Extent(e))
  PROVE  Apart(Extent(b), Extent(d))
  BY DEF Within, Apart, Extent, End, HdrSize, Block

LEMMA WithinApartRaw ==
  ASSUME NEW b \in Block, NEW c \in Block, Within(b, c), NEW r \in Region,
         Apart(r, Extent(c))
  PROVE  Apart(r, Extent(b))
  BY DEF Within, Apart, Extent, End, HdrSize, Block, Region

LEMMA WithinInside ==
  ASSUME NEW b \in Block, NEW c \in Block, Within(b, c), NEW lo \in Nat, NEW hi \in Nat,
         NEW top \in Nat, lo <= c.addr, End(c) <= hi, hi <= top
  PROVE  lo <= b.addr /\ End(b) <= top
  BY DEF Within, End, HdrSize, Block

LEMMA WithinKeepsSound ==
  ASSUME IInv,
         blocks' \in Seq(Block), placement_addr' \in Nat, ret' \in Ret,
         placement_addr <= placement_addr', raw' = raw,
         NEW o \in [DOMAIN blocks' -> DOMAIN blocks],
         \A j \in DOMAIN blocks' : Within(blocks'[j], blocks[o[j]]),
         \A j, k \in DOMAIN blocks' :
            j # k /\ o[j] = o[k] => Apart(Extent(blocks'[j]), Extent(blocks'[k]))
  PROVE  IInv'
<1>1. TypeOK /\ HeapSound
  BY DEF IInv
<1>2. TypeOK'
  BY <1>1 DEF TypeOK, Block, Region, Ret
<1>3. \A i \in DOMAIN blocks : blocks[i] \in Block
  BY <1>1 DEF TypeOK
<1>4. \A j \in DOMAIN blocks' : blocks'[j] \in Block
  OBVIOUS
<1>5. BlocksInside'
  <2> SUFFICES ASSUME NEW j \in DOMAIN blocks'
               PROVE  Base <= blocks'[j].addr /\ End(blocks'[j]) <= placement_addr'
    BY DEF BlocksInside, End, HdrSize
  <2>1. /\ o[j] \in DOMAIN blocks /\ Within(blocks'[j], blocks[o[j]])
        /\ blocks'[j] \in Block /\ blocks[o[j]] \in Block
    BY <1>3, <1>4
  <2>2. Base <= blocks[o[j]].addr /\ End(blocks[o[j]]) <= placement_addr
    BY <1>1, <2>1 DEF HeapSound, BlocksInside
  <2>3. Base \in Nat /\ placement_addr \in Nat
    BY <1>1, HeapAssumption DEF TypeOK
  <2> QED BY <2>1, <2>2, <2>3, WithinInside
<1>6. BlocksApart'
  <2> SUFFICES ASSUME NEW j \in DOMAIN blocks', NEW k \in DOMAIN blocks', j # k
               PROVE  Apart(Extent(blocks'[j]), Extent(blocks'[k]))
    BY DEF BlocksApart, Apart, Extent, HdrSize
  <2>1. CASE o[j] = o[k]
    BY <2>1
  <2>2. CASE o[j] # o[k]
    <3>1. /\ o[j] \in DOMAIN blocks /\ Within(blocks'[j], blocks[o[j]])
          /\ o[k] \in DOMAIN blocks /\ Within(blocks'[k], blocks[o[k]])
      OBVIOUS
    <3>2. Apart(Extent(blocks[o[j]]), Extent(blocks[o[k]]))
      BY <1>1, <2>2, <3>1 DEF HeapSound, BlocksApart
    <3> QED BY <1>3, <1>4, <3>1, <3>2, WithinApart
  <2> QED BY <2>1, <2>2
<1>7. RawInside'
  BY <1>1, HeapAssumption DEF HeapSound, RawInside, TypeOK, Region
<1>8. RawApart'
  <2>1. ASSUME NEW r \in raw, NEW j \in DOMAIN blocks'
        PROVE  Apart(r, Extent(blocks'[j]))
    <3>1. o[j] \in DOMAIN blocks /\ Within(blocks'[j], blocks[o[j]])
      OBVIOUS
    <3>2. Apart(r, Extent(blocks[o[j]])) /\ r \in Region
      BY <1>1, <3>1 DEF HeapSound, RawApart, TypeOK
    <3> QED BY <1>3, <1>4, <3>1, <3>2, WithinApartRaw
  <2>2. \A r, q \in raw : r # q => Apart(r, q)
    BY <1>1 DEF HeapSound, RawApart
  <2> QED BY <2>1, <2>2 DEF RawApart, Apart, Extent, HdrSize
<1>9. Base <= placement_addr'
  BY <1>1, HeapAssumption DEF IInv, TypeOK
<1> QED BY <1>2, <1>5, <1>6, <1>7, <1>8, <1>9 DEF IInv, HeapSound
------------------------------------------------------------------------------
(* Setting one block's flag gives a list with the same headers. *)
LEMMA FlagKeepsSound ==
  ASSUME IInv, NEW i \in DOMAIN blocks, NEW f \in {0, 1},
         blocks' = [blocks EXCEPT ![i].free = f],
         placement_addr' \in Nat, ret' \in Ret,
         placement_addr <= placement_addr', raw' = raw
  PROVE  /\ IInv'
         /\ DOMAIN blocks' = DOMAIN blocks
         /\ \A j \in DOMAIN blocks :
              /\ blocks'[j].addr = blocks[j].addr
              /\ blocks'[j].size = blocks[j].size
              /\ blocks'[j].free = IF j = i THEN f ELSE blocks[j].free
<1> DEFINE flagged == [addr |-> blocks[i].addr, size |-> blocks[i].size, free |-> f]
<1>1. /\ blocks \in Seq(Block) /\ blocks[i] \in Block
      /\ i \in 1 .. Len(blocks) /\ Len(blocks) \in Nat
      /\ DOMAIN blocks = 1 .. Len(blocks)
  BY DEF IInv, TypeOK
<1>2. flagged \in Block
  BY <1>1 DEF Block
<1>3. blocks' = [blocks EXCEPT ![i] = flagged]
  BY <1>1, BlockUpdates
<1> HIDE DEF flagged
<1>4. /\ blocks' \in Seq(Block) /\ Len(blocks') = Len(blocks)
      /\ \A j \in 1 .. Len(blocks) : blocks'[j] = IF j = i THEN flagged ELSE blocks[j]
  BY <1>1, <1>2, <1>3, ExceptSeq
<1>5. DOMAIN blocks' = DOMAIN blocks
  BY <1>1, <1>4
<1>6. \A j \in DOMAIN blocks :
        /\ blocks'[j].addr = blocks[j].addr
        /\ blocks'[j].size = blocks[j].size
        /\ blocks'[j].free = IF j = i THEN f ELSE blocks[j].free
  BY <1>1, <1>4 DEF flagged
<1>7. IInv'
  <2> DEFINE o == [j \in DOMAIN blocks' |-> j]
  <2>1. o \in [DOMAIN blocks' -> DOMAIN blocks]
    BY <1>5
  <2>2. \A j \in DOMAIN blocks' : Within(blocks'[j], blocks[o[j]])
    <3> SUFFICES ASSUME NEW j \in DOMAIN blocks'
                 PROVE  Within(blocks'[j], blocks[j])
      OBVIOUS
    <3>1. blocks[j] \in Block
      BY <1>1, <1>5
    <3> QED BY <1>5, <1>6, <3>1 DEF Within, End, HdrSize, Block
  <2>3. \A j, k \in DOMAIN blocks' :
          j # k /\ o[j] = o[k] => Apart(Extent(blocks'[j]), Extent(blocks'[k]))
    OBVIOUS
  <2> HIDE DEF o
  <2> QED BY <1>4, <2>1, <2>2, <2>3, WithinKeepsSound
<1> QED BY <1>5, <1>6, <1>7

(* Splitting a block gives a list whose two new blocks lie in the old one. *)
LEMMA SplitKeepsSound ==
  ASSUME IInv, NEW i \in DOMAIN blocks, NEW n \in Nat,
         blocks[i].size >= n + HdrSize + 4,
         blocks' = Split(i, n),
         placement_addr' \in Nat, ret' \in Ret,
         placement_addr <= placement_addr', raw' = raw
  PROVE  IInv'
<1> DEFINE own == [addr |-> blocks[i].addr, size |-> n, free |-> 0]
           rest == [addr |-> blocks[i].addr + HdrSize + n,
                    size |-> blocks[i].size - n - HdrSize,
                    free |-> 1]
           o == [j \in DOMAIN blocks' |-> IF j <= i THEN j ELSE j - 1]
<1>1. /\ blocks \in Seq(Block) /\ blocks[i] \in Block
      /\ i \in 1 .. Len(blocks) /\ Len(blocks) \in Nat
      /\ DOMAIN blocks = 1 .. Len(blocks) /\ TypeOK
  BY DEF IInv, TypeOK
<1>2. /\ blocks' \in Seq(Block)
      /\ Len(blocks') = Len(blocks) + 1
      /\ DOMAIN blocks' = 1 .. Len(blocks) + 1
      /\ \A j \in 1 .. Len(blocks) + 1 :
           blocks'[j] = IF j < i THEN blocks[j] ELSE IF j = i THEN own
                        ELSE IF j = i + 1 THEN rest ELSE blocks[j - 1]
  BY <1>1, SplitElements
<1>3. /\ own \in Block /\ rest \in Block
      /\ Within(own, blocks[i]) /\ Within(rest, blocks[i])
      /\ Apart(Extent(own), Extent(rest)) /\ Apart(Extent(rest), Extent(own))
  <2>1. blocks[i].addr \in Nat /\ blocks[i].size \in Nat
    BY <1>1 DEF Block
  <2> QED BY <2>1 DEF Within, Apart, Extent, End, HdrSize, Block
<1>4. \A b \in Block : Within(b, b)
  BY DEF Within, End, HdrSize, Block
<1> HIDE DEF own, rest
<1>5. o \in [DOMAIN blocks' -> DOMAIN blocks]
  BY <1>1, <1>2
<1>6. ASSUME NEW j \in DOMAIN blocks'
      PROVE  Within(blocks'[j], blocks[o[j]])
  <2>1. CASE j < i
    BY <1>1, <1>2, <1>4, <2>1
  <2>2. CASE j = i
    BY <1>1, <1>2, <1>3, <2>2
  <2>3. CASE j = i + 1
    BY <1>1, <1>2, <1>3, <2>3
  <2>4. CASE j > i + 1
    <3>1. j - 1 \in DOMAIN blocks /\ blocks'[j] = blocks[j - 1] /\ o[j] = j - 1
      BY <1>1, <1>2, <2>4
    <3> QED BY <1>1, <1>4, <3>1
  <2> QED BY <1>1, <1>2, <2>1, <2>2, <2>3, <2>4
<1>7. ASSUME NEW j \in DOMAIN blocks', NEW k \in DOMAIN blocks', j # k, o[j] = o[k]
      PROVE  Apart(Extent(blocks'[j]), Extent(blocks'[k]))
  <2>1. (j = i /\ k = i + 1) \/ (j = i + 1 /\ k = i)
    BY <1>1, <1>2, <1>7
  <2>2. CASE j = i /\ k = i + 1
    BY <1>1, <1>2, <1>3, <2>2
  <2>3. CASE j = i + 1 /\ k = i
    BY <1>1, <1>2, <1>3, <2>3
  <2> QED BY <2>1, <2>2, <2>3
<1> HIDE DEF o
<1> QED BY <1>2, <1>5, <1>6, <1>7, WithinKeepsSound

(* The step lemma of kmalloc's reuse branch. *)
LEMMA ReuseStep ==
  ASSUME IInv, NEW need \in Nat, NEW n \in Nat, need <= n,
         NEW call \in {"kmalloc", "kmalloc_a"}, NEW place \in Nat,
         placement_addr <= place, Reuse(call, need, n, place), raw' = raw
  PROVE  IInv'
<1> PICK i \in DOMAIN blocks :
      /\ FirstFit(i, n)
      /\ blocks' = IF blocks[i].size >= n + HdrSize + 4
                   THEN Split(i, n)
                   ELSE [blocks EXCEPT ![i].free = 0]
      /\ placement_addr' = place
      /\ ret' = [call |-> call, ptr |-> blocks[i].addr + HdrSize, need |-> need]
  BY DEF Reuse
<1>1. placement_addr' \in Nat /\ placement_addr <= placement_addr' /\ ret' \in Ret
  <2>1. blocks[i] \in Block
    BY DEF IInv, TypeOK
  <2>2. blocks[i].addr \in Nat
    BY <2>1 DEF Block
  <2> QED BY <2>2 DEF Ret, HdrSize
<1>2. CASE blocks[i].size >= n + HdrSize + 4
  BY <1>1, <1>2, SplitKeepsSound
<1>3. CASE ~(blocks[i].size >= n + HdrSize + 4)
  BY <1>1, <1>3, FlagKeepsSound
<1> QED BY <1>2, <1>3

(* The step lemma of its other branch: the new block lies above all else. *)
LEMMA CarveStep ==
  ASSUME IInv, NEW need \in Nat, NEW n \in Nat, need <= n,
         NEW call \in {"kmalloc", "kmalloc_a"}, NEW place \in Nat,
         placement_addr <= place, Carve(call, need, n, place), raw' = raw
  PROVE  IInv'
<1> DEFINE new == [addr |-> place, size |-> n, free |-> 0]
<1>1. /\ blocks \in Seq(Block) /\ Len(blocks) \in Nat
      /\ DOMAIN blocks = 1 .. Len(blocks)
      /\ placement_addr \in Nat /\ TypeOK /\ HeapSound
  BY DEF IInv, TypeOK
<1>2. /\ blocks' = <<new>> \o blocks
      /\ placement_addr' = place + HdrSize + n
      /\ ret' = [call |-> call, ptr |-> place + HdrSize, need |-> need]
  BY DEF Carve
<1>3. new \in Block /\ new.addr = place /\ End(new) = place + HdrSize + n
  BY DEF Block, End, HdrSize
<1>4. Extent(new) = [addr |-> place, len |-> HdrSize + n]
  BY DEF Extent
<1> HIDE DEF new
<1>5. <<new>> \in Seq(Block) /\ Len(<<new>>) = 1 /\ <<new>>[1] = new
  BY <1>3
<1>6. /\ blocks' \in Seq(Block) /\ DOMAIN blocks' = 1 .. Len(blocks) + 1
      /\ \A j \in 1 .. Len(blocks) + 1 :
           blocks'[j] = IF j = 1 THEN new ELSE blocks[j - 1]
  <2>1. /\ <<new>> \o blocks \in Seq(Block)
        /\ Len(<<new>> \o blocks) = 1 + Len(blocks)
        /\ \A j \in 1 .. 1 + Len(blocks) :
             (<<new>> \o blocks)[j] = IF j <= 1 THEN <<new>>[j] ELSE blocks[j - 1]
    BY <1>1, <1>5, ConcatProperties
  <2> QED BY <1>1, <1>2, <1>5, <2>1
<1>7. TypeOK'
  BY <1>1, <1>2, <1>6 DEF TypeOK, Block, Region, Ret, HdrSize
<1>8. ASSUME NEW j \in DOMAIN blocks'
      PROVE  \/ blocks'[j] = new /\ j = 1
             \/ /\ j - 1 \in DOMAIN blocks /\ blocks'[j] = blocks[j - 1]
                /\ blocks[j - 1] \in Block
                /\ Base <= blocks[j - 1].addr /\ End(blocks[j - 1]) <= place
  <2>1. CASE j = 1
    BY <1>1, <1>6, <2>1
  <2>2. CASE j # 1
    <3>1. /\ j - 1 \in DOMAIN blocks /\ blocks'[j] = blocks[j - 1]
          /\ blocks[j - 1] \in Block
      BY <1>1, <1>6, <2>2
    <3>2. Base <= blocks[j - 1].addr /\ End(blocks[j - 1]) <= placement_addr
      BY <1>1, <3>1 DEF HeapSound, BlocksInside
    <3> QED BY <1>1, <3>1, <3>2 DEF Block, End, HdrSize
  <2> QED BY <2>1, <2>2
<1>9. Base \in Nat /\ Base <= place /\ place + HdrSize + n \in Nat
      /\ place <= place + HdrSize + n
  BY <1>1, HeapAssumption DEF IInv, HdrSize
<1>10. BlocksInside'
  <2> SUFFICES ASSUME NEW j \in DOMAIN blocks'
               PROVE  Base <= blocks'[j].addr /\ End(blocks'[j]) <= placement_addr'
    BY DEF BlocksInside, End, HdrSize
  <2>1. CASE blocks'[j] = new
    BY <1>2, <1>3, <1>9, <2>1
  <2>2. CASE ~(blocks'[j] = new)
    BY <1>2, <1>8, <1>9, <2>2 DEF Block, End, HdrSize
  <2> QED BY <2>1, <2>2
<1>11. \A b \in Block : End(b) <= place => Apart(Extent(b), Extent(new)) /\ Apart(Extent(new), Extent(b))
  BY <1>4 DEF Apart, Extent, End, HdrSize, Block
<1>12. BlocksApart'
  <2> SUFFICES ASSUME NEW j \in DOMAIN blocks', NEW k \in DOMAIN blocks', j # k
               PROVE  Apart(Extent(blocks'[j]), Extent(blocks'[k]))
    BY DEF BlocksApart, Apart, Extent, HdrSize
  <2>1. CASE j = 1
    BY <1>6, <1>8, <1>11, <2>1
  <2>2. CASE k = 1
    BY <1>6, <1>8, <1>11, <2>2
  <2>3. CASE j # 1 /\ k # 1
    <3>1. /\ j - 1 \in DOMAIN blocks /\ blocks'[j] = blocks[j - 1]
          /\ k - 1 \in DOMAIN blocks /\ blocks'[k] = blocks[k - 1]
          /\ j - 1 # k - 1
      BY <1>1, <1>6, <2>3
    <3> QED BY <1>1, <3>1 DEF HeapSound, BlocksApart
  <2> QED BY <2>1, <2>2, <2>3
<1>13. RawInside'
  BY <1>1, <1>2, <1>9, HeapAssumption DEF HeapSound, RawInside, TypeOK, Region
<1>14. RawApart'
  <2>1. ASSUME NEW r \in raw, NEW j \in DOMAIN blocks'
        PROVE  Apart(r, Extent(blocks'[j]))
    <3>1. r \in Region /\ r.addr + r.len <= placement_addr
      BY <1>1 DEF HeapSound, RawInside, TypeOK
    <3>2. CASE j = 1
      BY <1>1, <1>4, <1>6, <3>1, <3>2 DEF Apart, Region
    <3>3. CASE j # 1
      BY <1>1, <1>6, <1>8, <3>3 DEF HeapSound, RawApart
    <3> QED BY <3>2, <3>3
  <2>2. \A r, q \in raw : r # q => Apart(r, q)
    BY <1>1 DEF HeapSound, RawApart
  <2> QED BY <2>1, <2>2 DEF RawApart, Apart, Extent, HdrSize
<1>15. Base <= placement_addr'
  BY <1>2, <1>9
<1> QED BY <1>7, <1>10, <1>12, <1>13, <1>14, <1>15 DEF IInv, HeapSound

(* Raw memory is carved above all else too, and no block changes. *)
LEMMA RawStep ==
  ASSUME IInv, NEW need \in RawSizes, KmallocRawAligned(need)
  PROVE  IInv'
<1> DEFINE new == [addr |-> PageUp(placement_addr), len |-> need]
<1>1. /\ TypeOK /\ HeapSound /\ placement_addr \in Nat
      /\ need \in Nat /\ need > 0
      /\ PageUp(placement_addr) \in Nat /\ placement_addr <= PageUp(placement_addr)
      /\ Base \in Nat /\ Base <= placement_addr
  BY HeapAssumption, PageUpUp DEF IInv, TypeOK
<1>2. /\ placement_addr' = PageUp(placement_addr) + need
      /\ raw' = raw \cup {new}
      /\ ret' = [call |-> "raw", ptr |-> PageUp(placement_addr), need |-> need]
      /\ blocks' = blocks
  BY DEF KmallocRawAligned
<1>3. /\ new \in Region /\ new.addr = PageUp(placement_addr) /\ new.len = need
      /\ new.addr + new.len = placement_addr' /\ placement_addr <= new.addr
  BY <1>1, <1>2 DEF Region
<1> HIDE DEF new
<1>4. TypeOK'
  BY <1>1, <1>2, <1>3 DEF TypeOK, Block, Region, Ret
<1>5. placement_addr <= placement_addr' /\ placement_addr' \in Nat
  BY <1>1, <1>2
<1>6. ASSUME NEW i \in DOMAIN blocks
      PROVE  /\ Base <= blocks[i].addr /\ End(blocks[i]) <= placement_addr'
             /\ Apart(new, Extent(blocks[i]))
  <2>1. blocks[i] \in Block /\ Base <= blocks[i].addr /\ End(blocks[i]) <= placement_addr
    BY <1>1 DEF TypeOK, HeapSound, BlocksInside
  <2> QED BY <1>1, <1>3, <1>5, <2>1 DEF Apart, Extent, End, HdrSize, Block, Region
<1>7. BlocksInside'
  BY <1>2, <1>6 DEF BlocksInside, End, HdrSize
<1>8. BlocksApart'
  BY <1>1, <1>2 DEF HeapSound, BlocksApart, Apart, Extent, HdrSize
<1>9. \A r \in raw : /\ r \in Region /\ Base <= r.addr /\ r.len > 0
                     /\ r.addr + r.len <= placement_addr
                     /\ r.addr + r.len <= placement_addr'
                     /\ Apart(r, new) /\ Apart(new, r)
  BY <1>1, <1>3, <1>5 DEF HeapSound, RawInside, TypeOK, Region, Apart
<1>10. RawInside'
  BY <1>1, <1>2, <1>3, <1>9 DEF RawInside, Region
<1>11. RawApart'
  <2>1. ASSUME NEW r \in raw', NEW i \in DOMAIN blocks
        PROVE  Apart(r, Extent(blocks[i]))
    BY <1>1, <1>2, <1>6 DEF HeapSound, RawApart
  <2>2. ASSUME NEW r \in raw', NEW q \in raw', r # q
        PROVE  Apart(r, q)
    BY <1>1, <1>2, <1>9, <2>2 DEF HeapSound, RawApart
  <2> QED BY <1>2, <2>1, <2>2 DEF RawApart, Apart, Extent, HdrSize
<1> QED BY <1>1, <1>4, <1>5, <1>7, <1>8, <1>10, <1>11 DEF IInv, HeapSound

LEMMA KfreeStep ==
  ASSUME IInv, NEW i \in DOMAIN blocks, Kfree(i)
  PROVE  IInv'
<1>1. placement_addr \in Nat /\ placement_addr' = placement_addr /\ raw' = raw
  BY DEF Kfree, IInv, TypeOK
<1>2. ret' \in Ret
  <2>1. blocks[i] \in Block
    BY DEF IInv, TypeOK
  <2> QED BY <2>1 DEF Kfree, Ret, Block, HdrSize
<1>3. blocks' = [blocks EXCEPT ![i].free = 1]
  BY DEF Kfree
<1>4. placement_addr' \in Nat /\ placement_addr <= placement_addr' /\ 1 \in {0, 1}
  BY <1>1
<1> QED BY <1>1, <1>2, <1>3, <1>4, FlagKeepsSound

(* Every step keeps the inductive invariant. *)
LEMMA NextIInv == IInv /\ [Next]_vars => IInv'
<1> SUFFICES ASSUME IInv, [Next]_vars PROVE IInv'
  OBVIOUS
<1>1. ASSUME NEW need \in Nat, NEW call \in {"kmalloc", "kmalloc_a"}, NEW place \in Nat,
             placement_addr <= place, KmallocFrom(call, need, place)
      PROVE  IInv'
  <2>1. RoundUp4(need) \in Nat /\ need <= RoundUp4(need)
    BY RoundUp4Up
  <2>2. CASE Reuse(call, need, RoundUp4(need), place)
    BY <1>1, <2>1, <2>2, ReuseStep DEF KmallocFrom
  <2>3. CASE Carve(call, need, RoundUp4(need), place)
    BY <1>1, <2>1, <2>3, CarveStep DEF KmallocFrom
  <2> QED BY <1>1, <2>2, <2>3 DEF KmallocFrom
<1>2. placement_addr \in Nat /\ PageUp(placement_addr) \in Nat
      /\ placement_addr <= PageUp(placement_addr)
  BY PageUpUp DEF IInv, TypeOK
<1>3. ASSUME NEW need \in Sizes, Kmalloc(need)
      PROVE  IInv'
  BY <1>1, <1>2, <1>3, HeapAssumption DEF Kmalloc
<1>4. ASSUME NEW need \in Sizes, KmallocA(need)
      PROVE  IInv'
  BY <1>1, <1>2, <1>4, HeapAssumption DEF KmallocA
<1>5. ASSUME NEW need \in RawSizes, KmallocRawAligned(need)
      PROVE  IInv'
  BY <1>5, RawStep
<1>6. ASSUME NEW i \in DOMAIN blocks, Kfree(i)
      PROVE  IInv'
  BY <1>6, KfreeStep
<1>7. CASE UNCHANGED vars
  BY <1>7 DEF vars, IInv, TypeOK, HeapSound, BlocksInside, BlocksApart, RawInside,
              RawApart, Block, Region, Ret, Apart, Extent, End, HdrSize
<1> QED BY <1>3, <1>4, <1>5, <1>6, <1>7 DEF Next

(* The inductive invariant holds in every reachable state. *)
THEOREM Inductive == Spec => []IInv
<1> QED BY InitIInv, NextIInv, PTL DEF Spec

(* Every variable keeps its type. *)
THEOREM TypeCorrect == Spec => []TypeOK
<1>1. IInv => TypeOK
  BY DEF IInv
<1> QED BY <1>1, Inductive, PTL

(* No two headers, payloads or raw regions ever overlap. *)
THEOREM Soundness == Spec => []HeapSound
<1>1. IInv => HeapSound
  BY DEF IInv
<1> QED BY <1>1, Inductive, PTL
------------------------------------------------------------------------------
(* The list before a step, as the lemmas below need it. *)
LEMMA ListFacts ==
  ASSUME IInv
  PROVE  /\ blocks \in Seq(Block) /\ Len(blocks) \in Nat
         /\ DOMAIN blocks = 1 .. Len(blocks)
         /\ placement_addr \in Nat /\ TypeOK /\ HeapSound
         /\ \A k \in DOMAIN blocks :
              /\ blocks[k] \in Block
              /\ blocks[k].addr \in Nat /\ blocks[k].size \in Nat /\ blocks[k].free \in {0, 1}
<1>1. TypeOK /\ HeapSound
  BY DEF IInv
<1>2. blocks \in Seq(Block) /\ placement_addr \in Nat
  BY <1>1 DEF TypeOK
<1>3. \A k \in DOMAIN blocks : blocks[k] \in Block
  BY <1>2
<1>4. \A b \in Block : b.addr \in Nat /\ b.size \in Nat /\ b.free \in {0, 1}
  BY DEF Block
<1> QED BY <1>1, <1>2, <1>3, <1>4

(* The list after each kind of step, element by element. *)
LEMMA FlagElements ==
  ASSUME IInv, NEW i \in DOMAIN blocks, NEW f \in {0, 1},
         blocks' = [blocks EXCEPT ![i].free = f]
  PROVE  /\ DOMAIN blocks' = DOMAIN blocks
         /\ \A j \in DOMAIN blocks :
              /\ blocks'[j].addr = blocks[j].addr
              /\ blocks'[j].size = blocks[j].size
              /\ blocks'[j].free = IF j = i THEN f ELSE blocks[j].free
<1> DEFINE flagged == [addr |-> blocks[i].addr, size |-> blocks[i].size, free |-> f]
<1>1. /\ blocks \in Seq(Block) /\ blocks[i] \in Block
      /\ i \in 1 .. Len(blocks) /\ Len(blocks) \in Nat
      /\ DOMAIN blocks = 1 .. Len(blocks)
  BY ListFacts
<1>2. flagged \in Block
  BY <1>1 DEF Block
<1>3. blocks' = [blocks EXCEPT ![i] = flagged]
  BY <1>1, BlockUpdates
<1> HIDE DEF flagged
<1>4. /\ blocks' \in Seq(Block) /\ Len(blocks') = Len(blocks)
      /\ \A j \in 1 .. Len(blocks) : blocks'[j] = IF j = i THEN flagged ELSE blocks[j]
  BY <1>1, <1>2, <1>3, ExceptSeq
<1> QED BY <1>1, <1>4 DEF flagged

LEMMA CarveElements ==
  ASSUME IInv, NEW need \in Nat, NEW n \in Nat, NEW call \in {"kmalloc", "kmalloc_a"},
         NEW place \in Nat, Carve(call, need, n, place)
  PROVE  /\ DOMAIN blocks' = 1 .. Len(blocks) + 1
         /\ blocks'[1] = [addr |-> place, size |-> n, free |-> 0]
         /\ \A k \in DOMAIN blocks : k + 1 \in DOMAIN blocks' /\ blocks'[k + 1] = blocks[k]
         /\ \A j \in DOMAIN blocks' :
              j # 1 => j - 1 \in DOMAIN blocks /\ blocks'[j] = blocks[j - 1]
<1> DEFINE new == [addr |-> place, size |-> n, free |-> 0]
<1>1. /\ blocks \in Seq(Block) /\ Len(blocks) \in Nat
      /\ DOMAIN blocks = 1 .. Len(blocks)
  BY ListFacts
<1>2. new \in Block
  BY DEF Block
<1>3. blocks' = <<new>> \o blocks
  BY DEF Carve
<1> HIDE DEF new
<1>4. <<new>> \in Seq(Block) /\ Len(<<new>>) = 1 /\ <<new>>[1] = new
  BY <1>2
<1>5. /\ <<new>> \o blocks \in Seq(Block)
      /\ Len(<<new>> \o blocks) = 1 + Len(blocks)
      /\ \A j \in 1 .. 1 + Len(blocks) :
           (<<new>> \o blocks)[j] = IF j <= 1 THEN <<new>>[j] ELSE blocks[j - 1]
  BY <1>1, <1>4, ConcatProperties
<1>6. /\ DOMAIN blocks' = 1 .. Len(blocks) + 1
      /\ \A j \in 1 .. Len(blocks) + 1 :
           blocks'[j] = IF j = 1 THEN new ELSE blocks[j - 1]
  BY <1>1, <1>3, <1>4, <1>5
<1>7. ASSUME NEW k \in DOMAIN blocks
      PROVE  k + 1 \in DOMAIN blocks' /\ blocks'[k + 1] = blocks[k]
  BY <1>1, <1>6
<1> QED BY <1>1, <1>6, <1>7 DEF new

(* Which regions are in use. *)
LEMMA RegionsMember ==
  ASSUME NEW r
  PROVE  r \in Regions <=>
           \/ \E k \in DOMAIN blocks : blocks[k].free = 0 /\ r = Payload(blocks[k])
           \/ r \in raw
  BY DEF Regions

(* A region that starts a free block's payload is new and apart. *)
LEMMA FreshInBlock ==
  ASSUME IInv, NEW i \in DOMAIN blocks, blocks[i].free = 1, NEW w \in Region,
         w.addr = blocks[i].addr + HdrSize, w.len <= blocks[i].size
  PROVE  w \notin Regions /\ \A r \in Regions : Apart(w, r)
<1> SUFFICES ASSUME NEW r \in Regions
             PROVE  w # r /\ Apart(w, r)
  OBVIOUS
<1>1. /\ blocks[i].addr \in Nat /\ blocks[i].size \in Nat /\ HeapSound /\ TypeOK
      /\ w.addr \in Nat /\ w.len \in Nat
  BY ListFacts DEF Region
<1>2. CASE r \in raw
  <2>1. /\ r.addr \in Nat /\ r.len \in Nat /\ r.len > 0
        /\ Apart(r, Extent(blocks[i]))
    BY <1>1, <1>2 DEF HeapSound, RawInside, RawApart, TypeOK, Region
  <2> QED BY <1>1, <2>1 DEF Apart, Extent, HdrSize
<1>3. CASE r \notin raw
  <2>1. PICK k \in DOMAIN blocks : blocks[k].free = 0 /\ r = Payload(blocks[k])
    BY <1>3, RegionsMember
  <2>2. k # i /\ Apart(Extent(blocks[i]), Extent(blocks[k]))
    BY <1>1, <2>1 DEF HeapSound, BlocksApart
  <2>3. blocks[k].addr \in Nat /\ blocks[k].size \in Nat
    BY <2>1, ListFacts
  <2>4. r.addr = blocks[k].addr + HdrSize /\ r.len = blocks[k].size
    BY <2>1 DEF Payload
  <2> QED BY <1>1, <2>2, <2>3, <2>4 DEF Apart, Extent, HdrSize
<1> QED BY <1>2, <1>3

(* A region that starts at the placement address or above is, too. *)
LEMMA FreshAbove ==
  ASSUME IInv, NEW w \in Region, placement_addr <= w.addr, placement_addr < w.addr + w.len
  PROVE  w \notin Regions /\ \A r \in Regions : Apart(w, r)
<1> SUFFICES ASSUME NEW r \in Regions
             PROVE  w # r /\ Apart(w, r)
  OBVIOUS
<1>1. /\ placement_addr \in Nat /\ HeapSound /\ TypeOK
      /\ w.addr \in Nat /\ w.len \in Nat
  BY ListFacts DEF Region
<1>2. r.addr \in Nat /\ r.len \in Nat /\ r.addr + r.len <= placement_addr
  <2>1. CASE r \in raw
    BY <1>1, <2>1 DEF HeapSound, RawInside, TypeOK, Region
  <2>2. CASE r \notin raw
    <3>1. PICK k \in DOMAIN blocks : blocks[k].free = 0 /\ r = Payload(blocks[k])
      BY <2>2, RegionsMember
    <3>2. /\ blocks[k].addr \in Nat /\ blocks[k].size \in Nat
          /\ End(blocks[k]) <= placement_addr
      BY <1>1, <3>1, ListFacts DEF HeapSound, BlocksInside
    <3>3. r.addr = blocks[k].addr + HdrSize /\ r.len = blocks[k].size
      BY <3>1 DEF Payload
    <3> QED BY <3>2, <3>3 DEF End, HdrSize
  <2> QED BY <2>1, <2>2
<1> QED BY <1>1, <1>2 DEF Apart

(* Handing out a new region is a step of the abstract allocator. *)
LEMMA AllocMaps ==
  ASSUME NEW w \in Region, w \notin Regions, \A r \in Regions : Apart(w, r),
         Regions' = Regions \cup {w}
  PROVE  Abs!Next
<1>1. w \in Regions' \ Regions /\ w \in Abs!Region /\ \A r \in Regions : Abs!Apart(w, r)
  BY DEF Region, Abs!Region, Apart, Abs!Apart
<1> QED BY <1>1 DEF Abs!Next, Abs!Alloc

LEMMA ReuseMaps ==
  ASSUME IInv, NEW need \in Nat, NEW n \in Nat,
         NEW call \in {"kmalloc", "kmalloc_a"}, NEW place \in Nat,
         Reuse(call, need, n, place), raw' = raw
  PROVE  Abs!Next
<1> PICK i \in DOMAIN blocks :
      /\ FirstFit(i, n)
      /\ blocks' = IF blocks[i].size >= n + HdrSize + 4
                   THEN Split(i, n)
                   ELSE [blocks EXCEPT ![i].free = 0]
  BY DEF Reuse
<1>1. /\ blocks[i].free = 1 /\ blocks[i].addr \in Nat /\ blocks[i].size \in Nat
      /\ DOMAIN blocks = 1 .. Len(blocks) /\ Len(blocks) \in Nat /\ TypeOK
  BY ListFacts DEF FirstFit, Fits
<1>2. CASE blocks[i].size >= n + HdrSize + 4
  <2> DEFINE w == [addr |-> blocks[i].addr + HdrSize, len |-> n]
             own == [addr |-> blocks[i].addr, size |-> n, free |-> 0]
             rest == [addr |-> blocks[i].addr + HdrSize + n,
                      size |-> blocks[i].size - n - HdrSize,
                      free |-> 1]
  <2>1. w \in Region /\ w.addr = blocks[i].addr + HdrSize /\ w.len <= blocks[i].size
    BY <1>1, <1>2 DEF Region, HdrSize
  <2>2. /\ DOMAIN blocks' = 1 .. Len(blocks) + 1
        /\ \A j \in 1 .. Len(blocks) + 1 :
             blocks'[j] = IF j < i THEN blocks[j] ELSE IF j = i THEN own
                          ELSE IF j = i + 1 THEN rest ELSE blocks[j - 1]
    BY <1>1, <1>2, SplitElements
  <2>3. own.free = 0 /\ rest.free = 1 /\ Payload(own) = w
    BY DEF Payload
  <2> HIDE DEF w, own, rest
  <2>4. ASSUME NEW j \in DOMAIN blocks', blocks'[j].free = 0
        PROVE  blocks'[j] = own \/ \E k \in DOMAIN blocks : blocks'[j] = blocks[k]
    <3>1. CASE j < i
      BY <1>1, <2>2, <3>1
    <3>2. CASE j = i \/ j = i + 1
      BY <1>1, <2>2, <2>3, <2>4, <3>2
    <3>3. CASE j > i + 1
      <4>1. j \in 1 .. Len(blocks) + 1 /\ i \in 1 .. Len(blocks)
        BY <1>1, <2>2, <2>4
      <4>2. j - 1 \in DOMAIN blocks /\ ~(j < i) /\ j # i /\ j # i + 1
        BY <1>1, <3>3, <4>1
      <4>3. blocks'[j] = blocks[j - 1]
        BY <2>2, <4>1, <4>2
      <4> QED BY <4>2, <4>3
    <3> QED BY <1>1, <2>2, <3>1, <3>2, <3>3
  <2>5. ASSUME NEW k \in DOMAIN blocks, blocks[k].free = 0
        PROVE  \E j \in DOMAIN blocks' : blocks'[j] = blocks[k]
    <3>1. CASE k < i
      BY <1>1, <2>2, <3>1
    <3>2. CASE k > i
      <4> DEFINE j == k + 1
      <4>1. j \in DOMAIN blocks' /\ ~(j < i) /\ j # i /\ j # i + 1 /\ j - 1 = k
        BY <1>1, <2>2, <3>2
      <4> HIDE DEF j
      <4>2. blocks'[j] = blocks[k]
        BY <2>2, <4>1
      <4> QED BY <4>1, <4>2
    <3> QED BY <1>1, <2>5, <3>1, <3>2
  <2>6. i \in DOMAIN blocks' /\ blocks'[i] = own
    BY <1>1, <2>2
  <2>7. ASSUME NEW r
        PROVE  (\E j \in DOMAIN blocks' : blocks'[j].free = 0 /\ r = Payload(blocks'[j]))
               <=> (r = w \/ \E k \in DOMAIN blocks :
                                blocks[k].free = 0 /\ r = Payload(blocks[k]))
    BY <2>3, <2>4, <2>5, <2>6
  <2>8. Regions' = Regions \cup {w}
    BY <2>7, RegionsMember DEF Regions
  <2>9. w \notin Regions /\ \A r \in Regions : Apart(w, r)
    BY <1>1, <2>1, FreshInBlock
  <2> QED BY <2>1, <2>8, <2>9, AllocMaps
<1>3. CASE ~(blocks[i].size >= n + HdrSize + 4)
  <2> DEFINE w == Payload(blocks[i])
  <2>1. w \in Region /\ w.addr = blocks[i].addr + HdrSize /\ w.len <= blocks[i].size
    BY <1>1 DEF Region, HdrSize, Payload
  <2>2. /\ DOMAIN blocks' = DOMAIN blocks
        /\ \A j \in DOMAIN blocks :
             /\ blocks'[j].addr = blocks[j].addr
             /\ blocks'[j].size = blocks[j].size
             /\ blocks'[j].free = IF j = i THEN 0 ELSE blocks[j].free
    BY <1>3, FlagElements
  <2>3. \A j \in DOMAIN blocks : Payload(blocks'[j]) = Payload(blocks[j])
    BY <2>2 DEF Payload
  <2>4. Regions' = Regions \cup {w}
    BY <2>2, <2>3 DEF Regions
  <2> HIDE DEF w
  <2>5. w \notin Regions /\ \A r \in Regions : Apart(w, r)
    BY <1>1, <2>1, FreshInBlock
  <2> QED BY <2>1, <2>4, <2>5, AllocMaps
<1> QED BY <1>2, <1>3

LEMMA CarveMaps ==
  ASSUME IInv, NEW need \in Nat, NEW n \in Nat,
         NEW call \in {"kmalloc", "kmalloc_a"}, NEW place \in Nat,
         placement_addr <= place, Carve(call, need, n, place), raw' = raw
  PROVE  Abs!Next
<1> DEFINE new == [addr |-> place, size |-> n, free |-> 0]
           w == [addr |-> place + HdrSize, len |-> n]
<1>1. placement_addr \in Nat /\ DOMAIN blocks = 1 .. Len(blocks) /\ Len(blocks) \in Nat
  BY ListFacts
<1>2. /\ DOMAIN blocks' = 1 .. Len(blocks) + 1
      /\ blocks'[1] = new
      /\ \A k \in DOMAIN blocks : k + 1 \in DOMAIN blocks' /\ blocks'[k + 1] = blocks[k]
      /\ \A j \in DOMAIN blocks' :
           j # 1 => j - 1 \in DOMAIN blocks /\ blocks'[j] = blocks[j - 1]
  BY CarveElements
<1>3. new.free = 0 /\ Payload(new) = w /\ 1 \in DOMAIN blocks'
  BY <1>1, <1>2 DEF Payload
<1>4. /\ w \in Region /\ placement_addr <= w.addr /\ placement_addr < w.addr + w.len
  BY <1>1 DEF Region, HdrSize
<1> HIDE DEF new, w
<1>5. ASSUME NEW r
      PROVE  (\E j \in DOMAIN blocks' : blocks'[j].free = 0 /\ r = Payload(blocks'[j]))
             <=> (r = w \/ \E k \in DOMAIN blocks :
                              blocks[k].free = 0 /\ r = Payload(blocks[k]))
  <2>1. ASSUME NEW j \in DOMAIN blocks', blocks'[j].free = 0, r = Payload(blocks'[j])
        PROVE  r = w \/ \E k \in DOMAIN blocks :
                          blocks[k].free = 0 /\ r = Payload(blocks[k])
    BY <1>2, <1>3, <2>1
  <2>2. ASSUME NEW k \in DOMAIN blocks, blocks[k].free = 0, r = Payload(blocks[k])
        PROVE  \E j \in DOMAIN blocks' : blocks'[j].free = 0 /\ r = Payload(blocks'[j])
    BY <1>2, <2>2
  <2> QED BY <1>2, <1>3, <2>1, <2>2
<1>6. Regions' = Regions \cup {w}
  BY <1>5, RegionsMember DEF Regions
<1>7. w \notin Regions /\ \A r \in Regions : Apart(w, r)
  BY <1>4, FreshAbove
<1> QED BY <1>4, <1>6, <1>7, AllocMaps

LEMMA RawMaps ==
  ASSUME IInv, NEW need \in RawSizes, KmallocRawAligned(need)
  PROVE  Abs!Next
<1> DEFINE w == [addr |-> PageUp(placement_addr), len |-> need]
<1>1. placement_addr \in Nat /\ need \in Nat /\ need > 0
  BY ListFacts, HeapAssumption
<1>2. w \in Region /\ placement_addr <= w.addr /\ placement_addr < w.addr + w.len
  BY <1>1, PageUpUp DEF Region
<1>3. Regions' = Regions \cup {w}
  BY DEF KmallocRawAligned, Regions
<1> HIDE DEF w
<1>4. w \notin Regions /\ \A r \in Regions : Apart(w, r)
  BY <1>2, FreshAbove
<1> QED BY <1>2, <1>3, <1>4, AllocMaps

(* kfree gives exactly one region back: no other block has its payload. *)
LEMMA KfreeMaps ==
  ASSUME IInv, NEW i \in DOMAIN blocks, Kfree(i)
  PROVE  Abs!Next
<1> DEFINE w == Payload(blocks[i])
<1>1. /\ blocks[i].free = 0 /\ raw' = raw /\ blocks' = [blocks EXCEPT ![i].free = 1]
      /\ HeapSound /\ TypeOK /\ 1 \in {0, 1}
  BY ListFacts DEF Kfree
<1>2. /\ DOMAIN blocks' = DOMAIN blocks
      /\ \A j \in DOMAIN blocks :
           /\ blocks'[j].addr = blocks[j].addr
           /\ blocks'[j].size = blocks[j].size
           /\ blocks'[j].free = IF j = i THEN 1 ELSE blocks[j].free
  BY <1>1, FlagElements
<1>3. \A j \in DOMAIN blocks : Payload(blocks'[j]) = Payload(blocks[j])
  BY <1>2 DEF Payload
<1>4. ASSUME NEW j \in DOMAIN blocks, j # i
      PROVE  Payload(blocks[j]) # w
  <2>1. /\ blocks[i].addr \in Nat /\ blocks[i].size \in Nat
        /\ blocks[j].addr \in Nat /\ blocks[j].size \in Nat
        /\ Apart(Extent(blocks[i]), Extent(blocks[j]))
    BY <1>1, <1>4, ListFacts DEF HeapSound, BlocksApart
  <2>2. blocks[i].addr # blocks[j].addr
    BY <2>1 DEF Apart, Extent, HdrSize
  <2> QED BY <2>1, <2>2 DEF Payload, HdrSize
<1>5. w \notin raw
  <2> SUFFICES ASSUME NEW r \in raw, r = w PROVE FALSE
    OBVIOUS
  <2>1. /\ r.addr \in Nat /\ r.len \in Nat /\ r.len > 0
        /\ Apart(r, Extent(blocks[i]))
    BY <1>1 DEF HeapSound, RawInside, RawApart, TypeOK, Region
  <2>2. r.addr = blocks[i].addr + HdrSize /\ r.len = blocks[i].size
    BY DEF Payload
  <2>3. blocks[i].addr \in Nat /\ blocks[i].size \in Nat
    BY ListFacts
  <2> QED BY <2>1, <2>2, <2>3 DEF Apart, Extent, HdrSize
<1>6. w \in Regions
  BY <1>1 DEF Regions
<1> HIDE DEF w
<1>7. Regions' = Regions \ {w}
  <2>1. ASSUME NEW r
        PROVE  (\E j \in DOMAIN blocks' : blocks'[j].free = 0 /\ r = Payload(blocks'[j]))
               <=> (r # w /\ \E k \in DOMAIN blocks :
                                blocks[k].free = 0 /\ r = Payload(blocks[k]))
    BY <1>2, <1>3, <1>4 DEF w
  <2> QED BY <1>1, <1>5, <2>1, RegionsMember DEF Regions
<1> QED BY <1>6, <1>7 DEF Abs!Next, Abs!Free

(* Every step of the heap is a step of the abstract allocator or none. *)
LEMMA StepMaps == IInv /\ [Next]_vars => [Abs!Next]_Regions
<1> SUFFICES ASSUME IInv, [Next]_vars PROVE [Abs!Next]_Regions
  OBVIOUS
<1>1. ASSUME NEW need \in Nat, NEW call \in {"kmalloc", "kmalloc_a"}, NEW place \in Nat,
             placement_addr <= place, KmallocFrom(call, need, place)
      PROVE  Abs!Next
  <2>1. RoundUp4(need) \in Nat /\ raw' = raw
    BY <1>1, RoundUp4Up DEF KmallocFrom
  <2>2. CASE Reuse(call, need, RoundUp4(need), place)
    BY <1>1, <2>1, <2>2, ReuseMaps
  <2>3. CASE Carve(call, need, RoundUp4(need), place)
    BY <1>1, <2>1, <2>3, CarveMaps
  <2> QED BY <1>1, <2>2, <2>3 DEF KmallocFrom
<1>2. placement_addr \in Nat /\ PageUp(placement_addr) \in Nat
      /\ placement_addr <= PageUp(placement_addr)
  BY PageUpUp DEF IInv, TypeOK
<1>3. ASSUME NEW need \in Sizes, Kmalloc(need)
      PROVE  Abs!Next
  BY <1>1, <1>2, <1>3, HeapAssumption DEF Kmalloc
<1>4. ASSUME NEW need \in Sizes, KmallocA(need)
      PROVE  Abs!Next
  BY <1>1, <1>2, <1>4, HeapAssumption DEF KmallocA
<1>5. ASSUME NEW need \in RawSizes, KmallocRawAligned(need)
      PROVE  Abs!Next
  BY <1>5, RawMaps
<1>6. ASSUME NEW i \in DOMAIN blocks, Kfree(i)
      PROVE  Abs!Next
  BY <1>6, KfreeMaps
<1>7. CASE UNCHANGED vars
  BY <1>7 DEF vars, Regions, Payload, HdrSize
<1> QED BY <1>3, <1>4, <1>5, <1>6, <1>7 DEF Next

(* The heap keeps an allocator's promise, whatever is asked of it. *)
THEOREM Refinement == Spec => ImplementsAllocator
<1>1. Init => Abs!Init
  BY DEF Init, Abs!Init, Regions
<1>2. IInv /\ [Next]_vars => [Abs!Next]_Regions
  BY StepMaps
<1> QED BY <1>1, <1>2, Inductive, PTL DEF Spec, ImplementsAllocator, Abs!Spec
------------------------------------------------------------------------------
(* Each branch of kmalloc returns a block in use that holds the request,   *)
(* and keeps every header where it is, with no more behind it.             *)
HeaderKept(k) ==
  \E j \in DOMAIN blocks' : /\ blocks'[j].addr = blocks[k].addr
                            /\ blocks'[j].size <= blocks[k].size

LEMMA ReuseReturns ==
  ASSUME IInv, NEW need \in Nat, NEW n \in Nat, need <= n,
         NEW call \in {"kmalloc", "kmalloc_a"}, NEW place \in Nat,
         Reuse(call, need, n, place)
  PROVE  ReturnedUsable' /\ \A k \in DOMAIN blocks : HeaderKept(k)
<1>0. PICK i \in DOMAIN blocks :
      /\ FirstFit(i, n)
      /\ blocks' = IF blocks[i].size >= n + HdrSize + 4
                   THEN Split(i, n)
                   ELSE [blocks EXCEPT ![i].free = 0]
      /\ ret' = [call |-> call, ptr |-> blocks[i].addr + HdrSize, need |-> need]
  BY DEF Reuse
<1>1. /\ blocks[i].size >= n /\ DOMAIN blocks = 1 .. Len(blocks) /\ Len(blocks) \in Nat
      /\ TypeOK /\ \A k \in DOMAIN blocks : blocks[k].addr \in Nat /\ blocks[k].size \in Nat
  BY <1>0, ListFacts DEF FirstFit, Fits
<1>2. ret'.call = call /\ ret'.ptr = blocks[i].addr + HdrSize /\ ret'.need = need
  BY <1>0
<1>3. CASE blocks[i].size >= n + HdrSize + 4
  <2> DEFINE own == [addr |-> blocks[i].addr, size |-> n, free |-> 0]
             rest == [addr |-> blocks[i].addr + HdrSize + n,
                      size |-> blocks[i].size - n - HdrSize,
                      free |-> 1]
  <2>1. /\ DOMAIN blocks' = 1 .. Len(blocks) + 1
        /\ \A j \in 1 .. Len(blocks) + 1 :
             blocks'[j] = IF j < i THEN blocks[j] ELSE IF j = i THEN own
                          ELSE IF j = i + 1 THEN rest ELSE blocks[j - 1]
    BY <1>0, <1>1, <1>3, SplitElements
  <2>2. own.addr = blocks[i].addr /\ own.size = n /\ own.free = 0
    OBVIOUS
  <2> HIDE DEF own, rest
  <2>3. i \in DOMAIN blocks' /\ blocks'[i] = own
    BY <1>1, <2>1
  <2>4. ReturnedUsable'
    BY <1>2, <2>2, <2>3 DEF ReturnedUsable, HdrSize
  <2>5. ASSUME NEW k \in DOMAIN blocks
        PROVE  HeaderKept(k)
    <3>1. CASE k < i
      <4>1. k \in DOMAIN blocks' /\ blocks'[k] = blocks[k]
        BY <1>1, <2>1, <3>1
      <4> QED BY <1>1, <4>1 DEF HeaderKept
    <3>2. CASE k = i
      BY <1>1, <2>2, <2>3, <3>2 DEF HeaderKept
    <3>3. CASE k > i
      <4> DEFINE h == k + 1
      <4>1. h \in DOMAIN blocks' /\ ~(h < i) /\ h # i /\ h # i + 1 /\ h - 1 = k
        BY <1>1, <2>1, <3>3
      <4> HIDE DEF h
      <4>2. blocks'[h] = blocks[k]
        BY <2>1, <4>1
      <4>3. blocks'[h].addr = blocks[k].addr /\ blocks'[h].size <= blocks[k].size
        BY <1>1, <4>2
      <4> QED BY <4>1, <4>3 DEF HeaderKept
    <3> QED BY <1>1, <3>1, <3>2, <3>3
  <2> QED BY <2>4, <2>5
<1>4. CASE ~(blocks[i].size >= n + HdrSize + 4)
  <2>1. /\ DOMAIN blocks' = DOMAIN blocks
        /\ \A j \in DOMAIN blocks :
             /\ blocks'[j].addr = blocks[j].addr
             /\ blocks'[j].size = blocks[j].size
             /\ blocks'[j].free = IF j = i THEN 0 ELSE blocks[j].free
    BY <1>0, <1>4, FlagElements
  <2>2. ReturnedUsable'
    BY <1>1, <1>2, <2>1 DEF ReturnedUsable, HdrSize
  <2>3. \A k \in DOMAIN blocks : HeaderKept(k)
    BY <1>1, <2>1 DEF HeaderKept
  <2> QED BY <2>2, <2>3
<1> QED BY <1>3, <1>4

LEMMA CarveReturns ==
  ASSUME IInv, NEW need \in Nat, NEW n \in Nat, need <= n,
         NEW call \in {"kmalloc", "kmalloc_a"}, NEW place \in Nat,
         Carve(call, need, n, place)
  PROVE  ReturnedUsable' /\ \A k \in DOMAIN blocks : HeaderKept(k)
<1>1. /\ DOMAIN blocks' = 1 .. Len(blocks) + 1 /\ Len(blocks) \in Nat
      /\ blocks'[1] = [addr |-> place, size |-> n, free |-> 0]
      /\ \A k \in DOMAIN blocks : k + 1 \in DOMAIN blocks' /\ blocks'[k + 1] = blocks[k]
  BY CarveElements, ListFacts
<1>2. /\ 1 \in DOMAIN blocks' /\ blocks'[1].addr = place /\ blocks'[1].size = n
      /\ blocks'[1].free = 0
  BY <1>1
<1>3. ret'.call = call /\ ret'.ptr = place + HdrSize /\ ret'.need = need
  BY DEF Carve
<1>4. ReturnedUsable'
  BY <1>2, <1>3 DEF ReturnedUsable, HdrSize
<1>5. ASSUME NEW k \in DOMAIN blocks
      PROVE  HeaderKept(k)
  BY <1>1, ListFacts DEF HeaderKept
<1> QED BY <1>4, <1>5

LEMMA StepReturns ==
  IInv /\ Next => (ReturnedUsable => ReturnedUsable') /\ \A k \in DOMAIN blocks : HeaderKept(k)
<1> SUFFICES ASSUME IInv, Next
             PROVE  ReturnedUsable' /\ \A k \in DOMAIN blocks : HeaderKept(k)
  OBVIOUS
<1>1. ASSUME NEW need \in Nat, NEW call \in {"kmalloc", "kmalloc_a"}, NEW place \in Nat,
             KmallocFrom(call, need, place)
      PROVE  ReturnedUsable' /\ \A k \in DOMAIN blocks : HeaderKept(k)
  <2>1. RoundUp4(need) \in Nat /\ need <= RoundUp4(need)
    BY RoundUp4Up
  <2>2. CASE Reuse(call, need, RoundUp4(need), place)
    BY <2>1, <2>2, ReuseReturns
  <2>3. CASE Carve(call, need, RoundUp4(need), place)
    BY <2>1, <2>3, CarveReturns
  <2> QED BY <1>1, <2>2, <2>3 DEF KmallocFrom
<1>2. placement_addr \in Nat /\ PageUp(placement_addr) \in Nat
  BY PageUpUp DEF IInv, TypeOK
<1>3. ASSUME NEW need \in Sizes, Kmalloc(need)
      PROVE  ReturnedUsable' /\ \A k \in DOMAIN blocks : HeaderKept(k)
  BY <1>1, <1>2, <1>3, HeapAssumption DEF Kmalloc
<1>4. ASSUME NEW need \in Sizes, KmallocA(need)
      PROVE  ReturnedUsable' /\ \A k \in DOMAIN blocks : HeaderKept(k)
  BY <1>1, <1>2, <1>4, HeapAssumption DEF KmallocA
<1>5. ASSUME NEW need \in RawSizes, KmallocRawAligned(need)
      PROVE  ReturnedUsable' /\ \A k \in DOMAIN blocks : HeaderKept(k)
  BY <1>5, ListFacts DEF KmallocRawAligned, ReturnedUsable, HeaderKept
<1>6. ASSUME NEW i \in DOMAIN blocks, Kfree(i)
      PROVE  ReturnedUsable' /\ \A k \in DOMAIN blocks : HeaderKept(k)
  <2>1. blocks' = [blocks EXCEPT ![i].free = 1] /\ 1 \in {0, 1} /\ ret'.call = "kfree"
    BY <1>6 DEF Kfree
  <2>2. /\ DOMAIN blocks' = DOMAIN blocks
        /\ \A j \in DOMAIN blocks :
             blocks'[j].addr = blocks[j].addr /\ blocks'[j].size = blocks[j].size
    BY <2>1, FlagElements
  <2> QED BY <2>1, <2>2, ListFacts DEF ReturnedUsable, HeaderKept
<1> QED BY <1>3, <1>4, <1>5, <1>6 DEF Next

(* What kmalloc last returned is in use and large enough. *)
THEOREM Returns == Spec => []ReturnedUsable
<1>1. Init => ReturnedUsable
  BY DEF Init, ReturnedUsable
<1>2. ReturnedUsable /\ IInv /\ [Next]_vars => ReturnedUsable'
  <2>1. CASE UNCHANGED vars
    BY <2>1 DEF vars, ReturnedUsable, HdrSize
  <2> QED BY <2>1, StepReturns
<1> QED BY <1>1, <1>2, Inductive, PTL DEF Spec

(* No header ever moves, vanishes or grows. *)
THEOREM Headers == Spec => HeadersStay
<1>1. IInv /\ [Next]_vars =>
        [\A i \in DOMAIN blocks : \E j \in DOMAIN blocks' :
           /\ blocks'[j].addr = blocks[i].addr
           /\ blocks'[j].size <= blocks[i].size]_vars
  BY StepReturns DEF HeaderKept
<1> QED BY <1>1, Inductive, PTL DEF Spec, HeadersStay
------------------------------------------------------------------------------
(* The next page of an address is the next page of itself. *)
LEMMA PageUpTwice ==
  ASSUME NEW a \in Nat
  PROVE  PageUp(a) \in Nat /\ PageUp(PageUp(a)) = PageUp(a)
<1>1. PageUp(a) \in Nat /\ PageUp(a) % 4096 = 0
  BY DEF PageUp, PageSize
<1> QED
  BY <1>1 DEF PageUp, PageSize

(* What is behind address e begins at e or at the next page. *)
Continued(e, S) == e \in S \/ PageUp(e) \in S

(* No byte is lost by a step that keeps what begins somewhere, carves at   *)
(* the placement address or at its next page, and ends every block where   *)
(* one ended or where something begins.                                    *)
LEMMA NothingLost ==
  ASSUME IInv, NoLostBytes,
         \A k \in DOMAIN blocks : HeaderKept(k), raw \subseteq raw',
         Continued(placement_addr, Starts'),
         \A j \in DOMAIN blocks' :
           \/ End(blocks'[j]) \in Starts'
           \/ \E k \in DOMAIN blocks : End(blocks'[j]) = End(blocks[k])
  PROVE  NoLostBytes'
<1>1. \A k \in DOMAIN blocks : End(blocks[k]) \in Nat
  BY ListFacts DEF End, HdrSize
<1>2. Starts \ {placement_addr} \subseteq Starts'
  BY DEF Starts, HeaderKept
<1>3. ASSUME NEW k \in DOMAIN blocks
      PROVE  Continued(End(blocks[k]), Starts')
  <2>1. End(blocks[k]) \in Starts \/ PageUp(End(blocks[k])) \in Starts
    BY DEF NoLostBytes
  <2>2. CASE End(blocks[k]) = placement_addr
    BY <2>2
  <2>3. CASE PageUp(End(blocks[k])) = placement_addr
    <3>1. PageUp(placement_addr) = placement_addr
      BY <1>1, <2>3, PageUpTwice
    <3> QED
      BY <2>3, <3>1 DEF Continued
  <2> QED
    BY <1>2, <2>1, <2>2, <2>3 DEF Continued
<1> SUFFICES ASSUME NEW j \in DOMAIN blocks'
             PROVE  Continued(End(blocks'[j]), Starts')
  BY DEF NoLostBytes, Continued, End
<1> QED
  BY <1>3 DEF Continued

(* A block that is reused, whole or in part. *)
LEMMA ReuseLosesNothing ==
  ASSUME IInv, NoLostBytes, NEW need \in Nat, NEW n \in Nat, need <= n,
         NEW call \in {"kmalloc", "kmalloc_a"},
         NEW place \in {placement_addr, PageUp(placement_addr)},
         Reuse(call, need, n, place), raw' = raw
  PROVE  NoLostBytes'
<1> PICK i \in DOMAIN blocks :
      /\ blocks' = IF blocks[i].size >= n + HdrSize + 4
                   THEN Split(i, n)
                   ELSE [blocks EXCEPT ![i].free = 0]
      /\ placement_addr' = place
  BY DEF Reuse
<1>1. \A k \in DOMAIN blocks : HeaderKept(k)
  <2>1. place \in Nat
    BY ListFacts, PageUpUp
  <2> QED
    BY <2>1, ReuseReturns
<1>2. Continued(placement_addr, Starts')
  BY DEF Continued, Starts
<1>3. CASE blocks[i].size >= n + HdrSize + 4
  <2> DEFINE own == [addr |-> blocks[i].addr, size |-> n, free |-> 0]
             rest == [addr |-> blocks[i].addr + HdrSize + n,
                      size |-> blocks[i].size - n - HdrSize,
                      free |-> 1]
  <2>1. /\ DOMAIN blocks' = 1 .. Len(blocks) + 1 /\ i \in 1 .. Len(blocks)
        /\ DOMAIN blocks = 1 .. Len(blocks) /\ Len(blocks) \in Nat
        /\ \A j \in 1 .. Len(blocks) + 1 :
             blocks'[j] = IF j < i THEN blocks[j] ELSE IF j = i THEN own
                          ELSE IF j = i + 1 THEN rest ELSE blocks[j - 1]
    BY <1>3, ListFacts, SplitElements
  <2>2. End(own) = rest.addr /\ End(rest) = End(blocks[i])
    <3>1. blocks[i].addr \in Nat /\ blocks[i].size \in Nat
      BY ListFacts
    <3> QED
      BY <1>3, <3>1 DEF End, HdrSize
  <2> HIDE DEF own, rest
  <2>3. rest.addr \in Starts'
    <3>1. i + 1 \in DOMAIN blocks' /\ blocks'[i + 1] = rest
      BY <2>1
    <3> QED
      BY <3>1 DEF Starts
  <2>4. ASSUME NEW j \in DOMAIN blocks'
        PROVE  \/ End(blocks'[j]) \in Starts'
               \/ \E k \in DOMAIN blocks : End(blocks'[j]) = End(blocks[k])
    <3>1. CASE j = i \/ j = i + 1
      BY <2>1, <2>2, <2>3, <3>1
    <3>2. CASE j # i /\ j # i + 1
      BY <2>1, <3>2
    <3> QED
      BY <3>1, <3>2
  <2> QED
    BY <1>1, <1>2, <2>4, NothingLost
<1>4. CASE ~(blocks[i].size >= n + HdrSize + 4)
  <2>1. blocks' = [blocks EXCEPT ![i].free = 0] /\ 0 \in {0, 1}
    BY <1>4
  <2>2. /\ DOMAIN blocks' = DOMAIN blocks
        /\ \A j \in DOMAIN blocks :
             blocks'[j].addr = blocks[j].addr /\ blocks'[j].size = blocks[j].size
    BY <2>1, FlagElements
  <2>3. \A j \in DOMAIN blocks' : End(blocks'[j]) = End(blocks[j])
    BY <2>2 DEF End
  <2> QED
    BY <1>1, <1>2, <2>2, <2>3, NothingLost
<1> QED
  BY <1>3, <1>4

(* A block that is carved. *)
LEMMA CarveLosesNothing ==
  ASSUME IInv, NoLostBytes, NEW need \in Nat, NEW n \in Nat, need <= n,
         NEW call \in {"kmalloc", "kmalloc_a"},
         NEW place \in {placement_addr, PageUp(placement_addr)},
         Carve(call, need, n, place), raw' = raw
  PROVE  NoLostBytes'
<1>1. place \in Nat
  BY ListFacts, PageUpUp
<1>2. /\ DOMAIN blocks' = 1 .. Len(blocks) + 1
      /\ blocks'[1] = [addr |-> place, size |-> n, free |-> 0]
      /\ \A j \in DOMAIN blocks' :
           j # 1 => j - 1 \in DOMAIN blocks /\ blocks'[j] = blocks[j - 1]
  BY <1>1, CarveElements
<1>3. \A k \in DOMAIN blocks : HeaderKept(k)
  BY <1>1, CarveReturns
<1>4. Continued(placement_addr, Starts')
  <2>1. 1 \in DOMAIN blocks' /\ blocks'[1].addr = place
    BY <1>2, ListFacts
  <2>2. place \in Starts'
    BY <2>1 DEF Starts
  <2> QED
    BY <2>2 DEF Continued
<1>5. End(blocks'[1]) \in Starts'
  <2>1. End(blocks'[1]) = placement_addr'
    BY <1>1, <1>2 DEF Carve, End, HdrSize
  <2> QED
    BY <2>1 DEF Starts
<1>6. \A j \in DOMAIN blocks' :
        \/ End(blocks'[j]) \in Starts'
        \/ \E k \in DOMAIN blocks : End(blocks'[j]) = End(blocks[k])
  BY <1>2, <1>5
<1> QED
  BY <1>3, <1>4, <1>6, NothingLost

LEMMA StepLosesNothing == IInv /\ NoLostBytes /\ [Next]_vars => NoLostBytes'
<1> SUFFICES ASSUME IInv, NoLostBytes, [Next]_vars
             PROVE  NoLostBytes'
  OBVIOUS
<1>1. ASSUME NEW need \in Nat, NEW call \in {"kmalloc", "kmalloc_a"},
             NEW place \in {placement_addr, PageUp(placement_addr)},
             KmallocFrom(call, need, place)
      PROVE  NoLostBytes'
  <2>1. RoundUp4(need) \in Nat /\ need <= RoundUp4(need)
    BY RoundUp4Up
  <2>2. CASE Reuse(call, need, RoundUp4(need), place)
    BY <1>1, <2>1, <2>2, ReuseLosesNothing DEF KmallocFrom
  <2>3. CASE Carve(call, need, RoundUp4(need), place)
    BY <1>1, <2>1, <2>3, CarveLosesNothing DEF KmallocFrom
  <2> QED
    BY <1>1, <2>2, <2>3 DEF KmallocFrom
<1>2. ASSUME NEW need \in Sizes, Kmalloc(need) \/ KmallocA(need)
      PROVE  NoLostBytes'
  BY <1>1, <1>2, HeapAssumption DEF Kmalloc, KmallocA
<1>3. ASSUME NEW need \in RawSizes, KmallocRawAligned(need)
      PROVE  NoLostBytes'
  <2>1. blocks' = blocks /\ raw' = raw \cup {[addr |-> PageUp(placement_addr), len |-> need]}
    BY <1>3 DEF KmallocRawAligned
  <2>2. PageUp(placement_addr) \in Starts'
    <3>1. [addr |-> PageUp(placement_addr), len |-> need] \in raw'
      BY <2>1
    <3> DEFINE r == [addr |-> PageUp(placement_addr), len |-> need]
    <3>2. r \in raw' /\ r.addr = PageUp(placement_addr)
      BY <3>1
    <3> HIDE DEF r
    <3> QED
      BY <3>2 DEF Starts
  <2> QED
    BY <2>1, <2>2, ListFacts, NothingLost DEF HeaderKept, End, Continued
<1>4. ASSUME NEW i \in DOMAIN blocks, Kfree(i)
      PROVE  NoLostBytes'
  <2>1. /\ blocks' = [blocks EXCEPT ![i].free = 1] /\ 1 \in {0, 1}
        /\ placement_addr' = placement_addr /\ raw' = raw
    BY <1>4 DEF Kfree
  <2>2. /\ DOMAIN blocks' = DOMAIN blocks
        /\ \A j \in DOMAIN blocks :
             blocks'[j].addr = blocks[j].addr /\ blocks'[j].size = blocks[j].size
    BY <2>1, FlagElements
  <2>3. /\ \A j \in DOMAIN blocks' : End(blocks'[j]) = End(blocks[j])
        /\ \A k \in DOMAIN blocks : HeaderKept(k)
    BY <2>2, ListFacts DEF End, HeaderKept
  <2>4. Continued(placement_addr, Starts')
    BY <2>1 DEF Continued, Starts
  <2> QED
    BY <2>1, <2>2, <2>3, <2>4, NothingLost
<1>5. CASE UNCHANGED vars
  <2>1. Starts' = Starts
    BY <1>5 DEF vars, Starts
  <2> QED
    BY <1>5, <2>1 DEF vars, NoLostBytes, End
<1> QED
  BY <1>2, <1>3, <1>4, <1>5 DEF Next

(* Memory is lost to page alignment only. *)
THEOREM NoneLost == Spec => []NoLostBytes
<1>1. Init => NoLostBytes
  BY DEF Init, NoLostBytes
<1> QED
  BY <1>1, StepLosesNothing, Inductive, PTL DEF Spec
=============================================================================
