----------------------------- MODULE DataProofs -----------------------------
(***************************************************************************)
(* Facts about data, for any sizes, that the proofs of the system share.   *)
(* Rings: n slots, filled from a tail t, which is read, up to a head h,    *)
(* which is written; one slot stays empty.  The ring of events             *)
(* (EventQueue), both rings of the NVMe driver (Nvme) and the console's    *)
(* ring of characters are such rings: advancing the head past a new entry  *)
(* is a Put of Fifo, advancing the tail a Get.  Induction as a statement   *)
(* about sets of numbers, which every table and list needs.  And facts     *)
(* about numbers, digits and sequences.                                    *)
(***************************************************************************)
EXTENDS Integers, Sequences, SequencesExt, SequenceTheorems, FiniteSetTheorems,
        WellFoundedInduction, TLAPS

(* The slots, and the one after slot i. *)
RingSlots(n) == 0 .. n - 1
Onward(n, i) == (i + 1) % n

(* How many entries there are from slot t up to slot h, and the i-th one.  *)
Fill(n, h, t) == IF h >= t THEN h - t ELSE h + n - t
Nth(n, t, i) == IF t + i <= n THEN t + i - 1 ELSE t + i - 1 - n
Content(n, q, h, t) == [i \in 1 .. Fill(n, h, t) |-> q[Nth(n, t, i)]]

(* Positions run at most once around the ring. *)
LEMMA ModOnce ==
  ASSUME NEW n \in Nat \ {0, 1}, NEW x \in 0 .. 2 * n - 1
  PROVE  x % n = IF x < n THEN x ELSE x - n
  BY SMT

(* The next slot; two slots have two successors. *)
LEMMA OnwardIs ==
  ASSUME NEW n \in Nat \ {0, 1}, NEW i \in RingSlots(n)
  PROVE  /\ Onward(n, i) = IF i = n - 1 THEN 0 ELSE i + 1
         /\ Onward(n, i) \in RingSlots(n)
<1> DEFINE x == i + 1
<1>1. x \in 0 .. 2 * n - 1
  BY SMT DEF RingSlots
<1> HIDE DEF x
<1>2. x % n = IF x < n THEN x ELSE x - n
  BY <1>1, ModOnce
<1> QED
  BY <1>2, SMT DEF x, RingSlots, Onward

LEMMA OnwardInjective ==
  ASSUME NEW n \in Nat \ {0, 1}, NEW i \in RingSlots(n), NEW j \in RingSlots(n), i # j
  PROVE  Onward(n, i) # Onward(n, j)
<1>1. /\ Onward(n, i) = IF i = n - 1 THEN 0 ELSE i + 1
      /\ Onward(n, j) = IF j = n - 1 THEN 0 ELSE j + 1
  BY OnwardIs
<1> QED
  BY <1>1, SMT DEF RingSlots

(* The code's difference modulo n is the fill, which is never all slots,   *)
(* and none exactly if the positions are the same.                         *)
LEMMA FillIs ==
  ASSUME NEW n \in Nat \ {0, 1}, NEW h \in RingSlots(n), NEW t \in RingSlots(n)
  PROVE  /\ Fill(n, h, t) \in 0 .. n - 1
         /\ (h + n - t) % n = Fill(n, h, t)
         /\ Fill(n, h, t) = 0 <=> h = t
<1> DEFINE x == h + n - t
<1>1. x \in 0 .. 2 * n - 1
  BY SMT DEF RingSlots
<1> HIDE DEF x
<1>2. x % n = IF x < n THEN x ELSE x - n
  BY <1>1, ModOnce
<1> QED
  BY <1>2, SMT DEF x, RingSlots, Fill

(* No entry lies in the slot of the head; the first lies in the tail's.    *)
LEMMA NthIs ==
  ASSUME NEW n \in Nat \ {0, 1}, NEW h \in RingSlots(n), NEW t \in RingSlots(n),
         NEW i \in 1 .. Fill(n, h, t)
  PROVE  /\ Nth(n, t, i) \in RingSlots(n) /\ Nth(n, t, i) # h
         /\ (t + i - 1) % n = Nth(n, t, i)
         /\ Nth(n, t, 1) = t
<1>1. i \in 1 .. n - 1
  BY FillIs, SMT
<1> DEFINE x == t + i - 1
<1>2. x \in 0 .. 2 * n - 1
  BY <1>1, SMT DEF RingSlots
<1> HIDE DEF x
<1>3. x % n = IF x < n THEN x ELSE x - n
  BY <1>2, ModOnce
<1> QED
  BY <1>1, <1>3, SMT DEF x, RingSlots, Nth, Fill

(* A ring of n entries, all in the set Entry. *)
IsRing(n, Entry, q, h, t) ==
  /\ n \in Nat \ {0, 1}
  /\ q \in [RingSlots(n) -> Entry]
  /\ h \in RingSlots(n) /\ t \in RingSlots(n)

(* The entries are a sequence, read from the tail on. *)
LEMMA ContentIs ==
  ASSUME NEW n, NEW Entry, NEW q, NEW h, NEW t, IsRing(n, Entry, q, h, t)
  PROVE  /\ Content(n, q, h, t) \in Seq(Entry)
         /\ Len(Content(n, q, h, t)) = Fill(n, h, t)
         /\ \A i \in 1 .. Fill(n, h, t) : Content(n, q, h, t)[i] = q[Nth(n, t, i)]
<1>1. Fill(n, h, t) \in Nat
  BY FillIs, SMT DEF IsRing
<1>2. \A i \in 1 .. Fill(n, h, t) : q[Nth(n, t, i)] \in Entry
  BY NthIs DEF IsRing
<1> QED
  BY <1>1, <1>2 DEF Content

(* The entries as the models of the code name them. *)
Ring(n, q, h, t) == [i \in 1 .. (h + n - t) % n |-> q[(t + i - 1) % n]]

LEMMA RingIs ==
  ASSUME NEW n, NEW Entry, NEW q, NEW h, NEW t, IsRing(n, Entry, q, h, t)
  PROVE  Ring(n, q, h, t) = Content(n, q, h, t)
<1>1. (h + n - t) % n = Fill(n, h, t)
  BY FillIs DEF IsRing
<1>2. ASSUME NEW i \in 1 .. Fill(n, h, t)
      PROVE  q[(t + i - 1) % n] = q[Nth(n, t, i)]
  BY NthIs DEF IsRing
<1> QED
  BY <1>1, <1>2 DEF Ring, Content

(* A slot more behind the head. *)
LEMMA FillHead ==
  ASSUME NEW n \in Nat \ {0, 1}, NEW h \in RingSlots(n), NEW t \in RingSlots(n),
         NEW g \in RingSlots(n), g = Onward(n, h)
  PROVE  /\ g # t => Fill(n, g, t) = Fill(n, h, t) + 1 /\ Fill(n, h, t) < n - 1
         /\ g = t => Fill(n, h, t) = n - 1
         /\ Nth(n, t, Fill(n, h, t) + 1) = h
<1>1. g = IF h = n - 1 THEN 0 ELSE h + 1
  BY OnwardIs
<1>2. g # t => Fill(n, g, t) = Fill(n, h, t) + 1 /\ Fill(n, h, t) < n - 1
  BY <1>1, SMT DEF Fill, RingSlots
<1>3. g = t => Fill(n, h, t) = n - 1
  BY <1>1, SMT DEF Fill, RingSlots
<1>4. Nth(n, t, Fill(n, h, t) + 1) = h
  BY SMT DEF Fill, Nth, RingSlots
<1> QED
  BY <1>2, <1>3, <1>4

(* A slot less in front of the tail. *)
LEMMA FillTail ==
  ASSUME NEW n \in Nat \ {0, 1}, NEW h \in RingSlots(n), NEW t \in RingSlots(n),
         NEW u \in RingSlots(n), u = Onward(n, t), h # t
  PROVE  /\ Fill(n, h, u) = Fill(n, h, t) - 1 /\ Fill(n, h, t) > 0
         /\ \A i \in 1 .. Fill(n, h, t) - 1 : Nth(n, u, i) = Nth(n, t, i + 1)
<1>1. u = IF t = n - 1 THEN 0 ELSE t + 1
  BY OnwardIs
<1>2. Fill(n, h, u) = Fill(n, h, t) - 1 /\ Fill(n, h, t) > 0
  BY <1>1, SMT DEF Fill, RingSlots
<1>3. ASSUME NEW i \in 1 .. Fill(n, h, t) - 1
      PROVE  Nth(n, u, i) = Nth(n, t, i + 1)
  <2>1. Fill(n, h, t) \in 0 .. n - 1
    BY FillIs
  <2>2. i \in Nat /\ i > 0 /\ i < n
    BY <2>1, SMT
  <2> QED
    BY <1>1, <2>2, SMT DEF Nth, RingSlots
<1> QED
  BY <1>2, <1>3

(* An entry behind the last one, and the head moved there: a put. *)
LEMMA PutIs ==
  ASSUME NEW n, NEW Entry, NEW q, NEW h, NEW t, NEW new, NEW g,
         IsRing(n, Entry, q, h, t), IsRing(n, Entry, new, g, t),
         g = Onward(n, h), g # t,
         \A i \in RingSlots(n) : i # h => new[i] = q[i]
  PROVE  /\ Len(Content(n, q, h, t)) < n - 1
         /\ Len(Content(n, new, g, t)) = Len(Content(n, q, h, t)) + 1
         /\ SubSeq(Content(n, new, g, t), 1, Len(Content(n, q, h, t))) = Content(n, q, h, t)
<1> DEFINE before == Content(n, q, h, t)
           after == Content(n, new, g, t)
           m == Fill(n, h, t)
<1>1. Fill(n, g, t) = m + 1 /\ m < n - 1
  BY FillHead DEF IsRing
<1>2. /\ before \in Seq(Entry) /\ Len(before) = m
      /\ \A i \in 1 .. m : before[i] = q[Nth(n, t, i)]
  BY ContentIs
<1>3. /\ after \in Seq(Entry) /\ Len(after) = Fill(n, g, t)
      /\ \A i \in 1 .. Fill(n, g, t) : after[i] = new[Nth(n, t, i)]
  BY ContentIs
<1>4. m \in Nat
  BY FillIs, SMT DEF IsRing
<1>5. \A i \in 1 .. m : Nth(n, t, i) \in RingSlots(n) /\ Nth(n, t, i) # h
  BY NthIs DEF IsRing
<1> HIDE DEF before, after, m
<1>6. \A i \in 1 .. m : after[i] = before[i]
  <2> TAKE i \in 1 .. m
  <2>1. i \in 1 .. Fill(n, g, t)
    BY <1>1, <1>4, SMT
  <2> QED
    BY <1>2, <1>3, <1>5, <2>1
<1>7. SubSeq(after, 1, m) = before
  <2>1. SubSeq(after, 1, m) = [i \in 1 .. m |-> after[i]]
    BY <1>1, <1>3, <1>4, SMT
  <2>2. before = [i \in 1 .. m |-> before[i]]
    BY <1>2, <1>4, SMT
  <2> QED
    BY <1>6, <2>1, <2>2
<1> QED
  BY <1>1, <1>2, <1>3, <1>7 DEF before, after, m

(* The tail moved on: a get. *)
LEMMA GetIs ==
  ASSUME NEW n, NEW Entry, NEW q, NEW h, NEW t, NEW u,
         IsRing(n, Entry, q, h, t), IsRing(n, Entry, q, h, u),
         u = Onward(n, t), h # t
  PROVE  /\ Content(n, q, h, t) # <<>>
         /\ Content(n, q, h, u) = Tail(Content(n, q, h, t))
<1> DEFINE before == Content(n, q, h, t)
           after == Content(n, q, h, u)
           m == Fill(n, h, t)
<1>1. /\ Fill(n, h, u) = m - 1 /\ m > 0
      /\ \A i \in 1 .. m - 1 : Nth(n, u, i) = Nth(n, t, i + 1)
  BY FillTail DEF IsRing
<1>2. /\ before \in Seq(Entry) /\ Len(before) = m
      /\ \A i \in 1 .. m : before[i] = q[Nth(n, t, i)]
  BY ContentIs
<1>3. /\ after \in Seq(Entry) /\ Len(after) = Fill(n, h, u)
      /\ \A i \in 1 .. Fill(n, h, u) : after[i] = q[Nth(n, u, i)]
  BY ContentIs
<1>4. m \in Nat
  BY FillIs, SMT DEF IsRing
<1> HIDE DEF before, after, m
<1>5. \A i \in 1 .. m - 1 : after[i] = before[i + 1]
  <2> TAKE i \in 1 .. m - 1
  <2>1. i + 1 \in 1 .. m
    BY <1>1, <1>4, SMT
  <2> QED
    BY <1>1, <1>2, <1>3, <2>1
<1>6. before # <<>>
  BY <1>1, <1>2, SMT
<1>7. after = Tail(before)
  <2>1. Tail(before) \in Seq(Entry) /\ Len(Tail(before)) = m - 1
    BY <1>1, <1>2, <1>6, SMT
  <2>2. \A i \in 1 .. m - 1 : Tail(before)[i] = before[i + 1]
    BY <1>1, <1>2, <1>6, SMT
  <2>3. Len(after) = m - 1
    BY <1>1, <1>3
  <2> QED
    BY <1>3, <1>5, <2>1, <2>2, <2>3, SeqEqual
<1> QED
  BY <1>6, <1>7 DEF before, after

(* An entry written behind the last one is not part of the queue yet. *)
LEMMA BehindIs ==
  ASSUME NEW n, NEW Entry, NEW q, NEW h, NEW t, NEW e,
         IsRing(n, Entry, q, h, t)
  PROVE  Content(n, [q EXCEPT ![h] = e], h, t) = Content(n, q, h, t)
<1>1. \A i \in 1 .. Fill(n, h, t) : Nth(n, t, i) \in RingSlots(n) /\ Nth(n, t, i) # h
  BY NthIs DEF IsRing
<1>2. \A i \in 1 .. Fill(n, h, t) : [q EXCEPT ![h] = e][Nth(n, t, i)] = q[Nth(n, t, i)]
  BY <1>1 DEF IsRing
<1> QED
  BY <1>2 DEF Content

(* Whole rounds make no difference, however many. *)
LEMMA WholeRounds ==
  ASSUME NEW n \in Nat \ {0}, NEW m \in Nat, NEW r \in 0 .. n - 1
  PROVE  (n * m + r) % n = r
<1> DEFINE x == n * m + r
           q == x \div n
           y == x % n
<1>1. x \in Nat /\ x = n * m + r
  BY SMT
<1> HIDE DEF x
<1>2. x = n * q + y /\ q \in Nat /\ y \in 0 .. n - 1
  BY <1>1, SMT
<1> HIDE DEF q, y
<1> SUFFICES y = r
  BY DEF x, y
<1>3. ASSUME NEW k \in Nat, k > 0 PROVE n * k >= n
  BY <1>3, SMT
<1>4. CASE m > q
  <2> DEFINE k == m - q
  <2>1. k \in Nat /\ k > 0 /\ m = q + k
    BY <1>2, <1>4
  <2> HIDE DEF k
  <2>2. n * m = n * q + n * k /\ n * k >= n
    BY <1>2, <1>3, <2>1, SMT
  <2> QED
    BY <1>1, <1>2, <2>1, <2>2, SMT
<1>5. CASE m < q
  <2> DEFINE k == q - m
  <2>1. k \in Nat /\ k > 0 /\ q = m + k
    BY <1>2, <1>5
  <2> HIDE DEF k
  <2>2. n * q = n * m + n * k /\ n * k >= n
    BY <1>3, <2>1, SMT
  <2> QED
    BY <1>1, <1>2, <2>1, <2>2, SMT
<1>6. CASE m = q
  BY <1>1, <1>2, <1>6, SMT
<1> QED
  BY <1>2, <1>4, <1>5, <1>6
------------------------------------------------------------------------------
(* Pairs of numbers in order. *)
Below == {p \in Nat \X Nat : p[1] < p[2]}

(* Every set of numbers has a least one. *)
LEMMA Least ==
  ASSUME NEW T, T \subseteq Nat, T # {}
  PROVE  \E x \in T : \A y \in T : x <= y
<1>1. IsWellFoundedOn(Below, Nat)
  <2>1. OpToRel(<, Nat) = Below
    BY Zenon DEF OpToRel, Below
  <2> QED
    BY NatLessThanWellFounded, <2>1, Zenon
<1>2. PICK x \in T : \A y \in T : ~(<<y, x>> \in Below)
  BY <1>1, WFMin
<1>3. \A y \in T : ~(y < x)
  BY <1>2 DEF Below
<1> QED
  BY <1>3

(* What holds of 0 and goes on to the next number holds up to any. *)
LEMMA UpTo ==
  ASSUME NEW n \in Nat, NEW T, 0 \in T, \A i \in 1 .. n : i - 1 \in T => i \in T
  PROVE  0 .. n \subseteq T
<1> DEFINE missing == (0 .. n) \ T
<1> SUFFICES ASSUME missing # {} PROVE FALSE
  OBVIOUS
<1>1. missing \subseteq Nat
  OBVIOUS
<1>2. PICK i \in missing : \A j \in missing : i <= j
  BY <1>1, Least
<1>3. i \in 1 .. n /\ i - 1 \in 0 .. n
  BY <1>2
<1>4. i - 1 \notin missing
  BY <1>2, <1>3
<1> QED
  BY <1>2, <1>3, <1>4

(* Step after step, from a start on. *)
Steps(n, X) == [1 .. n -> [X -> X]]

Follows(f, n, X, start, step) ==
  f \in [0 .. n -> X] /\ f[0] = start /\ \A i \in 1 .. n : f[i] = step[i][f[i - 1]]

LEMMA Iterated ==
  ASSUME NEW n \in Nat, NEW X, NEW start \in X, NEW step \in Steps(n, X)
  PROVE  \E f : Follows(f, n, X, start, step)
<1> DEFINE Goes(f, k) == f[0] = start /\ \A i \in 1 .. k : f[i] = step[i][f[i - 1]]
           T == {k \in 0 .. n : \E f \in [0 .. k -> X] : Goes(f, k)}
<1>1. 0 \in T
  <2> DEFINE f == [i \in 0 .. 0 |-> start]
  <2>1. f \in [0 .. 0 -> X] /\ f[0] = start
    OBVIOUS
  <2>2. 0 \in 0 .. n /\ \A i \in 1 .. 0 : FALSE
    OBVIOUS
  <2> HIDE DEF f
  <2>3. Goes(f, 0)
    BY <2>1, <2>2
  <2> QED
    BY <2>1, <2>2, <2>3
<1>2. ASSUME NEW k \in 1 .. n, k - 1 \in T PROVE k \in T
  <2>1. PICK f \in [0 .. k - 1 -> X] : Goes(f, k - 1)
    BY <1>2
  <2> DEFINE last == step[k][f[k - 1]]
             g == [i \in 0 .. k |-> IF i = k THEN last ELSE f[i]]
  <2>2. k \in Nat \ {0} /\ k \in 0 .. n /\ k - 1 \in 0 .. k - 1
    OBVIOUS
  <2>3. \A i \in 0 .. k : i # k => i \in 0 .. k - 1
    BY <2>2
  <2>4. f[k - 1] \in X /\ last \in X
    BY <2>2 DEF Steps
  <2> HIDE DEF last
  <2>5. g \in [0 .. k -> X]
    BY <2>3, <2>4
  <2>6. g[0] = start
    BY <2>1, <2>2
  <2>7. ASSUME NEW i \in 1 .. k PROVE g[i] = step[i][g[i - 1]]
    <3>1. i \in 0 .. k /\ i - 1 \in 0 .. k /\ i - 1 # k
      BY <2>2
    <3>2. CASE i = k
      BY <3>1, <3>2 DEF last
    <3>3. CASE i # k
      <4>1. i \in 1 .. k - 1
        BY <2>2, <3>3
      <4> QED
        BY <2>1, <3>1, <3>3, <4>1
    <3> QED
      BY <3>2, <3>3
  <2> HIDE DEF g
  <2> QED
    BY <2>2, <2>5, <2>6, <2>7
<1> HIDE DEF T
<1>3. 0 .. n \subseteq T
  BY <1>1, <1>2, UpTo
<1>4. n \in T
  BY <1>3
<1>5. PICK f \in [0 .. n -> X] : Goes(f, n)
  BY <1>4 DEF T
<1>6. Follows(f, n, X, start, step)
  BY <1>5 DEF Follows
<1> QED
  BY <1>6, Zenon

------------------------------------------------------------------------------
(* Numbers: the least and the greatest, products and quotients, and what   *)
(* digits mean.                                                            *)

(* The least of a set of numbers, as the code's loops find it. *)
LEMMA MinIs ==
  ASSUME NEW T, T \subseteq Nat, T # {}
  PROVE  Min(T) \in T /\ \A x \in T : Min(T) <= x
<1>1. \E x \in T : \A y \in T : x <= y
  BY Least
<1> QED
  BY <1>1 DEF Min

LEMMA MaxIs ==
  ASSUME NEW n \in Nat
  PROVE  Max({n, 1}) = IF n = 0 THEN 1 ELSE n
<1> DEFINE T == {n, 1}
           top == IF n = 0 THEN 1 ELSE n
<1>1. top \in T /\ \A y \in T : top >= y
  OBVIOUS
<1>2. Max(T) \in T /\ \A y \in T : Max(T) >= y
  BY <1>1 DEF Max
<1> QED
  BY <1>1, <1>2

LEMMA LeastOfTwo ==
  ASSUME NEW a \in Nat, NEW b \in Nat
  PROVE  Min({a, b}) = IF a <= b THEN a ELSE b
<1> DEFINE T == {a, b}
<1>1. T \subseteq Nat /\ T # {}
  OBVIOUS
<1>2. Min(T) \in T /\ \A x \in T : Min(T) <= x
  <2> HIDE DEF T
  <2> QED
    BY <1>1, MinIs
<1> QED
  BY <1>2

LEMMA WithinSpace ==
  ASSUME NEW n \in Nat, NEW m \in Nat, n < m
  PROVE  n % m = n
  BY ModOnce

LEMMA TimesLe ==
  ASSUME NEW a \in Nat, NEW c \in Nat, a <= c, NEW b \in Nat
  PROVE  a * b \in Nat /\ c * b \in Nat /\ a * b <= c * b
<1> DEFINE d == c - a
<1>1. d \in Nat /\ c = a + d
  OBVIOUS
<1> HIDE DEF d
<1>2. c * b = a * b + d * b /\ d * b \in Nat /\ a * b \in Nat
  BY <1>1, SMT
<1> QED
  BY <1>2

LEMMA TimesLess ==
  ASSUME NEW a \in Nat \ {0}, NEW b \in Nat
  PROVE  a * b = (a - 1) * b + b /\ (a - 1) * b \in Nat /\ a * b \in Nat
<1> DEFINE d == a - 1
<1>1. d \in Nat /\ a = d + 1
  OBVIOUS
<1> HIDE DEF d
<1>2. a * b = d * b + b /\ d * b \in Nat
  BY <1>1, SMT
<1>3. a - 1 = d
  BY <1>1
<1> QED
  BY <1>2, <1>3

(* Division, which cuts a number's last digits off. *)
LEMMA DivIs ==
  ASSUME NEW c \in Nat \ {0}, NEW p \in Nat, NEW r \in 0 .. c - 1
  PROVE  (c * p + r) \div c = p
<1> DEFINE a == c * p + r
           q == a \div c
<1>1. c * p \in Nat
  BY TimesLe
<1>2. a \in Nat
  BY <1>1
<1>3. q \in Nat /\ c * q <= a /\ a < c * q + c
  <2> HIDE DEF a
  <2> QED
    BY <1>2, SMT
<1>4. a = c * p + r
  OBVIOUS
<1> HIDE DEF a, q
<1>5. ASSUME q < p PROVE FALSE
  <2>1. p = q + 1 + (p - q - 1) /\ p - q - 1 \in Nat
    BY <1>3, <1>5
  <2> DEFINE e == p - q - 1
  <2>2. e \in Nat /\ p = q + 1 + e
    BY <2>1
  <2> HIDE DEF e
  <2>3. c * p = c * q + c + c * e /\ c * e \in Nat /\ c * q \in Nat
    BY <1>3, <2>2, SMT
  <2> DEFINE x == c * p
             y == c * q
             z == c * e
  <2>4. x = y + c + z /\ z \in Nat /\ y \in Nat
    BY <2>3
  <2>5. a < y + c /\ a = x + r
    BY <1>3, <1>4
  <2> HIDE DEF x, y, z
  <2> QED
    BY <2>4, <2>5
<1>6. ASSUME p < q PROVE FALSE
  <2>1. q = p + 1 + (q - p - 1) /\ q - p - 1 \in Nat
    BY <1>3, <1>6
  <2> DEFINE e == q - p - 1
  <2>2. e \in Nat /\ q = p + 1 + e
    BY <2>1
  <2> HIDE DEF e
  <2>3. c * q = c * p + c + c * e /\ c * e \in Nat /\ c * p \in Nat
    BY <1>3, <2>2, SMT
  <2> DEFINE x == c * p
             y == c * q
             z == c * e
  <2>4. y = x + c + z /\ z \in Nat /\ x \in Nat
    BY <2>3
  <2>5. y <= a /\ a = x + r
    BY <1>3, <1>4
  <2> HIDE DEF x, y, z
  <2> QED
    BY <2>4, <2>5
<1>7. q = p
  BY <1>3, <1>5, <1>6
<1> QED
  BY <1>7 DEF q, a

LEMMA DivTen ==
  ASSUME NEW a \in Nat, NEW b \in Nat \ {0}
  PROVE  /\ a \div b \in Nat /\ (a \div b) % 10 \in 0 .. 9
         /\ a \div b = (a \div (10 * b)) * 10 + ((a \div b) % 10)
<1> DEFINE q == a \div b
           p == q \div 10
           s == q % 10
           r == a - b * q
<1>1. q \in Nat /\ b * q <= a /\ a < b * q + b /\ b * q \in Nat
  BY SMT
<1> DEFINE x == b * q
<1>2. x \in Nat /\ x <= a /\ a < x + b
  BY <1>1
<1>3. r \in 0 .. b - 1 /\ a = x + r
  <2>1. r = a - x
    OBVIOUS
  <2> HIDE DEF r, x
  <2> QED
    BY <1>2, <2>1
<1> HIDE DEF r
<1>4. q \in Nat
  BY <1>1
<1>5. x = b * q
  OBVIOUS
<1> HIDE DEF q, x
<1>6. p \in Nat /\ s \in 0 .. 9 /\ q = p * 10 + s
  BY <1>4
<1> HIDE DEF p, s
<1>7. x = (10 * b) * p + b * s
  <2>1. b * (p * 10 + s) = (10 * b) * p + b * s
    BY <1>6, SMT
  <2> QED
    BY <1>5, <1>6, <2>1
<1> DEFINE z == b * s + r
           c == 10 * b
<1>8. z \in 0 .. c - 1
  <2>1. b * s \in Nat /\ b * s <= b * 9
    BY <1>6, SMT
  <2> DEFINE y == b * s
  <2>2. y \in Nat /\ y <= b * 9
    BY <2>1
  <2> HIDE DEF y
  <2>3. y + r \in 0 .. 10 * b - 1
    BY <1>3, <2>2
  <2> QED
    BY <2>3 DEF y
<1>9. a = c * p + z
  <2> DEFINE y == b * s
             m == c * p
  <2>1. x = m + y /\ a = x + r
    BY <1>3, <1>7
  <2>2. y \in Int /\ m \in Int
    BY <1>6
  <2> HIDE DEF y, m
  <2>3. a = m + (y + r)
    BY <1>3, <2>1, <2>2
  <2> QED
    BY <2>3 DEF y, m
<1>10. c \in Nat \ {0}
  OBVIOUS
<1> HIDE DEF z, c
<1>11. a \div c = p
  BY <1>6, <1>8, <1>9, <1>10, DivIs
<1>12. q = (a \div c) * 10 + s
  BY <1>6, <1>11
<1> QED
  BY <1>4, <1>6, <1>12 DEF q, s, c

(* What digits mean, from left to right. *)
ValuesOf(digits) ==
  CHOOSE f : f = [i \in 0 .. Len(digits) |-> IF i = 0 THEN 0 ELSE f[i - 1] * 10 + digits[i]]

LEMMA NextNumber ==
  ASSUME NEW a \in Nat, NEW b \in 0 .. 9
  PROVE  a * 10 + b \in Nat
  OBVIOUS

LEMMA ValuesAre ==
  ASSUME NEW digits \in Seq(0 .. 9)
  PROVE  LET v == ValuesOf(digits) IN
         /\ v[0] = 0
         /\ \A i \in 1 .. Len(digits) : v[i] = v[i - 1] * 10 + digits[i]
         /\ \A i \in 0 .. Len(digits) : v[i] \in Nat
<1> DEFINE n == Len(digits)
           Reads1(f) == f = [i \in 0 .. n |-> IF i = 0 THEN 0 ELSE f[i - 1] * 10 + digits[i]]
           v == ValuesOf(digits)
<1>1. v = CHOOSE f : Reads1(f)
  BY Zenon DEF ValuesOf
<1>2. n \in Nat /\ \A i \in 1 .. n : digits[i] \in 0 .. 9
  OBVIOUS
<1> HIDE DEF n, v
<1>3. PICK g \in [0 .. n -> Nat] : g[0] = 0 /\ \A i \in 1 .. n : g[i] = g[i - 1] * 10 + digits[i]
  <2> DEFINE step == [i \in 1 .. n |-> [x \in Nat |-> x * 10 + digits[i]]]
  <2>1. step \in Steps(n, Nat)
    <3>1. \A i \in 1 .. n, x \in Nat : x * 10 + digits[i] \in Nat
      BY <1>2, NextNumber, Zenon
    <3> QED
      BY <3>1 DEF Steps
  <2>2. \A i \in 1 .. n, x \in Nat : step[i][x] = x * 10 + digits[i]
    OBVIOUS
  <2> HIDE DEF step
  <2>3. PICK f : Follows(f, n, Nat, 0, step)
    BY <1>2, <2>1, Iterated
  <2>4. f \in [0 .. n -> Nat] /\ f[0] = 0 /\ \A i \in 1 .. n : f[i] = step[i][f[i - 1]]
    BY <2>3 DEF Follows
  <2>5. \A i \in 1 .. n : f[i - 1] \in Nat
    BY <1>2, <2>4
  <2>9. ASSUME NEW i \in 1 .. n PROVE f[i] = f[i - 1] * 10 + digits[i]
    BY <2>2, <2>4, <2>5, Zenon
  <2> QED
    BY <2>4, <2>9, Zenon
<1>4. Reads1(g)
  <2>1. g = [i \in 0 .. n |-> g[i]]
    OBVIOUS
  <2>2. \A i \in 0 .. n : g[i] = IF i = 0 THEN 0 ELSE g[i - 1] * 10 + digits[i]
    <3>1. \A i \in 0 .. n : i = 0 \/ i \in 1 .. n
      BY <1>2
    <3>2. \A i \in 1 .. n : i # 0
      BY <1>2
    <3> QED
      BY <1>3, <3>1, <3>2, Zenon
  <2>3. [i \in 0 .. n |-> g[i]] = [i \in 0 .. n |-> IF i = 0 THEN 0 ELSE g[i - 1] * 10 + digits[i]]
    BY <2>2, Zenon
  <2> QED
    BY <2>1, <2>3, Zenon
<1>5. Reads1(v)
  <2> HIDE DEF Reads1
  <2> QED
    BY <1>1, <1>4
<1>6. \A i \in 0 .. n : v[i] = IF i = 0 THEN 0 ELSE v[i - 1] * 10 + digits[i]
  <2> TAKE i \in 0 .. n
  <2>1. v[i] = [j \in 0 .. n |-> IF j = 0 THEN 0 ELSE v[j - 1] * 10 + digits[j]][i]
    BY <1>5, Zenon
  <2> QED
    BY <2>1, Zenon
<1>7. v[0] = 0 /\ \A i \in 1 .. n : v[i] = v[i - 1] * 10 + digits[i]
  <2>1. 0 \in 0 .. n /\ \A i \in 1 .. n : i \in 0 .. n /\ i # 0
    BY <1>2
  <2> QED
    BY <1>6, <2>1, Zenon
<1>8. \A i \in 0 .. n : v[i] \in Nat
  <2> DEFINE U == {i \in 0 .. n : v[i] \in Nat}
  <2>1. 0 \in U
    BY <1>2, <1>7
  <2>2. ASSUME NEW i \in 1 .. n, i - 1 \in U PROVE i \in U
    <3>1. i \in 0 .. n /\ v[i - 1] \in Nat /\ digits[i] \in 0 .. 9
      BY <1>2, <2>2
    <3>2. v[i] = v[i - 1] * 10 + digits[i]
      BY <1>7
    <3>3. v[i] \in Nat
      BY <3>1, <3>2, NextNumber, Zenon
    <3> QED
      BY <3>1, <3>3
  <2> HIDE DEF U
  <2>3. 0 .. n \subseteq U
    BY <1>2, <2>1, <2>2, UpTo
  <2> QED
    BY <2>3 DEF U
<1> QED
  BY <1>7, <1>8 DEF v, n

(* Digits after those that are there, and the numbers that digits hold. *)
LEMMA SameValues ==
  ASSUME NEW s \in Seq(0 .. 9), NEW t \in Seq(0 .. 9), Len(s) <= Len(t),
         \A i \in 1 .. Len(s) : s[i] = t[i]
  PROVE  ValuesOf(t)[Len(s)] = ValuesOf(s)[Len(s)]
<1> DEFINE n == Len(s)
           v == ValuesOf(s)
           w == ValuesOf(t)
           U == {i \in 0 .. n : v[i] = w[i]}
<1>1. n \in Nat /\ \A i \in 1 .. n : i \in 1 .. Len(t)
  OBVIOUS
<1>2. v[0] = 0 /\ \A i \in 1 .. n : v[i] = v[i - 1] * 10 + s[i]
  BY ValuesAre
<1>3. w[0] = 0 /\ \A i \in 1 .. n : w[i] = w[i - 1] * 10 + t[i]
  BY <1>1, ValuesAre
<1> HIDE DEF v, w
<1>4. 0 \in U
  BY <1>1, <1>2, <1>3
<1>5. ASSUME NEW i \in 1 .. n, i - 1 \in U PROVE i \in U
  <2>1. v[i - 1] = w[i - 1] /\ i \in 0 .. n
    BY <1>1, <1>5
  <2>2. v[i] = v[i - 1] * 10 + s[i] /\ w[i] = w[i - 1] * 10 + t[i] /\ s[i] = t[i]
    BY <1>2, <1>3
  <2>3. v[i] = w[i]
    BY <2>1, <2>2, Zenon
  <2> QED
    BY <2>1, <2>3
<1> HIDE DEF U
<1>6. 0 .. n \subseteq U
  <2> HIDE DEF n
  <2> QED
    BY <1>1, <1>4, <1>5, UpTo
<1> QED
  BY <1>1, <1>6 DEF U, v, w

LEMMA StillLess ==
  ASSUME NEW a \in Nat, NEW b \in Nat, a < b, NEW c \in 0 .. 9
  PROVE  a * 10 + c < 10 * b
  OBVIOUS

LEMMA OtherDigits ==
  ASSUME NEW S, NEW d, d \in [sign : BOOLEAN, err : BOOLEAN, digits : S], NEW t
  PROVE  LET e == [d EXCEPT !.digits = t] IN
         /\ e.digits = t /\ e.sign = d.sign /\ e.err = d.err
         /\ e = [sign |-> d.sign, err |-> d.err, digits |-> t]
  OBVIOUS

(* What is copied are the first few blocks. *)
LEMMA InitialIs ==
  ASSUME NEW n \in Nat, NEW T, T \subseteq 1 .. n, \A i \in T : \A j \in 1 .. i : j \in T
  PROVE  Cardinality(T) \in 0 .. n /\ T = 1 .. Cardinality(T)
<1> DEFINE missing == (1 .. n + 1) \ T
<1>1. n + 1 \in missing /\ missing \subseteq Nat
  OBVIOUS
<1>2. PICK i \in missing : \A j \in missing : i <= j
  BY <1>1, Least
<1> DEFINE k == i - 1
<1>3. k \in 0 .. n /\ T = 1 .. k
  <2>1. i \in 1 .. n + 1 /\ i \notin T
    BY <1>2
  <2>2. ASSUME NEW j \in 1 .. k PROVE j \in T
    BY <1>2, <2>1
  <2>3. ASSUME NEW j \in T PROVE j \in 1 .. k
    <3>1. CASE j <= k
      BY <2>1, <3>1
    <3>2. CASE ~(j <= k)
      <4>1. j \in 1 .. n /\ i \in 1 .. j
        BY <2>1, <3>2
      <4> QED
        BY <2>1, <4>1
    <3> QED
      BY <3>1, <3>2
  <2>4. k \in 0 .. n
    BY <2>1
  <2> HIDE DEF k
  <2>5. T = 1 .. k
    BY <2>2, <2>3, Zenon
  <2> QED
    BY <2>4, <2>5
<1> HIDE DEF k
<1>4. Cardinality(1 .. k) = k
  <2>1. k \in Int /\ 1 \in Int
    BY <1>3
  <2>2. Cardinality(1 .. k) = IF 1 > k THEN 0 ELSE k - 1 + 1
    BY <2>1, FS_Interval
  <2> QED
    BY <1>3, <2>2
<1> QED
  BY <1>3, <1>4

------------------------------------------------------------------------------
(* Sequences: their fronts, ends and parts, and what appending to them     *)
(* changes.                                                                *)
LEMMA ShortPaths ==
  ASSUME NEW S, NEW a \in S, NEW b \in S
  PROVE  /\ <<a>> \in Seq(S) \ {<<>>} /\ Len(<<a>>) = 1 /\ <<a>>[1] = a
         /\ <<a, b>> \in Seq(S) \ {<<>>} /\ Len(<<a, b>>) = 2
         /\ <<a, b>>[1] = a /\ <<a, b>>[2] = b
  OBVIOUS

LEMMA PairIs ==
  ASSUME NEW S, NEW a \in S, NEW b \in S
  PROVE  LET s == <<a, b>> IN s \in Seq(S) /\ Len(s) = 2 /\ s[1] = a /\ s[2] = b
  OBVIOUS

LEMMA LongerPath ==
  ASSUME NEW S, NEW s \in Seq(S), NEW x \in S
  PROVE  /\ Append(s, x) \in Seq(S) \ {<<>>} /\ Len(Append(s, x)) = Len(s) + 1
         /\ \A i \in 1 .. Len(s) : Append(s, x)[i] = s[i]
         /\ Append(s, x)[Len(s) + 1] = x
  OBVIOUS

LEMMA FrontIs ==
  ASSUME NEW S, NEW s \in Seq(S), s # <<>>
  PROVE  /\ Len(s) \in Nat \ {0} /\ Last(s) = s[Len(s)] /\ Last(s) \in S
         /\ Front(s) \in Seq(S) /\ Len(Front(s)) = Len(s) - 1
         /\ \A i \in 1 .. Len(s) - 1 : Front(s)[i] = s[i]
<1>1. Len(s) \in Nat \ {0} /\ \A i \in 1 .. Len(s) : s[i] \in S
  OBVIOUS
<1>2. Last(s) = s[Len(s)] /\ Last(s) \in S
  BY <1>1 DEF Last
<1> DEFINE n == Len(s) - 1
<1>3. n \in Int /\ n >= 0 /\ \A i \in 1 .. n : s[i] \in S
  BY <1>1
<1>4. Front(s) = SubSeq(s, 1, n)
  BY DEF Front
<1> HIDE DEF n
<1>5. /\ Front(s) \in Seq(S) /\ Len(Front(s)) = (IF 1 <= n THEN n - 1 + 1 ELSE 0)
      /\ \A i \in 1 .. n - 1 + 1 : Front(s)[i] = s[1 + i - 1]
  BY <1>3, <1>4, SubSeqProperties
<1>6. \A i \in 1 .. n : i \in 1 .. n - 1 + 1 /\ 1 + i - 1 = i
  BY <1>3
<1>7. /\ Front(s) \in Seq(S) /\ Len(Front(s)) = n
      /\ \A i \in 1 .. n : Front(s)[i] = s[i]
  BY <1>3, <1>5, <1>6
<1> QED
  BY <1>1, <1>2, <1>7 DEF n

LEMMA FrontAppend ==
  ASSUME NEW S, NEW s \in Seq(S), NEW x \in S
  PROVE  Append(s, x) # <<>> /\ Front(Append(s, x)) = s
<1> DEFINE t == Append(s, x)
<1>1. /\ t \in Seq(S) /\ t # <<>> /\ Len(t) = Len(s) + 1
      /\ \A i \in 1 .. Len(s) : t[i] = s[i]
  BY AppendProperties
<1> HIDE DEF t
<1>2. /\ Front(t) \in Seq(S) /\ Len(Front(t)) = Len(t) - 1
      /\ \A i \in 1 .. Len(t) - 1 : Front(t)[i] = t[i]
  BY <1>1, FrontIs
<1>3. Len(s) \in Nat
  OBVIOUS
<1>4. Len(Front(t)) = Len(s) /\ \A i \in 1 .. Len(Front(t)) : Front(t)[i] = s[i]
  BY <1>1, <1>2, <1>3
<1>5. Front(t) = s
  BY <1>2, <1>4, SeqEqual
<1> QED
  BY <1>1, <1>5 DEF t

LEMMA AppendSame ==
  ASSUME NEW s \in Seq(STRING), NEW e \in STRING, NEW t \in Seq(STRING), NEW f \in STRING,
         Append(s, e) = Append(t, f)
  PROVE  s = t /\ e = f
<1> DEFINE a == Append(s, e)
           b == Append(t, f)
<1>1. Front(a) = s /\ Front(b) = t /\ a = b
  BY FrontAppend
<1>2. s = t
  BY <1>1
<1>3. a[Len(s) + 1] = e /\ b[Len(t) + 1] = f
  BY AppendProperties
<1> HIDE DEF a, b
<1> QED
  BY <1>1, <1>2, <1>3

LEMMA JoinedIs ==
  ASSUME NEW T, NEW s \in Seq(T), NEW t \in Seq(T), NEW u \in Seq(T), Len(u) = Len(s) + Len(t),
         \A i \in 1 .. Len(u) : u[i] = IF i <= Len(s) THEN s[i] ELSE t[i - Len(s)]
  PROVE  s \o t = u
<1>1. /\ s \o t \in Seq(T) /\ Len(s \o t) = Len(s) + Len(t)
      /\ \A i \in 1 .. Len(s) + Len(t) :
           (s \o t)[i] = IF i <= Len(s) THEN s[i] ELSE t[i - Len(s)]
  BY ConcatProperties
<1> QED
  BY <1>1, SeqEqual

LEMMA TwoAndThree ==
  ASSUME NEW a, NEW b, NEW c, NEW d, NEW e
  PROVE  <<a, b>> \o <<c, d, e>> = <<a, b, c, d, e>>
<1> DEFINE T == {a, b, c, d, e}
           s == <<a, b>>
           t == <<c, d, e>>
           u == <<a, b, c, d, e>>
<1>1. s \in Seq(T) /\ t \in Seq(T) /\ u \in Seq(T)
  OBVIOUS
<1>2. Len(s) = 2 /\ Len(t) = 3 /\ Len(u) = 5
  OBVIOUS
<1>3. \A i \in 1 .. 5 : u[i] = IF i <= 2 THEN s[i] ELSE t[i - 2]
  OBVIOUS
<1> HIDE DEF T, s, t, u
<1>4. /\ Len(u) = Len(s) + Len(t)
      /\ \A i \in 1 .. Len(u) : u[i] = IF i <= Len(s) THEN s[i] ELSE t[i - Len(s)]
  BY <1>2, <1>3
<1>5. s \o t = u
  BY <1>1, <1>4, JoinedIs
<1> QED
  BY <1>5 DEF s, t, u

LEMMA OneAndThree ==
  ASSUME NEW a, NEW c, NEW d, NEW e
  PROVE  <<a>> \o <<c, d, e>> = <<a, c, d, e>>
<1> DEFINE T == {a, c, d, e}
           s == <<a>>
           t == <<c, d, e>>
           u == <<a, c, d, e>>
<1>1. s \in Seq(T) /\ t \in Seq(T) /\ u \in Seq(T)
  OBVIOUS
<1>2. Len(s) = 1 /\ Len(t) = 3 /\ Len(u) = 4
  OBVIOUS
<1>3. \A i \in 1 .. 4 : u[i] = IF i <= 1 THEN s[i] ELSE t[i - 1]
  OBVIOUS
<1> HIDE DEF T, s, t, u
<1>4. /\ Len(u) = Len(s) + Len(t)
      /\ \A i \in 1 .. Len(u) : u[i] = IF i <= Len(s) THEN s[i] ELSE t[i - Len(s)]
  BY <1>2, <1>3
<1>5. s \o t = u
  BY <1>1, <1>4, JoinedIs
<1> QED
  BY <1>5 DEF s, t, u

LEMMA TwoAndOne ==
  ASSUME NEW a, NEW b, NEW c
  PROVE  <<a, b>> \o <<c>> = <<a, b, c>>
<1> DEFINE T == {a, b, c}
           s == <<a, b>>
           t == <<c>>
           u == <<a, b, c>>
<1>1. s \in Seq(T) /\ t \in Seq(T) /\ u \in Seq(T)
  OBVIOUS
<1>2. Len(s) = 2 /\ Len(t) = 1 /\ Len(u) = 3
  OBVIOUS
<1>3. \A i \in 1 .. 3 : u[i] = IF i <= 2 THEN s[i] ELSE t[i - 2]
  OBVIOUS
<1> HIDE DEF T, s, t, u
<1>4. /\ Len(u) = Len(s) + Len(t)
      /\ \A i \in 1 .. Len(u) : u[i] = IF i <= Len(s) THEN s[i] ELSE t[i - Len(s)]
  BY <1>2, <1>3
<1>5. s \o t = u
  BY <1>1, <1>4, JoinedIs
<1> QED
  BY <1>5 DEF s, t, u

LEMMA OneAndOne ==
  ASSUME NEW a, NEW c
  PROVE  <<a>> \o <<c>> = <<a, c>>
<1> DEFINE T == {a, c}
           s == <<a>>
           t == <<c>>
           u == <<a, c>>
<1>1. s \in Seq(T) /\ t \in Seq(T) /\ u \in Seq(T)
  OBVIOUS
<1>2. Len(s) = 1 /\ Len(t) = 1 /\ Len(u) = 2
  OBVIOUS
<1>3. \A i \in 1 .. 2 : u[i] = IF i <= 1 THEN s[i] ELSE t[i - 1]
  OBVIOUS
<1> HIDE DEF T, s, t, u
<1>4. /\ Len(u) = Len(s) + Len(t)
      /\ \A i \in 1 .. Len(u) : u[i] = IF i <= Len(s) THEN s[i] ELSE t[i - Len(s)]
  BY <1>2, <1>3
<1>5. s \o t = u
  BY <1>1, <1>4, JoinedIs
<1> QED
  BY <1>5 DEF s, t, u

(* The text of text mode, and what its handlers have still to do: short    *)
(* sequences, taken apart and put together.                                *)
LEMMA HeadTail ==
  ASSUME NEW T, NEW a \in T, NEW b \in T, NEW c \in T, NEW d \in T, NEW e \in T
  PROVE  /\ Head(<<a>>) = a /\ Tail(<<a>>) = <<>> /\ <<a>> # <<>>
         /\ Head(<<a, b>>) = a /\ Tail(<<a, b>>) = <<b>> /\ <<a, b>> # <<>>
         /\ Head(<<a, b, c>>) = a /\ Tail(<<a, b, c>>) = <<b, c>> /\ <<a, b, c>> # <<>>
         /\ Head(<<a, b, c, d>>) = a /\ Tail(<<a, b, c, d>>) = <<b, c, d>>
         /\ Head(<<a, b, c, d, e>>) = a /\ Tail(<<a, b, c, d, e>>) = <<b, c, d, e>>
         /\ <<a, b, c, d>> # <<>> /\ <<a, b, c, d, e>> # <<>>
<1>1. Head(<<a>>) = a /\ Head(<<a, b>>) = a /\ Head(<<a, b, c>>) = a
  OBVIOUS
<1>2. Head(<<a, b, c, d>>) = a /\ Head(<<a, b, c, d, e>>) = a
  OBVIOUS
<1>3. Tail(<<a>>) = <<>>
  OBVIOUS
<1>4. Tail(<<a, b>>) = <<b>>
  OBVIOUS
<1>5. Tail(<<a, b, c>>) = <<b, c>>
  OBVIOUS
<1>6. Tail(<<a, b, c, d>>) = <<b, c, d>>
  OBVIOUS
<1>7. Tail(<<a, b, c, d, e>>) = <<b, c, d, e>>
  OBVIOUS
<1>8. <<a>> # <<>> /\ <<a, b>> # <<>> /\ <<a, b, c>> # <<>> /\ <<a, b, c, d>> # <<>>
      /\ <<a, b, c, d, e>> # <<>>
  OBVIOUS
<1> QED
  BY <1>1, <1>2, <1>3, <1>4, <1>5, <1>6, <1>7, <1>8

(* The segments between the first and the last. *)
LEMMA Inside ==
  ASSUME NEW path \in Seq(STRING)
  PROVE  \A j \in 2 .. Len(path) - 1 : path[j] \in Range(SubSeq(path, 2, Len(path) - 1))
<1> DEFINE n == Len(path)
           s == SubSeq(path, 2, n - 1)
<1>1. n \in Nat /\ \A i \in 1 .. n : path[i] \in STRING
  OBVIOUS
<1> HIDE DEF n
<1>2. 2 \in Int /\ n - 1 \in Int /\ \A i \in 2 .. n - 1 : i \in 1 .. n
  BY <1>1
<1>3. /\ s \in Seq(STRING)
      /\ Len(s) = (IF 2 <= n - 1 THEN (n - 1) - 2 + 1 ELSE 0)
      /\ \A j \in 1 .. (n - 1) - 2 + 1 : s[j] = path[2 + j - 1]
  BY <1>1, <1>2, SubSeqProperties
<1> HIDE DEF s
<1>4. ASSUME NEW j \in 2 .. n - 1 PROVE path[j] \in Range(s)
  <2>1. j - 1 \in 1 .. (n - 1) - 2 + 1 /\ 2 + (j - 1) - 1 = j /\ 2 <= n - 1
    BY <1>1
  <2>2. s[j - 1] = path[j]
    BY <1>3, <2>1
  <2>3. j - 1 \in DOMAIN s
    BY <1>3, <2>1
  <2> QED
    BY <2>2, <2>3 DEF Range
<1> QED
  BY <1>4 DEF s, n

(* One sequence begins like another. *)
LEMMA BeginsLike ==
  ASSUME NEW S, NEW s \in Seq(S), NEW t \in Seq(S), Len(s) <= Len(t),
         \A p \in 1 .. Len(s) : s[p] = t[p]
  PROVE  IsPrefix(s, t)
<1> DEFINE n == Len(s)
           u == SubSeq(s, 1, n)
           v == SubSeq(t, 1, n)
<1>1. n \in Nat /\ Len(t) \in Nat /\ n <= Len(t)
  OBVIOUS
<1>2. \A p \in 1 .. n : s[p] \in S /\ t[p] \in S
  BY <1>1
<1> HIDE DEF n
<1>3. 1 \in Int /\ n \in Int
  BY <1>1
<1>4. /\ u \in Seq(S) /\ Len(u) = (IF 1 <= n THEN n - 1 + 1 ELSE 0)
      /\ \A p \in 1 .. n - 1 + 1 : u[p] = s[1 + p - 1]
  BY <1>2, <1>3, SubSeqProperties
<1>5. /\ v \in Seq(S) /\ Len(v) = (IF 1 <= n THEN n - 1 + 1 ELSE 0)
      /\ \A p \in 1 .. n - 1 + 1 : v[p] = t[1 + p - 1]
  BY <1>2, <1>3, SubSeqProperties
<1> HIDE DEF u, v
<1>6. \A p \in 1 .. n : p \in 1 .. n - 1 + 1 /\ 1 + p - 1 = p
  BY <1>1
<1>7. Len(u) = n /\ Len(v) = n /\ \A p \in 1 .. n : u[p] = v[p]
  <2>1. \A p \in 1 .. n : s[p] = t[p]
    BY DEF n
  <2> QED
    BY <1>1, <1>4, <1>5, <1>6, <2>1
<1>8. u = v
  BY <1>4, <1>5, <1>7, SeqEqual
<1> QED
  BY <1>1, <1>8 DEF IsPrefix, u, v, n

(* Sequence s is the end of sequence t. *)
Ends(s, t) ==
  /\ Len(s) <= Len(t)
  /\ \A i \in 1 .. Len(s) : t[Len(t) - Len(s) + i] = s[i]

LEMMA EndsAppend ==
  ASSUME NEW T, NEW s \in Seq(T), NEW t \in Seq(T), NEW c \in T, Ends(s, t)
  PROVE  Ends(Append(s, c), Append(t, c))
<1> DEFINE u == Append(s, c)
           v == Append(t, c)
<1>1. /\ Len(s) \in Nat /\ Len(t) \in Nat /\ Len(s) <= Len(t)
      /\ \A i \in 1 .. Len(s) : t[Len(t) - Len(s) + i] = s[i]
  BY DEF Ends
<1>2. /\ Len(u) = Len(s) + 1 /\ u[Len(s) + 1] = c /\ \A i \in 1 .. Len(s) : u[i] = s[i]
  BY AppendProperties
<1>3. /\ Len(v) = Len(t) + 1 /\ v[Len(t) + 1] = c /\ \A i \in 1 .. Len(t) : v[i] = t[i]
  BY AppendProperties
<1> HIDE DEF u, v
<1>4. ASSUME NEW i \in 1 .. Len(u) PROVE v[Len(v) - Len(u) + i] = u[i]
  <2>1. CASE i = Len(s) + 1
    BY <1>1, <1>2, <1>3, <2>1
  <2>2. CASE i \in 1 .. Len(s)
    <3>1. /\ Len(v) - Len(u) + i = Len(t) - Len(s) + i
          /\ Len(t) - Len(s) + i \in 1 .. Len(t)
      BY <1>1, <1>2, <1>3, <2>2
    <3> QED
      BY <1>1, <1>2, <1>3, <2>2, <3>1
  <2> QED
    BY <1>1, <1>2, <2>1, <2>2
<1>5. Ends(u, v)
  BY <1>1, <1>2, <1>3, <1>4 DEF Ends
<1> QED
  BY <1>5 DEF u, v

LEMMA EndsFront ==
  ASSUME NEW T, NEW s \in Seq(T), NEW t \in Seq(T), s # <<>>, Ends(s, t)
  PROVE  t # <<>> /\ Ends(Front(s), Front(t))
<1> DEFINE u == Front(s)
           v == Front(t)
<1>1. /\ Len(s) \in Nat /\ Len(t) \in Nat /\ Len(s) <= Len(t) /\ Len(s) >= 1
      /\ \A i \in 1 .. Len(s) : t[Len(t) - Len(s) + i] = s[i]
  BY EmptySeq DEF Ends
<1>2. /\ Len(u) = Len(s) - 1 /\ \A i \in 1 .. Len(s) - 1 : u[i] = s[i]
  BY <1>1, FrontIs
<1>3. t # <<>>
  BY <1>1
<1>4. /\ Len(v) = Len(t) - 1 /\ \A i \in 1 .. Len(t) - 1 : v[i] = t[i]
  BY <1>3, FrontIs
<1> HIDE DEF u, v
<1>5. ASSUME NEW i \in 1 .. Len(u) PROVE v[Len(v) - Len(u) + i] = u[i]
  <2>1. /\ i \in 1 .. Len(s) - 1 /\ Len(v) - Len(u) + i = Len(t) - Len(s) + i
        /\ Len(t) - Len(s) + i \in 1 .. Len(t) - 1
    BY <1>1, <1>2, <1>4
  <2>2. i \in 1 .. Len(s)
    BY <1>1, <2>1
  <2> QED
    BY <1>1, <1>2, <1>4, <2>1, <2>2
<1>6. Ends(u, v)
  BY <1>1, <1>2, <1>4, <1>5 DEF Ends
<1> QED
  BY <1>3, <1>6 DEF u, v

LEMMA EndsOne ==
  ASSUME NEW T, NEW t \in Seq(T), NEW c \in T
  PROVE  Ends(<<c>>, Append(t, c))
<1> DEFINE v == Append(t, c)
<1>1. Len(v) = Len(t) + 1 /\ v[Len(t) + 1] = c /\ Len(t) \in Nat
  BY AppendProperties
<1>2. Len(<<c>>) = 1 /\ <<c>>[1] = c
  OBVIOUS
<1> HIDE DEF v
<1>3. ASSUME NEW i \in 1 .. 1 PROVE v[Len(v) - 1 + i] = <<c>>[i]
  BY <1>1, <1>2
<1>4. 1 <= Len(v)
  BY <1>1
<1> QED
  BY <1>2, <1>3, <1>4 DEF Ends, v

(* A character in front does not mind what happens at the end. *)
LEMMA FirstStays ==
  ASSUME NEW T, NEW p \in T, NEW s \in Seq(T), NEW c \in T
  PROVE  /\ <<p>> \o s \in Seq(T) /\ <<p>> \o s # <<>>
         /\ <<p>> \o Append(s, c) = Append(<<p>> \o s, c)
         /\ s # <<>> => <<p>> \o Front(s) = Front(<<p>> \o s)
         /\ <<p>> \o <<>> = <<p>>
<1>1. <<p>> \in Seq(T) /\ Len(<<p>>) = 1
  OBVIOUS
<1>2. <<p>> \o s \in Seq(T) /\ Len(<<p>> \o s) = 1 + Len(s) /\ Len(s) \in Nat
  BY <1>1, ConcatProperties
<1>3. \A i \in 1 .. 1 + Len(s) : (<<p>> \o s)[i] = IF i <= 1 THEN <<p>>[i] ELSE s[i - 1]
  BY <1>1, ConcatProperties
<1>4. <<p>> \o Append(s, c) = Append(<<p>> \o s, c)
  <2>1. /\ Append(s, c) \in Seq(T) /\ Len(Append(s, c)) = Len(s) + 1
        /\ Append(s, c)[Len(s) + 1] = c /\ \A i \in 1 .. Len(s) : Append(s, c)[i] = s[i]
    BY AppendProperties
  <2> DEFINE a == Append(s, c)
             u == <<p>> \o a
             w == <<p>> \o s
             v == Append(w, c)
  <2>2. /\ u \in Seq(T) /\ Len(u) = 1 + Len(a)
        /\ \A i \in 1 .. 1 + Len(a) : u[i] = IF i <= 1 THEN <<p>>[i] ELSE a[i - 1]
    BY <1>1, <2>1, ConcatProperties
  <2>3. /\ v \in Seq(T) /\ Len(v) = Len(w) + 1 /\ v[Len(w) + 1] = c
        /\ \A i \in 1 .. Len(w) : v[i] = w[i]
    BY <1>2, AppendProperties
  <2>4. Len(a) = Len(s) + 1 /\ a[Len(s) + 1] = c /\ \A i \in 1 .. Len(s) : a[i] = s[i]
    BY <2>1
  <2>5. Len(w) = 1 + Len(s)
        /\ \A i \in 1 .. 1 + Len(s) : w[i] = IF i <= 1 THEN <<p>>[i] ELSE s[i - 1]
    BY <1>2, <1>3
  <2> HIDE DEF a, u, w, v
  <2>6. ASSUME NEW i \in 1 .. Len(u) PROVE u[i] = v[i]
    <3>1. CASE i = 1
      BY <1>2, <2>2, <2>3, <2>4, <2>5, <3>1
    <3>2. CASE i \in 2 .. 1 + Len(s)
      <4>1. i - 1 \in 1 .. Len(s) /\ i \in 1 .. Len(w) /\ i \in 1 .. 1 + Len(a) /\ ~(i <= 1)
        BY <1>2, <2>4, <2>5, <3>2
      <4> QED
        BY <2>2, <2>3, <2>4, <2>5, <4>1
    <3>3. CASE i = Len(s) + 2
      BY <1>2, <2>2, <2>3, <2>4, <2>5, <3>3
    <3> QED
      BY <1>2, <2>2, <2>4, <3>1, <3>2, <3>3
  <2>7. Len(u) = Len(v)
    BY <1>2, <2>2, <2>3, <2>4, <2>5
  <2>8. u = v
    BY <2>2, <2>3, <2>6, <2>7, SeqEqual
  <2> QED
    BY <2>8 DEF u, v, w, a
<1>5. ASSUME s # <<>> PROVE <<p>> \o Front(s) = Front(<<p>> \o s)
  <2> DEFINE f == Front(s)
             u == <<p>> \o f
             w == <<p>> \o s
             v == Front(w)
  <2>1. /\ Len(s) >= 1 /\ f \in Seq(T) /\ Len(f) = Len(s) - 1
        /\ \A i \in 1 .. Len(s) - 1 : f[i] = s[i]
    BY <1>2, <1>5, EmptySeq, FrontIs
  <2>2. /\ u \in Seq(T) /\ Len(u) = 1 + Len(f)
        /\ \A i \in 1 .. 1 + Len(f) : u[i] = IF i <= 1 THEN <<p>>[i] ELSE f[i - 1]
    BY <1>1, <2>1, ConcatProperties
  <2>3. w \in Seq(T) /\ w # <<>> /\ Len(w) = 1 + Len(s)
        /\ \A i \in 1 .. 1 + Len(s) : w[i] = IF i <= 1 THEN <<p>>[i] ELSE s[i - 1]
    BY <1>2, <1>3
  <2>4. v \in Seq(T) /\ Len(v) = Len(w) - 1 /\ \A i \in 1 .. Len(w) - 1 : v[i] = w[i]
    BY <2>3, FrontIs
  <2> HIDE DEF f, u, w, v
  <2>5. ASSUME NEW i \in 1 .. Len(u) PROVE u[i] = v[i]
    <3>1. /\ i \in 1 .. Len(s) /\ i \in 1 .. 1 + Len(f)
          /\ i \in 1 .. Len(w) - 1 /\ i \in 1 .. 1 + Len(s)
      BY <1>2, <2>1, <2>2, <2>3
    <3>2. CASE i = 1
      BY <2>2, <2>3, <2>4, <3>1, <3>2
    <3>3. CASE i \in 2 .. Len(s)
      <4>1. i - 1 \in 1 .. Len(s) - 1 /\ ~(i <= 1)
        BY <1>2, <3>3
      <4> QED
        BY <2>1, <2>2, <2>3, <2>4, <3>1, <4>1
    <3> QED
      BY <1>2, <3>1, <3>2, <3>3
  <2>6. Len(u) = Len(v)
    BY <1>2, <2>1, <2>2, <2>3, <2>4
  <2>7. u = v
    BY <2>2, <2>4, <2>5, <2>6, SeqEqual
  <2> QED
    BY <2>7 DEF u, v, w, f
<1>6. <<p>> \o <<>> = <<p>>
  BY <1>1, ConcatEmptySeq
<1> QED
  BY <1>2, <1>4, <1>5, <1>6

(* The part of a text that a longer one has as well. *)
LEMMA PartOfLonger ==
  ASSUME NEW S, NEW text \in Seq(S), NEW c \in S, NEW a \in Nat, NEW b \in Nat,
         a >= 1, b <= Len(text)
  PROVE  SubSeq(Append(text, c), a, b) = SubSeq(text, a, b)
<1> DEFINE longer == Append(text, c)
           n == Len(text)
           u == SubSeq(longer, a, b)
           v == SubSeq(text, a, b)
           len == IF a <= b THEN b - a + 1 ELSE 0
<1>1. /\ n \in Nat
      /\ \A i \in 1 .. n : longer[i] = text[i] /\ text[i] \in S
  BY AppendProperties, LenProperties, ElementOfSeq
<1>2. b <= n
  OBVIOUS
<1> HIDE DEF n, longer
<1>3. \A i \in a .. b : i \in 1 .. n
  BY <1>1, <1>2
<1>4. \A i \in a .. b : longer[i] = text[i] /\ text[i] \in S /\ longer[i] \in S
  BY <1>1, <1>3
<1>5. /\ u \in Seq(S) /\ Len(u) = len
      /\ \A i \in 1 .. b - a + 1 : u[i] = longer[a + i - 1]
  BY <1>4, SubSeqProperties
<1>6. /\ v \in Seq(S) /\ Len(v) = len
      /\ \A i \in 1 .. b - a + 1 : v[i] = text[a + i - 1]
  BY <1>4, SubSeqProperties
<1>7. \A i \in 1 .. len : i \in 1 .. b - a + 1 /\ a + i - 1 \in a .. b
  OBVIOUS
<1> HIDE DEF len, u, v
<1>8. \A i \in 1 .. len : u[i] = v[i]
  BY <1>4, <1>5, <1>6, <1>7
<1>9. u = v
  BY <1>5, <1>6, <1>8, SeqEqual
<1> QED
  BY <1>9 DEF u, v, longer

(* How files are read.  Sequences put behind each other. *)
FlatFrom(seqs) ==
  CHOOSE f : f = [i \in 1 .. Len(seqs) |-> IF i = 1 THEN seqs[i] ELSE f[i - 1] \o seqs[i]]

LEMMA FlatIs ==
  ASSUME NEW S, NEW seqs \in Seq(Seq(S)), seqs # <<>>
  PROVE  LET f == FlatFrom(seqs) IN
         /\ FlattenSeq(seqs) = f[Len(seqs)]
         /\ f[1] = seqs[1]
         /\ \A i \in 2 .. Len(seqs) : f[i] = f[i - 1] \o seqs[i]
         /\ \A i \in 1 .. Len(seqs) : f[i] \in Seq(S)
<1> DEFINE n == Len(seqs)
           N == Seq(S)
           Flats(f) == f = [i \in 1 .. n |-> IF i = 1 THEN seqs[i] ELSE f[i - 1] \o seqs[i]]
           f == FlatFrom(seqs)
<1>1. n \in Nat \ {0} /\ \A i \in 1 .. n : seqs[i] \in N
  OBVIOUS
<1>2. FlattenSeq(seqs) = f[n]
  <2>1. n # 0
    BY <1>1
  <2> QED
    BY <2>1, Zenon DEF FlattenSeq, FlatFrom
<1>3. f = CHOOSE g : Flats(g)
  BY DEF FlatFrom
<1> HIDE DEF n, f
<1>4. PICK g \in [0 .. n -> N] : g[0] = <<>> /\ \A i \in 1 .. n : g[i] = g[i - 1] \o seqs[i]
  <2> DEFINE step == [i \in 1 .. n |-> [x \in N |-> x \o seqs[i]]]
  <2>1. \A i \in 1 .. n, x \in N : x \o seqs[i] \in N
    BY <1>1, ConcatProperties
  <2>2. step \in Steps(n, N) /\ \A i \in 1 .. n, x \in N : step[i][x] = x \o seqs[i]
    <3> HIDE DEF N
    <3> QED
      BY <2>1 DEF Steps
  <2>3. <<>> \in N
    OBVIOUS
  <2> HIDE DEF step, N
  <2>4. PICK g : Follows(g, n, N, <<>>, step)
    BY <1>1, <2>2, <2>3, Iterated, Zenon
  <2>5. g \in [0 .. n -> N] /\ g[0] = <<>> /\ \A i \in 1 .. n : g[i] = step[i][g[i - 1]]
    BY <2>4, Zenon DEF Follows
  <2>6. \A i \in 1 .. n : g[i - 1] \in N
    BY <1>1, <2>5
  <2>9. ASSUME NEW i \in 1 .. n PROVE g[i] = g[i - 1] \o seqs[i]
    BY <2>2, <2>5, <2>6, Zenon
  <2> QED
    BY <2>5, <2>9, Zenon
<1> DEFINE h == [i \in 1 .. n |-> g[i]]
<1>5. h[1] = seqs[1] /\ \A i \in 1 .. n : i # 1 => h[i] = h[i - 1] \o seqs[i]
  <2>1. <<>> \o seqs[1] = seqs[1]
    BY <1>1, ConcatEmptySeq
  <2>2. 1 \in 1 .. n /\ \A i \in 1 .. n : i # 1 => i - 1 \in 1 .. n
    BY <1>1
  <2>3. \A i \in 1 .. n : h[i] = g[i]
    OBVIOUS
  <2> HIDE DEF h, N
  <2>4. g[1] = g[0] \o seqs[1]
    <3>1. 1 - 1 = 0
      OBVIOUS
    <3> QED
      BY <1>4, <2>2, <3>1
  <2> QED
    BY <1>4, <2>1, <2>2, <2>3, <2>4
<1>6. Flats(h)
  <2> HIDE DEF N
  <2>1. \A i \in 1 .. n : h[i] = IF i = 1 THEN seqs[i] ELSE h[i - 1] \o seqs[i]
    BY <1>5, Zenon
  <2>2. h = [i \in 1 .. n |-> h[i]]
    OBVIOUS
  <2> HIDE DEF h
  <2>3. [i \in 1 .. n |-> h[i]] = [i \in 1 .. n |-> IF i = 1 THEN seqs[i] ELSE h[i - 1] \o seqs[i]]
    BY <2>1, Zenon
  <2> QED
    BY <2>2, <2>3, Zenon
<1>7. Flats(f)
  <2> HIDE DEF Flats
  <2> QED
    BY <1>3, <1>6
<1>8. \A i \in 1 .. n : f[i] = IF i = 1 THEN seqs[i] ELSE f[i - 1] \o seqs[i]
  <2> TAKE i \in 1 .. n
  <2>1. f[i] = [j \in 1 .. n |-> IF j = 1 THEN seqs[j] ELSE f[j - 1] \o seqs[j]][i]
    BY <1>7, Zenon
  <2> QED
    BY <2>1, Zenon
<1>9. f[1] = seqs[1] /\ \A i \in 2 .. n : f[i] = f[i - 1] \o seqs[i]
  <2>1. 1 \in 1 .. n /\ \A i \in 2 .. n : i \in 1 .. n /\ i # 1
    BY <1>1
  <2> QED
    BY <1>8, <2>1
<1>10. \A i \in 1 .. n : f[i] \in N
  <2> DEFINE U == {i \in 0 .. n : i = 0 \/ f[i] \in N}
  <2>1. 0 \in U
    BY <1>1
  <2>2. ASSUME NEW i \in 1 .. n, i - 1 \in U PROVE i \in U
    <3>1. i \in 0 .. n /\ (i = 1 \/ (i \in 2 .. n /\ f[i - 1] \in N))
      BY <1>1, <2>2
    <3>2. CASE i = 1
      <4>1. f[i] \in N
        BY <1>1, <1>9, <3>2
      <4> QED
        BY <3>1, <4>1
    <3>3. CASE i \in 2 .. n /\ f[i - 1] \in N
      <4>1. f[i] = f[i - 1] \o seqs[i] /\ seqs[i] \in N
        BY <1>1, <1>9, <3>3
      <4>2. f[i] \in N
        BY <3>3, <4>1, ConcatProperties
      <4> QED
        BY <3>1, <4>2
    <3> QED
      BY <3>1, <3>2, <3>3
  <2> HIDE DEF U
  <2>3. 0 .. n \subseteq U
    BY <1>1, <2>1, <2>2, UpTo
  <2>4. \A i \in 1 .. n : i \in 0 .. n /\ i # 0
    BY <1>1
  <2> QED
    BY <2>3, <2>4 DEF U
<1> QED
  BY <1>2, <1>9, <1>10 DEF n, f

(* Blocks of one size, of which the last may be shorter, put behind each   *)
(* other: each byte is where its block begins.                             *)
BlocksOf(S, size, seqs) ==
  /\ seqs \in Seq(Seq(S)) /\ seqs # <<>> /\ size \in Nat
  /\ \A i \in 1 .. Len(seqs) - 1 : Len(seqs[i]) = size

PlacedIn(size, seqs, flat) ==
  /\ Len(flat) = (Len(seqs) - 1) * size + Len(seqs[Len(seqs)])
  /\ \A m \in 1 .. Len(seqs) : \A j \in 1 .. Len(seqs[m]) :
       flat[(m - 1) * size + j] = seqs[m][j]

LEMMA FlatBlocks ==
  ASSUME NEW S, NEW size, NEW seqs, BlocksOf(S, size, seqs)
  PROVE  FlattenSeq(seqs) \in Seq(S) /\ PlacedIn(size, seqs, FlattenSeq(seqs))
<1> DEFINE n == Len(seqs)
           f == FlatFrom(seqs)
           Good(i) == /\ Len(f[i]) = (i - 1) * size + Len(seqs[i])
                      /\ \A m \in 1 .. i : \A j \in 1 .. Len(seqs[m]) :
                           f[i][(m - 1) * size + j] = seqs[m][j]
           T == {i \in 0 .. n : i = 0 \/ Good(i)}
<1>9. /\ seqs \in Seq(Seq(S)) /\ seqs # <<>>
      /\ \A i \in 1 .. Len(seqs) - 1 : Len(seqs[i]) = size
  BY DEF BlocksOf
<1>1. /\ FlattenSeq(seqs) = f[n] /\ f[1] = seqs[1]
      /\ \A i \in 2 .. n : f[i] = f[i - 1] \o seqs[i]
      /\ \A i \in 1 .. n : f[i] \in Seq(S)
  BY <1>9, FlatIs
<1>0. size \in Nat
  BY DEF BlocksOf
<1>2. /\ n \in Nat \ {0} /\ \A i \in 1 .. n : seqs[i] \in Seq(S) /\ Len(seqs[i]) \in Nat
      /\ \A i \in 1 .. n - 1 : Len(seqs[i]) = size
  BY <1>9
<1> HIDE DEF n, f
<1>3. 0 \in T
  BY <1>2
<1>4. ASSUME NEW i \in 1 .. n, i - 1 \in T PROVE i \in T
  <2>1. i \in 0 .. n /\ (i = 1 \/ (i \in 2 .. n /\ Good(i - 1)))
    <3> HIDE DEF Good
    <3>1. i - 1 = 0 \/ Good(i - 1)
      BY <1>4
    <3> QED
      BY <1>2, <3>1
  <2>2. CASE i = 1
    <3>1. \A m \in 1 .. 1 : m = 1 /\ m - 1 = 0
      OBVIOUS
    <3>2. 0 * size = 0 /\ \A j \in Nat : 0 + j = j
      BY <1>0
    <3>3. 1 \in 1 .. n
      BY <1>2
    <3>4. \A j \in 1 .. Len(seqs[1]) : f[1][0 * size + j] = seqs[1][j]
      BY <1>1, <3>2
    <3>5. Len(f[1]) = (1 - 1) * size + Len(seqs[1])
      <4>1. Len(seqs[1]) \in Nat /\ (1 - 1) * size = 0
        BY <1>2, <3>2, <3>3
      <4>2. f[1] = seqs[1]
        BY <1>1
      <4> DEFINE z == (1 - 1) * size
      <4>3. z = 0
        BY <4>1
      <4> HIDE DEF z
      <4>4. Len(f[1]) = z + Len(seqs[1])
        BY <4>1, <4>2, <4>3
      <4> QED
        BY <4>4 DEF z
    <3>6. Good(1)
      BY <3>1, <3>4, <3>5
    <3> QED
      BY <2>1, <2>2, <3>6
  <2>3. CASE i \in 2 .. n /\ Good(i - 1)
    <3> DEFINE k == i - 1
               p == f[k]
               q == seqs[i]
    <3>1. k \in 1 .. n - 1 /\ k \in 1 .. n /\ k \in Nat \ {0} /\ i = k + 1 /\ i \in 1 .. n
      BY <1>2, <2>3
    <3>0. Good(k)
      BY <2>3
    <3> HIDE DEF k, Good
    <3>2. /\ f[i] = p \o q /\ p \in Seq(S) /\ q \in Seq(S) /\ Len(p) \in Nat /\ Len(q) \in Nat
      <4>0. i \in 2 .. n /\ i - 1 = k
        BY <2>3, <3>1
      <4>1. f[i] = f[k] \o seqs[i]
        BY <1>1, <4>0
      <4>2. f[k] \in Seq(S) /\ seqs[i] \in Seq(S)
        BY <1>1, <1>2, <3>1
      <4> QED
        BY <4>1, <4>2, LenProperties
    <3>3. Len(seqs[k]) = size /\ k * size = (k - 1) * size + size
      BY <1>2, <3>1, TimesLess
    <3>4. Len(p) = k * size
      BY <3>0, <3>3 DEF Good
    <3>5. /\ Len(f[i]) = Len(p) + Len(q)
          /\ \A j \in 1 .. Len(p) : f[i][j] = p[j]
          /\ \A j \in 1 .. Len(q) : f[i][Len(p) + j] = q[j]
      <4> HIDE DEF p, q
      <4>1. /\ Len(p \o q) = Len(p) + Len(q)
            /\ \A j \in 1 .. Len(p) + Len(q) :
                 (p \o q)[j] = IF j <= Len(p) THEN p[j] ELSE q[j - Len(p)]
        BY <3>2, ConcatProperties
      <4>2. \A j \in 1 .. Len(p) : j \in 1 .. Len(p) + Len(q) /\ j <= Len(p)
        BY <3>2
      <4>3. \A j \in 1 .. Len(q) : /\ Len(p) + j \in 1 .. Len(p) + Len(q) /\ ~(Len(p) + j <= Len(p))
                                   /\ (Len(p) + j) - Len(p) = j
        BY <3>2
      <4> QED
        BY <3>2, <4>1, <4>2, <4>3
    <3>6. ASSUME NEW m \in 1 .. i, NEW j \in 1 .. Len(seqs[m])
          PROVE  f[i][(m - 1) * size + j] = seqs[m][j]
      <4>1. CASE m = i
        BY <3>1, <3>4, <3>5, <4>1
      <4>2. CASE m # i
        <5>1. m \in 1 .. k /\ m \in Nat \ {0} /\ m \in 1 .. n - 1 /\ m <= k
          BY <1>2, <3>1, <4>2
        <5>2. Len(seqs[m]) = size
          BY <1>2, <5>1
        <5>3. m * size = (m - 1) * size + size /\ (m - 1) * size \in Nat
          BY <1>0, <5>1, TimesLess
        <5>4. m * size <= k * size
          BY <1>0, <3>1, <5>1, TimesLe
        <5>5. (m - 1) * size + j \in 1 .. k * size
          <6> DEFINE x == (m - 1) * size
                     y == m * size
                     z == k * size
          <6>1. x \in Nat /\ y = x + size /\ y <= z /\ j \in 1 .. size /\ z \in Nat
            BY <1>0, <3>1, <5>1, <5>2, <5>3, <5>4, TimesLe
          <6> HIDE DEF x, y, z
          <6>2. x + j \in 1 .. z
            BY <6>1, <1>0
          <6> QED
            BY <6>2 DEF x, z
        <5>6. p[(m - 1) * size + j] = seqs[m][j]
          BY <3>0, <5>1 DEF Good
        <5> HIDE DEF p, q
        <5> QED
          BY <3>4, <3>5, <5>5, <5>6
      <4> QED
        BY <4>1, <4>2
    <3>7. Len(f[i]) = (i - 1) * size + Len(seqs[i])
      BY <3>1, <3>4, <3>5
    <3>8. Good(i)
      BY <3>6, <3>7 DEF Good
    <3> QED
      BY <2>1, <3>8
  <2> HIDE DEF Good
  <2> QED
    BY <2>1, <2>2, <2>3
<1> HIDE DEF T
<1>5. 0 .. n \subseteq T
  BY <1>2, <1>3, <1>4, UpTo
<1>6. n \in 0 .. n /\ n # 0 /\ n \in 1 .. n
  BY <1>2
<1>7. Good(n)
  <2> HIDE DEF Good
  <2> QED
    BY <1>5, <1>6 DEF T
<1>8. PlacedIn(size, seqs, f[n])
  BY <1>6, <1>7 DEF PlacedIn, n
<1> QED
  BY <1>1, <1>6, <1>8

------------------------------------------------------------------------------
(* Rings again: a character stored, and one taken.                         *)

(* A character stored at the head of a ring that is not full comes behind  *)
(* what the ring held; one is taken from its front.                        *)
LEMMA StoredIs ==
  ASSUME NEW n, NEW Entry, NEW q, NEW h, NEW t, NEW new, NEW g,
         IsRing(n, Entry, q, h, t), IsRing(n, Entry, new, g, t),
         g = Onward(n, h), g # t,
         \A i \in RingSlots(n) : i # h => new[i] = q[i]
  PROVE  Content(n, new, g, t) = Append(Content(n, q, h, t), new[h])
<1> DEFINE before == Content(n, q, h, t)
           after == Content(n, new, g, t)
           e == new[h]
           m == Fill(n, h, t)
<1>1. /\ n \in Nat \ {0, 1} /\ h \in RingSlots(n) /\ t \in RingSlots(n)
      /\ g \in RingSlots(n) /\ e \in Entry
  BY DEF IsRing
<1>6. /\ Len(before) < n - 1 /\ Len(after) = Len(before) + 1
      /\ SubSeq(after, 1, Len(before)) = before
  BY PutIs
<1>7. /\ before \in Seq(Entry) /\ Len(before) = m /\ m \in Nat
  BY <1>1, ContentIs, FillIs
<1>8. /\ after \in Seq(Entry) /\ Len(after) = Fill(n, g, t)
      /\ \A i \in 1 .. Fill(n, g, t) : after[i] = new[Nth(n, t, i)]
  BY ContentIs
<1>9. Nth(n, t, m + 1) = h
  BY <1>1, FillHead
<1> HIDE DEF before, after, m
<1>10. after[m + 1] = e
  <2>1. m + 1 \in 1 .. Fill(n, g, t)
    BY <1>6, <1>7, <1>8
  <2> QED
    BY <1>8, <1>9, <2>1
<1> HIDE DEF e
<1>11. after = Append(before, e)
  <2>1. \A i \in 1 .. m : SubSeq(after, 1, m)[i] = after[i]
    BY <1>6, <1>7, <1>8
  <2>2. Append(before, e) \in Seq(Entry) /\ Len(Append(before, e)) = m + 1
    BY <1>1, <1>7
  <2>3. \A i \in 1 .. m + 1 : Append(before, e)[i] = after[i]
    BY <1>6, <1>7, <1>10, <2>1
  <2>4. Len(after) = m + 1
    BY <1>6, <1>7
  <2> QED
    BY <1>8, <2>2, <2>3, <2>4, SeqEqual
<1> QED
  BY <1>11 DEF before, after, e

(* Such a ring's length, and that the code's test finds it full. *)
LEMMA RingFull ==
  ASSUME NEW n, NEW Entry, NEW q, NEW h, NEW t, IsRing(n, Entry, q, h, t)
  PROVE  /\ Len(Content(n, q, h, t)) \in Nat
         /\ Len(Content(n, q, h, t)) = n - 1 <=> Onward(n, h) = t
         /\ Onward(n, h) # t => Len(Content(n, q, h, t)) < n - 1
<1>1. /\ n \in Nat \ {0, 1} /\ h \in RingSlots(n) /\ t \in RingSlots(n)
  BY DEF IsRing
<1>2. Len(Content(n, q, h, t)) = Fill(n, h, t) /\ Fill(n, h, t) \in Nat
  BY <1>1, ContentIs, FillIs
<1>3. Onward(n, h) \in RingSlots(n)
  BY <1>1, OnwardIs
<1>4. Onward(n, h) # t => Fill(n, h, t) < n - 1
  BY <1>1, <1>3, FillHead
<1>5. Onward(n, h) = t => Fill(n, h, t) = n - 1
  BY <1>1, <1>3, FillHead
<1> QED
  BY <1>1, <1>2, <1>4, <1>5

==============================================================================
