----------------------------- MODULE InputProofs -----------------------------
(***************************************************************************)
(* Proofs about Input, for any terminals, ring and lines: its type, that a *)
(* process's ring is a queue but for raced pushes, that even those deliver *)
(* in order, and that a command typed into one terminal runs twice.  The   *)
(* last follows from the two lines being the same as long as one terminal  *)
(* has got all of both (LinesAgree), for which a terminal's line must not  *)
(* be the longer one.  QueueInv is what a push that no handler came into   *)
(* still knows: its head is the ring's, and the ring is not full.          *)
(* OrderInv says what a disturbed one can rely on: where its event belongs *)
(* among those that wait.                                                  *)
(***************************************************************************)
EXTENDS Input, DataProofs

(* Every step that the ring takes. *)
QueueNext ==
  \/ \E ev \in Nat : IrqPush(ev) \/ PushReads(ev)
  \/ Poll \/ Push

QueueInv ==
  /\ QueueTypeOK
  /\ push.ahead = 0 /\ push.pc # "idle" => push.head = event_head
  /\ push.ahead = 0 /\ push.pc \in {"type", "rest", "advance"} =>
       Succ(event_head) # event_tail

(* The ring of events is a ring of the size it is given. *)
LEMMA EventRing ==
  /\ Size \in Nat \ {0, 1} /\ Slots = RingSlots(Size)
  /\ \A i \in Slots : Succ(i) = Onward(Size, i) /\ Succ(i) \in Slots
<1>1. Size \in Nat \ {0, 1} /\ Slots = RingSlots(Size)
  BY EventQueueAssumption DEF Slots, RingSlots
<1>2. \A i \in Slots : Succ(i) = Onward(Size, i)
  BY DEF Succ, Onward
<1>3. \A i \in RingSlots(Size) : Onward(Size, i) \in RingSlots(Size)
  BY <1>1, OnwardIs
<1> QED
  BY <1>1, <1>2, <1>3

(* The queue that the ring stands for, without arithmetic modulo its size. *)
LEMMA QueuedIs ==
  ASSUME QueueTypeOK
  PROVE  Queued = Content(Size, event_queue, event_head, event_tail)
<1>1. IsRing(Size, Nat \X Nat, event_queue, event_head, event_tail)
  BY EventRing DEF QueueTypeOK, IsRing
<1>2. Queued = Ring(Size, event_queue, event_head, event_tail)
  BY DEF Queued, Filled, Ring
<1> QED
  BY <1>1, <1>2, RingIs

(* A new ring is empty, and nothing is being pushed. *)
LEMMA QueueInitInv == QueueInit => QueueInv
<1>1. 0 \in Slots
  BY EventQueueAssumption, SMT DEF Slots
<1>2. [i \in Slots |-> <<0, 0>>] \in [Slots -> Nat \X Nat] /\ <<0, 0>> \in Nat \X Nat
  OBVIOUS
<1>3. /\ NoPush \in [pc : {"idle", "check", "type", "rest", "advance"}, ev : Nat,
                     head : Slots, ahead : Nat]
      /\ NoPush.pc = "idle"
  BY <1>1 DEF NoPush
<1>4. QueueInit => QueueTypeOK
  BY <1>1, <1>2, <1>3 DEF QueueInit, QueueTypeOK
<1> QED
  BY <1>3, <1>4 DEF QueueInit, QueueInv

(* Pushes, polls and the GUI loop keep QueueInv: what a handler pushes or  *)
(* a process polls is either seen in ahead or leaves the head alone.       *)
LEMMA QueueStep == QueueInv /\ [QueueNext]_queueVars => QueueInv'
<1> SUFFICES ASSUME QueueInv, [QueueNext]_queueVars
             PROVE  QueueInv'
  OBVIOUS
<1> USE DEF QueueInv, QueueTypeOK
<1>0. 0 \in Slots /\ \A i \in Slots : Succ(i) \in Slots
  <2>1. 0 \in Slots
    BY EventQueueAssumption, SMT DEF Slots
  <2> QED
    BY <2>1, EventRing
<1>1. ASSUME NEW ev \in Nat, IrqPush(ev)
      PROVE  QueueInv'
  <2>1. CASE Succ(event_head) = event_tail
    BY <1>1, <2>1 DEF IrqPush
  <2>2. CASE Succ(event_head) # event_tail /\ push.pc = "idle"
    BY <1>0, <1>1, <2>2 DEF IrqPush
  <2>3. CASE Succ(event_head) # event_tail /\ push.pc # "idle"
    <3>1. /\ push'.pc = push.pc /\ push'.ev = push.ev /\ push'.head = push.head
          /\ push'.ahead = push.ahead + 1
      BY <1>1, <2>3 DEF IrqPush
    <3> QED
      BY <1>0, <1>1, <2>3, <3>1 DEF IrqPush
  <2> QED
    BY <2>1, <2>2, <2>3
<1>2. ASSUME NEW ev \in Nat, PushReads(ev)
      PROVE  QueueInv'
  BY <1>0, <1>2 DEF PushReads, Pushing
<1>3. CASE Poll
  <2>1. Succ(event_head) # event_tail => Succ(event_head) # event_tail'
    BY <1>3, EventRing, OnwardInjective DEF Poll
  <2> QED
    BY <1>0, <1>3, <2>1 DEF Poll
<1>4. CASE PushCheck
  BY <1>0, <1>4 DEF PushCheck, Pushing, PushGoto, NoPush
<1>5. CASE PushType
  BY <1>0, <1>5 DEF PushType, Pushing, PushGoto
<1>6. CASE PushRest
  BY <1>0, <1>6 DEF PushRest, Pushing, PushGoto
<1>7. CASE PushAdvance
  BY <1>0, <1>7 DEF PushAdvance, Pushing, NoPush
<1>8. CASE UNCHANGED queueVars
  BY <1>8 DEF queueVars
<1> QED
  BY <1>1, <1>2, <1>3, <1>4, <1>5, <1>6, <1>7, <1>8 DEF QueueNext, Push

(* Every step is a put, a get, no step of the queue, or the GUI loop's own *)
(* in a push that handlers came into.                                      *)
LEMMA QueueActs ==
  QueueInv /\ [QueueNext]_queueVars =>
    [(push.ahead > 0 /\ push'.pc # push.pc) \/ Abstract!Put \/ Abstract!Get]_Queued
<1> SUFFICES ASSUME QueueInv, [QueueNext]_queueVars
             PROVE  [(push.ahead > 0 /\ push'.pc # push.pc) \/ Abstract!Put \/ Abstract!Get]_Queued
  OBVIOUS
<1>1. QueueTypeOK /\ QueueTypeOK'
  BY QueueStep DEF QueueInv
<1>2. Queued = Content(Size, event_queue, event_head, event_tail)
  BY <1>1, QueuedIs
<1>3. Queued' = Content(Size, event_queue', event_head', event_tail')
  <2>1. (Queued = Content(Size, event_queue, event_head, event_tail))'
    BY <1>1, QueuedIs, PTL
  <2> QED
    BY <2>1 DEF Content, Fill, Nth
<1>4. /\ \A q \in {event_queue, event_queue'}, h \in {event_head, event_head'},
            t \in {event_tail, event_tail'} : IsRing(Size, Nat \X Nat, q, h, t)
      /\ push.ahead \in Nat
  BY <1>1, EventRing DEF QueueTypeOK, IsRing
<1> HIDE DEF Queued
<1>5. ASSUME event_head' = Succ(event_head), event_head' # event_tail, event_tail' = event_tail,
             \A i \in Slots : i # event_head => event_queue'[i] = event_queue[i]
      PROVE  Abstract!Put
  <2>1. /\ IsRing(Size, Nat \X Nat, event_queue, event_head, event_tail)
        /\ IsRing(Size, Nat \X Nat, event_queue', event_head', event_tail)
    BY <1>4
  <2>2. event_head' = Onward(Size, event_head) /\ Slots = RingSlots(Size)
    BY <1>1, <1>5, EventRing DEF QueueTypeOK
  <2>3. /\ Len(Content(Size, event_queue, event_head, event_tail)) < Size - 1
        /\ Len(Content(Size, event_queue', event_head', event_tail))
             = Len(Content(Size, event_queue, event_head, event_tail)) + 1
        /\ SubSeq(Content(Size, event_queue', event_head', event_tail), 1,
                  Len(Content(Size, event_queue, event_head, event_tail)))
             = Content(Size, event_queue, event_head, event_tail)
    BY <1>5, <2>1, <2>2, PutIs
  <2> QED
    BY <1>2, <1>3, <1>5, <2>3 DEF Abstract!Put
<1>6. ASSUME NEW ev \in Nat, IrqPush(ev)
      PROVE  Abstract!Put \/ UNCHANGED Queued
  <2>1. CASE Succ(event_head) = event_tail
    BY <1>2, <1>3, <1>6, <2>1 DEF IrqPush
  <2>2. CASE Succ(event_head) # event_tail
    BY <1>1, <1>5, <1>6, <2>2 DEF IrqPush, QueueTypeOK
  <2> QED
    BY <2>1, <2>2
<1>7. CASE Poll
  <2>1. event_head # event_tail /\ event_tail' = Succ(event_tail)
        /\ event_queue' = event_queue /\ event_head' = event_head
    BY <1>7 DEF Poll
  <2> QED
    <3>1. /\ IsRing(Size, Nat \X Nat, event_queue, event_head, event_tail)
          /\ IsRing(Size, Nat \X Nat, event_queue, event_head, event_tail')
      BY <1>4
    <3>2. event_tail' = Onward(Size, event_tail)
      BY <1>1, <2>1, EventRing DEF QueueTypeOK
    <3>3. /\ Content(Size, event_queue, event_head, event_tail) # <<>>
          /\ Content(Size, event_queue, event_head, event_tail')
               = Tail(Content(Size, event_queue, event_head, event_tail))
      BY <2>1, <3>1, <3>2, GetIs
    <3> QED
      BY <1>2, <1>3, <2>1, <3>3 DEF Abstract!Get
<1>8. ASSUME UNCHANGED <<event_queue, event_head, event_tail>>
      PROVE  UNCHANGED Queued
  BY <1>2, <1>3, <1>8
<1>9. CASE PushType \/ PushRest
  <2>1. push'.pc # push.pc
    BY <1>1, <1>9 DEF PushType, PushRest, Pushing, PushGoto, QueueTypeOK
  <2>2. ASSUME push.ahead = 0
        PROVE  UNCHANGED Queued
    <3>1. push.head = event_head /\ event_head' = event_head /\ event_tail' = event_tail
      BY <1>9, <2>2 DEF QueueInv, PushType, PushRest, Pushing
    <3>2. PICK e \in Nat \X Nat : event_queue' = [event_queue EXCEPT ![event_head] = e]
      BY <1>1, <1>4, <1>9, <3>1 DEF PushType, PushRest, QueueTypeOK
    <3>3. Content(Size, [event_queue EXCEPT ![event_head] = e], event_head, event_tail)
            = Content(Size, event_queue, event_head, event_tail)
      BY <1>4, BehindIs
    <3> QED
      BY <1>2, <1>3, <3>1, <3>2, <3>3
  <2> QED
    BY <1>4, <2>1, <2>2, SMT
<1>10. CASE PushAdvance
  <2>1. push'.pc # push.pc
    BY <1>10 DEF PushAdvance, Pushing, NoPush
  <2>2. ASSUME push.ahead = 0
        PROVE  Abstract!Put
    <3>1. /\ event_head' = Succ(event_head) /\ event_head' # event_tail
          /\ event_tail' = event_tail /\ event_queue' = event_queue
      BY <1>10, <2>2 DEF QueueInv, PushAdvance, Pushing
    <3> QED
      BY <1>5, <3>1
  <2> QED
    BY <1>4, <2>1, <2>2, SMT
<1> QED
  BY <1>6, <1>7, <1>8, <1>9, <1>10
     DEF QueueNext, Push, PushReads, PushCheck, queueVars
------------------------------------------------------------------------------
(* Where a slot is, counted from the oldest entry; how many entries there  *)
(* are; and the number of the event in a slot, by its first half.          *)
Place(s) == Fill(Size, s, event_tail)
Count == Fill(Size, event_head, event_tail)
Number(s) == event_queue[s][1]

(* No number is larger than that of the last event. *)
Events == keys + clicks

Numbered ==
  /\ push.ev <= Events /\ polled[1] <= Events
  /\ \A s \in Slots : Number(s) <= Events

(* What waits is in order, and younger than what the process got. *)
Sorted ==
  /\ \A s \in Slots : Place(s) < Count => polled[1] < Number(s)
  /\ \A s, u \in Slots : Place(s) < Place(u) /\ Place(u) < Count => Number(s) < Number(u)

(* The GUI loop's event belongs between what waited when it began and what *)
(* handlers have pushed since, the first of which has taken its slot; and  *)
(* it is younger than what was delivered, unless one of those was.         *)
Between ==
  push.pc # "idle" =>
    /\ push.ahead <= Size =>
         event_head = IF push.head + push.ahead < Size THEN push.head + push.ahead
                      ELSE push.head + push.ahead - Size
    /\ push.ahead <= Count => polled[1] < push.ev
    /\ \A s \in Slots : Place(s) < Count =>
         /\ Place(s) + push.ahead < Count => Number(s) < push.ev
         /\ Place(s) + push.ahead >= Count => Number(s) >= push.ev
         /\ Place(s) + push.ahead > Count => Number(s) > push.ev

(* What an undisturbed push has written is still there. *)
Pending ==
  push.pc \in {"rest", "advance"} /\ push.ahead = 0 => Number(push.head) = push.ev

(* Only the entry of an undisturbed push can have two halves that differ. *)
Whole ==
  \A s \in Slots :
    event_queue[s][1] = event_queue[s][2] \/ (push.pc = "rest" /\ push.ahead = 0 /\ s = push.head)

OrderInv ==
  /\ Numbered
  /\ ~overtaken => Sorted /\ Between
  /\ Pending
  /\ ~raced => Whole

(* Every step of the ring, with the number that a new event gets. *)
NumberedNext ==
  \/ (IrqPush(Events + 1) \/ PushReads(Events + 1)) /\ Events' = Events + 1
  \/ (Poll \/ Push) /\ Events' = Events
  \/ UNCHANGED queueVars /\ Events' >= Events

(* Places count round the ring. *)
LEMMA PlacesAre ==
  ASSUME QueueTypeOK
  PROVE  /\ Size \in Nat /\ Count \in 0 .. Size - 1
         /\ \A s \in Slots : Place(s) \in 0 .. Size - 1 /\ Number(s) \in Nat
         /\ Place(event_tail) = 0 /\ Place(event_head) = Count
         /\ \A s, u \in Slots : Place(s) = Place(u) => s = u
<1>1. Size \in Nat \ {0, 1} /\ Slots = 0 .. Size - 1 /\ event_tail \in Slots /\ event_head \in Slots
  BY EventRing DEF QueueTypeOK, RingSlots
<1>2. \A s \in Slots : Number(s) \in Nat
  BY DEF QueueTypeOK, Number
<1>3. Place(event_head) = Count
  BY DEF Place, Count
<1>4. /\ \A s \in Slots : Place(s) \in 0 .. Size - 1
      /\ Place(event_tail) = 0 /\ \A s, u \in Slots : Place(s) = Place(u) => s = u
  BY <1>1, SMT DEF Place, Fill
<1> QED
  BY <1>1, <1>2, <1>3, <1>4

(* The slot after another, without arithmetic modulo. *)
LEMMA SuccIs ==
  ASSUME NEW s \in Slots
  PROVE  Succ(s) \in Slots /\ Succ(s) = IF s = Size - 1 THEN 0 ELSE s + 1
BY EventRing, OnwardIs

(* Places when only the head has moved. *)
LEMMA PlacesStay ==
  ASSUME event_tail' = event_tail
  PROVE  /\ \A s \in Slots : Place(s)' = Place(s)
         /\ event_head' = event_head => Count' = Count
BY DEF Place, Count

(* Nothing changes but the number of events. *)
LEMMA SameOrder ==
  ASSUME QueueInv, OrderInv, Events \in Nat, Events' \in Nat, Events' >= Events,
         UNCHANGED queueVars
  PROVE  OrderInv'
<1>1. /\ UNCHANGED <<event_queue, event_head, event_tail, push, polled, raced, overtaken>>
      /\ \A s \in Slots : Number(s)' = Number(s) /\ Place(s)' = Place(s)
      /\ Count' = Count
  BY DEF queueVars, Place, Count, Number
<1>2. push.ev \in Nat /\ polled[1] \in Nat /\ \A s \in Slots : Number(s) \in Nat
  BY PlacesAre DEF QueueInv, QueueTypeOK
<1>3. Numbered'
  BY <1>1, <1>2, SMT DEF OrderInv, Numbered
<1>4. Sorted' = Sorted
  BY <1>1 DEF Sorted
<1>5. Between' = Between
  BY <1>1 DEF Between
<1>6. Pending' = Pending
  BY <1>1 DEF Pending, Number
<1>7. Whole' = Whole
  BY <1>1 DEF Whole
<1> QED
  BY <1>1, <1>3, <1>4, <1>5, <1>6, <1>7 DEF OrderInv

(* A handler's event is the youngest, behind everything. *)
LEMMA IrqPushOrder ==
  ASSUME QueueInv, OrderInv, Events \in Nat, IrqPush(Events + 1), Events' = Events + 1
  PROVE  OrderInv'
<1> DEFINE ev == Events + 1
<1>0. QueueTypeOK
  BY DEF QueueInv
<1>1. CASE Succ(event_head) = event_tail
  <2>1. UNCHANGED queueVars
    BY <1>1 DEF IrqPush, queueVars
  <2> QED
    BY <2>1, SameOrder
<1>2. CASE Succ(event_head) # event_tail
  <2>1. /\ event_queue' = [event_queue EXCEPT ![event_head] = <<ev, ev>>]
        /\ event_head' = Succ(event_head)
        /\ push' = IF push.pc = "idle" THEN push ELSE [push EXCEPT !.ahead = @ + 1]
        /\ UNCHANGED <<event_tail, polled, raced, overtaken>>
    BY <1>2 DEF IrqPush
  <2>2. /\ \A s \in Slots : Number(s)' = IF s = event_head THEN ev ELSE Number(s)
        /\ event_queue'[event_head] = <<ev, ev>>
        /\ \A s \in Slots : s # event_head => event_queue'[s] = event_queue[s]
    BY <1>0, <2>1 DEF Number, QueueTypeOK
  <2>3. \A s \in Slots : Place(s)' = Place(s)
    BY <2>1, PlacesStay
  <2>4. Count' = Count + 1
    <3>1. /\ event_head \in RingSlots(Size) /\ event_tail \in RingSlots(Size)
          /\ event_head' = Onward(Size, event_head) /\ event_head' \in RingSlots(Size)
          /\ Size \in Nat \ {0, 1}
      BY <1>0, <2>1, EventRing DEF QueueTypeOK
    <3> QED
      BY <1>2, <2>1, <3>1, FillHead DEF Count
  <2>5. /\ push'.pc = push.pc /\ push'.ev = push.ev /\ push'.head = push.head
        /\ push'.ahead = IF push.pc = "idle" THEN push.ahead ELSE push.ahead + 1
        /\ push.ahead \in Nat /\ push.ev \in Nat /\ push.head \in Slots
        /\ push.pc \in {"idle", "check", "type", "rest", "advance"}
    BY <1>0, <2>1 DEF QueueTypeOK
  <2>6. /\ Size \in Nat /\ Count \in 0 .. Size - 1
        /\ \A s \in Slots : Place(s) \in 0 .. Size - 1 /\ Number(s) \in Nat
        /\ Place(event_tail) = 0 /\ Place(event_head) = Count
        /\ \A s, u \in Slots : Place(s) = Place(u) => s = u
    BY <1>0, PlacesAre
  <2>7. event_head \in Slots /\ polled[1] \in Nat
    BY <1>0 DEF QueueTypeOK
  <2>8. event_head' = IF event_head = Size - 1 THEN 0 ELSE event_head + 1
    BY <2>1, <2>7, SuccIs
  <2>9. Numbered'
    BY <2>1, <2>2, <2>5, <2>6, <2>7, SMT DEF OrderInv, Numbered
  <2>10. overtaken' \/ Sorted'
    BY <1>0, <2>1, <2>2, <2>3, <2>4, <2>6, <2>7, SMT DEF OrderInv, Numbered, Sorted
  <2>11. ASSUME Between PROVE Between'
    <3> SUFFICES ASSUME push.pc # "idle" PROVE Between'
      BY <2>5 DEF Between
    <3>1. push'.ahead = push.ahead + 1
      BY <2>5
    <3>2. push'.ahead <= Size =>
            event_head' = IF push'.head + push'.ahead < Size THEN push'.head + push'.ahead
                          ELSE push'.head + push'.ahead - Size
      <4>1. push.head \in 0 .. Size - 1 /\ event_head \in 0 .. Size - 1
        BY <2>5, <2>7, EventRing DEF RingSlots
      <4>2. push.ahead <= Size =>
              event_head = IF push.head + push.ahead < Size THEN push.head + push.ahead
                           ELSE push.head + push.ahead - Size
        BY <2>11 DEF Between
      <4> QED
        BY <2>5, <2>6, <2>8, <3>1, <4>1, <4>2, SMT
    <3>3. push'.ahead <= Count' => polled'[1] < push'.ev
      BY <2>1, <2>4, <2>5, <2>6, <2>11, <3>1, SMT DEF Between
    <3>4. ASSUME NEW s \in Slots, Place(s)' < Count'
          PROVE  /\ Place(s)' + push'.ahead < Count' => Number(s)' < push'.ev
                 /\ Place(s)' + push'.ahead >= Count' => Number(s)' >= push'.ev
                 /\ Place(s)' + push'.ahead > Count' => Number(s)' > push'.ev
      <4>1. CASE s = event_head
        <5>1. Number(s)' > push'.ev
          BY <2>2, <2>5, <4>1, SMT DEF OrderInv, Numbered
        <5>2. Place(s)' + push'.ahead >= Count'
          BY <2>3, <2>4, <2>5, <2>6, <3>1, <4>1, SMT
        <5>3. Number(s)' \in Nat
          BY <2>2, <4>1
        <5> QED
          BY <2>3, <2>4, <2>5, <2>6, <3>1, <4>1, <5>1, <5>2, <5>3, SMT
      <4>2. CASE s # event_head
        <5>1. Number(s)' = Number(s) /\ Place(s)' = Place(s) /\ Place(s) # Count
          BY <2>2, <2>3, <2>6, <2>7, <4>2
        <5> QED
          BY <2>4, <2>5, <2>6, <2>11, <3>1, <3>4, <5>1, SMT DEF Between
      <4> QED
        BY <4>1, <4>2
    <3> QED
      BY <3>2, <3>3, <3>4 DEF Between
  <2>12. Pending'
    <3>1. push'.pc \in {"rest", "advance"} => push'.ahead # 0
      BY <2>5, SMT
    <3> QED
      BY <3>1 DEF Pending
  <2>13. Whole => Whole'
    <3>1. push.pc = "rest" /\ push.ahead = 0 => push.head = event_head
      BY <2>5 DEF QueueInv
    <3> QED
      BY <2>2, <2>5, <2>7, <3>1 DEF Whole
  <2> QED
    BY <2>1, <2>9, <2>10, <2>11, <2>12, <2>13 DEF OrderInv
<1> QED
  BY <1>1, <1>2
(* The ring before and after a step that changes neither it nor what was   *)
(* delivered: Numbered stays, Sorted is the same.                          *)
LEMMA SameRing ==
  ASSUME QueueInv, OrderInv, Events \in Nat, Events' \in Nat, Events' >= Events,
         push'.ev \in Nat, push'.ev <= Events',
         UNCHANGED <<event_queue, event_head, event_tail, polled>>
  PROVE  /\ \A s \in Slots : Number(s)' = Number(s) /\ Place(s)' = Place(s)
         /\ Count' = Count /\ Numbered' /\ Sorted' = Sorted
<1>1. /\ \A s \in Slots : Number(s)' = Number(s) /\ Place(s)' = Place(s)
      /\ Count' = Count
  BY DEF Place, Count, Number
<1>2. polled[1] \in Nat /\ \A s \in Slots : Number(s) \in Nat
  BY PlacesAre DEF QueueInv, QueueTypeOK
<1>3. Numbered'
  BY <1>1, <1>2, SMT DEF OrderInv, Numbered
<1>4. Sorted' = Sorted
  BY <1>1 DEF Sorted
<1> QED
  BY <1>1, <1>3, <1>4

(* A click is the youngest event when the GUI loop begins to push it.      *)
LEMMA PushReadsOrder ==
  ASSUME QueueInv, OrderInv, Events \in Nat, PushReads(Events + 1), Events' = Events + 1
  PROVE  OrderInv'
<1>1. /\ push.pc = "idle"
      /\ push' = [pc |-> "check", ev |-> Events + 1, head |-> event_head, ahead |-> 0]
      /\ UNCHANGED <<event_queue, event_head, event_tail, polled, raced, overtaken>>
  BY DEF PushReads, Pushing
<1>2. /\ push'.pc = "check" /\ push'.ev = Events + 1 /\ push'.head = event_head /\ push'.ahead = 0
  BY <1>1
<1>3. /\ \A s \in Slots : Number(s)' = Number(s) /\ Place(s)' = Place(s)
      /\ Count' = Count /\ Numbered' /\ Sorted' = Sorted
  BY <1>1, <1>2, SameRing
<1>4. /\ Size \in Nat /\ Count \in 0 .. Size - 1 /\ polled[1] \in Nat
      /\ \A s \in Slots : Place(s) \in 0 .. Size - 1 /\ Number(s) \in Nat
      /\ event_head \in 0 .. Size - 1
  BY PlacesAre, EventRing DEF QueueInv, QueueTypeOK, RingSlots
<1>5. Between'
  <2>1. /\ event_head' = IF push'.head + push'.ahead < Size THEN push'.head + push'.ahead
                         ELSE push'.head + push'.ahead - Size
        /\ polled'[1] < push'.ev
    BY <1>1, <1>2, <1>4, SMT DEF OrderInv, Numbered
  <2>2. ASSUME NEW s \in Slots, Place(s)' < Count'
        PROVE  Place(s)' + push'.ahead < Count' /\ Number(s)' < push'.ev
    BY <1>2, <1>3, <1>4, <2>2, SMT DEF OrderInv, Numbered
  <2>3. ASSUME NEW s \in Slots, Place(s)' < Count'
        PROVE  /\ Place(s)' + push'.ahead < Count' => Number(s)' < push'.ev
               /\ Place(s)' + push'.ahead >= Count' => Number(s)' >= push'.ev
               /\ Place(s)' + push'.ahead > Count' => Number(s)' > push'.ev
    BY <1>2, <1>3, <1>4, <2>2, <2>3, SMT
  <2> QED
    BY <2>1, <2>3 DEF Between
<1>6. Pending' /\ (Whole => Whole')
  BY <1>1, <1>2 DEF Pending, Whole
<1> QED
  BY <1>1, <1>3, <1>5, <1>6 DEF OrderInv

(* The ring is full and the click is lost, or the push goes on. *)
LEMMA PushCheckOrder ==
  ASSUME QueueInv, OrderInv, Events \in Nat, Events' = Events, PushCheck
  PROVE  OrderInv'
<1>1. /\ push.pc = "check" /\ push' \in {NoPush, [push EXCEPT !.pc = "type"]}
      /\ UNCHANGED <<event_queue, event_head, event_tail, polled, raced, overtaken>>
  BY DEF PushCheck, Pushing, PushGoto
<1>2. \/ push'.pc = "idle" /\ push'.ev = 0
      \/ /\ push'.pc = "type" /\ push'.ev = push.ev /\ push'.head = push.head
         /\ push'.ahead = push.ahead
  BY <1>1 DEF NoPush, QueueInv, QueueTypeOK
<1>3. push'.ev \in Nat /\ push'.ev <= Events
  BY <1>2, SMT DEF OrderInv, Numbered, QueueInv, QueueTypeOK
<1>4. /\ \A s \in Slots : Number(s)' = Number(s) /\ Place(s)' = Place(s)
      /\ Count' = Count /\ Numbered' /\ Sorted' = Sorted
  BY <1>1, <1>3, SameRing
<1>5. Between => Between'
  BY <1>1, <1>2, <1>4 DEF Between
<1>6. Pending' /\ (Whole => Whole')
  BY <1>1, <1>2 DEF Pending, Whole
<1> QED
  BY <1>1, <1>4, <1>5, <1>6 DEF OrderInv

(* The second half completes the first; the order is that of the first.    *)
LEMMA PushRestOrder ==
  ASSUME QueueInv, OrderInv, Events \in Nat, Events' = Events, PushRest
  PROVE  OrderInv'
<1>1. /\ push.pc = "rest" /\ push' = [push EXCEPT !.pc = "advance"]
      /\ event_queue' = [event_queue EXCEPT ![push.head] = <<@[1], push.ev>>]
      /\ raced' = (raced \/ push.ahead > 0) /\ (overtaken => overtaken')
      /\ UNCHANGED <<event_head, event_tail, polled>>
  BY DEF PushRest, Pushing, PushGoto, QueueInv, QueueTypeOK
<1>2. /\ push'.pc = "advance" /\ push'.ev = push.ev /\ push'.head = push.head
      /\ push'.ahead = push.ahead /\ push.ahead \in Nat /\ push.head \in Slots
      /\ push.ev \in Nat /\ polled[1] \in Nat
  BY <1>1 DEF QueueInv, QueueTypeOK
<1>3. /\ \A s \in Slots : event_queue'[s][1] = event_queue[s][1]
      /\ event_queue'[push.head][2] = push.ev
      /\ \A s \in Slots : s # push.head => event_queue'[s] = event_queue[s]
  BY <1>1, <1>2 DEF QueueInv, QueueTypeOK
<1>4. /\ \A s \in Slots : Number(s)' = Number(s) /\ Place(s)' = Place(s)
      /\ Count' = Count
  BY <1>1, <1>3 DEF Number, Place, Count
<1>5. Numbered' /\ Sorted' = Sorted
  BY <1>1, <1>2, <1>4 DEF OrderInv, Numbered, Sorted
<1>6. Between => Between'
  BY <1>1, <1>2, <1>4 DEF Between
<1>7. Pending'
  BY <1>1, <1>2, <1>3 DEF OrderInv, Pending, Number
<1>8. raced' \/ Whole'
  <2> SUFFICES ASSUME ~raced' PROVE Whole'
    OBVIOUS
  <2>0. ~raced /\ ~(push.ahead > 0)
    BY <1>1, Zenon
  <2>1. push.ahead = 0
    BY <1>2, <2>0, SMT
  <2>2. event_queue'[push.head][1] = push.ev
    BY <1>1, <1>2, <1>3, <2>1 DEF OrderInv, Pending, Number
  <2>3. Whole
    BY <2>0 DEF OrderInv
  <2> QED
    BY <1>3, <2>2, <2>3 DEF Whole
<1> QED
  BY <1>1, <1>5, <1>6, <1>7, <1>8 DEF OrderInv

(* The slot of a push that was not overtaken: outside the queue, or the    *)
(* handlers' first event, with all of theirs behind it.                    *)
LEMMA PushSlot ==
  ASSUME QueueInv, Between, push.pc # "idle", push.ahead <= Size
  PROVE  /\ Place(push.head) < Count => Place(push.head) + push.ahead = Count
         /\ push.ahead = 0 => Place(push.head) = Count
<1>1. /\ Size \in Nat \ {0, 1} /\ push.head \in 0 .. Size - 1 /\ event_tail \in 0 .. Size - 1
      /\ push.ahead \in Nat
  BY EventRing DEF QueueInv, QueueTypeOK, RingSlots
<1>2. event_head = IF push.head + push.ahead < Size THEN push.head + push.ahead
                   ELSE push.head + push.ahead - Size
  BY DEF Between
<1> QED
  BY <1>1, <1>2, SMT DEF Place, Count, Fill

(* The first half: nothing waits in the slot, or what overwrites it is     *)
(* older than it and younger than everything in front of it.               *)
LEMMA PushTypeOrder ==
  ASSUME QueueInv, OrderInv, Events \in Nat, Events' = Events, PushType
  PROVE  OrderInv'
<1>1. /\ push.pc = "type" /\ push' = [push EXCEPT !.pc = "rest"]
      /\ event_queue' = [event_queue EXCEPT ![push.head] = <<push.ev, @[2]>>]
      /\ raced' = (raced \/ push.ahead > 0) /\ overtaken' = (overtaken \/ push.ahead > Size)
      /\ UNCHANGED <<event_head, event_tail, polled>>
  BY DEF PushType, Pushing, PushGoto, Lapped
<1>2. /\ push'.pc = "rest" /\ push'.ev = push.ev /\ push'.head = push.head
      /\ push'.ahead = push.ahead /\ push.ahead \in Nat /\ push.head \in Slots
      /\ push.ev \in Nat /\ polled[1] \in Nat
  BY <1>1 DEF QueueInv, QueueTypeOK
<1>3. /\ event_queue'[push.head][1] = push.ev
      /\ \A s \in Slots : s # push.head => event_queue'[s] = event_queue[s]
  BY <1>1, <1>2 DEF QueueInv, QueueTypeOK
<1>4. /\ \A s \in Slots : Place(s)' = Place(s)
      /\ Count' = Count
      /\ \A s \in Slots : Number(s)' = IF s = push.head THEN push.ev ELSE Number(s)
  BY <1>1, <1>3 DEF Number, Place, Count
<1>5. /\ Size \in Nat /\ Count \in 0 .. Size - 1
      /\ \A s \in Slots : Place(s) \in 0 .. Size - 1 /\ Number(s) \in Nat
      /\ \A s, u \in Slots : Place(s) = Place(u) => s = u
  BY PlacesAre DEF QueueInv
<1>6. Numbered'
  BY <1>1, <1>2, <1>4, <1>5 DEF OrderInv, Numbered
<1>7. ASSUME ~overtaken' PROVE Sorted' /\ Between'
  <2>1. ~overtaken /\ ~(push.ahead > Size)
    BY <1>1, <1>7, Zenon
  <2>2. Sorted /\ Between /\ push.ahead <= Size
    BY <1>2, <1>5, <2>1, SMT DEF OrderInv
  <2>3. Place(push.head) < Count => Place(push.head) + push.ahead = Count
    BY <1>1, <2>2, PushSlot
  <2>4. /\ push.ahead <= Count => polled[1] < push.ev
        /\ \A s \in Slots : Place(s) < Count =>
             /\ Place(s) + push.ahead < Count => Number(s) < push.ev
             /\ Place(s) + push.ahead >= Count => Number(s) >= push.ev
             /\ Place(s) + push.ahead > Count => Number(s) > push.ev
    BY <1>1, <2>2 DEF Between
  <2>5. ASSUME NEW s \in Slots, Place(s)' < Count'
        PROVE  polled'[1] < Number(s)'
    <3>1. CASE s = push.head
      BY <1>1, <1>2, <1>4, <1>5, <2>3, <2>4, <2>5, <3>1, SMT
    <3>2. CASE s # push.head
      BY <1>1, <1>4, <2>2, <2>5, <3>2 DEF Sorted
    <3> QED
      BY <3>1, <3>2
  <2>6. ASSUME NEW s \in Slots, NEW u \in Slots, Place(s)' < Place(u)', Place(u)' < Count'
        PROVE  Number(s)' < Number(u)'
    <3>0. Place(s) < Place(u) /\ Place(u) < Count /\ Place(s) < Count
      BY <1>4, <1>5, <2>6, SMT
    <3>1. CASE s = push.head
      <4>1. u # push.head /\ Place(u) + push.ahead > Count
        BY <1>2, <1>5, <2>3, <3>0, <3>1, SMT
      <4> QED
        BY <1>4, <2>4, <3>0, <3>1, <4>1
    <3>2. CASE u = push.head
      <4>1. s # push.head /\ Place(s) + push.ahead < Count
        BY <1>2, <1>5, <2>3, <3>0, <3>2, SMT
      <4> QED
        BY <1>4, <2>4, <3>0, <3>2, <4>1
    <3>3. CASE s # push.head /\ u # push.head
      BY <1>4, <2>2, <3>0, <3>3 DEF Sorted
    <3> QED
      BY <3>1, <3>2, <3>3
  <2>7. ASSUME NEW s \in Slots, Place(s)' < Count'
        PROVE  /\ Place(s)' + push'.ahead < Count' => Number(s)' < push'.ev
               /\ Place(s)' + push'.ahead >= Count' => Number(s)' >= push'.ev
               /\ Place(s)' + push'.ahead > Count' => Number(s)' > push'.ev
    <3>1. CASE s = push.head
      BY <1>2, <1>4, <1>5, <2>3, <2>7, <3>1, SMT
    <3>2. CASE s # push.head
      BY <1>2, <1>4, <2>4, <2>7, <3>2
    <3> QED
      BY <3>1, <3>2
  <2>8. /\ push'.ahead <= Size =>
             event_head' = IF push'.head + push'.ahead < Size THEN push'.head + push'.ahead
                           ELSE push'.head + push'.ahead - Size
        /\ push'.ahead <= Count' => polled'[1] < push'.ev
    BY <1>1, <1>2, <1>4, <2>2, <2>4 DEF Between
  <2>9. Sorted'
    BY <2>5, <2>6 DEF Sorted
  <2> QED
    BY <2>7, <2>8, <2>9 DEF Between
<1>8. Pending'
  BY <1>1, <1>2, <1>3 DEF Pending, Number
<1>9. raced' \/ Whole'
  <2> SUFFICES ASSUME ~raced' PROVE Whole'
    OBVIOUS
  <2>1. ~raced /\ ~(push.ahead > 0)
    BY <1>1, Zenon
  <2>2. push.ahead = 0
    BY <1>2, <2>1, SMT
  <2>3. Whole
    BY <2>1 DEF OrderInv
  <2> QED
    BY <1>1, <1>2, <1>3, <2>2, <2>3 DEF Whole
<1> QED
  BY <1>6, <1>7, <1>8, <1>9 DEF OrderInv

(* The head goes behind the GUI loop's event: past those of the handlers,  *)
(* which are lost, or, without any, past a new last entry.                 *)
LEMMA PushAdvanceOrder ==
  ASSUME QueueInv, OrderInv, Events \in Nat, Events' = Events, PushAdvance
  PROVE  OrderInv'
<1>1. /\ push.pc = "advance" /\ push' = NoPush
      /\ event_head' = Succ(push.head)
      /\ overtaken' = (overtaken \/ Filled + 2 <= push.ahead)
      /\ UNCHANGED <<event_queue, event_tail, polled, raced>>
  BY DEF PushAdvance, Pushing
<1>2. /\ push'.pc = "idle" /\ push'.ev = 0 /\ push.ahead \in Nat /\ push.head \in Slots
      /\ push.ev \in Nat /\ polled[1] \in Nat
  BY <1>1 DEF NoPush, QueueInv, QueueTypeOK
<1>3. /\ \A s \in Slots : Place(s)' = Place(s)
      /\ \A s \in Slots : Number(s)' = Number(s)
      /\ Filled = Count
  <2>1. Filled = Count
    BY EventRing, FillIs DEF Filled, Count, QueueInv, QueueTypeOK
  <2> QED
    BY <1>1, <2>1 DEF Number, Place
<1>4. /\ Size \in Nat \ {0, 1} /\ Count \in 0 .. Size - 1
      /\ \A s \in Slots : Place(s) \in 0 .. Size - 1 /\ Number(s) \in Nat
      /\ \A s, u \in Slots : Place(s) = Place(u) => s = u
  BY PlacesAre, EventRing DEF QueueInv
<1>5. Numbered'
  BY <1>1, <1>2, <1>3, SMT DEF OrderInv, Numbered
<1>6. Between' /\ Pending'
  BY <1>2 DEF Between, Pending
<1>7. ASSUME ~overtaken' PROVE Sorted'
  <2>1. ~overtaken /\ ~(Filled + 2 <= push.ahead)
    BY <1>1, <1>7, Zenon
  <2>2. Sorted /\ Between /\ push.ahead <= Count + 1 /\ push.ahead <= Size
    BY <1>2, <1>3, <1>4, <2>1, SMT DEF OrderInv
  <2>3. /\ Place(push.head) < Count => Place(push.head) + push.ahead = Count
        /\ push.ahead = 0 => Place(push.head) = Count
    BY <1>1, <2>2, PushSlot
  <2>4. /\ push.ahead <= Count => polled[1] < push.ev
        /\ \A s \in Slots : Place(s) < Count =>
             /\ Place(s) + push.ahead < Count => Number(s) < push.ev
             /\ Place(s) + push.ahead >= Count => Number(s) >= push.ev
             /\ Place(s) + push.ahead > Count => Number(s) > push.ev
        /\ event_head = IF push.head + push.ahead < Size THEN push.head + push.ahead
                        ELSE push.head + push.ahead - Size
    BY <1>1, <2>2 DEF Between
  <2>5. /\ event_head' = IF push.head = Size - 1 THEN 0 ELSE push.head + 1
        /\ event_head \in 0 .. Size - 1 /\ event_tail \in 0 .. Size - 1
        /\ push.head \in 0 .. Size - 1
    BY <1>1, <1>2, SuccIs, EventRing DEF RingSlots, QueueInv, QueueTypeOK
  <2>6. push.ahead = 0 => event_head' # event_tail
    BY <1>1 DEF QueueInv
  <2>7. Count' = Count + 1 - push.ahead
    <3>1. Count' = Fill(Size, event_head', event_tail)
      BY <1>1 DEF Count
    <3>2. /\ Count = IF event_head >= event_tail THEN event_head - event_tail
                      ELSE event_head + Size - event_tail
          /\ Count' = IF event_head' >= event_tail THEN event_head' - event_tail
                       ELSE event_head' + Size - event_tail
      BY <3>1 DEF Count, Fill
    <3>3. CASE push.ahead = 0
      BY <1>4, <2>4, <2>5, <2>6, <3>2, <3>3, SMT
    <3>4. CASE push.ahead > 0
      BY <1>2, <1>4, <2>2, <2>4, <2>5, <3>2, <3>4, SMT
    <3> QED
      BY <1>2, <3>3, <3>4, SMT
  <2>8. CASE push.ahead > 0
    <3>1. \A s \in Slots : Place(s)' < Count' => Place(s) < Count
      BY <1>2, <1>3, <1>4, <2>7, <2>8, SMT
    <3> QED
      BY <1>1, <1>3, <2>2, <3>1 DEF Sorted
  <2>9. CASE push.ahead = 0
    <3>1. Number(push.head) = push.ev
      BY <1>1, <2>9 DEF OrderInv, Pending
    <3>2. \A s \in Slots : Place(s)' < Count' => s = push.head \/ Place(s) < Count
      BY <1>2, <1>3, <1>4, <2>3, <2>7, <2>9, SMT
    <3>3. \A s \in Slots : Place(s) < Count => polled[1] < Number(s) /\ Number(s) < push.ev
      BY <1>4, <2>2, <2>4, <2>9, SMT DEF Sorted
    <3>4. polled[1] < push.ev
      BY <1>4, <2>4, <2>9, SMT
    <3>5. \A s \in Slots : Place(s)' < Count' => polled'[1] < Number(s)'
      BY <1>1, <1>3, <3>1, <3>2, <3>3, <3>4
    <3>6. ASSUME NEW s \in Slots, NEW u \in Slots, Place(s)' < Place(u)', Place(u)' < Count'
          PROVE  Number(s)' < Number(u)'
      <4>1. Place(s) < Count
        BY <1>3, <1>4, <2>7, <2>9, <3>6, SMT
      <4>2. CASE u = push.head
        BY <1>3, <3>1, <3>3, <4>1, <4>2
      <4>3. CASE u # push.head
        BY <1>3, <2>2, <3>2, <3>6, <4>3 DEF Sorted
      <4> QED
        BY <4>2, <4>3
    <3> QED
      BY <3>5, <3>6 DEF Sorted
  <2> QED
    BY <1>2, <2>8, <2>9, SMT
<1>8. raced' \/ Whole'
  BY <1>1 DEF OrderInv, Whole
<1> QED
  BY <1>5, <1>6, <1>7, <1>8 DEF OrderInv

(* The oldest entry is delivered.                                          *)
LEMMA PollOrder ==
  ASSUME QueueInv, OrderInv, Events \in Nat, Events' = Events, Poll
  PROVE  /\ OrderInv'
         /\ overtaken \/ polled'[1] > polled[1]
         /\ raced \/ polled'[1] = polled'[2]
<1>1. /\ event_head # event_tail /\ polled' = event_queue[event_tail]
      /\ event_tail' = Succ(event_tail)
      /\ UNCHANGED <<event_queue, event_head, push, raced, overtaken>>
      /\ event_tail \in Slots
  BY DEF Poll, QueueInv, QueueTypeOK
<1>2. /\ polled'[1] = Number(event_tail) /\ \A s \in Slots : Number(s)' = Number(s)
      /\ push.ahead \in Nat /\ push.ev \in Nat
  BY <1>1 DEF Number, QueueInv, QueueTypeOK
<1>3. /\ Size \in Nat \ {0, 1} /\ Count \in 0 .. Size - 1
      /\ \A s \in Slots : Place(s) \in 0 .. Size - 1 /\ Number(s) \in Nat
      /\ Place(event_tail) = 0 /\ \A s, u \in Slots : Place(s) = Place(u) => s = u
  BY PlacesAre, EventRing DEF QueueInv
<1>4. /\ Count' = Count - 1 /\ Count > 0
      /\ \A s \in Slots : Place(s)' = IF s = event_tail THEN Size - 1 ELSE Place(s) - 1
  <2>1. event_tail' = IF event_tail = Size - 1 THEN 0 ELSE event_tail + 1
    BY <1>1, SuccIs
  <2>2. /\ Count' = Fill(Size, event_head, event_tail')
        /\ \A s \in Slots : Place(s)' = Fill(Size, s, event_tail')
    BY <1>1 DEF Count, Place
  <2>3. /\ event_tail \in 0 .. Size - 1 /\ event_head \in 0 .. Size - 1
        /\ Slots = 0 .. Size - 1 /\ Size \in Nat \ {0, 1}
    BY EventRing DEF QueueInv, QueueTypeOK, RingSlots
  <2> QED
    BY <1>1, <2>1, <2>2, <2>3, SMT DEF Count, Place, Fill
<1>5. \A s \in Slots : Place(s)' < Count' =>
        Place(s) > 0 /\ Place(s) < Count /\ Place(s)' = Place(s) - 1
  <2> TAKE s \in Slots
  <2>1. CASE s = event_tail
    BY <1>3, <1>4, <2>1, SMT
  <2>2. CASE s # event_tail
    <3>1. Place(s) # 0
      BY <1>1, <1>3, <2>2
    <3> QED
      BY <1>3, <1>4, <2>2, <3>1, SMT
  <2> QED
    BY <2>1, <2>2
<1>6. Numbered'
  BY <1>1, <1>2 DEF OrderInv, Numbered
<1>7. ASSUME Sorted PROVE Sorted' /\ polled'[1] > polled[1]
  <2>1. \A s \in Slots : Place(s)' < Count' => polled'[1] < Number(s)'
    BY <1>1, <1>2, <1>3, <1>5, <1>7, SMT DEF Sorted
  <2>2. ASSUME NEW s \in Slots, NEW u \in Slots, Place(s)' < Place(u)', Place(u)' < Count'
        PROVE  Number(s)' < Number(u)'
    <3>1. Place(s)' < Count'
      BY <1>3, <1>4, <2>2, SMT
    <3>2. Place(s) < Place(u) /\ Place(u) < Count
      BY <1>3, <1>5, <2>2, <3>1, SMT
    <3> QED
      BY <1>2, <1>7, <3>2 DEF Sorted
  <2>3. polled[1] < Number(event_tail) /\ polled[1] \in Nat
    BY <1>1, <1>3, <1>4, <1>7 DEF Sorted, QueueInv, QueueTypeOK
  <2> QED
    BY <1>1, <1>2, <1>3, <2>1, <2>2, <2>3, SMT DEF Sorted
<1>8. ASSUME Between PROVE Between'
  <2> SUFFICES ASSUME push.pc # "idle" PROVE Between'
    BY <1>1 DEF Between
  <2>1. /\ push.ahead <= Size =>
             event_head = IF push.head + push.ahead < Size THEN push.head + push.ahead
                          ELSE push.head + push.ahead - Size
        /\ push.ahead <= Count => polled[1] < push.ev
        /\ \A s \in Slots : Place(s) < Count =>
             /\ Place(s) + push.ahead < Count => Number(s) < push.ev
             /\ Place(s) + push.ahead >= Count => Number(s) >= push.ev
             /\ Place(s) + push.ahead > Count => Number(s) > push.ev
    BY <1>8 DEF Between
  <2>2. push.ahead <= Count' => polled'[1] < push.ev
    <3>1. push.ahead <= Count' => Place(event_tail) + push.ahead < Count
      BY <1>2, <1>3, <1>4, SMT
    <3> QED
      BY <1>1, <1>2, <1>3, <1>4, <2>1, <3>1
  <2>3. ASSUME NEW s \in Slots, Place(s)' < Count'
        PROVE  /\ Place(s)' + push'.ahead < Count' => Number(s)' < push'.ev
               /\ Place(s)' + push'.ahead >= Count' => Number(s)' >= push'.ev
               /\ Place(s)' + push'.ahead > Count' => Number(s)' > push'.ev
    <3>1. Place(s) < Count /\ Place(s)' = Place(s) - 1 /\ push' = push /\ Number(s)' = Number(s)
      BY <1>1, <1>2, <1>5, <2>3
    <3>2. /\ Place(s)' + push.ahead < Count' <=> Place(s) + push.ahead < Count
          /\ Place(s)' + push.ahead >= Count' <=> Place(s) + push.ahead >= Count
          /\ Place(s)' + push.ahead > Count' <=> Place(s) + push.ahead > Count
      BY <1>2, <1>3, <1>4, <3>1, SMT
    <3> QED
      BY <2>1, <3>1, <3>2
  <2> QED
    BY <1>1, <2>1, <2>2, <2>3 DEF Between
<1>9. Pending' /\ (raced' \/ Whole')
  BY <1>1 DEF OrderInv, Pending, Whole, Number
<1>10. raced \/ polled'[1] = polled'[2]
  BY <1>1 DEF OrderInv, Whole, QueueInv
<1> QED
  BY <1>1, <1>6, <1>7, <1>8, <1>9, <1>10 DEF OrderInv

(* Nothing was ever pushed: all numbers are zero. *)
LEMMA OrderInitInv == QueueInit /\ Events = 0 => OrderInv
<1> SUFFICES ASSUME QueueInit, Events = 0 PROVE OrderInv
  OBVIOUS
<1>1. /\ push.pc = "idle" /\ push.ev = 0 /\ polled[1] = 0 /\ event_head = event_tail
      /\ \A s \in Slots : event_queue[s][1] = 0 /\ event_queue[s][2] = 0
  BY DEF QueueInit, NoPush
<1>2. Count = 0 /\ \A s \in Slots : Place(s) \in 0 .. Size - 1
  BY <1>1, QueueInitInv, PlacesAre DEF QueueInv, Place, Count
<1>3. \A s \in Slots : ~(Place(s) < Count)
  BY <1>2, SMT
<1> QED
  BY <1>1, <1>3 DEF OrderInv, Numbered, Sorted, Between, Pending, Whole, Number

(* Every step of the ring keeps the order, and what a step delivers is     *)
(* younger than what was delivered before, and whole.                      *)
LEMMA OrderStep ==
  ASSUME QueueInv, OrderInv, Events \in Nat, Events' \in Nat, NumberedNext
  PROVE  /\ OrderInv'
         /\ polled' # polled => /\ overtaken \/ polled'[1] > polled[1]
                                /\ raced \/ polled'[1] = polled'[2]
<1>1. CASE IrqPush(Events + 1) /\ Events' = Events + 1
  BY <1>1, IrqPushOrder DEF IrqPush
<1>2. CASE PushReads(Events + 1) /\ Events' = Events + 1
  BY <1>2, PushReadsOrder DEF PushReads
<1>3. CASE Poll /\ Events' = Events
  BY <1>3, PollOrder
<1>4. CASE Push /\ Events' = Events
  <2>1. polled' = polled
    BY <1>4 DEF Push, PushCheck, PushType, PushRest, PushAdvance
  <2> QED
    BY <1>4, <2>1, PushCheckOrder, PushTypeOrder, PushRestOrder, PushAdvanceOrder DEF Push
<1>5. CASE UNCHANGED queueVars /\ Events' >= Events
  BY <1>5, SameOrder DEF queueVars
<1> QED
  BY <1>1, <1>2, <1>3, <1>4, <1>5 DEF NumberedNext
------------------------------------------------------------------------------
LinesAgree == only # Nobody => cmd_line[only] = input_buffer

IInv == TypeOK /\ QueueInv /\ OrderInv /\ LinesAgree

(* Events are counted, before a step and after it. *)
LEMMA EventsCount ==
  /\ TypeOK => Events \in Nat
  /\ TypeOK' => Events' \in Nat
<1>1. keys \in Nat /\ clicks \in Nat => Events \in Nat
  BY DEF Events
<1>2. ASSUME NEW k \in Nat, NEW c \in Nat, k = keys', c = clicks' PROVE Events' \in Nat
  <2>1. Events' = k + c
    BY <1>2 DEF Events
  <2> QED
    BY <2>1, SMT
<1>3. /\ TypeOK => keys \in Nat /\ clicks \in Nat
      /\ TypeOK' => keys' \in Nat /\ clicks' \in Nat
  BY DEF TypeOK
<1> QED
  BY <1>1, <1>2, <1>3

(* Whatever happens, the ring takes a step of its own or none, and a new   *)
(* event gets the next number.                                             *)
LEMMA EventSteps == TypeOK /\ [Next]_vars => NumberedNext
<1> SUFFICES ASSUME TypeOK, [Next]_vars PROVE NumberedNext
  OBVIOUS
<1>1. keys \in Nat /\ clicks \in Nat
  BY DEF TypeOK
<1>2. ASSUME NEW c, WindowKey(c), keys' = keys + 1, clicks' = clicks PROVE NumberedNext
  BY <1>1, <1>2 DEF WindowKey, NumberedNext, Events
<1>3. ASSUME UNCHANGED queueVars, keys' \in {keys, keys + 1}, clicks' = clicks PROVE NumberedNext
  <2>1. Events' >= Events
    <3>1. keys' = keys /\ clicks' = clicks => Events' = keys + clicks
      BY DEF Events
    <3>2. keys' = keys + 1 /\ clicks' = clicks => Events' = keys + 1 + clicks
      BY DEF Events
    <3>3. Events' = keys + clicks \/ Events' = keys + 1 + clicks
      BY <1>3, <3>1, <3>2
    <3> QED
      BY <1>1, <3>3, SMT DEF Events
  <2> QED
    BY <1>3, <2>1 DEF NumberedNext
<1>4. ASSUME NEW c \in Chars, Press(c) PROVE NumberedNext
  BY <1>2, <1>4 DEF Press
<1>5. CASE PressGui
  <2>1. keys' = keys + 1 /\ clicks' = clicks
    BY <1>5 DEF PressGui
  <2> QED
    BY <1>2, <1>3, <1>5, <2>1 DEF PressGui
<1>6. CASE UserPoll \/ Clicked
  BY <1>6 DEF UserPoll, Clicked, NumberedNext, Events, lineVars
<1>7. CASE Click
  BY <1>1, <1>7 DEF Click, NumberedNext, Events, lineVars
<1>8. CASE Open \/ (\E t \in Terminals : CreateTerminal(t)) \/ TerminalReady
             \/ (\E w \in opened : Focus(w)) \/ Minimise \/ UNCHANGED vars
  <2>1. UNCHANGED <<queueVars, keys, clicks>>
    BY <1>8 DEF Open, CreateTerminal, TerminalReady, Focus, Minimise, vars, lineVars
  <2> QED
    BY <1>1, <1>3, <2>1
<1> QED
  BY <1>4, <1>5, <1>6, <1>7, <1>8 DEF Next

LEMMA RingSteps == TypeOK /\ [Next]_vars => [QueueNext]_queueVars
<1> SUFFICES ASSUME TypeOK, [Next]_vars PROVE [QueueNext]_queueVars
  OBVIOUS
<1>1. NumberedNext
  BY EventSteps
<1>2. Events + 1 \in Nat
  BY EventsCount
<1> QED
  BY <1>1, <1>2 DEF NumberedNext, QueueNext

(* A terminal's line stays one. *)
LEMMA LineTypes ==
  ASSUME NEW c \in Chars, NEW line \in Seq(Letters), Len(line) <= MaxLine
  PROVE  TerminalLine(line, c) \in Seq(Letters) /\ Len(TerminalLine(line, c)) <= MaxLine
<1>1. MaxLine \in Nat
  BY InputAssumption
<1>2. CASE c = "enter"
  BY <1>1, <1>2 DEF TerminalLine
<1>3. CASE c = "back" /\ line = <<>>
  BY <1>1, <1>3 DEF TerminalLine, Letters
<1>4. CASE c = "back" /\ line # <<>>
  <2>1. Front(line) \in Seq(Letters) /\ Len(Front(line)) = Len(line) - 1
    BY <1>4, FrontIs
  <2>2. TerminalLine(line, c) = Front(line)
    BY <1>4 DEF TerminalLine, Letters
  <2> QED
    BY <1>1, <2>1, <2>2
<1>5. CASE c \in Letters /\ Len(line) < MaxLine
  <2>1. TerminalLine(line, c) = Append(line, c)
    BY <1>5 DEF TerminalLine, Letters
  <2> QED
    BY <1>1, <1>5, <2>1
<1>6. CASE c \notin {"enter", "back"} /\ ~(c \in Letters /\ Len(line) < MaxLine)
  BY <1>6 DEF TerminalLine
<1> QED
  BY <1>2, <1>3, <1>4, <1>5, <1>6 DEF Letters

(* The handler's line stays one. *)
LEMMA BufferTypes ==
  ASSUME NEW c \in Chars, NEW line \in Seq(Letters \cup {"tab"}), Len(line) <= MaxInput
  PROVE  InputLine(line, c) \in Seq(Letters \cup {"tab"}) /\ Len(InputLine(line, c)) <= MaxInput
<1>1. MaxInput \in Nat
  BY InputAssumption
<1>2. CASE c = "enter"
  BY <1>1, <1>2 DEF InputLine
<1>3. CASE c = "back" /\ line = <<>>
  BY <1>1, <1>3 DEF InputLine, Letters
<1>4. CASE c = "back" /\ line # <<>>
  <2>1. Front(line) \in Seq(Letters \cup {"tab"}) /\ Len(Front(line)) = Len(line) - 1
    BY <1>4, FrontIs
  <2>2. InputLine(line, c) = Front(line)
    BY <1>4 DEF InputLine, Letters
  <2> QED
    BY <1>1, <2>1, <2>2
<1>5. CASE c \in Letters \cup {"tab"} /\ Len(line) < MaxInput
  <2>1. InputLine(line, c) = Append(line, c)
    BY <1>5 DEF InputLine, Letters
  <2> QED
    BY <1>1, <1>5, <2>1
<1>6. CASE c \notin {"enter", "back"} /\ ~(c \in Letters \cup {"tab"} /\ Len(line) < MaxInput)
  BY <1>6 DEF InputLine
<1> QED
  BY <1>2, <1>3, <1>4, <1>5, <1>6 DEF Letters

(* A key that both lines take does the same to both. *)
LEMMA SameKey ==
  ASSUME NEW line \in Seq(Letters), NEW c \in Letters \cup {"back"},
         c = "back" \/ Len(line) < MaxLine
  PROVE  TerminalLine(line, c) = InputLine(line, c)
<1>1. MaxLine \in Nat /\ MaxInput \in Nat /\ MaxLine <= MaxInput
  BY InputAssumption
<1>2. CASE c = "back"
  BY <1>2 DEF TerminalLine, InputLine
<1>3. CASE c \in Letters
  <2>1. Len(line) < MaxInput
    BY <1>1, <1>3 DEF Letters
  <2> QED
    BY <1>3, <2>1 DEF TerminalLine, InputLine, Letters
<1> QED
  BY <1>2, <1>3
------------------------------------------------------------------------------
(* What a key has run: nothing but after Enter, and at most a line for the *)
(* terminal in front and one for the handler.                              *)
LEMMA RunsAre ==
  ASSUME TypeOK, NEW c \in Chars
  PROVE  /\ \A r \in Range(TerminalRuns(c) \o HandlerRuns(c)) : r[1] \in Terminals \cup {"handler"}
         /\ c # "enter" => TerminalRuns(c) \o HandlerRuns(c) = <<>>
<1>1. TerminalRuns(c) \in {<<>>, << <<front, cmd_line[front]>> >>}
  BY DEF TerminalRuns
<1>2. HandlerRuns(c) \in {<<>>, << <<"handler", input_buffer>> >>}
  BY DEF HandlerRuns
<1>3. TerminalRuns(c) # <<>> => front \in Terminals
  BY DEF TerminalRuns, TypeOK
<1>4. c # "enter" => TerminalRuns(c) = <<>> /\ HandlerRuns(c) = <<>>
  BY DEF TerminalRuns, HandlerRuns
<1> QED
  BY <1>1, <1>2, <1>3, <1>4 DEF Range

(* Before the first key every line is empty and the ring holds zeros.      *)
LEMMA InitInv == Init => IInv
<1> SUFFICES ASSUME Init PROVE IInv
  OBVIOUS
<1>1. QueueInv
  BY QueueInitInv DEF Init
<1>2. TypeOK
  <2>1. QueueTypeOK
    BY <1>1 DEF QueueInv
  <2>2. MaxLine \in Nat /\ MaxInput \in Nat
    BY InputAssumption
  <2>3. cmd_line \in [Terminals -> Seq(Letters)] /\ \A t \in Terminals : Len(cmd_line[t]) <= MaxLine
    BY <2>2 DEF Init
  <2>4. input_buffer \in Seq(Letters \cup {"tab"}) /\ Len(input_buffer) <= MaxInput
    BY <2>2 DEF Init
  <2>5. \A r \in Range(ran) : r[1] \in Terminals \cup {"handler"}
    BY DEF Init, Range
  <2> QED
    BY <2>1, <2>3, <2>4, <2>5 DEF Init, TypeOK
<1>3. OrderInv
  BY OrderInitInv DEF Init, Events
<1> QED
  BY <1>1, <1>2, <1>3 DEF Init, IInv, LinesAgree

(* The terminals' lines are lines. *)
LinesOK ==
  /\ cmd_line \in [Terminals -> Seq(Letters)]
  /\ \A t \in Terminals : Len(cmd_line[t]) <= MaxLine

(* wm_handle_key changes no other line and overfills none. *)
LEMMA WindowKeyTypes ==
  ASSUME TypeOK, NEW c \in Chars, WindowKey(c)
  PROVE  LinesOK'
<1> USE DEF LinesOK
<1>1. LinesOK /\ (front \in ready => front \in Terminals)
  BY DEF TypeOK
<1>2. CASE front \notin ready
  BY <1>1, <1>2 DEF WindowKey
<1>3. CASE front \in ready
  <2>1. cmd_line' = [cmd_line EXCEPT ![front] = TerminalLine(cmd_line[front], c)]
    BY <1>3 DEF WindowKey
  <2>2. /\ TerminalLine(cmd_line[front], c) \in Seq(Letters)
        /\ Len(TerminalLine(cmd_line[front], c)) <= MaxLine
    BY <1>1, <1>3, LineTypes
  <2> QED
    BY <1>1, <1>3, <2>1, <2>2
<1> QED
  BY <1>2, <1>3

(* The windows after the commands of a key. *)
LEMMA CommandsTypes ==
  ASSUME TypeOK, NEW runs, Commands(runs)
  PROVE  /\ opened' \subseteq Terminals \cup {User, Browser}
         /\ opened \subseteq opened' /\ front' \in opened' \cup {Nobody}
BY DEF TypeOK, Commands

(* No step makes a variable lose its type. *)
LEMMA StepType == TypeOK /\ QueueInv /\ [Next]_vars => TypeOK'
<1> SUFFICES ASSUME TypeOK, QueueInv, [Next]_vars PROVE TypeOK'
  OBVIOUS
<1>0. QueueTypeOK'
  BY RingSteps, QueueStep DEF QueueInv
<1>1. ASSUME NEW c \in Chars, Press(c) PROVE TypeOK'
  <2>1. LinesOK'
    BY <1>1, WindowKeyTypes DEF Press
  <2>2. input_buffer' \in Seq(Letters \cup {"tab"}) /\ Len(input_buffer') <= MaxInput
    BY <1>1, BufferTypes DEF Press, TypeOK
  <2>3. /\ opened' \subseteq Terminals \cup {User, Browser}
        /\ opened \subseteq opened' /\ front' \in opened' \cup {Nobody}
    BY <1>1, CommandsTypes DEF Press
  <2>4. \A r \in Range(ran') : r[1] \in Terminals \cup {"handler"}
    BY <1>1, RunsAre DEF Press
  <2>5. only' \in ready \cup {Nobody}
    BY <1>1 DEF Press, OnlyAfter
  <2>6. UNCHANGED <<ready, creating, halted, clicks>> /\ keys' \in Nat
    BY <1>1 DEF Press, TypeOK
  <2> QED
    BY <1>0, <2>1, <2>2, <2>3, <2>4, <2>5, <2>6 DEF TypeOK, LinesOK
<1>2. CASE PressGui
  <2>0. "enter" \in Chars
    BY DEF Chars
  <2>1. LinesOK'
    <3>1. CASE UNCHANGED cmd_line
      BY <3>1 DEF LinesOK, TypeOK
    <3>2. CASE WindowKey("enter")
      BY <2>0, <3>2, WindowKeyTypes
    <3> QED
      BY <1>2, <3>1, <3>2 DEF PressGui
  <2>2. /\ opened' \subseteq Terminals \cup {User, Browser}
        /\ opened \subseteq opened' /\ front' \in opened' \cup {Nobody}
    BY <1>2, CommandsTypes DEF PressGui
  <2>3. \A r \in Range(ran') : r[1] \in Terminals \cup {"handler"}
    BY <1>2, <2>0, RunsAre DEF PressGui
  <2>4. /\ UNCHANGED <<ready, creating, input_buffer, only, clicks>>
        /\ keys' \in Nat /\ halted' = TRUE
    BY <1>2 DEF PressGui, TypeOK
  <2> QED
    BY <1>0, <2>1, <2>2, <2>3, <2>4 DEF TypeOK, LinesOK
<1>3. CASE Open
  BY <1>0, <1>3 DEF Open, TypeOK, lineVars
<1>4. CASE UserPoll \/ Clicked \/ UNCHANGED vars
  <2>1. UNCHANGED <<windowVars, lineVars, clicks>>
    BY <1>4 DEF UserPoll, Clicked, vars
  <2> QED
    BY <1>0, <2>1 DEF TypeOK, windowVars, lineVars
<1>5. ASSUME NEW t \in Terminals, CreateTerminal(t) PROVE TypeOK'
  BY <1>0, <1>5 DEF CreateTerminal, TypeOK, lineVars
<1>6. CASE TerminalReady
  BY <1>0, <1>6 DEF TerminalReady, TypeOK, lineVars
<1>7. ASSUME NEW w \in opened, Focus(w) PROVE TypeOK'
  BY <1>0, <1>7 DEF Focus, TypeOK, lineVars
<1>8. CASE Click
  BY <1>0, <1>8 DEF Click, TypeOK, lineVars
<1>9. CASE Minimise
  BY <1>0, <1>9 DEF Minimise, TypeOK, lineVars
<1> QED
  BY <1>1, <1>2, <1>3, <1>4, <1>5, <1>6, <1>7, <1>8, <1>9 DEF Next

(* One command after another. *)
LEMMA Joined ==
  ASSUME NEW a, NEW b
  PROVE  <<a>> \o <<>> = <<a>> /\ <<a>> \o <<b>> = <<a, b>>
<1> DEFINE S == {a, b}
<1>1. <<a>> \in Seq(S) /\ <<b>> \in Seq(S) /\ <<>> \in Seq(S) /\ <<a, b>> \in Seq(S)
  OBVIOUS
<1>2. <<a>> \o <<>> = <<a>>
  BY <1>1, ConcatEmptySeq
<1>3. /\ <<a>> \o <<b>> \in Seq(S) /\ Len(<<a>> \o <<b>>) = 2
      /\ (<<a>> \o <<b>>)[1] = a /\ (<<a>> \o <<b>>)[2] = b
  BY <1>1, ConcatProperties
<1> DEFINE s == <<a>> \o <<b>>
           t == <<a, b>>
<1>4. s \in Seq(S) /\ t \in Seq(S) /\ Len(s) = Len(t) /\ Len(s) = 2
  BY <1>1, <1>3
<1>5. s[1] = t[1] /\ s[2] = t[2]
  BY <1>3
<1> HIDE DEF s, t
<1>6. \A i \in 1 .. Len(s) : s[i] = t[i]
  BY <1>4, <1>5, SMT
<1>7. s = t
  BY <1>4, <1>6, SeqEqual
<1> QED
  BY <1>2, <1>7 DEF s, t

(* What Enter runs when both lines are one terminal's. *)
LEMMA OnlyRuns ==
  ASSUME TypeOK, LinesAgree, only # Nobody, front = only
  PROVE  LET once == <<only, input_buffer>>
             twice == <<"handler", input_buffer>>
         IN /\ TerminalRuns("enter") = IF input_buffer = <<>> THEN <<>> ELSE <<once>>
            /\ HandlerRuns("enter") = IF input_buffer = <<>> \/ StartsGui(input_buffer) THEN <<>> ELSE <<twice>>
<1> DEFINE once == <<only, input_buffer>>
<1>1. front \in ready /\ cmd_line[front] = input_buffer
  BY DEF LinesAgree, TypeOK
<1>2. TerminalRuns("enter") = IF input_buffer = <<>> THEN <<>> ELSE <<once>>
  BY <1>1 DEF TerminalRuns
<1>3. CASE input_buffer = <<>>
  BY <1>2, <1>3 DEF HandlerRuns
<1>4. CASE input_buffer # <<>>
  <2>1. Range(TerminalRuns("enter")) = {once}
    BY <1>2, <1>4 DEF Range
  <2>2. once[2] = input_buffer
    OBVIOUS
  <2>3. (\E r \in Range(TerminalRuns("enter")) : StartsGui(r[2])) <=> StartsGui(input_buffer)
    BY <2>1, <2>2
  <2> QED
    BY <1>2, <1>4, <2>3 DEF HandlerRuns
<1> QED
  BY <1>2, <1>3, <1>4

(* gui runs in the first line if both are the same. *)
LEMMA GuiFirst ==
  ASSUME TypeOK, LinesAgree, only # Nobody, front = only, PressGui
  PROVE  /\ StartsGui(input_buffer) /\ ran' = << <<only, input_buffer>> >>
         /\ HandlerRuns("enter") = <<>>
<1> DEFINE once == <<only, input_buffer>>
           twice == <<"handler", input_buffer>>
<1>1. /\ ran' = TerminalRuns("enter") \o HandlerRuns("enter")
      /\ \E r \in Range(ran') : StartsGui(r[2])
  BY DEF PressGui
<1>2. /\ TerminalRuns("enter") = IF input_buffer = <<>> THEN <<>> ELSE <<once>>
      /\ HandlerRuns("enter") = IF input_buffer = <<>> \/ StartsGui(input_buffer) THEN <<>> ELSE <<twice>>
  BY OnlyRuns
<1>3. CASE input_buffer = <<>>
  <2>1. Range(ran') = {}
    BY <1>1, <1>2, <1>3 DEF Range
  <2> QED
    BY <1>1, <2>1
<1>4. CASE input_buffer # <<>> /\ StartsGui(input_buffer)
  <2>1. TerminalRuns("enter") = <<once>> /\ HandlerRuns("enter") = <<>>
    BY <1>2, <1>4
  <2> QED
    BY <1>1, <1>4, <2>1, Joined
<1>5. CASE input_buffer # <<>> /\ ~StartsGui(input_buffer)
  <2>0. TerminalRuns("enter") = <<once>> /\ HandlerRuns("enter") = <<twice>>
    BY <1>2, <1>5
  <2>1. ran' = <<once, twice>>
    BY <1>1, <2>0, Joined
  <2>2. Range(ran') = {once, twice}
    BY <2>1 DEF Range
  <2>3. once[2] = input_buffer /\ twice[2] = input_buffer
    OBVIOUS
  <2> QED
    BY <1>1, <1>5, <2>2, <2>3
<1> QED
  BY <1>3, <1>4, <1>5

(* No step makes the two lines of a terminal that got all of both differ. *)
LEMMA StepLines == TypeOK /\ LinesAgree /\ [Next]_vars => LinesAgree'
<1> SUFFICES ASSUME TypeOK, LinesAgree, [Next]_vars PROVE LinesAgree'
  OBVIOUS
<1>1. ASSUME NEW c \in Chars, Press(c), only' # Nobody PROVE cmd_line'[only'] = input_buffer'
  <2>1. /\ front \in ready /\ only' = front
        /\ only = front \/ (input_buffer = <<>> /\ cmd_line[front] = <<>>)
        /\ c = "back" \/ (c \in Letters /\ Len(cmd_line[front]) < MaxLine)
    BY <1>1 DEF Press, OnlyAfter
  <2>2. front \in Terminals /\ front # Nobody
    BY <2>1, InputAssumption DEF TypeOK
  <2>3. cmd_line[front] = input_buffer /\ cmd_line[front] \in Seq(Letters)
    BY <2>1, <2>2 DEF LinesAgree, TypeOK
  <2>4. TerminalLine(cmd_line[front], c) = InputLine(cmd_line[front], c)
    BY <2>1, <2>3, SameKey
  <2>5. cmd_line'[front] = TerminalLine(cmd_line[front], c)
    BY <1>1, <2>1, <2>2 DEF Press, WindowKey, TypeOK
  <2> QED
    BY <1>1, <2>1, <2>3, <2>4, <2>5 DEF Press
<1>2. ASSUME PressGui, only # Nobody PROVE cmd_line'[only'] = input_buffer'
  <2>1. only' = only /\ input_buffer' = input_buffer /\ cmd_line[only] = input_buffer
    BY <1>2 DEF PressGui, LinesAgree
  <2>2. CASE front = only
    <3>1. HandlerRuns("enter") = <<>>
      BY <1>2, <2>2, GuiFirst
    <3> QED
      BY <1>2, <2>1, <3>1 DEF PressGui
  <2>3. CASE front # only
    <3>1. only \in Terminals
      BY <1>2 DEF TypeOK
    <3>2. cmd_line'[only] = cmd_line[only]
      BY <1>2, <2>3, <3>1 DEF PressGui, WindowKey, TypeOK
    <3> QED
      BY <2>1, <3>2
  <2> QED
    BY <2>2, <2>3
<1>3. CASE UNCHANGED lineVars
  BY <1>3 DEF lineVars, LinesAgree
<1>4. CASE Open \/ UserPoll \/ (\E t \in Terminals : CreateTerminal(t)) \/ TerminalReady
             \/ (\E w \in opened : Focus(w)) \/ Click \/ Clicked \/ Minimise \/ UNCHANGED vars
  BY <1>3, <1>4 DEF Open, UserPoll, CreateTerminal, TerminalReady, Focus, Click, Clicked, Minimise, vars
<1>5. CASE PressGui
  <2>1. only' = only
    BY <1>5 DEF PressGui
  <2> QED
    BY <1>2, <1>5, <2>1 DEF LinesAgree
<1>6. ASSUME NEW c \in Chars, Press(c) PROVE LinesAgree'
  BY <1>1, <1>6 DEF LinesAgree
<1> QED
  BY <1>4, <1>5, <1>6 DEF Next

(* No key, click, poll or new window breaks the invariant.                 *)
LEMMA StepInv == IInv /\ [Next]_vars => IInv'
<1> SUFFICES ASSUME IInv, [Next]_vars PROVE IInv'
  OBVIOUS
<1>1. TypeOK' /\ QueueInv' /\ LinesAgree'
  BY StepType, StepLines, RingSteps, QueueStep DEF IInv
<1>2. Events \in Nat /\ Events' \in Nat
  BY <1>1, EventsCount DEF IInv
<1>3. OrderInv'
  BY <1>2, EventSteps, OrderStep DEF IInv
<1> QED
  BY <1>1, <1>3 DEF IInv

(* The inductive invariant holds for ever: types, what an undisturbed push *)
(* knows of the ring, and lines that agree.                                *)
THEOREM Invariance == Spec => []IInv
<1> QED
  BY InitInv, StepInv, PTL DEF Spec

(* Every variable keeps its type: no line outgrows its buffer, no window   *)
(* that is not open takes keys.                                            *)
THEOREM TypeCorrect == Spec => []TypeOK
<1>1. IInv => TypeOK
  BY DEF IInv
<1> QED
  BY <1>1, Invariance, PTL

(* The ring is a queue but for the GUI loop's steps in a push that         *)
(* handlers came into.                                                     *)
THEOREM RingIsQueue == Spec => QueueUnlessRaced
<1>1. Init => Abstract!Init
  <2>1. Init => Queued = <<>>
    <3> SUFFICES ASSUME Init PROVE Queued = <<>>
      OBVIOUS
    <3>1. Filled = 0
      BY EventRing, ModOnce, SMT DEF Init, QueueInit, Filled
    <3> QED
      BY <3>1 DEF Queued
  <2> QED
    BY <2>1 DEF Abstract!Init
<1>2. IInv /\ [Next]_vars =>
        [(push.ahead > 0 /\ push'.pc # push.pc) \/ Abstract!Put \/ Abstract!Get]_Queued
  BY RingSteps, QueueActs DEF IInv
<1> QED
  BY <1>1, <1>2, Invariance, PTL DEF Spec, QueueUnlessRaced

(* What the process gets is younger than what it got before, unless the    *)
(* GUI loop was overtaken, and whole, unless it raced.                     *)
THEOREM InOrder == Spec => DeliveredInOrder
<1> DEFINE A == polled' # polled => /\ overtaken \/ polled'[1] > polled[1]
                                    /\ raced \/ polled'[1] = polled'[2]
<1>1. IInv /\ [Next]_vars => [A]_polled
  <2> SUFFICES ASSUME IInv, [Next]_vars PROVE A
    OBVIOUS
  <2>0. TypeOK /\ TypeOK'
    BY StepInv DEF IInv
  <2>1. Events \in Nat /\ Events' \in Nat
    BY <2>0, EventsCount
  <2> QED
    BY <2>1, EventSteps, OrderStep DEF IInv
<1> QED
  BY <1>1, Invariance, PTL DEF Spec, DeliveredInOrder

(* A command typed into one terminal is run twice, unless it is gui.       *)
THEOREM CommandsTwice == Spec => RunsTwice
<1> DEFINE once == <<only, input_buffer>>
           twice == <<"handler", input_buffer>>
           A == keys' # keys /\ ran' # <<>> /\ only # Nobody /\ front = only =>
                  ran' = IF StartsGui(input_buffer) THEN <<once>> ELSE <<once, twice>>
<1>1. ASSUME IInv, [Next]_vars, keys' # keys, ran' # <<>>, only # Nobody, front = only
      PROVE  ran' = IF StartsGui(input_buffer) THEN <<once>> ELSE <<once, twice>>
  <2>0. TypeOK /\ LinesAgree
    BY <1>1 DEF IInv
  <2>1. CASE PressGui
    BY <1>1, <2>0, <2>1, GuiFirst
  <2>2. ASSUME NEW c \in Chars, Press(c)
        PROVE  ran' = IF StartsGui(input_buffer) THEN <<once>> ELSE <<once, twice>>
    <3>1. c = "enter"
      BY <1>1, <2>0, <2>2, RunsAre DEF Press
    <3>2. /\ ran' = TerminalRuns("enter") \o HandlerRuns("enter")
          /\ \A r \in Range(ran') : ~StartsGui(r[2])
      BY <2>2, <3>1 DEF Press
    <3>3. /\ TerminalRuns("enter") = IF input_buffer = <<>> THEN <<>> ELSE <<once>>
          /\ HandlerRuns("enter") = IF input_buffer = <<>> \/ StartsGui(input_buffer) THEN <<>> ELSE <<twice>>
      BY <1>1, <2>0, OnlyRuns
    <3>4. input_buffer # <<>>
      BY <1>1, <3>2, <3>3
    <3>5. TerminalRuns("enter") = <<once>>
      BY <3>3, <3>4
    <3>6. CASE StartsGui(input_buffer)
      <4>1. HandlerRuns("enter") = <<>>
        BY <3>3, <3>6
      <4> QED
        BY <3>2, <3>5, <3>6, <4>1, Joined
    <3>7. CASE ~StartsGui(input_buffer)
      <4>1. HandlerRuns("enter") = <<twice>>
        BY <3>3, <3>4, <3>7
      <4> QED
        BY <3>2, <3>5, <3>7, <4>1, Joined
    <3> QED
      BY <3>6, <3>7
  <2>3. CASE UNCHANGED lineVars
    BY <1>1, <2>3 DEF lineVars
  <2> QED
    BY <1>1, <2>1, <2>2, <2>3
       DEF Next, Open, UserPoll, CreateTerminal, TerminalReady, Focus, Click, Clicked, Minimise, vars
<1>2. IInv /\ [Next]_vars => [A]_vars
  BY <1>1
<1> QED
  BY <1>2, Invariance, PTL DEF Spec, RunsTwice
=============================================================================
