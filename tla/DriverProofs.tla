----------------------------- MODULE DriverProofs ----------------------------
(***************************************************************************)
(* Proofs about the drivers that Drivers runs side by side.                *)
(*                                                                         *)
(* Nvme, for rings of any size and any number of calls, as long as fewer   *)
(* time out than the rings have entries: RingsInStep, and that both rings  *)
(* are queues.                                                             *)
(* The driver knows the completion ring by phase bits alone; PhasesTell    *)
(* says what they mean on each side of the controller's tail, and          *)
(* PhasesAgree in which round the driver is.  The submission ring holds    *)
(* the last calls in order (CommandsInOrder), so the controller never has  *)
(* one twice, and it never fills, because AllCounted counts what is under  *)
(* way and the driver starts no call while it is in another.               *)
(*                                                                         *)
(* NvmeStart: RegisteredOverQueues, from what can still be under way at    *)
(* each step of the start (InTime), and, once the identify of the          *)
(* namespace has timed out, from the driver being one completion behind    *)
(* ever since (OneBehind).                                                 *)
(*                                                                         *)
(* Ahci, for any disks, ports and slots: a scan reports what is on the     *)
(* disk, for what it has found is what the entries before the present one  *)
(* stand for (FoundUpTo), as long as the partition table has 128 sectors   *)
(* at most; and a call's success is its own command's, for no other        *)
(* command has its number (OnlyHere), and what leaves CI has moved what    *)
(* was asked for (CallIs), again up to 128 sectors (MovesOwn).             *)
(*                                                                         *)
(* Xhci: the rings of commands and of events are queues as long as nothing *)
(* is added to them unasked.  Rtl8139: the ring of frames is never misread *)
(* and the descriptors are sent in turn.                                   *)
(*                                                                         *)
(* Net and Echo: the sum ip_checksum folds as it goes is the plain sum but *)
(* for whole rounds of 0xffff (SumsAgree), so every checksum is right, and *)
(* right for the address reversed only when it is balanced (OnlyBalanced). *)
(* Hence AnswersConform, and EchoIsPrefix: while a peer has one segment    *)
(* under way, what a segment's numbers name is what is in it (EchoInv).    *)
(***************************************************************************)
EXTENDS Drivers, DataProofs, FiniteSetTheorems

(* The commands not fetched and the completions not taken. *)
Unfetched == Fill(Entries, io_sq_tail, device.sq_head)
Answers == Fill(Entries, device.cq_tail, io_cq_head)

AllCounted ==
  Unfetched + Cardinality(device.busy) + Answers = timeouts + (IF waiting THEN 1 ELSE 0)

(* Before its tail the controller has written this round's phase, behind   *)
(* it the entries still have the last round's.                             *)
PhasesTell ==
  \A i \in Slots :
    io_cq[i].phase = IF i < device.cq_tail THEN device.phase ELSE 1 - device.phase

(* The driver is in the controller's round, or in the one before. *)
PhasesAgree ==
  io_phase = IF io_cq_head <= device.cq_tail THEN device.phase ELSE 1 - device.phase

(* The commands not fetched are the last calls', in order. *)
CommandsInOrder ==
  /\ Unfetched <= call
  /\ \A k \in 1 .. Unfetched : io_sq[Nth(Entries, device.sq_head, k)] = call - Unfetched + k
  /\ device.busy \subseteq 1 .. call - Unfetched

(* Until the first timeout only the present call is under way. *)
OnlyPresentCall ==
  timeouts = 0 /\ waiting =>
    /\ device.busy \subseteq {call}
    /\ io_cq_head # device.cq_tail => io_cq[io_cq_head].of = call

NvmeInv ==
  /\ TypeOK
  /\ OwnUntilTimeout
  /\ AllCounted
  /\ PhasesTell
  /\ PhasesAgree
  /\ CommandsInOrder
  /\ OnlyPresentCall

(* Both rings are rings of Entries entries. *)
LEMMA NvmeRing ==
  /\ Entries \in Nat \ {0, 1} /\ Slots = RingSlots(Entries) /\ 0 \in Slots
  /\ \A i \in Slots : /\ After(i) = Onward(Entries, i) /\ After(i) \in Slots
                      /\ After(i) = IF i = Entries - 1 THEN 0 ELSE i + 1
                      /\ i \in Nat /\ i < Entries
<1>1. Entries \in Nat \ {0, 1} /\ Slots = RingSlots(Entries) /\ 0 \in Slots
  BY NvmeAssumption DEF Slots, RingSlots
<1>2. \A i \in RingSlots(Entries) :
        /\ Onward(Entries, i) \in RingSlots(Entries)
        /\ Onward(Entries, i) = IF i = Entries - 1 THEN 0 ELSE i + 1
  BY <1>1, OnwardIs
<1>3. \A i \in Slots : After(i) = Onward(Entries, i)
  BY DEF After, Onward
<1>4. \A i \in Slots : i \in Nat /\ i < Entries
  BY <1>1 DEF Slots
<1> QED
  BY <1>1, <1>2, <1>3, <1>4

(* The difference the model takes is the fill of the ring. *)
LEMMA OutstandingIs ==
  ASSUME NEW head \in Slots, NEW tail \in Slots
  PROVE  /\ Outstanding(head, tail) = Fill(Entries, tail, head)
         /\ Fill(Entries, tail, head) \in 0 .. Entries - 1
         /\ Fill(Entries, tail, head) = 0 <=> head = tail
<1>1. head \in RingSlots(Entries) /\ tail \in RingSlots(Entries) /\ Entries \in Nat \ {0, 1}
  BY NvmeRing
<1>2. /\ Fill(Entries, tail, head) \in 0 .. Entries - 1
      /\ (tail + Entries - head) % Entries = Fill(Entries, tail, head)
      /\ Fill(Entries, tail, head) = 0 <=> tail = head
  BY <1>1, FillIs
<1> QED
  BY <1>2 DEF Outstanding

(* What is counted are numbers; a ring is empty when its ends meet. *)
LEMMA NvmeNumbers ==
  ASSUME TypeOK
  PROVE  /\ Unfetched \in 0 .. Entries - 1 /\ (Unfetched = 0 <=> device.sq_head = io_sq_tail)
         /\ Answers \in 0 .. Entries - 1 /\ (Answers = 0 <=> io_cq_head = device.cq_tail)
         /\ Unfetched = Outstanding(device.sq_head, io_sq_tail)
         /\ Answers = Outstanding(io_cq_head, device.cq_tail)
         /\ IsFiniteSet(device.busy) /\ Cardinality(device.busy) \in Nat
         /\ Cardinality(device.busy) = 0 <=> device.busy = {}
<1>1. /\ io_sq_tail \in Slots /\ device.sq_head \in Slots
      /\ device.cq_tail \in Slots /\ io_cq_head \in Slots
  BY DEF TypeOK
<1>2. /\ Unfetched \in 0 .. Entries - 1 /\ (Unfetched = 0 <=> device.sq_head = io_sq_tail)
      /\ Unfetched = Outstanding(device.sq_head, io_sq_tail)
  BY <1>1, OutstandingIs DEF Unfetched
<1>3. /\ Answers \in 0 .. Entries - 1 /\ (Answers = 0 <=> io_cq_head = device.cq_tail)
      /\ Answers = Outstanding(io_cq_head, device.cq_tail)
  BY <1>1, OutstandingIs DEF Answers
<1>4. IsFiniteSet(device.busy)
  <2>1. IsFiniteSet(1 .. MaxCalls)
    BY NvmeAssumption, FS_Interval
  <2> QED
    BY <2>1, FS_Subset DEF TypeOK
<1> QED
  BY <1>2, <1>3, <1>4, FS_CardinalityType, FS_EmptySet
------------------------------------------------------------------------------
(* Zeroed rings. *)
LEMMA NvmeInit == Init => NvmeInv
<1> SUFFICES ASSUME Init PROVE NvmeInv
  OBVIOUS
<1>1. TypeOK
  <2>1. device \in [sq_head : Slots, cq_tail : Slots, phase : {0, 1}, busy : SUBSET (1 .. MaxCalls)]
    BY NvmeRing DEF Init
  <2>2. 0 \in Calls /\ 0 \in 0 .. MaxTimeouts /\ 0 \in Statuses
    BY NvmeAssumption DEF Calls, Statuses
  <2>3. ret \in [call : Calls, of : Calls, status : Statuses \cup {Failed}]
    BY <2>2 DEF Init
  <2>4. io_cq \in [Slots -> Completion] /\ io_sq \in [Slots -> Calls]
    BY <2>2 DEF Init, Completion
  <2> QED
    BY <2>1, <2>2, <2>3, <2>4, NvmeRing DEF Init, TypeOK
<1>2. Unfetched = 0 /\ Answers = 0 /\ Cardinality(device.busy) = 0
  BY <1>1, NvmeNumbers DEF Init
<1>3. OwnUntilTimeout /\ OnlyPresentCall
  BY DEF Init, OwnUntilTimeout, OnlyPresentCall
<1>4. AllCounted
  BY <1>2 DEF Init, AllCounted
<1>5. PhasesTell /\ PhasesAgree
  BY NvmeRing DEF Init, PhasesTell, PhasesAgree
<1>6. CommandsInOrder
  BY <1>2 DEF Init, CommandsInOrder
<1> QED
  BY <1>1, <1>3, <1>4, <1>5, <1>6 DEF NvmeInv

(* A call finds room: at most the calls that timed out are in the ring.    *)
LEMMA SubmitHasRoom ==
  ASSUME NvmeInv, Submit
  PROVE  /\ io_sq_tail' # device.sq_head
         /\ Unfetched' = Unfetched + 1
         /\ Nth(Entries, device.sq_head, Unfetched + 1) = io_sq_tail
<1>1. TypeOK /\ AllCounted /\ ~waiting
  BY DEF NvmeInv, Submit
<1>2. Unfetched < Entries - 1
  BY <1>1, NvmeNumbers, NvmeAssumption DEF AllCounted, TypeOK
<1>3. /\ io_sq_tail \in RingSlots(Entries) /\ device.sq_head \in RingSlots(Entries)
      /\ io_sq_tail' \in RingSlots(Entries) /\ io_sq_tail' = Onward(Entries, io_sq_tail)
  BY <1>1, NvmeRing DEF TypeOK, Submit
<1>4. /\ io_sq_tail' # device.sq_head =>
           Fill(Entries, io_sq_tail', device.sq_head) = Fill(Entries, io_sq_tail, device.sq_head) + 1
      /\ io_sq_tail' = device.sq_head => Fill(Entries, io_sq_tail, device.sq_head) = Entries - 1
      /\ Nth(Entries, device.sq_head, Fill(Entries, io_sq_tail, device.sq_head) + 1) = io_sq_tail
  BY <1>3, NvmeRing, FillHead
<1>5. io_sq_tail' # device.sq_head
  BY <1>2, <1>4, NvmeAssumption DEF Unfetched
<1>6. Unfetched' = Fill(Entries, io_sq_tail', device.sq_head)
  BY DEF Unfetched, Submit, Fill
<1> QED
  BY <1>4, <1>5, <1>6 DEF Unfetched

LEMMA SubmitInv == ASSUME NvmeInv, Submit PROVE NvmeInv'
<1>1. TypeOK /\ AllCounted /\ ~waiting /\ waiting' = TRUE /\ call' = call + 1 /\ call \in Nat
  BY NvmeAssumption DEF NvmeInv, TypeOK, Calls, Submit
<1>2. TypeOK'
  BY <1>1, NvmeRing, NvmeAssumption DEF TypeOK, Submit, Calls
<1>3. Answers' = Answers /\ device' = device /\ timeouts' = timeouts
  BY DEF Submit, Answers, Fill
<1>4. AllCounted'
  BY <1>1, <1>3, SubmitHasRoom, NvmeNumbers DEF AllCounted, TypeOK
<1>5. CommandsInOrder'
  <2> DEFINE m == Unfetched
  <2>0. m \in Nat /\ m <= call /\ Unfetched' = m + 1
    BY <1>1, SubmitHasRoom, NvmeNumbers DEF NvmeInv, CommandsInOrder
  <2>1. ASSUME NEW k \in 1 .. m
        PROVE  /\ Nth(Entries, device.sq_head, k) \in Slots
               /\ Nth(Entries, device.sq_head, k) # io_sq_tail
    BY <1>1, NvmeRing, NthIs DEF TypeOK, Unfetched
  <2>2. \A k \in 1 .. m : io_sq'[Nth(Entries, device.sq_head, k)] = call - m + k
    BY <1>1, <2>1 DEF NvmeInv, TypeOK, CommandsInOrder, Submit
  <2>3. io_sq'[Nth(Entries, device.sq_head, m + 1)] = call + 1
    BY <1>1, SubmitHasRoom DEF TypeOK, Submit
  <2>4. device.busy \subseteq 1 .. call - m
    BY DEF NvmeInv, CommandsInOrder
  <2> HIDE DEF m
  <2>5. \A k \in 1 .. m + 1 : io_sq'[Nth(Entries, device.sq_head, k)] = call + 1 - (m + 1) + k
    <3> TAKE k \in 1 .. m + 1
    <3>1. CASE k = m + 1
      BY <1>1, <2>0, <2>3, <3>1
    <3>2. CASE k \in 1 .. m
      BY <1>1, <2>0, <2>2, <3>2
    <3> QED
      BY <2>0, <3>1, <3>2
  <2>6. m + 1 <= call + 1 /\ call + 1 - (m + 1) = call - m
    BY <1>1, <2>0
  <2>7. \A k \in 1 .. Unfetched' : io_sq'[Nth(Entries, device'.sq_head, k)] = call' - Unfetched' + k
    BY <1>1, <1>3, <2>0, <2>5
  <2>8. Unfetched' <= call' /\ device'.busy \subseteq 1 .. call' - Unfetched'
    BY <1>1, <1>3, <2>0, <2>4, <2>6
  <2> QED
    BY <2>7, <2>8 DEF CommandsInOrder, Nth
<1>6. PhasesTell' /\ PhasesAgree' /\ OwnUntilTimeout'
  BY <1>1 DEF NvmeInv, PhasesTell, PhasesAgree, OwnUntilTimeout, Submit
<1>7. OnlyPresentCall'
  <2>1. timeouts = 0 => device.busy = {} /\ io_cq_head = device.cq_tail
    BY <1>1, NvmeNumbers DEF AllCounted, TypeOK
  <2> QED
    BY <2>1 DEF OnlyPresentCall, Submit
<1> QED
  BY <1>2, <1>4, <1>5, <1>6, <1>7 DEF NvmeInv

(* A phase bit that is the expected one belongs to a completion. *)
LEMMA ArrivedIs ==
  ASSUME NvmeInv
  PROVE  Arrived <=> io_cq_head # device.cq_tail
<1>1. /\ io_cq_head \in Nat /\ device.cq_tail \in Nat /\ device.phase \in {0, 1}
      /\ io_cq_head \in Slots
  BY NvmeRing DEF NvmeInv, TypeOK
<1>2. io_cq[io_cq_head].phase = IF io_cq_head < device.cq_tail THEN device.phase ELSE 1 - device.phase
  BY <1>1 DEF NvmeInv, PhasesTell
<1> QED
  BY <1>1, <1>2 DEF NvmeInv, PhasesAgree, Arrived

LEMMA CompleteInv == ASSUME NvmeInv, Complete PROVE NvmeInv'
<1>1. /\ TypeOK /\ AllCounted /\ waiting /\ waiting' = FALSE
      /\ io_cq_head # device.cq_tail /\ io_cq_head \in Slots
      /\ io_cq_head' = After(io_cq_head)
      /\ UNCHANGED <<io_sq, io_sq_tail, io_cq, call, device, timeouts>>
  BY ArrivedIs DEF NvmeInv, TypeOK, Complete
<1>2. io_cq[io_cq_head].of \in Calls /\ io_cq[io_cq_head].status \in Statuses
  BY <1>1 DEF TypeOK, Completion
<1>3. /\ ret'.call = call /\ ret'.of = io_cq[io_cq_head].of
      /\ ret' \in [call : Calls, of : Calls, status : Statuses \cup {Failed}]
  BY <1>1, <1>2 DEF Complete, TypeOK
<1>4. TypeOK'
  <2>1. io_cq_head' \in Slots /\ io_phase' \in {0, 1}
    BY <1>1, NvmeRing DEF Complete, TypeOK
  <2> QED
    BY <1>1, <1>3, <2>1 DEF TypeOK
<1>5. Unfetched' = Unfetched /\ Answers' = Answers - 1 /\ Answers > 0
  <2>1. /\ io_cq_head' \in RingSlots(Entries) /\ io_cq_head' = Onward(Entries, io_cq_head)
        /\ io_cq_head \in RingSlots(Entries) /\ device.cq_tail \in RingSlots(Entries)
    BY <1>1, NvmeRing DEF TypeOK
  <2>2. /\ Fill(Entries, device.cq_tail, io_cq_head') = Fill(Entries, device.cq_tail, io_cq_head) - 1
        /\ Fill(Entries, device.cq_tail, io_cq_head) > 0
    BY <1>1, <2>1, NvmeRing, FillTail
  <2>3. Answers' = Fill(Entries, device.cq_tail, io_cq_head') /\ Unfetched' = Unfetched
    BY <1>1 DEF Answers, Unfetched, Fill
  <2> QED
    BY <2>2, <2>3 DEF Answers
<1>6. AllCounted'
  BY <1>1, <1>5, NvmeNumbers DEF AllCounted, TypeOK
<1>7. PhasesTell'
  BY <1>1 DEF NvmeInv, PhasesTell
<1>8. PhasesAgree'
  <2>1. /\ io_cq_head \in Nat /\ device.cq_tail \in Nat /\ device.phase \in {0, 1}
        /\ io_cq_head < Entries /\ device.cq_tail < Entries
        /\ io_cq_head' = IF io_cq_head = Entries - 1 THEN 0 ELSE io_cq_head + 1
    BY <1>1, NvmeRing DEF TypeOK
  <2>2. io_phase' = IF io_cq_head' = 0 THEN 1 - io_phase ELSE io_phase
    BY <1>1 DEF Complete
  <2> QED
    BY <1>1, <2>1, <2>2, NvmeRing DEF NvmeInv, PhasesAgree
<1>9. CommandsInOrder'
  BY <1>1, <1>5 DEF NvmeInv, CommandsInOrder, Nth
<1>10. OwnUntilTimeout'
  <2>1. timeouts = 0 => Unfetched = 0 /\ Cardinality(device.busy) = 0
    BY <1>1, <1>5, NvmeNumbers DEF AllCounted
  <2> QED
    BY <1>1, <1>3, <2>1, NvmeNumbers DEF NvmeInv, OnlyPresentCall, OwnUntilTimeout
<1>11. OnlyPresentCall'
  BY <1>1 DEF OnlyPresentCall
<1> QED
  BY <1>4, <1>6, <1>7, <1>8, <1>9, <1>10, <1>11 DEF NvmeInv

LEMMA TimeoutInv == ASSUME NvmeInv, Timeout PROVE NvmeInv'
<1>1. /\ TypeOK /\ AllCounted /\ waiting /\ waiting' = FALSE /\ timeouts' = timeouts + 1
      /\ timeouts \in Nat /\ timeouts < MaxTimeouts
      /\ UNCHANGED <<io_sq, io_sq_tail, io_cq, io_cq_head, io_phase, call, device>>
  BY DEF NvmeInv, TypeOK, Timeout
<1>2. ret' \in [call : Calls, of : Calls, status : Statuses \cup {Failed}]
  BY <1>1 DEF Timeout, TypeOK
<1>3. TypeOK'
  <2>1. timeouts' \in 0 .. MaxTimeouts
    BY <1>1, NvmeAssumption
  <2> QED
    BY <1>1, <1>2, <2>1 DEF TypeOK
<1>4. Unfetched' = Unfetched /\ Answers' = Answers
  BY <1>1 DEF Unfetched, Answers, Fill
<1>5. AllCounted'
  BY <1>1, <1>4, NvmeNumbers DEF AllCounted
<1>6. PhasesTell' /\ PhasesAgree' /\ CommandsInOrder'
  BY <1>1, <1>4 DEF NvmeInv, PhasesTell, PhasesAgree, CommandsInOrder, Nth
<1>7. OwnUntilTimeout' /\ OnlyPresentCall'
  BY <1>1 DEF OwnUntilTimeout, OnlyPresentCall
<1> QED
  BY <1>3, <1>5, <1>6, <1>7 DEF NvmeInv

(* The controller's next command is the earliest call not fetched. *)
LEMMA FetchInv == ASSUME NvmeInv, Fetch PROVE NvmeInv'
<1> DEFINE c == io_sq[device.sq_head]
           m == Unfetched
<1>1. /\ TypeOK /\ AllCounted /\ device.sq_head # io_sq_tail /\ call \in Nat /\ call <= MaxCalls
      /\ UNCHANGED <<io_sq, io_sq_tail, io_cq, io_cq_head, io_phase, call, waiting, timeouts, ret>>
  BY NvmeAssumption DEF NvmeInv, TypeOK, Calls, Fetch
<1>2. /\ device'.sq_head = After(device.sq_head) /\ device'.busy = device.busy \cup {c}
      /\ device'.cq_tail = device.cq_tail /\ device'.phase = device.phase
  BY <1>1 DEF Fetch, TypeOK
<1>3. /\ m \in Nat /\ m > 0 /\ m <= call /\ Unfetched' = m - 1
      /\ \A k \in 1 .. m - 1 : Nth(Entries, device'.sq_head, k) = Nth(Entries, device.sq_head, k + 1)
      /\ Nth(Entries, device.sq_head, 1) = device.sq_head
  <2>1. /\ io_sq_tail \in RingSlots(Entries) /\ device.sq_head \in RingSlots(Entries)
        /\ device'.sq_head \in RingSlots(Entries)
        /\ device'.sq_head = Onward(Entries, device.sq_head)
    BY <1>1, <1>2, NvmeRing DEF TypeOK
  <2>2. /\ Fill(Entries, io_sq_tail, device'.sq_head) = m - 1 /\ m > 0
        /\ \A k \in 1 .. m - 1 : Nth(Entries, device'.sq_head, k) = Nth(Entries, device.sq_head, k + 1)
    BY <1>1, <2>1, NvmeRing, FillTail DEF Unfetched
  <2>3. Unfetched' = Fill(Entries, io_sq_tail, device'.sq_head)
    BY <1>1 DEF Unfetched, Fill
  <2>4. m \in Nat /\ m <= call
    BY <1>1, NvmeNumbers DEF NvmeInv, CommandsInOrder
  <2>5. 1 \in 1 .. m
    BY <2>2, <2>4
  <2>6. Nth(Entries, device.sq_head, 1) = device.sq_head
    BY <2>1, <2>5, NvmeRing, NthIs DEF Unfetched
  <2> QED
    BY <2>2, <2>3, <2>4, <2>6
<1>4. /\ \A k \in 1 .. m : io_sq[Nth(Entries, device.sq_head, k)] = call - m + k
      /\ device.busy \subseteq 1 .. call - m
  BY DEF NvmeInv, CommandsInOrder
<1> HIDE DEF c, m
<1>5. c = call - m + 1 /\ c \in 1 .. MaxCalls /\ c \notin device.busy
  <2>1. 1 \in 1 .. m
    BY <1>3
  <2>2. c = call - m + 1
    BY <1>3, <1>4, <2>1 DEF c
  <2> QED
    BY <1>1, <1>3, <1>4, <2>2, NvmeAssumption
<1>6. TypeOK'
  <2>1. device' \in [sq_head : Slots, cq_tail : Slots, phase : {0, 1}, busy : SUBSET (1 .. MaxCalls)]
    <3>1. device' = [sq_head |-> After(device.sq_head), cq_tail |-> device.cq_tail,
                     phase |-> device.phase, busy |-> device.busy \cup {c}]
      BY <1>1 DEF Fetch, TypeOK, c
    <3>2. After(device.sq_head) \in Slots /\ device.busy \cup {c} \in SUBSET (1 .. MaxCalls)
      BY <1>1, <1>5, NvmeRing DEF TypeOK
    <3> QED
      BY <1>1, <3>1, <3>2 DEF TypeOK
  <2> QED
    BY <1>1, <2>1 DEF TypeOK
<1>7. /\ Cardinality(device'.busy) = Cardinality(device.busy) + 1
      /\ Answers' = Answers
  <2>1. Cardinality(device.busy \cup {c}) = Cardinality(device.busy) + 1
    BY <1>1, <1>5, NvmeNumbers, FS_AddElement
  <2> QED
    BY <1>1, <1>2, <2>1 DEF Answers, Fill
<1>8. AllCounted'
  BY <1>1, <1>3, <1>7, NvmeNumbers DEF AllCounted, TypeOK, m
<1>9. PhasesTell' /\ PhasesAgree'
  BY <1>1, <1>2 DEF NvmeInv, PhasesTell, PhasesAgree
<1>10. CommandsInOrder'
  <2>1. \A k \in 1 .. m - 1 : io_sq[Nth(Entries, device'.sq_head, k)] = call - (m - 1) + k
    <3> TAKE k \in 1 .. m - 1
    <3>1. k + 1 \in 1 .. m
      BY <1>3
    <3>2. io_sq[Nth(Entries, device'.sq_head, k)] = call - m + (k + 1)
      BY <1>3, <1>4, <3>1
    <3> QED
      BY <1>1, <1>3, <3>2
  <2>2. device'.busy \subseteq 1 .. call - (m - 1)
    BY <1>1, <1>2, <1>3, <1>4, <1>5
  <2>3. m - 1 <= call
    BY <1>1, <1>3
  <2> QED
    BY <1>1, <1>3, <2>1, <2>2, <2>3 DEF CommandsInOrder, Nth
<1>11. timeouts = 0 => waiting /\ m = 1 /\ device.busy = {} /\ io_cq_head = device.cq_tail
  BY <1>1, <1>3, NvmeNumbers DEF AllCounted, TypeOK, m
<1>12. OwnUntilTimeout' /\ OnlyPresentCall'
  <2>1. timeouts = 0 => c = call
    BY <1>1, <1>5, <1>11
  <2> QED
    BY <1>1, <1>2, <1>11, <2>1 DEF NvmeInv, OwnUntilTimeout, OnlyPresentCall
<1> QED
  BY <1>6, <1>8, <1>9, <1>10, <1>12 DEF NvmeInv

(* A completion is written behind the last one, in the round's phase. *)
LEMMA PostInv ==
  ASSUME NvmeInv, NEW c \in Calls, NEW status \in Statuses, Post(c, status) PROVE NvmeInv'
<1> DEFINE t == device.cq_tail
           e == [of |-> c, status |-> status, phase |-> device.phase]
<1>1. /\ TypeOK /\ AllCounted /\ c \in device.busy /\ After(t) # io_cq_head
      /\ t \in Slots /\ io_cq_head \in Slots /\ device.phase \in {0, 1}
      /\ io_cq' = [io_cq EXCEPT ![t] = e] /\ e \in Completion
      /\ UNCHANGED <<io_sq, io_sq_tail, io_cq_head, io_phase, call, waiting, timeouts, ret>>
  BY DEF NvmeInv, TypeOK, Post, Completion
<1>2. /\ device'.sq_head = device.sq_head /\ device'.busy = device.busy \ {c}
      /\ device'.cq_tail = After(t)
      /\ device'.phase = IF After(t) = 0 THEN 1 - device.phase ELSE device.phase
  BY DEF Post
<1>3. /\ After(t) = IF t = Entries - 1 THEN 0 ELSE t + 1
      /\ After(t) \in Slots /\ t \in Nat /\ t < Entries
      /\ io_cq_head \in Nat /\ io_cq_head < Entries
  BY <1>1, NvmeRing
<1>4. TypeOK'
  <2>1. io_cq' \in [Slots -> Completion]
    BY <1>1 DEF TypeOK
  <2>2. device' \in [sq_head : Slots, cq_tail : Slots, phase : {0, 1}, busy : SUBSET (1 .. MaxCalls)]
    BY <1>1, <1>3 DEF Post, TypeOK
  <2> QED
    BY <1>1, <2>1, <2>2 DEF TypeOK
<1>5. Unfetched' = Unfetched /\ Answers' = Answers + 1
  <2>1. /\ t \in RingSlots(Entries) /\ io_cq_head \in RingSlots(Entries)
        /\ device'.cq_tail \in RingSlots(Entries) /\ device'.cq_tail = Onward(Entries, t)
        /\ device'.cq_tail # io_cq_head
    BY <1>1, <1>2, NvmeRing
  <2>2. Fill(Entries, device'.cq_tail, io_cq_head) = Fill(Entries, t, io_cq_head) + 1
    BY <2>1, NvmeRing, FillHead
  <2>3. Answers' = Fill(Entries, device'.cq_tail, io_cq_head) /\ Unfetched' = Unfetched
    BY <1>1, <1>2 DEF Answers, Unfetched, Fill
  <2> QED
    BY <2>2, <2>3 DEF Answers
<1>6. Cardinality(device'.busy) = Cardinality(device.busy) - 1
  BY <1>1, <1>2, NvmeNumbers, FS_RemoveElement
<1>7. AllCounted'
  BY <1>1, <1>5, <1>6, NvmeNumbers DEF AllCounted, TypeOK
<1>8. PhasesTell'
  <2> SUFFICES ASSUME NEW i \in Slots
               PROVE  io_cq'[i].phase = IF i < device'.cq_tail THEN device'.phase ELSE 1 - device'.phase
    BY DEF PhasesTell
  <2>1. i \in Nat /\ i < Entries
    BY NvmeRing
  <2>2. io_cq'[i].phase = IF i = t THEN device.phase
                          ELSE IF i < t THEN device.phase ELSE 1 - device.phase
    BY <1>1 DEF NvmeInv, TypeOK, PhasesTell
  <2>3. /\ i < device'.cq_tail <=> (t # Entries - 1 /\ i < t + 1)
        /\ device'.phase = IF t = Entries - 1 THEN 1 - device.phase ELSE device.phase
    BY <1>2, <1>3, <2>1
  <2>4. device.phase \in {0, 1} /\ t \in Nat /\ t < Entries /\ Entries \in Nat
    BY <1>1, <1>3, NvmeAssumption
  <2> HIDE DEF t, e
  <2> QED
    BY <2>1, <2>2, <2>3, <2>4
<1>9. PhasesAgree'
  <2>1. io_phase = IF io_cq_head <= t THEN device.phase ELSE 1 - device.phase
    BY DEF NvmeInv, PhasesAgree
  <2>2. /\ device'.cq_tail = IF t = Entries - 1 THEN 0 ELSE t + 1
        /\ device'.phase = IF t = Entries - 1 THEN 1 - device.phase ELSE device.phase
        /\ device'.cq_tail # io_cq_head
    BY <1>1, <1>2, <1>3
  <2>3. device.phase \in {0, 1} /\ t \in Nat /\ t < Entries /\ Entries \in Nat
        /\ io_cq_head \in Nat /\ io_cq_head < Entries
    BY <1>1, <1>3, NvmeAssumption
  <2> HIDE DEF t, e
  <2>4. io_phase = IF io_cq_head <= device'.cq_tail THEN device'.phase ELSE 1 - device'.phase
    BY <2>1, <2>2, <2>3
  <2> QED
    BY <1>1, <2>4 DEF PhasesAgree
<1>10. CommandsInOrder'
  BY <1>1, <1>2, <1>5 DEF NvmeInv, CommandsInOrder, Nth
<1>11. timeouts = 0 => waiting /\ c = call /\ io_cq_head = t
  <2>1. Cardinality(device.busy) > 0
    BY <1>1, NvmeNumbers
  <2>2. timeouts = 0 => waiting /\ Answers = 0
    BY <1>1, <2>1, NvmeNumbers DEF AllCounted, TypeOK
  <2> QED
    BY <1>1, <2>2, NvmeNumbers DEF NvmeInv, OnlyPresentCall
<1>12. OwnUntilTimeout' /\ OnlyPresentCall'
  <2>1. io_cq'[t].of = c
    BY <1>1 DEF TypeOK
  <2> QED
    BY <1>1, <1>2, <1>11, <2>1 DEF NvmeInv, OwnUntilTimeout, OnlyPresentCall
<1> QED
  BY <1>4, <1>7, <1>8, <1>9, <1>10, <1>12 DEF NvmeInv

(* The inductive invariant holds of every behaviour. *)
LEMMA NvmeInvariance == Spec => []NvmeInv
<1>1. NvmeInv /\ [Next]_vars => NvmeInv'
  <2> SUFFICES ASSUME NvmeInv, [Next]_vars PROVE NvmeInv'
    OBVIOUS
  <2>1. CASE UNCHANGED vars
    BY <2>1 DEF vars, NvmeInv, TypeOK, OwnUntilTimeout, AllCounted, PhasesTell, PhasesAgree,
                CommandsInOrder, OnlyPresentCall, Unfetched, Answers, Fill, Nth
  <2> QED
    BY <2>1, SubmitInv, CompleteInv, TimeoutInv, FetchInv, PostInv DEF Next
<1> QED
  BY <1>1, NvmeInit, PTL DEF Spec

(* The driver is one completion behind for each call that timed out and    *)
(* never catches up; until then a call's answer is its own.                *)
THEOREM NvmeRingsInStep == Spec => []RingsInStep
<1>1. NvmeInv => RingsInStep
  BY NvmeNumbers DEF NvmeInv, RingsInStep, AllCounted, BehindByTimeouts
<1> QED
  BY <1>1, NvmeInvariance, PTL
------------------------------------------------------------------------------
(* What the rings hold, as sequences without arithmetic modulo their size. *)
Completions == [i \in Slots |-> CqEntry(i)]
SqContent == Content(Entries, io_sq, io_sq_tail, device.sq_head)
CqContent == Content(Entries, Completions, device.cq_tail, io_cq_head)

LEMMA ContentsAre ==
  ASSUME TypeOK
  PROVE  /\ IsRing(Entries, Calls, io_sq, io_sq_tail, device.sq_head)
         /\ IsRing(Entries, Calls \X Statuses, Completions, device.cq_tail, io_cq_head)
         /\ Between(device.sq_head, io_sq_tail, SqEntry) = SqContent
         /\ Between(io_cq_head, device.cq_tail, CqEntry) = CqContent
<1>1. IsRing(Entries, Calls, io_sq, io_sq_tail, device.sq_head)
  BY NvmeRing DEF TypeOK, IsRing
<1>2. Completions \in [Slots -> Calls \X Statuses]
  BY DEF TypeOK, Completion, Completions, CqEntry
<1>3. IsRing(Entries, Calls \X Statuses, Completions, device.cq_tail, io_cq_head)
  BY <1>2, NvmeRing DEF TypeOK, IsRing
<1>4. Ring(Entries, io_sq, io_sq_tail, device.sq_head) = SqContent
  BY <1>1, RingIs DEF SqContent
<1>5. Between(device.sq_head, io_sq_tail, SqEntry)
        = Ring(Entries, io_sq, io_sq_tail, device.sq_head)
  BY DEF Between, Outstanding, SqEntry, Ring
<1>6. Ring(Entries, Completions, device.cq_tail, io_cq_head) = CqContent
  BY <1>3, RingIs DEF CqContent
<1>7. \A k : (io_cq_head + k - 1) % Entries \in Slots =>
               Completions[(io_cq_head + k - 1) % Entries] = CqEntry((io_cq_head + k - 1) % Entries)
  BY DEF Completions
<1>8. Outstanding(io_cq_head, device.cq_tail) = Answers
  BY NvmeNumbers
<1>9. ASSUME NEW k \in 1 .. Answers
      PROVE  (io_cq_head + k - 1) % Entries \in Slots
  BY <1>3, NvmeRing, NthIs DEF IsRing, Answers
<1>10. Between(io_cq_head, device.cq_tail, CqEntry)
         = Ring(Entries, Completions, device.cq_tail, io_cq_head)
  BY <1>7, <1>8, <1>9 DEF Between, Outstanding, Ring
<1> QED
  BY <1>1, <1>3, <1>4, <1>5, <1>6, <1>10

(* A call is a put, a fetch a get, no other step concerns the submissions. *)
LEMMA SqActs ==
  ASSUME NvmeInv, NvmeInv', [Next]_vars
  PROVE  [Sq!Put \/ Sq!Get]_(Between(device.sq_head, io_sq_tail, SqEntry))
<1> DEFINE q == Between(device.sq_head, io_sq_tail, SqEntry)
<1>1. q = SqContent /\ q' = SqContent' /\ TypeOK /\ TypeOK'
  <2>1. TypeOK => q = SqContent
    BY ContentsAre
  <2>2. (TypeOK => q = SqContent)'
    BY <2>1, ContentsAre, PTL
  <2> QED
    BY <2>1, <2>2 DEF NvmeInv
<1>2. SqContent' = Content(Entries, io_sq', io_sq_tail', device'.sq_head)
  BY DEF SqContent, Content, Fill, Nth
<1>3. /\ IsRing(Entries, Calls, io_sq, io_sq_tail, device.sq_head)
      /\ IsRing(Entries, Calls, io_sq', io_sq_tail', device'.sq_head)
      /\ io_sq_tail \in Slots /\ device.sq_head \in Slots
  BY <1>1, NvmeRing DEF TypeOK, IsRing
<1>4. CASE Submit
  <2>1. /\ io_sq_tail' = Onward(Entries, io_sq_tail) /\ device' = device
        /\ \A i \in RingSlots(Entries) : i # io_sq_tail => io_sq'[i] = io_sq[i]
        /\ io_sq_tail' # device.sq_head
    BY <1>1, <1>3, <1>4, NvmeRing, SubmitHasRoom DEF Submit, TypeOK
  <2>2. /\ Len(SqContent) < Entries - 1
        /\ Len(SqContent') = Len(SqContent) + 1
        /\ SubSeq(SqContent', 1, Len(SqContent)) = SqContent
    BY <1>2, <1>3, <2>1, PutIs DEF SqContent
  <2> QED
    BY <1>1, <2>2 DEF Sq!Put
<1>5. CASE Fetch
  <2>1. /\ device'.sq_head = Onward(Entries, device.sq_head)
        /\ io_sq' = io_sq /\ io_sq_tail' = io_sq_tail /\ device.sq_head # io_sq_tail
    BY <1>1, <1>3, <1>5, NvmeRing DEF Fetch, TypeOK
  <2>2. SqContent # <<>> /\ SqContent' = Tail(SqContent)
    BY <1>2, <1>3, <2>1, GetIs DEF SqContent
  <2> QED
    BY <1>1, <2>2 DEF Sq!Get
<1>6. ASSUME UNCHANGED <<io_sq, io_sq_tail>>, device'.sq_head = device.sq_head
      PROVE  UNCHANGED q
  BY <1>1, <1>2, <1>6 DEF SqContent
<1>7. ASSUME NEW c \in Calls, NEW s \in Statuses, Post(c, s)
      PROVE  UNCHANGED q
  BY <1>6, <1>7 DEF Post
<1>8. CASE Complete \/ Timeout \/ UNCHANGED vars
  BY <1>6, <1>8 DEF Complete, Timeout, vars
<1> QED
  BY <1>4, <1>5, <1>7, <1>8 DEF Next

(* A completion posted is a put, one taken a get. *)
LEMMA CqActs ==
  ASSUME NvmeInv, NvmeInv', [Next]_vars
  PROVE  [Cq!Put \/ Cq!Get]_(Between(io_cq_head, device.cq_tail, CqEntry))
<1> DEFINE q == Between(io_cq_head, device.cq_tail, CqEntry)
<1>1. q = CqContent /\ q' = CqContent' /\ TypeOK /\ TypeOK'
  <2>1. TypeOK => q = CqContent
    BY ContentsAre
  <2>2. (TypeOK => q = CqContent)'
    BY <2>1, ContentsAre, PTL
  <2> QED
    BY <2>1, <2>2 DEF NvmeInv
<1>2. CqContent' = Content(Entries, Completions', device'.cq_tail, io_cq_head')
  BY DEF CqContent, Content, Fill, Nth
<1>3. /\ IsRing(Entries, Calls \X Statuses, Completions, device.cq_tail, io_cq_head)
      /\ IsRing(Entries, Calls \X Statuses, Completions', device'.cq_tail, io_cq_head')
      /\ io_cq_head \in Slots /\ device.cq_tail \in Slots
  <2>1. IsRing(Entries, Calls \X Statuses, Completions, device.cq_tail, io_cq_head)
    BY <1>1, ContentsAre
  <2>2. Completions' \in [Slots -> Calls \X Statuses]
    BY <1>1 DEF TypeOK, Completion, Completions, CqEntry
  <2> QED
    BY <1>1, <2>1, <2>2, NvmeRing DEF TypeOK, IsRing
<1>4. ASSUME NEW c \in Calls, NEW s \in Statuses, Post(c, s)
      PROVE  Cq!Put
  <2>1. \A i \in RingSlots(Entries) : i # device.cq_tail => Completions'[i] = Completions[i]
    BY <1>1, <1>4, NvmeRing DEF Completions, CqEntry, Post, TypeOK
  <2>2. /\ device'.cq_tail = Onward(Entries, device.cq_tail) /\ io_cq_head' = io_cq_head
        /\ device'.cq_tail # io_cq_head
    BY <1>3, <1>4, NvmeRing DEF Post
  <2>3. /\ Len(CqContent) < Entries - 1
        /\ Len(CqContent') = Len(CqContent) + 1
        /\ SubSeq(CqContent', 1, Len(CqContent)) = CqContent
    BY <1>2, <1>3, <2>1, <2>2, PutIs DEF CqContent
  <2> QED
    BY <1>1, <2>3 DEF Cq!Put
<1>5. CASE Complete
  <2>1. /\ io_cq_head' = Onward(Entries, io_cq_head) /\ device' = device
        /\ io_cq_head # device.cq_tail
    BY <1>3, <1>5, NvmeRing, ArrivedIs DEF Complete
  <2>2. Completions' = Completions
    BY <1>5 DEF Complete, Completions, CqEntry
  <2>3. CqContent # <<>> /\ CqContent' = Tail(CqContent)
    BY <1>2, <1>3, <2>1, <2>2, GetIs DEF CqContent
  <2> QED
    BY <1>1, <2>3 DEF Cq!Get
<1>6. ASSUME UNCHANGED <<io_cq, io_cq_head>>, device'.cq_tail = device.cq_tail
      PROVE  UNCHANGED q
  <2>1. Completions' = Completions
    BY <1>6 DEF Completions, CqEntry
  <2> QED
    BY <1>1, <1>2, <1>6, <2>1 DEF CqContent
<1>7. CASE Fetch
  <2>1. device'.cq_tail = device.cq_tail
    BY <1>1, <1>7 DEF Fetch, TypeOK
  <2> QED
    BY <1>6, <1>7, <2>1 DEF Fetch
<1> QED
  BY <1>4, <1>5, <1>6, <1>7 DEF Next, Submit, Timeout, vars

(* Both rings are the abstract queue of Fifo: what the driver submits is   *)
(* fetched once and in order, what the controller posts is taken once and  *)
(* in order, around the rings and after timeouts.                          *)
THEOREM NvmeQueuesAreFifo == Spec => QueuesAreFifo
<1>1. Init => Sq!Init /\ Cq!Init
  <2> SUFFICES ASSUME Init PROVE Sq!Init /\ Cq!Init
    OBVIOUS
  <2>1. Outstanding(device.sq_head, io_sq_tail) = 0 /\ Outstanding(io_cq_head, device.cq_tail) = 0
    BY NvmeInit, NvmeNumbers DEF Init, NvmeInv
  <2> QED
    BY <2>1 DEF Sq!Init, Cq!Init, Between
<1>2. NvmeInv /\ NvmeInv' /\ [Next]_vars =>
        /\ [Sq!Put \/ Sq!Get]_(Between(device.sq_head, io_sq_tail, SqEntry))
        /\ [Cq!Put \/ Cq!Get]_(Between(io_cq_head, device.cq_tail, CqEntry))
  BY SqActs, CqActs
<1> QED
  BY <1>1, <1>2, NvmeInvariance, PTL
     DEF Spec, QueuesAreFifo, SubmissionIsFifo, CompletionIsFifo, Sq!Spec, Cq!Spec
------------------------------------------------------------------------------
(* The start of the controller: module NvmeStart. *)
(* nvme_init has registered the block device. *)
Registered == {"registered", "no table", "table", "divide error"}
StartSteps == S!Commands \cup Registered \cup {"reset", "failed"}

StartTypes ==
  /\ nvStep \in StartSteps /\ nvWaiting \in BOOLEAN
  /\ nvBusy \subseteq S!Commands
  /\ nvCq \in Seq([of : S!Commands, ok : BOOLEAN])
  /\ nvHead \in 0 .. Len(nvCq)
  /\ nvWaiting => nvStep \in S!Commands

(* The commands that can have been asked before the step, and up to now.   *)
Earlier(step) ==
  CASE step \in {"reset", "controller"} -> {}
    [] step = "namespace" -> {"controller"}
    [] step = "cq" -> {"controller", "namespace"}
    [] step = "sq" -> {"controller", "namespace", "cq"}
    [] OTHER -> S!Commands

Asked == Earlier(nvStep) \cup (IF nvWaiting THEN {nvStep} ELSE {})

(* A command is completed once, and after it was asked. *)
CompletedOnce ==
  \A i \in 1 .. Len(nvCq) :
    nvCq[i].of \notin nvBusy /\ \A j \in 1 .. Len(nvCq) : i # j => nvCq[i].of # nvCq[j].of

OnlyAsked ==
  nvStep # "failed" => nvBusy \subseteq Asked /\ \A i \in 1 .. Len(nvCq) : nvCq[i].of \in Asked

(* A queue that the controller says it created exists, and its completion  *)
(* queue with it.                                                          *)
CreatedIs ==
  \A i \in 1 .. Len(nvCq) :
    nvCq[i].ok /\ nvCq[i].of \in {"cq", "sq"} => {"cq", nvCq[i].of} \subseteq nvCreated

(* Without a timeout every completion taken is the present command's. *)
InTime ==
  nvStep # "failed" /\ nvTimedOut = {} =>
    /\ \/ ~nvWaiting /\ nvBusy = {} /\ nvHead = Len(nvCq)
       \/ nvWaiting /\ nvBusy = {nvStep} /\ nvHead = Len(nvCq)
       \/ nvWaiting /\ nvBusy = {} /\ nvHead + 1 = Len(nvCq) /\ nvCq[nvHead + 1].of = nvStep
    /\ nvStep \in {"reset", "controller"} => nvHead = 0
    /\ nvStep = "namespace" => nvHead = 1 /\ nvCq[1].of = "controller"
    /\ \A i \in 1 .. nvHead : nvCq[i].of = "namespace" /\ nvCq[i].ok => nvSize
    /\ nvStep \in {"sq"} \cup Registered => "cq" \in nvCreated
    /\ nvStep \in Registered => "sq" \in nvCreated

(* Once the namespace's identify has timed out, the completions taken for  *)
(* the two queues are two of three: at most one of them is its own.        *)
OneBehind ==
  nvStep # "failed" /\ nvTimedOut # {} =>
    /\ nvTimedOut = {"namespace"} /\ nvStep \in {"cq", "sq"} \cup Registered
    /\ nvHead = IF nvStep = "cq" THEN 1 ELSE IF nvStep = "sq" THEN 2 ELSE 3
    /\ nvCq[1].of = "controller"
    /\ \A i \in 2 .. nvHead : nvCq[i].ok

StartInv == StartTypes /\ CompletedOnce /\ OnlyAsked /\ CreatedIs /\ InTime /\ OneBehind

LEMMA StartInit == S!Init => StartInv
<1> SUFFICES ASSUME S!Init PROVE StartInv
  OBVIOUS
<1>1. /\ nvStep = "reset" /\ nvWaiting = FALSE /\ nvBusy = {} /\ nvCq = <<>> /\ nvHead = 0
      /\ nvCreated = {} /\ nvTimedOut = {}
  BY DEF S!Init
<1>2. Len(nvCq) = 0 /\ 1 .. 0 = {}
  BY <1>1
<1>3. StartTypes
  <2>1. nvCq \in Seq([of : S!Commands, ok : BOOLEAN])
    BY <1>1
  <2>2. nvHead \in 0 .. Len(nvCq)
    BY <1>1, <1>2
  <2> QED
    BY <1>1, <2>1, <2>2 DEF StartTypes, StartSteps
<1>4. CompletedOnce /\ OnlyAsked /\ CreatedIs
  BY <1>1, <1>2 DEF CompletedOnce, OnlyAsked, CreatedIs
<1>5. InTime /\ OneBehind
  BY <1>1, <1>2 DEF InTime, OneBehind, Registered
<1> QED
  BY <1>3, <1>4, <1>5 DEF StartInv

(* The device is registered after the last command. *)
LEMMA StartReadHeaderInv == ASSUME StartInv, S!Reset \/ S!ReadHeader PROVE StartInv'
<1>1. /\ UNCHANGED <<nvWaiting, nvBusy, nvCq, nvHead, nvCreated, nvSize, nvTimedOut>>
      /\ \/ nvStep = "reset" /\ nvStep' \in {"controller", "failed"}
         \/ nvStep = "registered" /\ nvStep' \in Registered
  BY DEF S!Reset, S!ReadHeader, Registered
<1>2. StartTypes' /\ CompletedOnce' /\ CreatedIs'
  BY <1>1 DEF StartInv, StartTypes, StartSteps, CompletedOnce, CreatedIs, Registered, S!Commands
<1>3. OnlyAsked'
  BY <1>1 DEF StartInv, StartTypes, OnlyAsked, Asked, Earlier, Registered, S!Commands
<1>4. InTime' /\ OneBehind'
  BY <1>1 DEF StartInv, StartTypes, InTime, OneBehind, Registered, S!Commands
<1> QED
  BY <1>2, <1>3, <1>4 DEF StartInv

LEMMA StartSubmitInv == ASSUME StartInv, S!Submit PROVE StartInv'
<1>1. /\ nvStep \in S!Commands /\ ~nvWaiting /\ nvWaiting' /\ nvBusy' = nvBusy \cup {nvStep}
      /\ UNCHANGED <<nvStep, nvCq, nvHead, nvCreated, nvSize, nvTimedOut>>
  BY DEF S!Submit
<1>2. nvStep \notin Earlier(nvStep) /\ nvStep # "failed" /\ nvStep \notin Registered
  BY <1>1 DEF Earlier, S!Commands, Registered
<1>3. Asked = Earlier(nvStep) /\ Asked' = Earlier(nvStep) \cup {nvStep}
  BY <1>1 DEF Asked
<1>4. StartTypes'
  BY <1>1 DEF StartInv, StartTypes
<1>5. CompletedOnce' /\ OnlyAsked' /\ CreatedIs'
  BY <1>1, <1>2, <1>3 DEF StartInv, CompletedOnce, OnlyAsked, CreatedIs
<1>6. InTime' /\ OneBehind'
  BY <1>1 DEF StartInv, InTime, OneBehind
<1> QED
  BY <1>4, <1>5, <1>6 DEF StartInv

(* nvme_submit_admin_cmd returns, after a completion or a timeout. *)
LEMMA StartReturnInv ==
  ASSUME StartInv, NEW ok \in BOOLEAN, nvWaiting, S!Return(ok),
         UNCHANGED <<nvBusy, nvCq, nvCreated>>,
         \/ /\ nvHead < Len(nvCq) /\ nvHead' = nvHead + 1
            /\ ok = nvCq[nvHead + 1].ok /\ nvTimedOut' = nvTimedOut
         \/ /\ nvHead = Len(nvCq) /\ nvHead' = nvHead
            /\ ok = FALSE /\ nvTimedOut' = nvTimedOut \cup {nvStep}
  PROVE  StartInv'
<1>1. /\ nvStep \in S!Commands /\ nvStep # "failed" /\ nvStep \notin Registered
      /\ nvHead \in Nat /\ Len(nvCq) \in Nat /\ nvHead' \in 0 .. Len(nvCq)
  <2>1. nvStep \in S!Commands /\ nvHead \in 0 .. Len(nvCq) /\ Len(nvCq) \in Nat
    BY DEF StartInv, StartTypes
  <2>2. nvStep # "failed" /\ nvStep \notin Registered
    BY <2>1 DEF S!Commands, Registered
  <2>3. nvHead \in Nat /\ nvHead' \in 0 .. Len(nvCq)
    BY <2>1
  <2> QED
    BY <2>1, <2>2, <2>3
<1>2. /\ nvWaiting' = FALSE
      /\ nvSize' = (nvSize \/ (nvStep = "namespace" /\ ok))
      /\ \/ nvStep = "controller" /\ nvStep' \in IF ok THEN {"namespace", "cq"} ELSE {"failed"}
         \/ nvStep = "namespace" /\ nvStep' = "cq"
         \/ nvStep = "cq" /\ nvStep' = IF ok THEN "sq" ELSE "failed"
         \/ nvStep = "sq" /\ nvStep' = IF ok THEN "registered" ELSE "failed"
  BY <1>1 DEF S!Return, S!Commands
<1>3. StartTypes' /\ CompletedOnce' /\ CreatedIs'
  BY <1>1, <1>2 DEF StartInv, StartTypes, StartSteps, CompletedOnce, CreatedIs, S!Commands, Registered
<1>4. OnlyAsked'
  <2>1. nvStep' # "failed" => Asked \subseteq Asked'
    BY <1>1, <1>2 DEF Asked, Earlier, S!Commands
  <2> QED
    BY <1>1, <2>1 DEF StartInv, OnlyAsked
<1>5. CASE nvTimedOut' = {} /\ nvStep' # "failed"
  <2>1. /\ nvHead' = nvHead + 1 /\ ok = nvCq[nvHead + 1].ok /\ nvTimedOut = {}
        /\ nvHead + 1 = Len(nvCq) /\ nvBusy = {} /\ nvCq[nvHead + 1].of = nvStep
    BY <1>1, <1>5 DEF StartInv, InTime
  <2>2. \A i \in 1 .. nvHead' : nvCq[i].of = "namespace" /\ nvCq[i].ok => nvSize'
    <3> SUFFICES ASSUME NEW i \in 1 .. nvHead', nvCq[i].of = "namespace", nvCq[i].ok
                 PROVE  nvSize'
      OBVIOUS
    <3>1. CASE i \in 1 .. nvHead
      BY <1>1, <1>2, <2>1, <3>1 DEF StartInv, InTime
    <3>2. CASE i = nvHead + 1
      BY <1>2, <2>1, <3>2
    <3> QED
      BY <1>1, <2>1, <3>1, <3>2
  <2>3. /\ nvStep' = "namespace" => nvHead' = 1 /\ nvCq[1].of = "controller"
        /\ nvStep' \notin {"reset", "controller"}
    BY <1>1, <1>2, <2>1 DEF StartInv, InTime
  <2>4. /\ nvStep' \in {"sq"} \cup Registered => "cq" \in nvCreated
        /\ nvStep' \in Registered => "sq" \in nvCreated
    <3>1. nvStep' \in {"sq"} \cup Registered => ok /\ nvStep \in {"cq", "sq"}
      BY <1>2 DEF Registered
    <3>2. ok /\ nvStep \in {"cq", "sq"} => {"cq", nvStep} \subseteq nvCreated
      <4>1. nvHead + 1 \in 1 .. Len(nvCq)
        BY <1>1, <2>1
      <4> QED
        BY <2>1, <4>1 DEF StartInv, CreatedIs
    <3>3. nvStep' \in Registered => nvStep = "sq"
      BY <1>2 DEF Registered
    <3> QED
      BY <3>1, <3>2, <3>3
  <2>5. InTime'
    BY <1>1, <1>2, <2>1, <2>2, <2>3, <2>4 DEF InTime
  <2> QED
    BY <1>3, <1>4, <1>5, <2>5 DEF OneBehind, StartInv
<1>6. CASE nvTimedOut' # {} /\ nvStep' # "failed"
  <2>1. CASE nvTimedOut = {}
    <3>1. ok = FALSE /\ nvHead' = nvHead /\ nvTimedOut' = {nvStep}
      BY <1>6, <2>1
    <3>2. nvStep = "namespace" /\ nvStep' = "cq"
      BY <1>2, <1>6, <3>1
    <3>3. nvHead = 1 /\ nvCq[1].of = "controller"
      BY <1>1, <2>1, <3>2 DEF StartInv, InTime
    <3> QED
      BY <1>3, <1>4, <1>6, <3>1, <3>2, <3>3 DEF StartInv, InTime, OneBehind
  <2>2. CASE nvTimedOut # {}
    <3>1. /\ nvTimedOut = {"namespace"} /\ nvStep \in {"cq", "sq"}
          /\ nvHead = IF nvStep = "cq" THEN 1 ELSE 2
          /\ nvCq[1].of = "controller"
          /\ \A i \in 2 .. nvHead : nvCq[i].ok
      BY <1>1, <2>2 DEF StartInv, OneBehind
    <3>2. /\ ok /\ nvHead' = nvHead + 1 /\ ok = nvCq[nvHead + 1].ok
          /\ nvTimedOut' = nvTimedOut
          /\ nvStep' = IF nvStep = "cq" THEN "sq" ELSE "registered"
      BY <1>2, <1>6, <3>1
    <3>3. \A i \in 2 .. nvHead' : nvCq[i].ok
      <4> SUFFICES ASSUME NEW i \in 2 .. nvHead' PROVE nvCq[i].ok
        OBVIOUS
      <4>1. i \in 2 .. nvHead \/ i = nvHead + 1
        BY <1>1, <3>2
      <4> QED
        BY <3>1, <3>2, <4>1
    <3>4. OneBehind'
      BY <3>1, <3>2, <3>3 DEF OneBehind, Registered
    <3> QED
      BY <1>3, <1>4, <1>6, <3>4 DEF StartInv, InTime
  <2> QED
    BY <2>1, <2>2
<1>7. CASE nvStep' = "failed"
  BY <1>3, <1>4, <1>7 DEF StartInv, InTime, OneBehind
<1> QED
  BY <1>5, <1>6, <1>7

(* The controller completes a command that it has. *)
LEMMA StartPostInv ==
  ASSUME StartInv, NEW c \in S!Commands, NEW ok \in BOOLEAN, S!Post(c, ok)
  PROVE  StartInv'
<1> DEFINE n == Len(nvCq)
           e == [of |-> c, ok |-> ok]
<1>1. /\ c \in nvBusy /\ (ok /\ c = "sq" => "cq" \in nvCreated)
      /\ nvBusy' = nvBusy \ {c} /\ nvCq' = Append(nvCq, e)
      /\ nvCreated' = IF ok /\ c \in {"cq", "sq"} THEN nvCreated \cup {c} ELSE nvCreated
      /\ UNCHANGED <<nvStep, nvWaiting, nvHead, nvSize, nvTimedOut>>
  BY DEF S!Post
<1>2. /\ nvCq' \in Seq([of : S!Commands, ok : BOOLEAN]) /\ Len(nvCq') = n + 1
      /\ nvCq'[n + 1] = e /\ \A i \in 1 .. n : nvCq'[i] = nvCq[i]
      /\ n \in Nat /\ nvHead \in 0 .. n
  BY <1>1 DEF StartInv, StartTypes
<1>3. e.of = c /\ e.ok = ok
  OBVIOUS
<1> HIDE DEF n, e
<1>4. \A i \in 1 .. n + 1 : i \in 1 .. n \/ i = n + 1
  BY <1>2
<1>5. StartTypes'
  BY <1>1, <1>2 DEF StartInv, StartTypes
<1>6. CompletedOnce' /\ OnlyAsked'
  <2>1. \A i \in 1 .. n : nvCq[i].of # c
    BY <1>1 DEF StartInv, CompletedOnce, n
  <2>2. CompletedOnce'
    BY <1>1, <1>2, <1>3, <1>4, <2>1 DEF StartInv, CompletedOnce, n
  <2>3. Asked' = Asked
    BY <1>1 DEF Asked
  <2>4. OnlyAsked'
    BY <1>1, <1>2, <1>3, <1>4, <2>3 DEF StartInv, OnlyAsked, n
  <2> QED
    BY <2>2, <2>4
<1>7. CreatedIs'
  BY <1>1, <1>2, <1>3, <1>4 DEF StartInv, CreatedIs, n
<1>8. InTime'
  <2> SUFFICES ASSUME nvStep # "failed", nvTimedOut = {}
               PROVE  InTime'
    BY <1>1 DEF InTime
  <2>1. nvWaiting /\ nvBusy = {nvStep} /\ nvHead = n /\ c = nvStep
    BY <1>1 DEF StartInv, InTime, n
  <2>2. nvWaiting' /\ nvBusy' = {} /\ nvHead' + 1 = Len(nvCq') /\ nvCq'[nvHead' + 1].of = nvStep'
    BY <1>1, <1>2, <1>3, <2>1
  <2>3. \A i \in 1 .. nvHead' : nvCq'[i] = nvCq[i]
    BY <1>1, <1>2, <2>1
  <2>4. /\ nvStep \in {"reset", "controller"} => nvHead = 0
        /\ nvStep = "namespace" => nvHead = 1 /\ nvCq[1].of = "controller"
        /\ \A i \in 1 .. nvHead : nvCq[i].of = "namespace" /\ nvCq[i].ok => nvSize
        /\ nvStep \in {"sq"} \cup Registered => "cq" \in nvCreated
        /\ nvStep \in Registered => "sq" \in nvCreated
    BY DEF StartInv, InTime
  <2>5. nvCreated \subseteq nvCreated'
    BY <1>1
  <2>6. nvStep' = "namespace" => nvHead' = 1 /\ nvCq'[1].of = "controller"
    BY <1>1, <2>3, <2>4
  <2>7. \A i \in 1 .. nvHead' : nvCq'[i].of = "namespace" /\ nvCq'[i].ok => nvSize'
    BY <1>1, <2>3, <2>4
  <2> QED
    BY <1>1, <2>2, <2>4, <2>5, <2>6, <2>7 DEF InTime
<1>9. OneBehind'
  <2> SUFFICES ASSUME nvStep # "failed", nvTimedOut # {}
               PROVE  OneBehind'
    BY <1>1 DEF OneBehind
  <2>1. /\ nvTimedOut = {"namespace"} /\ nvStep \in {"cq", "sq"} \cup Registered
        /\ nvHead = IF nvStep = "cq" THEN 1 ELSE IF nvStep = "sq" THEN 2 ELSE 3
        /\ nvCq[1].of = "controller"
        /\ \A i \in 2 .. nvHead : nvCq[i].ok
    BY DEF StartInv, OneBehind
  <2>2. nvHead >= 1
    BY <2>1
  <2>3. \A i \in 1 .. nvHead : nvCq'[i] = nvCq[i]
    BY <1>2
  <2>4. nvCq'[1] = nvCq[1] /\ \A i \in 2 .. nvHead : nvCq'[i] = nvCq[i]
    BY <1>2, <2>2, <2>3
  <2> QED
    BY <1>1, <2>1, <2>4 DEF OneBehind
<1> QED
  BY <1>5, <1>6, <1>7, <1>8, <1>9 DEF StartInv

LEMMA StartStep == StartInv /\ [S!Next]_S!nvVars => StartInv'
<1> SUFFICES ASSUME StartInv, [S!Next]_S!nvVars PROVE StartInv'
  OBVIOUS
<1>1. CASE UNCHANGED S!nvVars
  BY <1>1 DEF S!nvVars, StartInv, StartTypes, CompletedOnce, OnlyAsked, Asked, CreatedIs, InTime,
              OneBehind
<1>2. CASE S!Complete
  <2>1. nvHead \in 0 .. Len(nvCq) /\ nvHead < Len(nvCq) /\ nvWaiting
        /\ nvCq \in Seq([of : S!Commands, ok : BOOLEAN])
    BY <1>2 DEF S!Complete, StartInv, StartTypes
  <2>2. nvCq[nvHead + 1].ok \in BOOLEAN
    <3>1. nvHead + 1 \in 1 .. Len(nvCq)
      BY <2>1
    <3>2. nvCq[nvHead + 1] \in [of : S!Commands, ok : BOOLEAN]
      BY <2>1, <3>1, ElementOfSeq
    <3> QED
      BY <3>2
  <2> QED
    BY <1>2, <2>1, <2>2, StartReturnInv DEF S!Complete
<1>3. CASE S!Timeout
  BY <1>3, StartReturnInv DEF S!Timeout
<1>4. CASE S!Reset \/ S!ReadHeader
  BY <1>4, StartReadHeaderInv
<1>5. CASE S!Submit
  BY <1>5, StartSubmitInv
<1>6. CASE \E c \in S!Commands, ok \in BOOLEAN : S!Post(c, ok)
  BY <1>6, StartPostInv
<1> QED
  BY <1>1, <1>2, <1>3, <1>4, <1>5, <1>6 DEF S!Next

(* The device has both queues, but for the one case that is excepted. *)
LEMMA StartShows == StartInv => S!RegisteredOverQueues
<1> SUFFICES ASSUME StartInv, nvStep \in Registered
             PROVE  S!RegisteredOverQueues
  BY DEF S!RegisteredOverQueues, Registered
<1>1. nvStep # "failed" /\ nvStep \notin S!Commands
  BY DEF Registered, S!Commands
<1>2. nvHead \in 0 .. Len(nvCq) /\ Len(nvCq) \in Nat
  BY DEF StartInv, StartTypes
<1>3. CASE nvTimedOut = {}
  <2>1. nvHead = Len(nvCq) /\ "cq" \in nvCreated /\ "sq" \in nvCreated
    BY <1>1, <1>3 DEF StartInv, StartTypes, InTime
  <2>2. \A i \in 1 .. Len(nvCq) : nvCq[i].of = "namespace" /\ nvCq[i].ok => nvSize
    BY <1>1, <1>3, <2>1 DEF StartInv, InTime
  <2> QED
    BY <1>3, <2>1, <2>2 DEF S!RegisteredOverQueues
<1>4. CASE nvTimedOut # {}
  <2>1. /\ nvTimedOut = {"namespace"} /\ nvHead = 3 /\ nvCq[1].of = "controller"
        /\ \A i \in 2 .. nvHead : nvCq[i].ok
    BY <1>1, <1>4 DEF StartInv, OneBehind, Registered, S!Commands
  <2>2. 1 \in 1 .. Len(nvCq) /\ 2 \in 1 .. Len(nvCq) /\ 3 \in 1 .. Len(nvCq)
    BY <1>2, <2>1
  <2>3. nvCq[2].ok /\ nvCq[3].ok
    BY <2>1
  <2>4. nvCq[2].of # nvCq[3].of /\ nvCq[2].of # "controller" /\ nvCq[3].of # "controller"
    BY <2>1, <2>2 DEF StartInv, CompletedOnce
  <2>5. nvCq[2].of \in S!Commands /\ nvCq[3].of \in S!Commands
    <3>1. nvCq \in Seq([of : S!Commands, ok : BOOLEAN])
      BY DEF StartInv, StartTypes
    <3>2. /\ nvCq[2] \in [of : S!Commands, ok : BOOLEAN]
          /\ nvCq[3] \in [of : S!Commands, ok : BOOLEAN]
      BY <2>2, <3>1, ElementOfSeq
    <3> QED
      BY <3>2
  <2>6. nvCq[2].of \in {"cq", "sq"} \/ nvCq[3].of \in {"cq", "sq"}
    BY <2>4, <2>5 DEF S!Commands
  <2>7. "cq" \in nvCreated
    BY <2>2, <2>3, <2>6 DEF StartInv, CreatedIs
  <2> QED
    BY <1>4, <2>1, <2>7 DEF S!RegisteredOverQueues
<1> QED
  BY <1>3, <1>4

(* The block device is registered over queues that exist, whichever        *)
(* commands time out and whatever the controller answers late.             *)
THEOREM NvmeRegistered == DriversSpec => []RegisteredOverQueues
<1>1. DriversInit => StartInv
  BY StartInit DEF DriversInit
<1>2. [DriversNext]_AllVars => [S!Next]_(S!nvVars)
  BY DEF DriversNext, AhciStep, CardStep, EchoStep, AllVars, nvVars, S!nvVars
<1>3. StartInv => RegisteredOverQueues
  BY StartShows DEF RegisteredOverQueues
<1> QED
  BY <1>1, <1>2, <1>3, StartStep, PTL DEF DriversSpec
------------------------------------------------------------------------------
(* AHCI. *)

(* However many entries a table has, what its entries have room for is     *)
(* what all but the last have, and the last one's. *)
Table(n, last) == [i \in 1 .. n |-> IF i < n THEN 8192 ELSE last]
Room(n, last) == IF n = 0 THEN 0 ELSE (n - 1) * 8192 + last

LEMMA RoomIs ==
  ASSUME NEW n \in Nat, NEW last \in Nat
  PROVE  A!Bytes(Table(n, last)) = Room(n, last)
<1> DEFINE p == Table(n, last)
           Sums(f) == f = [i \in 0 .. Len(p) |-> IF i = 0 THEN 0 ELSE f[i - 1] + p[i]]
           full == Room(n, last)
           g == [i \in 0 .. n |-> IF i < n THEN i * 8192 ELSE full]
           sum == CHOOSE f : Sums(f)
<1>1. A!Bytes(p) = sum[Len(p)]
  BY DEF A!Bytes
<1>2. Len(p) = n /\ \A i \in 1 .. n : p[i] = IF i < n THEN 8192 ELSE last
  BY DEF Table
<1>3. full \in Nat /\ (n = 0 => full = 0) /\ (n # 0 => full = (n - 1) * 8192 + last)
  BY DEF Room
<1> HIDE DEF full, p
<1>4. Sums(g)
  <2>1. ASSUME NEW i \in 0 .. n
        PROVE  g[i] = IF i = 0 THEN 0 ELSE g[i - 1] + p[i]
    BY <1>2, <1>3, <2>1, SMT
  <2>2. g = [i \in 0 .. n |-> g[i]]
    OBVIOUS
  <2> HIDE DEF g
  <2>3. [i \in 0 .. n |-> g[i]] = [i \in 0 .. n |-> IF i = 0 THEN 0 ELSE g[i - 1] + p[i]]
    BY <2>1
  <2>4. g = [i \in 0 .. n |-> IF i = 0 THEN 0 ELSE g[i - 1] + p[i]]
    BY <2>2, <2>3, Zenon
  <2>5. 0 .. Len(p) = 0 .. n
    BY <1>2
  <2>6. g = [i \in 0 .. Len(p) |-> IF i = 0 THEN 0 ELSE g[i - 1] + p[i]]
    BY <2>4, <2>5
  <2> QED
    BY <2>6
<1>5. Sums(sum)
  <2> HIDE DEF Sums, g
  <2> QED
    BY <1>4 DEF sum
<1> HIDE DEF sum
<1>6. 0 .. n \subseteq {i \in 0 .. n : sum[i] = g[i]}
  <2> DEFINE T == {i \in 0 .. n : sum[i] = g[i]}
  <2>1. \A i \in 0 .. n : /\ sum[i] = IF i = 0 THEN 0 ELSE sum[i - 1] + p[i]
                          /\ g[i] = IF i = 0 THEN 0 ELSE g[i - 1] + p[i]
    <3> HIDE DEF g
    <3> TAKE i \in 0 .. n
    <3>1. sum = [j \in 0 .. n |-> IF j = 0 THEN 0 ELSE sum[j - 1] + p[j]]
      BY <1>2, <1>5, Zenon
    <3>2. g = [j \in 0 .. n |-> IF j = 0 THEN 0 ELSE g[j - 1] + p[j]]
      BY <1>2, <1>4, Zenon
    <3>3. sum[i] = [j \in 0 .. n |-> IF j = 0 THEN 0 ELSE sum[j - 1] + p[j]][i]
      BY <3>1, Zenon
    <3>4. g[i] = [j \in 0 .. n |-> IF j = 0 THEN 0 ELSE g[j - 1] + p[j]][i]
      BY <3>2, Zenon
    <3> QED
      BY <3>3, <3>4, Zenon
  <2> HIDE DEF g
  <2>2. 0 \in T
    BY <1>2, <2>1
  <2>3. ASSUME NEW i \in 1 .. n, i - 1 \in T PROVE i \in T
    BY <1>2, <2>1, <2>3
  <2> HIDE DEF T
  <2>4. 0 .. n \subseteq T
    BY <1>2, <2>2, <2>3, UpTo
  <2> QED
    BY <2>4 DEF T
<1>7. n \in 0 .. n /\ g[n] = full
  OBVIOUS
<1>8. sum[n] = g[n]
  BY <1>6, <1>7
<1> HIDE DEF g
<1> QED
  BY <1>1, <1>2, <1>7, <1>8 DEF full, p

(* The entries of a table, and the last one. *)
LEMMA PrdtIs ==
  ASSUME NEW count \in Nat
  PROVE  /\ A!Prdtl(count) \in Nat /\ A!Rest(count) \in Nat
         /\ A!Bytes(A!Prdt(count)) = Room(A!Prdtl(count), A!Rest(count))
         /\ Len(A!Prdt(count)) = A!Prdtl(count)
<1>1. A!Prdtl(count) \in Nat
  BY SMT DEF A!Prdtl, A!PrdtSectors
<1>2. A!Rest(count) \in Nat
  <2> DEFINE rest == (count - 16 * (A!Prdtl(count) - 1)) * 512 - 1
  <2>1. A!Rest(count) = (rest % 4194304) + 1
    BY DEF A!Rest, A!PrdtSectors, A!SectorBytes
  <2>2. rest \in Int
    BY <1>1
  <2> HIDE DEF rest
  <2> QED
    BY <2>1, <2>2, SMT
<1>3. A!Prdt(count) = Table(A!Prdtl(count), A!Rest(count))
  BY DEF A!Prdt, A!PrdtSectors, A!SectorBytes, Table
<1>4. A!Bytes(A!Prdt(count)) = Room(A!Prdtl(count), A!Rest(count))
  BY <1>1, <1>2, <1>3, RoomIs
<1>5. Len(A!Prdt(count)) = A!Prdtl(count)
  BY <1>1, <1>3 DEF Table
<1> QED
  BY <1>1, <1>2, <1>4, <1>5

LEMMA SmallPrdt ==
  ASSUME NEW count \in 0 .. 128
  PROVE  /\ A!Prdtl(count) \in 0 .. 8 /\ (count = 0 <=> A!Prdtl(count) = 0)
         /\ count # 0 => A!Rest(count) = (count - 16 * (A!Prdtl(count) - 1)) * 512
<1>1. CASE count = 0
  BY <1>1, SMT DEF A!Prdtl
<1>2. CASE count # 0
  <2> DEFINE m == ((count - 1) \div 16) + 1
             n == A!Prdtl(count)
             rest == (count - 16 * (n - 1)) * 512 - 1
  <2>1. m \in 1 .. 8 /\ 16 * (m - 1) < count /\ count <= 16 * m
    BY <1>2, SMT
  <2>2. n = m % 65536
    BY <1>2 DEF A!Prdtl, A!PrdtSectors
  <2>3. A!Rest(count) = (rest % 4194304) + 1
    BY DEF A!Rest, A!PrdtSectors, A!SectorBytes
  <2> HIDE DEF m, n
  <2>4. n = m
    BY <2>1, <2>2, SMT
  <2>5. rest \in 0 .. 8191
    BY <2>1, <2>4, SMT
  <2>6. rest + 1 = (count - 16 * (n - 1)) * 512
    BY <2>1, <2>4
  <2> HIDE DEF rest
  <2>7. A!Rest(count) = (count - 16 * (n - 1)) * 512
    <3>1. rest % 4194304 = rest
      BY <2>5, SMT
    <3> QED
      BY <2>3, <2>6, <3>1
  <2>8. n \in 1 .. 8
    BY <2>1, <2>4
  <2> QED
    BY <1>2, <2>7, <2>8 DEF n
<1> QED
  BY <1>1, <1>2

(* A table with room for 128 sectors has room for exactly those asked for, *)
(* and the drive is asked for them: that is what arrives.                  *)
LEMMA MovesOwn ==
  ASSUME NEW command, NEW count \in 0 .. 128, command.count = count,
         command.prdt = A!Prdt(count)
  PROVE  A!Moves(command) = count * 512 /\ ~A!Overruns(command)
<1> DEFINE n == A!Prdtl(count)
           last == A!Rest(count)
           room == A!Bytes(A!Prdt(count))
           sent == A!Asked(command)
<1>1. /\ n \in 0 .. 8 /\ (count = 0 <=> n = 0) /\ last \in Nat
      /\ count # 0 => last = (count - 16 * (n - 1)) * 512
      /\ room = Room(n, last)
      /\ Len(A!Prdt(count)) = n
  <2>1. count \in Nat
    OBVIOUS
  <2>2. /\ n \in 0 .. 8 /\ (count = 0 <=> n = 0)
        /\ count # 0 => last = (count - 16 * (n - 1)) * 512
    BY SmallPrdt
  <2>3. /\ last \in Nat /\ Len(A!Prdt(count)) = n
        /\ room = Room(n, last)
    BY <2>1, PrdtIs
  <2> QED
    BY <2>2, <2>3
<1>2. /\ A!Moves(command) = IF sent * 512 <= room THEN sent * 512 ELSE room
      /\ A!Overruns(command) => Len(A!Prdt(count)) > 8
  BY DEF A!Moves, A!Overruns, A!TableRoom, A!SectorBytes
<1>3. sent \in Nat /\ (count # 0 => sent = count)
  <2>1. \A space \in {256, 65536} :
          /\ (IF count % space = 0 THEN space ELSE count % space) \in Nat
          /\ count # 0 => (IF count % space = 0 THEN space ELSE count % space) = count
    BY SMT
  <2> QED
    BY <2>1 DEF A!Asked
<1> HIDE DEF n, last, room, sent
<1>4. room = count * 512
  BY <1>1, SMT DEF Room
<1> QED
  BY <1>1, <1>2, <1>3, <1>4

LEMMA MovesNat ==
  ASSUME NEW command, NEW count \in Nat, command.count \in Nat,
         command.prdt = A!Prdt(count)
  PROVE  A!Moves(command) \in Nat
<1> DEFINE n == A!Prdtl(count)
           last == A!Rest(count)
           room == A!Bytes(A!Prdt(count))
           sent == A!Asked(command)
<1>1. n \in Nat /\ last \in Nat /\ room = Room(n, last)
  BY PrdtIs
<1>2. A!Moves(command) = IF sent * 512 <= room THEN sent * 512 ELSE room
  BY DEF A!Moves, A!SectorBytes
<1>3. sent \in Nat
  BY SMT DEF A!Asked
<1> HIDE DEF n, last, room, sent
<1>4. room \in Nat
  BY <1>1, SMT DEF Room
<1> QED
  BY <1>2, <1>3, <1>4
------------------------------------------------------------------------------
(* The scan of a disk: what is found so far is what the entries before the *)
(* present one stand for, all of it unless a read has failed.  The table   *)
(* read is the disk's if there is room for it in a command table.          *)
DiskType == [type : STRING, gpt : BOOLEAN, size : Nat, far : BOOLEAN, table : Seq(A!Kinds)]
Scans == [step : {"header", "table", "exfat", "fat32", "done", "fault"},
          table : Seq(A!Kinds), entry : Nat, found : SUBSET (Nat \X A!Kinds)]

FoundUpTo(n, found, table, failed) ==
  /\ \A v \in found : \E i \in 1 .. n : table[i] \in A!Volumes /\ v = <<i, table[i]>>
  /\ ~failed => \A i \in 1 .. n : table[i] \in A!Volumes => <<i, table[i]>> \in found

ScanIs(scan, disk, failed) ==
  /\ scan.step \in {"header", "table"} => scan.entry = 0 /\ scan.found = {}
  /\ scan.step \in {"table", "exfat", "fat32", "fault"} => disk.gpt
  /\ scan.step \in {"exfat", "fat32", "fault"} =>
       /\ scan.entry \in 1 .. Len(scan.table)
       /\ FoundUpTo(scan.entry - 1, scan.found, scan.table, failed)
       /\ A!TableFits(disk) => scan.table = disk.table
  /\ scan.step = "fat32" /\ ~failed => scan.table[scan.entry] # "exfat"
  /\ scan.step = "done" /\ A!TableFits(disk) =>
       /\ scan.found \subseteq A!OnDisk(disk)
       /\ ~failed => scan.found = A!OnDisk(disk)

(* What was found is on the disk, and when the table is through, all of it. *)
LEMMA FoundOnDisk ==
  ASSUME NEW disk \in DiskType, NEW n \in 0 .. Len(disk.table), NEW found,
         NEW failed \in BOOLEAN, disk.gpt, FoundUpTo(n, found, disk.table, failed)
  PROVE  /\ found \subseteq A!OnDisk(disk)
         /\ n = Len(disk.table) /\ ~failed => found = A!OnDisk(disk)
<1> DEFINE table == disk.table
<1>1. table \in Seq(A!Kinds) /\ DOMAIN table = 1 .. Len(table) /\ Len(table) \in Nat
  BY DEF DiskType
<1>2. A!OnDisk(disk) = {<<i, table[i]>> : i \in {j \in 1 .. Len(table) : table[j] \in A!Volumes}}
  BY <1>1 DEF A!OnDisk
<1>3. FoundUpTo(n, found, table, failed) /\ n \in 0 .. Len(table)
  OBVIOUS
<1> HIDE DEF table
<1>4. ASSUME NEW v \in found PROVE v \in A!OnDisk(disk)
  <2>1. PICK i \in 1 .. n : table[i] \in A!Volumes /\ v = <<i, table[i]>>
    BY <1>3 DEF FoundUpTo
  <2>2. i \in 1 .. Len(table)
    BY <1>1, <1>3
  <2> QED
    BY <1>2, <2>1, <2>2
<1>5. n = Len(table) /\ ~failed => A!OnDisk(disk) \subseteq found
  BY <1>2, <1>3 DEF FoundUpTo
<1> QED
  BY <1>4, <1>5 DEF table

(* The next entry that is a basic data partition, if there is one. *)
LEMMA GoOnIs ==
  ASSUME NEW scan \in Scans, NEW found \in SUBSET (Nat \X A!Kinds)
  PROVE  LET g == A!GoOn(scan, found)
             basic(i) == scan.table[i] \in A!Basic
         IN
         /\ g \in Scans /\ g.found = found /\ g.table = scan.table
         /\ \/ /\ g.step = "done"
               /\ \A i \in scan.entry + 1 .. Len(scan.table) : ~basic(i)
            \/ /\ g.step = "exfat" /\ g.entry \in scan.entry + 1 .. Len(scan.table)
               /\ basic(g.entry)
               /\ \A i \in scan.entry + 1 .. g.entry - 1 : ~basic(i)
<1> DEFINE rest == {i \in scan.entry + 1 .. Len(scan.table) : scan.table[i] \in A!Basic}
           i0 == CHOOSE i \in rest : \A j \in rest : i <= j
           g == A!GoOn(scan, found)
<1>1. scan.entry \in Nat /\ Len(scan.table) \in Nat
  BY DEF Scans
<1>2. g = IF rest = {} THEN [scan EXCEPT !.step = "done", !.found = found]
          ELSE [scan EXCEPT !.step = "exfat", !.entry = i0, !.found = found]
  BY DEF A!GoOn
<1>3. CASE rest = {}
  <2>1. g = [scan EXCEPT !.step = "done", !.found = found]
    BY <1>2, <1>3
  <2> HIDE DEF g
  <2>2. g \in Scans /\ g.found = found /\ g.step = "done" /\ g.table = scan.table
    BY <2>1 DEF Scans
  <2> QED
    BY <1>3, <2>2 DEF g
<1>4. CASE rest # {}
  <2>1. rest \subseteq Nat
    BY <1>1
  <2>2. \E i \in rest : \A j \in rest : i <= j
    <3> HIDE DEF rest
    <3> QED
      BY <1>4, <2>1, Least
  <2>3. i0 \in rest /\ \A j \in rest : i0 <= j
    <3> HIDE DEF rest
    <3> QED
      BY <2>2
  <2>4. g = [scan EXCEPT !.step = "exfat", !.entry = i0, !.found = found]
    BY <1>2, <1>4
  <2> HIDE DEF i0, g
  <2>5. /\ g \in Scans /\ g.found = found /\ g.step = "exfat" /\ g.entry = i0
        /\ g.table = scan.table
    BY <2>1, <2>3, <2>4 DEF Scans
  <2>6. \A i \in scan.entry + 1 .. i0 - 1 : scan.table[i] \notin A!Basic
    <3> TAKE i \in scan.entry + 1 .. i0 - 1
    <3>1. i \in scan.entry + 1 .. Len(scan.table) /\ ~(i0 <= i)
      BY <1>1, <2>1, <2>3
    <3> QED
      BY <2>3, <3>1
  <2> QED
    BY <2>3, <2>5, <2>6 DEF g
<1> QED
  BY <1>3, <1>4

(* What is found, with the present entry looked at. *)
LEMMA GoneOn ==
  ASSUME NEW disk \in DiskType, NEW scan \in Scans, NEW found \in SUBSET (Nat \X A!Kinds),
         NEW failed \in BOOLEAN, disk.gpt, scan.entry <= Len(scan.table),
         FoundUpTo(scan.entry, found, scan.table, failed),
         A!TableFits(disk) => scan.table = disk.table
  PROVE  A!GoOn(scan, found) \in Scans /\ ScanIs(A!GoOn(scan, found), disk, failed)
<1> DEFINE g == A!GoOn(scan, found)
           table == scan.table
<1>1. /\ g \in Scans /\ g.found = found /\ g.table = table
      /\ \/ /\ g.step = "done" /\ \A i \in scan.entry + 1 .. Len(table) : table[i] \notin A!Basic
         \/ /\ g.step = "exfat" /\ g.entry \in scan.entry + 1 .. Len(table)
            /\ \A i \in scan.entry + 1 .. g.entry - 1 : table[i] \notin A!Basic
  BY GoOnIs
<1>2. scan.entry \in Nat /\ Len(table) \in Nat /\ table \in Seq(A!Kinds)
  BY DEF Scans
<1>3. A!Volumes \subseteq A!Basic
  BY DEF A!Basic
<1> HIDE DEF g, table
<1>4. FoundUpTo(scan.entry, found, table, failed) /\ scan.entry <= Len(table)
      /\ (A!TableFits(disk) => table = disk.table)
  BY DEF table
<1>5. ASSUME NEW n \in scan.entry .. Len(table),
             \A i \in scan.entry + 1 .. n : table[i] \notin A!Basic
      PROVE  FoundUpTo(n, found, table, failed)
  <2>1. n \in Nat /\ scan.entry <= n
    BY <1>2
  <2>2. \A v \in found : \E i \in 1 .. n : table[i] \in A!Volumes /\ v = <<i, table[i]>>
    <3> TAKE v \in found
    <3>1. PICK i \in 1 .. scan.entry : table[i] \in A!Volumes /\ v = <<i, table[i]>>
      BY <1>4 DEF FoundUpTo
    <3>2. i \in 1 .. n
      BY <1>2, <2>1
    <3> QED
      BY <3>1, <3>2
  <2>3. ASSUME ~failed, NEW i \in 1 .. n, table[i] \in A!Volumes
        PROVE  <<i, table[i]>> \in found
    <3>1. i \notin scan.entry + 1 .. n
      BY <1>3, <1>5, <2>3
    <3>2. i \in 1 .. scan.entry
      BY <1>2, <2>1, <3>1
    <3> QED
      BY <1>4, <2>3, <3>2 DEF FoundUpTo
  <2> QED
    BY <2>2, <2>3 DEF FoundUpTo
<1>6. CASE g.step = "done"
  <2>1. FoundUpTo(Len(table), found, table, failed)
    <3>1. \A i \in scan.entry + 1 .. Len(table) : table[i] \notin A!Basic
      BY <1>1, <1>6
    <3>2. Len(table) \in scan.entry .. Len(table)
      BY <1>2, <1>4
    <3> QED
      BY <1>5, <3>1, <3>2
  <2>2. Len(table) \in 0 .. Len(table)
    BY <1>2
  <2>3. A!TableFits(disk) =>
          found \subseteq A!OnDisk(disk) /\ (~failed => found = A!OnDisk(disk))
    BY <1>4, <2>1, <2>2, FoundOnDisk
  <2> QED
    BY <1>1, <1>6, <2>3 DEF ScanIs, g
<1>7. CASE g.step = "exfat"
  <2>1. /\ g.entry \in scan.entry + 1 .. Len(table)
        /\ \A i \in scan.entry + 1 .. g.entry - 1 : table[i] \notin A!Basic
    BY <1>1, <1>7
  <2>2. g.entry - 1 \in scan.entry .. Len(table) /\ g.entry \in 1 .. Len(table)
    BY <1>2, <2>1
  <2>3. FoundUpTo(g.entry - 1, found, table, failed)
    BY <1>5, <2>1, <2>2
  <2> QED
    BY <1>1, <1>4, <1>7, <2>2, <2>3 DEF ScanIs, g
<1> QED
  BY <1>1, <1>6, <1>7

(* One entry more is looked at. *)
LEMMA FoundMore ==
  ASSUME NEW table \in Seq(A!Kinds), NEW n \in 1 .. Len(table), NEW found, NEW more,
         NEW failed \in BOOLEAN, FoundUpTo(n - 1, found, table, failed),
         found \subseteq more, more \subseteq found \cup {<<n, table[n]>>},
         ~failed /\ table[n] \in A!Volumes => <<n, table[n]>> \in more,
         table[n] \notin A!Volumes => more = found
  PROVE  FoundUpTo(n, more, table, failed)
<1>1. n \in Nat /\ \A i : i \in 1 .. n <=> i \in 1 .. n - 1 \/ i = n
  OBVIOUS
<1>2. ASSUME NEW v \in more PROVE \E i \in 1 .. n : table[i] \in A!Volumes /\ v = <<i, table[i]>>
  <2>1. CASE v \in found
    BY <1>1, <2>1 DEF FoundUpTo
  <2>2. CASE v \notin found
    <3>1. v = <<n, table[n]>> /\ table[n] \in A!Volumes
      BY <1>2, <2>2
    <3> QED
      BY <1>1, <3>1
  <2> QED
    BY <2>1, <2>2
<1>3. ASSUME ~failed, NEW i \in 1 .. n, table[i] \in A!Volumes
      PROVE  <<i, table[i]>> \in more
  BY <1>1, <1>3 DEF FoundUpTo
<1> QED
  BY <1>2, <1>3 DEF FoundUpTo

(* A read of the scan has returned, well or not; what lies in the buffer   *)
(* of a table that fits is the table. *)
LEMMA AfterReadIs ==
  ASSUME NEW disk \in DiskType, NEW scan \in Scans, NEW failed \in BOOLEAN, NEW ok \in BOOLEAN,
         ScanIs(scan, disk, failed), scan.step \notin {"done", "fault"}, NEW seen \in Seq(A!Kinds),
         ok /\ scan.step = "table" /\ A!TableFits(disk) => seen = disk.table
  PROVE  /\ A!AfterRead(scan, ok, disk, seen) \in Scans
         /\ ScanIs(A!AfterRead(scan, ok, disk, seen), disk, failed \/ ~ok)
<1> DEFINE next == A!AfterRead(scan, ok, disk, seen)
           table == scan.table
           bad == failed \/ ~ok
<1>1. /\ scan.entry \in Nat /\ Len(table) \in Nat /\ table \in Seq(A!Kinds) /\ bad \in BOOLEAN
      /\ scan.found \in SUBSET (Nat \X A!Kinds)
  BY DEF Scans
<1>2. CASE scan.step = "header"
  <2>1. next = [scan EXCEPT !.step = IF ok /\ disk.gpt THEN "table" ELSE "done"]
    BY <1>2 DEF A!AfterRead
  <2>2. scan.entry = 0 /\ scan.found = {}
    BY <1>2 DEF ScanIs
  <2>3. ok /\ ~disk.gpt => A!OnDisk(disk) = {}
    BY DEF A!OnDisk
  <2>4. /\ next \in Scans /\ next.entry = 0 /\ next.found = {}
        /\ next.step = IF ok /\ disk.gpt THEN "table" ELSE "done"
    <3> HIDE DEF next
    <3> QED
      BY <2>1, <2>2 DEF Scans
  <2> HIDE DEF next
  <2> QED
    BY <2>3, <2>4 DEF ScanIs, next
<1>3. CASE scan.step = "table"
  <2> DEFINE read == [scan EXCEPT !.table = seen]
  <2>1. next = IF ok THEN A!GoOn(read, {}) ELSE [scan EXCEPT !.step = "done"]
    BY <1>3 DEF A!AfterRead
  <2>2. scan.entry = 0 /\ scan.found = {} /\ disk.gpt
    BY <1>3 DEF ScanIs
  <2>3. read \in Scans /\ read.entry = 0 /\ read.table = seen
    BY <2>2 DEF Scans
  <2> HIDE DEF read
  <2>4. CASE ok
    <3>1. FoundUpTo(read.entry, {}, read.table, bad)
      <4>1. \A i \in 1 .. read.entry : FALSE
        BY <2>3
      <4> QED
        BY <4>1 DEF FoundUpTo
    <3>2. A!GoOn(read, {}) \in Scans /\ ScanIs(A!GoOn(read, {}), disk, bad)
      <4>1. /\ read.entry <= Len(read.table) /\ {} \in SUBSET (Nat \X A!Kinds)
            /\ A!TableFits(disk) => read.table = disk.table
        BY <1>3, <2>3, <2>4
      <4> HIDE DEF bad
      <4> QED
        BY <1>1, <2>2, <2>3, <3>1, <4>1, GoneOn
    <3> QED
      BY <2>1, <2>4, <3>2
  <2>5. CASE ~ok
    <3>1. next = [scan EXCEPT !.step = "done"]
      BY <2>1, <2>5
    <3> HIDE DEF next
    <3>2. next \in Scans /\ next.entry = 0 /\ next.found = {} /\ next.step = "done"
      BY <2>2, <3>1 DEF Scans
    <3>3. {} \subseteq A!OnDisk(disk)
      OBVIOUS
    <3> QED
      BY <2>5, <3>2, <3>3 DEF ScanIs, next
  <2> QED
    BY <2>4, <2>5
<1>4. CASE scan.step \in A!Volumes
  <2>1. /\ scan.entry \in 1 .. Len(table) /\ disk.gpt
        /\ FoundUpTo(scan.entry - 1, scan.found, table, failed)
        /\ A!TableFits(disk) => table = disk.table
    BY <1>4 DEF ScanIs, A!Volumes
  <2>2. FoundUpTo(scan.entry - 1, scan.found, table, bad)
    BY <2>1 DEF FoundUpTo
  <2> DEFINE e == scan.entry
             more == IF ok /\ table[e] = scan.step THEN scan.found \cup {<<e, scan.step>>}
                     ELSE scan.found
  <2>3. CASE scan.step = "exfat" /\ ~(ok /\ table[e] = "exfat")
    <3>1. next = [scan EXCEPT !.step = "fat32"]
      BY <2>3 DEF A!AfterRead, A!Holds
    <3> HIDE DEF next
    <3>2. /\ next \in Scans /\ next.entry = e /\ next.found = scan.found
          /\ next.step = "fat32" /\ next.table = table
      BY <3>1 DEF Scans
    <3> QED
      BY <1>4, <2>1, <2>2, <2>3, <3>2 DEF ScanIs, next
  <2>4. CASE scan.step = "fat32" /\ ok /\ table[e] = "zero"
    <3>1. next = [scan EXCEPT !.step = "fault"]
      BY <2>4 DEF A!AfterRead
    <3> HIDE DEF next
    <3>2. /\ next \in Scans /\ next.entry = e /\ next.found = scan.found
          /\ next.step = "fault" /\ next.table = table
      BY <3>1 DEF Scans
    <3> QED
      BY <1>4, <2>1, <2>2, <2>4, <3>2 DEF ScanIs, next
  <2>5. CASE /\ ~(scan.step = "exfat" /\ ~(ok /\ table[e] = "exfat"))
             /\ ~(scan.step = "fat32" /\ ok /\ table[e] = "zero")
    <3>1. next = A!GoOn(scan, more)
      <4>1. CASE scan.step = "exfat"
        BY <2>5, <4>1 DEF A!AfterRead, A!Holds
      <4>2. CASE scan.step = "fat32"
        <5>1. next = A!GoOn(scan, IF ok /\ A!Holds(scan)
                                  THEN scan.found \cup {<<scan.entry, "fat32">>}
                                  ELSE scan.found)
          BY <2>5, <4>2 DEF A!AfterRead
        <5> QED
          BY <4>2, <5>1 DEF A!Holds
      <4> QED
        BY <1>4, <4>1, <4>2 DEF A!Volumes
    <3>2. table[e] \in A!Kinds
      BY <1>1, <2>1, ElementOfSeq
    <3>3. more \in SUBSET (Nat \X A!Kinds)
      BY <1>1, <3>2
    <3>4. FoundUpTo(e, more, table, bad)
      <4>1. ~bad => ok /\ ~failed
        OBVIOUS
      <4>2. ~bad /\ table[e] \in A!Volumes => <<e, table[e]>> \in more
        BY <1>4, <2>5, <4>1 DEF ScanIs, A!Volumes
      <4>3. table[e] \notin A!Volumes => more = scan.found
        BY <1>4
      <4>4. scan.found \subseteq more /\ more \subseteq scan.found \cup {<<e, table[e]>>}
        OBVIOUS
      <4> DEFINE had == scan.found
      <4>5. /\ table \in Seq(A!Kinds) /\ e \in 1 .. Len(table) /\ bad \in BOOLEAN
            /\ FoundUpTo(e - 1, had, table, bad)
            /\ had \subseteq more /\ more \subseteq had \cup {<<e, table[e]>>}
            /\ ~bad /\ table[e] \in A!Volumes => <<e, table[e]>> \in more
            /\ table[e] \notin A!Volumes => more = had
        BY <1>1, <2>1, <2>2, <4>2, <4>3, <4>4
      <4> HIDE DEF more, bad, table, e, had
      <4> QED
        BY <4>5, FoundMore
    <3>5. A!GoOn(scan, more) \in Scans /\ ScanIs(A!GoOn(scan, more), disk, bad)
      <4>1. e <= Len(table)
        BY <1>1, <2>1
      <4> HIDE DEF more, bad
      <4> QED
        BY <1>1, <2>1, <3>3, <3>4, <4>1, GoneOn
    <3> QED
      BY <3>1, <3>5
  <2> QED
    BY <2>3, <2>4, <2>5
<1> QED
  BY <1>2, <1>3, <1>4 DEF Scans, A!Volumes

------------------------------------------------------------------------------
(* ahci_init and the call it is in. *)
Inits == [port : Nat \ {0}, step : {"port", "stop", "identify", "scan", "end"},
          scan : Scans, failed : BOOLEAN]
CallsMade == [no : Nat, at : {"idle", "filled", "waiting"}, slot : Int, sectors : Nat]

ScanIn(init) ==
  /\ init \in Inits
  /\ init.step \in {"stop", "identify", "scan"} => init.port \in 1 .. Ports
  /\ init.step = "scan" => ScanIs(init.scan, Disks[init.port], init.failed)

(* The sectors a call asks for. *)
Asking(init) ==
  IF init.step = "identify" THEN 1 ELSE A!Sectors(init.scan, Disks[init.port], 512)

(* A call is made while a drive is identified or scanned. *)
InitIn ==
  /\ ScanIn(ahInit) /\ ahCall \in CallsMade
  /\ ahCall.at # "idle" => A!Calls /\ ahCall.sectors = Asking(ahInit)

(* The commands.  What a port holds. *)
Tables == [call : Nat, count : Nat, far : BOOLEAN, prdt : {A!Prdt(count) : count \in Nat}]
PortType ==
  [ci : SUBSET A!Slot, tfes : BOOLEAN, running : BOOLEAN, halted : BOOLEAN,
   busy : A!Slot \cup {A!None}, up : BOOLEAN, silent : BOOLEAN, keeps : BOOLEAN,
   overrun : BOOLEAN, active : Tables, table : [A!Slot -> Tables],
   issued : [A!Slot -> Tables], moved : UNION {[done -> Nat] : done \in SUBSET Nat}]

(* A port's commands are what was issued unless a table was overrun, and   *)
(* no call has had success for one of them; the drive is busy with one of  *)
(* them, as it was issued or as the overrun has left it.                   *)
PortIs(port, no, ok) ==
  /\ \A s \in port.ci :
       /\ port.table[s] \in {port.issued[s], A!NoCommand}
       /\ ~port.overrun => port.table[s] = port.issued[s]
       /\ port.issued[s].call \notin ok /\ port.issued[s].call <= no
  /\ port.busy # A!None =>
       port.busy \in port.ci /\ port.active \in {port.issued[port.busy], A!NoCommand}

(* A call's own command, and that it has moved what was asked for. *)
IsOwn(command, made) ==
  /\ command.call = made.no /\ command.count = made.sectors
  /\ command.prdt = A!Prdt(made.sectors)
HasMoved(port, made) ==
  /\ made.no \in DOMAIN port.moved
  /\ made.sectors <= 128 => port.moved[made.no] = made.sectors * 512

(* Nothing is issued on a port whose turn has not come. *)
NotYet(init, ports) ==
  \A p \in 1 .. Ports :
    p > init.port \/ (p = init.port /\ init.step \in {"port", "stop"}) => ports[p].ci = {}

(* Only the present call's command, issued at its slot, is its own. *)
OnlyHere(init, made, ports) ==
  \A p \in 1 .. Ports : \A s \in ports[p].ci :
    ports[p].issued[s].call = made.no =>
      made.at = "waiting" /\ p = init.port /\ s = made.slot

(* The present call's command is in its table until the drive takes it. *)
Waits(port, made) ==
  IF made.slot \in port.ci
  THEN /\ IsOwn(port.issued[made.slot], made)
       /\ port.table[made.slot] = port.issued[made.slot]
       /\ port.busy = made.slot => port.active = port.issued[made.slot]
  ELSE HasMoved(port, made)

CallIs(init, made, ports, ok) ==
  /\ made.at # "idle" => /\ made.slot \in A!Slot /\ made.no \notin ok /\ made.no # 0
                         /\ OnlyHere(init, made, ports)
  /\ made.at = "filled" => /\ made.slot \notin ports[init.port].ci
                           /\ IsOwn(ports[init.port].table[made.slot], made)
  /\ made.at = "waiting" => Waits(ports[init.port], made)
  /\ made.no \in ok => \E p \in 1 .. Ports : HasMoved(ports[p], made)
  /\ ok \subseteq 1 .. made.no

CommandsIn(init, made, ports, ok) ==
  /\ ports \in [1 .. Ports -> PortType]
  /\ \A p \in 1 .. Ports : PortIs(ports[p], made.no, ok)
  /\ NotYet(init, ports) /\ CallIs(init, made, ports, ok)

AhciInv == InitIn /\ CommandsIn(ahInit, ahCall, ahPort, ahOk)

(* The slot found is one that is free. *)
LEMMA SlotIs ==
  ASSUME NEW port, A!FindCmdSlot(port) # A!None
  PROVE  A!FindCmdSlot(port) \in A!Slot \ port.ci
<1> DEFINE free == A!Slot \ port.ci
<1>1. A!FindCmdSlot(port) = CHOOSE s \in free : \A t \in free : s <= t
  BY DEF A!FindCmdSlot
<1>2. free # {} /\ free \subseteq Nat
  BY DisksAssumption DEF A!FindCmdSlot, A!Slot
<1> HIDE DEF free
<1>3. \E s \in free : \A t \in free : s <= t
  BY <1>2, Least
<1>4. A!FindCmdSlot(port) \in free
  BY <1>1, <1>3
<1> QED
  BY <1>4 DEF free

(* The sectors asked for are a number; and enough for a partition table    *)
(* that a command table has room for. *)
LEMMA SectorsNat ==
  ASSUME NEW disk \in DiskType, NEW scan
  PROVE  A!Sectors(scan, disk, 512) \in Nat
<1> DEFINE bytes == A!TableBytes(disk)
           size == bytes % SizeSpace
           up == (size + 512 - 1) % SizeSpace
<1>1. A!Sectors(scan, disk, 512) = IF scan.step = "table" THEN up \div 512 ELSE 1
  BY DEF A!Sectors, A!TableSize
<1>2. SizeSpace \in Nat /\ SizeSpace > 0
  BY DisksAssumption
<1>3. bytes \in Nat
  <2>1. \A a, b \in Nat : a * b \in Nat
    BY SMT
  <2>2. Len(disk.table) \in Nat /\ disk.size \in Nat
    BY DEF DiskType
  <2> QED
    BY <2>1, <2>2 DEF A!TableBytes
<1> HIDE DEF bytes
<1>4. \A a, b \in Nat : b > 0 => a % b \in Nat
  BY SMT
<1>5. size \in Nat
  BY <1>2, <1>3, <1>4
<1> HIDE DEF size
<1>6. size + 512 - 1 \in Nat
  BY <1>5
<1>7. up \in Nat
  BY <1>2, <1>4, <1>6
<1> HIDE DEF up
<1> QED
  BY <1>1, <1>7, SMT

LEMMA SectorsFit ==
  ASSUME NEW disk \in DiskType, NEW scan, scan.step = "table", A!TableFits(disk)
  PROVE  /\ A!Sectors(scan, disk, 512) \in 0 .. 128
         /\ A!Sectors(scan, disk, 512) * 512 >= A!TableBytes(disk)
<1> DEFINE bytes == A!TableBytes(disk)
<1>1. SizeSpace \in Nat /\ SizeSpace > 66048
  BY DisksAssumption
<1>2. bytes \in Nat /\ bytes <= 65536
  <2>1. \A a, b \in Nat : a * b \in Nat
    BY SMT
  <2>2. Len(disk.table) \in Nat /\ disk.size \in Nat
    BY DEF DiskType
  <2>3. bytes \in Nat
    BY <2>1, <2>2 DEF A!TableBytes
  <2>4. bytes <= 65536
    BY <2>3, SMT DEF A!TableFits, A!TableRoom, A!PrdtSectors, A!SectorBytes
  <2> QED
    BY <2>3, <2>4
<1>3. A!Sectors(scan, disk, 512) = (((bytes % SizeSpace) + 512 - 1) % SizeSpace) \div 512
  BY DEF A!Sectors, A!TableSize
<1> HIDE DEF bytes
<1>4. bytes % SizeSpace = bytes
  BY <1>1, <1>2, WithinSpace
<1>5. (bytes + 511) % SizeSpace = bytes + 511
  BY <1>1, <1>2, WithinSpace
<1>6. A!Sectors(scan, disk, 512) = (bytes + 511) \div 512
  BY <1>2, <1>3, <1>4, <1>5
<1> QED
  BY <1>2, <1>6, SMT DEF bytes

(* A call has returned: the scan goes on, or the next port's turn comes. *)
LEMMA AdvanceIs ==
  ASSUME ScanIn(ahInit), A!Calls, NEW ok \in BOOLEAN, A!Advance(ok),
         ok /\ ahInit.step = "scan" /\ ahInit.scan.step = "table" /\ A!TableFits(A!Disk)
           => A!Seen = {A!Disk.table}
  PROVE  /\ ScanIn(ahInit')
         /\ ahInit'.step \in {"port", "scan"}
         /\ ahInit'.port = IF ahInit'.step = "port" THEN ahInit.port + 1 ELSE ahInit.port
<1>1. /\ ahInit \in Inits /\ ahInit.port \in 1 .. Ports /\ Disks[ahInit.port] \in DiskType
      /\ ahInit.step \in {"identify", "scan"}
  BY DisksAssumption DEF ScanIn, A!Calls, DiskType
<1> DEFINE disk == Disks[ahInit.port]
<1>2. CASE ahInit.step = "identify" /\ ok
  <2>1. ahInit' = [ahInit EXCEPT !.step = "scan", !.scan = A!Start, !.failed = FALSE]
    BY <1>2 DEF A!Advance
  <2>2. A!Start \in Scans
    BY DEF A!Start, Scans
  <2>3. /\ ahInit' \in Inits /\ ahInit'.step = "scan" /\ ahInit'.port = ahInit.port
        /\ ahInit'.scan = A!Start
    BY <1>1, <2>1, <2>2 DEF Inits
  <2>4. ScanIs(A!Start, Disks[ahInit.port], ahInit'.failed)
    BY DEF ScanIs, A!Start
  <2> QED
    BY <1>1, <2>3, <2>4 DEF ScanIn
<1>3. CASE ahInit.step = "identify" /\ ~ok
  <2>1. ahInit' = [ahInit EXCEPT !.step = "port", !.port = ahInit.port + 1]
    BY <1>1, <1>3 DEF A!Advance, Inits
  <2> DEFINE n == ahInit.port + 1
  <2>2. n \in Nat \ {0}
    BY <1>1 DEF Inits
  <2> HIDE DEF n
  <2>3. ahInit' = [ahInit EXCEPT !.step = "port", !.port = n]
    BY <2>1 DEF n
  <2>4. ahInit' \in Inits /\ ahInit'.step = "port" /\ ahInit'.port = n
    BY <1>1, <2>2, <2>3 DEF Inits
  <2> QED
    BY <2>4 DEF ScanIn, n
<1>4. CASE ahInit.step = "scan"
  <2>1. PICK seen \in IF ok /\ ahInit.scan.step = "table" THEN A!Seen ELSE {<<>>} :
          ahInit' = [ahInit EXCEPT !.scan = A!AfterRead(ahInit.scan, ok, disk, seen),
                                   !.failed = ahInit.failed \/ ~ok]
    BY <1>1, <1>4 DEF A!Advance, A!Disk, Inits
  <2>2. seen \in Seq(A!Kinds)
    <3>1. \A q \in [1 .. Len(disk.table) -> A!Kinds] : q \in Seq(A!Kinds)
      <4>1. Len(disk.table) \in Nat
        BY <1>1 DEF DiskType
      <4> QED
        BY <4>1
    <3>2. disk.table \in Seq(A!Kinds) /\ <<>> \in Seq(A!Kinds)
      BY <1>1 DEF DiskType
    <3>3. seen \in {disk.table} \/ seen \in [1 .. Len(disk.table) -> A!Kinds] \/ seen = <<>>
      BY <2>1 DEF A!Seen, A!Disk
    <3> QED
      BY <3>1, <3>2, <3>3
  <2> DEFINE next == A!AfterRead(ahInit.scan, ok, disk, seen)
  <2>3. /\ ahInit.scan \in Scans /\ ahInit.failed \in BOOLEAN
        /\ ahInit.scan.step \notin {"done", "fault"}
    BY <1>1, <1>4 DEF Inits, A!Calls
  <2>4. next \in Scans /\ ScanIs(next, disk, ahInit.failed \/ ~ok)
    <3>1. ScanIs(ahInit.scan, disk, ahInit.failed)
      BY <1>4 DEF ScanIn
    <3>2. ok /\ ahInit.scan.step = "table" /\ A!TableFits(disk) => seen = disk.table
      BY <1>4, <2>1 DEF A!Disk
    <3> HIDE DEF disk
    <3>3. disk \in DiskType
      BY <1>1 DEF disk
    <3> QED
      BY <2>2, <2>3, <3>1, <3>2, <3>3, AfterReadIs
  <2> HIDE DEF next
  <2>5. /\ ahInit' \in Inits /\ ahInit'.step = "scan" /\ ahInit'.port = ahInit.port
        /\ ahInit'.scan = next
    BY <1>1, <1>4, <2>1, <2>3, <2>4 DEF Inits, next
  <2>6. ahInit'.failed = (ahInit.failed \/ ~ok)
    BY <1>1, <2>1, Zenon DEF Inits
  <2>7. ScanIs(next, disk, ahInit'.failed)
    BY <2>4, <2>6, Zenon
  <2> QED
    BY <1>1, <2>5, <2>7 DEF ScanIn
<1> QED
  BY <1>1, <1>2, <1>3, <1>4

LEMMA InitStarts == A!AhciInit => InitIn
<1> SUFFICES ASSUME A!AhciInit PROVE InitIn
  OBVIOUS
<1>1. A!Start \in Scans
  BY DEF A!Start, Scans
<1>2. /\ ahInit = [port |-> 1, step |-> "port", scan |-> A!Start, failed |-> FALSE]
      /\ ahCall = [no |-> 0, at |-> "idle", slot |-> -1, sectors |-> 0]
  BY DEF A!AhciInit, A!None
<1>3. ahInit \in Inits /\ ahCall \in CallsMade /\ ahInit.step = "port" /\ ahCall.at = "idle"
  BY <1>1, <1>2 DEF Inits, CallsMade
<1> QED
  BY <1>3 DEF InitIn, ScanIn

(* A read of a table that fits has brought all of it. *)
LEMMA SeenIs ==
  ASSUME InitIn, ahCall.at # "idle", HasMoved(ahPort[ahInit.port], ahCall),
         ahInit.step = "scan", ahInit.scan.step = "table", A!TableFits(A!Disk)
  PROVE  A!Seen = {A!Disk.table}
<1> DEFINE disk == Disks[ahInit.port]
           sectors == A!Sectors(ahInit.scan, disk, 512)
<1>1. disk \in DiskType /\ A!Disk = disk
  BY DisksAssumption DEF InitIn, ScanIn, DiskType, A!Disk
<1>2. ahCall.sectors = sectors
  BY DEF InitIn, Asking
<1>3. sectors \in 0 .. 128 /\ sectors * 512 >= A!TableBytes(disk)
  <2> HIDE DEF disk
  <2> QED
    BY <1>1, SectorsFit
<1> HIDE DEF sectors, disk
<1>4. /\ ahCall.no \in DOMAIN ahPort[ahInit.port].moved
      /\ ahPort[ahInit.port].moved[ahCall.no] = sectors * 512
  BY <1>2, <1>3 DEF HasMoved
<1>5. ahPort[ahInit.port].moved[ahCall.no] >= A!TableBytes(disk)
  BY <1>3, <1>4
<1> QED
  BY <1>1, <1>4, <1>5 DEF A!Seen

LEMMA ReturnIs ==
  ASSUME InitIn, ahCall.at # "idle", NEW ok \in BOOLEAN, A!Return(ok),
         ok => HasMoved(ahPort[ahInit.port], ahCall)
  PROVE  InitIn'
<1>1. ok /\ ahInit.step = "scan" /\ ahInit.scan.step = "table" /\ A!TableFits(A!Disk)
        => A!Seen = {A!Disk.table}
  BY SeenIs
<1>2. ScanIn(ahInit) /\ A!Calls /\ A!Advance(ok)
  BY DEF InitIn, A!Return
<1>3. ScanIn(ahInit')
  BY <1>1, <1>2, AdvanceIs
<1>4. ahCall' \in CallsMade /\ ahCall'.at = "idle"
  BY DEF InitIn, A!Return, CallsMade
<1> QED
  BY <1>3, <1>4 DEF InitIn, ScanIn

LEMMA InitSteps == AhciInv /\ [A!AhciNext]_(A!ahVars) => InitIn'
<1> SUFFICES ASSUME AhciInv, [A!AhciNext]_(A!ahVars) PROVE InitIn'
  OBVIOUS
<1>1. /\ InitIn /\ ahInit \in Inits /\ ahCall \in CallsMade /\ ScanIn(ahInit)
      /\ ahCall.at # "idle" => A!Calls /\ ahCall.sectors = Asking(ahInit)
  BY DEF AhciInv, InitIn, ScanIn
<1>2. CASE UNCHANGED <<ahInit, ahCall>>
  BY <1>1, <1>2 DEF InitIn, ScanIn, A!Calls, Asking
<1>3. CASE A!NextPort \/ A!StopCmd \/ A!Rebase \/ A!ScanDone
  <2>1. ahInit.step \in {"port", "stop"} \/ ahInit.scan.step = "done"
    BY <1>3 DEF A!NextPort, A!StopCmd, A!Rebase, A!ScanDone
  <2>2. ahCall' = ahCall /\ ahCall.at = "idle"
    BY <1>1, <1>3, <2>1 DEF A!NextPort, A!StopCmd, A!Rebase, A!ScanDone, A!Calls
  <2> DEFINE n == ahInit.port + 1
  <2>3. n \in Nat \ {0} /\ ahInit.port \in Nat \ {0} /\ Ports \in Nat
    BY <1>1, DisksAssumption DEF Inits
  <2>4. \/ ahInit' = [ahInit EXCEPT !.step = "end"]
        \/ ahInit' = [ahInit EXCEPT !.port = n] /\ ahInit.step = "port"
        \/ ahInit' = [ahInit EXCEPT !.step = "stop"] /\ ahInit.port <= Ports
        \/ ahInit' = [ahInit EXCEPT !.step = "identify"] /\ ahInit.step = "stop"
        \/ ahInit' = [ahInit EXCEPT !.step = "port", !.port = n]
    BY <1>1, <1>3 DEF A!NextPort, A!StopCmd, A!Rebase, A!ScanDone, Inits
  <2> HIDE DEF n
  <2>5. ahInit' \in Inits
    BY <1>1, <2>3, <2>4 DEF Inits
  <2>6. \/ ahInit'.step \in {"end", "port"}
        \/ /\ ahInit'.step \in {"stop", "identify"} /\ ahInit'.port = ahInit.port
           /\ ahInit.port <= Ports \/ ahInit.step = "stop"
    BY <1>1, <2>4 DEF Inits
  <2>7. \/ ahInit'.step \in {"end", "port"}
        \/ ahInit'.port \in 1 .. Ports /\ ahInit'.step # "scan"
    BY <1>1, <2>3, <2>6 DEF ScanIn
  <2> QED
    BY <1>1, <2>2, <2>5, <2>7 DEF InitIn, ScanIn
<1>4. CASE A!Begin
  <2> DEFINE s == A!FindCmdSlot(ahPort[ahInit.port])
             sectors == IF ahInit.step = "identify" THEN 1
                        ELSE A!Sectors(ahInit.scan, A!Disk, A!SectorBytes)
             n == ahCall.no + 1
  <2>1. /\ ahInit' = ahInit /\ A!Calls /\ s # A!None
        /\ ahCall' = [no |-> n, at |-> "filled", slot |-> s, sectors |-> sectors]
    BY <1>4 DEF A!Begin
  <2>2. s \in Int
    <3>1. s \in A!Slot
      BY <2>1, SlotIs
    <3> QED
      BY <3>1, DisksAssumption DEF A!Slot
  <2>3. sectors = Asking(ahInit)
    BY DEF Asking, A!Disk, A!SectorBytes
  <2>4. Asking(ahInit) \in Nat
    <3>1. CASE ahInit.step = "identify"
      BY <3>1 DEF Asking
    <3>2. CASE ahInit.step = "scan"
      <4>1. Disks[ahInit.port] \in DiskType
        BY <1>1, <3>2, DisksAssumption DEF ScanIn, DiskType
      <4> QED
        BY <3>2, <4>1, SectorsNat DEF Asking
    <3> QED
      BY <2>1, <3>1, <3>2 DEF A!Calls
  <2>5. n \in Nat
    BY <1>1 DEF CallsMade
  <2> HIDE DEF s, sectors, n
  <2>6. ahCall' \in CallsMade /\ ahCall'.sectors = Asking(ahInit)
    BY <2>1, <2>2, <2>3, <2>4, <2>5 DEF CallsMade
  <2> QED
    BY <1>1, <2>1, <2>6 DEF InitIn, ScanIn, A!Calls, Asking
<1>5. CASE A!Refused
  <2>1. A!Calls /\ ahCall.at = "idle" /\ A!Advance(FALSE)
    BY <1>5 DEF A!Refused
  <2>2. ScanIn(ahInit')
    BY <1>1, <2>1, AdvanceIs
  <2> DEFINE n == ahCall.no + 1
  <2>3. n \in Nat /\ ahCall' = [ahCall EXCEPT !.no = n]
    BY <1>1, <1>5 DEF A!Refused, CallsMade
  <2> HIDE DEF n
  <2>4. ahCall' \in CallsMade /\ ahCall'.at = "idle"
    BY <1>1, <2>1, <2>3 DEF CallsMade
  <2> QED
    BY <2>2, <2>4 DEF InitIn, ScanIn
<1>6. CASE A!Issue
  <2>1. ahInit' = ahInit /\ ahCall' = [ahCall EXCEPT !.at = "waiting"] /\ ahCall.at # "idle"
    BY <1>1, <1>6 DEF A!Issue
  <2>2. ahCall' \in CallsMade /\ ahCall'.sectors = ahCall.sectors
    BY <1>1, <2>1 DEF CallsMade
  <2> QED
    BY <1>1, <2>1, <2>2 DEF InitIn, ScanIn, A!Calls, Asking
<1>7. CASE A!HungBeforeIssue \/ A!TaskFileError \/ A!ReadTimeout
  <2>1. ahCall.at # "idle" /\ A!Return(FALSE)
    BY <1>7 DEF A!HungBeforeIssue, A!TaskFileError, A!ReadTimeout
  <2> QED
    BY <1>1, <2>1, ReturnIs
<1>8. CASE A!Done
  <2>1. ahCall.at = "waiting" /\ ahCall.slot \notin ahPort[ahInit.port].ci /\ A!Return(TRUE)
    BY <1>8 DEF A!Done
  <2>2. HasMoved(ahPort[ahInit.port], ahCall)
    BY <2>1 DEF AhciInv, CommandsIn, CallIs, Waits
  <2> QED
    BY <1>1, <2>1, <2>2, ReturnIs
<1>9. CASE A!AhciController \/ \E p \in 1 .. Ports : A!FallSilent(p)
  BY <1>2, <1>9 DEF A!AhciController, A!LinkUp, A!Take, A!Finish, A!Fail, A!FallSilent
<1>10. CASE UNCHANGED A!ahVars
  BY <1>2, <1>10 DEF A!ahVars
<1> QED
  BY <1>3, <1>4, <1>5, <1>6, <1>7, <1>8, <1>9, <1>10, Zenon DEF A!AhciNext, A!AhciDriver

(* The scan reports what is on the disk, whichever reads fail. *)
LEMMA InitShows == InitIn => A!VolumesFound
<1> SUFFICES ASSUME InitIn, ahInit.step = "scan", A!TableFits(A!Disk)
             PROVE  /\ ahInit.scan.found \subseteq A!OnDisk(A!Disk)
                    /\ ahInit.scan.step = "done" /\ ~ahInit.failed =>
                         ahInit.scan.found = A!OnDisk(A!Disk)
  BY DEF A!VolumesFound
<1> DEFINE scan == ahInit.scan
           disk == Disks[ahInit.port]
<1>1. /\ scan \in Scans /\ ahInit.failed \in BOOLEAN /\ disk \in DiskType
      /\ ScanIs(scan, disk, ahInit.failed) /\ A!Disk = disk /\ A!TableFits(disk)
  BY DisksAssumption DEF InitIn, ScanIn, Inits, DiskType, A!Disk
<1> HIDE DEF scan, disk
<1>2. CASE scan.step = "done"
  BY <1>1, <1>2 DEF ScanIs, scan
<1>3. CASE scan.step \in {"header", "table"}
  BY <1>1, <1>3 DEF ScanIs, scan
<1>4. CASE scan.step \in {"exfat", "fat32", "fault"}
  <2>1. /\ disk.gpt /\ scan.entry - 1 \in 0 .. Len(disk.table)
        /\ FoundUpTo(scan.entry - 1, scan.found, disk.table, ahInit.failed)
    <3>1. Len(disk.table) \in Nat
      BY <1>1 DEF DiskType
    <3> QED
      BY <1>1, <1>4, <3>1 DEF ScanIs
  <2>2. scan.found \subseteq A!OnDisk(disk)
    BY <1>1, <2>1, FoundOnDisk
  <2> QED
    BY <1>1, <1>4, <2>2 DEF scan
<1> QED
  BY <1>1, <1>2, <1>3, <1>4 DEF Scans

------------------------------------------------------------------------------
(* The commands. *)
LEMMA NoTable == A!NoCommand \in Tables /\ A!NoCommand.call = 0
<1>1. A!Prdtl(0) = 0
  BY DEF A!Prdtl
<1>2. A!Prdt(0) = <<>>
  BY <1>1 DEF A!Prdt
<1> QED
  BY <1>2 DEF Tables, A!NoCommand

LEMMA NoneFree == A!None \notin A!Slot
BY DisksAssumption DEF A!None, A!Slot

LEMMA CommandsStart == A!AhciInit => CommandsIn(ahInit, ahCall, ahPort, ahOk)
<1> SUFFICES ASSUME A!AhciInit PROVE CommandsIn(ahInit, ahCall, ahPort, ahOk)
  OBVIOUS
<1>1. /\ ahPort = [p \in 1 .. Ports |-> A!PortReset] /\ ahOk = {}
      /\ ahCall = [no |-> 0, at |-> "idle", slot |-> -1, sectors |-> 0]
  BY DEF A!AhciInit, A!None
<1>2. /\ A!PortReset.ci = {} /\ A!PortReset.busy = A!None
      /\ A!PortReset \in PortType
  <2>1. [c \in {} |-> 0] \in UNION {[done -> Nat] : done \in SUBSET Nat}
    <3>1. [c \in {} |-> 0] \in [{} -> Nat] /\ {} \in SUBSET Nat
      OBVIOUS
    <3> QED
      BY <3>1
  <2>2. [s \in A!Slot |-> A!NoCommand] \in [A!Slot -> Tables]
    BY NoTable
  <2> QED
    BY <2>1, <2>2, NoTable DEF A!PortReset, PortType
<1>3. \A p \in 1 .. Ports : ahPort[p] = A!PortReset
  BY <1>1
<1> QED
  BY <1>1, <1>2, <1>3 DEF CommandsIn, PortIs, NotYet, CallIs

(* The controller has taken, ended or failed a command, or the drive has   *)
(* fallen silent or come up. *)
LEMMA ControllerActs ==
  ASSUME AhciInv, NEW p \in 1 .. Ports, NEW r \in PortType,
         ahPort' = [ahPort EXCEPT ![p] = r], UNCHANGED <<ahInit, ahCall, ahOk>>,
         r.ci \subseteq ahPort[p].ci, r.table = ahPort[p].table, r.issued = ahPort[p].issued,
         PortIs(r, ahCall.no, ahOk),
         ahCall.no \in ahOk /\ HasMoved(ahPort[p], ahCall) => HasMoved(r, ahCall),
         ahCall.at = "waiting" /\ p = ahInit.port => Waits(r, ahCall)
  PROVE  CommandsIn(ahInit', ahCall', ahPort', ahOk')
<1>1. CommandsIn(ahInit, ahCall, ahPort, ahOk) /\ CallIs(ahInit, ahCall, ahPort, ahOk)
  BY DEF AhciInv, CommandsIn
<1>2. /\ ahPort' \in [1 .. Ports -> PortType] /\ ahPort'[p] = r
      /\ \A q \in 1 .. Ports : q # p => ahPort'[q] = ahPort[q]
  BY <1>1 DEF CommandsIn
<1>3. \A q \in 1 .. Ports : /\ ahPort'[q].ci \subseteq ahPort[q].ci
                            /\ ahPort'[q].table = ahPort[q].table
                            /\ ahPort'[q].issued = ahPort[q].issued
                            /\ PortIs(ahPort'[q], ahCall.no, ahOk)
                            /\ ahCall.no \in ahOk /\ HasMoved(ahPort[q], ahCall)
                                 => HasMoved(ahPort'[q], ahCall)
  BY <1>1, <1>2 DEF CommandsIn
<1>4. NotYet(ahInit, ahPort')
  BY <1>1, <1>3 DEF CommandsIn, NotYet
<1>5. CallIs(ahInit, ahCall, ahPort', ahOk)
  <2>1. OnlyHere(ahInit, ahCall, ahPort) => OnlyHere(ahInit, ahCall, ahPort')
    BY <1>3 DEF OnlyHere
  <2>2. ahCall.at # "idle" => ahInit.port \in 1 .. Ports
    BY DEF AhciInv, InitIn, ScanIn, A!Calls
  <2>3. ASSUME ahCall.at = "filled"
        PROVE  /\ ahCall.slot \notin ahPort'[ahInit.port].ci
               /\ IsOwn(ahPort'[ahInit.port].table[ahCall.slot], ahCall)
    BY <1>1, <1>3, <2>2, <2>3 DEF CallIs
  <2>4. ASSUME ahCall.at = "waiting" PROVE Waits(ahPort'[ahInit.port], ahCall)
    <3>1. CASE p = ahInit.port
      BY <1>2, <2>4, <3>1
    <3>2. CASE p # ahInit.port
      BY <1>1, <1>2, <2>2, <2>4, <3>2 DEF CallIs
    <3> QED
      BY <3>1, <3>2
  <2>5. ahCall.no \in ahOk => \E q \in 1 .. Ports : HasMoved(ahPort'[q], ahCall)
    BY <1>1, <1>3 DEF CallIs
  <2> QED
    BY <1>1, <2>1, <2>3, <2>4, <2>5 DEF CallIs
<1> QED
  BY <1>2, <1>3, <1>4, <1>5 DEF CommandsIn

LEMMA TakeKeeps ==
  ASSUME AhciInv, NEW p \in 1 .. Ports, NEW s \in A!Slot, A!Take(p, s)
  PROVE  CommandsIn(ahInit', ahCall', ahPort', ahOk')
<1> DEFINE old == ahPort[p]
           r == [old EXCEPT !.busy = s, !.active = old.table[s]]
<1>1. /\ ahPort \in [1 .. Ports -> PortType] /\ old \in PortType
      /\ PortIs(old, ahCall.no, ahOk) /\ CallIs(ahInit, ahCall, ahPort, ahOk)
  BY DEF AhciInv, CommandsIn
<1>2. s \in old.ci /\ UNCHANGED <<ahInit, ahCall, ahOk>>
  BY DEF A!Take
<1>3. ahPort' = [ahPort EXCEPT ![p] = r]
  BY <1>1 DEF A!Take
<1>4. old.table[s] \in Tables
  BY <1>1 DEF PortType
<1>5. /\ r \in PortType /\ r.ci = old.ci /\ r.table = old.table /\ r.overrun = old.overrun
      /\ r.issued = old.issued /\ r.moved = old.moved
      /\ r.busy = s /\ r.active = old.table[s]
  BY <1>1, <1>4 DEF PortType
<1> HIDE DEF r
<1>6. PortIs(r, ahCall.no, ahOk)
  BY <1>1, <1>2, <1>5 DEF PortIs
<1>7. HasMoved(old, ahCall) => HasMoved(r, ahCall)
  BY <1>5 DEF HasMoved
<1>8. ahCall.at = "waiting" /\ p = ahInit.port => Waits(r, ahCall)
  BY <1>1, <1>5, <1>7 DEF CallIs, Waits
<1> QED
  BY <1>2, <1>3, <1>5, <1>6, <1>7, <1>8, ControllerActs

(* An error, and what changes neither commands nor tables. *)
LEMMA OtherKeeps ==
  ASSUME AhciInv, NEW p \in 1 .. Ports, A!Fail(p) \/ A!LinkUp(p) \/ A!FallSilent(p)
  PROVE  CommandsIn(ahInit', ahCall', ahPort', ahOk')
<1> DEFINE old == ahPort[p]
<1>1. /\ ahPort \in [1 .. Ports -> PortType] /\ old \in PortType
      /\ PortIs(old, ahCall.no, ahOk) /\ CallIs(ahInit, ahCall, ahPort, ahOk)
  BY DEF AhciInv, CommandsIn
<1>2. UNCHANGED <<ahInit, ahCall, ahOk>>
  BY DEF A!Fail, A!LinkUp, A!FallSilent
<1>3. PICK r : /\ ahPort' = [ahPort EXCEPT ![p] = r]
               /\ \/ r = [old EXCEPT !.tfes = TRUE, !.halted = TRUE, !.busy = A!None]
                  \/ r = [old EXCEPT !.up = TRUE]
                  \/ r = [old EXCEPT !.silent = TRUE]
  BY <1>1 DEF A!Fail, A!LinkUp, A!FallSilent
<1>4. /\ r \in PortType /\ r.ci = old.ci /\ r.table = old.table /\ r.overrun = old.overrun
      /\ r.issued = old.issued /\ r.moved = old.moved /\ r.active = old.active
      /\ r.busy \in {old.busy, A!None}
  BY <1>1, <1>3 DEF PortType
<1>5. PortIs(r, ahCall.no, ahOk)
  BY <1>1, <1>4 DEF PortIs
<1>6. HasMoved(old, ahCall) => HasMoved(r, ahCall)
  BY <1>4 DEF HasMoved
<1>7. ahCall.at = "waiting" /\ p = ahInit.port => Waits(r, ahCall)
  BY <1>1, <1>4, <1>6, NoneFree DEF CallIs, Waits
<1> QED
  BY <1>2, <1>3, <1>4, <1>5, <1>6, <1>7, ControllerActs

(* What the controller has done is the present call's only if the present  *)
(* call's table was taken.                                                 *)
LEMMA FinishKeeps ==
  ASSUME AhciInv, NEW p \in 1 .. Ports, A!Finish(p)
  PROVE  CommandsIn(ahInit', ahCall', ahPort', ahOk')
<1> DEFINE old == ahPort[p]
           command == old.active
           c == command.call
<1>1. /\ ahPort \in [1 .. Ports -> PortType] /\ old \in PortType
      /\ PortIs(old, ahCall.no, ahOk) /\ CallIs(ahInit, ahCall, ahPort, ahOk)
  BY DEF AhciInv, CommandsIn
<1>2. /\ old.busy \in old.ci /\ command \in {old.issued[old.busy], A!NoCommand}
      /\ UNCHANGED <<ahInit, ahCall, ahOk>>
  BY <1>1 DEF A!Finish, PortIs
<1>3. PICK bytes : /\ bytes = A!Moves(command) \/ (A!Overruns(command) /\ bytes = 0)
                   /\ ahPort' = [ahPort EXCEPT
                        ![p].ci = old.ci \ {old.busy}, ![p].busy = A!None,
                        ![p].moved = [d \in DOMAIN old.moved \cup {c} |->
                                        IF d = c THEN bytes ELSE old.moved[d]]]
  BY <1>1 DEF A!Finish, PortType
<1> DEFINE moved == [d \in DOMAIN old.moved \cup {c} |-> IF d = c THEN bytes ELSE old.moved[d]]
           r == [old EXCEPT !.ci = old.ci \ {old.busy}, !.busy = A!None, !.moved = moved]
<1>4. ahPort' = [ahPort EXCEPT ![p] = r]
  BY <1>1, <1>3
<1>5. c \in Nat /\ command \in Tables
  BY <1>1 DEF PortType, Tables
<1>6. bytes \in Nat
  <2>1. PICK count \in Nat : command.prdt = A!Prdt(count)
    BY <1>5 DEF Tables
  <2>2. command.count \in Nat
    BY <1>5 DEF Tables
  <2> HIDE DEF command
  <2>3. A!Moves(command) \in Nat
    BY <2>1, <2>2, MovesNat
  <2> QED
    BY <1>3, <2>3
<1>7. PICK done \in SUBSET Nat : old.moved \in [done -> Nat]
  BY <1>1 DEF PortType
<1>8. moved \in UNION {[d -> Nat] : d \in SUBSET Nat}
  <2>1. DOMAIN old.moved \cup {c} \in SUBSET Nat
    BY <1>5, <1>7
  <2>2. moved \in [DOMAIN old.moved \cup {c} -> Nat]
    BY <1>6, <1>7
  <2> QED
    BY <2>1, <2>2
<1> HIDE DEF moved
<1>9. /\ r \in PortType /\ r.ci = old.ci \ {old.busy} /\ r.table = old.table
      /\ r.issued = old.issued /\ r.moved = moved /\ r.busy = A!None
      /\ r.overrun = old.overrun
  BY <1>1, <1>8 DEF PortType
<1> HIDE DEF r
<1>10. PortIs(r, ahCall.no, ahOk)
  BY <1>1, <1>9 DEF PortIs
<1>11. c # ahCall.no /\ HasMoved(old, ahCall) => HasMoved(r, ahCall)
  BY <1>9 DEF HasMoved, moved
<1>12. c = old.issued[old.busy].call \/ c = 0
  BY <1>2, NoTable
<1>13. ahCall.no \in ahOk /\ HasMoved(old, ahCall) => HasMoved(r, ahCall)
  <2> SUFFICES ASSUME ahCall.no \in ahOk PROVE c # ahCall.no
    BY <1>11
  <2>1. old.issued[old.busy].call \notin ahOk /\ 0 \notin ahOk
    BY <1>1, <1>2 DEF PortIs, CallIs
  <2> QED
    BY <1>12, <2>1
<1>14. ASSUME ahCall.at = "waiting", p = ahInit.port PROVE Waits(r, ahCall)
  <2>1. /\ Waits(old, ahCall) /\ ahCall.no # 0 /\ OnlyHere(ahInit, ahCall, ahPort)
        /\ ahCall.slot \in A!Slot
    BY <1>1, <1>14 DEF CallIs
  <2>2. CASE ahCall.slot \in old.ci /\ ahCall.slot # old.busy
    BY <1>9, <2>1, <2>2, NoneFree DEF Waits
  <2>3. CASE ahCall.slot \in old.ci /\ ahCall.slot = old.busy
    <3>1. IsOwn(command, ahCall) /\ ahCall.slot \notin r.ci
      BY <1>9, <2>1, <2>3 DEF Waits
    <3>2. ahCall.sectors \in Nat
      BY DEF AhciInv, InitIn, CallsMade
    <3>3. ahCall.sectors <= 128 => bytes = ahCall.sectors * 512
      <4> SUFFICES ASSUME ahCall.sectors <= 128 PROVE bytes = ahCall.sectors * 512
        OBVIOUS
      <4>1. ahCall.sectors \in 0 .. 128
        BY <3>2
      <4>2. command.count = ahCall.sectors /\ command.prdt = A!Prdt(ahCall.sectors)
        BY <3>1 DEF IsOwn
      <4> HIDE DEF command
      <4>3. A!Moves(command) = ahCall.sectors * 512 /\ ~A!Overruns(command)
        BY <4>1, <4>2, MovesOwn
      <4> QED
        BY <1>3, <4>3
    <3>4. c = ahCall.no
      BY <3>1 DEF IsOwn
    <3>5. HasMoved(r, ahCall)
      BY <1>9, <3>3, <3>4 DEF HasMoved, moved
    <3> QED
      BY <3>1, <3>5 DEF Waits
  <2>4. CASE ahCall.slot \notin old.ci
    <3>1. old.issued[old.busy].call # ahCall.no
      BY <1>2, <2>1, <2>4 DEF OnlyHere
    <3>2. HasMoved(r, ahCall)
      BY <1>11, <1>12, <2>1, <2>4, <3>1 DEF Waits
    <3> QED
      BY <1>9, <2>4, <3>2 DEF Waits
  <2> QED
    BY <2>2, <2>3, <2>4
<1> QED
  BY <1>2, <1>4, <1>9, <1>10, <1>13, <1>14, ControllerActs

(* The ports whose turn has not come are fewer after a call. *)
LEMMA NotYetAdvance ==
  ASSUME ScanIn(ahInit), A!Calls, NEW ok \in BOOLEAN, A!Advance(ok), NotYet(ahInit, ahPort),
         ok /\ ahInit.step = "scan" /\ ahInit.scan.step = "table" /\ A!TableFits(A!Disk)
           => A!Seen = {A!Disk.table}
  PROVE  NotYet(ahInit', ahPort)
<1>1. /\ ahInit' \in Inits /\ ahInit'.step \in {"port", "scan"}
      /\ ahInit'.port = IF ahInit'.step = "port" THEN ahInit.port + 1 ELSE ahInit.port
  BY AdvanceIs DEF ScanIn
<1>2. ahInit.port \in Nat
  BY DEF ScanIn, Inits
<1>3. \A p \in 1 .. Ports :
        p > ahInit'.port \/ (p = ahInit'.port /\ ahInit'.step \in {"port", "stop"})
          => p > ahInit.port
  BY <1>1, <1>2, DisksAssumption
<1> QED
  BY <1>3 DEF NotYet

(* A call returns 0 only when its own command has left CI. *)
LEMMA ReturnKeeps ==
  ASSUME AhciInv, ahCall.at # "idle", NEW ok \in BOOLEAN, A!Return(ok), UNCHANGED ahPort,
         ok => ahCall.at = "waiting" /\ ahCall.slot \notin ahPort[ahInit.port].ci
  PROVE  CommandsIn(ahInit', ahCall', ahPort', ahOk')
<1>1. /\ CommandsIn(ahInit, ahCall, ahPort, ahOk) /\ CallIs(ahInit, ahCall, ahPort, ahOk)
      /\ InitIn /\ ScanIn(ahInit) /\ A!Calls /\ ahCall \in CallsMade
  BY DEF AhciInv, CommandsIn, InitIn
<1>2. ok => HasMoved(ahPort[ahInit.port], ahCall)
  BY <1>1 DEF CallIs, Waits
<1>3. NotYet(ahInit', ahPort)
  BY <1>1, <1>2, SeenIs, NotYetAdvance DEF CommandsIn, A!Return
<1>4. /\ ahCall' = [ahCall EXCEPT !.at = "idle"]
      /\ ahOk' = IF ok THEN ahOk \cup {ahCall.no} ELSE ahOk
  BY DEF A!Return
<1>5. /\ ahCall'.at = "idle" /\ ahCall'.no = ahCall.no /\ ahCall'.sectors = ahCall.sectors
      /\ ahCall.no \in Nat
  BY <1>1, <1>4 DEF CallsMade
<1>6. OnlyHere(ahInit, ahCall, ahPort) /\ ahCall.no \notin ahOk /\ ahCall.no # 0
  BY <1>1 DEF CallIs
<1>7. ASSUME NEW p \in 1 .. Ports PROVE PortIs(ahPort[p], ahCall.no, ahOk')
  <2>1. PortIs(ahPort[p], ahCall.no, ahOk)
    BY <1>1 DEF CommandsIn
  <2>2. ASSUME NEW s \in ahPort[p].ci PROVE ahPort[p].issued[s].call \notin ahOk'
    <3>1. ok => ahPort[p].issued[s].call # ahCall.no
      BY <1>6 DEF OnlyHere
    <3> QED
      BY <1>4, <2>1, <3>1 DEF PortIs
  <2> QED
    BY <2>1, <2>2 DEF PortIs
<1>8. ahCall.no \in ahOk' => \E p \in 1 .. Ports : HasMoved(ahPort[p], ahCall)
  <2> SUFFICES ASSUME ahCall.no \in ahOk' PROVE \E p \in 1 .. Ports : HasMoved(ahPort[p], ahCall)
    OBVIOUS
  <2>1. ok
    BY <1>4, <1>6
  <2>2. ahInit.port \in 1 .. Ports
    BY <1>1 DEF ScanIn, A!Calls
  <2> QED
    BY <1>2, <2>1, <2>2
<1>9. ahOk' \subseteq 1 .. ahCall.no
  BY <1>1, <1>4, <1>5, <1>6 DEF CallIs
<1>10. CallIs(ahInit', ahCall', ahPort, ahOk')
  BY <1>5, <1>8, <1>9 DEF CallIs, HasMoved
<1>11. \A p \in 1 .. Ports : PortIs(ahPort[p], ahCall'.no, ahOk')
  BY <1>5, <1>7
<1>12. ahPort' = ahPort /\ ahPort \in [1 .. Ports -> PortType]
  BY <1>1 DEF CommandsIn
<1> QED
  BY <1>3, <1>10, <1>11, <1>12 DEF CommandsIn

(* A port's turn comes, or is over. *)
LEMMA NextPortKeeps ==
  ASSUME AhciInv, A!NextPort \/ A!ScanDone
  PROVE  CommandsIn(ahInit', ahCall', ahPort', ahOk')
<1>1. /\ CommandsIn(ahInit, ahCall, ahPort, ahOk) /\ CallIs(ahInit, ahCall, ahPort, ahOk)
      /\ ahInit \in Inits /\ UNCHANGED <<ahPort, ahCall, ahOk>>
      /\ ahCall.at = "idle" /\ NotYet(ahInit, ahPort)
      /\ ahInit.port \in Nat /\ Ports \in Nat
  BY DisksAssumption
  DEF AhciInv, CommandsIn, InitIn, ScanIn, Inits, A!NextPort, A!ScanDone, A!Calls
<1>2. \/ ahInit'.port = ahInit.port /\ ahInit.step = "port"
      \/ ahInit'.port = ahInit.port + 1
  BY <1>1 DEF A!NextPort, A!ScanDone, Inits
<1>3. \A p \in 1 .. Ports :
        p > ahInit'.port \/ p = ahInit'.port =>
          p > ahInit.port \/ (p = ahInit.port /\ ahInit.step = "port")
  BY <1>1, <1>2
<1>4. NotYet(ahInit', ahPort)
  BY <1>1, <1>3 DEF NotYet
<1>5. CallIs(ahInit', ahCall, ahPort, ahOk)
  BY <1>1 DEF CallIs
<1> QED
  BY <1>1, <1>4, <1>5 DEF CommandsIn

(* It is stopped, and set up. *)
LEMMA SetUpKeeps ==
  ASSUME AhciInv, A!StopCmd \/ A!Rebase
  PROVE  CommandsIn(ahInit', ahCall', ahPort', ahOk')
<1> DEFINE p == ahInit.port
           old == ahPort[p]
<1>1. /\ CommandsIn(ahInit, ahCall, ahPort, ahOk) /\ CallIs(ahInit, ahCall, ahPort, ahOk)
      /\ ahInit \in Inits /\ ahCall' = ahCall /\ ahOk' = ahOk /\ ahCall.at = "idle"
      /\ NotYet(ahInit, ahPort) /\ ahPort \in [1 .. Ports -> PortType]
      /\ ahInit.step \in {"port", "stop"} /\ p \in 1 .. Ports
  <2>1. CommandsIn(ahInit, ahCall, ahPort, ahOk) /\ InitIn
    BY DEF AhciInv
  <2>2. /\ ahCall' = ahCall /\ ahOk' = ahOk /\ ahInit.step \in {"port", "stop"}
        /\ ahInit.step = "port" => ahInit.port <= Ports
    BY DEF A!StopCmd, A!Rebase
  <2>3. ahInit.port \in Nat \ {0} /\ ahInit \in Inits
    BY <2>1 DEF InitIn, ScanIn, Inits
  <2>4. ahInit.port \in 1 .. Ports
    BY <2>1, <2>2, <2>3, DisksAssumption DEF InitIn, ScanIn
  <2>5. ahCall.at = "idle"
    BY <2>1, <2>2 DEF InitIn, A!Calls
  <2> QED
    BY <2>1, <2>2, <2>3, <2>4, <2>5 DEF CommandsIn
<1>2. old \in PortType /\ old.ci = {} /\ PortIs(old, ahCall.no, ahOk)
  BY <1>1 DEF NotYet, CommandsIn
<1>3. PICK r, v :
        /\ v \in BOOLEAN /\ ahPort' = [ahPort EXCEPT ![p] = r]
        /\ \/ r = [old EXCEPT !.up = v] /\ ahInit' = [ahInit EXCEPT !.step = "stop"]
           \/ /\ r = [old EXCEPT !.ci = {}, !.tfes = FALSE, !.running = TRUE, !.keeps = v]
              /\ ahInit' = [ahInit EXCEPT !.step = "identify"]
  <2>1. CASE A!StopCmd
    <3>1. PICK v \in BOOLEAN : ahPort' = [ahPort EXCEPT ![p].up = v]
      BY <2>1 DEF A!StopCmd
    <3> QED
      BY <1>1, <2>1, <3>1 DEF A!StopCmd
  <2>2. CASE A!Rebase
    <3>1. PICK v \in BOOLEAN :
            ahPort' = [ahPort EXCEPT ![p] = [old EXCEPT !.ci = {}, !.tfes = FALSE,
                                                        !.running = TRUE, !.keeps = v]]
      BY <1>1, <2>2 DEF A!Rebase
    <3> QED
      BY <2>2, <3>1 DEF A!Rebase
  <2> QED
    BY <2>1, <2>2
<1>4. r \in PortType /\ r.ci = {} /\ r.moved = old.moved /\ r.busy = old.busy
  BY <1>2, <1>3 DEF PortType
<1>5. PortIs(r, ahCall.no, ahOk)
  BY <1>2, <1>4 DEF PortIs
<1>6. /\ ahPort' \in [1 .. Ports -> PortType] /\ ahPort'[p] = r
      /\ \A q \in 1 .. Ports : q # p => ahPort'[q] = ahPort[q]
  BY <1>1, <1>3, <1>4
<1>7. \A q \in 1 .. Ports : /\ PortIs(ahPort'[q], ahCall.no, ahOk)
                            /\ HasMoved(ahPort[q], ahCall) => HasMoved(ahPort'[q], ahCall)
                            /\ ahPort'[q].ci \subseteq ahPort[q].ci
  BY <1>1, <1>2, <1>4, <1>5, <1>6 DEF CommandsIn, HasMoved
<1>8. ahInit'.port = p
  BY <1>1, <1>3 DEF Inits
<1>9. NotYet(ahInit', ahPort')
  BY <1>1, <1>7, <1>8 DEF NotYet
<1>10. CallIs(ahInit', ahCall, ahPort', ahOk)
  BY <1>1, <1>7 DEF CallIs
<1>11. \A q \in 1 .. Ports : PortIs(ahPort'[q], ahCall'.no, ahOk')
  BY <1>1, <1>7
<1>12. CallIs(ahInit', ahCall', ahPort', ahOk')
  BY <1>1, <1>10
<1> QED
  BY <1>6, <1>9, <1>11, <1>12 DEF CommandsIn

(* A new call: no command has its number yet. *)
LEMMA NewCall ==
  ASSUME AhciInv, NEW n, n = ahCall.no + 1
  PROVE  /\ n \in Nat \ {0} /\ n \notin ahOk /\ ahOk \subseteq 1 .. n
         /\ \A p \in 1 .. Ports : /\ PortIs(ahPort[p], n, ahOk)
                                  /\ \A s \in ahPort[p].ci : ahPort[p].issued[s].call # n
<1>1. /\ \A p \in 1 .. Ports : ahPort[p] \in PortType /\ PortIs(ahPort[p], ahCall.no, ahOk)
      /\ ahOk \subseteq 1 .. ahCall.no /\ ahCall.no \in Nat
  BY DEF AhciInv, CommandsIn, CallIs, InitIn, CallsMade
<1>2. ASSUME NEW p \in 1 .. Ports, NEW s \in ahPort[p].ci
      PROVE  /\ ahPort[p].issued[s].call <= n /\ ahPort[p].issued[s].call # n
  <2>1. ahPort[p].issued[s] \in Tables /\ ahPort[p].issued[s].call <= ahCall.no
    BY <1>1 DEF PortIs, PortType
  <2>2. ahPort[p].issued[s].call \in Nat
    BY <2>1 DEF Tables
  <2> QED
    BY <1>1, <2>1, <2>2
<1>3. \A p \in 1 .. Ports : PortIs(ahPort[p], n, ahOk)
  BY <1>1, <1>2 DEF PortIs
<1> QED
  BY <1>1, <1>2, <1>3

LEMMA BeginKeeps ==
  ASSUME AhciInv, A!Begin
  PROVE  CommandsIn(ahInit', ahCall', ahPort', ahOk')
<1> DEFINE p == ahInit.port
           n == ahCall.no + 1
           old == ahPort[p]
           s == A!FindCmdSlot(old)
           sectors == IF ahInit.step = "identify" THEN 1
                      ELSE A!Sectors(ahInit.scan, A!Disk, A!SectorBytes)
           far == ahInit.step = "scan" /\ A!Disk.far
           c == [call |-> n, count |-> sectors, far |-> far, prdt |-> A!Prdt(sectors)]
<1>1. /\ ahPort \in [1 .. Ports -> PortType] /\ NotYet(ahInit, ahPort)
      /\ p \in 1 .. Ports /\ ahInit.step \notin {"port", "stop"}
  BY DEF AhciInv, CommandsIn, InitIn, ScanIn, A!Begin, A!Calls
<1>2. /\ s # A!None /\ ahCall' = [no |-> n, at |-> "filled", slot |-> s, sectors |-> sectors]
      /\ ahInit' = ahInit /\ ahOk' = ahOk
  BY DEF A!Begin
<1>3. old \in PortType /\ s \in A!Slot \ old.ci
  BY <1>1, <1>2, SlotIs
<1>4. PICK destroyed \in IF A!Overruns(c) THEN SUBSET (A!Slot \ {s}) ELSE {{}} :
        ahPort' = [ahPort EXCEPT ![p] = A!Filled(ahPort[p], s, c, destroyed)]
  BY DEF A!Begin
<1>5. /\ n \in Nat \ {0} /\ n \notin ahOk /\ ahOk \subseteq 1 .. n
      /\ \A q \in 1 .. Ports : /\ PortIs(ahPort[q], n, ahOk)
                               /\ \A t \in ahPort[q].ci : ahPort[q].issued[t].call # n
  <2> HIDE DEF n
  <2> QED
    BY NewCall DEF n
<1>6. sectors \in Nat
  <2>1. InitIn'
    BY InitSteps DEF AhciInv, A!AhciNext, A!AhciDriver
  <2> HIDE DEF sectors, s, n
  <2> QED
    BY <1>2, <2>1 DEF InitIn, CallsMade
<1>7. far \in BOOLEAN
  <2>1. Disks[p].far \in BOOLEAN
    BY <1>1, DisksAssumption
  <2> QED
    BY <2>1 DEF A!Disk
<1> HIDE DEF n, s, sectors, far
<1>8. c \in Tables /\ c.call = n /\ IsOwn(c, ahCall')
  BY <1>2, <1>5, <1>6, <1>7 DEF Tables, IsOwn
<1>9. ahCall'.no = n /\ ahCall'.at = "filled" /\ ahCall'.slot = s
  BY <1>2
<1> DEFINE ov == old.overrun \/ A!Overruns(c)
           table == [t \in A!Slot |-> IF t = s THEN c
                                      ELSE IF t \in destroyed THEN A!NoCommand
                                      ELSE old.table[t]]
           r == [old EXCEPT !.tfes = FALSE, !.overrun = ov, !.table = table]
<1> HIDE DEF c
<1>10. ov \in BOOLEAN
  BY <1>3, Zenon DEF PortType, ov
<1>11. /\ table \in [A!Slot -> Tables] /\ table[s] = c
       /\ \A t \in old.ci : /\ t # s
                            /\ table[t] \in {old.table[t], A!NoCommand}
                            /\ destroyed = {} => table[t] = old.table[t]
  <2>1. old.table \in [A!Slot -> Tables] /\ old.ci \subseteq A!Slot
    BY <1>3 DEF PortType
  <2> QED
    BY <1>3, <1>8, <2>1, NoTable
<1>12. (destroyed # {} => ov) /\ (old.overrun => ov)
  BY <1>4, Zenon
<1>13. ahPort' = [ahPort EXCEPT ![p] = r]
  <2>1. A!Filled(ahPort[p], s, c, destroyed) = r
    BY <1>3 DEF A!Filled, PortType
  <2> HIDE DEF r
  <2> QED
    BY <1>4, <2>1
<1> HIDE DEF ov, table
<1>14. /\ r \in PortType /\ r.ci = old.ci /\ r.table = table /\ r.overrun = ov
       /\ r.issued = old.issued /\ r.busy = old.busy /\ r.active = old.active
       /\ r.moved = old.moved
  BY <1>3, <1>10, <1>11 DEF PortType
<1> HIDE DEF r
<1>15. PortIs(r, n, ahOk)
  <2>1. PortIs(old, n, ahOk)
    BY <1>1, <1>5
  <2>2. ASSUME NEW t \in r.ci
        PROVE  /\ r.table[t] \in {r.issued[t], A!NoCommand}
               /\ ~r.overrun => r.table[t] = r.issued[t]
               /\ r.issued[t].call \notin ahOk /\ r.issued[t].call <= n
    BY <1>11, <1>12, <1>14, <2>1, <2>2 DEF PortIs
  <2> QED
    BY <1>14, <2>1, <2>2 DEF PortIs
<1>16. /\ ahPort' \in [1 .. Ports -> PortType] /\ ahPort'[p] = r
       /\ \A q \in 1 .. Ports : q # p => ahPort'[q] = ahPort[q]
  BY <1>1, <1>13, <1>14
<1>17. \A q \in 1 .. Ports : /\ PortIs(ahPort'[q], n, ahOk)
                             /\ ahPort'[q].ci = ahPort[q].ci
                             /\ ahPort'[q].issued = ahPort[q].issued
  BY <1>5, <1>14, <1>15, <1>16
<1>18. OnlyHere(ahInit, ahCall', ahPort')
  BY <1>5, <1>9, <1>17 DEF OnlyHere
<1>19. NotYet(ahInit, ahPort')
  BY <1>1, <1>17 DEF NotYet
<1>20. s \in A!Slot /\ s \notin ahPort'[p].ci /\ IsOwn(ahPort'[p].table[s], ahCall')
  BY <1>3, <1>8, <1>11, <1>14, <1>16
<1>21. CallIs(ahInit, ahCall', ahPort', ahOk)
  BY <1>5, <1>9, <1>18, <1>20 DEF CallIs
<1>22. \A q \in 1 .. Ports : PortIs(ahPort'[q], ahCall'.no, ahOk)
  BY <1>9, <1>17
<1> QED
  BY <1>2, <1>16, <1>19, <1>21, <1>22 DEF CommandsIn

LEMMA RefusedKeeps ==
  ASSUME AhciInv, A!Refused
  PROVE  CommandsIn(ahInit', ahCall', ahPort', ahOk')
<1> DEFINE p == ahInit.port
           n == ahCall.no + 1
           old == ahPort[p]
           r == [old EXCEPT !.tfes = FALSE]
<1>1. /\ ahPort \in [1 .. Ports -> PortType] /\ NotYet(ahInit, ahPort) /\ ScanIn(ahInit)
      /\ ahInit.port \in 1 .. Ports /\ ahCall \in CallsMade /\ A!Calls /\ ahCall.at = "idle"
  BY DEF AhciInv, CommandsIn, InitIn, ScanIn, A!Refused, A!Calls
<1>2. /\ ahPort' = [ahPort EXCEPT ![p] = r] /\ ahCall' = [ahCall EXCEPT !.no = n]
      /\ ahOk' = ahOk /\ A!Advance(FALSE)
  BY <1>1 DEF A!Refused, CallsMade
<1>3. /\ n \in Nat \ {0} /\ n \notin ahOk /\ ahOk \subseteq 1 .. n
      /\ \A q \in 1 .. Ports : PortIs(ahPort[q], n, ahOk)
  <2> HIDE DEF n
  <2> QED
    BY NewCall DEF n
<1> HIDE DEF n
<1>4. ahCall'.no = n /\ ahCall'.at = "idle"
  BY <1>1, <1>2 DEF CallsMade
<1>5. /\ r \in PortType /\ r.ci = old.ci /\ r.table = old.table /\ r.overrun = old.overrun
      /\ r.issued = old.issued /\ r.busy = old.busy /\ r.active = old.active
  <2>1. old \in PortType
    BY <1>1
  <2> QED
    BY <2>1 DEF PortType
<1> HIDE DEF r
<1>6. /\ ahPort' \in [1 .. Ports -> PortType] /\ ahPort'[p] = r
      /\ \A q \in 1 .. Ports : q # p => ahPort'[q] = ahPort[q]
  BY <1>1, <1>2, <1>5
<1>7. \A q \in 1 .. Ports : PortIs(ahPort'[q], n, ahOk) /\ ahPort'[q].ci = ahPort[q].ci
  BY <1>3, <1>5, <1>6 DEF PortIs
<1>8. NotYet(ahInit', ahPort)
  BY <1>1, <1>2, NotYetAdvance
<1>9. NotYet(ahInit', ahPort')
  BY <1>7, <1>8 DEF NotYet
<1>10. CallIs(ahInit', ahCall', ahPort', ahOk)
  BY <1>3, <1>4 DEF CallIs
<1>11. \A q \in 1 .. Ports : PortIs(ahPort'[q], ahCall'.no, ahOk)
  BY <1>4, <1>7
<1> QED
  BY <1>2, <1>6, <1>9, <1>10, <1>11 DEF CommandsIn

LEMMA IssueKeeps ==
  ASSUME AhciInv, A!Issue
  PROVE  CommandsIn(ahInit', ahCall', ahPort', ahOk')
<1> DEFINE p == ahInit.port
           s == ahCall.slot
           old == ahPort[p]
           own == old.table[s]
           r == [old EXCEPT !.ci = old.ci \cup {s}, !.issued = [old.issued EXCEPT ![s] = own]]
<1>1. /\ ahPort \in [1 .. Ports -> PortType] /\ NotYet(ahInit, ahPort)
      /\ p \in 1 .. Ports /\ ahInit.step \notin {"port", "stop"} /\ ahCall \in CallsMade
      /\ ahCall.at = "filled" /\ CallIs(ahInit, ahCall, ahPort, ahOk)
      /\ \A q \in 1 .. Ports : PortIs(ahPort[q], ahCall.no, ahOk)
  BY DEF AhciInv, CommandsIn, InitIn, ScanIn, A!Issue, A!Calls
<1>2. /\ s \in A!Slot /\ ahCall.no \notin ahOk /\ OnlyHere(ahInit, ahCall, ahPort)
      /\ s \notin old.ci /\ IsOwn(own, ahCall) /\ old \in PortType
      /\ ahCall.no \in Nat /\ ahCall.no # 0
  BY <1>1 DEF CallIs, CallsMade
<1>3. /\ ahPort' = [ahPort EXCEPT ![p] = r] /\ ahCall' = [ahCall EXCEPT !.at = "waiting"]
      /\ ahOk' = ahOk /\ ahInit' = ahInit /\ old.busy = A!None
  BY <1>1, <1>2 DEF A!Issue, PortType
<1>4. /\ ahCall'.no = ahCall.no /\ ahCall'.at = "waiting" /\ ahCall'.slot = s
      /\ ahCall'.sectors = ahCall.sectors
  BY <1>1, <1>3 DEF CallsMade
<1>5. own \in Tables /\ own.call = ahCall.no
  BY <1>2 DEF PortType, IsOwn
<1>6. IsOwn(own, ahCall')
  BY <1>2, <1>4 DEF IsOwn
<1> HIDE DEF own
<1>7. /\ r \in PortType /\ r.ci = old.ci \cup {s} /\ r.table = old.table
      /\ r.issued = [old.issued EXCEPT ![s] = own] /\ r.busy = old.busy
      /\ r.overrun = old.overrun
  BY <1>2, <1>5 DEF PortType
<1>8. r.issued[s] = own /\ \A t \in old.ci : r.issued[t] = old.issued[t]
  BY <1>2, <1>7 DEF PortType
<1>9. r.table[s] = own
  BY <1>7 DEF own
<1> HIDE DEF r, s
<1>10. PortIs(r, ahCall.no, ahOk)
  <2>1. ASSUME NEW t \in r.ci
        PROVE  /\ r.table[t] \in {r.issued[t], A!NoCommand}
               /\ ~r.overrun => r.table[t] = r.issued[t]
               /\ r.issued[t].call \notin ahOk /\ r.issued[t].call <= ahCall.no
    <3>1. CASE t = s
      BY <1>2, <1>5, <1>8, <1>9, <3>1
    <3>2. CASE t \in old.ci
      BY <1>1, <1>7, <1>8, <3>2 DEF PortIs
    <3> QED
      BY <1>7, <3>1, <3>2
  <2> QED
    BY <1>3, <1>7, <2>1 DEF PortIs
<1>11. /\ ahPort' \in [1 .. Ports -> PortType] /\ ahPort'[p] = r
       /\ \A q \in 1 .. Ports : q # p => ahPort'[q] = ahPort[q]
  BY <1>1, <1>3, <1>7
<1>12. \A q \in 1 .. Ports : PortIs(ahPort'[q], ahCall'.no, ahOk)
  BY <1>1, <1>4, <1>10, <1>11
<1>13. NotYet(ahInit, ahPort')
  BY <1>1, <1>11 DEF NotYet
<1>14. OnlyHere(ahInit, ahCall', ahPort')
  <2> SUFFICES ASSUME NEW q \in 1 .. Ports, NEW t \in ahPort'[q].ci,
                      ahPort'[q].issued[t].call = ahCall.no
               PROVE  q = p /\ t = s
    BY <1>4 DEF OnlyHere
  <2>1. CASE q # p
    BY <1>1, <1>2, <1>11, <2>1 DEF OnlyHere
  <2>2. CASE q = p
    <3>1. t \in old.ci \cup {s} /\ r.issued[t].call = ahCall.no
      BY <1>7, <1>11, <2>2
    <3>2. ASSUME t \in old.ci PROVE FALSE
      <4>1. old.issued[t].call = ahCall.no
        BY <1>8, <3>1, <3>2
      <4>2. ahCall.at = "waiting"
        BY <1>1, <1>2, <3>2, <4>1 DEF OnlyHere
      <4> QED
        BY <1>1, <4>2
    <3> QED
      BY <2>2, <3>1, <3>2
  <2> QED
    BY <2>1, <2>2
<1>15. Waits(ahPort'[p], ahCall')
  <2>1. /\ s \in r.ci /\ IsOwn(r.issued[s], ahCall') /\ r.table[s] = r.issued[s]
        /\ r.busy # s
    BY <1>2, <1>3, <1>6, <1>7, <1>8, <1>9, NoneFree
  <2> QED
    BY <1>4, <1>11, <2>1 DEF Waits
<1>16. CallIs(ahInit, ahCall', ahPort', ahOk)
  <2>1. ahOk \subseteq 1 .. ahCall'.no
    BY <1>1, <1>4 DEF CallIs
  <2> QED
    BY <1>2, <1>4, <1>14, <1>15, <2>1 DEF CallIs
<1> QED
  BY <1>3, <1>11, <1>12, <1>13, <1>16 DEF CommandsIn

LEMMA AhciSteps == AhciInv /\ [A!AhciNext]_(A!ahVars) => AhciInv'
<1> SUFFICES ASSUME AhciInv, [A!AhciNext]_(A!ahVars)
             PROVE  CommandsIn(ahInit', ahCall', ahPort', ahOk')
  BY InitSteps DEF AhciInv
<1>1. CASE UNCHANGED A!ahVars
  <2>1. ahInit' = ahInit /\ ahCall' = ahCall /\ ahPort' = ahPort /\ ahOk' = ahOk
    BY <1>1 DEF A!ahVars
  <2> QED
    BY <2>1 DEF AhciInv
<1>2. CASE A!HungBeforeIssue \/ A!TaskFileError \/ A!ReadTimeout
  <2>1. ahCall.at # "idle" /\ A!Return(FALSE) /\ UNCHANGED ahPort
    BY <1>2 DEF A!HungBeforeIssue, A!TaskFileError, A!ReadTimeout
  <2> QED
    BY <2>1, ReturnKeeps
<1>3. CASE A!Done
  <2>1. /\ ahCall.at = "waiting" /\ ahCall.slot \notin ahPort[ahInit.port].ci
        /\ A!Return(TRUE) /\ UNCHANGED ahPort
    BY <1>3 DEF A!Done
  <2> QED
    BY <2>1, ReturnKeeps
<1>4. CASE A!NextPort \/ A!ScanDone
  BY <1>4, NextPortKeeps
<1>5. CASE A!StopCmd \/ A!Rebase
  BY <1>5, SetUpKeeps
<1>6. CASE A!Begin
  BY <1>6, BeginKeeps
<1>7. CASE A!Refused
  BY <1>7, RefusedKeeps
<1>8. CASE A!Issue
  BY <1>8, IssueKeeps
<1>9. CASE A!AhciController \/ \E p \in 1 .. Ports : A!FallSilent(p)
  <2>1. ASSUME NEW p \in 1 .. Ports, NEW s \in A!Slot, A!Take(p, s)
        PROVE  CommandsIn(ahInit', ahCall', ahPort', ahOk')
    BY <2>1, TakeKeeps
  <2>2. ASSUME NEW p \in 1 .. Ports, A!Finish(p)
        PROVE  CommandsIn(ahInit', ahCall', ahPort', ahOk')
    BY <2>2, FinishKeeps
  <2>3. ASSUME NEW p \in 1 .. Ports, A!Fail(p) \/ A!LinkUp(p) \/ A!FallSilent(p)
        PROVE  CommandsIn(ahInit', ahCall', ahPort', ahOk')
    BY <2>3, OtherKeeps
  <2> QED
    BY <1>9, <2>1, <2>2, <2>3, Zenon DEF A!AhciController
<1> QED
  BY <1>1, <1>2, <1>3, <1>4, <1>5, <1>6, <1>7, <1>8, <1>9, Zenon
     DEF A!AhciNext, A!AhciDriver

(* An AHCI step is the AHCI driver's, or leaves it as it is. *)
LEMMA AhciActs == [DriversNext]_AllVars => [A!AhciNext]_(A!ahVars)
BY DEF DriversNext, AhciStep, CardStep, EchoStep, AllVars, ahVars, A!ahVars

LEMMA AhciStarts == DriversInit => AhciInv
BY InitStarts, CommandsStart DEF DriversInit, AhciInv

(* Whatever the disks hold and whichever reads fail, a scan of a partition *)
(* table of up to 128 sectors never reports a volume that is not there,    *)
(* and, unless a read failed, all that are; commands of more sectors have  *)
(* no such bound in the code, and nothing is claimed of them.              *)
THEOREM AhciVolumesFound == DriversSpec => []VolumesFound
<1>1. AhciInv => VolumesFound
  BY InitShows DEF AhciInv, VolumesFound
<1> QED
  BY <1>1, AhciStarts, AhciSteps, AhciActs, PTL DEF DriversSpec

(* A call of ahci_identify or ahci_read that returns 0 is its own          *)
(* command's: the controller took the table the call had filled, and will  *)
(* not write there again, however many slots there are and whatever timed  *)
(* out or failed before; and it has moved exactly the bytes asked for, if  *)
(* these were 128 sectors at most.  That a table in use is still what was  *)
(* issued is shown as long as none had more entries than it has room for.  *)
THEOREM AhciOwnSuccess == DriversSpec => []AhciSuccessIsOwn
<1>1. AhciInv => AhciSuccessIsOwn
  <2> SUFFICES ASSUME AhciInv PROVE A!AhciSuccessIsOwn
    BY DEF AhciSuccessIsOwn
  <2>1. \A p \in 1 .. Ports : PortIs(ahPort[p], ahCall.no, ahOk)
    BY DEF AhciInv, CommandsIn
  <2>2. ahCall.no \in ahOk => \E p \in 1 .. Ports : HasMoved(ahPort[p], ahCall)
    BY DEF AhciInv, CommandsIn, CallIs
  <2> QED
    BY <2>1, <2>2
       DEF PortIs, HasMoved, A!AhciSuccessIsOwn, A!SectorBytes, A!TableRoom, A!PrdtSectors
<1> QED
  BY <1>1, AhciStarts, AhciSteps, AhciActs, PTL DEF DriversSpec

------------------------------------------------------------------------------
(* A step of the drivers is one of each of these, that may stand still. *)
LEMMA OtherParts ==
  [DriversNext]_AllVars =>
    [X!Next]_(X!xhVars) /\ [R!RtlNext]_(R!rtVars) /\ [E!EchoNext]_(E!ecVars)
BY DEF DriversNext, AhciStep, CardStep, EchoStep, AllVars, xhVars, rtVars, ecVars,
       X!xhVars, R!rtVars, E!ecVars

(* Logs: what is done follows what was asked for. *)
Begins(s, t) == Len(s) <= Len(t) /\ \A i \in 1 .. Len(s) : s[i] = t[i]

(* How many entries of a log are in a set. *)
Count(s, K) == Cardinality({k \in DOMAIN s : s[k] \in K})

LEMMA AppendIs ==
  ASSUME NEW Elt, NEW s \in Seq(Elt), NEW e \in Elt
  PROVE  /\ Append(s, e) \in Seq(Elt) /\ Len(Append(s, e)) = Len(s) + 1 /\ Len(s) \in Nat
         /\ Append(s, e)[Len(s) + 1] = e
         /\ \A i \in 1 .. Len(s) : Append(s, e)[i] = s[i]
  BY SMT

LEMMA BeginsLonger ==
  ASSUME NEW Elt, NEW s \in Seq(Elt), NEW t \in Seq(Elt), NEW e \in Elt, Begins(s, t)
  PROVE  Begins(s, Append(t, e))
<1>1. /\ Len(Append(t, e)) = Len(t) + 1 /\ Len(t) \in Nat /\ Len(s) \in Nat
      /\ \A i \in 1 .. Len(t) : Append(t, e)[i] = t[i]
  BY AppendIs
<1>2. \A i \in 1 .. Len(s) : i \in 1 .. Len(t)
  BY <1>1 DEF Begins
<1> QED
  BY <1>1, <1>2 DEF Begins

LEMMA BeginsNext ==
  ASSUME NEW Elt, NEW s \in Seq(Elt), NEW t \in Seq(Elt), Begins(s, t), Len(s) < Len(t)
  PROVE  /\ t[Len(s) + 1] \in Elt
         /\ Begins(Append(s, t[Len(s) + 1]), t)
<1>1. Len(s) + 1 \in 1 .. Len(t) /\ Len(s) \in Nat /\ Len(t) \in Nat
  OBVIOUS
<1>2. t[Len(s) + 1] \in Elt
  BY <1>1, ElementOfSeq
<1> DEFINE e == t[Len(s) + 1]
<1> HIDE DEF e
<1>3. /\ Len(Append(s, e)) = Len(s) + 1 /\ Append(s, e)[Len(s) + 1] = e
      /\ \A i \in 1 .. Len(s) : Append(s, e)[i] = s[i]
  BY <1>2, AppendIs DEF e
<1>4. \A i \in 1 .. Len(s) + 1 : Append(s, e)[i] = t[i]
  <2> TAKE i \in 1 .. Len(s) + 1
  <2>1. i \in 1 .. Len(s) \/ i = Len(s) + 1
    BY <1>1
  <2> QED
    BY <1>3, <2>1 DEF Begins, e
<1> QED
  BY <1>1, <1>2, <1>3, <1>4 DEF Begins, e

(* What a log holds is finite, and one entry more is counted or not. *)
LEMMA CountIs ==
  ASSUME NEW Elt, NEW s \in Seq(Elt), NEW K
  PROVE  /\ IsFiniteSet({k \in DOMAIN s : s[k] \in K})
         /\ Count(s, K) \in Nat /\ Count(s, K) <= Len(s)
<1>1. DOMAIN s = 1 .. Len(s) /\ Len(s) \in Nat
  OBVIOUS
<1>2. IsFiniteSet(1 .. Len(s)) /\ Cardinality(1 .. Len(s)) = Len(s)
  BY <1>1, FS_Interval
<1> DEFINE T == {k \in DOMAIN s : s[k] \in K}
<1>3. T \in SUBSET (1 .. Len(s))
  BY <1>1
<1> HIDE DEF T
<1>4. IsFiniteSet(T) /\ Cardinality(T) <= Len(s)
  BY <1>2, <1>3, FS_Subset
<1> QED
  BY <1>4, FS_CardinalityType DEF T, Count

LEMMA CountAppend ==
  ASSUME NEW Elt, NEW s \in Seq(Elt), NEW e \in Elt, NEW K
  PROVE  Count(Append(s, e), K) = Count(s, K) + (IF e \in K THEN 1 ELSE 0)
<1> DEFINE n == Len(s)
           T == {k \in DOMAIN s : s[k] \in K}
           U == {k \in DOMAIN Append(s, e) : Append(s, e)[k] \in K}
<1>1. /\ n \in Nat /\ DOMAIN s = 1 .. n /\ DOMAIN Append(s, e) = 1 .. n + 1
      /\ Append(s, e)[n + 1] = e /\ \A i \in 1 .. n : Append(s, e)[i] = s[i]
  BY AppendIs
<1>2. U = IF e \in K THEN T \cup {n + 1} ELSE T
  <2> HIDE DEF n
  <2>1. \A k : k \in 1 .. n + 1 <=> k \in 1 .. n \/ k = n + 1
    BY <1>1
  <2> QED
    BY <1>1, <2>1
<1>3. n + 1 \notin T
  BY <1>1
<1>4. IsFiniteSet(T) /\ Cardinality(T) \in Nat
  BY CountIs DEF Count
<1>5. Count(Append(s, e), K) = Cardinality(U) /\ Count(s, K) = Cardinality(T)
  BY DEF Count
<1> HIDE DEF n, T, U
<1>6. Cardinality(T \cup {n + 1}) = Cardinality(T) + 1
  BY <1>3, <1>4, FS_AddElement
<1> QED
  BY <1>2, <1>4, <1>5, <1>6
------------------------------------------------------------------------------
(* xHCI.  The sizes of the rings. *)
XhciSizes ==
  /\ MaxPorts \in Nat /\ Connected \subseteq 1 .. MaxPorts
  /\ CmdEntries \in Nat \ {0} /\ EvEntries \in Nat \ {0, 1}

XhSteps == {"port", "reset", "enable", "enabled", "address"}
Polling == {"enable", "address"}
Enable == {<<"enable", 0>>}
Address == {"address"} \X Nat
Commands == Enable \cup Address
Events == ({"port"} \X {0}) \cup ({"completion"} \X Nat)
TrbTypes == {"none", "link", "enable", "address", "port", "completion"}
Trb == [type : TrbTypes, slot : Nat, cycle : {0, 1}]
Pair(trb) == <<trb.type, trb.slot>>

XhLogs == [submitted : Seq(Commands), done : Seq(TrbTypes \X Nat),
           posted : Seq(Events), taken : Seq(Events), changes : Nat, lapped : BOOLEAN]

XhHosts == [cmd : 0 .. CmdEntries, cmdCycle : {0, 1}, ev : RingSlots(EvEntries),
            evCycle : {0, 1}, port : {"idle", "reset", "enabled"}, changed : SUBSET Nat,
            slots : Nat]

XhTypes ==
  /\ xhDriver \in [port : Nat, step : XhSteps, slot : Nat, timeouts : Nat]
  /\ xhCmdRing \in [0 .. CmdEntries -> Trb]
  /\ xhCmdIndex \in 0 .. CmdEntries - 1 /\ xhCmdCycle \in {0, 1}
  /\ xhEvRing \in [RingSlots(EvEntries) -> Trb]
  /\ xhEvIndex \in RingSlots(EvEntries) /\ xhEvCycle \in {0, 1}
  /\ xhHost \in XhHosts
  /\ xhLog \in XhLogs

(* The commands not carried out. *)
Backlog(log) == Len(log.submitted) - Len(log.done)

(* The controller's place is so far behind the driver's: in the same round *)
(* of the ring, or in one before.  (At the link it has not turned round.)  *)
CmdPlaces ==
  LET there == xhHost.cmd + Backlog(xhLog) IN
  \/ there = xhCmdIndex /\ xhHost.cmdCycle = xhCmdCycle
  \/ there = xhCmdIndex + CmdEntries /\ xhHost.cmdCycle # xhCmdCycle
  \/ there = xhCmdIndex + 2 * CmdEntries /\ xhHost.cmdCycle = xhCmdCycle
  \/ there = xhCmdIndex + 3 * CmdEntries /\ xhHost.cmdCycle # xhCmdCycle

(* What is carried out begins what is submitted, until more than two       *)
(* rounds are not carried out.                                             *)
InOrder ==
  ~xhLog.lapped =>
    /\ Begins(xhLog.done, xhLog.submitted) /\ CmdPlaces
    /\ Backlog(xhLog) <= 2 * CmdEntries

(* Before the driver's index the ring holds this round's commands, with    *)
(* this round's cycle, and from there on the last round's.                 *)
CmdHeld ==
  /\ xhCmdIndex <= Len(xhLog.submitted)
  /\ xhCmdRing[CmdEntries].cycle = 1 - xhCmdCycle
  /\ \A j \in 0 .. CmdEntries - 1 :
       LET k == Len(xhLog.submitted) - xhCmdIndex + j + 1 IN
       IF j < xhCmdIndex
       THEN xhCmdRing[j].cycle = xhCmdCycle /\ Pair(xhCmdRing[j]) = xhLog.submitted[k]
       ELSE /\ xhCmdRing[j].cycle = 1 - xhCmdCycle
            /\ k > CmdEntries => Pair(xhCmdRing[j]) = xhLog.submitted[k - CmdEntries]

(* The event ring: what lies between the driver's index and the            *)
(* controller's is what was posted and not taken, and the cycles tell the  *)
(* rounds apart.                                                           *)
EvPlaces ==
  /\ Len(xhLog.posted) = Len(xhLog.taken) + Fill(EvEntries, xhHost.ev, xhEvIndex)
  /\ xhEvCycle = IF xhEvIndex <= xhHost.ev THEN xhHost.evCycle ELSE 1 - xhHost.evCycle

EvCycles ==
  \A i \in RingSlots(EvEntries) :
    xhEvRing[i].cycle = IF i < xhHost.ev THEN xhHost.evCycle ELSE 1 - xhHost.evCycle

EvHeld ==
  \A k \in 1 .. Fill(EvEntries, xhHost.ev, xhEvIndex) :
    Pair(xhEvRing[Nth(EvEntries, xhEvIndex, k)]) = xhLog.posted[Len(xhLog.taken) + k]

(* Until a port's change is reported or a poll times out, the event that   *)
(* is taken is the last command's.                                         *)
InStep(log, driver, slots) ==
  log.changes = 0 /\ driver.timeouts = 0 =>
    LET n == Len(log.taken)
        enables == Count(log.submitted, Enable)
    IN
    /\ Len(log.posted) = Len(log.done) /\ ~log.lapped
    /\ driver.step \notin Polling =>
         Len(log.submitted) = n /\ Len(log.done) = n /\ slots = enables
    /\ driver.step = "enabled" => driver.slot = enables
    /\ driver.step \in Polling => Len(log.submitted) = n + 1 /\ Len(log.done) \in {n, n + 1}
    /\ driver.step = "enable" =>
         /\ log.submitted[n + 1] = <<"enable", 0>>
         /\ IF Len(log.done) = n THEN slots + 1 = enables
            ELSE slots = enables /\ log.posted[n + 1][2] = enables
    /\ driver.step = "address" => log.submitted[n + 1][1] = "address" /\ slots = enables

XhInv ==
  /\ XhTypes /\ InOrder /\ CmdHeld
  /\ Begins(xhLog.taken, xhLog.posted) /\ EvPlaces /\ EvCycles /\ EvHeld
  /\ InStep(xhLog, xhDriver, xhHost.slots)

LEMMA BacklogIs ==
  ASSUME NEW log \in XhLogs, Begins(log.done, log.submitted),
         Backlog(log) <= 2 * CmdEntries, XhciSizes
  PROVE  Backlog(log) \in 0 .. 2 * CmdEntries
<1>1. Len(log.submitted) \in Nat /\ Len(log.done) \in Nat /\ CmdEntries \in Nat
  BY DEF XhLogs, XhciSizes
<1> DEFINE s == Len(log.submitted)
           d == Len(log.done)
<1>2. d <= s /\ s - d <= 2 * CmdEntries
  BY DEF Begins, Backlog
<1>3. s \in Nat /\ d \in Nat /\ CmdEntries \in Nat
  BY <1>1
<1> HIDE DEF s, d
<1>4. s - d \in 0 .. 2 * CmdEntries
  BY <1>2, <1>3
<1> QED
  BY <1>4 DEF Backlog, s, d

(* Zeroed rings, empty logs. *)
LEMMA XhInit == ASSUME XhciSizes, X!Init PROVE XhInv
<1>1. /\ xhDriver = [port |-> 1, step |-> "port", slot |-> 0, timeouts |-> 0]
      /\ xhCmdRing = [i \in 0 .. CmdEntries |-> X!Nothing]
      /\ xhCmdIndex = 0 /\ xhCmdCycle = 1
      /\ xhEvRing = [i \in 0 .. EvEntries - 1 |-> X!Nothing]
      /\ xhEvIndex = 0 /\ xhEvCycle = 1
      /\ xhHost = [cmd |-> 0, cmdCycle |-> 1, ev |-> 0, evCycle |-> 1, port |-> "idle",
                   changed |-> Connected, slots |-> 0]
      /\ xhLog = [submitted |-> <<>>, done |-> <<>>, posted |-> <<>>, taken |-> <<>>,
                  changes |-> 0, lapped |-> FALSE]
  BY DEF X!Init
<1>2. X!Nothing \in Trb /\ X!Nothing.cycle = 0
  BY DEF X!Nothing, Trb, TrbTypes
<1>3. /\ CmdEntries \in Nat \ {0} /\ EvEntries \in Nat \ {0, 1} /\ 0 \in RingSlots(EvEntries)
      /\ 0 \in 0 .. CmdEntries - 1 /\ 0 \in 0 .. CmdEntries
  BY DEF XhciSizes, RingSlots
<1>4. XhTypes
  <2>1. xhCmdRing \in [0 .. CmdEntries -> Trb] /\ xhEvRing \in [RingSlots(EvEntries) -> Trb]
    BY <1>1, <1>2 DEF RingSlots
  <2>2. xhDriver \in [port : Nat, step : XhSteps, slot : Nat, timeouts : Nat]
    BY <1>1 DEF XhSteps
  <2>3. xhHost \in XhHosts
    <3>1. Connected \in SUBSET Nat
      BY DEF XhciSizes
    <3> QED
      BY <1>1, <1>3, <3>1 DEF XhHosts
  <2>4. xhLog \in XhLogs
    BY <1>1 DEF XhLogs
  <2> QED
    BY <1>1, <1>3, <2>1, <2>2, <2>3, <2>4 DEF XhTypes
<1>5. Len(<<>>) = 0 /\ \A K : Count(<<>>, K) = 0
  <2>1. Len(<<>>) = 0
    OBVIOUS
  <2>2. <<>> \in Seq(Commands)
    OBVIOUS
  <2>3. \A K : Count(<<>>, K) \in Nat /\ Count(<<>>, K) <= 0
    BY <2>1, <2>2, CountIs
  <2> QED
    BY <2>1, <2>3
<1>6. /\ xhLog.submitted = <<>> /\ xhLog.done = <<>> /\ xhLog.posted = <<>> /\ xhLog.taken = <<>>
      /\ xhDriver.step = "port" /\ xhDriver.port = 1 /\ xhHost.slots = 0
      /\ xhHost.cmd = 0 /\ xhHost.cmdCycle = 1 /\ xhHost.ev = 0 /\ xhHost.evCycle = 1
  BY <1>1
<1>7. Begins(xhLog.taken, xhLog.posted) /\ Begins(xhLog.done, xhLog.submitted)
  BY <1>5, <1>6 DEF Begins
<1>9. InOrder
  <2>1. Backlog(xhLog) = 0
    BY <1>5, <1>6 DEF Backlog
  <2> QED
    BY <1>1, <1>3, <1>6, <1>7, <2>1 DEF CmdPlaces, InOrder
<1>10. CmdHeld
  <2>1. \A j \in 0 .. CmdEntries : xhCmdRing[j].cycle = 0
    BY <1>1, <1>2
  <2>2. /\ xhCmdIndex = 0 /\ xhCmdCycle = 1 /\ Len(xhLog.submitted) = 0 /\ CmdEntries \in Nat
        /\ CmdEntries \in 0 .. CmdEntries /\ 0 .. CmdEntries - 1 \subseteq 0 .. CmdEntries
    BY <1>1, <1>3, <1>5, <1>6
  <2>3. ASSUME NEW j \in 0 .. CmdEntries - 1
        PROVE  /\ ~(j < xhCmdIndex) /\ xhCmdRing[j].cycle = 1 - xhCmdCycle
               /\ ~(Len(xhLog.submitted) - xhCmdIndex + j + 1 > CmdEntries)
    BY <2>1, <2>2
  <2> QED
    BY <2>1, <2>2, <2>3 DEF CmdHeld
<1>11. EvPlaces /\ EvCycles /\ EvHeld
  <2>1. Fill(EvEntries, xhHost.ev, xhEvIndex) = 0
    BY <1>1, <1>6 DEF Fill
  <2>2. \A i \in RingSlots(EvEntries) : xhEvRing[i].cycle = 0 /\ ~(i < 0)
    BY <1>1, <1>2 DEF RingSlots
  <2>3. EvPlaces /\ EvHeld
    BY <1>1, <1>5, <1>6, <2>1 DEF EvPlaces, EvHeld
  <2>4. EvCycles
    BY <1>6, <2>2 DEF EvCycles
  <2> QED
    BY <2>3, <2>4
<1>12. InStep(xhLog, xhDriver, xhHost.slots)
  BY <1>1, <1>5, <1>6 DEF InStep, Polling
<1> QED
  BY <1>4, <1>7, <1>9, <1>10, <1>11, <1>12 DEF XhInv

LEMMA CommandsAre == Commands \subseteq TrbTypes \X Nat
BY DEF Commands, Enable, Address, TrbTypes

(* A new command leaves the ring as it should be. *)
LEMMA XhSubmit ==
  ASSUME XhInv, XhciSizes, NEW type, NEW slot, <<type, slot>> \in Commands,
         X!Submit(type, slot), UNCHANGED <<xhEvRing, xhEvIndex, xhEvCycle, xhHost>>,
         xhDriver' \in [port : Nat, step : XhSteps, slot : Nat, timeouts : Nat]
  PROVE  /\ XhTypes' /\ InOrder' /\ CmdHeld' /\ Begins(xhLog.taken, xhLog.posted)'
         /\ EvPlaces' /\ EvCycles' /\ EvHeld'
<1> DEFINE trb == [type |-> type, slot |-> slot, cycle |-> xhCmdCycle]
           link == [trb EXCEPT !.type = "link"]
           wraps == xhCmdIndex + 1 >= CmdEntries
           s == Len(xhLog.submitted)
<1>1. /\ xhCmdRing \in [0 .. CmdEntries -> Trb] /\ xhCmdIndex \in 0 .. CmdEntries - 1
      /\ xhCmdCycle \in {0, 1} /\ xhLog \in XhLogs /\ CmdEntries \in Nat \ {0}
      /\ xhHost.cmd \in 0 .. CmdEntries /\ xhHost.cmdCycle \in {0, 1}
  BY DEF XhInv, XhTypes, XhciSizes, XhHosts
<1>2. trb \in Trb /\ link \in Trb /\ slot \in Nat /\ type \in {"enable", "address"}
  BY <1>1 DEF Trb, TrbTypes, Commands, Enable, Address
<1>3. /\ xhCmdRing' = [xhCmdRing EXCEPT ![xhCmdIndex] = trb,
                                        ![CmdEntries] = IF wraps THEN link ELSE @]
      /\ xhCmdIndex' = IF wraps THEN 0 ELSE xhCmdIndex + 1
      /\ xhCmdCycle' = IF wraps THEN 1 - xhCmdCycle ELSE xhCmdCycle
      /\ xhLog' = [xhLog EXCEPT !.submitted = Append(xhLog.submitted, <<type, slot>>),
                                !.lapped = @ \/ X!Laps(xhLog)]
  BY DEF X!Submit, X!Link
<1>0. /\ xhCmdIndex \in Nat /\ xhCmdIndex < CmdEntries /\ CmdEntries \in Nat /\ CmdEntries > 0
      /\ xhCmdIndex' = IF wraps THEN 0 ELSE xhCmdIndex + 1
      /\ xhCmdCycle' = IF wraps THEN 1 - xhCmdCycle ELSE xhCmdCycle
      /\ xhCmdCycle \in {0, 1} /\ xhHost.cmdCycle \in {0, 1}
      /\ xhHost.cmd \in Nat /\ xhHost.cmd <= CmdEntries
  BY <1>1, <1>3
<1>4. /\ xhLog' \in XhLogs /\ xhLog'.submitted = Append(xhLog.submitted, <<type, slot>>)
      /\ xhLog'.done = xhLog.done /\ xhLog'.posted = xhLog.posted /\ xhLog'.taken = xhLog.taken
      /\ (~xhLog'.lapped => ~xhLog.lapped /\ s + 1 <= Len(xhLog.done) + 2 * CmdEntries)
  <2> DEFINE lapped == xhLog.lapped \/ X!Laps(xhLog)
  <2>1. Append(xhLog.submitted, <<type, slot>>) \in Seq(Commands)
    BY <1>1, AppendIs DEF XhLogs
  <2>2. /\ Len(xhLog.done) \in Nat /\ s \in Nat /\ lapped \in BOOLEAN
        /\ ~lapped => ~xhLog.lapped /\ ~X!Laps(xhLog)
    BY <1>1 DEF XhLogs, X!Laps
  <2>3. ~X!Laps(xhLog) => s + 1 <= Len(xhLog.done) + 2 * CmdEntries
    BY <1>1, <2>2 DEF X!Laps
  <2>4. xhLog' = [xhLog EXCEPT !.submitted = Append(xhLog.submitted, <<type, slot>>),
                               !.lapped = lapped]
    BY <1>3
  <2> HIDE DEF lapped
  <2>5. /\ xhLog' \in XhLogs /\ xhLog'.submitted = Append(xhLog.submitted, <<type, slot>>)
        /\ xhLog'.done = xhLog.done /\ xhLog'.posted = xhLog.posted
        /\ xhLog'.taken = xhLog.taken /\ xhLog'.lapped = lapped
    BY <1>1, <2>1, <2>2, <2>4 DEF XhLogs
  <2> QED
    BY <2>2, <2>3, <2>5
<1>5. /\ Len(xhLog'.submitted) = s + 1 /\ s \in Nat
      /\ xhLog'.submitted[s + 1] = <<type, slot>>
      /\ \A i \in 1 .. s : xhLog'.submitted[i] = xhLog.submitted[i]
  BY <1>1, <1>4, AppendIs DEF XhLogs
<1>6. /\ \A j \in 0 .. CmdEntries - 1 :
           xhCmdRing'[j] = IF j = xhCmdIndex THEN trb ELSE xhCmdRing[j]
      /\ xhCmdRing'[CmdEntries] = IF wraps THEN link ELSE xhCmdRing[CmdEntries]
      /\ xhCmdRing' \in [0 .. CmdEntries -> Trb]
  <2> DEFINE l == IF wraps THEN link ELSE xhCmdRing[CmdEntries]
  <2>1. l \in Trb /\ xhCmdIndex \in 0 .. CmdEntries /\ xhCmdIndex # CmdEntries
    BY <1>0, <1>1, <1>2
  <2>2. xhCmdRing' = [xhCmdRing EXCEPT ![xhCmdIndex] = trb, ![CmdEntries] = l]
    BY <1>3
  <2> HIDE DEF trb, l
  <2>3. xhCmdRing'[CmdEntries] = l /\ xhCmdRing' \in [0 .. CmdEntries -> Trb]
    BY <1>0, <1>1, <1>2, <2>1, <2>2
  <2>4. \A j \in 0 .. CmdEntries - 1 : j \in 0 .. CmdEntries /\ j # CmdEntries
    BY <1>0
  <2>5. \A j \in 0 .. CmdEntries - 1 :
           xhCmdRing'[j] = IF j = xhCmdIndex THEN trb ELSE xhCmdRing[j]
    BY <1>1, <2>1, <2>2, <2>4
  <2> QED
    BY <2>3, <2>5 DEF l
<1>7. trb.cycle = xhCmdCycle /\ link.cycle = xhCmdCycle /\ Pair(trb) = <<type, slot>>
  BY DEF Pair
<1>8. XhTypes'
  <2>1. xhCmdIndex' \in 0 .. CmdEntries - 1 /\ xhCmdCycle' \in {0, 1}
    BY <1>1, <1>3
  <2> QED
    BY <1>4, <1>6, <2>1 DEF XhInv, XhTypes
<1>9. /\ Begins(xhLog.taken, xhLog.posted)'
      /\ ~xhLog'.lapped => Begins(xhLog.done, xhLog.submitted)'
  <2>1. xhLog.submitted \in Seq(Commands)
    BY <1>1 DEF XhLogs
  <2>2. ~xhLog'.lapped => Begins(xhLog.done, xhLog.submitted)
    BY <1>4 DEF XhInv, InOrder
  <2>3. xhLog.done \in Seq(TrbTypes \X Nat) /\ xhLog.submitted \in Seq(TrbTypes \X Nat)
    BY <1>1, <2>1, CommandsAre DEF XhLogs
  <2>4. <<type, slot>> \in TrbTypes \X Nat
    BY CommandsAre
  <2>5. Begins(xhLog.done, xhLog.submitted) => Begins(xhLog.done, Append(xhLog.submitted, <<type, slot>>))
    BY <2>3, <2>4, BeginsLonger
  <2> QED
    BY <1>4, <2>2, <2>5 DEF XhInv
<1> HIDE DEF trb, link, s
<1>13. s \in Nat
  BY <1>5
<1>14. Len(xhLog'.submitted) = s + 1
  BY <1>5
<1>10. InOrder'
  <2> SUFFICES ASSUME ~xhLog'.lapped PROVE CmdPlaces' /\ Backlog(xhLog') <= 2 * CmdEntries
    BY <1>9 DEF InOrder
  <2>0. Backlog(xhLog') <= 2 * CmdEntries /\ ~xhLog.lapped
    <3> DEFINE d == Len(xhLog.done)
    <3>1. d \in Nat /\ CmdEntries \in Nat
      BY <1>1 DEF XhLogs
    <3>2. s + 1 <= d + 2 * CmdEntries /\ ~xhLog.lapped
      BY <1>4
    <3>3. Backlog(xhLog') = (s + 1) - d
      BY <1>4, <1>14 DEF Backlog
    <3> HIDE DEF d
    <3> QED
      BY <1>13, <3>1, <3>2, <3>3
  <2>1. Backlog(xhLog') \in 0 .. 2 * CmdEntries
    BY <1>4, <1>9, <2>0, BacklogIs
  <2>2. Backlog(xhLog') = Backlog(xhLog) + 1 /\ Backlog(xhLog) \in Int
    BY <1>1, <1>4, <1>5 DEF Backlog, XhLogs, s
  <2>3. xhHost.cmd + Backlog(xhLog') <= 3 * CmdEntries
    BY <1>1, <2>1
  <2> DEFINE b == Backlog(xhLog)
             b1 == Backlog(xhLog')
  <2>4. b1 = b + 1 /\ b \in Int /\ xhHost.cmd + b1 <= 3 * CmdEntries
    BY <2>2, <2>3
  <2>5. LET there == xhHost.cmd + b IN
        \/ there = xhCmdIndex /\ xhHost.cmdCycle = xhCmdCycle
        \/ there = xhCmdIndex + CmdEntries /\ xhHost.cmdCycle # xhCmdCycle
        \/ there = xhCmdIndex + 2 * CmdEntries /\ xhHost.cmdCycle = xhCmdCycle
        \/ there = xhCmdIndex + 3 * CmdEntries /\ xhHost.cmdCycle # xhCmdCycle
    BY <2>0 DEF XhInv, InOrder, CmdPlaces
  <2> HIDE DEF b, b1
  <2>6. LET there == xhHost.cmd + b1 IN
        \/ there = xhCmdIndex' /\ xhHost.cmdCycle = xhCmdCycle'
        \/ there = xhCmdIndex' + CmdEntries /\ xhHost.cmdCycle # xhCmdCycle'
        \/ there = xhCmdIndex' + 2 * CmdEntries /\ xhHost.cmdCycle = xhCmdCycle'
        \/ there = xhCmdIndex' + 3 * CmdEntries /\ xhHost.cmdCycle # xhCmdCycle'
    <3>1. CASE wraps
      BY <1>0, <2>4, <2>5, <3>1
    <3>2. CASE ~wraps
      BY <1>0, <2>4, <2>5, <3>2
    <3> QED
      BY <3>1, <3>2
  <2> QED
    BY <2>0, <2>6 DEF CmdPlaces, b1
<1>11. CmdHeld'
  <2>1. /\ xhCmdIndex <= s /\ xhCmdRing[CmdEntries].cycle = 1 - xhCmdCycle
        /\ \A j \in 0 .. CmdEntries - 1 :
             LET k == s - xhCmdIndex + j + 1 IN
             IF j < xhCmdIndex
             THEN xhCmdRing[j].cycle = xhCmdCycle /\ Pair(xhCmdRing[j]) = xhLog.submitted[k]
             ELSE /\ xhCmdRing[j].cycle = 1 - xhCmdCycle
                  /\ k > CmdEntries => Pair(xhCmdRing[j]) = xhLog.submitted[k - CmdEntries]
    BY DEF XhInv, CmdHeld, s
  <2>2. xhCmdIndex' <= s + 1 /\ xhCmdRing'[CmdEntries].cycle = 1 - xhCmdCycle'
    BY <1>1, <1>3, <1>5, <1>6, <1>7, <2>1
  <2>3. ASSUME NEW j \in 0 .. CmdEntries - 1
        PROVE  LET k == Len(xhLog'.submitted) - xhCmdIndex' + j + 1 IN
               IF j < xhCmdIndex'
               THEN xhCmdRing'[j].cycle = xhCmdCycle' /\ Pair(xhCmdRing'[j]) = xhLog'.submitted[k]
               ELSE /\ xhCmdRing'[j].cycle = 1 - xhCmdCycle'
                    /\ k > CmdEntries => Pair(xhCmdRing'[j]) = xhLog'.submitted[k - CmdEntries]
    <3> DEFINE k == s - xhCmdIndex + j + 1
               m == Len(xhLog'.submitted) - xhCmdIndex' + j + 1
    <3>1. j \in Nat /\ j < CmdEntries /\ xhCmdIndex <= s
      BY <1>0, <2>1
    <3>2. /\ k \in Int /\ (j < xhCmdIndex => k \in 1 .. s)
          /\ (j >= xhCmdIndex /\ k > CmdEntries => k - CmdEntries \in 1 .. s)
      BY <1>0, <1>13, <3>1
    <3>3. /\ wraps => xhCmdIndex' = 0 /\ m - CmdEntries = k /\ xhCmdCycle' = 1 - xhCmdCycle
                      /\ (j = xhCmdIndex \/ j < xhCmdIndex) /\ (j = xhCmdIndex => k = s + 1)
          /\ ~wraps => m = k /\ xhCmdCycle' = xhCmdCycle /\ (j = xhCmdIndex => k = s + 1)
                      /\ (j < xhCmdIndex' <=> j < xhCmdIndex \/ j = xhCmdIndex)
      <4>1. m = s + 1 - xhCmdIndex' + j + 1
        BY <1>0, <1>13, <1>14, <3>1
      <4> HIDE DEF m
      <4> QED
        BY <1>0, <1>13, <3>1, <4>1
    <3>4. IF j < xhCmdIndex
          THEN xhCmdRing[j].cycle = xhCmdCycle /\ Pair(xhCmdRing[j]) = xhLog.submitted[k]
          ELSE /\ xhCmdRing[j].cycle = 1 - xhCmdCycle
               /\ k > CmdEntries => Pair(xhCmdRing[j]) = xhLog.submitted[k - CmdEntries]
      BY <2>1
    <3>5. 1 - (1 - xhCmdCycle) = xhCmdCycle
      BY <1>0
    <3> HIDE DEF k, m
    <3>6. IF j < xhCmdIndex'
          THEN xhCmdRing'[j].cycle = xhCmdCycle' /\ Pair(xhCmdRing'[j]) = xhLog'.submitted[m]
          ELSE /\ xhCmdRing'[j].cycle = 1 - xhCmdCycle'
               /\ m > CmdEntries => Pair(xhCmdRing'[j]) = xhLog'.submitted[m - CmdEntries]
      <4>1. CASE j = xhCmdIndex
        <5>1. xhCmdRing'[j].cycle = xhCmdCycle /\ Pair(xhCmdRing'[j]) = xhLog'.submitted[s + 1]
          BY <1>5, <1>6, <1>7, <4>1
        <5> QED
          BY <1>0, <3>1, <3>3, <3>5, <4>1, <5>1
      <4>2. CASE j # xhCmdIndex
        <5>1. xhCmdRing'[j] = xhCmdRing[j]
          BY <1>6, <4>2
        <5>2. CASE j < xhCmdIndex
          <6>1. xhLog'.submitted[k] = xhLog.submitted[k]
            BY <1>5, <3>2, <5>2
          <6> QED
            BY <1>0, <3>1, <3>3, <3>4, <3>5, <4>2, <5>1, <5>2, <6>1
        <5>3. CASE ~(j < xhCmdIndex)
          <6>1. ~wraps /\ m = k /\ xhCmdCycle' = xhCmdCycle /\ ~(j < xhCmdIndex')
            BY <3>3, <4>2, <5>3
          <6>2. k > CmdEntries => xhLog'.submitted[k - CmdEntries] = xhLog.submitted[k - CmdEntries]
            BY <1>0, <1>5, <3>1, <3>2, <5>3
          <6> QED
            BY <3>4, <5>1, <5>3, <6>1, <6>2
        <5> QED
          BY <5>2, <5>3
      <4> QED
        BY <4>1, <4>2
    <3> QED
      BY <3>6 DEF m
  <2> QED
    BY <1>5, <2>2, <2>3 DEF CmdHeld
<1>12. EvPlaces' /\ EvCycles' /\ EvHeld'
  <2>1. Fill(EvEntries, xhHost.ev, xhEvIndex)' = Fill(EvEntries, xhHost.ev, xhEvIndex)
    BY DEF Fill
  <2> QED
    BY <1>4, <2>1 DEF XhInv, EvPlaces, EvCycles, EvHeld, Nth
<1> QED
  BY <1>8, <1>9, <1>10, <1>11, <1>12

(* A driver that is not behind does not lap the controller. *)
LEMMA NoLap ==
  ASSUME XhciSizes, NEW log, NEW driver, NEW slots, InStep(log, driver, slots),
         Len(log.taken) \in Nat, log.changes = 0, driver.timeouts = 0,
         driver.step \notin Polling
  PROVE  ~log.lapped /\ ~X!Laps(log)
<1> DEFINE n == Len(log.taken)
<1>1. n \in Nat /\ CmdEntries \in Nat /\ CmdEntries > 0
  BY DEF XhciSizes
<1>2. ~log.lapped /\ Len(log.submitted) = n /\ Len(log.done) = n
  BY DEF InStep
<1> HIDE DEF n
<1>3. ~(n + 1 > n + 2 * CmdEntries)
  BY <1>1
<1> QED
  BY <1>2, <1>3 DEF X!Laps

(* xhci_enable_slot and xhci_address_device submit a command. *)
LEMMA XhEnableSlot == ASSUME XhInv, XhciSizes, X!EnableSlot PROVE XhInv'
<1> DEFINE e == <<"enable", 0>>
<1>1. /\ xhDriver.step = "reset" /\ xhDriver' = [xhDriver EXCEPT !.step = "enable"]
      /\ X!Submit("enable", 0) /\ UNCHANGED <<xhEvRing, xhEvIndex, xhEvCycle, xhHost>>
  BY DEF X!EnableSlot
<1>2. xhLog \in XhLogs /\ xhDriver \in [port : Nat, step : XhSteps, slot : Nat, timeouts : Nat]
  BY DEF XhInv, XhTypes
<1>3. /\ xhLog'.submitted = Append(xhLog.submitted, e) /\ xhLog'.changes = xhLog.changes
      /\ xhLog'.done = xhLog.done /\ xhLog'.posted = xhLog.posted /\ xhLog'.taken = xhLog.taken
      /\ xhLog'.lapped = (xhLog.lapped \/ X!Laps(xhLog))
  BY <1>1, <1>2 DEF X!Submit, XhLogs
<1>4. /\ xhDriver' \in [port : Nat, step : XhSteps, slot : Nat, timeouts : Nat]
      /\ xhDriver'.step = "enable" /\ xhDriver'.port = xhDriver.port
      /\ xhDriver'.timeouts = xhDriver.timeouts
  BY <1>1, <1>2 DEF XhSteps
<1>5. e \in Commands /\ e \in Enable /\ e \notin Address
  BY DEF Commands, Enable, Address
<1> HIDE DEF e
<1>6. /\ Count(xhLog'.submitted, Enable) = Count(xhLog.submitted, Enable) + 1
      /\ Count(xhLog'.submitted, Address) = Count(xhLog.submitted, Address)
      /\ Count(xhLog.submitted, Enable) \in Nat /\ Count(xhLog.submitted, Address) \in Nat
      /\ Len(xhLog'.submitted) = Len(xhLog.submitted) + 1 /\ Len(xhLog.submitted) \in Nat
      /\ xhLog'.submitted[Len(xhLog.submitted) + 1] = e
  <2>1. xhLog.submitted \in Seq(Commands)
    BY <1>2 DEF XhLogs
  <2>2. Count(xhLog.submitted, Enable) \in Nat /\ Count(xhLog.submitted, Address) \in Nat
    BY <2>1, CountIs
  <2>3. \A K : Count(xhLog'.submitted, K) = Count(xhLog.submitted, K) + (IF e \in K THEN 1 ELSE 0)
    BY <1>3, <1>5, <2>1, CountAppend
  <2>4. /\ Len(xhLog'.submitted) = Len(xhLog.submitted) + 1 /\ Len(xhLog.submitted) \in Nat
        /\ xhLog'.submitted[Len(xhLog.submitted) + 1] = e
    BY <1>3, <1>5, <2>1, AppendIs
  <2> QED
    BY <1>5, <2>2, <2>3, <2>4
<1>8. /\ XhTypes' /\ InOrder' /\ CmdHeld' /\ Begins(xhLog.taken, xhLog.posted)'
      /\ EvPlaces' /\ EvCycles' /\ EvHeld'
  BY <1>1, <1>4, <1>5, XhSubmit DEF e
<1>9. InStep(xhLog', xhDriver', xhHost'.slots)
  <2>1. InStep(xhLog, xhDriver, xhHost.slots)
    BY DEF XhInv
  <2>2. Len(xhLog.taken) \in Nat /\ xhHost'.slots = xhHost.slots
    BY <1>1, <1>2 DEF XhLogs
  <2>3. xhLog.changes = 0 /\ xhDriver.timeouts = 0 => ~xhLog'.lapped
    <3>1. xhLog.changes = 0 /\ xhDriver.timeouts = 0 => ~xhLog.lapped /\ ~X!Laps(xhLog)
      BY <1>1, <2>1, <2>2, NoLap DEF Polling
    <3> QED
      BY <1>3, <3>1
  <2> QED
    BY <1>1, <1>3, <1>4, <1>6, <2>1, <2>2, <2>3 DEF InStep, Polling, e
<1> QED
  BY <1>8, <1>9 DEF XhInv

LEMMA XhAddressDevice == ASSUME XhInv, XhciSizes, X!AddressDevice PROVE XhInv'
<1> DEFINE e == <<"address", xhDriver.slot>>
<1>1. /\ xhDriver.step = "enabled" /\ xhDriver' = [xhDriver EXCEPT !.step = "address"]
      /\ X!Submit("address", xhDriver.slot)
      /\ UNCHANGED <<xhEvRing, xhEvIndex, xhEvCycle, xhHost>>
  BY DEF X!AddressDevice
<1>2. xhLog \in XhLogs /\ xhDriver \in [port : Nat, step : XhSteps, slot : Nat, timeouts : Nat]
  BY DEF XhInv, XhTypes
<1>3. /\ xhLog'.submitted = Append(xhLog.submitted, e) /\ xhLog'.changes = xhLog.changes
      /\ xhLog'.done = xhLog.done /\ xhLog'.posted = xhLog.posted /\ xhLog'.taken = xhLog.taken
      /\ xhLog'.lapped = (xhLog.lapped \/ X!Laps(xhLog))
  BY <1>1, <1>2 DEF X!Submit, XhLogs
<1>4. /\ xhDriver' \in [port : Nat, step : XhSteps, slot : Nat, timeouts : Nat]
      /\ xhDriver'.step = "address" /\ xhDriver'.port = xhDriver.port
      /\ xhDriver'.timeouts = xhDriver.timeouts
  BY <1>1, <1>2 DEF XhSteps
<1>5. e \in Commands /\ e \notin Enable /\ e \in Address /\ e[1] = "address"
  BY <1>2 DEF Commands, Enable, Address
<1> HIDE DEF e
<1>6. /\ Count(xhLog'.submitted, Enable) = Count(xhLog.submitted, Enable)
      /\ Count(xhLog'.submitted, Address) = Count(xhLog.submitted, Address) + 1
      /\ Count(xhLog.submitted, Enable) \in Nat /\ Count(xhLog.submitted, Address) \in Nat
      /\ Len(xhLog'.submitted) = Len(xhLog.submitted) + 1 /\ Len(xhLog.submitted) \in Nat
      /\ xhLog'.submitted[Len(xhLog.submitted) + 1] = e
  <2>1. xhLog.submitted \in Seq(Commands)
    BY <1>2 DEF XhLogs
  <2>2. Count(xhLog.submitted, Enable) \in Nat /\ Count(xhLog.submitted, Address) \in Nat
    BY <2>1, CountIs
  <2>3. \A K : Count(xhLog'.submitted, K) = Count(xhLog.submitted, K) + (IF e \in K THEN 1 ELSE 0)
    BY <1>3, <1>5, <2>1, CountAppend
  <2>4. /\ Len(xhLog'.submitted) = Len(xhLog.submitted) + 1 /\ Len(xhLog.submitted) \in Nat
        /\ xhLog'.submitted[Len(xhLog.submitted) + 1] = e
    BY <1>3, <1>5, <2>1, AppendIs
  <2> QED
    BY <1>5, <2>2, <2>3, <2>4
<1>8. /\ XhTypes' /\ InOrder' /\ CmdHeld' /\ Begins(xhLog.taken, xhLog.posted)'
      /\ EvPlaces' /\ EvCycles' /\ EvHeld'
  BY <1>1, <1>4, <1>5, XhSubmit DEF e
<1>9. InStep(xhLog', xhDriver', xhHost'.slots)
  <2>1. InStep(xhLog, xhDriver, xhHost.slots)
    BY DEF XhInv
  <2>2. Len(xhLog.taken) \in Nat /\ xhHost'.slots = xhHost.slots
    BY <1>1, <1>2 DEF XhLogs
  <2>3. xhLog.changes = 0 /\ xhDriver.timeouts = 0 => ~xhLog'.lapped
    <3>1. xhLog.changes = 0 /\ xhDriver.timeouts = 0 => ~xhLog.lapped /\ ~X!Laps(xhLog)
      BY <1>1, <2>1, <2>2, NoLap DEF Polling
    <3> QED
      BY <1>3, <3>1
  <2> QED
    BY <1>1, <1>3, <1>4, <1>5, <1>6, <2>1, <2>2, <2>3 DEF InStep, Polling
<1> QED
  BY <1>8, <1>9 DEF XhInv

(* The controller's next command is the earliest not carried out. *)
LEMMA XhNextCommand ==
  ASSUME XhInv, XhciSizes, ~xhLog.lapped, xhHost.cmd # CmdEntries,
         xhCmdRing[xhHost.cmd].cycle = xhHost.cmdCycle
  PROVE  /\ Len(xhLog.done) < Len(xhLog.submitted)
         /\ Pair(xhCmdRing[xhHost.cmd]) = xhLog.submitted[Len(xhLog.done) + 1]
<1> DEFINE h == xhHost.cmd
           s == Len(xhLog.submitted)
           d == Len(xhLog.done)
           k == s - xhCmdIndex + h + 1
<1>1. /\ h \in Nat /\ h < CmdEntries /\ h \in 0 .. CmdEntries - 1
      /\ xhCmdIndex \in Nat /\ xhCmdIndex < CmdEntries
      /\ CmdEntries \in Nat /\ s \in Nat /\ d \in Nat
      /\ xhCmdCycle \in {0, 1} /\ xhHost.cmdCycle \in {0, 1}
  BY DEF XhInv, XhTypes, XhciSizes, XhLogs, XhHosts
<1>2. /\ xhCmdIndex <= s
      /\ IF h < xhCmdIndex
         THEN xhCmdRing[h].cycle = xhCmdCycle /\ Pair(xhCmdRing[h]) = xhLog.submitted[k]
         ELSE /\ xhCmdRing[h].cycle = 1 - xhCmdCycle
              /\ k > CmdEntries => Pair(xhCmdRing[h]) = xhLog.submitted[k - CmdEntries]
  BY <1>1 DEF XhInv, CmdHeld
<1>3. LET there == h + (s - d) IN
      \/ there = xhCmdIndex /\ xhHost.cmdCycle = xhCmdCycle
      \/ there = xhCmdIndex + CmdEntries /\ xhHost.cmdCycle # xhCmdCycle
      \/ there = xhCmdIndex + 2 * CmdEntries /\ xhHost.cmdCycle = xhCmdCycle
      \/ there = xhCmdIndex + 3 * CmdEntries /\ xhHost.cmdCycle # xhCmdCycle
  BY DEF XhInv, InOrder, CmdPlaces, Backlog
<1>4. s - d \in 0 .. 2 * CmdEntries
  BY BacklogIs DEF XhInv, InOrder, XhTypes, Backlog
<1>5. xhCmdRing[h].cycle = xhHost.cmdCycle
  OBVIOUS
<1>6. k = s - xhCmdIndex + h + 1
  OBVIOUS
<1> HIDE DEF h, s, d, k
<1>7. CASE h < xhCmdIndex
  <2>1. h + (s - d) = xhCmdIndex
    BY <1>1, <1>2, <1>3, <1>4, <1>5, <1>7
  <2>2. k = d + 1 /\ d < s
    BY <1>1, <1>6, <1>7, <2>1
  <2> QED
    BY <1>2, <1>7, <2>2 DEF h, s, d
<1>8. CASE ~(h < xhCmdIndex)
  <2>1. h + (s - d) = xhCmdIndex + CmdEntries
    BY <1>1, <1>2, <1>3, <1>4, <1>5, <1>8
  <2>2. k - CmdEntries = d + 1 /\ d < s /\ k > CmdEntries
    BY <1>1, <1>6, <1>8, <2>1
  <2> QED
    BY <1>2, <1>8, <2>2 DEF h, s, d
<1> QED
  BY <1>7, <1>8

(* The index of the link goes on to the ring's begin, in the next round. *)
LEMMA XhFollowLink == ASSUME XhInv, XhciSizes, X!FollowLink PROVE XhInv'
<1>1. /\ xhHost.cmd = CmdEntries /\ xhCmdRing[CmdEntries].cycle = xhHost.cmdCycle
      /\ xhHost' = [xhHost EXCEPT !.cmd = 0, !.cmdCycle = 1 - @]
      /\ UNCHANGED <<xhDriver, xhCmdRing, xhCmdIndex, xhCmdCycle, xhEvRing, xhEvIndex,
                     xhEvCycle, xhLog>>
  BY DEF X!FollowLink, X!Link
<1>2. /\ xhHost.cmdCycle \in {0, 1} /\ CmdEntries \in Nat /\ CmdEntries > 0 /\ xhCmdIndex \in Nat
      /\ xhCmdCycle \in {0, 1} /\ xhCmdIndex < CmdEntries
      /\ xhHost \in XhHosts
  BY DEF XhInv, XhTypes, XhciSizes, XhHosts
<1>3. /\ xhHost'.cmd = 0 /\ xhHost'.cmdCycle = 1 - xhHost.cmdCycle
      /\ xhHost'.ev = xhHost.ev /\ xhHost'.evCycle = xhHost.evCycle
      /\ xhHost'.changed = xhHost.changed /\ xhHost'.slots = xhHost.slots
  BY <1>1, <1>2 DEF XhHosts
<1>4. XhTypes'
  <2>1. xhHost' \in XhHosts
    <3>1. 1 - xhHost.cmdCycle \in {0, 1} /\ 0 \in 0 .. CmdEntries
      BY <1>2
    <3> QED
      BY <1>1, <1>2, <3>1 DEF XhHosts
  <2> QED
    BY <1>1, <2>1 DEF XhInv, XhTypes
<1>5. InOrder'
  <2> SUFFICES ASSUME ~xhLog.lapped PROVE CmdPlaces'
    BY <1>1 DEF InOrder, XhInv
  <2> DEFINE b == Backlog(xhLog)
  <2>1. b \in 0 .. 2 * CmdEntries
    BY BacklogIs DEF XhInv, InOrder, XhTypes
  <2>2. xhCmdRing[CmdEntries].cycle = 1 - xhCmdCycle
    BY DEF XhInv, CmdHeld
  <2>3. LET there == CmdEntries + b IN
        \/ there = xhCmdIndex /\ xhHost.cmdCycle = xhCmdCycle
        \/ there = xhCmdIndex + CmdEntries /\ xhHost.cmdCycle # xhCmdCycle
        \/ there = xhCmdIndex + 2 * CmdEntries /\ xhHost.cmdCycle = xhCmdCycle
        \/ there = xhCmdIndex + 3 * CmdEntries /\ xhHost.cmdCycle # xhCmdCycle
    BY <1>1 DEF XhInv, InOrder, CmdPlaces
  <2> HIDE DEF b
  <2>4. xhHost.cmdCycle # xhCmdCycle /\ 1 - xhHost.cmdCycle = xhCmdCycle
    BY <1>1, <1>2, <2>2
  <2>5. \/ 0 + b = xhCmdIndex
        \/ 0 + b = xhCmdIndex + 2 * CmdEntries
    BY <1>2, <2>1, <2>3, <2>4
  <2> QED
    BY <1>1, <1>3, <2>4, <2>5 DEF CmdPlaces, b
<1>6. Fill(EvEntries, xhHost.ev, xhEvIndex)' = Fill(EvEntries, xhHost.ev, xhEvIndex)
  BY <1>1, <1>3 DEF Fill
<1>7. EvPlaces' /\ EvCycles' /\ EvHeld'
  BY <1>1, <1>3, <1>6 DEF XhInv, EvPlaces, EvCycles, EvHeld, Nth
<1>8. Begins(xhLog.taken, xhLog.posted)' /\ CmdHeld'
  BY <1>1 DEF XhInv, CmdHeld
<1>9. InStep(xhLog', xhDriver', xhHost'.slots)
  BY <1>1, <1>3 DEF XhInv
<1> QED
  BY <1>4, <1>5, <1>7, <1>8, <1>9 DEF XhInv

(* Steps of the driver that use no ring: the port or the step changes.     *)
LEMMA XhDriverOnly ==
  ASSUME XhInv,
         xhDriver' \in [port : Nat, step : XhSteps, slot : Nat, timeouts : Nat],
         InStep(xhLog', xhDriver', xhHost'.slots),
         xhHost' \in XhHosts,
         xhHost'.cmd = xhHost.cmd, xhHost'.cmdCycle = xhHost.cmdCycle,
         xhHost'.ev = xhHost.ev, xhHost'.evCycle = xhHost.evCycle,
         UNCHANGED <<xhCmdRing, xhCmdIndex, xhCmdCycle, xhEvRing, xhEvIndex, xhEvCycle, xhLog>>
  PROVE  XhInv'
<1>1. Fill(EvEntries, xhHost.ev, xhEvIndex)' = Fill(EvEntries, xhHost.ev, xhEvIndex)
  BY DEF Fill
<1>2. XhTypes'
  BY DEF XhInv, XhTypes
<1>3. Begins(xhLog.taken, xhLog.posted)' /\ InOrder' /\ CmdHeld'
  BY DEF XhInv, InOrder, CmdPlaces, CmdHeld
<1>4. EvPlaces' /\ EvCycles' /\ EvHeld'
  BY <1>1 DEF XhInv, EvPlaces, EvCycles, EvHeld, Nth
<1> QED
  BY <1>2, <1>3, <1>4 DEF XhInv

(* xhci_check_ports goes on, at once or after a poll without an event. *)
LEMMA XhNextPort == ASSUME XhInv, XhciSizes, X!NextPort PROVE XhInv'
<1>1. /\ xhDriver.step = "port" /\ xhDriver.port <= MaxPorts
      /\ UNCHANGED <<xhCmdRing, xhCmdIndex, xhCmdCycle, xhEvRing, xhEvIndex, xhEvCycle, xhLog>>
      /\ \/ /\ xhDriver.port \in Connected
            /\ xhDriver' = [xhDriver EXCEPT !.step = "reset"]
            /\ xhHost' = [xhHost EXCEPT !.port = "reset"]
         \/ xhDriver' = [xhDriver EXCEPT !.port = @ + 1] /\ xhHost' = xhHost
  BY DEF X!NextPort
<1>2. /\ xhDriver \in [port : Nat, step : XhSteps, slot : Nat, timeouts : Nat]
      /\ xhHost \in XhHosts
      /\ xhLog \in XhLogs /\ MaxPorts \in Nat
  BY DEF XhInv, XhTypes, XhciSizes
<1>3. /\ xhHost' \in XhHosts
      /\ xhHost'.cmd = xhHost.cmd /\ xhHost'.cmdCycle = xhHost.cmdCycle
      /\ xhHost'.ev = xhHost.ev /\ xhHost'.evCycle = xhHost.evCycle
      /\ xhHost'.slots = xhHost.slots
  BY <1>1, <1>2 DEF XhHosts
<1>4. /\ xhDriver' \in [port : Nat, step : XhSteps, slot : Nat, timeouts : Nat]
      /\ xhDriver'.timeouts = xhDriver.timeouts
      /\ \/ xhDriver'.step = "reset" /\ xhDriver'.port = xhDriver.port
         \/ xhDriver'.step = "port" /\ xhDriver'.port = xhDriver.port + 1
  BY <1>1, <1>2 DEF XhSteps
<1>6. InStep(xhLog', xhDriver', xhHost'.slots)
  <2>1. InStep(xhLog, xhDriver, xhHost.slots) /\ xhLog' = xhLog
    BY <1>1 DEF XhInv
  <2> QED
    BY <1>1, <1>3, <1>4, <2>1 DEF InStep, Polling
<1> QED
  BY <1>1, <1>3, <1>4, <1>6, XhDriverOnly

(* The controller has reset the port. *)
LEMMA XhResetOver == ASSUME XhInv, XhciSizes, X!ResetOver PROVE XhInv'
<1>1. /\ UNCHANGED <<xhDriver, xhCmdRing, xhCmdIndex, xhCmdCycle, xhEvRing, xhEvIndex,
                     xhEvCycle, xhLog>>
      /\ \E state \in {"enabled", "idle"} :
           xhHost' = [xhHost EXCEPT !.port = state, !.changed = @ \cup {xhDriver.port}]
  BY DEF X!ResetOver
<1>2. xhDriver \in [port : Nat, step : XhSteps, slot : Nat, timeouts : Nat] /\ xhHost \in XhHosts
  BY DEF XhInv, XhTypes
<1>3. /\ xhHost' \in XhHosts
      /\ xhHost'.cmd = xhHost.cmd /\ xhHost'.cmdCycle = xhHost.cmdCycle
      /\ xhHost'.ev = xhHost.ev /\ xhHost'.evCycle = xhHost.evCycle
      /\ xhHost'.slots = xhHost.slots
  <2> DEFINE changed == xhHost.changed \cup {xhDriver.port}
  <2>1. PICK state \in {"enabled", "idle"} :
          xhHost' = [xhHost EXCEPT !.port = state, !.changed = changed]
    BY <1>1
  <2>2. changed \in SUBSET Nat
    BY <1>2 DEF XhHosts
  <2> HIDE DEF changed
  <2> QED
    BY <1>2, <2>1, <2>2 DEF XhHosts
<1>4. InStep(xhLog', xhDriver', xhHost'.slots)
  BY <1>1, <1>3 DEF XhInv
<1> QED
  BY <1>1, <1>2, <1>3, <1>4, XhDriverOnly

LEMMA GoIs ==
  ASSUME XhTypes, NEW slot \in Nat
  PROVE  /\ X!Go(slot) \in [port : Nat, step : XhSteps, slot : Nat, timeouts : Nat]
         /\ X!Go(slot).timeouts = xhDriver.timeouts
         /\ \/ /\ X!Go(slot).step = "port" /\ X!Go(slot).port = xhDriver.port + 1
            \/ /\ xhDriver.step = "enable" /\ slot > 0 /\ X!Go(slot).step = "enabled"
               /\ X!Go(slot).port = xhDriver.port /\ X!Go(slot).slot = slot
<1>1. xhDriver \in [port : Nat, step : XhSteps, slot : Nat, timeouts : Nat]
  BY DEF XhTypes
<1>2. CASE xhDriver.step = "enable" /\ slot > 0
  <2>1. X!Go(slot) = [xhDriver EXCEPT !.step = "enabled", !.slot = slot]
    BY <1>2 DEF X!Go
  <2> QED
    BY <1>1, <1>2, <2>1 DEF XhSteps
<1>3. CASE ~(xhDriver.step = "enable" /\ slot > 0)
  <2> DEFINE next == xhDriver.port + 1
  <2>1. X!Go(slot) = [xhDriver EXCEPT !.step = "port", !.port = next, !.slot = 0]
    BY <1>3 DEF X!Go
  <2>2. next \in Nat
    BY <1>1
  <2> HIDE DEF next
  <2>3. /\ X!Go(slot).timeouts = xhDriver.timeouts
        /\ X!Go(slot).step = "port" /\ X!Go(slot).port = next
    BY <1>1, <2>1
  <2>4. X!Go(slot) \in [port : Nat, step : XhSteps, slot : Nat, timeouts : Nat]
    <3>1. "port" \in XhSteps /\ 0 \in Nat
      BY DEF XhSteps
    <3> QED
      BY <1>1, <2>1, <2>2, <3>1
  <2> QED
    BY <2>3, <2>4 DEF next
<1> QED
  BY <1>2, <1>3

LEMMA XhPollTimeout == ASSUME XhInv, XhciSizes, X!PollTimeout PROVE XhInv'
<1>1. /\ xhDriver.step \in Polling
      /\ UNCHANGED <<xhCmdRing, xhCmdIndex, xhCmdCycle, xhEvRing, xhEvIndex, xhEvCycle, xhHost, xhLog>>
      /\ xhDriver' = [X!Go(0) EXCEPT !.timeouts = @ + 1]
  BY DEF X!PollTimeout, X!Polls, Polling
<1>2. /\ xhDriver \in [port : Nat, step : XhSteps, slot : Nat, timeouts : Nat]
      /\ xhLog \in XhLogs /\ MaxPorts \in Nat
  BY DEF XhInv, XhTypes, XhciSizes
<1>3. /\ xhDriver' \in [port : Nat, step : XhSteps, slot : Nat, timeouts : Nat]
      /\ xhDriver'.timeouts = xhDriver.timeouts + 1
      /\ xhDriver'.step = "port" /\ xhDriver'.port = xhDriver.port + 1
  <2> DEFINE g == X!Go(0)
  <2>1. /\ g \in [port : Nat, step : XhSteps, slot : Nat, timeouts : Nat]
        /\ g.step = "port" /\ g.port = xhDriver.port + 1 /\ g.timeouts = xhDriver.timeouts
    BY GoIs DEF XhInv
  <2>2. xhDriver' = [g EXCEPT !.timeouts = @ + 1]
    BY <1>1
  <2> HIDE DEF g
  <2> QED
    BY <2>1, <2>2
<1>5. InStep(xhLog', xhDriver', xhHost'.slots)
  BY <1>2, <1>3 DEF InStep
<1> QED
  BY <1>1, <1>3, <1>5, XhDriverOnly DEF XhInv, XhTypes

(* A cycle that is the expected one belongs to an event not taken, and the *)
(* driver takes the earliest.                                              *)
LEMMA XhNextEvent ==
  ASSUME XhInv, XhciSizes, X!Arrived
  PROVE  /\ xhEvIndex # xhHost.ev /\ Len(xhLog.taken) < Len(xhLog.posted)
         /\ Pair(xhEvRing[xhEvIndex]) = xhLog.posted[Len(xhLog.taken) + 1]
<1>1. /\ EvEntries \in Nat \ {0, 1} /\ xhEvIndex \in RingSlots(EvEntries)
      /\ xhHost.ev \in RingSlots(EvEntries) /\ xhHost.evCycle \in {0, 1}
      /\ xhEvIndex \in Nat /\ xhHost.ev \in Nat
  BY DEF XhInv, XhTypes, XhciSizes, XhHosts, RingSlots
<1>2. xhEvIndex # xhHost.ev
  <2>1. xhEvRing[xhEvIndex].cycle = IF xhEvIndex < xhHost.ev THEN xhHost.evCycle ELSE 1 - xhHost.evCycle
    BY <1>1 DEF XhInv, EvCycles
  <2>2. xhEvCycle = IF xhEvIndex <= xhHost.ev THEN xhHost.evCycle ELSE 1 - xhHost.evCycle
    BY DEF XhInv, EvPlaces
  <2>3. xhEvRing[xhEvIndex].cycle = xhEvCycle
    BY DEF X!Arrived
  <2> QED
    BY <1>1, <2>1, <2>2, <2>3
<1>3. Fill(EvEntries, xhHost.ev, xhEvIndex) \in Nat /\ Fill(EvEntries, xhHost.ev, xhEvIndex) > 0
  BY <1>1, <1>2, FillIs
<1>4. 1 \in 1 .. Fill(EvEntries, xhHost.ev, xhEvIndex)
  BY <1>3
<1>5. Nth(EvEntries, xhEvIndex, 1) = xhEvIndex
  BY <1>1, <1>4, NthIs
<1>6. Len(xhLog.taken) \in Nat /\ Len(xhLog.posted) \in Nat
  BY DEF XhInv, XhTypes, XhLogs
<1> QED
  BY <1>2, <1>3, <1>4, <1>5, <1>6 DEF XhInv, EvPlaces, EvHeld

LEMMA XhPollEvent == ASSUME XhInv, XhciSizes, X!PollEvent PROVE XhInv'
<1> DEFINE n == Len(xhLog.taken)
           e == Pair(xhEvRing[xhEvIndex])
           slot == xhEvRing[xhEvIndex].slot
<1>1. /\ X!Arrived /\ xhDriver.step \in Polling
      /\ xhEvIndex' = IF xhEvIndex + 1 >= EvEntries THEN 0 ELSE xhEvIndex + 1
      /\ xhEvCycle' = IF xhEvIndex + 1 >= EvEntries THEN 1 - xhEvCycle ELSE xhEvCycle
      /\ xhDriver' = X!Go(slot)
      /\ xhLog' = [xhLog EXCEPT !.taken = Append(xhLog.taken, e)]
      /\ UNCHANGED <<xhCmdRing, xhCmdIndex, xhCmdCycle, xhEvRing, xhHost>>
  BY DEF X!PollEvent, X!Polls, Polling, Pair
<1>2. /\ xhLog \in XhLogs /\ xhDriver \in [port : Nat, step : XhSteps, slot : Nat, timeouts : Nat]
      /\ MaxPorts \in Nat /\ EvEntries \in Nat \ {0, 1} /\ xhEvIndex \in RingSlots(EvEntries)
      /\ xhHost.ev \in RingSlots(EvEntries) /\ xhHost.evCycle \in {0, 1}
      /\ xhEvRing[xhEvIndex] \in Trb /\ xhEvCycle \in {0, 1}
  BY DEF XhInv, XhTypes, XhciSizes, XhHosts
<1>3. /\ xhEvIndex # xhHost.ev /\ n < Len(xhLog.posted) /\ e = xhLog.posted[n + 1]
  BY <1>1, XhNextEvent
<1>4. /\ e \in Events /\ Begins(Append(xhLog.taken, e), xhLog.posted)
  BY <1>2, <1>3, BeginsNext DEF XhLogs, XhInv
<1>5. slot \in Nat /\ e[2] = slot
  BY <1>2 DEF Trb, Pair
<1>6. /\ xhLog'.submitted = xhLog.submitted /\ xhLog'.done = xhLog.done
      /\ xhLog'.posted = xhLog.posted /\ xhLog'.taken = Append(xhLog.taken, e)
      /\ xhLog'.changes = xhLog.changes /\ xhLog' \in XhLogs /\ xhLog'.lapped = xhLog.lapped
  <2>1. Append(xhLog.taken, e) \in Seq(Events)
    BY <1>2, <1>4, AppendIs DEF XhLogs
  <2> QED
    BY <1>1, <1>2, <2>1 DEF XhLogs
<1> HIDE DEF e, slot
<1>7. /\ xhDriver' \in [port : Nat, step : XhSteps, slot : Nat, timeouts : Nat]
      /\ xhDriver'.timeouts = xhDriver.timeouts
      /\ \/ /\ xhDriver'.step = "port" /\ xhDriver'.port = xhDriver.port + 1
         \/ /\ xhDriver.step = "enable" /\ slot > 0 /\ xhDriver'.step = "enabled"
            /\ xhDriver'.port = xhDriver.port /\ xhDriver'.slot = slot
  BY <1>1, <1>5, GoIs DEF XhInv
<1>8. Len(xhLog'.taken) = n + 1 /\ n \in Nat
  <2>1. xhLog.taken \in Seq(Events)
    BY <1>2 DEF XhLogs
  <2> QED
    BY <1>4, <1>6, <2>1, AppendIs
<1>9. xhEvIndex' \in RingSlots(EvEntries) /\ xhEvIndex' = Onward(EvEntries, xhEvIndex)
  <2>1. /\ Onward(EvEntries, xhEvIndex) = IF xhEvIndex = EvEntries - 1 THEN 0 ELSE xhEvIndex + 1
        /\ Onward(EvEntries, xhEvIndex) \in RingSlots(EvEntries)
    BY <1>2, OnwardIs
  <2>2. (xhEvIndex + 1 >= EvEntries) <=> (xhEvIndex = EvEntries - 1)
    BY <1>2 DEF RingSlots
  <2> QED
    BY <1>1, <2>1, <2>2
<1>10. XhTypes'
  <2>1. xhEvCycle' \in {0, 1}
    BY <1>1, <1>2
  <2> QED
    BY <1>1, <1>6, <1>7, <1>9, <2>1 DEF XhInv, XhTypes
<1>11. Begins(xhLog.taken, xhLog.posted)'
  BY <1>4, <1>6
<1>13. InOrder' /\ CmdHeld'
  BY <1>1, <1>6 DEF XhInv, InOrder, CmdPlaces, CmdHeld, Backlog
<1>14. /\ Fill(EvEntries, xhHost.ev, xhEvIndex') = Fill(EvEntries, xhHost.ev, xhEvIndex) - 1
       /\ Fill(EvEntries, xhHost.ev, xhEvIndex) > 0
       /\ \A i \in 1 .. Fill(EvEntries, xhHost.ev, xhEvIndex) - 1 :
            Nth(EvEntries, xhEvIndex', i) = Nth(EvEntries, xhEvIndex, i + 1)
       /\ Fill(EvEntries, xhHost.ev, xhEvIndex) \in Nat
  <2>1. /\ EvEntries \in Nat \ {0, 1} /\ xhHost.ev \in RingSlots(EvEntries)
        /\ xhEvIndex \in RingSlots(EvEntries) /\ xhEvIndex' \in RingSlots(EvEntries)
        /\ xhEvIndex' = Onward(EvEntries, xhEvIndex) /\ xhHost.ev # xhEvIndex
    BY <1>2, <1>3, <1>9
  <2>2. Fill(EvEntries, xhHost.ev, xhEvIndex) \in 0 .. EvEntries - 1
    BY <2>1, FillIs
  <2>3. /\ Fill(EvEntries, xhHost.ev, xhEvIndex') = Fill(EvEntries, xhHost.ev, xhEvIndex) - 1
        /\ Fill(EvEntries, xhHost.ev, xhEvIndex) > 0
        /\ \A i \in 1 .. Fill(EvEntries, xhHost.ev, xhEvIndex) - 1 :
             Nth(EvEntries, xhEvIndex', i) = Nth(EvEntries, xhEvIndex, i + 1)
    BY <2>1, FillTail
  <2>4. Fill(EvEntries, xhHost.ev, xhEvIndex) \in Nat
    BY <2>2
  <2> QED
    BY <2>3, <2>4
<1>15. EvPlaces'
  <2>1. Len(xhLog'.posted) = Len(xhLog'.taken) + Fill(EvEntries, xhHost.ev, xhEvIndex')
    BY <1>6, <1>8, <1>14 DEF XhInv, EvPlaces
  <2>2. xhEvCycle' = IF xhEvIndex' <= xhHost.ev THEN xhHost.evCycle ELSE 1 - xhHost.evCycle
    <3>1. xhEvCycle = IF xhEvIndex <= xhHost.ev THEN xhHost.evCycle ELSE 1 - xhHost.evCycle
      BY DEF XhInv, EvPlaces
    <3>2. /\ xhEvIndex \in Nat /\ xhHost.ev \in Nat /\ xhHost.ev < EvEntries
          /\ xhEvIndex < EvEntries /\ EvEntries \in Nat
      BY <1>2 DEF RingSlots
    <3>3. CASE xhEvIndex + 1 >= EvEntries
      <4>1. xhEvIndex' = 0 /\ xhEvCycle' = 1 - xhEvCycle
        BY <1>1, <3>3
      <4>2. 0 <= xhHost.ev /\ ~(xhEvIndex <= xhHost.ev)
        BY <1>3, <3>2, <3>3
      <4> QED
        BY <1>2, <3>1, <4>1, <4>2
    <3>4. CASE ~(xhEvIndex + 1 >= EvEntries)
      <4>1. xhEvIndex' = xhEvIndex + 1 /\ xhEvCycle' = xhEvCycle
        BY <1>1, <3>4
      <4>2. xhEvIndex + 1 <= xhHost.ev <=> xhEvIndex <= xhHost.ev
        BY <1>3, <3>2
      <4> QED
        BY <3>1, <4>1, <4>2
    <3> QED
      BY <3>3, <3>4
  <2> QED
    BY <1>1, <2>1, <2>2 DEF EvPlaces
<1>16. EvCycles'
  BY <1>1 DEF XhInv, EvCycles
<1>17. EvHeld'
  <2>1. ASSUME NEW k \in 1 .. Fill(EvEntries, xhHost.ev, xhEvIndex')
        PROVE  Pair(xhEvRing[Nth(EvEntries, xhEvIndex', k)]) = xhLog.posted[n + 1 + k]
    <3>1. k + 1 \in 1 .. Fill(EvEntries, xhHost.ev, xhEvIndex) /\ n + (k + 1) = n + 1 + k
          /\ k \in 1 .. Fill(EvEntries, xhHost.ev, xhEvIndex) - 1
      <4> DEFINE f == Fill(EvEntries, xhHost.ev, xhEvIndex)
      <4>1. f \in Nat /\ k \in 1 .. f - 1 /\ n \in Nat
        BY <1>8, <1>14
      <4> HIDE DEF f, n
      <4>2. k + 1 \in 1 .. f /\ n + (k + 1) = n + 1 + k
        BY <4>1
      <4> QED
        BY <4>1, <4>2 DEF f
    <3>2. Pair(xhEvRing[Nth(EvEntries, xhEvIndex, k + 1)]) = xhLog.posted[n + (k + 1)]
      BY <3>1 DEF XhInv, EvHeld
    <3> QED
      BY <1>14, <3>1, <3>2
  <2> QED
    BY <1>1, <1>6, <1>8, <2>1 DEF EvHeld
<1>18. InStep(xhLog', xhDriver', xhHost'.slots)
  <2> SUFFICES ASSUME xhLog.changes = 0, xhDriver.timeouts = 0
               PROVE  InStep(xhLog', xhDriver', xhHost'.slots)
    BY <1>6, <1>7 DEF InStep
  <2> DEFINE enables == Count(xhLog.submitted, Enable)
  <2>1. /\ Len(xhLog.posted) = Len(xhLog.done)
        /\ Len(xhLog.submitted) = n + 1 /\ Len(xhLog.done) \in {n, n + 1}
        /\ xhDriver.step = "enable" =>
             IF Len(xhLog.done) = n THEN xhHost.slots + 1 = enables
             ELSE xhHost.slots = enables /\ xhLog.posted[n + 1][2] = enables
        /\ xhDriver.step = "address" => xhHost.slots = enables
    BY <1>1 DEF XhInv, InStep
  <2>0. ~xhLog.lapped
    BY DEF XhInv, InStep
  <2>2. Len(xhLog.done) = n + 1 /\ xhHost'.slots = xhHost.slots
    BY <1>1, <1>3, <1>8, <2>1
  <2>3. /\ xhHost.slots = enables /\ (xhDriver.step = "enable" => slot = enables)
    BY <1>1, <1>3, <1>5, <1>8, <2>1, <2>2 DEF Polling
  <2> HIDE DEF n
  <2>4. xhDriver'.step \in {"port", "enabled"} /\ xhDriver'.step \notin Polling
        /\ (xhDriver'.step = "enabled" => xhDriver'.slot = enables)
    BY <1>7, <2>3 DEF Polling
  <2>5. xhDriver'.step # "enable" /\ xhDriver'.step # "address"
    BY <2>4
  <2> QED
    BY <1>6, <1>8, <2>0, <2>1, <2>2, <2>3, <2>4, <2>5 DEF InStep
<1> QED
  BY <1>10, <1>11, <1>13, <1>15, <1>16, <1>17, <1>18 DEF XhInv

(* An event goes where the driver will look for it. *)
LEMMA XhPosted ==
  ASSUME XhInv, XhciSizes, NEW e \in Events, NEW host, X!Posted(host, e[1], e[2]),
         host \in XhHosts,
         host.ev = xhHost.ev, host.evCycle = xhHost.evCycle,
         xhLog'.posted = Append(xhLog.posted, e), xhLog'.taken = xhLog.taken,
         UNCHANGED <<xhEvIndex, xhEvCycle>>
  PROVE  /\ xhHost' \in XhHosts
         /\ xhHost'.cmd = host.cmd /\ xhHost'.cmdCycle = host.cmdCycle
         /\ xhHost'.slots = host.slots
         /\ xhEvRing' \in [RingSlots(EvEntries) -> Trb]
         /\ EvPlaces' /\ EvCycles' /\ EvHeld'
<1> DEFINE h == xhHost.ev
           trb == [type |-> e[1], slot |-> e[2], cycle |-> xhHost.evCycle]
           f == Fill(EvEntries, h, xhEvIndex)
           n == Len(xhLog.taken)
           g == Onward(EvEntries, h)
           c == IF h + 1 = EvEntries THEN 1 - xhHost.evCycle ELSE xhHost.evCycle
<1>1. /\ EvEntries \in Nat \ {0, 1} /\ xhEvIndex \in RingSlots(EvEntries)
      /\ h \in RingSlots(EvEntries) /\ xhHost.evCycle \in {0, 1}
      /\ xhEvRing \in [RingSlots(EvEntries) -> Trb] /\ xhLog \in XhLogs
  BY DEF XhInv, XhTypes, XhciSizes, XhHosts
<1>2. trb \in Trb /\ Pair(trb) = e /\ trb.cycle = xhHost.evCycle
  BY <1>1 DEF Trb, TrbTypes, Pair, Events
<1>3. /\ g # xhEvIndex /\ xhEvRing' = [xhEvRing EXCEPT ![h] = trb]
      /\ xhHost' = [host EXCEPT !.ev = g, !.evCycle = c]
  BY DEF X!Posted, Onward
<1>4. g \in RingSlots(EvEntries) /\ g = Onward(EvEntries, h) /\ g = (IF h = EvEntries - 1 THEN 0 ELSE h + 1)
  BY <1>1, OnwardIs
<1>5. c \in {0, 1}
  BY <1>1
<1> HIDE DEF trb, g, c
<1>6. /\ xhHost' \in XhHosts
      /\ xhHost'.cmd = host.cmd /\ xhHost'.cmdCycle = host.cmdCycle
      /\ xhHost'.slots = host.slots /\ xhHost'.ev = g /\ xhHost'.evCycle = c
  BY <1>3, <1>4, <1>5 DEF XhHosts
<1>7. xhEvRing' \in [RingSlots(EvEntries) -> Trb]
      /\ \A i \in RingSlots(EvEntries) : xhEvRing'[i] = IF i = h THEN trb ELSE xhEvRing[i]
  BY <1>1, <1>2, <1>3
<1>8. /\ Fill(EvEntries, g, xhEvIndex) = f + 1 /\ f \in Nat
      /\ Nth(EvEntries, xhEvIndex, f + 1) = h
  <2>1. f \in Nat
    BY <1>1, FillIs
  <2>2. /\ Fill(EvEntries, g, xhEvIndex) = Fill(EvEntries, h, xhEvIndex) + 1
        /\ Nth(EvEntries, xhEvIndex, Fill(EvEntries, h, xhEvIndex) + 1) = h
    <3>1. /\ EvEntries \in Nat \ {0, 1} /\ h \in RingSlots(EvEntries) /\ g \in RingSlots(EvEntries)
          /\ xhEvIndex \in RingSlots(EvEntries) /\ g = Onward(EvEntries, h) /\ g # xhEvIndex
      BY <1>1, <1>3, <1>4
    <3> HIDE DEF h
    <3> QED
      BY <3>1, FillHead
  <2> QED
    BY <2>1, <2>2
<1>9. /\ Len(xhLog'.posted) = Len(xhLog.posted) + 1 /\ n \in Nat
      /\ xhLog'.posted[Len(xhLog.posted) + 1] = e
      /\ \A i \in 1 .. Len(xhLog.posted) : xhLog'.posted[i] = xhLog.posted[i]
      /\ Len(xhLog.posted) = n + f
  BY <1>1, AppendIs DEF XhLogs, XhInv, EvPlaces
<1>10. /\ h \in Nat /\ h < EvEntries /\ EvEntries \in Nat /\ xhEvIndex \in Nat
       /\ xhEvIndex < EvEntries
  BY <1>1 DEF RingSlots
<1>11. EvPlaces'
  <2>1. xhEvCycle' = IF xhEvIndex' <= g THEN c ELSE 1 - c
    <3>1. xhEvCycle = IF xhEvIndex <= h THEN xhHost.evCycle ELSE 1 - xhHost.evCycle
      BY DEF XhInv, EvPlaces
    <3> HIDE DEF h
    <3>2. CASE h + 1 = EvEntries
      <4>1. c = 1 - xhHost.evCycle /\ g = 0
        BY <1>4, <1>10, <3>2 DEF c
      <4>2. xhEvIndex <= h /\ (xhEvIndex <= g <=> xhEvIndex = g)
        BY <1>10, <3>2, <4>1
      <4> QED
        BY <1>1, <1>3, <3>1, <4>1, <4>2
    <3>3. CASE h + 1 # EvEntries
      <4>1. c = xhHost.evCycle /\ g = h + 1
        BY <1>4, <1>10, <3>3 DEF c
      <4>2. xhEvIndex <= g <=> xhEvIndex <= h
        BY <1>3, <1>10, <4>1
      <4> QED
        BY <1>3, <3>1, <4>1, <4>2
    <3> QED
      BY <3>2, <3>3
  <2>2. Len(xhLog'.posted) = n + Fill(EvEntries, g, xhEvIndex)
    <3> HIDE DEF n, f, h
    <3>1. Len(xhLog'.posted) = (n + f) + 1 /\ n \in Nat /\ f \in Nat
      BY <1>8, <1>9
    <3>2. n + Fill(EvEntries, g, xhEvIndex) = n + (f + 1)
      BY <1>8
    <3> QED
      BY <3>1, <3>2
  <2> QED
    BY <1>6, <2>1, <2>2 DEF EvPlaces
<1>12. EvCycles'
  <2>1. ASSUME NEW i \in RingSlots(EvEntries)
        PROVE  xhEvRing'[i].cycle = IF i < g THEN c ELSE 1 - c
    <3>1. xhEvRing[i].cycle = IF i < h THEN xhHost.evCycle ELSE 1 - xhHost.evCycle
      BY DEF XhInv, EvCycles
    <3>2. i \in Nat /\ i < EvEntries
      BY <1>1 DEF RingSlots
    <3>3. xhEvRing'[i].cycle = IF i = h THEN xhHost.evCycle ELSE xhEvRing[i].cycle
      BY <1>2, <1>7
    <3>4. CASE h + 1 = EvEntries
      BY <1>1, <1>4, <1>10, <3>1, <3>2, <3>3, <3>4 DEF c
    <3>5. CASE h + 1 # EvEntries
      BY <1>1, <1>4, <1>10, <3>1, <3>2, <3>3, <3>5 DEF c
    <3> QED
      BY <3>4, <3>5
  <2> QED
    BY <1>6, <2>1 DEF EvCycles
<1>13. EvHeld'
  <2>1. ASSUME NEW k \in 1 .. f + 1
        PROVE  Pair(xhEvRing'[Nth(EvEntries, xhEvIndex, k)]) = xhLog'.posted[n + k]
    <3>1. CASE k = f + 1
      <4> HIDE DEF f, n
      <4>1. n + k = Len(xhLog.posted) + 1
        BY <1>8, <1>9, <3>1
      <4>2. Nth(EvEntries, xhEvIndex, k) = h
        BY <1>8, <3>1
      <4> QED
        BY <1>1, <1>2, <1>7, <1>9, <4>1, <4>2
    <3>2. CASE k # f + 1
      <4>1. k \in 1 .. f
        BY <1>8, <3>2
      <4>2. Nth(EvEntries, xhEvIndex, k) \in RingSlots(EvEntries) /\ Nth(EvEntries, xhEvIndex, k) # h
        BY <1>1, <4>1, NthIs
      <4>3. Pair(xhEvRing[Nth(EvEntries, xhEvIndex, k)]) = xhLog.posted[n + k]
        BY <4>1 DEF XhInv, EvHeld
      <4> HIDE DEF n, f
      <4>4. n + k \in 1 .. Len(xhLog.posted)
        BY <1>8, <1>9, <4>1
      <4> QED
        BY <1>7, <1>9, <4>2, <4>3, <4>4
    <3> QED
      BY <3>1, <3>2
  <2>2. Fill(EvEntries, xhHost.ev, xhEvIndex)' = f + 1
    BY <1>6, <1>8 DEF Fill
  <2> HIDE DEF f
  <2> QED
    BY <2>1, <2>2 DEF EvHeld, Nth
<1> QED
  BY <1>6, <1>7, <1>11, <1>12, <1>13

LEMMA XhPortChange == ASSUME XhInv, XhciSizes, X!PortChange PROVE XhInv'
<1> DEFINE e == <<"port", 0>>
<1>1. PICK p \in xhHost.changed :
        /\ X!Posted([xhHost EXCEPT !.changed = @ \ {p}], "port", 0)
        /\ xhLog' = [xhLog EXCEPT !.posted = Append(@, <<"port", 0>>), !.changes = @ + 1]
        /\ UNCHANGED <<xhDriver, xhCmdRing, xhCmdIndex, xhCmdCycle, xhEvIndex, xhEvCycle>>
  BY DEF X!PortChange
<1> DEFINE host == [xhHost EXCEPT !.changed = @ \ {p}]
<1>2. /\ xhLog \in XhLogs
      /\ xhHost \in XhHosts
  BY DEF XhInv, XhTypes
<1>3. /\ host \in XhHosts
      /\ host.ev = xhHost.ev /\ host.evCycle = xhHost.evCycle
      /\ host.cmd = xhHost.cmd /\ host.cmdCycle = xhHost.cmdCycle /\ host.slots = xhHost.slots
  BY <1>2 DEF XhHosts
<1>4. e \in Events /\ e[1] = "port" /\ e[2] = 0
  BY DEF Events
<1> HIDE DEF host, e
<1>5. X!Posted(host, e[1], e[2])
  BY <1>1, <1>4 DEF host
<1>6. /\ xhLog'.posted = Append(xhLog.posted, e) /\ xhLog'.taken = xhLog.taken
      /\ xhLog'.submitted = xhLog.submitted /\ xhLog'.done = xhLog.done
      /\ xhLog'.changes = xhLog.changes + 1 /\ xhLog' \in XhLogs
      /\ xhLog'.lapped = xhLog.lapped
  <2>1. Append(xhLog.posted, e) \in Seq(Events)
    BY <1>2, <1>4, AppendIs DEF XhLogs
  <2> DEFINE next == xhLog.changes + 1
  <2>2. xhLog' = [xhLog EXCEPT !.posted = Append(xhLog.posted, e), !.changes = next]
    BY <1>1 DEF e
  <2>3. next \in Nat
    BY <1>2 DEF XhLogs
  <2> HIDE DEF next
  <2>4. /\ xhLog'.posted = Append(xhLog.posted, e) /\ xhLog'.taken = xhLog.taken
        /\ xhLog'.submitted = xhLog.submitted /\ xhLog'.done = xhLog.done
        /\ xhLog'.changes = next /\ xhLog' \in XhLogs /\ xhLog'.lapped = xhLog.lapped
    BY <1>2, <2>1, <2>2, <2>3 DEF XhLogs
  <2> QED
    BY <2>4 DEF next
<1>7. /\ xhHost' \in XhHosts
      /\ xhHost'.cmd = xhHost.cmd /\ xhHost'.cmdCycle = xhHost.cmdCycle
      /\ xhHost'.slots = xhHost.slots
      /\ xhEvRing' \in [RingSlots(EvEntries) -> Trb]
      /\ EvPlaces' /\ EvCycles' /\ EvHeld'
  BY <1>1, <1>3, <1>4, <1>5, <1>6, XhPosted
<1>8. XhTypes'
  BY <1>1, <1>6, <1>7 DEF XhInv, XhTypes
<1>9. Begins(xhLog.taken, xhLog.posted)'
  BY <1>2, <1>4, <1>6, BeginsLonger DEF XhInv, XhLogs
<1>11. InOrder' /\ CmdHeld'
  BY <1>1, <1>6, <1>7 DEF XhInv, InOrder, CmdPlaces, CmdHeld, Backlog
<1>12. InStep(xhLog', xhDriver', xhHost'.slots)
  BY <1>2, <1>6 DEF InStep, XhLogs
<1> QED
  BY <1>7, <1>8, <1>9, <1>11, <1>12 DEF XhInv

LEMMA XhCarryOut == ASSUME XhInv, XhciSizes, X!CarryOut PROVE XhInv'
<1> DEFINE trb == xhCmdRing[xhHost.cmd]
           slot == IF trb.type = "enable" THEN xhHost.slots + 1 ELSE trb.slot
           host == [xhHost EXCEPT !.cmd = @ + 1, !.slots = IF trb.type = "enable" THEN slot ELSE @]
           e == <<"completion", slot>>
           c == Pair(trb)
           d == Len(xhLog.done)
<1>1. /\ xhHost.cmd # CmdEntries /\ trb.cycle = xhHost.cmdCycle
      /\ X!Posted(host, "completion", slot)
      /\ xhLog' = [xhLog EXCEPT !.done = Append(@, c), !.posted = Append(@, e)]
      /\ UNCHANGED <<xhDriver, xhCmdRing, xhCmdIndex, xhCmdCycle, xhEvIndex, xhEvCycle>>
  BY DEF X!CarryOut, X!Link, Pair
<1>2. /\ xhLog \in XhLogs /\ trb \in Trb /\ CmdEntries \in Nat
      /\ xhHost \in XhHosts
  <2>1. xhHost.cmd \in 0 .. CmdEntries
    BY DEF XhInv, XhTypes, XhHosts
  <2> QED
    BY <2>1 DEF XhInv, XhTypes, XhciSizes
<1>3. ~xhLog.lapped => d < Len(xhLog.submitted) /\ c = xhLog.submitted[d + 1]
  BY <1>1, XhNextCommand
<1>5. /\ c = <<trb.type, trb.slot>> /\ trb.slot \in Nat /\ slot \in Nat
      /\ c \in TrbTypes \X Nat
  BY <1>2 DEF Pair, Trb, XhHosts
<1>6. /\ host \in XhHosts
      /\ host.ev = xhHost.ev /\ host.evCycle = xhHost.evCycle
      /\ host.cmd = xhHost.cmd + 1 /\ host.cmdCycle = xhHost.cmdCycle
      /\ host.slots = IF trb.type = "enable" THEN slot ELSE xhHost.slots
  <2> DEFINE next == xhHost.cmd + 1
             slots == IF trb.type = "enable" THEN slot ELSE xhHost.slots
  <2>1. next \in 0 .. CmdEntries /\ slots \in Nat
    BY <1>1, <1>2, <1>5 DEF XhHosts
  <2>2. host = [xhHost EXCEPT !.cmd = next, !.slots = slots]
    OBVIOUS
  <2> HIDE DEF next, slots, host
  <2>3. /\ host \in XhHosts
        /\ host.ev = xhHost.ev /\ host.evCycle = xhHost.evCycle
        /\ host.cmd = next /\ host.cmdCycle = xhHost.cmdCycle /\ host.slots = slots
    BY <1>2, <2>1, <2>2 DEF XhHosts
  <2> QED
    BY <2>3 DEF next, slots
<1>7. e \in Events /\ e[1] = "completion" /\ e[2] = slot
  BY <1>5 DEF Events
<1> HIDE DEF host, e
<1>8. X!Posted(host, e[1], e[2])
  BY <1>1, <1>7
<1> HIDE DEF c, slot
<1>9. /\ xhLog'.posted = Append(xhLog.posted, e) /\ xhLog'.taken = xhLog.taken
      /\ xhLog'.submitted = xhLog.submitted /\ xhLog'.done = Append(xhLog.done, c)
      /\ xhLog'.changes = xhLog.changes /\ xhLog' \in XhLogs /\ xhLog'.lapped = xhLog.lapped
  <2>1. Append(xhLog.posted, e) \in Seq(Events) /\ Append(xhLog.done, c) \in Seq(TrbTypes \X Nat)
    BY <1>2, <1>5, <1>7, AppendIs DEF XhLogs
  <2> QED
    BY <1>1, <1>2, <2>1 DEF XhLogs
<1>10. /\ xhHost' \in XhHosts
       /\ xhHost'.cmd = host.cmd /\ xhHost'.cmdCycle = host.cmdCycle
       /\ xhHost'.slots = host.slots
       /\ xhEvRing' \in [RingSlots(EvEntries) -> Trb]
       /\ EvPlaces' /\ EvCycles' /\ EvHeld'
  BY <1>1, <1>6, <1>7, <1>8, <1>9, XhPosted
<1>11. XhTypes'
  BY <1>1, <1>9, <1>10 DEF XhInv, XhTypes
<1>12. /\ Begins(xhLog.taken, xhLog.posted)'
       /\ ~xhLog.lapped => Begins(xhLog.done, xhLog.submitted)'
  <2>1. ~xhLog.lapped => Begins(Append(xhLog.done, c), xhLog.submitted)
    <3> SUFFICES ASSUME ~xhLog.lapped PROVE Begins(Append(xhLog.done, c), xhLog.submitted)
      OBVIOUS
    <3>1. Begins(xhLog.done, xhLog.submitted)
      BY DEF XhInv, InOrder
    <3>2. xhLog.done \in Seq(TrbTypes \X Nat) /\ xhLog.submitted \in Seq(TrbTypes \X Nat)
      BY <1>2, CommandsAre DEF XhLogs
    <3> QED
      BY <1>3, <3>1, <3>2, BeginsNext
  <2> QED
    BY <1>2, <1>7, <1>9, <2>1, BeginsLonger DEF XhInv, XhLogs
<1>13. /\ Len(xhLog'.done) = d + 1 /\ d \in Nat /\ Len(xhLog.submitted) \in Nat
       /\ Len(xhLog'.posted) = Len(xhLog.posted) + 1
       /\ xhLog'.posted[Len(xhLog.posted) + 1] = e
  BY <1>2, <1>5, <1>7, <1>9, AppendIs DEF XhLogs
<1>15. InOrder'
  <2> SUFFICES ASSUME ~xhLog.lapped PROVE CmdPlaces' /\ Backlog(xhLog') <= 2 * CmdEntries
    BY <1>9, <1>12 DEF InOrder
  <2>1. Backlog(xhLog') = Backlog(xhLog) - 1 /\ Backlog(xhLog) \in Int
    BY <1>9, <1>13 DEF Backlog
  <2>2. xhHost'.cmd + Backlog(xhLog') = xhHost.cmd + Backlog(xhLog)
    BY <1>2, <1>6, <1>10, <2>1 DEF XhHosts
  <2>3. Backlog(xhLog') <= 2 * CmdEntries
    BY <1>2, <2>1 DEF XhInv, InOrder
  <2> QED
    BY <1>1, <1>6, <1>10, <2>2, <2>3 DEF XhInv, InOrder, CmdPlaces
<1>16. CmdHeld'
  BY <1>1, <1>9 DEF XhInv, CmdHeld
<1>17. InStep(xhLog', xhDriver', xhHost'.slots)
  <2> SUFFICES ASSUME xhLog.changes = 0, xhDriver.timeouts = 0
               PROVE  InStep(xhLog', xhDriver', xhHost'.slots)
    BY <1>1, <1>9 DEF InStep
  <2> DEFINE enables == Count(xhLog.submitted, Enable)
             n == Len(xhLog.taken)
  <2>1. /\ Len(xhLog.posted) = d
        /\ xhDriver.step \notin Polling => Len(xhLog.submitted) = n /\ d = n
        /\ xhDriver.step \in Polling => Len(xhLog.submitted) = n + 1 /\ d \in {n, n + 1}
        /\ xhDriver.step = "enable" =>
             /\ xhLog.submitted[n + 1] = <<"enable", 0>>
             /\ d = n => xhHost.slots + 1 = enables
        /\ xhDriver.step = "address" =>
             xhLog.submitted[n + 1][1] = "address" /\ xhHost.slots = enables
    BY DEF XhInv, InStep
  <2>0. ~xhLog.lapped
    BY DEF XhInv, InStep
  <2>2. n \in Nat
    BY <1>2 DEF XhLogs
  <2> HIDE DEF d, n, enables
  <2>3. xhDriver.step \in Polling /\ d = n /\ Len(xhLog.submitted) = n + 1
    BY <1>3, <1>13, <2>0, <2>1, <2>2
  <2>4. trb.type = c[1]
    BY <1>5
  <2>5. xhDriver.step = "enable" => slot = enables /\ xhHost'.slots = enables
    <3> SUFFICES ASSUME xhDriver.step = "enable" PROVE slot = enables /\ xhHost'.slots = enables
      OBVIOUS
    <3>1. trb.type = "enable"
      BY <1>3, <2>0, <2>1, <2>3, <2>4
    <3>2. slot = enables
      BY <2>1, <2>3, <3>1 DEF slot
    <3> QED
      BY <1>6, <1>10, <3>1, <3>2
  <2>6. xhDriver.step = "address" => xhHost'.slots = enables
    <3> SUFFICES ASSUME xhDriver.step = "address" PROVE xhHost'.slots = enables
      OBVIOUS
    <3>1. trb.type # "enable"
      BY <1>3, <2>0, <2>1, <2>3, <2>4
    <3> QED
      BY <1>6, <1>10, <2>1, <3>1
  <2>7. Len(xhLog'.taken) = n /\ Len(xhLog'.posted) = n + 1 /\ Len(xhLog'.done) = n + 1
        /\ xhLog'.posted[n + 1] = e /\ Count(xhLog'.submitted, Enable) = enables
    BY <1>9, <1>13, <2>1, <2>3 DEF n, enables
  <2>8. xhDriver.step # "enabled"
    BY <2>3 DEF Polling
  <2>9. n + 1 # n
    BY <2>2
  <2> QED
    BY <1>1, <1>7, <1>9, <2>0, <2>1, <2>3, <2>5, <2>6, <2>7, <2>8, <2>9 DEF InStep
<1> QED
  BY <1>10, <1>11, <1>12, <1>15, <1>16, <1>17 DEF XhInv

LEMMA XhStep == XhciSizes /\ XhInv /\ [X!Next]_(X!xhVars) => XhInv'
<1> SUFFICES ASSUME XhciSizes, XhInv, [X!Next]_(X!xhVars) PROVE XhInv'
  OBVIOUS
<1>1. CASE UNCHANGED X!xhVars
  BY <1>1 DEF X!xhVars, XhInv, XhTypes, InOrder, CmdPlaces, CmdHeld, EvPlaces, EvCycles, EvHeld, Fill, Nth
<1>2. CASE X!Next
  BY <1>2, XhNextPort, XhEnableSlot, XhAddressDevice, XhPollEvent, XhPollTimeout, XhPortChange,
     XhFollowLink, XhCarryOut, XhResetOver DEF X!Next
<1> QED
  BY <1>1, <1>2

(* A beginning, as a part of the sequence. *)
LEMMA PrefixIs ==
  ASSUME NEW Elt, NEW s \in Seq(Elt), NEW t \in Seq(Elt), Begins(s, t)
  PROVE  Len(s) <= Len(t) /\ s = SubSeq(t, 1, Len(s))
<1>1. /\ Len(s) \in Nat /\ Len(t) \in Nat /\ Len(s) <= Len(t)
      /\ \A i \in 1 .. Len(s) : s[i] = t[i]
  BY DEF Begins
<1>2. s = [i \in 1 .. Len(s) |-> s[i]]
  BY LenProperties
<1>3. SubSeq(t, 1, Len(s)) = [i \in 1 .. Len(s) |-> t[i]]
  BY <1>1
<1> QED
  BY <1>1, <1>2, <1>3

LEMMA XhShows == XhInv => X!CommandsInStep
<1> SUFFICES ASSUME XhInv PROVE X!CommandsInStep
  OBVIOUS
<1>1. xhLog \in XhLogs
  BY DEF XhInv, XhTypes
<1>2. X!XhciRingsInOrder
  <2> DEFINE prefix(a, b) == Len(a) <= Len(b) /\ a = SubSeq(b, 1, Len(a))
  <2>1. prefix(xhLog.taken, xhLog.posted)
    BY <1>1, PrefixIs DEF XhInv, XhLogs
  <2>2. ~xhLog.lapped => prefix(xhLog.done, xhLog.submitted)
    <3> SUFFICES ASSUME ~xhLog.lapped PROVE prefix(xhLog.done, xhLog.submitted)
      OBVIOUS
    <3>1. Begins(xhLog.done, xhLog.submitted)
      BY DEF XhInv, InOrder
    <3>2. xhLog.done \in Seq(TrbTypes \X Nat) /\ xhLog.submitted \in Seq(TrbTypes \X Nat)
      BY <1>1, CommandsAre DEF XhLogs
    <3> QED
      BY <3>1, <3>2, PrefixIs
  <2> QED
    BY <2>1, <2>2 DEF X!XhciRingsInOrder
<1>3. X!SlotIsOwnUnlessBehind
  <2>1. Count(xhLog.submitted, Enable) = X!Enables
    <3>1. \A k \in DOMAIN xhLog.submitted :
            xhLog.submitted[k] \in Enable <=> xhLog.submitted[k] = <<"enable", 0>>
      BY DEF Enable
    <3>2. {k \in DOMAIN xhLog.submitted : xhLog.submitted[k] \in Enable}
            = {k \in DOMAIN xhLog.submitted : xhLog.submitted[k] = <<"enable", 0>>}
      BY <3>1, Zenon
    <3> QED
      BY <3>2 DEF Count, X!Enables, Cardinality, X!Cardinality
  <2> QED
    BY <2>1 DEF XhInv, InStep, X!SlotIsOwnUnlessBehind, X!SlotIsOwn
<1> QED
  BY <1>2, <1>3 DEF X!CommandsInStep

(* The rings of the xHCI driver are queues, that of the commands until the *)
(* driver is more than two rounds ahead of the controller, and a device is *)
(* addressed with its own slot until the driver falls behind, for rings of *)
(* any size, any number of ports and any number of timeouts.               *)
THEOREM XhciInStep ==
  ASSUME XhciSizes
  PROVE  DriversSpec => []CommandsInStep
<1>1. DriversInit => XhInv
  BY XhInit DEF DriversInit
<1>2. XhInv /\ [DriversNext]_AllVars => XhInv'
  BY XhStep, OtherParts
<1>3. XhInv => CommandsInStep
  BY XhShows DEF CommandsInStep
<1> QED
  BY <1>1, <1>2, <1>3, PTL DEF DriversSpec
------------------------------------------------------------------------------
(* RTL8139: module Rtl8139. *)
(* Where the card's handler is. *)
RxAt == {"idle", "status", "loop", "over", "stuck"}

RtTxs == [index : 0 .. 3, desc : [0 .. 3 -> [of : Nat, pending : BOOLEAN]], card : 0 .. 3]
RtLogs(F) == [stored : F, handled : F, answer : F, to : F, sent : Nat, wire : Nat,
              inOrder : BOOLEAN, pings : Nat, overruns : Nat]

(* How far a descriptor is ahead of the card's next, and which wait.       *)
Ahead(card, d) == IF d >= card THEN d - card ELSE d + 4 - card
Waiting(tx) == {d \in 0 .. 3 : tx.desc[d].pending}

(* Frames sent and not on the wire wait or were overrun; without overruns  *)
(* they wait in order from the card's descriptor up to the driver's.       *)
TxInv(tx, sent, wire, inOrder, overruns) ==
  /\ wire + Cardinality(Waiting(tx)) + overruns = sent
  /\ overruns = 0 =>
       /\ inOrder /\ sent - wire \in 0 .. 4
       /\ Ahead(tx.card, tx.index) = IF sent - wire = 4 THEN 0 ELSE sent - wire
       /\ \A d \in 0 .. 3 :
            /\ tx.desc[d].pending <=> Ahead(tx.card, d) < sent - wire
            /\ tx.desc[d].pending => tx.desc[d].of = wire + 1 + Ahead(tx.card, d)

(* What a frame more makes of the log. *)
LEMMA SentIs ==
  ASSUME NEW F, rtLog \in RtLogs(F), NEW frame, NEW to, NEW G, F \subseteq G, frame \in G, to \in G,
         NEW new, new = R!Sent(frame, to)
  PROVE  /\ new \in RtLogs(G)
         /\ new.stored = rtLog.stored /\ new.handled = rtLog.handled
         /\ new.sent = rtLog.sent + 1 /\ new.wire = rtLog.wire /\ new.inOrder = rtLog.inOrder
         /\ new.pings = rtLog.pings
         /\ new.overruns = IF rtTx.desc[rtTx.index].pending THEN rtLog.overruns + 1
                           ELSE rtLog.overruns
<1> DEFINE sent == rtLog.sent + 1
           overruns == IF rtTx.desc[rtTx.index].pending THEN rtLog.overruns + 1
                       ELSE rtLog.overruns
<1>1. sent \in Nat /\ overruns \in Nat
  BY SMT DEF RtLogs
<1>2. new = [rtLog EXCEPT !.sent = sent, !.answer = frame, !.to = to, !.overruns = overruns]
  BY DEF R!Sent
<1>3. /\ rtLog.stored \in G /\ rtLog.handled \in G /\ rtLog.wire \in Nat
      /\ rtLog.inOrder \in BOOLEAN /\ rtLog.pings \in Nat
  BY DEF RtLogs
<1> HIDE DEF sent, overruns
<1>4. new \in RtLogs(G)
  BY <1>1, <1>2, <1>3 DEF RtLogs
<1>6. new.sent = sent /\ new.overruns = overruns
  BY <1>2, SMT DEF RtLogs
<1>5. /\ new.stored = rtLog.stored /\ new.handled = rtLog.handled
      /\ new.wire = rtLog.wire /\ new.inOrder = rtLog.inOrder /\ new.pings = rtLog.pings
  BY <1>2, SMT DEF RtLogs
<1> QED
  BY <1>4, <1>5, <1>6 DEF sent, overruns

LEMMA SendIs ==
  ASSUME rtTx \in RtTxs, NEW sent \in Nat, sent = rtLog.sent + 1, NEW new, new = R!Send(rtTx)
  PROVE  /\ new \in RtTxs
         /\ new.index = IF rtTx.index = 3 THEN 0 ELSE rtTx.index + 1
         /\ new.card = rtTx.card
         /\ new.desc = [rtTx.desc EXCEPT ![rtTx.index] = [of |-> sent, pending |-> TRUE]]
<1> DEFINE index == IF rtTx.index + 1 > 3 THEN 0 ELSE rtTx.index + 1
           desc == [rtTx.desc EXCEPT ![rtTx.index] = [of |-> sent, pending |-> TRUE]]
<1>1. index \in 0 .. 3 /\ index = IF rtTx.index = 3 THEN 0 ELSE rtTx.index + 1
  BY SMT DEF RtTxs
<1>2. desc \in [0 .. 3 -> [of : Nat, pending : BOOLEAN]]
  BY SMT DEF RtTxs
<1>3. new = [rtTx EXCEPT !.desc = desc, !.index = index]
  BY DEF R!Send
<1> HIDE DEF index, desc
<1>4. new \in RtTxs
  BY <1>1, <1>2, <1>3 DEF RtTxs
<1>5. new.index = index /\ new.desc = desc /\ new.card = rtTx.card
  BY <1>3, SMT DEF RtTxs
<1> QED
  BY <1>1, <1>4, <1>5 DEF desc

LEMMA WaitingIs ==
  ASSUME NEW tx
  PROVE  Waiting(tx) \in SUBSET (0 .. 3) /\ IsFiniteSet(Waiting(tx))
<1>1. Waiting(tx) \in SUBSET (0 .. 3)
  BY DEF Waiting
<1>2. 0 \in Int /\ 3 \in Int
  OBVIOUS
<1>3. IsFiniteSet(0 .. 3)
  BY <1>2, FS_Interval
<1> QED
  BY <1>1, <1>3, FS_Subset

(* A send keeps it: the driver's descriptor is the first free one. *)
LEMMA SendKeeps ==
  ASSUME NEW tx \in RtTxs, NEW new \in RtTxs, NEW sent \in Nat, NEW wire \in Nat,
         NEW inOrder, NEW over \in Nat,
         TxInv(tx, sent, wire, inOrder, over),
         new.index = IF tx.index = 3 THEN 0 ELSE tx.index + 1,
         new.card = tx.card,
         new.desc = [tx.desc EXCEPT ![tx.index] = [of |-> sent + 1, pending |-> TRUE]]
  PROVE  TxInv(new, sent + 1, wire, inOrder,
               IF tx.desc[tx.index].pending THEN over + 1 ELSE over)
<1> DEFINE i == tx.index
           more == IF tx.desc[i].pending THEN over + 1 ELSE over
<1>1. /\ i \in 0 .. 3 /\ tx.card \in 0 .. 3 /\ tx.desc \in [0 .. 3 -> [of : Nat, pending : BOOLEAN]]
      /\ more \in Nat
  BY SMT DEF RtTxs
<1>2. /\ new.desc[i].pending /\ new.desc[i].of = sent + 1
      /\ \A d \in 0 .. 3 : d # i => new.desc[d] = tx.desc[d]
  BY <1>1, SMT
<1>3. Waiting(new) = Waiting(tx) \cup {i}
  BY <1>1, <1>2 DEF Waiting
<1>4. /\ IsFiniteSet(Waiting(tx)) /\ Cardinality(Waiting(tx)) \in Nat
      /\ Cardinality(Waiting(new)) =
           IF tx.desc[i].pending THEN Cardinality(Waiting(tx)) ELSE Cardinality(Waiting(tx)) + 1
  <2>1. Waiting(tx) \in SUBSET (0 .. 3) /\ (i \in Waiting(tx) <=> tx.desc[i].pending)
    BY <1>1 DEF Waiting
  <2>2. IsFiniteSet(Waiting(tx))
    BY WaitingIs
  <2>3. Cardinality(Waiting(tx) \cup {i}) =
          IF i \in Waiting(tx) THEN Cardinality(Waiting(tx)) ELSE Cardinality(Waiting(tx)) + 1
    BY <2>2, FS_AddElement
  <2> QED
    BY <1>3, <2>1, <2>2, <2>3, FS_CardinalityType
<1>5. wire + Cardinality(Waiting(new)) + more = sent + 1
  <2>1. wire + Cardinality(Waiting(tx)) + over = sent
    BY DEF TxInv
  <2> DEFINE a == Cardinality(Waiting(tx))
             b == Cardinality(Waiting(new))
  <2> HIDE DEF a, b
  <2>2. a \in Nat /\ wire + a + over = sent /\ b = IF tx.desc[i].pending THEN a ELSE a + 1
    BY <1>4, <2>1 DEF a, b
  <2>3. wire + b + more = sent + 1
    BY <2>2, SMT
  <2> QED
    BY <2>3 DEF b
<1>6. ASSUME more = 0
      PROVE  /\ inOrder /\ sent + 1 - wire \in 0 .. 4
             /\ Ahead(new.card, new.index) = IF sent + 1 - wire = 4 THEN 0 ELSE sent + 1 - wire
             /\ \A d \in 0 .. 3 :
                  /\ new.desc[d].pending <=> Ahead(new.card, d) < sent + 1 - wire
                  /\ new.desc[d].pending => new.desc[d].of = wire + 1 + Ahead(new.card, d)
  <2>1. over = 0 /\ ~tx.desc[i].pending
    BY <1>6, SMT
  <2>2. /\ inOrder /\ sent - wire \in 0 .. 4
        /\ Ahead(tx.card, i) = IF sent - wire = 4 THEN 0 ELSE sent - wire
    BY <2>1 DEF TxInv
  <2>3. \A d \in 0 .. 3 : /\ tx.desc[d].pending <=> Ahead(tx.card, d) < sent - wire
                          /\ tx.desc[d].pending => tx.desc[d].of = wire + 1 + Ahead(tx.card, d)
    BY <2>1 DEF TxInv
  <2>4. ~(Ahead(tx.card, i) < sent - wire)
    BY <1>1, <2>1, <2>3
  <2>5. sent - wire \in 0 .. 3 /\ Ahead(tx.card, i) = sent - wire
    BY <2>2, <2>4, SMT
  <2> DEFINE c == tx.card
             w == sent - wire
  <2> HIDE DEF i, c, w
  <2>6. /\ Ahead(c, new.index) = IF w + 1 = 4 THEN 0 ELSE w + 1
        /\ \A d \in 0 .. 3 : d # i => (Ahead(c, d) < w + 1 <=> Ahead(c, d) < w)
    <3>1. i \in 0 .. 3 /\ c \in 0 .. 3 /\ w \in 0 .. 3 /\ Ahead(c, i) = w
      BY <1>1, <2>5 DEF c, w
    <3>2. new.index = IF i = 3 THEN 0 ELSE i + 1
      BY DEF i
    <3> QED
      BY <3>1, <3>2, SMT DEF Ahead
  <2>7. sent + 1 - wire = w + 1 /\ sent + 1 = wire + 1 + w /\ w \in 0 .. 3
    BY <2>5 DEF w
  <2>8. new.card = c /\ Ahead(c, i) = w
    BY <2>5 DEF w, c
  <2>9. ASSUME NEW d \in 0 .. 3
        PROVE  /\ new.desc[d].pending <=> Ahead(c, d) < w + 1
               /\ new.desc[d].pending => new.desc[d].of = wire + 1 + Ahead(c, d)
    <3>1. CASE d = i
      BY <1>2, <2>7, <2>8, <3>1
    <3>2. CASE d # i
      <4>1. new.desc[d] = tx.desc[d]
        BY <1>2, <3>2
      <4>2. /\ tx.desc[d].pending <=> Ahead(c, d) < w
            /\ tx.desc[d].pending => tx.desc[d].of = wire + 1 + Ahead(c, d)
        BY <2>3 DEF c, w
      <4> QED
        BY <2>6, <3>2, <4>1, <4>2
    <3> QED
      BY <3>1, <3>2
  <2> QED
    BY <2>2, <2>6, <2>7, <2>8, <2>9
<1> QED
  BY <1>5, <1>6 DEF TxInv

(* The card sends the oldest. *)
LEMMA TransmitKeeps ==
  ASSUME NEW tx \in RtTxs, NEW new \in RtTxs, NEW sent \in Nat, NEW wire \in Nat,
         NEW inOrder \in BOOLEAN, NEW over \in Nat,
         TxInv(tx, sent, wire, inOrder, over),
         tx.desc[tx.card].pending,
         new.index = tx.index,
         new.card = IF tx.card = 3 THEN 0 ELSE tx.card + 1,
         ~new.desc[tx.card].pending,
         \A d \in 0 .. 3 : d # tx.card => new.desc[d] = tx.desc[d]
  PROVE  TxInv(new, sent, wire + 1, inOrder /\ tx.desc[tx.card].of = wire + 1, over)
<1> DEFINE c == tx.card
<1>1. c \in 0 .. 3 /\ tx.index \in 0 .. 3 /\ tx.desc \in [0 .. 3 -> [of : Nat, pending : BOOLEAN]]
  BY SMT DEF RtTxs
<1>2. ~new.desc[c].pending /\ \A d \in 0 .. 3 : d # c => new.desc[d] = tx.desc[d]
  BY <1>1, SMT
<1>3. Waiting(new) = Waiting(tx) \ {c} /\ c \in Waiting(tx)
  BY <1>1, <1>2 DEF Waiting
<1>4. /\ Cardinality(Waiting(tx)) \in Nat
      /\ Cardinality(Waiting(new)) = Cardinality(Waiting(tx)) - 1
  <2>1. Waiting(tx) \in SUBSET (0 .. 3)
    BY DEF Waiting
  <2>2. IsFiniteSet(Waiting(tx))
    BY WaitingIs
  <2>3. Cardinality(Waiting(tx)) \in Nat
    BY <2>2, FS_CardinalityType
  <2>4. Cardinality(Waiting(tx) \ {c}) = Cardinality(Waiting(tx)) - 1
    BY <1>3, <2>2, FS_RemoveElement
  <2> QED
    BY <1>3, <2>3, <2>4
<1>5. wire + 1 + Cardinality(Waiting(new)) + over = sent
  BY <1>4 DEF TxInv
<1>6. ASSUME over = 0
      PROVE  /\ tx.desc[c].of = wire + 1 /\ inOrder /\ sent - (wire + 1) \in 0 .. 4
             /\ Ahead(new.card, new.index) =
                  IF sent - (wire + 1) = 4 THEN 0 ELSE sent - (wire + 1)
             /\ \A d \in 0 .. 3 :
                  /\ new.desc[d].pending <=> Ahead(new.card, d) < sent - (wire + 1)
                  /\ new.desc[d].pending =>
                       new.desc[d].of = wire + 1 + 1 + Ahead(new.card, d)
  <2>1. /\ inOrder /\ sent - wire \in 0 .. 4
        /\ Ahead(c, tx.index) = IF sent - wire = 4 THEN 0 ELSE sent - wire
    BY <1>6 DEF TxInv
  <2>2. \A d \in 0 .. 3 : /\ tx.desc[d].pending <=> Ahead(c, d) < sent - wire
                          /\ tx.desc[d].pending => tx.desc[d].of = wire + 1 + Ahead(c, d)
    BY <1>6 DEF TxInv
  <2> DEFINE w == sent - wire
             g == new.card
             i == tx.index
  <2> HIDE DEF c, w, g, i
  <2>3. Ahead(c, c) = 0 /\ \A d \in 0 .. 3 : Ahead(c, d) \in 0 .. 3
    BY <1>1, SMT DEF Ahead
  <2>4. w \in 1 .. 4 /\ tx.desc[c].of = wire + 1 /\ sent - (wire + 1) = w - 1
    <3>1. tx.desc[c].pending
      BY DEF c
    <3>2. 0 < sent - wire /\ tx.desc[c].of = wire + 1 + 0
      BY <1>1, <2>2, <2>3, <3>1
    <3> QED
      BY <2>1, <3>2, SMT DEF w
  <2>5. /\ Ahead(g, c) = 3
        /\ \A d \in 0 .. 3 : d # c => Ahead(g, d) + 1 = Ahead(c, d)
        /\ \A d \in 0 .. 3 : Ahead(g, d) \in 0 .. 3
    <3>1. g = IF c = 3 THEN 0 ELSE c + 1
      BY DEF g, c
    <3> QED
      BY <1>1, <3>1, SMT DEF Ahead
  <2>6. Ahead(g, i) = IF w - 1 = 4 THEN 0 ELSE w - 1
    <3>1. Ahead(c, i) = IF w = 4 THEN 0 ELSE w
      BY <2>1 DEF w, i
    <3>2. i \in 0 .. 3
      BY <1>1 DEF i
    <3>3. CASE w = 4
      <4>1. i = c
        BY <1>1, <3>1, <3>2, <3>3, SMT DEF Ahead
      <4> QED
        BY <2>5, <3>3, <4>1
    <3>4. CASE w # 4
      <4>1. i # c
        BY <2>3, <2>4, <3>1, <3>4
      <4> QED
        BY <2>4, <2>5, <3>1, <3>2, <3>4, <4>1
    <3> QED
      BY <3>3, <3>4
  <2>7. ASSUME NEW d \in 0 .. 3
        PROVE  /\ new.desc[d].pending <=> Ahead(g, d) < w - 1
               /\ new.desc[d].pending => new.desc[d].of = wire + 1 + 1 + Ahead(g, d)
    <3>1. CASE d = c
      <4>1. ~(Ahead(g, d) < w - 1)
        BY <2>4, <2>5, <3>1, SMT
      <4> QED
        BY <1>2, <3>1, <4>1
    <3>2. CASE d # c
      <4>1. new.desc[d] = tx.desc[d]
        BY <1>2, <3>2
      <4>2. /\ tx.desc[d].pending <=> Ahead(c, d) < w
            /\ tx.desc[d].pending => tx.desc[d].of = wire + 1 + Ahead(c, d)
        BY <2>2 DEF w
      <4>3. Ahead(g, d) + 1 = Ahead(c, d) /\ Ahead(g, d) \in 0 .. 3
        BY <2>5, <3>2
      <4>4. /\ Ahead(g, d) < w - 1 <=> Ahead(c, d) < w
            /\ wire + 1 + 1 + Ahead(g, d) = wire + 1 + Ahead(c, d)
        BY <2>4, <4>3, SMT
      <4> QED
        BY <4>1, <4>2, <4>4
    <3> QED
      BY <3>1, <3>2
  <2>8. new.index = i
    BY DEF i
  <2>9. inOrder
    BY <2>1
  <2>10. sent - (wire + 1) \in 0 .. 4
    BY <2>4, SMT
  <2> QED
    BY <2>4, <2>6, <2>7, <2>8, <2>9, <2>10 DEF g
<1>7. over = 0 => inOrder /\ tx.desc[c].of = wire + 1
  BY <1>6
<1> QED
  BY <1>5, <1>6, <1>7 DEF TxInv

(* What the frames' histories hold makes no difference to the sending.     *)
TxTyped == rtTx \in RtTxs /\ \E F : rtLog \in RtLogs(F)
TxOf(tx, log) == TxInv(tx, log.sent, log.wire, log.inOrder, log.overruns)
TxIn == TxTyped /\ TxOf(rtTx, rtLog)

LEMMA TxInit == R!RtlInit => TxIn
<1> SUFFICES ASSUME R!RtlInit PROVE TxIn
  OBVIOUS
<1> DEFINE desc == [d \in 0 .. 3 |-> R!NoFrame]
           F == {<<>>, R!NoFrame, 0}
<1>1. /\ rtTx = [index |-> 0, desc |-> desc, card |-> 0]
      /\ rtLog = [stored |-> <<>>, handled |-> <<>>, answer |-> R!NoFrame, to |-> 0,
                  sent |-> 0, wire |-> 0, inOrder |-> TRUE, pings |-> 0, overruns |-> 0]
  BY DEF R!RtlInit, R!Descriptors
<1>2. /\ desc \in [0 .. 3 -> [of : Nat, pending : BOOLEAN]]
      /\ \A d \in 0 .. 3 : ~desc[d].pending
  BY DEF R!NoFrame
<1>3. <<>> \in F /\ R!NoFrame \in F /\ 0 \in F /\ 0 \in Nat /\ 0 \in 0 .. 3
  OBVIOUS
<1> HIDE DEF desc, F
<1>4. rtTx \in RtTxs /\ rtTx.desc = desc /\ rtTx.index = 0 /\ rtTx.card = 0
  BY <1>1, <1>2, <1>3 DEF RtTxs
<1>5. rtLog \in RtLogs(F)
  BY <1>1, <1>3 DEF RtLogs
<1>6. rtLog.sent = 0 /\ rtLog.wire = 0 /\ rtLog.inOrder /\ rtLog.overruns = 0
  BY <1>1
<1>7. Waiting(rtTx) = {}
  BY <1>2, <1>4 DEF Waiting
<1>8. \A d \in 0 .. 3 : Ahead(0, d) = d
  BY SMT DEF Ahead
<1>9. TxInv(rtTx, 0, 0, TRUE, 0)
  BY <1>2, <1>4, <1>7, <1>8, FS_EmptySet DEF TxInv
<1> QED
  BY <1>4, <1>5, <1>6, <1>9 DEF TxIn, TxTyped, TxOf

(* A frame is given to the card. *)
LEMMA TxSent ==
  ASSUME NEW F, rtLog \in RtLogs(F), rtTx \in RtTxs, TxOf(rtTx, rtLog),
         NEW frame, NEW to, rtTx' = R!Send(rtTx), NEW log, log = R!Sent(frame, to)
  PROVE  /\ rtTx' \in RtTxs /\ TxOf(rtTx', log)
         /\ log \in RtLogs(F \cup {frame, to})
         /\ log.stored = rtLog.stored /\ log.handled = rtLog.handled
<1>1. /\ rtLog.sent \in Nat /\ rtLog.wire \in Nat /\ rtLog.overruns \in Nat
  BY DEF RtLogs
<1>2. /\ log \in RtLogs(F \cup {frame, to})
      /\ log.stored = rtLog.stored /\ log.handled = rtLog.handled
      /\ log.sent = rtLog.sent + 1 /\ log.wire = rtLog.wire /\ log.inOrder = rtLog.inOrder
      /\ log.overruns = IF rtTx.desc[rtTx.index].pending THEN rtLog.overruns + 1
                        ELSE rtLog.overruns
  <2> DEFINE G == F \cup {frame, to}
  <2>1. F \subseteq G /\ frame \in G /\ to \in G
    OBVIOUS
  <2> HIDE DEF G
  <2>2. /\ log \in RtLogs(G)
        /\ log.stored = rtLog.stored /\ log.handled = rtLog.handled
        /\ log.sent = rtLog.sent + 1 /\ log.wire = rtLog.wire /\ log.inOrder = rtLog.inOrder
        /\ log.overruns = IF rtTx.desc[rtTx.index].pending THEN rtLog.overruns + 1
                          ELSE rtLog.overruns
    BY <2>1, SentIs
  <2> QED
    BY <2>2 DEF G
<1>3. rtLog.sent + 1 \in Nat
  BY <1>1
<1>4. /\ rtTx' \in RtTxs
      /\ rtTx'.index = IF rtTx.index = 3 THEN 0 ELSE rtTx.index + 1
      /\ rtTx'.card = rtTx.card
      /\ rtTx'.desc = [rtTx.desc EXCEPT ![rtTx.index] = [of |-> rtLog.sent + 1, pending |-> TRUE]]
  BY <1>3, SendIs
<1>5. TxInv(rtTx', rtLog.sent + 1, rtLog.wire, rtLog.inOrder,
            IF rtTx.desc[rtTx.index].pending THEN rtLog.overruns + 1 ELSE rtLog.overruns)
  BY <1>1, <1>4, SendKeeps DEF TxOf
<1> QED
  BY <1>2, <1>4, <1>5 DEF TxOf

(* Only a history of frames changes. *)
LEMMA TxLogged ==
  ASSUME NEW F, NEW log, log \in RtLogs(F), NEW tx, TxOf(tx, log), NEW s, NEW new,
         \/ new = [log EXCEPT !.handled = s]
         \/ new = [log EXCEPT !.stored = s]
  PROVE  new \in RtLogs(F \cup {s}) /\ TxOf(tx, new)
<1> DEFINE G == F \cup {s}
<1>1. F \subseteq G /\ s \in G
  OBVIOUS
<1> HIDE DEF G
<1>2. new \in RtLogs(G)
  BY <1>1 DEF RtLogs
<1>3. /\ new.sent = log.sent /\ new.wire = log.wire
      /\ new.inOrder = log.inOrder /\ new.overruns = log.overruns
  BY SMT DEF RtLogs
<1> QED
  BY <1>2, <1>3 DEF G, TxOf

LEMMA TxReceive == ASSUME TxIn, R!Receive PROVE TxIn'
<1>1. PICK F : rtLog \in RtLogs(F)
  BY DEF TxIn, TxTyped
<1>2. PICK s : \/ rtLog' = [rtLog EXCEPT !.handled = s] /\ rtTx' = rtTx
               \/ \E frame, to : /\ rtLog' = [R!Sent(frame, to) EXCEPT !.handled = s]
                                 /\ rtTx' = R!Send(rtTx)
  <2> DEFINE e == IF rtRx.offset \in DOMAIN rtCard.ring THEN R!FrameHere ELSE R!NoFrame
  <2>0. \/ rtLog' = R!Handled(rtLog) /\ rtTx' = rtTx
        \/ \E answer, to : rtLog' = R!Handled(R!Sent(answer, to)) /\ rtTx' = R!Send(rtTx)
    BY DEF R!Receive
  <2>1. \/ rtLog' = [rtLog EXCEPT !.handled = Append(@, e)] /\ rtTx' = rtTx
        \/ \E answer, to : /\ rtLog' = [R!Sent(answer, to) EXCEPT !.handled = Append(@, e)]
                           /\ rtTx' = R!Send(rtTx)
    BY <2>0 DEF R!Handled
  <2> HIDE DEF e
  <2>2. CASE rtLog' = [rtLog EXCEPT !.handled = Append(@, e)] /\ rtTx' = rtTx
    BY <2>2
  <2>3. CASE \E answer, to : /\ rtLog' = [R!Sent(answer, to) EXCEPT !.handled = Append(@, e)]
                            /\ rtTx' = R!Send(rtTx)
    BY <2>3
  <2> QED
    BY <2>1, <2>2, <2>3
<1>3. CASE rtLog' = [rtLog EXCEPT !.handled = s] /\ rtTx' = rtTx
  <2>1. rtLog' \in RtLogs(F \cup {s}) /\ TxOf(rtTx, rtLog')
    BY <1>1, <1>3, TxLogged DEF TxIn
  <2> QED
    BY <1>3, <2>1 DEF TxIn, TxTyped
<1>4. CASE \E frame, to : /\ rtLog' = [R!Sent(frame, to) EXCEPT !.handled = s]
                         /\ rtTx' = R!Send(rtTx)
  <2>1. PICK frame, to : /\ rtLog' = [R!Sent(frame, to) EXCEPT !.handled = s]
                         /\ rtTx' = R!Send(rtTx)
    BY <1>4
  <2> DEFINE log == R!Sent(frame, to)
             G == F \cup {frame, to}
  <2>2. rtTx' \in RtTxs /\ TxOf(rtTx', log) /\ log \in RtLogs(G)
    BY <1>1, <2>1, TxSent DEF TxIn, TxTyped
  <2>3. rtLog' = [log EXCEPT !.handled = s]
    BY <2>1
  <2> HIDE DEF log, G
  <2>4. rtLog' \in RtLogs(G \cup {s}) /\ TxOf(rtTx', rtLog')
    BY <2>2, <2>3, TxLogged
  <2> QED
    BY <2>2, <2>4 DEF TxIn, TxTyped
<1> QED
  BY <1>2, <1>3, <1>4

LEMMA TxPing == ASSUME TxIn, NEW ip, R!Ping(ip) PROVE TxIn'
<1>1. PICK F : rtLog \in RtLogs(F)
  BY DEF TxIn, TxTyped
<1> DEFINE frame == R!ArpRequest(ip)
           log == R!Sent(frame, 0)
           G == F \cup {frame, 0}
           pings == log.pings + 1
<1>2. rtLog' = [log EXCEPT !.pings = pings] /\ rtTx' = R!Send(rtTx)
  BY DEF R!Ping
<1>3. rtTx' \in RtTxs /\ TxOf(rtTx', log) /\ log \in RtLogs(G)
  BY <1>1, <1>2, TxSent DEF TxIn, TxTyped
<1> HIDE DEF log, G
<1>4. pings \in Nat
  BY <1>3 DEF RtLogs
<1> HIDE DEF pings
<1>5. rtLog' \in RtLogs(G)
  BY <1>2, <1>3, <1>4 DEF RtLogs
<1>6. /\ rtLog'.sent = log.sent /\ rtLog'.wire = log.wire
      /\ rtLog'.inOrder = log.inOrder /\ rtLog'.overruns = log.overruns
  BY <1>2, <1>3, SMT DEF RtLogs
<1> QED
  BY <1>3, <1>5, <1>6 DEF TxIn, TxTyped, TxOf

LEMMA TxTransmit == ASSUME TxIn, R!Transmit PROVE TxIn'
<1>1. PICK F : rtLog \in RtLogs(F)
  BY DEF TxIn, TxTyped
<1>2. rtTx \in RtTxs
  BY DEF TxIn, TxTyped
<1> DEFINE c == rtTx.card
           next == IF c = 3 THEN 0 ELSE c + 1
           slot == [rtTx.desc[c] EXCEPT !.pending = FALSE]
           desc == [rtTx.desc EXCEPT ![c] = slot]
           wire == rtLog.wire + 1
           inOrder == rtLog.inOrder /\ rtTx.desc[c].of = wire
<1>3. /\ c \in 0 .. 3 /\ rtTx.desc \in [0 .. 3 -> [of : Nat, pending : BOOLEAN]]
      /\ next \in 0 .. 3 /\ (c + 1) % 4 = next
      /\ wire \in Nat /\ inOrder \in BOOLEAN /\ rtLog.inOrder \in BOOLEAN
  BY <1>1, <1>2, SMT DEF RtTxs, RtLogs
<1>4. slot \in [of : Nat, pending : BOOLEAN] /\ ~slot.pending
  <2> DEFINE e == rtTx.desc[c]
  <2>1. e \in [of : Nat, pending : BOOLEAN]
    BY <1>3
  <2> HIDE DEF e
  <2>2. [e EXCEPT !.pending = FALSE] \in [of : Nat, pending : BOOLEAN]
    BY <2>1
  <2>3. ~[e EXCEPT !.pending = FALSE].pending
    BY <2>1, SMT
  <2> QED
    BY <2>2, <2>3 DEF e
<1>5. rtTx' = [rtTx EXCEPT !.desc = desc, !.card = next]
  <2>1. rtTx' = [rtTx EXCEPT !.desc = desc, !.card = (c + 1) % 4]
    BY DEF R!Transmit, R!Descriptors
  <2> HIDE DEF desc, next, c
  <2> QED
    BY <1>3, <2>1
<1>6. rtLog' = [rtLog EXCEPT !.wire = wire, !.inOrder = inOrder]
  BY DEF R!Transmit
<1>7. desc \in [0 .. 3 -> [of : Nat, pending : BOOLEAN]]
  <2> HIDE DEF slot, c
  <2> QED
    BY <1>3, <1>4
<1>8. rtTx.desc[c].pending
  BY DEF R!Transmit
<1> HIDE DEF next, desc, wire, inOrder, slot
<1>9. rtTx' \in RtTxs
  BY <1>2, <1>3, <1>5, <1>7 DEF RtTxs
<1>10. rtTx'.index = rtTx.index /\ rtTx'.card = next /\ rtTx'.desc = desc
  BY <1>2, <1>5, SMT DEF RtTxs
<1>11. rtLog' \in RtLogs(F)
  BY <1>1, <1>3, <1>6 DEF RtLogs
<1>12. /\ rtLog'.sent = rtLog.sent /\ rtLog'.wire = wire
       /\ rtLog'.inOrder = inOrder /\ rtLog'.overruns = rtLog.overruns
  BY <1>1, <1>6, SMT DEF RtLogs
<1>13. rtLog.sent \in Nat /\ rtLog.wire \in Nat /\ rtLog.overruns \in Nat
  BY <1>1 DEF RtLogs
<1>14. TxInv(rtTx', rtLog.sent, rtLog.wire + 1,
             rtLog.inOrder /\ rtTx.desc[rtTx.card].of = rtLog.wire + 1, rtLog.overruns)
  <2>1. TxInv(rtTx, rtLog.sent, rtLog.wire, rtLog.inOrder, rtLog.overruns)
    BY DEF TxIn, TxOf
  <2>2. rtTx'.card = IF rtTx.card = 3 THEN 0 ELSE rtTx.card + 1
    BY <1>10 DEF next
  <2>3. rtTx'.desc = [rtTx.desc EXCEPT ![c] = slot]
    BY <1>10 DEF desc
  <2> HIDE DEF c
  <2>4. /\ ~rtTx'.desc[c].pending
        /\ \A d \in 0 .. 3 : d # c => rtTx'.desc[d] = rtTx.desc[d]
    BY <1>3, <1>4, <2>3
  <2>5. /\ rtTx.desc[rtTx.card].pending /\ ~rtTx'.desc[rtTx.card].pending
        /\ \A d \in 0 .. 3 : d # rtTx.card => rtTx'.desc[d] = rtTx.desc[d]
        /\ rtTx'.index = rtTx.index
    BY <1>8, <1>10, <2>4 DEF c
  <2>6. rtLog.inOrder \in BOOLEAN
    BY <1>3
  <2> QED
    BY <1>2, <1>9, <1>13, <2>1, <2>2, <2>5, <2>6, TransmitKeeps
<1> QED
  BY <1>9, <1>11, <1>12, <1>14 DEF TxIn, TxTyped, TxOf, wire, inOrder

LEMMA TxStep == TxIn /\ [R!RtlNext]_(R!rtVars) => TxIn'
<1> SUFFICES ASSUME TxIn, [R!RtlNext]_(R!rtVars) PROVE TxIn'
  OBVIOUS
<1>1. CASE rtTx' = rtTx /\ rtLog' = rtLog
  BY <1>1 DEF TxIn, TxTyped, TxOf
<1>2. ASSUME NEW frame \in Incoming, R!Store(frame) PROVE TxIn'
  <2>1. PICK F : rtLog \in RtLogs(F)
    BY DEF TxIn, TxTyped
  <2>2. PICK s : rtLog' = [rtLog EXCEPT !.stored = s] /\ rtTx' = rtTx
    BY <1>2 DEF R!Store
  <2>3. rtLog' \in RtLogs(F \cup {s}) /\ TxOf(rtTx, rtLog')
    BY <2>1, <2>2, TxLogged DEF TxIn
  <2> QED
    BY <2>2, <2>3 DEF TxIn, TxTyped
<1> QED
  BY <1>1, <1>2, TxReceive, TxPing, TxTransmit
  DEF R!RtlNext, R!Handler, R!Interrupt, R!Acknowledge, R!Drained, R!Stuck, R!rtVars

(* Frames go out in the order they were sent until one is put over another *)
(* that still waits, and one is lost for each of these.                    *)
THEOREM CardSendsInOrder == DriversSpec => []SentInOrder
<1>1. TxIn => SentInOrder
  <2> SUFFICES ASSUME TxIn PROVE R!SentInOrder
    BY DEF SentInOrder
  <2> DEFINE pending == {d \in DOMAIN rtTx.desc : rtTx.desc[d].pending}
             w == rtLog.sent - rtLog.wire
  <2>1. pending = Waiting(rtTx) /\ rtTx.card \in 0 .. 3 /\ DOMAIN rtTx.desc = 0 .. 3
    BY DEF TxIn, TxTyped, RtTxs, Waiting
  <2>2. rtLog.wire + Cardinality(pending) + rtLog.overruns = rtLog.sent
    BY <2>1 DEF TxIn, TxOf, TxInv
  <2>3. ASSUME rtLog.overruns = 0
        PROVE  rtLog.inOrder /\ (pending # {} => rtTx.card \in pending)
    <3>1. /\ rtLog.inOrder /\ w \in 0 .. 4
          /\ \A d \in 0 .. 3 : rtTx.desc[d].pending <=> Ahead(rtTx.card, d) < w
      BY <2>3 DEF TxIn, TxOf, TxInv
    <3>2. ASSUME pending # {} PROVE rtTx.card \in pending
      <4>1. PICK d \in 0 .. 3 : rtTx.desc[d].pending
        BY <2>1, <3>2
      <4>2. Ahead(rtTx.card, d) < w /\ Ahead(rtTx.card, d) \in Nat /\ Ahead(rtTx.card, rtTx.card) = 0
        BY <2>1, <3>1, <4>1, SMT DEF Ahead
      <4>3. Ahead(rtTx.card, rtTx.card) < w
        BY <3>1, <4>2
      <4> QED
        BY <2>1, <3>1, <4>3
    <3> QED
      BY <3>1, <3>2
  <2> QED
    BY <2>2, <2>3 DEF R!SentInOrder, R!Cardinality, Cardinality
<1>2. DriversInit => TxIn
  BY TxInit DEF DriversInit
<1>3. TxIn /\ [DriversNext]_AllVars => TxIn'
  BY TxStep, OtherParts
<1> QED
  BY <1>1, <1>2, <1>3, PTL DEF DriversSpec

------------------------------------------------------------------------------
(* The frames' ring.  Its size is a multiple of four that divides 65536,   *)
(* the values of CAPR.                                                     *)
RtSizes ==
  /\ RingBytes \in Nat \ {0} /\ \E q \in Nat : RingBytes = 4 * q
  /\ \E m \in Nat : 65536 = RingBytes * m
  /\ \A frame \in Incoming : frame.bytes \in Nat

(* So many bytes behind an offset. *)
Place(o, a) == IF o + a < RingBytes THEN o + a ELSE o + a - RingBytes

(* Frame k, of those stored and not handled, begins pos[k] bytes behind    *)
(* the driver's offset.                                                    *)
Held(pos, offset, write, ring, stored, h) ==
  LET n == Len(stored) IN
  /\ pos[h + 1] = 0 /\ pos[n + 1] < RingBytes /\ write = Place(offset, pos[n + 1])
  /\ \A i, j \in h + 1 .. n + 1 : i < j => pos[i] < pos[j]
  /\ \A k \in h + 1 .. n : /\ pos[k + 1] = pos[k] + R!Taken(stored[k])
                           /\ Place(offset, pos[k]) \in DOMAIN ring
                           /\ ring[Place(offset, pos[k])] = stored[k]

RxInv(offset, write, ring, stored, handled) ==
  /\ stored \in Seq(Incoming) /\ handled \in Seq(Incoming) /\ Begins(handled, stored)
  /\ offset \in RingSlots(RingBytes) /\ \E q \in Nat : offset = 4 * q
  /\ \E pos \in [Nat -> Nat] : Held(pos, offset, write, ring, stored, Len(handled))

LEMMA TakenIs ==
  ASSUME RtSizes, NEW frame \in Incoming
  PROVE  /\ R!Taken(frame) \in Nat /\ R!Taken(frame) > 0
         /\ \E q \in Nat : R!Taken(frame) = 4 * q
<1> DEFINE b == frame.bytes
           q == (b + 4 + 4 + 3) \div 4
<1>1. b \in Nat
  BY DEF RtSizes
<1>2. R!Taken(frame) = q * 4
  BY DEF R!Taken
<1> HIDE DEF b
<1>3. q \in Nat /\ q > 0
  BY <1>1, SMT
<1> HIDE DEF q
<1> QED
  BY <1>2, <1>3, SMT

LEMMA PlaceIs ==
  ASSUME RtSizes, NEW o \in RingSlots(RingBytes), NEW a \in 0 .. RingBytes
  PROVE  (o + a) % RingBytes = Place(o, a) /\ Place(o, a) \in RingSlots(RingBytes)
<1> DEFINE x == o + a
<1>1. RingBytes \in Nat \ {0, 1}
  BY DEF RtSizes
<1>2. x \in 0 .. 2 * RingBytes - 1
  BY <1>1, SMT DEF RingSlots
<1> HIDE DEF x
<1>3. x % RingBytes = IF x < RingBytes THEN x ELSE x - RingBytes
  BY <1>1, <1>2, ModOnce
<1> QED
  BY <1>1, <1>2, <1>3, SMT DEF x, Place, RingSlots

LEMMA PlaceOnce ==
  ASSUME RtSizes, NEW o \in RingSlots(RingBytes),
         NEW a \in 0 .. RingBytes - 1, NEW b \in 0 .. RingBytes - 1, a # b
  PROVE  Place(o, a) # Place(o, b)
<1>1. RingBytes \in Nat
  BY DEF RtSizes
<1> QED
  BY <1>1, SMT DEF Place, RingSlots

LEMMA PlaceAdd ==
  ASSUME RtSizes, NEW o \in RingSlots(RingBytes),
         NEW a \in Nat, NEW t \in Nat, NEW b, b = a + t, b < RingBytes
  PROVE  Place(Place(o, a), t) = Place(o, b)
<1>1. RingBytes \in Nat
  BY DEF RtSizes
<1> QED
  BY <1>1, SMT DEF Place, RingSlots

(* A frame is stored behind the last. *)
LEMMA HeldStore ==
  ASSUME RtSizes, NEW pos \in [Nat -> Nat], NEW offset \in RingSlots(RingBytes),
         NEW write, NEW ring, NEW stored \in Seq(Incoming), NEW h \in Nat, h <= Len(stored),
         Held(pos, offset, write, ring, stored, h), NEW frame \in Incoming,
         pos[Len(stored) + 1] + R!Taken(frame) < RingBytes,
         NEW new, new = [o \in DOMAIN ring \cup {write} |->
                           IF o = write THEN frame ELSE ring[o]]
  PROVE  \E p \in [Nat -> Nat] :
           Held(p, offset, (write + R!Taken(frame)) % RingBytes, new, Append(stored, frame), h)
<1> DEFINE n == Len(stored)
           t == R!Taken(frame)
           more == Append(stored, frame)
           last == pos[n + 1]
           p == [pos EXCEPT ![n + 2] = last + t]
<1>1. /\ n \in Nat /\ Len(more) = n + 1 /\ more[n + 1] = frame
      /\ \A i \in 1 .. n : more[i] = stored[i]
  BY AppendIs
<1>2. /\ t \in Nat /\ t > 0 /\ RingBytes \in Nat /\ h \in Nat
      /\ offset \in Nat /\ offset < RingBytes
  <2>1. t \in Nat /\ t > 0
    BY TakenIs
  <2>2. RingBytes \in Nat
    BY DEF RtSizes
  <2> HIDE DEF t
  <2>3. offset \in Nat /\ offset < RingBytes
    BY <2>2, SMT DEF RingSlots
  <2> QED
    BY <2>1, <2>2, <2>3
<1>3. /\ pos[h + 1] = 0 /\ write = Place(offset, last)
      /\ \A i, j \in h + 1 .. n + 1 : i < j => pos[i] < pos[j]
      /\ \A k \in h + 1 .. n : /\ pos[k + 1] = pos[k] + R!Taken(stored[k])
                               /\ Place(offset, pos[k]) \in DOMAIN ring
                               /\ ring[Place(offset, pos[k])] = stored[k]
  BY DEF Held
<1>4. last \in Nat /\ last + t < RingBytes /\ h <= n
  BY <1>1
<1> HIDE DEF n, t, more, last
<1>5. /\ p \in [Nat -> Nat] /\ p[n + 2] = last + t
      /\ \A i \in Nat : i # n + 2 => p[i] = pos[i]
  <2>1. last + t \in Nat /\ n + 2 \in Nat
    BY <1>1, <1>2, <1>4
  <2> DEFINE e == last + t
             m == n + 2
  <2> HIDE DEF e, m
  <2>2. p = [pos EXCEPT ![m] = e]
    BY DEF e, m
  <2> HIDE DEF p
  <2>3. p \in [Nat -> Nat] /\ p[m] = e /\ \A i \in Nat : i # m => p[i] = pos[i]
    BY <2>1, <2>2 DEF e, m
  <2> QED
    BY <2>3 DEF e, m
<1>0. /\ n \in Nat /\ h \in Nat /\ h <= n
      /\ \A i \in h + 1 .. n + 1 + 1 : i \in Nat /\ (i # n + 2 => i \in h + 1 .. n + 1)
      /\ \A i \in h + 1 .. n + 1 : i \in Nat /\ i # n + 2
      /\ \A i \in h + 1 .. n + 1 :
           i # n + 1 => /\ i \in h + 1 .. n /\ i \in 1 .. n /\ i + 1 \in Nat
                        /\ i + 1 # n + 2 /\ i < n + 1
      /\ n + 1 \in h + 1 .. n + 1 /\ h + 1 # n + 2 /\ n + 1 + 1 = n + 2 /\ h + 1 \in Nat
  <2>0. n \in Nat /\ h \in Nat /\ h <= n
    BY <1>1, <1>2, <1>4
  <2>1. n + 1 \in h + 1 .. n + 1 /\ h + 1 # n + 2 /\ n + 1 + 1 = n + 2 /\ h + 1 \in Nat
    BY <2>0
  <2>2. \A i \in h + 1 .. n + 1 + 1 : i \in Nat /\ (i # n + 2 => i \in h + 1 .. n + 1)
    BY <2>0
  <2>3. \A i \in h + 1 .. n + 1 : i \in Nat /\ i # n + 2
    BY <2>0
  <2>4. \A i \in h + 1 .. n + 1 :
           i # n + 1 => /\ i \in h + 1 .. n /\ i \in 1 .. n /\ i + 1 \in Nat
                        /\ i + 1 # n + 2 /\ i < n + 1
    BY <2>0
  <2> QED
    BY <2>0, <2>1, <2>2, <2>3, <2>4
<1> HIDE DEF p
<1>6. (write + t) % RingBytes = Place(offset, p[n + 2])
  <2> DEFINE b == last + t
  <2>1. /\ b = last + t /\ b < RingBytes /\ last \in 0 .. RingBytes /\ t \in 0 .. RingBytes
        /\ last \in Nat /\ t \in Nat
    BY <1>2, <1>4
  <2> HIDE DEF b
  <2>2. write \in RingSlots(RingBytes)
    BY <1>3, <2>1, PlaceIs
  <2>3. (write + t) % RingBytes = Place(write, t)
    BY <2>1, <2>2, PlaceIs
  <2>4. Place(write, t) = Place(offset, b)
    BY <1>3, <2>1, PlaceAdd
  <2> QED
    BY <1>5, <2>3, <2>4 DEF b
<1>7. \A i, j \in h + 1 .. n + 1 + 1 : i < j => p[i] < p[j]
  <2> SUFFICES ASSUME NEW i \in h + 1 .. n + 1 + 1, NEW j \in h + 1 .. n + 1 + 1, i < j
               PROVE  p[i] < p[j]
    OBVIOUS
  <2>0. i \in Nat /\ j \in Nat /\ i # n + 2 /\ i \in h + 1 .. n + 1
    <3>1. i \in Nat /\ j \in Nat
      BY <1>0
    <3>2. i # n + 2
      BY <1>0, <3>1
    <3> QED
      BY <1>0, <3>1, <3>2
  <2>1. p[i] = pos[i] /\ pos[i] \in Nat
    BY <1>5, <2>0
  <2>2. CASE j = n + 2
    <3>1. pos[i] <= last
      <4>1. CASE i = n + 1
        <5>1. pos[i] = last
          BY <4>1 DEF last
        <5>2. last <= last
          BY <1>4
        <5> QED
          BY <5>1, <5>2
      <4>2. CASE i # n + 1
        <5>1. i < n + 1 /\ n + 1 \in h + 1 .. n + 1
          BY <1>0, <2>0, <4>2
        <5>2. pos[i] < pos[n + 1]
          BY <1>3, <2>0, <5>1
        <5> QED
          <6>1. pos[i] < last
            BY <5>2 DEF last
          <6> QED
            BY <1>4, <2>1, <6>1
      <4> QED
        BY <4>1, <4>2
    <3> QED
      <4>1. p[j] = last + t /\ p[i] <= last /\ p[i] \in Nat
        BY <1>5, <2>1, <2>2, <3>1
      <4>2. \A e \in Nat : e <= last => e < last + t
        BY <1>2, <1>4
      <4> QED
        BY <4>1, <4>2
  <2>3. CASE j # n + 2
    <3>1. j \in h + 1 .. n + 1 /\ p[j] = pos[j]
      BY <1>0, <1>5, <2>0, <2>3
    <3> QED
      BY <1>3, <2>0, <2>1, <3>1
  <2> QED
    BY <2>2, <2>3
<1>8. ASSUME NEW k \in h + 1 .. n + 1
      PROVE  /\ p[k + 1] = p[k] + R!Taken(more[k])
             /\ Place(offset, p[k]) \in DOMAIN new
             /\ new[Place(offset, p[k])] = more[k]
  <2>1. k \in Nat /\ p[k] = pos[k] /\ pos[k] \in Nat
    BY <1>0, <1>5
  <2>2. CASE k = n + 1
    <3>1. k + 1 = n + 2 /\ p[k] = last /\ Place(offset, p[k]) = write
      BY <1>1, <1>3, <2>1, <2>2 DEF last
    <3> QED
      BY <1>1, <1>5, <2>2, <3>1 DEF t
  <2>3. CASE k # n + 1
    <3>1. /\ k \in h + 1 .. n /\ k \in 1 .. n /\ k + 1 \in Nat /\ k + 1 # n + 2
          /\ k \in h + 1 .. n + 1 /\ n + 1 \in h + 1 .. n + 1 /\ k < n + 1
      BY <1>0, <2>3
    <3>2. /\ pos[k + 1] = pos[k] + R!Taken(stored[k])
          /\ Place(offset, pos[k]) \in DOMAIN ring
          /\ ring[Place(offset, pos[k])] = stored[k]
      BY <1>3, <3>1
    <3>3. pos[k] < last
      BY <1>3, <3>1 DEF last
    <3>4. Place(offset, pos[k]) # Place(offset, last)
      <4> DEFINE a == pos[k]
      <4>1. a \in Nat /\ a < last
        BY <2>1, <3>3
      <4> HIDE DEF a
      <4>2. a \in 0 .. RingBytes - 1 /\ last \in 0 .. RingBytes - 1 /\ a # last
        BY <1>2, <1>4, <4>1
      <4>3. Place(offset, a) # Place(offset, last)
        BY <4>2, PlaceOnce
      <4> QED
        BY <4>3 DEF a
    <3>5. more[k] = stored[k] /\ p[k + 1] = pos[k + 1]
      BY <1>1, <1>5, <3>1
    <3> QED
      BY <1>3, <2>1, <3>2, <3>4, <3>5
  <2> QED
    BY <2>2, <2>3
<1>9. p[h + 1] = 0 /\ p[n + 1 + 1] < RingBytes /\ n + 1 + 1 = n + 2
  <2> QED
    BY <1>0, <1>3, <1>4, <1>5
<1>10. Held(p, offset, (write + t) % RingBytes, new, more, h)
  BY <1>1, <1>6, <1>7, <1>8, <1>9 DEF Held
<1> QED
  BY <1>5, <1>10 DEF t, more

(* The first frame is handled. *)
LEMMA HeldReceive ==
  ASSUME RtSizes, NEW pos \in [Nat -> Nat], NEW offset \in RingSlots(RingBytes),
         NEW write, NEW ring, NEW stored \in Seq(Incoming), NEW h \in Nat, h < Len(stored),
         Held(pos, offset, write, ring, stored, h)
  PROVE  /\ R!Taken(stored[h + 1]) \in 0 .. RingBytes
         /\ offset \in DOMAIN ring /\ ring[offset] = stored[h + 1]
         /\ \E p \in [Nat -> Nat] :
              Held(p, Place(offset, R!Taken(stored[h + 1])), write, ring, stored, h + 1)
<1> DEFINE n == Len(stored)
           t == R!Taken(stored[h + 1])
           first == h + 1 + 1
           p == [i \in Nat |-> IF i \in first .. n + 1 THEN pos[i] - t ELSE 0]
<1>1. /\ pos[h + 1] = 0 /\ pos[n + 1] < RingBytes /\ write = Place(offset, pos[n + 1])
      /\ \A i, j \in h + 1 .. n + 1 : i < j => pos[i] < pos[j]
      /\ \A k \in h + 1 .. n : /\ pos[k + 1] = pos[k] + R!Taken(stored[k])
                               /\ Place(offset, pos[k]) \in DOMAIN ring
                               /\ ring[Place(offset, pos[k])] = stored[k]
  BY DEF Held
<1>2. n \in Nat /\ RingBytes \in Nat
  BY DEF RtSizes
<1> HIDE DEF n
<1>3. /\ h < n /\ h + 1 \in h + 1 .. n /\ h + 1 \in 1 .. n
      /\ first \in h + 1 .. n + 1 /\ n + 1 \in first .. n + 1 /\ first \in Nat /\ n + 1 \in Nat
  <2>1. h < n
    BY DEF n
  <2> QED
    BY <1>2, <2>1
<1>4. t \in Nat
  <2>1. stored[h + 1] \in Incoming
    BY <1>3, ElementOfSeq DEF n
  <2> QED
    BY <2>1, TakenIs
<1>5. pos[first] = t
  <2>1. pos[h + 1 + 1] = pos[h + 1] + t
    BY <1>1, <1>3
  <2> HIDE DEF t
  <2> QED
    BY <1>1, <1>4, <2>1
<1> HIDE DEF t
<1>6. \A i \in first .. n + 1 : i \in Nat /\ i \in h + 1 .. n + 1
  BY <1>2
<1>7. \A i \in first .. n + 1 : pos[i] \in Nat /\ t <= pos[i] /\ pos[i] < RingBytes
  <2> TAKE i \in first .. n + 1
  <2>1. pos[i] \in Nat /\ pos[n + 1] \in Nat /\ i \in h + 1 .. n + 1 /\ i \in Nat
        /\ n + 1 \in h + 1 .. n + 1
    BY <1>3, <1>6
  <2>2. i = first \/ first < i
    BY <1>2
  <2>3. t <= pos[i]
    <3>1. first < i => pos[first] < pos[i]
      BY <1>1, <1>3, <2>1
    <3>2. t <= t
      BY <1>4
    <3>3. t < pos[i] => t <= pos[i]
      BY <1>4, <2>1
    <3> QED
      BY <1>5, <2>2, <3>1, <3>2, <3>3
  <2>4. i = n + 1 \/ i < n + 1
    BY <1>2
  <2>5. pos[i] < RingBytes
    <3>1. i < n + 1 => pos[i] < pos[n + 1]
      BY <1>1, <2>1
    <3>2. pos[i] < pos[n + 1] => pos[i] < RingBytes
      BY <1>1, <1>2, <2>1
    <3> QED
      BY <1>1, <2>4, <3>1, <3>2
  <2> QED
    BY <2>1, <2>3, <2>5
<1>8. t \in 0 .. RingBytes - 1 /\ t \in 0 .. RingBytes
  <2>1. t < RingBytes
    BY <1>3, <1>5, <1>7
  <2> QED
    BY <1>2, <1>4, <2>1
<1>9. /\ \A i \in first .. n + 1 : p[i] = pos[i] - t
      /\ p \in [Nat -> Nat]
  <2>1. ASSUME NEW i \in first .. n + 1 PROVE pos[i] - t \in Nat
    <3> DEFINE b == pos[i]
    <3>1. b \in Nat /\ t <= b
      BY <1>7
    <3> HIDE DEF b, p
    <3>2. b - t \in Nat
      BY <1>4, <3>1
    <3> QED
      BY <3>2 DEF b
  <2> QED
    BY <1>6, <2>1
<1>10. offset \in DOMAIN ring /\ ring[offset] = stored[h + 1]
  <2>1. Place(offset, 0) = offset
    BY <1>2, SMT DEF Place, RingSlots
  <2> QED
    BY <1>1, <1>3, <2>1
<1>11. \A i \in first .. n + 1 : Place(Place(offset, t), p[i]) = Place(offset, pos[i])
  <2> TAKE i \in first .. n + 1
  <2> DEFINE a == p[i]
             b == pos[i]
  <2>1. a = b - t /\ b \in Nat /\ t <= b /\ b < RingBytes
    BY <1>7, <1>9
  <2> HIDE DEF a, b, p
  <2>2. a \in Nat /\ b = t + a
    BY <1>4, <2>1
  <2>3. Place(Place(offset, t), a) = Place(offset, b)
    BY <1>4, <2>1, <2>2, PlaceAdd
  <2> QED
    BY <2>3 DEF a, b
<1> HIDE DEF p
<1>12. p[first] = 0 /\ p[n + 1] < RingBytes /\ write = Place(Place(offset, t), p[n + 1])
  <2>1. p[first] = t - t /\ p[n + 1] = pos[n + 1] - t /\ pos[n + 1] \in Nat
    BY <1>3, <1>5, <1>7, <1>9, <1>6
  <2>2. p[first] = 0
    BY <1>4, <2>1
  <2>3. p[n + 1] < RingBytes
    <3> DEFINE a == p[n + 1]
               b == pos[n + 1]
    <3>1. a = b - t /\ b \in Nat /\ b < RingBytes
      BY <1>1, <2>1
    <3> HIDE DEF a, b
    <3>2. a < RingBytes
      BY <1>2, <1>4, <3>1
    <3> QED
      BY <3>2 DEF a
  <2> QED
    BY <1>1, <1>3, <1>11, <2>2, <2>3
<1>13. ASSUME NEW i \in first .. n + 1, NEW j \in first .. n + 1, i < j PROVE p[i] < p[j]
  <2>1. pos[i] < pos[j]
    BY <1>1, <1>6, <1>13
  <2>2. pos[i] \in Nat /\ pos[j] \in Nat /\ p[i] = pos[i] - t /\ p[j] = pos[j] - t
    BY <1>7, <1>9
  <2> QED
    BY <1>4, <2>1, <2>2
<1>14. ASSUME NEW k \in first .. n
       PROVE  /\ p[k + 1] = p[k] + R!Taken(stored[k])
              /\ Place(Place(offset, t), p[k]) \in DOMAIN ring
              /\ ring[Place(Place(offset, t), p[k])] = stored[k]
  <2>1. k \in first .. n + 1 /\ k + 1 \in first .. n + 1 /\ k \in h + 1 .. n /\ k \in 1 .. n
    BY <1>2
  <2>2. /\ pos[k + 1] = pos[k] + R!Taken(stored[k])
        /\ Place(offset, pos[k]) \in DOMAIN ring
        /\ ring[Place(offset, pos[k])] = stored[k]
    BY <1>1, <2>1
  <2>3. stored[k] \in Incoming
    BY <2>1, ElementOfSeq DEF n
  <2> DEFINE e == R!Taken(stored[k])
  <2>4. e \in Nat
    BY <2>3, TakenIs
  <2> HIDE DEF e
  <2>5. pos[k] \in Nat /\ p[k] = pos[k] - t /\ p[k + 1] = pos[k + 1] - t
    BY <1>7, <1>9, <2>1
  <2>6. p[k + 1] = p[k] + e
    <3>1. pos[k + 1] = pos[k] + e
      BY <2>2 DEF e
    <3> QED
      BY <1>4, <2>4, <2>5, <3>1
  <2> QED
    BY <1>11, <2>1, <2>2, <2>6 DEF e
<1>15. Held(p, Place(offset, t), write, ring, stored, h + 1)
  BY <1>12, <1>13, <1>14 DEF Held, n
<1> QED
  BY <1>8, <1>9, <1>10, <1>15 DEF t

(* CAPR counts from sixteen bytes before, in sixteen bits. *)
Capr(o) == (o - 16 + 65536) % 65536
Names(capr, o) == capr \in Int /\ (capr + 16) % RingBytes = o

LEMMA CaprIs ==
  ASSUME RtSizes, NEW o \in RingSlots(RingBytes)
  PROVE  Names(Capr(o), o)
<1> DEFINE c == Capr(o)
<1>0. c = (o - 16 + 65536) % 65536
  BY DEF Capr
<1> HIDE DEF c
<1>1. PICK m \in Nat : 65536 = RingBytes * m
  BY DEF RtSizes
<1>2. RingBytes \in Nat \ {0} /\ o \in 0 .. RingBytes - 1
  BY DEF RtSizes, RingSlots
<1>3. RingBytes <= 65536
  <2>1. m # 0
    BY <1>1, <1>2, SMT
  <2> QED
    BY <1>1, <1>2, <2>1, SMT
<1>4. o \in Nat /\ o < 65536
  BY <1>2, <1>3, SMT
<1>5. ASSUME o >= 16 PROVE c \in Int /\ (c + 16) % RingBytes = o
  <2>1. c = o - 16
    BY <1>0, <1>4, <1>5, SMT
  <2>2. c \in Int /\ c + 16 = RingBytes * 0 + o
    BY <1>2, <1>4, <2>1, SMT
  <2>3. (RingBytes * 0 + o) % RingBytes = o
    BY <1>2, WholeRounds
  <2> QED
    BY <2>2, <2>3
<1>6. ASSUME o < 16 PROVE c \in Int /\ (c + 16) % RingBytes = o
  <2>1. c = o + 65520
    BY <1>0, <1>4, <1>6, SMT
  <2>2. c \in Int /\ c + 16 = RingBytes * m + o
    BY <1>1, <1>4, <2>1, SMT
  <2>3. (RingBytes * m + o) % RingBytes = o
    BY <1>2, WholeRounds
  <2> QED
    BY <2>2, <2>3
<1>7. c \in Int /\ (c + 16) % RingBytes = o
  BY <1>4, <1>5, <1>6
<1> QED
  BY <1>7 DEF c, Names

RxTyped ==
  /\ rtRx \in [offset : RingSlots(RingBytes), capr : Int, at : RxAt]
  /\ \E D : rtCard \in [write : RingSlots(RingBytes), rok : BOOLEAN, ring : D]

RxIn ==
  /\ TxIn /\ RxTyped
  /\ (rtRx.capr + 16) % RingBytes = rtRx.offset
  /\ RxInv(rtRx.offset, rtCard.write, rtCard.ring, rtLog.stored, rtLog.handled)

LEMMA RxInit == ASSUME RtSizes, R!RtlInit PROVE RxIn
<1> DEFINE ring == [o \in {} |-> 0]
           pos == [i \in Nat |-> 0]
           capr == RingBytes - 16
<1>1. /\ rtRx = [offset |-> 0, capr |-> capr, at |-> "idle"]
      /\ rtCard = [write |-> 0, rok |-> FALSE, ring |-> ring]
      /\ rtLog.stored = <<>> /\ rtLog.handled = <<>>
  BY DEF R!RtlInit
<1>2. RingBytes \in Nat /\ 0 \in RingSlots(RingBytes) /\ 0 \in 0 .. RingBytes
      /\ RingBytes \in 0 .. RingBytes /\ RingBytes > 0
  BY DEF RtSizes, RingSlots
<1>3. capr \in Int /\ capr + 16 = 0 + RingBytes
  BY <1>2
<1>4. (0 + RingBytes) % RingBytes = 0
  <2>1. (0 + RingBytes) % RingBytes = Place(0, RingBytes)
    BY <1>2, PlaceIs
  <2>2. Place(0, RingBytes) = 0
    BY <1>2, SMT DEF Place
  <2> QED
    BY <2>1, <2>2
<1> HIDE DEF capr, ring
<1>5. RxTyped
  <2>1. rtRx \in [offset : RingSlots(RingBytes), capr : Int, at : RxAt]
    BY <1>1, <1>2, <1>3 DEF RxAt
  <2>2. ring \in {ring}
    OBVIOUS
  <2>3. rtCard \in [write : RingSlots(RingBytes), rok : BOOLEAN, ring : {ring}]
    BY <1>1, <1>2, <2>2
  <2> QED
    BY <2>1, <2>3 DEF RxTyped
<1>6. rtRx.offset = 0 /\ rtRx.capr = capr /\ rtCard.write = 0 /\ rtCard.ring = ring
  BY <1>1
<1>7. Len(<<>>) = 0 /\ <<>> \in Seq(Incoming) /\ 1 .. 0 = {} /\ 0 = 4 * 0 /\ 0 + 1 = 1
  OBVIOUS
<1>8. Held(pos, 0, 0, ring, <<>>, 0)
  <2>1. pos[1] = 0
    OBVIOUS
  <2>2. Place(0, 0) = 0
    BY <1>2, SMT DEF Place
  <2>3. \A i, j \in 1 .. 1 : ~(i < j)
    BY SMT
  <2> HIDE DEF pos
  <2> QED
    BY <1>2, <1>7, <2>1, <2>2, <2>3 DEF Held
<1>9. pos \in [Nat -> Nat]
  OBVIOUS
<1> HIDE DEF pos
<1>10. RxInv(0, 0, ring, <<>>, <<>>)
  BY <1>2, <1>7, <1>8, <1>9 DEF RxInv, Begins
<1> QED
  BY <1>1, <1>3, <1>4, <1>5, <1>6, <1>10, TxInit DEF RxIn

(* What the driver computes from CAPR and the write offset.                *)
LEMMA UsedIs ==
  ASSUME RtSizes, RxIn, NEW pos \in [Nat -> Nat],
         Held(pos, rtRx.offset, rtCard.write, rtCard.ring, rtLog.stored, Len(rtLog.handled))
  PROVE  /\ R!Used = pos[Len(rtLog.stored) + 1]
         /\ R!Empty => pos[Len(rtLog.stored) + 1] = 0
         /\ pos[Len(rtLog.stored) + 1] = 0 => R!Empty
<1> DEFINE a == pos[Len(rtLog.stored) + 1]
           o == rtRx.offset
           w == rtCard.write
           x == w + RingBytes - o
<1>1. RingBytes \in Nat \ {0, 1}
  BY DEF RtSizes
<1>2. a \in Nat /\ a < RingBytes /\ w = Place(o, a)
  <2>1. Len(rtLog.stored) + 1 \in Nat
    <3>1. rtLog.stored \in Seq(Incoming)
      BY DEF RxIn, RxInv
    <3>2. Len(rtLog.stored) \in Nat
      BY <3>1
    <3> QED
      BY <3>2
  <2> QED
    BY <2>1 DEF Held
<1>3. o \in 0 .. RingBytes - 1
  BY DEF RxIn, RxTyped, RingSlots
<1>4. R!CardRead = o
  BY DEF RxIn, R!CardRead
<1> HIDE DEF a, o
<1>5. w = IF o + a < RingBytes THEN o + a ELSE o + a - RingBytes
  BY <1>2 DEF Place
<1> HIDE DEF w
<1>6. x \in 0 .. 2 * RingBytes - 1 /\ a = IF x < RingBytes THEN x ELSE x - RingBytes
  BY <1>1, <1>2, <1>3, <1>5, SMT
<1>7. w = o <=> a = 0
  BY <1>1, <1>2, <1>3, <1>5, SMT
<1>8. R!Used = x % RingBytes
  BY <1>4 DEF R!Used, w
<1> HIDE DEF x
<1>9. x % RingBytes = a
  BY <1>1, <1>6, ModOnce
<1> QED
  BY <1>4, <1>7, <1>8, <1>9 DEF R!Empty, w, a

LEMMA NextOffsetIs ==
  ASSUME RtSizes, RxIn, NEW frame \in Incoming, R!Taken(frame) \in 0 .. RingBytes
  PROVE  /\ R!NextOffset(frame) = Place(rtRx.offset, R!Taken(frame))
         /\ R!NextOffset(frame) \in RingSlots(RingBytes)
         /\ \E q \in Nat : R!NextOffset(frame) = 4 * q
<1> DEFINE o == rtRx.offset
           b == frame.bytes
           t == R!Taken(frame)
           s == Place(o, t)
<1>1. PICK q \in Nat : o = 4 * q
  BY DEF RxIn, RxInv
<1>2. PICK m \in Nat : RingBytes = 4 * m
  BY DEF RtSizes
<1>3. b \in Nat /\ o \in RingSlots(RingBytes)
  BY DEF RtSizes, RxIn, RxTyped
<1>4. t = ((b + 4 + 4 + 3) \div 4) * 4
  BY DEF R!Taken
<1>5. R!NextOffset(frame) = (((o + b + 4 + 4 + 3) \div 4) * 4) % RingBytes
  BY DEF R!NextOffset
<1> HIDE DEF o, b, t
<1>6. ((o + b + 4 + 4 + 3) \div 4) * 4 = o + t
  BY <1>1, <1>3, <1>4, SMT
<1>7. (o + t) % RingBytes = s /\ s \in RingSlots(RingBytes)
  BY <1>3, PlaceIs DEF t
<1>8. \E r \in Nat : s = 4 * r
  <2> DEFINE u == (b + 4 + 4 + 3) \div 4
  <2>1. u \in Nat /\ t = 4 * u
    BY <1>3, <1>4, SMT
  <2> HIDE DEF u
  <2>2. s = IF o + t < RingBytes THEN o + t ELSE o + t - RingBytes
    BY DEF Place
  <2>3. CASE o + t < RingBytes
    <3>1. q + u \in Nat /\ s = 4 * (q + u)
      BY <1>1, <2>1, <2>2, <2>3, SMT
    <3> QED
      BY <3>1
  <2>4. CASE ~(o + t < RingBytes)
    <3>1. q + u - m \in Nat /\ s = 4 * (q + u - m)
      BY <1>1, <1>2, <2>1, <2>2, <2>4, SMT
    <3> QED
      BY <3>1
  <2> QED
    BY <2>3, <2>4
<1> QED
  BY <1>5, <1>6, <1>7, <1>8 DEF o, t

LEMMA RxStore == ASSUME RtSizes, RxIn, NEW frame \in Incoming, R!Store(frame), TxIn' PROVE RxIn'
<1> DEFINE t == R!Taken(frame)
           write == (rtCard.write + t) % RingBytes
           ring == [o \in DOMAIN rtCard.ring \cup {rtCard.write} |->
                      IF o = rtCard.write THEN frame ELSE rtCard.ring[o]]
           stored == Append(rtLog.stored, frame)
           h == Len(rtLog.handled)
<1>1. /\ R!Used + t < RingBytes
      /\ rtCard' = [rok |-> TRUE, write |-> write, ring |-> ring]
      /\ rtLog' = [rtLog EXCEPT !.stored = stored]
      /\ rtRx' = rtRx
  BY DEF R!Store
<1>2. PICK F : rtLog \in RtLogs(F)
  BY DEF RxIn, TxIn, TxTyped
<1>3. /\ rtLog.stored \in Seq(Incoming) /\ rtLog.handled \in Seq(Incoming)
      /\ Begins(rtLog.handled, rtLog.stored)
      /\ rtRx.offset \in RingSlots(RingBytes) /\ \E q \in Nat : rtRx.offset = 4 * q
  BY DEF RxIn, RxInv
<1>4. PICK pos \in [Nat -> Nat] :
        Held(pos, rtRx.offset, rtCard.write, rtCard.ring, rtLog.stored, h)
  BY DEF RxIn, RxInv
<1>5. /\ h \in Nat /\ h <= Len(rtLog.stored)
      /\ stored \in Seq(Incoming) /\ Begins(rtLog.handled, stored)
  <2>1. h \in Nat
    BY <1>3, LenProperties
  <2>2. h <= Len(rtLog.stored)
    BY <1>3 DEF Begins
  <2>3. stored \in Seq(Incoming)
    BY <1>3, AppendIs
  <2>4. Begins(rtLog.handled, stored)
    BY <1>3, BeginsLonger
  <2> QED
    BY <2>1, <2>2, <2>3, <2>4
<1>6. pos[Len(rtLog.stored) + 1] + t < RingBytes
  <2>1. R!Used = pos[Len(rtLog.stored) + 1]
    BY <1>4, UsedIs
  <2> QED
    BY <1>1, <2>1
<1>7. \E p \in [Nat -> Nat] : Held(p, rtRx.offset, write, ring, stored, h)
  BY <1>3, <1>4, <1>5, <1>6, HeldStore
<1>8. write \in RingSlots(RingBytes)
  <2>1. rtCard.write \in RingSlots(RingBytes)
    BY DEF RxIn, RxTyped
  <2>2. RingBytes \in Nat \ {0} /\ t \in Nat
    BY TakenIs DEF RtSizes
  <2> HIDE DEF t
  <2> QED
    BY <2>1, <2>2, SMT DEF RingSlots
<1> HIDE DEF write, ring, stored
<1>9. rtCard'.write = write /\ rtCard'.ring = ring /\ rtCard'.rok = TRUE
  BY <1>1
<1>10. rtCard' \in [write : RingSlots(RingBytes), rok : BOOLEAN, ring : {ring}]
  BY <1>1, <1>8
<1>11. rtLog'.stored = stored /\ rtLog'.handled = rtLog.handled
  BY <1>1, <1>2, SMT DEF RtLogs
<1>12. RxTyped'
  BY <1>1, <1>10 DEF RxIn, RxTyped
<1>13. RxInv(rtRx.offset, write, ring, stored, rtLog.handled)
  BY <1>3, <1>5, <1>7 DEF RxInv
<1>14. RxInv(rtRx.offset, rtCard.write, rtCard.ring, rtLog.stored, rtLog.handled)'
  BY <1>1, <1>9, <1>11, <1>13
<1> QED
  BY <1>1, <1>12, <1>14 DEF RxIn

(* The frame that begins at the driver's offset is the next one stored. *)
LEMMA ReceiveFinds ==
  ASSUME RtSizes, RxIn, ~R!Empty
  PROVE  LET h == Len(rtLog.handled)
             f == rtLog.stored[h + 1]
         IN /\ h < Len(rtLog.stored) /\ f \in Incoming
            /\ rtRx.offset \in DOMAIN rtCard.ring /\ R!FrameHere = f
<1> DEFINE h == Len(rtLog.handled)
           f == rtLog.stored[h + 1]
<1>1. /\ rtLog.stored \in Seq(Incoming) /\ rtLog.handled \in Seq(Incoming)
      /\ Begins(rtLog.handled, rtLog.stored)
      /\ rtRx.offset \in RingSlots(RingBytes)
  BY DEF RxIn, RxInv
<1>2. PICK pos \in [Nat -> Nat] :
        Held(pos, rtRx.offset, rtCard.write, rtCard.ring, rtLog.stored, h)
  BY DEF RxIn, RxInv
<1>3. h \in Nat /\ Len(rtLog.stored) \in Nat /\ h <= Len(rtLog.stored)
  <2>1. h \in Nat /\ Len(rtLog.stored) \in Nat
    BY <1>1, LenProperties
  <2>2. h <= Len(rtLog.stored)
    BY <1>1 DEF Begins
  <2> QED
    BY <2>1, <2>2
<1>4. h < Len(rtLog.stored)
  <2>1. pos[Len(rtLog.stored) + 1] # 0
    <3>1. pos[Len(rtLog.stored) + 1] = 0 => R!Empty
      BY <1>2, UsedIs
    <3> QED
      BY <3>1
  <2>2. pos[h + 1] = 0
    BY <1>2 DEF Held
  <2> HIDE DEF h
  <2>3. h # Len(rtLog.stored)
    BY <2>1, <2>2
  <2> QED
    BY <1>3, <2>3
<1>5. /\ R!Taken(f) \in 0 .. RingBytes
      /\ rtRx.offset \in DOMAIN rtCard.ring /\ rtCard.ring[rtRx.offset] = f
      /\ \E p \in [Nat -> Nat] : Held(p, Place(rtRx.offset, R!Taken(f)), rtCard.write,
                                      rtCard.ring, rtLog.stored, h + 1)
  BY <1>1, <1>2, <1>3, <1>4, HeldReceive
<1>6. R!FrameHere = f
  BY <1>5 DEF R!FrameHere
<1>7. f \in Incoming
  BY <1>1, <1>4, BeginsNext
<1> QED
  BY <1>4, <1>5, <1>6, <1>7

LEMMA RxReceive == ASSUME RtSizes, RxIn, R!Receive, TxIn' PROVE RxIn'
<1> DEFINE e == IF rtRx.offset \in DOMAIN rtCard.ring THEN R!FrameHere ELSE R!NoFrame
           offset == R!NextOffset(R!FrameHere)
           capr == Capr(offset)
           h == Len(rtLog.handled)
           f == rtLog.stored[h + 1]
           handled == Append(rtLog.handled, e)
<1>0. TxIn /\ rtTx \in RtTxs /\ TxOf(rtTx, rtLog)
  BY DEF RxIn, TxIn, TxTyped
<1>1. /\ ~R!Empty
      /\ rtRx' = [rtRx EXCEPT !.offset = offset, !.capr = capr]
      /\ rtCard' = rtCard
      /\ \/ rtLog' = [rtLog EXCEPT !.handled = handled]
         \/ \E answer, to : rtLog' = [R!Sent(answer, to) EXCEPT !.handled = Append(@, e)]
                           /\ rtTx' = R!Send(rtTx)
  <2>1. ~R!Empty /\ rtCard' = rtCard
    BY DEF R!Receive
  <2>2. rtRx' = [rtRx EXCEPT !.offset = offset, !.capr = capr]
    BY DEF R!Receive, Capr
  <2>3. \/ rtLog' = R!Handled(rtLog)
        \/ \E answer, to : rtLog' = R!Handled(R!Sent(answer, to)) /\ rtTx' = R!Send(rtTx)
    BY DEF R!Receive
  <2>4. \/ rtLog' = [rtLog EXCEPT !.handled = handled]
        \/ \E answer, to : rtLog' = [R!Sent(answer, to) EXCEPT !.handled = Append(@, e)]
                          /\ rtTx' = R!Send(rtTx)
    BY <2>3 DEF R!Handled
  <2> HIDE DEF offset, capr, handled, e
  <2> QED
    BY <2>1, <2>2, <2>4
<1>2. PICK F : rtLog \in RtLogs(F)
  BY DEF RxIn, TxIn, TxTyped
<1>3. /\ rtLog.stored \in Seq(Incoming) /\ rtLog.handled \in Seq(Incoming)
      /\ Begins(rtLog.handled, rtLog.stored)
      /\ rtRx.offset \in RingSlots(RingBytes)
  BY DEF RxIn, RxInv
<1>4. PICK pos \in [Nat -> Nat] :
        Held(pos, rtRx.offset, rtCard.write, rtCard.ring, rtLog.stored, h)
  BY DEF RxIn, RxInv
<1>5. h \in Nat /\ Len(rtLog.stored) \in Nat /\ h <= Len(rtLog.stored)
  <2>1. h \in Nat /\ Len(rtLog.stored) \in Nat
    BY <1>3, LenProperties
  <2>2. h <= Len(rtLog.stored)
    BY <1>3 DEF Begins
  <2> QED
    BY <2>1, <2>2
<1>6. h < Len(rtLog.stored)
  BY <1>1, ReceiveFinds
<1>7. /\ R!Taken(f) \in 0 .. RingBytes
      /\ rtRx.offset \in DOMAIN rtCard.ring /\ rtCard.ring[rtRx.offset] = f
      /\ \E p \in [Nat -> Nat] : Held(p, Place(rtRx.offset, R!Taken(f)), rtCard.write,
                                      rtCard.ring, rtLog.stored, h + 1)
  BY <1>3, <1>4, <1>5, <1>6, HeldReceive
<1>8. R!FrameHere = f /\ e = f
  BY <1>7 DEF R!FrameHere
<1>9. f \in Incoming /\ Begins(Append(rtLog.handled, f), rtLog.stored)
  BY <1>3, <1>6, BeginsNext
<1>10. handled \in Seq(Incoming) /\ Len(handled) = h + 1 /\ Begins(handled, rtLog.stored)
  <2>1. handled = Append(rtLog.handled, f)
    BY <1>8
  <2> HIDE DEF handled
  <2>2. handled \in Seq(Incoming) /\ Len(handled) = h + 1
    BY <1>3, <1>9, <2>1, AppendIs
  <2> QED
    BY <1>9, <2>1, <2>2
<1>11. /\ offset = Place(rtRx.offset, R!Taken(f))
       /\ offset \in RingSlots(RingBytes) /\ \E q \in Nat : offset = 4 * q
  <2>1. offset = R!NextOffset(f)
    BY <1>8
  <2> HIDE DEF offset, f
  <2> QED
    BY <1>7, <1>9, <2>1, NextOffsetIs
<1>12. capr \in Int /\ (capr + 16) % RingBytes = offset
  <2>1. Names(Capr(offset), offset)
    <3> HIDE DEF offset
    <3> QED
      BY <1>11, CaprIs
  <2> QED
    BY <2>1 DEF Names
<1>13. rtLog'.stored = rtLog.stored /\ rtLog'.handled = handled
  <2> HIDE DEF e
  <2>1. CASE rtLog' = [rtLog EXCEPT !.handled = handled]
    <3> HIDE DEF handled
    <3> QED
      BY <1>2, <2>1, SMT DEF RtLogs
  <2>2. CASE \E answer, to : /\ rtLog' = [R!Sent(answer, to) EXCEPT !.handled = Append(@, e)]
                            /\ rtTx' = R!Send(rtTx)
    <3>1. PICK answer, to : /\ rtLog' = [R!Sent(answer, to) EXCEPT !.handled = Append(@, e)]
                            /\ rtTx' = R!Send(rtTx)
      BY <2>2
    <3> DEFINE log == R!Sent(answer, to)
               G == F \cup {answer, to}
    <3>2. log \in RtLogs(G) /\ log.stored = rtLog.stored /\ log.handled = rtLog.handled
      <4>1. rtTx' = R!Send(rtTx) /\ log = R!Sent(answer, to)
        BY <3>1
      <4> HIDE DEF log
      <4> QED
        BY <1>0, <1>2, <4>1, TxSent
    <3>3. rtLog' = [log EXCEPT !.handled = Append(log.handled, e)]
      BY <3>1
    <3> DEFINE new == Append(log.handled, e)
    <3>4. new = handled
      BY <3>2
    <3> HIDE DEF log, G, new, handled
    <3>5. rtLog'.stored = log.stored /\ rtLog'.handled = new
      <4>1. rtLog' = [log EXCEPT !.handled = new]
        BY <3>3 DEF new
      <4> QED
        BY <3>2, <4>1, SMT DEF RtLogs
    <3> QED
      BY <3>2, <3>4, <3>5
  <2> QED
    BY <1>1, <2>1, <2>2
<1> HIDE DEF e, offset, capr, handled
<1>14. rtRx'.offset = offset /\ rtRx'.capr = capr
  BY <1>1, SMT DEF RxIn, RxTyped
<1>15. RxTyped'
  <2>1. rtRx \in [offset : RingSlots(RingBytes), capr : Int, at : RxAt]
    BY DEF RxIn, RxTyped
  <2>2. rtRx' \in [offset : RingSlots(RingBytes), capr : Int, at : RxAt]
    BY <1>1, <1>11, <1>12, <2>1
  <2> QED
    BY <1>1, <2>2 DEF RxIn, RxTyped
<1>16. RxInv(offset, rtCard.write, rtCard.ring, rtLog.stored, handled)
  BY <1>3, <1>7, <1>10, <1>11 DEF RxInv
<1>17. RxInv(rtRx.offset, rtCard.write, rtCard.ring, rtLog.stored, rtLog.handled)'
  BY <1>1, <1>13, <1>14, <1>16
<1> QED
  BY <1>12, <1>14, <1>15, <1>17 DEF RxIn

(* What changes neither ring, nor what is stored and handled. *)
LEMMA RxOther ==
  ASSUME RtSizes, RxIn, TxIn', RxTyped', rtRx'.offset = rtRx.offset, rtRx'.capr = rtRx.capr,
         rtCard'.write = rtCard.write, rtCard'.ring = rtCard.ring,
         rtLog'.stored = rtLog.stored, rtLog'.handled = rtLog.handled
  PROVE  RxIn'
<1>1. RxInv(rtRx.offset, rtCard.write, rtCard.ring, rtLog.stored, rtLog.handled)'
  BY DEF RxIn
<1> QED
  BY <1>1 DEF RxIn

LEMMA RxStep == RtSizes /\ RxIn /\ [R!RtlNext]_(R!rtVars) => RxIn'
<1> SUFFICES ASSUME RtSizes, RxIn, [R!RtlNext]_(R!rtVars) PROVE RxIn'
  OBVIOUS
<1>1. TxIn'
  BY TxStep DEF RxIn
<1>2. PICK F : rtLog \in RtLogs(F)
  BY DEF RxIn, TxIn, TxTyped
<1>3. CASE UNCHANGED R!rtVars
  <2>1. RxTyped'
    BY <1>3 DEF RxIn, RxTyped, R!rtVars
  <2> QED
    BY <1>1, <1>3, <2>1, RxOther DEF R!rtVars
<1>4. ASSUME NEW at \in RxAt, rtRx' = [rtRx EXCEPT !.at = at],
             \/ rtCard' = rtCard
             \/ rtCard' = [rtCard EXCEPT !.rok = FALSE],
             rtLog' = rtLog
      PROVE  RxIn'
  <2>1. PICK D : rtCard \in [write : RingSlots(RingBytes), rok : BOOLEAN, ring : D]
    BY DEF RxIn, RxTyped
  <2>2. rtRx \in [offset : RingSlots(RingBytes), capr : Int, at : RxAt]
    BY DEF RxIn, RxTyped
  <2>3. rtRx' \in [offset : RingSlots(RingBytes), capr : Int, at : RxAt]
    BY <1>4, <2>2
  <2>4. rtRx'.offset = rtRx.offset /\ rtRx'.capr = rtRx.capr
    BY <1>4, <2>2, SMT
  <2>5. FALSE \in BOOLEAN
    OBVIOUS
  <2>6. rtCard' \in [write : RingSlots(RingBytes), rok : BOOLEAN, ring : D]
    BY <1>4, <2>1, <2>5
  <2>7. rtCard'.write = rtCard.write /\ rtCard'.ring = rtCard.ring
    BY <1>4, <2>1, SMT
  <2>8. RxTyped'
    BY <2>3, <2>6 DEF RxTyped
  <2> QED
    BY <1>1, <1>4, <2>4, <2>7, <2>8, RxOther
<1>5. CASE R!Interrupt \/ R!Acknowledge \/ R!Drained \/ R!Stuck
  BY <1>4, <1>5 DEF RxAt, R!Interrupt, R!Acknowledge, R!Drained, R!Stuck
<1>6. ASSUME NEW ip, R!Ping(ip) PROVE RxIn'
  <2> DEFINE frame == R!ArpRequest(ip)
             log == R!Sent(frame, 0)
             G == F \cup {frame, 0}
  <2>1. /\ rtLog' = [log EXCEPT !.pings = log.pings + 1] /\ rtTx' = R!Send(rtTx)
        /\ rtRx' = rtRx /\ rtCard' = rtCard
    BY <1>6 DEF R!Ping
  <2>2. log \in RtLogs(G) /\ log.stored = rtLog.stored /\ log.handled = rtLog.handled
    BY <1>2, <2>1, TxSent DEF RxIn, TxIn, TxTyped
  <2> DEFINE pings == log.pings + 1
  <2>3. rtLog' = [log EXCEPT !.pings = pings]
    BY <2>1
  <2> HIDE DEF log, G, pings
  <2>4. rtLog'.stored = rtLog.stored /\ rtLog'.handled = rtLog.handled
    BY <2>2, <2>3, SMT DEF RtLogs
  <2>5. RxTyped'
    BY <2>1 DEF RxIn, RxTyped
  <2> QED
    BY <1>1, <2>1, <2>4, <2>5, RxOther
<1>7. CASE R!Transmit
  <2>1. PICK wire, inOrder : rtLog' = [rtLog EXCEPT !.wire = wire, !.inOrder = inOrder]
    BY <1>7 DEF R!Transmit
  <2>2. rtLog'.stored = rtLog.stored /\ rtLog'.handled = rtLog.handled
    BY <1>2, <2>1, SMT DEF RtLogs
  <2>3. RxTyped' /\ rtRx' = rtRx /\ rtCard' = rtCard
    BY <1>7 DEF RxIn, RxTyped, R!Transmit
  <2> QED
    BY <1>1, <2>2, <2>3, RxOther
<1> QED
  BY <1>1, <1>3, <1>5, <1>6, <1>7, RxStore, RxReceive DEF R!RtlNext, R!Handler

(* net_receive is given the frames the card stored, each once and in       *)
(* order, and the ring is believed empty only when they all were.          *)
THEOREM CardReceivesInOrder ==
  ASSUME RtSizes
  PROVE  DriversSpec => []ReceivedInOrder
<1>1. RxIn => ReceivedInOrder
  <2> SUFFICES ASSUME RxIn PROVE R!ReceivedInOrder
    BY DEF ReceivedInOrder
  <2>1. /\ rtLog.stored \in Seq(Incoming) /\ rtLog.handled \in Seq(Incoming)
        /\ Begins(rtLog.handled, rtLog.stored)
    BY DEF RxIn, RxInv
  <2>2. PICK pos \in [Nat -> Nat] :
          Held(pos, rtRx.offset, rtCard.write, rtCard.ring, rtLog.stored, Len(rtLog.handled))
    BY DEF RxIn, RxInv
  <2>3. /\ Len(rtLog.handled) <= Len(rtLog.stored)
        /\ rtLog.handled = SubSeq(rtLog.stored, 1, Len(rtLog.handled))
    BY <2>1, PrefixIs
  <2>4. R!Prefix(rtLog.handled, rtLog.stored)
    BY <2>3 DEF R!Prefix
  <2>5. ASSUME R!Empty PROVE rtLog.handled = rtLog.stored
    <3> DEFINE h == Len(rtLog.handled)
               n == Len(rtLog.stored)
    <3>1. h \in Nat /\ n \in Nat /\ h <= n
      <4>1. h \in Nat /\ n \in Nat
        BY <2>1, LenProperties
      <4> QED
        BY <2>3, <4>1
    <3>2. pos[n + 1] = 0
      BY <2>2, <2>5, UsedIs
    <3>3. /\ pos[h + 1] = 0
          /\ \A i, j \in h + 1 .. n + 1 : i < j => pos[i] < pos[j]
      BY <2>2 DEF Held
    <3>4. h = n
      <4>1. ASSUME h < n PROVE FALSE
        <5>1. h + 1 \in h + 1 .. n + 1 /\ n + 1 \in h + 1 .. n + 1 /\ h + 1 < n + 1
          <6> HIDE DEF h, n
          <6> QED
            BY <3>1, <4>1
        <5>2. pos[h + 1] < pos[n + 1]
          BY <3>3, <5>1
        <5> QED
          BY <3>2, <3>3, <5>2
      <4> HIDE DEF h, n
      <4> QED
        BY <3>1, <4>1
    <3> QED
      BY <2>1, <3>4, SeqEqual DEF Begins
  <2> QED
    BY <2>4, <2>5 DEF R!ReceivedInOrder
<1>2. DriversInit => RxIn
  BY RxInit DEF DriversInit
<1>3. RxIn /\ [DriversNext]_AllVars => RxIn'
  BY RxStep, OtherParts
<1> QED
  BY <1>1, <1>2, <1>3, PTL DEF DriversSpec

------------------------------------------------------------------------------
(* Net: the checksums. *)
(* The sum that the code folds as it goes and the sum in one: the same but *)
(* for whole rounds of 0xffff.                                             *)
FoldedFrom(words) ==
  CHOOSE f : f = [i \in 0 .. Len(words) |-> IF i = 0 THEN E!Ones ELSE E!Plus(f[i - 1], words[i])]
TotalFrom(words) ==
  CHOOSE f : f = [i \in 0 .. Len(words) |-> IF i = 0 THEN 0 ELSE f[i - 1] + words[i]]

LEMMA OnesIs == E!Ones \in Nat \ {0, 1} /\ Base \in Nat \ {0, 1} /\ E!Ones = Base * Base - 1
  BY NetAssumption, SMT DEF E!Ones

LEMMA PlusIs ==
  ASSUME NEW x \in 1 .. E!Ones, NEW w \in Nat
  PROVE  E!Plus(x, w) \in 1 .. E!Ones /\ \E q \in Int : x + w = E!Plus(x, w) + q * E!Ones
<1> DEFINE M == E!Ones
           y == x + w - 1
<1>1. M \in Nat \ {0} /\ y \in Nat
  BY OnesIs
<1>2. E!Plus(x, w) = (y % M) + 1
  BY DEF E!Plus
<1> HIDE DEF M, y
<1>3. y % M \in 0 .. M - 1 /\ y = M * (y \div M) + (y % M) /\ y \div M \in Int
  BY <1>1
<1>4. (y % M) + 1 \in 1 .. M
  BY <1>1, <1>3
<1>5. M * (y \div M) = (y \div M) * M
  BY <1>1, <1>3
<1>6. x + w = y + 1
  BY DEF y
<1>7. x + w = ((y % M) + 1) + (y \div M) * M
  BY <1>1, <1>3, <1>5, <1>6
<1> QED
  BY <1>2, <1>3, <1>4, <1>7 DEF M

LEMMA FoldedIs ==
  ASSUME NEW words \in Seq(Nat)
  PROVE  LET f == FoldedFrom(words) IN
         /\ f[0] = E!Ones /\ \A i \in 1 .. Len(words) : f[i] = E!Plus(f[i - 1], words[i])
<1> DEFINE n == Len(words)
           Z == 1 .. E!Ones
           Goes(f) == f = [i \in 0 .. n |-> IF i = 0 THEN E!Ones ELSE E!Plus(f[i - 1], words[i])]
           w == FoldedFrom(words)
           step == [i \in 1 .. n |-> [x \in Z |-> E!Plus(x, words[i])]]
<1>1. n \in Nat /\ E!Ones \in Z /\ \A i \in 1 .. n : words[i] \in Nat
  BY OnesIs
<1>2. step \in Steps(n, Z)
  <2>1. \A x \in Z, i \in 1 .. n : E!Plus(x, words[i]) \in Z
    BY <1>1, PlusIs
  <2> QED
    BY <2>1 DEF Steps
<1>3. \A i \in 1 .. n, x \in Z : step[i][x] = E!Plus(x, words[i])
  OBVIOUS
<1>4. w = CHOOSE f : Goes(f)
  BY DEF FoldedFrom
<1> HIDE DEF step, Z, w, n
<1>5. PICK g : Follows(g, n, Z, E!Ones, step)
  BY <1>1, <1>2, Iterated, Zenon
<1>6. g \in [0 .. n -> Z] /\ g[0] = E!Ones /\ \A i \in 1 .. n : g[i] = step[i][g[i - 1]]
  BY <1>5 DEF Follows
<1>7. \A i \in 1 .. n : g[i] = E!Plus(g[i - 1], words[i])
  <2>1. \A i \in 1 .. n : i - 1 \in 0 .. n
    BY <1>1
  <2> QED
    BY <1>3, <1>6, <2>1
<1>8. Goes(g)
  <2>1. g = [i \in 0 .. n |-> g[i]]
    BY <1>6
  <2>2. \A i \in 0 .. n : i = 0 \/ i \in 1 .. n
    BY <1>1
  <2>3. \A i \in 0 .. n : g[i] = IF i = 0 THEN E!Ones ELSE E!Plus(g[i - 1], words[i])
    BY <1>6, <1>7, <2>2
  <2> QED
    BY <2>1, <2>3
<1>9. Goes(w)
  BY <1>4, <1>8, Zenon
<1>10. 0 \in 0 .. n /\ \A i \in 1 .. n : i \in 0 .. n /\ i # 0
  BY <1>1
<1> QED
  BY <1>9, <1>10 DEF n, w

LEMMA TotalIs ==
  ASSUME NEW words \in Seq(Nat)
  PROVE  LET f == TotalFrom(words) IN
         /\ f[0] = 0 /\ \A i \in 1 .. Len(words) : f[i] = f[i - 1] + words[i]
<1> DEFINE n == Len(words)
           Goes(f) == f = [i \in 0 .. n |-> IF i = 0 THEN 0 ELSE f[i - 1] + words[i]]
           w == TotalFrom(words)
           step == [i \in 1 .. n |-> [x \in Nat |-> x + words[i]]]
<1>1. n \in Nat /\ \A i \in 1 .. n : words[i] \in Nat
  OBVIOUS
<1>2. step \in Steps(n, Nat)
  <2>1. \A x \in Nat, i \in 1 .. n : x + words[i] \in Nat
    BY <1>1
  <2> QED
    BY <2>1 DEF Steps
<1>3. \A i \in 1 .. n, x \in Nat : step[i][x] = x + words[i]
  OBVIOUS
<1>4. w = CHOOSE f : Goes(f)
  BY DEF TotalFrom
<1> HIDE DEF step, w, n
<1>5. PICK g : Follows(g, n, Nat, 0, step)
  <2>1. 0 \in Nat
    OBVIOUS
  <2> QED
    BY <1>1, <1>2, <2>1, Iterated, Zenon
<1>6. g \in [0 .. n -> Nat] /\ g[0] = 0 /\ \A i \in 1 .. n : g[i] = step[i][g[i - 1]]
  BY <1>5 DEF Follows
<1>7. \A i \in 1 .. n : g[i] = g[i - 1] + words[i]
  <2>1. \A i \in 1 .. n : i - 1 \in 0 .. n
    BY <1>1
  <2> QED
    BY <1>3, <1>6, <2>1
<1>8. Goes(g)
  <2>1. g = [i \in 0 .. n |-> g[i]]
    BY <1>6
  <2>2. \A i \in 0 .. n : i = 0 \/ i \in 1 .. n
    BY <1>1
  <2>3. \A i \in 0 .. n : g[i] = IF i = 0 THEN 0 ELSE g[i - 1] + words[i]
    BY <1>6, <1>7, <2>2
  <2> QED
    BY <2>1, <2>3
<1>9. Goes(w)
  BY <1>4, <1>8, Zenon
<1>10. 0 \in 0 .. n /\ \A i \in 1 .. n : i \in 0 .. n /\ i # 0
  BY <1>1
<1> QED
  BY <1>9, <1>10 DEF n, w

LEMMA RoundsTogether ==
  ASSUME NEW m \in Int, NEW k \in Int, NEW q \in Int
  PROVE  k * m + q * m = (k + q) * m
  BY SMT

LEMMA SumsAgree ==
  ASSUME NEW words \in Seq(Nat)
  PROVE  /\ E!Folded(words) \in 1 .. E!Ones /\ E!Total(words) \in Nat
         /\ \E k \in Int : E!Total(words) = E!Folded(words) + k * E!Ones
<1> DEFINE n == Len(words)
           M == E!Ones
           acc == FoldedFrom(words)
           sum == TotalFrom(words)
           T == {i \in 0 .. n : /\ acc[i] \in 1 .. M /\ sum[i] \in Nat
                                /\ \E k \in Int : sum[i] = acc[i] + k * M}
<1>1. n \in Nat /\ M \in Nat \ {0} /\ \A i \in 1 .. n : words[i] \in Nat
  BY OnesIs
<1>2. /\ acc[0] = M /\ \A i \in 1 .. n : acc[i] = E!Plus(acc[i - 1], words[i])
      /\ sum[0] = 0 /\ \A i \in 1 .. n : sum[i] = sum[i - 1] + words[i]
  BY FoldedIs, TotalIs
<1>3. E!Folded(words) = acc[n] /\ E!Total(words) = sum[n]
  BY DEF E!Folded, E!Total, FoldedFrom, TotalFrom
<1>4. \A x \in 1 .. M, w \in Nat :
        E!Plus(x, w) \in 1 .. M /\ \E q \in Int : x + w = E!Plus(x, w) + q * M
  BY PlusIs
<1> HIDE DEF n, M, acc, sum
<1>5. 0 \in T
  <2>1. 0 = M + (-1) * M /\ -1 \in Int
    BY <1>1
  <2> QED
    BY <1>1, <1>2, <2>1
<1>6. ASSUME NEW i \in 1 .. n, i - 1 \in T PROVE i \in T
  <2> DEFINE x == acc[i - 1]
             y == acc[i]
             w == words[i]
             s == sum[i - 1]
  <2>1. x \in 1 .. M /\ s \in Nat /\ w \in Nat /\ i \in 0 .. n
    BY <1>1, <1>6
  <2>2. PICK k \in Int : s = x + k * M
    BY <1>6
  <2>3. y \in 1 .. M /\ \E q \in Int : x + w = y + q * M
    <3>1. y = E!Plus(x, w)
      BY <1>2
    <3> HIDE DEF x, y, w, s
    <3> QED
      BY <1>4, <2>1, <3>1
  <2>4. PICK q \in Int : x + w = y + q * M
    BY <2>3
  <2>5. sum[i] = s + w
    BY <1>2
  <2> HIDE DEF x, y, w, s
  <2>6. k * M \in Int /\ q * M \in Int /\ k + q \in Int /\ k * M + q * M = (k + q) * M
    BY <1>1, RoundsTogether
  <2>7. sum[i] = y + (k + q) * M /\ sum[i] \in Nat
    <3> DEFINE a == k * M
               b == q * M
               c == (k + q) * M
    <3>1. a \in Int /\ b \in Int /\ a + b = c /\ s = x + a /\ x + w = y + b
      BY <2>2, <2>4, <2>6
    <3> HIDE DEF a, b, c
    <3>2. sum[i] = y + c /\ sum[i] \in Nat
      BY <1>1, <2>1, <2>3, <2>5, <3>1
    <3> QED
      BY <3>2 DEF c
  <2> QED
    BY <2>1, <2>3, <2>6, <2>7 DEF y
<1> HIDE DEF T
<1>7. 0 .. n \subseteq T
  BY <1>1, <1>5, <1>6, UpTo
<1>8. n \in T
  BY <1>1, <1>7
<1> QED
  BY <1>3, <1>8 DEF T, M

LEMMA WordsAre ==
  ASSUME NEW bytes \in Seq(Nat)
  PROVE  E!Words(bytes) \in Seq(Nat)
<1> DEFINE n == Len(bytes)
           m == (n + 1) \div 2
<1>1. n \in Nat /\ m \in Nat /\ 2 * m <= n + 1 /\ Base \in Nat
  BY NetAssumption
<1>2. ASSUME NEW i \in 1 .. m
      PROVE  bytes[2 * i - 1] * Base + (IF 2 * i <= n THEN bytes[2 * i] ELSE 0) \in Nat
  <2>1. 2 * i - 1 \in 1 .. n /\ (2 * i <= n => 2 * i \in 1 .. n)
    BY <1>1
  <2>2. bytes[2 * i - 1] \in Nat /\ (2 * i <= n => bytes[2 * i] \in Nat)
    BY <2>1
  <2> DEFINE u == bytes[2 * i - 1]
             v == bytes[2 * i]
  <2>3. u * Base \in Nat
    BY <1>1, <2>2
  <2> DEFINE p == u * Base
  <2> HIDE DEF p, v
  <2>4. p + (IF 2 * i <= n THEN v ELSE 0) \in Nat
    BY <2>2, <2>3 DEF p, v
  <2> QED
    BY <2>4 DEF p, v
<1>3. E!Words(bytes) = [i \in 1 .. m |-> bytes[2 * i - 1] * Base
                                           + (IF 2 * i <= n THEN bytes[2 * i] ELSE 0)]
  BY DEF E!Words
<1> HIDE DEF m
<1> QED
  BY <1>1, <1>2, <1>3

LEMMA AtLeastOnce ==
  ASSUME NEW m \in Nat, m >= 1, NEW n \in Nat
  PROVE  m * n >= n
<1>1. m * n = (m - 1) * n + n /\ (m - 1) * n \in Nat
  BY SMT
<1> QED
  BY <1>1

LEMMA NoRemainder ==
  ASSUME NEW n \in Nat \ {0}, NEW k \in Int, NEW x \in Nat, x = k * n
  PROVE  x % n = 0
<1>1. k \in Nat
  <2> SUFFICES ASSUME k < 0 PROVE FALSE
    OBVIOUS
  <2>1. -k \in Nat /\ -k >= 1
    OBVIOUS
  <2>2. (-k) * n >= n
    BY <2>1, AtLeastOnce
  <2>3. (-k) * n = -(k * n)
    OBVIOUS
  <2> QED
    BY <2>2, <2>3
<1>2. (n * k + 0) % n = 0
  BY <1>1, WholeRounds
<1>3. n * k + 0 = x
  BY <1>1
<1> QED
  BY <1>2, <1>3

(* A sum whose checksum is put beside it is right. *)
LEMMA ChecksumIsRight ==
  ASSUME NEW bytes \in Seq(Nat)
  PROVE  E!Checks(bytes, E!IpChecksum(bytes))
<1> DEFINE words == E!Words(bytes)
           M == E!Ones
           t == E!Total(words)
           f == E!Folded(words)
<1>1. f \in 1 .. M /\ t \in Nat /\ M \in Nat \ {0} /\ \E k \in Int : t = f + k * M
  BY WordsAre, SumsAgree, OnesIs
<1>2. PICK k \in Int : t = f + k * M
  BY <1>1
<1>3. E!IpChecksum(bytes) = M - f
  BY DEF E!IpChecksum
<1>4. E!Checks(bytes, M - f) <=> (t + (M - f)) % M = 0
  BY DEF E!Checks
<1> HIDE DEF M, t, f
<1>5. t + (M - f) = (k + 1) * M /\ t + (M - f) \in Nat /\ k + 1 \in Int
  <2>1. (k + 1) * M = k * M + M /\ k * M \in Int
    BY <1>1
  <2> QED
    BY <1>1, <1>2, <2>1
<1>6. (t + (M - f)) % M = 0
  BY <1>1, <1>5, NoRemainder
<1> QED
  BY <1>3, <1>4, <1>6

LEMMA WordIs ==
  ASSUME NEW n \in Nat
  PROVE  E!Word(n) \in Seq(Nat) /\ Len(E!Word(n)) = 2
<1>1. /\ (n \div Base) % Base \in Nat /\ n % Base \in Nat
  BY OnesIs
<1> QED
  BY <1>1 DEF E!Word

LEMMA IpsAre ==
  ASSUME NEW ip \in E!Ips
  PROVE  /\ ip \in Seq(Nat) /\ Len(ip) = 4 /\ \A i \in 1 .. 4 : ip[i] \in Nat
         /\ E!Htonl(ip) \in Seq(Nat) /\ Len(E!Htonl(ip)) = 4
         /\ \A i \in 1 .. 4 : E!Htonl(ip)[i] = ip[5 - i]
<1>1. ip \in Seq(E!Bytes) /\ Len(ip) = 4 /\ E!Bytes \subseteq Nat
  BY DEF E!Ips, E!Bytes
<1>2. ip \in Seq(Nat) /\ \A i \in 1 .. 4 : ip[i] \in Nat
  <2>1. \A i \in 1 .. 4 : ip[i] \in E!Bytes
    BY <1>1, ElementOfSeq
  <2>2. ip \in [1 .. 4 -> E!Bytes]
    BY <1>1, LenProperties
  <2>3. ip \in [1 .. 4 -> Nat]
    BY <1>1, <2>2
  <2>5. ip \in Seq(Nat)
    BY <1>1, SeqMonotonic
  <2> QED
    BY <2>3, <2>5
<1>3. E!Htonl(ip) = [i \in 1 .. 4 |-> ip[5 - i]]
  BY DEF E!Htonl
<1>4. \A i \in 1 .. 4 : 5 - i \in 1 .. 4
  OBVIOUS
<1> DEFINE r == E!Htonl(ip)
<1>5. r \in Seq(Nat) /\ Len(r) = 4
  BY <1>2, <1>3, <1>4
<1>6. \A i \in 1 .. 4 : r[i] = ip[5 - i]
  BY <1>3, <1>4
<1> QED
  BY <1>1, <1>2, <1>5, <1>6

LEMMA JoinedAt ==
  ASSUME NEW s \in Seq(Nat), NEW t \in Seq(Nat)
  PROVE  /\ s \o t \in Seq(Nat) /\ Len(s \o t) = Len(s) + Len(t)
         /\ \A i \in 1 .. Len(s) : (s \o t)[i] = s[i]
         /\ \A i \in 1 .. Len(t) : (s \o t)[Len(s) + i] = t[i]
<1> DEFINE j == s \o t
           m == Len(s)
           n == Len(t)
<1>1. /\ j \in Seq(Nat) /\ Len(j) = m + n
      /\ \A i \in 1 .. m + n : j[i] = IF i <= m THEN s[i] ELSE t[i - m]
  BY ConcatProperties
<1>2. m \in Nat /\ n \in Nat
  BY LenProperties
<1> HIDE DEF j, m, n
<1>3. \A i \in 1 .. m : i \in 1 .. m + n
  BY <1>2
<1>4. \A i \in 1 .. n : m + i \in 1 .. m + n /\ ~(m + i <= m) /\ (m + i) - m = i
  BY <1>2
<1>5. \A i \in 1 .. n : j[m + i] = t[i]
  BY <1>1, <1>4
<1> QED
  BY <1>1, <1>3, <1>5 DEF j, m, n

(* The six words of a pseudo header. *)
LEMMA PseudoIs ==
  ASSUME NEW a \in Seq(Nat), Len(a) = 4, NEW b \in Seq(Nat), Len(b) = 4, NEW len \in Nat
  PROVE  LET p == E!PseudoHeader(a, b, len) \o <<>> IN
         /\ p \in Seq(Nat)
         /\ E!Total(E!Words(p)) =
              (a[1] * Base + a[2]) + (a[3] * Base + a[4]) + (b[1] * Base + b[2])
              + (b[3] * Base + b[4]) + (E!Word(6)[1] * Base + E!Word(6)[2])
              + (E!Word(len)[1] * Base + E!Word(len)[2])
<1> DEFINE c == E!Word(6)
           d == E!Word(len)
           p == E!PseudoHeader(a, b, len) \o <<>>
           w == E!Words(p)
           sum == TotalFrom(w)
<1>1. c \in Seq(Nat) /\ Len(c) = 2 /\ d \in Seq(Nat) /\ Len(d) = 2
  BY WordIs
<1> DEFINE ab == a \o b
           abc == ab \o c
           abcd == abc \o d
<1>2. p = abcd \o <<>>
  BY DEF E!PseudoHeader
<1> HIDE DEF c, d, p
<1>3. /\ ab \in Seq(Nat) /\ Len(ab) = 8
      /\ \A i \in 1 .. 4 : ab[i] = a[i] /\ ab[4 + i] = b[i]
  <2>1. /\ ab \in Seq(Nat) /\ Len(ab) = Len(a) + Len(b)
        /\ \A i \in 1 .. Len(a) : ab[i] = a[i]
        /\ \A i \in 1 .. Len(b) : ab[Len(a) + i] = b[i]
    BY JoinedAt, Zenon
  <2>2. 4 + 4 = 8 /\ Len(a) = 4 /\ Len(b) = 4
    BY SMT
  <2> HIDE DEF ab
  <2> QED
    BY <2>1, <2>2
<1> HIDE DEF ab
<1>4. /\ abc \in Seq(Nat) /\ Len(abc) = 10
      /\ (\A i \in 1 .. 8 : abc[i] = ab[i]) /\ \A i \in 1 .. 2 : abc[8 + i] = c[i]
  <2>1. /\ abc \in Seq(Nat) /\ Len(abc) = Len(ab) + Len(c)
        /\ \A i \in 1 .. Len(ab) : abc[i] = ab[i]
        /\ \A i \in 1 .. Len(c) : abc[Len(ab) + i] = c[i]
    BY <1>1, <1>3, JoinedAt, Zenon
  <2>2. 8 + 2 = 10 /\ Len(ab) = 8 /\ Len(c) = 2
    BY <1>1, <1>3, SMT
  <2> HIDE DEF abc
  <2> QED
    BY <2>1, <2>2
<1> HIDE DEF abc
<1>5. /\ abcd \in Seq(Nat) /\ Len(abcd) = 12
      /\ (\A i \in 1 .. 10 : abcd[i] = abc[i]) /\ \A i \in 1 .. 2 : abcd[10 + i] = d[i]
  <2>1. /\ abcd \in Seq(Nat) /\ Len(abcd) = Len(abc) + Len(d)
        /\ \A i \in 1 .. Len(abc) : abcd[i] = abc[i]
        /\ \A i \in 1 .. Len(d) : abcd[Len(abc) + i] = d[i]
    BY <1>1, <1>4, JoinedAt, Zenon
  <2>2. 10 + 2 = 12 /\ Len(abc) = 10 /\ Len(d) = 2
    BY <1>1, <1>4, SMT
  <2> HIDE DEF abcd
  <2> QED
    BY <2>1, <2>2
<1> HIDE DEF abcd
<1>12. p = abcd
  BY <1>2, <1>5, ConcatEmptySeq
<1>13. p \in Seq(Nat) /\ Len(p) = 12
  BY <1>5, <1>12
<1>15. /\ \A i \in 1 .. 4 : p[i] = a[i] /\ p[4 + i] = b[i]
       /\ \A i \in 1 .. 2 : p[8 + i] = c[i] /\ p[10 + i] = d[i]
  BY <1>3, <1>4, <1>5, <1>12
<1>14. /\ p[1] = a[1] /\ p[2] = a[2] /\ p[3] = a[3] /\ p[4] = a[4]
       /\ p[5] = b[1] /\ p[6] = b[2] /\ p[7] = b[3] /\ p[8] = b[4]
       /\ p[9] = c[1] /\ p[10] = c[2] /\ p[11] = d[1] /\ p[12] = d[2]
  BY <1>15
<1>6. w \in Seq(Nat) /\ Len(w) = 6 /\ \A i \in 1 .. 6 : w[i] = p[2 * i - 1] * Base + p[2 * i]
  <2>1. w \in Seq(Nat)
    BY <1>13, WordsAre
  <2>2. w = [i \in 1 .. (Len(p) + 1) \div 2 |->
               p[2 * i - 1] * Base + (IF 2 * i <= Len(p) THEN p[2 * i] ELSE 0)]
    BY DEF E!Words
  <2>3. (Len(p) + 1) \div 2 = 6 /\ \A i \in 1 .. 6 : 2 * i <= Len(p)
    BY <1>13
  <2> HIDE DEF w
  <2>4. w = [i \in 1 .. 6 |-> p[2 * i - 1] * Base + p[2 * i]]
    BY <2>2, <2>3
  <2> QED
    BY <2>1, <2>4
<1>7. E!Total(w) = sum[6]
  BY <1>6 DEF E!Total, TotalFrom
<1>8. sum[0] = 0 /\ \A i \in 1 .. 6 : sum[i] = sum[i - 1] + w[i]
  BY <1>6, TotalIs
<1> HIDE DEF w, sum
<1>9. /\ sum[1] = w[1] /\ sum[2] = sum[1] + w[2] /\ sum[3] = sum[2] + w[3]
      /\ sum[4] = sum[3] + w[4] /\ sum[5] = sum[4] + w[5] /\ sum[6] = sum[5] + w[6]
  <2>1. \A i \in 1 .. 6 : w[i] \in Nat
    BY <1>6, ElementOfSeq
  <2> QED
    BY <1>8, <2>1
<1>10. /\ w[1] = a[1] * Base + a[2] /\ w[2] = a[3] * Base + a[4]
       /\ w[3] = b[1] * Base + b[2] /\ w[4] = b[3] * Base + b[4]
       /\ w[5] = c[1] * Base + c[2] /\ w[6] = d[1] * Base + d[2]
  <2>1. \A i \in 1 .. 6, j \in 1 .. 12, k \in 1 .. 12 :
          j = 2 * i - 1 /\ k = 2 * i => w[i] = p[j] * Base + p[k]
    BY <1>6
  <2>2. /\ w[1] = p[1] * Base + p[2] /\ w[2] = p[3] * Base + p[4]
        /\ w[3] = p[5] * Base + p[6] /\ w[4] = p[7] * Base + p[8]
        /\ w[5] = p[9] * Base + p[10] /\ w[6] = p[11] * Base + p[12]
    BY <2>1
  <2> QED
    BY <1>14, <2>2
<1>11. sum[6] = w[1] + w[2] + w[3] + w[4] + w[5] + w[6]
  <2>1. \A i \in 1 .. 6 : w[i] \in Nat
    BY <1>6, ElementOfSeq
  <2> QED
    BY <1>9, <2>1
<1> QED
  BY <1>13, <1>7, <1>10, <1>11 DEF c, d, p, w

LEMMA SameRest ==
  ASSUME NEW m \in Nat \ {0}, NEW a \in Nat, NEW b \in Nat, NEW j \in Int, a - b = j * m
  PROVE  a % m = b % m
<1> DEFINE r == b % m
           q == b \div m
<1>1. r \in 0 .. m - 1 /\ q \in Nat /\ b = m * q + r
  BY SMT
<1>2. a = m * (q + j) + r
  <2>1. m * (q + j) = m * q + j * m
    BY <1>1
  <2> DEFINE x == m * q
             y == j * m
             z == m * (q + j)
  <2>2. x \in Int /\ y \in Int
    BY <1>1
  <2> HIDE DEF x, y, z, r, q
  <2> QED
    BY <1>1, <2>1, <2>2 DEF x, y, z
<1>3. q + j \in Nat
  <2> SUFFICES ASSUME q + j < 0 PROVE FALSE
    BY <1>1
  <2> DEFINE n == -(q + j)
  <2>1. n \in Nat /\ n >= 1
    BY <1>1
  <2>2. n * m >= m
    BY <2>1, AtLeastOnce
  <2>3. n * m = -(m * (q + j))
    BY <1>1
  <2> DEFINE z == m * (q + j)
             y == n * m
  <2>4. z \in Int /\ y >= m /\ y = -z /\ a = z + r
    BY <1>1, <1>2, <2>2, <2>3
  <2> HIDE DEF z, y, r, q, n
  <2> QED
    BY <1>1, <2>4
<1>4. (m * (q + j) + r) % m = r
  BY <1>1, <1>3, WholeRounds
<1> QED
  BY <1>2, <1>4

LEMMA Cancelled ==
  ASSUME NEW m \in Nat \ {0}, NEW x \in Int, NEW y \in Int, m * x = m * y
  PROVE  x = y
<1>1. ASSUME NEW u \in Int, NEW v \in Int, u < v, m * u = m * v PROVE FALSE
  <2> DEFINE n == v - u
  <2>1. n \in Nat /\ n >= 1 /\ v = u + n
    BY <1>1
  <2> HIDE DEF n
  <2>2. n * m >= m
    BY <2>1, AtLeastOnce
  <2>3. m * (u + n) = m * u + n * m
    BY <2>1
  <2> DEFINE a == m * u
             b == n * m
  <2>4. a \in Int /\ b \in Int /\ b >= m /\ a = a + b
    BY <1>1, <2>1, <2>2, <2>3
  <2> HIDE DEF a, b
  <2> QED
    BY <2>4
<1> QED
  BY <1>1

(* A checksum of the address reversed is right only for a balanced one. *)
(* A checksum of the address reversed is right only for a balanced one. *)
LEMMA Mirrored ==
  ASSUME NEW b, b \in Nat \ {0, 1}, NEW w, w \in Nat, NEW x, x \in Nat, NEW y, y \in Nat,
         NEW z, z \in Nat, NEW j, j \in Int,
         ((w * b + x) + (y * b + z)) - ((z * b + y) + (x * b + w)) = j * (b * b - 1)
  PROVE  (w + y) % (b + 1) = (x + z) % (b + 1)
<1> DEFINE d == (w + y) - (x + z)
<1>1. ((w * b + x) + (y * b + z)) - ((z * b + y) + (x * b + w)) = (b - 1) * d
  OBVIOUS
<1>2. j * (b * b - 1) = (b - 1) * (j * (b + 1))
  OBVIOUS
<1>3. (b - 1) * d = (b - 1) * (j * (b + 1)) /\ b - 1 \in Nat \ {0}
  BY <1>1, <1>2
<1>4. d \in Int /\ j * (b + 1) \in Int
  OBVIOUS
<1> HIDE DEF d
<1>5. d = j * (b + 1)
  BY <1>3, <1>4, Cancelled
<1>6. w + y \in Nat /\ x + z \in Nat /\ b + 1 \in Nat \ {0} /\ (w + y) - (x + z) = j * (b + 1)
  BY <1>5 DEF d
<1> QED
  BY <1>6, SameRest

LEMMA OnlyBalanced ==
  ASSUME NEW ip \in E!Ips, NEW len \in Nat,
         E!Checks(E!PseudoHeader(LocalIp, ip, len) \o <<>>,
                  E!IpChecksum(E!PseudoHeader(LocalIp, E!Htonl(ip), len) \o <<>>))
  PROVE  E!Balanced(ip)
<1> DEFINE p == E!PseudoHeader(LocalIp, ip, len) \o <<>>
           q == E!PseudoHeader(LocalIp, E!Htonl(ip), len) \o <<>>
           M == E!Ones
           t == E!Total(E!Words(p))
           u == E!Total(E!Words(q))
           f == E!Folded(E!Words(q))
           c == E!Word(6)
           d == E!Word(len)
           r == E!Htonl(ip)
           rest == (LocalIp[1] * Base + LocalIp[2]) + (LocalIp[3] * Base + LocalIp[4])
                   + (c[1] * Base + c[2]) + (d[1] * Base + d[2])
<1>1. /\ LocalIp \in Seq(Nat) /\ Len(LocalIp) = 4 /\ \A i \in 1 .. 4 : LocalIp[i] \in Nat
      /\ ip \in Seq(Nat) /\ Len(ip) = 4 /\ \A i \in 1 .. 4 : ip[i] \in Nat
      /\ r \in Seq(Nat) /\ Len(r) = 4 /\ \A i \in 1 .. 4 : r[i] = ip[5 - i]
  BY IpsAre, NetAssumption
<1>2. /\ c[1] \in Nat /\ c[2] \in Nat /\ d[1] \in Nat /\ d[2] \in Nat
  <2>1. c \in Seq(Nat) /\ Len(c) = 2 /\ d \in Seq(Nat) /\ Len(d) = 2
    BY WordIs
  <2>2. \A i \in 1 .. 2 : c[i] \in Nat /\ d[i] \in Nat
    <3> HIDE DEF c, d
    <3> QED
      BY <2>1, ElementOfSeq
  <2> QED
    BY <2>2
<1>3. Base \in Nat \ {0, 1} /\ M = Base * Base - 1 /\ M \in Nat \ {0}
  BY OnesIs
<1> HIDE DEF c, d, r
<1>4. /\ p \in Seq(Nat)
      /\ t = (LocalIp[1] * Base + LocalIp[2]) + (LocalIp[3] * Base + LocalIp[4])
             + (ip[1] * Base + ip[2]) + (ip[3] * Base + ip[4])
             + (c[1] * Base + c[2]) + (d[1] * Base + d[2])
  BY <1>1, PseudoIs DEF c, d
<1>5. /\ q \in Seq(Nat)
      /\ u = (LocalIp[1] * Base + LocalIp[2]) + (LocalIp[3] * Base + LocalIp[4])
             + (r[1] * Base + r[2]) + (r[3] * Base + r[4])
             + (c[1] * Base + c[2]) + (d[1] * Base + d[2])
  BY <1>1, PseudoIs DEF c, d, r
<1>6. f \in 1 .. M /\ u \in Nat /\ t \in Nat /\ \E k \in Int : u = f + k * M
  BY <1>4, <1>5, WordsAre, SumsAgree
<1>7. (t + (M - f)) % M = 0
  BY DEF E!Checks, E!IpChecksum
<1> HIDE DEF p, q, M, t, u, f
<1>8. PICK k \in Int : u = f + k * M
  BY <1>6
<1>9. r[1] = ip[4] /\ r[2] = ip[3] /\ r[3] = ip[2] /\ r[4] = ip[1]
  BY <1>1
<1>10. \E j \in Int : t - u = j * M
  <2> DEFINE x == t + (M - f)
             g == x \div M
  <2>1. x \in Nat /\ x % M = 0 /\ t - u = ((x - M) + f) - u
    BY <1>3, <1>6, <1>7
  <2> HIDE DEF x
  <2>2. g \in Int /\ x = M * g + 0
    <3>1. \A m \in Nat \ {0}, n \in Nat : n \div m \in Int /\ n = m * (n \div m) + (n % m)
      BY SMT
    <3>2. x = M * (x \div M) + (x % M) /\ x \div M \in Int
      BY <1>3, <2>1, <3>1
    <3> QED
      BY <2>1, <3>2
  <2> HIDE DEF g
  <2>3. M * g = g * M /\ ((g - 1) - k) * M = (g * M - M) - k * M /\ g * M \in Int /\ k * M \in Int
    BY <1>3, <2>2
  <2> DEFINE a == g * M
             b == k * M
  <2>4. a \in Int /\ b \in Int /\ x = a /\ u = f + b /\ ((g - 1) - k) * M = (a - M) - b
    BY <1>8, <2>2, <2>3
  <2> HIDE DEF a, b
  <2>5. t - u = ((g - 1) - k) * M /\ (g - 1) - k \in Int
    BY <1>3, <1>6, <2>1, <2>2, <2>4
  <2> QED
    BY <2>5
<1>11. PICK j \in Int : t - u = j * M
  BY <1>10
<1> DEFINE y == ((ip[1] * Base + ip[2]) + (ip[3] * Base + ip[4]))
                - ((ip[4] * Base + ip[3]) + (ip[2] * Base + ip[1]))
<1>12. t - u = y
  <2> DEFINE l1 == LocalIp[1] * Base + LocalIp[2]
             l2 == LocalIp[3] * Base + LocalIp[4]
             w5 == c[1] * Base + c[2]
             w6 == d[1] * Base + d[2]
             a1 == ip[1] * Base + ip[2]
             a2 == ip[3] * Base + ip[4]
             b1 == ip[4] * Base + ip[3]
             b2 == ip[2] * Base + ip[1]
  <2>1. /\ l1 \in Int /\ l2 \in Int /\ w5 \in Int /\ w6 \in Int
        /\ a1 \in Int /\ a2 \in Int /\ b1 \in Int /\ b2 \in Int
    <3>1. ip[1] \in Nat /\ ip[2] \in Nat /\ ip[3] \in Nat /\ ip[4] \in Nat
      BY <1>1
    <3>2. LocalIp[1] \in Nat /\ LocalIp[2] \in Nat /\ LocalIp[3] \in Nat /\ LocalIp[4] \in Nat
      BY <1>1
    <3>3. \A m, n \in Nat : m * Base + n \in Int
      BY <1>3
    <3> QED
      BY <1>2, <3>1, <3>2, <3>3
  <2>2. t = l1 + l2 + a1 + a2 + w5 + w6 /\ u = l1 + l2 + b1 + b2 + w5 + w6
    BY <1>4, <1>5, <1>9
  <2>3. y = (a1 + a2) - (b1 + b2)
    OBVIOUS
  <2> HIDE DEF l1, l2, w5, w6, a1, a2, b1, b2, y
  <2> QED
    BY <2>1, <2>2, <2>3
<1>13. y = j * (Base * Base - 1)
  BY <1>3, <1>11, <1>12
<1>14. ip[1] \in Nat /\ ip[2] \in Nat /\ ip[3] \in Nat /\ ip[4] \in Nat
  BY <1>1
<1>15. PICK w \in Nat, x \in Nat, v \in Nat, z \in Nat :
         w = ip[1] /\ x = ip[2] /\ v = ip[3] /\ z = ip[4]
  BY <1>14, Zenon
<1>16. y = ((w * Base + x) + (v * Base + z)) - ((z * Base + v) + (x * Base + w))
  BY <1>15, Zenon
<1>17. ((w * Base + x) + (v * Base + z)) - ((z * Base + v) + (x * Base + w))
         = j * (Base * Base - 1)
  <2> HIDE DEF y
  <2> QED
    BY <1>13, <1>16, Zenon
<1> HIDE DEF y
<1>18. (w + v) % (Base + 1) = (x + z) % (Base + 1)
  <2>1. PICK b : b = Base
    OBVIOUS
  <2>2. b \in Nat \ {0, 1} /\ j \in Int
    BY <1>3, <1>11, <2>1, Zenon
  <2>3. ((w * b + x) + (v * b + z)) - ((z * b + v) + (x * b + w)) = j * (b * b - 1)
    BY <1>17, <2>1, Zenon
  <2> DEFINE n == (w + v) - (x + z)
             l == j * (b + 1)
  <2>4. ((w * b + x) + (v * b + z)) - ((z * b + v) + (x * b + w)) = (b - 1) * n
    BY <2>2
  <2>5. j * (b * b - 1) = (b - 1) * l
    BY <2>2
  <2>6. n \in Int /\ l \in Int /\ b - 1 \in Nat \ {0}
    BY <2>2
  <2>7. n = l
    <3>1. (b - 1) * n = (b - 1) * l
      BY <2>3, <2>4, <2>5, Zenon
    <3> HIDE DEF n, l
    <3> QED
      BY <2>6, <3>1, Cancelled
  <2>8. (w + v) % (b + 1) = (x + z) % (b + 1)
    <3>1. w + v \in Nat /\ x + z \in Nat /\ b + 1 \in Nat \ {0}
      BY <2>2
    <3>2. (w + v) - (x + z) = j * (b + 1)
      BY <2>7, Zenon
    <3> QED
      BY <2>2, <3>1, <3>2, SameRest
  <2> QED
    BY <2>1, <2>8, Zenon
<1> QED
  BY <1>15, <1>18 DEF E!Balanced

------------------------------------------------------------------------------
(* What the card's handler answers. *)
(* The card's network is the echo server's: module Net. *)
LEMMA SameNet ==
  ASSUME NEW bytes, NEW c
  PROVE  /\ R!Checks(bytes, c) = E!Checks(bytes, c) /\ R!IpChecksum(bytes) = E!IpChecksum(bytes)
<1>1. R!Words(bytes) = E!Words(bytes)
  BY DEF R!Words, E!Words
<1>2. ASSUME NEW words PROVE R!Total(words) = E!Total(words)
  BY DEF R!Total, E!Total
<1>3. ASSUME NEW words PROVE R!Folded(words) = E!Folded(words)
  BY DEF R!Folded, E!Folded, R!Plus, E!Plus, R!Ones, E!Ones
<1>4. R!Ones = E!Ones
  BY DEF R!Ones, E!Ones
<1>5. R!Checks(bytes, c) = E!Checks(bytes, c)
  BY <1>1, <1>2, <1>4, Zenon DEF R!Checks, E!Checks
<1>6. R!IpChecksum(bytes) = E!IpChecksum(bytes)
  BY <1>1, <1>3, <1>4 DEF R!IpChecksum, E!IpChecksum
<1> QED
  BY <1>5, <1>6

LEMMA AnswerChecks ==
  ASSUME NEW bytes \in Seq(Nat)
  PROVE  R!Checks(bytes, R!IpChecksum(bytes))
<1>1. E!Checks(bytes, E!IpChecksum(bytes))
  BY ChecksumIsRight
<1>2. R!IpChecksum(bytes) = E!IpChecksum(bytes)
  BY SameNet
<1>3. R!Checks(bytes, E!IpChecksum(bytes)) = E!Checks(bytes, E!IpChecksum(bytes))
  BY SameNet
<1> QED
  BY <1>1, <1>2, <1>3, Zenon

LEMMA BytesAre ==
  ASSUME NEW Elt, NEW data \in Seq(Elt), \A e \in Elt : e \in Nat
  PROVE  data \in Seq(Nat)
<1>1. Elt \subseteq Nat
  OBVIOUS
<1> QED
  BY <1>1, SeqMonotonic

(* What begins with a datagram's data is the data, when as long. *)
LEMMA DataIs ==
  ASSUME NEW Elt, NEW data \in Seq(Elt), NEW n, n = Len(data)
  PROVE  R!BytesAt(data, n) = data /\ E!BytesAt(data, n) = data
<1>1. data = [i \in 1 .. Len(data) |-> data[i]]
  OBVIOUS
<1> QED
  BY <1>1 DEF R!BytesAt, E!BytesAt

(* What is sent in a datagram. *)
LEMMA SentChecks ==
  ASSUME NEW mac, NEW ip \in E!Ips, NEW protocol, NEW body, NEW len \in Nat,
         NEW sent, sent = R!IpSend(mac, ip, protocol, body, len)
  PROVE  /\ sent.type = "ipv4" /\ sent.dst = mac /\ sent.bytes = R!EthHdr + sent.msg.len
         /\ sent.msg.dest_ip = ip /\ sent.msg.protocol = protocol /\ sent.msg.body = body
         /\ R!Checks(R!IpHeader(sent.msg.len, sent.msg.src_ip, sent.msg.dest_ip),
                     sent.msg.checksum)
<1> DEFINE l == R!IpHdr + len
           header == R!IpHeader(l, LocalIp, ip)
           sum == R!IpChecksum(header)
<1>1. /\ sent = [dst |-> mac, src |-> LocalMac, type |-> "ipv4",
                 bytes |-> R!EthHdr + R!IpHdr + len,
                 msg |-> [src_ip |-> LocalIp, dest_ip |-> ip, protocol |-> protocol, ihl |-> 5,
                          len |-> l, body |-> body, checksum |-> sum]]
  BY DEF R!IpSend
<1>2. l \in Nat /\ R!EthHdr + R!IpHdr + len = R!EthHdr + l
  BY DEF R!EthHdr, R!IpHdr
<1>3. header \in Seq(Nat)
  <2> DEFINE w == E!Word(l)
  <2>1. w \in Seq(Nat) /\ w = R!Word(l)
    <3>1. w = R!Word(l)
      BY DEF R!Word, E!Word
    <3> QED
      BY <1>2, <3>1, WordIs
  <2>2. LocalIp \in Seq(Nat) /\ ip \in Seq(Nat)
    BY IpsAre, NetAssumption
  <2>3. header = w \o LocalIp \o ip
    BY <2>1 DEF R!IpHeader
  <2> HIDE DEF w, header
  <2> QED
    BY <2>1, <2>2, <2>3
<1>4. R!Checks(header, sum)
  <2> HIDE DEF header
  <2> QED
    BY <1>3, AnswerChecks
<1> HIDE DEF sum
<1>5. /\ sent.type = "ipv4" /\ sent.dst = mac /\ sent.bytes = R!EthHdr + R!IpHdr + len
      /\ sent.msg.dest_ip = ip /\ sent.msg.protocol = protocol /\ sent.msg.body = body
      /\ sent.msg.len = l /\ sent.msg.src_ip = LocalIp /\ sent.msg.checksum = sum
  <2> HIDE DEF l
  <2> QED
    BY <1>1
<1> QED
  BY <1>2, <1>4, <1>5, Zenon

(* What AnswersConform asks of an answer to a frame. *)
Conforms(answer, asked) ==
  /\ answer.type = asked.type
  /\ answer.type = "arp" =>
       /\ answer.dst = asked.msg.src_mac /\ answer.msg.dest_ip = asked.msg.src_ip
       /\ answer.msg.src_ip = asked.msg.dest_ip
  /\ answer.type = "ipv4" =>
       /\ answer.msg.dest_ip = asked.msg.src_ip
       /\ R!Checks(R!IpHeader(answer.msg.len, answer.msg.src_ip, answer.msg.dest_ip),
                   answer.msg.checksum)
       /\ answer.bytes = R!EthHdr + answer.msg.len
  /\ answer.type = "ipv4" /\ answer.msg.protocol = "icmp" =>
       /\ answer.dst = asked.src
       /\ answer.msg.body.data = asked.msg.body.data
       /\ R!Checks(answer.msg.body.data, answer.msg.body.checksum)

LEMMA ArpConforms ==
  ASSUME NEW asked, asked.type = "arp", NEW n,
         NEW answer \in R!HandleArp(asked.msg, n)
  PROVE  Conforms(answer, asked)
<1>1. /\ asked.msg.dest_ip = LocalIp
      /\ answer = [dst |-> asked.msg.src_mac, src |-> LocalMac, type |-> "arp",
                   bytes |-> R!EthHdr + R!ArpLen,
                   msg |-> [op |-> "reply", src_mac |-> LocalMac, src_ip |-> LocalIp,
                            dest_ip |-> asked.msg.src_ip]]
  BY DEF R!HandleArp
<1>2. /\ answer.type = "arp" /\ answer.dst = asked.msg.src_mac
      /\ answer.msg.dest_ip = asked.msg.src_ip /\ answer.msg.src_ip = LocalIp
  BY <1>1
<1> QED
  BY <1>1, <1>2 DEF Conforms

LEMMA IcmpConforms ==
  ASSUME NEW asked \in Incoming, asked.type = "ipv4", asked.msg.protocol = "icmp",
         NEW answer \in R!IcmpReceive(asked.src, asked.msg, R!IpPayloadLen(asked))
  PROVE  Conforms(answer, asked)
<1> DEFINE data == asked.msg.body.data
           len == R!IpPayloadLen(asked)
           echoed == R!BytesAt(data, len - R!IcmpHdr)
           body == [kind |-> "reply", data |-> echoed, checksum |-> R!IpChecksum(echoed)]
<1>1. /\ data \in Seq(E!Bytes) /\ asked.msg.src_ip \in E!Ips
      /\ asked.msg.len - 4 * asked.msg.ihl = E!IcmpHdr + Len(data)
  BY NetAssumption
<1>2. answer = R!IpSend(asked.src, asked.msg.src_ip, "icmp", body, len)
  BY DEF R!IcmpReceive
<1>3. len = R!IcmpHdr + Len(data)
  BY <1>1 DEF R!IpPayloadLen, R!IcmpHdr, E!IcmpHdr
<1>4. Len(data) \in Nat /\ len \in Nat /\ len - R!IcmpHdr = Len(data)
  <2> HIDE DEF len, data
  <2>1. Len(data) \in Nat
    BY <1>1, LenProperties
  <2> QED
    BY <1>3, <2>1 DEF R!IcmpHdr
<1>5. echoed = data /\ data \in Seq(Nat)
  <2> HIDE DEF len, data
  <2>1. \A b \in E!Bytes : b \in Nat
    BY NetAssumption DEF E!Bytes
  <2>2. data \in Seq(Nat)
    BY <1>1, <2>1, BytesAre
  <2> QED
    BY <1>1, <1>4, <2>2, DataIs
<1>6. R!Checks(echoed, R!IpChecksum(echoed))
  <2> HIDE DEF echoed
  <2> QED
    BY <1>5, AnswerChecks
<1>7. body.data = echoed /\ body.checksum = R!IpChecksum(echoed)
  OBVIOUS
<1> HIDE DEF body, len
<1>8. /\ answer.type = "ipv4" /\ answer.dst = asked.src
      /\ answer.bytes = R!EthHdr + answer.msg.len
      /\ answer.msg.dest_ip = asked.msg.src_ip /\ answer.msg.body = body
      /\ R!Checks(R!IpHeader(answer.msg.len, answer.msg.src_ip, answer.msg.dest_ip),
                  answer.msg.checksum)
  BY <1>1, <1>2, <1>4, SentChecks
<1> QED
  BY <1>5, <1>6, <1>7, <1>8, Zenon DEF Conforms

LEMMA TcpConforms ==
  ASSUME NEW asked \in Incoming, asked.type = "ipv4", asked.msg.protocol = "tcp",
         NEW answer \in R!TcpReceive(asked.msg, R!IpPayloadLen(asked))
  PROVE  Conforms(answer, asked)
<1> DEFINE len == R!IpPayloadLen(asked)
           tcp == asked.msg.body
           payload == R!BytesAt(tcp.data, len - tcp.header)
<1>1. /\ asked.msg.src_ip \in E!Ips /\ len \in Int /\ tcp.header \in Nat
  BY NetAssumption DEF R!IpPayloadLen
<1>2. /\ tcp.header <= len
      /\ \E seq, ack, flags, data :
           /\ data \in {<<>>, payload}
           /\ answer = R!TcpSend(asked.msg.src_ip, 80, seq, ack, flags, data)
  <2> HIDE DEF payload
  <2>1. ~(tcp.header > len)
    BY DEF R!TcpReceive
  <2>2. \E seq, ack, flags, data :
           /\ data \in {<<>>, payload}
           /\ answer = R!TcpSend(asked.msg.src_ip, 80, seq, ack, flags, data)
    BY DEF R!TcpReceive, payload
  <2> HIDE DEF len
  <2> QED
    BY <1>1, <2>1, <2>2
<1>3. PICK seq, ack, flags, data :
           /\ data \in {<<>>, payload}
           /\ answer = R!TcpSend(asked.msg.src_ip, 80, seq, ack, flags, data)
  BY <1>2
<1>4. Len(data) \in Nat
  <2> DEFINE n == len - tcp.header
  <2>1. n \in Nat
    <3> HIDE DEF len
    <3> QED
      BY <1>1, <1>2
  <2> HIDE DEF n
  <2>2. Len(R!BytesAt(tcp.data, n)) = n
    BY <2>1 DEF R!BytesAt
  <2>3. payload = R!BytesAt(tcp.data, n)
    BY DEF n
  <2> HIDE DEF payload
  <2> QED
    BY <1>3, <2>1, <2>2, <2>3
<1> DEFINE l == R!TcpHdr + Len(data)
<1>5. l \in Nat /\ \E body : answer = R!IpSend(R!Broadcast, asked.msg.src_ip, "tcp", body, l)
  BY <1>3, <1>4 DEF R!TcpSend, R!TcpHdr
<1>6. PICK body : answer = R!IpSend(R!Broadcast, asked.msg.src_ip, "tcp", body, l)
  BY <1>5
<1> HIDE DEF l
<1>7. /\ answer.type = "ipv4" /\ answer.msg.protocol = "tcp"
      /\ answer.bytes = R!EthHdr + answer.msg.len
      /\ answer.msg.dest_ip = asked.msg.src_ip
      /\ R!Checks(R!IpHeader(answer.msg.len, answer.msg.src_ip, answer.msg.dest_ip),
                  answer.msg.checksum)
  BY <1>1, <1>5, <1>6, SentChecks
<1> QED
  BY <1>7, Zenon DEF Conforms

(* Every answer is what the protocols ask for. *)
LEMMA Conforming ==
  ASSUME NEW asked \in Incoming, NEW answer \in R!NetReceive(asked)
  PROVE  Conforms(answer, asked)
<1>1. CASE asked.type = "arp"
  <2>1. answer \in R!HandleArp(asked.msg, asked.bytes - R!EthHdr)
    BY <1>1 DEF R!NetReceive
  <2> QED
    BY <1>1, <2>1, ArpConforms
<1>2. CASE asked.type # "arp"
  <2>1. /\ asked.type = "ipv4"
        /\ \/ /\ asked.msg.protocol = "icmp"
              /\ answer \in R!IcmpReceive(asked.src, asked.msg, R!IpPayloadLen(asked))
           \/ /\ asked.msg.protocol = "tcp"
              /\ answer \in R!TcpReceive(asked.msg, R!IpPayloadLen(asked))
    BY <1>2 DEF R!NetReceive
  <2> QED
    BY <2>1, IcmpConforms, TcpConforms
<1> QED
  BY <1>1, <1>2

(* The answer is to a frame that was handled, and conforms. *)
AnIn ==
  rtLog.to # 0 =>
    /\ rtLog.to \in 1 .. Len(rtLog.handled)
    /\ Conforms(rtLog.answer, rtLog.handled[rtLog.to])

LEMMA AnAfter ==
  ASSUME NEW to, NEW answer, NEW handled,
         rtLog'.to = to, rtLog'.answer = answer, rtLog'.handled = handled,
         to # 0 => to \in 1 .. Len(handled) /\ Conforms(answer, handled[to])
  PROVE  AnIn'
<1>1. AnIn' <=> (rtLog'.to # 0 =>
                   /\ rtLog'.to \in 1 .. Len(rtLog'.handled)
                   /\ Conforms(rtLog'.answer, rtLog'.handled[rtLog'.to]))
  BY DEF AnIn, Conforms, R!Checks, R!IpHeader, R!Word
<1> QED
  BY <1>1, Zenon

LEMMA AnOther ==
  ASSUME AnIn, rtLog'.to = rtLog.to, rtLog'.answer = rtLog.answer,
         rtLog'.handled = rtLog.handled
  PROVE  AnIn'
<1>1. AnIn' <=> (rtLog'.to # 0 =>
                   /\ rtLog'.to \in 1 .. Len(rtLog'.handled)
                   /\ Conforms(rtLog'.answer, rtLog'.handled[rtLog'.to]))
  BY DEF AnIn, Conforms, R!Checks, R!IpHeader, R!Word
<1> QED
  BY <1>1, Zenon DEF AnIn

LEMMA AnReceive ==
  ASSUME RtSizes, RxIn, AnIn, R!Receive, NEW F, rtLog \in RtLogs(F)
  PROVE  AnIn'
<1> DEFINE h == Len(rtLog.handled)
           f == rtLog.stored[h + 1]
           handled == Append(rtLog.handled, f)
<1>1. /\ f \in Incoming /\ rtRx.offset \in DOMAIN rtCard.ring /\ R!FrameHere = f
  BY ReceiveFinds DEF R!Receive
<1>2. h \in Nat /\ handled[h + 1] = f /\ Len(handled) = h + 1
      /\ \A i \in 1 .. h : handled[i] = rtLog.handled[i]
  <2>1. rtLog.handled \in Seq(Incoming)
    BY DEF RxIn, RxInv
  <2> HIDE DEF f
  <2> QED
    BY <1>1, <2>1, AppendIs
<1>3. \/ rtLog' = R!Handled(rtLog)
      \/ \E answer \in R!NetReceive(f) : rtLog' = R!Handled(R!Sent(answer, h + 1))
  BY <1>1 DEF R!Receive
<1> HIDE DEF f, h, handled
<1>4. CASE rtLog' = R!Handled(rtLog)
  <2>1. rtLog' = [rtLog EXCEPT !.handled = handled]
    BY <1>1, <1>4 DEF R!Handled, handled
  <2>2. rtLog'.handled = handled /\ rtLog'.to = rtLog.to /\ rtLog'.answer = rtLog.answer
    BY <2>1, SMT DEF RtLogs
  <2>3. ASSUME rtLog.to # 0 PROVE /\ rtLog.to \in 1 .. Len(handled)
                                  /\ Conforms(rtLog.answer, handled[rtLog.to])
    <3>1. rtLog.to \in 1 .. h /\ Conforms(rtLog.answer, rtLog.handled[rtLog.to])
      BY <2>3 DEF AnIn, h
    <3>2. handled[rtLog.to] = rtLog.handled[rtLog.to]
      BY <1>2, <3>1
    <3>3. rtLog.to \in 1 .. Len(handled)
      BY <1>2, <3>1
    <3> QED
      BY <3>1, <3>2, <3>3, Zenon
  <2> QED
    BY <2>2, <2>3, AnAfter
<1>5. CASE \E answer \in R!NetReceive(f) : rtLog' = R!Handled(R!Sent(answer, h + 1))
  <2>1. PICK answer \in R!NetReceive(f) : rtLog' = R!Handled(R!Sent(answer, h + 1))
    BY <1>5
  <2> DEFINE to == h + 1
             log == R!Sent(answer, to)
             G == F \cup {answer, to}
  <2>2. log \in RtLogs(G) /\ log.handled = rtLog.handled /\ log.to = to /\ log.answer = answer
    <3> HIDE DEF to
    <3>1. log \in RtLogs(G) /\ log.handled = rtLog.handled
      <4>1. F \subseteq G /\ answer \in G /\ to \in G /\ log = R!Sent(answer, to)
        OBVIOUS
      <4> HIDE DEF log, G
      <4> QED
        BY <4>1, SentIs
    <3> DEFINE sent == rtLog.sent + 1
               overruns == IF rtTx.desc[rtTx.index].pending THEN rtLog.overruns + 1
                           ELSE rtLog.overruns
    <3>2. log = [rtLog EXCEPT !.sent = sent, !.answer = answer, !.to = to, !.overruns = overruns]
      BY DEF R!Sent
    <3> HIDE DEF log, sent, overruns
    <3>3. log.to = to /\ log.answer = answer
      BY <3>2, SMT DEF RtLogs
    <3> QED
      BY <3>1, <3>3
  <2>3. rtLog' = [log EXCEPT !.handled = handled]
    BY <1>1, <2>1, <2>2 DEF R!Handled, handled
  <2> HIDE DEF log, G, to
  <2>4. rtLog'.handled = handled /\ rtLog'.to = to /\ rtLog'.answer = answer
    BY <2>2, <2>3, SMT DEF RtLogs
  <2>5. to \in 1 .. Len(handled) /\ handled[to] = f
    BY <1>2 DEF to
  <2>6. Conforms(answer, handled[to])
    BY <1>1, <2>5, Conforming
  <2> QED
    BY <2>4, <2>5, <2>6, AnAfter
<1> QED
  BY <1>3, <1>4, <1>5

LEMMA AnStep == RtSizes /\ RxIn /\ AnIn /\ [R!RtlNext]_(R!rtVars) => AnIn'
<1> SUFFICES ASSUME RtSizes, RxIn, AnIn, [R!RtlNext]_(R!rtVars) PROVE AnIn'
  OBVIOUS
<1>1. PICK F : rtLog \in RtLogs(F)
  BY DEF RxIn, TxIn, TxTyped
<1>2. CASE rtLog' = rtLog
  BY <1>2, AnOther
<1>3. ASSUME NEW frame \in Incoming, R!Store(frame) PROVE AnIn'
  <2> DEFINE stored == Append(rtLog.stored, frame)
  <2>1. rtLog' = [rtLog EXCEPT !.stored = stored]
    BY <1>3 DEF R!Store
  <2> HIDE DEF stored
  <2>2. /\ rtLog'.handled = rtLog.handled /\ rtLog'.to = rtLog.to
        /\ rtLog'.answer = rtLog.answer
    BY <1>1, <2>1, SMT DEF RtLogs
  <2> QED
    BY <2>2, AnOther
<1>4. CASE R!Transmit
  <2>1. PICK wire, inOrder : rtLog' = [rtLog EXCEPT !.wire = wire, !.inOrder = inOrder]
    BY <1>4 DEF R!Transmit
  <2>2. /\ rtLog'.handled = rtLog.handled /\ rtLog'.to = rtLog.to
        /\ rtLog'.answer = rtLog.answer
    BY <1>1, <2>1, SMT DEF RtLogs
  <2> QED
    BY <2>2, AnOther
<1>5. CASE R!Ping(LocalIp)
  <2> DEFINE frame == R!ArpRequest(LocalIp)
             sent == rtLog.sent + 1
             overruns == IF rtTx.desc[rtTx.index].pending THEN rtLog.overruns + 1
                         ELSE rtLog.overruns
             pings == R!Sent(frame, 0).pings + 1
  <2>1. rtLog' = [rtLog EXCEPT !.sent = sent, !.answer = frame, !.to = 0,
                               !.overruns = overruns, !.pings = pings]
    BY <1>5 DEF R!Ping, R!Sent
  <2> HIDE DEF frame, sent, overruns, pings
  <2>2. rtLog'.to = 0
    BY <1>1, <2>1, SMT DEF RtLogs
  <2> QED
    BY <2>2, AnAfter
<1>6. CASE R!Receive
  BY <1>1, <1>6, AnReceive
<1> QED
  BY <1>2, <1>3, <1>4, <1>5, <1>6
  DEF R!RtlNext, R!Handler, R!Interrupt, R!Acknowledge, R!Drained, R!Stuck, R!rtVars

(* The last answer is what the protocols ask for: checksums a receiver     *)
(* accepts, addressed to who asked, an echo's bytes as they were sent.     *)
THEOREM AnswersAsAsked ==
  ASSUME RtSizes
  PROVE  DriversSpec => []AnswersConform
<1>1. RxIn /\ AnIn => AnswersConform
  BY DEF AnIn, Conforms, AnswersConform, R!AnswersConform
<1>2. DriversInit => RxIn /\ AnIn
  <2> SUFFICES ASSUME R!RtlInit PROVE RxIn /\ AnIn
    BY DEF DriversInit
  <2>1. rtLog.to = 0
    BY DEF R!RtlInit
  <2> QED
    BY <2>1, RxInit DEF AnIn
<1>3. RxIn /\ AnIn /\ [DriversNext]_AllVars => RxIn' /\ AnIn'
  BY RxStep, AnStep, OtherParts
<1> QED
  BY <1>1, <1>2, <1>3, PTL DEF DriversSpec

------------------------------------------------------------------------------
(* The echo server and its peer: module Echo. *)
(* A segment of the peer, and of the server's. *)
Piece(a, n) == SubSeq(Stream, a + 1, a + n)
Segment(ip, seq, ack, flags, data) ==
  LET len == E!IpHdr + E!TcpHdr + Len(data) IN
  [dst |-> LocalMac, src |-> "peer", type |-> "ipv4",
   bytes |-> IF E!EthHdr + len < 60 THEN 60 ELSE E!EthHdr + len,
   msg |-> [src_ip |-> ip, dest_ip |-> LocalIp, protocol |-> "tcp", ihl |-> 5, len |-> len,
            body |-> [port |-> 80, header |-> E!TcpHdr, seq |-> seq, ack |-> ack,
                      flags |-> flags, data |-> data]]]

LEMMA FrameIs ==
  ASSUME NEW seq, NEW ack, NEW flags, NEW data
  PROVE  E!Frame(seq, ack, flags, data) = Segment(ecPeer.ip, seq, ack, flags, data)
  BY DEF E!Frame, Segment

(* What net_receive makes of a segment. *)
LEMMA ServerAnswers ==
  ASSUME NEW ip, NEW seq, NEW ack, NEW flags, NEW data \in Seq(E!Bytes),
         NEW frame, frame = Segment(ip, seq, ack, flags, data)
  PROVE  /\ "SYN" \in flags =>
              E!NetReceive(frame) =
                {E!TcpSend(ip, 80, 0, (seq + 1) % SeqSpace, {"SYN", "ACK"}, <<>>)}
         /\ "SYN" \notin flags /\ "ACK" \in flags /\ data # <<>> =>
              E!NetReceive(frame) =
                {E!TcpSend(ip, 80, ack, (seq + Len(data)) % SeqSpace, {"ACK", "PSH"}, data)}
         /\ "SYN" \notin flags /\ data = <<>> => E!NetReceive(frame) = {}
<1> DEFINE len == E!IpHdr + E!TcpHdr + Len(data)
           bytes == IF E!EthHdr + len < 60 THEN 60 ELSE E!EthHdr + len
           tcp == [port |-> 80, header |-> E!TcpHdr, seq |-> seq, ack |-> ack,
                   flags |-> flags, data |-> data]
           l == E!IpPayloadLen(frame)
           payload == E!BytesAt(tcp.data, l - tcp.header)
<1>1. /\ frame.type = "ipv4" /\ frame.bytes = bytes /\ frame.msg.protocol = "tcp"
      /\ frame.msg.src_ip = ip /\ frame.msg.body = tcp /\ frame.msg.len = len /\ frame.msg.ihl = 5
  <2> HIDE DEF len, bytes, tcp
  <2>1. frame = [dst |-> LocalMac, src |-> "peer", type |-> "ipv4", bytes |-> bytes,
                 msg |-> [src_ip |-> ip, dest_ip |-> LocalIp, protocol |-> "tcp", ihl |-> 5,
                          len |-> len, body |-> tcp]]
    BY DEF Segment, len, bytes, tcp
  <2> QED
    BY <2>1
<1>2. /\ tcp.port = 80 /\ tcp.header = E!TcpHdr /\ tcp.seq = seq /\ tcp.ack = ack
      /\ tcp.flags = flags /\ tcp.data = data
  OBVIOUS
<1> HIDE DEF tcp
<1>3. Len(data) \in Nat
  BY LenProperties
<1>4. ~(bytes < E!EthHdr) /\ bytes - E!EthHdr >= E!IpHdr
  <2> DEFINE n == Len(data)
  <2> HIDE DEF n
  <2>1. n \in Nat
    BY <1>3 DEF n
  <2> QED
    BY <2>1 DEF n, E!EthHdr, E!IpHdr, E!TcpHdr
<1>5. l = E!TcpHdr + Len(data)
  <2>1. l = len - 4 * 5
    BY <1>1 DEF E!IpPayloadLen
  <2> DEFINE n == Len(data)
  <2>2. n \in Nat /\ l = (20 + 20 + n) - 20
    BY <1>3, <2>1 DEF E!IpHdr, E!TcpHdr
  <2> HIDE DEF n, l
  <2>3. l = 20 + n
    BY <2>2
  <2> QED
    BY <2>3 DEF n, E!TcpHdr
<1>6. /\ ~(l < E!TcpHdr) /\ ~(tcp.header < E!TcpHdr) /\ ~(tcp.header > l)
      /\ l - tcp.header = Len(data)
  <2> HIDE DEF l
  <2> QED
    BY <1>2, <1>3, <1>5 DEF E!TcpHdr
<1>7. payload = data
  BY <1>2, <1>6, DataIs
<1>8. E!NetReceive(frame) = E!TcpReceive(frame.msg, l)
  <2> HIDE DEF l, bytes
  <2> QED
    BY <1>1, <1>4, Zenon DEF E!NetReceive, l
<1> HIDE DEF l, payload
<1>9. ASSUME "SYN" \in flags
      PROVE  E!TcpReceive(frame.msg, l) =
               {E!TcpSend(ip, 80, 0, (seq + 1) % SeqSpace, {"SYN", "ACK"}, <<>>)}
  BY <1>1, <1>2, <1>6, <1>9, Zenon DEF E!TcpReceive
<1>10. ASSUME "SYN" \notin flags, "ACK" \in flags, data # <<>>
       PROVE  E!TcpReceive(frame.msg, l) =
               {E!TcpSend(ip, 80, ack, (seq + Len(data)) % SeqSpace, {"ACK", "PSH"}, data)}
  BY <1>1, <1>2, <1>6, <1>7, <1>10, Zenon DEF E!TcpReceive, payload
<1>11. ASSUME "SYN" \notin flags, data = <<>>
       PROVE  E!TcpReceive(frame.msg, l) = {}
  BY <1>1, <1>2, <1>6, <1>7, <1>11, Zenon DEF E!TcpReceive, payload
<1> QED
  BY <1>8, <1>9, <1>10, <1>11, Zenon

(* What is in a segment of the server's. *)
IsAnswer(frame, ip, seq, ack, flags, data) ==
  /\ frame.msg.src_ip = LocalIp /\ frame.msg.dest_ip = ip
  /\ frame.msg.len - 4 * frame.msg.ihl = E!TcpHdr + Len(data)
  /\ frame.msg.body.seq = seq /\ frame.msg.body.ack = ack
  /\ frame.msg.body.flags = flags /\ frame.msg.body.data = data
  /\ frame.msg.body.checksum =
       E!IpChecksum(E!PseudoHeader(LocalIp, E!Htonl(ip), E!TcpHdr + Len(data)) \o data)

LEMMA AnswerIs ==
  ASSUME NEW ip, NEW seq, NEW ack, NEW flags, NEW data \in Seq(E!Bytes),
         NEW frame, frame = E!TcpSend(ip, 80, seq, ack, flags, data)
  PROVE  IsAnswer(frame, ip, seq, ack, flags, data)
<1> DEFINE len == E!TcpHdr + Len(data)
           sum == E!IpChecksum(E!PseudoHeader(LocalIp, E!Htonl(ip), len) \o data)
           body == [port |-> 80, header |-> E!TcpHdr, seq |-> seq, ack |-> ack,
                    flags |-> flags, data |-> data, checksum |-> sum]
<1>1. frame = E!IpSend(E!Broadcast, ip, "tcp", body, len)
  BY DEF E!TcpSend
<1> HIDE DEF sum
<1>2. /\ body.seq = seq /\ body.ack = ack /\ body.flags = flags /\ body.data = data
      /\ body.checksum = sum
  OBVIOUS
<1> HIDE DEF body, len
<1>3. /\ frame.msg.src_ip = LocalIp /\ frame.msg.dest_ip = ip /\ frame.msg.body = body
      /\ frame.msg.len = E!IpHdr + len /\ frame.msg.ihl = 5
  BY <1>1 DEF E!IpSend
<1>4. len \in Nat
  <2>1. Len(data) \in Nat
    BY LenProperties
  <2> QED
    BY <2>1 DEF len, E!TcpHdr
<1>5. frame.msg.len - 4 * frame.msg.ihl = len
  BY <1>3, <1>4 DEF E!IpHdr
<1> QED
  BY <1>2, <1>3, <1>5 DEF len, sum, IsAnswer

(* Sequence numbers: sums, and that near ones differ. *)
LEMMA RestOfSum ==
  ASSUME NEW m \in Nat \ {0}, NEW x \in Nat, NEW n \in Nat
  PROVE  (x % m) \in 0 .. m - 1 /\ ((x % m) + n) % m = (x + n) % m
<1> DEFINE r == x % m
           q == x \div m
<1>1. r \in 0 .. m - 1 /\ q \in Nat /\ x = m * q + r
  BY SMT
<1> HIDE DEF r, q
<1>2. m * q = q * m /\ (-q) * m = -(q * m) /\ q * m \in Int
  BY <1>1
<1>3. r + n \in Nat /\ x + n \in Nat /\ -q \in Int /\ (r + n) - (x + n) = (-q) * m
  BY <1>1, <1>2
<1>4. (r + n) % m = (x + n) % m
  BY <1>3, SameRest
<1> QED
  BY <1>1, <1>4 DEF r

LEMMA NearDiffer ==
  ASSUME NEW m \in Nat \ {0}, NEW x \in Nat, NEW y \in Nat, x % m = y % m, x <= y, y < x + m
  PROVE  x = y
<1> DEFINE r == x % m
           p == x \div m
           q == y \div m
<1>1. r \in 0 .. m - 1 /\ p \in Nat /\ x = m * p + r
  BY SMT
<1>2. q \in Nat /\ y = m * q + r
  <2>1. y = m * q + (y % m) /\ q \in Nat
    BY SMT
  <2> QED
    BY <2>1, Zenon
<1> HIDE DEF r, p, q
<1> DEFINE d == q - p
<1>3. d \in Int /\ m * q = m * p + m * d /\ m * p \in Int /\ m * d \in Int /\ m * d = d * m
  BY <1>1, <1>2
<1>4. d = 0 => q = p
  BY <1>1, <1>2
<1> HIDE DEF d
<1>5. CASE d = 0
  BY <1>1, <1>2, <1>4, <1>5
<1>6. CASE d >= 1
  <2>1. d * m >= m
    BY <1>3, <1>6, AtLeastOnce
  <2> DEFINE a == m * p
             b == d * m
  <2>2. a \in Int /\ b \in Int /\ b >= m /\ x = a + r /\ y = (a + b) + r
    BY <1>1, <1>2, <1>3, <2>1
  <2> HIDE DEF a, b
  <2> QED
    BY <1>1, <2>2
<1>7. CASE -d >= 1
  <2>1. (-d) * m >= m
    BY <1>3, <1>7, AtLeastOnce
  <2>2. (-d) * m = -(d * m)
    BY <1>3
  <2> DEFINE a == m * p
             b == d * m
  <2>3. a \in Int /\ b \in Int /\ -b >= m /\ x = a + r /\ y = (a + b) + r
    BY <1>1, <1>2, <1>3, <2>1, <2>2
  <2> HIDE DEF a, b
  <2> QED
    BY <1>1, <2>3
<1> QED
  BY <1>3, <1>5, <1>6, <1>7

(* Two places of the stream with one sequence number are one. *)
LEMMA PlacesDiffer ==
  ASSUME Len(Stream) < SeqSpace, NEW a \in 0 .. Len(Stream), NEW b \in 0 .. Len(Stream),
         NEW c \in Nat, (c + a) % SeqSpace = (c + b) % SeqSpace
  PROVE  a = b
<1> DEFINE l == Len(Stream)
<1>1. l \in Nat /\ SeqSpace \in Nat \ {0}
  BY NetAssumption, LenProperties
<1> HIDE DEF l
<1>2. a \in 0 .. l /\ b \in 0 .. l /\ l < SeqSpace
  BY DEF l
<1>3. c + a \in Nat /\ c + b \in Nat /\ c + a < (c + b) + SeqSpace /\ c + b < (c + a) + SeqSpace
  BY <1>1, <1>2
<1>4. c + a = c + b
  <2>1. CASE c + a <= c + b
    BY <1>1, <1>3, <2>1, NearDiffer
  <2>2. CASE c + b <= c + a
    BY <1>1, <1>3, <2>2, NearDiffer
  <2> QED
    BY <1>3, <2>1, <2>2
<1> QED
  BY <1>2, <1>4

(* Pieces of the stream. *)
LEMMA PiecesAre ==
  ASSUME NEW a \in Nat, NEW n \in Nat, a + n <= Len(Stream)
  PROVE  /\ Piece(a, n) \in Seq(E!Bytes) /\ Len(Piece(a, n)) = n
         /\ SubSeq(Stream, 1, a) \o Piece(a, n) = SubSeq(Stream, 1, a + n)
<1> DEFINE l == Len(Stream)
           first == a + 1
           last == a + n
<1>1. Stream \in Seq(E!Bytes) /\ l \in Nat
  BY NetAssumption, LenProperties
<1>2. last <= l
  OBVIOUS
<1>3. first \in Int /\ last \in Int /\ \A i \in first .. last : i \in 1 .. l
  <2> HIDE DEF l
  <2> QED
    BY <1>1, <1>2
<1>4. \A i \in first .. last : Stream[i] \in E!Bytes
  BY <1>1, <1>3, ElementOfSeq
<1>5. (IF first <= last THEN last - first + 1 ELSE 0) = n
  OBVIOUS
<1>6. Piece(a, n) = SubSeq(Stream, first, last)
  BY DEF Piece
<1>7. first = a + 1 /\ last = a + n
  OBVIOUS
<1> HIDE DEF first, last
<1>8. Piece(a, n) \in Seq(E!Bytes) /\ Len(Piece(a, n)) = n
  BY <1>3, <1>4, <1>5, <1>6, SubSeqProperties
<1>9. SubSeq(Stream, 1, a) \o SubSeq(Stream, first, last) = SubSeq(Stream, 1, last)
  <2>1. 1 \in 1 .. l + 1 /\ a \in 1 - 1 .. l /\ last \in a .. l
    <3> HIDE DEF l
    <3> QED
      BY <1>1, <1>2, <1>7
  <2>2. SubSeq(Stream, 1, a) \o SubSeq(Stream, a + 1, last) = SubSeq(Stream, 1, last)
    <3> HIDE DEF l
    <3>1. 1 \in 1 .. Len(Stream) + 1 /\ a \in 1 - 1 .. Len(Stream) /\ last \in a .. Len(Stream)
      BY <2>1 DEF l
    <3> QED
      BY <1>1, <3>1, ConcatAdjacentSubSeq
  <2> QED
    BY <1>7, <2>2
<1> QED
  BY <1>6, <1>7, <1>8, <1>9

(* What a peer at an address sends, and what it is sent.  As long as it    *)
(* has one segment under way at a time, the numbers say which      *)
(* bytes of the stream they are.                                           *)
FromPeer(ip, pipelined, f) ==
  \/ f = Segment(ip, Iss, 0, {"SYN"}, <<>>)
  \/ \E s \in Nat, k \in Nat : f = Segment(ip, s, k, {"ACK"}, <<>>)
  \/ \E s \in Nat, k \in Nat, a \in Nat, n \in Nat \ {0} :
       /\ a + n <= Len(Stream) /\ f = Segment(ip, s, k, {"ACK"}, Piece(a, n))
       /\ ~pipelined => s = E!SeqAt(a) /\ k = (1 + a) % SeqSpace

ForPeer(ip, pipelined, f) ==
  \/ f = E!TcpSend(ip, 80, 0, (Iss + 1) % SeqSpace, {"SYN", "ACK"}, <<>>)
  \/ \E s \in Nat, k \in Nat, a \in Nat, n \in Nat \ {0} :
       /\ a + n <= Len(Stream)
       /\ f = E!TcpSend(ip, 80, s, k, {"ACK", "PSH"}, Piece(a, n))
       /\ ~pipelined => s = (1 + a) % SeqSpace /\ k = E!SeqAt(a + n)

(* The peer: what is acknowledged is what it has got back. *)
Peers == [ip : Addresses, state : {"closed", "syn", "open"}, next : Nat, acked : Nat,
          expects : Nat, received : Seq(E!Bytes), pipelined : BOOLEAN]
PeerInv(peer) ==
  /\ peer \in Peers
  /\ peer.acked <= peer.next /\ peer.next <= Len(Stream)
  /\ peer.state # "open" =>
       peer.next = 0 /\ peer.acked = 0 /\ peer.received = <<>> /\ ~peer.pipelined
  /\ peer.state = "open" /\ ~peer.pipelined =>
       /\ peer.expects = (1 + peer.acked) % SeqSpace
       /\ peer.received = SubSeq(Stream, 1, peer.acked)
  /\ ~E!Balanced(peer.ip) => peer.state # "open"

EchoInv ==
  /\ PeerInv(ecPeer)
  /\ \A f \in ecToServer : FromPeer(ecPeer.ip, ecPeer.pipelined, f)
  /\ \A f \in ecToPeer : ForPeer(ecPeer.ip, ecPeer.pipelined, f)

LEMMA SpaceIs ==
  /\ SeqSpace \in Nat \ {0} /\ Iss \in Nat /\ Len(Stream) \in Nat /\ Stream \in Seq(E!Bytes)
  /\ \A n \in Nat : n % SeqSpace \in Nat
  /\ \A n \in Nat : E!SeqAt(n) \in Nat
<1>1. SeqSpace \in Nat \ {0} /\ Iss \in Nat /\ Len(Stream) \in Nat /\ Stream \in Seq(E!Bytes)
  BY NetAssumption, LenProperties
<1>2. \A n \in Nat : n % SeqSpace \in Nat
  BY <1>1
<1>3. \A n \in Nat : Iss + 1 + n \in Nat
  BY <1>1
<1> QED
  BY <1>1, <1>2, <1>3 DEF E!SeqAt

LEMMA ServeKeeps ==
  ASSUME NEW ip, NEW pipelined, NEW f, FromPeer(ip, pipelined, f), NEW answer \in E!NetReceive(f)
  PROVE  ForPeer(ip, pipelined, answer)
<1>1. /\ <<>> \in Seq(E!Bytes) /\ Len(<<>>) = 0 /\ "ACK" # "SYN"
  OBVIOUS
<1>2. CASE f = Segment(ip, Iss, 0, {"SYN"}, <<>>)
  <2>1. E!NetReceive(f) = {E!TcpSend(ip, 80, 0, (Iss + 1) % SeqSpace, {"SYN", "ACK"}, <<>>)}
    <3> DEFINE flags == {"SYN"}
               data == <<>>
    <3>1. data \in Seq(E!Bytes) /\ "SYN" \in flags /\ f = Segment(ip, Iss, 0, flags, data)
      BY <1>2
    <3> HIDE DEF flags, data
    <3> QED
      BY <3>1, ServerAnswers
  <2> QED
    BY <2>1 DEF ForPeer
<1>3. CASE \E s \in Nat, k \in Nat : f = Segment(ip, s, k, {"ACK"}, <<>>)
  <2>1. E!NetReceive(f) = {}
    <3> DEFINE flags == {"ACK"}
               data == <<>>
    <3>1. PICK s \in Nat, k \in Nat : f = Segment(ip, s, k, flags, data)
      BY <1>3
    <3>2. data \in Seq(E!Bytes) /\ "SYN" \notin flags /\ data = <<>>
      BY <1>1
    <3> HIDE DEF flags, data
    <3> QED
      BY <3>1, <3>2, ServerAnswers
  <2> QED
    BY <2>1
<1>4. ASSUME NEW s \in Nat, NEW k \in Nat, NEW a \in Nat, NEW n \in Nat \ {0},
             a + n <= Len(Stream), f = Segment(ip, s, k, {"ACK"}, Piece(a, n)),
             ~pipelined => s = E!SeqAt(a) /\ k = (1 + a) % SeqSpace
      PROVE  ForPeer(ip, pipelined, answer)
  <2>1. Piece(a, n) \in Seq(E!Bytes) /\ Len(Piece(a, n)) = n
    BY <1>4, PiecesAre
  <2>2. Piece(a, n) # <<>>
    BY <1>1, <2>1
  <2> DEFINE t == (s + Len(Piece(a, n))) % SeqSpace
             data == Piece(a, n)
  <2>3. E!NetReceive(f) = {E!TcpSend(ip, 80, k, t, {"ACK", "PSH"}, data)}
    <3>1. data \in Seq(E!Bytes) /\ data # <<>> /\ "SYN" \notin {"ACK"} /\ "ACK" \in {"ACK"}
          /\ f = Segment(ip, s, k, {"ACK"}, data) /\ t = (s + Len(data)) % SeqSpace
      BY <1>4, <2>1, <2>2
    <3> HIDE DEF data, t
    <3> QED
      BY <3>1, ServerAnswers
  <2>4. t = (s + n) % SeqSpace /\ t \in Nat
    BY <2>1, SpaceIs
  <2> HIDE DEF t
  <2>5. ASSUME ~pipelined PROVE k = (1 + a) % SeqSpace /\ t = E!SeqAt(a + n)
    <3> DEFINE x == Iss + 1 + a
    <3>1. k = (1 + a) % SeqSpace /\ s = x % SeqSpace
      BY <1>4, <2>5 DEF E!SeqAt
    <3>2. x \in Nat /\ x + n = Iss + 1 + (a + n)
      BY SpaceIs
    <3> HIDE DEF x
    <3>3. ((x % SeqSpace) + n) % SeqSpace = (x + n) % SeqSpace
      BY <3>2, SpaceIs, RestOfSum
    <3> QED
      BY <2>4, <3>1, <3>2, <3>3 DEF E!SeqAt
  <2> QED
    BY <1>4, <2>3, <2>4, <2>5 DEF ForPeer
<1> QED
  BY <1>2, <1>3, <1>4 DEF FromPeer

(* What is sent stays right when the peer begins to send on. *)
LEMMA StillRight ==
  ASSUME NEW ip, NEW before, NEW after, ~after => ~before, NEW f
  PROVE  /\ FromPeer(ip, before, f) => FromPeer(ip, after, f)
         /\ ForPeer(ip, before, f) => ForPeer(ip, after, f)
<1>1. ASSUME FromPeer(ip, before, f) PROVE FromPeer(ip, after, f)
  BY <1>1, Zenon DEF FromPeer
<1>2. ASSUME ForPeer(ip, before, f) PROVE ForPeer(ip, after, f)
  BY <1>2, Zenon DEF ForPeer
<1> QED
  BY <1>1, <1>2

LEMMA InvAfter ==
  ASSUME NEW ip, NEW pipelined, ecPeer'.ip = ip, ecPeer'.pipelined = pipelined, PeerInv(ecPeer'),
         \A f \in ecToServer' : FromPeer(ip, pipelined, f),
         \A f \in ecToPeer' : ForPeer(ip, pipelined, f)
  PROVE  EchoInv'
<1>1. EchoInv' <=> /\ PeerInv(ecPeer')
                   /\ \A f \in ecToServer' : FromPeer(ecPeer'.ip, ecPeer'.pipelined, f)
                   /\ \A f \in ecToPeer' : ForPeer(ecPeer'.ip, ecPeer'.pipelined, f)
  BY DEF EchoInv
<1> QED
  BY <1>1, Zenon

LEMMA SynKeeps == EchoInv /\ E!Syn => EchoInv'
<1> SUFFICES ASSUME EchoInv, E!Syn PROVE EchoInv'
  OBVIOUS
<1> DEFINE p == ecPeer
<1>1. /\ p \in Peers /\ PeerInv(p) /\ p.state = "closed"
      /\ ecPeer' = [p EXCEPT !.state = "syn"] /\ ecToPeer' = ecToPeer
      /\ ecToServer' = ecToServer \cup {Segment(p.ip, Iss, 0, {"SYN"}, <<>>)}
  BY FrameIs DEF EchoInv, PeerInv, E!Syn
<1>2. /\ ecPeer' \in Peers /\ ecPeer'.ip = p.ip /\ ecPeer'.state = "syn"
      /\ ecPeer'.next = p.next /\ ecPeer'.acked = p.acked /\ ecPeer'.received = p.received
      /\ ecPeer'.pipelined = p.pipelined
  BY <1>1 DEF Peers
<1>3. PeerInv(ecPeer')
  BY <1>1, <1>2, Zenon DEF PeerInv
<1>4. FromPeer(p.ip, p.pipelined, Segment(p.ip, Iss, 0, {"SYN"}, <<>>))
  BY DEF FromPeer
<1>5. /\ \A f \in ecToServer' : FromPeer(p.ip, p.pipelined, f)
      /\ \A f \in ecToPeer' : ForPeer(p.ip, p.pipelined, f)
  BY <1>1, <1>4, Zenon DEF EchoInv
<1> QED
  BY <1>2, <1>3, <1>5, InvAfter

LEMMA SendAckKeeps == EchoInv /\ E!SendAck => EchoInv'
<1> SUFFICES ASSUME EchoInv, E!SendAck PROVE EchoInv'
  OBVIOUS
<1> DEFINE p == ecPeer
           f == Segment(p.ip, E!SeqAt(p.next), p.expects, {"ACK"}, <<>>)
<1>1. /\ p \in Peers /\ PeerInv(p) /\ ecPeer' = p /\ ecToPeer' = ecToPeer
      /\ ecToServer' = ecToServer \cup {f}
  BY FrameIs DEF EchoInv, PeerInv, E!SendAck
<1>2. p.next \in Nat /\ p.expects \in Nat
  BY <1>1 DEF Peers
<1>3. FromPeer(p.ip, p.pipelined, f)
  BY <1>2, SpaceIs DEF FromPeer
<1> HIDE DEF f
<1>4. /\ \A g \in ecToServer' : FromPeer(p.ip, p.pipelined, g)
      /\ \A g \in ecToPeer' : ForPeer(p.ip, p.pipelined, g)
  BY <1>1, <1>3, Zenon DEF EchoInv
<1> QED
  BY <1>1, <1>4, InvAfter

LEMMA SendDataKeeps ==
  ASSUME EchoInv, NEW n \in 1 .. MaxSegment, E!SendData(n)
  PROVE  EchoInv'
<1> DEFINE p == ecPeer
           a == p.next
           next == a + n
           pipelined == p.pipelined \/ p.acked < a
           s == E!SeqAt(a)
           k == p.expects
           f == Segment(p.ip, s, k, {"ACK"}, Piece(a, n))
<1>1. /\ p \in Peers /\ PeerInv(p) /\ ecToPeer' = ecToPeer
      /\ p.state = "open" /\ next <= Len(Stream)
      /\ ecPeer' = [p EXCEPT !.next = next, !.pipelined = pipelined]
      /\ ecToServer' = ecToServer \cup {f}
  BY FrameIs DEF EchoInv, PeerInv, E!SendData, Piece
<1>2. /\ a \in Nat /\ p.acked \in Nat /\ k \in Nat /\ p.pipelined \in BOOLEAN /\ p.acked <= a
      /\ ~p.pipelined => k = (1 + p.acked) % SeqSpace
  <2>1. a \in Nat /\ p.acked \in Nat /\ k \in Nat /\ p.pipelined \in BOOLEAN
    BY <1>1 DEF Peers
  <2>2. p.acked <= a /\ (~p.pipelined => k = (1 + p.acked) % SeqSpace)
    BY <1>1, Zenon DEF PeerInv
  <2> QED
    BY <2>1, <2>2, Zenon
<1>3. /\ n \in Nat \ {0} /\ next \in Nat /\ p.acked <= next
      /\ pipelined \in BOOLEAN
      /\ ~pipelined => ~p.pipelined /\ p.acked = a
  <2>1. n \in Nat \ {0} /\ next \in Nat /\ p.acked <= next
    BY <1>2, NetAssumption
  <2>2. ~(p.acked < a) => p.acked = a
    BY <1>2
  <2>3. pipelined \in BOOLEAN
    BY <1>2
  <2> QED
    BY <2>1, <2>2, <2>3, Zenon
<1>4. s \in Nat
  BY <1>2, SpaceIs
<1> HIDE DEF s, next, pipelined
<1>5. /\ ecPeer' \in Peers /\ ecPeer'.ip = p.ip /\ ecPeer'.state = p.state
      /\ ecPeer'.next = next /\ ecPeer'.acked = p.acked /\ ecPeer'.received = p.received
      /\ ecPeer'.expects = p.expects /\ ecPeer'.pipelined = pipelined
  BY <1>1, <1>3 DEF Peers
<1>6. PeerInv(ecPeer')
  BY <1>1, <1>2, <1>3, <1>5, Zenon DEF PeerInv
<1>7. FromPeer(p.ip, pipelined, f)
  <2>1. ~pipelined => s = E!SeqAt(a) /\ k = (1 + a) % SeqSpace
    BY <1>2, <1>3 DEF s
  <2>2. a + n <= Len(Stream)
    BY <1>1 DEF next
  <2> QED
    BY <1>2, <1>3, <1>4, <2>1, <2>2 DEF FromPeer
<1> HIDE DEF f
<1>8. \A g : /\ FromPeer(p.ip, p.pipelined, g) => FromPeer(p.ip, pipelined, g)
             /\ ForPeer(p.ip, p.pipelined, g) => ForPeer(p.ip, pipelined, g)
  BY <1>3, StillRight
<1>9. /\ \A g \in ecToServer' : FromPeer(p.ip, pipelined, g)
      /\ \A g \in ecToPeer' : ForPeer(p.ip, pipelined, g)
  <2>1. /\ \A g \in ecToServer : FromPeer(p.ip, p.pipelined, g)
        /\ \A g \in ecToPeer : ForPeer(p.ip, p.pipelined, g)
    BY DEF EchoInv
  <2> QED
    BY <1>1, <1>7, <1>8, <2>1
<1> QED
  BY <1>5, <1>6, <1>9, InvAfter

(* The SYN is answered: its checksum is right for balanced addresses only. *)
LEMMA OpenKeeps ==
  ASSUME EchoInv, NEW frame \in ecToPeer, E!Right(frame.msg),
         ecPeer.state = "syn", "SYN" \in frame.msg.body.flags,
         ecPeer' = [ecPeer EXCEPT !.state = "open",
                                  !.expects = (frame.msg.body.seq + 1) % SeqSpace],
         ecToServer' = ecToServer, ecToPeer' = ecToPeer
  PROVE  EchoInv'
<1> DEFINE p == ecPeer
           tcp == frame.msg.body
           expects == (tcp.seq + 1) % SeqSpace
           data == <<>>
<1>1. /\ p \in Peers /\ PeerInv(p) /\ ForPeer(p.ip, p.pipelined, frame)
      /\ ecPeer' = [p EXCEPT !.state = "open", !.expects = expects]
  BY DEF EchoInv, PeerInv
<1>2. data \in Seq(E!Bytes) /\ Len(data) = 0 /\ data = <<>>
  OBVIOUS
<1>3. frame = E!TcpSend(p.ip, 80, 0, (Iss + 1) % SeqSpace, {"SYN", "ACK"}, data)
  <2>1. ASSUME NEW s \in Nat, NEW k \in Nat, NEW a \in Nat, NEW n \in Nat \ {0},
               a + n <= Len(Stream),
               frame = E!TcpSend(p.ip, 80, s, k, {"ACK", "PSH"}, Piece(a, n))
        PROVE  FALSE
    <3> DEFINE flags == {"ACK", "PSH"}
               piece == Piece(a, n)
    <3>1. piece \in Seq(E!Bytes) /\ frame = E!TcpSend(p.ip, 80, s, k, flags, piece)
      BY <2>1, PiecesAre
    <3>2. frame.msg.body.flags = flags
      <4> HIDE DEF flags, piece
      <4>1. IsAnswer(frame, p.ip, s, k, flags, piece)
        BY <3>1, AnswerIs
      <4> QED
        BY <4>1, Zenon DEF IsAnswer
    <3>3. "SYN" # "ACK" /\ "SYN" # "PSH"
      OBVIOUS
    <3> QED
      BY <3>2, <3>3, Zenon
  <2> QED
    BY <1>1, <2>1, Zenon DEF ForPeer
<1>4. /\ frame.msg.src_ip = LocalIp /\ frame.msg.dest_ip = p.ip
      /\ frame.msg.len - 4 * frame.msg.ihl = E!TcpHdr + Len(data)
      /\ tcp.seq = 0 /\ tcp.data = data
      /\ tcp.checksum =
           E!IpChecksum(E!PseudoHeader(LocalIp, E!Htonl(p.ip), E!TcpHdr + Len(data)) \o data)
  <2> DEFINE flags == {"SYN", "ACK"}
             ack == (Iss + 1) % SeqSpace
             seq == 0
             ip == p.ip
  <2>1. frame = E!TcpSend(ip, 80, seq, ack, flags, data)
    BY <1>3
  <2> HIDE DEF data, flags, ack, seq, ip
  <2>2. IsAnswer(frame, ip, seq, ack, flags, data)
    BY <1>2, <2>1, AnswerIs
  <2> QED
    BY <2>2, Zenon DEF seq, ip, IsAnswer
<1>5. E!Balanced(p.ip)
  <2> DEFINE len == E!TcpHdr + Len(data)
  <2>1. len \in Nat /\ p.ip \in E!Ips
    BY <1>1, NetAssumption DEF Peers, E!TcpHdr
  <2>2. E!Checks(E!PseudoHeader(LocalIp, p.ip, len) \o data,
                 E!IpChecksum(E!PseudoHeader(LocalIp, E!Htonl(p.ip), len) \o data))
    BY <1>4, Zenon DEF E!Right
  <2>3. E!Checks(E!PseudoHeader(LocalIp, p.ip, len) \o <<>>,
                 E!IpChecksum(E!PseudoHeader(LocalIp, E!Htonl(p.ip), len) \o <<>>))
    BY <2>2
  <2> HIDE DEF len, data
  <2> QED
    BY <2>1, <2>3, OnlyBalanced
<1>6. expects = (1 + 0) % SeqSpace /\ expects \in Nat
  BY <1>4, SpaceIs
<1> HIDE DEF expects
<1>7. /\ ecPeer' \in Peers /\ ecPeer'.ip = p.ip /\ ecPeer'.state = "open"
      /\ ecPeer'.expects = expects /\ ecPeer'.next = p.next /\ ecPeer'.acked = p.acked
      /\ ecPeer'.received = p.received /\ ecPeer'.pipelined = p.pipelined
  BY <1>1, <1>6 DEF Peers
<1>8. p.next = 0 /\ p.acked = 0 /\ p.received = <<>> /\ ~p.pipelined
  <2>1. "syn" # "open"
    OBVIOUS
  <2> QED
    BY <1>1, <2>1, Zenon DEF PeerInv
<1>9. SubSeq(Stream, 1, 0) = <<>>
  BY SubSeqEmpty
<1>10. PeerInv(ecPeer')
  <2>1. 0 <= 0 /\ 0 <= Len(Stream)
    BY SpaceIs
  <2> QED
    BY <1>5, <1>6, <1>7, <1>8, <1>9, <2>1, Zenon DEF PeerInv
<1>11. /\ \A g \in ecToServer' : FromPeer(p.ip, p.pipelined, g)
       /\ \A g \in ecToPeer' : ForPeer(p.ip, p.pipelined, g)
  BY Zenon DEF EchoInv
<1> QED
  BY <1>7, <1>10, <1>11, InvAfter

(* A piece comes back: with one segment under way it is the one expected,  *)
(* whatever else is still on the network.                                  *)
LEMMA PieceKeeps ==
  ASSUME Len(Stream) < SeqSpace, EchoInv, NEW frame \in ecToPeer,
         ecPeer.state = "open", "SYN" \notin frame.msg.body.flags,
         frame.msg.body.seq = ecPeer.expects,
         NEW n \in ecPeer.acked .. ecPeer.next, E!SeqAt(n) = frame.msg.body.ack,
         ecPeer' = [ecPeer EXCEPT
                      !.acked = n,
                      !.expects = (ecPeer.expects + Len(frame.msg.body.data)) % SeqSpace,
                      !.received = ecPeer.received \o frame.msg.body.data],
         ecToServer' = ecToServer, ecToPeer' = ecToPeer
  PROVE  EchoInv'
<1> DEFINE p == ecPeer
           tcp == frame.msg.body
           e == p.expects
           c == p.acked
           expects == (e + Len(tcp.data)) % SeqSpace
           received == p.received \o tcp.data
<1>1. /\ p \in Peers /\ PeerInv(p) /\ ForPeer(p.ip, p.pipelined, frame)
      /\ ecPeer' = [p EXCEPT !.acked = n, !.expects = expects, !.received = received]
  BY DEF EchoInv, PeerInv
<1>2. /\ c \in Nat /\ p.next \in Nat /\ e \in Nat /\ p.received \in Seq(E!Bytes)
      /\ p.next <= Len(Stream)
      /\ ~p.pipelined => e = (1 + c) % SeqSpace /\ p.received = SubSeq(Stream, 1, c)
  <2>1. /\ c \in Nat /\ p.next \in Nat /\ e \in Nat /\ p.received \in Seq(E!Bytes)
    BY <1>1 DEF Peers
  <2>2. /\ p.next <= Len(Stream)
        /\ ~p.pipelined => e = (1 + c) % SeqSpace /\ p.received = SubSeq(Stream, 1, c)
    BY <1>1, Zenon DEF PeerInv
  <2> QED
    BY <2>1, <2>2, Zenon
<1>3. PICK s \in Nat, k \in Nat, a \in Nat, l \in Nat \ {0} :
        /\ a + l <= Len(Stream)
        /\ frame = E!TcpSend(p.ip, 80, s, k, {"ACK", "PSH"}, Piece(a, l))
        /\ ~p.pipelined => s = (1 + a) % SeqSpace /\ k = E!SeqAt(a + l)
  <2>1. ASSUME frame = E!TcpSend(p.ip, 80, 0, (Iss + 1) % SeqSpace, {"SYN", "ACK"}, <<>>)
        PROVE  FALSE
    <3> DEFINE flags == {"SYN", "ACK"}
               data == <<>>
               ack == (Iss + 1) % SeqSpace
    <3>1. data \in Seq(E!Bytes) /\ frame = E!TcpSend(p.ip, 80, 0, ack, flags, data)
      BY <2>1
    <3>2. frame.msg.body.flags = flags
      <4> HIDE DEF flags, data, ack
      <4>1. IsAnswer(frame, p.ip, 0, ack, flags, data)
        BY <3>1, AnswerIs
      <4> QED
        BY <4>1, Zenon DEF IsAnswer
    <3> QED
      BY <3>2
  <2> QED
    BY <1>1, <2>1, Zenon DEF ForPeer
<1> DEFINE data == Piece(a, l)
<1>4. tcp.seq = s /\ tcp.ack = k /\ tcp.data = data /\ data \in Seq(E!Bytes) /\ Len(data) = l
  <2> DEFINE flags == {"ACK", "PSH"}
  <2>1. /\ data \in Seq(E!Bytes) /\ Len(data) = l
        /\ frame = E!TcpSend(p.ip, 80, s, k, flags, data)
    BY <1>3, PiecesAre
  <2> HIDE DEF flags, data
  <2>2. IsAnswer(frame, p.ip, s, k, flags, data)
    BY <2>1, AnswerIs
  <2> QED
    BY <2>1, <2>2, Zenon DEF IsAnswer
<1>5. n \in Nat /\ c <= n /\ n <= p.next /\ n \in 0 .. Len(Stream) /\ c \in 0 .. Len(Stream)
  <2> HIDE DEF c
  <2>1. n \in c .. p.next
    BY DEF c
  <2> QED
    BY <1>2, <2>1, SpaceIs
<1>6. a \in 0 .. Len(Stream) /\ a + l \in 0 .. Len(Stream)
  BY <1>3, SpaceIs
<1>7. ASSUME ~p.pipelined
      PROVE  /\ n = c + l /\ expects = (1 + n) % SeqSpace
             /\ received = SubSeq(Stream, 1, n)
  <2>1. (1 + a) % SeqSpace = (1 + c) % SeqSpace
    BY <1>2, <1>3, <1>4, <1>7
  <2>2. a = c
    BY <1>5, <1>6, <2>1, PlacesDiffer
  <2>3. (Iss + 1 + n) % SeqSpace = (Iss + 1 + (a + l)) % SeqSpace
    BY <1>3, <1>4, <1>7 DEF E!SeqAt
  <2>4. n = a + l
    <3> DEFINE o == Iss + 1
               d == a + l
    <3>1. o \in Nat /\ (o + n) % SeqSpace = (o + d) % SeqSpace /\ d \in 0 .. Len(Stream)
      <4>1. o \in Nat
        BY SpaceIs
      <4>2. (o + n) % SeqSpace = (o + d) % SeqSpace
        BY <2>3, Zenon
      <4> QED
        BY <1>6, <4>1, <4>2, Zenon
    <3>2. n \in 0 .. Len(Stream)
      BY <1>5
    <3> HIDE DEF o, d
    <3>3. n = d
      BY <3>1, <3>2, PlacesDiffer
    <3> QED
      BY <3>3 DEF d
  <2>5. received = SubSeq(Stream, 1, n)
    BY <1>2, <1>3, <1>4, <1>7, <2>2, <2>4, PiecesAre
  <2>6. expects = (1 + n) % SeqSpace
    <3> DEFINE o == 1 + c
    <3>1. o \in Nat /\ o + l = 1 + n
      BY <1>2, <2>2, <2>4
    <3>2. expects = ((o % SeqSpace) + l) % SeqSpace
      <4>1. e = o % SeqSpace /\ Len(tcp.data) = l
        BY <1>2, <1>4, <1>7
      <4> HIDE DEF o, e
      <4> QED
        BY <4>1, Zenon
    <3> HIDE DEF o
    <3>3. ((o % SeqSpace) + l) % SeqSpace = (o + l) % SeqSpace
      BY <1>3, <3>1, SpaceIs, RestOfSum
    <3> QED
      BY <3>1, <3>2, <3>3
  <2> QED
    BY <2>2, <2>4, <2>5, <2>6
<1>8. expects \in Nat /\ received \in Seq(E!Bytes)
  <2>1. e + Len(tcp.data) \in Nat
    BY <1>2, <1>3, <1>4
  <2>2. expects \in Nat
    BY <2>1, SpaceIs
  <2>3. received \in Seq(E!Bytes)
    BY <1>2, <1>4, ConcatProperties
  <2> QED
    BY <2>2, <2>3
<1> HIDE DEF expects, received
<1>9. /\ ecPeer' \in Peers /\ ecPeer'.ip = p.ip /\ ecPeer'.state = p.state
      /\ ecPeer'.next = p.next /\ ecPeer'.acked = n /\ ecPeer'.received = received
      /\ ecPeer'.expects = expects /\ ecPeer'.pipelined = p.pipelined
  BY <1>1, <1>5, <1>8 DEF Peers
<1>10. PeerInv(ecPeer')
  <2>1. n <= p.next /\ p.next <= Len(Stream) /\ (~E!Balanced(p.ip) => p.state # "open")
    BY <1>1, <1>2, <1>5 DEF PeerInv
  <2> QED
    BY <1>7, <1>9, <2>1, Zenon DEF PeerInv
<1>11. /\ \A g \in ecToServer' : FromPeer(p.ip, p.pipelined, g)
       /\ \A g \in ecToPeer' : ForPeer(p.ip, p.pipelined, g)
  BY Zenon DEF EchoInv
<1> QED
  BY <1>9, <1>10, <1>11, InvAfter

LEMMA ServeStep ==
  ASSUME EchoInv, NEW frame \in ecToServer, E!Serve(frame)
  PROVE  EchoInv'
<1> DEFINE p == ecPeer
<1>1. /\ ecPeer' = p /\ ecToServer' = ecToServer
      /\ ecToPeer' = ecToPeer \cup E!NetReceive(frame)
  BY DEF E!Serve
<1>2. /\ PeerInv(p) /\ FromPeer(p.ip, p.pipelined, frame)
      /\ \A g \in ecToServer : FromPeer(p.ip, p.pipelined, g)
      /\ \A g \in ecToPeer : ForPeer(p.ip, p.pipelined, g)
  BY DEF EchoInv
<1>3. \A g \in E!NetReceive(frame) : ForPeer(p.ip, p.pipelined, g)
  BY <1>2, ServeKeeps
<1>4. /\ \A g \in ecToServer' : FromPeer(p.ip, p.pipelined, g)
      /\ \A g \in ecToPeer' : ForPeer(p.ip, p.pipelined, g)
  BY <1>1, <1>2, <1>3
<1> QED
  BY <1>1, <1>2, <1>4, InvAfter

LEMMA EchoKeeps ==
  ASSUME Len(Stream) < SeqSpace
  PROVE  EchoInv /\ [E!EchoNext]_(E!ecVars) => EchoInv'
<1> SUFFICES ASSUME EchoInv, [E!EchoNext]_(E!ecVars) PROVE EchoInv'
  OBVIOUS
<1>1. CASE UNCHANGED E!ecVars
  BY <1>1, InvAfter DEF EchoInv, E!ecVars
<1>2. ASSUME NEW n \in 1 .. MaxSegment, E!SendData(n) PROVE EchoInv'
  BY <1>2, SendDataKeeps
<1>3. ASSUME NEW frame \in ecToPeer, E!PeerReceives(frame) PROVE EchoInv'
  <2>1. E!Right(frame.msg) /\ ecToServer' = ecToServer /\ ecToPeer' = ecToPeer
    BY <1>3 DEF E!PeerReceives
  <2>2. CASE /\ ecPeer.state = "syn" /\ "SYN" \in frame.msg.body.flags
             /\ ecPeer' = [ecPeer EXCEPT !.state = "open",
                                         !.expects = (frame.msg.body.seq + 1) % SeqSpace]
    BY <2>1, <2>2, OpenKeeps
  <2>3. ASSUME ecPeer.state = "open", "SYN" \notin frame.msg.body.flags,
               frame.msg.body.seq = ecPeer.expects,
               NEW n \in ecPeer.acked .. ecPeer.next, E!SeqAt(n) = frame.msg.body.ack,
               ecPeer' = [ecPeer EXCEPT
                            !.acked = n,
                            !.expects = (ecPeer.expects + Len(frame.msg.body.data)) % SeqSpace,
                            !.received = ecPeer.received \o frame.msg.body.data]
        PROVE  EchoInv'
    BY <2>1, <2>3, PieceKeeps
  <2> QED
    BY <1>3, <2>2, <2>3, Zenon DEF E!PeerReceives
<1>4. ASSUME NEW frame \in ecToServer, E!Serve(frame) PROVE EchoInv'
  BY <1>4, ServeStep
<1> QED
  BY <1>1, <1>2, <1>3, <1>4, SynKeeps, SendAckKeeps DEF E!EchoNext, E!Peer

(* A peer with one segment under way at a time gets its own bytes back, in *)
(* order and once each, and one whose address the checksum gets wrong      *)
(* hears nothing, as long as the stream is shorter than the sequence space.*)
THEOREM EchoReturnsPrefix ==
  ASSUME Len(Stream) < SeqSpace
  PROVE  DriversSpec => []EchoIsPrefix
<1>1. EchoInv => EchoIsPrefix
  <2> SUFFICES ASSUME EchoInv PROVE E!EchoIsPrefix
    BY DEF EchoIsPrefix
  <2> DEFINE p == ecPeer
  <2>1. PeerInv(p) /\ p \in Peers
    BY DEF EchoInv, PeerInv
  <2>2. ASSUME ~p.pipelined PROVE E!Prefix(p.received, Stream)
    <3> DEFINE c == p.acked
    <3>1. c \in Nat /\ c <= Len(Stream)
      <4>1. c \in Nat /\ p.next \in Nat
        BY <2>1 DEF Peers
      <4>2. c <= p.next /\ p.next <= Len(Stream)
        BY <2>1, Zenon DEF PeerInv
      <4> DEFINE l == Len(Stream)
                 next == p.next
      <4>3. l \in Nat
        BY SpaceIs
      <4> HIDE DEF c, l, next
      <4>4. c \in Nat /\ c <= next /\ next \in Nat /\ next <= l
        BY <4>1, <4>2 DEF c, l, next
      <4>5. c <= l
        BY <4>3, <4>4
      <4> QED
        BY <4>1, <4>5 DEF c, l
    <3>2. p.received = SubSeq(Stream, 1, c)
      <4>1. CASE p.state = "open"
        BY <2>1, <2>2, <4>1, Zenon DEF PeerInv
      <4>2. CASE p.state # "open"
        <5>1. p.received = <<>> /\ c = 0
          BY <2>1, <4>2, Zenon DEF PeerInv
        <5> QED
          BY <5>1, SubSeqEmpty
      <4> QED
        BY <4>1, <4>2
    <3> HIDE DEF c
    <3>3. Len(SubSeq(Stream, 1, c)) = c
      <4>1. \A i \in 1 .. c : Stream[i] \in E!Bytes
        BY <3>1, SpaceIs, ElementOfSeq
      <4> QED
        BY <3>1, <4>1, SubSeqProperties
    <3> QED
      BY <3>1, <3>2, <3>3 DEF E!Prefix
  <2>3. ~E!Balanced(p.ip) => p.state # "open"
    BY <2>1 DEF PeerInv
  <2> QED
    BY <2>2, <2>3 DEF E!EchoIsPrefix
<1>2. DriversInit => EchoInv
  <2> SUFFICES ASSUME E!EchoInit PROVE EchoInv
    BY DEF DriversInit
  <2>1. /\ ecPeer \in [ip : Addresses, state : {"closed"}, next : {0}, acked : {0},
                       expects : {0}, received : {<<>>}, pipelined : {FALSE}]
        /\ ecToServer = {} /\ ecToPeer = {}
    BY DEF E!EchoInit
  <2>2. /\ ecPeer.state = "closed" /\ ecPeer.next = 0 /\ ecPeer.acked = 0
        /\ ecPeer.received = <<>> /\ ecPeer.pipelined = FALSE
    BY <2>1
  <2>3. ecPeer \in Peers
    <3>1. <<>> \in Seq(E!Bytes)
      OBVIOUS
    <3> DEFINE none == <<>>
               state == "closed"
               States == {"closed", "syn", "open"}
               One == {state}
               Nothing == {none}
               Never == {FALSE}
    <3>2. /\ state \in States /\ One = {state} /\ none \in Seq(E!Bytes) /\ Nothing = {none}
          /\ Never \subseteq BOOLEAN
      BY <3>1
    <3>3. ecPeer \in [ip : Addresses, state : One, next : {0}, acked : {0}, expects : {0},
                     received : Nothing, pipelined : Never]
      BY <2>1
    <3> HIDE DEF none, state, States, One, Nothing, Never
    <3>4. ecPeer \in [ip : Addresses, state : States, next : Nat, acked : Nat, expects : Nat,
                     received : Seq(E!Bytes), pipelined : BOOLEAN]
      BY <3>2, <3>3
    <3> QED
      BY <3>4 DEF Peers, States
  <2>4. 0 <= 0 /\ 0 <= Len(Stream) /\ "closed" # "open"
    BY SpaceIs
  <2> QED
    BY <2>1, <2>2, <2>3, <2>4, Zenon DEF EchoInv, PeerInv
<1>3. EchoInv /\ [DriversNext]_AllVars => EchoInv'
  BY EchoKeeps, OtherParts
<1> QED
  BY <1>1, <1>2, <1>3, PTL DEF DriversSpec
=============================================================================
