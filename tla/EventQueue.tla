----------------------------- MODULE EventQueue -----------------------------
(***************************************************************************)
(* The ring of events of a process's window: wm_push_event in              *)
(* src/gui/window_manager.c and SYS_GUI_EVENT_POLL in src/core/syscall.c.  *)
(*                                                                         *)
(* The keyboard's handler pushes keys and the process polls, both with     *)
(* interrupts off: one step each.  The GUI loop pushes mouse buttons with  *)
(* interrupts on: its push is cut where it reads or writes the ring.  Its  *)
(* value of event_head is read once and kept (the build is optimised), and *)
(* its stores are taken to stay in order.                                  *)
(*                                                                         *)
(* An event is the number it has in the order in which events happened.    *)
(* The GUI loop copies a structure of several words, so an entry is a pair *)
(* of halves, both of them the event's number unless a copy was torn.      *)
(***************************************************************************)
EXTENDS Naturals, Sequences

CONSTANT Size   \* EVENT_QUEUE_SIZE

ASSUME EventQueueAssumption == Size \in Nat \ {0, 1}

VARIABLES
  event_queue,
  event_head,
  event_tail,
  push,        \* the GUI loop's wm_push_event: where it is and its locals;
               \* ahead counts what handlers have pushed since it began
  polled,      \* the entry that the process got last
  raced,       \* history: it wrote an entry after handlers had pushed some
  overtaken    \* history: the GUI loop wrote into slots that were delivered
               \* in the meantime and count as full again

queueVars == <<event_queue, event_head, event_tail, push, polled, raced, overtaken>>

Slots == 0 .. Size - 1
Succ(i) == (i + 1) % Size
Filled == (event_head + Size - event_tail) % Size

NoPush == [pc |-> "idle", ev |-> 0, head |-> 0, ahead |-> 0]

QueueInit ==
  /\ event_queue = [i \in Slots |-> <<0, 0>>]
  /\ event_head = 0
  /\ event_tail = 0
  /\ push = NoPush
  /\ polled = <<0, 0>>
  /\ raced = FALSE
  /\ overtaken = FALSE

(* Mutant: the ring may become full to the last slot, and look empty. *)
IrqPushFills(ev) ==
  /\ event_queue' = [event_queue EXCEPT ![event_head] = <<ev, ev>>]
  /\ event_head' = Succ(event_head)
  /\ push' = IF push.pc = "idle" THEN push ELSE [push EXCEPT !.ahead = @ + 1]
  /\ UNCHANGED <<event_tail, polled, raced, overtaken>>

(* wm_push_event, called by wm_handle_key: dropped if the ring is full. *)
IrqPush(ev) ==
  /\ IF Succ(event_head) = event_tail
     THEN UNCHANGED <<event_queue, event_head, push>>
     ELSE /\ event_queue' = [event_queue EXCEPT ![event_head] = <<ev, ev>>]
          /\ event_head' = Succ(event_head)
          /\ push' = IF push.pc = "idle" THEN push ELSE [push EXCEPT !.ahead = @ + 1]
  /\ UNCHANGED <<event_tail, polled, raced, overtaken>>

(* Mutant: whether there is an event is not looked at. *)
PollUnchecked ==
  /\ polled' = event_queue[event_tail]
  /\ event_tail' = Succ(event_tail)
  /\ UNCHANGED <<event_queue, event_head, push, raced, overtaken>>

(* SYS_GUI_EVENT_POLL that returns an event. *)
Poll ==
  /\ event_head # event_tail
  /\ polled' = event_queue[event_tail]
  /\ event_tail' = Succ(event_tail)
  /\ UNCHANGED <<event_queue, event_head, push, raced, overtaken>>
------------------------------------------------------------------------------
(* wm_push_event, called by wm_update. *)
Pushing(pc) == push.pc = pc
PushGoto(pc) == push' = [push EXCEPT !.pc = pc]

PushReads(ev) ==
  /\ Pushing("idle")
  /\ push' = [pc |-> "check", ev |-> ev, head |-> event_head, ahead |-> 0]
  /\ UNCHANGED <<event_queue, event_head, event_tail, polled, raced, overtaken>>

PushCheck ==
  /\ Pushing("check")
  /\ IF Succ(push.head) = event_tail THEN push' = NoPush ELSE PushGoto("type")
  /\ UNCHANGED <<event_queue, event_head, event_tail, polled, raced, overtaken>>

(* A slot that handlers filled a round later is overwritten. *)
Lapped == push.ahead > Size

PushType ==
  /\ Pushing("type")
  /\ event_queue' = [event_queue EXCEPT ![push.head] = <<push.ev, @[2]>>]
  /\ raced' = (raced \/ push.ahead > 0)
  /\ overtaken' = (overtaken \/ Lapped)
  /\ PushGoto("rest")
  /\ UNCHANGED <<event_head, event_tail, polled>>

PushRest ==
  /\ Pushing("rest")
  /\ event_queue' = [event_queue EXCEPT ![push.head] = <<@[1], push.ev>>]
  /\ raced' = (raced \/ push.ahead > 0)
  /\ overtaken' = (overtaken \/ Lapped)
  /\ PushGoto("advance")
  /\ UNCHANGED <<event_head, event_tail, polled>>

(* event_head is set behind event_tail if more than one of the handlers'   *)
(* events has been delivered: all slots but one count as full.             *)
PushAdvance ==
  /\ Pushing("advance")
  /\ event_head' = Succ(push.head)
  /\ overtaken' = (overtaken \/ Filled + 2 <= push.ahead)
  /\ push' = NoPush
  /\ UNCHANGED <<event_queue, event_tail, polled, raced>>

Push == PushCheck \/ PushType \/ PushRest \/ PushAdvance
------------------------------------------------------------------------------
QueueTypeOK ==
  /\ event_queue \in [Slots -> Nat \X Nat]
  /\ event_head \in Slots /\ event_tail \in Slots
  /\ push \in [pc : {"idle", "check", "type", "rest", "advance"}, ev : Nat,
               head : Slots, ahead : Nat]
  /\ polled \in Nat \X Nat
  /\ raced \in BOOLEAN /\ overtaken \in BOOLEAN

Queued == [i \in 1 .. Filled |-> event_queue[(event_tail + i - 1) % Size]]

Abstract == INSTANCE Fifo WITH Capacity <- Size - 1, queue <- Queued

(* The ring is a queue: the only steps that are not a put at its end or a  *)
(* get from its front are those of a push of the GUI loop that handlers'   *)
(* pushes came in between.                                                 *)
QueueUnlessRaced ==
  /\ Abstract!Init
  /\ [][(push.ahead > 0 /\ push'.pc # push.pc) \/ Abstract!Put \/ Abstract!Get]_Queued

(* Races lose events and may join two halves of different ones, but never  *)
(* bring an event back or out of order, as long as the GUI loop was not    *)
(* overtaken.                                                              *)
DeliveredInOrder ==
  [][polled' # polled =>
       /\ overtaken \/ polled'[1] > polled[1]
       /\ raced \/ polled'[1] = polled'[2]]_polled
=============================================================================
