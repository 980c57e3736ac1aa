-------------------------------- MODULE Fifo --------------------------------
(***************************************************************************)
(* A bounded queue: what is put in comes out once, in the order in which   *)
(* it was put in.                                                          *)
(***************************************************************************)
EXTENDS Naturals, Sequences

CONSTANT Capacity   \* how much it can hold

VARIABLE queue

Init == queue = <<>>

Put ==
  /\ Len(queue) < Capacity
  /\ Len(queue') = Len(queue) + 1
  /\ SubSeq(queue', 1, Len(queue)) = queue

Get == queue # <<>> /\ queue' = Tail(queue)

Spec == Init /\ [][Put \/ Get]_queue
=============================================================================
