-------------------------------- MODULE Nvme --------------------------------
(***************************************************************************)
(* Reading and writing in src/drivers/nvme.c: the I/O submission queue and *)
(* the I/O completion queue, two rings in memory, between the driver and   *)
(* the controller.                                                         *)
(*                                                                         *)
(* nvme_read and nvme_write put one command into the submission ring, ring *)
(* its doorbell and spin on the completion ring's next entry until its     *)
(* phase bit is the expected one or a count has run down.  They differ in  *)
(* the opcode only.  A call's number stands for its command and its        *)
(* buffer.  The driver sends g_cid with a command and never looks at the   *)
(* cid that comes back: it is left out.  The controller (external) fetches *)
(* commands in order and completes them in any order, at any time.         *)
(***************************************************************************)
EXTENDS Naturals, Sequences, FiniteSets

CONSTANTS
  Entries,       \* entries of each ring, 512 in nvme_create_io_queues
  SqRoom,        \* entries the memory of the submission ring has room for
  MaxCalls,      \* bound: calls of nvme_read and nvme_write
  MaxTimeouts    \* bound: calls that time out

ASSUME NvmeAssumption ==
  /\ Entries \in Nat /\ Entries > 1
  /\ SqRoom \in Nat
  /\ MaxCalls \in Nat
  /\ MaxTimeouts \in Nat /\ MaxTimeouts + 1 < Entries

VARIABLES
  io_sq,        \* the submission ring: the number of the call in each entry
  io_sq_tail,
  io_cq,        \* the completion ring
  io_cq_head,
  io_phase,
  call,         \* the call the driver is in, or last was in
  waiting,      \* is it spinning?
  device,       \* the controller's side of the rings
  timeouts,     \* history: calls that timed out
  ret           \* history: what the last call returned, and on whose behalf

vars == <<io_sq, io_sq_tail, io_cq, io_cq_head, io_phase, call, waiting, device,
          timeouts, ret>>

Slots == 0 .. Entries - 1
Calls == 0 .. MaxCalls
Failed == 2      \* what the driver returns as -1
Statuses == {0, 1}

(* of is the call whose command the entry completes; phase is a bit. *)
Completion == [of : Calls, status : Statuses, phase : {0, 1}]

After(i) == (i + 1) % Entries

(* The rings as nvme_create_io_queues leaves them, zeroed. *)
Init ==
  /\ io_sq = [i \in Slots |-> 0]
  /\ io_sq_tail = 0
  /\ io_cq = [i \in Slots |-> [of |-> 0, status |-> 0, phase |-> 0]]
  /\ io_cq_head = 0
  /\ io_phase = 1
  /\ call = 0
  /\ waiting = FALSE
  /\ device = [sq_head |-> 0, cq_tail |-> 0, phase |-> 1, busy |-> {}]
  /\ timeouts = 0
  /\ ret = [call |-> 0, of |-> 0, status |-> 0]

(* Mutant: the command is copied into the entry before the tail. *)
SubmitOverwrites ==
  /\ ~waiting /\ call < MaxCalls
  /\ call' = call + 1
  /\ io_sq' = [io_sq EXCEPT ![(io_sq_tail + Entries - 1) % Entries] = call + 1]
  /\ io_sq_tail' = After(io_sq_tail)
  /\ waiting' = TRUE
  /\ UNCHANGED <<io_cq, io_cq_head, io_phase, device, timeouts, ret>>

(* nvme_read or nvme_write copies its command and rings the doorbell. *)
Submit ==
  /\ ~waiting /\ call < MaxCalls
  /\ call' = call + 1
  /\ io_sq' = [io_sq EXCEPT ![io_sq_tail] = call + 1]
  /\ io_sq_tail' = After(io_sq_tail)
  /\ waiting' = TRUE
  /\ UNCHANGED <<io_cq, io_cq_head, io_phase, device, timeouts, ret>>

(* The phase bit of the next entry is the expected one. *)
Arrived == io_cq[io_cq_head].phase = io_phase

(* The spin ends with a completion: its status is returned, the head moved *)
(* and its doorbell rung; the phase changes when the ring wraps.           *)
Complete ==
  /\ waiting /\ Arrived
  /\ ret' = [call |-> call, of |-> io_cq[io_cq_head].of, status |-> io_cq[io_cq_head].status]
  /\ io_cq_head' = After(io_cq_head)
  /\ io_phase' = IF After(io_cq_head) = 0 THEN 1 - io_phase ELSE io_phase
  /\ waiting' = FALSE
  /\ UNCHANGED <<io_sq, io_sq_tail, io_cq, call, device, timeouts>>

(* Mutant: the entry that did not come is skipped. *)
TimeoutSkips ==
  /\ waiting /\ ~Arrived
  /\ timeouts < MaxTimeouts
  /\ timeouts' = timeouts + 1
  /\ ret' = [call |-> call, of |-> call, status |-> Failed]
  /\ io_cq_head' = After(io_cq_head)
  /\ waiting' = FALSE
  /\ UNCHANGED <<io_sq, io_sq_tail, io_cq, io_phase, call, device>>

(* The count has run down: -1 is returned, and nothing else is done. *)
Timeout ==
  /\ waiting /\ ~Arrived
  /\ timeouts < MaxTimeouts
  /\ timeouts' = timeouts + 1
  /\ ret' = [call |-> call, of |-> call, status |-> Failed]
  /\ waiting' = FALSE
  /\ UNCHANGED <<io_sq, io_sq_tail, io_cq, io_cq_head, io_phase, call, device>>

(* The controller fetches the next command. *)
Fetch ==
  /\ device.sq_head # io_sq_tail
  /\ device' = [device EXCEPT !.sq_head = After(@), !.busy = @ \cup {io_sq[device.sq_head]}]
  /\ UNCHANGED <<io_sq, io_sq_tail, io_cq, io_cq_head, io_phase, call, waiting, timeouts, ret>>

(* It has carried out a command and completes it, if the ring has room. *)
Post(c, status) ==
  /\ c \in device.busy
  /\ After(device.cq_tail) # io_cq_head
  /\ io_cq' = [io_cq EXCEPT ![device.cq_tail] =
                 [of |-> c, status |-> status, phase |-> device.phase]]
  /\ device' = [sq_head |-> device.sq_head,
                cq_tail |-> After(device.cq_tail),
                phase |-> IF After(device.cq_tail) = 0 THEN 1 - device.phase ELSE device.phase,
                busy |-> device.busy \ {c}]
  /\ UNCHANGED <<io_sq, io_sq_tail, io_cq_head, io_phase, call, waiting, timeouts, ret>>

Next ==
  \/ Submit
  \/ Complete
  \/ Timeout
  \/ Fetch
  \/ \E c \in Calls, s \in Statuses : Post(c, s)

Spec == Init /\ [][Next]_vars
------------------------------------------------------------------------------
(* Every variable has its type. *)
TypeOK ==
  /\ io_sq \in [Slots -> Calls]
  /\ io_sq_tail \in Slots
  /\ io_cq \in [Slots -> Completion]
  /\ io_cq_head \in Slots
  /\ io_phase \in {0, 1}
  /\ call \in Calls
  /\ waiting \in BOOLEAN
  /\ device \in [sq_head : Slots, cq_tail : Slots, phase : {0, 1}, busy : SUBSET (1 .. MaxCalls)]
  /\ timeouts \in 0 .. MaxTimeouts
  /\ ret \in [call : Calls, of : Calls, status : Statuses \cup {Failed}]

Outstanding(head, tail) == (tail + Entries - head) % Entries

(* The entries of a ring from head up to tail. *)
Between(head, tail, value(_)) ==
  [k \in 1 .. Outstanding(head, tail) |-> value((head + k - 1) % Entries)]

SqEntry(i) == io_sq[i]
CqEntry(i) == <<io_cq[i].of, io_cq[i].status>>

Sq == INSTANCE Fifo WITH
  Capacity <- Entries - 1, queue <- Between(device.sq_head, io_sq_tail, SqEntry)

Cq == INSTANCE Fifo WITH
  Capacity <- Entries - 1, queue <- Between(io_cq_head, device.cq_tail, CqEntry)

(* As long as fewer calls time out than the ring has entries, no command   *)
(* is overwritten before the controller fetched it: the driver never looks *)
(* at the submission ring's head, and need not.                            *)
SubmissionIsFifo == Sq!Spec

(* The phase bit alone tells the driver what is a completion: it takes     *)
(* each one once and in the order posted, around the ring and after        *)
(* timeouts too.                                                           *)
CompletionIsFifo == Cq!Spec

(* Both rings of the I/O queue are queues. *)
QueuesAreFifo == SubmissionIsFifo /\ CompletionIsFifo

(* Until the first timeout a call returns its own command's status, and    *)
(* when it returns, the controller is done with its command and buffer.    *)
OwnUntilTimeout ==
  timeouts = 0 => /\ ret.of = ret.call
                  /\ ~waiting => device.busy = {} /\ device.sq_head = io_sq_tail

(* After timeouts the driver is that many completions behind, and never    *)
(* catches up: in the rings and in the controller's hands there is one for *)
(* each timeout, and the present call's.                                   *)
BehindByTimeouts ==
  Outstanding(device.sq_head, io_sq_tail) + Cardinality(device.busy)
    + Outstanding(io_cq_head, device.cq_tail)
  = timeouts + (IF waiting THEN 1 ELSE 0)

(* What the driver knows of its rings, and how far it is behind in them.   *)
RingsInStep == TypeOK /\ OwnUntilTimeout /\ BehindByTimeouts

(* blockdev.h says of read and write "Returns 0 on success, non-zero on    *)
(* error": a call that returns 0 was completed, and successfully.          *)
ZeroIsSuccess == ret.status = 0 => ret.of = ret.call

(* nvme_create_io_queues says "512 entries": each of them has memory.      *)
EntriesHaveMemory == \A i \in Slots : io_sq[i] # 0 => i < SqRoom
=============================================================================
