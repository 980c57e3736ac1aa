----------------------------- MODULE NvmeStart -----------------------------
(***************************************************************************)
(* The start of the NVMe controller in src/drivers/nvme.c: nvme_init       *)
(* resets it, identifies it and its first namespace, has it create the two *)
(* I/O queues, registers the block device and has its partition table read.*)
(*                                                                         *)
(* All commands go through the admin queues, one at a time.  Their rings   *)
(* of 64 entries are not gone round at the start: the completions are kept *)
(* as a sequence of which nvHead have been taken.  As in the I/O queue,    *)
(* whatever completion is next is taken for that of the present command,   *)
(* and a command that timed out stays with the controller (external).      *)
(***************************************************************************)
EXTENDS Naturals, Sequences

VARIABLES
  nvStep,      \* how far nvme_init is; the commands are named after what they ask
  nvWaiting,   \* is nvme_submit_admin_cmd spinning?
  nvBusy,      \* commands the controller has
  nvCq,        \* completions it posted: whose, and was the status zero
  nvHead,      \* those the driver has taken
  nvCreated,   \* queues the controller has created
  nvSize,      \* are sector_count, sector_size and nsid set? They are zero before
  nvTimedOut   \* history: commands that timed out

nvVars == <<nvStep, nvWaiting, nvBusy, nvCq, nvHead, nvCreated, nvSize, nvTimedOut>>

Commands == {"controller", "namespace", "cq", "sq"}

Init ==
  /\ nvStep = "reset"
  /\ nvWaiting = FALSE
  /\ nvBusy = {}
  /\ nvCq = <<>>
  /\ nvHead = 0
  /\ nvCreated = {}
  /\ nvSize = FALSE
  /\ nvTimedOut = {}

(* nvme_controller_init: the controller gets ready in time, or not. *)
Reset ==
  /\ nvStep = "reset"
  /\ nvStep' \in {"controller", "failed"}
  /\ UNCHANGED <<nvWaiting, nvBusy, nvCq, nvHead, nvCreated, nvSize, nvTimedOut>>

(* The command is copied into the ring and the doorbell rung. *)
Submit ==
  /\ nvStep \in Commands /\ ~nvWaiting
  /\ nvWaiting' = TRUE
  /\ nvBusy' = nvBusy \cup {nvStep}
  /\ UNCHANGED <<nvStep, nvCq, nvHead, nvCreated, nvSize, nvTimedOut>>

(* Mutant: whatever comes of Create I/O CQ, the next queue is created. *)
ReturnUnchecked(ok) ==
  /\ nvWaiting' = FALSE
  /\ nvStep' \in CASE nvStep = "controller" -> IF ok THEN {"namespace", "cq"} ELSE {"failed"}
                   [] nvStep = "namespace" -> {"cq"}
                   [] nvStep = "cq" -> {"sq"}
                   [] nvStep = "sq" -> {IF ok THEN "registered" ELSE "failed"}
  /\ nvSize' = (nvSize \/ (nvStep = "namespace" /\ ok))

(* What follows when nvme_submit_admin_cmd has returned.  A controller     *)
(* without namespaces is not asked for the first one's size, and a failure *)
(* to identify it is not looked at.                                        *)
Return(ok) ==
  /\ nvWaiting' = FALSE
  /\ nvStep' \in CASE nvStep = "controller" -> IF ok THEN {"namespace", "cq"} ELSE {"failed"}
                   [] nvStep = "namespace" -> {"cq"}
                   [] nvStep = "cq" -> {IF ok THEN "sq" ELSE "failed"}
                   [] nvStep = "sq" -> {IF ok THEN "registered" ELSE "failed"}
  /\ nvSize' = (nvSize \/ (nvStep = "namespace" /\ ok))

(* The next entry of the completion ring has the expected phase. *)
Complete ==
  /\ nvWaiting /\ nvHead < Len(nvCq)
  /\ nvHead' = nvHead + 1
  /\ Return(nvCq[nvHead + 1].ok)
  /\ UNCHANGED <<nvBusy, nvCq, nvCreated, nvTimedOut>>

Timeout ==
  /\ nvWaiting /\ nvHead = Len(nvCq)
  /\ nvTimedOut' = nvTimedOut \cup {nvStep}
  /\ Return(FALSE)
  /\ UNCHANGED <<nvBusy, nvCq, nvHead, nvCreated>>

(* The controller carries a command out, or refuses it; a submission queue *)
(* without its completion queue it refuses.                                *)
Post(c, ok) ==
  /\ c \in nvBusy
  /\ ok /\ c = "sq" => "cq" \in nvCreated
  /\ nvBusy' = nvBusy \ {c}
  /\ nvCq' = Append(nvCq, [of |-> c, ok |-> ok])
  /\ nvCreated' = IF ok /\ c \in {"cq", "sq"} THEN nvCreated \cup {c} ELSE nvCreated
  /\ UNCHANGED <<nvStep, nvWaiting, nvHead, nvSize, nvTimedOut>>

(* gpt_read_table reads LBA 1 through the new queues.  Without the         *)
(* submission queue nothing answers; a GPT header has it divide by the     *)
(* sector size, and a size of zero stops the processor.                    *)
ReadHeader ==
  /\ nvStep = "registered"
  /\ \/ nvStep' = "no table"
     \/ /\ "sq" \in nvCreated
        /\ nvStep' = IF nvSize THEN "table" ELSE "divide error"
  /\ UNCHANGED <<nvWaiting, nvBusy, nvCq, nvHead, nvCreated, nvSize, nvTimedOut>>

Next ==
  \/ Reset \/ Submit \/ Complete \/ Timeout \/ ReadHeader
  \/ \E c \in Commands, ok \in BOOLEAN : Post(c, ok)
------------------------------------------------------------------------------
(* A block device is registered over queues that exist: the completion     *)
(* queue always, the submission queue unless the namespace's identify      *)
(* timed out, whose failure nvme_identify does not pass on and whose late  *)
(* completion makes every later one come a command too early.  And the     *)
(* sectors have a size unless that identify was left out or failed.        *)
RegisteredOverQueues ==
  nvStep \in {"registered", "no table", "table", "divide error"} =>
    /\ "cq" \in nvCreated
    /\ nvTimedOut \subseteq {"namespace"}
    /\ nvTimedOut = {} => "sq" \in nvCreated
    /\ (\E i \in 1 .. Len(nvCq) : nvCq[i].of = "namespace" /\ nvCq[i].ok /\ nvTimedOut = {})
         => nvSize
=============================================================================
