-------------------------------- MODULE Ahci --------------------------------
(***************************************************************************)
(* src/drivers/ahci.c: ahci_init goes from port to port, sets each one up, *)
(* identifies the drive and has its partitions scanned (module Gpt), every *)
(* sector of which is read by ahci_read.                                   *)
(*                                                                         *)
(* A call finds a slot that is neither in SACT nor in CI, fills the slot's *)
(* command table, waits until the drive is not busy, sets the slot's bit   *)
(* in CI and spins until the controller clears it, an error is reported or *)
(* a count has run down.  SACT is always zero.  The controller and the     *)
(* drive are external: they take the commands of CI in any order, one at a *)
(* time, at any time, and stop at the first error, as AHCI lays down.  A   *)
(* drive may also fall silent for good, and report nothing.                *)
(*                                                                         *)
(* The command list is 24 bytes behind a page, for kmalloc_a aligns the    *)
(* header it puts before a block: a controller may drop those low bits of  *)
(* the address, as AHCI allows, or keep them, as the emulator does that    *)
(* the Makefile starts.  If they are dropped, the driver, who reads the    *)
(* register back, finds the heap's header there, in which the pointer to   *)
(* the command table is null.                                              *)
(***************************************************************************)
EXTENDS Integers, Sequences, FiniteSets, Gpt

CONSTANTS
  Ports,       \* the ports implemented are 1 .. Ports
  CmdSlots,    \* command slots of a port, 32
  Disks        \* what is connected to each port: its type, and what is on it

VARIABLES
  ahPort,    \* the registers of each port, its command tables and its drive
  ahInit,    \* ahci_init and gpt_read_table: the port, what is done there, the scan
  ahCall,    \* the call of ahci_identify or ahci_read
  ahList,    \* the block devices registered, in order
  ahOk       \* history: the calls that returned 0

ahVars == <<ahPort, ahInit, ahCall, ahList, ahOk>>

Slot == 0 .. CmdSlots - 1
None == -1
NoCommand == [call |-> 0, count |-> 0, far |-> FALSE, prdt |-> <<>>]

(* A port after the reset of the HBA: nothing issued, no error; its link   *)
(* is up.                                                                  *)
PortReset ==
  [ci |-> {}, tfes |-> FALSE, running |-> FALSE, halted |-> FALSE, busy |-> None,
   up |-> TRUE, silent |-> FALSE, keeps |-> TRUE, overrun |-> FALSE,
   active |-> NoCommand, table |-> [s \in Slot |-> NoCommand],
   issued |-> [s \in Slot |-> NoCommand], moved |-> [c \in {} |-> 0]]

AhciInit ==
  /\ ahPort = [p \in 1 .. Ports |-> PortReset]
  /\ ahInit = [port |-> 1, step |-> "port", scan |-> Start, failed |-> FALSE]
  /\ ahCall = [no |-> 0, at |-> "idle", slot |-> None, sectors |-> 0]
  /\ ahList = <<>>
  /\ ahOk = {}

SectorBytes == 512
PrdtSectors == 16   \* 8 KB in each entry but the last
TableRoom == 8      \* a table has 256 bytes, of which its entries have 128

(* Mutant: entries that are not full are not counted. *)
PrdtlDown(count) == (count \div PrdtSectors) % 65536

(* prdtl, which has 16 bits. *)
Prdtl(count) == IF count = 0 THEN 0 ELSE (((count - 1) \div PrdtSectors) + 1) % 65536

(* The byte counts of the table's entries for a read of count sectors: the *)
(* last one takes the rest, of which it keeps 22 bits.                     *)
Rest(count) ==
  (((count - PrdtSectors * (Prdtl(count) - 1)) * SectorBytes - 1) % 4194304) + 1

Prdt(count) ==
  [i \in 1 .. Prdtl(count) |-> IF i < Prdtl(count) THEN PrdtSectors * SectorBytes ELSE Rest(count)]

(* The bytes of a table's entries. *)
Bytes(prdt) ==
  LET sum[i \in 0 .. Len(prdt)] == IF i = 0 THEN 0 ELSE sum[i - 1] + prdt[i]
  IN sum[Len(prdt)]

(* The sectors the drive is asked for: READ DMA has a count of 8 bits,     *)
(* READ DMA EX, for what lies far out, one of 16, and 0 stands for the     *)
(* count that does not fit.                                                *)
Asked(command) ==
  LET space == IF command.far THEN 65536 ELSE 256 IN
  IF command.count % space = 0 THEN space ELSE command.count % space

(* The bytes that arrive: what the drive sends, as far as the entries go.  *)
Moves(command) ==
  LET sent == Asked(command) * SectorBytes
      room == Bytes(command.prdt)
  IN IF sent <= room THEN sent ELSE room

Overruns(command) == Len(command.prdt) > TableRoom

(* find_cmd_slot: the first one that is free. *)
FindCmdSlot(port) ==
  IF Slot \subseteq port.ci THEN None
  ELSE CHOOSE s \in Slot \ port.ci : \A t \in Slot \ port.ci : s <= t

(* The loop over the ports: only SATA drives are set up. *)
NextPort ==
  /\ ahInit.step = "port"
  /\ \/ /\ ahInit.port > Ports
        /\ ahInit' = [ahInit EXCEPT !.step = "end"]
     \/ /\ ahInit.port <= Ports /\ Disks[ahInit.port].type # "sata"
        /\ ahInit' = [ahInit EXCEPT !.port = @ + 1]
  /\ UNCHANGED <<ahPort, ahCall, ahList, ahOk>>

(* stop_cmd: a port that does not come to rest is reset, and its link is   *)
(* waited for without a count.                                             *)
StopCmd ==
  /\ ahInit.step = "port" /\ ahInit.port <= Ports /\ Disks[ahInit.port].type = "sata"
  /\ ahInit' = [ahInit EXCEPT !.step = "stop"]
  /\ \E rests \in BOOLEAN : ahPort' = [ahPort EXCEPT ![ahInit.port].up = rests]
  /\ UNCHANGED <<ahCall, ahList, ahOk>>

(* The port gets its memory, and start_cmd; clearing ST has cleared CI. *)
Rebase ==
  /\ ahInit.step = "stop" /\ ahPort[ahInit.port].up
  /\ ahInit' = [ahInit EXCEPT !.step = "identify"]
  /\ \E keeps \in BOOLEAN :
       ahPort' = [ahPort EXCEPT ![ahInit.port] =
                    [@ EXCEPT !.ci = {}, !.tfes = FALSE, !.running = TRUE, !.keeps = keeps]]
  /\ UNCHANGED <<ahCall, ahList, ahOk>>

Disk == Disks[ahInit.port]

(* What the buffer of the table holds when the read has returned 0: the    *)
(* table if all of it has arrived, and whatever lay there if not.          *)
Seen ==
  IF /\ ahCall.no \in DOMAIN ahPort[ahInit.port].moved
     /\ ahPort[ahInit.port].moved[ahCall.no] >= TableBytes(Disk)
  THEN {Disk.table} ELSE [1 .. Len(Disk.table) -> Kinds]

(* What follows when a call has returned. *)
Advance(ok) ==
  \/ /\ ahInit.step = "identify"
     /\ ahList' = IF ok THEN Append(ahList, ahInit.port) ELSE ahList
     /\ ahInit' = IF ok THEN [ahInit EXCEPT !.step = "scan", !.scan = Start, !.failed = FALSE]
                  ELSE [ahInit EXCEPT !.step = "port", !.port = @ + 1]
  \/ /\ ahInit.step = "scan"
     /\ \E seen \in IF ok /\ ahInit.scan.step = "table" THEN Seen ELSE {<<>>} :
          ahInit' = [ahInit EXCEPT !.scan = AfterRead(@, ok, Disk, seen), !.failed = @ \/ ~ok]
     /\ UNCHANGED ahList

Return(ok) ==
  /\ ahCall' = [ahCall EXCEPT !.at = "idle"]
  /\ ahOk' = IF ok THEN ahOk \cup {ahCall.no} ELSE ahOk
  /\ Advance(ok)

(* The scan is over. *)
ScanDone ==
  /\ ahInit.step = "scan" /\ ahInit.scan.step = "done"
  /\ ahInit' = [ahInit EXCEPT !.step = "port", !.port = @ + 1]
  /\ UNCHANGED <<ahPort, ahCall, ahList, ahOk>>

Calls ==
  \/ ahInit.step = "identify"
  \/ ahInit.step = "scan" /\ ahInit.scan.step \notin {"done", "fault"}

(* Where the header and the table of slot s are, others of the port's      *)
(* tables may follow: what is written past the end may destroy them.       *)
Filled(port, s, command, destroyed) ==
  [port EXCEPT !.tfes = FALSE, !.overrun = @ \/ Overruns(command),
               !.table = [t \in Slot |-> IF t = s THEN command
                                         ELSE IF t \in destroyed THEN NoCommand ELSE @[t]]]

(* A call clears the port's interrupt status, finds a slot and fills its   *)
(* table.                                                                  *)
Begin ==
  LET p == ahInit.port
      n == ahCall.no + 1
      s == FindCmdSlot(ahPort[p])
      sectors == IF ahInit.step = "identify" THEN 1 ELSE Sectors(ahInit.scan, Disk, SectorBytes)
      command == [call |-> n, count |-> sectors, far |-> ahInit.step = "scan" /\ Disk.far,
                  prdt |-> Prdt(sectors)]
  IN
  /\ Calls /\ ahCall.at = "idle"
  /\ s # None /\ ahPort[p].keeps
  /\ \E destroyed \in IF Overruns(command) THEN SUBSET (Slot \ {s}) ELSE {{}} :
       ahPort' = [ahPort EXCEPT ![p] = Filled(@, s, command, destroyed)]
  /\ ahCall' = [no |-> n, at |-> "filled", slot |-> s, sectors |-> sectors]
  /\ UNCHANGED <<ahInit, ahList, ahOk>>

(* All slots are taken, or the slot's header has no table: the call fails  *)
(* at once.                                                                *)
Refused ==
  LET p == ahInit.port IN
  /\ Calls /\ ahCall.at = "idle"
  /\ FindCmdSlot(ahPort[p]) = None \/ ~ahPort[p].keeps
  /\ ahPort' = [ahPort EXCEPT ![p].tfes = FALSE]
  /\ ahCall' = [ahCall EXCEPT !.no = @ + 1]
  /\ UNCHANGED ahOk
  /\ Advance(FALSE)

(* The drive is not busy: the command is issued. *)
Issue ==
  LET p == ahInit.port
      s == ahCall.slot
  IN
  /\ ahCall.at = "filled" /\ ahPort[p].busy = None
  /\ ahPort' = [ahPort EXCEPT ![p].ci = @ \cup {s}, ![p].issued[s] = ahPort[p].table[s]]
  /\ ahCall' = [ahCall EXCEPT !.at = "waiting"]
  /\ UNCHANGED <<ahInit, ahList, ahOk>>

(* The drive stays busy with an earlier command: the call gives up. *)
HungBeforeIssue ==
  /\ ahCall.at = "filled" /\ ahPort[ahInit.port].busy # None
  /\ Return(FALSE)
  /\ UNCHANGED ahPort

(* The controller has cleared the slot's bit. *)
Done ==
  /\ ahCall.at = "waiting" /\ ahCall.slot \notin ahPort[ahInit.port].ci
  /\ Return(TRUE)
  /\ UNCHANGED ahPort

(* Mutant: identify looks at the slot's bit only. *)
TaskFileErrorRead ==
  /\ ahCall.at = "waiting" /\ ahCall.slot \in ahPort[ahInit.port].ci
  /\ ahPort[ahInit.port].tfes /\ ahInit.step # "identify"
  /\ Return(FALSE)
  /\ UNCHANGED ahPort

(* An error is reported, be it this command's or an earlier one's. *)
TaskFileError ==
  /\ ahCall.at = "waiting" /\ ahCall.slot \in ahPort[ahInit.port].ci
  /\ ahPort[ahInit.port].tfes
  /\ Return(FALSE)
  /\ UNCHANGED ahPort

(* The count has run down, in ahci_read only: ahci_identify spins on. *)
ReadTimeout ==
  /\ ahCall.at = "waiting" /\ ahCall.slot \in ahPort[ahInit.port].ci
  /\ ~ahPort[ahInit.port].tfes /\ ahInit.step = "scan"
  /\ Return(FALSE)
  /\ UNCHANGED ahPort

(* The link comes up again. *)
LinkUp(p) ==
  /\ ~ahPort[p].up /\ ~ahPort[p].silent
  /\ ahPort' = [ahPort EXCEPT ![p].up = TRUE]
  /\ UNCHANGED <<ahInit, ahCall, ahList, ahOk>>

(* The controller takes a command: the drive is busy with it. *)
Take(p, s) ==
  /\ ~ahPort[p].silent
  /\ ahPort[p].running /\ ~ahPort[p].halted /\ ahPort[p].busy = None /\ s \in ahPort[p].ci
  /\ ahPort' = [ahPort EXCEPT ![p].busy = s, ![p].active = ahPort[p].table[s]]
  /\ UNCHANGED <<ahInit, ahCall, ahList, ahOk>>

(* It has moved the data to where the table's entries say; entries behind  *)
(* the table's end may no longer say what was written there (no byte then  *)
(* stands for any other number).                                           *)
Finish(p) ==
  /\ ahPort[p].busy # None /\ ~ahPort[p].silent
  /\ LET command == ahPort[p].active IN
     \E bytes \in {Moves(command)} \cup (IF Overruns(command) THEN {0} ELSE {}) :
       ahPort' = [ahPort EXCEPT
          ![p].ci = @ \ {ahPort[p].busy}, ![p].busy = None,
          ![p].moved = [c \in DOMAIN @ \cup {command.call} |->
                          IF c = command.call THEN bytes ELSE @[c]]]
  /\ UNCHANGED <<ahInit, ahCall, ahList, ahOk>>

(* The drive reports an error, and the controller stops for good: the      *)
(* driver never restarts the port.                                         *)
Fail(p) ==
  /\ ahPort[p].busy # None /\ ~ahPort[p].silent
  /\ ahPort' = [ahPort EXCEPT ![p].tfes = TRUE, ![p].halted = TRUE, ![p].busy = None]
  /\ UNCHANGED <<ahInit, ahCall, ahList, ahOk>>

(* A drive of which something is asked falls silent: neither an end of the *)
(* command nor an error, nor a link.                                       *)
FallSilent(p) ==
  /\ ahPort[p].ci # {} \/ ~ahPort[p].up
  /\ ~ahPort[p].silent
  /\ ahPort' = [ahPort EXCEPT ![p].silent = TRUE]
  /\ UNCHANGED <<ahInit, ahCall, ahList, ahOk>>

AhciDriver ==
  \/ NextPort \/ StopCmd \/ Rebase \/ ScanDone
  \/ Begin \/ Refused \/ Issue \/ HungBeforeIssue
  \/ Done \/ TaskFileError \/ ReadTimeout

AhciController ==
  \E p \in 1 .. Ports : LinkUp(p) \/ (\E s \in Slot : Take(p, s)) \/ Finish(p) \/ Fail(p)

AhciNext == AhciDriver \/ AhciController \/ \E p \in 1 .. Ports : FallSilent(p)
------------------------------------------------------------------------------
(* A call that returns 0 is its own command's: the controller took the     *)
(* table the call had filled, unchanged, and will not write there again,   *)
(* whatever timed out or failed before; and what it moved into the buffer  *)
(* is exactly what was asked for, up to the 128 sectors a table has room   *)
(* for.  (Beyond them the entries lie behind the table: what the tables    *)
(* say is only claimed while that has not happened.  "issued" is what the  *)
(* table held when it was issued.)                                         *)
AhciSuccessIsOwn ==
  /\ \A p \in 1 .. Ports : \A s \in ahPort[p].ci :
       /\ ~ahPort[p].overrun => ahPort[p].table[s] = ahPort[p].issued[s]
       /\ ahPort[p].issued[s].call \notin ahOk
  /\ ahCall.no \in ahOk =>
       \E p \in 1 .. Ports :
         /\ ahCall.no \in DOMAIN ahPort[p].moved
         /\ ahCall.sectors <= TableRoom * PrdtSectors =>
              ahPort[p].moved[ahCall.no] = ahCall.sectors * SectorBytes

(* A partition table that a command table has room for. *)
TableFits(disk) == TableBytes(disk) <= TableRoom * PrdtSectors * SectorBytes

(* The scan reports what is on the disk: nothing that is not there, and    *)
(* everything if no read failed; for any partition table of up to 128      *)
(* sectors.                                                                *)
VolumesFound ==
  ahInit.step = "scan" /\ TableFits(Disk) =>
    /\ ahInit.scan.found \subseteq OnDisk(Disk)
    /\ ahInit.scan.step = "done" /\ ~ahInit.failed => ahInit.scan.found = OnDisk(Disk)

(* Where ahci_init may wait for ever: for the link of a drive that has     *)
(* fallen silent, for such a drive's identification, and in the handler of *)
(* the exception that a boot sector with clusters of no sectors raises.    *)
HeldUp ==
  \/ ahInit.step = "stop" /\ ahPort[ahInit.port].silent
  \/ ahInit.step = "identify" /\ ahCall.at = "waiting" /\ ahPort[ahInit.port].silent
  \/ ahInit.step = "scan" /\ ahInit.scan.step = "fault"

(* ahci_init returns but for these: a drive that fails with an error, a    *)
(* port that an error has stopped, a drive that falls silent while it is   *)
(* read, and a link that takes its time hold it up only for a while.       *)
AhciInitEnds == <>(ahInit.step = "end") \/ <>[]HeldUp
=============================================================================
