-------------------------------- MODULE Xhci --------------------------------
(***************************************************************************)
(* src/drivers/xhci.c: xhci_check_ports resets every port with a device,   *)
(* enables a slot for it and addresses it, through the command ring and    *)
(* the event ring, both of which tell new entries by a cycle bit.          *)
(*                                                                         *)
(* A command is followed by a poll for an event; the next event, whatever  *)
(* its type, is taken for the command's completion, and a poll whose count *)
(* has run down leaves it to the next one.  The controller (external)      *)
(* carries out the commands of the ring in order and posts an event for    *)
(* each, and one for each change of a port's status, at any time: those of *)
(* the ports with a device when it starts, and those of the resets.        *)
(*                                                                         *)
(* Nothing keeps the driver from writing over commands that have not been  *)
(* carried out: the ring has 63 of them, and there may be 255 ports.       *)
(***************************************************************************)
EXTENDS Naturals, Sequences, FiniteSets

CONSTANTS
  MaxPorts,    \* ports, 1 .. MaxPorts
  Connected,   \* those with a device
  CmdEntries,  \* commands before the link of the command ring, 63
  EvEntries,   \* entries of the event ring, 256
  XhTimeouts   \* bound: polls that time out

VARIABLES
  xhDriver,    \* the port, what is done with it, the slot
  xhCmdRing, xhCmdIndex, xhCmdCycle,
  xhEvRing, xhEvIndex, xhEvCycle,
  xhContext,   \* dcbaap: for each slot the port its context was made for, 0 for none
  xhHost,      \* the controller: its place in both rings, the port being reset, ports
               \* to report, slots given
  xhLog        \* history: commands submitted and carried out, events posted and taken,
               \* whether the driver has been more than two rounds ahead

xhVars == <<xhDriver, xhCmdRing, xhCmdIndex, xhCmdCycle, xhEvRing, xhEvIndex, xhEvCycle,
            xhContext, xhHost, xhLog>>

Nothing == [type |-> "none", slot |-> 0, cycle |-> 0]
Link == CmdEntries     \* the index of the link

Init ==
  /\ xhDriver = [port |-> 1, step |-> "port", slot |-> 0, timeouts |-> 0]
  /\ xhCmdRing = [i \in 0 .. CmdEntries |-> Nothing]
  /\ xhCmdIndex = 0 /\ xhCmdCycle = 1
  /\ xhEvRing = [i \in 0 .. EvEntries - 1 |-> Nothing]
  /\ xhEvIndex = 0 /\ xhEvCycle = 1
  /\ xhContext = [s \in 0 .. MaxPorts |-> 0]
  /\ xhHost = [cmd |-> 0, cmdCycle |-> 1, ev |-> 0, evCycle |-> 1, port |-> "idle",
               changed |-> Connected, slots |-> 0]
  /\ xhLog = [submitted |-> <<>>, done |-> <<>>, posted |-> <<>>, taken |-> <<>>, changes |-> 0,
              lapped |-> FALSE]

(* One more command, and more than two rounds of them are not carried out. *)
Laps(log) == Len(log.submitted) + 1 > Len(log.done) + 2 * CmdEntries

(* xhci_submit_cmd: the command gets the ring's cycle, and when the end is *)
(* reached, the link does, and the cycle changes.                          *)
Submit(type, slot) ==
  LET trb == [type |-> type, slot |-> slot, cycle |-> xhCmdCycle]
      wraps == xhCmdIndex + 1 >= CmdEntries
  IN
  /\ xhCmdRing' = [xhCmdRing EXCEPT ![xhCmdIndex] = trb,
                                    ![Link] = IF wraps THEN [trb EXCEPT !.type = "link"] ELSE @]
  /\ xhCmdIndex' = IF wraps THEN 0 ELSE xhCmdIndex + 1
  /\ xhCmdCycle' = IF wraps THEN 1 - xhCmdCycle ELSE xhCmdCycle
  /\ xhLog' = [xhLog EXCEPT !.submitted = Append(@, <<type, slot>>), !.lapped = @ \/ Laps(xhLog)]

(* xhci_check_ports: a port without a device is passed over; the others    *)
(* are reset, and waited for without a count.                              *)
NextPort ==
  /\ xhDriver.step = "port" /\ xhDriver.port <= MaxPorts
  /\ IF xhDriver.port \in Connected
     THEN /\ xhDriver' = [xhDriver EXCEPT !.step = "reset"]
          /\ xhHost' = [xhHost EXCEPT !.port = "reset"]
     ELSE /\ xhDriver' = [xhDriver EXCEPT !.port = @ + 1]
          /\ UNCHANGED xhHost
  /\ UNCHANGED <<xhCmdRing, xhCmdIndex, xhCmdCycle, xhEvRing, xhEvIndex, xhEvCycle, xhContext, xhLog>>

(* The reset is over, which changes the port's status; if it has failed,   *)
(* the port does not become enabled, and the driver waits on.              *)
ResetOver ==
  /\ xhHost.port = "reset"
  /\ \E state \in {"enabled", "idle"} :
       xhHost' = [xhHost EXCEPT !.port = state, !.changed = @ \cup {xhDriver.port}]
  /\ UNCHANGED <<xhDriver, xhCmdRing, xhCmdIndex, xhCmdCycle, xhEvRing, xhEvIndex, xhEvCycle,
                 xhContext, xhLog>>

(* xhci_enable_slot, when the port is enabled. *)
EnableSlot ==
  /\ xhDriver.step = "reset" /\ xhHost.port = "enabled"
  /\ xhDriver' = [xhDriver EXCEPT !.step = "enable"]
  /\ Submit("enable", 0)
  /\ UNCHANGED <<xhEvRing, xhEvIndex, xhEvCycle, xhContext, xhHost>>

(* xhci_address_device gives the slot a new context. *)
AddressDevice ==
  /\ xhDriver.step = "enabled"
  /\ xhDriver' = [xhDriver EXCEPT !.step = "address"]
  /\ xhContext' = [xhContext EXCEPT ![xhDriver.slot] = xhDriver.port]
  /\ Submit("address", xhDriver.slot)
  /\ UNCHANGED <<xhEvRing, xhEvIndex, xhEvCycle, xhHost>>

Arrived == xhEvRing[xhEvIndex].cycle = xhEvCycle
Polls == xhDriver.step \in {"enable", "address"}

(* A slot of zero is none: the port is left alone. *)
Go(slot) ==
  IF xhDriver.step = "enable" /\ slot > 0
  THEN [xhDriver EXCEPT !.step = "enabled", !.slot = slot]
  ELSE [xhDriver EXCEPT !.step = "port", !.port = @ + 1, !.slot = 0]

(* xhci_poll_event succeeds, and the slot is read from the event. *)
PollEvent ==
  LET event == xhEvRing[xhEvIndex]
      wraps == xhEvIndex + 1 >= EvEntries
  IN
  /\ Polls /\ Arrived
  /\ xhEvIndex' = IF wraps THEN 0 ELSE xhEvIndex + 1
  /\ xhEvCycle' = IF wraps THEN 1 - xhEvCycle ELSE xhEvCycle
  /\ xhDriver' = Go(event.slot)
  /\ xhLog' = [xhLog EXCEPT !.taken = Append(@, <<event.type, event.slot>>)]
  /\ UNCHANGED <<xhCmdRing, xhCmdIndex, xhCmdCycle, xhEvRing, xhContext, xhHost>>

(* Mutant: the event that did not come is skipped. *)
PollTimeoutSkips ==
  /\ Polls /\ ~Arrived /\ xhDriver.timeouts < XhTimeouts
  /\ xhDriver' = [Go(0) EXCEPT !.timeouts = @ + 1]
  /\ xhEvIndex' = (xhEvIndex + 1) % EvEntries
  /\ UNCHANGED <<xhCmdRing, xhCmdIndex, xhCmdCycle, xhEvRing, xhEvCycle, xhContext, xhHost, xhLog>>

(* The count has run down: the port is left alone. *)
PollTimeout ==
  /\ Polls /\ ~Arrived /\ xhDriver.timeouts < XhTimeouts
  /\ xhDriver' = [Go(0) EXCEPT !.timeouts = @ + 1]
  /\ UNCHANGED <<xhCmdRing, xhCmdIndex, xhCmdCycle, xhEvRing, xhEvIndex, xhEvCycle, xhContext, xhHost, xhLog>>

(* The controller posts an event, if the ring has room. *)
Posted(host, type, slot) ==
  /\ (xhHost.ev + 1) % EvEntries # xhEvIndex
  /\ xhEvRing' = [xhEvRing EXCEPT ![xhHost.ev] =
                    [type |-> type, slot |-> slot, cycle |-> xhHost.evCycle]]
  /\ xhHost' = [host EXCEPT !.ev = (@ + 1) % EvEntries,
                            !.evCycle = IF xhHost.ev + 1 = EvEntries THEN 1 - @ ELSE @]

(* It reports the change of a port's status; such an event has no slot. *)
PortChange ==
  \E p \in xhHost.changed :
    /\ Posted([xhHost EXCEPT !.changed = @ \ {p}], "port", 0)
    /\ xhLog' = [xhLog EXCEPT !.posted = Append(@, <<"port", 0>>), !.changes = @ + 1]
    /\ UNCHANGED <<xhDriver, xhCmdRing, xhCmdIndex, xhCmdCycle, xhEvIndex, xhEvCycle, xhContext>>

(* It follows the link, which toggles its cycle. *)
FollowLink ==
  /\ xhHost.cmd = Link /\ xhCmdRing[Link].cycle = xhHost.cmdCycle
  /\ xhHost' = [xhHost EXCEPT !.cmd = 0, !.cmdCycle = 1 - @]
  /\ UNCHANGED <<xhDriver, xhCmdRing, xhCmdIndex, xhCmdCycle, xhEvRing, xhEvIndex, xhEvCycle, xhContext, xhLog>>

(* It carries out the next command: a slot is given, or the one named in   *)
(* the command addressed.                                                  *)
CarryOut ==
  LET trb == xhCmdRing[xhHost.cmd]
      slot == IF trb.type = "enable" THEN xhHost.slots + 1 ELSE trb.slot
  IN
  /\ xhHost.cmd # Link /\ trb.cycle = xhHost.cmdCycle
  /\ Posted([xhHost EXCEPT !.cmd = @ + 1, !.slots = IF trb.type = "enable" THEN slot ELSE @],
            "completion", slot)
  /\ xhLog' = [xhLog EXCEPT !.done = Append(@, <<trb.type, trb.slot>>),
                            !.posted = Append(@, <<"completion", slot>>)]
  /\ UNCHANGED <<xhDriver, xhCmdRing, xhCmdIndex, xhCmdCycle, xhEvIndex, xhEvCycle, xhContext>>

Next ==
  \/ NextPort \/ EnableSlot \/ AddressDevice \/ PollEvent \/ PollTimeout
  \/ ResetOver \/ PortChange \/ FollowLink \/ CarryOut
------------------------------------------------------------------------------
(* Both rings are queues: the driver takes each event once and in order,   *)
(* around the wrap and after timeouts, and the controller carries out each *)
(* command once and in order, around the link, until the driver is more    *)
(* than two rounds ahead: up to there a command that has been overwritten  *)
(* has the wrong cycle, and the controller waits; then it takes a later    *)
(* round's for the next.                                                   *)
XhciRingsInOrder ==
  LET prefix(s, t) == Len(s) <= Len(t) /\ s = SubSeq(t, 1, Len(s))
  IN /\ prefix(xhLog.taken, xhLog.posted)
     /\ ~xhLog.lapped => prefix(xhLog.done, xhLog.submitted)

Enables == Cardinality({k \in DOMAIN xhLog.submitted : xhLog.submitted[k] = <<"enable", 0>>})

(* "Poll for Command Completion Event" (xhci.c:155): the slot read from    *)
(* the event is the one this enable command gave; slots are given in order.*)
SlotIsOwn == xhDriver.step = "enabled" => xhDriver.slot = Enables

(* It is, as long as no port's change was reported and no poll timed out:  *)
(* after that the driver is an event behind and never catches up.          *)
SlotIsOwnUnlessBehind == xhLog.changes = 0 /\ xhDriver.timeouts = 0 => SlotIsOwn

(* The rings are queues, and a device is addressed with its own slot until *)
(* the driver falls behind.                                                *)
CommandsInStep == XhciRingsInOrder /\ SlotIsOwnUnlessBehind
=============================================================================
