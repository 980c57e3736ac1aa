------------------------------ MODULE Drivers ------------------------------
(***************************************************************************)
(* The drivers that talk to a device through memory: the I/O queues of     *)
(* NVMe (EXTENDed), its start, AHCI, xHCI and the network card, and the    *)
(* echo server, that answers each frame by itself.  They share no state,   *)
(* and kernel_main starts the one after the other: a behaviour is one      *)
(* part's, and the others stay as they are at power-on.                    *)
(***************************************************************************)
EXTENDS Nvme

CONSTANTS
  Parts,         \* the parts whose behaviours are looked at
  Ports, CmdSlots, Disks,
  SizeSpace,     \* gpt.c keeps sizes in 32 bits
  MaxPorts, Connected, CmdEntries, EvEntries, XhTimeouts,
  Base, SeqSpace, LocalMac, LocalIp, RingBytes, Incoming, MaxFrames, MaxPings,
  Addresses, Iss, Stream, MaxSegment

VARIABLES
  part,
  nvStep, nvWaiting, nvBusy, nvCq, nvHead, nvCreated, nvSize, nvTimedOut,
  ahPort, ahInit, ahCall, ahList, ahOk,
  xhDriver, xhCmdRing, xhCmdIndex, xhCmdCycle, xhEvRing, xhEvIndex, xhEvCycle,
  xhContext, xhHost, xhLog,
  rtRx, rtCard, rtTx, rtLog,
  ecPeer, ecToServer, ecToPeer

S == INSTANCE NvmeStart
A == INSTANCE Ahci
X == INSTANCE Xhci
R == INSTANCE Rtl8139
E == INSTANCE Echo

(* A disk is what module Gpt says; a size holds more than a sector and the *)
(* bytes a command table has room for.                                     *)
ASSUME DisksAssumption ==
  /\ Ports \in Nat /\ CmdSlots \in Nat /\ SizeSpace \in Nat /\ SizeSpace > 66048
  /\ Disks \in [1 .. Ports -> [type : STRING, gpt : BOOLEAN, size : Nat, far : BOOLEAN,
                              table : Seq(A!Kinds)]]

(* A byte has two values at least; what comes is as long as its headers    *)
(* say, padding apart.                                                     *)
ASSUME NetAssumption ==
  /\ Base \in Nat \ {0, 1} /\ SeqSpace \in Nat \ {0} /\ Iss \in Nat /\ MaxSegment \in Nat
  /\ LocalIp \in E!Ips /\ Addresses \subseteq E!Ips /\ Stream \in Seq(E!Bytes)
  /\ \A frame \in Incoming :
       frame.type = "ipv4" =>
         /\ frame.msg.src_ip \in E!Ips /\ frame.msg.len \in Nat /\ frame.msg.ihl \in Nat
         /\ frame.msg.protocol = "icmp" =>
              /\ frame.msg.body.data \in Seq(E!Bytes)
              /\ frame.msg.len - 4 * frame.msg.ihl = E!IcmpHdr + Len(frame.msg.body.data)
         /\ frame.msg.protocol = "tcp" => frame.msg.body.header \in Nat

nvVars == <<nvStep, nvWaiting, nvBusy, nvCq, nvHead, nvCreated, nvSize, nvTimedOut>>
ahVars == <<ahPort, ahInit, ahCall, ahList, ahOk>>
xhVars == <<xhDriver, xhCmdRing, xhCmdIndex, xhCmdCycle, xhEvRing, xhEvIndex, xhEvCycle,
            xhContext, xhHost, xhLog>>
rtVars == <<rtRx, rtCard, rtTx, rtLog>>
ecVars == <<ecPeer, ecToServer, ecToPeer>>
AllVars == <<part, vars, nvVars, ahVars, xhVars, rtVars, ecVars>>

DriversInit ==
  /\ part \in Parts /\ Init /\ S!Init /\ A!AhciInit /\ X!Init /\ R!RtlInit /\ E!EchoInit
  /\ part # "echo" => ecPeer.ip = (CHOOSE ip \in Addresses : TRUE)

AhciStep(action) ==
  part = "ahci" /\ action /\ UNCHANGED <<part, vars, nvVars, xhVars, rtVars, ecVars>>
CardStep(action) ==
  part = "card" /\ action /\ UNCHANGED <<part, vars, nvVars, ahVars, xhVars, ecVars>>
EchoStep(action) ==
  part = "echo" /\ action /\ UNCHANGED <<part, vars, nvVars, ahVars, xhVars, rtVars>>

DriversNext ==
  \/ part = "nvme" /\ Next /\ UNCHANGED <<part, nvVars, ahVars, xhVars, rtVars, ecVars>>
  \/ part = "start" /\ S!Next /\ UNCHANGED <<part, vars, ahVars, xhVars, rtVars, ecVars>>
  \/ part = "xhci" /\ X!Next /\ UNCHANGED <<part, vars, nvVars, ahVars, rtVars, ecVars>>
  \/ AhciStep(A!AhciNext) \/ CardStep(R!RtlNext) \/ EchoStep(E!EchoNext)

(* kernel_main runs the AHCI driver, and the controller takes what it can  *)
(* (but need not: FallSilent); the card's handler runs on once it has been *)
(* entered.  That it is entered nothing assures.                           *)
DriversSpec ==
  /\ DriversInit /\ [][DriversNext]_AllVars
  /\ WF_AllVars(AhciStep(A!AhciDriver)) /\ WF_AllVars(AhciStep(A!AhciController))
  /\ WF_AllVars(CardStep(R!Handler))
------------------------------------------------------------------------------
(* What the modules state, of their part. *)

(* The admin queues and the device registered over them. *)
RegisteredOverQueues == S!RegisteredOverQueues

(* AHCI: a call that returns 0 is its own command's, and the scan of the   *)
(* partitions reports what is on the disk.                                 *)
AhciSuccessIsOwn == A!AhciSuccessIsOwn
VolumesFound == A!VolumesFound

(* AHCI: ahci_init returns. *)
AhciInitEnds == part = "ahci" => A!AhciInitEnds

(* xHCI: the rings are queues, and a device is addressed with its own slot *)
(* until the driver falls behind.                                          *)
CommandsInStep == X!CommandsInStep

(* RTL8139: both rings, and what is answered. *)
ReceivedInOrder == R!ReceivedInOrder
ReceivedInTheEnd == R!ReceivedInTheEnd
SentInOrder == R!SentInOrder
AnswersConform == R!AnswersConform

(* The echo server over a network that loses, repeats and reorders. *)
EchoIsPrefix == E!EchoIsPrefix
TcpChecksumRight == E!TcpChecksumRight
=============================================================================
