------------------------------ MODULE Rtl8139 ------------------------------
(***************************************************************************)
(* src/drivers/rtl8139.c: frames come through a ring of bytes the card     *)
(* writes and the interrupt handler reads, and go out through four         *)
(* descriptors.  The handler answers a frame (module Net) before it looks  *)
(* for the next; cmd_ping sends from the keyboard's handler.  No two of    *)
(* them overlap: both run with interrupts off.                             *)
(*                                                                         *)
(* The card interrupts once at most: its line comes through the PIC, which *)
(* never hears of the handler's end (PicOnceEach of module Interrupts).    *)
(* What comes behind the handler's last look at the ring stays there.      *)
(*                                                                         *)
(* The card (external) writes a frame's header and bytes from a multiple   *)
(* of four on, past the end of the ring if it begins before it (WRAP),     *)
(* drops what has no room, and takes descriptors in turn.                  *)
(***************************************************************************)
EXTENDS Integers, FiniteSets, TLC, Net

CONSTANTS
  RingBytes,    \* RX_BUF_SIZE, 8192
  Incoming,     \* frames others may send
  MaxFrames,    \* bound: frames the card stores
  MaxPings      \* bound: ping commands

VARIABLES
  rtRx,       \* the driver: rx_offset, CAPR, and where its handler is
  rtCard,     \* the card: its write offset, ROK, the frame that begins at each offset
  rtTx,       \* current_tsad_index, the descriptors, the card's next one
  rtLog       \* history: frames stored and handled, the last answer and what it was
              \* to; how many were sent, are on the wire, were pings, were overrun

rtVars == <<rtRx, rtCard, rtTx, rtLog>>

Descriptors == 4
NoFrame == [of |-> 0, pending |-> FALSE]

RtlInit ==
  /\ rtRx = [offset |-> 0, capr |-> RingBytes - 16, at |-> "idle"]
  /\ rtCard = [write |-> 0, rok |-> FALSE, ring |-> [o \in {} |-> 0]]
  /\ rtTx = [index |-> 0, desc |-> [d \in 0 .. Descriptors - 1 |-> NoFrame], card |-> 0]
  /\ rtLog = [stored |-> <<>>, handled |-> <<>>, answer |-> NoFrame, to |-> 0,
              sent |-> 0, wire |-> 0, inOrder |-> TRUE, pings |-> 0, overruns |-> 0]

(* The card: a frame with its CRC and header takes whole words. *)
Taken(frame) == ((frame.bytes + 4 + 4 + 3) \div 4) * 4
CardRead == (rtRx.capr + 16) % RingBytes
Used == (rtCard.write + RingBytes - CardRead) % RingBytes
Empty == rtCard.write = CardRead        \* BUFE

Store(frame) ==
  /\ Len(rtLog.stored) < MaxFrames
  /\ Used + Taken(frame) < RingBytes
  /\ rtCard' = [rok |-> TRUE, write |-> (rtCard.write + Taken(frame)) % RingBytes,
                ring |-> [o \in DOMAIN rtCard.ring \cup {rtCard.write} |->
                            IF o = rtCard.write THEN frame ELSE rtCard.ring[o]]]
  /\ rtLog' = [rtLog EXCEPT !.stored = Append(@, frame)]
  /\ UNCHANGED <<rtRx, rtTx>>

(* The interrupt, the only one: the handler reads the status. *)
Interrupt ==
  /\ rtRx.at = "idle" /\ rtCard.rok
  /\ rtRx' = [rtRx EXCEPT !.at = "status"]
  /\ UNCHANGED <<rtCard, rtTx, rtLog>>

(* It acknowledges what it has read. *)
Acknowledge ==
  /\ rtRx.at = "status"
  /\ rtRx' = [rtRx EXCEPT !.at = "loop"]
  /\ rtCard' = [rtCard EXCEPT !.rok = FALSE]
  /\ UNCHANGED <<rtTx, rtLog>>

(* Mutant: one frame an interrupt. *)
DrainedOfOne ==
  /\ rtRx.at = "loop" /\ (Empty \/ rtLog.handled # <<>>)
  /\ rtRx' = [rtRx EXCEPT !.at = "over"]
  /\ UNCHANGED <<rtCard, rtTx, rtLog>>

(* BUFE is set: the handler is over. *)
Drained ==
  /\ rtRx.at = "loop" /\ Empty
  /\ rtRx' = [rtRx EXCEPT !.at = "over"]
  /\ UNCHANGED <<rtCard, rtTx, rtLog>>

(* Mutant: the index stays. *)
SendInFirst(tx) == [tx EXCEPT !.desc[tx.index] = [of |-> rtLog.sent + 1, pending |-> TRUE]]

(* rtl8139_send_packet: the next descriptor, whether the card is done with *)
(* it or not.                                                              *)
Send(tx) ==
  [tx EXCEPT !.desc = [@ EXCEPT ![tx.index] = [of |-> rtLog.sent + 1, pending |-> TRUE]],
             !.index = IF @ + 1 > 3 THEN 0 ELSE @ + 1]

Sent(frame, to) ==
  [rtLog EXCEPT !.sent = @ + 1, !.answer = frame, !.to = to,
                !.overruns = IF rtTx.desc[rtTx.index].pending THEN @ + 1 ELSE @]

(* Mutant: the next header is looked for right behind the frame. *)
NextOffsetUnaligned(frame) == (rtRx.offset + frame.bytes + 4 + 4) % RingBytes

NextOffset(frame) == (((rtRx.offset + frame.bytes + 4 + 4 + 3) \div 4) * 4) % RingBytes

(* What lies at the offset: where no frame begins, the bytes of any.       *)
FrameHere ==
  IF rtRx.offset \in DOMAIN rtCard.ring THEN rtCard.ring[rtRx.offset]
  ELSE CHOOSE f \in Incoming : TRUE

Handled(log) ==
  [log EXCEPT !.handled =
     Append(@, IF rtRx.offset \in DOMAIN rtCard.ring THEN FrameHere ELSE NoFrame)]

(* One round of the loop: net_receive, then rx_offset, then CAPR, which    *)
(* counts from 16 bytes before.                                            *)
Receive ==
  /\ rtRx.at = "loop" /\ ~Empty
  /\ LET offset == NextOffset(FrameHere) IN
     rtRx' = [rtRx EXCEPT !.offset = offset, !.capr = (offset - 16 + 65536) % 65536]
  /\ IF NetReceive(FrameHere) = {} THEN rtLog' = Handled(rtLog) /\ UNCHANGED rtTx
     ELSE \E answer \in NetReceive(FrameHere) :
            /\ rtLog' = Handled(Sent(answer, Len(rtLog.handled) + 1))
            /\ rtTx' = Send(rtTx)
  /\ UNCHANGED rtCard

(* A frame is reported with kprintf, of which the interrupted main thread  *)
(* may hold the lock: the handler spins for ever.                          *)
Stuck ==
  /\ rtRx.at = "loop" /\ ~Empty
  /\ rtRx' = [rtRx EXCEPT !.at = "stuck"]
  /\ UNCHANGED <<rtCard, rtTx, rtLog>>

(* cmd_ping sends an ARP request. *)
Ping(ip) ==
  /\ rtRx.at \in {"idle", "over"} /\ rtLog.pings < MaxPings
  /\ rtLog' = [Sent(ArpRequest(ip), 0) EXCEPT !.pings = @ + 1]
  /\ rtTx' = Send(rtTx)
  /\ UNCHANGED <<rtRx, rtCard>>

(* The card has sent its next descriptor's frame. *)
Transmit ==
  /\ rtTx.desc[rtTx.card].pending
  /\ LET done == [rtTx.desc[rtTx.card] EXCEPT !.pending = FALSE] IN
     rtTx' = [rtTx EXCEPT !.desc = [@ EXCEPT ![rtTx.card] = done],
                          !.card = (@ + 1) % Descriptors]
  /\ rtLog' = [rtLog EXCEPT !.wire = @ + 1,
                              !.inOrder = @ /\ rtTx.desc[rtTx.card].of = rtLog.wire + 1]
  /\ UNCHANGED <<rtRx, rtCard>>

Handler == Acknowledge \/ Drained \/ Receive \/ Stuck

RtlNext ==
  \/ Interrupt \/ Handler \/ Transmit
  \/ \E frame \in Incoming : Store(frame)
  \/ Ping(LocalIp)
------------------------------------------------------------------------------
(* The handler gives net_receive the frames the card stored, each once and *)
(* in order, whatever their lengths and however often the ring goes round, *)
(* and believes the ring empty only when it is.                            *)
ReceivedInOrder ==
  /\ Prefix(rtLog.handled, rtLog.stored)
  /\ Empty => rtLog.handled = rtLog.stored

(* Whatever the card stores before the handler's last look at the ring is  *)
(* handled in the end, also what comes while others are answered; or the   *)
(* handler spins for kprintf's lock.                                       *)
ReceivedInTheEnd ==
  \A n \in 1 .. MaxFrames :
    rtRx.at \in {"status", "loop"} /\ Len(rtLog.stored) >= n
      ~> rtRx.at = "stuck" \/ Len(rtLog.handled) >= n

(* Until a frame is put over another that still waits, frames go out in    *)
(* the order they were sent, and the card's next descriptor is the oldest  *)
(* of those that wait; and one frame is lost for each time this happens,   *)
(* no other.  (After it the driver and the card are out of step for good.) *)
SentInOrder ==
  LET waiting == {d \in DOMAIN rtTx.desc : rtTx.desc[d].pending} IN
  /\ rtLog.overruns = 0 => rtLog.inOrder /\ (waiting # {} => rtTx.card \in waiting)
  /\ rtLog.wire + Cardinality(waiting) + rtLog.overruns = rtLog.sent

(* The last answer is what the protocols ask for: checksums a receiver     *)
(* accepts, addressed to who asked, an echo's bytes as they were sent,     *)
(* without the padding of its frame.                                       *)
AnswersConform ==
  LET answer == rtLog.answer
      asked == rtLog.handled[rtLog.to]
  IN rtLog.to # 0 =>
    /\ answer.type = asked.type
    /\ answer.type = "arp" =>
         /\ answer.dst = asked.msg.src_mac /\ answer.msg.dest_ip = asked.msg.src_ip
         /\ answer.msg.src_ip = asked.msg.dest_ip
    /\ answer.type = "ipv4" =>
         /\ answer.msg.dest_ip = asked.msg.src_ip
         /\ Checks(IpHeader(answer.msg.len, answer.msg.src_ip, answer.msg.dest_ip),
                   answer.msg.checksum)
         /\ answer.bytes = EthHdr + answer.msg.len
    /\ answer.type = "ipv4" /\ answer.msg.protocol = "icmp" =>
         /\ answer.dst = asked.src
         /\ answer.msg.body.data = asked.msg.body.data
         /\ Checks(answer.msg.body.data, answer.msg.body.checksum)
=============================================================================
