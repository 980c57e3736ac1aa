-------------------------------- MODULE Net --------------------------------
(***************************************************************************)
(* What hzOS answers to a frame: net_receive in src/net/net.c and the      *)
(* handlers of ARP, ICMP, UDP and TCP it calls, with the checksums.  No    *)
(* handler keeps anything from one frame to the next: the answer is an     *)
(* operator.                                                               *)
(*                                                                         *)
(* A frame has addresses, a type, its length on the wire (the padding of   *)
(* short frames included) and the message in it.  Bytes are numbers below  *)
(* Base; what both ends add alike to a checksum is left out of it.         *)
(***************************************************************************)
EXTENDS Naturals, Sequences

CONSTANTS
  Base,       \* the values of a byte, 256
  SeqSpace,     \* sequence numbers of TCP, 2^32
  LocalMac, LocalIp

Bytes == 0 .. Base - 1
Ips == {ip \in Seq(Bytes) : Len(ip) = 4}

EthHdr == 14
ArpLen == 28
IpHdr == 20
IcmpHdr == 8
TcpHdr == 20
Broadcast == "broadcast"

Word(n) == <<(n \div Base) % Base, n % Base>>
Words(bytes) == [i \in 1 .. (Len(bytes) + 1) \div 2 |->
                   bytes[2 * i - 1] * Base + (IF 2 * i <= Len(bytes) THEN bytes[2 * i] ELSE 0)]
Ones == Base * Base - 1       \* 0xffff

(* The sum, less Ones when it is above it: acc is never zero. *)
Plus(acc, w) == ((acc + w - 1) % Ones) + 1

(* ip_checksum's loop: the accumulator starts at 0xffff and folds as it    *)
(* goes.                                                                   *)
Folded(words) ==
  LET acc[i \in 0 .. Len(words)] == IF i = 0 THEN Ones ELSE Plus(acc[i - 1], words[i])
  IN acc[Len(words)]

(* Mutant: a last odd byte is left out. *)
IpChecksumEven(bytes) ==
  Ones - Folded(Words(SubSeq(bytes, 1, Len(bytes) - (Len(bytes) % 2))))

IpChecksum(bytes) == Ones - Folded(Words(bytes))

(* Reference, RFC 1071: words and checksum add up to zero in ones' complement. *)
Total(words) ==
  LET sum[i \in 0 .. Len(words)] == IF i = 0 THEN 0 ELSE sum[i - 1] + words[i]
  IN sum[Len(words)]
Checks(bytes, checksum) == (Total(Words(bytes)) + checksum) % Ones = 0

IpHeader(len, src_ip, dest_ip) == Word(len) \o src_ip \o dest_ip

(* ip_send_packet and net_send_packet. *)
IpSend(dest_mac, dest_ip, protocol, body, len) ==
  [dst |-> dest_mac, src |-> LocalMac, type |-> "ipv4", bytes |-> EthHdr + IpHdr + len,
   msg |-> [src_ip |-> LocalIp, dest_ip |-> dest_ip, protocol |-> protocol, ihl |-> 5,
            len |-> IpHdr + len, body |-> body,
            checksum |-> IpChecksum(IpHeader(IpHdr + len, LocalIp, dest_ip))]]

(* arp_send_request. *)
ArpRequest(target_ip) ==
  [dst |-> Broadcast, src |-> LocalMac, type |-> "arp", bytes |-> EthHdr + ArpLen,
   msg |-> [op |-> "request", src_mac |-> LocalMac, src_ip |-> LocalIp, dest_ip |-> target_ip]]

(* handle_arp: only requests for the own address are answered. *)
HandleArp(msg, len) ==
  IF len < ArpLen \/ msg.op # "request" \/ msg.dest_ip # LocalIp THEN {}
  ELSE {[dst |-> msg.src_mac, src |-> LocalMac, type |-> "arp", bytes |-> EthHdr + ArpLen,
         msg |-> [op |-> "reply", src_mac |-> LocalMac, src_ip |-> LocalIp,
                  dest_ip |-> msg.src_ip]]}

(* The first n bytes from where data begins; the frame's padding follows it. *)
BytesAt(data, n) == [i \in 1 .. n |-> IF i <= Len(data) THEN data[i] ELSE 0]

(* icmp_receive: a request is sent back whole, with its type changed. *)
IcmpReceive(src_mac, msg, len) ==
  IF len < IcmpHdr \/ msg.body.kind # "request" THEN {}
  ELSE LET data == BytesAt(msg.body.data, len - IcmpHdr)
       IN {IpSend(src_mac, msg.src_ip, "icmp",
                  [kind |-> "reply", data |-> data, checksum |-> IpChecksum(data)], len)}

(* htonl, of an address's four bytes. *)
Htonl(ip) == [i \in 1 .. 4 |-> ip[5 - i]]

PseudoHeader(src_ip, dest_ip, len) == src_ip \o dest_ip \o Word(6) \o Word(len)

(* tcp_send_packet.  dest_ip comes in network byte order as it is in the   *)
(* header that was received, and htonl turns it round in the pseudo header.*)
TcpSend(dest_ip, port, seq, ack, flags, data) ==
  LET len == TcpHdr + Len(data)
      pseudo == PseudoHeader(LocalIp, Htonl(dest_ip), len)
  IN IpSend(Broadcast, dest_ip, "tcp",
            [port |-> port, header |-> TcpHdr, seq |-> seq, ack |-> ack, flags |-> flags,
             data |-> data, checksum |-> IpChecksum(pseudo \o data)], len)

(* tcp_receive: on port 80 a SYN is answered with sequence number 0, and   *)
(* data is sent back where the peer's acknowledgement says.                *)
TcpReceive(msg, len) ==
  LET tcp == msg.body
      payload == BytesAt(tcp.data, len - tcp.header)
  IN
  IF len < TcpHdr \/ tcp.header < TcpHdr \/ tcp.header > len \/ tcp.port # 80 THEN {}
  ELSE IF "SYN" \in tcp.flags THEN
    {TcpSend(msg.src_ip, 80, 0, (tcp.seq + 1) % SeqSpace, {"SYN", "ACK"}, <<>>)}
  ELSE IF "ACK" \in tcp.flags /\ payload # <<>> THEN
    {TcpSend(msg.src_ip, 80, tcp.ack, (tcp.seq + Len(payload)) % SeqSpace, {"ACK", "PSH"}, payload)}
  ELSE {}

(* Mutant: the frame's length is taken, padding included. *)
IpPayloadLenPadded(frame) == frame.bytes - EthHdr - 4 * frame.msg.ihl

IpPayloadLen(frame) == frame.msg.len - 4 * frame.msg.ihl

(* net_receive: the frames sent in answer, one at most.  udp_receive looks *)
(* at its datagram and answers nothing.                                    *)
NetReceive(frame) ==
  IF frame.bytes < EthHdr THEN {}
  ELSE IF frame.type = "arp" THEN HandleArp(frame.msg, frame.bytes - EthHdr)
  ELSE IF frame.type = "ipv4" /\ frame.bytes - EthHdr >= IpHdr THEN
    CASE frame.msg.protocol = "icmp" -> IcmpReceive(frame.src, frame.msg, IpPayloadLen(frame))
      [] frame.msg.protocol = "tcp" -> TcpReceive(frame.msg, IpPayloadLen(frame))
      [] OTHER -> {}
  ELSE {}

(* Sequence t goes on where s ends. *)
Prefix(s, t) == Len(s) <= Len(t) /\ s = SubSeq(t, 1, Len(s))
=============================================================================
