-------------------------------- MODULE Echo --------------------------------
(***************************************************************************)
(* The echo server of src/net/tcp.c on port 80 and a peer, over a network  *)
(* that loses, duplicates and reorders segments.  The server keeps no      *)
(* connection: it answers each segment by itself (module Net).             *)
(*                                                                         *)
(* The peer (external) is an ordinary TCP: it discards a segment whose     *)
(* checksum is wrong, opens the connection, sends Stream and takes what    *)
(* comes back at the sequence number it expects.  A segment stays in its   *)
(* set when it is received: it can be taken again, late, or never, and     *)
(* stands for its own retransmissions.  That a segment is ever taken is    *)
(* not claimed: the card's handler runs once (module Rtl8139), and takes   *)
(* what comes while it does.                                               *)
(***************************************************************************)
EXTENDS Net

CONSTANTS
  Addresses,    \* addresses a peer may have
  Iss,          \* the peer's initial sequence number
  Stream,       \* what it sends, byte by byte
  MaxSegment    \* bytes of a segment, at most

VARIABLES
  ecPeer,       \* the peer
  ecToServer, ecToPeer

ecVars == <<ecPeer, ecToServer, ecToPeer>>

EchoInit ==
  /\ ecPeer \in [ip : Addresses, state : {"closed"}, next : {0}, acked : {0}, expects : {0},
                 received : {<<>>}, pipelined : {FALSE}]
  /\ ecToServer = {} /\ ecToPeer = {}

(* A frame with a segment, as the peer sends it. *)
Frame(seq, ack, flags, data) ==
  LET len == IpHdr + TcpHdr + Len(data) IN
  [dst |-> LocalMac, src |-> "peer", type |-> "ipv4",
   bytes |-> IF EthHdr + len < 60 THEN 60 ELSE EthHdr + len,
   msg |-> [src_ip |-> ecPeer.ip, dest_ip |-> LocalIp, protocol |-> "tcp", ihl |-> 5, len |-> len,
            body |-> [port |-> 80, header |-> TcpHdr, seq |-> seq, ack |-> ack,
                      flags |-> flags, data |-> data]]]

Syn ==
  /\ ecPeer.state = "closed"
  /\ ecPeer' = [ecPeer EXCEPT !.state = "syn"]
  /\ ecToServer' = ecToServer \cup {Frame(Iss, 0, {"SYN"}, <<>>)}
  /\ UNCHANGED ecToPeer

SeqAt(n) == (Iss + 1 + n) % SeqSpace     \* of the stream's byte n + 1

(* The next bytes, as many as the peer likes; it may send on before the    *)
(* last ones are acknowledged.                                             *)
SendData(n) ==
  /\ ecPeer.state = "open" /\ ecPeer.next + n <= Len(Stream)
  /\ ecPeer' = [ecPeer EXCEPT !.next = @ + n, !.pipelined = @ \/ ecPeer.acked < ecPeer.next]
  /\ ecToServer' = ecToServer \cup
       {Frame(SeqAt(ecPeer.next), ecPeer.expects, {"ACK"},
              SubSeq(Stream, ecPeer.next + 1, ecPeer.next + n))}
  /\ UNCHANGED ecToPeer

(* A segment without data, to acknowledge what came. *)
SendAck ==
  /\ ecPeer.state = "open"
  /\ ecToServer' = ecToServer \cup {Frame(SeqAt(ecPeer.next), ecPeer.expects, {"ACK"}, <<>>)}
  /\ UNCHANGED <<ecPeer, ecToPeer>>

(* The checksum the peer works out. *)
Right(msg) ==
  Checks(PseudoHeader(msg.src_ip, msg.dest_ip, msg.len - 4 * msg.ihl) \o msg.body.data,
         msg.body.checksum)

(* The peer receives: the answer to its SYN, or the bytes it expects. *)
PeerReceives(frame) ==
  LET tcp == frame.msg.body IN
  /\ Right(frame.msg)
  /\ \/ /\ ecPeer.state = "syn" /\ "SYN" \in tcp.flags /\ tcp.ack = SeqAt(0)
        /\ ecPeer' = [ecPeer EXCEPT !.state = "open", !.expects = (tcp.seq + 1) % SeqSpace]
     \/ /\ ecPeer.state = "open" /\ "SYN" \notin tcp.flags /\ tcp.seq = ecPeer.expects
        /\ \E n \in ecPeer.acked .. ecPeer.next :
             /\ SeqAt(n) = tcp.ack
             /\ ecPeer' = [ecPeer EXCEPT !.acked = n,
                                         !.expects = (@ + Len(tcp.data)) % SeqSpace,
                                         !.received = @ \o tcp.data]
  /\ UNCHANGED <<ecToServer, ecToPeer>>

(* The server receives a segment and answers. *)
Serve(frame) ==
  /\ ecToPeer' = ecToPeer \cup NetReceive(frame)
  /\ UNCHANGED <<ecPeer, ecToServer>>

Peer ==
  \/ Syn \/ SendAck
  \/ \E n \in 1 .. MaxSegment : SendData(n)
  \/ \E frame \in ecToPeer : PeerReceives(frame)

EchoNext == Peer \/ \E frame \in ecToServer : Serve(frame)
------------------------------------------------------------------------------
(* The address of which the checksum does not notice that it is reversed.  *)
Balanced(ip) == (ip[1] + ip[3]) % (Base + 1) = (ip[2] + ip[4]) % (Base + 1)

(* A peer that has one segment under way at a time gets its own bytes back,*)
(* each once and in order, whatever the network loses, repeats or delays,  *)
(* and wherever the sequence numbers wrap.  (One that sends on before the  *)
(* answer has two answers at the same sequence number.)  A peer whose      *)
(* address the checksum gets wrong never hears the server.                 *)
EchoIsPrefix ==
  /\ ~ecPeer.pipelined => Prefix(ecPeer.received, Stream)
  /\ ~Balanced(ecPeer.ip) => ecPeer.state # "open"

(* "Calculate Checksum with Pseudo Header" (tcp.c:77): the peer finds the  *)
(* checksum right.                                                         *)
TcpChecksumRight == \A frame \in ecToPeer : Right(frame.msg)
=============================================================================
