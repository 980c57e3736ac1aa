----------------------------- MODULE MCDrivers -----------------------------
(***************************************************************************)
(* Every driver at the least size at which its rings wrap and its tables   *)
(* take more than one entry.                                               *)
(***************************************************************************)
EXTENDS Drivers

(* A table that takes more than one PRDT entry, a drive that is not looked *)
(* at, and a table of more sectors than a command table has room for.      *)
MCDisks ==
  LET disk(size, table) ==
        [type |-> "sata", gpt |-> TRUE, size |-> size, far |-> FALSE, table |-> table]
  IN <<disk(4608, <<"other", "fat32">>),
       [disk(128, <<>>) EXCEPT !.type = "atapi"],
       disk(66048, <<"exfat">>)>>

MCLocalIp == <<10, 0, 2, 15>>
MCAddresses == {<<10, 0, 2, 2>>, <<10, 0, 2, 12>>}
MCStream == <<1, 2, 3>>

(* Frames of different lengths: an ARP request, an echo request with       *)
(* options and padding, and a datagram.                                    *)
MCIncoming ==
  LET ipv4(bytes, ihl, protocol, len, body) ==
        [dst |-> LocalMac, src |-> "peer", type |-> "ipv4", bytes |-> bytes,
         msg |-> [src_ip |-> <<10, 0, 2, 2>>, dest_ip |-> MCLocalIp, protocol |-> protocol,
                  ihl |-> ihl, len |-> len, body |-> body]]
      arp(ip) ==
        [dst |-> "broadcast", src |-> "peer", type |-> "arp", bytes |-> 60,
         msg |-> [op |-> "request", src_mac |-> "peer", src_ip |-> <<10, 0, 2, 2>>, dest_ip |-> ip]]
      echo(data) == [kind |-> "request", data |-> data, checksum |-> 0]
  IN {arp(MCLocalIp),
      ipv4(60, 6, "icmp", 35, echo(<<9, 15, 7>>)),
      ipv4(75, 5, "udp", 61, <<>>)}
=============================================================================
