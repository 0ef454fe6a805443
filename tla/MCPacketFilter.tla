----------------------------- MODULE MCPacketFilter -----------------------------
(***************************************************************************)
(* Instances of PacketFilter for TLC.                                      *)
(***************************************************************************)
EXTENDS PacketFilter

CONSTANTS a, b   \* addresses

Hosts == {a, b}
SomePorts == {21, 53, 80, 443, 50000}

\* Every port against an ephemeral one, and two well-known ports at a time.
PortPairs == {<<p, 50000>> : p \in SomePorts} \cup {<<50000, p>> : p \in SomePorts}
             \cup {<<53, 80>>, <<80, 443>>}

FrameOf(ether, protocol, ports, data, padded, bad) ==
  [ether |-> ether, src_ip |-> a, dst_ip |-> b, protocol |-> protocol,
   src_port |-> ports[1], dst_port |-> ports[2],
   data |-> data, padded |-> padded, bad |-> bad]

Segments ==
  {FrameOf(ether, protocol, ports, data, FALSE, "none") :
     ether \in {"IPv4", "IPv6"}, protocol \in {"TCP", "UDP"}, ports \in PortPairs,
     data \in Data}

\* Only an IPv4 frame is short enough, and only with little or no data.
PaddedSegments ==
  {FrameOf("IPv4", protocol, ports, data, TRUE, "none") :
     protocol \in {"TCP", "UDP"}, ports \in PortPairs,
     data \in {NoData, [of |-> "FTP", form |-> "message"], [of |-> "DNS", form |-> "message"]}}

OtherFrames ==
  {FrameOf(ether, protocol, <<80, 50000>>, NoData, FALSE, bad) :
     ether \in Ethertype, protocol \in {"TCP", "UDP", "ICMP"}, bad \in Defect}

AllFrames == Segments \cup PaddedSegments \cup OtherFrames

FewFilters ==
  [protocol : ProtocolName \cup {NoOption},
   src_ip   : {a, b, NoOption}, dst_ip : {a, b, NoOption},
   src_port : {80, NoOption}, dst_port : {80, NoOption},
   port     : {53, 80, 50000, NoOption}]
================================================================================
