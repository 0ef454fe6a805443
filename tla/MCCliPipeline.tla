------------------------------ MODULE MCCliPipeline ------------------------------
(***************************************************************************)
(* Instances of CliPipeline for TLC.                                       *)
(***************************************************************************)
EXTENDS CliPipeline

CONSTANTS a, b   \* addresses

Hosts == {a, b}
SomePorts == {53, 80, 50000}

FrameOf(ether, protocol, src, dst, data, bad) ==
  [ether |-> ether, src_ip |-> src[1], dst_ip |-> dst[1], protocol |-> protocol,
   src_port |-> src[2], dst_port |-> dst[2], data |-> data, padded |-> FALSE, bad |-> bad]

Client == <<a, 50000>>
Web == <<b, 80>>
Dns == <<b, 53>>
Request == [of |-> "HTTP", form |-> "message"]
Query(form) == [of |-> "DNS", form |-> form]

\* One TCP conversation beside one UDP exchange, with an answer that makes the
\* parser panic, a truncated segment and a frame without ports.
TwoConversations ==
  {FrameOf("IPv4", "TCP", Client, Web, data, "none") : data \in {NoData, Request}}
  \cup {FrameOf("IPv4", "TCP", Web, Client, data, "none") : data \in {NoData, Request}}
  \cup {FrameOf("IPv4", "UDP", Client, Dns, Query("message"), "none"),
        FrameOf("IPv4", "UDP", Dns, Client, Query("message"), "none"),
        FrameOf("IPv4", "UDP", Dns, Client, Query("fatal"), "none"),
        FrameOf("IPv4", "TCP", Web, Client, NoData, "transport"),
        FrameOf("ARP", "UDP", Client, Web, NoData, "none")}

UsualFlags == {{"SYN"}, {"SYN", "ACK"}, {"ACK"}, {"FIN", "ACK"}, {"RST"}}

AnyPacket == [protocol |-> NoOption, src_ip |-> NoOption, dst_ip |-> NoOption,
            src_port |-> NoOption, dst_port |-> NoOption, port |-> NoOption]
ThreeFilters ==
  {AnyPacket, [AnyPacket EXCEPT !.protocol = "http"], [AnyPacket EXCEPT !.dst_port = 80]}
================================================================================
