------------------------------ MODULE PacketParser ------------------------------
(***************************************************************************)
(* PacketParser of src/parser: how parse_packet splits a captured frame    *)
(* into layers, which malformed layer fails the whole packet and which is  *)
(* tolerated, and get_protocols, under whose names the GUI counts packets. *)
(*                                                                         *)
(* A frame is what its headers say and whose data it carries: data that    *)
(* the parser of its protocol reads as a message, the rest of a message,   *)
(* which it rejects, or data on which it panics (modules DnsMessage,       *)
(* TlsHello and HttpMessage say when).                                     *)
(***************************************************************************)
EXTENDS Naturals

CONSTANTS
  Addresses, Ports,
  Frames,      \* the frames that may be captured
  NoLayer,     \* a layer, address or port the packet does not have
  NoPacket,    \* parse_packet returned Err
  Panicked,    \* parse_packet panicked
  NoData,      \* no application data
  MaxFrames    \* bound: number of frames parsed

Ethertype == {"IPv4", "IPv6", "ARP", "other"}
\* The header that is too short or malformed.
Defect == {"none", "link", "network", "transport"}

\* Application data, and who wrote it; "other" is not text.
Form == {"message", "rest", "fatal"}
Data == [of : {"HTTP", "TLS", "DNS", "FTP", "other"}, form : Form] \cup {NoData}

Frame == [ether    : Ethertype, src_ip : Addresses, dst_ip : Addresses,
          protocol : {"TCP", "UDP", "ICMP"}, src_port : Ports, dst_port : Ports,
          data     : Data,
          padded   : BOOLEAN,   \* octets of value 0 fill the frame
          bad      : Defect]

ASSUME PortsAssumption == Ports \subseteq Nat
ASSUME FramesAssumption == Frames \subseteq Frame
LayerName == {"IPv4", "IPv6", "ARP", "TCP", "UDP", "ICMP",
              "HTTP", "TLS", "DNS", "FTP", "SSH", "Telnet", "Unknown"}

ASSUME NoLayerAssumption ==
  NoLayer \notin Addresses /\ NoLayer \notin Ports /\ NoLayer \notin LayerName
ASSUME MaxFramesAssumption == MaxFrames \in Nat

VARIABLES
  frame_counter,
  packet,    \* what the last call of parse_packet returned
  frame      \* history: the frame it parsed

vars == <<frame_counter, packet, frame>>

Init == frame_counter = 0 /\ packet = NoPacket /\ frame = NoPacket

--------------------------------------------------------------------------------
\* The layers parse_packet looks for: no ICMP, and nothing behind an IPv6
\* extension header.
Network(f) == IF f.ether = "other" THEN NoLayer ELSE f.ether
Transport(f) ==
  IF f.ether \in {"IPv4", "IPv6"} /\ f.protocol \in {"TCP", "UDP"} THEN f.protocol
  ELSE NoLayer

\* The parsers of the single headers that return Err.
ShortEthernet(f) == f.bad = "link"
BadIpv4(f) == f.ether = "IPv4" /\ f.bad = "network"
BadIpv6(f) == f.ether = "IPv6" /\ f.bad = "network"
ShortArp(f) == f.ether = "ARP" /\ f.bad = "network"
ShortTcp(f) == Transport(f) = "TCP" /\ f.bad = "transport"
ShortUdp(f) == Transport(f) = "UDP" /\ f.bad = "transport"

Fails(f) ==
  \/ ShortEthernet(f)
  \/ BadIpv4(f) \/ BadIpv6(f) \/ ShortArp(f)
  \/ ShortTcp(f) \/ ShortUdp(f)

\* The slices the header parsers hand on reach to the end of the frame.
NoPayload == [data |-> NoData, padded |-> FALSE]
Payload(f) ==
  IF Transport(f) = NoLayer THEN NoPayload ELSE [data |-> f.data, padded |-> f.padded]

\* Mutants, named <definition>_<slip>, stand before the definition they alter.
GuessProtocol_Destination(src_port, dst_port) ==
  IF dst_port \in {80, 8080} THEN "HTTP"
  ELSE IF dst_port \in {443, 8443} THEN "TLS"
  ELSE IF dst_port = 53 THEN "DNS"
  ELSE IF dst_port = 21 THEN "FTP"
  ELSE "Unknown"

\* guess_protocol_by_port: the first arm with one of the two ports.
GuessProtocol(src_port, dst_port) ==
  IF src_port \in {80, 8080} \/ dst_port \in {80, 8080}        THEN "HTTP"
  ELSE IF src_port \in {443, 8443} \/ dst_port \in {443, 8443} THEN "TLS"
  ELSE IF src_port = 53 \/ dst_port = 53                       THEN "DNS"
  ELSE IF src_port = 21 \/ dst_port = 21                       THEN "FTP"
  ELSE IF src_port = 22 \/ dst_port = 22                       THEN "SSH"
  ELSE IF src_port = 23 \/ dst_port = 23                       THEN "Telnet"
  ELSE "Unknown"

\* parse_application_data: the protocols with a parser, per transport.
Parsers(transport) ==
  IF transport = "TCP" THEN {"HTTP", "TLS", "DNS", "FTP"} ELSE {"DNS"}

\* What these parsers take for a message.  FTP is any text whose first line is
\* not blank, the octets of padding included.  The 18 octets, all 0, that pad an
\* empty datagram are a DNS message without questions or records; the 6 behind an
\* empty segment are too few.
IsMessage(protocol, transport, payload) ==
  \/ payload.data # NoData /\ payload.data.of = protocol /\ payload.data.form = "message"
  \/ protocol = "DNS" /\ transport = "UDP" /\ payload.data = NoData
  \/ protocol = "FTP" /\ payload.data = NoData
  \/ protocol = "FTP" /\ payload.data.of = "HTTP" /\ payload.data.form # "rest"

\* The protocol whose parser gets the payload, if there is one.
Asked(f) ==
  LET guess == GuessProtocol(f.src_port, f.dst_port) IN
  IF Payload(f) # NoPayload /\ guess \in Parsers(Transport(f)) THEN guess ELSE NoLayer

Panics(f) ==
  /\ ~ Fails(f)
  /\ f.data # NoData /\ f.data.form = "fatal" /\ f.data.of = Asked(f)

Application_Guessed(f) ==   \* the guess stands without a parser
  IF Payload(f) = NoPayload THEN NoLayer ELSE GuessProtocol(f.src_port, f.dst_port)

\* Application data that does not parse leaves the packet without that layer.
Application(f) ==
  IF Asked(f) # NoLayer /\ IsMessage(Asked(f), Transport(f), Payload(f)) THEN Asked(f)
  ELSE NoLayer

\* The frame number, which is frame_counter, is left out.
Parsed(f) ==
  LET ip == Network(f) # NoLayer
      ports == Transport(f) # NoLayer
  IN [network           |-> Network(f),
      src_ip            |-> IF ip THEN f.src_ip ELSE NoLayer,
      dst_ip            |-> IF ip THEN f.dst_ip ELSE NoLayer,
      transport         |-> Transport(f),
      src_port          |-> IF ports THEN f.src_port ELSE NoLayer,
      dst_port          |-> IF ports THEN f.dst_port ELSE NoLayer,
      transport_payload |-> Payload(f),
      application       |-> Application(f)]

\* The number is taken before the frame is looked at.  No call follows a panic:
\* it ends the thread the parser belongs to.
ParsePacket(f) ==
  /\ packet # Panicked
  /\ frame_counter < MaxFrames
  /\ frame_counter' = frame_counter + 1
  /\ packet' = IF Fails(f) THEN NoPacket
               ELSE IF Panics(f) THEN Panicked
               ELSE Parsed(f)
  /\ frame' = f

Next == \E f \in Frames : ParsePacket(f)

Spec == Init /\ [][Next]_vars

--------------------------------------------------------------------------------
\* get_protocols.
CountedName == [IPv4 |-> "ipv4", IPv6 |-> "ipv6", ARP |-> "arp",
                TCP  |-> "tcp",  UDP  |-> "udp",
                HTTP |-> "http", TLS  |-> "https", DNS |-> "dns"]

GetProtocols(p) ==
  {CountedName[layer] :
     layer \in {p.network, p.transport, p.application} \cap DOMAIN CountedName}

--------------------------------------------------------------------------------
Packet == [network           : {"IPv4", "IPv6", "ARP", NoLayer},
           src_ip            : Addresses \cup {NoLayer},
           dst_ip            : Addresses \cup {NoLayer},
           transport         : {"TCP", "UDP", NoLayer},
           src_port          : Ports \cup {NoLayer},
           dst_port          : Ports \cup {NoLayer},
           transport_payload : [data : Data, padded : BOOLEAN],
           application       : {"HTTP", "TLS", "DNS", "FTP", NoLayer}]

ASSUME NoPacketAssumption ==
  NoPacket # Panicked /\ NoPacket \notin Packet /\ Panicked \notin Packet

TypeOK ==
  /\ frame_counter \in 0 .. MaxFrames
  /\ packet \in Packet \cup {NoPacket, Panicked}
  /\ frame \in Frames \cup {NoPacket}

\* The comment in parse_packet: transport_payload is "the application data".  It
\* is what the sender put into the segment, and a bare ACK has none.
PayloadIsSent ==
  packet \in Packet /\ packet.transport # NoLayer =>
    packet.transport_payload = [data |-> frame.data, padded |-> FALSE]
================================================================================
