--------------------------- MODULE PacketFilterProofs ---------------------------
(***************************************************************************)
(* Proofs about PacketParser and PacketFilter for every set of addresses,  *)
(* ports, frames and filters.                                              *)
(***************************************************************************)
EXTENDS PacketFilter, TLAPS

--------------------------------------------------------------------------------
(***************************************************************************)
(* What a parsed packet is.                                                *)
(***************************************************************************)
LEMMA LayerTypes ==
  ASSUME NEW f \in Frame
  PROVE  /\ Network(f) \in {"IPv4", "IPv6", "ARP", NoLayer}
         /\ Transport(f) \in {"TCP", "UDP", NoLayer}
         /\ Payload(f) \in [data : Data, padded : BOOLEAN]
         /\ Application(f) \in {"HTTP", "TLS", "DNS", "FTP", NoLayer}
  <1>1. Network(f) \in {"IPv4", "IPv6", "ARP", NoLayer}
    BY DEF Network, Frame, Ethertype
  <1>2. Transport(f) \in {"TCP", "UDP", NoLayer}
    BY DEF Transport, Frame
  <1>3. Payload(f) \in [data : Data, padded : BOOLEAN]
    BY DEF Payload, NoPayload, Data, Frame
  <1>4. Application(f) \in {"HTTP", "TLS", "DNS", "FTP", NoLayer}
    BY DEF Application, Asked, Parsers
  <1> QED BY <1>1, <1>2, <1>3, <1>4

LEMMA ParsedType ==
  ASSUME NEW f \in Frame
  PROVE  Parsed(f) \in Packet
  <1>1. f.src_ip \in Addresses /\ f.dst_ip \in Addresses
        /\ f.src_port \in Ports /\ f.dst_port \in Ports
    BY DEF Frame
  <1> QED BY <1>1, LayerTypes DEF Parsed, Packet

--------------------------------------------------------------------------------
(***************************************************************************)
(* The invariant: the packet is what parse_packet makes of the last frame. *)
(***************************************************************************)
PacketInv ==
  /\ TypeOK
  /\ packet \in Packet => /\ frame \in Frames
                          /\ frame_counter \in 1 .. MaxFrames
                          /\ packet = Parsed(frame)

LEMMA PacketInvInit == Init => PacketInv
  BY MaxFramesAssumption, NoPacketAssumption DEF Init, PacketInv, TypeOK

LEMMA PacketInvNext == PacketInv /\ [Next]_vars => PacketInv'
  <1> SUFFICES ASSUME PacketInv, [Next]_vars PROVE PacketInv'
    OBVIOUS
  <1>1. CASE Next
    <2> PICK f \in Frames : ParsePacket(f)
      BY <1>1 DEF Next
    <2>1. frame_counter' \in 1 .. MaxFrames
      BY MaxFramesAssumption DEF ParsePacket, PacketInv, TypeOK
    <2>2. f \in Frame
      BY FramesAssumption
    <2>3. /\ packet' \in Packet \cup {NoPacket, Panicked}
          /\ packet' \in Packet => packet' = Parsed(f)
      BY <2>1, <2>2, ParsedType, NoPacketAssumption DEF ParsePacket
    <2>4. frame' = f
      BY DEF ParsePacket
    <2> QED BY <2>1, <2>3, <2>4 DEF PacketInv, TypeOK
  <1>2. CASE UNCHANGED vars
    BY <1>2 DEF PacketInv, TypeOK, vars
  <1> QED BY <1>1, <1>2

LEMMA PacketInvariant == Spec => []PacketInv
  BY PacketInvInit, PacketInvNext, PTL DEF Spec

\* PacketParser is well typed whatever is captured.
THEOREM TypeCorrect == Spec => []TypeOK
  <1>1. PacketInv => TypeOK
    BY DEF PacketInv
  <1> QED BY <1>1, PacketInvariant, PTL

--------------------------------------------------------------------------------
(***************************************************************************)
(* matches against the reference, one option at a time.                    *)
(***************************************************************************)
LEMMA ProtocolOffered ==
  ASSUME NEW p \in Packet, NEW name \in ProtocolName
  PROVE  MatchesProtocol(p, name) <=> name \in Offers(p, "protocol")
  <1>1. /\ p.network \in {"IPv4", "IPv6", "ARP", NoLayer}
        /\ p.transport \in {"TCP", "UDP", NoLayer}
        /\ p.application \in {"HTTP", "TLS", "DNS", "FTP", NoLayer}
    BY DEF Packet
  <1>2. name \in Offers(p, "protocol") <=>
          \E layer \in Layers(p) : name \in FilterNames[layer]
    BY DEF Offers
  <1>3. /\ FilterNames["TCP"] = {"tcp"} /\ FilterNames["UDP"] = {"udp"}
        /\ FilterNames["IPv4"] = {"ipv4"} /\ FilterNames["IPv6"] = {"ipv6"}
        /\ FilterNames["ARP"] = {"arp"} /\ FilterNames["HTTP"] = {"http"}
        /\ FilterNames["DNS"] = {"dns"} /\ FilterNames["FTP"] = {"ftp"}
        /\ FilterNames["TLS"] = {"tls", "https"}
    BY DEF FilterNames
  <1> QED BY <1>1, <1>2, <1>3, NoLayerAssumption
          DEF MatchesProtocol, Layers, LayerName, ProtocolName

LEMMA AddressesOffered ==
  ASSUME NEW p \in Packet, NEW f \in Filter,
         p.network = NoLayer => p.src_ip = NoLayer /\ p.dst_ip = NoLayer,
         p.network # NoLayer => p.src_ip # NoLayer /\ p.dst_ip # NoLayer
  PROVE  MatchesIpAddresses(f, p) <=>
           /\ f.src_ip # NoOption => f.src_ip \in Offers(p, "src_ip")
           /\ f.dst_ip # NoOption => f.dst_ip \in Offers(p, "dst_ip")
  <1>1. /\ p.network \in {"IPv4", "IPv6", "ARP", NoLayer}
        /\ f.src_ip \in Addresses \cup {NoOption}
        /\ f.dst_ip \in Addresses \cup {NoOption}
    BY DEF Packet, Filter
  <1>2. /\ Offers(p, "src_ip") = {p.src_ip} \ {NoLayer}
        /\ Offers(p, "dst_ip") = {p.dst_ip} \ {NoLayer}
    BY DEF Offers, Packet
  <1> QED BY <1>1, <1>2, NoLayerAssumption, NoOptionAssumption
          DEF MatchesIpAddresses, Allows, LayerName

LEMMA PortsOffered ==
  ASSUME NEW p \in Packet, NEW f \in Filter,
         p.transport = NoLayer => p.src_port = NoLayer /\ p.dst_port = NoLayer,
         p.transport # NoLayer => p.src_port # NoLayer /\ p.dst_port # NoLayer
  PROVE  MatchesPorts(f, p) <=>
           /\ f.src_port # NoOption => f.src_port \in Offers(p, "src_port")
           /\ f.dst_port # NoOption => f.dst_port \in Offers(p, "dst_port")
           /\ f.port # NoOption => f.port \in Offers(p, "port")
  <1>1. /\ p.transport \in {"TCP", "UDP", NoLayer}
        /\ f.src_port \in Ports \cup {NoOption}
        /\ f.dst_port \in Ports \cup {NoOption}
        /\ f.port \in Ports \cup {NoOption}
    BY DEF Packet, Filter
  <1>2. /\ Offers(p, "src_port") = {p.src_port} \ {NoLayer}
        /\ Offers(p, "dst_port") = {p.dst_port} \ {NoLayer}
        /\ Offers(p, "port") = {p.src_port, p.dst_port} \ {NoLayer}
    BY DEF Offers, Packet
  <1> QED BY <1>1, <1>2, NoLayerAssumption, NoOptionAssumption
          DEF MatchesPorts, Allows, LayerName

\* A packet has addresses iff it has a network layer, ports iff a transport layer.
LEMMA ParsedFields ==
  ASSUME NEW f \in Frame
  PROVE  LET p == Parsed(f) IN
         /\ p.network = Network(f) /\ p.transport = Transport(f)
         /\ p.application = Application(f)
         /\ p.network = NoLayer => p.src_ip = NoLayer /\ p.dst_ip = NoLayer
         /\ p.network # NoLayer => p.src_ip # NoLayer /\ p.dst_ip # NoLayer
         /\ p.transport = NoLayer => p.src_port = NoLayer /\ p.dst_port = NoLayer
         /\ p.transport # NoLayer =>
              p.src_port = f.src_port /\ p.dst_port = f.dst_port
         /\ p.transport # NoLayer => p.src_port # NoLayer /\ p.dst_port # NoLayer
  BY NoLayerAssumption DEF Parsed, Frame

\* matches is the conjunction of the options that are given, for every packet
\* parse_packet can produce and every filter.
THEOREM FilterCorrect == Spec => []FilterIsConjunction
  <1>1. PacketInv => FilterIsConjunction
    <2> SUFFICES ASSUME PacketInv, packet \in Packet, NEW f \in Filters
                 PROVE  Matches(f, packet) <=>
                          \A option \in Options :
                            f[option] # NoOption =>
                              f[option] \in Offers(packet, option)
      BY DEF FilterIsConjunction
    <2>1. f \in Filter
      BY FiltersAssumption
    <2>2. frame \in Frame /\ packet = Parsed(frame)
          /\ packet \in Packet
      BY FramesAssumption DEF PacketInv, TypeOK
    <2>3. (f.protocol = NoOption \/ MatchesProtocol(packet, f.protocol))
            <=> (f.protocol # NoOption => f.protocol \in Offers(packet, "protocol"))
      BY <2>1, <2>2, ProtocolOffered DEF Filter
    <2>4. MatchesIpAddresses(f, packet) <=>
            /\ f.src_ip # NoOption => f.src_ip \in Offers(packet, "src_ip")
            /\ f.dst_ip # NoOption => f.dst_ip \in Offers(packet, "dst_ip")
      BY <2>1, <2>2, AddressesOffered, ParsedFields
    <2>5. MatchesPorts(f, packet) <=>
            /\ f.src_port # NoOption => f.src_port \in Offers(packet, "src_port")
            /\ f.dst_port # NoOption => f.dst_port \in Offers(packet, "dst_port")
            /\ f.port # NoOption => f.port \in Offers(packet, "port")
      BY <2>1, <2>2, PortsOffered, ParsedFields
    <2> DEFINE Met(option) ==
                 f[option] # NoOption => f[option] \in Offers(packet, option)
    <2>6. Matches(f, packet) <=>
            /\ Met("protocol") /\ Met("src_ip") /\ Met("dst_ip")
            /\ Met("src_port") /\ Met("dst_port") /\ Met("port")
      BY <2>3, <2>4, <2>5 DEF Matches
    <2> HIDE DEF Met
    <2>7. (\A option \in Options : Met(option)) <=>
            /\ Met("protocol") /\ Met("src_ip") /\ Met("dst_ip")
            /\ Met("src_port") /\ Met("dst_port") /\ Met("port")
      <3>1. ASSUME \A option \in Options : Met(option)
            PROVE  /\ Met("protocol") /\ Met("src_ip") /\ Met("dst_ip")
                   /\ Met("src_port") /\ Met("dst_port") /\ Met("port")
        <4>1. /\ "protocol" \in Options /\ "src_ip" \in Options
              /\ "dst_ip" \in Options /\ "src_port" \in Options
              /\ "dst_port" \in Options /\ "port" \in Options
          BY DEF Options
        <4> QED BY ONLY <3>1, <4>1
      <3>2. ASSUME Met("protocol"), Met("src_ip"), Met("dst_ip"),
                   Met("src_port"), Met("dst_port"), Met("port"),
                   NEW option \in Options
            PROVE  Met(option)
        <4>1. \/ option = "protocol" \/ option = "src_ip" \/ option = "dst_ip"
              \/ option = "src_port" \/ option = "dst_port" \/ option = "port"
          BY DEF Options
        <4> QED BY ONLY <3>2, <4>1
      <3> QED BY ONLY <3>1, <3>2
    <2> QED BY <2>6, <2>7 DEF Met
  <1> QED BY <1>1, PacketInvariant, PTL

\* Every name the statistics use is a filter that finds the packets counted
\* under it.
THEOREM CountedNamesCorrect == Spec => []CountedNamesFilter
  <1>1. PacketInv => CountedNamesFilter
    <2> SUFFICES ASSUME PacketInv, packet \in Packet,
                        NEW name \in GetProtocols(packet), NEW f \in Filters,
                        f.protocol = name,
                        \A option \in Options \ {"protocol"} : f[option] = NoOption
                 PROVE  Matches(f, packet)
      BY DEF CountedNamesFilter
    <2>1. packet \in Packet
      BY DEF PacketInv, TypeOK
    <2>2. PICK layer \in {packet.network, packet.transport, packet.application}
                           \cap DOMAIN CountedName : name = CountedName[layer]
      BY DEF GetProtocols
    <2>3. /\ CountedName["IPv4"] = "ipv4" /\ CountedName["IPv6"] = "ipv6"
          /\ CountedName["ARP"] = "arp" /\ CountedName["TCP"] = "tcp"
          /\ CountedName["UDP"] = "udp" /\ CountedName["HTTP"] = "http"
          /\ CountedName["TLS"] = "https" /\ CountedName["DNS"] = "dns"
          /\ DOMAIN CountedName = {"IPv4", "IPv6", "ARP", "TCP", "UDP", "HTTP",
                                   "TLS", "DNS"}
      BY DEF CountedName
    <2>4. MatchesProtocol(packet, name)
      BY <2>1, <2>2, <2>3, NoLayerAssumption DEF MatchesProtocol, Packet, LayerName
    <2>5. /\ f.src_ip = NoOption /\ f.dst_ip = NoOption
          /\ f.src_port = NoOption /\ f.dst_port = NoOption /\ f.port = NoOption
      BY DEF Options
    <2> QED BY <2>4, <2>5 DEF Matches, MatchesIpAddresses, MatchesPorts
  <1> QED BY <1>1, PacketInvariant, PTL

--------------------------------------------------------------------------------
(***************************************************************************)
(* Replies.                                                                *)
(***************************************************************************)
LEMMA GuessIsSymmetric ==
  ASSUME NEW p, NEW q
  PROVE  GuessProtocol(p, q) = GuessProtocol(q, p)
  BY DEF GuessProtocol

LEMMA ReplyLayers ==
  ASSUME NEW f \in Frame
  PROVE  /\ Reply(f) \in Frame
         /\ Reply(f).src_port = f.dst_port /\ Reply(f).dst_port = f.src_port
         /\ Network(Reply(f)) = Network(f)
         /\ Transport(Reply(f)) = Transport(f)
         /\ Application(Reply(f)) = Application(f)
  <1>1. /\ Reply(f) \in Frame
        /\ Reply(f).src_port = f.dst_port /\ Reply(f).dst_port = f.src_port
        /\ Reply(f).ether = f.ether /\ Reply(f).protocol = f.protocol
        /\ Reply(f).data = f.data /\ Reply(f).padded = f.padded
        /\ Reply(f).bad = f.bad
    BY DEF Reply, Frame
  <1>2. Network(Reply(f)) = Network(f) /\ Transport(Reply(f)) = Transport(f)
    BY <1>1 DEF Network, Transport
  <1>3. Payload(Reply(f)) = Payload(f)
    BY <1>1, <1>2 DEF Payload
  <1>4. GuessProtocol(f.dst_port, f.src_port) = GuessProtocol(f.src_port, f.dst_port)
    BY GuessIsSymmetric
  <1>5. Application(Reply(f)) = Application(f)
    BY <1>1, <1>2, <1>3, <1>4 DEF Application, Asked
  <1> QED BY <1>1, <1>2, <1>5

\* A filter without a direction passes both sides of a conversation or neither.
THEOREM RepliesCorrect == Spec => []RepliesPassAlike
  <1>1. PacketInv => RepliesPassAlike
    <2> SUFFICES ASSUME PacketInv, packet \in Packet, NEW f \in Filters,
                        Undirected(f)
                 PROVE  Matches(f, packet) <=>
                          Matches(f, Parsed(Reply(frame)))
      BY DEF RepliesPassAlike
    <2> DEFINE reply == Parsed(Reply(frame))
    <2>1. frame \in Frame /\ packet = Parsed(frame)
      BY FramesAssumption DEF PacketInv, TypeOK
    <2>2. /\ reply.network = packet.network
          /\ reply.transport = packet.transport
          /\ reply.application = packet.application
      BY <2>1, ReplyLayers, ParsedFields
    <2>3. packet.transport # NoLayer =>
            reply.src_port = packet.dst_port /\ reply.dst_port = packet.src_port
      BY <2>1, <2>2, ReplyLayers, ParsedFields
    <2>4. f.src_ip = NoOption /\ f.dst_ip = NoOption
          /\ f.src_port = NoOption /\ f.dst_port = NoOption
      BY DEF Undirected
    <2> HIDE DEF reply
    <2>5. MatchesIpAddresses(f, packet) /\ MatchesIpAddresses(f, reply)
      BY <2>4 DEF MatchesIpAddresses
    <2>6. MatchesPorts(f, packet) <=> MatchesPorts(f, reply)
      BY <2>2, <2>3, <2>4, NoLayerAssumption DEF MatchesPorts, Allows, LayerName
    <2>7. MatchesProtocol(packet, f.protocol) <=> MatchesProtocol(reply, f.protocol)
      BY <2>2 DEF MatchesProtocol
    <2> QED BY <2>5, <2>6, <2>7 DEF Matches, reply
  <1> QED BY <1>1, PacketInvariant, PTL

\* The filter finds just what its options ask for, and what the statistics name.
THEOREM FilterRight == Spec => []FilterIsRight
  BY FilterCorrect, CountedNamesCorrect, PTL DEF FilterIsRight

================================================================================
