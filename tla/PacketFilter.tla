------------------------------ MODULE PacketFilter ------------------------------
(***************************************************************************)
(* PacketFilter of src/filter/mod.rs, applied to the packets PacketParser  *)
(* produces: what main.rs tests before it tracks and prints a packet, and  *)
(* what the GUI tests for every packet in its list.  The protocol of a     *)
(* filter is its name in lower case, which is all that matches looks at.   *)
(***************************************************************************)
EXTENDS PacketParser

CONSTANTS
  Filters,    \* the filters a user may set
  NoOption    \* an option that is None

ProtocolName == {"tcp", "udp", "icmp", "arp", "ipv4", "ipv6", "http", "dns", "ftp",
                 "tls", "https", "igmp"}   \* igmp: any other name

Filter == [protocol : ProtocolName \cup {NoOption},
           src_ip   : Addresses \cup {NoOption}, dst_ip : Addresses \cup {NoOption},
           src_port : Ports \cup {NoOption}, dst_port : Ports \cup {NoOption},
           port     : Ports \cup {NoOption}]

ASSUME FiltersAssumption == Filters \subseteq Filter
ASSUME NoOptionAssumption ==
  /\ NoOption \notin Addresses /\ NoOption \notin Ports
  /\ NoOption \notin ProtocolName /\ NoOption # NoLayer

--------------------------------------------------------------------------------
\* Mutants, named <definition>_<slip>, stand before the definition they alter.
MatchesProtocol_NoAlias(p, name) ==   \* "https" is not taken for TLS
  \/ name = "tcp"  /\ p.transport = "TCP"
  \/ name = "udp"  /\ p.transport = "UDP"
  \/ name = "arp"  /\ p.network = "ARP"
  \/ name = "ipv4" /\ p.network = "IPv4"
  \/ name = "ipv6" /\ p.network = "IPv6"
  \/ name = "http" /\ p.application = "HTTP"
  \/ name = "dns"  /\ p.application = "DNS"
  \/ name = "ftp"  /\ p.application = "FTP"
  \/ name = "tls"  /\ p.application = "TLS"

MatchesProtocol(p, name) ==
  \/ name = "tcp"  /\ p.transport = "TCP"
  \/ name = "udp"  /\ p.transport = "UDP"
  \/ name = "icmp" /\ p.transport = "ICMP"
  \/ name = "arp"  /\ p.network = "ARP"
  \/ name = "ipv4" /\ p.network = "IPv4"
  \/ name = "ipv6" /\ p.network = "IPv6"
  \/ name = "http" /\ p.application = "HTTP"
  \/ name = "dns"  /\ p.application = "DNS"
  \/ name = "ftp"  /\ p.application = "FTP"
  \/ name \in {"tls", "https"} /\ p.application = "TLS"

\* An option is None, or is what the packet has.
Allows(option, value) == option \in {NoOption, value}

MatchesIpAddresses(filter, p) ==
  \/ filter.src_ip = NoOption /\ filter.dst_ip = NoOption
  \/ /\ p.network \in {"IPv4", "IPv6", "ARP"}
     /\ Allows(filter.src_ip, p.src_ip)
     /\ Allows(filter.dst_ip, p.dst_ip)

MatchesPorts_NotBoth(filter, p) ==   \* --port is only tested on its own
  \/ filter.src_port = NoOption /\ filter.dst_port = NoOption
     /\ filter.port = NoOption
  \/ /\ p.transport \in {"TCP", "UDP"}
     /\ Allows(filter.src_port, p.src_port)
     /\ Allows(filter.dst_port, p.dst_port)
     /\ \/ filter.src_port # NoOption \/ filter.dst_port # NoOption
        \/ filter.port \in {p.src_port, p.dst_port}

MatchesPorts(filter, p) ==
  \/ filter.src_port = NoOption /\ filter.dst_port = NoOption
     /\ filter.port = NoOption
  \/ /\ p.transport \in {"TCP", "UDP"}
     /\ Allows(filter.src_port, p.src_port)
     /\ Allows(filter.dst_port, p.dst_port)
     /\ Allows(filter.port, p.src_port) \/ Allows(filter.port, p.dst_port)

Matches(filter, p) ==
  /\ filter.protocol = NoOption \/ MatchesProtocol(p, filter.protocol)
  /\ MatchesIpAddresses(filter, p)
  /\ MatchesPorts(filter, p)

--------------------------------------------------------------------------------
(***************************************************************************)
(* The reference: what a packet has to offer to each option.               *)
(***************************************************************************)
Options == {"protocol", "src_ip", "dst_ip", "src_port", "dst_port", "port"}

FilterNames == [TCP  |-> {"tcp"},  UDP |-> {"udp"}, IPv4 |-> {"ipv4"},
                IPv6 |-> {"ipv6"}, ARP |-> {"arp"}, HTTP |-> {"http"},
                DNS  |-> {"dns"},  FTP |-> {"ftp"}, TLS  |-> {"tls", "https"}]

Layers(p) == {p.network, p.transport, p.application} \ {NoLayer}

Offers(p, option) ==
  IF option = "protocol" THEN UNION {FilterNames[layer] : layer \in Layers(p)}
  ELSE IF option = "port" THEN {p.src_port, p.dst_port} \ {NoLayer}
  ELSE {p[option]} \ {NoLayer}

\* A packet passes a filter iff it has what each given option asks for: a packet
\* without the layer an option is about fails, options never weaken one another,
\* and no early return of matches skips one.
FilterIsConjunction ==
  packet \in Packet =>
    \A filter \in Filters :
      Matches(filter, packet) <=>
        \A option \in Options :
          filter[option] # NoOption => filter[option] \in Offers(packet, option)

\* Every name under which the statistics count a packet is a filter that finds
\* it: get_protocols and matches_protocol name layers independently.
CountedNamesFilter ==
  packet \in Packet =>
    \A name \in GetProtocols(packet) :
      \A filter \in Filters :
        (/\ filter.protocol = name
         /\ \A option \in Options \ {"protocol"} : filter[option] = NoOption)
        => Matches(filter, packet)

\* The filter finds what it is asked for and what the statistics name.
FilterIsRight == FilterIsConjunction /\ CountedNamesFilter

\* A filter without a direction passes a segment iff it passes one that answers
\* it with data of the same kind, so that the session tracker behind it sees both
\* sides of a conversation or none.
Reply(f) ==
  [ether    |-> f.ether, src_ip |-> f.dst_ip, dst_ip |-> f.src_ip,
   protocol |-> f.protocol, src_port |-> f.dst_port, dst_port |-> f.src_port,
   data     |-> f.data, padded |-> f.padded, bad |-> f.bad]

Undirected(filter) ==
  \A option \in {"src_ip", "dst_ip", "src_port", "dst_port"} :
    filter[option] = NoOption

RepliesPassAlike ==
  packet \in Packet =>
    \A filter \in Filters :
      Undirected(filter) =>
        (Matches(filter, packet)
           <=> Matches(filter, Parsed(Reply(frame))))
================================================================================
