--------------------------------- MODULE TcpTap ---------------------------------
(***************************************************************************)
(* A TcpFlow as WireCrab uses it: on a host that has a TCP connection.     *)
(* Two endpoints that follow RFC 9293 open a connection, send, retransmit  *)
(* and close or abort over a wire that loses and reorders packets.  The    *)
(* flow is given each packet as the host sends or receives it.             *)
(*                                                                         *)
(* What the endpoint at the sending end of direction d sends are its       *)
(* items: its SYN is item 0, its data segments are items 1, 2, ... in      *)
(* order, its FIN is the last one.                                         *)
(***************************************************************************)
EXTENDS TcpFlow, FiniteSets

CONSTANTS
  InOrder,    \* InOrder[d]: the data segments of direction d, in order
  Ack, Reset, \* packets that carry no item: a bare ACK, a RST
  MaxInFlight \* bound: packets on the wire

ASSUME InOrderAssumption ==
  \A d \in Dirs :
    /\ InOrder[d] \in Seq(Segments[d])
    /\ \A i, j \in DOMAIN InOrder[d] : i # j => InOrder[d][i][1] # InOrder[d][j][1]
ASSUME ItemsAssumption == Ack # Reset /\ Ack \notin Nat /\ Reset \notin Nat

VARIABLES
  host,     \* direction in which the host that is sniffed on sends
  snd,      \* snd[d]: number of items sent in direction d
  acked,    \* acked[d]: of these, those its sender knows to have arrived
  rcv,      \* rcv[d]: number of items received in direction d, in order
  wire,     \* wire[d]: the packets under way in direction d
  owes,     \* owes[d]: the sender of d has received an item since it last sent
  aborted,  \* aborted[d]: the sender of d has sent or received a RST
  opened,   \* history: the flow has seen the client's ACK of the SYN-ACK
  fins,     \* history: directions of the first three FINs seen after that
  answered  \* history: a packet that is no FIN followed the first of them

history == <<opened, fins, answered>>
endpoints == <<snd, acked, rcv, owes, aborted>>
tapVars == <<host, endpoints, wire, history>>
allVars == <<vars, tapVars>>

TapInit ==
  /\ Init
  /\ host \in Dirs
  /\ snd = [d \in Dirs |-> 0] /\ acked = snd /\ rcv = snd
  /\ wire = [d \in Dirs |-> {}]
  /\ owes = [d \in Dirs |-> FALSE] /\ aborted = owes
  /\ opened = FALSE /\ fins = << >> /\ answered = FALSE

--------------------------------------------------------------------------------
Peer(d) == IF d = C2S THEN S2C ELSE C2S
Fin(d) == Len(InOrder[d]) + 1

FlagsOf(d, item) ==
  IF item = Reset THEN {"RST", "ACK"}
  ELSE IF item = Ack THEN {"ACK"}
  ELSE IF item = 0 THEN (IF d = C2S THEN {"SYN"} ELSE {"SYN", "ACK"})
  ELSE IF item = Fin(d) THEN {"FIN", "ACK"}
  ELSE {"ACK"}

HasData(d, item) == item \in 1 .. Fin(d) - 1

\* The flow is given a packet that carries item.
See(d, item) ==
  LET flags == FlagsOf(d, item) IN
  /\ \/ item = 0 /\ AddSyn(d, flags)
     \/ HasData(d, item) /\ AddData(d, flags, InOrder[d][item])
     \/ HasData(d, item) /\ RejectData(d, flags)
     \/ item # 0 /\ ~ HasData(d, item) /\ AddBare(d, flags)
  /\ opened' = (opened \/ (d = C2S /\ "ACK" \in flags))
  /\ fins' = IF opened /\ item = Fin(d) /\ Len(fins) < 3 THEN Append(fins, d)
             ELSE fins
  /\ answered' = (answered \/ (Len(fins) = 1 /\ "ACK" \in flags /\ item # Fin(d)))

NotSeen == UNCHANGED <<vars, history>>

--------------------------------------------------------------------------------
(***************************************************************************)
(* The endpoints.  Data and FIN wait until the SYN is acknowledged; until  *)
(* it is acknowledged an item may be sent again.  A bare ACK answers an    *)
(* item received, unless something else has carried the acknowledgement.   *)
(***************************************************************************)
MaySend(d, item) ==
  /\ ~ aborted[d]
  /\ \/ item = Ack /\ owes[d] /\ rcv[Peer(d)] > 0 /\ snd[d] > 0
     \/ item = Reset /\ snd[d] > 0 /\ acked[d] <= Fin(d)
     \/ /\ item \in acked[d] .. snd[d] /\ item <= Fin(d)
        /\ item > 0 => acked[d] > 0
        /\ item = 0 /\ d = S2C => rcv[C2S] > 0

Send(d, item) ==
  /\ MaySend(d, item)
  /\ Cardinality(wire[C2S]) + Cardinality(wire[S2C]) < MaxInFlight
  /\ wire' = [wire EXCEPT ![d] = @ \cup {[item |-> item, ack |-> rcv[Peer(d)]]}]
  /\ snd' = IF item = snd[d] THEN [snd EXCEPT ![d] = @ + 1] ELSE snd
  /\ owes' = [owes EXCEPT ![d] = FALSE]
  /\ aborted' = IF item = Reset THEN [aborted EXCEPT ![d] = TRUE] ELSE aborted
  /\ UNCHANGED <<host, acked, rcv>>
  /\ IF d = host THEN See(d, item) ELSE NotSeen

\* An endpoint keeps what comes in order and drops what comes early, and
\* believes no acknowledgement before it has the other's SYN.
Receive(d, packet) ==
  /\ packet \in wire[d]
  /\ wire' = [wire EXCEPT ![d] = @ \ {packet}]
  /\ rcv' = IF packet.item = rcv[d] THEN [rcv EXCEPT ![d] = @ + 1] ELSE rcv
  /\ acked' = IF rcv'[d] > 0 /\ packet.ack > acked[Peer(d)]
              THEN [acked EXCEPT ![Peer(d)] = packet.ack] ELSE acked
  /\ owes' = IF packet.item \in Nat THEN [owes EXCEPT ![Peer(d)] = TRUE] ELSE owes
  /\ aborted' = IF packet.item = Reset THEN [aborted EXCEPT ![Peer(d)] = TRUE]
                ELSE aborted
  /\ UNCHANGED <<host, snd>>
  /\ IF d = host THEN NotSeen ELSE See(d, packet.item)

Lose(d, packet) ==
  /\ packet \in wire[d]
  /\ wire' = [wire EXCEPT ![d] = @ \ {packet}]
  /\ UNCHANGED <<host, endpoints>> /\ NotSeen

Items(d) == 0 .. Fin(d) \cup {Ack, Reset}

TapNext ==
  \/ \E d \in Dirs :
       \/ \E item \in Items(d) : Send(d, item)
       \/ \E packet \in wire[d] : Receive(d, packet) \/ Lose(d, packet)

TapSpec == TapInit /\ [][TapNext]_allVars

--------------------------------------------------------------------------------
EndpointsTypeOK ==
  /\ host \in Dirs
  /\ {snd, acked, rcv} \subseteq [Dirs -> Nat]
  /\ \A d \in Dirs : acked[d] <= rcv[d] /\ rcv[d] <= snd[d] /\ snd[d] <= Fin(d) + 1
  /\ DOMAIN wire = Dirs
  /\ \A d \in Dirs : wire[d] \subseteq [item : Items(d), ack : 0 .. rcv[Peer(d)]]
  /\ {owes, aborted} \subseteq [Dirs -> BOOLEAN]
  /\ opened \in BOOLEAN /\ answered \in BOOLEAN
  /\ fins \in Seq(Dirs) /\ Len(fins) <= 3

TapTypeOK == TypeOK /\ EndpointsTypeOK

\* The handshake the flow infers is the one the endpoints made: it passes
\* SynReceived only when each has the other's SYN, and it has passed when the
\* server learns that the client has its SYN, whatever packet told it so.
EstablishedIsShared ==
  LET established == Progress[state] >= Progress["Established"] IN
  /\ established /\ state # "Closed" => \A d \in Dirs : rcv[d] > 0
  /\ acked[S2C] > 0 => established

\* A connection seen from its SYN never runs into the Err of add_data, and the
\* buffers hold every byte the endpoints have received, in whatever order it
\* came and however often; nobody calls has_new_data, so nothing leaves them.
HoldsAllReceived ==
  \A d \in Dirs : \A i \in 1 .. Fin(d) - 1 :
    i < rcv[d] => BytesOf(Payload(InOrder[d][i])) \subseteq Waiting(d)

Aborted == \E d \in Dirs : aborted[d]

\* Although FinWait1 takes any ACK and FinWait2 any FIN, a flow in TimeWait or
\* Closed belongs to a connection that was aborted or that both endpoints have
\* closed, or it has seen a FIN twice.
ClosedIsClosed ==
  state \in {"TimeWait", "Closed"} =>
    \/ Aborted
    \/ \A d \in Dirs : snd[d] = Fin(d) + 1
    \/ \E i, j \in DOMAIN fins : i # j /\ fins[i] = fins[j]

\* Where a flow rests when its connection has been closed in order, by the FINs
\* it has seen.  A client that closes first leaves it Closed if a packet that is
\* no FIN followed its FIN, or if a FIN was seen twice; a close in three segments
\* or by both at once leaves it in FinWait2.  A server that closes first leaves
\* it in CloseWait, and so does a client whose FIN is the packet that completes
\* the handshake; only a second sight of the server's FIN, taken for the
\* client's, brings such a flow to Closed.
Finished ==
  \A d \in Dirs :
    acked[d] = Fin(d) + 1 /\ wire[d] = {} /\ ~ owes[d] /\ ~ aborted[d]

FinAgain(d) == \E i, j \in DOMAIN fins : i # j /\ fins[i] = d /\ fins[j] = d

RestsWhereItCloses ==
  Finished =>
    /\ fins # << >>
    /\ fins[1] = C2S =>
         state = IF answered \/ Len(fins) = 3 THEN "Closed" ELSE "FinWait2"
    /\ fins[1] = S2C /\ FinAgain(S2C) => state = "Closed"
    /\ fins \in {<<S2C>>, <<S2C, C2S>>} => state = "CloseWait"
    /\ fins = <<S2C, C2S, C2S>> => state \in {"CloseWait", "Closed"}
================================================================================
