------------------------------- MODULE CliPipeline -------------------------------
(***************************************************************************)
(* The command line program of src/main.rs with --follow-stream: the       *)
(* capture thread, the channel, and the main loop that parses, filters,    *)
(* tracks and prints one packet after the other until --count of them are  *)
(* printed.  Composes the capture thread with modules PacketFilter (and    *)
(* with it PacketParser) and SessionTracker.                               *)
(*                                                                         *)
(* The main loop shares nothing but the channel with the capture thread,   *)
(* so that its body for one packet is one action.                          *)
(***************************************************************************)
EXTENDS Integers

CONSTANTS
  Addresses, Ports, Frames,          \* the packets: see PacketParser
  SegmentFlags,                      \* and SessionTracker
  Filters,                           \* filters that may be given: see PacketFilter
  NoLayer, NoPacket, Panicked, NoData, NoOption,
  SessionTimeout,                    \* --session-timeout
  IcmpTimeout, MaxSessions, Divisor, \* the defaults of TrackerConfig
  ClockStepsBack, NoSession, Failed, MaxTime, MaxCreated,  \* see SessionTracker
  Counts,       \* values of --count; without it, any count > MaxPackets
  NoInfo,       \* session_info is None
  MaxPackets    \* bound: number of packets captured

ASSUME CountsAssumption == Counts \subseteq Nat
\* MaxCreated never keeps the tracker from taking a packet.
ASSUME BoundsAssumption == MaxPackets \in Nat /\ MaxCreated >= MaxPackets

VARIABLES
  main,          \* "loop", "join" or "exited"
  capture,       \* the capture thread: "init", "running" or "done"
  channel,       \* number of packets sent and not received: what is in a packet
                 \* matters, and is chosen, when it is received
  captured,
  packet_count,
  filter, count, \* the options
  printed,       \* the packet printed last, with its session_info
  sessions, session_counter, now, result   \* the tracker: see SessionTracker

\* The parser has counted what was received; the packet it returned is not kept.
Parser == INSTANCE PacketFilter
  WITH frame_counter <- captured - channel, MaxFrames <- MaxPackets,
       packet <- NoPacket, frame <- NoPacket

Endpoint == Addresses \X Ports
SessionKey == [protocol : {"TCP", "UDP"}, src : Endpoint, dst : Endpoint]

Tracker == INSTANCE SessionTracker
  WITH Endpoints <- Endpoint, Keys <- SessionKey,
       TcpTimeout <- SessionTimeout, UdpTimeout <- SessionTimeout \div 5

\* What PacketParser and SessionTracker assume of their constants, as far as the
\* pipeline relies on it.
ASSUME PacketsAssumption ==
  /\ Frames \subseteq Parser!Frame /\ NoLayer \notin Parser!LayerName
  /\ NoOption \notin Parser!ProtocolName
  /\ SegmentFlags \subseteq SUBSET Tracker!Flags
ASSUME TrackerAssumption ==
  /\ NoSession \notin SessionKey /\ Failed \notin SessionKey
  /\ MaxTime \in Nat /\ MaxCreated \in Nat

mainVars == <<main, packet_count, printed>>
captureVars == <<capture, channel, captured>>
trackerVars == <<sessions, session_counter, now, result>>
options == <<filter, count>>
vars == <<mainVars, options, captureVars, trackerVars>>

Nothing == [info |-> NoInfo]

Init ==
  /\ filter \in Filters /\ count \in Counts
  /\ main = "loop" /\ packet_count = 0 /\ printed = Nothing
  /\ capture = "init" /\ channel = 0 /\ captured = 0
  /\ Tracker!Init

--------------------------------------------------------------------------------
(***************************************************************************)
(* The capture thread.  Leaving the loop drops the main thread's receiver. *)
(***************************************************************************)
InitCapture ==
  /\ main # "exited"
  /\ capture = "init"
  /\ capture' \in {"running", "done"}
  /\ UNCHANGED <<mainVars, options, channel, captured, trackerVars>>

SendPacket ==
  /\ capture = "running"
  /\ main = "loop"
  /\ captured < MaxPackets
  /\ channel' = channel + 1
  /\ captured' = captured + 1
  /\ UNCHANGED <<mainVars, options, capture, trackerVars>>

SendFails ==
  /\ capture = "running"
  /\ main = "join"
  /\ capture' = "done"
  /\ UNCHANGED <<mainVars, options, channel, captured, trackerVars>>

CaptureError ==
  /\ main # "exited"
  /\ capture = "running"
  /\ capture' = "done"
  /\ UNCHANGED <<mainVars, options, channel, captured, trackerVars>>

--------------------------------------------------------------------------------
(***************************************************************************)
(* The main loop.  (Mutants, named <definition>_<slip>, stand before the   *)
(* definition they alter.)                                                 *)
(***************************************************************************)
Received_Empty == main = "loop" /\ channel' = channel - 1

Received == main = "loop" /\ channel > 0 /\ channel' = channel - 1

\* extract_session_key of the tracker.
HasKey(p) == p.network \in {"IPv4", "IPv6"} /\ p.transport \in {"TCP", "UDP"}
ExtractKey(p) ==
  [protocol |-> p.transport, src |-> <<p.src_ip, p.src_port>>,
   dst |-> <<p.dst_ip, p.dst_port>>]

\* The flags of a TCP segment; other packets have none.
FlagsOf(f) == IF f.protocol = "TCP" THEN SegmentFlags ELSE {{}}

\* tracker.process_packet.
Track(p, flags) ==
  IF ~ HasKey(p) THEN Tracker!OtherPacket
  ELSE IF p.transport = "TCP"
  THEN Tracker!TcpPacket(ExtractKey(p), flags, p.transport_payload # Parser!NoPayload)
  ELSE Tracker!DatagramPacket(ExtractKey(p))

Skip_Tracked ==   \* the filter only decides what is printed
  /\ Received
  /\ \E f \in Frames : \E flags \in FlagsOf(f) :
       /\ ~ Parser!Fails(f) /\ ~ Parser!Panics(f)
       /\ ~ Parser!Matches(filter, Parser!Parsed(f))
       /\ Track(Parser!Parsed(f), flags)
  /\ UNCHANGED <<mainVars, options, capture, captured>>

\* A packet that does not parse or does not match the filter.
Skip ==
  /\ Received
  /\ \E f \in Frames :
       \/ Parser!Fails(f)
       \/ ~ Parser!Panics(f) /\ ~ Parser!Matches(filter, Parser!Parsed(f))
  /\ UNCHANGED <<mainVars, options, capture, captured, trackerVars>>

\* A panic of parse_packet on the main thread ends the process.
ParserPanics ==
  /\ Received
  /\ \E f \in Frames : Parser!Panics(f)
  /\ main' = "exited"
  /\ UNCHANGED <<packet_count, printed, options, capture, captured, trackerVars>>

Shown(f) ==
  ~ Parser!Fails(f) /\ ~ Parser!Panics(f) /\ Parser!Matches(filter, Parser!Parsed(f))

\* The session_info added to the packet, if get_session still finds the session
\* that process_packet named.
Direction_Swapped(p, client) ==
  IF <<p.src_ip, p.src_port>> = client THEN "response" ELSE "request"

Direction(p, client) ==
  IF <<p.src_ip, p.src_port>> = client THEN "request" ELSE "response"

SessionInfo_Unchecked(p) ==   \* the id is taken for the session
  IF result' \in SessionKey
  THEN [session |-> result', direction |-> Direction(p, result'.src)]
  ELSE NoInfo

SessionInfo(p) ==
  IF result' \in SessionKey /\ result' \in DOMAIN sessions'
  THEN [session |-> result', direction |-> Direction(p, result'.src)]
  ELSE NoInfo

\* History: the direction of the session's flow in which process_packet files
\* the segment.
FiledAs(key, flags) ==
  IF Tracker!Tracked(key) THEN Tracker!Direction(Tracker!ActualKey(key), key)
  ELSE Tracker!FirstDirection(flags)

AfterPrint_LateBreak == IF packet_count' > count THEN "join" ELSE "loop"

AfterPrint == IF packet_count' >= count THEN "join" ELSE "loop"

PrintPacket(f, flags) ==
  /\ Received
  /\ Shown(f)
  /\ LET p == Parser!Parsed(f) IN
       /\ Track(p, flags)
       /\ printed' = IF HasKey(p)
                     THEN [info |-> SessionInfo(p), key |-> ExtractKey(p),
                           filed |-> FiledAs(ExtractKey(p), flags)]
                     ELSE Nothing
  /\ packet_count' = packet_count + 1
  /\ main' = AfterPrint
  /\ UNCHANGED <<options, capture, captured>>

\* format_packet fails: main returns at once, which ends the process.
FormatFails(f, flags) ==
  /\ Received
  /\ Shown(f)
  /\ Track(Parser!Parsed(f), flags)
  /\ main' = "exited"
  /\ UNCHANGED <<packet_count, printed, options, capture, captured>>

EndOfPackets_SenderKept == FALSE   \* main keeps a clone of tx

EndOfPackets_Undrained ==   \* the thread is watched, not the channel
  /\ main = "loop"
  /\ capture = "done"
  /\ main' = "join"
  /\ UNCHANGED <<packet_count, printed, options, captureVars, trackerVars>>

\* The sender is gone and the channel is drained: the for loop ends.
EndOfPackets ==
  /\ main = "loop"
  /\ channel = 0
  /\ capture = "done"
  /\ main' = "join"
  /\ UNCHANGED <<packet_count, printed, options, captureVars, trackerVars>>

JoinCapture ==
  /\ main = "join"
  /\ capture = "done"
  /\ main' = "exited"
  /\ UNCHANGED <<packet_count, printed, options, captureVars, trackerVars>>

Main ==
  \/ Skip
  \/ ParserPanics
  \/ \E f \in Frames : \E flags \in FlagsOf(f) :
       PrintPacket(f, flags) \/ FormatFails(f, flags)
  \/ EndOfPackets
  \/ JoinCapture

Tick == main # "exited" /\ Tracker!Tick /\ UNCHANGED <<mainVars, options, captureVars>>

Next ==
  \/ InitCapture \/ SendPacket \/ SendFails \/ CaptureError
  \/ Main
  \/ Tick

Spec == Init /\ [][Next]_vars

\* Both threads are scheduled: the main loop takes what is in the channel, and
\* pcap answers the attempt to open the device.
FairSpec == Spec /\ WF_vars(Main) /\ WF_vars(InitCapture)

--------------------------------------------------------------------------------
TypeOK ==
  /\ filter \in Filters /\ count \in Counts
  /\ main \in {"loop", "join", "exited"}
  /\ capture \in {"init", "running", "done"}
  /\ channel \in 0 .. MaxPackets /\ captured \in 0 .. MaxPackets
  /\ packet_count \in 0 .. MaxPackets
  /\ printed \in {Nothing}
       \cup [info  : {NoInfo}
                       \cup [session : SessionKey, direction : {"request", "response"}],
             key   : SessionKey,
             filed : Tracker!Dirs]
  /\ Tracker!TypeOK

\* main.rs and the tracker decide independently who the client is.  For a
\* connection seen from its SYN on they agree: a segment printed as a request was
\* filed in the client's stream, a response in the server's.
RequestsGoToServer ==
  main # "exited" /\ printed.info # NoInfo =>
    LET k == printed.info.session IN
    sessions[k].syn_first =>
      (printed.info.direction = "request" <=> printed.filed = Tracker!C2S)

\* A printed session_info names the conversation of its packet, in one direction
\* or the other, and a session that is still tracked: process_packet returns the
\* id of a session that its cleanup may have removed.
InfoIsOfPacket ==
  main # "exited" /\ printed.info # NoInfo =>
    /\ printed.info.session \in {printed.key, Tracker!Reverse(printed.key)}
    /\ printed.info.session \in DOMAIN sessions

\* What is printed of the session, its id and the direction, is right.
InfoIsRight == InfoIsOfPacket /\ RequestsGoToServer

\* A filter for one side of the traffic (--dst-port 443, README 4.1.3) shows the
\* tracker half of each connection, on which no handshake completes.
Passes(key) ==
  \E f \in Frames :
    LET p == Parser!Parsed(f) IN Shown(f) /\ HasKey(p) /\ ExtractKey(p) = key

EstablishedNeedsBothSides ==
  \A k \in DOMAIN sessions :
    sessions[k].tcp_flow.state = "Established" => Passes(k) /\ Passes(Tracker!Reverse(k))

\* A filter for an application protocol hides the segments without data, and with
\* them the usual handshake: a TCP session is only tracked from a SYN with data on.
ApplicationFilter == filter.protocol \in {"http", "https", "tls", "dns", "ftp"}

SessionsNeedSyn ==
  ApplicationFilter =>
    \A k \in DOMAIN sessions :
      k.protocol = "TCP" => \E d \in Tracker!Dirs : sessions[k].tcp_flow.synced[d]

\* The tracker follows what the filter shows it, and no more.
TrackedIsShown == EstablishedNeedsBothSides /\ SessionsNeedSyn

\* --count N prints at most N packets, except that the count is only compared
\* after a packet has been printed.
PrintsAtMostCount == packet_count <= count \/ packet_count = 1

\* When the capture ends by itself, all it captured has been handled before the
\* main loop ends.
DrainsChannel ==
  main = "join" /\ packet_count < count => channel = 0 /\ capture = "done"

\* The main loop ends neither too late nor too early.
LoopEndsOnTime == PrintsAtMostCount /\ DrainsChannel

\* The end of the capture ends the program, whether it never started, met an error
\* of pcap or found the receiver gone, and however many packets wait: the main loop
\* handles those, sees that the sender was dropped, and joins a thread that is done.
\* (Whether the capture ends after --count is up to the traffic: until it has one
\* more packet to send it waits in pcap, and main in the join.)
PipelineEnds == capture = "done" ~> main = "exited"
================================================================================
