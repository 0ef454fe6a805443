--------------------------- MODULE CliPipelineProofs ---------------------------
(***************************************************************************)
(* Proofs about CliPipeline for every set of packets, every filter, every  *)
(* count and every schedule of the two threads.                            *)
(***************************************************************************)
EXTENDS CliPipeline, TLAPS

--------------------------------------------------------------------------------
(***************************************************************************)
(* When the program stops: this needs nothing of what a packet is.         *)
(***************************************************************************)
CountsInv ==
  /\ main \in {"loop", "join", "exited"}
  /\ count \in Nat
  /\ packet_count \in Nat /\ channel \in Nat /\ captured \in 0 .. MaxPackets
  /\ packet_count + channel <= captured

LEMMA CountsInvariant == Spec => []CountsInv
<1>1. Init => CountsInv
  BY CountsAssumption, BoundsAssumption DEF Init, CountsInv
<1>2. CountsInv /\ [Next]_vars => CountsInv'
  <2> SUFFICES ASSUME CountsInv, [Next]_vars PROVE CountsInv'
    OBVIOUS
  <2> USE DEF CountsInv
  <2>1. CASE InitCapture \/ SendFails \/ CaptureError
    BY <2>1 DEF InitCapture, SendFails, CaptureError, mainVars, options
  <2>2. CASE SendPacket
    BY <2>2, BoundsAssumption DEF SendPacket, mainVars, options
  <2>3. CASE Skip
    BY <2>3 DEF Skip, Received, mainVars, options
  <2>4. CASE ParserPanics
    BY <2>4 DEF ParserPanics, Received, options
  <2>5. ASSUME NEW f, NEW flags, PrintPacket(f, flags) PROVE CountsInv'
    BY <2>5 DEF PrintPacket, Received, AfterPrint, options
  <2>6. ASSUME NEW f, NEW flags, FormatFails(f, flags) PROVE CountsInv'
    BY <2>6 DEF FormatFails, Received, options
  <2>7. CASE EndOfPackets \/ JoinCapture
    BY <2>7 DEF EndOfPackets, JoinCapture, options, captureVars
  <2>8. CASE Tick \/ UNCHANGED vars
    BY <2>8 DEF Tick, vars, mainVars, options, captureVars
  <2> QED
    BY <2>1, <2>2, <2>3, <2>4, <2>5, <2>6, <2>7, <2>8 DEF Next, Main
<1> QED
  BY <1>1, <1>2, PTL DEF Spec

\* As long as the loop goes on, either nothing has been printed or less than count.
Printing == main = "loop" => packet_count < count \/ packet_count = 0

\* No value of --count but 0 prints a packet too many.
THEOREM CountRespected == Spec => []PrintsAtMostCount
<1>1. Init => Printing /\ PrintsAtMostCount
  BY CountsAssumption DEF Init, Printing, PrintsAtMostCount
<1>2. CountsInv /\ Printing /\ PrintsAtMostCount /\ [Next]_vars
        => (Printing /\ PrintsAtMostCount)'
  <2> SUFFICES ASSUME CountsInv, Printing, PrintsAtMostCount, [Next]_vars
               PROVE  (Printing /\ PrintsAtMostCount)'
    OBVIOUS
  <2> USE DEF CountsInv, Printing, PrintsAtMostCount
  <2>1. CASE packet_count' = packet_count /\ count' = count /\ main' \in {main, "join", "exited"}
    BY <2>1
  <2>2. CASE InitCapture \/ SendPacket \/ SendFails \/ CaptureError \/ Skip
    BY <2>1, <2>2 DEF InitCapture, SendPacket, SendFails, CaptureError, Skip, mainVars, options
  <2>3. CASE ParserPanics \/ EndOfPackets \/ JoinCapture
    BY <2>1, <2>3 DEF ParserPanics, EndOfPackets, JoinCapture, options
  <2>4. ASSUME NEW f, NEW flags, PrintPacket(f, flags)
        PROVE  (Printing /\ PrintsAtMostCount)'
    BY <2>4 DEF PrintPacket, Received, AfterPrint, options
  <2>5. ASSUME NEW f, NEW flags, FormatFails(f, flags)
        PROVE  (Printing /\ PrintsAtMostCount)'
    BY <2>1, <2>5 DEF FormatFails, options
  <2>6. CASE Tick \/ UNCHANGED vars
    BY <2>1, <2>6 DEF Tick, vars, mainVars, options
  <2> QED
    BY <2>2, <2>3, <2>4, <2>5, <2>6 DEF Next, Main
<1> QED
  BY <1>1, <1>2, CountsInvariant, PTL DEF Spec

\* Nothing captured before the capture ended is left in the channel.
THEOREM ChannelDrained == Spec => []DrainsChannel
<1>1. Init => DrainsChannel
  BY DEF Init, DrainsChannel
<1>2. CountsInv /\ DrainsChannel /\ [Next]_vars => DrainsChannel'
  <2> SUFFICES ASSUME CountsInv, DrainsChannel, [Next]_vars PROVE DrainsChannel'
    OBVIOUS
  <2> USE DEF CountsInv, DrainsChannel
  <2>1. CASE InitCapture \/ SendPacket \/ SendFails \/ CaptureError
    BY <2>1 DEF InitCapture, SendPacket, SendFails, CaptureError, mainVars, options
  <2>2. CASE Skip \/ ParserPanics
    BY <2>2 DEF Skip, ParserPanics, Received, mainVars
  <2>3. ASSUME NEW f, NEW flags, PrintPacket(f, flags) \/ FormatFails(f, flags)
        PROVE  DrainsChannel'
    BY <2>3 DEF PrintPacket, FormatFails, Received, AfterPrint, options
  <2>4. CASE EndOfPackets \/ JoinCapture
    BY <2>4 DEF EndOfPackets, JoinCapture, options, captureVars
  <2>5. CASE Tick \/ UNCHANGED vars
    BY <2>5 DEF Tick, vars, mainVars, options, captureVars
  <2> QED
    BY <2>1, <2>2, <2>3, <2>4, <2>5 DEF Next, Main
<1> QED
  BY <1>1, <1>2, CountsInvariant, PTL DEF Spec

--------------------------------------------------------------------------------
(***************************************************************************)
(* What one packet does to the tracker, seen from the main loop.           *)
(***************************************************************************)
LEMMA ParsedKey ==
  ASSUME NEW f \in Frames, HasKey(Parser!Parsed(f))
  PROVE  /\ ExtractKey(Parser!Parsed(f)) \in SessionKey
         /\ <<Parser!Parsed(f).src_ip, Parser!Parsed(f).src_port>>
              = ExtractKey(Parser!Parsed(f)).src
<1> DEFINE p == Parser!Parsed(f)
<1>1. f \in Parser!Frame
  BY PacketsAssumption
<1>2. /\ f.src_ip \in Addresses /\ f.dst_ip \in Addresses
      /\ f.src_port \in Ports /\ f.dst_port \in Ports
  BY <1>1 DEF Parser!Frame
<1>3. /\ p.network = Parser!Network(f) /\ p.transport = Parser!Transport(f)
      /\ p.src_ip = IF Parser!Network(f) # NoLayer THEN f.src_ip ELSE NoLayer
      /\ p.dst_ip = IF Parser!Network(f) # NoLayer THEN f.dst_ip ELSE NoLayer
      /\ p.src_port = IF Parser!Transport(f) # NoLayer THEN f.src_port ELSE NoLayer
      /\ p.dst_port = IF Parser!Transport(f) # NoLayer THEN f.dst_port ELSE NoLayer
  BY DEF Parser!Parsed
<1>4. p.network \in {"IPv4", "IPv6"} /\ p.transport \in {"TCP", "UDP"}
  BY DEF HasKey
<1>5. NoLayer \notin {"IPv4", "IPv6", "TCP", "UDP"}
  BY PacketsAssumption DEF Parser!LayerName
<1> HIDE DEF p
<1>6. /\ p.src_ip \in Addresses /\ p.dst_ip \in Addresses
      /\ p.src_port \in Ports /\ p.dst_port \in Ports
  BY <1>2, <1>3, <1>4, <1>5
<1> QED
  BY <1>4, <1>6 DEF ExtractKey, SessionKey, Endpoint, p

LEMMA KeyReverse ==
  ASSUME NEW key \in SessionKey
  PROVE  /\ Tracker!Reverse(key) \in SessionKey
         /\ Tracker!Reverse(Tracker!Reverse(key)) = key
         /\ Tracker!Reverse(key).src = key.dst /\ Tracker!Reverse(key).dst = key.src
         /\ Tracker!Reverse(key).protocol = key.protocol
  BY DEF SessionKey, Tracker!Reverse

\* The key of the session a packet with this key belongs to.
Own(key) == IF Tracker!Tracked(key) THEN Tracker!ActualKey(key) ELSE key

LEMMA OwnKey ==
  ASSUME NEW key \in SessionKey
  PROVE  /\ Own(key) \in {key, Tracker!Reverse(key)}
         /\ Own(key) \in SessionKey /\ Own(key).protocol = key.protocol
         /\ Tracker!Tracked(key) <=> Own(key) \in DOMAIN sessions
  BY KeyReverse DEF Own, Tracker!Tracked, Tracker!ActualKey

\* The flow a segment with this key is added to.
OldFlow(key) ==
  IF Tracker!Tracked(key) THEN sessions[Own(key)].tcp_flow ELSE Tracker!NewFlow

\* What the session s that took a TCP segment has in common, whether it was created,
\* updated, or refused the segment's data.
TookSegment(s, key, flags, data) ==
  /\ s.tcp_flow = Tracker!AfterSegment(OldFlow(key), FiledAs(key, flags), flags)
  /\ Tracker!Tracked(key) => (s.syn_first <=> sessions[Own(key)].syn_first)
  /\ ~ Tracker!Tracked(key) =>
       /\ s.syn_first <=> FiledAs(key, flags) = Tracker!C2S
       /\ ~ Tracker!Rejects(Tracker!NewFlow, FiledAs(key, flags), flags, data)

\* Only the packet's own session is touched, and it is the one that is named.
Tracks(key, flags, data) ==
  /\ result' \in {Own(key), Failed}
  /\ \A k \in DOMAIN sessions' \ {Own(key)} :
       k \in DOMAIN sessions /\ sessions'[k] = sessions[k]
  /\ Own(key) \in DOMAIN sessions' =>
       \/ key.protocol = "TCP" /\ TookSegment(sessions'[Own(key)], key, flags, data)
       \/ key.protocol # "TCP" /\ sessions'[Own(key)] = Tracker!DatagramSession

LEMMA ReturnTracks ==
  ASSUME NEW all, NEW k, NEW session, Tracker!Return(k, Tracker!Put(all, k, session)),
         \A l \in DOMAIN all \ {k} : l \in DOMAIN sessions /\ all[l] = sessions[l]
  PROVE  /\ result' = k
         /\ \A l \in DOMAIN sessions' \ {k} :
              l \in DOMAIN sessions /\ sessions'[l] = sessions[l]
         /\ k \in DOMAIN sessions' => sessions'[k] = session
<1> DEFINE put == Tracker!Put(all, k, session)
<1>1. /\ DOMAIN put = DOMAIN all \cup {k} /\ put[k] = session
      /\ \A l \in DOMAIN all \ {k} : put[l] = all[l]
  BY DEF Tracker!Put
<1>2. result' = k /\ sessions' = Tracker!Cleanup(put, now')
  BY DEF Tracker!Return
<1> HIDE DEF put
<1>3. \A l \in DOMAIN sessions' : l \in DOMAIN put /\ sessions'[l] = put[l]
  BY <1>2 DEF Tracker!Cleanup
<1> QED
  BY <1>1, <1>2, <1>3

LEMMA WithoutSome ==
  ASSUME NEW old
  PROVE  \A l \in DOMAIN Tracker!Without(old) :
           l \in DOMAIN sessions /\ Tracker!Without(old)[l] = sessions[l]
  BY DEF Tracker!Without

LEMMA TrackEffect ==
  ASSUME NEW p, NEW flags, HasKey(p), ExtractKey(p) \in SessionKey, Track(p, flags)
  PROVE  Tracks(ExtractKey(p), flags, p.transport_payload # Parser!NoPayload)
<1> DEFINE key == ExtractKey(p)
           data == p.transport_payload # Parser!NoPayload
<1>1. /\ key \in SessionKey
      /\ \/ Tracker!TcpPacket(key, flags, data)
         \/ key.protocol # "TCP" /\ Tracker!DatagramPacket(key)
  BY DEF Track, HasKey, ExtractKey, Tracker!DatagramPacket
<1> SUFFICES Tracks(key, flags, data)
  OBVIOUS
<1> HIDE DEF key, data
<1>2. /\ Own(key) \in SessionKey
      /\ Tracker!Tracked(key) => Own(key) = Tracker!ActualKey(key) /\ Own(key) \in DOMAIN sessions
      /\ ~ Tracker!Tracked(key) => Own(key) = key /\ key \notin DOMAIN sessions
  BY <1>1, OwnKey DEF Own, Tracker!Tracked
<1>3. CASE key.protocol = "TCP" /\ Tracker!CreateTcpSession(key, flags, data)
  <2> DEFINE session == Tracker!FirstSession(key, flags)
  <2>1. ~ Tracker!Tracked(key)
        /\ ~ Tracker!Rejects(Tracker!NewFlow, Tracker!FirstDirection(flags), flags, data)
    BY <1>3 DEF Tracker!CreateTcpSession
  <2>2. PICK old : Tracker!Return(key, Tracker!Put(Tracker!Without(old), key, session))
    BY <1>3, Zenon DEF Tracker!CreateTcpSession
  <2>3. TookSegment(session, key, flags, data)
    BY <2>1 DEF TookSegment, FiledAs, OldFlow, Tracker!FirstSession
  <2> HIDE DEF session
  <2> QED
    BY <1>2, <1>3, <2>1, <2>2, <2>3, ReturnTracks, WithoutSome DEF Tracks
<1>4. CASE Tracker!FailCreate(key, flags)
  <2>1. ~ Tracker!Tracked(key) /\ result' = Failed
    BY <1>4 DEF Tracker!FailCreate
  <2>2. PICK old : sessions' = Tracker!Without(old)
    BY <1>4 DEF Tracker!FailCreate
  <2> QED
    BY <1>2, <2>1, <2>2, WithoutSome DEF Tracks
<1>5. CASE key.protocol = "TCP" /\ Tracker!UpdateTcpSession(key, flags, data)
  <2> DEFINE session == Tracker!UpdatedSession(key, flags)
  <2>1. Tracker!Tracked(key)
        /\ Tracker!Return(Own(key), Tracker!Put(sessions, Own(key), session))
    BY <1>2, <1>5 DEF Tracker!UpdateTcpSession
  <2>2. TookSegment(session, key, flags, data)
    BY <1>2, <2>1 DEF TookSegment, FiledAs, OldFlow, Tracker!UpdatedSession
  <2> HIDE DEF session
  <2> QED
    BY <1>2, <1>5, <2>1, <2>2, ReturnTracks DEF Tracks
<1>6. CASE key.protocol = "TCP" /\ Tracker!FailUpdate(key, flags)
  <2> DEFINE session == Tracker!UnsyncedSession(key, flags)
  <2>1. Tracker!Tracked(key) /\ result' = Failed
        /\ sessions' = Tracker!Put(sessions, Own(key), session)
    BY <1>2, <1>6 DEF Tracker!FailUpdate
  <2>2. TookSegment(session, key, flags, data)
    BY <1>2, <2>1 DEF TookSegment, FiledAs, OldFlow, Tracker!UnsyncedSession,
                      Tracker!UpdatedSession
  <2> HIDE DEF session
  <2>3. /\ sessions'[Own(key)] = session
        /\ \A k \in DOMAIN sessions' \ {Own(key)} :
             k \in DOMAIN sessions /\ sessions'[k] = sessions[k]
    BY <1>2, <2>1 DEF Tracker!Put
  <2> QED
    BY <1>6, <2>1, <2>2, <2>3 DEF Tracks
<1>7. CASE key.protocol # "TCP" /\ Tracker!CreateSession(key)
  <2>1. ~ Tracker!Tracked(key)
    BY <1>7 DEF Tracker!CreateSession
  <2>2. PICK old :
          Tracker!Return(key, Tracker!Put(Tracker!Without(old), key, Tracker!DatagramSession))
    BY <1>7, Zenon DEF Tracker!CreateSession
  <2> QED
    BY <1>2, <1>7, <2>1, <2>2, ReturnTracks, WithoutSome DEF Tracks
<1>8. CASE key.protocol # "TCP" /\ Tracker!UpdateSession(key)
  <2>1. Tracker!Tracked(key) /\ Tracker!Return(Own(key),
          Tracker!Put(sessions, Own(key), Tracker!DatagramSession))
    BY <1>2, <1>8 DEF Tracker!UpdateSession
  <2> QED
    BY <1>2, <1>8, <2>1, ReturnTracks DEF Tracks
<1> QED
  BY <1>1, <1>3, <1>4, <1>5, <1>6, <1>7, <1>8, Zenon
     DEF Tracker!TcpPacket, Tracker!DatagramPacket

\* The steps that leave the tracker's map alone.
LEMMA MapKept ==
  ASSUME InitCapture \/ SendPacket \/ SendFails \/ CaptureError \/ Skip \/ ParserPanics
           \/ EndOfPackets \/ JoinCapture \/ Tick \/ UNCHANGED vars
  PROVE  /\ UNCHANGED <<sessions, printed, filter>>
         /\ main' # "exited" => main # "exited"
  BY DEF InitCapture, SendPacket, SendFails, CaptureError, Skip, ParserPanics, Received,
         EndOfPackets, JoinCapture, Tick, Tracker!Tick, vars, mainVars, options, trackerVars

\* A packet the filter lets through, as it reaches the tracker.
LEMMA ShownTracks ==
  ASSUME NEW f \in Frames, NEW flags, HasKey(Parser!Parsed(f)),
         PrintPacket(f, flags) \/ FormatFails(f, flags)
  PROVE  LET key == ExtractKey(Parser!Parsed(f)) IN
         /\ key \in SessionKey /\ Shown(f)
         /\ Tracks(key, flags, Parser!Parsed(f).transport_payload # Parser!NoPayload)
<1>1. Shown(f) /\ Track(Parser!Parsed(f), flags)
  BY DEF PrintPacket, FormatFails
<1> QED
  BY <1>1, ParsedKey, TrackEffect

LEMMA NoKeyKeepsMap ==
  ASSUME NEW f \in Frames, NEW flags, ~ HasKey(Parser!Parsed(f)),
         PrintPacket(f, flags) \/ FormatFails(f, flags)
  PROVE  sessions' = sessions
<1>1. Track(Parser!Parsed(f), flags)
  BY DEF PrintPacket, FormatFails
<1> QED
  BY <1>1 DEF Track, Tracker!OtherPacket

--------------------------------------------------------------------------------
(***************************************************************************)
(* The session_info printed with a packet.                                 *)
(***************************************************************************)

\* The direction printed is the one in which the tracker filed the segment, in every
\* session whose first segment was its SYN.
LEMMA PrintedDirection ==
  ASSUME NEW key \in SessionKey, NEW flags, NEW data, NEW s,
         key.protocol = "TCP", TookSegment(s, key, flags, data), s.syn_first
  PROVE  key.src = Own(key).src <=> FiledAs(key, flags) = Tracker!C2S
<1>1. Tracker!C2S # Tracker!S2C
  BY DEF Tracker!C2S, Tracker!S2C
<1>2. CASE Tracker!Tracked(key)
  BY <1>1, <1>2 DEF Own, FiledAs, Tracker!Direction
<1>3. CASE ~ Tracker!Tracked(key)
  BY <1>1, <1>3 DEF Own, TookSegment
<1> QED
  BY <1>2, <1>3

LEMMA InfoStep ==
  ASSUME InfoIsOfPacket, RequestsGoToServer, [Next]_vars
  PROVE  InfoIsOfPacket' /\ RequestsGoToServer'
<1>1. CASE UNCHANGED <<sessions, printed>> /\ (main' # "exited" => main # "exited")
  BY <1>1 DEF InfoIsOfPacket, RequestsGoToServer
<1>2. CASE main' = "exited" \/ printed'.info = NoInfo
  BY <1>2 DEF InfoIsOfPacket, RequestsGoToServer
<1>3. ASSUME NEW f \in Frames, NEW flags, PrintPacket(f, flags), printed'.info # NoInfo
      PROVE  InfoIsOfPacket' /\ RequestsGoToServer'
  <2> DEFINE p == Parser!Parsed(f)
             key == ExtractKey(p)
  <2>1. HasKey(p) /\ printed' = [info |-> SessionInfo(p), key |-> key,
                                 filed |-> FiledAs(key, flags)]
    BY <1>3 DEF PrintPacket, Nothing
  <2>2. key \in SessionKey
        /\ Tracks(key, flags, p.transport_payload # Parser!NoPayload)
    BY <1>3, <2>1, ShownTracks
  <2>3. <<p.src_ip, p.src_port>> = key.src
    BY <2>1, ParsedKey
  <2> HIDE DEF p, key
  <2>4. /\ result' \in SessionKey /\ result' \in DOMAIN sessions'
        /\ printed'.info = [session |-> result', direction |-> Direction(p, result'.src)]
        /\ printed'.key = key /\ printed'.filed = FiledAs(key, flags)
    BY <1>3, <2>1 DEF SessionInfo
  <2>5. result' = Own(key)
    BY <2>2, <2>4, TrackerAssumption DEF Tracks
  <2>6. /\ printed'.info.session = Own(key)
        /\ printed'.info.direction = "request" <=> key.src = Own(key).src
    BY <2>3, <2>4, <2>5 DEF Direction
  <2>7. InfoIsOfPacket'
    BY <2>2, <2>4, <2>5, <2>6, OwnKey DEF InfoIsOfPacket
  <2>8. RequestsGoToServer'
    <3>1. ASSUME sessions'[Own(key)].syn_first
          PROVE  key.src = Own(key).src <=> FiledAs(key, flags) = Tracker!C2S
      <4>1. /\ key.protocol = "TCP"
            /\ TookSegment(sessions'[Own(key)], key, flags,
                           p.transport_payload # Parser!NoPayload)
        <5>1. ~ Tracker!DatagramSession.syn_first
          BY DEF Tracker!DatagramSession
        <5> QED
          BY <2>2, <2>4, <2>5, <3>1, <5>1 DEF Tracks
      <4> QED
        BY <2>2, <3>1, <4>1, PrintedDirection
    <3> QED
      BY <2>4, <2>6, <3>1 DEF RequestsGoToServer
  <2> QED
    BY <2>7, <2>8
<1>4. ASSUME NEW f, NEW flags, FormatFails(f, flags) PROVE main' = "exited"
  BY <1>4 DEF FormatFails
<1> QED
  BY <1>1, <1>2, <1>3, <1>4, MapKept DEF Next, Main

\* A printed session_info names the packet's own conversation, which is still tracked.
THEOREM InfoCorrect == Spec => []InfoIsOfPacket
<1>1. Init => InfoIsOfPacket /\ RequestsGoToServer
  BY DEF Init, Nothing, InfoIsOfPacket, RequestsGoToServer
<1> QED
  BY <1>1, InfoStep, PTL DEF Spec

\* What is printed as a request was filed in the client's stream.
THEOREM DirectionsAgree == Spec => []RequestsGoToServer
<1>1. Init => InfoIsOfPacket /\ RequestsGoToServer
  BY DEF Init, Nothing, InfoIsOfPacket, RequestsGoToServer
<1> QED
  BY <1>1, InfoStep, PTL DEF Spec

--------------------------------------------------------------------------------
(***************************************************************************)
(* What the filter lets the tracker see of a connection.                   *)
(***************************************************************************)
LEMMA FirstArms ==
  ASSUME NEW d, NEW flags
  PROVE  /\ \/ Tracker!UpdateState("Init", d, flags) \in {"Init", "Closed"}
            \/ d = Tracker!C2S /\ Tracker!UpdateState("Init", d, flags) = "SynSent"
         /\ \/ Tracker!UpdateState("SynSent", d, flags) \in {"SynSent", "Closed"}
            \/ d = Tracker!S2C /\ Tracker!UpdateState("SynSent", d, flags) = "SynReceived"
         /\ Tracker!UpdateState("Closed", d, flags) = "Closed"
  BY SMT DEF Tracker!UpdateState, Tracker!FromSynReceived, Tracker!FromFinWait1,
             Tracker!FromFinWait2

\* In a session that exists, the two directions are the two ends of its key.
LEMMA FiledByEnd ==
  ASSUME NEW key \in SessionKey, Tracker!Tracked(key)
  PROVE  /\ FiledAs(key, {}) = Tracker!C2S => key = Own(key)
         /\ FiledAs(key, {}) = Tracker!S2C => key = Tracker!Reverse(Own(key))
         /\ \A flags : FiledAs(key, flags) = FiledAs(key, {})
<1> DEFINE k == Own(key)
<1>1. Tracker!C2S # Tracker!S2C
  BY DEF Tracker!C2S, Tracker!S2C
<1>2. /\ k \in SessionKey
      /\ key = k \/ key = Tracker!Reverse(k)
  BY OwnKey, KeyReverse
<1>3. \A flags : FiledAs(key, flags) = IF key.src = k.src THEN Tracker!C2S ELSE Tracker!S2C
  BY DEF FiledAs, Own, Tracker!Direction
<1> HIDE DEF k
<1>4. ASSUME key.src = k.src, key = Tracker!Reverse(k) PROVE key = k
  <2>1. k.dst = k.src
    BY <1>2, <1>4, KeyReverse
  <2>2. k = [protocol |-> k.protocol, src |-> k.src, dst |-> k.dst]
    BY <1>2 DEF SessionKey
  <2> QED
    BY <1>4, <2>1, <2>2 DEF Tracker!Reverse
<1> QED
  BY <1>1, <1>2, <1>3, <1>4 DEF k

\* A flow past Init is one the client's packets got to, past SynSent the server's too.
SidesSeen(k, state) ==
  /\ state \notin {"Init", "Closed"} => Passes(k)
  /\ state \notin {"Init", "SynSent", "Closed"} => Passes(Tracker!Reverse(k))

AllSidesSeen ==
  /\ DOMAIN sessions \subseteq SessionKey
  /\ \A k \in DOMAIN sessions : SidesSeen(k, sessions[k].tcp_flow.state)

LEMMA SidesStep ==
  ASSUME AllSidesSeen, NEW f \in Frames, NEW flags, HasKey(Parser!Parsed(f)),
         PrintPacket(f, flags) \/ FormatFails(f, flags)
  PROVE  LET k == Own(ExtractKey(Parser!Parsed(f))) IN
         k \in DOMAIN sessions' => SidesSeen(k, sessions'[k].tcp_flow.state)
<1> DEFINE key == ExtractKey(Parser!Parsed(f))
           data == Parser!Parsed(f).transport_payload # Parser!NoPayload
           k == Own(key)
           dir == FiledAs(key, flags)
           old == OldFlow(key).state
<1>1. key \in SessionKey /\ Passes(key) /\ Tracks(key, flags, data)
  BY ShownTracks DEF Passes
<1>2. k \in {key, Tracker!Reverse(key)}
  BY <1>1, OwnKey
<1> SUFFICES ASSUME k \in DOMAIN sessions' PROVE SidesSeen(k, sessions'[k].tcp_flow.state)
  OBVIOUS
<1> HIDE DEF key, data
<1>3. CASE key.protocol # "TCP" /\ sessions'[k] = Tracker!DatagramSession
  <2>1. sessions'[k].tcp_flow.state = "Init"
    BY <1>3 DEF Tracker!DatagramSession, Tracker!NewFlow
  <2> QED
    BY <2>1 DEF SidesSeen
<1>4. CASE TookSegment(sessions'[k], key, flags, data)
  <2>1. sessions'[k].tcp_flow.state = Tracker!UpdateState(old, dir, flags)
    BY <1>4 DEF TookSegment, Tracker!AfterSegment
  <2>2. SidesSeen(k, old)
    BY <1>1, OwnKey DEF AllSidesSeen, OldFlow, SidesSeen, Tracker!NewFlow
  <2>3. ~ Tracker!Tracked(key) => old = "Init" /\ k = key
    BY DEF OldFlow, Own, Tracker!NewFlow
  <2>4. /\ dir = Tracker!C2S => Passes(k)
        /\ dir = Tracker!S2C /\ Tracker!Tracked(key) => Passes(Tracker!Reverse(k))
    <3>1. CASE Tracker!Tracked(key)
      BY <1>1, <3>1, FiledByEnd
    <3>2. CASE ~ Tracker!Tracked(key)
      BY <1>1, <2>3, <3>2
    <3> QED
      BY <3>1, <3>2
  <2> HIDE DEF k, dir, old
  <2>5. CASE old = "Init"
    BY <2>1, <2>4, <2>5, FirstArms DEF SidesSeen
  <2>6. CASE old = "SynSent"
    BY <2>1, <2>2, <2>3, <2>4, <2>6, FirstArms DEF SidesSeen
  <2>7. CASE old = "Closed"
    BY <2>1, <2>7, FirstArms DEF SidesSeen
  <2>8. CASE old \notin {"Init", "SynSent", "Closed"}
    BY <2>2, <2>8 DEF SidesSeen
  <2> QED
    BY <2>5, <2>6, <2>7, <2>8
<1> QED
  BY <1>1, <1>3, <1>4 DEF Tracks

\* No handshake completes behind a filter that hides one of its sides.
THEOREM BothSidesNeeded == Spec => []EstablishedNeedsBothSides
<1>1. Init => AllSidesSeen
  BY DEF Init, Tracker!Init, AllSidesSeen
<1>2. AllSidesSeen /\ [Next]_vars => AllSidesSeen'
  <2> SUFFICES ASSUME AllSidesSeen, [Next]_vars PROVE AllSidesSeen'
    OBVIOUS
  <2>1. filter' = filter => \A k : Passes(k)' <=> Passes(k)
    BY DEF Passes, Shown
  <2>2. CASE UNCHANGED <<sessions, filter>>
    BY <2>1, <2>2 DEF AllSidesSeen, SidesSeen
  <2>3. ASSUME NEW f \in Frames, NEW flags, PrintPacket(f, flags) \/ FormatFails(f, flags)
        PROVE  AllSidesSeen'
    <3> DEFINE k == Own(ExtractKey(Parser!Parsed(f)))
    <3>1. filter' = filter
      BY <2>3 DEF PrintPacket, FormatFails, options
    <3>2. CASE ~ HasKey(Parser!Parsed(f))
      BY <2>2, <2>3, <3>1, <3>2, NoKeyKeepsMap
    <3>3. CASE HasKey(Parser!Parsed(f))
      <4>1. k \in DOMAIN sessions' => SidesSeen(k, sessions'[k].tcp_flow.state)
        BY <2>3, <3>3, SidesStep
      <4>2. /\ k \in SessionKey
            /\ \A l \in DOMAIN sessions' \ {k} :
                 l \in DOMAIN sessions /\ sessions'[l] = sessions[l]
        BY <2>3, <3>3, ShownTracks, OwnKey DEF Tracks
      <4> HIDE DEF k
      <4>3. DOMAIN sessions' \subseteq SessionKey
        BY <4>2 DEF AllSidesSeen
      <4>4. \A l \in DOMAIN sessions' : SidesSeen(l, sessions'[l].tcp_flow.state)
        BY <4>1, <4>2 DEF AllSidesSeen
      <4> QED
        BY <2>1, <3>1, <4>3, <4>4 DEF AllSidesSeen, SidesSeen
    <3> QED
      BY <3>2, <3>3
  <2> QED
    BY <2>2, <2>3, MapKept DEF Next, Main
<1>3. AllSidesSeen => EstablishedNeedsBothSides
  BY DEF AllSidesSeen, SidesSeen, EstablishedNeedsBothSides
<1> QED
  BY <1>1, <1>2, <1>3, PTL DEF Spec

--------------------------------------------------------------------------------
(***************************************************************************)
(* The tracker's map stays well typed.                                     *)
(***************************************************************************)
LEMMA FlowTyped ==
  ASSUME NEW flow \in Tracker!FlowSummaries, NEW d \in Tracker!Dirs, NEW flags
  PROVE  /\ Tracker!AfterSegment(flow, d, flags) \in Tracker!FlowSummaries
         /\ Tracker!AfterSegment(flow, d, flags).synced
              = [flow.synced EXCEPT ![d] = @ \/ "SYN" \in flags]
<1>1. flow.state \in Tracker!TcpState /\ flow.synced \in [Tracker!Dirs -> BOOLEAN]
  BY DEF Tracker!FlowSummaries
<1>2. Tracker!UpdateState(flow.state, d, flags) \in Tracker!TcpState
  BY <1>1, SMT DEF Tracker!UpdateState, Tracker!FromSynReceived, Tracker!FromFinWait1,
                   Tracker!FromFinWait2, Tracker!TcpState
<1>3. [flow.synced EXCEPT ![d] = @ \/ "SYN" \in flags] \in [Tracker!Dirs -> BOOLEAN]
  BY <1>1
<1> QED
  BY <1>2, <1>3 DEF Tracker!AfterSegment, Tracker!FlowSummaries

LEMMA NewFlowTyped == Tracker!NewFlow \in Tracker!FlowSummaries
  BY DEF Tracker!NewFlow, Tracker!FlowSummaries, Tracker!TcpState

LEMMA FiledTyped ==
  ASSUME NEW senders \in [Tracker!Dirs -> SUBSET Endpoint], NEW d \in Tracker!Dirs,
         NEW e \in Endpoint
  PROVE  Tracker!Filed(senders, d, e) \in [Tracker!Dirs -> SUBSET Endpoint]
  BY DEF Tracker!Filed

LEMMA NoSendersTyped == Tracker!NoSenders \in [Tracker!Dirs -> SUBSET Endpoint]
  BY DEF Tracker!NoSenders

MapTyped(all) ==
  DOMAIN all \subseteq SessionKey /\ \A k \in DOMAIN all : all[k] \in Tracker!Session

LEMMA FirstSessionTyped ==
  ASSUME NEW key \in SessionKey, NEW flags, now \in Int
  PROVE  Tracker!FirstSession(key, flags) \in Tracker!Session
<1> DEFINE dir == Tracker!FirstDirection(flags)
           flow == Tracker!AfterSegment(Tracker!NewFlow, dir, flags)
           senders == Tracker!Filed(Tracker!NoSenders, dir, key.src)
<1>1. dir \in Tracker!Dirs /\ key.src \in Endpoint
  BY DEF Tracker!FirstDirection, Tracker!Dirs, SessionKey
<1>2. flow \in Tracker!FlowSummaries
  BY <1>1, NewFlowTyped, FlowTyped
<1>3. senders \in [Tracker!Dirs -> SUBSET Endpoint]
  BY <1>1, NoSendersTyped, FiledTyped
<1>4. Tracker!FirstSession(key, flags)
        = [state |-> "New", last_activity |-> now, tcp_flow |-> flow,
           senders |-> senders, syn_first |-> dir = Tracker!C2S]
  BY DEF Tracker!FirstSession
<1> HIDE DEF flow, senders
<1> QED
  BY <1>2, <1>3, <1>4 DEF Tracker!Session, Tracker!SessionState

LEMMA DatagramSessionTyped ==
  ASSUME now \in Int
  PROVE  Tracker!DatagramSession \in Tracker!Session
  BY NewFlowTyped, NoSendersTyped
     DEF Tracker!DatagramSession, Tracker!Session, Tracker!SessionState

\* A session after a segment, whether its state was synchronised or not.
LEMMA UpdatedSessionTyped ==
  ASSUME NEW key \in SessionKey, NEW flags, now \in Int, MapTyped(sessions),
         Tracker!Tracked(key)
  PROVE  /\ Tracker!UpdatedSession(key, flags) \in Tracker!Session
         /\ Tracker!UnsyncedSession(key, flags) \in Tracker!Session
<1> DEFINE k == Tracker!ActualKey(key)
           old == sessions[k]
           dir == Tracker!Direction(k, key)
           flow == Tracker!AfterSegment(old.tcp_flow, dir, flags)
           senders == Tracker!Filed(old.senders, dir, key.src)
           state == Tracker!SyncState(old.state, flow.state)
<1>1. old \in Tracker!Session
  BY OwnKey DEF MapTyped, Own
<1>2. dir \in Tracker!Dirs /\ key.src \in Endpoint
  BY DEF Tracker!Direction, Tracker!Dirs, SessionKey
<1> HIDE DEF k, old, dir
<1>3. /\ old.state \in Tracker!SessionState /\ old.tcp_flow \in Tracker!FlowSummaries
      /\ old.senders \in [Tracker!Dirs -> SUBSET Endpoint] /\ old.syn_first \in BOOLEAN
  BY <1>1 DEF Tracker!Session
<1>4. flow \in Tracker!FlowSummaries
  BY <1>2, <1>3, FlowTyped
<1>5. senders \in [Tracker!Dirs -> SUBSET Endpoint]
  BY <1>2, <1>3, FiledTyped
<1>6. state \in Tracker!SessionState
  BY <1>3 DEF Tracker!SyncState, Tracker!SessionState
<1>7. /\ Tracker!UpdatedSession(key, flags)
           = [state |-> state, last_activity |-> now, tcp_flow |-> flow,
              senders |-> senders, syn_first |-> old.syn_first]
      /\ Tracker!UnsyncedSession(key, flags)
           = [state |-> old.state, last_activity |-> now, tcp_flow |-> flow,
              senders |-> old.senders, syn_first |-> old.syn_first]
  BY DEF Tracker!UpdatedSession, Tracker!UnsyncedSession, k, old, dir
<1> HIDE DEF flow, senders, state
<1> QED
  BY <1>3, <1>4, <1>5, <1>6, <1>7 DEF Tracker!Session

LEMMA PutTyped ==
  ASSUME NEW all, MapTyped(all), NEW k \in SessionKey, NEW session \in Tracker!Session
  PROVE  MapTyped(Tracker!Put(all, k, session))
  BY DEF MapTyped, Tracker!Put

LEMMA WithoutTyped ==
  ASSUME MapTyped(sessions), NEW old
  PROVE  MapTyped(Tracker!Without(old))
  BY DEF MapTyped, Tracker!Without

LEMMA ReadingsTyped == now \in 0 .. MaxTime => Tracker!Readings \subseteq 0 .. MaxTime
  BY TrackerAssumption DEF Tracker!Readings

LEMMA ReturnTyped ==
  ASSUME NEW all, MapTyped(all), NEW k \in SessionKey, now \in 0 .. MaxTime,
         Tracker!Return(k, all)
  PROVE  MapTyped(sessions') /\ now' \in 0 .. MaxTime /\ result' \in SessionKey
<1>1. MapTyped(Tracker!Cleanup(all, now'))
  BY DEF MapTyped, Tracker!Cleanup
<1> QED
  BY <1>1, ReadingsTyped DEF Tracker!Return

TrackerTyped ==
  /\ MapTyped(sessions)
  /\ session_counter \in 0 .. MaxCreated
  /\ now \in 0 .. MaxTime
  /\ result \in SessionKey \cup {NoSession, Failed}

LEMMA TrackTyped ==
  ASSUME TrackerTyped, NEW p, NEW flags,
         HasKey(p) => ExtractKey(p) \in SessionKey, Track(p, flags)
  PROVE  TrackerTyped'
<1> DEFINE key == ExtractKey(p)
           data == p.transport_payload # Parser!NoPayload
<1>0. /\ MapTyped(sessions) /\ now \in 0 .. MaxTime /\ now \in Int
      /\ session_counter \in 0 .. MaxCreated
  BY TrackerAssumption DEF TrackerTyped
<1>a. MapTyped(sessions)' <=> MapTyped(sessions')
  BY DEF MapTyped, Tracker!Session, Tracker!SessionState
<1>b. ASSUME NEW all, MapTyped(all), NEW k \in SessionKey, Tracker!Return(k, all),
             session_counter' \in 0 .. MaxCreated
      PROVE  TrackerTyped'
  BY <1>0, <1>a, <1>b, ReturnTyped DEF TrackerTyped
<1>c. ASSUME NEW all, MapTyped(all), sessions' = all, UNCHANGED <<session_counter, now>>,
             result' \in SessionKey \cup {NoSession, Failed}
      PROVE  TrackerTyped'
  BY <1>0, <1>a, <1>c DEF TrackerTyped
<1>1. CASE ~ HasKey(p)
  BY <1>0, <1>1, <1>c DEF Track, Tracker!OtherPacket
<1>2. CASE HasKey(p)
  <2>1. /\ key \in SessionKey
        /\ Tracker!TcpPacket(key, flags, data) \/ Tracker!DatagramPacket(key)
    BY <1>2 DEF Track
  <2> HIDE DEF key, data
  <2>2. Tracker!Tracked(key) => Tracker!ActualKey(key) \in SessionKey
    BY <2>1, OwnKey DEF Own
  <2>3. CASE Tracker!CreateTcpSession(key, flags, data)
    <3>1. PICK old : Tracker!Return(key,
            Tracker!Put(Tracker!Without(old), key, Tracker!FirstSession(key, flags)))
      BY <2>3, Zenon DEF Tracker!CreateTcpSession
    <3>2. session_counter' \in 0 .. MaxCreated
      BY <1>0, <2>3, TrackerAssumption DEF Tracker!CreateTcpSession
    <3>3. MapTyped(Tracker!Put(Tracker!Without(old), key, Tracker!FirstSession(key, flags)))
      BY <1>0, <2>1, FirstSessionTyped, WithoutTyped, PutTyped
    <3> QED
      BY <1>b, <2>1, <3>1, <3>2, <3>3
  <2>4. CASE Tracker!FailCreate(key, flags)
    <3>1. PICK old : sessions' = Tracker!Without(old)
      BY <2>4 DEF Tracker!FailCreate
    <3> QED
      BY <1>0, <1>c, <2>4, <3>1, WithoutTyped DEF Tracker!FailCreate
  <2>5. CASE Tracker!UpdateTcpSession(key, flags, data)
    <3>1. MapTyped(Tracker!Put(sessions, Tracker!ActualKey(key),
                               Tracker!UpdatedSession(key, flags)))
      BY <1>0, <2>1, <2>2, <2>5, UpdatedSessionTyped, PutTyped DEF Tracker!UpdateTcpSession
    <3> QED
      BY <1>0, <1>b, <2>2, <2>5, <3>1 DEF Tracker!UpdateTcpSession
  <2>6. CASE Tracker!FailUpdate(key, flags)
    <3>1. MapTyped(Tracker!Put(sessions, Tracker!ActualKey(key),
                               Tracker!UnsyncedSession(key, flags)))
      BY <1>0, <2>1, <2>2, <2>6, UpdatedSessionTyped, PutTyped DEF Tracker!FailUpdate
    <3> QED
      BY <1>c, <2>6, <3>1 DEF Tracker!FailUpdate
  <2>7. CASE Tracker!CreateSession(key)
    <3>1. PICK old : Tracker!Return(key,
            Tracker!Put(Tracker!Without(old), key, Tracker!DatagramSession))
      BY <2>7, Zenon DEF Tracker!CreateSession
    <3>2. session_counter' \in 0 .. MaxCreated
      BY <1>0, <2>7, TrackerAssumption DEF Tracker!CreateSession
    <3>3. MapTyped(Tracker!Put(Tracker!Without(old), key, Tracker!DatagramSession))
      BY <1>0, <2>1, DatagramSessionTyped, WithoutTyped, PutTyped
    <3> QED
      BY <1>b, <2>1, <3>1, <3>2, <3>3
  <2>8. CASE Tracker!UpdateSession(key)
    <3>1. MapTyped(Tracker!Put(sessions, Tracker!ActualKey(key), Tracker!DatagramSession))
      BY <1>0, <2>1, <2>2, <2>8, DatagramSessionTyped, PutTyped DEF Tracker!UpdateSession
    <3> QED
      BY <1>0, <1>b, <2>2, <2>8, <3>1 DEF Tracker!UpdateSession
  <2> QED
    BY <2>1, <2>3, <2>4, <2>5, <2>6, <2>7, <2>8, Zenon
       DEF Tracker!TcpPacket, Tracker!DatagramPacket
<1> QED
  BY <1>1, <1>2

OptionsTyped ==
  /\ filter \in Filters /\ count \in Counts
  /\ capture \in {"init", "running", "done"}

PrintedTyped ==
  printed \in {Nothing}
    \cup [info  : {NoInfo}
                    \cup [session : SessionKey, direction : {"request", "response"}],
          key   : SessionKey,
          filed : Tracker!Dirs]

TypeInv == CountsInv /\ TrackerTyped /\ OptionsTyped /\ PrintedTyped

LEMMA PrintedStep ==
  ASSUME PrintedTyped, NEW f \in Frames, NEW flags, PrintPacket(f, flags)
  PROVE  PrintedTyped'
<1> DEFINE p == Parser!Parsed(f)
           key == ExtractKey(p)
<1>1. CASE ~ HasKey(p)
  BY <1>1 DEF PrintPacket, PrintedTyped, Nothing
<1>2. CASE HasKey(p)
  <2>1. printed' = [info |-> SessionInfo(p), key |-> key, filed |-> FiledAs(key, flags)]
    BY <1>2 DEF PrintPacket
  <2>2. key \in SessionKey
    BY <1>2, ParsedKey
  <2>3. FiledAs(key, flags) \in Tracker!Dirs
    BY DEF FiledAs, Tracker!Direction, Tracker!FirstDirection, Tracker!Dirs
  <2>4. SessionInfo(p) \in {NoInfo}
          \cup [session : SessionKey, direction : {"request", "response"}]
    BY DEF SessionInfo, Direction
  <2> HIDE DEF p, key
  <2> QED
    BY <2>1, <2>2, <2>3, <2>4 DEF PrintedTyped
<1> QED
  BY <1>1, <1>2

LEMMA TypeInvariant == Spec => []TypeInv
<1>1. Init => TrackerTyped /\ OptionsTyped /\ PrintedTyped
  BY TrackerAssumption
     DEF Init, Tracker!Init, TrackerTyped, MapTyped, OptionsTyped, PrintedTyped
<1>2. TrackerTyped /\ OptionsTyped /\ PrintedTyped /\ [Next]_vars
        => (TrackerTyped /\ OptionsTyped /\ PrintedTyped)'
  <2> SUFFICES ASSUME TrackerTyped, OptionsTyped, PrintedTyped, [Next]_vars
               PROVE  (TrackerTyped /\ OptionsTyped /\ PrintedTyped)'
    OBVIOUS
  <2>1. ASSUME sessions' = sessions, session_counter' = session_counter,
               now' \in 0 .. MaxTime, result' \in SessionKey \cup {NoSession, Failed}
        PROVE  TrackerTyped'
    BY <2>1 DEF TrackerTyped, MapTyped
  <2>2. CASE /\ UNCHANGED <<options, printed, trackerVars>>
             /\ capture' \in {"running", "done", capture}
    BY <2>1, <2>2 DEF TrackerTyped, OptionsTyped, PrintedTyped, options, trackerVars
  <2>3. CASE InitCapture \/ SendPacket \/ SendFails \/ CaptureError \/ Skip \/ ParserPanics
    BY <2>2, <2>3 DEF InitCapture, SendPacket, SendFails, CaptureError, Skip, ParserPanics,
                      mainVars
  <2>4. CASE EndOfPackets \/ JoinCapture \/ UNCHANGED vars
    BY <2>2, <2>4 DEF EndOfPackets, JoinCapture, captureVars, mainVars, vars
  <2>5. CASE Tick
    <3>1. TrackerTyped'
      BY <2>1, <2>5, ReadingsTyped DEF Tick, Tracker!Tick, TrackerTyped
    <3> QED
      BY <2>5, <3>1 DEF Tick, OptionsTyped, PrintedTyped, mainVars, options, captureVars
  <2>6. ASSUME NEW f \in Frames, NEW flags, PrintPacket(f, flags) \/ FormatFails(f, flags)
        PROVE  (TrackerTyped /\ OptionsTyped /\ PrintedTyped)'
    <3>1. Track(Parser!Parsed(f), flags)
      BY <2>6 DEF PrintPacket, FormatFails
    <3>2. TrackerTyped'
      BY <3>1, ParsedKey, TrackTyped
    <3>3. OptionsTyped'
      BY <2>6 DEF PrintPacket, FormatFails, OptionsTyped, options
    <3>4. PrintedTyped'
      BY <2>6, PrintedStep DEF FormatFails, PrintedTyped
    <3> QED
      BY <3>2, <3>3, <3>4
  <2> QED
    BY <2>3, <2>4, <2>5, <2>6 DEF Next, Main
<1> QED
  BY <1>1, <1>2, CountsInvariant, PTL DEF Spec, TypeInv

\* The pipeline is well typed, the tracker in it included, for every set of packets.
THEOREM TypeCorrect == Spec => []TypeOK
<1>1. TypeInv => TypeOK
  <2> SUFFICES ASSUME TypeInv PROVE TypeOK
    OBVIOUS
  <2>1. Tracker!TypeOK
    BY DEF TypeInv, TrackerTyped, MapTyped, Tracker!TypeOK
  <2>2. channel \in 0 .. MaxPackets /\ packet_count \in 0 .. MaxPackets
    BY BoundsAssumption DEF TypeInv, CountsInv
  <2> QED
    BY <2>1, <2>2 DEF TypeInv, CountsInv, OptionsTyped, PrintedTyped, TypeOK
<1> QED
  BY <1>1, TypeInvariant, PTL

--------------------------------------------------------------------------------
(***************************************************************************)
(* Sessions behind a filter for an application protocol.                   *)
(***************************************************************************)
LEMMA ShownHasData ==
  ASSUME NEW f, Shown(f), ApplicationFilter
  PROVE  Parser!Parsed(f).transport_payload # Parser!NoPayload
<1>1. NoLayer \notin {"HTTP", "TLS", "DNS", "FTP"}
  BY PacketsAssumption DEF Parser!LayerName
<1>2. filter.protocol # NoOption
  BY PacketsAssumption DEF ApplicationFilter, Parser!ProtocolName
<1>3. Parser!MatchesProtocol(Parser!Parsed(f), filter.protocol)
  BY <1>2 DEF Shown, Parser!Matches
<1>4. Parser!Parsed(f).application \in {"HTTP", "TLS", "DNS", "FTP"}
  BY <1>3 DEF Parser!MatchesProtocol, ApplicationFilter
<1>5. Parser!Application(f) # NoLayer
  BY <1>1, <1>4 DEF Parser!Parsed
<1>6. Parser!Payload(f) # Parser!NoPayload
  BY <1>5 DEF Parser!Application, Parser!Asked
<1> QED
  BY <1>6 DEF Parser!Parsed

\* A flow that has a SYN keeps it, and a segment with data does not start one without.
LEMMA TookSynced ==
  ASSUME MapTyped(sessions), NEW key \in SessionKey, NEW flags, NEW s,
         TookSegment(s, key, flags, TRUE),
         Tracker!Tracked(key) =>
           \E d \in Tracker!Dirs : sessions[Own(key)].tcp_flow.synced[d]
  PROVE  \E d \in Tracker!Dirs : s.tcp_flow.synced[d]
<1> DEFINE dir == FiledAs(key, flags)
           old == OldFlow(key)
<1>1. dir \in Tracker!Dirs
  BY DEF FiledAs, Tracker!Direction, Tracker!FirstDirection, Tracker!Dirs
<1>2. old \in Tracker!FlowSummaries
  BY OwnKey, NewFlowTyped DEF OldFlow, MapTyped, Tracker!Session
<1>3. /\ s.tcp_flow = Tracker!AfterSegment(old, dir, flags)
      /\ ~ Tracker!Tracked(key) => "SYN" \in flags \/ old.synced[dir]
  BY DEF TookSegment, OldFlow, Tracker!Rejects
<1>4. Tracker!Tracked(key) => \E d \in Tracker!Dirs : old.synced[d]
  BY DEF OldFlow
<1> HIDE DEF dir, old
<1>5. s.tcp_flow.synced = [old.synced EXCEPT ![dir] = @ \/ "SYN" \in flags]
  BY <1>1, <1>2, <1>3, FlowTyped
<1>6. old.synced \in [Tracker!Dirs -> BOOLEAN]
  BY <1>2 DEF Tracker!FlowSummaries
<1> QED
  BY <1>1, <1>3, <1>4, <1>5, <1>6

\* A filter for an application protocol tracks only connections whose SYN had data.
THEOREM SynNeeded == Spec => []SessionsNeedSyn
<1>1. Init => SessionsNeedSyn
  BY DEF Init, Tracker!Init, SessionsNeedSyn
<1>2. TypeInv /\ SessionsNeedSyn /\ [Next]_vars => SessionsNeedSyn'
  <2> SUFFICES ASSUME TypeInv, SessionsNeedSyn, [Next]_vars PROVE SessionsNeedSyn'
    OBVIOUS
  <2>1. CASE UNCHANGED <<sessions, filter>>
    BY <2>1 DEF SessionsNeedSyn, ApplicationFilter
  <2>2. ASSUME NEW f \in Frames, NEW flags, PrintPacket(f, flags) \/ FormatFails(f, flags)
        PROVE  SessionsNeedSyn'
    <3> DEFINE p == Parser!Parsed(f)
               key == ExtractKey(p)
               k == Own(key)
               data == p.transport_payload # Parser!NoPayload
    <3>1. filter' = filter
      BY <2>2 DEF PrintPacket, FormatFails, options
    <3>2. CASE ~ HasKey(p)
      BY <2>1, <2>2, <3>1, <3>2, NoKeyKeepsMap
    <3>3. CASE HasKey(p)
      <4> SUFFICES ASSUME ApplicationFilter, NEW l \in DOMAIN sessions', l.protocol = "TCP"
                   PROVE  \E d \in Tracker!Dirs : sessions'[l].tcp_flow.synced[d]
        BY <3>1 DEF SessionsNeedSyn, ApplicationFilter
      <4>1. key \in SessionKey /\ Shown(f) /\ Tracks(key, flags, data)
        BY <2>2, <3>3, ShownTracks
      <4>2. data = TRUE
        BY <4>1, ShownHasData
      <4>3. k.protocol = key.protocol /\ (Tracker!Tracked(key) <=> k \in DOMAIN sessions)
        BY <4>1, OwnKey
      <4> HIDE DEF p, key, k, data
      <4>4. CASE l # k
        BY <4>1, <4>4 DEF Tracks, SessionsNeedSyn, k
      <4>5. CASE l = k
        <5>1. key.protocol = "TCP" /\ TookSegment(sessions'[k], key, flags, TRUE)
          BY <4>1, <4>2, <4>3, <4>5 DEF Tracks, k
        <5>2. Tracker!Tracked(key) =>
                \E d \in Tracker!Dirs : sessions[Own(key)].tcp_flow.synced[d]
          BY <4>3, <5>1 DEF SessionsNeedSyn, k
        <5>3. MapTyped(sessions)
          BY DEF TypeInv, TrackerTyped
        <5> QED
          BY <4>1, <4>5, <5>1, <5>2, <5>3, TookSynced
      <4> QED
        BY <4>4, <4>5
    <3> QED
      BY <3>2, <3>3
  <2> QED
    BY <2>1, <2>2, MapKept DEF Next, Main
<1> QED
  BY <1>1, <1>2, TypeInvariant, PTL DEF Spec

\* The session_info printed is right in its id and in its direction.
THEOREM InfoRight == Spec => []InfoIsRight
  BY InfoCorrect, DirectionsAgree, PTL DEF InfoIsRight

\* The tracker follows what the filter shows it, and no more.
THEOREM TrackedShown == Spec => []TrackedIsShown
  BY BothSidesNeeded, SynNeeded, PTL DEF TrackedIsShown

\* The main loop ends neither after more packets than --count asks for nor before
\* the channel is drained.
THEOREM EndsOnTime == Spec => []LoopEndsOnTime
  BY CountRespected, ChannelDrained, PTL DEF LoopEndsOnTime


--------------------------------------------------------------------------------
(***************************************************************************)
(* The tracker in the pipeline.                                            *)
(***************************************************************************)

\* What the main loop makes of a packet is a call of process_packet.
LEMMA TrackIsCall ==
  ASSUME NEW f \in Frames, NEW flags \in FlagsOf(f), Track(Parser!Parsed(f), flags)
  PROVE  Tracker!Next
<1> DEFINE p == Parser!Parsed(f)
           key == ExtractKey(p)
           data == p.transport_payload # Parser!NoPayload
<1>1. CASE ~ HasKey(p)
  BY <1>1 DEF Track, Tracker!Next
<1>2. CASE HasKey(p)
  <2>1. key \in SessionKey /\ data \in BOOLEAN
    BY <1>2, ParsedKey
  <2>2. CASE p.transport = "TCP"
    <3>1. Tracker!TcpPacket(key, flags, data)
      BY <1>2, <2>2 DEF Track
    <3>2. flags \in SegmentFlags
      <4>1. p.transport = Parser!Transport(f)
        BY DEF Parser!Parsed
      <4>2. f.protocol = "TCP"
        BY <2>2, <4>1, PacketsAssumption DEF Parser!Transport, Parser!LayerName
      <4> QED BY <4>2 DEF FlagsOf
    <3> HIDE DEF p, key, data
    <3> QED BY <2>1, <3>1, <3>2 DEF Tracker!Next
  <2>3. CASE p.transport # "TCP"
    <3>1. Tracker!DatagramPacket(key)
      BY <1>2, <2>3 DEF Track
    <3> HIDE DEF p, key, data
    <3> QED BY <2>1, <3>1 DEF Tracker!Next
  <2> QED BY <2>2, <2>3
<1> QED BY <1>1, <1>2

LEMMA StepIsCallOrStutter == [Next]_vars => [Tracker!Next]_(Tracker!vars)
<1> SUFFICES ASSUME [Next]_vars PROVE [Tracker!Next]_(Tracker!vars)
  OBVIOUS
<1>1. CASE InitCapture \/ SendPacket \/ SendFails \/ CaptureError \/ Skip \/ ParserPanics
  BY <1>1 DEF InitCapture, SendPacket, SendFails, CaptureError, Skip, ParserPanics,
              trackerVars, Tracker!vars
<1>2. CASE EndOfPackets \/ JoinCapture \/ UNCHANGED vars
  BY <1>2 DEF EndOfPackets, JoinCapture, vars, trackerVars, Tracker!vars
<1>3. CASE Tick
  BY <1>3 DEF Tick, Tracker!Next
<1>4. ASSUME NEW f \in Frames, NEW flags \in FlagsOf(f), PrintPacket(f, flags) \/ FormatFails(f, flags)
      PROVE  Tracker!Next
  <2>1. Track(Parser!Parsed(f), flags)
    BY <1>4 DEF PrintPacket, FormatFails
  <2> QED BY <2>1, TrackIsCall
<1> QED BY <1>1, <1>2, <1>3, <1>4 DEF Next, Main

\* Whatever the capture, the filter and the count are, the pipeline calls its tracker
\* as SessionTracker is called: each of its steps is a call of process_packet, a
\* change of the clock, or leaves the tracker alone.
THEOREM PipelineIsTracker == Spec => Tracker!Spec
<1>1. Init => Tracker!Init
  BY DEF Init
<1> QED BY <1>1, StepIsCallOrStutter, PTL DEF Spec, Tracker!Spec
================================================================================
