----------------------------- MODULE SessionTracker -----------------------------
(***************************************************************************)
(* SessionTracker of src/session/tracker.rs with the Session and           *)
(* SessionKey of src/session/mod.rs: one action per outcome of             *)
(* process_packet, each including the cleanup that ends a successful call, *)
(* and the system clock the tracker reads.                                 *)
(*                                                                         *)
(* A session stores the summary of its TcpFlow (module FlowSummary, which  *)
(* TcpFlow implements).  The counters packet_count and total_bytes are     *)
(* left out: nothing in the tracker reads them.                            *)
(***************************************************************************)
EXTENDS Integers, FiniteSets, TcpStates

CONSTANTS
  Endpoints,      \* IP address and port (for ICMP: the address alone)
  Keys,           \* the SessionKeys packets can have
  SegmentFlags,   \* the sets of flags TCP segments can carry
  TcpTimeout, UdpTimeout, IcmpTimeout, MaxSessions,   \* TrackerConfig
  Divisor,        \* force_cleanup removes 1/Divisor of the sessions: 10
  ClockStepsBack, \* may SystemTime::now() return less than before?
  NoSession, Failed,   \* process_packet returned Ok(None), Err(_)
  MaxTime,        \* bound: last clock reading
  MaxCreated      \* bound: number of sessions created

Protocol == {"TCP", "UDP", "ICMP"}

ASSUME KeysAssumption ==
  /\ Keys \subseteq [protocol : Protocol, src : Endpoints, dst : Endpoints]
  /\ \A k \in Keys : [protocol |-> k.protocol, src |-> k.dst, dst |-> k.src] \in Keys
ASSUME KeysFinite == IsFiniteSet(Keys)
ASSUME FlagsAssumption == SegmentFlags \subseteq SUBSET Flags
ASSUME ConfigAssumption ==
  /\ TcpTimeout \in Nat /\ UdpTimeout \in Nat /\ IcmpTimeout \in Nat
  /\ MaxSessions \in Nat
  /\ Divisor \in Nat \ {0}
ASSUME ResultAssumption == NoSession \notin Keys /\ Failed \notin Keys
ASSUME BoundsAssumption ==
  /\ ClockStepsBack \in BOOLEAN
  /\ MaxTime \in Nat /\ MaxCreated \in Nat

VARIABLES
  sessions,         \* HashMap<SessionKey, Session>
  session_counter,
  now,              \* what SystemTime::now() returns
  result            \* what the last call of process_packet returned: Ok(None),
                    \* Err(_), or the SessionKey the id in Ok(Some(id)) names

vars == <<sessions, session_counter, now, result>>

SessionState == {"New", "Established", "Closing", "Closed"}

\* A session without tcp_flow (UDP, ICMP) holds an unused NewFlow.
\* senders and syn_first are history: whose segments went in which direction, and
\* whether the first segment opened the connection.
Session == [state         : SessionState,
            last_activity : Int,
            tcp_flow      : FlowSummaries,
            senders       : [Dirs -> SUBSET Endpoints],
            syn_first     : BOOLEAN]

Init ==
  /\ sessions = [k \in {} |-> 0]
  /\ session_counter = 0
  /\ now = 0
  /\ result = NoSession

--------------------------------------------------------------------------------
\* Mutants, named <definition>_<slip>, stand before the definition they alter.
Reverse(key) == [protocol |-> key.protocol, src |-> key.dst, dst |-> key.src]

Tracked_OneWay(key) == key \in DOMAIN sessions

\* session_exists, and the key find_session and update_session_by_key settle on.
Tracked(key) == key \in DOMAIN sessions \/ Reverse(key) \in DOMAIN sessions
ActualKey(key) == IF key \in DOMAIN sessions THEN key ELSE Reverse(key)

Direction_WrongEnd(k, key) == IF key.src = k.dst THEN C2S ELSE S2C

\* determine_flow_direction for a packet with this key of session k, and the
\* direction create_session gives the first segment of a session.
Direction(k, key) == IF key.src = k.src THEN C2S ELSE S2C
FirstDirection(flags) ==
  IF "SYN" \in flags /\ "ACK" \notin flags THEN C2S ELSE S2C

SyncState_Raw(state, tcp_state) == tcp_state
SyncState_NoLastAck(state, tcp_state) ==   \* an arm of the match forgotten
  IF tcp_state = "Established" THEN "Established"
  ELSE IF tcp_state = "Closed" THEN "Closed"
  ELSE IF tcp_state \in {"FinWait1", "FinWait2", "Closing"} THEN "Closing"
  ELSE state
SyncState_Default(state, tcp_state) ==     \* the other states reset the session
  IF tcp_state = "Established" THEN "Established"
  ELSE IF tcp_state = "Closed" THEN "Closed"
  ELSE IF tcp_state \in {"FinWait1", "FinWait2", "Closing", "LastAck"}
       THEN "Closing"
  ELSE "New"

SyncState_TimeWait(state, tcp_state) ==    \* a connection in TimeWait is over
  IF tcp_state = "Established" THEN "Established"
  ELSE IF tcp_state \in {"TimeWait", "Closed"} THEN "Closed"
  ELSE IF tcp_state \in {"FinWait1", "FinWait2", "Closing", "LastAck"}
       THEN "Closing"
  ELSE state

\* The session state after add_segment left the flow in tcp_state.
SyncState(state, tcp_state) ==
  IF tcp_state = "Established" THEN "Established"
  ELSE IF tcp_state = "Closed" THEN "Closed"
  ELSE IF tcp_state \in {"FinWait1", "FinWait2", "Closing", "LastAck"}
       THEN "Closing"
  ELSE state

--------------------------------------------------------------------------------
\* The next readings of the system clock.
Readings == IF ClockStepsBack THEN 0 .. MaxTime ELSE now .. MaxTime

Timeouts == [TCP |-> TcpTimeout, UDP |-> UdpTimeout, ICMP |-> IcmpTimeout]

\* is_timeout: a last_activity in the future counts as no time elapsed.
IsTimeout(key, session, time) ==
  time - session.last_activity > Timeouts[key.protocol]

\* cleanup_expired_sessions, reading the clock at time.
Keeps(key, session, time) ==
  ~ IsTimeout(key, session, time) /\ session.state # "Closed"

Cleanup(all, time) ==
  [k \in {k \in DOMAIN all : Keeps(k, all[k], time)} |-> all[k]]

OldestSessions_Newest ==        \* the sort turned round
  {young \in SUBSET DOMAIN sessions :
     /\ Cardinality(young) = Cardinality(DOMAIN sessions) \div Divisor
     /\ \A k \in young, l \in DOMAIN sessions \ young :
          sessions[k].last_activity >= sessions[l].last_activity}

(***************************************************************************)
(* force_cleanup: the sessions it may remove.  Sessions with the same      *)
(* last_activity come in the unspecified order of the HashMap.             *)
(***************************************************************************)
OldestSessions ==
  {old \in SUBSET DOMAIN sessions :
     /\ Cardinality(old) = Cardinality(DOMAIN sessions) \div Divisor
     /\ \A k \in old, l \in DOMAIN sessions \ old :
          sessions[k].last_activity <= sessions[l].last_activity}

Evictions_Late == IF Cardinality(DOMAIN sessions) > MaxSessions
                  THEN OldestSessions ELSE {{}}

Evictions == IF Cardinality(DOMAIN sessions) >= MaxSessions THEN OldestSessions
             ELSE {{}}

Without(old) == [k \in DOMAIN sessions \ old |-> sessions[k]]

Put(all, key, session) ==
  [k \in DOMAIN all \cup {key} |-> IF k = key THEN session ELSE all[k]]

--------------------------------------------------------------------------------
\* The end of a successful call: cleanup reads the clock again.
Return(key, all) ==
  /\ result' = key
  /\ now' \in Readings
  /\ sessions' = Cleanup(all, now')

\* Segments of endpoint sender have gone in direction dir.
Filed(senders, dir, sender) == [senders EXCEPT ![dir] = @ \cup {sender}]
NoSenders == [d \in Dirs |-> {}]

FirstSession(key, flags) ==
  LET dir == FirstDirection(flags)
  IN [state         |-> "New",
      last_activity |-> now,
      tcp_flow      |-> AfterSegment(NewFlow, dir, flags),
      senders       |-> Filed(NoSenders, dir, key.src),
      syn_first     |-> dir = C2S]

CreateTcpSession(key, flags, data) ==
  /\ ~ Tracked(key)
  /\ session_counter < MaxCreated
  /\ ~ Rejects(NewFlow, FirstDirection(flags), flags, data)
  /\ \E old \in Evictions :
       Return(key, Put(Without(old), key, FirstSession(key, flags)))
  /\ session_counter' = session_counter + 1

\* The first segment carries data but no SYN: by the time add_segment fails,
\* force_cleanup may have made room for a session that is never inserted.
FailCreate(key, flags) ==
  /\ ~ Tracked(key)
  /\ Rejects(NewFlow, FirstDirection(flags), flags, TRUE)
  /\ \E old \in Evictions : sessions' = Without(old)
  /\ result' = Failed
  /\ UNCHANGED <<session_counter, now>>

\* The session and its flow once add_segment has taken the segment.
UpdatedSession(key, flags) ==
  LET k == ActualKey(key)
      dir == Direction(k, key)
      flow == AfterSegment(sessions[k].tcp_flow, dir, flags)
  IN [state         |-> SyncState(sessions[k].state, flow.state),
      last_activity |-> now,
      tcp_flow      |-> flow,
      senders       |-> Filed(sessions[k].senders, dir, key.src),
      syn_first     |-> sessions[k].syn_first]

Refuses(key, flags, data) ==
  LET k == ActualKey(key)
  IN Rejects(sessions[k].tcp_flow, Direction(k, key), flags, data)

UpdateTcpSession_OwnId(key, flags, data) ==   \* the id of the packet's own key
  /\ Tracked(key)
  /\ ~ Refuses(key, flags, data)
  /\ Return(key, Put(sessions, ActualKey(key), UpdatedSession(key, flags)))
  /\ UNCHANGED session_counter

UpdateTcpSession(key, flags, data) ==
  /\ Tracked(key)
  /\ ~ Refuses(key, flags, data)
  /\ Return(ActualKey(key),
            Put(sessions, ActualKey(key), UpdatedSession(key, flags)))
  /\ UNCHANGED session_counter

\* add_segment fails after it has moved the state machine: the session keeps its
\* state, and there is no cleanup.
UnsyncedSession(key, flags) ==
  LET s == sessions[ActualKey(key)]
  IN [state         |-> s.state,
      last_activity |-> now,
      tcp_flow      |-> UpdatedSession(key, flags).tcp_flow,
      senders       |-> s.senders,
      syn_first     |-> s.syn_first]

FailUpdate(key, flags) ==
  /\ Tracked(key)
  /\ Refuses(key, flags, TRUE)
  /\ sessions' = Put(sessions, ActualKey(key), UnsyncedSession(key, flags))
  /\ result' = Failed
  /\ UNCHANGED <<session_counter, now>>

TcpPacket(key, flags, data) ==
  /\ key.protocol = "TCP"
  /\ \/ CreateTcpSession(key, flags, data)
     \/ UpdateTcpSession(key, flags, data)
     \/ data /\ FailCreate(key, flags)
     \/ data /\ FailUpdate(key, flags)

\* UDP and ICMP: no flow to feed, and the state stays New.
DatagramSession == [state         |-> "New",
                    last_activity |-> now,
                    tcp_flow      |-> NewFlow,
                    senders       |-> NoSenders,
                    syn_first     |-> FALSE]

CreateSession(key) ==
  /\ ~ Tracked(key)
  /\ session_counter < MaxCreated
  /\ \E old \in Evictions : Return(key, Put(Without(old), key, DatagramSession))
  /\ session_counter' = session_counter + 1

UpdateSession(key) ==
  /\ Tracked(key)
  /\ Return(ActualKey(key), Put(sessions, ActualKey(key), DatagramSession))
  /\ UNCHANGED session_counter

DatagramPacket(key) ==
  /\ key.protocol # "TCP"
  /\ CreateSession(key) \/ UpdateSession(key)

\* A packet extract_session_key finds no key in (ARP, a bad address).
OtherPacket ==
  /\ result' = NoSession
  /\ UNCHANGED <<sessions, session_counter, now>>

\* Time passes between two calls.
Tick ==
  /\ now' \in Readings \ {now}
  /\ result' = NoSession
  /\ UNCHANGED <<sessions, session_counter>>

Next ==
  \/ \E key \in Keys :
       \/ \E flags \in SegmentFlags, data \in BOOLEAN : TcpPacket(key, flags, data)
       \/ DatagramPacket(key)
  \/ OtherPacket
  \/ Tick

Spec == Init /\ [][Next]_vars

--------------------------------------------------------------------------------
TypeOK ==
  /\ DOMAIN sessions \subseteq Keys
  /\ \A k \in DOMAIN sessions : sessions[k] \in Session
  /\ session_counter \in 0 .. MaxCreated
  /\ now \in 0 .. MaxTime
  /\ result \in Keys \cup {NoSession, Failed}

\* The two directions of a conversation are one session: the map never holds
\* both a key and its reverse, whichever side was seen first, and however
\* sessions were evicted and created again in between.
NoMirrorSession ==
  \A k \in DOMAIN sessions :
    Reverse(k) \in DOMAIN sessions => Reverse(k) = k

\* The session state follows the TCP state although a failed add_segment skips
\* the synchronisation, and no session that reads Closed stays in the map.  A
\* New session can sit on a Closed flow: its first or a rejected segment was a
\* RST.
SessionStateMatchesFlow ==
  \A k \in DOMAIN sessions :
    LET s == sessions[k] IN
    \/ s.state = "New" /\ s.tcp_flow.state
         \in {"Init", "SynSent", "SynReceived", "Closed"}
    \/ s.state = "Established" /\ s.tcp_flow.state
         \in {"Established", "CloseWait"}
    \/ s.state = "Closing" /\ s.tcp_flow.state
         \in {"FinWait1", "FinWait2", "Closing", "LastAck", "TimeWait"}

\* force_cleanup keeps the map bounded: when it rounds down to no session at
\* all the map still grows, but not past Divisor sessions.
BoundedSessions ==
  \/ Cardinality(DOMAIN sessions) <= MaxSessions
  \/ Cardinality(DOMAIN sessions) <= Divisor

\* The map holds one session for each conversation, and a bounded number of them.
MapIsRight == NoMirrorSession /\ BoundedSessions

\* FlowDirection: each endpoint's segments go in one direction, so that a flow
\* never mixes the two byte streams.
SegmentsApart(k) ==
  k.src # k.dst => sessions[k].senders[C2S] \cap sessions[k].senders[S2C] = {}

\* That is so whenever the session began with the SYN that opens a connection,
\* whatever is captured, rejected, retransmitted or evicted afterwards.  (It is
\* not when capture starts in mid-connection: create_session files a first
\* segment that is no SYN as the server's, its sender's next as the client's.)
DirectionsApartAfterSyn ==
  \A k \in DOMAIN sessions : sessions[k].syn_first => SegmentsApart(k)

Rank == [New |-> 0, Established |-> 1, Closing |-> 2, Closed |-> 3]

\* A session that stays in the map never goes back to an earlier state, in
\* particular not when a failed call left its state behind its flow.
SessionNeverReopens ==
  [][\A k \in DOMAIN sessions \cap DOMAIN sessions' :
       Rank[sessions[k].state] <= Rank[sessions'[k].state]]_vars

\* The packet moves the TCP connection of the tracked session k to Closed.
Closes(k, key, flags) ==
  /\ key.protocol = "TCP" /\ Tracked(key) /\ k = ActualKey(key)
  /\ UpdateState(sessions[k].tcp_flow.state, Direction(k, key), flags) = "Closed"

\* At the end of the call session k has been idle too long; its own packet
\* counts, but not when the clock steps forward within the call.
IdleAfter(k, key) ==
  LET last == IF k = ActualKey(key) THEN now ELSE sessions[k].last_activity
  IN now' - last > Timeouts[k.protocol]

\* The sessions a packet pushes out although neither idle nor closed.
PushedOut(key, flags) ==
  {k \in DOMAIN sessions \ DOMAIN sessions' :
     ~ IdleAfter(k, key) /\ ~ Closes(k, key, flags)}

RemovesForCause(key, flags) ==
  LET out == PushedOut(key, flags) IN
  out # {} =>
    /\ ~ Tracked(key)
    /\ Cardinality(DOMAIN sessions) >= MaxSessions
    /\ Cardinality(out) <= Cardinality(DOMAIN sessions) \div Divisor
    /\ \A k \in out, l \in DOMAIN sessions \cap DOMAIN sessions' :
         sessions[k].last_activity <= sessions[l].last_activity

\* A session disappears only if it has been idle too long or if the packet just
\* processed, one of its own, moved its connection to Closed.  A packet that
\* belongs to no session may push out others when the map is full: a Divisor-th
\* of the sessions at most, and none whose last packet came after that of one
\* that stays.  (So it is also when add_segment then refuses the packet, and the
\* session they made room for is never inserted.)  Between the packets nothing
\* disappears.  Every packet that explains the step has to explain the loss.
RemovedForCause ==
  [][DOMAIN sessions \subseteq DOMAIN sessions' \/
       /\ ~ OtherPacket /\ ~ Tick
       /\ \A key \in Keys :
            /\ RemovesForCause(key, {}) \/ ~ DatagramPacket(key)
            /\ \A flags \in SegmentFlags :
                 RemovesForCause(key, flags) \/ \A data \in BOOLEAN : ~ TcpPacket(key, flags, data)]_vars

NamesSession(key, flags) ==
  /\ result' \in {key, Reverse(key)}
  /\ \/ /\ result' \in DOMAIN sessions'
        /\ sessions'[result'].last_activity = now
     \/ now' - now > Timeouts[key.protocol]
     \/ Closes(result', key, flags)

\* The id process_packet returns names a session of the packet's conversation,
\* in one direction or the other, and that session is in the map and has
\* recorded the packet, unless the packet closed its connection or it timed out
\* within the call.
ReturnedIdNamesSession ==
  [][result' \in Keys =>
       \A key \in Keys :
         /\ NamesSession(key, {}) \/ ~ DatagramPacket(key)
         /\ \A flags \in SegmentFlags :
              NamesSession(key, flags) \/ \A data \in BOOLEAN : ~ TcpPacket(key, flags, data)]_vars
================================================================================
