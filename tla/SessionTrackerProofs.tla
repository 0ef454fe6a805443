-------------------------- MODULE SessionTrackerProofs --------------------------
(***************************************************************************)
(* Proofs about SessionTracker for every set of keys, every configuration, *)
(* every sequence of packets and every behaviour of the clock.             *)
(***************************************************************************)
EXTENDS SessionTracker, FiniteSetTheorems, TLAPS

--------------------------------------------------------------------------------
(***************************************************************************)
(* The operators of TcpStates.                                             *)
(***************************************************************************)
\* The arms of update_state, one line per current state.
LEMMA UpdateStateArms ==
  ASSUME NEW d, NEW flags
  PROVE  /\ UpdateState("Init", d, flags) \in {"Init", "SynSent", "Closed"}
         /\ UpdateState("SynSent", d, flags)
              \in {"SynSent", "SynReceived", "Closed"}
         /\ UpdateState("SynReceived", d, flags)
              \in {"SynReceived", "Established", "Closed"}
         /\ UpdateState("Established", d, flags)
              \in {"Established", "FinWait1", "CloseWait", "Closed"}
         /\ UpdateState("FinWait1", d, flags)
              \in {"FinWait1", "FinWait2", "Closing", "Closed"}
         /\ UpdateState("FinWait2", d, flags)
              \in {"FinWait2", "TimeWait", "Closed"}
         /\ UpdateState("CloseWait", d, flags)
              \in {"CloseWait", "LastAck", "Closed"}
         /\ UpdateState("Closing", d, flags)
              \in {"Closing", "TimeWait", "Closed"}
         /\ UpdateState("LastAck", d, flags) \in {"LastAck", "Closed"}
         /\ UpdateState("TimeWait", d, flags) = "Closed"
         /\ UpdateState("Closed", d, flags) = "Closed"
  BY SMT DEF UpdateState, FromSynReceived, FromFinWait1, FromFinWait2

LEMMA UpdateStateType ==
  ASSUME NEW s \in TcpState, NEW d, NEW flags
  PROVE  UpdateState(s, d, flags) \in TcpState
  BY UpdateStateArms DEF TcpState

\* What the handshake states ask of the SYN that leads into them.
LEMMA UpdateStateHandshake ==
  ASSUME NEW s \in TcpState, NEW d, NEW flags
  PROVE  /\ UpdateState(s, d, flags) = "SynSent" =>
              s = "SynSent" \/ (s = "Init" /\ d = C2S /\ "SYN" \in flags)
         /\ UpdateState(s, d, flags) \notin {"Init", "SynSent", "Closed"} =>
              \/ s \notin {"Init", "SynSent", "Closed"}
              \/ s = "SynSent" /\ d = S2C /\ "SYN" \in flags
  <1>1. UpdateState("Init", d, flags) = "SynSent" => d = C2S /\ "SYN" \in flags
    BY SMT DEF UpdateState
  <1>2. UpdateState("SynSent", d, flags) = "SynReceived" =>
          d = S2C /\ "SYN" \in flags
    BY SMT DEF UpdateState
  <1> QED BY <1>1, <1>2, UpdateStateArms DEF TcpState

LEMMA AfterSegmentType ==
  ASSUME NEW flow \in FlowSummaries, NEW d \in Dirs, NEW flags
  PROVE  AfterSegment(flow, d, flags) \in FlowSummaries
  <1>1. flow.state \in TcpState /\ flow.synced \in [Dirs -> BOOLEAN]
    BY DEF FlowSummaries
  <1>2. UpdateState(flow.state, d, flags) \in TcpState
    BY <1>1, UpdateStateType
  <1>3. [flow.synced EXCEPT ![d] = @ \/ "SYN" \in flags] \in [Dirs -> BOOLEAN]
    BY <1>1, Zenon
  <1> QED BY <1>2, <1>3, Zenon DEF AfterSegment, FlowSummaries

\* The handshake states imply the synced bits of the SYNs that led there.
SyncOK(flow) ==
  /\ flow.state = "SynSent" => flow.synced[C2S]
  /\ flow.state \notin {"Init", "SynSent", "Closed"} =>
       \A d \in Dirs : flow.synced[d]

LEMMA SyncOKNew == NewFlow \in FlowSummaries /\ SyncOK(NewFlow)
  BY DEF NewFlow, FlowSummaries, SyncOK, TcpState

LEMMA SyncOKAfterSegment ==
  ASSUME NEW flow \in FlowSummaries, NEW d \in Dirs, NEW flags, SyncOK(flow)
  PROVE  SyncOK(AfterSegment(flow, d, flags))
  <1> DEFINE next == AfterSegment(flow, d, flags)
  <1>1. flow.state \in TcpState /\ flow.synced \in [Dirs -> BOOLEAN]
    BY DEF FlowSummaries
  <1>2. next.state = UpdateState(flow.state, d, flags)
    BY DEF AfterSegment
  <1>3. next.synced = [flow.synced EXCEPT ![d] = @ \/ "SYN" \in flags]
    BY Zenon DEF AfterSegment
  <1>4. \A e \in Dirs : flow.synced[e] => next.synced[e]
    BY <1>1, <1>3, Zenon
  <1>5. "SYN" \in flags => next.synced[d]
    BY <1>1, <1>3, Zenon
  <1> HIDE DEF next
  <1>6. next.state = "SynSent" => next.synced[C2S]
    <2>1. CASE flow.state = "SynSent"
      BY <1>4, <2>1 DEF SyncOK, Dirs
    <2>2. CASE d = C2S /\ "SYN" \in flags
      BY <1>5, <2>2
    <2>3. UpdateState(flow.state, d, flags) = "SynSent" =>
            flow.state = "SynSent" \/ (d = C2S /\ "SYN" \in flags)
      BY <1>1, UpdateStateHandshake
    <2> QED BY <1>2, <2>1, <2>2, <2>3, Zenon
  <1>7. next.state \notin {"Init", "SynSent", "Closed"} =>
          \A e \in Dirs : next.synced[e]
    <2>1. CASE flow.state \notin {"Init", "SynSent", "Closed"}
      BY <1>4, <2>1 DEF SyncOK
    <2>2. CASE flow.state = "SynSent" /\ d = S2C /\ "SYN" \in flags
      BY <1>4, <1>5, <2>2 DEF SyncOK, Dirs
    <2> QED BY <1>1, <1>2, <2>1, <2>2, UpdateStateHandshake
  <1>8. SyncOK(next)
    BY <1>6, <1>7 DEF SyncOK
  <1> QED BY <1>8 DEF next

--------------------------------------------------------------------------------
(***************************************************************************)
(* Which keys the map holds.                                               *)
(***************************************************************************)
LEMMA ReverseKey ==
  ASSUME NEW key \in Keys
  PROVE  Reverse(key) \in Keys /\ Reverse(Reverse(key)) = key
  <1>1. key \in [protocol : Protocol, src : Endpoints, dst : Endpoints]
    BY KeysAssumption
  <1>2. Reverse(key) \in Keys
    BY KeysAssumption DEF Reverse
  <1> QED BY <1>1, <1>2 DEF Reverse

LEMMA ActualKeyTracked ==
  ASSUME NEW key \in Keys, Tracked(key)
  PROVE  ActualKey(key) \in DOMAIN sessions /\ ActualKey(key) \in Keys
  BY ReverseKey DEF Tracked, ActualKey

LEMMA DomainCleanup ==
  ASSUME NEW all, NEW time
  PROVE  /\ DOMAIN Cleanup(all, time) \subseteq DOMAIN all
         /\ \A k \in DOMAIN Cleanup(all, time) :
              Cleanup(all, time)[k] = all[k] /\ all[k].state # "Closed"
  BY DEF Cleanup, Keeps

LEMMA DomainWithout ==
  ASSUME NEW old
  PROVE  /\ DOMAIN Without(old) = DOMAIN sessions \ old
         /\ \A k \in DOMAIN Without(old) : Without(old)[k] = sessions[k]
  BY DEF Without

--------------------------------------------------------------------------------
(***************************************************************************)
(* What is true of every session in the map.  SyncOK of its flow is what   *)
(* keeps a failed update from leaving the session's state behind: a flow   *)
(* past the handshake has both directions synced and refuses nothing.      *)
(***************************************************************************)
StateAgrees(s) ==
  \/ s.state = "New" /\ s.tcp_flow.state
       \in {"Init", "SynSent", "SynReceived", "Closed"}
  \/ s.state = "Established" /\ s.tcp_flow.state \in {"Established", "CloseWait"}
  \/ s.state = "Closing" /\ s.tcp_flow.state
       \in {"FinWait1", "FinWait2", "Closing", "LastAck", "TimeWait"}

SendersOK(k, s) ==
  s.syn_first => s.senders[C2S] \subseteq {k.src} /\ s.senders[S2C] \subseteq {k.dst}

SessionOK(k, s) ==
  s \in Session /\ SyncOK(s.tcp_flow) /\ StateAgrees(s) /\ SendersOK(k, s)

LEMMA SessionFields ==
  ASSUME NEW s \in Session
  PROVE  /\ s.state \in SessionState
         /\ s.last_activity \in Int
         /\ s.tcp_flow \in FlowSummaries
         /\ s.tcp_flow.state \in TcpState
         /\ s.tcp_flow.synced \in [Dirs -> BOOLEAN]
         /\ s.senders \in [Dirs -> SUBSET Endpoints]
         /\ s.syn_first \in BOOLEAN
  BY DEF Session, FlowSummaries

LEMMA KeyFields ==
  ASSUME NEW key \in Keys
  PROVE  key.protocol \in Protocol /\ key.src \in Endpoints /\ key.dst \in Endpoints
  BY KeysAssumption

LEMMA FiledType ==
  ASSUME NEW senders \in [Dirs -> SUBSET Endpoints], NEW d \in Dirs, NEW e \in Endpoints
  PROVE  /\ Filed(senders, d, e) \in [Dirs -> SUBSET Endpoints]
         /\ Filed(senders, d, e)[d] = senders[d] \cup {e}
         /\ \A x \in Dirs \ {d} : Filed(senders, d, e)[x] = senders[x]
  BY DEF Filed

LEMMA DirectionType ==
  /\ \A flags : FirstDirection(flags) \in Dirs
  /\ \A k, key : Direction(k, key) \in Dirs
  BY DEF FirstDirection, Direction, Dirs

LEMMA SendersFiled ==
  ASSUME NEW senders \in [Dirs -> SUBSET Endpoints], NEW d \in Dirs,
         NEW k \in Keys, NEW e \in Endpoints,
         senders[C2S] \subseteq {k.src}, senders[S2C] \subseteq {k.dst},
         d = C2S => e = k.src, d = S2C => e = k.dst
  PROVE  /\ Filed(senders, d, e)[C2S] \subseteq {k.src}
         /\ Filed(senders, d, e)[S2C] \subseteq {k.dst}
  <1>1. CASE d = C2S
    BY <1>1, FiledType DEF Dirs, C2S, S2C
  <1>2. CASE d = S2C
    BY <1>2, FiledType DEF Dirs, C2S, S2C
  <1> QED BY <1>1, <1>2 DEF Dirs

LEMMA NoSendersType ==
  NoSenders \in [Dirs -> SUBSET Endpoints] /\ NoSenders[C2S] = {} /\ NoSenders[S2C] = {}
  BY DEF NoSenders, Dirs

LEMMA DatagramSessionOK ==
  ASSUME NEW k \in Keys, now \in Int
  PROVE  SessionOK(k, DatagramSession)
  <1>1. DatagramSession \in Session
    BY SyncOKNew, NoSendersType DEF DatagramSession, Session, SessionState
  <1>2. DatagramSession.tcp_flow = NewFlow /\ DatagramSession.state = "New"
        /\ DatagramSession.senders = NoSenders
    BY DEF DatagramSession
  <1>3. StateAgrees(DatagramSession)
    BY <1>2 DEF StateAgrees, NewFlow
  <1>4. SendersOK(k, DatagramSession)
    BY <1>2, NoSendersType DEF SendersOK
  <1> QED BY <1>1, <1>2, <1>3, <1>4, SyncOKNew DEF SessionOK

LEMMA FirstSessionOK ==
  ASSUME NEW key \in Keys, NEW flags, now \in Int
  PROVE  SessionOK(key, FirstSession(key, flags))
  <1> DEFINE dir == FirstDirection(flags)
             flow == AfterSegment(NewFlow, dir, flags)
             s == FirstSession(key, flags)
  <1>1. flow \in FlowSummaries /\ SyncOK(flow)
    BY SyncOKNew, AfterSegmentType, SyncOKAfterSegment, DirectionType
  <1>2. Filed(NoSenders, dir, key.src) \in [Dirs -> SUBSET Endpoints]
    BY FiledType, NoSendersType, DirectionType, KeyFields
  <1>3. /\ s.state = "New" /\ s.last_activity = now /\ s.tcp_flow = flow
        /\ s.senders = Filed(NoSenders, dir, key.src)
        /\ s.syn_first <=> dir = C2S
    BY DEF FirstSession
  <1>4. s \in Session
    BY <1>1, <1>2 DEF FirstSession, Session, SessionState
  <1>5. flow.state \in {"Init", "SynSent", "Closed"}
    BY UpdateStateArms DEF AfterSegment, NewFlow
  <1>6. StateAgrees(s)
    BY <1>3, <1>5 DEF StateAgrees
  <1>7. SendersOK(key, s)
    <2> SUFFICES ASSUME s.syn_first PROVE SendersOK(key, s)
      BY DEF SendersOK
    <2>1. dir = C2S /\ dir # S2C
      BY <1>3 DEF C2S, S2C
    <2> HIDE DEF dir
    <2> QED BY <1>3, <2>1, SendersFiled, NoSendersType, KeyFields DEF SendersOK, Dirs
  <1> QED BY <1>1, <1>3, <1>4, <1>6, <1>7 DEF SessionOK

LEMMA DirectionOfSender ==
  ASSUME NEW key \in Keys, Tracked(key)
  PROVE  LET k == ActualKey(key) IN
         /\ Direction(k, key) = C2S => key.src = k.src
         /\ Direction(k, key) = S2C => key.src = k.dst
  <1>1. C2S # S2C
    BY DEF C2S, S2C
  <1>2. ActualKey(key) = key \/ (ActualKey(key)).dst = key.src
    BY DEF ActualKey, Reverse
  <1> QED BY <1>1, <1>2 DEF Direction

\* An update leaves a good session good, unless it closed.
LEMMA UpdatedSessionOK ==
  ASSUME NEW key \in Keys, NEW flags, now \in Int, Tracked(key),
         SessionOK(ActualKey(key), sessions[ActualKey(key)]),
         UpdatedSession(key, flags).state # "Closed"
  PROVE  SessionOK(ActualKey(key), UpdatedSession(key, flags))
  <1> DEFINE k == ActualKey(key)
             old == sessions[k]
             dir == Direction(k, key)
             flow == AfterSegment(old.tcp_flow, dir, flags)
             s == UpdatedSession(key, flags)
  <1>0. old \in Session /\ SyncOK(old.tcp_flow) /\ StateAgrees(old) /\ SendersOK(k, old)
    BY DEF SessionOK
  <1>1. flow \in FlowSummaries /\ SyncOK(flow)
    BY <1>0, SessionFields, AfterSegmentType, SyncOKAfterSegment, DirectionType
  <1>2. Filed(old.senders, dir, key.src) \in [Dirs -> SUBSET Endpoints]
    BY <1>0, SessionFields, FiledType, DirectionType, KeyFields
  <1>3. /\ s.state = SyncState(old.state, flow.state)
        /\ s.last_activity = now /\ s.tcp_flow = flow
        /\ s.senders = Filed(old.senders, dir, key.src)
        /\ s.syn_first <=> old.syn_first
    BY DEF UpdatedSession
  <1>4. SyncState(old.state, flow.state) \in SessionState
    BY <1>0, SessionFields DEF SyncState, SessionState
  <1>5. s \in Session
    <2>1. old.syn_first \in BOOLEAN
      BY <1>0, SessionFields
    <2> HIDE DEF flow
    <2> QED BY <1>1, <1>2, <1>4, <2>1 DEF UpdatedSession, Session, flow
  <1>6. flow.state = UpdateState(old.tcp_flow.state, dir, flags)
    BY DEF AfterSegment
  <1>7. StateAgrees(s)
    <2> HIDE DEF flow, s, old
    <2> DEFINE tcp == old.tcp_flow.state
    <2>1. CASE old.state = "New" /\ tcp \in {"Init", "SynSent", "SynReceived", "Closed"}
      <3>1. flow.state \in {"Init", "SynSent", "SynReceived", "Established", "Closed"}
        BY <1>6, <2>1, UpdateStateArms
      <3> QED BY <1>3, <2>1, <3>1 DEF StateAgrees, SyncState, s
    <2>2. CASE old.state = "Established" /\ tcp \in {"Established", "CloseWait"}
      <3>1. flow.state \in {"Established", "FinWait1", "CloseWait", "LastAck", "Closed"}
        BY <1>6, <2>2, UpdateStateArms
      <3> QED BY <1>3, <2>2, <3>1 DEF StateAgrees, SyncState, s
    <2>3. CASE old.state = "Closing" /\ tcp
                 \in {"FinWait1", "FinWait2", "Closing", "LastAck", "TimeWait"}
      <3>1. flow.state \in {"FinWait1", "FinWait2", "Closing", "LastAck", "TimeWait", "Closed"}
        BY <1>6, <2>3, UpdateStateArms
      <3> QED BY <1>3, <2>3, <3>1 DEF StateAgrees, SyncState, s
    <2> QED BY <1>0, <2>1, <2>2, <2>3 DEF StateAgrees
  <1>8. SendersOK(k, s)
    <2> SUFFICES ASSUME s.syn_first
                 PROVE  s.senders[C2S] \subseteq {k.src} /\ s.senders[S2C] \subseteq {k.dst}
      BY DEF SendersOK
    <2>1. old.senders \in [Dirs -> SUBSET Endpoints]
      BY <1>0, SessionFields
    <2>2. old.senders[C2S] \subseteq {k.src} /\ old.senders[S2C] \subseteq {k.dst}
      BY <1>0, <1>3 DEF SendersOK
    <2>3. dir \in Dirs /\ k \in Keys /\ key.src \in Endpoints
      BY DirectionType, ActualKeyTracked, KeyFields
    <2>4. (dir = C2S => key.src = k.src) /\ (dir = S2C => key.src = k.dst)
      BY DirectionOfSender
    <2> HIDE DEF k, old, dir, s
    <2> QED BY <1>3, <2>1, <2>2, <2>3, <2>4, SendersFiled
  <1> QED BY <1>1, <1>3, <1>5, <1>7, <1>8 DEF SessionOK

\* A refused segment leaves a good session good: its flow was not past the
\* handshake, so the skipped synchronisation had nothing to do.
LEMMA UnsyncedSessionOK ==
  ASSUME NEW key \in Keys, NEW flags, now \in Int, Tracked(key),
         SessionOK(ActualKey(key), sessions[ActualKey(key)]),
         Refuses(key, flags, TRUE)
  PROVE  SessionOK(ActualKey(key), UnsyncedSession(key, flags))
  <1> DEFINE k == ActualKey(key)
             old == sessions[k]
             dir == Direction(k, key)
             flow == AfterSegment(old.tcp_flow, dir, flags)
             s == UnsyncedSession(key, flags)
  <1>0. old \in Session /\ SyncOK(old.tcp_flow) /\ StateAgrees(old) /\ SendersOK(k, old)
    BY DEF SessionOK
  <1>1. flow \in FlowSummaries /\ SyncOK(flow)
    BY <1>0, SessionFields, AfterSegmentType, SyncOKAfterSegment, DirectionType
  <1>2. /\ s.state = old.state /\ s.last_activity = now
        /\ s.tcp_flow = flow /\ s.senders = old.senders
        /\ s.syn_first <=> old.syn_first
    BY DEF UnsyncedSession, UpdatedSession
  <1>3. s \in Session
    <2>1. UpdatedSession(key, flags).tcp_flow = flow
      BY DEF UpdatedSession
    <2> QED BY <1>0, <1>1, <2>1, SessionFields DEF UnsyncedSession, Session
  <1>4. dir \in Dirs /\ ~ old.tcp_flow.synced[dir]
    BY DirectionType DEF Refuses, Rejects
  <1>5. old.tcp_flow.state \in {"Init", "SynSent", "Closed"}
    BY <1>0, <1>4 DEF SyncOK
  <1>6. flow.state = UpdateState(old.tcp_flow.state, dir, flags)
    BY DEF AfterSegment
  <1>7. StateAgrees(s)
    <2>1. flow.state \in {"Init", "SynSent", "SynReceived", "Closed"}
      BY <1>5, <1>6, UpdateStateArms
    <2>2. old.state = "New"
      BY <1>0, <1>5 DEF StateAgrees
    <2> HIDE DEF flow, s, old
    <2> QED BY <1>2, <2>1, <2>2 DEF StateAgrees
  <1>8. SendersOK(k, s)
    BY <1>0, <1>2 DEF SendersOK
  <1> QED BY <1>1, <1>2, <1>3, <1>7, <1>8 DEF SessionOK

--------------------------------------------------------------------------------
(***************************************************************************)
(* The invariant of the tracker.                                           *)
(***************************************************************************)
SessionsOK(all) ==
  DOMAIN all \subseteq Keys /\ \A k \in DOMAIN all : SessionOK(k, all[k])

TrackerInv ==
  /\ SessionsOK(sessions)
  /\ session_counter \in 0 .. MaxCreated
  /\ now \in 0 .. MaxTime
  /\ result \in Keys \cup {NoSession, Failed}

LEMMA ReadingsType == now \in 0 .. MaxTime => Readings \subseteq 0 .. MaxTime
  BY BoundsAssumption DEF Readings

\* A map of good sessions, except perhaps one that closed, is good once cleanup
\* has run.
LEMMA CleanupOK ==
  ASSUME NEW all, NEW key \in Keys, NEW session, NEW time,
         SessionsOK(all),
         session.state # "Closed" => SessionOK(key, session)
  PROVE  SessionsOK(Cleanup(Put(all, key, session), time))
  <1> DEFINE put == Put(all, key, session)
             kept == Cleanup(put, time)
  <1>1. DOMAIN put = DOMAIN all \cup {key} /\ put[key] = session
        /\ \A k \in DOMAIN all : k # key => put[k] = all[k]
    BY DEF Put
  <1> HIDE DEF put
  <1>2. DOMAIN kept \subseteq DOMAIN put
        /\ \A k \in DOMAIN kept : kept[k] = put[k] /\ put[k].state # "Closed"
    BY DomainCleanup, Zenon
  <1> HIDE DEF kept
  <1>3. DOMAIN kept \subseteq Keys
    BY <1>1, <1>2, Zenon DEF SessionsOK
  <1>4. ASSUME NEW k \in DOMAIN kept
        PROVE  SessionOK(k, kept[k])
    <2>1. CASE k = key
      BY <1>1, <1>2, <2>1, Zenon
    <2>2. CASE k # key
      BY <1>1, <1>2, <2>2, Zenon DEF SessionsOK
    <2> QED BY <2>1, <2>2, Zenon
  <1>5. SessionsOK(kept)
    BY <1>3, <1>4, Zenon DEF SessionsOK
  <1> QED BY <1>5 DEF kept, put

LEMMA WithoutOK ==
  ASSUME SessionsOK(sessions), NEW old
  PROVE  SessionsOK(Without(old))
  BY DomainWithout DEF SessionsOK

LEMMA TrackerInvInit == Init => TrackerInv
  BY BoundsAssumption DEF Init, TrackerInv, SessionsOK

LEMMA TrackerInvNext == TrackerInv /\ [Next]_vars => TrackerInv'
  <1> SUFFICES ASSUME TrackerInv, [Next]_vars PROVE TrackerInv'
    OBVIOUS
  <1>0. SessionsOK(sessions) /\ now \in 0 .. MaxTime /\ now \in Int
        /\ session_counter \in 0 .. MaxCreated
    BY BoundsAssumption DEF TrackerInv
  <1>a. ASSUME NEW key \in Keys, NEW all, NEW session, SessionsOK(all),
               session.state # "Closed" => SessionOK(key, session),
               Return(key, Put(all, key, session)),
               session_counter' \in 0 .. MaxCreated
        PROVE  TrackerInv'
    <2>1. now' \in 0 .. MaxTime /\ result' = key
      BY <1>0, <1>a, ReadingsType DEF Return
    <2>2. SessionsOK(sessions')
      BY <1>a, CleanupOK DEF Return
    <2>3. SessionsOK(sessions)' <=> SessionsOK(sessions')
      BY DEF SessionsOK, SessionOK, SyncOK, StateAgrees, SendersOK
    <2> QED BY <1>a, <2>1, <2>2, <2>3 DEF TrackerInv
  <1>b. ASSUME NEW all, SessionsOK(all), sessions' = all, result' = Failed,
               UNCHANGED <<session_counter, now>>
        PROVE  TrackerInv'
    <2>1. SessionsOK(sessions)'
      BY <1>b, Zenon DEF SessionsOK, SessionOK, SyncOK, StateAgrees, SendersOK
    <2> QED BY <1>0, <1>b, <2>1 DEF TrackerInv
  <1>1. ASSUME NEW key \in Keys, NEW flags, NEW data, CreateTcpSession(key, flags, data)
        PROVE  TrackerInv'
    <2>1. SessionOK(key, FirstSession(key, flags))
      BY <1>0, <1>1, FirstSessionOK DEF CreateTcpSession
    <2>2. session_counter' \in 0 .. MaxCreated
      BY <1>0, <1>1, BoundsAssumption DEF CreateTcpSession
    <2>3. PICK old \in Evictions :
            Return(key, Put(Without(old), key, FirstSession(key, flags)))
      BY <1>1, Zenon DEF CreateTcpSession
    <2>4. SessionsOK(Without(old))
      BY <1>0, WithoutOK
    <2> QED BY <1>a, <2>1, <2>2, <2>3, <2>4, Zenon
  <1>2. ASSUME NEW key \in Keys, NEW flags, FailCreate(key, flags)
        PROVE  TrackerInv'
    <2>1. PICK old \in Evictions : sessions' = Without(old)
      BY <1>2, Zenon DEF FailCreate
    <2>2. SessionsOK(Without(old))
      BY <1>0, WithoutOK
    <2>3. result' = Failed /\ UNCHANGED <<session_counter, now>>
      BY <1>2 DEF FailCreate
    <2> QED BY <1>b, <2>1, <2>2, <2>3, Zenon
  <1>3. ASSUME NEW key \in Keys, NEW flags, NEW data, UpdateTcpSession(key, flags, data)
        PROVE  TrackerInv'
    <2>1. Tracked(key) /\ ActualKey(key) \in DOMAIN sessions /\ ActualKey(key) \in Keys
      BY <1>3, ActualKeyTracked DEF UpdateTcpSession
    <2>2. SessionOK(ActualKey(key), sessions[ActualKey(key)])
      BY <1>0, <2>1, Zenon DEF SessionsOK
    <2>3. UpdatedSession(key, flags).state # "Closed" =>
            SessionOK(ActualKey(key), UpdatedSession(key, flags))
      BY <1>0, <2>1, <2>2, UpdatedSessionOK
    <2>4. session_counter' \in 0 .. MaxCreated
      BY <1>0, <1>3 DEF UpdateTcpSession
    <2>5. Return(ActualKey(key), Put(sessions, ActualKey(key), UpdatedSession(key, flags)))
      BY <1>3, Zenon DEF UpdateTcpSession
    <2> QED BY <1>0, <1>a, <2>1, <2>3, <2>4, <2>5, Zenon
  <1>4. ASSUME NEW key \in Keys, NEW flags, FailUpdate(key, flags)
        PROVE  TrackerInv'
    <2> DEFINE k == ActualKey(key)
               put == Put(sessions, k, UnsyncedSession(key, flags))
    <2>1. Tracked(key) /\ k \in DOMAIN sessions /\ k \in Keys
      BY <1>4, ActualKeyTracked DEF FailUpdate
    <2>2. SessionOK(k, sessions[k])
      BY <1>0, <2>1, Zenon DEF SessionsOK
    <2>3. SessionOK(k, UnsyncedSession(key, flags))
      BY <1>0, <1>4, <2>1, <2>2, UnsyncedSessionOK DEF FailUpdate
    <2>4. DOMAIN put = DOMAIN sessions \cup {k} /\ put[k] = UnsyncedSession(key, flags)
          /\ \A l \in DOMAIN sessions : l # k => put[l] = sessions[l]
      BY DEF Put
    <2>5. sessions' = put /\ result' = Failed /\ UNCHANGED <<session_counter, now>>
      BY <1>4, Zenon DEF FailUpdate
    <2> HIDE DEF put, k
    <2>6. SessionsOK(put)
      BY <1>0, <2>1, <2>3, <2>4 DEF SessionsOK
    <2> QED BY <1>b, <2>5, <2>6, Zenon
  <1>5. ASSUME NEW key \in Keys, CreateSession(key)
        PROVE  TrackerInv'
    <2>1. SessionOK(key, DatagramSession)
      BY <1>0, DatagramSessionOK
    <2>2. session_counter' \in 0 .. MaxCreated
      BY <1>0, <1>5, BoundsAssumption DEF CreateSession
    <2>3. PICK old \in Evictions : Return(key, Put(Without(old), key, DatagramSession))
      BY <1>5, Zenon DEF CreateSession
    <2>4. SessionsOK(Without(old))
      BY <1>0, WithoutOK
    <2> QED BY <1>a, <2>1, <2>2, <2>3, <2>4, Zenon
  <1>6. ASSUME NEW key \in Keys, UpdateSession(key)
        PROVE  TrackerInv'
    <2>1. ActualKey(key) \in Keys
      BY <1>6, ActualKeyTracked DEF UpdateSession
    <2>2. SessionOK(ActualKey(key), DatagramSession)
      BY <1>0, <2>1, DatagramSessionOK
    <2>3. session_counter' \in 0 .. MaxCreated
      BY <1>0, <1>6 DEF UpdateSession
    <2>4. Return(ActualKey(key), Put(sessions, ActualKey(key), DatagramSession))
      BY <1>6, Zenon DEF UpdateSession
    <2> QED BY <1>0, <1>a, <2>1, <2>2, <2>3, <2>4, Zenon
  <1>7. ASSUME sessions' = sessions, session_counter' = session_counter,
               now' \in 0 .. MaxTime, result' \in Keys \cup {NoSession, Failed}
        PROVE  TrackerInv'
    <2>1. SessionsOK(sessions)'
      BY <1>0, <1>7, Zenon DEF SessionsOK, SessionOK, SyncOK, StateAgrees, SendersOK
    <2> QED BY <1>0, <1>7, <2>1 DEF TrackerInv
  <1>8. CASE OtherPacket
    BY <1>0, <1>7, <1>8 DEF OtherPacket
  <1>9. CASE Tick
    BY <1>0, <1>7, <1>9, ReadingsType DEF Tick
  <1>10. CASE UNCHANGED vars
    BY <1>7, <1>10 DEF vars, TrackerInv
  <1> QED
    BY <1>1, <1>2, <1>3, <1>4, <1>5, <1>6, <1>8, <1>9, <1>10, Zenon
       DEF Next, TcpPacket, DatagramPacket

LEMMA TrackerInvariant == Spec => []TrackerInv
  BY TrackerInvInit, TrackerInvNext, PTL DEF Spec

\* The tracker's state is well typed whatever packets arrive and whatever the
\* clock does.
THEOREM TypeCorrect == Spec => []TypeOK
  <1>1. TrackerInv => TypeOK
    BY DEF TrackerInv, TypeOK, SessionsOK, SessionOK
  <1> QED BY <1>1, TrackerInvariant, PTL

\* A session's state and the state of its TCP flow agree, although a failed
\* add_segment moves the flow and skips the session.
THEOREM SessionStateCorrect == Spec => []SessionStateMatchesFlow
  <1>1. TrackerInv => SessionStateMatchesFlow
    BY DEF TrackerInv, SessionsOK, SessionOK, StateAgrees, SessionStateMatchesFlow
  <1> QED BY <1>1, TrackerInvariant, PTL

\* A session that began with a SYN never mixes the two byte streams.
THEOREM DirectionsCorrect == Spec => []DirectionsApartAfterSyn
  <1>1. TrackerInv => DirectionsApartAfterSyn
    <2> SUFFICES ASSUME TrackerInv, NEW k \in DOMAIN sessions,
                        sessions[k].syn_first, k.src # k.dst
                 PROVE  sessions[k].senders[C2S] \cap sessions[k].senders[S2C] = {}
      BY DEF DirectionsApartAfterSyn, SegmentsApart
    <2>1. /\ sessions[k].senders[C2S] \subseteq {k.src}
          /\ sessions[k].senders[S2C] \subseteq {k.dst}
      BY DEF TrackerInv, SessionsOK, SessionOK, SendersOK
    <2> QED BY <2>1
  <1> QED BY <1>1, TrackerInvariant, PTL

--------------------------------------------------------------------------------
(***************************************************************************)
(* One session per conversation, and how many sessions.                    *)
(***************************************************************************)

\* A step inserts at most one key, and only if neither it nor its reverse is
\* in the map; then force_cleanup has run if the map was full.
LEMMA DomainStep ==
  ASSUME TrackerInv, [Next]_vars
  PROVE  \/ DOMAIN sessions' \subseteq DOMAIN sessions
         \/ \E key \in Keys, old \in Evictions :
              /\ ~ Tracked(key)
              /\ DOMAIN sessions' \subseteq (DOMAIN sessions \ old) \cup {key}
  <1>a. ASSUME NEW key \in Keys, NEW session, NEW old, NEW k,
               Return(k, Put(Without(old), key, session))
        PROVE  DOMAIN sessions' \subseteq (DOMAIN sessions \ old) \cup {key}
    <2>1. DOMAIN Put(Without(old), key, session) = (DOMAIN sessions \ old) \cup {key}
      BY DEF Put, Without
    <2>2. DOMAIN sessions' \subseteq DOMAIN Put(Without(old), key, session)
      BY <1>a, DomainCleanup DEF Return
    <2> QED BY <2>1, <2>2
  <1>b. ASSUME NEW k \in DOMAIN sessions, NEW session
        PROVE  DOMAIN Put(sessions, k, session) = DOMAIN sessions
    BY <1>b DEF Put
  <1>1. ASSUME NEW key \in Keys,
               \/ \E flags, data : CreateTcpSession(key, flags, data)
               \/ CreateSession(key)
        PROVE  \E old \in Evictions :
                 /\ ~ Tracked(key)
                 /\ DOMAIN sessions' \subseteq (DOMAIN sessions \ old) \cup {key}
    BY <1>1, <1>a, Zenon DEF CreateTcpSession, CreateSession
  <1>2. ASSUME NEW key \in Keys,
               \/ \E flags, data : UpdateTcpSession(key, flags, data)
               \/ UpdateSession(key)
        PROVE  DOMAIN sessions' \subseteq DOMAIN sessions
    <2>1. ActualKey(key) \in DOMAIN sessions
      BY <1>2, ActualKeyTracked DEF UpdateTcpSession, UpdateSession
    <2>2. PICK session : Return(ActualKey(key), Put(sessions, ActualKey(key), session))
      BY <1>2, Zenon DEF UpdateTcpSession, UpdateSession
    <2>3. DOMAIN sessions' \subseteq DOMAIN Put(sessions, ActualKey(key), session)
      BY <2>2, DomainCleanup DEF Return
    <2> QED BY <1>b, <2>1, <2>3
  <1>3. ASSUME NEW key \in Keys, NEW flags, FailUpdate(key, flags)
        PROVE  DOMAIN sessions' \subseteq DOMAIN sessions
    <2>1. ActualKey(key) \in DOMAIN sessions
      BY <1>3, ActualKeyTracked DEF FailUpdate
    <2>2. sessions' = Put(sessions, ActualKey(key), UnsyncedSession(key, flags))
      BY <1>3, Zenon DEF FailUpdate
    <2> QED BY <1>b, <2>1, <2>2
  <1>4. ASSUME NEW key \in Keys, NEW flags, FailCreate(key, flags)
        PROVE  DOMAIN sessions' \subseteq DOMAIN sessions
    <2>1. PICK old \in Evictions : sessions' = Without(old)
      BY <1>4, Zenon DEF FailCreate
    <2> QED BY <2>1, DomainWithout
  <1>5. CASE UNCHANGED sessions
    BY <1>5
  <1> QED
    BY <1>1, <1>2, <1>3, <1>4, <1>5, Zenon
       DEF Next, TcpPacket, DatagramPacket, OtherPacket, Tick, vars

\* Both sides of a conversation are always tracked by the same session.
THEOREM OneSessionPerConversation == Spec => []NoMirrorSession
  <1>1. Init => NoMirrorSession
    BY DEF Init, NoMirrorSession
  <1>2. TrackerInv /\ NoMirrorSession /\ [Next]_vars => NoMirrorSession'
    <2> SUFFICES ASSUME TrackerInv, NoMirrorSession, [Next]_vars,
                        NEW k \in DOMAIN sessions', Reverse(k) \in DOMAIN sessions'
                 PROVE  Reverse(k) = k
      BY DEF NoMirrorSession, Reverse
    <2>1. CASE DOMAIN sessions' \subseteq DOMAIN sessions
      BY <2>1 DEF NoMirrorSession
    <2>2. ASSUME NEW key \in Keys, ~ Tracked(key),
                 DOMAIN sessions' \subseteq DOMAIN sessions \cup {key}
          PROVE  Reverse(k) = k
      <3>1. CASE k \in DOMAIN sessions /\ Reverse(k) \in DOMAIN sessions
        BY <3>1 DEF NoMirrorSession
      <3>2. CASE k = key /\ Reverse(k) = key
        BY <3>2
      <3>3. CASE k = key /\ Reverse(k) \in DOMAIN sessions
        BY <2>2, <3>3 DEF Tracked
      <3>4. CASE k \in DOMAIN sessions /\ Reverse(k) = key
        <4>1. Reverse(key) = k
          BY <3>4, ReverseKey DEF TrackerInv, SessionsOK
        <4> QED BY <2>2, <3>4, <4>1 DEF Tracked
      <3> QED BY <2>2, <3>1, <3>2, <3>3, <3>4
    <2> QED BY <2>1, <2>2, DomainStep
  <1> QED BY <1>1, <1>2, TrackerInvariant, PTL DEF Spec

LEMMA SessionsFinite ==
  ASSUME TrackerInv
  PROVE  IsFiniteSet(DOMAIN sessions) /\ Cardinality(DOMAIN sessions) \in Nat
  BY KeysFinite, FS_Subset, FS_CardinalityType DEF TrackerInv, SessionsOK

LEMMA FewerSessions ==
  ASSUME NEW S, NEW T, IsFiniteSet(S), T \subseteq S
  PROVE  /\ IsFiniteSet(T)
         /\ Cardinality(T) \in Nat /\ Cardinality(S) \in Nat
         /\ Cardinality(T) <= Cardinality(S)
  BY FS_Subset, FS_CardinalityType

\* An insertion into a full map first takes out n \div Divisor sessions, which
\* is at least one as soon as the map holds Divisor sessions.
LEMMA RoomMade ==
  ASSUME TrackerInv, NEW old \in Evictions, NEW key
  PROVE  LET n == Cardinality(DOMAIN sessions)
             m == Cardinality((DOMAIN sessions \ old) \cup {key})
         IN /\ IsFiniteSet((DOMAIN sessions \ old) \cup {key})
            /\ m \in Nat
            /\ m <= n + 1
            /\ n >= MaxSessions /\ n >= Divisor => m <= n
  <1> DEFINE S == DOMAIN sessions
             n == Cardinality(S)
             kept == S \ old
             m == Cardinality(kept \cup {key})
  <1>1. IsFiniteSet(S) /\ n \in Nat
    BY SessionsFinite
  <1>2. IsFiniteSet(kept) /\ Cardinality(kept) \in Nat /\ Cardinality(kept) <= n
    BY <1>1, FewerSessions
  <1>3. /\ IsFiniteSet(kept \cup {key})
        /\ m = IF key \in kept THEN Cardinality(kept) ELSE Cardinality(kept) + 1
    BY <1>2, FS_AddElement
  <1>4. ASSUME n >= MaxSessions, n >= Divisor
        PROVE  Cardinality(kept) <= n - 1
    <2>1. old \subseteq S /\ Cardinality(old) = n \div Divisor
      BY <1>4 DEF Evictions, OldestSessions
    <2>2. S \cap old = old
      BY <2>1
    <2>3. Cardinality(kept) = n - n \div Divisor
      <3>1. Cardinality(S \ old) = Cardinality(S) - Cardinality(S \cap old)
        BY <1>1, FS_Difference, Zenon
      <3> QED BY <2>1, <2>2, <3>1, Zenon
    <2>4. n \div Divisor >= 1
      <3> HIDE DEF n
      <3>1. Divisor \in Nat /\ Divisor > 0
        BY ConfigAssumption
      <3> QED BY <1>1, <1>4, <3>1
    <2>5. n \div Divisor \in Int
      BY <1>1, ConfigAssumption
    <2> QED BY <1>1, <2>3, <2>4, <2>5
  <1> HIDE DEF S, n, kept, m
  <1>5. m \in Nat /\ m <= n + 1 /\ (n >= MaxSessions /\ n >= Divisor => m <= n)
    BY <1>1, <1>2, <1>3, <1>4
  <1> QED BY <1>3, <1>5 DEF S, n, kept, m

\* The session map stays bounded by max_sessions, or by ten where a tenth of
\* max_sessions rounds down to nothing.
THEOREM SessionsBounded == Spec => []BoundedSessions
  <1>1. Init => BoundedSessions
    BY FS_EmptySet, ConfigAssumption DEF Init, BoundedSessions
  <1>2. TrackerInv /\ BoundedSessions /\ [Next]_vars => BoundedSessions'
    <2> SUFFICES ASSUME TrackerInv, BoundedSessions, [Next]_vars
                 PROVE  BoundedSessions'
      OBVIOUS
    <2> DEFINE n == Cardinality(DOMAIN sessions)
    <2>1. IsFiniteSet(DOMAIN sessions) /\ n \in Nat
      BY SessionsFinite
    <2>2. CASE DOMAIN sessions' \subseteq DOMAIN sessions
      <3>1. Cardinality(DOMAIN sessions') \in Nat /\ Cardinality(DOMAIN sessions') <= n
        BY <2>1, <2>2, FewerSessions
      <3> QED BY <2>1, <3>1, ConfigAssumption DEF BoundedSessions
    <2>3. ASSUME NEW key \in Keys, NEW old \in Evictions,
                 DOMAIN sessions' \subseteq (DOMAIN sessions \ old) \cup {key}
          PROVE  BoundedSessions'
      <3> DEFINE m == Cardinality((DOMAIN sessions \ old) \cup {key})
                 after == Cardinality(DOMAIN sessions')
      <3>1. /\ IsFiniteSet((DOMAIN sessions \ old) \cup {key})
            /\ m \in Nat /\ m <= n + 1
            /\ n >= MaxSessions /\ n >= Divisor => m <= n
        BY RoomMade
      <3>2. after \in Nat /\ after <= m
        BY <2>3, <3>1, FewerSessions
      <3>3. n <= MaxSessions \/ n <= Divisor
        BY DEF BoundedSessions
      <3> HIDE DEF m, n, after
      <3>4. after <= MaxSessions \/ after <= Divisor
        BY <2>1, <3>1, <3>2, <3>3, ConfigAssumption
      <3> QED BY <3>4 DEF BoundedSessions, after
    <2> QED BY <2>2, <2>3, DomainStep
  <1> QED BY <1>1, <1>2, TrackerInvariant, PTL DEF Spec

\* The map of sessions is right: the two theorems above together.
THEOREM MapRight == Spec => []MapIsRight
  BY OneSessionPerConversation, SessionsBounded, PTL DEF MapIsRight

--------------------------------------------------------------------------------
(***************************************************************************)
(* What one call of process_packet may do to a session.                    *)
(***************************************************************************)

\* After a successful call that put session under key into the map all.
LEMMA ReturnEffect ==
  ASSUME NEW all, NEW key, NEW session, Return(key, Put(all, key, session))
  PROVE  /\ result' = key
         /\ \A k \in DOMAIN all \ {key} :
              \/ k \in DOMAIN sessions' /\ sessions'[k] = all[k]
              \/ k \notin DOMAIN sessions' /\ ~ Keeps(k, all[k], now')
         /\ \/ key \in DOMAIN sessions' /\ sessions'[key] = session
            \/ key \notin DOMAIN sessions' /\ ~ Keeps(key, session, now')
  <1> DEFINE put == Put(all, key, session)
  <1>1. /\ DOMAIN put = DOMAIN all \cup {key} /\ put[key] = session
        /\ \A k \in DOMAIN all \ {key} : put[k] = all[k]
    BY DEF Put
  <1>2. result' = key /\ sessions' = Cleanup(put, now')
    BY DEF Return
  <1> HIDE DEF put
  <1>3. /\ \A k \in DOMAIN sessions' : sessions'[k] = put[k]
        /\ \A k \in DOMAIN put : k \in DOMAIN sessions' <=> Keeps(k, put[k], now')
    BY <1>2 DEF Cleanup
  <1>4. ASSUME NEW k \in DOMAIN all \ {key}
        PROVE  \/ k \in DOMAIN sessions' /\ sessions'[k] = all[k]
               \/ k \notin DOMAIN sessions' /\ ~ Keeps(k, all[k], now')
    BY <1>1, <1>3, Zenon
  <1>5. \/ key \in DOMAIN sessions' /\ sessions'[key] = session
        \/ key \notin DOMAIN sessions' /\ ~ Keeps(key, session, now')
    BY <1>1, <1>3, Zenon
  <1> QED BY <1>2, <1>4, <1>5, Zenon

\* A session without a TcpFlow is only ever New.
DatagramsNew ==
  \A k \in DOMAIN sessions : k.protocol # "TCP" => sessions[k].state = "New"

\* What a step does to another session than the packet's own.
Kept(k) == k \in DOMAIN sessions' /\ sessions'[k] = sessions[k]

Evicted(k) ==
  k \notin DOMAIN sessions' /\ Cardinality(DOMAIN sessions) >= MaxSessions

Expired(k) == k \notin DOMAIN sessions' /\ IsTimeout(k, sessions[k], now')

\* The call returns the id of the session under key, which it made session.
Recorded(key, session) ==
  /\ result' = key /\ session.last_activity = now
  /\ \/ key \in DOMAIN sessions' /\ sessions'[key] = session
     \/ key \notin DOMAIN sessions' /\ ~ Keeps(key, session, now')

\* The outcomes of a call, and of a tick of the clock.
RecordsNothing == sessions' = sessions /\ result' = NoSession

OnlyEvicts ==
  /\ result' = Failed
  /\ DOMAIN sessions' \subseteq DOMAIN sessions
  /\ \A k \in DOMAIN sessions : Kept(k) \/ Evicted(k)

RefusesFor(key) ==
  /\ result' = Failed
  /\ key.protocol = "TCP"
  /\ key \in DOMAIN sessions /\ DOMAIN sessions' = DOMAIN sessions
  /\ sessions'[key].state = sessions[key].state
  /\ \A k \in DOMAIN sessions \ {key} : Kept(k)

Creates(key, session) ==
  /\ key \in Keys \ DOMAIN sessions
  /\ Recorded(key, session) /\ session.state = "New"
  /\ DOMAIN sessions' \subseteq DOMAIN sessions \cup {key}
  /\ \A k \in DOMAIN sessions : Kept(k) \/ Evicted(k) \/ Expired(k)

NextState(key, state) ==
  \/ key.protocol # "TCP" /\ state = "New"
  \/ /\ key.protocol = "TCP"
     /\ \E dir, flags :
          state = SyncState(sessions[key].state,
                            UpdateState(sessions[key].tcp_flow.state, dir, flags))

Updates(key, session) ==
  /\ key \in DOMAIN sessions
  /\ Recorded(key, session) /\ NextState(key, session.state)
  /\ DOMAIN sessions' \subseteq DOMAIN sessions
  /\ \A k \in DOMAIN sessions \ {key} : Kept(k) \/ Expired(k)

Outcome ==
  \/ RecordsNothing
  \/ OnlyEvicts
  \/ \E key \in Keys : RefusesFor(key)
  \/ \E key \in Keys : \E session : Creates(key, session) \/ Updates(key, session)

\* No session in the map reads Closed, so that cleanup only expires the others.
LEMMA NotKeptExpired ==
  ASSUME TrackerInv, NEW k \in DOMAIN sessions, NEW time, ~ Keeps(k, sessions[k], time)
  PROVE  IsTimeout(k, sessions[k], time)
  <1>1. StateAgrees(sessions[k])
    BY DEF TrackerInv, SessionsOK, SessionOK
  <1> QED BY <1>1 DEF StateAgrees, Keeps

LEMMA EvictionCause ==
  ASSUME NEW old \in Evictions, NEW k \in old
  PROVE  Cardinality(DOMAIN sessions) >= MaxSessions
  BY DEF Evictions

LEMMA CreateOutcome ==
  ASSUME TrackerInv, NEW key \in Keys, ~ Tracked(key), NEW old \in Evictions,
         NEW session, session.state = "New", session.last_activity = now,
         Return(key, Put(Without(old), key, session))
  PROVE  Creates(key, session)
  <1>1. key \notin DOMAIN sessions
    BY DEF Tracked
  <1>2. DOMAIN sessions' \subseteq DOMAIN sessions \cup {key}
    <2>1. DOMAIN Put(Without(old), key, session) = (DOMAIN sessions \ old) \cup {key}
      BY DEF Put, Without
    <2> QED BY <2>1, DomainCleanup DEF Return
  <1>3. Recorded(key, session)
    BY ReturnEffect, Zenon DEF Recorded
  <1>4. ASSUME NEW k \in DOMAIN sessions PROVE Kept(k) \/ Evicted(k) \/ Expired(k)
    <2>1. CASE k \in old
      <3>1. k \notin DOMAIN sessions'
        <4>1. k \notin DOMAIN Put(Without(old), key, session)
          BY <1>1, <2>1 DEF Put, Without
        <4> QED BY <4>1, DomainCleanup DEF Return
      <3> QED BY <2>1, <3>1, EvictionCause DEF Evicted
    <2>2. CASE k \notin old
      <3>1. k \in DOMAIN Without(old) \ {key} /\ Without(old)[k] = sessions[k]
        BY <1>1, <2>2, DomainWithout
      <3>2. \/ k \in DOMAIN sessions' /\ sessions'[k] = sessions[k]
            \/ k \notin DOMAIN sessions' /\ ~ Keeps(k, sessions[k], now')
        <4>1. \/ k \in DOMAIN sessions' /\ sessions'[k] = Without(old)[k]
              \/ k \notin DOMAIN sessions' /\ ~ Keeps(k, Without(old)[k], now')
          BY <3>1, ReturnEffect, Zenon
        <4> QED BY <3>1, <4>1, Zenon
      <3> QED BY <3>2, NotKeptExpired, Zenon DEF Kept, Expired
    <2> QED BY <2>1, <2>2
  <1> QED BY <1>1, <1>2, <1>3, <1>4 DEF Creates

LEMMA UpdateOutcome ==
  ASSUME TrackerInv, NEW key \in DOMAIN sessions,
         NEW session, session.last_activity = now, NextState(key, session.state),
         Return(key, Put(sessions, key, session))
  PROVE  Updates(key, session)
  <1>1. DOMAIN sessions' \subseteq DOMAIN sessions
    <2>1. DOMAIN Put(sessions, key, session) = DOMAIN sessions
      BY DEF Put
    <2> QED BY <2>1, DomainCleanup DEF Return
  <1>2. Recorded(key, session)
    BY ReturnEffect, Zenon DEF Recorded
  <1>3. ASSUME NEW k \in DOMAIN sessions \ {key} PROVE Kept(k) \/ Expired(k)
    <2>1. \/ k \in DOMAIN sessions' /\ sessions'[k] = sessions[k]
          \/ k \notin DOMAIN sessions' /\ ~ Keeps(k, sessions[k], now')
      BY ReturnEffect, Zenon
    <2> QED BY <2>1, NotKeptExpired, Zenon DEF Kept, Expired
  <1> QED BY <1>1, <1>2, <1>3 DEF Updates

LEMMA StepOutcome ==
  ASSUME TrackerInv, Next
  PROVE  Outcome
  <1>1. ASSUME NEW key \in Keys, NEW flags, NEW data, CreateTcpSession(key, flags, data)
        PROVE  Outcome
    <2>1. PICK old \in Evictions :
            Return(key, Put(Without(old), key, FirstSession(key, flags)))
      BY <1>1, Zenon DEF CreateTcpSession
    <2>2. FirstSession(key, flags).state = "New"
          /\ FirstSession(key, flags).last_activity = now
      BY DEF FirstSession
    <2>3. ~ Tracked(key)
      BY <1>1 DEF CreateTcpSession
    <2> QED BY <2>1, <2>2, <2>3, CreateOutcome DEF Outcome
  <1>2. ASSUME NEW key \in Keys, CreateSession(key) PROVE Outcome
    <2>1. PICK old \in Evictions : Return(key, Put(Without(old), key, DatagramSession))
      BY <1>2, Zenon DEF CreateSession
    <2>2. DatagramSession.state = "New" /\ DatagramSession.last_activity = now
      BY DEF DatagramSession
    <2>3. ~ Tracked(key)
      BY <1>2 DEF CreateSession
    <2> QED BY <2>1, <2>2, <2>3, CreateOutcome DEF Outcome
  <1>3. ASSUME NEW key \in Keys, NEW flags, FailCreate(key, flags) PROVE Outcome
    <2>1. PICK old \in Evictions : sessions' = Without(old)
      BY <1>3, Zenon DEF FailCreate
    <2>2. ASSUME NEW k \in DOMAIN sessions PROVE Kept(k) \/ Evicted(k)
      BY <2>1, DomainWithout, EvictionCause DEF Kept, Evicted
    <2> QED BY <1>3, <2>1, <2>2, DomainWithout DEF FailCreate, OnlyEvicts, Outcome
  <1>4. ASSUME NEW key \in Keys, NEW flags, NEW data,
               key.protocol = "TCP", UpdateTcpSession(key, flags, data)
        PROVE  Outcome
    <2> DEFINE k == ActualKey(key)
               session == UpdatedSession(key, flags)
    <2>1. k \in DOMAIN sessions /\ k \in Keys
      BY <1>4, ActualKeyTracked DEF UpdateTcpSession
    <2>2. k.protocol = "TCP"
      BY <1>4 DEF ActualKey, Reverse
    <2>3. /\ session.last_activity = now
          /\ session.state = SyncState(sessions[k].state,
               UpdateState(sessions[k].tcp_flow.state, Direction(k, key), flags))
      BY DEF UpdatedSession, AfterSegment
    <2>4. Return(k, Put(sessions, k, session))
      BY <1>4, Zenon DEF UpdateTcpSession
    <2> HIDE DEF k, session
    <2>5. NextState(k, session.state)
      BY <2>2, <2>3, Zenon DEF NextState
    <2> QED BY <2>1, <2>3, <2>4, <2>5, UpdateOutcome DEF Outcome
  <1>5. ASSUME NEW key \in Keys, key.protocol # "TCP", UpdateSession(key) PROVE Outcome
    <2> DEFINE k == ActualKey(key)
    <2>1. k \in DOMAIN sessions /\ k \in Keys
      BY <1>5, ActualKeyTracked DEF UpdateSession
    <2>2. k.protocol # "TCP"
      BY <1>5 DEF ActualKey, Reverse
    <2>3. DatagramSession.last_activity = now /\ DatagramSession.state = "New"
      BY DEF DatagramSession
    <2>4. Return(k, Put(sessions, k, DatagramSession))
      BY <1>5, Zenon DEF UpdateSession
    <2> HIDE DEF k
    <2>5. NextState(k, DatagramSession.state)
      BY <2>2, <2>3 DEF NextState
    <2> QED BY <2>1, <2>3, <2>4, <2>5, UpdateOutcome DEF Outcome
  <1>6. ASSUME NEW key \in Keys, NEW flags, key.protocol = "TCP", FailUpdate(key, flags)
        PROVE  Outcome
    <2> DEFINE k == ActualKey(key)
               session == UnsyncedSession(key, flags)
    <2>1. k \in DOMAIN sessions /\ k \in Keys
      BY <1>6, ActualKeyTracked DEF FailUpdate
    <2>2. k.protocol = "TCP"
      BY <1>6 DEF ActualKey, Reverse
    <2>3. session.state = sessions[k].state
      BY DEF UnsyncedSession
    <2>4. sessions' = Put(sessions, k, session) /\ result' = Failed
      BY <1>6, Zenon DEF FailUpdate
    <2> HIDE DEF k, session
    <2>5. /\ DOMAIN sessions' = DOMAIN sessions /\ sessions'[k] = session
          /\ \A l \in DOMAIN sessions \ {k} : sessions'[l] = sessions[l]
      BY <2>1, <2>4 DEF Put
    <2> QED BY <2>1, <2>2, <2>3, <2>4, <2>5 DEF RefusesFor, Kept, Outcome
  <1>7. CASE OtherPacket \/ Tick
    BY <1>7 DEF OtherPacket, Tick, RecordsNothing, Outcome
  <1> QED
    BY <1>1, <1>2, <1>3, <1>4, <1>5, <1>6, <1>7, Zenon
       DEF Next, TcpPacket, DatagramPacket

DatagramInv == TrackerInv /\ DatagramsNew

LEMMA DatagramInvariant == Spec => []DatagramInv
  <1>1. Init => DatagramsNew
    BY DEF Init, DatagramsNew
  <1>2. TrackerInv /\ DatagramsNew /\ [Next]_vars => DatagramsNew'
    <2> SUFFICES ASSUME TrackerInv, DatagramsNew, [Next]_vars,
                        NEW k \in DOMAIN sessions', k.protocol # "TCP"
                 PROVE  sessions'[k].state = "New"
      BY DEF DatagramsNew
    <2>1. k \in DOMAIN sessions => sessions[k].state = "New"
      BY DEF DatagramsNew
    <2>2. CASE UNCHANGED vars \/ RecordsNothing
      BY <2>1, <2>2 DEF vars, RecordsNothing
    <2>3. CASE OnlyEvicts
      BY <2>1, <2>3 DEF OnlyEvicts, Kept, Evicted
    <2>4. ASSUME NEW key \in Keys, RefusesFor(key) PROVE sessions'[k].state = "New"
      BY <2>1, <2>4 DEF RefusesFor, Kept
    <2>5. ASSUME NEW key \in Keys, NEW session, Creates(key, session)
          PROVE  sessions'[k].state = "New"
      BY <2>1, <2>5 DEF Creates, Recorded, Kept, Evicted, Expired
    <2>6. ASSUME NEW key \in Keys, NEW session, Updates(key, session)
          PROVE  sessions'[k].state = "New"
      BY <2>1, <2>6 DEF Updates, Recorded, NextState, Kept, Expired
    <2> QED BY <2>2, <2>3, <2>4, <2>5, <2>6, StepOutcome DEF Outcome
  <1> QED BY <1>1, <1>2, TrackerInvariant, PTL DEF Spec, DatagramInv

\* A session in the map never goes back to an earlier state.
LEMMA SyncStateProgress ==
  ASSUME NEW s \in Session, StateAgrees(s), NEW dir, NEW flags
  PROVE  Rank[s.state] <=
           Rank[SyncState(s.state, UpdateState(s.tcp_flow.state, dir, flags))]
  <1> DEFINE tcp == UpdateState(s.tcp_flow.state, dir, flags)
  <1>1. SyncState(s.state, tcp) \in SessionState
    BY SessionFields DEF SyncState, SessionState
  <1>2. CASE s.state = "New"
    BY <1>1, <1>2 DEF Rank, SessionState
  <1>3. CASE s.state = "Established"
    <2>1. tcp \in {"Established", "FinWait1", "CloseWait", "LastAck", "Closed"}
      BY <1>3, UpdateStateArms DEF StateAgrees
    <2>2. SyncState(s.state, tcp) \in {"Established", "Closing", "Closed"}
      BY <1>3, <2>1 DEF SyncState
    <2> QED BY <1>3, <2>2 DEF Rank
  <1>4. CASE s.state = "Closing"
    <2>1. tcp \in {"FinWait1", "FinWait2", "Closing", "LastAck", "TimeWait", "Closed"}
      BY <1>4, UpdateStateArms DEF StateAgrees
    <2>2. SyncState(s.state, tcp) \in {"Closing", "Closed"}
      BY <1>4, <2>1 DEF SyncState
    <2> QED BY <1>4, <2>2 DEF Rank
  <1> QED BY <1>2, <1>3, <1>4 DEF StateAgrees

THEOREM NeverReopens == Spec => SessionNeverReopens
  <1>1. DatagramInv /\ [Next]_vars =>
          [\A k \in DOMAIN sessions \cap DOMAIN sessions' :
             Rank[sessions[k].state] <= Rank[sessions'[k].state]]_vars
    <2> SUFFICES ASSUME DatagramInv, Next, NEW k \in DOMAIN sessions \cap DOMAIN sessions'
                 PROVE  Rank[sessions[k].state] <= Rank[sessions'[k].state]
      OBVIOUS
    <2>1. sessions[k] \in Session /\ StateAgrees(sessions[k])
      BY DEF DatagramInv, TrackerInv, SessionsOK, SessionOK
    <2>2. CASE sessions'[k].state = sessions[k].state
      BY <2>1, <2>2, SessionFields DEF Rank, SessionState
    <2>3. CASE RecordsNothing
      BY <2>2, <2>3 DEF RecordsNothing
    <2>4. CASE OnlyEvicts
      BY <2>2, <2>4 DEF OnlyEvicts, Kept, Evicted
    <2>5. ASSUME NEW key \in Keys, RefusesFor(key)
          PROVE  Rank[sessions[k].state] <= Rank[sessions'[k].state]
      BY <2>2, <2>5 DEF RefusesFor, Kept
    <2>6. ASSUME NEW key \in Keys, NEW session, Creates(key, session)
          PROVE  Rank[sessions[k].state] <= Rank[sessions'[k].state]
      BY <2>2, <2>6 DEF Creates, Kept, Evicted, Expired
    <2>7. ASSUME NEW key \in Keys, NEW session, Updates(key, session)
          PROVE  Rank[sessions[k].state] <= Rank[sessions'[k].state]
      <3>1. CASE k # key
        BY <2>2, <2>7, <3>1 DEF Updates, Kept, Expired
      <3>2. CASE k = key
        <4>1. sessions'[k] = session /\ NextState(k, session.state)
          BY <2>7, <3>2 DEF Updates, Recorded
        <4>2. CASE k.protocol # "TCP"
          BY <2>2, <4>1, <4>2 DEF DatagramInv, DatagramsNew, NextState
        <4>3. CASE k.protocol = "TCP"
          BY <2>1, <4>1, <4>3, SyncStateProgress DEF NextState
        <4> QED BY <4>2, <4>3
      <3> QED BY <3>1, <3>2
    <2> QED BY <2>3, <2>4, <2>5, <2>6, <2>7, StepOutcome DEF DatagramInv, Outcome
  <1> QED BY <1>1, DatagramInvariant, PTL DEF Spec, SessionNeverReopens

--------------------------------------------------------------------------------
(***************************************************************************)
(* What a packet may remove, and which session its call names: one lemma   *)
(* per outcome of process_packet, for the packet that explains the step.   *)
(***************************************************************************)
\* Only force_cleanup pushes sessions out, and only for an untracked key.
LEMMA EvictionsJustified ==
  ASSUME TrackerInv, NEW key \in Keys, NEW flags, ~ Tracked(key), NEW old \in Evictions,
         PushedOut(key, flags) \subseteq old,
         DOMAIN sessions \cap DOMAIN sessions' \subseteq DOMAIN sessions \ old
  PROVE  RemovesForCause(key, flags)
  <1> DEFINE pushed == PushedOut(key, flags)
             n == Cardinality(DOMAIN sessions)
  <1> SUFFICES ASSUME pushed # {}
               PROVE  /\ n >= MaxSessions
                      /\ Cardinality(pushed) <= n \div Divisor
                      /\ \A k \in pushed, l \in DOMAIN sessions \cap DOMAIN sessions' :
                           sessions[k].last_activity <= sessions[l].last_activity
    BY DEF RemovesForCause
  <1> HIDE DEF pushed
  <1>1. old # {}
    BY DEF pushed
  <1>2. n >= MaxSessions /\ old \in OldestSessions
    BY <1>1 DEF Evictions
  <1>3. /\ old \subseteq DOMAIN sessions
        /\ Cardinality(old) = n \div Divisor
        /\ \A k \in old, l \in DOMAIN sessions \ old :
             sessions[k].last_activity <= sessions[l].last_activity
    BY <1>2 DEF OldestSessions
  <1>4. Cardinality(pushed) <= Cardinality(old)
    <2>1. IsFiniteSet(old)
      BY <1>3, SessionsFinite, FS_Subset
    <2> QED BY <2>1, FewerSessions DEF pushed
  <1>5. \A k \in pushed, l \in DOMAIN sessions \cap DOMAIN sessions' :
          sessions[k].last_activity <= sessions[l].last_activity
    BY <1>3, Zenon DEF pushed
  <1> QED BY <1>2, <1>3, <1>4, <1>5

LEMMA CreateJustified ==
  ASSUME TrackerInv, NEW key \in Keys, NEW flags, ~ Tracked(key), NEW old \in Evictions,
         NEW session, Return(key, Put(Without(old), key, session))
  PROVE  RemovesForCause(key, flags)
  <1>1. /\ key \notin DOMAIN sessions /\ Reverse(key) \notin DOMAIN sessions
        /\ ActualKey(key) \notin DOMAIN sessions
    BY DEF Tracked, ActualKey
  <1>2. ASSUME NEW k \in DOMAIN sessions \ DOMAIN sessions', k \notin old
        PROVE  IdleAfter(k, key)
    <2>1. k \in DOMAIN Without(old) \ {key} /\ Without(old)[k] = sessions[k]
      BY <1>1, <1>2, DomainWithout
    <2>2. ~ Keeps(k, Without(old)[k], now')
      BY <1>2, <2>1, ReturnEffect, Zenon
    <2>3. IsTimeout(k, sessions[k], now')
      BY <2>1, <2>2, NotKeptExpired
    <2>4. k # ActualKey(key)
      BY <1>1
    <2> QED BY <2>3, <2>4 DEF IsTimeout, IdleAfter
  <1>3. PushedOut(key, flags) \subseteq old
    BY <1>2 DEF PushedOut
  <1>4. ASSUME NEW k \in DOMAIN sessions \cap DOMAIN sessions'
        PROVE  k \notin old
    <2>1. DOMAIN Put(Without(old), key, session) = (DOMAIN sessions \ old) \cup {key}
      BY DEF Put, Without
    <2>2. DOMAIN sessions' \subseteq (DOMAIN sessions \ old) \cup {key}
      BY <2>1, DomainCleanup DEF Return
    <2> QED BY <1>1, <2>2
  <1> QED BY <1>3, <1>4, EvictionsJustified

LEMMA FailCreateJustified ==
  ASSUME TrackerInv, NEW key \in Keys, NEW flags, FailCreate(key, flags)
  PROVE  RemovesForCause(key, flags)
  <1>1. PICK old \in Evictions : sessions' = Without(old)
    BY Zenon DEF FailCreate
  <1>2. DOMAIN sessions' = DOMAIN sessions \ old
    BY <1>1, DomainWithout
  <1>3. PushedOut(key, flags) \subseteq old
    BY <1>2 DEF PushedOut
  <1>4. ~ Tracked(key)
    BY DEF FailCreate
  <1> QED BY <1>2, <1>3, <1>4, EvictionsJustified

\* A call that updates session k = ActualKey(key) removes what is idle, and k
\* itself also when it closes.
LEMMA UpdateJustified ==
  ASSUME TrackerInv, NEW key \in Keys, NEW flags, Tracked(key), NEW session,
         session.last_activity = now,
         session.state = "Closed" => Closes(ActualKey(key), key, flags),
         Return(ActualKey(key), Put(sessions, ActualKey(key), session))
  PROVE  RemovesForCause(key, flags)
  <1> DEFINE actual == ActualKey(key)
  <1>1. actual \in DOMAIN sessions
    BY ActualKeyTracked
  <1>2. ASSUME NEW k \in DOMAIN sessions \ DOMAIN sessions', k # actual
        PROVE  IdleAfter(k, key)
    <2>1. ~ Keeps(k, sessions[k], now')
      BY <1>2, ReturnEffect, Zenon
    <2> QED BY <1>2, <2>1, NotKeptExpired DEF IsTimeout, IdleAfter
  <1>3. ASSUME actual \notin DOMAIN sessions'
        PROVE  IdleAfter(actual, key) \/ Closes(actual, key, flags)
    <2>1. ~ Keeps(actual, session, now')
      BY <1>3, ReturnEffect, Zenon
    <2> QED BY <2>1 DEF Keeps, IsTimeout, IdleAfter
  <1>4. PushedOut(key, flags) = {}
    BY <1>2, <1>3 DEF PushedOut
  <1> QED BY <1>4 DEF RemovesForCause

\* A TCP session reads Closed after the update only if the packet closed it.
LEMMA UpdatedCloses ==
  ASSUME TrackerInv, NEW key \in Keys, NEW flags, key.protocol = "TCP", Tracked(key),
         UpdatedSession(key, flags).state = "Closed"
  PROVE  Closes(ActualKey(key), key, flags)
  <1> DEFINE k == ActualKey(key)
             tcp == UpdateState(sessions[k].tcp_flow.state, Direction(k, key), flags)
  <1>1. k \in DOMAIN sessions
    BY ActualKeyTracked
  <1>2. StateAgrees(sessions[k])
    BY <1>1 DEF TrackerInv, SessionsOK, SessionOK
  <1>3. SyncState(sessions[k].state, tcp) = "Closed"
    BY DEF UpdatedSession, AfterSegment
  <1> HIDE DEF k, tcp
  <1>4. sessions[k].state # "Closed"
    BY <1>2 DEF StateAgrees
  <1>5. tcp = "Closed"
    BY <1>3, <1>4 DEF SyncState
  <1> QED BY <1>5 DEF Closes, k, tcp

LEMMA FailUpdateJustified ==
  ASSUME NEW key \in Keys, NEW flags, FailUpdate(key, flags)
  PROVE  RemovesForCause(key, flags)
  <1>1. ActualKey(key) \in DOMAIN sessions
    BY ActualKeyTracked DEF FailUpdate
  <1>2. sessions' = Put(sessions, ActualKey(key), UnsyncedSession(key, flags))
    BY Zenon DEF FailUpdate
  <1>3. DOMAIN sessions' = DOMAIN sessions
    BY <1>1, <1>2 DEF Put
  <1> QED BY <1>3 DEF RemovesForCause, PushedOut

LEMMA DatagramJustified ==
  ASSUME TrackerInv, NEW key \in Keys, DatagramPacket(key)
  PROVE  RemovesForCause(key, {})
  <1>1. CASE CreateSession(key)
    <2>1. PICK old \in Evictions : Return(key, Put(Without(old), key, DatagramSession))
      BY <1>1, Zenon DEF CreateSession
    <2>2. ~ Tracked(key)
      BY <1>1 DEF CreateSession
    <2> QED BY <2>1, <2>2, CreateJustified
  <1>2. CASE UpdateSession(key)
    <2>1. DatagramSession.last_activity = now /\ DatagramSession.state = "New"
      BY DEF DatagramSession
    <2>2. Tracked(key)
      BY <1>2 DEF UpdateSession
    <2>3. Return(ActualKey(key), Put(sessions, ActualKey(key), DatagramSession))
      BY <1>2, Zenon DEF UpdateSession
    <2>4. DatagramSession.state # "Closed"
      BY <2>1
    <2> QED BY <2>1, <2>2, <2>3, <2>4, UpdateJustified
  <1> QED BY <1>1, <1>2 DEF DatagramPacket

LEMMA TcpJustified ==
  ASSUME TrackerInv, NEW key \in Keys, NEW flags, NEW data, TcpPacket(key, flags, data)
  PROVE  RemovesForCause(key, flags)
  <1>1. CASE CreateTcpSession(key, flags, data)
    <2>1. PICK old \in Evictions :
            Return(key, Put(Without(old), key, FirstSession(key, flags)))
      BY <1>1, Zenon DEF CreateTcpSession
    <2>2. ~ Tracked(key)
      BY <1>1 DEF CreateTcpSession
    <2> QED BY <2>1, <2>2, CreateJustified
  <1>2. CASE UpdateTcpSession(key, flags, data)
    <2>1. UpdatedSession(key, flags).last_activity = now
      BY DEF UpdatedSession
    <2>2. Tracked(key) /\ key.protocol = "TCP"
      BY <1>2 DEF UpdateTcpSession, TcpPacket
    <2>3. Return(ActualKey(key), Put(sessions, ActualKey(key), UpdatedSession(key, flags)))
      BY <1>2, Zenon DEF UpdateTcpSession
    <2>4. UpdatedSession(key, flags).state = "Closed" => Closes(ActualKey(key), key, flags)
      BY <2>2, UpdatedCloses
    <2> QED BY <2>1, <2>2, <2>3, <2>4, UpdateJustified
  <1> QED BY <1>1, <1>2, FailCreateJustified, FailUpdateJustified, Zenon DEF TcpPacket

\* A session disappears only because it was idle, because a packet of its own
\* closed it, or because it was among the oldest of a full map that a packet of
\* no session met.
THEOREM RemovalsCaused == Spec => RemovedForCause
  <1>1. ASSUME TrackerInv, Next, ~ (DOMAIN sessions \subseteq DOMAIN sessions')
        PROVE  /\ ~ OtherPacket /\ ~ Tick
               /\ \A key \in Keys :
                    /\ RemovesForCause(key, {}) \/ ~ DatagramPacket(key)
                    /\ \A flags \in SegmentFlags :
                         RemovesForCause(key, flags) \/ \A data \in BOOLEAN : ~ TcpPacket(key, flags, data)
    <2>1. ~ OtherPacket /\ ~ Tick
      BY <1>1 DEF OtherPacket, Tick
    <2> QED BY <1>1, <2>1, DatagramJustified, TcpJustified, Zenon
  <1>2. TrackerInv /\ [Next]_vars =>
          [DOMAIN sessions \subseteq DOMAIN sessions' \/
             /\ ~ OtherPacket /\ ~ Tick
             /\ \A key \in Keys :
                  /\ RemovesForCause(key, {}) \/ ~ DatagramPacket(key)
                  /\ \A flags \in SegmentFlags :
                       RemovesForCause(key, flags) \/ \A data \in BOOLEAN : ~ TcpPacket(key, flags, data)]_vars
    BY <1>1, Zenon
  <1> QED BY <1>2, TrackerInvariant, PTL DEF Spec, RemovedForCause

LEMMA CallNames ==
  ASSUME NEW key \in Keys, NEW flags, NEW k \in {key, Reverse(key)}, NEW all, NEW session,
         session.last_activity = now,
         session.state = "Closed" => Closes(k, key, flags),
         Return(k, Put(all, k, session))
  PROVE  NamesSession(key, flags)
  <1>1. result' = k
    BY DEF Return
  <1>2. \/ k \in DOMAIN sessions' /\ sessions'[k] = session
        \/ ~ Keeps(k, session, now')
    BY ReturnEffect, Zenon
  <1>3. k.protocol = key.protocol
    BY DEF Reverse
  <1> QED BY <1>1, <1>2, <1>3 DEF Keeps, IsTimeout, NamesSession

LEMMA DatagramNames ==
  ASSUME NEW key \in Keys, DatagramPacket(key)
  PROVE  NamesSession(key, {})
  <1>1. DatagramSession.last_activity = now /\ DatagramSession.state # "Closed"
    BY DEF DatagramSession
  <1>2. ActualKey(key) \in {key, Reverse(key)}
    BY DEF ActualKey
  <1>3. CASE CreateSession(key)
    <2>1. PICK old \in Evictions : Return(key, Put(Without(old), key, DatagramSession))
      BY <1>3, Zenon DEF CreateSession
    <2> QED BY <1>1, <2>1, CallNames
  <1>4. CASE UpdateSession(key)
    <2>1. Return(ActualKey(key), Put(sessions, ActualKey(key), DatagramSession))
      BY <1>4, Zenon DEF UpdateSession
    <2> QED BY <1>1, <1>2, <2>1, CallNames
  <1> QED BY <1>3, <1>4 DEF DatagramPacket

LEMMA TcpNames ==
  ASSUME TrackerInv, NEW key \in Keys, NEW flags, NEW data, TcpPacket(key, flags, data),
         result' # Failed
  PROVE  NamesSession(key, flags)
  <1>1. CASE CreateTcpSession(key, flags, data)
    <2>1. PICK old \in Evictions :
            Return(key, Put(Without(old), key, FirstSession(key, flags)))
      BY <1>1, Zenon DEF CreateTcpSession
    <2>2. FirstSession(key, flags).last_activity = now
          /\ FirstSession(key, flags).state # "Closed"
      BY DEF FirstSession
    <2> QED BY <2>1, <2>2, CallNames
  <1>2. CASE UpdateTcpSession(key, flags, data)
    <2>1. UpdatedSession(key, flags).last_activity = now
      BY DEF UpdatedSession
    <2>2. Tracked(key) /\ key.protocol = "TCP"
      BY <1>2 DEF UpdateTcpSession, TcpPacket
    <2>3. Return(ActualKey(key), Put(sessions, ActualKey(key), UpdatedSession(key, flags)))
      BY <1>2, Zenon DEF UpdateTcpSession
    <2>4. UpdatedSession(key, flags).state = "Closed" => Closes(ActualKey(key), key, flags)
      BY <2>2, UpdatedCloses
    <2>5. ActualKey(key) \in {key, Reverse(key)}
      BY DEF ActualKey
    <2> QED BY <2>1, <2>3, <2>4, <2>5, CallNames
  <1> QED BY <1>1, <1>2 DEF TcpPacket, FailCreate, FailUpdate

\* The id returned names the session of the packet's conversation, which has
\* recorded the packet unless the packet closed it or it timed out at once.
THEOREM ReturnedIdCorrect == Spec => ReturnedIdNamesSession
  <1>1. ASSUME TrackerInv, result' \in Keys
        PROVE  \A key \in Keys :
                 /\ NamesSession(key, {}) \/ ~ DatagramPacket(key)
                 /\ \A flags \in SegmentFlags :
                      NamesSession(key, flags) \/ \A data \in BOOLEAN : ~ TcpPacket(key, flags, data)
    <2>1. result' # Failed
      BY <1>1, ResultAssumption
    <2> QED BY <1>1, <2>1, DatagramNames, TcpNames, Zenon
  <1>2. TrackerInv /\ [Next]_vars =>
          [result' \in Keys =>
             \A key \in Keys :
               /\ NamesSession(key, {}) \/ ~ DatagramPacket(key)
               /\ \A flags \in SegmentFlags :
                    NamesSession(key, flags) \/ \A data \in BOOLEAN : ~ TcpPacket(key, flags, data)]_vars
    BY <1>1, Zenon
  <1> QED BY <1>2, TrackerInvariant, PTL DEF Spec, ReturnedIdNamesSession
================================================================================
