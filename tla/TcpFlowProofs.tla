----------------------------- MODULE TcpFlowProofs -----------------------------
(***************************************************************************)
(* Proofs about a flow that sees any segments (TcpFlow), and about one     *)
(* that watches a real connection (TcpTap), for every division of the two  *)
(* streams into segments and any number of packets on the wire.            *)
(***************************************************************************)
EXTENDS TcpTap, TLAPS

--------------------------------------------------------------------------------
(***************************************************************************)
(* The operators of TcpStates.                                             *)
(***************************************************************************)
\* The arms of update_state, one line per current state.
LEMMA UpdateStateArms ==
  ASSUME NEW d, NEW flags
  PROVE  /\ UpdateState("Init", d, flags) \in {"Init", "SynSent", "Closed"}
         /\ UpdateState("SynSent", d, flags)
              \in {"SynSent", "SynReceived", "Closed"}
         /\ UpdateState("SynReceived", d, flags)
              \in {"SynReceived", "Established", "Closed"}
         /\ UpdateState("Established", d, flags)
              \in {"Established", "FinWait1", "CloseWait", "Closed"}
         /\ UpdateState("FinWait1", d, flags)
              \in {"FinWait1", "FinWait2", "Closing", "Closed"}
         /\ UpdateState("FinWait2", d, flags)
              \in {"FinWait2", "TimeWait", "Closed"}
         /\ UpdateState("CloseWait", d, flags)
              \in {"CloseWait", "LastAck", "Closed"}
         /\ UpdateState("Closing", d, flags)
              \in {"Closing", "TimeWait", "Closed"}
         /\ UpdateState("LastAck", d, flags) \in {"LastAck", "Closed"}
         /\ UpdateState("TimeWait", d, flags) = "Closed"
         /\ UpdateState("Closed", d, flags) = "Closed"
  BY SMT DEF UpdateState, FromSynReceived, FromFinWait1, FromFinWait2

LEMMA UpdateStateType ==
  ASSUME NEW s \in TcpState, NEW d, NEW flags
  PROVE  UpdateState(s, d, flags) \in TcpState
  BY UpdateStateArms DEF TcpState

\* update_state never goes back to an earlier phase of a connection's life.
LEMMA UpdateStateProgress ==
  ASSUME NEW s \in TcpState, NEW d, NEW flags
  PROVE  Progress[s] <= Progress[UpdateState(s, d, flags)]
  <1>1. CASE s \in {"Init", "SynSent", "SynReceived"}
    <2>1. CASE s = "Init" BY <2>1, UpdateStateArms DEF Progress
    <2>2. CASE s = "SynSent" BY <2>2, UpdateStateArms DEF Progress
    <2>3. CASE s = "SynReceived" BY <2>3, UpdateStateArms DEF Progress
    <2> QED BY <1>1, <2>1, <2>2, <2>3
  <1>2. CASE s \in {"Established", "FinWait1", "FinWait2", "CloseWait"}
    <2>1. CASE s = "Established" BY <2>1, UpdateStateArms DEF Progress
    <2>2. CASE s = "FinWait1" BY <2>2, UpdateStateArms DEF Progress
    <2>3. CASE s = "FinWait2" BY <2>3, UpdateStateArms DEF Progress
    <2>4. CASE s = "CloseWait" BY <2>4, UpdateStateArms DEF Progress
    <2> QED BY <1>2, <2>1, <2>2, <2>3, <2>4
  <1>3. CASE s \in {"Closing", "LastAck", "TimeWait", "Closed"}
    <2>1. CASE s = "Closing" BY <2>1, UpdateStateArms DEF Progress
    <2>2. CASE s = "LastAck" BY <2>2, UpdateStateArms DEF Progress
    <2>3. CASE s = "TimeWait" BY <2>3, UpdateStateArms DEF Progress
    <2>4. CASE s = "Closed" BY <2>4, UpdateStateArms DEF Progress
    <2> QED BY <1>3, <2>1, <2>2, <2>3, <2>4
  <1> QED BY <1>1, <1>2, <1>3 DEF TcpState

\* What the handshake states ask of the SYN that leads into them.
LEMMA UpdateStateHandshake ==
  ASSUME NEW s \in TcpState, NEW d, NEW flags
  PROVE  /\ UpdateState(s, d, flags) = "SynSent" =>
              s = "SynSent" \/ (s = "Init" /\ d = C2S /\ "SYN" \in flags)
         /\ UpdateState(s, d, flags) \notin {"Init", "SynSent", "Closed"} =>
              \/ s \notin {"Init", "SynSent", "Closed"}
              \/ s = "SynSent" /\ d = S2C /\ "SYN" \in flags
  <1>1. UpdateState("Init", d, flags) = "SynSent" => d = C2S /\ "SYN" \in flags
    BY SMT DEF UpdateState
  <1>2. UpdateState("SynSent", d, flags) = "SynReceived" =>
          d = S2C /\ "SYN" \in flags
    BY SMT DEF UpdateState
  <1> QED BY <1>1, <1>2, UpdateStateArms DEF TcpState

--------------------------------------------------------------------------------
(***************************************************************************)
(* Sequence numbers.                                                       *)
(***************************************************************************)
LEMMA WrappingAddType ==
  ASSUME NEW a \in SeqNum, NEW b \in SeqNum
  PROVE  WrappingAdd(a, b) \in SeqNum
  BY SeqModAssumption DEF WrappingAdd, SeqNum

\* Distinct positions of a stream have distinct sequence numbers, and advancing
\* next_seq by the length of a segment is advancing the position.
LEMMA SeqOfPosition ==
  ASSUME NEW d \in Dirs
  PROVE  /\ WrappingAdd(ISN[d], 1) \in SeqNum
         /\ SeqOf(d, 0) = WrappingAdd(ISN[d], 1)
         /\ \A p \in 0 .. StreamLen[d] : SeqOf(d, p) \in SeqNum
         /\ \A p, q \in 0 .. StreamLen[d] : SeqOf(d, p) = SeqOf(d, q) => p = q
         /\ \A p \in 0 .. StreamLen[d], n \in Nat :
              p + n <= StreamLen[d] =>
                WrappingAdd(SeqOf(d, p), n) = SeqOf(d, p + n)
  <1>1. ISN[d] \in SeqNum /\ StreamLen[d] \in SeqNum
    BY ISNAssumption, StreamLenAssumption
  <1>2. WrappingAdd(ISN[d], 1) \in SeqNum
    BY <1>1, SeqModAssumption DEF WrappingAdd, SeqNum
  <1> QED BY <1>1, <1>2, SeqModAssumption DEF SeqOf, WrappingAdd, SeqNum

\* What a data segment is.
LEMMA PayloadType ==
  ASSUME NEW d \in Dirs, NEW seg \in Segments[d]
  PROVE  /\ seg[1] \in Nat /\ seg[2] \in Nat \ {0}
         /\ seg[1] + seg[2] <= StreamLen[d]
         /\ seg[1] \in 0 .. StreamLen[d]
         /\ Payload(seg) \in Seq(Nat)
         /\ Len(Payload(seg)) = seg[2]
         /\ \A i \in 1 .. seg[2] : Payload(seg)[i] = seg[1] + i - 1
  <1>1. /\ seg \in Nat \X (Nat \ {0})
        /\ seg[1] + seg[2] <= StreamLen[d]
        /\ StreamLen[d] \in Nat
    BY SegmentsAssumption, StreamLenAssumption, SeqModAssumption DEF SeqNum
  <1>2. seg[1] \in Nat /\ seg[2] \in Nat \ {0}
    BY <1>1
  <1>3. seg[1] \in 0 .. StreamLen[d]
    BY <1>1, <1>2
  <1>4. Payload(seg) \in Seq(Nat) /\ Len(Payload(seg)) = seg[2]
    <2>1. \A i \in 1 .. seg[2] : seg[1] + i - 1 \in Nat
      BY <1>2
    <2> QED BY <1>2, <2>1 DEF Payload
  <1>5. \A i \in 1 .. seg[2] : Payload(seg)[i] = seg[1] + i - 1
    BY DEF Payload
  <1> QED BY <1>1, <1>2, <1>3, <1>4, <1>5

--------------------------------------------------------------------------------
(***************************************************************************)
(* Type correctness.  That next_seq stays a sequence number depends on     *)
(* what is in the buffers: every entry is a segment of the sender, filed   *)
(* under the sequence number of its first byte.                            *)
(***************************************************************************)
BufferOK ==
  \A d \in Dirs, s \in SeqNum :
    \/ segments[d][s] = << >>
    \/ \E seg \in Segments[d] :
         s = SeqOf(d, seg[1]) /\ segments[d][s] = Payload(seg)

TypeInv == TypeOK /\ BufferOK

LEMMA TypeInvInit == Init => TypeInv
  <1> SUFFICES ASSUME Init PROVE TypeOK /\ BufferOK
    BY DEF TypeInv
  <1>1. TypeOK
    BY SeqModAssumption DEF Init, TypeOK, Buffers, SeqNum, TcpState
  <1>2. BufferOK
    BY DEF Init, BufferOK
  <1> QED BY <1>1, <1>2

\* The entry TakeExpected consumes: it begins where next_seq points.
LEMMA ExpectedEntry ==
  ASSUME TypeInv, NEW d \in Dirs, IsFirst(d, next_seq[d])
  PROVE  \E seg \in Segments[d] :
           /\ next_seq[d] = SeqOf(d, seg[1])
           /\ segments[d][next_seq[d]] = Payload(seg)
           /\ Len(segments[d][next_seq[d]]) = seg[2]
           /\ seg[2] \in SeqNum
  <1>1. next_seq[d] \in SeqNum /\ segments[d][next_seq[d]] # << >>
    BY DEF IsFirst, Buffered
  <1>2. PICK seg \in Segments[d] :
          next_seq[d] = SeqOf(d, seg[1]) /\ segments[d][next_seq[d]] = Payload(seg)
    BY <1>1 DEF TypeInv, BufferOK
  <1>3. Len(Payload(seg)) = seg[2] /\ seg[1] \in Nat /\ seg[2] \in Nat \ {0}
        /\ seg[1] + seg[2] <= StreamLen[d]
    BY PayloadType
  <1>4. seg[2] \in SeqNum
    BY <1>3, StreamLenAssumption, SeqModAssumption DEF SeqNum
  <1> QED BY <1>2, <1>3, <1>4

LEMMA TypeInvNext == TypeInv /\ [Next]_vars => TypeInv'
  <1> SUFFICES ASSUME TypeInv, [Next]_vars PROVE TypeInv'
    OBVIOUS
  <1> USE DEF TypeInv, TypeOK, Buffers
  <1>1. ASSUME NEW d \in Dirs, NEW flags \in SUBSET Flags, AddSyn(d, flags)
        PROVE  TypeInv'
    <2>1. WrappingAdd(ISN[d], 1) \in SeqNum
      BY SeqOfPosition
    <2>2. TypeOK'
      BY <1>1, <2>1, UpdateStateType DEF AddSyn
    <2>3. BufferOK'
      BY <1>1 DEF AddSyn, BufferOK
    <2> QED BY <2>2, <2>3
  <1>2. ASSUME NEW d \in Dirs, NEW flags \in SUBSET Flags,
               NEW seg \in Segments[d], AddData(d, flags, seg)
        PROVE  TypeInv'
    <2>1. Payload(seg) \in Seq(Nat) /\ SeqOf(d, seg[1]) \in SeqNum
      BY PayloadType, SeqOfPosition
    <2>2. TypeOK'
      BY <1>2, <2>1, UpdateStateType DEF AddData, SetFin
    <2>3. BufferOK'
      BY <1>2, <2>1 DEF AddData, BufferOK
    <2> QED BY <2>2, <2>3
  <1>3. ASSUME NEW d \in Dirs, NEW flags \in SUBSET Flags, RejectData(d, flags)
        PROVE  TypeInv'
    BY <1>3, UpdateStateType DEF RejectData, streams, BufferOK
  <1>4. ASSUME NEW d \in Dirs, NEW flags \in SUBSET Flags, AddBare(d, flags)
        PROVE  TypeInv'
    BY <1>4, UpdateStateType, SMTT(30) DEF AddBare, SetFin, BufferOK
  <1>5. ASSUME NEW d \in Dirs, HasNewData(d)
        PROVE  TypeInv'
    BY <1>5 DEF HasNewData, streams, BufferOK
  <1>6. ASSUME NEW d \in Dirs, TakeExpected(d)
        PROVE  TypeInv'
    <2>1. WrappingAdd(next_seq[d], Len(segments[d][next_seq[d]])) \in SeqNum
      <3>1. IsFirst(d, next_seq[d])
        BY <1>6 DEF TakeExpected
      <3>2. Len(segments[d][next_seq[d]]) \in SeqNum
        BY <3>1, ExpectedEntry
      <3>3. next_seq[d] \in SeqNum
        BY <1>6
      <3> QED BY <3>2, <3>3, WrappingAddType
    <2>2. reassembled_data[d] \o segments[d][next_seq[d]] \in Seq(Nat)
      OBVIOUS
    <2>3. TypeOK'
      BY <1>6, <2>1, <2>2 DEF TakeExpected
    <2>4. BufferOK'
      BY <1>6 DEF TakeExpected, BufferOK
    <2> QED BY <2>3, <2>4
  <1>7. ASSUME NEW d \in Dirs, DropRetransmitted(d)
        PROVE  TypeInv'
    BY <1>7 DEF DropRetransmitted, BufferOK
  <1>8. ASSUME NEW d \in Dirs, StopReassembly(d)
        PROVE  TypeInv'
    BY <1>8 DEF StopReassembly, streams, BufferOK
  <1>9. CASE UNCHANGED vars
    BY <1>9 DEF vars, streams, BufferOK
  <1> QED
    BY <1>1, <1>2, <1>3, <1>4, <1>5, <1>6, <1>7, <1>8, <1>9 DEF Next, Reassemble

\* Every reachable TcpFlow is well typed; in particular next_seq is the exact
\* u32 the code computes, through any number of wraparounds.
THEOREM TypeCorrect == Spec => []TypeOK
  <1>1. Spec => []TypeInv
    BY TypeInvInit, TypeInvNext, PTL DEF Spec
  <1> QED BY <1>1, PTL DEF TypeInv

--------------------------------------------------------------------------------
(***************************************************************************)
(* Reassembly.  ReassembledIsPrefix is not inductive: it needs to know     *)
(* where next_seq points.                                                  *)
(***************************************************************************)
PositionOK ==
  \A d \in Dirs :
    /\ initial_seq[d] => next_seq[d] = SeqOf(d, Len(reassembled_data[d]))
    /\ ~ initial_seq[d] => /\ reassembled_data[d] = << >>
                           /\ \A s \in SeqNum : segments[d][s] = << >>

ReassemblyInv == TypeInv /\ PositionOK /\ ReassembledIsPrefix

LEMMA ReassemblyInvInit == Init => ReassemblyInv
  <1> SUFFICES ASSUME Init PROVE PositionOK /\ ReassembledIsPrefix
    BY TypeInvInit DEF ReassemblyInv
  <1>1. PositionOK
    BY DEF Init, PositionOK
  <1>2. ReassembledIsPrefix
    BY StreamLenAssumption DEF Init, ReassembledIsPrefix, SeqNum
  <1> QED BY <1>1, <1>2

LEMMA ReassemblyInvNext ==
  ASSUME ~ LateSyn
  PROVE  ReassemblyInv /\ [Next]_vars => ReassemblyInv'
  <1> SUFFICES ASSUME ReassemblyInv, [Next]_vars
               PROVE  PositionOK' /\ ReassembledIsPrefix'
    BY TypeInvNext DEF ReassemblyInv
  <1>0. TypeInv /\ TypeOK /\ PositionOK /\ ReassembledIsPrefix
    BY DEF ReassemblyInv, TypeInv
  <1>1. ASSUME NEW d \in Dirs, NEW flags \in SUBSET Flags, AddSyn(d, flags)
        PROVE  PositionOK' /\ ReassembledIsPrefix'
    <2>1. reassembled_data[d] = << >>
      BY <1>1 DEF AddSyn
    <2>2. next_seq'[d] = SeqOf(d, Len(reassembled_data'[d]))
      BY <1>0, <1>1, <2>1, SeqOfPosition DEF AddSyn, TypeOK
    <2>3. PositionOK'
      BY <1>0, <1>1, <2>2 DEF AddSyn, PositionOK, TypeOK
    <2>4. ReassembledIsPrefix'
      BY <1>0, <1>1 DEF AddSyn, ReassembledIsPrefix
    <2> QED BY <2>3, <2>4
  <1>2. ASSUME NEW d \in Dirs, NEW flags \in SUBSET Flags,
               NEW seg \in Segments[d], AddData(d, flags, seg)
        PROVE  PositionOK' /\ ReassembledIsPrefix'
    BY <1>0, <1>2 DEF AddData, PositionOK, ReassembledIsPrefix, TypeOK
  <1>3. ASSUME NEW d \in Dirs, NEW flags \in SUBSET Flags, RejectData(d, flags)
        PROVE  PositionOK' /\ ReassembledIsPrefix'
    BY <1>0, <1>3 DEF RejectData, streams, PositionOK, ReassembledIsPrefix
  <1>4. ASSUME NEW d \in Dirs, NEW flags \in SUBSET Flags, AddBare(d, flags)
        PROVE  PositionOK' /\ ReassembledIsPrefix'
    BY <1>0, <1>4 DEF AddBare, PositionOK, ReassembledIsPrefix
  <1>5. ASSUME NEW d \in Dirs, HasNewData(d)
        PROVE  PositionOK' /\ ReassembledIsPrefix'
    BY <1>0, <1>5 DEF HasNewData, streams, PositionOK, ReassembledIsPrefix
  <1>6. ASSUME NEW d \in Dirs, TakeExpected(d)
        PROVE  PositionOK' /\ ReassembledIsPrefix'
    <2> DEFINE data == segments[d][next_seq[d]]
               done == reassembled_data[d]
    <2>1. PICK seg \in Segments[d] :
            /\ next_seq[d] = SeqOf(d, seg[1])
            /\ data = Payload(seg)
            /\ Len(data) = seg[2]
      BY <1>0, <1>6, ExpectedEntry DEF TakeExpected
    <2>2. /\ seg[1] \in Nat /\ seg[2] \in Nat \ {0}
          /\ seg[1] + seg[2] <= StreamLen[d]
          /\ seg[1] \in 0 .. StreamLen[d]
          /\ \A i \in 1 .. seg[2] : data[i] = seg[1] + i - 1
      BY <2>1, PayloadType
    <2>3. done \in Seq(Nat) /\ data \in Seq(Nat) /\ Len(done) \in 0 .. StreamLen[d]
          /\ StreamLen[d] \in Nat
      BY <1>0, <2>1, PayloadType, StreamLenAssumption
         DEF TypeOK, ReassembledIsPrefix, SeqNum
    <2>4. initial_seq[d]
      <3>1. next_seq[d] \in SeqNum /\ data # << >>
        BY <1>6 DEF TakeExpected, IsFirst, Buffered
      <3> QED BY <1>0, <3>1 DEF PositionOK
    <2>5. seg[1] = Len(done)
      <3>1. SeqOf(d, seg[1]) = SeqOf(d, Len(done))
        BY <1>0, <2>1, <2>4 DEF PositionOK
      <3> QED BY <2>2, <2>3, <3>1, SeqOfPosition
    <2>6. Len(done \o data) = Len(done) + seg[2]
      <3>1. \A p, q \in Seq(Nat) : Len(p \o q) = Len(p) + Len(q)
        OBVIOUS
      <3> HIDE DEF data, done
      <3> QED BY <2>1, <2>3, <3>1
    <2>7. next_seq' = [next_seq EXCEPT ![d] = SeqOf(d, Len(done \o data))]
      <3>1. WrappingAdd(SeqOf(d, Len(done)), seg[2]) = SeqOf(d, Len(done) + seg[2])
        BY <2>2, <2>3, <2>5, SeqOfPosition
      <3> QED BY <1>6, <2>1, <2>5, <2>6, <3>1 DEF TakeExpected
    <2>8. \A i \in 1 .. Len(done \o data) : (done \o data)[i] = i - 1
      <3> SUFFICES ASSUME NEW i \in 1 .. Len(done \o data)
                   PROVE  (done \o data)[i] = i - 1
        OBVIOUS
      <3>1. CASE i <= Len(done)
        <4>1. (done \o data)[i] = done[i] /\ i \in 1 .. Len(done)
          BY <2>3, <3>1
        <4> QED BY <1>0, <4>1 DEF ReassembledIsPrefix
      <3>2. CASE i > Len(done)
        <4>1. /\ (done \o data)[i] = data[i - Len(done)]
              /\ i - Len(done) \in 1 .. seg[2]
          BY <2>1, <2>2, <2>3, <2>6, <3>2
        <4> QED BY <2>2, <2>3, <2>5, <4>1
      <3> QED BY <2>3, <3>1, <3>2
    <2>9. reassembled_data' = [reassembled_data EXCEPT ![d] = done \o data]
      BY <1>6 DEF TakeExpected
    <2>10. PositionOK'
      <3> HIDE DEF data, done
      <3>1. UNCHANGED initial_seq /\ \A e \in Dirs \ {d} : segments'[e] = segments[e]
        BY <1>0, <1>6 DEF TakeExpected, TypeOK
      <3> QED BY <1>0, <2>4, <2>7, <2>9, <3>1 DEF PositionOK, TypeOK
    <2>11. ReassembledIsPrefix'
      <3> HIDE DEF data, done
      <3>1. Len(done \o data) <= StreamLen[d]
        BY <2>2, <2>5, <2>6
      <3> QED BY <1>0, <2>8, <2>9, <3>1 DEF ReassembledIsPrefix, TypeOK
    <2> QED BY <2>10, <2>11
  <1>7. ASSUME NEW d \in Dirs, DropRetransmitted(d)
        PROVE  PositionOK' /\ ReassembledIsPrefix'
    BY <1>0, <1>7 DEF DropRetransmitted, PositionOK, ReassembledIsPrefix, TypeOK, Buffers
  <1>8. ASSUME NEW d \in Dirs, StopReassembly(d)
        PROVE  PositionOK' /\ ReassembledIsPrefix'
    BY <1>0, <1>8 DEF StopReassembly, streams, PositionOK, ReassembledIsPrefix
  <1>9. CASE UNCHANGED vars
    BY <1>0, <1>9 DEF vars, streams, PositionOK, ReassembledIsPrefix
  <1> QED
    BY <1>1, <1>2, <1>3, <1>4, <1>5, <1>6, <1>7, <1>8, <1>9 DEF Next, Reassemble

\* As long as no copy of a SYN arrives once data has been delivered,
\* get_reassembled_data is a prefix of what the endpoint sent, for streams of
\* any length, cut into segments at any boundaries, reordered, repeated or lost,
\* and across the wraparound of sequence numbers.
THEOREM ReassemblyCorrect == ~ LateSyn => (Spec => []ReassembledIsPrefix)
  <1> SUFFICES ASSUME ~ LateSyn PROVE Spec => []ReassembledIsPrefix
    OBVIOUS
  <1>1. ReassemblyInv /\ [Next]_vars => ReassemblyInv'
    BY ReassemblyInvNext
  <1> QED BY <1>1, ReassemblyInvInit, PTL DEF Spec, ReassemblyInv

--------------------------------------------------------------------------------
(***************************************************************************)
(* The handshake, progress, and the summary the session tracker relies on. *)
(***************************************************************************)

\* What every step does to the state machine and to the synced bits.
LEMMA StepIsSegmentOrStutter ==
  ASSUME TypeOK, [Next]_vars
  PROVE  \/ \E d \in Dirs, flags \in SUBSET Flags :
              /\ state' = UpdateState(state, d, flags)
              /\ initial_seq' = [initial_seq EXCEPT ![d] = @ \/ "SYN" \in flags]
         \/ UNCHANGED <<state, initial_seq>>
  <1>1. ASSUME NEW d \in Dirs, NEW flags \in SUBSET Flags, AddSyn(d, flags)
        PROVE  /\ state' = UpdateState(state, d, flags)
               /\ initial_seq' = [initial_seq EXCEPT ![d] = @ \/ "SYN" \in flags]
    <2>1. (initial_seq[d] \/ "SYN" \in flags) = TRUE
      BY <1>1 DEF AddSyn
    <2> QED BY <1>1, <2>1, Zenon DEF AddSyn
  <1>2. ASSUME NEW d \in Dirs, NEW flags \in SUBSET Flags,
               "SYN" \notin flags, UNCHANGED initial_seq,
               state' = UpdateState(state, d, flags)
        PROVE  /\ state' = UpdateState(state, d, flags)
               /\ initial_seq' = [initial_seq EXCEPT ![d] = @ \/ "SYN" \in flags]
    <2>1. (initial_seq[d] \/ "SYN" \in flags) = initial_seq[d]
      BY <1>2 DEF TypeOK
    <2>2. [initial_seq EXCEPT ![d] = initial_seq[d]] = initial_seq
      BY DEF TypeOK
    <2> QED BY <1>2, <2>1, <2>2, Zenon
  <1>3. ASSUME NEW d \in Dirs, Reassemble(d) \/ HasNewData(d)
        PROVE  UNCHANGED <<state, initial_seq>>
    BY <1>3 DEF Reassemble, TakeExpected, DropRetransmitted, StopReassembly,
                HasNewData, streams
  <1>4. CASE UNCHANGED vars
    BY <1>4 DEF vars, streams
  <1>5. CASE Next
    <2>1. PICK d \in Dirs :
            \/ \E flags \in SUBSET Flags :
                 \/ AddSyn(d, flags)
                 \/ \E seg \in Segments[d] : AddData(d, flags, seg)
                 \/ RejectData(d, flags)
                 \/ AddBare(d, flags)
            \/ HasNewData(d)
            \/ Reassemble(d)
      BY <1>5, Zenon DEF Next
    <2>2. ASSUME NEW flags \in SUBSET Flags,
                 \/ \E seg \in Segments[d] : AddData(d, flags, seg)
                 \/ RejectData(d, flags)
                 \/ AddBare(d, flags)
          PROVE  /\ "SYN" \notin flags
                 /\ UNCHANGED initial_seq
                 /\ state' = UpdateState(state, d, flags)
      BY <2>2, Zenon DEF AddData, RejectData, AddBare, streams
    <2> QED BY <1>1, <1>2, <1>3, <2>1, <2>2, Zenon
  <1> QED BY <1>4, <1>5

\* The connection state of a flow only ever moves forward.
THEOREM StateProgress == Spec => StateNeverRegresses
  <1>1. ASSUME TypeOK, [Next]_vars
        PROVE  Progress[state] <= Progress[state']
    <2>1. state \in TcpState /\ Progress[state] <= Progress[state]
      <3>1. \A s \in TcpState : Progress[s] <= Progress[s]
        BY DEF Progress, TcpState
      <3> QED BY <1>1, <3>1 DEF TypeOK
    <2> QED BY <1>1, <2>1, StepIsSegmentOrStutter, UpdateStateProgress
  <1>2. TypeOK /\ [Next]_vars => [Progress[state] <= Progress[state']]_vars
    BY <1>1
  <1> QED BY <1>2, TypeCorrect, PTL DEF Spec, StateNeverRegresses

\* A flow past SynReceived knows both initial sequence numbers: from then on
\* add_segment cannot fail, however the endpoints go on.
THEOREM HandshakeCorrect == Spec => []HandshakeSynced
  <1>1. Init => HandshakeSynced
    BY DEF Init, HandshakeSynced
  <1>2. TypeOK /\ HandshakeSynced /\ [Next]_vars => HandshakeSynced'
    <2> SUFFICES ASSUME TypeOK, HandshakeSynced, [Next]_vars
                 PROVE  HandshakeSynced'
      OBVIOUS
    <2>1. CASE UNCHANGED <<state, initial_seq>>
      BY <2>1 DEF HandshakeSynced
    <2>2. ASSUME NEW d \in Dirs, NEW flags \in SUBSET Flags,
                 state' = UpdateState(state, d, flags),
                 initial_seq' = [initial_seq EXCEPT ![d] = @ \/ "SYN" \in flags]
          PROVE  HandshakeSynced'
      <3>1. \A e \in Dirs : initial_seq[e] => initial_seq'[e]
        BY <2>2, Zenon DEF TypeOK
      <3>2. "SYN" \in flags => initial_seq'[d]
        BY <2>2, Zenon DEF TypeOK
      <3>3. /\ state' = "SynSent" => initial_seq'[C2S]
        BY <2>2, <3>1, <3>2, UpdateStateHandshake
           DEF HandshakeSynced, TypeOK, Dirs
      <3>4. state' \notin {"Init", "SynSent", "Closed"} =>
              \A e \in Dirs : initial_seq'[e]
        <4>1. CASE state \notin {"Init", "SynSent", "Closed"}
          BY <3>1, <4>1 DEF HandshakeSynced
        <4>2. CASE state = "SynSent" /\ d = S2C /\ "SYN" \in flags
          BY <3>1, <3>2, <4>2 DEF HandshakeSynced, Dirs
        <4> QED BY <2>2, <4>1, <4>2, UpdateStateHandshake DEF TypeOK
      <3> QED BY <3>3, <3>4 DEF HandshakeSynced
    <2> QED BY <2>1, <2>2, StepIsSegmentOrStutter
  <1> QED BY <1>1, <1>2, TypeCorrect, PTL DEF Spec

\* A TcpFlow implements its summary: what SessionTracker reads of a flow can be
\* computed from flags and directions alone, without any sequence number.
THEOREM FlowImplementsSummary == Spec => ImplementsSummary
  <1> DEFINE flow == [state |-> state, synced |-> initial_seq]
  <1>1. Init => Summary!Init
    BY DEF Init, Summary!Init, NewFlow, Summary!NewFlow, Dirs, Summary!Dirs,
           C2S, S2C, Summary!C2S, Summary!S2C
  <1>2. TypeOK /\ [Next]_vars => [Summary!Next]_flow
    <2> SUFFICES ASSUME TypeOK, [Next]_vars PROVE Summary!Next \/ UNCHANGED flow
      OBVIOUS
    <2>1. CASE UNCHANGED <<state, initial_seq>>
      BY <2>1
    <2>2. ASSUME NEW d \in Dirs, NEW flags \in SUBSET Flags,
                 state' = UpdateState(state, d, flags),
                 initial_seq' = [initial_seq EXCEPT ![d] = @ \/ "SYN" \in flags]
          PROVE  Summary!Next
      <3>1. Summary!UpdateState(state, d, flags) = UpdateState(state, d, flags)
        BY Zenon DEF UpdateState, FromSynReceived, FromFinWait1, FromFinWait2,
                     Summary!UpdateState, Summary!FromSynReceived,
                     Summary!FromFinWait1, Summary!FromFinWait2,
                     C2S, S2C, Summary!C2S, Summary!S2C
      <3>2. flow' = Summary!AfterSegment(flow, d, flags)
        BY <2>2, <3>1, Zenon DEF Summary!AfterSegment
      <3>3. d \in Summary!Dirs /\ flags \in SUBSET Summary!Flags
        BY DEF Dirs, Summary!Dirs, C2S, S2C, Summary!C2S, Summary!S2C,
               Flags, Summary!Flags
      <3> QED BY <3>2, <3>3, Zenon DEF Summary!Next, Summary!Segment
    <2> QED BY <2>1, <2>2, StepIsSegmentOrStutter
  <1> QED
    BY <1>1, <1>2, TypeCorrect, PTL DEF Spec, ImplementsSummary, Summary!Spec

--------------------------------------------------------------------------------
(***************************************************************************)
(* No loss.  What the endpoint must do for reassemble's raw comparison     *)
(* seq < next_seq to mean "processed already": keep its segment boundaries *)
(* when it retransmits, and not wrap around.                               *)
(***************************************************************************)
\* next_seq never points into the middle of a segment.
BoundaryOK ==
  \A d \in Dirs : FixedBoundaries(d) => \A seg \in Segments[d] :
    \/ seg[1] + seg[2] <= Len(reassembled_data[d])
    \/ Len(reassembled_data[d]) <= seg[1]

NoLossInv == ReassemblyInv /\ BoundaryOK

LEMMA SameStartSameSegment ==
  ASSUME NEW d \in Dirs, FixedBoundaries(d),
         NEW a \in Segments[d], NEW b \in Segments[d],
         SeqOf(d, a[1]) = SeqOf(d, b[1])
  PROVE  a = b
  <1>1. a[1] = b[1]
    <2>1. a[1] \in 0 .. StreamLen[d] /\ b[1] \in 0 .. StreamLen[d]
      BY PayloadType
    <2> QED BY <2>1, SeqOfPosition
  <1>2. a[2] \in Nat \ {0} /\ b[2] \in Nat \ {0} /\ a[1] \in Nat /\ b[1] \in Nat
    BY PayloadType
  <1> QED BY <1>1, <1>2 DEF FixedBoundaries

\* The segment TakeExpected consumes begins at the end of the delivered data.
LEMMA ExpectedPosition ==
  ASSUME ReassemblyInv, NEW d \in Dirs, IsFirst(d, next_seq[d])
  PROVE  \E seg \in Segments[d] :
           /\ seg[1] = Len(reassembled_data[d])
           /\ segments[d][next_seq[d]] = Payload(seg)
  <1>1. PICK seg \in Segments[d] : /\ next_seq[d] = SeqOf(d, seg[1])
                                   /\ segments[d][next_seq[d]] = Payload(seg)
    BY ExpectedEntry DEF ReassemblyInv
  <1>2. next_seq[d] \in SeqNum /\ segments[d][next_seq[d]] # << >>
    BY DEF IsFirst, Buffered
  <1>3. next_seq[d] = SeqOf(d, Len(reassembled_data[d]))
    BY <1>2 DEF ReassemblyInv, PositionOK
  <1>4. Len(reassembled_data[d]) \in 0 .. StreamLen[d]
    BY StreamLenAssumption
       DEF ReassemblyInv, TypeInv, TypeOK, ReassembledIsPrefix, SeqNum
  <1> QED BY <1>1, <1>3, <1>4, PayloadType, SeqOfPosition

LEMMA NoLossInvInit == Init => NoLossInv
  BY ReassemblyInvInit, PayloadType DEF Init, NoLossInv, BoundaryOK

LEMMA NoLossInvNext ==
  ASSUME ~ LateSyn
  PROVE  NoLossInv /\ [Next]_vars => NoLossInv'
  <1> SUFFICES ASSUME NoLossInv, [Next]_vars PROVE BoundaryOK'
    BY ReassemblyInvNext DEF NoLossInv
  <1>1. CASE UNCHANGED reassembled_data
    BY <1>1 DEF NoLossInv, BoundaryOK
  <1>2. ASSUME NEW d \in Dirs, TakeExpected(d)
        PROVE  BoundaryOK'
    <2> DEFINE data == segments[d][next_seq[d]]
               done == reassembled_data[d]
    <2>1. PICK seg \in Segments[d] : seg[1] = Len(done) /\ data = Payload(seg)
      BY <1>2, ExpectedPosition DEF NoLossInv, TakeExpected
    <2>2. done \in Seq(Nat) /\ data \in Seq(Nat) /\ Len(data) = seg[2]
      BY <2>1, PayloadType DEF NoLossInv, ReassemblyInv, TypeInv, TypeOK
    <2>3. reassembled_data' = [reassembled_data EXCEPT ![d] = done \o data]
      BY <1>2 DEF TakeExpected
    <2>4. Len(done \o data) = seg[1] + seg[2]
      <3>1. \A p, q \in Seq(Nat) : Len(p \o q) = Len(p) + Len(q)
        OBVIOUS
      <3> HIDE DEF data, done
      <3> QED BY <2>1, <2>2, <3>1
    <2>5. FixedBoundaries(d) => \A a \in Segments[d] :
            a[1] + a[2] <= seg[1] + seg[2] \/ seg[1] + seg[2] <= a[1]
      <3> SUFFICES ASSUME FixedBoundaries(d), NEW a \in Segments[d]
                   PROVE  a[1] + a[2] <= seg[1] + seg[2] \/ seg[1] + seg[2] <= a[1]
        OBVIOUS
      <3>1. a[1] \in Nat /\ a[2] \in Nat /\ seg[1] \in Nat /\ seg[2] \in Nat
        BY PayloadType
      <3> QED BY <3>1 DEF FixedBoundaries
    <2> HIDE DEF data, done
    <2> QED BY <2>3, <2>4, <2>5
            DEF NoLossInv, ReassemblyInv, TypeInv, TypeOK, BoundaryOK
  <1> QED
    BY <1>1, <1>2
       DEF Next, AddSyn, AddData, RejectData, AddBare, HasNewData, Reassemble,
           DropRetransmitted, StopReassembly, vars, streams

\* Below next_seq means earlier in the stream, as long as nothing wraps.
LEMMA BelowNextIsEarlier ==
  ASSUME NEW d \in Dirs, NoWraparound(d), NEW p \in Nat, NEW q \in Nat,
         p < StreamLen[d], q <= StreamLen[d], SeqOf(d, p) < SeqOf(d, q)
  PROVE  p < q
  BY ISNAssumption, StreamLenAssumption, SeqModAssumption
     DEF NoWraparound, SeqOf, WrappingAdd, SeqNum

\* The bytes of the segment DropRetransmitted removes have been delivered.
LEMMA DroppedIsDelivered ==
  ASSUME NoLossInv, NEW d \in Dirs, Regular(d), NEW s \in SeqNum, IsFirst(d, s), s < next_seq[d]
  PROVE  BytesOf(segments[d][s]) \subseteq Delivered(d)
  <1>1. segments[d][s] # << >>
    BY DEF IsFirst, Buffered
  <1>2. PICK seg \in Segments[d] :
          s = SeqOf(d, seg[1]) /\ segments[d][s] = Payload(seg)
    BY <1>1 DEF NoLossInv, ReassemblyInv, TypeInv, BufferOK
  <1>3. /\ seg[1] \in Nat /\ seg[2] \in Nat \ {0}
        /\ seg[1] + seg[2] <= StreamLen[d]
        /\ DOMAIN Payload(seg) = 1 .. seg[2]
        /\ \A i \in 1 .. seg[2] : Payload(seg)[i] = seg[1] + i - 1
    BY PayloadType DEF Payload
  <1>4. /\ reassembled_data[d] \in Seq(Nat)
        /\ Len(reassembled_data[d]) <= StreamLen[d]
        /\ \A i \in 1 .. Len(reassembled_data[d]) : reassembled_data[d][i] = i - 1
        /\ next_seq[d] = SeqOf(d, Len(reassembled_data[d]))
    BY <1>1 DEF NoLossInv, ReassemblyInv, TypeInv, TypeOK, PositionOK,
                ReassembledIsPrefix
  <1>5. StreamLen[d] \in Nat
    BY StreamLenAssumption DEF SeqNum
  <1>6. seg[1] < Len(reassembled_data[d])
    <2>1. seg[1] < StreamLen[d] /\ Len(reassembled_data[d]) \in Nat
      BY <1>3, <1>4, <1>5
    <2> QED BY <1>2, <1>4, <2>1, <1>3, BelowNextIsEarlier DEF Regular
  <1>7. seg[1] + seg[2] <= Len(reassembled_data[d])
    BY <1>3, <1>4, <1>6 DEF NoLossInv, BoundaryOK, Regular
  <1>8. ASSUME NEW i \in 1 .. seg[2]
        PROVE  Payload(seg)[i] \in Delivered(d)
    <2> DEFINE j == seg[1] + i
    <2>1. j \in 1 .. Len(reassembled_data[d])
      <3>1. /\ seg[1] \in Nat /\ seg[2] \in Nat /\ Len(reassembled_data[d]) \in Nat
            /\ seg[1] + seg[2] <= Len(reassembled_data[d])
        BY <1>3, <1>4, <1>7
      <3> QED BY <3>1, SMTT(30)
    <2>2. Payload(seg)[i] = j - 1
      BY <1>3
    <2>3. reassembled_data[d][j] = j - 1 /\ j \in DOMAIN reassembled_data[d]
      <3> HIDE DEF j
      <3> QED BY <1>4, <2>1
    <2> QED BY <2>2, <2>3, Zenon DEF Delivered, BytesOf
  <1>9. BytesOf(Payload(seg)) = {Payload(seg)[i] : i \in 1 .. seg[2]}
    BY <1>3, Zenon DEF BytesOf
  <1> QED BY <1>2, <1>8, <1>9, Zenon

\* A byte waits in the next state if the entry that holds it is still there.
LEMMA StillWaiting ==
  ASSUME NEW d, NEW s \in SeqNum, segments'[d][s] = segments[d][s]
  PROVE  BytesOf(segments[d][s]) \subseteq Waiting(d)'
  <1>1. BytesOf(segments[d][s])' = BytesOf(segments[d][s])
    BY Zenon DEF BytesOf
  <1>2. Waiting(d)' = UNION {BytesOf(segments[d][t])' : t \in SeqNum}
    BY Zenon DEF Waiting
  <1> QED BY <1>1, <1>2, Zenon

LEMMA NoLossStep ==
  ASSUME NoLossInv, [Next]_vars, NEW e \in Dirs, Regular(e)
  PROVE  Known(e) \subseteq Known(e)'
  <1>0. /\ segments \in [Dirs -> Buffers]
        /\ reassembled_data \in [Dirs -> Seq(Nat)]
    BY DEF NoLossInv, ReassemblyInv, TypeInv, TypeOK
  <1>1. CASE UNCHANGED <<segments, reassembled_data>>
    BY <1>1, Zenon DEF Known, Waiting, Delivered
  <1>2. ASSUME NEW d \in Dirs, NEW flags \in SUBSET Flags,
               NEW seg \in Segments[d], AddData(d, flags, seg)
        PROVE  Known(e) \subseteq Known(e)'
    <2>1. \A s \in SeqNum : segments'[e][s] = segments[e][s] \/ segments[e][s] = << >>
      <3> SUFFICES ASSUME NEW s \in SeqNum, segments[e][s] # << >>
                   PROVE  segments'[e][s] = segments[e][s]
        OBVIOUS
      <3>1. PICK old \in Segments[e] :
              s = SeqOf(e, old[1]) /\ segments[e][s] = Payload(old)
        BY DEF NoLossInv, ReassemblyInv, TypeInv, BufferOK
      <3>2. CASE e = d /\ s = SeqOf(d, seg[1])
        <4>1. old = seg
          BY <3>1, <3>2, SameStartSameSegment DEF Regular
        <4> QED BY <1>0, <1>2, <3>1, <3>2, <4>1 DEF AddData, Buffers
      <3>3. CASE ~ (e = d /\ s = SeqOf(d, seg[1]))
        BY <1>0, <1>2, <3>3 DEF AddData, Buffers
      <3> QED BY <3>2, <3>3
    <2>2. UNCHANGED reassembled_data
      BY <1>2 DEF AddData
    <2>3. BytesOf(<< >>) = {}
      BY DEF BytesOf
    <2>4. Waiting(e) \subseteq Waiting(e)'
      <3> SUFFICES ASSUME NEW s \in SeqNum
                   PROVE  BytesOf(segments[e][s]) \subseteq Waiting(e)'
        BY Zenon DEF Waiting
      <3> QED BY <2>1, <2>3, StillWaiting
    <2> QED BY <2>2, <2>4, Zenon DEF Known, Delivered
  <1>3. ASSUME NEW d \in Dirs, TakeExpected(d)
        PROVE  Known(e) \subseteq Known(e)'
    <2> DEFINE data == segments[d][next_seq[d]]
               done == reassembled_data[d]
    <2>1. CASE e # d
      <3>1. segments'[e] = segments[e] /\ reassembled_data'[e] = reassembled_data[e]
        BY <1>0, <1>3, <2>1 DEF TakeExpected
      <3> QED BY <3>1, Zenon DEF Known, Waiting, Delivered
    <2>2. CASE e = d
      <3>1. next_seq[d] \in SeqNum
        BY <1>3 DEF TakeExpected, IsFirst, Buffered
      <3>2. done \in Seq(Nat) /\ data \in Seq(Nat)
        BY <1>0, <3>1 DEF Buffers
      <3>3. reassembled_data'[d] = done \o data
        BY <1>0, <1>3 DEF TakeExpected
      <3>4. BytesOf(done) \subseteq BytesOf(done \o data)
        <4> HIDE DEF data, done
        <4> QED BY <3>2 DEF BytesOf
      <3>5. BytesOf(data) \subseteq BytesOf(done \o data)
        <4> HIDE DEF data, done
        <4> SUFFICES ASSUME NEW i \in DOMAIN data
                     PROVE  data[i] \in BytesOf(done \o data)
          BY Zenon DEF BytesOf
        <4>1. /\ Len(done) + i \in DOMAIN (done \o data)
              /\ (done \o data)[Len(done) + i] = data[i]
          BY <3>2
        <4> QED BY <4>1, Zenon DEF BytesOf
      <3>6. \A s \in SeqNum \ {next_seq[d]} : segments'[d][s] = segments[d][s]
        BY <1>0, <1>3 DEF TakeExpected, Buffers
      <3>7. Waiting(d) \subseteq Waiting(d)' \cup BytesOf(data)
        <4> SUFFICES ASSUME NEW s \in SeqNum
                     PROVE  BytesOf(segments[d][s])
                              \subseteq Waiting(d)' \cup BytesOf(data)
          BY Zenon DEF Waiting
        <4> QED BY <3>6, StillWaiting
      <3>8. Delivered(d)' = BytesOf(done \o data)
        BY <3>3, Zenon DEF Delivered, BytesOf
      <3> QED
        BY <2>2, <3>4, <3>5, <3>7, <3>8, Zenon DEF Known, Delivered
    <2> QED BY <2>1, <2>2
  <1>4. ASSUME NEW d \in Dirs, DropRetransmitted(d)
        PROVE  Known(e) \subseteq Known(e)'
    <2>1. PICK s \in SeqNum :
            /\ IsFirst(d, s)
            /\ s < next_seq[d]
            /\ segments' = [segments EXCEPT ![d][s] = << >>]
      BY <1>4 DEF DropRetransmitted
    <2>2. e = d => BytesOf(segments[d][s]) \subseteq Delivered(d)
      BY <2>1, DroppedIsDelivered
    <2>3. \A t \in SeqNum : segments'[e][t] = segments[e][t] \/ (e = d /\ t = s)
      BY <1>0, <2>1 DEF Buffers
    <2>4. UNCHANGED reassembled_data
      BY <1>4 DEF DropRetransmitted
    <2>5. Waiting(e) \subseteq Waiting(e)' \cup Delivered(e)
      <3> SUFFICES ASSUME NEW t \in SeqNum
                   PROVE  BytesOf(segments[e][t])
                            \subseteq Waiting(e)' \cup Delivered(e)
        BY Zenon DEF Waiting
      <3>1. CASE segments'[e][t] = segments[e][t]
        BY <3>1, StillWaiting
      <3>2. CASE e = d /\ t = s
        BY <2>2, <3>2
      <3> QED BY <2>3, <3>1, <3>2
    <2> QED BY <2>4, <2>5, Zenon DEF Known, Delivered
  <1> QED
    BY <1>1, <1>2, <1>3, <1>4
       DEF Next, AddSyn, RejectData, AddBare, HasNewData, Reassemble,
           StopReassembly, vars, streams

\* For an endpoint that keeps its segment boundaries and does not wrap around,
\* no step of add_segment or reassemble loses a byte the flow has seen.
THEOREM NoLoss == ~ LateSyn => (Spec => NothingUnreadDiscarded)
  <1> SUFFICES ASSUME ~ LateSyn PROVE Spec => NothingUnreadDiscarded
    OBVIOUS
  <1>1. NoLossInv /\ [Next]_vars => NoLossInv'
    BY NoLossInvNext
  <1>2. NoLossInv /\ [Next]_vars =>
          [\A d \in Dirs : Regular(d) => Known(d) \subseteq Known(d)']_vars
    BY NoLossStep
  <1> QED BY <1>1, <1>2, NoLossInvInit, PTL DEF Spec, NothingUnreadDiscarded

--------------------------------------------------------------------------------
(***************************************************************************)
(* A flow that watches a real connection.                                  *)
(***************************************************************************)
USE DEF Dirs, C2S, S2C

LEMMA FlagsOfItem ==
  ASSUME NEW d \in Dirs, NEW item \in Items(d)
  PROVE  /\ FlagsOf(d, item) \in SUBSET Flags
         /\ "SYN" \in FlagsOf(d, item) <=> item = 0
         /\ "FIN" \in FlagsOf(d, item) <=> item = Fin(d)
         /\ "RST" \in FlagsOf(d, item) <=> item = Reset
         /\ "ACK" \in FlagsOf(d, item) <=> ~ (d = C2S /\ item = 0)
<1>1. Fin(d) \in Nat /\ Fin(d) # 0 /\ Fin(d) \notin {Ack, Reset} /\ 0 \notin {Ack, Reset}
  BY InOrderAssumption, ItemsAssumption DEF Fin
<1> QED
  BY <1>1, ItemsAssumption DEF FlagsOf, Items, Flags

LEMMA ItemKinds ==
  ASSUME NEW d \in Dirs, NEW item \in Items(d)
  PROVE  /\ Fin(d) \in Nat \ {0}
         /\ item \in Nat => item <= Fin(d)
         /\ HasData(d, item) <=> item \in Nat /\ item # 0 /\ item # Fin(d)
         /\ HasData(d, item) => item \in DOMAIN InOrder[d] /\ InOrder[d][item] \in Segments[d]
<1>1. InOrder[d] \in Seq(Segments[d]) /\ Fin(d) = Len(InOrder[d]) + 1
  BY InOrderAssumption DEF Fin
<1>2. Len(InOrder[d]) \in Nat /\ DOMAIN InOrder[d] = 1 .. Len(InOrder[d])
  BY <1>1
<1>3. Ack \notin Nat /\ Reset \notin Nat
  BY ItemsAssumption
<1>4. item \in 0 .. Fin(d) \/ item = Ack \/ item = Reset
  BY DEF Items
<1>5. HasData(d, item) <=> item \in 1 .. Fin(d) - 1
  BY DEF HasData
<1>6. Fin(d) \in Nat \ {0}
  BY <1>1, <1>2
<1>7. item \in Nat <=> item \in 0 .. Fin(d)
  BY <1>3, <1>4, <1>6
<1> QED
  BY <1>1, <1>2, <1>5, <1>6, <1>7

--------------------------------------------------------------------------------
(***************************************************************************)
(* The endpoints and the wire, whatever the flow makes of them.  An item   *)
(* under way has been sent; what it acknowledges has been received; an     *)
(* endpoint that has sent more than its SYN has the other's, the server    *)
(* even its SYN.                                                           *)
(***************************************************************************)
PacketsOK ==
  \A d \in Dirs : \A packet \in wire[d] :
    /\ packet.item \in Nat => packet.item < snd[d]
    /\ packet.item \in Nat /\ packet.item # 0 => acked[d] > 0
    /\ packet.item \notin {0, Reset} => rcv[Peer(d)] > 0
    /\ packet.item = Reset => aborted[d]
    /\ d = S2C => packet.ack > 0
    /\ d = C2S /\ packet.item = 0 => packet.ack = 0

HandshakeOK ==
  /\ \A d \in Dirs : acked[d] > 0 => rcv[Peer(d)] > 0
  /\ snd[S2C] > 0 => rcv[C2S] > 0
  /\ rcv[S2C] > 0 => acked[C2S] > 0

EndpointsInv == EndpointsTypeOK /\ PacketsOK /\ HandshakeOK

LEMMA EndpointsInit == TapInit => EndpointsInv
<1> SUFFICES ASSUME TapInit PROVE EndpointsInv
  OBVIOUS
<1>1. \A d \in Dirs : Fin(d) \in Nat
  BY InOrderAssumption DEF Fin
<1>2. EndpointsTypeOK
  <2>1. /\ host \in Dirs /\ {snd, acked, rcv} \subseteq [Dirs -> Nat]
        /\ \A d \in Dirs : snd[d] = 0 /\ acked[d] = 0 /\ rcv[d] = 0 /\ wire[d] = {}
        /\ DOMAIN wire = Dirs
    BY DEF TapInit
  <2>2. {owes, aborted} \subseteq [Dirs -> BOOLEAN]
    <3>1. owes \in [Dirs -> BOOLEAN] /\ aborted = owes
      BY Zenon DEF TapInit
    <3> QED
      BY <3>1
  <2>3. /\ opened \in BOOLEAN /\ answered \in BOOLEAN
        /\ fins \in Seq(Dirs) /\ Len(fins) <= 3
    <3>1. opened = FALSE /\ answered = FALSE /\ fins = << >>
      BY Zenon DEF TapInit
    <3>2. fins \in Seq(Dirs) /\ Len(fins) <= 3
      BY <3>1
    <3> QED
      BY <3>1, <3>2
  <2> HIDE DEF Dirs
  <2> QED
    BY <1>1, <2>1, <2>2, <2>3 DEF EndpointsTypeOK
<1>3. PacketsOK /\ HandshakeOK
  BY DEF TapInit, PacketsOK, HandshakeOK, Peer
<1> QED
  BY <1>2, <1>3 DEF EndpointsInv

\* What a step of the flow leaves of the history.
LEMMA HistoryTyped ==
  ASSUME EndpointsTypeOK, NEW d \in Dirs, NEW item,
         See(d, item) \/ NotSeen
  PROVE  /\ opened' \in BOOLEAN /\ answered' \in BOOLEAN
         /\ fins' \in Seq(Dirs) /\ Len(fins') <= 3
<1>1. opened \in BOOLEAN /\ answered \in BOOLEAN /\ fins \in Seq(Dirs) /\ Len(fins) <= 3
  BY DEF EndpointsTypeOK
<1>2. fins' = fins \/ (Len(fins) < 3 /\ fins' = Append(fins, d))
  BY DEF See, NotSeen, history
<1>3. fins' \in Seq(Dirs) /\ Len(fins') <= 3
  BY <1>1, <1>2
<1>4. opened' \in BOOLEAN /\ answered' \in BOOLEAN
  BY <1>1 DEF See, NotSeen, history
<1> QED
  BY <1>3, <1>4

LEMMA SendStep ==
  ASSUME EndpointsInv, NEW d \in Dirs, NEW item \in Items(d), Send(d, item)
  PROVE  EndpointsInv'
<1> USE DEF Peer
<1>0. /\ host \in Dirs /\ {snd, acked, rcv} \subseteq [Dirs -> Nat]
      /\ \A e \in Dirs : acked[e] <= rcv[e] /\ rcv[e] <= snd[e] /\ snd[e] <= Fin(e) + 1
      /\ \A e \in Dirs : wire[e] \subseteq [item : Items(e), ack : 0 .. rcv[Peer(e)]]
      /\ {owes, aborted} \subseteq [Dirs -> BOOLEAN]
  BY DEF EndpointsInv, EndpointsTypeOK
<1> DEFINE new == [item |-> item, ack |-> rcv[Peer(d)]]
<1>1. /\ UNCHANGED <<host, acked, rcv>>
      /\ snd' = IF item = snd[d] THEN [snd EXCEPT ![d] = @ + 1] ELSE snd
      /\ owes' = [owes EXCEPT ![d] = FALSE]
      /\ aborted' = IF item = Reset THEN [aborted EXCEPT ![d] = TRUE] ELSE aborted
      /\ MaySend(d, item)
  BY DEF Send
<1>2. wire' = [wire EXCEPT ![d] = @ \cup {new}]
  BY DEF Send
<1>3. Fin(d) \in Nat /\ (item \in Nat => item <= Fin(d))
  BY ItemKinds
<1>4. /\ snd' \in [Dirs -> Nat] /\ \A e \in Dirs : snd[e] <= snd'[e] /\ snd'[e] <= Fin(e) + 1
      /\ item \in Nat => item < snd'[d]
  <2>1. snd \in [Dirs -> Nat] /\ \A e \in Dirs : snd[e] \in Nat
    BY <1>0
  <2>2. item \in Nat => item \in acked[d] .. snd[d]
    BY <1>1, ItemsAssumption DEF MaySend
  <2>3. acked[d] \in Nat
    BY <1>0
  <2> QED
    BY <1>0, <1>1, <1>3, <2>1, <2>2, <2>3
<1>5. ASSUME NEW e \in Dirs, NEW packet \in wire'[e]
      PROVE  packet \in wire[e] \/ (e = d /\ packet = new)
  BY <1>2, <1>5
<1>6. new \in [item : Items(d), ack : 0 .. rcv[Peer(d)]]
  BY <1>0
<1>7. \A e \in Dirs : wire'[e] \subseteq [item : Items(e), ack : 0 .. rcv'[Peer(e)]]
  BY <1>0, <1>1, <1>5, <1>6
<1>8. EndpointsTypeOK'
  <2>1. {owes', aborted'} \subseteq [Dirs -> BOOLEAN]
    BY <1>0, <1>1
  <2>2. See(d, item) \/ NotSeen
    BY DEF Send
  <2>3. /\ opened' \in BOOLEAN /\ answered' \in BOOLEAN
        /\ fins' \in Seq(Dirs) /\ Len(fins') <= 3
    BY <2>2, HistoryTyped DEF EndpointsInv
  <2>4. \A e \in Dirs : Items(e)' = Items(e) /\ Fin(e)' = Fin(e)
    BY DEF Items, Fin
  <2>5. DOMAIN wire' = Dirs
    BY <1>2 DEF EndpointsInv, EndpointsTypeOK
  <2> QED
    BY <1>0, <1>1, <1>4, <1>7, <2>1, <2>3, <2>4, <2>5 DEF EndpointsTypeOK
<1>9. HandshakeOK'
  <2>1. HandshakeOK
    BY DEF EndpointsInv
  <2>2. snd'[S2C] > 0 => rcv[C2S] > 0
    <3>1. CASE snd'[S2C] = snd[S2C]
      BY <2>1, <3>1 DEF HandshakeOK
    <3>2. CASE snd'[S2C] # snd[S2C]
      <4>1. d = S2C /\ item = snd[d]
        BY <1>0, <1>1, <3>2
      <4>2. item = 0 => rcv[C2S] > 0
        BY <1>1, <4>1, ItemsAssumption DEF MaySend
      <4>3. item > 0 => acked[S2C] > 0
        BY <1>0, <1>1, <4>1, ItemsAssumption DEF MaySend
      <4> QED
        BY <1>0, <2>1, <4>1, <4>2, <4>3 DEF HandshakeOK
    <3> QED
      BY <3>1, <3>2
  <2> QED
    BY <1>1, <2>1, <2>2 DEF HandshakeOK
<1>10. PacketsOK'
  <2> SUFFICES ASSUME NEW e \in Dirs, NEW packet \in wire'[e]
               PROVE  /\ packet.item \in Nat => packet.item < snd'[e]
                      /\ packet.item \in Nat /\ packet.item # 0 => acked'[e] > 0
                      /\ packet.item \notin {0, Reset} => rcv'[Peer(e)] > 0
                      /\ packet.item = Reset => aborted'[e]
                      /\ e = S2C => packet.ack > 0
                      /\ e = C2S /\ packet.item = 0 => packet.ack = 0
    BY DEF PacketsOK
  <2>1. CASE packet \in wire[e]
    <3>1. /\ packet.item \in Nat => packet.item < snd[e]
          /\ packet.item \in Nat /\ packet.item # 0 => acked[e] > 0
          /\ packet.item \notin {0, Reset} => rcv[Peer(e)] > 0
          /\ packet.item = Reset => aborted[e]
          /\ e = S2C => packet.ack > 0
          /\ e = C2S /\ packet.item = 0 => packet.ack = 0
      BY <2>1 DEF EndpointsInv, PacketsOK
    <3>2. aborted[e] => aborted'[e]
      BY <1>0, <1>1
    <3>3. snd[e] \in Nat /\ snd'[e] \in Nat /\ snd[e] <= snd'[e]
      BY <1>0, <1>4
    <3> QED
      BY <1>1, <3>1, <3>2, <3>3
  <2>2. CASE e = d /\ packet = new
    <3>1. packet.item = item /\ packet.ack = rcv[Peer(d)] /\ rcv[Peer(d)] \in Nat /\ acked[d] \in Nat
      BY <1>0, <2>2
    <3>2. item = Reset => aborted'[d]
      BY <1>0, <1>1
    <3>3. snd[d] > 0 /\ d = S2C => rcv[C2S] > 0
      BY DEF EndpointsInv, HandshakeOK
    <3>4. acked[d] > 0 => rcv[Peer(d)] > 0
      BY DEF EndpointsInv, HandshakeOK
    <3>8. item \in Nat /\ item # 0 => acked[d] > 0
      BY <1>1, ItemsAssumption DEF MaySend
    <3>5. item \notin {0, Reset} => rcv[Peer(d)] > 0
      <4>2. item = Ack => rcv[Peer(d)] > 0
        BY <1>0, <1>1, ItemsAssumption DEF MaySend
      <4>3. item \in Nat \/ item \in {Ack, Reset}
        BY <1>3 DEF Items
      <4> QED
        BY <3>4, <3>8, <4>2, <4>3
    <3>6. d = S2C => rcv[Peer(d)] > 0
      <4>1. item \in {0, Reset} /\ d = S2C => rcv[C2S] > 0
        BY <1>0, <1>1, <3>3, ItemsAssumption DEF MaySend
      <4> QED
        BY <3>5, <4>1
    <3>7. d = C2S /\ item = 0 => rcv[S2C] = 0
      <4>1. item = 0 => acked[d] = 0
        BY <1>1, <3>1, ItemsAssumption DEF MaySend
      <4>2. d = C2S /\ rcv[S2C] > 0 => acked[d] > 0
        BY DEF EndpointsInv, HandshakeOK
      <4> QED
        BY <3>1, <4>1, <4>2
    <3> QED
      BY <1>1, <1>4, <2>2, <3>1, <3>2, <3>5, <3>6, <3>7, <3>8
  <2> QED
    BY <1>5, <2>1, <2>2
<1> QED
  BY <1>8, <1>9, <1>10 DEF EndpointsInv
LEMMA ReceiveStep ==
  ASSUME EndpointsInv, NEW d \in Dirs, NEW packet \in wire[d], Receive(d, packet)
  PROVE  EndpointsInv'
<1> USE DEF Peer
<1>0. /\ host \in Dirs /\ {snd, acked, rcv} \subseteq [Dirs -> Nat]
      /\ \A e \in Dirs : acked[e] <= rcv[e] /\ rcv[e] <= snd[e] /\ snd[e] <= Fin(e) + 1
      /\ \A e \in Dirs : wire[e] \subseteq [item : Items(e), ack : 0 .. rcv[Peer(e)]]
      /\ {owes, aborted} \subseteq [Dirs -> BOOLEAN]
      /\ PacketsOK /\ HandshakeOK
  BY DEF EndpointsInv, EndpointsTypeOK
<1>1. /\ UNCHANGED <<host, snd>>
      /\ rcv' = IF packet.item = rcv[d] THEN [rcv EXCEPT ![d] = @ + 1] ELSE rcv
      /\ acked' = IF rcv'[d] > 0 /\ packet.ack > acked[Peer(d)]
                  THEN [acked EXCEPT ![Peer(d)] = packet.ack] ELSE acked
      /\ owes' = IF packet.item \in Nat THEN [owes EXCEPT ![Peer(d)] = TRUE] ELSE owes
      /\ aborted' = IF packet.item = Reset THEN [aborted EXCEPT ![Peer(d)] = TRUE]
                    ELSE aborted
  BY DEF Receive
<1>2. \A e \in Dirs : wire'[e] \subseteq wire[e]
  BY DEF Receive
<1>3. packet.item \in Items(d) /\ packet.ack \in 0 .. rcv[Peer(d)]
  BY <1>0
<1>4. /\ rcv' \in [Dirs -> Nat]
      /\ \A e \in Dirs : rcv[e] <= rcv'[e] /\ rcv'[e] <= snd[e]
      /\ rcv'[d] # rcv[d] => packet.item = rcv[d]
      /\ \A e \in Dirs : e # d => rcv'[e] = rcv[e]
  <2>1. rcv \in [Dirs -> Nat] /\ \A e \in Dirs : rcv[e] \in Nat /\ snd[e] \in Nat /\ rcv[e] <= snd[e]
    BY <1>0
  <2>2. packet.item = rcv[d] => rcv[d] < snd[d]
    BY <1>0, <2>1 DEF PacketsOK
  <2> QED
    BY <1>1, <2>1, <2>2
<1>5. packet.ack \in Nat /\ packet.ack <= rcv[Peer(d)]
  <2>1. rcv[Peer(d)] \in Nat
    BY <1>0
  <2> QED
    BY <1>3, <2>1
<1>6. /\ acked' \in [Dirs -> Nat]
      /\ \A e \in Dirs : acked[e] <= acked'[e] /\ acked'[e] <= rcv'[e]
      /\ \A e \in Dirs : acked'[e] # acked[e] => e = Peer(d) /\ rcv'[d] > 0
      /\ rcv'[d] > 0 => acked'[Peer(d)] >= packet.ack
  <2>1. /\ acked \in [Dirs -> Nat] /\ rcv \in [Dirs -> Nat]
        /\ \A e \in Dirs : acked[e] \in Nat /\ rcv[e] \in Nat /\ rcv'[e] \in Nat
        /\ \A e \in Dirs : acked[e] <= rcv[e]
    BY <1>0, <1>4
  <2>2. CASE rcv'[d] > 0 /\ packet.ack > acked[Peer(d)]
    <3>1. acked' = [acked EXCEPT ![Peer(d)] = packet.ack]
      BY <1>1, <2>2
    <3>2. \A e \in Dirs : acked'[e] = IF e = Peer(d) THEN packet.ack ELSE acked[e]
      BY <2>1, <3>1
    <3> QED
      BY <1>4, <1>5, <2>1, <2>2, <3>1, <3>2
  <2>3. CASE ~ (rcv'[d] > 0 /\ packet.ack > acked[Peer(d)])
    <3>1. acked' = acked
      BY <1>1, <2>3
    <3>2. Peer(d) \in Dirs
      OBVIOUS
    <3> QED
      BY <1>4, <1>5, <2>1, <2>3, <3>1, <3>2
  <2> QED
    BY <2>2, <2>3
<1>7. \A e \in Dirs : aborted[e] => aborted'[e]
  BY <1>0, <1>1
<1>8. EndpointsTypeOK'
  <2>1. {owes', aborted'} \subseteq [Dirs -> BOOLEAN]
    BY <1>0, <1>1
  <2>2. See(d, packet.item) \/ NotSeen
    BY DEF Receive
  <2>3. /\ opened' \in BOOLEAN /\ answered' \in BOOLEAN
        /\ fins' \in Seq(Dirs) /\ Len(fins') <= 3
    BY <2>2, HistoryTyped DEF EndpointsInv
  <2>4. \A e \in Dirs : Items(e)' = Items(e) /\ Fin(e)' = Fin(e)
    BY DEF Items, Fin
  <2>5. \A e \in Dirs : wire'[e] \subseteq [item : Items(e), ack : 0 .. rcv'[Peer(e)]]
    <3> SUFFICES ASSUME NEW e \in Dirs, NEW p \in wire'[e]
                 PROVE  p \in [item : Items(e), ack : 0 .. rcv'[Peer(e)]]
      OBVIOUS
    <3>1. p \in [item : Items(e), ack : 0 .. rcv[Peer(e)]]
      BY <1>0, <1>2
    <3>2. /\ rcv[Peer(e)] \in Nat /\ rcv'[Peer(e)] \in Nat /\ rcv[Peer(e)] <= rcv'[Peer(e)]
      BY <1>0, <1>4
    <3>3. 0 .. rcv[Peer(e)] \subseteq 0 .. rcv'[Peer(e)]
      BY <3>2
    <3> QED
      BY <3>1, <3>3
  <2>6. DOMAIN wire' = Dirs
    BY DEF Receive, EndpointsInv, EndpointsTypeOK
  <2> QED
    BY <1>0, <1>1, <1>4, <1>6, <2>1, <2>3, <2>4, <2>5, <2>6 DEF EndpointsTypeOK
<1>9. HandshakeOK'
  <2>0. \A e \in Dirs : /\ acked[e] \in Nat /\ rcv[e] \in Nat /\ snd[e] \in Nat
                        /\ acked'[e] \in Nat /\ rcv'[e] \in Nat /\ snd'[e] = snd[e]
    BY <1>0, <1>1, <1>4, <1>6
  <2>1. \A e \in Dirs : acked'[e] > 0 => rcv'[Peer(e)] > 0
    <3> SUFFICES ASSUME NEW e \in Dirs, acked'[e] > 0 PROVE rcv'[Peer(e)] > 0
      OBVIOUS
    <3>1. CASE acked'[e] = acked[e]
      <4>1. rcv[Peer(e)] > 0
        BY <1>0, <3>1 DEF HandshakeOK
      <4> QED
        BY <1>4, <2>0, <4>1
    <3>2. CASE acked'[e] # acked[e]
      BY <1>6, <3>2
    <3> QED
      BY <3>1, <3>2
  <2>2. snd'[S2C] > 0 => rcv'[C2S] > 0
    <3>1. snd[S2C] > 0 => rcv[C2S] > 0
      BY <1>0 DEF HandshakeOK
    <3> QED
      BY <1>4, <2>0, <3>1
  <2>3. rcv'[S2C] > 0 => acked'[C2S] > 0
    <3> SUFFICES ASSUME rcv'[S2C] > 0 PROVE acked'[C2S] > 0
      OBVIOUS
    <3>1. CASE rcv'[S2C] = rcv[S2C]
      <4>1. acked[C2S] > 0
        BY <1>0, <3>1 DEF HandshakeOK
      <4> QED
        BY <1>6, <2>0, <4>1
    <3>2. CASE rcv'[S2C] # rcv[S2C]
      <4>1. d = S2C
        BY <1>4, <3>2
      <4>2. packet.ack > 0
        BY <1>0, <4>1 DEF PacketsOK
      <4> QED
        BY <1>5, <1>6, <2>0, <4>1, <4>2
    <3> QED
      BY <3>1, <3>2
  <2> QED
    BY <2>1, <2>2, <2>3 DEF HandshakeOK
<1>10. PacketsOK'
  <2> SUFFICES ASSUME NEW e \in Dirs, NEW p \in wire'[e]
               PROVE  /\ p.item \in Nat => p.item < snd'[e]
                      /\ p.item \in Nat /\ p.item # 0 => acked'[e] > 0
                      /\ p.item \notin {0, Reset} => rcv'[Peer(e)] > 0
                      /\ p.item = Reset => aborted'[e]
                      /\ e = S2C => p.ack > 0
                      /\ e = C2S /\ p.item = 0 => p.ack = 0
    BY DEF PacketsOK
  <2>1. /\ p.item \in Nat => p.item < snd[e]
        /\ p.item \in Nat /\ p.item # 0 => acked[e] > 0
        /\ p.item \notin {0, Reset} => rcv[Peer(e)] > 0
        /\ p.item = Reset => aborted[e]
        /\ e = S2C => p.ack > 0
        /\ e = C2S /\ p.item = 0 => p.ack = 0
    BY <1>0, <1>2 DEF PacketsOK
  <2>2. rcv[Peer(e)] \in Nat /\ rcv'[Peer(e)] \in Nat /\ rcv[Peer(e)] <= rcv'[Peer(e)]
    BY <1>0, <1>4
  <2>3. rcv[Peer(e)] > 0 => rcv'[Peer(e)] > 0
    BY <2>2
  <2>4. acked[e] \in Nat /\ acked'[e] \in Nat /\ acked[e] <= acked'[e]
    BY <1>0, <1>6
  <2>5. acked[e] > 0 => acked'[e] > 0
    BY <2>4
  <2> QED
    BY <1>1, <1>7, <2>1, <2>3, <2>5
<1> QED
  BY <1>8, <1>9, <1>10 DEF EndpointsInv

LEMMA LoseStep ==
  ASSUME EndpointsInv, NEW d \in Dirs, NEW packet \in wire[d], Lose(d, packet)
  PROVE  EndpointsInv'
<1>1. UNCHANGED <<host, snd, acked, rcv, owes, aborted, opened, fins, answered>>
  BY DEF Lose, endpoints, NotSeen, history
<1>2. DOMAIN wire' = Dirs /\ \A e \in Dirs : wire'[e] \subseteq wire[e]
  BY DEF EndpointsInv, EndpointsTypeOK, Lose
<1>3. EndpointsTypeOK'
  BY <1>1, <1>2 DEF EndpointsInv, EndpointsTypeOK, Items, Fin, Peer
<1>4. PacketsOK' /\ HandshakeOK'
  BY <1>1, <1>2 DEF EndpointsInv, PacketsOK, HandshakeOK, Peer
<1> QED
  BY <1>3, <1>4 DEF EndpointsInv

LEMMA EndpointsNext == EndpointsInv /\ [TapNext]_allVars => EndpointsInv'
<1> SUFFICES ASSUME EndpointsInv, [TapNext]_allVars PROVE EndpointsInv'
  OBVIOUS
<1>1. CASE TapNext
  BY <1>1, SendStep, ReceiveStep, LoseStep DEF TapNext
<1>2. CASE UNCHANGED allVars
  <2>1. UNCHANGED <<host, snd, acked, rcv, owes, aborted, wire, opened, fins, answered>>
    BY <1>2 DEF allVars, tapVars, endpoints, history
  <2> QED
    BY <2>1 DEF EndpointsInv, EndpointsTypeOK, PacketsOK, HandshakeOK, Items, Fin, Peer
<1> QED
  BY <1>1, <1>2

LEMMA EndpointsAlways == TapSpec => []EndpointsInv
  BY EndpointsInit, EndpointsNext, PTL DEF TapSpec

--------------------------------------------------------------------------------
(***************************************************************************)
(* What the endpoints send is what TcpFlow expects of the wire.            *)
(***************************************************************************)
LEMMA SeeIsNext ==
  ASSUME NEW d \in Dirs, NEW item \in Items(d), See(d, item)
  PROVE  Next
<1> DEFINE flags == FlagsOf(d, item)
<1>1. flags \in SUBSET Flags
  BY FlagsOfItem
<1> HIDE DEF flags
<1>2. CASE AddSyn(d, flags) \/ RejectData(d, flags) \/ AddBare(d, flags)
  BY <1>1, <1>2 DEF Next
<1>3. CASE HasData(d, item) /\ AddData(d, flags, InOrder[d][item])
  <2>1. InOrder[d][item] \in Segments[d]
    BY <1>3, ItemKinds
  <2> QED
    BY <1>1, <1>3, <2>1 DEF Next
<1> QED
  BY <1>2, <1>3 DEF See, flags

LEMMA TapStepIsFlowStep ==
  ASSUME EndpointsInv, [TapNext]_allVars
  PROVE  [Next]_vars
<1>1. ASSUME NEW d \in Dirs, NEW item \in Items(d), Send(d, item) PROVE [Next]_vars
  BY <1>1, SeeIsNext DEF Send, NotSeen
<1>2. ASSUME NEW d \in Dirs, NEW packet \in wire[d], Receive(d, packet)
      PROVE  [Next]_vars
  <2>1. packet.item \in Items(d)
    BY DEF EndpointsInv, EndpointsTypeOK
  <2> QED
    BY <1>2, <2>1, SeeIsNext DEF Receive, NotSeen
<1>3. ASSUME NEW d \in Dirs, NEW packet \in wire[d], Lose(d, packet)
      PROVE  [Next]_vars
  BY <1>3 DEF Lose, NotSeen
<1>4. CASE UNCHANGED allVars
  BY <1>4 DEF allVars
<1> QED
  BY <1>1, <1>2, <1>3, <1>4 DEF TapNext

\* A flow on a host with a connection is a TcpFlow: every theorem about TcpFlow
\* holds for it.
THEOREM TapIsFlow == TapSpec => Spec
<1>1. TapInit => Init
  BY DEF TapInit
<1> QED
  BY <1>1, TapStepIsFlowStep, EndpointsAlways, PTL DEF TapSpec, Spec

\* The flow, the endpoints and the wire are well typed; a packet under way
\* acknowledges nothing its sender has not received.
THEOREM TapTypeCorrect == TapSpec => []TapTypeOK
<1>1. EndpointsInv => EndpointsTypeOK
  BY DEF EndpointsInv
<1> QED
  BY <1>1, EndpointsAlways, TapIsFlow, TypeCorrect, PTL DEF TapTypeOK

--------------------------------------------------------------------------------
(***************************************************************************)
(* What the flow makes of the connection.  Every step of a TapSpec gives   *)
(* the flow one packet or none; what the flow has seen of a direction is   *)
(* what the host has sent, or received in order, in it.                    *)
(***************************************************************************)
Seen(d) == IF d = host THEN snd[d] ELSE rcv[d]

\* The packets the flow is given keep the promises of the endpoints.
Given(d, item) ==
  /\ item = 0 \/ item = Reset \/ d = S2C \/ (rcv'[S2C] > 0 /\ Seen(S2C) > 0)
  /\ d = S2C /\ item \in Nat /\ item # 0 => acked[S2C] > 0
  /\ d = S2C => Seen(C2S) > 0
  /\ item = Reset => aborted'[d]
  /\ item \in Nat => item < snd'[d]
  /\ Seen(d)' = IF item = Seen(d) THEN Seen(d) + 1 ELSE Seen(d)
  /\ Seen(Peer(d))' = Seen(Peer(d))

LEMMA SendIsGiven ==
  ASSUME EndpointsInv, NEW d \in Dirs, NEW item \in Items(d), Send(d, item)
  PROVE  IF d = host THEN See(d, item) /\ Given(d, item)
         ELSE NotSeen /\ \A e \in Dirs : Seen(e)' = Seen(e)
<1> USE DEF Peer
<1>0. /\ host \in Dirs /\ {snd, acked, rcv} \subseteq [Dirs -> Nat]
      /\ \A e \in Dirs : acked[e] <= rcv[e] /\ rcv[e] <= snd[e]
      /\ {owes, aborted} \subseteq [Dirs -> BOOLEAN]
      /\ HandshakeOK
  BY DEF EndpointsInv, EndpointsTypeOK
<1>1. /\ UNCHANGED <<host, rcv>>
      /\ snd' = IF item = snd[d] THEN [snd EXCEPT ![d] = @ + 1] ELSE snd
      /\ aborted' = IF item = Reset THEN [aborted EXCEPT ![d] = TRUE] ELSE aborted
      /\ MaySend(d, item)
      /\ IF d = host THEN See(d, item) ELSE NotSeen
  BY DEF Send
<1>2. PacketsOK' /\ EndpointsTypeOK'
  BY SendStep DEF EndpointsInv
<1>3. CASE d # host
  BY <1>0, <1>1, <1>3 DEF Seen
<1>4. CASE d = host
  <2> DEFINE new == [item |-> item, ack |-> rcv[Peer(d)]]
  <2>1. new \in wire'[d]
    BY <1>0 DEF Send, EndpointsInv, EndpointsTypeOK
  <2>2. /\ item \in Nat => item < snd'[d]
        /\ item \in Nat /\ item # 0 => acked'[d] > 0
        /\ item \notin {0, Reset} => rcv'[Peer(d)] > 0
        /\ item = Reset => aborted'[d]
        /\ d = S2C => rcv[C2S] > 0
    BY <1>2, <2>1 DEF PacketsOK
  <2>3. Seen(d)' = IF item = Seen(d) THEN Seen(d) + 1 ELSE Seen(d)
    <3>1. snd[d] \in Nat /\ snd \in [Dirs -> Nat]
      BY <1>0
    <3> QED
      BY <1>1, <1>4, <3>1 DEF Seen
  <2>4. Seen(Peer(d))' = Seen(Peer(d))
    BY <1>1, <1>4 DEF Seen
  <2>5. d = S2C => Seen(C2S) > 0
    BY <1>4, <2>2 DEF Seen
  <2>6. item = 0 \/ item = Reset \/ d = S2C \/ (rcv'[S2C] > 0 /\ Seen(S2C) > 0)
    BY <1>1, <1>4, <2>2 DEF Seen
  <2>7. acked' = acked
    BY DEF Send
  <2> QED
    BY <1>1, <1>4, <2>2, <2>3, <2>4, <2>5, <2>6, <2>7 DEF Given
<1> QED
  BY <1>3, <1>4

LEMMA ReceiveIsGiven ==
  ASSUME EndpointsInv, NEW d \in Dirs, NEW packet \in wire[d], Receive(d, packet)
  PROVE  IF d = host THEN NotSeen /\ \A e \in Dirs : Seen(e)' = Seen(e)
         ELSE See(d, packet.item) /\ Given(d, packet.item)
<1> USE DEF Peer
<1>0. /\ host \in Dirs /\ {snd, acked, rcv} \subseteq [Dirs -> Nat]
      /\ \A e \in Dirs : acked[e] <= rcv[e] /\ rcv[e] <= snd[e]
      /\ {owes, aborted} \subseteq [Dirs -> BOOLEAN]
      /\ PacketsOK /\ HandshakeOK
  BY DEF EndpointsInv, EndpointsTypeOK
<1>1. /\ UNCHANGED <<host, snd>>
      /\ rcv' = IF packet.item = rcv[d] THEN [rcv EXCEPT ![d] = @ + 1] ELSE rcv
      /\ aborted' = IF packet.item = Reset THEN [aborted EXCEPT ![Peer(d)] = TRUE]
                    ELSE aborted
      /\ IF d = host THEN NotSeen ELSE See(d, packet.item)
  BY DEF Receive
<1>2. EndpointsTypeOK'
  BY ReceiveStep DEF EndpointsInv
<1>3. CASE d = host
  BY <1>0, <1>1, <1>3 DEF Seen
<1>4. CASE d # host
  <2>1. /\ packet.item \in Nat => packet.item < snd[d]
        /\ packet.item \in Nat /\ packet.item # 0 => acked[d] > 0
        /\ packet.item \notin {0, Reset} => rcv[Peer(d)] > 0
        /\ packet.item = Reset => aborted[d]
    BY <1>0 DEF PacketsOK
  <2>2. rcv[d] \in Nat /\ rcv[Peer(d)] \in Nat /\ snd[d] \in Nat
    BY <1>0
  <2>3. rcv'[Peer(d)] = rcv[Peer(d)] /\ aborted[d] => aborted'[d]
    BY <1>0, <1>1
  <2>4. Seen(d)' = IF packet.item = Seen(d) THEN Seen(d) + 1 ELSE Seen(d)
    <3>1. rcv \in [Dirs -> Nat]
      BY <1>0
    <3> QED
      BY <1>1, <1>4, <3>1 DEF Seen
  <2>5. Seen(Peer(d))' = Seen(Peer(d))
    BY <1>0, <1>1, <1>4 DEF Seen
  <2>6. d = S2C => Seen(C2S) > 0
    <3>1. d = S2C => packet.ack > 0 /\ packet.ack \in 0 .. rcv[C2S]
      BY <1>0 DEF PacketsOK, EndpointsInv, EndpointsTypeOK
    <3>2. snd[C2S] \in Nat /\ rcv[C2S] \in Nat /\ rcv[C2S] <= snd[C2S]
      BY <1>0
    <3> QED
      BY <1>0, <1>4, <3>1, <3>2 DEF Seen
  <2>7. \/ packet.item = 0 \/ packet.item = Reset \/ d = S2C
        \/ rcv'[S2C] > 0 /\ Seen(S2C) > 0
    <3> SUFFICES ASSUME packet.item \notin {0, Reset}, d = C2S
                 PROVE  rcv'[S2C] > 0 /\ Seen(S2C) > 0
      OBVIOUS
    <3>1. rcv'[S2C] = rcv[S2C] /\ Seen(S2C) = snd[S2C]
      BY <1>0, <1>1, <1>4 DEF Seen
    <3>2. rcv[S2C] \in Nat /\ snd[S2C] \in Nat /\ rcv[S2C] <= snd[S2C]
      BY <1>0
    <3> QED
      BY <2>1, <3>1, <3>2
  <2>8. packet.item = Reset => aborted'[d]
    BY <1>0, <1>1, <2>1
  <2> QED
    BY <1>1, <1>4, <2>1, <2>4, <2>5, <2>6, <2>7, <2>8 DEF Given
<1> QED
  BY <1>3, <1>4

\* A step of a TapSpec, as the flow sees it.
LEMMA StepIsGivenOrNot ==
  ASSUME EndpointsInv, [TapNext]_allVars
  PROVE  \/ \E d \in Dirs : \E item \in Items(d) : See(d, item) /\ Given(d, item)
         \/ NotSeen /\ \A e \in Dirs : Seen(e)' = Seen(e)
<1>1. ASSUME NEW d \in Dirs, NEW packet \in wire[d] PROVE packet.item \in Items(d)
  BY DEF EndpointsInv, EndpointsTypeOK
<1>2. ASSUME NEW d \in Dirs, NEW packet \in wire[d], Lose(d, packet)
      PROVE  NotSeen /\ \A e \in Dirs : Seen(e)' = Seen(e)
  BY <1>2 DEF Lose, endpoints, Seen
<1>3. CASE UNCHANGED allVars
  BY <1>3 DEF allVars, tapVars, endpoints, NotSeen, Seen
<1> QED
  BY <1>1, <1>2, <1>3, SendIsGiven, ReceiveIsGiven DEF TapNext

\* add_segment runs the state machine on every packet, accepted or not.
LEMMA SeeRunsStates ==
  ASSUME NEW d, NEW item, See(d, item)
  PROVE  state' = UpdateState(state, d, FlagsOf(d, item))
  BY DEF See, AddSyn, AddData, RejectData, AddBare

OpenStates == {"Established", "FinWait1", "FinWait2", "CloseWait", "Closing",
               "LastAck", "TimeWait"}

\* The three packets of the handshake and what they take the machine to.
LEMMA UpdateStateOpening ==
  ASSUME NEW s \in TcpState, NEW d \in Dirs, NEW flags
  PROVE  /\ d = C2S /\ "SYN" \in flags /\ "ACK" \notin flags =>
              Progress[UpdateState(s, d, flags)] >= 1
         /\ d = S2C /\ {"SYN", "ACK"} \subseteq flags /\ Progress[s] >= 1 =>
              Progress[UpdateState(s, d, flags)] >= 2
         /\ d = C2S /\ "ACK" \in flags /\ Progress[s] >= 2 =>
              Progress[UpdateState(s, d, flags)] >= 3
         /\ UpdateState(s, d, flags) \in OpenStates =>
              s \in OpenStates \/ (d = C2S /\ "ACK" \in flags)
<1>1. CASE s = "Init"
  BY <1>1, SMT DEF UpdateState, Progress, OpenStates
<1>2. CASE s = "SynSent"
  BY <1>2, SMT DEF UpdateState, Progress, OpenStates
<1>3. CASE s = "SynReceived"
  BY <1>3, SMT DEF UpdateState, FromSynReceived, Progress, OpenStates
<1>4. CASE s \in OpenStates \cup {"Closed"}
  <2>1. Progress[s] >= 3 /\ Progress[s] \in Nat
    BY <1>4 DEF Progress, OpenStates
  <2>2. Progress[UpdateState(s, d, flags)] \in Nat
    BY UpdateStateType DEF Progress, TcpState
  <2>3. Progress[s] <= Progress[UpdateState(s, d, flags)]
    BY UpdateStateProgress
  <2>4. s = "Closed" => UpdateState(s, d, flags) \notin OpenStates
    BY UpdateStateArms DEF OpenStates
  <2> QED
    BY <1>4, <2>1, <2>2, <2>3, <2>4
<1> QED
  BY <1>1, <1>2, <1>3, <1>4 DEF TcpState, OpenStates

(***************************************************************************)
(* EstablishedIsShared is not inductive: when the client is the host, its  *)
(* acknowledgement counts before the server has it.                        *)
(***************************************************************************)
HandshakeSeen ==
  /\ Seen(C2S) > 0 => Progress[state] >= 1
  /\ Seen(S2C) > 0 => Progress[state] >= 2
  /\ host = C2S =>
       \A packet \in wire[C2S] : packet.ack > 0 => Progress[state] >= 3
  /\ acked[S2C] > 0 => Progress[state] >= 3
  /\ state \in OpenStates => rcv[S2C] > 0

EstablishedInv == EndpointsInv /\ state \in TcpState /\ HandshakeSeen

LEMMA EstablishedInit == TapInit => EstablishedInv
<1> SUFFICES ASSUME TapInit PROVE state \in TcpState /\ HandshakeSeen
  BY EndpointsInit DEF EstablishedInv
<1>1. state = "Init" /\ \A d \in Dirs : snd[d] = 0 /\ acked[d] = 0 /\ rcv[d] = 0 /\ wire[d] = {}
  BY DEF TapInit, Init
<1> QED
  BY <1>1 DEF HandshakeSeen, Seen, TcpState, OpenStates

LEMMA EstablishedNext == EstablishedInv /\ [TapNext]_allVars => EstablishedInv'
<1> SUFFICES ASSUME EstablishedInv, [TapNext]_allVars
             PROVE  state' \in TcpState /\ HandshakeSeen'
  BY EndpointsNext DEF EstablishedInv
<1>0. EndpointsInv /\ EndpointsInv' /\ state \in TcpState /\ HandshakeSeen
  BY EndpointsNext DEF EstablishedInv
<1>1. /\ host \in Dirs /\ UNCHANGED host
      /\ \A e \in Dirs : /\ snd[e] \in Nat /\ rcv[e] \in Nat /\ acked[e] \in Nat
                         /\ snd'[e] \in Nat /\ rcv'[e] \in Nat /\ acked'[e] \in Nat
                         /\ acked[e] <= rcv[e] /\ rcv[e] <= snd[e]
                         /\ acked'[e] <= rcv'[e] /\ rcv'[e] <= snd'[e]
  BY <1>0 DEF EndpointsInv, EndpointsTypeOK, TapNext, Send, Receive, Lose, allVars, tapVars
<1>2. state' \in TcpState /\ Progress[state] <= Progress[state']
      /\ Progress[state] \in Nat /\ Progress[state'] \in Nat
  <2>1. state' \in TcpState /\ Progress[state] <= Progress[state']
    BY <1>0, StepIsGivenOrNot, SeeRunsStates, UpdateStateType, UpdateStateProgress
       DEF NotSeen, vars, Progress, TcpState
  <2> QED
    BY <1>0, <2>1 DEF Progress, TcpState
<1>3. /\ \A e \in Dirs : Seen(e) \in Nat /\ Seen(e)' \in Nat
      /\ Seen(C2S)' > 0 => Progress[state'] >= 1
      /\ Seen(S2C)' > 0 => Progress[state'] >= 2
  <2>1. \A e \in Dirs : Seen(e) \in Nat /\ Seen(e)' \in Nat
    BY <1>1 DEF Seen
  <2>2. CASE \A e \in Dirs : Seen(e)' = Seen(e)
    BY <1>0, <1>2, <2>1, <2>2 DEF HandshakeSeen
  <2>3. ASSUME NEW d \in Dirs, NEW item \in Items(d), See(d, item), Given(d, item)
        PROVE  /\ Seen(C2S)' > 0 => Progress[state'] >= 1
               /\ Seen(S2C)' > 0 => Progress[state'] >= 2
    <3>1. state' = UpdateState(state, d, FlagsOf(d, item))
      BY <2>3, SeeRunsStates
    <3>2. CASE Seen(d) > 0
      <4>1. \A e \in Dirs : Seen(e)' > 0 => Seen(e) > 0
        BY <2>1, <2>3, <3>2 DEF Given, Peer
      <4> QED
        BY <1>0, <1>2, <4>1 DEF HandshakeSeen
    <3>3. CASE Seen(d) = 0 /\ item # 0
      <4>1. \A e \in Dirs : Seen(e)' = Seen(e)
        BY <2>3, <3>3 DEF Given, Peer
      <4> QED
        BY <2>2, <4>1
    <3>4. CASE item = 0 /\ d = C2S
      <4>1. Progress[state'] >= 1
        BY <1>0, <3>1, <3>4, FlagsOfItem, UpdateStateOpening
      <4>2. Seen(S2C)' = Seen(S2C)
        BY <2>3, <3>4 DEF Given, Peer
      <4> QED
        BY <1>0, <1>2, <2>1, <4>1, <4>2 DEF HandshakeSeen
    <3>5. CASE item = 0 /\ d = S2C
      <4>1. Progress[state] >= 1
        BY <1>0, <2>3, <3>5 DEF Given, HandshakeSeen
      <4>2. {"SYN", "ACK"} \subseteq FlagsOf(d, item)
        BY <3>5, FlagsOfItem
      <4>3. Progress[state'] >= 2
        BY <1>0, <3>1, <3>5, <4>1, <4>2, UpdateStateOpening
      <4> QED
        BY <1>2, <4>3
    <3> QED
      BY <2>1, <3>2, <3>3, <3>4, <3>5
  <2> QED
    BY <1>0, <2>1, <2>2, <2>3, StepIsGivenOrNot
<1>4. ASSUME NEW item \in Items(C2S), See(C2S, item), item # 0, Seen(S2C) > 0
      PROVE  Progress[state'] >= 3
  <2>1. Progress[state] >= 2
    BY <1>0, <1>4 DEF HandshakeSeen
  <2>2. "ACK" \in FlagsOf(C2S, item)
    BY <1>4, FlagsOfItem
  <2> QED
    BY <1>0, <1>4, <2>1, <2>2, SeeRunsStates, UpdateStateOpening
<1>5. host' = C2S => \A packet \in wire'[C2S] : packet.ack > 0 => Progress[state'] >= 3
  <2> SUFFICES ASSUME host = C2S, NEW packet \in wire'[C2S], packet.ack > 0
               PROVE  Progress[state'] >= 3
    BY <1>1
  <2>1. CASE packet \in wire[C2S]
    BY <1>0, <1>2, <2>1 DEF HandshakeSeen
  <2>2. CASE packet \notin wire[C2S]
    <3>1. PICK item \in Items(C2S) : /\ Send(C2S, item)
                                     /\ packet = [item |-> item, ack |-> rcv[S2C]]
      BY <1>0, <2>2, SMTT(30) DEF TapNext, Send, Receive, Lose, allVars, tapVars, Peer,
                        EndpointsInv, EndpointsTypeOK
    <3>2. item # 0
      BY <1>0, <3>1 DEF EndpointsInv, PacketsOK
    <3>3. Seen(S2C) > 0
      BY <3>1 DEF Seen
    <3> QED
      BY <1>0, <1>4, <3>1, <3>2, <3>3, SendIsGiven
  <2> QED
    BY <2>1, <2>2
<1>6. acked'[S2C] > 0 => Progress[state'] >= 3
  <2> SUFFICES ASSUME acked'[S2C] > 0 PROVE Progress[state'] >= 3
    OBVIOUS
  <2>1. CASE acked[S2C] > 0
    BY <1>0, <1>2, <2>1 DEF HandshakeSeen
  <2>2. CASE ~ (acked[S2C] > 0)
    <3>1. PICK packet \in wire[C2S] : Receive(C2S, packet) /\ packet.ack > 0
      <4>1. acked'[S2C] # acked[S2C]
        BY <2>2
      <4>2. PICK d \in Dirs : \E p \in wire[d] : Receive(d, p)
        BY <4>1 DEF TapNext, Send, Lose, allVars, tapVars, endpoints
      <4>3. PICK packet \in wire[d] : Receive(d, packet)
        BY <4>2
      <4>4. acked' = [acked EXCEPT ![Peer(d)] = packet.ack] /\ packet.ack > acked[Peer(d)]
        BY <4>1, <4>3 DEF Receive
      <4>5. Peer(d) = S2C
        BY <4>1, <4>4
      <4>6. d = C2S
        BY <4>5 DEF Peer
      <4>7. packet.ack \in 0 .. rcv[S2C]
        BY <1>0, <4>3, <4>6 DEF EndpointsInv, EndpointsTypeOK, Peer
      <4> QED
        BY <1>1, <4>3, <4>4, <4>5, <4>6, <4>7
    <3>2. packet.item \in Items(C2S) /\ packet.item # 0 /\ packet.ack \in 0 .. rcv[S2C]
      BY <1>0, <3>1 DEF EndpointsInv, EndpointsTypeOK, PacketsOK, Peer
    <3>3. CASE host = C2S
      BY <1>0, <1>2, <3>1, <3>3 DEF HandshakeSeen
    <3>4. CASE host = S2C
      <4>1. Seen(S2C) > 0
        BY <1>1, <3>1, <3>2, <3>4 DEF Seen
      <4> QED
        BY <1>0, <1>4, <3>1, <3>2, <3>4, <4>1, ReceiveIsGiven
    <3> QED
      BY <1>1, <3>3, <3>4
  <2> QED
    BY <2>1, <2>2
<1>7. state' \in OpenStates => rcv'[S2C] > 0
  <2> SUFFICES ASSUME state' \in OpenStates PROVE rcv'[S2C] > 0
    OBVIOUS
  <2>1. rcv[S2C] <= rcv'[S2C]
    BY <1>0, <1>1, SMTT(30) DEF TapNext, Send, Receive, Lose, allVars, tapVars, endpoints,
                      EndpointsInv, EndpointsTypeOK
  <2>2. CASE state \in OpenStates
    BY <1>0, <1>1, <2>1, <2>2 DEF HandshakeSeen
  <2>3. CASE state \notin OpenStates
    <3>1. state' # state
      BY <2>3
    <3>2. PICK d \in Dirs : \E i \in Items(d) : See(d, i) /\ Given(d, i)
      BY <1>0, <3>1, StepIsGivenOrNot DEF NotSeen, vars
    <3>3. PICK item \in Items(d) : See(d, item) /\ Given(d, item)
      BY <3>2
    <3>4. d = C2S /\ "ACK" \in FlagsOf(d, item)
      BY <1>0, <2>3, <3>3, SeeRunsStates, UpdateStateOpening
    <3>5. item # 0
      BY <3>4, FlagsOfItem
    <3>6. item # Reset
      <4>1. "RST" \in FlagsOf(d, item) => state' = "Closed"
        BY <3>3, SeeRunsStates DEF UpdateState
      <4> QED
        BY <4>1, FlagsOfItem DEF OpenStates
    <3> QED
      BY <3>3, <3>4, <3>5, <3>6 DEF Given
  <2> QED
    BY <2>2, <2>3
<1> QED
  BY <1>2, <1>3, <1>5, <1>6, <1>7 DEF HandshakeSeen

\* The state machine takes a connection past SynReceived only when both
\* endpoints have the other's SYN, and it has done so when the server learns
\* that the client has its own, for any packets lost, repeated or reordered.
THEOREM EstablishedShared == TapSpec => []EstablishedIsShared
<1>1. EstablishedInv => EstablishedIsShared
  <2> SUFFICES ASSUME EstablishedInv PROVE EstablishedIsShared
    OBVIOUS
  <2>1. Progress["Established"] = 3
    BY DEF Progress
  <2>2. Progress[state] >= 3 /\ state # "Closed" => state \in OpenStates
    BY DEF EstablishedInv, TcpState, Progress, OpenStates
  <2>3. rcv[S2C] > 0 => rcv[C2S] > 0
    <3>1. rcv[S2C] > 0 => acked[C2S] > 0
      BY DEF EstablishedInv, EndpointsInv, HandshakeOK
    <3>2. acked[C2S] \in Nat /\ rcv[C2S] \in Nat /\ acked[C2S] <= rcv[C2S]
      BY DEF EstablishedInv, EndpointsInv, EndpointsTypeOK
    <3> QED
      BY <3>1, <3>2
  <2> QED
    BY <2>1, <2>2, <2>3 DEF EstablishedInv, HandshakeSeen, EstablishedIsShared
<1> QED
  BY <1>1, EstablishedInit, EstablishedNext, PTL DEF TapSpec

--------------------------------------------------------------------------------
(***************************************************************************)
(* What the buffers hold.  The flow sees an item again only with the same  *)
(* bytes, and no two segments of an endpoint begin at the same number.     *)
(***************************************************************************)
Key(d, i) == SeqOf(d, InOrder[d][i][1])

HeldOK ==
  \A d \in Dirs :
    /\ Seen(d) > 0 => initial_seq[d]
    /\ \A i \in 1 .. Fin(d) - 1 :
         i < Seen(d) => segments[d][Key(d, i)] = Payload(InOrder[d][i])

HeldInv == EndpointsInv /\ TypeInv /\ HeldOK

LEMMA KeysDiffer ==
  ASSUME NEW d \in Dirs, NEW i \in 1 .. Fin(d) - 1, NEW j \in 1 .. Fin(d) - 1
  PROVE  /\ Key(d, i) \in SeqNum
         /\ i # j => Key(d, i) # Key(d, j)
<1>1. InOrder[d] \in Seq(Segments[d]) /\ DOMAIN InOrder[d] = 1 .. Fin(d) - 1
  BY InOrderAssumption DEF Fin
<1>2. InOrder[d][i] \in Segments[d] /\ InOrder[d][j] \in Segments[d]
  <2>1. Len(InOrder[d]) \in Nat /\ Fin(d) = Len(InOrder[d]) + 1
    BY <1>1 DEF Fin
  <2>2. i \in 1 .. Len(InOrder[d]) /\ j \in 1 .. Len(InOrder[d])
    BY <2>1
  <2> QED
    BY <1>1, <2>2
<1>3. InOrder[d][i][1] \in 0 .. StreamLen[d] /\ InOrder[d][j][1] \in 0 .. StreamLen[d]
  BY <1>2, PayloadType
<1>4. i # j => InOrder[d][i][1] # InOrder[d][j][1]
  BY <1>1, InOrderAssumption
<1> QED
  BY <1>3, <1>4, SeqOfPosition DEF Key

LEMMA HeldInit == TapInit => HeldInv
<1> SUFFICES ASSUME TapInit PROVE HeldOK
  BY EndpointsInit, TypeInvInit DEF HeldInv, TapInit
<1>1. \A d \in Dirs : snd[d] = 0 /\ rcv[d] = 0
  BY DEF TapInit
<1> QED
  BY <1>1 DEF HeldOK, Seen

LEMMA HeldNext == HeldInv /\ [TapNext]_allVars => HeldInv'
<1> SUFFICES ASSUME HeldInv, [TapNext]_allVars PROVE HeldOK'
  BY EndpointsNext, TapStepIsFlowStep, TypeInvNext DEF HeldInv
<1>0. /\ HeldOK /\ segments \in [Dirs -> Buffers] /\ initial_seq \in [Dirs -> BOOLEAN]
      /\ \A e \in Dirs : Seen(e) \in Nat /\ Fin(e) \in Nat \ {0}
  <2>1. \A e \in Dirs : Seen(e) \in Nat
    BY DEF HeldInv, EndpointsInv, EndpointsTypeOK, Seen
  <2>2. \A e \in Dirs : Fin(e) \in Nat \ {0}
    BY InOrderAssumption DEF Fin
  <2> QED
    BY <2>1, <2>2 DEF HeldInv, TypeInv, TypeOK
<1>1. CASE NotSeen /\ \A e \in Dirs : Seen(e)' = Seen(e)
  <2>1. UNCHANGED <<initial_seq, segments>> /\ \A e \in Dirs : Seen(e)' = Seen(e)
    BY <1>1 DEF NotSeen, vars, streams
  <2> HIDE DEF Dirs
  <2> QED
    BY <1>0, <2>1 DEF HeldOK
<1>2. ASSUME NEW d \in Dirs, NEW item \in Items(d), See(d, item), Given(d, item)
      PROVE  HeldOK'
  <2>1. \A i \in Nat : \A e \in Dirs :
          i < Seen(e)' => i < Seen(e) \/ (e = d /\ i = item)
    BY <1>0, <1>2 DEF Given, Peer
  <2>2. CASE UNCHANGED <<initial_seq, segments>>
             /\ (HasData(d, item) => ~ initial_seq[d])
             /\ (item = 0 => initial_seq[d])
    <3> SUFFICES ASSUME NEW e \in Dirs
                 PROVE  /\ Seen(e)' > 0 => initial_seq'[e]
                        /\ \A i \in 1 .. Fin(e) - 1 : i < Seen(e)' =>
                             segments'[e][Key(e, i)] = Payload(InOrder[e][i])
      BY DEF HeldOK, Key, Fin
    <3>1. Seen(e)' > 0 => initial_seq[e]
      BY <1>0, <2>1, <2>2 DEF HeldOK
    <3>2. ASSUME NEW i \in 1 .. Fin(e) - 1, i < Seen(e)'
          PROVE  i < Seen(e)
      <4>1. i \in Nat /\ (e = d /\ i = item => HasData(d, item))
        BY <1>0 DEF HasData
      <4>2. HasData(d, item) => Seen(d) = 0
        BY <1>0, <2>2 DEF HeldOK
      <4>3. HasData(d, item) => item \in Nat /\ item # 0
        BY ItemKinds
      <4>4. HasData(d, item) => Seen(d)' = Seen(d)
        BY <1>2, <4>2, <4>3 DEF Given
      <4> QED
        BY <2>1, <3>2, <4>1, <4>4
    <3> QED
      BY <1>0, <2>2, <3>1, <3>2 DEF HeldOK
  <2>3. CASE item = 0 /\ AddSyn(d, FlagsOf(d, item))
    <3>1. initial_seq' = [initial_seq EXCEPT ![d] = TRUE] /\ UNCHANGED segments
      BY <2>3 DEF AddSyn
    <3>2. \A e \in Dirs : \A i \in 1 .. Fin(e) - 1 : i < Seen(e)' => i < Seen(e)
      BY <1>0, <2>1, <2>3
    <3>3. \A e \in Dirs : Seen(e)' > 0 => initial_seq'[e]
      <4>1. \A e \in Dirs : e # d => Seen(e)' = Seen(e)
        BY <1>2 DEF Given, Peer
      <4> QED
        BY <1>0, <3>1, <4>1 DEF HeldOK
    <3> QED
      BY <1>0, <3>1, <3>2, <3>3 DEF HeldOK, Key, Fin
  <2>4. CASE HasData(d, item) /\ AddData(d, FlagsOf(d, item), InOrder[d][item])
    <3>1. /\ segments' = [segments EXCEPT ![d][Key(d, item)] = Payload(InOrder[d][item])]
          /\ UNCHANGED initial_seq /\ initial_seq[d]
      BY <2>4 DEF AddData, Key
    <3>2. item \in 1 .. Fin(d) - 1
      BY <2>4 DEF HasData
    <3>3. ASSUME NEW e \in Dirs, NEW i \in 1 .. Fin(e) - 1, i < Seen(e)'
          PROVE  segments'[e][Key(e, i)] = Payload(InOrder[e][i])
      <4>1. CASE e = d /\ i = item
        BY <1>0, <3>1, <3>2, <4>1, KeysDiffer DEF Buffers
      <4>2. CASE ~ (e = d /\ i = item)
        <5>1. i < Seen(e)
          BY <1>0, <2>1, <3>3, <4>2
        <5>2. segments[e][Key(e, i)] = Payload(InOrder[e][i])
          BY <1>0, <5>1 DEF HeldOK
        <5>3. e = d => Key(e, i) # Key(d, item)
          BY <3>2, <4>2, KeysDiffer
        <5>4. Key(e, i) \in SeqNum
          BY KeysDiffer
        <5> QED
          BY <1>0, <3>1, <5>2, <5>3, <5>4 DEF Buffers
      <4> QED
        BY <4>1, <4>2
    <3>4. \A e \in Dirs : Seen(e)' > 0 => initial_seq'[e]
      <4>1. \A e \in Dirs : e # d => Seen(e)' = Seen(e)
        BY <1>2 DEF Given, Peer
      <4> QED
        BY <1>0, <3>1, <4>1 DEF HeldOK
    <3> QED
      BY <3>3, <3>4 DEF HeldOK, Key, Fin
  <2>5. CASE HasData(d, item) /\ RejectData(d, FlagsOf(d, item))
    BY <2>2, <2>5, ItemKinds DEF RejectData, streams
  <2>6. CASE item # 0 /\ ~ HasData(d, item) /\ AddBare(d, FlagsOf(d, item))
    BY <2>2, <2>6 DEF AddBare
  <2> QED
    BY <1>2, <2>3, <2>4, <2>5, <2>6 DEF See
<1> QED
  BY <1>1, <1>2, StepIsGivenOrNot DEF HeldInv

\* The buffers hold every byte the endpoints have received, whatever the order
\* and however often it came, for any division of the streams into segments.
THEOREM AllReceivedHeld == TapSpec => []HoldsAllReceived
<1>1. HeldInv => HoldsAllReceived
  <2> SUFFICES ASSUME HeldInv, NEW d \in Dirs, NEW i \in 1 .. Fin(d) - 1, i < rcv[d]
               PROVE  BytesOf(Payload(InOrder[d][i])) \subseteq Waiting(d)
    BY DEF HoldsAllReceived
  <2>1. rcv[d] \in Nat /\ snd[d] \in Nat /\ rcv[d] <= snd[d]
    BY DEF HeldInv, EndpointsInv, EndpointsTypeOK
  <2>2. i < Seen(d)
    BY <2>1 DEF Seen
  <2>3. segments[d][Key(d, i)] = Payload(InOrder[d][i])
    BY <2>2 DEF HeldInv, HeldOK
  <2>4. Key(d, i) \in SeqNum
    BY KeysDiffer
  <2> QED
    BY <2>3, <2>4, Zenon DEF Waiting
<1> QED
  BY <1>1, HeldInit, HeldNext, PTL DEF TapSpec

--------------------------------------------------------------------------------
(***************************************************************************)
(* Closing.  The endpoints put ACK on every FIN, so the flow never enters  *)
(* Closing; each state on the way to Closed has counted its FINs, and a    *)
(* FIN the flow has seen has been sent.                                    *)
(***************************************************************************)
LEMMA UpdateStateClosing ==
  ASSUME NEW s \in TcpState, s # "Closing", NEW d \in Dirs, NEW flags,
         "RST" \notin flags, "FIN" \in flags => "ACK" \in flags,
         NEW t, t = UpdateState(s, d, flags)
  PROVE  /\ t # "Closing"
         /\ t \in {"FinWait1", "CloseWait"} => t = s \/ (s = "Established" /\ "FIN" \in flags)
         /\ t = "FinWait2" => s \in {"FinWait1", "FinWait2"}
         /\ t = "LastAck" => s = "LastAck" \/ (s = "CloseWait" /\ "FIN" \in flags)
         /\ t = "TimeWait" => s = "FinWait2" /\ "FIN" \in flags
         /\ t = "Closed" => s \in {"LastAck", "TimeWait", "Closed"}
<1>1. CASE s = "Init"
  BY <1>1, SMT DEF UpdateState
<1>2. CASE s = "SynSent"
  BY <1>2, SMT DEF UpdateState
<1>3. CASE s = "SynReceived"
  BY <1>3, SMT DEF UpdateState, FromSynReceived
<1>4. CASE s = "Established"
  BY <1>4, SMT DEF UpdateState
<1>5. CASE s = "FinWait1"
  BY <1>5, SMT DEF UpdateState, FromFinWait1
<1>6. CASE s = "FinWait2"
  BY <1>6, SMT DEF UpdateState, FromFinWait2
<1>7. CASE s = "CloseWait"
  BY <1>7, SMT DEF UpdateState
<1>8. CASE s \in {"LastAck", "TimeWait", "Closed"}
  BY <1>8, UpdateStateArms
<1> QED
  BY <1>1, <1>2, <1>3, <1>4, <1>5, <1>6, <1>7, <1>8 DEF TcpState

FinsOK ==
  /\ state # "Closing"
  /\ state \in OpenStates => opened
  /\ state \in {"FinWait1", "FinWait2", "CloseWait"} => Len(fins) >= 1
  /\ state \in {"LastAck", "TimeWait"} => Len(fins) >= 2
  /\ state = "Closed" => Len(fins) >= 2 \/ Aborted
  /\ \A i \in DOMAIN fins : snd[fins[i]] = Fin(fins[i]) + 1

ClosingInv == EndpointsInv /\ state \in TcpState /\ FinsOK

LEMMA ClosingInit == TapInit => ClosingInv
<1> SUFFICES ASSUME TapInit PROVE state \in TcpState /\ FinsOK
  BY EndpointsInit DEF ClosingInv
<1>1. state = "Init" /\ fins = << >>
  BY Zenon DEF TapInit, Init
<1> QED
  BY <1>1 DEF FinsOK, TcpState, OpenStates

LEMMA ClosingNext == ClosingInv /\ [TapNext]_allVars => ClosingInv'
<1> SUFFICES ASSUME ClosingInv, [TapNext]_allVars
             PROVE  state' \in TcpState /\ FinsOK'
  BY EndpointsNext DEF ClosingInv
<1>0. EndpointsInv /\ EndpointsInv' /\ state \in TcpState /\ FinsOK
  BY EndpointsNext DEF ClosingInv
<1>1. /\ fins \in Seq(Dirs) /\ Len(fins) \in Nat /\ Len(fins) <= 3 /\ opened \in BOOLEAN
      /\ \A e \in Dirs : snd[e] \in Nat /\ Fin(e) \in Nat /\ snd[e] <= Fin(e) + 1
      /\ \A e \in Dirs : snd'[e] \in Nat /\ snd'[e] <= Fin(e) + 1 /\ Fin(e)' = Fin(e)
  <2>1. \A e \in Dirs : Fin(e) \in Nat
    BY InOrderAssumption DEF Fin
  <2>2. \A e \in Dirs : Fin(e)' = Fin(e)
    BY DEF Fin
  <2>3. fins \in Seq(Dirs) /\ Len(fins) <= 3 /\ opened \in BOOLEAN
        /\ \A e \in Dirs : snd[e] \in Nat /\ snd[e] <= Fin(e) + 1
    BY <1>0 DEF EndpointsInv, EndpointsTypeOK
  <2>4. \A e \in Dirs : snd'[e] \in Nat /\ snd'[e] <= Fin(e)' + 1
    BY <1>0 DEF EndpointsInv, EndpointsTypeOK
  <2> QED
    BY <2>1, <2>2, <2>3, <2>4
<1>2. \A e \in Dirs : snd[e] <= snd'[e] /\ (aborted[e] => aborted'[e])
  <2>1. snd \in [Dirs -> Nat] /\ aborted \in [Dirs -> BOOLEAN]
    BY <1>0 DEF EndpointsInv, EndpointsTypeOK
  <2>2. ASSUME NEW d \in Dirs, NEW item \in Items(d), Send(d, item)
        PROVE  \A e \in Dirs : snd[e] <= snd'[e] /\ (aborted[e] => aborted'[e])
    BY <2>1, <2>2 DEF Send
  <2>3. ASSUME NEW d \in Dirs, NEW packet \in wire[d], Receive(d, packet)
        PROVE  \A e \in Dirs : snd[e] <= snd'[e] /\ (aborted[e] => aborted'[e])
    BY <1>1, <2>1, <2>3 DEF Receive
  <2>4. CASE UNCHANGED <<snd, aborted>>
    BY <1>1, <2>4
  <2> QED
    BY <2>2, <2>3, <2>4 DEF TapNext, Lose, allVars, tapVars, endpoints
<1>3. \A e \in Dirs : snd[e] = Fin(e) + 1 => snd'[e] = Fin(e) + 1
  BY <1>1, <1>2
<1>4. Aborted => Aborted'
  BY <1>2 DEF Aborted
<1>5. CASE NotSeen
  <2>1. state' = state /\ fins' = fins /\ opened' = opened
    BY <1>5 DEF NotSeen, vars, history
  <2>2. \A i \in DOMAIN fins : fins[i] \in Dirs
    BY <1>1
  <2> QED
    BY <1>0, <1>1, <1>3, <1>4, <2>1, <2>2 DEF FinsOK
<1>6. ASSUME NEW d \in Dirs, NEW item \in Items(d), See(d, item), Given(d, item)
      PROVE  state' \in TcpState /\ FinsOK'
  <2> DEFINE flags == FlagsOf(d, item)
             counted == opened /\ item = Fin(d) /\ Len(fins) < 3
  <2>1. state' = UpdateState(state, d, flags) /\ state' \in TcpState
    BY <1>0, <1>6, SeeRunsStates, UpdateStateType
  <2>2. fins' = IF counted THEN Append(fins, d) ELSE fins
    BY <1>6 DEF See
  <2>3. /\ "SYN" \in flags <=> item = 0
        /\ "FIN" \in flags <=> item = Fin(d)
        /\ "RST" \in flags <=> item = Reset
        /\ "ACK" \in flags <=> ~ (d = C2S /\ item = 0)
        /\ "FIN" \in flags => "ACK" \in flags
    BY FlagsOfItem, ItemKinds
  <2>4. opened' = (opened \/ (d = C2S /\ "ACK" \in flags))
    BY <1>6 DEF See
  <2> HIDE DEF flags
  <2>5. /\ Len(fins') \in Nat /\ Len(fins) <= Len(fins')
        /\ opened /\ "FIN" \in flags => Len(fins') = Len(fins) + 1 \/ Len(fins') = 3
    <3>1. CASE counted
      <4>1. Len(fins') = Len(fins) + 1
        BY <1>1, <2>2, <3>1
      <4> QED
        BY <1>1, <4>1
    <3>2. CASE ~ counted
      <4>1. fins' = fins
        BY <2>2, <3>2
      <4>2. opened /\ "FIN" \in flags => ~ (Len(fins) < 3)
        BY <2>3, <3>2
      <4>3. ~ (Len(fins) < 3) => Len(fins) = 3
        <5>1. Len(fins) \in Nat /\ Len(fins) <= 3
          BY <1>1
        <5>2. \A n \in Nat : n <= 3 => n < 3 \/ n = 3
          OBVIOUS
        <5> QED
          BY <5>1, <5>2, Zenon
      <4>4. Len(fins') \in Nat /\ Len(fins) <= Len(fins')
        BY <1>1, <4>1
      <4> QED
        BY <4>1, <4>2, <4>3, <4>4, Zenon
    <3> QED
      BY <3>1, <3>2
  <2> HIDE DEF counted
  <2>6. \A i \in DOMAIN fins' : snd'[fins'[i]] = Fin(fins'[i]) + 1
    <3> SUFFICES ASSUME NEW i \in DOMAIN fins'
                 PROVE  snd'[fins'[i]] = Fin(fins'[i]) + 1
      OBVIOUS
    <3>1. (i \in DOMAIN fins /\ fins'[i] = fins[i]) \/ (counted /\ fins'[i] = d)
      <4>1. CASE counted
        BY <1>1, <2>2, <4>1
      <4>2. CASE ~ counted
        BY <2>2, <4>2
      <4> QED
        BY <4>1, <4>2
    <3>2. CASE i \in DOMAIN fins /\ fins'[i] = fins[i]
      <4>1. fins[i] \in Dirs /\ snd[fins[i]] = Fin(fins[i]) + 1
        BY <1>0, <1>1, <3>2 DEF FinsOK
      <4> QED
        BY <1>1, <1>3, <3>2, <4>1
    <3>3. CASE counted /\ fins'[i] = d
      <4>1. Fin(d) < snd'[d]
        BY <1>1, <1>6, <3>3 DEF Given, counted
      <4> QED
        BY <1>1, <3>3, <4>1
    <3> QED
      BY <3>1, <3>2, <3>3
  <2>7. CASE item = Reset
    <3>1. state' = "Closed"
      BY <2>1, <2>3, <2>7 DEF UpdateState
    <3>2. Aborted'
      BY <1>6, <2>7 DEF Given, Aborted
    <3> QED
      BY <2>1, <2>6, <3>1, <3>2 DEF FinsOK, OpenStates, Fin
  <2>8. CASE item # Reset
    <3>1. /\ state' # "Closing"
          /\ state' \in {"FinWait1", "CloseWait"} =>
               state' = state \/ (state = "Established" /\ "FIN" \in flags)
          /\ state' = "FinWait2" => state \in {"FinWait1", "FinWait2"}
          /\ state' = "LastAck" => state = "LastAck" \/ (state = "CloseWait" /\ "FIN" \in flags)
          /\ state' = "TimeWait" => state = "FinWait2" /\ "FIN" \in flags
          /\ state' = "Closed" => state \in {"LastAck", "TimeWait", "Closed"}
      BY <1>0, <2>1, <2>3, <2>8, UpdateStateClosing DEF FinsOK
    <3>2. state' \in OpenStates => opened'
      BY <1>0, <2>1, <2>4, UpdateStateOpening DEF FinsOK
    <3>3. state \in {"Established", "FinWait1", "FinWait2", "CloseWait", "LastAck", "TimeWait"}
            => opened
      BY <1>0 DEF FinsOK, OpenStates
    <3>4. state' \in {"FinWait1", "FinWait2", "CloseWait"} => Len(fins') >= 1
      BY <1>0, <1>1, <2>5, <3>1, <3>3, SMTT(30) DEF FinsOK
    <3>5. state' \in {"LastAck", "TimeWait"} => Len(fins') >= 2
      <4>1. CASE state \in {"LastAck", "TimeWait"}
        BY <1>0, <1>1, <2>5, <4>1 DEF FinsOK
      <4>2. CASE state \in {"CloseWait", "FinWait2"} /\ "FIN" \in flags
        <5>1. opened /\ Len(fins) >= 1
          BY <1>0, <3>3, <4>2 DEF FinsOK
        <5>2. Len(fins') = Len(fins) + 1 \/ Len(fins') = 3
          BY <2>5, <4>2, <5>1
        <5>3. Len(fins) \in Nat /\ Len(fins) <= 3
          BY <1>1
        <5> QED
          BY <5>1, <5>2, <5>3
      <4> QED
        BY <3>1, <4>1, <4>2
    <3>6. state' = "Closed" => Len(fins') >= 2 \/ Aborted'
      BY <1>0, <1>1, <1>4, <2>5, <3>1 DEF FinsOK
    <3> QED
      BY <2>1, <2>6, <3>1, <3>2, <3>4, <3>5, <3>6 DEF FinsOK, Fin
  <2> QED
    BY <2>7, <2>8
<1> QED
  BY <1>0, <1>5, <1>6, StepIsGivenOrNot

\* A flow in TimeWait or Closed watches a connection that was aborted or that
\* both ends have closed, or it has counted one end's FIN twice.
THEOREM ClosedClosed == TapSpec => []ClosedIsClosed
<1>1. ClosingInv => ClosedIsClosed
  <2> SUFFICES ASSUME ClosingInv, state \in {"TimeWait", "Closed"}, ~ Aborted,
                      \A i, j \in DOMAIN fins : i # j => fins[i] # fins[j]
               PROVE  \A d \in Dirs : snd[d] = Fin(d) + 1
    BY DEF ClosedIsClosed
  <2>1. fins \in Seq(Dirs) /\ Len(fins) \in Nat /\ Len(fins) >= 2
    BY DEF ClosingInv, FinsOK, EndpointsInv, EndpointsTypeOK
  <2>2. 1 \in DOMAIN fins /\ 2 \in DOMAIN fins /\ fins[1] \in Dirs /\ fins[2] \in Dirs
    BY <2>1
  <2>3. fins[1] # fins[2]
    BY <2>2
  <2>4. \A d \in Dirs : d = fins[1] \/ d = fins[2]
    BY <2>2, <2>3
  <2> QED
    BY <2>2, <2>4 DEF ClosingInv, FinsOK
<1> QED
  BY <1>1, ClosingInit, ClosingNext, PTL DEF TapSpec

--------------------------------------------------------------------------------
(***************************************************************************)
(* Where the flow rests.  The FINs it has counted and whether the first    *)
(* has been answered determine its state, up to the acknowledgement that   *)
(* takes it from TimeWait or LastAck to Closed; and that acknowledgement   *)
(* cannot have gone past the flow.                                         *)
(***************************************************************************)
LEMMA AppendIs ==
  ASSUME NEW f \in Seq(Dirs), NEW d \in Dirs,
         NEW a \in Dirs, NEW b \in Dirs, NEW c \in Dirs
  PROVE  /\ Append(f, d) # << >>
         /\ Append(f, d) = <<a>> => f = << >> /\ d = a
         /\ Append(f, d) = <<a, b>> => f = <<a>> /\ d = b
         /\ Append(f, d) = <<a, b, c>> => f = <<a, b>> /\ d = c
<1>1. Len(f) \in Nat /\ Len(Append(f, d)) = Len(f) + 1 /\ Append(f, d)[Len(f) + 1] = d
      /\ \A i \in 1 .. Len(f) : Append(f, d)[i] = f[i]
  OBVIOUS
<1>5. \A m, n \in Nat : m = n + 1 => /\ m = 1 => n = 0
                                     /\ m = 2 => n = 1
                                     /\ m = 3 => n = 2
  OBVIOUS
<1>2. Append(f, d) # << >>
  BY <1>1
<1>3. ASSUME Append(f, d) = <<a>> PROVE f = << >> /\ d = a
  <2>1. Len(f) = 0
    BY <1>1, <1>3
  <2> QED
    BY <1>1, <1>3, <2>1
<1>4. ASSUME Append(f, d) = <<a, b>> PROVE f = <<a>> /\ d = b
  <2>4. Len(<<a, b>>) = 2
    OBVIOUS
  <2>5. Len(Append(f, d)) = 2
    BY <1>4, <2>4, Zenon
  <2>6. 2 \in Nat
    OBVIOUS
  <2>1. Len(f) = 1
    BY <1>1, <1>5, <2>5, <2>6, Zenon
  <2>2. d = b /\ f[1] = a
    BY <1>1, <1>4, <2>1
  <2>3. f \in [1 .. 1 -> Dirs]
    BY <2>1
  <2> QED
    BY <2>2, <2>3
<1>6. ASSUME Append(f, d) = <<a, b, c>> PROVE f = <<a, b>> /\ d = c
  <2>1. Len(<<a, b, c>>) = 3 /\ 3 \in Nat
    OBVIOUS
  <2>2. Len(Append(f, d)) = 3
    BY <1>6, <2>1, Zenon
  <2>3. Len(f) = 2
    BY <1>1, <1>5, <2>1, <2>2, Zenon
  <2>4. d = c /\ f[1] = a /\ f[2] = b
    BY <1>1, <1>6, <2>3
  <2>5. f \in [1 .. 2 -> Dirs]
    BY <2>3
  <2> QED
    BY <2>4, <2>5
<1> QED
  BY <1>2, <1>3, <1>4, <1>6

\* The sequences of at most three FINs, by length.
LEMMA FinsCases ==
  ASSUME NEW f \in Seq(Dirs), Len(f) <= 3
  PROVE  \/ f = << >>
         \/ \E a \in Dirs : f = <<a>>
         \/ \E a, b \in Dirs : f = <<a, b>>
         \/ \E a, b, c \in Dirs : f = <<a, b, c>>
<1>1. f \in [1 .. Len(f) -> Dirs] /\ Len(f) \in Nat
  OBVIOUS
<1>2. CASE Len(f) = 0
  BY <1>2
<1>3. CASE Len(f) = 1
  <2>1. f[1] \in Dirs /\ f = <<f[1]>>
    BY <1>1, <1>3
  <2> QED
    BY <2>1, Zenon
<1>4. CASE Len(f) = 2
  <2>1. f[1] \in Dirs /\ f[2] \in Dirs /\ f = <<f[1], f[2]>>
    BY <1>1, <1>4
  <2> QED
    BY <2>1, Zenon
<1>5. CASE Len(f) = 3
  <2>1. f[1] \in Dirs /\ f[2] \in Dirs /\ f[3] \in Dirs /\ f = <<f[1], f[2], f[3]>>
    BY <1>1, <1>5
  <2> QED
    BY <2>1, Zenon
<1> QED
  BY <1>1, <1>2, <1>3, <1>4, <1>5

\* The arms of update_state for packets that carry no RST, state by state.
LEMMA UpdateStateRests ==
  ASSUME NEW d \in Dirs, NEW flags, "RST" \notin flags, "FIN" \in flags => "ACK" \in flags
  PROVE  /\ \A s \in {"Init", "SynSent", "SynReceived"} :
              ~ (d = C2S /\ "ACK" \in flags) =>
                UpdateState(s, d, flags) \in {"Init", "SynSent", "SynReceived"}
         /\ d = C2S /\ "ACK" \in flags => UpdateState("SynReceived", d, flags) = "Established"
         /\ UpdateState("Established", d, flags) =
              IF "FIN" \notin flags THEN "Established"
              ELSE IF d = C2S THEN "FinWait1" ELSE "CloseWait"
         /\ UpdateState("FinWait1", d, flags) =
              IF "ACK" \in flags THEN "FinWait2" ELSE "FinWait1"
         /\ UpdateState("FinWait2", d, flags) =
              IF "FIN" \in flags THEN "TimeWait" ELSE "FinWait2"
         /\ UpdateState("CloseWait", d, flags) =
              IF d = S2C /\ "FIN" \in flags THEN "LastAck" ELSE "CloseWait"
         /\ UpdateState("LastAck", d, flags) =
              IF d = C2S /\ "ACK" \in flags THEN "Closed" ELSE "LastAck"
<1>1. /\ ~ (d = C2S /\ "ACK" \in flags) =>
           /\ UpdateState("Init", d, flags) \in {"Init", "SynSent", "SynReceived"}
           /\ UpdateState("SynSent", d, flags) \in {"Init", "SynSent", "SynReceived"}
           /\ UpdateState("SynReceived", d, flags) \in {"Init", "SynSent", "SynReceived"}
  BY SMT DEF UpdateState, FromSynReceived
<1>2. d = C2S /\ "ACK" \in flags => UpdateState("SynReceived", d, flags) = "Established"
  BY SMT DEF UpdateState, FromSynReceived
<1>3. UpdateState("Established", d, flags) =
        IF "FIN" \notin flags THEN "Established"
        ELSE IF d = C2S THEN "FinWait1" ELSE "CloseWait"
  BY SMT DEF UpdateState
<1>4. UpdateState("FinWait1", d, flags) = IF "ACK" \in flags THEN "FinWait2" ELSE "FinWait1"
  BY SMT DEF UpdateState, FromFinWait1
<1>5. UpdateState("FinWait2", d, flags) = IF "FIN" \in flags THEN "TimeWait" ELSE "FinWait2"
  BY SMT DEF UpdateState, FromFinWait2
<1>6. UpdateState("CloseWait", d, flags) =
        IF d = S2C /\ "FIN" \in flags THEN "LastAck" ELSE "CloseWait"
  BY SMT DEF UpdateState
<1>7. UpdateState("LastAck", d, flags) =
        IF d = C2S /\ "ACK" \in flags THEN "Closed" ELSE "LastAck"
  BY SMT DEF UpdateState
<1> QED
  BY <1>1, <1>2, <1>3, <1>4, <1>5, <1>6, <1>7

\* The server closed first and its FIN was seen again.
ServerAgain(f) ==
  f = <<S2C, S2C>> \/ f = <<S2C, C2S, S2C>> \/ \E d \in Dirs : f = <<S2C, S2C, d>>

StateByFins ==
  /\ ~ opened => fins = << >> /\ state \in {"Init", "SynSent", "SynReceived"}
  /\ opened /\ fins = << >> => state = "Established"
  /\ fins = << >> => ~ answered
  /\ fins = <<C2S>> => state = IF answered THEN "FinWait2" ELSE "FinWait1"
  /\ fins = <<S2C>> \/ fins = <<S2C, C2S>> => state = "CloseWait"
  /\ \A d \in Dirs : fins = <<C2S, d>> =>
       IF answered THEN state \in {"TimeWait", "Closed"} ELSE state = "FinWait2"
  /\ \A d, e \in Dirs : fins = <<C2S, d, e>> => state \in {"TimeWait", "Closed"}
  /\ ServerAgain(fins) => state \in {"LastAck", "Closed"}
  /\ fins = <<S2C, C2S, C2S>> => state \in {"CloseWait", "LastAck", "Closed"}

LEMMA StateByFinsStep ==
  ASSUME EstablishedInv, StateByFins, NEW d \in Dirs, NEW item \in Items(d),
         See(d, item), Given(d, item), item # Reset
  PROVE  StateByFins'
<1> DEFINE flags == FlagsOf(d, item)
           fin == item = Fin(d)
           counted == opened /\ fin /\ Len(fins) < 3
<1>1. state' = UpdateState(state, d, flags) /\ state \in TcpState
  BY SeeRunsStates DEF EstablishedInv
<1>2. /\ "FIN" \in flags <=> fin
      /\ "RST" \notin flags
      /\ "ACK" \in flags <=> ~ (d = C2S /\ item = 0)
      /\ "FIN" \in flags => "ACK" \in flags
  BY FlagsOfItem, ItemKinds
<1>3. /\ opened' = (opened \/ (d = C2S /\ "ACK" \in flags))
      /\ fins' = IF counted THEN Append(fins, d) ELSE fins
      /\ answered' = (answered \/ (Len(fins) = 1 /\ "ACK" \in flags /\ ~ fin))
  BY DEF See
<1>4. opened \in BOOLEAN /\ answered \in BOOLEAN /\ fins \in Seq(Dirs)
  BY DEF EstablishedInv, EndpointsInv, EndpointsTypeOK
<1>5. ~ opened /\ d = C2S /\ "ACK" \in flags => state = "SynReceived"
  <2> SUFFICES ASSUME ~ opened, d = C2S, "ACK" \in flags PROVE state = "SynReceived"
    OBVIOUS
  <2>1. Seen(S2C) > 0
    BY <1>2 DEF Given
  <2>2. Progress[state] >= 2
    BY <2>1 DEF EstablishedInv, HandshakeSeen
  <2>3. state \in {"Init", "SynSent", "SynReceived"}
    BY DEF StateByFins
  <2> QED
    BY <2>2, <2>3 DEF Progress
<1> HIDE DEF flags
<1>6. ~ opened' => fins' = << >> /\ state' \in {"Init", "SynSent", "SynReceived"}
  <2> SUFFICES ASSUME ~ opened' PROVE fins' = << >> /\ state' \in {"Init", "SynSent", "SynReceived"}
    OBVIOUS
  <2>1. ~ opened /\ ~ (d = C2S /\ "ACK" \in flags)
    BY <1>3
  <2>2. fins' = << >>
    BY <1>3, <2>1 DEF StateByFins
  <2>3. state \in {"Init", "SynSent", "SynReceived"}
    BY <2>1 DEF StateByFins
  <2>4. state' \in {"Init", "SynSent", "SynReceived"}
    BY <1>1, <1>2, <2>1, <2>3, UpdateStateRests
  <2> QED
    BY <2>2, <2>4
<1>7. fins' = << >> => fins = << >> /\ ~ counted
  BY <1>3, <1>4, AppendIs
<1>8. fins = << >> => ~ answered' /\ ~ answered
  <2>1. fins = << >> => Len(fins) # 1
    OBVIOUS
  <2> QED
    BY <1>3, <2>1 DEF StateByFins
<1>9. opened' /\ fins' = << >> => state' = "Established"
  <2> SUFFICES ASSUME opened', fins' = << >> PROVE state' = "Established"
    OBVIOUS
  <2>1. CASE opened
    <3>1. Len(fins) < 3
      BY <1>7
    <3>2. "FIN" \notin flags
      BY <1>2, <1>7, <2>1, <3>1
    <3>3. state = "Established"
      BY <1>7, <2>1 DEF StateByFins
    <3> QED
      BY <1>1, <1>2, <3>2, <3>3, UpdateStateRests
  <2>2. CASE ~ opened
    <3>1. d = C2S /\ "ACK" \in flags
      BY <1>3, <2>2, Zenon
    <3>2. state = "SynReceived"
      BY <1>5, <2>2, <3>1
    <3> QED
      BY <1>1, <1>2, <3>1, <3>2, UpdateStateRests
  <2> QED
    BY <2>1, <2>2
<1>10. fins # << >> => opened
  BY DEF StateByFins
<1>11. fins' = <<C2S>> => state' = IF answered' THEN "FinWait2" ELSE "FinWait1"
  <2> SUFFICES ASSUME fins' = <<C2S>> PROVE state' = IF answered' THEN "FinWait2" ELSE "FinWait1"
    OBVIOUS
  <2>1. CASE counted
    <3>1. fins = << >> /\ d = C2S
      BY <1>3, <1>4, <2>1, AppendIs
    <3>2. state = "Established" /\ "FIN" \in flags /\ ~ answered'
      BY <1>2, <1>8, <2>1, <3>1 DEF StateByFins
    <3> QED
      BY <1>1, <1>2, <3>1, <3>2, UpdateStateRests
  <2>2. CASE ~ counted
    <3>1. fins = <<C2S>>
      BY <1>3, <2>2
    <3>2. Len(fins) = 1 /\ fins # << >>
      BY <3>1
    <3>3. ~ fin
      BY <1>10, <2>2, <3>2
    <3>4. state = IF answered THEN "FinWait2" ELSE "FinWait1"
      BY <3>1 DEF StateByFins
    <3>5. answered' = (answered \/ "ACK" \in flags)
      BY <1>3, <3>2, <3>3
    <3> HIDE DEF fin
    <3>6. CASE answered
      <4>1. state = "FinWait2"
        BY <3>4, <3>6
      <4>2. state' = "FinWait2"
        BY <1>1, <1>2, <3>3, <4>1, UpdateStateRests
      <4>3. answered'
        BY <3>5, <3>6
      <4> QED
        BY <4>2, <4>3
    <3>7. CASE ~ answered
      <4>1. state = "FinWait1"
        BY <3>4, <3>7
      <4>2. state' = IF "ACK" \in flags THEN "FinWait2" ELSE "FinWait1"
        BY <1>1, <1>2, <4>1, UpdateStateRests
      <4>3. answered' <=> "ACK" \in flags
        BY <3>5, <3>7
      <4> QED
        BY <4>2, <4>3
    <3> QED
      BY <3>6, <3>7
  <2> QED
    BY <2>1, <2>2
<1>12. fins' = <<S2C>> \/ fins' = <<S2C, C2S>> => state' = "CloseWait"
  <2> SUFFICES ASSUME fins' = <<S2C>> \/ fins' = <<S2C, C2S>> PROVE state' = "CloseWait"
    OBVIOUS
  <2>1. CASE counted
    <3>1. (fins = << >> /\ d = S2C) \/ (fins = <<S2C>> /\ d = C2S)
      BY <1>3, <1>4, <2>1, AppendIs
    <3>2. CASE fins = << >> /\ d = S2C
      <4>1. state = "Established" /\ "FIN" \in flags
        BY <1>2, <2>1, <3>2 DEF StateByFins
      <4> QED
        BY <1>1, <1>2, <3>2, <4>1, UpdateStateRests
    <3>3. CASE fins = <<S2C>> /\ d = C2S
      <4>1. state = "CloseWait"
        BY <3>3 DEF StateByFins
      <4> QED
        BY <1>1, <1>2, <3>3, <4>1, UpdateStateRests
    <3> QED
      BY <3>1, <3>2, <3>3
  <2>2. CASE ~ counted
    <3>1. fins = <<S2C>> \/ fins = <<S2C, C2S>>
      BY <1>3, <2>2
    <3>2. Len(fins) < 3 /\ fins # << >>
      <4>1. CASE fins = <<S2C>>
        BY <4>1
      <4>2. CASE fins = <<S2C, C2S>>
        BY <4>2
      <4> QED
        BY <3>1, <4>1, <4>2
    <3>3. "FIN" \notin flags
      BY <1>2, <1>10, <2>2, <3>2
    <3>4. state = "CloseWait"
      BY <3>1 DEF StateByFins
    <3> QED
      BY <1>1, <1>2, <3>3, <3>4, UpdateStateRests
  <2> QED
    BY <2>1, <2>2
<1>13. ASSUME NEW e \in Dirs, fins' = <<C2S, e>>
       PROVE  IF answered' THEN state' \in {"TimeWait", "Closed"} ELSE state' = "FinWait2"
  <2>1. CASE counted
    <3>1. fins = <<C2S>>
      <4>1. Append(fins, d) = <<C2S, e>> /\ C2S \in Dirs
        BY <1>3, <1>13, <2>1 DEF Dirs, C2S, S2C
      <4>2. Append(fins, d) = <<C2S, e>> => fins = <<C2S>>
        BY <1>4, <1>13, <4>1, AppendIs, Zenon
      <4> QED
        BY <4>1, <4>2
    <3>2. state = (IF answered THEN "FinWait2" ELSE "FinWait1") /\ "FIN" \in flags
      BY <1>2, <2>1, <3>1 DEF StateByFins
    <3>3. answered' = answered
      BY <1>3, <1>4, <2>1
    <3>4. CASE answered
      BY <1>1, <1>2, <3>2, <3>3, <3>4, UpdateStateRests
    <3>5. CASE ~ answered
      BY <1>1, <1>2, <3>2, <3>3, <3>5, UpdateStateRests
    <3> QED
      BY <3>4, <3>5
  <2>2. CASE ~ counted
    <3>1. fins = <<C2S, e>>
      BY <1>3, <1>13, <2>2
    <3>2. Len(fins) = 2 /\ fins # << >>
      BY <3>1
    <3>3. "FIN" \notin flags
      BY <1>2, <1>10, <2>2, <3>2
    <3>4. answered' = answered
      BY <1>3, <1>4, <3>2
    <3>5. IF answered THEN state \in {"TimeWait", "Closed"} ELSE state = "FinWait2"
      BY <3>1 DEF StateByFins
    <3>6. CASE answered
      BY <1>1, <3>4, <3>5, <3>6, UpdateStateArms
    <3>7. CASE ~ answered
      BY <1>1, <1>2, <3>3, <3>4, <3>5, <3>7, UpdateStateRests
    <3> QED
      BY <3>6, <3>7
  <2> QED
    BY <2>1, <2>2
<1>14. ASSUME NEW a \in Dirs, NEW e \in Dirs, fins' = <<C2S, a, e>>
       PROVE  state' \in {"TimeWait", "Closed"}
  <2>1. CASE counted
    <3>1. fins = <<C2S, a>>
      <4>1. Append(fins, d) = <<C2S, a, e>> /\ C2S \in Dirs
        BY <1>3, <1>14, <2>1 DEF Dirs, C2S, S2C
      <4>2. Append(fins, d) = <<C2S, a, e>> => fins = <<C2S, a>>
        BY <1>4, <1>14, <4>1, AppendIs, Zenon
      <4> QED
        BY <4>1, <4>2
    <3>2. state \in {"TimeWait", "Closed", "FinWait2"} /\ "FIN" \in flags
      BY <1>2, <2>1, <3>1 DEF StateByFins
    <3> QED
      BY <1>1, <1>2, <3>2, UpdateStateRests, UpdateStateArms
  <2>2. CASE ~ counted
    <3>1. fins = <<C2S, a, e>>
      BY <1>3, <1>14, <2>2
    <3>2. state \in {"TimeWait", "Closed"}
      BY <3>1 DEF StateByFins
    <3> QED
      BY <1>1, <3>2, UpdateStateArms
  <2> QED
    BY <2>1, <2>2
<1>15. ServerAgain(fins') => state' \in {"LastAck", "Closed"}
  <2> SUFFICES ASSUME ServerAgain(fins') PROVE state' \in {"LastAck", "Closed"}
    OBVIOUS
  <2>1. CASE ServerAgain(fins)
    <3>1. state \in {"LastAck", "Closed"}
      BY <2>1 DEF StateByFins
    <3> QED
      BY <1>1, <3>1, UpdateStateArms
  <2>2. CASE ~ ServerAgain(fins)
    <3>1. counted /\ ServerAgain(Append(fins, d))
      BY <1>3, <2>2
    <3>2. C2S \in Dirs /\ S2C \in Dirs
      BY DEF Dirs
    <3>3. d = S2C /\ (fins = <<S2C>> \/ fins = <<S2C, C2S>>)
      <4>1. CASE Append(fins, d) = <<S2C, S2C>>
        BY <1>4, <3>2, <4>1, AppendIs
      <4>2. CASE Append(fins, d) = <<S2C, C2S, S2C>>
        BY <1>4, <3>2, <4>2, AppendIs
      <4>3. ASSUME NEW e \in Dirs, Append(fins, d) = <<S2C, S2C, e>> PROVE FALSE
        <5>1. fins = <<S2C, S2C>>
          BY <1>4, <3>2, <4>3, AppendIs
        <5> QED
          BY <2>2, <5>1 DEF ServerAgain
      <4> QED
        BY <3>1, <4>1, <4>2, <4>3 DEF ServerAgain
    <3>4. state = "CloseWait" /\ "FIN" \in flags
      BY <1>2, <3>1, <3>3 DEF StateByFins
    <3> QED
      BY <1>1, <1>2, <3>3, <3>4, UpdateStateRests
  <2> QED
    BY <2>1, <2>2
<1>16. fins' = <<S2C, C2S, C2S>> => state' \in {"CloseWait", "LastAck", "Closed"}
  <2> SUFFICES ASSUME fins' = <<S2C, C2S, C2S>>
               PROVE  state' \in {"CloseWait", "LastAck", "Closed"}
    OBVIOUS
  <2>1. CASE counted
    <3>1. C2S \in Dirs /\ S2C \in Dirs
      BY DEF Dirs
    <3>2. fins = <<S2C, C2S>>
      BY <1>3, <1>4, <2>1, <3>1, AppendIs
    <3>3. state = "CloseWait"
      BY <3>2 DEF StateByFins
    <3> QED
      BY <1>1, <3>3, UpdateStateArms
  <2>2. CASE ~ counted
    <3>1. state \in {"CloseWait", "LastAck", "Closed"}
      BY <1>3, <2>2 DEF StateByFins
    <3> QED
      BY <1>1, <3>1, UpdateStateArms
  <2> QED
    BY <2>1, <2>2
<1> QED
  BY <1>6, <1>7, <1>8, <1>9, <1>11, <1>12, <1>13, <1>14, <1>15, <1>16 DEF StateByFins

\* No FIN of the server escapes the count before the third.
CountOK ==
  Seen(S2C) = Fin(S2C) + 1 => Len(fins) = 3 \/ \E i \in DOMAIN fins : fins[i] = S2C

\* The FIN that took the flow to TimeWait or LastAck is still to be acknowledged
\* by a packet the flow will see: the host owes it, or waits for it.
AckToCome ==
  /\ state = "TimeWait" => owes[host] \/ acked[host] <= Fin(host)
  /\ state = "LastAck" => IF host = C2S THEN owes[C2S] ELSE acked[S2C] <= Fin(S2C)

RestInv ==
  /\ EstablishedInv /\ ClosingInv
  /\ ~ Aborted => StateByFins /\ CountOK /\ AckToCome

LEMMA RestInit == TapInit => RestInv
<1> SUFFICES ASSUME TapInit PROVE StateByFins /\ CountOK /\ AckToCome
  BY EstablishedInit, ClosingInit DEF RestInv
<1>1. state = "Init" /\ fins = << >> /\ ~ opened /\ ~ answered
  BY Zenon DEF TapInit, Init
<1>2. Seen(S2C) = 0 /\ Fin(S2C) \in Nat
  <2>1. snd[S2C] = 0 /\ rcv[S2C] = 0
    BY DEF TapInit
  <2>2. Fin(S2C) \in Nat
    BY InOrderAssumption DEF Fin
  <2> QED
    BY <2>1, <2>2 DEF Seen
<1>3. StateByFins
  BY <1>1 DEF StateByFins, ServerAgain
<1>4. CountOK /\ AckToCome
  BY <1>1, <1>2 DEF CountOK, AckToCome
<1> QED
  BY <1>3, <1>4

LEMMA AbortedStays == EndpointsInv /\ [TapNext]_allVars /\ Aborted => Aborted'
<1> SUFFICES ASSUME EndpointsInv, [TapNext]_allVars, NEW e \in Dirs, aborted[e]
             PROVE  aborted'[e]
  BY DEF Aborted
<1>1. aborted \in [Dirs -> BOOLEAN]
  BY DEF EndpointsInv, EndpointsTypeOK
<1>2. ASSUME NEW d \in Dirs, NEW item \in Items(d), Send(d, item) PROVE aborted'[e]
  BY <1>1, <1>2 DEF Send
<1>3. ASSUME NEW d \in Dirs, NEW packet \in wire[d], Receive(d, packet) PROVE aborted'[e]
  BY <1>1, <1>3 DEF Receive
<1>4. CASE UNCHANGED aborted
  BY <1>4
<1> QED
  BY <1>2, <1>3, <1>4 DEF TapNext, Lose, allVars, tapVars, endpoints

\* What a packet the flow is given does to TimeWait and LastAck: a FIN takes it
\* there, and in LastAck it stays until the client acknowledges.
LEMMA SeeClosing ==
  ASSUME ClosingInv, NEW d \in Dirs, NEW item \in Items(d), See(d, item), item # Reset
  PROVE  /\ state' = "TimeWait" => item = Fin(d)
         /\ state' = "LastAck" =>
              \/ d = S2C /\ item = Fin(d)
              \/ state = "LastAck" /\ (d = S2C \/ item = 0)
<1> DEFINE flags == FlagsOf(d, item)
<1>1. /\ state' = UpdateState(state, d, flags)
      /\ state \in TcpState /\ state # "Closing"
  BY SeeRunsStates DEF ClosingInv, FinsOK
<1>2. /\ "FIN" \in flags <=> item = Fin(d)
      /\ "ACK" \in flags <=> ~ (d = C2S /\ item = 0)
      /\ "RST" \notin flags
      /\ "FIN" \in flags => "ACK" \in flags
  BY FlagsOfItem, ItemKinds
<1> HIDE DEF flags
<1>3. state' = "TimeWait" => item = Fin(d)
  BY <1>1, <1>2, UpdateStateClosing
<1>4. state' = "LastAck" => state = "LastAck" \/ state = "CloseWait"
  BY <1>1, <1>2, UpdateStateClosing
<1>5. state = "CloseWait" /\ state' = "LastAck" => d = S2C /\ item = Fin(d)
  BY <1>1, <1>2, UpdateStateRests
<1>6. state = "LastAck" /\ state' = "LastAck" => d = S2C \/ item = 0
  BY <1>1, <1>2, UpdateStateRests DEF Dirs
<1> QED
  BY <1>3, <1>4, <1>5, <1>6

LEMMA AckToComeNext ==
  ASSUME EstablishedInv, ClosingInv, AckToCome, [TapNext]_allVars, ~ Aborted'
  PROVE  AckToCome'
<1>0. /\ EndpointsInv
      /\ host \in Dirs /\ DOMAIN wire = Dirs
      /\ acked \in [Dirs -> Nat] /\ owes \in [Dirs -> BOOLEAN]
      /\ aborted' \in [Dirs -> BOOLEAN]
      /\ \A d \in Dirs : Fin(d) \in Nat \ {0} /\ Fin(d)' = Fin(d)
      /\ \A d \in Dirs : Peer(d) \in Dirs /\ Peer(d) # d
      /\ C2S \in Dirs /\ S2C \in Dirs /\ C2S # S2C
      /\ \A d \in Dirs : d = C2S \/ d = S2C
  <2>1. \A d \in Dirs : Fin(d) \in Nat \ {0} /\ Fin(d)' = Fin(d)
    BY InOrderAssumption DEF Fin
  <2>2. EndpointsInv /\ EndpointsInv'
    BY EndpointsNext DEF EstablishedInv
  <2> QED
    BY <2>1, <2>2 DEF EndpointsInv, EndpointsTypeOK, Dirs, Peer, C2S, S2C
<1>1. ASSUME UNCHANGED <<state, host>>, owes'[host] = owes[host], acked'[host] = acked[host]
      PROVE  AckToCome'
  <2>1. Fin(host)' = Fin(host) /\ Fin(S2C)' = Fin(S2C)
    BY <1>1 DEF Fin
  <2> QED
    BY <1>0, <1>1, <2>1 DEF AckToCome
<1>2. ASSUME NEW d \in Dirs, NEW item \in Items(d), Send(d, item), d # host
      PROVE  AckToCome'
  <2>1. NotSeen /\ UNCHANGED <<host, acked>> /\ owes' = [owes EXCEPT ![d] = FALSE]
    BY <1>2 DEF Send
  <2> QED
    BY <1>0, <1>1, <1>2, <2>1 DEF NotSeen, vars
<1>3. ASSUME NEW item \in Items(host), Send(host, item)
      PROVE  AckToCome'
  <2>1. /\ See(host, item) /\ UNCHANGED <<host, acked>> /\ MaySend(host, item)
        /\ aborted' = IF item = Reset THEN [aborted EXCEPT ![host] = TRUE] ELSE aborted
    BY <1>3 DEF Send
  <2>2. item # Reset
    <3>1. item = Reset => aborted'[host]
      BY <1>0, <2>1 DEF EndpointsInv, EndpointsTypeOK
    <3> QED
      BY <1>0, <3>1 DEF Aborted
  <2>3. item \in Nat => item \in acked[host] .. snd[host]
    BY <2>1, ItemsAssumption DEF MaySend
  <2>4. item = Fin(host) => acked[host] <= Fin(host)
    BY <1>0, <2>3
  <2>5. item = 0 => acked[host] = 0
    BY <1>0, <2>3
  <2>6. state = "LastAck" => acked[C2S] > 0
    BY DEF EstablishedInv, HandshakeSeen, OpenStates, EndpointsInv, HandshakeOK
  <2>7. state' = "TimeWait" => acked'[host] <= Fin(host)
    BY <1>0, <2>1, <2>2, <2>4, SeeClosing
  <2>8. ASSUME state' = "LastAck" PROVE host = S2C /\ acked'[S2C] <= Fin(S2C)
    <3>1. \/ host = S2C /\ item = Fin(host)
          \/ state = "LastAck" /\ (host = S2C \/ item = 0)
      BY <1>0, <2>1, <2>2, <2>8, SeeClosing
    <3>2. host = C2S => ~ (state = "LastAck" /\ item = 0)
      BY <1>0, <2>5, <2>6
    <3>3. host = S2C
      BY <1>0, <3>1, <3>2
    <3>4. CASE item = Fin(host)
      BY <2>1, <2>4, <3>3, <3>4
    <3>5. CASE state = "LastAck"
      BY <1>0, <2>1, <3>3, <3>5 DEF AckToCome
    <3> QED
      BY <3>1, <3>4, <3>5
  <2> QED
    BY <1>0, <2>1, <2>7, <2>8 DEF AckToCome
<1>4. ASSUME NEW packet \in wire[host], Receive(host, packet)
      PROVE  AckToCome'
  <2>1. /\ NotSeen /\ UNCHANGED host
        /\ acked' = acked \/ acked' = [acked EXCEPT ![Peer(host)] = packet.ack]
        /\ owes' = owes \/ owes' = [owes EXCEPT ![Peer(host)] = TRUE]
    BY <1>4 DEF Receive
  <2>2. acked'[host] = acked[host] /\ owes'[host] = owes[host]
    BY <1>0, <2>1
  <2> QED
    BY <1>1, <2>1, <2>2 DEF NotSeen, vars
<1>5. ASSUME NEW d \in Dirs, d # host, NEW packet \in wire[d], Receive(d, packet)
      PROVE  AckToCome'
  <2> DEFINE item == packet.item
  <2>1. /\ See(d, item) /\ UNCHANGED host /\ Peer(d) = host
        /\ acked' = IF rcv'[d] > 0 /\ packet.ack > acked[Peer(d)]
                    THEN [acked EXCEPT ![Peer(d)] = packet.ack] ELSE acked
        /\ owes' = IF item \in Nat THEN [owes EXCEPT ![Peer(d)] = TRUE] ELSE owes
        /\ aborted' = IF item = Reset THEN [aborted EXCEPT ![Peer(d)] = TRUE] ELSE aborted
    BY <1>0, <1>5 DEF Receive, Peer
  <2>2. item \in Items(d) /\ (d = C2S /\ item = 0 => packet.ack = 0)
    BY <1>0 DEF EndpointsInv, EndpointsTypeOK, PacketsOK
  <2>3. item # Reset
    <3>1. item = Reset => aborted'[host]
      BY <1>0, <2>1 DEF EndpointsInv, EndpointsTypeOK
    <3> QED
      BY <1>0, <3>1 DEF Aborted
  <2>4. item \in Nat => owes'[host]
    BY <1>0, <2>1
  <2>5. owes[host] => owes'[host]
    BY <1>0, <2>1
  <2> HIDE DEF item
  <2>6. state' = "TimeWait" => owes'[host]
    BY <1>0, <2>1, <2>2, <2>3, <2>4, SeeClosing
  <2>7. ASSUME state' = "LastAck"
        PROVE  IF host = C2S THEN owes'[C2S] ELSE acked'[S2C] <= Fin(S2C)
    <3>1. \/ d = S2C /\ item = Fin(d)
          \/ state = "LastAck" /\ (d = S2C \/ item = 0)
      BY <2>1, <2>2, <2>3, <2>7, SeeClosing
    <3>2. CASE d = S2C
      <4>1. host = C2S
        BY <1>0, <1>5, <3>2
      <4>2. CASE item = Fin(d)
        BY <1>0, <2>4, <4>1, <4>2
      <4>3. CASE state = "LastAck"
        BY <2>5, <4>1, <4>3 DEF AckToCome
      <4> QED
        BY <3>1, <4>1, <4>2, <4>3
    <3>3. CASE d = C2S
      <4>1. host = S2C /\ host # C2S
        BY <1>0, <1>5, <3>3
      <4>2. state = "LastAck" /\ item = 0
        BY <1>0, <3>1, <3>3
      <4>3. packet.ack = 0
        BY <2>2, <3>3, <4>2 DEF item
      <4>4. acked[host] \in Nat
        BY <1>0
      <4>5. acked' = acked
        BY <2>1, <4>3, <4>4
      <4> QED
        BY <4>1, <4>2, <4>5 DEF AckToCome
    <3> QED
      BY <1>0, <3>2, <3>3
  <2> QED
    BY <1>0, <2>1, <2>6, <2>7 DEF AckToCome
<1>6. ASSUME NEW d \in Dirs, NEW packet \in wire[d], Lose(d, packet)
      PROVE  AckToCome'
  BY <1>1, <1>6 DEF Lose, endpoints, NotSeen, vars
<1>7. CASE UNCHANGED allVars
  BY <1>1, <1>7 DEF allVars, tapVars, endpoints, vars
<1> QED
  BY <1>0, <1>2, <1>3, <1>4, <1>5, <1>6, <1>7, Zenon DEF TapNext

LEMMA RestNext == RestInv /\ [TapNext]_allVars => RestInv'
<1> SUFFICES ASSUME RestInv, [TapNext]_allVars, ~ Aborted'
             PROVE  StateByFins' /\ CountOK' /\ AckToCome'
  BY EstablishedNext, ClosingNext DEF RestInv
<1>0. EstablishedInv /\ EndpointsInv /\ EndpointsInv' /\ StateByFins /\ CountOK /\ AckToCome'
  BY AbortedStays, EstablishedNext, AckToComeNext DEF RestInv, EstablishedInv
<1>1. /\ fins \in Seq(Dirs) /\ Len(fins) \in Nat /\ Len(fins) <= 3
      /\ state \in TcpState /\ Fin(S2C) \in Nat /\ Fin(S2C)' = Fin(S2C)
  <2>1. Fin(S2C) \in Nat
    BY InOrderAssumption DEF Fin
  <2>2. Fin(S2C)' = Fin(S2C)
    BY DEF Fin
  <2>3. fins \in Seq(Dirs) /\ Len(fins) <= 3
    BY <1>0 DEF EndpointsInv, EndpointsTypeOK
  <2> QED
    BY <1>0, <2>1, <2>2, <2>3 DEF EstablishedInv
<1>3. CASE NotSeen /\ \A e \in Dirs : Seen(e)' = Seen(e)
  <2>1. UNCHANGED <<state, fins, answered, opened>>
    BY <1>3 DEF NotSeen, vars, history
  <2>2. StateByFins'
    BY <1>0, <2>1 DEF StateByFins, ServerAgain
  <2>3. CountOK'
    BY <1>0, <1>1, <1>3, <2>1 DEF CountOK
  <2> QED
    BY <1>0, <2>2, <2>3
<1>4. ASSUME NEW d \in Dirs, NEW item \in Items(d), See(d, item), Given(d, item)
      PROVE  StateByFins' /\ CountOK'
  <2>1. item # Reset
    BY <1>4 DEF Given, Aborted
  <2>2. StateByFins'
    BY <1>0, <1>4, <2>1, StateByFinsStep
  <2>3. /\ fins' = fins \/ (fins' = Append(fins, d) /\ Len(fins) < 3)
        /\ opened /\ item = Fin(d) /\ Len(fins) < 3 => fins' = Append(fins, d)
    BY <1>4 DEF See
  <2>4. ASSUME Seen(S2C)' = Fin(S2C)' + 1
        PROVE  Len(fins') = 3 \/ \E i \in DOMAIN fins' : fins'[i] = S2C
    <3>1. CASE Seen(S2C) = Fin(S2C) + 1
      <4>1. Len(fins) = 3 \/ \E i \in DOMAIN fins : fins[i] = S2C
        BY <1>0, <3>1 DEF CountOK
      <4>2. CASE fins' = fins
        BY <4>1, <4>2
      <4>3. CASE fins' = Append(fins, d) /\ Len(fins) < 3
        <5>1. PICK i \in DOMAIN fins : fins[i] = S2C
          BY <4>1, <4>3
        <5> QED
          BY <1>1, <4>3, <5>1
      <4> QED
        BY <2>3, <4>2, <4>3
    <3>2. CASE Seen(S2C) # Fin(S2C) + 1
      <4>1. d = S2C /\ item = Seen(S2C) /\ item = Fin(S2C)
        <5>1. Seen(S2C) \in Nat
          BY <1>0 DEF EndpointsInv, EndpointsTypeOK, Seen
        <5> QED
          BY <1>1, <1>4, <2>4, <3>2, <5>1 DEF Given, Peer
      <4>2. acked[S2C] > 0
        BY <1>4, <4>1, ItemKinds DEF Given
      <4>3. opened
        <5>1. Progress[state] >= 3
          BY <1>0, <4>2 DEF EstablishedInv, HandshakeSeen
        <5>2. state \notin {"Init", "SynSent", "SynReceived"}
          BY <5>1 DEF Progress
        <5> QED
          BY <1>0, <5>2 DEF StateByFins
      <4>4. CASE Len(fins) < 3
        <5>1. fins' = Append(fins, S2C)
          BY <2>3, <4>1, <4>3, <4>4
        <5> QED
          BY <1>1, <5>1
      <4>5. CASE ~ (Len(fins) < 3)
        <5>1. fins' = fins
          BY <2>3, <4>5
        <5>2. \A n \in Nat : n <= 3 => n < 3 \/ n = 3
          OBVIOUS
        <5>3. Len(fins) = 3
          BY <1>1, <4>5, <5>2, Zenon
        <5> QED
          BY <5>1, <5>3
      <4> QED
        BY <4>4, <4>5
    <3> QED
      BY <3>1, <3>2
  <2> QED
    BY <2>2, <2>4 DEF CountOK
<1> QED
  BY <1>0, <1>3, <1>4, StepIsGivenOrNot

\* When a connection has been closed in order, the FINs the flow has counted
\* decide whether it is Closed or has stopped in FinWait2 or CloseWait.
THEOREM RestsRight == TapSpec => []RestsWhereItCloses
<1>1. RestInv => RestsWhereItCloses
  <2> SUFFICES ASSUME RestInv, Finished PROVE RestsWhereItCloses
    BY DEF RestsWhereItCloses
  <2>1. ~ Aborted
    BY DEF Finished, Aborted
  <2>2. StateByFins /\ CountOK /\ AckToCome
    BY <2>1 DEF RestInv
  <2>3. /\ fins \in Seq(Dirs) /\ Len(fins) <= 3 /\ host \in Dirs
        /\ \A d \in Dirs : Fin(d) \in Nat
        /\ \A d \in Dirs : acked[d] <= rcv[d] /\ rcv[d] <= snd[d] /\ snd[d] <= Fin(d) + 1
        /\ \A d \in Dirs : acked[d] \in Nat /\ rcv[d] \in Nat /\ snd[d] \in Nat
    <3>1. \A d \in Dirs : Fin(d) \in Nat
      BY InOrderAssumption DEF Fin
    <3> QED
      BY <3>1 DEF RestInv, EstablishedInv, EndpointsInv, EndpointsTypeOK
  <2>4. state # "TimeWait" /\ state # "LastAck"
    <3>1. \A d \in Dirs : acked[d] = Fin(d) + 1 /\ ~ owes[d]
      BY DEF Finished
    <3>2. C2S \in Dirs /\ S2C \in Dirs
      BY DEF Dirs
    <3> QED
      BY <2>2, <2>3, <3>1, <3>2 DEF AckToCome
  <2>5. Len(fins) = 3 \/ \E i \in DOMAIN fins : fins[i] = S2C
    <3>1. acked[S2C] = Fin(S2C) + 1 /\ S2C \in Dirs
      BY DEF Finished, Dirs
    <3>2. Seen(S2C) = Fin(S2C) + 1
      BY <2>3, <3>1 DEF Seen
    <3> QED
      BY <2>2, <3>2 DEF CountOK
  <2>6. fins # << >>
    BY <2>5
  <2>7. C2S # S2C /\ \A d \in Dirs : d = C2S \/ d = S2C
    BY DEF C2S, S2C, Dirs
  <2>8. ASSUME NEW a \in Dirs, fins = <<a>> PROVE RestsWhereItCloses
    <3>1. a = S2C
      BY <2>5, <2>8
    <3>2. fins = <<S2C>> /\ Len(fins) = 1 /\ fins[1] = S2C /\ DOMAIN fins = {1}
      BY <2>8, <3>1
    <3>3. state = "CloseWait" /\ fins # <<S2C, C2S, C2S>> /\ ~ FinAgain(S2C)
      BY <2>2, <3>2 DEF StateByFins, FinAgain
    <3> QED
      BY <2>6, <2>7, <3>2, <3>3 DEF RestsWhereItCloses
  <2>9. ASSUME NEW a \in Dirs, NEW b \in Dirs, fins = <<a, b>> PROVE RestsWhereItCloses
    <3>1. Len(fins) = 2 /\ fins[1] = a /\ fins[2] = b /\ DOMAIN fins = {1, 2}
      BY <2>9
    <3>2. CASE a = C2S
      <4>1. state = IF answered THEN "Closed" ELSE "FinWait2"
        BY <2>2, <2>4, <2>9, <3>2 DEF StateByFins
      <4> QED
        BY <2>6, <2>7, <3>1, <3>2, <4>1 DEF RestsWhereItCloses
    <3>3. CASE a = S2C /\ b = S2C
      <4>1. state = "Closed"
        BY <2>2, <2>4, <2>9, <3>3 DEF StateByFins, ServerAgain
      <4>2. fins \notin {<<S2C>>, <<S2C, C2S>>} /\ fins # <<S2C, C2S, C2S>>
        BY <2>7, <3>1, <3>3
      <4> QED
        BY <2>6, <2>7, <3>1, <3>3, <4>1, <4>2 DEF RestsWhereItCloses
    <3>4. CASE a = S2C /\ b = C2S
      <4>1. state = "CloseWait"
        BY <2>2, <2>9, <3>4 DEF StateByFins
      <4>2. ~ FinAgain(S2C) /\ fins # <<S2C, C2S, C2S>>
        BY <2>7, <3>1, <3>4 DEF FinAgain
      <4> QED
        BY <2>6, <2>7, <3>1, <3>4, <4>1, <4>2 DEF RestsWhereItCloses
    <3> QED
      BY <2>7, <3>2, <3>3, <3>4
  <2>10. ASSUME NEW a \in Dirs, NEW b \in Dirs, NEW c \in Dirs, fins = <<a, b, c>>
         PROVE  RestsWhereItCloses
    <3>1. Len(fins) = 3 /\ fins[1] = a /\ fins[2] = b /\ fins[3] = c /\ DOMAIN fins = {1, 2, 3}
      BY <2>10
    <3>2. fins \notin {<<S2C>>, <<S2C, C2S>>}
      BY <3>1
    <3>3. CASE a = C2S
      <4>1. state = "Closed"
        BY <2>2, <2>4, <2>10, <3>3 DEF StateByFins
      <4> QED
        BY <2>6, <2>7, <3>1, <3>2, <3>3, <4>1 DEF RestsWhereItCloses
    <3>4. CASE a = S2C /\ (b = S2C \/ c = S2C)
      <4>1. ServerAgain(fins)
        BY <2>7, <2>10, <3>4 DEF ServerAgain
      <4>2. state = "Closed"
        BY <2>2, <2>4, <4>1 DEF StateByFins
      <4> QED
        BY <2>6, <2>7, <3>1, <3>2, <3>4, <4>2 DEF RestsWhereItCloses
    <3>5. CASE a = S2C /\ b = C2S /\ c = C2S
      <4>1. state \in {"CloseWait", "Closed"}
        BY <2>2, <2>4, <2>10, <3>5 DEF StateByFins
      <4>2. ~ FinAgain(S2C)
        BY <2>7, <3>1, <3>5 DEF FinAgain
      <4> QED
        BY <2>6, <2>7, <3>1, <3>2, <3>5, <4>1, <4>2 DEF RestsWhereItCloses
    <3> QED
      BY <2>7, <3>3, <3>4, <3>5
  <2> QED
    BY <2>3, <2>6, <2>8, <2>9, <2>10, FinsCases
<1> QED
  BY <1>1, RestInit, RestNext, PTL DEF TapSpec
================================================================================
