-------------------------------- MODULE TcpFlow --------------------------------
(***************************************************************************)
(* TcpFlow and TcpStream of src/session/flow.rs: the state machine, and    *)
(* per direction the buffer of segments keyed by raw sequence number from  *)
(* which has_new_data reassembles the byte stream.                         *)
(*                                                                         *)
(* The environment is the wire as the sniffer sees it: any segment an      *)
(* endpoint may have sent, in any order, any number of times, or never.    *)
(* The byte an endpoint sends at stream position p is modelled by p        *)
(* itself, so reassembled data is right iff it reads 0, 1, 2, ...          *)
(***************************************************************************)
EXTENDS Integers, Sequences, TcpStates

CONSTANTS
  SeqMod,     \* number of sequence numbers: 2^32 in the code (u32)
  ISN,        \* ISN[d]: initial sequence number of the sender of direction d
  StreamLen,  \* StreamLen[d]: number of bytes that sender sends
  Segments,   \* Segments[d]: its data segments, as <<position, length>>
  LateSyn     \* may a copy of the SYN be seen after data was reassembled?

SeqNum == 0 .. SeqMod - 1

ASSUME SeqModAssumption == SeqMod \in Nat \ {0}
ASSUME ISNAssumption == ISN \in [Dirs -> SeqNum]
ASSUME StreamLenAssumption == StreamLen \in [Dirs -> SeqNum]
ASSUME SegmentsAssumption ==
  \A d \in Dirs : \A seg \in Segments[d] :
    /\ seg \in Nat \X (Nat \ {0})
    /\ seg[1] + seg[2] <= StreamLen[d]
ASSUME LateSynAssumption == LateSyn \in BOOLEAN

VARIABLES
  state,             \* TcpFlow.state
  initial_seq,       \* the fields of the two TcpStreams: is it Some(_) ?
  next_seq,
  segments,          \* BTreeMap<u32, Vec<u8>>: see Buffers
  reassembled_data,
  fin_received,
  pc                 \* "idle", or the direction has_new_data is reassembling

streams == <<initial_seq, next_seq, segments, reassembled_data, fin_received>>
vars == <<state, streams, pc>>

\* The segments of one direction: a sequence number the map does not hold is
\* mapped to << >>, which add_segment never inserts.
Buffers == [SeqNum -> Seq(Nat)]

Init ==
  /\ state = "Init"
  /\ initial_seq = [d \in Dirs |-> FALSE]
  /\ next_seq = [d \in Dirs |-> 0]
  /\ segments = [d \in Dirs |-> [s \in SeqNum |-> << >>]]
  /\ reassembled_data = [d \in Dirs |-> << >>]
  /\ fin_received = [d \in Dirs |-> FALSE]
  /\ pc = "idle"

--------------------------------------------------------------------------------
\* Mutants, named <definition>_<slip>, each before the definition it alters,
\* are slips the properties below must notice; nothing else uses them.
WrappingAdd_NoWrap(a, b) == a + b

\* u32::wrapping_add, for operands below SeqMod.
WrappingAdd(a, b) == IF a + b < SeqMod THEN a + b ELSE a + b - SeqMod

\* Sequence number of the byte at position p: the SYN takes ISN itself.
SeqOf(d, p) == WrappingAdd(WrappingAdd(ISN[d], 1), p)

\* The payload of a segment.
Payload(seg) == [i \in 1 .. seg[2] |-> seg[1] + i - 1]

(***************************************************************************)
(* add_segment.  The state machine runs first; the SYN branch returns      *)
(* without looking at data or FIN; data for a stream that has seen no SYN  *)
(* is an Err that leaves the stream alone; otherwise data is inserted at   *)
(* its sequence number, replacing what the buffer held there.              *)
(***************************************************************************)
AddSyn_FirstOnly(d, flags) ==   \* a SYN-ACK does not initialise its stream
  /\ pc = "idle"
  /\ "SYN" \in flags
  /\ LateSyn \/ reassembled_data[d] = << >>
  /\ state' = UpdateState(state, d, flags)
  /\ initial_seq' = [initial_seq EXCEPT ![d] = "ACK" \notin flags]
  /\ next_seq' = [next_seq EXCEPT ![d] = WrappingAdd(ISN[d], 1)]
  /\ UNCHANGED <<segments, reassembled_data, fin_received, pc>>

AddSyn_Restarts(d, flags) ==    \* a SYN starts the state machine afresh
  /\ pc = "idle"
  /\ "SYN" \in flags
  /\ LateSyn \/ reassembled_data[d] = << >>
  /\ state' = UpdateState("Init", d, flags)
  /\ initial_seq' = [initial_seq EXCEPT ![d] = TRUE]
  /\ next_seq' = [next_seq EXCEPT ![d] = WrappingAdd(ISN[d], 1)]
  /\ UNCHANGED <<segments, reassembled_data, fin_received, pc>>

AddSyn(d, flags) ==
  /\ pc = "idle"
  /\ "SYN" \in flags
  /\ LateSyn \/ reassembled_data[d] = << >>
  /\ state' = UpdateState(state, d, flags)
  /\ initial_seq' = [initial_seq EXCEPT ![d] = TRUE]
  /\ next_seq' = [next_seq EXCEPT ![d] = WrappingAdd(ISN[d], 1)]
  /\ UNCHANGED <<segments, reassembled_data, fin_received, pc>>

SetFin(d, flags) ==
  fin_received' = IF "FIN" \in flags THEN [fin_received EXCEPT ![d] = TRUE]
                  ELSE fin_received

AddData(d, flags, seg) ==
  /\ pc = "idle"
  /\ "SYN" \notin flags
  /\ initial_seq[d]
  /\ state' = UpdateState(state, d, flags)
  /\ segments' = [segments EXCEPT ![d][SeqOf(d, seg[1])] = Payload(seg)]
  /\ SetFin(d, flags)
  /\ UNCHANGED <<initial_seq, next_seq, reassembled_data, pc>>

RejectData_PicksUp(d, flags) ==   \* data in mid-stream counts as established
  /\ pc = "idle"
  /\ "SYN" \notin flags
  /\ Segments[d] # {}
  /\ ~ initial_seq[d]
  /\ state' = UpdateState("Established", d, flags)
  /\ UNCHANGED <<streams, pc>>

RejectData(d, flags) ==
  /\ pc = "idle"
  /\ "SYN" \notin flags
  /\ Segments[d] # {}
  /\ ~ initial_seq[d]
  /\ state' = UpdateState(state, d, flags)
  /\ UNCHANGED <<streams, pc>>

\* A segment without SYN or data: an ACK, a FIN, a RST.
AddBare(d, flags) ==
  /\ pc = "idle"
  /\ "SYN" \notin flags
  /\ state' = UpdateState(state, d, flags)
  /\ SetFin(d, flags)
  /\ UNCHANGED <<initial_seq, next_seq, segments, reassembled_data, pc>>

(***************************************************************************)
(* has_new_data, one action per iteration of reassemble's loop over the    *)
(* smallest buffered sequence number.  The loop has the flow to itself     *)
(* (&mut self): nothing else happens while pc names a direction.           *)
(***************************************************************************)
HasNewData(d) ==
  /\ pc = "idle"
  /\ pc' = d
  /\ UNCHANGED <<state, streams>>

\* segments.iter().next() yields the entry at s.
Buffered(d) == {s \in SeqNum : segments[d][s] # << >>}
IsFirst(d, s) == s \in Buffered(d) /\ \A t \in Buffered(d) : s <= t

TakeExpected_OneByte(d) ==   \* next_seq counts segments
  LET data == segments[d][next_seq[d]] IN
  /\ pc = d
  /\ IsFirst(d, next_seq[d])
  /\ reassembled_data' = [reassembled_data EXCEPT ![d] = @ \o data]
  /\ next_seq' = [next_seq EXCEPT ![d] = WrappingAdd(@, 1)]
  /\ segments' = [segments EXCEPT ![d][next_seq[d]] = << >>]
  /\ UNCHANGED <<state, initial_seq, fin_received, pc>>

TakeExpected(d) ==
  LET data == segments[d][next_seq[d]] IN
  /\ pc = d
  /\ IsFirst(d, next_seq[d])
  /\ reassembled_data' = [reassembled_data EXCEPT ![d] = @ \o data]
  /\ next_seq' = [next_seq EXCEPT ![d] = WrappingAdd(@, Len(data))]
  /\ segments' = [segments EXCEPT ![d][next_seq[d]] = << >>]
  /\ UNCHANGED <<state, initial_seq, fin_received, pc>>

DropRetransmitted_AtNext(d) ==   \* s <= next_seq
  /\ pc = d
  /\ \E s \in SeqNum :
       /\ IsFirst(d, s)
       /\ s <= next_seq[d]
       /\ segments' = [segments EXCEPT ![d][s] = << >>]
  /\ UNCHANGED <<state, initial_seq, next_seq, reassembled_data, fin_received, pc>>

DropRetransmitted(d) ==
  /\ pc = d
  /\ \E s \in SeqNum :
       /\ IsFirst(d, s)
       /\ s < next_seq[d]
       /\ segments' = [segments EXCEPT ![d][s] = << >>]
  /\ UNCHANGED <<state, initial_seq, next_seq, reassembled_data, fin_received, pc>>

StopReassembly_AtStale(d) ==   \* break at any segment but the expected one
  /\ pc = d
  /\ ~ IsFirst(d, next_seq[d])
  /\ pc' = "idle"
  /\ UNCHANGED <<state, streams>>

\* The buffer is empty, or its first segment lies ahead: break.
StopReassembly(d) ==
  /\ pc = d
  /\ \A s \in Buffered(d) : s > next_seq[d]
  /\ pc' = "idle"
  /\ UNCHANGED <<state, streams>>

Reassemble(d) == TakeExpected(d) \/ DropRetransmitted(d) \/ StopReassembly(d)

Next ==
  \E d \in Dirs :
    \/ \E flags \in SUBSET Flags :
         \/ AddSyn(d, flags)
         \/ \E seg \in Segments[d] : AddData(d, flags, seg)
         \/ RejectData(d, flags)
         \/ AddBare(d, flags)
    \/ HasNewData(d)
    \/ Reassemble(d)

Spec == Init /\ [][Next]_vars

\* The loop of reassemble runs on the caller's thread until it breaks.
FairSpec == Spec /\ WF_vars(\E d \in Dirs : Reassemble(d))

--------------------------------------------------------------------------------
TypeOK ==
  /\ state \in TcpState
  /\ initial_seq \in [Dirs -> BOOLEAN]
  /\ next_seq \in [Dirs -> SeqNum]
  /\ segments \in [Dirs -> Buffers]
  /\ reassembled_data \in [Dirs -> Seq(Nat)]
  /\ fin_received \in [Dirs -> BOOLEAN]
  /\ pc \in Dirs \cup {"idle"}

\* get_reassembled_data returns a prefix of what the endpoint sent: in order,
\* nothing missing, nothing twice, although segments reach add_segment in any
\* order and any number of times and sequence numbers wrap around.
ReassembledIsPrefix ==
  \A d \in Dirs : LET data == reassembled_data[d] IN
    /\ Len(data) <= StreamLen[d]
    /\ \A i \in 1 .. Len(data) : data[i] = i - 1

\* The state machine and the streams agree on the handshake: a flow past
\* SynReceived has the initial sequence number of both directions, so that
\* add_segment never again fails with "uninitialised TCP stream".
HandshakeSynced ==
  /\ state = "SynSent" => initial_seq[C2S]
  /\ state \notin {"Init", "SynSent", "Closed"} =>
       \A d \in Dirs : initial_seq[d]

\* Whatever segments arrive, in whatever order, update_state never takes a
\* connection back to an earlier phase of its life.
StateNeverRegresses == [][Progress[state] <= Progress[state']]_vars

\* The stream positions in the buffer of d, in its reassembled data, in both.
BytesOf(data) == {data[i] : i \in DOMAIN data}
Waiting(d) == UNION {BytesOf(segments[d][s]) : s \in SeqNum}
Delivered(d) == BytesOf(reassembled_data[d])
Known(d) == Waiting(d) \cup Delivered(d)

\* The senders whose streams reassemble is made for: they keep their segment
\* boundaries when they retransmit, and their sequence numbers do not wrap.
FixedBoundaries(d) ==
  \A p, q \in Segments[d] : p = q \/ p[1] + p[2] <= q[1] \/ q[1] + q[2] <= p[1]
NoWraparound(d) == ISN[d] + 1 + StreamLen[d] <= SeqMod
Regular(d) == FixedBoundaries(d) /\ NoWraparound(d)

\* No step loses a byte the flow has seen of a regular sender: neither
\* add_segment replacing a buffered segment nor reassemble dropping one.
NothingUnreadDiscarded ==
  [][\A d \in Dirs : Regular(d) => Known(d) \subseteq Known(d)']_vars

\* The comment in reassemble: a segment below next_seq "is retransmitted data
\* that has been processed already".
DroppedWasProcessed ==
  [][\A d \in Dirs : pc = d => Waiting(d) \subseteq Known(d)']_vars

\* A call of has_new_data returns (n = 0), and returns only after it has
\* delivered every byte of a regular sender up to the first gap, whatever stale
\* or out-of-order segments the buffer holds.
CallDeliversHeldData ==
  \A d \in Dirs : \A n \in 0 .. StreamLen[d] :
    (/\ pc = d
     /\ n > 0 => Regular(d) /\ 0 .. n - 1 \subseteq Known(d))
      ~> (pc = "idle" /\ (n > 0 => Len(reassembled_data[d]) >= n))

\* Seen from outside, a TcpFlow is a connection state and two synced bits.
Summary == INSTANCE FlowSummary WITH
  flow <- [state |-> state, synced |-> initial_seq]

\* Every operation of a TcpFlow is a step of that summary or leaves it alone.
ImplementsSummary == Summary!Spec
================================================================================
