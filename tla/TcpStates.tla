------------------------------- MODULE TcpStates -------------------------------
(***************************************************************************)
(* The passive TCP state machine of src/session/flow.rs: the connection    *)
(* state a sniffer infers from the flags of the segments it observes, and  *)
(* the part of a TcpFlow that decides whether add_segment fails.           *)
(*                                                                         *)
(* This module has no variables; TcpFlow, FlowSummary and SessionTracker   *)
(* use its operators.                                                      *)
(***************************************************************************)
EXTENDS Naturals

\* FlowDirection.
C2S == "ClientToServer"
S2C == "ServerToClient"
Dirs == {C2S, S2C}

\* TcpState.
TcpState == {"Init", "SynSent", "SynReceived", "Established",
             "FinWait1", "FinWait2", "CloseWait", "Closing", "LastAck",
             "TimeWait", "Closed"}

\* The flags update_state and add_segment look at; the others (PSH, URG, ECE,
\* CWR, NS) never change what the flow does.
Flags == {"SYN", "ACK", "FIN", "RST"}

(***************************************************************************)
(* update_state: a RST closes the flow at once, otherwise the first arm of *)
(* the match that fits the current state decides.  The arms of FinWait1,   *)
(* FinWait2 and Closing do not look at the direction.                      *)
(*                                                                         *)
(* Mutants, named <definition>_<slip>, each before the definition it       *)
(* alters, are slips the properties of the modules that use this one must  *)
(* notice; nothing else uses them.                                         *)
(***************************************************************************)
FromSynReceived_AnyEnd(dir, flags) ==    \* an ACK of either endpoint will do
  IF "ACK" \in flags THEN "Established" ELSE "SynReceived"

FromSynReceived(dir, flags) ==
  IF dir = C2S /\ "ACK" \in flags THEN "Established" ELSE "SynReceived"

FromFinWait1_FinFirst(flags) ==          \* the two arms swapped
  IF "FIN" \in flags THEN "Closing"
  ELSE IF "ACK" \in flags THEN "FinWait2" ELSE "FinWait1"

\* The arm of ACK comes first, so that a FIN with ACK counts as the ACK.
FromFinWait1(flags) ==
  IF "ACK" \in flags THEN "FinWait2"
  ELSE IF "FIN" \in flags THEN "Closing" ELSE "FinWait1"

FromFinWait2_AnyAck(flags) ==            \* does not wait for the other FIN
  IF "ACK" \in flags THEN "TimeWait" ELSE "FinWait2"

FromFinWait2(flags) == IF "FIN" \in flags THEN "TimeWait" ELSE "FinWait2"

UpdateState(s, dir, flags) ==
  LET syn == "SYN" \in flags
      ack == "ACK" \in flags
      fin == "FIN" \in flags
  IN IF "RST" \in flags                                THEN "Closed"
     ELSE IF s = "Init" /\ dir = C2S /\ syn /\ ~ack    THEN "SynSent"
     ELSE IF s = "SynSent" /\ dir = S2C /\ syn /\ ack  THEN "SynReceived"
     ELSE IF s = "SynReceived"                         THEN FromSynReceived(dir, flags)
     ELSE IF s = "Established" /\ dir = C2S /\ fin     THEN "FinWait1"
     ELSE IF s = "Established" /\ dir = S2C /\ fin     THEN "CloseWait"
     ELSE IF s = "FinWait1"                            THEN FromFinWait1(flags)
     ELSE IF s = "FinWait2"                            THEN FromFinWait2(flags)
     ELSE IF s = "CloseWait" /\ dir = S2C /\ fin       THEN "LastAck"
     ELSE IF s = "LastAck" /\ dir = C2S /\ ack         THEN "Closed"
     ELSE IF s = "Closing" /\ ack                      THEN "TimeWait"
     ELSE IF s = "TimeWait"                            THEN "Closed"
     ELSE s

\* How far along its life a connection in this state is.
Progress == [Init |-> 0, SynSent |-> 1, SynReceived |-> 2, Established |-> 3,
             FinWait1 |-> 4, CloseWait |-> 4,
             FinWait2 |-> 5, Closing |-> 5, LastAck |-> 5,
             TimeWait |-> 6, Closed |-> 7]

--------------------------------------------------------------------------------
(***************************************************************************)
(* What the rest of the program can tell apart of a TcpFlow: its state,    *)
(* and whether each direction's stream has an initial sequence number      *)
(* (synced).  Only a SYN sets it, and add_data fails without it.           *)
(***************************************************************************)
FlowSummaries == [state : TcpState, synced : [Dirs -> BOOLEAN]]

NewFlow == [state |-> "Init", synced |-> [d \in Dirs |-> FALSE]]

\* add_segment returns Err: the segment carries data the stream cannot place.
Rejects(flow, dir, flags, data) ==
  data /\ "SYN" \notin flags /\ ~flow.synced[dir]

\* The flow after add_segment.  The state machine runs first, so it has moved
\* even when the segment is then rejected.
AfterSegment(flow, dir, flags) ==
  [state  |-> UpdateState(flow.state, dir, flags),
   synced |-> [flow.synced EXCEPT ![dir] = @ \/ "SYN" \in flags]]
================================================================================
