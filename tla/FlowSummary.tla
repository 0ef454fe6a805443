------------------------------ MODULE FlowSummary ------------------------------
(***************************************************************************)
(* What a TcpFlow promises the session tracker, without sequence numbers   *)
(* or payload: a connection state and one "synced" bit per direction.      *)
(* TcpFlow implements this specification (ImplementsSummary there), and    *)
(* SessionTracker stores this summary in its sessions.                     *)
(***************************************************************************)
EXTENDS TcpStates

VARIABLE flow

Init == flow = NewFlow

Segment(dir, flags) == flow' = AfterSegment(flow, dir, flags)

Next == \E dir \in Dirs, flags \in SUBSET Flags : Segment(dir, flags)

Spec == Init /\ [][Next]_flow
================================================================================
