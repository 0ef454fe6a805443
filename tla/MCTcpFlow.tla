------------------------------- MODULE MCTcpFlow -------------------------------
(***************************************************************************)
(* Instances of TcpFlow for TLC: two senders with a handful of segments.   *)
(***************************************************************************)
EXTENDS TcpFlow, TLC

\* The client's three bytes straddle the end of the sequence space of size 6
\* (they are numbered 4, 5, 0), and retransmissions change the boundaries.  The
\* server keeps its boundaries and does not wrap.
WrapISN == C2S :> 3 @@ S2C :> 0
WrapLen == C2S :> 3 @@ S2C :> 3
WrapSegments == C2S :> {<<0, 2>>, <<2, 1>>, <<0, 1>>, <<1, 2>>}
                @@ S2C :> {<<0, 1>>, <<1, 2>>}

\* Fixed boundaries, but the client's bytes wrap in a space of size 6.
WrapAlignedSegments == C2S :> {<<0, 1>>, <<1, 1>>, <<2, 1>>}
                       @@ S2C :> {<<0, 1>>}

\* Changing boundaries without wraparound.
OverlapISN == C2S :> 1 @@ S2C :> 0
OverlapLen == C2S :> 2 @@ S2C :> 1
OverlapSegments == C2S :> {<<0, 1>>, <<0, 2>>, <<1, 1>>} @@ S2C :> {<<0, 1>>}
================================================================================
