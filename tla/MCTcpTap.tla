-------------------------------- MODULE MCTcpTap --------------------------------
(***************************************************************************)
(* An instance of TcpTap for TLC: one data segment in each direction, the  *)
(* client's at the end of the sequence space.                              *)
(***************************************************************************)
EXTENDS TcpTap, TLC

TapISN == C2S :> 7 @@ S2C :> 0
TapLen == C2S :> 1 @@ S2C :> 1
TapInOrder == C2S :> <<<<0, 1>>>> @@ S2C :> <<<<0, 1>>>>
TapSegments == [d \in Dirs |-> {<<0, 1>>}]
================================================================================
