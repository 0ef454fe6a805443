---------------------------- MODULE MCSessionTracker ----------------------------
(***************************************************************************)
(* Instances of SessionTracker for TLC.                                    *)
(***************************************************************************)
EXTENDS SessionTracker

CONSTANTS a, b, c   \* endpoints

BothWays(protocol, x, y) == {[protocol |-> protocol, src |-> x, dst |-> y],
                             [protocol |-> protocol, src |-> y, dst |-> x]}

Hosts == {a, b, c}

\* One TCP conversation beside one UDP and one ICMP exchange.
MixedKeys == BothWays("TCP", a, b) \cup BothWays("UDP", a, b)
             \cup BothWays("ICMP", a, c)

\* The segments of a handshake, a transfer and every way to end it.
UsualFlags == {{"SYN"}, {"SYN", "ACK"}, {"ACK"}, {"FIN", "ACK"}, {"FIN"},
               {"RST"}}
================================================================================
