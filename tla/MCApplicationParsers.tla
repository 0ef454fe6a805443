-------------------------- MODULE MCApplicationParsers --------------------------
(***************************************************************************)
(* An instance of ApplicationParsers for TLC.                              *)
(***************************************************************************)
EXTENDS ApplicationParsers

CONSTANTS a, b   \* labels

FewLabels == {a, b}
OctetsOfLabels == [l \in FewLabels |-> 1]
FewNames == {<<b>>, <<a, b>>}

OctetsOfHosts == [h1 |-> 1, h2 |-> 3]
FewHosts == DOMAIN OctetsOfHosts

FewStarts ==
  {[method |-> "GET", uri |-> "/"], [method |-> "other", uri |-> "/"], [status |-> 200]}
HeaderLine(name, upper, value, colon, folded) ==
  [name |-> name, upper |-> upper, value |-> value, colon |-> colon, folded |-> folded]
FewLines ==
  {HeaderLine("host", TRUE, "v1", FALSE, "no"), HeaderLine("host", FALSE, "v2", TRUE, "plain"),
   HeaderLine("via", FALSE, "v2", FALSE, "colon")}
================================================================================
