------------------------------- MODULE MCFlood -------------------------------
(* Searches on every network of a few servlets.                            *)
EXTENDS Flood, TLC

(* A servlet does not know itself.                                         *)
AnyNetwork == {k \in [Node -> SUBSET Node] : \A n \in Node : n \notin k[n]}

(* Everyone knows one other at most: paths and rings of any length.        *)
ThinNetworks == {k \in AnyNetwork : \A n \in Node : Cardinality(k[n]) <= 1}

(* Whoever is pinged adds the one who pings, so that knowing is mutual:    *)
(* four servlets, and a last one that only one of them, the gate, knows.   *)
MutualNetworks(last, gate) ==
  {k \in AnyNetwork : /\ \A a, b \in Node : b \in k[a] <=> a \in k[b]
                      /\ k[last] = {gate}}

Networks5 == ThinNetworks \cup
  LET last == CHOOSE n \in Node : TRUE
      gate == CHOOSE n \in Node : n # last
  IN  MutualNetworks(last, gate)
=============================================================================
