--------------------------- MODULE MCSearchClient ---------------------------
(* Searches, downloads, the timer and replies on small instances.          *)
EXTENDS SearchClient, TLC

MCPages == <<"Main", "Downstream Servers">>

AddrSymmetry == Permutations(Addr)
Symmetry == Permutations(Addr) \cup Permutations(Search)
=============================================================================
