------------------------------- MODULE MCPeers -------------------------------
(* A Pingu, a few other machines and a few threads.                        *)
EXTENDS Peers, TLC

PeersSymmetry ==
  Permutations(Servlet) \cup Permutations(Pinger) \cup Permutations(Worker)
=============================================================================
