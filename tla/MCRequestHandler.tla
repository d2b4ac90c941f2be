--------------------------- MODULE MCRequestHandler ---------------------------
(* The request table on small instances.                                   *)
EXTENDS RequestHandler, TLC

AddrSymmetry == Permutations(Addr)
=============================================================================
