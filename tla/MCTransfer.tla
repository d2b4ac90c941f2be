----------------------------- MODULE MCTransfer -----------------------------
(* Transfers of one file with few threads and small buffers.               *)
EXTENDS Transfer

MCPools == {[send |-> 1, fetch |-> 1], [send |-> 2, fetch |-> 2]}

(* Faults that meet in one place of the code, two at a time.               *)
MCTogether ==
  {{"accept", "leave"}, {"short", "break"}, {"read", "cut"}, {"quit", "disk"}}
=============================================================================
