----------------------------- MODULE FloodProofs -----------------------------
(***************************************************************************)
(* Proofs about Flood: for any servlets, any networks and any STANDARD_TTL *)
(* of at least 2, a search stays within three hops of its origin and is    *)
(* answered to its origin.                                                 *)
(*                                                                         *)
(* The argument is FloodInv: a packet's TTL says how far it has come.  The *)
(* origin sends StandardTTL; the first receivers, to whom any TTL above 2  *)
(* counts as 2, send 1; the next ones 0; and a 0 is never passed on.       *)
(***************************************************************************)
EXTENDS Flood, TLAPS

(* What is known stays, so that the servlets within some hops do.          *)
LEMMA NeighboursGrow ==
  ASSUME NEW S, NEW n \in S
  PROVE  /\ S \subseteq Neighbours(S)
         /\ known[n] \subseteq Neighbours(S)
BY DEF Neighbours

LEMMA InitFlood == Init => FloodInv
BY FloodAssumption DEF Init, FloodInv, TypeOK, RepliesToOrigin

(* The origin's own packets: full TTL, no address, to servlets it knows.   *)
LEMMA AskAllFlood ==
  ASSUME FloodInv, AskAll
  PROVE  FloodInv'
<1>1. known' = known /\ origin' = origin /\ replies' = replies /\ asked' \in BOOLEAN
  BY DEF AskAll, FloodInv
<1>2. \A p \in net' \ net : /\ p \in Packet
                            /\ HopsOK(p)
  <2>1. SUFFICES ASSUME NEW s \in known[origin]
                 PROVE  LET p == [from |-> origin, to |-> s, ip |-> Unknown,
                                  ttl |-> StandardTTL]
                        IN  p \in Packet /\ HopsOK(p)
    BY DEF AskAll, SendTo
  <2>2. origin \in Node /\ s \in Node
    BY DEF FloodInv, TypeOK
  <2>3. s \in OneHop
    BY NeighboursGrow DEF OneHop
  <2>4. StandardTTL \in 0..StandardTTL
    BY FloodAssumption
  <2> QED BY <2>2, <2>3, <2>4 DEF Packet, HopsOK
<1>3. net' \subseteq Packet
  BY <1>2 DEF FloodInv, TypeOK
<1>4. \A p : HopsOK(p)' <=> HopsOK(p)
  BY <1>1 DEF HopsOK, OneHop, TwoHops, ThreeHops, Neighbours
<1>5. \A p \in net' : HopsOK(p)'
  BY <1>2, <1>4 DEF FloodInv
<1> QED BY <1>1, <1>3, <1>5 DEF FloodInv, TypeOK, RepliesToOrigin

(* Every packet leads back to the origin, and what is passed on has come   *)
(* one hop further.                                                        *)
LEMMA ReceiveFlood ==
  ASSUME FloodInv, NEW p \in net, NEW hit \in BOOLEAN, Receive(p, hit)
  PROVE  FloodInv'
<1>1. known' = known /\ origin' = origin /\ asked' = asked
  BY DEF Receive
<1>2. p \in Packet /\ HopsOK(p) /\ origin \in Node
  BY DEF FloodInv, TypeOK
<1>3. OriginOf(p) = origin
  BY <1>2, FloodAssumption DEF OriginOf, HopsOK
<1>4. /\ replies' \subseteq Node \X Node
      /\ \A r \in replies' : r[2] = origin
  BY <1>2, <1>3 DEF Receive, FloodInv, TypeOK, RepliesToOrigin, Packet
<1>5. \A q \in net' \ net : q \in Packet /\ HopsOK(q)
  <2>1. SUFFICES ASSUME NEW hops \in TTLOnward(p),
                        NEW s \in known[p.to] \ {p.from}
                 PROVE  LET q == [from |-> p.to, to |-> s, ip |-> origin, ttl |-> hops]
                        IN  q \in Packet /\ HopsOK(q)
    BY <1>3 DEF Receive, SendTo
  <2>2. p.to \in Node /\ s \in Node
    BY <1>2 DEF FloodInv, TypeOK, Packet
  <2>3. CASE p.ttl = StandardTTL /\ p.to \in OneHop
    <3>1. hops = 1
      BY <2>3, FloodAssumption DEF TTLOnward
    <3>2. s \in TwoHops
      BY <2>3, NeighboursGrow DEF TwoHops
    <3> QED BY <1>2, <2>2, <3>1, <3>2, FloodAssumption DEF Packet, HopsOK
  <2>4. CASE p.ttl = 1 /\ p.to \in TwoHops
    <3>1. hops = 0
      BY <2>4 DEF TTLOnward
    <3>2. s \in ThreeHops
      BY <2>4, NeighboursGrow DEF ThreeHops
    <3> QED BY <1>2, <2>2, <3>1, <3>2, FloodAssumption DEF Packet, HopsOK
  <2>5. CASE p.ttl = 0
    BY <2>5 DEF TTLOnward
  <2> QED BY <1>2, <2>3, <2>4, <2>5 DEF HopsOK
<1>6. net' \subseteq Packet
  BY <1>5 DEF FloodInv, TypeOK
<1>7. \A q : HopsOK(q)' <=> HopsOK(q)
  BY <1>1 DEF HopsOK, OneHop, TwoHops, ThreeHops, Neighbours
<1>8. \A q \in net' : HopsOK(q)'
  BY <1>5, <1>7 DEF FloodInv
<1>9. TypeOK'
  BY <1>1, <1>4, <1>6 DEF FloodInv, TypeOK
<1> QED BY <1>1, <1>4, <1>8, <1>9 DEF FloodInv, RepliesToOrigin

(* The invariant: every packet's TTL says how far it has come, and every   *)
(* address in a packet or of a reply is the origin's.                      *)
THEOREM FloodInvariance == Spec => []FloodInv
<1>1. FloodInv /\ [Next]_vars => FloodInv'
  <2> SUFFICES ASSUME FloodInv, [Next]_vars PROVE FloodInv'
    OBVIOUS
  <2>1. CASE AskAll
    BY <2>1, AskAllFlood
  <2>2. CASE \E p \in net, hit \in BOOLEAN : Receive(p, hit)
    BY <2>2, ReceiveFlood
  <2>3. CASE UNCHANGED vars
    BY <2>3 DEF vars, FloodInv, TypeOK, RepliesToOrigin, HopsOK, OneHop,
                TwoHops, ThreeHops, Neighbours
  <2> QED BY <2>1, <2>2, <2>3 DEF Next
<1> QED BY <1>1, InitFlood, PTL DEF Spec

(* A search never leaves the three hops the README promises, through any   *)
(* network and with any repetition or reordering of its packets.           *)
THEOREM SearchStaysWithinHops == Spec => []WithinHops
<1>1. FloodInv => WithinHops
  BY NeighboursGrow DEF FloodInv, HopsOK, WithinHops, TwoHops, ThreeHops, Neighbours
<1> QED BY <1>1, FloodInvariance, PTL

(* Answers go to the servlet whose user searched, though it never wrote    *)
(* its own address into a packet.                                          *)
THEOREM AnswersReachOrigin == Spec => []RepliesToOrigin
<1>1. FloodInv => RepliesToOrigin
  BY DEF FloodInv
<1> QED BY <1>1, FloodInvariance, PTL

(* Every TTL a servlet sends fits the field, and every address is known.   *)
THEOREM FloodTypeCorrect == Spec => []TypeOK
<1>1. FloodInv => TypeOK
  BY DEF FloodInv
<1> QED BY <1>1, FloodInvariance, PTL
=============================================================================
