-------------------------------- MODULE Flood --------------------------------
(***************************************************************************)
(* A search as the network sees it: pingu/filesearch.c's handling of       *)
(* REQUEST_FILESEARCH and the sending loops of pingu/socket.c, run by      *)
(* every servlet of a network.  Packets are UDP: a packet that was sent    *)
(* stays in net, and may arrive never, once or many times, in any order.   *)
(*                                                                         *)
(* One search of one origin; other searches do not interact with it.  The  *)
(* list each servlet has of the others does not change meanwhile.          *)
(***************************************************************************)
EXTENDS Naturals, FiniteSets

CONSTANTS
  Node,        \* the servlets
  Unknown,     \* the address 0.0.0.0
  StandardTTL, \* STANDARD_TTL of protocol.h (3)
  Networks     \* who may know whom when the search starts

ASSUME FloodAssumption ==
  /\ Unknown \notin Node
  /\ StandardTTL \in Nat
  /\ StandardTTL >= 2
  /\ Networks \subseteq [Node -> SUBSET Node]

VARIABLES
  known,    \* sockets: the servlets each servlet has in its list
  origin,   \* the servlet whose user searches
  asked,    \* TRUE once origin sent its search
  net,      \* the search packets sent
  replies   \* the replies sent: from a servlet to an address

vars == <<known, origin, asked, net, replies>>

(* ip is the address in the packet's data, from the one it was sent from.  *)
Packet == [from : Node, to : Node, ip : Node \cup {Unknown},
           ttl : 0..StandardTTL]

Init ==
  /\ known \in Networks
  /\ origin \in Node
  /\ asked = FALSE
  /\ net = {} /\ replies = {}

SendTo(servlets, n, address, hops) ==
  {[from |-> n, to |-> s, ip |-> address, ttl |-> hops] : s \in servlets}

(* searchfile: to all, the address left for the first receiver to fill in. *)
AskAll ==
  /\ ~asked
  /\ asked' = TRUE
  /\ net' = net \cup SendTo(known[origin], origin, Unknown, StandardTTL)
  /\ UNCHANGED <<known, origin, replies>>

(* set_destination_ip and the same rule of get_request_search_passon.      *)
(* Mutation: the address in the data is never used.                        *)
SourceOf(p) == p.from

OriginOf(p) == IF p.ip = Unknown THEN p.from ELSE p.ip

(* The TTL a packet is passed on with: at most two more hops, however many *)
(* the packet allows.  Mutations: the bound is not applied; a TTL of 1 is  *)
(* not passed on; a TTL of 0 is, and wraps around in its eight bits.       *)
TTLUnbounded(p) == IF p.ttl = 0 THEN {} ELSE {p.ttl - 1}
TTLOneLess(p) == IF p.ttl <= 1 THEN {} ELSE {1}

TTLWraps(p) == {((IF p.ttl > 2 THEN 2 ELSE p.ttl) + 255) % 256}

TTLOnward(p) ==
  IF p.ttl = 0 THEN {} ELSE {(IF p.ttl > 2 THEN 2 ELSE p.ttl) - 1}

(* get_request_search: answer for the matching files, then pass it on.     *)
(* hit: some file of the servlet matches.                                  *)
Receive(p, hit) == LET n == p.to IN
  /\ replies' = IF hit THEN replies \cup {<<n, OriginOf(p)>>} ELSE replies
  /\ net' = net \cup UNION {SendTo(known[n] \ {p.from}, n, OriginOf(p), hops) :
                              hops \in TTLOnward(p)}
  /\ UNCHANGED <<known, origin, asked>>

Next == AskAll \/ \E p \in net, hit \in BOOLEAN : Receive(p, hit)

Spec == Init /\ [][Next]_vars

(* What the search finds at best: no packet is lost, and every servlet has *)
(* a match.  Packets and replies only ever come to more, so that every     *)
(* packet is handled in the end.                                           *)
ReliableSpec == Spec /\ WF_vars(\E p \in net : Receive(p, TRUE))

-----------------------------------------------------------------------------
TypeOK ==
  /\ known \in [Node -> SUBSET Node]
  /\ origin \in Node
  /\ asked \in BOOLEAN
  /\ net \subseteq Packet
  /\ replies \subseteq Node \X Node

(* README: the search goes to the known servers, "this is then past to     *)
(* their known servers until the hop count (presently 3) runs out".        *)
Neighbours(S) == S \cup UNION {known[n] : n \in S}

OneHop    == Neighbours({origin})
TwoHops   == Neighbours(OneHop)
ThreeHops == Neighbours(TwoHops)

(* No packet goes further than three hops from the origin, along whichever *)
(* paths and however often it was repeated on its way.                     *)
WithinHops == \A p \in net : p.to \in ThreeHops

(* Every answer goes to the servlet whose user searched, although no       *)
(* servlet ever writes its own address into a packet: the first receiver   *)
(* takes it from the sender, later ones from the data.                     *)
RepliesToOrigin == \A r \in replies : r[2] = origin

(* How far a packet has come follows from its TTL: the inductive invariant *)
(* behind the two.                                                         *)
HopsOK(p) ==
  \/ p.ttl = StandardTTL /\ p.ip = Unknown /\ p.from = origin /\ p.to \in OneHop
  \/ p.ttl = 1 /\ p.ip = origin /\ p.to \in TwoHops
  \/ p.ttl = 0 /\ p.ip = origin /\ p.to \in ThreeHops

FloodInv == TypeOK /\ RepliesToOrigin /\ \A p \in net : HopsOK(p)

(* Without loss, every servlet within three hops is asked and its answer   *)
(* is sent: the sender is left out of the forwarding, but nobody else.     *)
SearchReaches ==
  \A n \in Node : asked /\ n \in ThreeHops \ {origin} ~> <<n, origin>> \in replies
=============================================================================
