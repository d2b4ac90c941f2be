--------------------------- MODULE ListModelProofs ---------------------------
(***************************************************************************)
(* What ListModel promises, with any number of items and askers.           *)
(*                                                                         *)
(* First, lists: what is met from a node is the least set that has it, and *)
(* the node after each of its nodes, and so a property is shown of all     *)
(* that is met by showing that it is closed.  Base is what holds however   *)
(* operations overlap, a use of a freed node included: numbers can be      *)
(* given to the nodes that descend along the list, so that it has an end.  *)
(* Sound is what holds as long as none overlaps that should not: the nodes *)
(* that are there are one list, whose head is the head of whoever works on *)
(* it, and a walk meets all that it is still to meet.  Last, what an asker *)
(* is told: found is shared, and is about the walk of whoever holds        *)
(* generate_reply_servers.                                                 *)
(***************************************************************************)
EXTENDS ListModel, TLAPS, WellFoundedInduction, FiniteSetTheorems

(* Lists, as what follows each node.                                       *)
Nexts == [Item -> Item \cup {None}]

Closed(n, h, S) == h \in S \cup {None} /\ \A j \in S : n[j] \in S \cup {None}

Reach(n, h) == {i \in Item : \A S \in SUBSET Item : Closed(n, h, S) => i \in S}

(* A list does not come back to itself: numbers descend along it.          *)
Falls(n, f) == \A i \in Item : n[i] # None => f[n[i]] < f[i]

LEMMA MetReach == \A h : Met(h) = Reach(next, h)
BY DEF Met, Ways, Reach, Closed

LEMMA MetReachNext ==
  ASSUME NEW h
  PROVE  Met(h)' = Reach(next', h)
BY DEF Met, Ways, Reach, Closed

LEMMA ReachLeast ==
  ASSUME NEW n, NEW h, NEW S \in SUBSET Item, Closed(n, h, S)
  PROVE  Reach(n, h) \subseteq S
BY DEF Reach

LEMMA ReachClosed ==
  ASSUME NEW n \in Nexts, NEW h \in Item \cup {None}
  PROVE  Reach(n, h) \in SUBSET Item /\ Closed(n, h, Reach(n, h))
<1>1. h \in Reach(n, h) \cup {None}
  BY DEF Reach, Closed
<1>2. ASSUME NEW j \in Reach(n, h), n[j] # None
      PROVE  n[j] \in Reach(n, h)
  <2>1. j \in Item /\ n[j] \in Item
    BY <1>2 DEF Reach, Nexts
  <2>2. ASSUME NEW S \in SUBSET Item, Closed(n, h, S)
        PROVE  n[j] \in S
    <3>1. j \in S
      BY <2>2, <1>2 DEF Reach
    <3> QED BY <3>1, <2>2, <1>2 DEF Closed
  <2> QED BY <2>1, <2>2 DEF Reach
<1> QED BY <1>1, <1>2 DEF Reach, Closed

LEMMA ReachNone ==
  ASSUME NEW n
  PROVE  Reach(n, None) = {}
<1>1. {} \in SUBSET Item /\ Closed(n, None, {})
  BY DEF Closed
<1> QED BY <1>1, ReachLeast

(* What is met from a node that is met.                                    *)
LEMMA ReachWithin ==
  ASSUME NEW n \in Nexts, NEW h \in Item \cup {None}, NEW i \in Reach(n, h)
  PROVE  /\ i \in Item /\ i \in Reach(n, i) /\ n[i] \in Item \cup {None}
         /\ Reach(n, i) \subseteq Reach(n, h)
<1>1. i \in Item /\ n[i] \in Item \cup {None}
  BY DEF Reach, Nexts
<1>2. Closed(n, h, Reach(n, h)) /\ Reach(n, h) \in SUBSET Item
  BY ReachClosed
<1>3. Closed(n, i, Reach(n, h))
  BY <1>2 DEF Closed
<1>4. i \in Reach(n, i)
  BY <1>1, ListModelAssumption DEF Reach, Closed
<1> QED BY <1>1, <1>2, <1>3, <1>4, ReachLeast

LEMMA ReachFirst ==
  ASSUME NEW n \in Nexts, NEW i \in Item
  PROVE  Reach(n, i) = {i} \cup Reach(n, n[i])
<1>1. n[i] \in Item \cup {None}
  BY DEF Nexts
<1>2. /\ Closed(n, i, Reach(n, i)) /\ Closed(n, n[i], Reach(n, n[i]))
      /\ Reach(n, i) \in SUBSET Item /\ Reach(n, n[i]) \in SUBSET Item
  BY <1>1, ReachClosed
<1>3. Closed(n, i, {i} \cup Reach(n, n[i])) /\ Closed(n, n[i], Reach(n, i)) /\ i \in Reach(n, i)
  BY <1>2, ListModelAssumption DEF Closed
<1>4. Reach(n, i) \subseteq {i} \cup Reach(n, n[i])
  BY <1>2, <1>3, ReachLeast
<1>5. Reach(n, n[i]) \subseteq Reach(n, i)
  BY <1>2, <1>3, ReachLeast
<1> QED BY <1>3, <1>4, <1>5

LEMMA ReachFalls ==
  ASSUME NEW n \in Nexts, NEW f \in [Item -> Nat], Falls(n, f), NEW i \in Item,
         NEW j \in Reach(n, n[i])
  PROVE  j \in Item /\ f[j] < f[i] /\ j # i
<1> DEFINE S == {k \in Item : f[k] < f[i]}
<1>1. n[i] \in S \cup {None}
  BY DEF Falls, Nexts
<1>2. ASSUME NEW k \in S, n[k] # None
      PROVE  n[k] \in S
  <2>1. n[k] \in Item /\ f[n[k]] < f[k]
    BY <1>2 DEF Falls, Nexts
  <2>2. f[n[k]] \in Nat /\ f[k] \in Nat /\ f[i] \in Nat
    BY <2>1
  <2> QED BY <2>1, <2>2
<1>3. Closed(n, n[i], S) /\ S \in SUBSET Item
  BY <1>1, <1>2 DEF Closed
<1>4. j \in S
  BY <1>3, ReachLeast
<1> QED BY <1>4

(* Every list ends, and what is met is the head or follows a node.         *)
LEMMA Lowest ==
  ASSUME NEW T, NEW f \in [T -> Nat], NEW S \in SUBSET T, S # {}
  PROVE  \E i \in S : \A j \in S : f[i] <= f[j]
<1> DEFINE N == {f[i] : i \in S}
<1>1. N # {} /\ N \subseteq Nat
  OBVIOUS
<1>2. PICK m \in N : \A k \in N : ~(<<k, m>> \in OpToRel(<, Nat))
  <2>1. IsWellFoundedOn(OpToRel(<, Nat), Nat)
    BY Zenon, NatLessThanWellFounded
  <2> QED BY Zenon, <1>1, <2>1, WFMin
<1>3. PICK i \in S : m = f[i]
  OBVIOUS
<1>4. ASSUME NEW j \in S
      PROVE  f[i] <= f[j]
  <2>1. f[j] \in N /\ f[j] \in Nat /\ f[i] \in Nat
    OBVIOUS
  <2>2. ~(f[j] < f[i])
    BY <1>2, <1>3, <2>1 DEF OpToRel
  <2> QED BY <2>1, <2>2
<1> QED BY <1>4

LEMMA ReachEnds ==
  ASSUME NEW n \in Nexts, NEW f \in [Item -> Nat], Falls(n, f), NEW h \in Item
  PROVE  \E i \in Reach(n, h) : n[i] = None
<1>1. Reach(n, h) \in SUBSET Item /\ Closed(n, h, Reach(n, h))
  BY ReachClosed
<1>2. Reach(n, h) # {}
  BY <1>1, ListModelAssumption DEF Closed
<1>3. PICK i \in Reach(n, h) : \A j \in Reach(n, h) : f[i] <= f[j]
  BY <1>1, <1>2, Lowest
<1>4. ASSUME n[i] # None
      PROVE  FALSE
  <2>1. n[i] \in Reach(n, h) /\ i \in Item /\ n[i] \in Item
    BY <1>1, <1>4 DEF Closed
  <2>2. f[n[i]] < f[i] /\ f[i] <= f[n[i]]
    BY <2>1, <1>3, <1>4 DEF Falls
  <2>3. f[n[i]] \in Nat /\ f[i] \in Nat
    BY <2>1
  <2> QED BY <2>2, <2>3
<1> QED BY <1>4

LEMMA ReachBefore ==
  ASSUME NEW n \in Nexts, NEW h \in Item \cup {None}, NEW i \in Reach(n, h), i # h
  PROVE  \E j \in Reach(n, h) : n[j] = i
<1> SUFFICES ASSUME \A j \in Reach(n, h) : n[j] # i
             PROVE  FALSE
  OBVIOUS
<1> DEFINE S == Reach(n, h) \ {i}
<1>1. Reach(n, h) \in SUBSET Item /\ Closed(n, h, Reach(n, h))
  BY ReachClosed
<1>2. S \in SUBSET Item /\ Closed(n, h, S)
  BY <1>1 DEF Closed
<1>3. i \in S
  BY <1>2, ReachLeast
<1> QED BY <1>3

(* Of two nodes that are met one is met from the other; so no two come     *)
(* before the same.                                                        *)
LEMMA ReachInLine ==
  ASSUME NEW n \in Nexts, NEW h \in Item \cup {None},
         NEW j \in Reach(n, h), NEW k \in Reach(n, h)
  PROVE  j \in Reach(n, k) \/ k \in Reach(n, j)
<1> DEFINE S == {m \in Reach(n, h) : j \in Reach(n, m) \/ m \in Reach(n, j)}
<1>1. Reach(n, h) \in SUBSET Item /\ Closed(n, h, Reach(n, h))
  BY ReachClosed
<1>2. h \in S \cup {None}
  BY <1>1 DEF Closed
<1>3. ASSUME NEW m \in S, n[m] # None
      PROVE  n[m] \in S
  <2>1. m \in Item /\ n[m] \in Reach(n, h)
    BY <1>1, <1>3 DEF Closed
  <2>2. Reach(n, m) = {m} \cup Reach(n, n[m])
    BY <2>1, ReachFirst
  <2>3. Closed(n, j, Reach(n, j))
    BY <1>1, ReachClosed
  <2>4. m \in Reach(n, j) => n[m] \in Reach(n, j)
    BY <2>3, <1>3 DEF Closed
  <2>5. j \in Reach(n, j)
    BY ReachWithin
  <2> QED BY <2>1, <2>2, <2>4, <2>5
<1>4. S \in SUBSET Item /\ Closed(n, h, S)
  BY <1>1, <1>2, <1>3 DEF Closed
<1>5. k \in S
  BY <1>4, ReachLeast
<1> QED BY <1>5

LEMMA OneBefore ==
  ASSUME NEW n \in Nexts, NEW f \in [Item -> Nat], Falls(n, f), NEW h \in Item \cup {None},
         NEW j \in Reach(n, h), NEW k \in Reach(n, h), NEW i \in Item, n[j] = i, n[k] = i
  PROVE  j = k
<1>1. ASSUME NEW a \in Reach(n, h), NEW b \in Reach(n, h), n[a] = i, n[b] = i,
             b \in Reach(n, a), a # b
      PROVE  FALSE
  <2>1. a \in Item /\ b \in Item
    BY ReachWithin
  <2>2. b \in Reach(n, i)
    BY <1>1, <2>1, ReachFirst
  <2>3. f[b] <= f[i] /\ f[i] < f[b]
    <3>1. CASE b = i
      <4>1. i \in Reach(n, i)
        BY ReachClosed, ListModelAssumption DEF Closed
      <4>2. i \in Reach(n, n[i])
        BY <4>1, <3>1, <1>1
      <4> QED BY <4>2, ReachFalls
    <3>2. CASE b # i
      <4>1. b \in Reach(n, n[i])
        BY <3>2, <2>2, ReachFirst
      <4>2. f[b] < f[i]
        BY <4>1, ReachFalls
      <4>3. f[i] < f[b]
        BY <1>1, <2>1, ListModelAssumption DEF Falls
      <4>4. f[b] \in Nat /\ f[i] \in Nat
        BY <2>1
      <4> QED BY <4>2, <4>3, <4>4
    <3> QED BY <3>1, <3>2
  <2>4. f[b] \in Nat /\ f[i] \in Nat
    BY <2>1
  <2> QED BY <2>3, <2>4
<1>2. j \in Reach(n, k) \/ k \in Reach(n, j)
  BY ReachInLine
<1> QED BY <1>1, <1>2

(* A node is linked to the last.                                           *)
LEMMA ReachLinked ==
  ASSUME NEW n \in Nexts, NEW h \in Item \cup {None}, NEW l \in Reach(n, h), n[l] = None,
         NEW i \in Item, n[i] = None, l # i
  PROVE  Reach([n EXCEPT ![l] = i], h) = Reach(n, h) \cup {i}
<1> DEFINE m == [n EXCEPT ![l] = i]
<1>1. m \in Nexts /\ l \in Item /\ m[l] = i /\ \A j \in Item : j # l => m[j] = n[j]
  BY DEF Nexts, Reach
<1> HIDE DEF m
<1>2. Reach(n, h) \in SUBSET Item /\ Closed(n, h, Reach(n, h))
  BY ReachClosed
<1>3. Closed(m, h, Reach(n, h) \cup {i}) /\ Reach(n, h) \cup {i} \in SUBSET Item
  BY <1>1, <1>2 DEF Closed
<1>4. Reach(m, h) \in SUBSET Item /\ Closed(m, h, Reach(m, h))
  BY <1>1, ReachClosed
<1>5. Closed(n, h, Reach(m, h))
  <2>1. ASSUME NEW j \in Reach(m, h)
        PROVE  n[j] \in Reach(m, h) \cup {None}
    <3>1. j = l \/ n[j] = m[j]
      BY <1>1, <1>4
    <3> QED BY <3>1, <1>4 DEF Closed
  <2> QED BY <2>1, <1>4 DEF Closed
<1>6. Reach(n, h) \subseteq Reach(m, h)
  BY <1>4, <1>5, ReachLeast
<1>7. i \in Reach(m, h)
  BY <1>1, <1>4, <1>6, ListModelAssumption DEF Closed
<1>8. Reach(m, h) \subseteq Reach(n, h) \cup {i}
  BY <1>3, ReachLeast
<1> QED BY <1>6, <1>7, <1>8 DEF m

LEMMA ReachGrows ==
  ASSUME NEW n \in Nexts, NEW l \in Item, n[l] = None, NEW i \in Item, NEW g
  PROVE  Reach(n, g) \subseteq Reach([n EXCEPT ![l] = i], g)
<1>1. ASSUME NEW S \in SUBSET Item, Closed([n EXCEPT ![l] = i], g, S)
      PROVE  Closed(n, g, S)
  BY <1>1 DEF Closed, Nexts
<1> QED BY <1>1 DEF Reach

(* A node is taken out: the first, or one that another comes before.       *)
LEMMA ReachRest ==
  ASSUME NEW n \in Nexts, NEW f \in [Item -> Nat], Falls(n, f), NEW i \in Item
  PROVE  Reach(n, n[i]) = Reach(n, i) \ {i}
<1>1. Reach(n, i) = {i} \cup Reach(n, n[i])
  BY ReachFirst
<1>2. i \notin Reach(n, n[i])
  BY ReachFalls
<1> QED BY <1>1, <1>2

LEMMA ReachCut ==
  ASSUME NEW n \in Nexts, NEW f \in [Item -> Nat], Falls(n, f), NEW h \in Item \cup {None},
         NEW p \in Reach(n, h), NEW i \in Item, n[p] = i, h # i
  PROVE  Reach([n EXCEPT ![p] = n[i]], h) = Reach(n, h) \ {i}
<1> DEFINE m == [n EXCEPT ![p] = n[i]]
<1>1. Reach(n, h) \in SUBSET Item /\ Closed(n, h, Reach(n, h))
  BY ReachClosed
<1>2. p \in Item /\ n[i] \in Item \cup {None}
  BY <1>1 DEF Nexts
<1>3. m \in Nexts /\ m[p] = n[i] /\ \A j \in Item : j # p => m[j] = n[j]
  BY <1>2 DEF Nexts
<1> HIDE DEF m
<1>4. n[i] # i /\ p # i /\ i # None
  <2>1. f[i] \in Nat /\ f[p] \in Nat /\ i # None
    BY <1>2, ListModelAssumption
  <2>2. f[i] < f[p]
    BY <1>2, <2>1 DEF Falls
  <2>3. n[i] = i => f[i] < f[i]
    BY <2>1 DEF Falls
  <2> QED BY <2>1, <2>2, <2>3
<1>5. Closed(m, h, Reach(n, h) \ {i})
  <2>1. ASSUME NEW j \in Reach(n, h) \ {i}
        PROVE  m[j] \in (Reach(n, h) \ {i}) \cup {None}
    <3>1. CASE j = p
      <4>1. i \in Reach(n, h)
        BY <1>1, <1>4 DEF Closed
      <4> QED BY <3>1, <4>1, <1>1, <1>3, <1>4 DEF Closed
    <3>2. CASE j # p
      <4>1. m[j] = n[j] /\ n[j] # i
        BY <3>2, <1>1, <1>3, OneBefore
      <4> QED BY <4>1, <1>1 DEF Closed
    <3> QED BY <3>1, <3>2
  <2> QED BY <2>1, <1>1 DEF Closed
<1>6. Reach(m, h) \subseteq Reach(n, h) \ {i}
  BY <1>1, <1>5, ReachLeast
<1>7. Reach(m, h) \in SUBSET Item /\ Closed(m, h, Reach(m, h))
  BY <1>3, ReachClosed
<1>8. p \in Reach(m, h)
  <2> SUFFICES ASSUME p \notin Reach(m, h)  PROVE FALSE
    OBVIOUS
  <2>1. \A j \in Reach(m, h) : n[j] = m[j]
    BY <1>3, <1>7
  <2>2. Closed(n, h, Reach(m, h))
    BY <2>1, <1>7 DEF Closed
  <2> QED BY <2>2, <1>7, ReachLeast
<1>9. Closed(n, h, Reach(m, h) \cup {i})
  <2>1. ASSUME NEW j \in Reach(m, h) \cup {i}
        PROVE  n[j] \in Reach(m, h) \cup {i, None}
    <3>1. n[i] \in Reach(m, h) \cup {None}
      BY <1>3, <1>7, <1>8 DEF Closed
    <3>2. j = i \/ j = p \/ n[j] = m[j]
      BY <1>3, <1>7
    <3> QED BY <3>1, <3>2, <1>7 DEF Closed
  <2> QED BY <2>1, <1>7 DEF Closed
<1>10. Reach(n, h) \subseteq Reach(m, h) \cup {i}
  BY <1>7, <1>9, ReachLeast
<1> QED BY <1>6, <1>10 DEF m

-----------------------------------------------------------------------------
Made == {i \in Item : node[i] # "none"}

(* What holds however the operations overlap.                              *)
Order(n, d, f) ==
  /\ f \in [Item -> Nat] /\ Falls(n, f)
  /\ \A i \in Item : d[i].prev # None => f[i] < f[d[i].prev]

Ordered == \E f : Order(next, del, f)

Pointers ==
  /\ {sockets, list} \subseteq Made \cup {None}
  /\ \A i \in Item :
       /\ {next[i], add[i].head, add[i].last, del[i].head, del[i].prev}
            \subseteq Made \cup {None}
       /\ node[i] = "none" => next[i] = None

Stages == \A i \in Item :
  /\ node[i] = "none" <=> add[i].at \in {"out", "walked"}
  /\ del[i].at # "out" => add[i].at = "done"

Locked == kind = "servers" => \A i \in Adding : lock = i

Rows == rows <= Cardinality({i \in Item : add[i].at = "done"})

Resting == \A a \in Asker : ask[a].at # "walking" => ask[a].node = None

Base == TypeOK /\ Ordered /\ Pointers /\ Stages /\ Locked /\ Rows /\ Resting

LEMMA InitBase == Init => Base
<1> SUFFICES ASSUME Init PROVE Base
  OBVIOUS
<1>1. TypeOK
  <2>1. Cardinality(Item) \in Nat /\ 0 \in 0..Cardinality(Item)
    BY ListModelAssumption, FS_CardinalityType
  <2>2. add \in [Item -> AddRecord] /\ del \in [Item -> DelRecord]
    BY DEF Init, AddRecord, DelRecord, ItemOrNone
  <2>3. ask \in [Asker -> AskRecord] /\ view \in ViewRecord
    BY DEF Init, AskRecord, ViewRecord, ItemOrNone
  <2> QED BY <2>1, <2>2, <2>3 DEF Init, TypeOK, ItemOrNone
<1>2. Ordered
  <2>1. Order(next, del, [i \in Item |-> 0])
    BY DEF Init, Order, Falls
  <2> QED BY <2>1 DEF Ordered
<1>3. Pointers /\ Stages /\ Locked /\ Resting
  BY DEF Init, Pointers, Stages, Locked, Resting, Adding
<1>4. Rows
  <2>1. {i \in Item : add[i].at = "done"} = {}
    BY DEF Init
  <2>2. Cardinality({i \in Item : add[i].at = "done"}) = 0 /\ rows = 0
    BY <2>1, FS_EmptySet DEF Init
  <2> QED BY <2>2 DEF Rows
<1> QED BY <1>1, <1>2, <1>3, <1>4 DEF Base

(* The operations that change the list.                                    *)
LEMMA MetMade ==
  ASSUME Base, NEW h \in Made \cup {None}
  PROVE  Met(h) \subseteq Made
<1>1. Closed(next, h, Made) /\ Made \in SUBSET Item
  BY DEF Base, Pointers, Closed, Made
<1> QED BY <1>1, MetReach, ReachLeast

LEMMA Falling == ASSUME Base PROVE next \in Nexts /\ \E f \in [Item -> Nat] : Falls(next, f)
BY DEF Base, TypeOK, ItemOrNone, Nexts, Ordered, Order

LEMMA LastIs ==
  ASSUME Base, NEW h \in Item
  PROVE  Last(h) \in Met(h) /\ next[Last(h)] = None
<1>1. PICK f \in [Item -> Nat] : next \in Nexts /\ Falls(next, f)
  BY Falling
<1>2. \E i \in Met(h) : next[i] = None
  BY <1>1, ReachEnds, MetReach
<1> QED BY <1>2 DEF Last

LEMMA BeforeIs ==
  ASSUME Base, NEW h \in ItemOrNone, NEW i \in Item
  PROVE  IF i \in Met(h) /\ i # h
         THEN Before(h, i) \in Met(h) /\ next[Before(h, i)] = i
         ELSE Before(h, i) = None
<1>1. i \in Met(h) /\ i # h => \E j \in Met(h) : next[j] = i
  BY Falling, ReachBefore, MetReach DEF ItemOrNone
<1> QED BY <1>1 DEF Before

LEMMA IndexIs ==
  ASSUME NEW h, NEW i
  PROVE  Index(h, i) \in Int /\ (i \in Met(h) => Index(h, i) >= 0)
<1>1. IsFiniteSet(Met(h) \ Met(i))
  <2>1. Met(h) \ Met(i) \subseteq Item
    BY DEF Met
  <2> QED BY <2>1, ListModelAssumption, FS_Subset
<1>2. Cardinality(Met(h) \ Met(i)) \in Nat
  BY <1>1, FS_CardinalityType
<1> QED BY <1>2 DEF Index

(* What an operation keeps if it leaves the nodes and the rows alone.      *)
LEMMA BaseKept ==
  ASSUME Base, UNCHANGED <<kind, next, node, rows>>,
         sockets' \in Made \cup {None}, list' \in Made \cup {None},
         add' \in [Item -> AddRecord], del' \in [Item -> DelRecord],
         ask' \in [Asker -> AskRecord], view' \in ViewRecord,
         lock' \in ItemOrNone, asking' \in Asker \cup {None},
         found' \in BOOLEAN, mixed' \in BOOLEAN, broken' \in BOOLEAN,
         broken' \/ lock' \in Adding' \cup {None},
         \A i \in Item : /\ {add'[i].head, add'[i].last, del'[i].head, del'[i].prev}
                              \subseteq Made \cup {None}
                         /\ node[i] = "none" <=> add'[i].at \in {"out", "walked"}
                         /\ del'[i].at # "out" => add'[i].at = "done"
                         /\ add'[i].at = "done" <=> add[i].at = "done"
                         /\ del'[i].prev # None => \/ del'[i].prev = del[i].prev
                                                   \/ next[del'[i].prev] = i,
         Locked', Resting'
  PROVE  Base'
<1>1. TypeOK'
  BY DEF Base, TypeOK, ItemOrNone, Made
<1>2. Ordered'
  <2>1. PICK f : Order(next, del, f)
    BY DEF Base, Ordered
  <2>2. ASSUME NEW i \in Item, del'[i].prev # None
        PROVE  f[i] < f[del'[i].prev]
    <3>1. del'[i].prev = del[i].prev \/ next[del'[i].prev] = i
      BY <2>2
    <3>2. del'[i].prev \in Item /\ i # None
      BY <2>2, ListModelAssumption DEF Made
    <3> QED BY <3>1, <3>2, <2>1, <2>2 DEF Order, Falls
  <2>3. Order(next', del', f)
    BY <2>1, <2>2 DEF Order
  <2> QED BY <2>3 DEF Ordered
<1>3. Pointers' /\ Stages'
  BY DEF Base, Pointers, Stages, Made
<1>4. Rows'
  <2>1. {i \in Item : add'[i].at = "done"} = {i \in Item : add[i].at = "done"}
    OBVIOUS
  <2> QED BY <2>1 DEF Base, Rows
<1> QED BY <1>1, <1>2, <1>3, <1>4 DEF Base

LEMMA OwnedIs == ASSUME Base PROVE Owned \in Made \cup {None} /\ Owned \in ItemOrNone
BY DEF Base, Pointers, Owned, Made, ItemOrNone

LEMMA BeginAddBase == ASSUME Base, NEW i \in Item, BeginAdd(i) PROVE Base'
<1>0. TypeOK /\ add[i].at = "out" /\ lock = None
  BY DEF Base, BeginAdd
<1>1. /\ UNCHANGED <<kind, sockets, list, next, node, rows, del, walks>>
      /\ lock' = IF kind = "servers" THEN i ELSE None
      /\ mixed' \in BOOLEAN
  BY <1>0 DEF BeginAdd, TypeOK
<1>2. Owned \in Made \cup {None} /\ Owned \in ItemOrNone
  BY OwnedIs
<1>3. CASE Freed(Owned)
  <2>1. broken' = TRUE /\ add' = add
    BY <1>3 DEF BeginAdd, WalkToLast
  <2>2. Locked'
    <3>1. ASSUME NEW j \in Adding, kind = "servers"
          PROVE  FALSE
      BY <3>1, <1>0, ListModelAssumption DEF Base, Locked, Adding
    <3> QED BY <3>1, <1>1, <2>1 DEF Locked, Adding
  <2> QED BY <1>0, <1>1, <2>1, <2>2, BaseKept
          DEF Base, TypeOK, Pointers, Stages, Resting, walks, ItemOrNone
<1>4. CASE ~Freed(Owned)
  <2> DEFINE l == IF Owned = None THEN None ELSE Last(Owned)
             x == [at |-> "walked", head |-> Owned, last |-> l]
  <2>1. broken' = broken /\ add' = [add EXCEPT ![i] = x]
    BY <1>4 DEF BeginAdd, WalkToLast
  <2>2. l \in Made \cup {None}
    BY <1>2, LastIs, MetMade DEF ItemOrNone
  <2>3. x \in AddRecord /\ x.at = "walked" /\ x.head = Owned /\ x.last = l
    BY <1>2, <2>2 DEF AddRecord, Made, ItemOrNone
  <2> HIDE DEF x, l
  <2>4. /\ add' \in [Item -> AddRecord] /\ add'[i] = x
        /\ \A j \in Item : j # i => add'[j] = add[j]
    BY <1>0, <2>1, <2>3 DEF TypeOK
  <2>5. lock' \in Adding' \cup {None} /\ Locked'
    <3>1. ASSUME NEW j \in Adding, kind = "servers"
          PROVE  FALSE
      BY <3>1, <1>0, ListModelAssumption DEF Base, Locked, Adding
    <3>2. i \in Adding' /\ \A j \in Adding' : j = i \/ j \in Adding
      BY <2>3, <2>4 DEF Adding
    <3> QED BY <3>1, <3>2, <1>1 DEF Locked
  <2>6. Resting' /\ ask' = ask /\ asking' = asking /\ found' = found /\ view' = view
    BY <1>1 DEF Base, Resting, walks
  <2>7. \A j \in Item : /\ {add'[j].head, add'[j].last} \subseteq Made \cup {None}
                        /\ node[j] = "none" <=> add'[j].at \in {"out", "walked"}
                        /\ del[j].at # "out" => add'[j].at = "done"
                        /\ add'[j].at = "done" <=> add[j].at = "done"
    BY <1>0, <1>2, <2>2, <2>3, <2>4 DEF Base, Pointers, Stages
  <2>8. \A j \in Item : {del[j].head, del[j].prev} \subseteq Made \cup {None}
    BY DEF Base, Pointers
  <2>9. sockets \in Made \cup {None} /\ list \in Made \cup {None} /\ lock' \in ItemOrNone
    BY <1>1 DEF Base, Pointers, ItemOrNone
  <2> QED BY <1>0, <1>1, <2>1, <2>4, <2>5, <2>6, <2>7, <2>8, <2>9, BaseKept DEF TypeOK
<1> QED BY <1>3, <1>4

LEMMA LinkBase == ASSUME Base, NEW i \in Item, Link(i) PROVE Base'
<1> DEFINE l == add[i].last
           h == IF l = None THEN i ELSE add[i].head
<1>0. TypeOK /\ add[i].at = "walked" /\ node[i] = "none" /\ next[i] = None
  BY DEF Base, Link, Stages, Pointers
<1>1. /\ UNCHANGED <<kind, sockets, list, rows, del, lock, walks, mixed>>
      /\ node' = [node EXCEPT ![i] = "there"]
      /\ add' = [add EXCEPT ![i].at = "linked", ![i].head = h]
  BY DEF Link
<1>2. \/ UNCHANGED next /\ broken' \in BOOLEAN /\ (broken => broken')
      \/ l \in Made /\ next' = [next EXCEPT ![l] = i] /\ broken' = broken
  BY <1>0 DEF Link, TypeOK, Base, Pointers
<1>3. /\ add' \in [Item -> AddRecord] /\ add'[i].at = "linked" /\ add'[i].head = h
      /\ add'[i].last = l /\ \A j \in Item : j # i => add'[j] = add[j]
  BY <1>0, <1>1 DEF TypeOK, AddRecord, ItemOrNone
<1>4. /\ next' \in [Item -> ItemOrNone] /\ node' \in [Item -> {"none", "there", "freed"}]
      /\ node'[i] = "there" /\ \A j \in Item : j # i => node'[j] = node[j]
      /\ Made' = Made \cup {i}
  BY <1>0, <1>1, <1>2 DEF TypeOK, ItemOrNone, Made
<1>5. /\ broken' \in BOOLEAN /\ (broken => broken')
      /\ ask' = ask /\ asking' = asking /\ found' = found /\ view' = view
  BY <1>0, <1>1, <1>2 DEF TypeOK, walks
<1>6. TypeOK'
  <2>1. \A j \in Adding : j \in Adding'
    BY <1>3 DEF Adding
  <2> QED BY <2>1, <1>0, <1>1, <1>3, <1>4, <1>5 DEF TypeOK
<1>7. Ordered'
  <2>1. PICK f : Order(next, del, f)
    BY DEF Base, Ordered
  <2>2. CASE UNCHANGED next
    BY <2>1, <2>2, <1>1 DEF Ordered
  <2>3. CASE l \in Made /\ next' = [next EXCEPT ![l] = i]
    <3> DEFINE g == [j \in Item |-> IF j = i THEN 0 ELSE f[j] + 1]
    <3>1. g \in [Item -> Nat] /\ g[i] = 0 /\ \A j \in Item : j # i => g[j] = f[j] + 1 /\ g[j] > 0
      BY <2>1 DEF Order
    <3>2. i \notin Made /\ l # i /\ l \in Item
      BY <2>3, <1>0 DEF Made
    <3>3. \A j \in Item : next[j] # i /\ del[j].prev # i
      BY <3>2, ListModelAssumption DEF Base, Pointers
    <3>4. next'[l] = i /\ \A j \in Item : j # l => next'[j] = next[j]
      BY <3>2, <2>3, <1>0 DEF TypeOK
    <3>5. \A j \in Item : next[j] \in Item \cup {None} /\ del[j].prev \in Item \cup {None}
      BY <1>0 DEF TypeOK, DelRecord, ItemOrNone
    <3>6. \A j, k \in Item : f[j] \in Nat /\ (f[j] < f[k] => f[j] + 1 < f[k] + 1)
      BY <2>1 DEF Order
    <3> HIDE DEF g
    <3>7. ASSUME NEW j \in Item, next'[j] # None
          PROVE  g[next'[j]] < g[j]
      <4>1. CASE j = l
        BY <4>1, <3>1, <3>2, <3>4
      <4>2. CASE j # l
        <5>1. next[j] \in Item /\ next[j] # i /\ j # i /\ f[next[j]] < f[j]
          BY <4>2, <3>7, <3>3, <3>4, <3>5, <1>0, <2>1 DEF Order, Falls
        <5> QED BY <5>1, <4>2, <3>1, <3>4, <3>6
      <4> QED BY <4>1, <4>2
    <3>8. ASSUME NEW j \in Item, del[j].prev # None
          PROVE  g[j] < g[del[j].prev]
      <4>1. del[j].prev \in Item /\ del[j].prev # i /\ f[j] < f[del[j].prev]
        BY <3>8, <3>3, <3>5, <2>1 DEF Order
      <4>2. CASE j = i
        BY <4>1, <4>2, <3>1
      <4>3. CASE j # i
        BY <4>1, <4>3, <3>1, <3>6
      <4> QED BY <4>2, <4>3
    <3> QED BY <3>1, <3>7, <3>8, <1>1 DEF Ordered, Order, Falls
  <2> QED BY <1>2, <2>2, <2>3
<1>8. Pointers'
  <2>1. {sockets', list'} \subseteq Made' \cup {None}
    BY <1>1, <1>4 DEF Base, Pointers
  <2>2. \A j \in Item : next[j] \in Made \cup {None} /\ (node[j] = "none" => next[j] = None)
    BY DEF Base, Pointers
  <2>3. \A j \in Item : {add[j].head, add[j].last, del[j].head, del[j].prev} \subseteq Made \cup {None}
    BY DEF Base, Pointers
  <2>4. \A j \in Item : next'[j] \in Made' \cup {None} /\ (node'[j] = "none" => next'[j] = None)
    BY <2>2, <1>0, <1>2, <1>4 DEF TypeOK, Made
  <2>5. \A j \in Item : {add'[j].head, add'[j].last, del'[j].head, del'[j].prev} \subseteq Made' \cup {None}
    <3>1. \A j \in Item : {del'[j].head, del'[j].prev} \subseteq Made' \cup {None}
      BY <2>3, <1>1, <1>4
    <3>2. \A j \in Item : {add'[j].head, add'[j].last} \subseteq Made' \cup {None}
      BY <2>3, <1>3, <1>4
    <3> QED BY <3>1, <3>2
  <2> QED BY <2>1, <2>4, <2>5 DEF Pointers
<1>9. Stages' /\ Locked' /\ Resting'
  <2>1. Stages'
    BY <1>0, <1>1, <1>3, <1>4 DEF Base, Stages
  <2>2. \A j \in Adding' : j \in Adding
    BY <1>0, <1>3 DEF Adding
  <2> QED BY <2>1, <2>2, <1>1, <1>5 DEF Base, Locked, Resting
<1>10. Rows'
  <2>1. {j \in Item : add'[j].at = "done"} = {j \in Item : add[j].at = "done"}
    BY <1>0, <1>3
  <2> QED BY <2>1, <1>1 DEF Base, Rows
<1> QED BY <1>6, <1>7, <1>8, <1>9, <1>10 DEF Base

LEMMA KeepBase == ASSUME Base, NEW i \in Item, Keep(i) PROVE Base'
<1>0. TypeOK /\ add[i].at = "linked" /\ node[i] # "none"
  BY DEF Base, Keep, Stages
<1>1. /\ UNCHANGED <<kind, list, next, node, rows, del, lock, walks, mixed, broken>>
      /\ sockets' = IF kind = "servers" THEN add[i].head ELSE sockets
      /\ add' = [add EXCEPT ![i].at = "kept"]
  BY DEF Keep
<1>2. /\ add' \in [Item -> AddRecord] /\ add'[i].at = "kept"
      /\ \A j \in Item : add'[j].head = add[j].head /\ add'[j].last = add[j].last
      /\ \A j \in Item : j # i => add'[j] = add[j]
  BY <1>0, <1>1 DEF TypeOK, AddRecord
<1>3. Adding' = Adding
  BY <1>0, <1>2 DEF Adding
<1>4. sockets' \in Made \cup {None} /\ list' \in Made \cup {None}
  BY <1>1 DEF Base, Pointers
<1>5. /\ ask' = ask /\ asking' = asking /\ found' = found /\ view' = view
      /\ Locked' /\ Resting'
  BY <1>1, <1>3 DEF Base, Locked, Resting, walks
<1>6. \A j \in Item : /\ {add'[j].head, add'[j].last} \subseteq Made \cup {None}
                      /\ node[j] = "none" <=> add'[j].at \in {"out", "walked"}
                      /\ del[j].at # "out" => add'[j].at = "done"
                      /\ add'[j].at = "done" <=> add[j].at = "done"
  <2>1. \A j \in Item : {add[j].head, add[j].last} \subseteq Made \cup {None}
    BY DEF Base, Pointers
  <2> QED BY <2>1, <1>0, <1>2 DEF Base, Stages
<1>7. \A j \in Item : {del[j].head, del[j].prev} \subseteq Made \cup {None}
  BY DEF Base, Pointers
<1> QED BY <1>0, <1>1, <1>2, <1>3, <1>4, <1>5, <1>6, <1>7, BaseKept DEF TypeOK

(* The rows are no more than the items announced, nor than the items.      *)
LEMMA Few ==
  ASSUME NEW S \in SUBSET Item
  PROVE  IsFiniteSet(S) /\ Cardinality(S) \in Nat /\ Cardinality(S) <= Cardinality(Item)
         /\ Cardinality(Item) \in Nat
BY ListModelAssumption, FS_Subset, FS_CardinalityType

LEMMA AnnounceBase == ASSUME Base, NEW i \in Item, Announce(i) PROVE Base'
<1> DEFINE h == IF kind = "servers" THEN sockets ELSE add[i].head
           D == {j \in Item : add[j].at = "done"}
           x == [at |-> "done", head |-> None, last |-> None]
<1>0. TypeOK /\ add[i].at = "kept" /\ node[i] # "none"
  BY DEF Base, Announce, NewRecord, Stages
<1>1. /\ UNCHANGED <<kind, sockets, next, node, del, walks, mixed>>
      /\ list' = h /\ rows' = rows + 1 /\ lock' = None /\ broken' \in BOOLEAN
      /\ add' = [add EXCEPT ![i] = x]
  <2>1. broken' \in BOOLEAN
    BY DEF Announce, NewRecord, Freed
  <2> QED BY <2>1 DEF Announce, NewRecord
<1>2. /\ x \in AddRecord /\ add' \in [Item -> AddRecord] /\ add'[i] = x
      /\ \A j \in Item : j # i => add'[j] = add[j]
  BY <1>0, <1>1 DEF TypeOK, AddRecord, ItemOrNone
<1>3. h \in Made \cup {None} /\ h \in ItemOrNone
  BY DEF Base, Pointers, ItemOrNone, Made
<1> HIDE DEF h
<1>4. Rows' /\ rows' \in 0..Cardinality(Item)
  <2>1. {j \in Item : add'[j].at = "done"} = D \cup {i} /\ i \notin D /\ D \in SUBSET Item
    BY <1>0, <1>2
  <2>2. D \cup {i} \in SUBSET Item
    BY <2>1
  <2> HIDE DEF D
  <2>3. /\ IsFiniteSet(D) /\ Cardinality(D) \in Nat
        /\ Cardinality(D \cup {i}) <= Cardinality(Item) /\ Cardinality(Item) \in Nat
    BY <2>1, <2>2, Few
  <2>4. Cardinality(D \cup {i}) = Cardinality(D) + 1
    BY <2>1, <2>3, FS_AddElement
  <2>5. rows \in Nat /\ rows <= Cardinality(D)
    BY <1>0, <2>3 DEF Base, Rows, TypeOK, D
  <2>6. rows + 1 <= Cardinality(D \cup {i}) /\ rows + 1 \in 0..Cardinality(Item)
    BY <2>3, <2>4, <2>5
  <2> QED BY <2>1, <2>6, <1>1 DEF Rows
<1>5. Ordered'
  BY <1>1 DEF Base, Ordered
<1>6. TypeOK'
  BY <1>0, <1>1, <1>2, <1>3, <1>4 DEF TypeOK, walks, ItemOrNone
<1>7. Pointers' /\ Stages'
  BY <1>0, <1>1, <1>2, <1>3 DEF Base, Pointers, Stages, Made
<1>8. Locked' /\ Resting'
  <2>1. \A j \in Adding' : j # i /\ j \in Adding
    BY <1>2 DEF Adding
  <2>2. kind = "servers" => \A j \in Adding : j = i
    <3>1. i \in Adding
      BY <1>0 DEF Adding
    <3> QED BY <3>1 DEF Base, Locked
  <2> QED BY <1>1, <2>1, <2>2 DEF Base, Locked, Resting, walks
<1> QED BY <1>4, <1>5, <1>6, <1>7, <1>8 DEF Base

LEMMA RemoveBase ==
  ASSUME Base, NEW i \in Item, BeginRemove(i) \/ WalkToItem(i) \/ ReturnHead(i) \/ KeepHead(i)
  PROVE  Base'
<1>0. TypeOK /\ add[i].at = "done"
  BY DEF Base, Stages, BeginRemove, WalkToItem, ReturnHead, KeepHead
<1>1. /\ UNCHANGED <<kind, list, next, node, rows, add, lock, walks>>
      /\ sockets' \in {sockets, del[i].head} /\ mixed' \in BOOLEAN
      /\ broken' \in BOOLEAN /\ (broken => broken')
  BY <1>0 DEF BeginRemove, WalkToItem, ReturnHead, KeepHead, TypeOK
<1>2. {sockets, list, del[i].head} \subseteq Made \cup {None}
  BY DEF Base, Pointers
<1>3. /\ del' \in [Item -> DelRecord]
      /\ \A j \in Item : j # i => del'[j] = del[j]
      /\ del'[i].head \in {del[i].head, list}
      /\ del'[i].prev = del[i].prev \/ del'[i].prev = Before(list, i)
  <2>1. list \in ItemOrNone /\ Index(list, i) \in Int /\ Before(list, i) \in ItemOrNone
    BY <1>0, IndexIs, BeforeIs DEF TypeOK, ItemOrNone, Met
  <2>2. CASE BeginRemove(i)
    <3> DEFINE k == Index(list, i)
    <3>1. del' = del \/ del' = [del EXCEPT ![i].at = "indexed", ![i].pos = k]
      BY <2>2 DEF BeginRemove
    <3> HIDE DEF k
    <3>2. k \in Int
      BY <2>1 DEF k
    <3>3. CASE del' = del
      BY <3>3, <1>0 DEF TypeOK
    <3>4. CASE del' = [del EXCEPT ![i].at = "indexed", ![i].pos = k]
      <4>1. /\ del' \in [Item -> DelRecord] /\ del'[i].head = del[i].head
            /\ del'[i].prev = del[i].prev /\ \A j \in Item : j # i => del'[j] = del[j]
        BY <3>2, <3>4, <1>0 DEF TypeOK, DelRecord
      <4> QED BY <4>1
    <3> QED BY <3>1, <3>3, <3>4
  <2>3. CASE WalkToItem(i)
    <3> DEFINE b == Before(list, i)
    <3>1. del' = del \/ del' = [del EXCEPT ![i].at = "walked", ![i].head = list, ![i].prev = b]
      BY <2>3 DEF WalkToItem
    <3> HIDE DEF b
    <3>2. b \in ItemOrNone
      BY <2>1 DEF b
    <3>3. CASE del' = del
      BY <3>3, <1>0 DEF TypeOK
    <3>4. CASE del' = [del EXCEPT ![i].at = "walked", ![i].head = list, ![i].prev = b]
      <4>1. /\ del' \in [Item -> DelRecord] /\ del'[i].head = list
            /\ del'[i].prev = b /\ \A j \in Item : j # i => del'[j] = del[j]
        BY <2>1, <3>2, <3>4, <1>0 DEF TypeOK, DelRecord
      <4> QED BY <4>1 DEF b
    <3> QED BY <3>1, <3>3, <3>4
  <2>4. CASE KeepHead(i)
    BY <2>1, <2>4, <1>0 DEF KeepHead, TypeOK, DelRecord
  <2>5. CASE ReturnHead(i)
    BY <2>1, <2>5, <1>0 DEF ReturnHead, TypeOK, DelRecord
  <2> QED BY <2>2, <2>3, <2>4, <2>5
<1>4. /\ Before(list, i) \in Made \cup {None}
      /\ Before(list, i) # None => next[Before(list, i)] = i
  <2>1. list \in ItemOrNone /\ Met(list) \subseteq Made
    BY <1>0, <1>2, MetMade DEF TypeOK
  <2> QED BY <2>1, BeforeIs
<1>5. \A j \in Item : /\ {del'[j].head, del'[j].prev} \subseteq Made \cup {None}
                      /\ del'[j].at # "out" => add[j].at = "done"
                      /\ del'[j].prev # None => \/ del'[j].prev = del[j].prev
                                                \/ next[del'[j].prev] = j
  BY <1>0, <1>2, <1>3, <1>4 DEF Base, Pointers, Stages
<1>6. \A j \in Item : /\ {add[j].head, add[j].last} \subseteq Made \cup {None}
                      /\ node[j] = "none" <=> add[j].at \in {"out", "walked"}
  BY DEF Base, Pointers, Stages
<1>7. /\ ask' = ask /\ asking' = asking /\ found' = found /\ view' = view
      /\ Locked' /\ Resting' /\ (broken' \/ lock' \in Adding' \cup {None})
  BY <1>0, <1>1 DEF Base, TypeOK, Locked, Resting, Adding, walks
<1> QED BY <1>0, <1>1, <1>2, <1>3, <1>5, <1>6, <1>7, BaseKept DEF TypeOK

LEMMA UnlinkBase == ASSUME Base, NEW i \in Item, Unlink(i) PROVE Base'
<1> DEFINE p == del[i].prev
<1>0. TypeOK /\ node[i] # "none" /\ add[i].at = "done" /\ del[i].at = "walked"
  BY DEF Base, Stages, Unlink
<1>1. /\ UNCHANGED <<kind, sockets, list, rows, add, lock, walks, mixed>>
      /\ del' = [del EXCEPT ![i].at = "unlinked", ![i].head = HeadAfter(i)]
      /\ \/ UNCHANGED <<next, node, broken>>
         \/ /\ node' = [node EXCEPT ![i] = "freed"]
            /\ next' = IF p = None THEN next ELSE [next EXCEPT ![p] = next[i]]
            /\ broken' \in BOOLEAN /\ ~broken
  BY DEF Unlink
<1>2. HeadAfter(i) \in Made \cup {None} /\ HeadAfter(i) \in ItemOrNone
  BY <1>0 DEF HeadAfter, Base, Pointers, Made, ItemOrNone
<1>3. /\ del' \in [Item -> DelRecord] /\ del'[i].head = HeadAfter(i)
      /\ del'[i].at = "unlinked"
      /\ \A j \in Item : del'[j].prev = del[j].prev
      /\ \A j \in Item : j # i => del'[j] = del[j]
  <2> DEFINE h == HeadAfter(i)
  <2>1. del' = [del EXCEPT ![i].at = "unlinked", ![i].head = h] /\ h \in ItemOrNone
    BY <1>1, <1>2
  <2> HIDE DEF h
  <2>2. /\ del' \in [Item -> DelRecord] /\ del'[i].head = h
        /\ del'[i].at = "unlinked" /\ del'[i].prev = del[i].prev
        /\ \A j \in Item : j # i => del'[j] = del[j]
    BY <2>1, <1>0 DEF TypeOK, DelRecord
  <2> QED BY <2>2 DEF h
<1>4. /\ node' \in [Item -> {"none", "there", "freed"}]
      /\ \A j \in Item : node'[j] = "none" <=> node[j] = "none"
      /\ Made' = Made
  BY <1>0, <1>1 DEF TypeOK, Made
<1>5. /\ next' \in [Item -> ItemOrNone]
      /\ \A j \in Item : next'[j] = next[j] \/ (j = p /\ next'[j] = next[i])
      /\ next[i] \in Made \cup {None} /\ p \in Made \cup {None}
  BY <1>0, <1>1 DEF TypeOK, Base, Pointers, ItemOrNone
<1>6. TypeOK'
  <2>1. broken' \in BOOLEAN /\ (broken => broken')
    BY <1>0, <1>1 DEF TypeOK
  <2>2. Adding' = Adding
    BY <1>1 DEF Adding
  <2> QED BY <2>1, <2>2, <1>0, <1>1, <1>3, <1>4, <1>5 DEF TypeOK, walks
<1>7. Ordered'
  <2>1. PICK f : Order(next, del, f)
    BY DEF Base, Ordered
  <2>2. ASSUME NEW j \in Item, next'[j] # None
        PROVE  f[next'[j]] < f[j]
    <3>1. CASE next'[j] = next[j]
      BY <3>1, <2>1, <2>2 DEF Order, Falls
    <3>2. CASE j = p /\ next'[j] = next[i]
      <4>1. f[next[i]] < f[i] /\ f[i] < f[p] /\ next[i] \in Item
        BY <3>2, <2>1, <2>2, <1>0, ListModelAssumption DEF Order, Falls, TypeOK, ItemOrNone
      <4>2. f[next[i]] \in Nat /\ f[i] \in Nat /\ f[p] \in Nat
        BY <4>1, <3>2, <2>1 DEF Order
      <4> QED BY <4>1, <4>2, <3>2
    <3> QED BY <3>1, <3>2, <1>5
  <2> QED BY <2>1, <2>2, <1>3 DEF Ordered, Order, Falls
<1>8. Pointers'
  <2>1. \A j \in Item : node'[j] = "none" => next'[j] = None
    BY <1>0, <1>4, <1>5, ListModelAssumption DEF Base, Pointers, Made
  <2>2. \A j \in Item : next'[j] \in Made \cup {None}
    BY <1>5 DEF Base, Pointers
  <2>3. \A j \in Item : {del'[j].head, del'[j].prev} \subseteq Made \cup {None}
    BY <1>2, <1>3 DEF Base, Pointers
  <2>4. {sockets', list'} \subseteq Made \cup {None}
    BY <1>1 DEF Base, Pointers
  <2>5. \A j \in Item : {add'[j].head, add'[j].last} \subseteq Made \cup {None}
    BY <1>1 DEF Base, Pointers
  <2> QED BY <2>1, <2>2, <2>3, <2>4, <2>5, <1>4 DEF Pointers
<1>9. Stages' /\ Locked' /\ Rows' /\ Resting'
  BY <1>0, <1>1, <1>3, <1>4 DEF Base, Stages, Locked, Rows, Resting, Adding, walks
<1> QED BY <1>6, <1>7, <1>8, <1>9 DEF Base

LEMMA StoreHeadBase == ASSUME Base, NEW i \in Item, StoreHead(i) PROVE Base'
<1>0. TypeOK /\ add[i].at = "done"
  BY DEF Base, Stages, StoreHead
<1>1. /\ UNCHANGED <<kind, sockets, next, node, add, lock, walks, mixed, broken>>
      /\ list' = del[i].head /\ del' = [del EXCEPT ![i].at = "stored"]
      /\ rows' = IF del[i].pos >= 0 /\ rows > 0 THEN rows - 1 ELSE rows
  BY DEF StoreHead
<1>2. /\ del' \in [Item -> DelRecord]
      /\ \A j \in Item : del'[j].prev = del[j].prev /\ del'[j].head = del[j].head
      /\ \A j \in Item : j # i => del'[j] = del[j]
  BY <1>0, <1>1 DEF TypeOK, DelRecord
<1>3. list' \in Made \cup {None} /\ list' \in ItemOrNone
  BY <1>0, <1>1 DEF Base, Pointers, Made, ItemOrNone
<1>4. rows' \in 0..Cardinality(Item) /\ rows' <= rows
  <2>1. Cardinality(Item) \in Nat /\ rows \in 0..Cardinality(Item)
    BY <1>0, Few DEF TypeOK
  <2> QED BY <2>1, <1>1
<1>5. Rows'
  <2> DEFINE c == Cardinality({j \in Item : add[j].at = "done"})
  <2>1. rows <= c /\ c \in Nat
    BY Few DEF Base, Rows
  <2>2. rows \in Nat /\ rows' \in Nat
    BY <1>0, <1>4, Few DEF TypeOK
  <2>3. add' = add
    BY <1>1
  <2> HIDE DEF c
  <2>4. rows' <= c
    BY <2>1, <2>2, <1>4
  <2> QED BY <2>3, <2>4 DEF Rows, c
<1>6. TypeOK' /\ Ordered'
  BY <1>0, <1>1, <1>2, <1>3, <1>4 DEF Base, TypeOK, Ordered, Order, Adding, walks
<1>7. Pointers' /\ Stages' /\ Locked' /\ Resting'
  BY <1>0, <1>1, <1>2, <1>3 DEF Base, Pointers, Stages, Locked, Resting, Made, Adding, walks
<1> QED BY <1>5, <1>6, <1>7 DEF Base

(* The operations that walk it.                                            *)
LEMMA AnswerBase == ASSUME Base, NEW a \in Asker, Answer(a) PROVE Base'
<1>0. TypeOK
  BY DEF Base
<1>1. /\ UNCHANGED <<kind, sockets, list, next, node, rows, add, del, lock, view>>
      /\ asking' \in Asker \cup {None} /\ found' \in BOOLEAN /\ mixed' \in BOOLEAN
      /\ broken' \in BOOLEAN /\ (broken => broken')
  BY <1>0 DEF Answer, BeginAsk, StartWalk, Tell, EndAsk, TypeOK
<1>2. ask' \in [Asker -> AskRecord] /\ Resting'
  <2>1. CASE ask' = ask
    BY <2>1, <1>0 DEF Base, TypeOK, Resting
  <2>2. ASSUME NEW r \in AskRecord, ask' = [ask EXCEPT ![a] = r],
               r.at # "walking" => r.node = None
        PROVE  ask' \in [Asker -> AskRecord] /\ Resting'
    BY <2>2, <1>0 DEF Base, TypeOK, Resting
  <2>3. CASE BeginAsk(a)
    <3> DEFINE r == [at |-> "walking", node |-> sockets, due |-> Met(sockets) \ {Own[a]},
                     told |-> FALSE, none |-> FALSE]
    <3>1. r \in AskRecord
      BY <1>0 DEF TypeOK, AskRecord, ItemOrNone, Met
    <3>2. ask' = [ask EXCEPT ![a] = r] /\ r.at = "walking"
      BY <2>3 DEF BeginAsk, StartWalk
    <3> HIDE DEF r
    <3> QED BY <3>1, <3>2, <2>2
  <2>4. CASE Tell(a) /\ ask' # ask
    <3> DEFINE i == ask[a].node
               r == [at |-> "walking", node |-> next[i], due |-> ask[a].due \ {i},
                     told |-> ask[a].told \/ i # Own[a], none |-> FALSE]
    <3>1. i \in Item /\ ask[a].due \in SUBSET Item /\ ask[a].told \in BOOLEAN
      BY <2>4, <1>0 DEF Tell, TypeOK, AskRecord, ItemOrNone
    <3>2. next[i] \in ItemOrNone /\ (ask[a].told \/ i # Own[a]) \in BOOLEAN
      BY <3>1, <1>0 DEF TypeOK
    <3>3. r \in AskRecord
      BY <3>1, <3>2 DEF AskRecord
    <3>4. ask' = [ask EXCEPT ![a] = r] /\ r.at = "walking"
      BY <2>4 DEF Tell, Following
    <3> HIDE DEF r
    <3> QED BY <3>3, <3>4, <2>2
  <2>5. CASE EndAsk(a)
    <3> DEFINE r == [at |-> "done", node |-> None, due |-> ask[a].due,
                     told |-> ask[a].told, none |-> ~found]
    <3>1. ask[a].due \in SUBSET Item /\ ask[a].told \in BOOLEAN /\ (~found) \in BOOLEAN
      BY <1>0 DEF TypeOK, AskRecord
    <3>2. r \in AskRecord
      BY <3>1 DEF AskRecord, ItemOrNone
    <3>3. ask' = [ask EXCEPT ![a] = r] /\ r.node = None
      BY <2>5 DEF EndAsk
    <3> HIDE DEF r
    <3> QED BY <3>2, <3>3, <2>2
  <2> QED BY <2>1, <2>3, <2>4, <2>5 DEF Answer
<1>3. /\ sockets \in Made \cup {None} /\ list \in Made \cup {None}
      /\ Locked' /\ (broken' \/ lock' \in Adding' \cup {None})
  BY <1>0, <1>1 DEF Base, TypeOK, Pointers, Locked, Adding
<1>4. \A j \in Item : /\ {add[j].head, add[j].last, del[j].head, del[j].prev}
                           \subseteq Made \cup {None}
                      /\ node[j] = "none" <=> add[j].at \in {"out", "walked"}
                      /\ del[j].at # "out" => add[j].at = "done"
  BY DEF Base, Pointers, Stages
<1> QED BY <1>0, <1>1, <1>2, <1>3, <1>4, BaseKept DEF TypeOK

LEMMA ShowBase == ASSUME Base, Draw \/ ShowRow PROVE Base'
<1>0. TypeOK
  BY DEF Base
<1>1. /\ UNCHANGED <<kind, sockets, list, next, node, rows, add, del, lock, ask, asking, found>>
      /\ mixed' \in BOOLEAN /\ broken' \in BOOLEAN /\ (broken => broken')
  BY <1>0 DEF Draw, ShowRow, TypeOK
<1>2. view' \in ViewRecord
  <2>1. CASE Draw
    BY <2>1, <1>0 DEF Draw, TypeOK, ViewRecord, ItemOrNone, Met
  <2>2. CASE ShowRow
    <3>1. view.node \in Item /\ next[view.node] \in ItemOrNone
      BY <2>2, <1>0 DEF ShowRow, TypeOK, ViewRecord, ItemOrNone
    <3>2. \/ view' = view
          \/ view' = [view EXCEPT !.node = next[view.node], !.due = view.due \ {view.node}]
      BY <2>2 DEF ShowRow, IterNext
    <3>3. view \in ViewRecord /\ view.due \ {view.node} \in SUBSET Item
      BY <1>0 DEF TypeOK, ViewRecord
    <3> QED BY <3>1, <3>2, <3>3 DEF ViewRecord
  <2> QED BY <2>1, <2>2
<1>3. /\ sockets \in Made \cup {None} /\ list \in Made \cup {None}
      /\ Locked' /\ Resting' /\ (broken' \/ lock' \in Adding' \cup {None})
  BY <1>0, <1>1 DEF Base, TypeOK, Pointers, Locked, Resting, Adding
<1>4. \A j \in Item : /\ {add[j].head, add[j].last, del[j].head, del[j].prev}
                           \subseteq Made \cup {None}
                      /\ node[j] = "none" <=> add[j].at \in {"out", "walked"}
                      /\ del[j].at # "out" => add[j].at = "done"
  BY DEF Base, Pointers, Stages
<1> QED BY <1>0, <1>1, <1>2, <1>3, <1>4, BaseKept DEF TypeOK

LEMMA BaseStep == ASSUME Base, [Next]_vars PROVE Base'
<1>1. ASSUME NEW i \in Item, Append(i) \/ Remove(i)
      PROVE  Base'
  BY <1>1, BeginAddBase, LinkBase, KeepBase, AnnounceBase, RemoveBase, UnlinkBase,
     StoreHeadBase DEF Append, Remove
<1>2. CASE UNCHANGED vars
  BY <1>2 DEF vars, walks, Base, TypeOK, Ordered, Pointers, Stages, Locked, Rows, Resting,
              Made, Adding
<1> QED BY <1>1, <1>2, AnswerBase, ShowBase DEF Next

(* Every record stays of its kind, what a walk to the last node finds      *)
(* included, the rows are no more than the items, and the lock is held by  *)
(* an append that is under way (g_mutex_lock in new_servlet_startup).      *)
THEOREM TypeCorrect == Spec => []TypeOK
<1>1. Base => TypeOK
  BY DEF Base
<1> QED BY <1>1, InitBase, BaseStep, PTL DEF Spec

-----------------------------------------------------------------------------
There == {i \in Item : node[i] = "there"}
Shown == {i \in Item : add[i].at = "done" /\ del[i].at \notin {"stored", "returned", "done"}}

(* Between operations, and during one that nothing overlaps: whose head    *)
(* is up to date, and what the operation has found.                        *)
Settled == Reach(next, list) = There /\ (kind = "servers" => sockets = list)

Linked(h, i) == Reach(next, h) = There /\ (list = h \/ (list = None /\ There = {i}))

AddAlone(i) ==
  /\ Adding = {i} /\ Removing = {}
  /\ \/ /\ add[i].at = "walked" /\ Settled /\ add[i].head = list
        /\ IF list = None THEN add[i].last = None
           ELSE add[i].last \in There /\ next[add[i].last] = None
     \/ add[i].at = "linked" /\ Linked(add[i].head, i) /\ (kind = "servers" => sockets = list)
     \/ add[i].at = "kept" /\ Linked(add[i].head, i) /\ (kind = "servers" => sockets = add[i].head)

RemoveAlone(i) ==
  /\ Adding = {} /\ Removing = {i} /\ kind = "servers" /\ del[i].pos >= 0
  /\ view.node = None /\ \A a \in Asker : ask[a].node = None
  /\ \/ del[i].at = "indexed" /\ Settled
     \/ /\ del[i].at = "walked" /\ Settled /\ del[i].head = list
        /\ del[i].prev = Before(list, i)
     \/ del[i].at = "unlinked" /\ Reach(next, del[i].head) = There
     \/ del[i].at = "stored" /\ Reach(next, list) = There
     \/ del[i].at = "returned" /\ Reach(next, list) = There /\ del[i].head = list

Alone ==
  \/ Adding = {} /\ Removing = {} /\ Settled
  \/ \E i \in Item : AddAlone(i) \/ RemoveAlone(i)

Nodes == \A i \in Item :
  node[i] = "there" <=> /\ add[i].at \in {"linked", "kept", "done"}
                        /\ del[i].at \in {"out", "indexed", "walked"}

(* A walk is at a node of the list, and meets what it is still to meet.    *)
Meets(n, due) == n \in There \cup {None} /\ due \subseteq Reach(next, n)

Walks == Meets(view.node, view.due) /\ \A a \in Asker : Meets(ask[a].node, ask[a].due)

Steady == ~broken /\ Nodes /\ rows = Cardinality(Shown) /\ Alone /\ Walks

Sound == ~mixed => Steady

LEMMA InitSteady == Init => Sound
<1> SUFFICES ASSUME Init PROVE Steady
  BY DEF Sound
<1>1. There = {} /\ Shown = {} /\ Adding = {} /\ Removing = {}
  BY DEF Init, There, Shown, Adding, Removing
<1>2. rows = Cardinality(Shown)
  BY <1>1, FS_EmptySet DEF Init
<1>3. Alone
  BY <1>1, ReachNone DEF Init, Alone, Settled
<1>4. Nodes /\ ~broken
  BY DEF Init, Nodes
<1>5. Walks
  BY DEF Init, Walks, Meets
<1> QED BY <1>2, <1>3, <1>4, <1>5 DEF Steady

(* The nodes that are there are those of a list, freed ones are not met.   *)
LEMMA SomeHead ==
  ASSUME Base, Steady
  PROVE  /\ \E h \in Item \cup {None} : Reach(next, h) = There
         /\ \A i \in There : next[i] \in There \cup {None}
<1>1. /\ list \in Item \cup {None} /\ next \in Nexts
      /\ \A i \in Item : add[i].head \in Item \cup {None} /\ del[i].head \in Item \cup {None}
  BY DEF Base, TypeOK, AddRecord, DelRecord, ItemOrNone, Nexts
<1>2. PICK h \in Item \cup {None} : Reach(next, h) = There
  BY <1>1 DEF Steady, Alone, AddAlone, RemoveAlone, Settled, Linked
<1>3. Closed(next, h, There)
  BY <1>1, <1>2, ReachClosed
<1> QED BY <1>2, <1>3 DEF Closed

LEMMA HeadThere ==
  ASSUME Base, NEW h \in ItemOrNone, Reach(next, h) = There
  PROVE  h \in There \cup {None} /\ Met(h) = There /\ ~Freed(h)
<1>1. next \in Nexts /\ h \in Item \cup {None}
  BY DEF Base, TypeOK, ItemOrNone, Nexts
<1>2. Closed(next, h, There)
  BY <1>1, ReachClosed
<1>3. Met(h) = There
  BY MetReach
<1> QED BY <1>2, <1>3 DEF Closed, Freed, There

LEMMA AtRest ==
  ASSUME Base, Steady, Removing = {}, Adding = {}
  PROVE  Settled /\ Met(list) = There /\ list \in There \cup {None} /\ ~Freed(list)
<1>1. Settled /\ list \in ItemOrNone
  BY DEF Steady, Alone, AddAlone, RemoveAlone, Base, TypeOK
<1> QED BY <1>1, HeadThere DEF Settled

LEMMA Appending ==
  ASSUME Steady, NEW i \in Adding
  PROVE  AddAlone(i)
BY DEF Steady, Alone, AddAlone, RemoveAlone

LEMMA Taking ==
  ASSUME Steady, NEW i \in Removing
  PROVE  RemoveAlone(i)
BY DEF Steady, Alone, AddAlone, RemoveAlone

LEMMA BeginAddSteady ==
  ASSUME Base, Steady, NEW i \in Item, BeginAdd(i), ~mixed'
  PROVE  Steady'
<1>0. TypeOK /\ add[i].at = "out" /\ lock = None
  BY DEF Base, BeginAdd
<1>1. /\ UNCHANGED <<kind, sockets, list, next, node, rows, del, walks>>
      /\ Removing = {} /\ Adding = {}
  <2>1. ASSUME kind = "servers", NEW j \in Adding
        PROVE  FALSE
    BY <2>1, <1>0, ListModelAssumption DEF Base, Locked, Adding
  <2>2. kind = "results" => Adding = {}
    BY DEF BeginAdd
  <2>3. Adding = {}
    BY <2>1, <2>2, <1>0 DEF TypeOK
  <2> QED BY <2>3 DEF BeginAdd
<1>2. Settled /\ Met(list) = There /\ Owned = list /\ ~Freed(list)
  BY <1>1, AtRest DEF Settled, Owned
<1> DEFINE l == IF list = None THEN None ELSE Last(list)
           x == [at |-> "walked", head |-> list, last |-> l]
<1>3. broken' = broken /\ add' = [add EXCEPT ![i] = x]
  BY <1>2 DEF BeginAdd, WalkToLast
<1>4. list # None => l \in There /\ next[l] = None
  BY <1>0, <1>2, LastIs DEF TypeOK, ItemOrNone
<1>5. x.at = "walked" /\ x.head = list /\ x.last = l
  OBVIOUS
<1> HIDE DEF x
<1>6. add'[i] = x /\ \A j \in Item : j # i => add'[j] = add[j]
  BY <1>0, <1>3 DEF TypeOK
<1>7. /\ There' = There /\ Shown' = Shown /\ Adding' = {i} /\ Removing' = {}
  <2>1. Adding' = {i}
    BY <1>1, <1>5, <1>6 DEF Adding
  <2>2. Shown' = Shown
    BY <1>0, <1>1, <1>5, <1>6 DEF Shown
  <2> QED BY <2>1, <2>2, <1>1 DEF There, Removing
<1>8. AddAlone(i)'
  <2>1. Settled'
    BY <1>1, <1>2, <1>7 DEF Settled
  <2>2. IF list' = None THEN add'[i].last = None
        ELSE add'[i].last \in There' /\ next'[add'[i].last] = None
    BY <1>1, <1>4, <1>5, <1>6, <1>7
  <2> QED BY <2>1, <2>2, <1>1, <1>5, <1>6, <1>7 DEF AddAlone
<1>9. Nodes'
  BY <1>0, <1>1, <1>5, <1>6 DEF Steady, Nodes
<1>10. Walks'
  BY <1>1, <1>7 DEF Steady, Walks, Meets, walks
<1> QED BY <1>1, <1>3, <1>7, <1>8, <1>9, <1>10 DEF Steady, Alone

LEMMA LinkSteady ==
  ASSUME Base, Steady, NEW i \in Item, Link(i), ~mixed'
  PROVE  Steady'
<1> DEFINE l == add[i].last
           h == IF l = None THEN i ELSE add[i].head
<1>0. TypeOK /\ add[i].at = "walked" /\ node[i] = "none" /\ next[i] = None /\ next \in Nexts
      /\ i # None
  BY ListModelAssumption DEF Base, Link, Stages, Pointers, TypeOK, Nexts, ItemOrNone
<1>1. /\ UNCHANGED <<kind, sockets, list, rows, del, lock, walks, mixed>>
      /\ node' = [node EXCEPT ![i] = "there"]
      /\ add' = [add EXCEPT ![i].at = "linked", ![i].head = h]
  BY DEF Link
<1>2. /\ Adding = {i} /\ Removing = {} /\ Settled /\ add[i].head = list
      /\ list = None => l = None
      /\ list # None => l \in There /\ next[l] = None
  <2>1. i \in Adding
    BY <1>0 DEF Adding
  <2> QED BY <2>1, <1>0, Appending DEF AddAlone
<1>3. /\ add' \in [Item -> AddRecord] /\ add'[i].at = "linked" /\ add'[i].head = h
      /\ \A j \in Item : j # i => add'[j] = add[j]
  <2>1. add \in [Item -> AddRecord] /\ h \in ItemOrNone
    BY <1>0 DEF TypeOK, AddRecord, ItemOrNone
  <2> HIDE DEF h
  <2> QED BY <2>1, <1>1 DEF AddRecord
<1>4. /\ There' = There \cup {i} /\ i \notin There
      /\ Shown' = Shown /\ Adding' = {i} /\ Removing' = {}
  <2>1. There' = There \cup {i} /\ i \notin There
    BY <1>0, <1>1 DEF There, TypeOK
  <2>2. Adding' = {i}
    BY <1>2, <1>3 DEF Adding
  <2>3. Shown' = Shown
    BY <1>0, <1>1, <1>3 DEF Shown
  <2> QED BY <2>1, <2>2, <2>3, <1>1, <1>2 DEF Removing
<1>5. /\ broken' = broken /\ Reach(next', h) = There'
      /\ list = h \/ (list = None /\ There' = {i})
      /\ \A n : Reach(next, n) \subseteq Reach(next', n)
  <2>1. CASE list = None
    <3>1. l = None /\ There = {}
      BY <2>1, <1>2, ReachNone DEF Settled
    <3>2. next' = next /\ broken' = broken
      BY <3>1 DEF Link
    <3>3. Reach(next, i) = {i} \cup Reach(next, None)
      BY <1>0, ReachFirst
    <3> QED BY <3>1, <3>2, <3>3, <2>1, <1>4, ReachNone
  <2>2. CASE list # None
    <3>1. l \in There /\ next[l] = None /\ l # None /\ l # i
      BY <2>2, <1>0, <1>2, <1>4, ListModelAssumption DEF There
    <3>2. next' = [next EXCEPT ![l] = i] /\ broken' = broken
      BY <3>1 DEF Link, There
    <3>3. l \in Reach(next, list) /\ list \in Item \cup {None} /\ l \in Item
      BY <3>1, <1>0, <1>2 DEF Settled, TypeOK, ItemOrNone, There
    <3>4. Reach(next', list) = Reach(next, list) \cup {i}
      <4>1. \A k \in Reach(next, list) : next[k] = None /\ k # i =>
              Reach([next EXCEPT ![k] = i], list) = Reach(next, list) \cup {i}
        BY <3>3, <1>0, ReachLinked
      <4> HIDE DEF l
      <4> QED BY <4>1, <3>1, <3>2, <3>3
    <3>5. \A n : Reach(next, n) \subseteq Reach(next', n)
      BY <3>1, <3>2, <3>3, <1>0, ReachGrows
    <3> QED BY <3>1, <3>2, <3>4, <3>5, <1>2, <1>4 DEF Settled
  <2> QED BY <2>1, <2>2
<1>6. AddAlone(i)'
  <2>1. Linked(h, i)' /\ (kind' = "servers" => sockets' = list')
    BY <1>1, <1>2, <1>5, <1>3 DEF Linked, Settled
  <2> QED BY <2>1, <1>3, <1>4, <1>5, <1>1, <1>2 DEF AddAlone, Linked, Settled
<1>7. Nodes'
  <2>1. \A j \in Item : j # i => node'[j] = node[j] /\ add'[j] = add[j]
    BY <1>0, <1>1, <1>3 DEF TypeOK
  <2>2. node'[i] = "there" /\ del[i].at = "out"
    BY <1>0, <1>1 DEF TypeOK, Base, Stages
  <2> QED BY <2>1, <2>2, <1>1, <1>3 DEF Steady, Nodes
<1>8. Walks'
  <2>1. \A n, d : Meets(n, d) => n \in There' \cup {None} /\ d \subseteq Reach(next', n)
    BY <1>4, <1>5 DEF Meets
  <2>2. view' = view /\ ask' = ask
    BY <1>1 DEF walks
  <2> QED BY <2>1, <2>2 DEF Steady, Walks, Meets
<1> QED BY <1>1, <1>4, <1>5, <1>6, <1>7, <1>8 DEF Steady, Alone

LEMMA KeepSteady ==
  ASSUME Base, Steady, NEW i \in Item, Keep(i), ~mixed'
  PROVE  Steady'
<1>0. TypeOK /\ add[i].at = "linked"
  BY DEF Base, Keep
<1>1. /\ UNCHANGED <<kind, list, next, node, rows, del, lock, walks, mixed, broken>>
      /\ sockets' = IF kind = "servers" THEN add[i].head ELSE sockets
      /\ add' = [add EXCEPT ![i].at = "kept"]
  BY DEF Keep
<1>2. add'[i].at = "kept" /\ add'[i].head = add[i].head /\ \A j \in Item : j # i => add'[j] = add[j]
  BY <1>0, <1>1 DEF TypeOK, AddRecord
<1>3. Adding = {i} /\ Removing = {} /\ Linked(add[i].head, i)
  <2>1. i \in Adding
    BY <1>0 DEF Adding
  <2> QED BY <2>1, <1>0, Appending DEF AddAlone
<1>4. There' = There /\ Shown' = Shown /\ Adding' = {i} /\ Removing' = {}
  <2>1. Adding' = {i}
    BY <1>2, <1>3 DEF Adding
  <2>2. Shown' = Shown
    BY <1>0, <1>1, <1>2 DEF Shown
  <2> QED BY <2>1, <2>2, <1>1, <1>3 DEF There, Removing
<1>5. AddAlone(i)'
  BY <1>1, <1>2, <1>3, <1>4 DEF AddAlone, Linked
<1>6. Nodes' /\ Walks'
  BY <1>0, <1>1, <1>2, <1>4 DEF Steady, Nodes, Walks, Meets, walks
<1> QED BY <1>1, <1>4, <1>5, <1>6 DEF Steady, Alone

LEMMA AnnounceSteady ==
  ASSUME Base, Steady, NEW i \in Item, Announce(i), ~mixed'
  PROVE  Steady'
<1> DEFINE h == IF kind = "servers" THEN sockets ELSE add[i].head
           x == [at |-> "done", head |-> None, last |-> None]
<1>0. TypeOK /\ add[i].at = "kept" /\ del[i].at = "out"
  BY DEF Base, Announce, NewRecord, Stages
<1>1. /\ UNCHANGED <<kind, sockets, next, node, del, walks, mixed>>
      /\ list' = h /\ rows' = rows + 1 /\ broken' = Freed(h)
      /\ add' = [add EXCEPT ![i] = x]
  BY DEF Announce, NewRecord
<1>2. add'[i].at = "done" /\ \A j \in Item : j # i => add'[j] = add[j]
  BY <1>0, <1>1 DEF TypeOK
<1>3. Adding = {i} /\ Removing = {} /\ Reach(next, h) = There
  <2>1. i \in Adding
    BY <1>0 DEF Adding
  <2> QED BY <2>1, <1>0, Appending DEF AddAlone, Linked
<1>4. h \in ItemOrNone /\ ~Freed(h)
  <2>1. h \in ItemOrNone
    BY <1>0 DEF TypeOK, AddRecord
  <2> QED BY <2>1, <1>3, HeadThere
<1> HIDE DEF h, x
<1>5. There' = There /\ Adding' = {} /\ Removing' = {}
  <2>1. Adding' = {}
    BY <1>2, <1>3 DEF Adding
  <2> QED BY <2>1, <1>1, <1>3 DEF There, Removing
<1>6. rows' = Cardinality(Shown')
  <2>1. Shown' = Shown \cup {i} /\ i \notin Shown /\ Shown \in SUBSET Item
    BY <1>0, <1>1, <1>2 DEF Shown
  <2>2. IsFiniteSet(Shown) /\ Cardinality(Shown') = Cardinality(Shown) + 1
    BY <2>1, Few, FS_AddElement
  <2> QED BY <2>2, <1>1 DEF Steady
<1>7. Settled'
  BY <1>1, <1>3, <1>5 DEF Settled, h
<1>8. Nodes' /\ Walks'
  BY <1>0, <1>1, <1>2, <1>5 DEF Steady, Nodes, Walks, Meets, walks
<1> QED BY <1>1, <1>4, <1>5, <1>6, <1>7, <1>8 DEF Steady, Alone

LEMMA BeginRemoveSteady ==
  ASSUME Base, Steady, NEW i \in Item, BeginRemove(i), ~mixed'
  PROVE  Steady'
<1>0. /\ TypeOK /\ kind = "servers" /\ add[i].at = "done" /\ del[i].at = "out"
      /\ Adding = {} /\ Removing = {} /\ ~Walking
  BY DEF Base, BeginRemove
<1>1. UNCHANGED <<kind, sockets, list, next, node, rows, add, lock, walks>>
  BY DEF BeginRemove
<1>2. Settled /\ Met(list) = There /\ ~Freed(list)
  BY <1>0, AtRest
<1> DEFINE k == Index(list, i)
<1>3. broken' = broken /\ del' = [del EXCEPT ![i].at = "indexed", ![i].pos = k]
  BY <1>2 DEF BeginRemove
<1>4. k \in Int /\ k >= 0
  <2>1. i \in Met(list)
    BY <1>0, <1>2 DEF There, Steady, Nodes
  <2> QED BY <2>1, IndexIs
<1> HIDE DEF k
<1>5. /\ del'[i].at = "indexed" /\ del'[i].pos = k
      /\ \A j \in Item : j # i => del'[j] = del[j]
  BY <1>0, <1>3, <1>4 DEF TypeOK, DelRecord
<1>6. There' = There /\ Shown' = Shown /\ Adding' = {} /\ Removing' = {i}
  <2>1. Removing' = {i}
    BY <1>0, <1>5 DEF Removing
  <2>2. Shown' = Shown
    BY <1>0, <1>1, <1>5 DEF Shown
  <2> QED BY <2>1, <2>2, <1>0, <1>1 DEF There, Adding
<1>7. RemoveAlone(i)'
  <2>1. view.node = None /\ \A a \in Asker : ask[a].node = None
    BY <1>0 DEF Walking, Base, Resting
  <2>2. Settled'
    BY <1>1, <1>2, <1>6 DEF Settled
  <2> QED BY <2>1, <2>2, <1>0, <1>1, <1>4, <1>5, <1>6 DEF RemoveAlone, walks
<1>8. Nodes' /\ Walks'
  BY <1>0, <1>1, <1>5, <1>6 DEF Steady, Nodes, Walks, Meets, walks
<1> QED BY <1>1, <1>3, <1>6, <1>7, <1>8 DEF Steady, Alone

LEMMA WalkToItemSteady ==
  ASSUME Base, Steady, NEW i \in Item, WalkToItem(i), ~mixed'
  PROVE  Steady'
<1>0. TypeOK /\ del[i].at = "indexed"
  BY DEF Base, WalkToItem
<1>1. UNCHANGED <<kind, sockets, list, next, node, rows, add, lock, walks, mixed>>
  BY DEF WalkToItem
<1>2. RemoveAlone(i) /\ Settled
  <2>1. i \in Removing
    BY <1>0 DEF Removing
  <2> QED BY <2>1, <1>0, Taking DEF RemoveAlone
<1>3. ~Freed(list) /\ list \in ItemOrNone
  BY <1>0, <1>2, HeadThere DEF TypeOK, Settled
<1> DEFINE p == Before(list, i)
<1>4. p \in ItemOrNone
  BY <1>3, BeforeIs DEF Met, ItemOrNone
<1>5. /\ broken' = broken
      /\ del' = [del EXCEPT ![i].at = "walked", ![i].head = list, ![i].prev = p]
  BY <1>3 DEF WalkToItem
<1> HIDE DEF p
<1>6. /\ del'[i].at = "walked" /\ del'[i].head = list /\ del'[i].prev = p
      /\ del'[i].pos = del[i].pos /\ \A j \in Item : j # i => del'[j] = del[j]
  BY <1>0, <1>3, <1>4, <1>5 DEF TypeOK, DelRecord
<1>7. There' = There /\ Shown' = Shown /\ Adding' = {} /\ Removing' = {i}
  <2>1. Removing' = {i}
    BY <1>2, <1>6 DEF Removing, RemoveAlone
  <2>2. Shown' = Shown
    BY <1>0, <1>1, <1>6 DEF Shown
  <2> QED BY <2>1, <2>2, <1>1, <1>2 DEF There, Adding, RemoveAlone
<1>8. p = Before(list, i)'
  BY <1>1 DEF p, Before, Met, Ways
<1>9. RemoveAlone(i)'
  <2>1. Settled'
    BY <1>1, <1>2, <1>7 DEF Settled
  <2> QED BY <2>1, <1>1, <1>2, <1>6, <1>7, <1>8 DEF RemoveAlone, walks
<1>10. Nodes' /\ Walks'
  BY <1>0, <1>1, <1>6, <1>7 DEF Steady, Nodes, Walks, Meets, walks
<1> QED BY <1>1, <1>5, <1>7, <1>9, <1>10 DEF Steady, Alone

LEMMA UnlinkSteady ==
  ASSUME Base, Steady, NEW i \in Item, Unlink(i), ~mixed'
  PROVE  Steady'
<1> DEFINE p == del[i].prev
           h == HeadAfter(i)
<1>0. /\ TypeOK /\ del[i].at = "walked" /\ next \in Nexts /\ i # None
      /\ list \in Item \cup {None}
  BY ListModelAssumption DEF Base, Unlink, TypeOK, Nexts, ItemOrNone
<1>1. /\ UNCHANGED <<kind, sockets, list, rows, add, lock, walks, mixed>>
      /\ del' = [del EXCEPT ![i].at = "unlinked", ![i].head = h]
  BY DEF Unlink
<1>2. RemoveAlone(i) /\ Settled /\ del[i].head = list /\ p = Before(list, i)
  <2>1. i \in Removing
    BY <1>0 DEF Removing
  <2> QED BY <2>1, <1>0, Taking DEF RemoveAlone
<1>3. i \in There /\ i \in Reach(next, list) /\ Met(list) = Reach(next, list)
  <2>1. add[i].at = "done"
    BY <1>0 DEF Base, Stages
  <2> QED BY <2>1, <1>0, <1>2, MetReach DEF Steady, Nodes, There, Settled
<1>4. PICK f \in [Item -> Nat] : Falls(next, f)
  BY Falling
<1>5. /\ node' = [node EXCEPT ![i] = "freed"] /\ broken' = FALSE
      /\ Reach(next', h) = There \ {i} /\ h \in ItemOrNone
  <2>1. CASE list = i
    <3>1. p = None
      BY <2>1, <1>2, <1>0, BeforeIs DEF ItemOrNone
    <3>2. node' = [node EXCEPT ![i] = "freed"] /\ broken' = FALSE /\ next' = next
      BY <3>1, <2>1, <1>2 DEF Unlink
    <3>3. h = next[i] /\ h \in ItemOrNone
      BY <2>1, <1>0, <1>2 DEF HeadAfter, TypeOK
    <3>4. Reach(next, next[i]) = Reach(next, i) \ {i}
      BY <1>0, <1>4, ReachRest
    <3> QED BY <3>2, <3>3, <3>4, <2>1, <1>2 DEF Settled
  <2>2. CASE list # i
    <3>1. p \in Reach(next, list) /\ next[p] = i
      BY <2>2, <1>0, <1>2, <1>3, BeforeIs DEF ItemOrNone
    <3>2. p # None /\ node[p] = "there"
      BY <3>1, <1>2, ListModelAssumption DEF Settled, There
    <3>3. /\ node' = [node EXCEPT ![i] = "freed"] /\ broken' = FALSE
          /\ next' = [next EXCEPT ![p] = next[i]]
      BY <3>2 DEF Unlink
    <3>4. h = list
      BY <2>2, <1>2 DEF HeadAfter
    <3>5. Reach([next EXCEPT ![p] = next[i]], list) = Reach(next, list) \ {i}
      <4>1. \A q \in Reach(next, list) : next[q] = i =>
              Reach([next EXCEPT ![q] = next[i]], list) = Reach(next, list) \ {i}
        BY <2>2, <1>0, <1>4, ReachCut
      <4> HIDE DEF p
      <4> QED BY <4>1, <3>1
    <3> QED BY <3>3, <3>4, <3>5, <1>0, <1>2 DEF Settled, ItemOrNone
  <2> QED BY <2>1, <2>2
<1> HIDE DEF h
<1>6. /\ del'[i].at = "unlinked" /\ del'[i].head = h /\ del'[i].pos = del[i].pos
      /\ \A j \in Item : j # i => del'[j] = del[j]
  BY <1>0, <1>1, <1>5 DEF TypeOK, DelRecord
<1>7. /\ node'[i] = "freed" /\ \A j \in Item : j # i => node'[j] = node[j]
      /\ There' = There \ {i}
  BY <1>0, <1>5 DEF TypeOK, There
<1>8. Shown' = Shown /\ Adding' = {} /\ Removing' = {i}
  <2>1. Removing' = {i}
    BY <1>2, <1>6 DEF Removing, RemoveAlone
  <2>2. Shown' = Shown
    BY <1>0, <1>1, <1>6 DEF Shown
  <2> QED BY <2>1, <2>2, <1>1, <1>2 DEF Adding, RemoveAlone
<1>9. RemoveAlone(i)'
  BY <1>1, <1>2, <1>5, <1>6, <1>7, <1>8 DEF RemoveAlone, walks
<1>10. Nodes'
  BY <1>1, <1>6, <1>7 DEF Steady, Nodes
<1>11. Walks'
  <2>1. \A d : Meets(None, d) => d = {}
    BY ReachNone DEF Meets
  <2>2. view.due = {} /\ \A a \in Asker : ask[a].due = {}
    BY <2>1, <1>2 DEF Steady, Walks, RemoveAlone
  <2> QED BY <2>2, <1>1, <1>2 DEF Walks, Meets, RemoveAlone, walks
<1> QED BY <1>1, <1>5, <1>8, <1>9, <1>10, <1>11 DEF Steady, Alone

LEMMA StoreHeadSteady ==
  ASSUME Base, Steady, NEW i \in Item, StoreHead(i), ~mixed'
  PROVE  Steady'
<1>0. TypeOK /\ del[i].at = "unlinked" /\ add[i].at = "done"
  BY DEF Base, Stages, StoreHead
<1>1. /\ UNCHANGED <<kind, sockets, next, node, add, lock, walks, mixed, broken>>
      /\ list' = del[i].head /\ del' = [del EXCEPT ![i].at = "stored"]
      /\ rows' = IF del[i].pos >= 0 /\ rows > 0 THEN rows - 1 ELSE rows
  BY DEF StoreHead
<1>2. RemoveAlone(i) /\ Reach(next, del[i].head) = There /\ del[i].pos >= 0
  <2>1. i \in Removing
    BY <1>0 DEF Removing
  <2> QED BY <2>1, <1>0, Taking DEF RemoveAlone
<1>3. /\ del'[i].at = "stored" /\ del'[i].head = del[i].head /\ del'[i].pos = del[i].pos
      /\ \A j \in Item : j # i => del'[j] = del[j]
  BY <1>0, <1>1 DEF TypeOK, DelRecord
<1>4. rows' = Cardinality(Shown')
  <2>1. Shown' = Shown \ {i} /\ i \in Shown /\ Shown \in SUBSET Item
    BY <1>0, <1>1, <1>3 DEF Shown
  <2>2. IsFiniteSet(Shown) /\ Cardinality(Shown') = Cardinality(Shown) - 1
    BY <2>1, Few, FS_RemoveElement
  <2>3. Shown' \in SUBSET Item
    BY <2>1
  <2>4. Cardinality(Shown) \in Nat /\ Cardinality(Shown') \in Nat
    BY <2>1, <2>3, Few
  <2>5. rows = Cardinality(Shown)
    BY DEF Steady
  <2> HIDE DEF Shown
  <2>6. rows > 0
    BY <2>2, <2>4, <2>5
  <2> QED BY <2>2, <2>5, <2>6, <1>1, <1>2
<1>5. There' = There /\ Adding' = {} /\ Removing' = {i}
  <2>1. Removing' = {i}
    BY <1>2, <1>3 DEF Removing, RemoveAlone
  <2> QED BY <2>1, <1>1, <1>2 DEF There, Adding, RemoveAlone
<1>6. RemoveAlone(i)'
  BY <1>1, <1>2, <1>3, <1>5 DEF RemoveAlone, walks
<1>7. Nodes' /\ Walks'
  BY <1>0, <1>1, <1>3, <1>5 DEF Steady, Nodes, Walks, Meets, walks
<1> QED BY <1>1, <1>4, <1>5, <1>6, <1>7 DEF Steady, Alone

LEMMA ReturnHeadSteady ==
  ASSUME Base, Steady, NEW i \in Item, ReturnHead(i), ~mixed'
  PROVE  Steady'
<1>0. TypeOK /\ del[i].at = "stored"
  BY DEF Base, ReturnHead
<1>1. /\ UNCHANGED <<kind, sockets, list, next, node, rows, add, lock, walks, mixed, broken>>
      /\ del' = [del EXCEPT ![i].at = "returned", ![i].head = list]
  BY DEF ReturnHead
<1>2. RemoveAlone(i) /\ Reach(next, list) = There
  <2>1. i \in Removing
    BY <1>0 DEF Removing
  <2> QED BY <2>1, <1>0, Taking DEF RemoveAlone
<1>3. /\ del'[i].at = "returned" /\ del'[i].head = list /\ del'[i].pos = del[i].pos
      /\ \A j \in Item : j # i => del'[j] = del[j]
  BY <1>0, <1>1 DEF TypeOK, DelRecord
<1>4. There' = There /\ Shown' = Shown /\ Adding' = {} /\ Removing' = {i}
  <2>1. Removing' = {i}
    BY <1>2, <1>3 DEF Removing, RemoveAlone
  <2>2. Shown' = Shown
    BY <1>0, <1>1, <1>3 DEF Shown
  <2> QED BY <2>1, <2>2, <1>1, <1>2 DEF There, Adding, RemoveAlone
<1>5. RemoveAlone(i)'
  BY <1>1, <1>2, <1>3, <1>4 DEF RemoveAlone, walks
<1>6. Nodes' /\ Walks'
  BY <1>0, <1>1, <1>3, <1>4 DEF Steady, Nodes, Walks, Meets, walks
<1> QED BY <1>1, <1>4, <1>5, <1>6 DEF Steady, Alone

LEMMA KeepHeadSteady ==
  ASSUME Base, Steady, NEW i \in Item, KeepHead(i), ~mixed'
  PROVE  Steady'
<1>0. TypeOK /\ del[i].at = "returned"
  BY DEF Base, KeepHead
<1>1. /\ UNCHANGED <<kind, list, next, node, rows, add, lock, walks, mixed, broken>>
      /\ sockets' = del[i].head /\ del' = [del EXCEPT ![i].at = "done"]
  BY DEF KeepHead
<1>2. RemoveAlone(i) /\ Reach(next, list) = There /\ del[i].head = list
  <2>1. i \in Removing
    BY <1>0 DEF Removing
  <2> QED BY <2>1, <1>0, Taking DEF RemoveAlone
<1>3. del'[i].at = "done" /\ \A j \in Item : j # i => del'[j] = del[j]
  BY <1>0, <1>1 DEF TypeOK, DelRecord
<1>4. There' = There /\ Shown' = Shown /\ Adding' = {} /\ Removing' = {}
  <2>1. Removing' = {}
    BY <1>2, <1>3 DEF Removing, RemoveAlone
  <2>2. Shown' = Shown
    BY <1>0, <1>1, <1>3 DEF Shown
  <2> QED BY <2>1, <2>2, <1>1, <1>2 DEF There, Adding, RemoveAlone
<1>5. Settled'
  BY <1>1, <1>2, <1>4 DEF Settled
<1>6. Nodes' /\ Walks'
  BY <1>0, <1>1, <1>3, <1>4 DEF Steady, Nodes, Walks, Meets, walks
<1> QED BY <1>1, <1>4, <1>5, <1>6 DEF Steady, Alone

(* The walks: only they change, and no removal is under way when one goes  *)
(* on, for it waited for them.                                             *)
LEMMA WalksOnly ==
  ASSUME Steady, UNCHANGED <<kind, sockets, list, next, node, rows, add, del, broken>>,
         Removing = {} \/ (view'.node = None /\ \A a \in Asker : ask'[a].node = None),
         Walks'
  PROVE  Steady'
<1>1. There' = There /\ Shown' = Shown /\ Adding' = Adding /\ Removing' = Removing
  BY DEF There, Shown, Adding, Removing
<1>2. Settled' = Settled
  BY <1>1 DEF Settled
<1>3. \A i \in Item : AddAlone(i) => AddAlone(i)'
  BY <1>1, <1>2 DEF AddAlone, Linked
<1>4. \A i \in Item : RemoveAlone(i) => RemoveAlone(i)'
  <2>1. ASSUME NEW i \in Item, RemoveAlone(i)
        PROVE  RemoveAlone(i)'
    <3>1. view'.node = None /\ \A a \in Asker : ask'[a].node = None
      BY <2>1 DEF RemoveAlone
    <3>2. Before(list, i)' = Before(list, i)
      BY DEF Before, Met, Ways
    <3> QED BY <3>1, <3>2, <2>1, <1>1, <1>2 DEF RemoveAlone
  <2> QED BY <2>1
<1>5. Alone'
  BY <1>1, <1>2, <1>3, <1>4 DEF Steady, Alone
<1> QED BY <1>1, <1>5 DEF Steady, Nodes

LEMMA HeadsThere ==
  ASSUME Base, Steady, Removing = {}
  PROVE  list \in There \cup {None} /\ (kind = "servers" => sockets \in There \cup {None})
<1>1. /\ list \in ItemOrNone /\ sockets \in ItemOrNone
      /\ \A i \in Item : add[i].head \in ItemOrNone
  BY DEF Base, TypeOK, AddRecord
<1>2. CASE Settled
  BY <1>1, <1>2, HeadThere DEF Settled
<1>3. ASSUME NEW i \in Item, AddAlone(i), ~Settled
      PROVE  list \in There \cup {None} /\ (kind = "servers" => sockets \in There \cup {None})
  <2>1. Linked(add[i].head, i) /\ (kind = "servers" => sockets \in {list, add[i].head})
    BY <1>3 DEF AddAlone
  <2>2. add[i].head \in There \cup {None}
    BY <2>1, <1>1, HeadThere DEF Linked
  <2> QED BY <2>1, <2>2 DEF Linked
<1> QED BY <1>2, <1>3 DEF Steady, Alone, RemoveAlone

(* A walk goes on to the next node.                                        *)
LEMMA MeetNext ==
  ASSUME Base, Steady, NEW i \in Item, NEW d, Meets(i, d)
  PROVE  Meets(next[i], d \ {i}) /\ node[i] = "there"
<1>1. i \in There
  BY ListModelAssumption DEF Meets
<1>2. next[i] \in There \cup {None}
  BY <1>1, SomeHead
<1>3. next \in Nexts
  BY DEF Base, TypeOK, Nexts, ItemOrNone
<1>4. Reach(next, i) = {i} \cup Reach(next, next[i])
  BY <1>3, ReachFirst
<1> QED BY <1>1, <1>2, <1>4 DEF Meets, There

LEMMA AnswerSteady ==
  ASSUME Base, Steady, NEW a \in Asker, Answer(a), ~mixed'
  PROVE  Steady'
<1>0. TypeOK
  BY DEF Base
<1>1. UNCHANGED <<kind, sockets, list, next, node, rows, add, del, view>>
  BY DEF Answer, BeginAsk, StartWalk, Tell, EndAsk
<1>2. There' = There
  BY <1>1 DEF There
<1>3. ASSUME NEW n, NEW d, Meets(n, d), ask'[a].node = n, ask'[a].due = d,
             \A b \in Asker : b # a => ask'[b] = ask[b]
      PROVE  Walks'
  BY <1>1, <1>2, <1>3 DEF Steady, Walks, Meets
<1>4. CASE BeginAsk(a)
  <2>1. broken' = broken /\ Removing = {} /\ kind = "servers"
    BY <1>4 DEF BeginAsk, StartWalk
  <2>2. /\ ask'[a].node = sockets /\ ask'[a].due = Met(sockets) \ {Own[a]}
        /\ \A b \in Asker : b # a => ask'[b] = ask[b]
    BY <1>0, <1>4 DEF BeginAsk, StartWalk, TypeOK
  <2>3. Meets(sockets, Met(sockets) \ {Own[a]})
    BY <2>1, HeadsThere, MetReach DEF Meets
  <2>4. Walks'
    BY <2>2, <2>3, <1>3
  <2> QED BY <2>1, <2>4, <1>1, WalksOnly
<1>5. CASE Tell(a)
  <2> DEFINE i == ask[a].node
  <2>1. i \in Item /\ i # None
    BY <1>0, <1>5 DEF Tell, TypeOK, AskRecord, ItemOrNone
  <2>2. Meets(next[i], ask[a].due \ {i}) /\ node[i] = "there"
    BY <2>1, MeetNext DEF Steady, Walks
  <2>3. /\ broken' = broken
        /\ ask' = [ask EXCEPT ![a] =
             [at |-> "walking", node |-> next[i], due |-> ask[a].due \ {i},
              told |-> ask[a].told \/ i # Own[a], none |-> FALSE]]
    BY <2>2, <1>5 DEF Tell, Following
  <2>4. /\ ask'[a].node = next[i] /\ ask'[a].due = ask[a].due \ {i}
        /\ \A b \in Asker : b # a => ask'[b] = ask[b]
    <3> HIDE DEF i
    <3> QED BY <2>3, <1>0 DEF TypeOK
  <2>5. Walks'
    BY <2>2, <2>4, <1>3
  <2>6. Removing = {}
    BY <2>1 DEF Steady, Alone, AddAlone, RemoveAlone
  <2> QED BY <2>3, <2>5, <2>6, <1>1, WalksOnly
<1>6. CASE EndAsk(a)
  <2>1. /\ broken' = broken /\ ask[a].node = None
        /\ ask' = [ask EXCEPT ![a] = [at |-> "done", node |-> None, due |-> ask[a].due,
                     told |-> ask[a].told, none |-> ~found]]
    BY <1>6 DEF EndAsk
  <2>2. /\ ask'[a].node = None /\ ask'[a].due = ask[a].due
        /\ \A b \in Asker : b # a => ask'[b] = ask[b]
    BY <2>1, <1>0 DEF TypeOK
  <2>3. Walks'
    BY <2>1, <2>2, <1>3 DEF Steady, Walks
  <2>4. Removing = {} \/ (view.node = None /\ \A b \in Asker : ask[b].node = None)
    BY DEF Steady, Alone, AddAlone, RemoveAlone
  <2>5. Removing = {} \/ (view'.node = None /\ \A b \in Asker : ask'[b].node = None)
    BY <2>2, <2>4, <1>1
  <2> QED BY <2>1, <2>3, <2>5, <1>1, WalksOnly
<1> QED BY <1>4, <1>5, <1>6 DEF Answer

LEMMA ShowSteady ==
  ASSUME Base, Steady, Draw \/ ShowRow, ~mixed'
  PROVE  Steady'
<1>0. TypeOK
  BY DEF Base
<1>1. UNCHANGED <<kind, sockets, list, next, node, rows, add, del, ask>>
  BY DEF Draw, ShowRow
<1>2. There' = There
  BY <1>1 DEF There
<1>3. ASSUME NEW n, NEW d, Meets(n, d), view'.node = n, view'.due = d
      PROVE  Walks'
  BY <1>1, <1>2, <1>3 DEF Steady, Walks, Meets
<1>4. CASE Draw
  <2>1. /\ broken' = broken /\ Removing = {}
        /\ view'.node = list /\ view'.due = Met(list)
    BY <1>4 DEF Draw
  <2>2. Meets(list, Met(list))
    BY <2>1, HeadsThere, MetReach DEF Meets
  <2>3. Walks'
    BY <2>1, <2>2, <1>3
  <2> QED BY <2>1, <2>3, <1>1, WalksOnly
<1>5. CASE ShowRow
  <2> DEFINE i == view.node
  <2>1. i \in Item /\ i # None
    BY <1>0, <1>5 DEF ShowRow, TypeOK, ViewRecord, ItemOrNone
  <2>2. Meets(next[i], view.due \ {i}) /\ node[i] = "there"
    BY <2>1, MeetNext DEF Steady, Walks
  <2>3. broken' = broken /\ view' = [view EXCEPT !.node = next[i], !.due = view.due \ {i}]
    BY <2>2, <1>5 DEF ShowRow, IterNext
  <2>4. view'.node = next[i] /\ view'.due = view.due \ {i}
    <3>1. view \in ViewRecord
      BY <1>0 DEF TypeOK
    <3> HIDE DEF i
    <3> QED BY <3>1, <2>3 DEF ViewRecord
  <2>5. Walks'
    BY <2>2, <2>4, <1>3
  <2>6. Removing = {}
    BY <2>1 DEF Steady, Alone, AddAlone, RemoveAlone
  <2> QED BY <2>3, <2>5, <2>6, <1>1, WalksOnly
<1> QED BY <1>4, <1>5

LEMMA SoundStep == ASSUME Base, Sound, [Next]_vars PROVE Sound'
<1> SUFFICES ASSUME ~mixed' PROVE Steady'
  BY DEF Sound
<1>1. ~mixed
  <2>1. ASSUME NEW i \in Item, Append(i) \/ Remove(i)
        PROVE  mixed => mixed'
    BY <2>1 DEF Append, BeginAdd, Link, Keep, Announce, NewRecord, Remove, BeginRemove,
                WalkToItem, Unlink, StoreHead, ReturnHead, KeepHead
  <2>2. ASSUME NEW a \in Asker, Answer(a)
        PROVE  mixed => mixed'
    BY <2>2 DEF Answer, BeginAsk, StartWalk, Tell, EndAsk
  <2>3. Draw \/ ShowRow \/ UNCHANGED vars => (mixed => mixed')
    BY DEF Draw, ShowRow, vars
  <2> QED BY <2>1, <2>2, <2>3 DEF Next
<1>2. Steady
  BY <1>1 DEF Sound
<1>3. ASSUME NEW i \in Item, Append(i) \/ Remove(i)
      PROVE  Steady'
  BY <1>2, <1>3, BeginAddSteady, LinkSteady, KeepSteady, AnnounceSteady, BeginRemoveSteady,
     WalkToItemSteady, UnlinkSteady, StoreHeadSteady, ReturnHeadSteady, KeepHeadSteady
     DEF Append, Remove
<1>4. CASE UNCHANGED vars
  <2>1. /\ UNCHANGED <<kind, sockets, list, next, node, rows, add, del, broken, view, ask>>
        /\ There' = There
    BY <1>4 DEF vars, walks, There
  <2>2. Walks'
    BY <2>1, <1>2 DEF Steady, Walks, Meets
  <2>3. Removing = {} \/ (view.node = None /\ \A a \in Asker : ask[a].node = None)
    BY <1>2 DEF Steady, Alone, AddAlone, RemoveAlone
  <2> QED BY <2>1, <2>2, <2>3, <1>2, WalksOnly
<1> QED BY <1>2, <1>3, <1>4, AnswerSteady, ShowSteady DEF Next

LEMMA SoundAlways == Spec => [](Base /\ Sound)
BY InitBase, InitSteady, BaseStep, SoundStep, PTL DEF Spec

(* Appends of servers, one at a time under socket_list, and removals that  *)
(* overlap with nothing, leave the list as it should be, both heads and    *)
(* the rows of the view with it (model_gslist_new_record and               *)
(* model_gslist_delete_record), and no freed node is used.                 *)
THEOREM SoundList == Spec => []SoundAlone
<1>1. Base /\ Sound => SoundAlone
  <2> SUFFICES ASSUME Base, Steady
               PROVE  /\ ~broken
                      /\ Quiet => /\ Met(list) = Kept /\ rows = Cardinality(Kept)
                                  /\ kind = "servers" => sockets = list
    BY DEF Sound, SoundAlone
  <2>1. ~broken
    BY DEF Steady
  <2>2. ASSUME Quiet
        PROVE  /\ Met(list) = Kept /\ rows = Cardinality(Kept)
               /\ kind = "servers" => sockets = list
    <3>1. Settled /\ Met(list) = There
      BY <2>2, AtRest DEF Quiet
    <3>2. \A i \in Item : del[i].at \in {"out", "done"} /\ add[i].at \in {"out", "done"}
      <4>1. \A i \in Item : /\ add[i].at \in {"out", "walked", "linked", "kept", "done"}
                            /\ del[i].at \in {"out", "indexed", "walked", "unlinked", "stored",
                                             "returned", "done"}
        BY DEF Base, TypeOK, AddRecord, DelRecord
      <4> QED BY <4>1, <2>2 DEF Quiet, Adding, Removing
    <3>3. There = Kept
      BY <3>2 DEF Steady, Nodes, There, Kept
    <3>4. Shown = Kept
      BY <3>2 DEF Shown, Kept
    <3> QED BY <3>1, <3>3, <3>4 DEF Steady, Settled
  <2> QED BY <2>1, <2>2
<1> QED BY <1>1, SoundAlways, PTL

(* An asker is told of every server that was listed when its request was   *)
(* handled, appends meanwhile or not, unless a removal overlaps            *)
(* (g_slist_foreach in generate_reply_servers).                            *)
THEOREM ToldAll == Spec => []ToldOfAll
<1>1. Base /\ Sound => ToldOfAll
  <2> SUFFICES ASSUME Base, Steady, NEW a \in Asker, ask[a].at = "done"
               PROVE  ask[a].due = {}
    BY DEF Sound, ToldOfAll
  <2>1. ask[a].node = None
    BY DEF Base, Resting
  <2> QED BY <2>1, ReachNone DEF Steady, Walks, Meets
<1> QED BY <1>1, SoundAlways, PTL

(* The view shows every row the list had when it began, unless a removal   *)
(* overlaps (model_gslist_iter_next).                                      *)
THEOREM AllShown == Spec => []ShownAll
<1>1. Base /\ Sound => ShownAll
  BY ReachNone DEF Sound, Steady, Walks, Meets, ShownAll
<1> QED BY <1>1, SoundAlways, PTL

-----------------------------------------------------------------------------
(* The records of the walks, whatever they point at; found says what the   *)
(* asker that is walking was told, and only one is.                        *)
Holder ==
  /\ DOMAIN ask = Asker
  /\ \A a \in Asker : ask[a].at = "walking" => asking = a /\ found = ask[a].told

Answered == \A a \in Asker : ask[a].at = "done" => ask[a].none = ~ask[a].told

WalkInv == Holder /\ Answered

LEMMA InitWalk == Init => WalkInv
<1> SUFFICES ASSUME Init  PROVE WalkInv
  OBVIOUS
<1>1. ask = [a \in Asker |-> [at |-> "out", node |-> None, due |-> {},
                              told |-> FALSE, none |-> FALSE]]
  BY DEF Init
<1>2. \A a \in Asker : ask[a].at = "out"
  BY <1>1
<1>. QED  BY <1>1, <1>2 DEF WalkInv, Holder, Answered

(* One walk goes on, and no other is under way.                            *)
LEMMA WalkOn ==
  ASSUME WalkInv, NEW a \in Asker, NEW n, NEW d, NEW t, NEW e,
         ask' = [ask EXCEPT ![a] = [at |-> "walking", node |-> n, due |-> d,
                                    told |-> t, none |-> e]],
         asking' = a, found' = t,
         \A b \in Asker : b # a => ask[b].at # "walking"
  PROVE  WalkInv'
<1>1. /\ ask'[a] = [at |-> "walking", node |-> n, due |-> d, told |-> t, none |-> e]
      /\ \A b \in Asker : b # a => ask'[b] = ask[b]
      /\ DOMAIN ask' = Asker
  BY DEF WalkInv, Holder
<1>2. Holder'
  BY <1>1 DEF WalkInv, Holder
<1>3. Answered'
  BY <1>1 DEF WalkInv, Answered
<1>. QED  BY <1>2, <1>3 DEF WalkInv

LEMMA BeginAskWalk ==
  ASSUME WalkInv, NEW a \in Asker, BeginAsk(a)
  PROVE  WalkInv'
<1>1. /\ asking = None /\ asking' = a /\ found' = FALSE
      /\ ask' = [ask EXCEPT ![a] =
           [at |-> "walking", node |-> sockets, due |-> Met(sockets) \ {Own[a]},
            told |-> FALSE, none |-> FALSE]]
  BY DEF BeginAsk, StartWalk
<1>2. \A b \in Asker : ask[b].at # "walking"
  BY <1>1, ListModelAssumption DEF WalkInv, Holder
<1>. QED  BY <1>1, <1>2, WalkOn

LEMMA TellWalk ==
  ASSUME WalkInv, NEW a \in Asker, Tell(a)
  PROVE  WalkInv'
<1> DEFINE i == ask[a].node
           t == ask[a].told \/ i # Own[a]
<1>1. asking = a /\ found = ask[a].told /\ asking' = asking
  BY DEF Tell, WalkInv, Holder
<1>2. CASE UNCHANGED <<found, ask>>
  BY <1>1, <1>2 DEF WalkInv, Holder, Answered
<1>3. CASE ~UNCHANGED <<found, ask>>
  <2>1. /\ ask' = [ask EXCEPT ![a] =
             [at |-> "walking", node |-> Following(a, i), due |-> ask[a].due \ {i},
              told |-> t, none |-> FALSE]]
        /\ found' = (found \/ i # Own[a])
    BY <1>3 DEF Tell
  <2>2. found' = t
    BY <1>1, <2>1
  <2>3. \A b \in Asker : b # a => ask[b].at # "walking"
    BY <1>1 DEF WalkInv, Holder
  <2> HIDE DEF t
  <2>. QED  BY <1>1, <2>1, <2>2, <2>3, WalkOn
<1>. QED  BY <1>2, <1>3

LEMMA EndAskWalk ==
  ASSUME WalkInv, NEW a \in Asker, EndAsk(a)
  PROVE  WalkInv'
<1> DEFINE e == ~found
           t == ask[a].told
<1>1. /\ ask[a].at = "walking"
      /\ ask' = [ask EXCEPT ![a] = [at |-> "done", node |-> None,
                   due |-> ask[a].due, told |-> t, none |-> e]]
  BY DEF EndAsk
<1>2. asking = a /\ e = ~t
  BY <1>1 DEF WalkInv, Holder
<1>3. \A b \in Asker : b # a => ask[b].at # "walking"
  BY <1>2 DEF WalkInv, Holder
<1>4. /\ DOMAIN ask' = Asker
      /\ ask'[a].at = "done" /\ ask'[a].told = t /\ ask'[a].none = e
      /\ \A b \in Asker : b # a => ask'[b] = ask[b]
  <2> HIDE DEF e, t
  <2>. QED  BY <1>1 DEF WalkInv, Holder
<1>5. Holder'
  BY <1>3, <1>4 DEF WalkInv, Holder
<1>6. ask'[a].none = ~ask'[a].told
  BY <1>2, <1>4
<1>7. Answered'
  BY <1>4, <1>6 DEF WalkInv, Answered
<1>. QED  BY <1>5, <1>7 DEF WalkInv

(* No other operation touches the walks.                                   *)
LEMMA WalkStep == ASSUME WalkInv, [Next]_vars  PROVE WalkInv'
<1>1. UNCHANGED <<ask, asking, found>> => WalkInv'
  BY DEF WalkInv, Holder, Answered
<1>2. ASSUME NEW i \in Item, Append(i) \/ Remove(i)
      PROVE  UNCHANGED <<ask, asking, found>>
  BY <1>2 DEF Append, BeginAdd, Link, Keep, Announce, NewRecord, Remove,
              BeginRemove, WalkToItem, Unlink, StoreHead, ReturnHead, KeepHead, walks
<1>3. Draw \/ ShowRow \/ UNCHANGED vars => UNCHANGED <<ask, asking, found>>
  BY DEF Draw, ShowRow, vars, walks
<1>. QED  BY <1>1, <1>2, <1>3, BeginAskWalk, TellWalk, EndAskWalk
          DEF Next, Answer

(* Whoever asks for servers is told of some, or that there is none, never  *)
(* both and never neither, whatever happens to the list meanwhile.         *)
THEOREM OneAnswer == Spec => []ToldOrNone
<1>1. WalkInv => ToldOrNone
  BY DEF WalkInv, Answered, ToldOrNone
<1>. QED  BY <1>1, InitWalk, WalkStep, PTL DEF Spec
=============================================================================
