----------------------------- MODULE PeersProofs -----------------------------
(***************************************************************************)
(* Proofs about Peers: for any hosts, any number of threads and any times, *)
(* packets never list a host twice, whenever the list is empty the user is *)
(* asked or a thread is about to look for others, every servlet has as     *)
(* many tasks that ping it as it has places in the list, and in a prompt   *)
(* system a host that answers its pings is not given up.                   *)
(*                                                                         *)
(* The argument: a thread that did not find its packet's sender holds the  *)
(* lock add_address until it has made the servlet, and what others put     *)
(* into the list meanwhile was not made for a packet.  The thread that     *)
(* takes the last servlet from the list goes on to count, and looks with   *)
(* none started when it counts none.  A task is in the queue or in a       *)
(* pinger's hands, and every step that moves, makes or drops one does as   *)
(* much to the list.  The first servlet of a host takes its answers: when  *)
(* one is not on its way, the servlet was last heard of no earlier than it *)
(* was last pinged, and early enough to sleep as long as it still has to.  *)
(***************************************************************************)
EXTENDS Peers, SequenceTheorems, FiniteSetTheorems, WellFoundedInduction, TLAPS

(* Only the holder of add_address is between its search and its end.       *)
Holder == \A w \in Worker : worker[w].pc = "added" => adding = w

Unheard(h) == \A i \in 1..Len(sockets) :
  servlet[sockets[i]].addr = h => servlet[sockets[i]].via # "packet"

NotFound == \A w \in Worker :
  worker[w].pc = "added" /\ worker[w].found = None => Unheard(worker[w].from)

(* Possible servers were learnt from replies.                              *)
Learnt == \A i \in 1..Len(possible) : servlet[possible[i]].via = "reply"

Heard == \A i, j \in 1..Len(sockets) :
  /\ servlet[sockets[i]].addr = servlet[sockets[j]].addr
  /\ servlet[sockets[i]].via = "packet" /\ servlet[sockets[j]].via = "packet"
  => i = j

(* Who looks for others has started as many as it counts.                  *)
Looker(t) == pinger[t].pc = "count" \/ (pinger[t].pc = "look" /\ pinger[t].n = 0)

Somebody == sockets = <<>> => asked \/ \E t \in Pinger : Looker(t)

NoneCounted == \A t \in Pinger : pinger[t].pc \in {"idle", "count"} => pinger[t].n = 0

Inv == TypeOK /\ Holder /\ NotFound /\ Learnt /\ Heard /\ Somebody /\ NoneCounted

(* The first element of a list that has a property.                        *)
LEMMA Least ==
  ASSUME NEW T, T \subseteq Nat, T # {}
  PROVE  Min(T) \in T /\ \A y \in T : Min(T) <= y
<1> DEFINE R == OpToRel(<, Nat)
<1>1. IsWellFoundedOn(R, Nat)
  BY NatLessThanWellFounded
<1>2. \A x, y \in Nat : x < y => <<x, y>> \in R
  BY DEF OpToRel
<1> HIDE DEF R
<1>3. PICK x \in T : \A y \in T : ~ (<<y, x>> \in R)
  BY <1>1, WFMin
<1>4. ASSUME NEW y \in T
      PROVE  x <= y
  <2>1. y < x => <<y, x>> \in R
    BY <1>2
  <2> QED BY <1>3, <2>1
<1> QED BY <1>4 DEF Min

LEMMA FirstFound ==
  ASSUME NEW l \in Seq(Servlet), NEW h
  PROVE  \/ First(l, h) = None /\ \A i \in 1..Len(l) : servlet[l[i]].addr # h
         \/ \E i \in 1..Len(l) :
              /\ First(l, h) = l[i] /\ servlet[l[i]].addr = h
              /\ \A j \in 1..i - 1 : servlet[l[j]].addr # h
<1> DEFINE T == {i \in 1..Len(l) : servlet[l[i]].addr = h}
           k == IF T # {} THEN Min(T) ELSE 0
<1>1. First(l, h) = IF k = 0 THEN None ELSE l[k]
  BY DEF First, SelectInSeq
<1>2. CASE T = {}
  BY <1>1, <1>2
<1>3. CASE T # {}
  <2> DEFINE n == Min(T)
  <2>1. T \subseteq Nat
    OBVIOUS
  <2> HIDE DEF n, T
  <2>2. n \in T /\ \A j \in T : n <= j
    BY <1>3, <2>1, Least DEF n
  <2>3. n \in 1..Len(l) /\ n # 0 /\ k = n /\ servlet[l[n]].addr = h
    BY <1>3, <2>2 DEF n, T
  <2>4. \A j \in 1..n - 1 : servlet[l[j]].addr # h
    <3>1. \A j \in 1..n - 1 : j \in 1..Len(l) /\ ~(n <= j)
      BY <2>3, LenProperties
    <3> QED BY <2>2, <3>1 DEF T
  <2> HIDE DEF k
  <2> QED BY <1>1, <2>3, <2>4
<1> QED BY <1>2, <1>3

(* A list without an element is the list with its first place left out.    *)
Without(r, s, n) ==
  /\ Len(r) = Len(s) - 1
  /\ \A i \in 1..Len(s) - 1 : r[i] = s[IF i < n THEN i ELSE i + 1]

LEMMA RemovedAt ==
  ASSUME NEW S, NEW s \in Seq(S), NEW e, \E i \in 1..Len(s) : s[i] = e
  PROVE  /\ RemoveFirst(s, e) \in Seq(S)
         /\ \E n \in 1..Len(s) : s[n] = e /\ Without(RemoveFirst(s, e), s, n)
<1> DEFINE r == RemoveFirst(s, e)
           T == {i \in 1..Len(s) : s[i] = e}
           n == Min(T)
           a == SubSeq(s, 1, n - 1)
           b == SubSeq(s, n + 1, Len(s))
<1>1. T # {} /\ T \subseteq Nat
  OBVIOUS
<1>2. n \in 1..Len(s) /\ Len(s) \in Nat /\ s[n] = e
  <2> HIDE DEF n
  <2>1. n \in T
    BY <1>1, Least DEF n
  <2> QED BY <2>1, LenProperties
<1>3. r = a \o b
  BY <1>1 DEF RemoveFirst, RemoveAt, SelectInSeq
<1> HIDE DEF n, r
<1>4. /\ a \in Seq(S) /\ Len(a) = n - 1 /\ \A i \in 1..n - 1 : a[i] = s[i]
  <2>1. \A i \in 1..n - 1 : s[i] \in S
    BY <1>2, ElementOfSeq, \A i \in 1..n - 1 : i \in 1..Len(s)
  <2> QED BY <1>2, <2>1, SubSeqProperties
<1>5. /\ b \in Seq(S) /\ Len(b) = Len(s) - n /\ \A i \in 1..Len(s) - n : b[i] = s[n + i]
  <2>1. \A i \in n + 1..Len(s) : s[i] \in S
    BY <1>2, ElementOfSeq, \A i \in n + 1..Len(s) : i \in 1..Len(s)
  <2> QED BY <1>2, <2>1, SubSeqProperties
<1> HIDE DEF a, b
<1>6. /\ r \in Seq(S) /\ Len(r) = Len(s) - 1
      /\ \A i \in 1..Len(s) - 1 : r[i] = IF i <= n - 1 THEN a[i] ELSE b[i - (n - 1)]
  <2>1. /\ a \o b \in Seq(S) /\ Len(a \o b) = Len(a) + Len(b)
        /\ \A i \in 1..Len(a) + Len(b) :
             (a \o b)[i] = IF i <= Len(a) THEN a[i] ELSE b[i - Len(a)]
    BY <1>4, <1>5, ConcatProperties
  <2>2. Len(a) = n - 1 /\ Len(a) + Len(b) = Len(s) - 1
    BY <1>2, <1>4, <1>5
  <2> QED BY <1>3, <2>1, <2>2
<1>7. ASSUME NEW i \in 1..Len(s) - 1
      PROVE  r[i] = s[IF i < n THEN i ELSE i + 1]
  <2>1. CASE i < n
    BY <2>1, <1>2, <1>4, <1>6
  <2>2. CASE ~(i < n)
    <3>1. i - (n - 1) \in 1..Len(s) - n /\ n + (i - (n - 1)) = i + 1
      BY <2>2, <1>2
    <3> QED BY <2>2, <3>1, <1>2, <1>5, <1>6
  <2> QED BY <2>1, <2>2
<1> QED BY <1>2, <1>6, <1>7 DEF r, Without

LEMMA Removed ==
  ASSUME NEW S, NEW s \in Seq(S), NEW e
  PROVE  /\ RemoveFirst(s, e) \in Seq(S)
         /\ \A i \in 1..Len(RemoveFirst(s, e)) : \E k \in 1..Len(s) : RemoveFirst(s, e)[i] = s[k]
         /\ \A i, j \in 1..Len(RemoveFirst(s, e)) : i # j =>
              \E k, m \in 1..Len(s) :
                k # m /\ RemoveFirst(s, e)[i] = s[k] /\ RemoveFirst(s, e)[j] = s[m]
<1> DEFINE r == RemoveFirst(s, e)
<1>1. CASE ~ \E i \in 1..Len(s) : s[i] = e
  <2>1. r = s
    BY <1>1 DEF RemoveFirst
  <2> QED BY <2>1
<1>2. CASE \E i \in 1..Len(s) : s[i] = e
  <2>1. r \in Seq(S)
    BY <1>2, RemovedAt
  <2>2. PICK n \in 1..Len(s) : Without(r, s, n)
    BY <1>2, RemovedAt
  <2> DEFINE p(i) == IF i < n THEN i ELSE i + 1
  <2>3. Len(s) \in Nat
    BY LenProperties
  <2> HIDE DEF r
  <2>4. \A i \in 1..Len(r) : p(i) \in 1..Len(s) /\ r[i] = s[p(i)]
    BY <2>2, <2>3 DEF Without
  <2>5. \A i, j \in 1..Len(r) : i # j => p(i) # p(j)
    BY <2>2, <2>3 DEF Without
  <2> HIDE DEF p
  <2> QED BY <2>1, <2>4, <2>5 DEF r
<1> QED BY <1>1, <1>2

(* How often an element is in a list with one more, and with one less.     *)
One(x, s) == IF x = s THEN 1 ELSE 0

LEMMA TimesAppend ==
  ASSUME NEW S, NEW l \in Seq(S), NEW x \in S, NEW s
  PROVE  /\ Times(l, s) \in Nat
         /\ Times(Append(l, x), s) = Times(l, s) + One(x, s)
<1> DEFINE n == Len(l)
           P == {i \in 1..n : l[i] = s}
           Q == {i \in 1..n + 1 : Append(l, x)[i] = s}
<1>1. n \in Nat /\ DOMAIN l = 1..n /\ DOMAIN Append(l, x) = 1..n + 1
  BY LenProperties, AppendProperties
<1>2. (\A i \in 1..n : Append(l, x)[i] = l[i]) /\ Append(l, x)[n + 1] = x
  BY AppendProperties
<1>3. Times(l, s) = Cardinality(P) /\ Times(Append(l, x), s) = Cardinality(Q)
  BY <1>1 DEF Times
<1>4. IsFiniteSet(P)
  <2>1. IsFiniteSet(1..n)
    BY <1>1, FS_Interval, 1 \in Int, n \in Int
  <2> QED BY ONLY <2>1, P \in SUBSET (1..n), FS_Subset
<1>5. Q = IF x = s THEN P \cup {n + 1} ELSE P
  BY <1>1, <1>2
<1>6. n + 1 \notin P
  BY <1>1
<1> HIDE DEF P, Q, n
<1>7. Cardinality(P) \in Nat /\ Cardinality(P \cup {n + 1}) = Cardinality(P) + 1
  BY <1>4, <1>6, FS_CardinalityType, FS_AddElement
<1> QED BY <1>3, <1>5, <1>7 DEF One

LEMMA TimesWithout ==
  ASSUME NEW S, NEW l \in Seq(S), NEW r \in Seq(S), NEW n \in 1..Len(l), NEW s,
         Without(r, l, n)
  PROVE  /\ Times(r, s) \in Nat
         /\ Times(l, s) = Times(r, s) + One(l[n], s)
<1> DEFINE m == Len(l)
           P == {i \in 1..m : l[i] = s}
           Q == {i \in 1..m - 1 : r[i] = s}
           R == P \ {n}
           f == [i \in Q |-> IF i < n THEN i ELSE i + 1]
<1>1. m \in Nat /\ m >= 1 /\ DOMAIN l = 1..m /\ DOMAIN r = 1..m - 1
      /\ \A i \in 1..m - 1 : r[i] = l[IF i < n THEN i ELSE i + 1]
  BY LenProperties DEF Without
<1>2. Times(l, s) = Cardinality(P) /\ Times(r, s) = Cardinality(Q)
  BY <1>1 DEF Times
<1>3. IsFiniteSet(P) /\ IsFiniteSet(Q)
  <2>1. IsFiniteSet(1..m)
    BY <1>1, FS_Interval, 1 \in Int, m \in Int
  <2>2. P \in SUBSET (1..m) /\ Q \in SUBSET (1..m)
    BY <1>1
  <2> QED BY ONLY <2>1, <2>2, FS_Subset
<1>4. f \in Bijection(Q, R)
  <2>1. \A i \in Q : f[i] \in R
    BY <1>1
  <2>2. \A i, j \in Q : f[i] = f[j] => i = j
    BY <1>1
  <2>3. \A k \in R : \E i \in Q : f[i] = k
    <3> SUFFICES ASSUME NEW k \in R
                 PROVE  \E i \in Q : f[i] = k
      OBVIOUS
    <3> DEFINE i == IF k < n THEN k ELSE k - 1
    <3>1. i \in 1..m - 1 /\ (IF i < n THEN i ELSE i + 1) = k
      BY <1>1
    <3>2. i \in Q
      BY <3>1, <1>1
    <3> QED BY <3>1, <3>2
  <2> QED BY <2>1, <2>2, <2>3 DEF Bijection, Injection, Surjection, IsInjective
<1>5. n \in P <=> l[n] = s
  BY <1>1
<1> HIDE DEF P, Q, R, f, m
<1>6. Cardinality(R) = Cardinality(Q) /\ Cardinality(Q) \in Nat
  <2>1. ExistsBijection(Q, R)
    BY <1>4 DEF ExistsBijection
  <2> QED BY <2>1, <1>3, FS_Bijection, FS_CardinalityType
<1>7. Cardinality(R) = IF n \in P THEN Cardinality(P) - 1 ELSE Cardinality(P)
  BY <1>3, FS_RemoveElement DEF R
<1>8. Cardinality(P) \in Nat
  BY <1>3, FS_CardinalityType
<1> QED BY <1>2, <1>5, <1>6, <1>7, <1>8 DEF One

LEMMA TimesTail ==
  ASSUME NEW S, NEW l \in Seq(S), NEW s, l # <<>>
  PROVE  /\ Times(Tail(l), s) \in Nat
         /\ Times(l, s) = Times(Tail(l), s) + One(Head(l), s)
<1>1. PICK r \in Seq(S) : r = Tail(l)
  BY HeadTailProperties
<1>2. Len(r) = Len(l) - 1 /\ \A i \in 1..Len(l) - 1 : r[i] = l[i + 1]
  BY <1>1, HeadTailProperties
<1>3. Len(l) \in Nat \ {0} /\ Head(l) = l[1]
  BY EmptySeq
<1>4. PICK n \in 1..Len(l) : n = 1
  BY <1>3
<1>5. Without(r, l, n)
  BY <1>2, <1>3, <1>4 DEF Without
<1>6. Times(r, s) \in Nat /\ Times(l, s) = Times(r, s) + One(l[n], s)
  BY <1>5, TimesWithout
<1> QED BY <1>1, <1>3, <1>4, <1>6

(* How many threads have a servlet, when one of them changes.              *)
Held(p, s) == Cardinality({u \in Pinger : p[u].s = s})

LEMMA HeldType ==
  ASSUME NEW p, NEW s
  PROVE  Held(p, s) \in Nat
<1>1. {u \in Pinger : p[u].s = s} \in SUBSET Pinger
  OBVIOUS
<1> QED BY ONLY <1>1, PeersAssumption, FS_Subset, FS_CardinalityType DEF Held

LEMMA HeldSame ==
  ASSUME NEW p, NEW q, NEW s, \A u \in Pinger : q[u].s = p[u].s
  PROVE  Held(q, s) = Held(p, s)
<1>1. {u \in Pinger : q[u].s = s} = {u \in Pinger : p[u].s = s}
  OBVIOUS
<1> QED BY <1>1 DEF Held

OnlyMoves(p, q, t) == \A u \in Pinger : u # t => q[u].s = p[u].s

LEMMA HeldMove ==
  ASSUME NEW p, NEW q, NEW t \in Pinger, NEW s, OnlyMoves(p, q, t)
  PROVE  Held(q, s) + One(p[t].s, s) = Held(p, s) + One(q[t].s, s)
<1> DEFINE P == {u \in Pinger : p[u].s = s}
           Q == {u \in Pinger : q[u].s = s}
           R == {u \in Pinger \ {t} : p[u].s = s}
<1>1. IsFiniteSet(R) /\ t \notin R
  BY PeersAssumption, FS_Subset
<1>2. /\ P = IF p[t].s = s THEN R \cup {t} ELSE R
      /\ Q = IF q[t].s = s THEN R \cup {t} ELSE R
  BY DEF OnlyMoves
<1>3. Held(p, s) = Cardinality(P) /\ Held(q, s) = Cardinality(Q)
  BY DEF Held
<1> HIDE DEF P, Q, R
<1>4. Cardinality(R) \in Nat /\ Cardinality(R \cup {t}) = Cardinality(R) + 1
  BY <1>1, FS_CardinalityType, FS_AddElement
<1>5. /\ Cardinality(P) = Cardinality(R) + One(p[t].s, s)
      /\ Cardinality(Q) = Cardinality(R) + One(q[t].s, s)
  BY <1>2, <1>4 DEF One
<1>6. One(p[t].s, s) \in Nat /\ One(q[t].s, s) \in Nat
  BY DEF One
<1> QED BY <1>3, <1>4, <1>5, <1>6

LEMMA InitInv == Init => Inv
<1> SUFFICES ASSUME Init PROVE Inv
  OBVIOUS
<1>1. Blank \in ServletRecord
  BY PeersAssumption DEF Blank, ServletRecord
<1>2. TypeOK
  BY <1>1, PeersAssumption, EmptySeq
    DEF Init, TypeOK, IdlePinger, IdleWorker, PingerRecord, WorkerRecord
<1>3. Holder /\ NotFound
  BY DEF Init, Holder, NotFound, IdleWorker
<1>4. Learnt /\ Heard /\ Somebody /\ NoneCounted
  BY DEF Init, Learnt, Heard, Somebody, NoneCounted, IdlePinger
<1> QED BY <1>2, <1>3, <1>4 DEF Inv

(* Steps that leave the lists and what is listed as they are.              *)
LEMMA ListsKept ==
  ASSUME Inv, UNCHANGED <<sockets, possible>>,
         \A x \in ToSet(sockets) \cup ToSet(possible) :
           servlet'[x].addr = servlet[x].addr /\ servlet'[x].via = servlet[x].via
  PROVE  /\ Heard' /\ Learnt'
         /\ \A h : Unheard(h) => Unheard(h)'
<1>1. /\ \A i \in 1..Len(sockets) : sockets[i] \in ToSet(sockets)
      /\ \A i \in 1..Len(possible) : possible[i] \in ToSet(possible)
  BY LenProperties DEF ToSet, Inv, TypeOK
<1> QED BY <1>1 DEF Inv, Heard, Learnt, Unheard

(* Steps that put a servlet at the end of the list.                        *)
LEMMA ListGrows ==
  ASSUME Inv, UNCHANGED possible, NEW s \in Servlet, sockets' = Append(sockets, s),
         \A x \in ToSet(sockets) \cup ToSet(possible) :
           servlet'[x].addr = servlet[x].addr /\ servlet'[x].via = servlet[x].via,
         servlet'[s].via # "packet" \/ Unheard(servlet'[s].addr)
  PROVE  /\ sockets' \in Seq(Servlet) /\ sockets' # <<>>
         /\ Heard' /\ Learnt'
         /\ servlet'[s].via # "packet" => \A h : Unheard(h) => Unheard(h)'
<1>1. /\ \A i \in 1..Len(sockets) : sockets[i] \in ToSet(sockets)
      /\ \A i \in 1..Len(possible) : possible[i] \in ToSet(possible)
  BY LenProperties DEF ToSet, Inv, TypeOK
<1>2. /\ Len(sockets) \in Nat /\ sockets' \in Seq(Servlet) /\ Len(sockets') = Len(sockets) + 1
      /\ \A i \in 1..Len(sockets) : sockets'[i] = sockets[i]
      /\ sockets'[Len(sockets) + 1] = s
  <2>1. sockets \in Seq(Servlet)
    BY DEF Inv, TypeOK
  <2> QED BY <2>1, LenProperties, AppendProperties
<1>3. sockets' # <<>>
  BY <1>2, EmptySeq
<1>4. \A i \in 1..Len(sockets') : i \in 1..Len(sockets) \/ i = Len(sockets) + 1
  BY <1>2
<1>5. Learnt'
  BY <1>1 DEF Inv, Learnt
<1>6. ASSUME servlet'[s].via # "packet", NEW h, Unheard(h)
      PROVE  Unheard(h)'
  BY <1>1, <1>2, <1>4, <1>6 DEF Unheard
<1>7. Heard'
  <2> SUFFICES ASSUME NEW i \in 1..Len(sockets'), NEW j \in 1..Len(sockets'),
                      servlet'[sockets'[i]].addr = servlet'[sockets'[j]].addr,
                      servlet'[sockets'[i]].via = "packet", servlet'[sockets'[j]].via = "packet"
               PROVE  i = j
    BY DEF Heard
  <2>1. CASE i \in 1..Len(sockets) /\ j \in 1..Len(sockets)
    BY <2>1, <1>1, <1>2 DEF Inv, Heard
  <2>2. CASE i \in 1..Len(sockets) /\ j = Len(sockets) + 1
    BY <2>2, <1>1, <1>2 DEF Unheard
  <2>3. CASE j \in 1..Len(sockets) /\ i = Len(sockets) + 1
    BY <2>3, <1>1, <1>2 DEF Unheard
  <2> QED BY <2>1, <2>2, <2>3, <1>4
<1> QED BY <1>2, <1>3, <1>5, <1>6, <1>7

(* What a new servlet's record is, and that it takes nobody's.             *)
LEMMA NewRecord ==
  ASSUME TypeOK, NEW h \in Host, NEW who \in {"packet", "reply", "user"}, NEW s \in Free,
         servlet' = [servlet EXCEPT ![s] = New(h, who)]
  PROVE  /\ s \in Servlet /\ servlet' \in [Servlet -> ServletRecord]
         /\ servlet'[s].addr = h /\ servlet'[s].via = who
         /\ \A x \in Servlet : x # s => servlet'[x] = servlet[x]
         /\ s \notin ToSet(sockets) \cup ToSet(possible)
         /\ ToSet(sockets) \cup ToSet(possible) \subseteq Servlet
<1>1. s \in Servlet /\ s \notin ToSet(sockets) \cup ToSet(possible)
  BY DEF Free
<1>2. New(h, who) \in ServletRecord /\ New(h, who).addr = h /\ New(h, who).via = who
  BY PeersAssumption DEF New, ServletRecord
<1>3. ToSet(sockets) \cup ToSet(possible) \subseteq Servlet
  BY LenProperties, ElementOfSeq DEF TypeOK, ToSet
<1> QED BY <1>1, <1>2, <1>3 DEF TypeOK

LEMMA ConnectInv ==
  ASSUME Inv, NEW h \in Host, Connect(h)
  PROVE  Inv'
<1>0. TypeOK
  BY DEF Inv
<1>1. PICK s \in Free : servlet' = [servlet EXCEPT ![s] = New(h, "user")] /\ Startup(s)
  BY DEF Connect
<1>2. /\ s \in Servlet /\ servlet' \in [Servlet -> ServletRecord]
      /\ servlet'[s].via = "user"
      /\ \A x \in ToSet(sockets) \cup ToSet(possible) : servlet'[x] = servlet[x]
  BY <1>0, <1>1, NewRecord
<1>3. UNCHANGED <<possible, pinger, worker, adding, pongs, alive>> /\ asked' = FALSE
  BY DEF Connect
<1>4. /\ sockets' \in Seq(Servlet) /\ sockets' # <<>> /\ Heard' /\ Learnt'
      /\ \A g : Unheard(g) => Unheard(g)'
  BY <1>1, <1>2, <1>3, ListGrows DEF Startup
<1>5. queue' \in Seq(Servlet)
  BY <1>0, <1>1, <1>2, AppendProperties DEF Startup, TypeOK
<1>6. TypeOK'
  BY <1>0, <1>2, <1>3, <1>4, <1>5 DEF TypeOK
<1>7. Holder' /\ NotFound' /\ Somebody' /\ NoneCounted'
  BY <1>3, <1>4 DEF Inv, Holder, NotFound, Somebody, NoneCounted
<1> QED BY <1>4, <1>6, <1>7 DEF Inv

(* What TypeOK and NoneCounted say of the threads of pingers.              *)
Record(r) ==
  /\ r \in PingerRecord
  /\ r.s = None <=> r.pc \in {"idle", "count", "look"}
  /\ r.n <= IF r.pc = "look" THEN LookLast + 1 ELSE SleepTime
  /\ r.pc \in {"idle", "count"} => r.n = 0

Threads ==
  /\ pinger \in [Pinger -> PingerRecord]
  /\ \A t \in Pinger : Record(pinger[t])

LEMMA ThreadsOK == Inv => Threads
BY DEF Inv, TypeOK, NoneCounted, Threads, Record

LEMMA ThreadMoves ==
  ASSUME Inv, NEW t \in Pinger, NEW r, Record(r), pinger' = [pinger EXCEPT ![t] = r]
  PROVE  /\ Threads' /\ pinger'[t] = r
         /\ \A u \in Pinger : u # t => pinger'[u] = pinger[u]
BY ThreadsOK DEF Threads, Record

LEMMA IdleRecord == Record(IdlePinger) /\ IdlePinger.pc = "idle"
BY PeersAssumption DEF Record, IdlePinger, PingerRecord

LEMMA SomebodyStays ==
  ASSUME Inv, NEW t \in Pinger, UNCHANGED sockets, asked => asked',
         \A u \in Pinger : u # t => pinger'[u] = pinger[u],
         sockets = <<>> /\ Looker(t) => asked' \/ Looker(t)'
  PROVE  Somebody'
BY DEF Inv, Somebody, Looker

(* Steps that leave the lists and the threads that handle packets alone.   *)
LEMMA PingInv ==
  ASSUME Inv, UNCHANGED <<sockets, possible, worker, adding>>,
         servlet' \in [Servlet -> ServletRecord],
         \A x \in Servlet :
           servlet'[x].addr = servlet[x].addr /\ servlet'[x].via = servlet[x].via,
         queue' \in Seq(Servlet), pongs' \subseteq Host, alive' \in [Host -> BOOLEAN],
         asked' \in BOOLEAN, Threads', Somebody'
  PROVE  Inv'
<1>1. TypeOK' /\ NoneCounted'
  BY DEF Inv, TypeOK, Threads, Record, NoneCounted
<1>2. ToSet(sockets) \cup ToSet(possible) \subseteq Servlet
  BY LenProperties, ElementOfSeq DEF Inv, TypeOK, ToSet
<1>3. Heard' /\ Learnt' /\ \A h : Unheard(h) => Unheard(h)'
  BY <1>2, ListsKept
<1>4. Holder' /\ NotFound'
  BY <1>3 DEF Inv, Holder, NotFound
<1> QED BY <1>1, <1>3, <1>4 DEF Inv

LEMMA TakeInv ==
  ASSUME Inv, NEW t \in Pinger, Take(t)
  PROVE  Inv'
<1> DEFINE s == Head(queue)
           r == [pc |-> "check", s |-> s, n |-> 0]
<1>0. TypeOK /\ pinger[t].pc = "idle" /\ queue \in Seq(Servlet) /\ queue # <<>>
  BY DEF Inv, Take, TypeOK
<1>1. s \in Servlet /\ s # None /\ queue' \in Seq(Servlet)
  BY <1>0, HeadTailProperties, PeersAssumption DEF Take
<1>2. Record(r) /\ r.pc = "check"
  BY <1>1, PeersAssumption DEF Record, PingerRecord
<1>3. pinger' = [pinger EXCEPT ![t] = r]
  BY DEF Take
<1> HIDE DEF r
<1>4. Threads' /\ \A u \in Pinger : u # t => pinger'[u] = pinger[u]
  BY <1>2, <1>3, ThreadMoves
<1>5. UNCHANGED <<sockets, possible, worker, adding, alive, asked>>
  BY DEF Take
<1>6. Somebody'
  BY <1>0, <1>4, <1>5, SomebodyStays DEF Looker
<1>7. /\ servlet' \in [Servlet -> ServletRecord]
      /\ \A x \in Servlet :
           servlet'[x].addr = servlet[x].addr /\ servlet'[x].via = servlet[x].via
  <2>1. servlet' = servlet \/ servlet' = [servlet EXCEPT ![s].pinged = 0]
    BY DEF Take
  <2>2. CASE servlet' = servlet
    BY <2>2, <1>0 DEF TypeOK
  <2>3. CASE servlet' = [servlet EXCEPT ![s].pinged = 0]
    <3> DEFINE x == [servlet[s] EXCEPT !.pinged = 0]
    <3>1. servlet[s] \in ServletRecord /\ 0 \in 0..PingTime + 1
      BY <1>0, <1>1, PeersAssumption DEF TypeOK
    <3>2. x \in ServletRecord /\ x.addr = servlet[s].addr /\ x.via = servlet[s].via
      BY <3>1 DEF ServletRecord
    <3>3. servlet' = [servlet EXCEPT ![s] = x]
      BY <2>3
    <3> HIDE DEF x
    <3> QED BY <3>2, <3>3, <1>0 DEF TypeOK
  <2> QED BY <2>1, <2>2, <2>3
<1>8. pongs' \subseteq Host
  <2>1. servlet[s].addr \in Host
    BY <1>0, <1>1 DEF TypeOK, ServletRecord
  <2> QED BY <2>1, <1>0 DEF Take, TypeOK
<1> QED BY <1>0, <1>1, <1>4, <1>5, <1>6, <1>7, <1>8, PingInv DEF TypeOK

LEMMA CheckInv ==
  ASSUME Inv, NEW t \in Pinger, Check(t)
  PROVE  Inv'
<1>0. TypeOK /\ pinger[t].pc = "check" /\ Record(pinger[t])
  BY ThreadsOK DEF Inv, Check, Threads
<1>1. PICK r : Record(r) /\ pinger' = [pinger EXCEPT ![t] = r]
  <2>1. CASE Overdue(pinger[t].s)
    <3> DEFINE r == [pinger[t] EXCEPT !.pc = "drop"]
    <3>1. pinger' = [pinger EXCEPT ![t] = r]
      BY <2>1 DEF Check
    <3>2. Record(r)
      BY <1>0 DEF Record, PingerRecord
    <3> QED BY <3>1, <3>2
  <2>2. CASE ~Overdue(pinger[t].s)
    <3> DEFINE r == [pinger[t] EXCEPT !.pc = "sleep", !.n = SleepTime]
    <3>1. pinger' = [pinger EXCEPT ![t] = r]
      BY <2>2 DEF Check
    <3>2. /\ pinger[t] \in PingerRecord /\ pinger[t].s # None /\ SleepTime \in Nat
      BY <1>0, PeersAssumption DEF Record
    <3>3. r \in PingerRecord /\ r.pc = "sleep" /\ r.s = pinger[t].s /\ r.n = SleepTime
      BY <3>2 DEF PingerRecord
    <3> HIDE DEF r
    <3>4. Record(r)
      BY <3>2, <3>3 DEF Record
    <3> QED BY <3>1, <3>4
  <2> QED BY <2>1, <2>2
<1>2. Threads' /\ \A u \in Pinger : u # t => pinger'[u] = pinger[u]
  BY <1>1, ThreadMoves
<1>3. UNCHANGED <<sockets, possible, servlet, queue, worker, adding, pongs, alive, asked>>
  BY DEF Check
<1>4. Somebody'
  BY <1>0, <1>2, <1>3, SomebodyStays DEF Looker
<1> QED BY <1>0, <1>2, <1>3, <1>4, PingInv DEF TypeOK

LEMMA CountInv ==
  ASSUME Inv, NEW t \in Pinger, Count(t)
  PROVE  Inv'
<1> DEFINE r == [pinger[t] EXCEPT !.pc = IF sockets = <<>> THEN "look" ELSE "idle"]
<1>0. TypeOK /\ pinger[t].pc = "count" /\ Record(pinger[t])
  BY ThreadsOK DEF Inv, Count, Threads
<1>1. /\ Record(r) /\ (sockets = <<>> => r.pc = "look" /\ r.n = 0)
  BY <1>0, PeersAssumption DEF Record, PingerRecord
<1>2. pinger' = [pinger EXCEPT ![t] = r]
  BY DEF Count
<1> HIDE DEF r
<1>3. Threads' /\ pinger'[t] = r /\ \A u \in Pinger : u # t => pinger'[u] = pinger[u]
  BY <1>1, <1>2, ThreadMoves
<1>4. UNCHANGED <<sockets, possible, servlet, queue, worker, adding, pongs, alive, asked>>
  BY DEF Count
<1>5. Somebody'
  BY <1>1, <1>3, <1>4, SomebodyStays DEF Looker
<1> QED BY <1>0, <1>3, <1>4, <1>5, PingInv DEF TypeOK

LEMMA LookEndInv ==
  ASSUME Inv, NEW t \in Pinger, LookEnd(t)
  PROVE  Inv'
<1>0. TypeOK /\ pinger[t].pc = "look"
  BY DEF Inv, LookEnd
<1>1. Threads' /\ \A u \in Pinger : u # t => pinger'[u] = pinger[u]
  BY IdleRecord, ThreadMoves DEF LookEnd
<1>2. UNCHANGED <<sockets, possible, servlet, queue, worker, adding, pongs, alive>>
  BY DEF LookEnd
<1>3. asked' \in BOOLEAN /\ (asked => asked') /\ (pinger[t].n = 0 => asked')
  BY <1>0 DEF LookEnd, TypeOK
<1>4. Somebody'
  BY <1>0, <1>1, <1>2, <1>3, SomebodyStays DEF Looker
<1> QED BY <1>0, <1>1, <1>2, <1>3, <1>4, PingInv DEF TypeOK

LEMMA WakeInv ==
  ASSUME Inv, NEW t \in Pinger, Wake(t)
  PROVE  Inv'
<1>0. TypeOK /\ pinger[t].pc = "sleep" /\ Record(pinger[t])
  BY ThreadsOK DEF Inv, Wake, Threads
<1>1. queue' \in Seq(Servlet)
  <2>1. pinger[t].s \in Servlet
    BY <1>0 DEF Record, PingerRecord
  <2> QED BY <1>0, <2>1, AppendProperties DEF Wake, TypeOK
<1>2. Threads' /\ \A u \in Pinger : u # t => pinger'[u] = pinger[u]
  BY IdleRecord, ThreadMoves DEF Wake
<1>3. UNCHANGED <<sockets, possible, servlet, worker, adding, pongs, alive, asked>>
  BY DEF Wake
<1>4. Somebody'
  BY <1>0, <1>2, <1>3, SomebodyStays DEF Looker
<1> QED BY <1>0, <1>1, <1>2, <1>3, <1>4, PingInv DEF TypeOK

LEMMA TickInv ==
  ASSUME Inv, Tick
  PROVE  Inv'
<1>0. TypeOK /\ Threads
  BY ThreadsOK DEF Inv
<1>1. UNCHANGED <<sockets, possible, queue, worker, adding, pongs, alive, asked>>
  BY DEF Tick
<1>2. /\ servlet' \in [Servlet -> ServletRecord]
      /\ \A x \in Servlet :
           servlet'[x].addr = servlet[x].addr /\ servlet'[x].via = servlet[x].via
  <2>1. ASSUME NEW limit \in Nat, NEW age \in 0..limit + 1
        PROVE  Older(age, limit) \in 0..limit + 1
    BY <2>1 DEF Older
  <2> DEFINE aged(x) == [servlet[x] EXCEPT !.pinged = Older(servlet[x].pinged, PingTime),
                                           !.ponged = Older(servlet[x].ponged, PongTime)]
  <2>2. ASSUME NEW x \in Servlet
        PROVE  /\ aged(x) \in ServletRecord
               /\ aged(x).addr = servlet[x].addr /\ aged(x).via = servlet[x].via
    <3>1. servlet[x] \in ServletRecord
      BY <1>0 DEF TypeOK
    <3>2. /\ Older(servlet[x].pinged, PingTime) \in 0..PingTime + 1
          /\ Older(servlet[x].ponged, PongTime) \in 0..PongTime + 1
      BY <2>1, <3>1, PeersAssumption DEF ServletRecord
    <3> QED BY <3>1, <3>2 DEF ServletRecord
  <2>3. servlet' = [x \in Servlet |-> aged(x)]
    BY DEF Tick
  <2> HIDE DEF aged
  <2> QED BY <2>2, <2>3
<1>3. /\ pinger' \in [Pinger -> PingerRecord] /\ Threads'
      /\ \A t \in Pinger : Looker(t) => Looker(t)'
  <2> DEFINE r(t) == IF pinger[t].pc = "sleep" /\ pinger[t].n > 0
                     THEN [pinger[t] EXCEPT !.n = pinger[t].n - 1] ELSE pinger[t]
  <2>1. ASSUME NEW t \in Pinger
        PROVE  Record(r(t)) /\ (pinger[t].pc # "sleep" => r(t) = pinger[t])
    <3>1. Record(pinger[t])
      BY <1>0 DEF Threads
    <3>2. CASE pinger[t].pc = "sleep" /\ pinger[t].n > 0
      BY <3>1, <3>2, PeersAssumption DEF Record, PingerRecord
    <3>3. CASE ~(pinger[t].pc = "sleep" /\ pinger[t].n > 0)
      BY <3>1, <3>3
    <3> QED BY <3>2, <3>3
  <2>2. pinger' = [t \in Pinger |-> r(t)]
    BY DEF Tick
  <2> HIDE DEF r
  <2>3. \A t \in Pinger : r(t) \in PingerRecord
    BY <2>1 DEF Record
  <2> QED BY <2>1, <2>2, <2>3 DEF Threads, Looker
<1>4. Somebody'
  BY <1>1, <1>3 DEF Inv, Somebody
<1> QED BY <1>0, <1>1, <1>2, <1>3, <1>4, PingInv DEF TypeOK

LEMMA WorldInv ==
  ASSUME Inv, NEW h \in Host, Lose(h) \/ Die(h)
  PROVE  Inv'
<1>1. Somebody' /\ Threads'
  BY ThreadsOK DEF Inv, Somebody, Looker, Threads, Lose, Die
<1> QED BY <1>1, PingInv DEF Inv, TypeOK, Lose, Die

(* The servlet is taken from the list, and made blank if nothing has it.   *)
LEMMA DropInv ==
  ASSUME Inv, NEW t \in Pinger, Drop(t)
  PROVE  Inv'
<1> DEFINE r == [IdlePinger EXCEPT !.pc = "count"]
           s == pinger[t].s
<1>0. TypeOK /\ sockets \in Seq(Servlet)
  BY DEF Inv, TypeOK
<1>1. /\ sockets' = RemoveFirst(sockets, s) /\ pinger' = [pinger EXCEPT ![t] = r]
      /\ servlet' = [servlet EXCEPT ![s] = IF s \in Free' THEN Blank ELSE servlet[s]]
      /\ UNCHANGED <<possible, queue, worker, adding, pongs, alive, asked>>
  BY <1>0 DEF Drop
<1>2. Record(r) /\ r.pc = "count"
  BY PeersAssumption DEF Record, IdlePinger, PingerRecord
<1> HIDE DEF r, s
<1>3. Threads' /\ pinger'[t] = r
  BY <1>1, <1>2, ThreadMoves
<1>4. /\ sockets' \in Seq(Servlet)
      /\ \A i \in 1..Len(sockets') : \E k \in 1..Len(sockets) : sockets'[i] = sockets[k]
  <2>1. sockets' = RemoveFirst(sockets, s)
    BY <1>1
  <2>2. sockets' \in Seq(Servlet)
    BY <1>0, <2>1, Removed
  <2>3. \A i \in 1..Len(sockets') : \E k \in 1..Len(sockets) : sockets'[i] = sockets[k]
    BY <1>0, <2>1, Removed
  <2> QED BY <2>2, <2>3
<1>5. servlet' \in [Servlet -> ServletRecord]
  <2>1. Blank \in ServletRecord
    BY PeersAssumption DEF Blank, ServletRecord
  <2> QED BY <2>1, <1>0, <1>1 DEF TypeOK
<1>6. \A x \in Servlet : x \notin Free' => servlet'[x] = servlet[x]
  BY <1>0, <1>1 DEF TypeOK
<1>7. /\ \A i \in 1..Len(sockets') : servlet'[sockets'[i]] = servlet[sockets'[i]]
      /\ \A i \in 1..Len(possible) : servlet'[possible[i]] = servlet[possible[i]]
  <2>1. \A i \in 1..Len(sockets') : sockets'[i] \in Servlet /\ sockets'[i] \in ToSet(sockets)'
    BY <1>4, ElementOfSeq, LenProperties DEF ToSet
  <2>2. \A i \in 1..Len(possible) : possible[i] \in Servlet /\ possible[i] \in ToSet(possible)'
    BY <1>0, <1>1, ElementOfSeq, LenProperties DEF ToSet, TypeOK
  <2> QED BY <1>6, <2>1, <2>2 DEF Free
<1>8. TypeOK' /\ NoneCounted'
  BY <1>0, <1>1, <1>3, <1>4, <1>5 DEF TypeOK, NoneCounted, Threads, Record
<1>9. Learnt' /\ Holder'
  BY <1>1, <1>7 DEF Inv, Learnt, Holder
<1>10. \A h : Unheard(h) => Unheard(h)'
  <2> SUFFICES ASSUME NEW h, Unheard(h), NEW i \in 1..Len(sockets'),
                      servlet'[sockets'[i]].addr = h
               PROVE  servlet'[sockets'[i]].via # "packet"
    BY DEF Unheard
  <2>1. PICK k \in 1..Len(sockets) : sockets'[i] = sockets[k]
    BY <1>4
  <2> QED BY <2>1, <1>7 DEF Unheard
<1>11. NotFound'
  BY <1>1, <1>10 DEF Inv, NotFound
<1>12. Heard'
  <2> SUFFICES ASSUME NEW i \in 1..Len(sockets'), NEW j \in 1..Len(sockets'),
                      servlet'[sockets'[i]].addr = servlet'[sockets'[j]].addr,
                      servlet'[sockets'[i]].via = "packet", servlet'[sockets'[j]].via = "packet",
                      i # j
               PROVE  FALSE
    BY DEF Heard
  <2>1. PICK k, m \in 1..Len(sockets) :
          k # m /\ sockets'[i] = sockets[k] /\ sockets'[j] = sockets[m]
    <3>1. sockets' = RemoveFirst(sockets, s)
      BY <1>1
    <3>2. sockets \in Seq(Servlet)
      BY <1>0
    <3>3. /\ RemoveFirst(sockets, s) \in Seq(Servlet)
          /\ \A x \in 1..Len(RemoveFirst(sockets, s)) :
               \E k \in 1..Len(sockets) : RemoveFirst(sockets, s)[x] = sockets[k]
          /\ \A x, y \in 1..Len(RemoveFirst(sockets, s)) : x # y =>
               \E k, m \in 1..Len(sockets) :
                 k # m /\ RemoveFirst(sockets, s)[x] = sockets[k]
                       /\ RemoveFirst(sockets, s)[y] = sockets[m]
      BY ONLY <3>2, Removed
    <3>4. i \in 1..Len(RemoveFirst(sockets, s)) /\ j \in 1..Len(RemoveFirst(sockets, s))
          /\ i # j
      BY <3>1
    <3>5. \E k, m \in 1..Len(sockets) :
            k # m /\ RemoveFirst(sockets, s)[i] = sockets[k]
                  /\ RemoveFirst(sockets, s)[j] = sockets[m]
      BY ONLY <3>3, <3>4
    <3> QED BY <3>1, <3>5
  <2> QED BY <2>1, <1>7 DEF Inv, Heard
<1>13. Somebody'
  BY <1>2, <1>3 DEF Somebody, Looker
<1> QED BY <1>8, <1>9, <1>11, <1>12, <1>13 DEF Inv

LEMMA LookInv ==
  ASSUME Inv, NEW t \in Pinger, Look(t)
  PROVE  Inv'
<1> DEFINE n == pinger[t].n
           r == [pinger[t] EXCEPT !.n = n + 1]
           s == possible[n + 1]
<1>0. /\ TypeOK /\ pinger[t].pc = "look" /\ Record(pinger[t])
      /\ n < Len(possible) /\ n <= LookLast
  BY ThreadsOK DEF Inv, Look, Threads
<1>1. n + 1 \in 1..Len(possible) /\ n \in Nat
  BY <1>0, LenProperties DEF Record, PingerRecord, TypeOK
<1>2. s \in Servlet /\ servlet[s].via = "reply"
  BY <1>0, <1>1, ElementOfSeq DEF TypeOK, Inv, Learnt
<1>3. Record(r)
  BY <1>0, <1>1, PeersAssumption DEF Record, PingerRecord
<1>4. /\ sockets' = Append(sockets, s) /\ queue' = Append(queue, s)
      /\ pinger' = [pinger EXCEPT ![t] = r]
      /\ UNCHANGED <<possible, servlet, worker, adding, pongs, alive, asked>>
  BY DEF Look, Startup
<1> HIDE DEF r, s
<1>5. Threads'
  BY <1>3, <1>4, ThreadMoves
<1>6. /\ sockets' \in Seq(Servlet) /\ sockets' # <<>> /\ Heard' /\ Learnt'
      /\ \A h : Unheard(h) => Unheard(h)'
  BY <1>2, <1>4, ListGrows
<1>7. queue' \in Seq(Servlet)
  BY <1>0, <1>2, <1>4, AppendProperties DEF TypeOK
<1>8. TypeOK' /\ NoneCounted'
  BY <1>0, <1>4, <1>5, <1>6, <1>7 DEF TypeOK, NoneCounted, Threads, Record
<1>9. Holder' /\ NotFound' /\ Somebody'
  BY <1>4, <1>6 DEF Inv, Holder, NotFound, Somebody
<1> QED BY <1>6, <1>8, <1>9 DEF Inv

(* The threads that handle packets.  Those of them that hold no servlet.   *)
Packet(r) ==
  /\ r \in WorkerRecord
  /\ r.from = None <=> r.pc = "idle"
  /\ r.pc \in {"learn", "learned"} => r.names # None

LEMMA WorkersOK ==
  ASSUME Inv, NEW w \in Worker
  PROVE  Packet(worker[w])
BY DEF Inv, TypeOK, Packet

LEMMA NoWork == Packet(IdleWorker) /\ IdleWorker.pc = "idle"
BY DEF Packet, IdleWorker, WorkerRecord

(* Steps of a thread that leave the list and the threads of pingers alone. *)
LEMMA PacketInv ==
  ASSUME Inv, NEW w \in Worker, NEW r, Packet(r), worker' = [worker EXCEPT ![w] = r],
         UNCHANGED <<sockets, pinger, asked>>, queue' \in Seq(Servlet),
         possible' \in Seq(Servlet), Learnt', Heard', servlet' \in [Servlet -> ServletRecord],
         \A h : Unheard(h) => Unheard(h)', pongs' \subseteq Host,
         alive' \in [Host -> BOOLEAN], adding' \in Worker \cup {None},
         r.pc = "added" => adding' = w /\ (r.found = None => Unheard(r.from)'),
         \A v \in Worker : v # w /\ worker[v].pc = "added" => adding' = v
  PROVE  Inv'
<1>1. worker' \in [Worker -> WorkerRecord] /\ worker'[w] = r
      /\ \A v \in Worker : v # w => worker'[v] = worker[v]
  BY DEF Inv, TypeOK, Packet
<1>2. TypeOK'
  BY <1>1 DEF Inv, TypeOK, Packet
<1>3. Holder'
  BY <1>1 DEF Inv, Holder
<1>4. NotFound'
  BY <1>1 DEF Inv, NotFound
<1>5. Somebody' /\ NoneCounted'
  BY DEF Inv, Somebody, NoneCounted, Looker
<1> QED BY <1>2, <1>3, <1>4, <1>5 DEF Inv

LEMMA SameLists ==
  ASSUME Inv, UNCHANGED <<sockets, possible, servlet>>
  PROVE  Heard' /\ Learnt' /\ \A h : Unheard(h) => Unheard(h)'
BY DEF Inv, Heard, Learnt, Unheard

LEMMA ArriveInv ==
  ASSUME Inv, NEW w \in Worker, NEW h \in Host, PongArrives(w, h) \/ PingArrives(w, h)
  PROVE  Inv'
<1>1. PICK names \in Host \cup {None} : Arrive(w, h, names)
  BY PeersAssumption DEF PongArrives, PingArrives
<1> DEFINE r == [pc |-> "add", from |-> h, names |-> names, found |-> None]
<1>2. Packet(r) /\ r.pc = "add"
  BY PeersAssumption DEF Packet, WorkerRecord
<1>3. /\ worker' = [worker EXCEPT ![w] = r]
      /\ UNCHANGED <<possible, servlet, sockets, queue, pinger, adding, alive, asked>>
  BY <1>1 DEF Arrive
<1> HIDE DEF r
<1>4. Heard' /\ Learnt' /\ \A g : Unheard(g) => Unheard(g)'
  BY <1>3, SameLists
<1>5. /\ pongs' \subseteq Host /\ adding' \in Worker \cup {None}
      /\ queue' \in Seq(Servlet) /\ possible' \in Seq(Servlet)
      /\ servlet' \in [Servlet -> ServletRecord] /\ alive' \in [Host -> BOOLEAN]
  BY <1>3 DEF Inv, TypeOK, PongArrives, PingArrives
<1>6. \A v \in Worker : v # w /\ worker[v].pc = "added" => adding' = v
  BY <1>3 DEF Inv, Holder
<1> QED BY <1>2, <1>3, <1>4, <1>5, <1>6, PacketInv

LEMMA AddFindInv ==
  ASSUME Inv, NEW w \in Worker, AddFind(w)
  PROVE  Inv'
<1>0. /\ TypeOK /\ Packet(worker[w]) /\ worker[w].pc = "add" /\ adding = None
      /\ sockets \in Seq(Servlet)
  BY WorkersOK DEF Inv, TypeOK, AddFind
<1>1. PICK f : f = First(sockets, worker[w].from)
  OBVIOUS
<1>2. \/ f = None /\ \A i \in 1..Len(sockets) : servlet[sockets[i]].addr # worker[w].from
      \/ \E i \in 1..Len(sockets) : f = sockets[i]
  BY <1>0, <1>1, FirstFound
<1>3. f \in Servlet \cup {None} /\ (f = None => Unheard(worker[w].from))
  BY <1>0, <1>2, ElementOfSeq, PeersAssumption DEF Unheard
<1>4. PICK r : r = [worker[w] EXCEPT !.pc = "added", !.found = f]
  OBVIOUS
<1>5. worker' = [worker EXCEPT ![w] = r] /\ adding' = w
  BY <1>0, <1>1, <1>4 DEF AddFind, Find, TypeOK
<1>6. r \in WorkerRecord /\ r.pc = "added" /\ r.from = worker[w].from /\ r.found = f
  BY <1>0, <1>3, <1>4 DEF Packet, WorkerRecord
<1>7. Packet(r)
  BY <1>0, <1>6 DEF Packet
<1>8. UNCHANGED <<sockets, possible, servlet, queue, pinger, pongs, alive, asked>>
  BY DEF AddFind
<1>9. Heard' /\ Learnt' /\ \A h : Unheard(h) => Unheard(h)'
  BY <1>8, SameLists
<1>10. \A v \in Worker : worker[v].pc # "added"
  BY <1>0, PeersAssumption DEF Inv, Holder
<1>11. /\ pongs' \subseteq Host /\ queue' \in Seq(Servlet) /\ possible' \in Seq(Servlet)
       /\ servlet' \in [Servlet -> ServletRecord] /\ alive' \in [Host -> BOOLEAN]
       /\ adding' \in Worker \cup {None}
  BY <1>0, <1>5, <1>8 DEF TypeOK
<1>12. adding' = w /\ (r.found = None => Unheard(r.from)')
  BY <1>3, <1>5, <1>6, <1>9
<1> QED BY <1>5, <1>7, <1>8, <1>9, <1>10, <1>11, <1>12, PacketInv

LEMMA LearnInv ==
  ASSUME Inv, NEW w \in Worker, LearnFind(w) \/ LearnAdd(w)
  PROVE  Inv'
<1>0. TypeOK /\ Packet(worker[w]) /\ worker[w].pc \in {"learn", "learned"}
  BY WorkersOK DEF Inv, LearnFind, LearnAdd
<1>1. \A v \in Worker : worker[v].pc = "added" => adding = v
  BY DEF Inv, Holder
<1>2. CASE LearnFind(w)
  <2>1. PICK r : worker' = [worker EXCEPT ![w] = r] /\ Packet(r) /\ r.pc # "added"
    <3> DEFINE r == [worker[w] EXCEPT !.pc = "learned"]
    <3>1. Packet(r) /\ r.pc = "learned"
      BY <1>0, PeersAssumption DEF Packet, WorkerRecord
    <3>2. worker' = [worker EXCEPT ![w] = r] \/ worker' = [worker EXCEPT ![w] = IdleWorker]
      BY <1>2 DEF LearnFind
    <3> HIDE DEF r
    <3> QED BY <3>1, <3>2, NoWork
  <2>2. UNCHANGED <<sockets, possible, servlet, queue, pinger, adding, pongs, alive, asked>>
    BY <1>2 DEF LearnFind
  <2>3. Heard' /\ Learnt' /\ \A g : Unheard(g) => Unheard(g)'
    BY <2>2, SameLists
  <2>4. /\ pongs' \subseteq Host /\ queue' \in Seq(Servlet) /\ possible' \in Seq(Servlet)
        /\ servlet' \in [Servlet -> ServletRecord] /\ alive' \in [Host -> BOOLEAN]
        /\ adding' \in Worker \cup {None}
    BY <1>0, <2>2 DEF TypeOK
  <2> QED BY <2>1, <2>2, <2>3, <2>4, <1>1, PacketInv
<1>3. CASE LearnAdd(w)
  <2>1. \E s \in Free : /\ servlet' = [servlet EXCEPT ![s] = New(worker[w].names, "reply")]
                         /\ possible' = Append(possible, s)
    BY <1>3, Zenon DEF LearnAdd
  <2>2. PICK h \in Host : h = worker[w].names
    BY <1>0 DEF Packet, WorkerRecord
  <2>3. PICK s \in Free : /\ servlet' = [servlet EXCEPT ![s] = New(h, "reply")]
                          /\ possible' = Append(possible, s)
    BY <2>1, <2>2
  <2>4. TypeOK /\ "reply" \in {"packet", "reply", "user"}
    BY <1>0
  <2>5. /\ s \in Servlet /\ servlet' \in [Servlet -> ServletRecord]
        /\ servlet'[s].via = "reply"
        /\ \A x \in Servlet : x # s => servlet'[x] = servlet[x]
        /\ s \notin ToSet(sockets) \cup ToSet(possible)
        /\ ToSet(sockets) \cup ToSet(possible) \subseteq Servlet
    BY <2>4, <2>3, NewRecord
  <2>6. /\ worker' = [worker EXCEPT ![w] = IdleWorker]
        /\ UNCHANGED <<sockets, queue, pinger, adding, pongs, alive, asked>>
    BY <1>3 DEF LearnAdd
  <2>7. /\ Len(possible) \in Nat /\ possible' \in Seq(Servlet)
        /\ Len(possible') = Len(possible) + 1
        /\ \A i \in 1..Len(possible) : possible'[i] = possible[i]
        /\ possible'[Len(possible) + 1] = s
    BY <1>0, <2>3, <2>5, AppendProperties, LenProperties DEF TypeOK
  <2>8. /\ \A i \in 1..Len(sockets) : servlet'[sockets[i]] = servlet[sockets[i]]
        /\ \A i \in 1..Len(possible) : servlet'[possible[i]] = servlet[possible[i]]
    <3>1. /\ \A i \in 1..Len(sockets) : sockets[i] \in ToSet(sockets)
          /\ \A i \in 1..Len(possible) : possible[i] \in ToSet(possible)
      BY <1>0, LenProperties DEF ToSet, TypeOK
    <3> QED BY <3>1, <2>5
  <2>9. Learnt'
    <3>1. \A i \in 1..Len(possible') : i \in 1..Len(possible) \/ i = Len(possible) + 1
      BY <2>7
    <3> QED BY <3>1, <2>5, <2>7, <2>8 DEF Inv, Learnt
  <2>10. Heard' /\ \A g : Unheard(g) => Unheard(g)'
    BY <2>6, <2>8 DEF Inv, Heard, Unheard
  <2>11. /\ pongs' \subseteq Host /\ queue' \in Seq(Servlet)
        /\ alive' \in [Host -> BOOLEAN] /\ adding' \in Worker \cup {None}
    BY <1>0, <2>6 DEF TypeOK
  <2> QED BY <2>5, <2>6, <2>7, <2>9, <2>10, <2>11, <1>1, NoWork, PacketInv
<1> QED BY <1>2, <1>3

(* The servlet that was not found is made, by the one thread that may.     *)
LEMMA AddFinishInv ==
  ASSUME Inv, NEW w \in Worker, AddFinish(w)
  PROVE  Inv'
<1>0. TypeOK /\ Packet(worker[w]) /\ worker[w].pc = "added" /\ worker[w].from \in Host
      /\ worker[w].found \in Servlet \cup {None}
  BY WorkersOK DEF Inv, AddFinish, Packet, WorkerRecord
<1>1. \A v \in Worker : v # w => worker[v].pc # "added"
  BY <1>0 DEF Inv, Holder
<1>2. PICK r : worker' = [worker EXCEPT ![w] = r] /\ Packet(r) /\ r.pc # "added"
  <2> DEFINE r == [worker[w] EXCEPT !.pc = "learn", !.found = None]
  <2>1. CASE worker[w].names = None
    <3>1. worker' = [worker EXCEPT ![w] = IdleWorker]
      BY <2>1 DEF AddFinish, Added
    <3> QED BY <3>1, NoWork
  <2>2. CASE worker[w].names # None
    <3>1. worker' = [worker EXCEPT ![w] = r]
      BY <2>2 DEF AddFinish, Added
    <3>2. /\ r \in WorkerRecord /\ r.pc = "learn" /\ r.from = worker[w].from
          /\ r.names = worker[w].names
      BY <1>0 DEF Packet, WorkerRecord
    <3> HIDE DEF r
    <3>3. Packet(r)
      BY <3>2, <2>2, <1>0 DEF Packet
    <3> QED BY <3>1, <3>2, <3>3
  <2> QED BY <2>1, <2>2
<1>3. UNCHANGED <<possible, pinger, pongs, alive, asked>> /\ adding' = None
  BY DEF AddFinish
<1>4. \/ /\ worker[w].found # None
         /\ servlet' = [servlet EXCEPT ![worker[w].found].ponged = 0]
         /\ UNCHANGED <<sockets, queue>>
      \/ /\ worker[w].found = None
         /\ \E new \in Free : /\ servlet' = [servlet EXCEPT ![new] = New(worker[w].from, "packet")]
                              /\ Startup(new)
  BY DEF AddFinish
<1>5. CASE /\ worker[w].found # None
           /\ servlet' = [servlet EXCEPT ![worker[w].found].ponged = 0]
           /\ UNCHANGED <<sockets, queue>>
  <2> DEFINE s == worker[w].found
             x == [servlet[s] EXCEPT !.ponged = 0]
  <2>1. servlet[s] \in ServletRecord /\ 0 \in 0..PongTime + 1 /\ s \in Servlet
    BY <1>0, <1>5, PeersAssumption DEF TypeOK
  <2>2. x \in ServletRecord /\ x.addr = servlet[s].addr /\ x.via = servlet[s].via
    BY <2>1 DEF ServletRecord
  <2>3. servlet' = [servlet EXCEPT ![s] = x]
    BY <1>5
  <2> HIDE DEF x, s
  <2>4. /\ servlet' \in [Servlet -> ServletRecord]
        /\ \A y \in Servlet : servlet'[y].addr = servlet[y].addr /\ servlet'[y].via = servlet[y].via
    BY <2>1, <2>2, <2>3, <1>0 DEF TypeOK
  <2>5. ToSet(sockets) \cup ToSet(possible) \subseteq Servlet
    BY <1>0, LenProperties, ElementOfSeq DEF TypeOK, ToSet
  <2>6. Heard' /\ Learnt' /\ \A h : Unheard(h) => Unheard(h)'
    BY <2>4, <2>5, <1>3, <1>5, ListsKept
  <2>7. /\ pongs' \subseteq Host /\ queue' \in Seq(Servlet) /\ possible' \in Seq(Servlet)
        /\ alive' \in [Host -> BOOLEAN] /\ adding' \in Worker \cup {None}
    BY <1>0, <1>3, <1>5 DEF TypeOK
  <2>8. UNCHANGED sockets
    BY <1>5
  <2> QED BY <2>4, <2>6, <2>7, <2>8, <1>1, <1>2, <1>3, PacketInv
<1>6. CASE /\ worker[w].found = None
           /\ \E new \in Free : /\ servlet' = [servlet EXCEPT ![new] = New(worker[w].from, "packet")]
                                /\ Startup(new)
  <2>1. PICK s \in Free : /\ servlet' = [servlet EXCEPT ![s] = New(worker[w].from, "packet")]
                          /\ sockets' = Append(sockets, s) /\ queue' = Append(queue, s)
    BY <1>6 DEF Startup
  <2>2. /\ s \in Servlet /\ servlet' \in [Servlet -> ServletRecord]
        /\ servlet'[s].addr = worker[w].from
        /\ \A x \in ToSet(sockets) \cup ToSet(possible) : servlet'[x] = servlet[x]
    BY <1>0, <2>1, NewRecord
  <2>3. Unheard(worker[w].from)
    BY <1>0, <1>6 DEF Inv, NotFound
  <2>4. sockets' \in Seq(Servlet) /\ sockets' # <<>> /\ Heard' /\ Learnt'
    BY <2>1, <2>2, <2>3, <1>3, ListGrows
  <2>5. queue' \in Seq(Servlet)
    BY <1>0, <2>1, <2>2, AppendProperties DEF TypeOK
  <2>6. worker' \in [Worker -> WorkerRecord] /\ \A v \in Worker : Packet(worker'[v])
    BY <1>0, <1>2, WorkersOK DEF TypeOK, Packet
  <2>7. \A v \in Worker : worker'[v].pc # "added"
    BY <1>0, <1>1, <1>2 DEF TypeOK
  <2>8. TypeOK'
    BY <1>0, <1>3, <2>2, <2>4, <2>5, <2>6 DEF TypeOK, Packet
  <2>9. Holder' /\ NotFound' /\ Somebody' /\ NoneCounted'
    BY <1>3, <2>4, <2>7 DEF Inv, Holder, NotFound, Somebody, NoneCounted
  <2> QED BY <2>4, <2>8, <2>9 DEF Inv
<1> QED BY <1>4, <1>5, <1>6

(* The steps that start a servlet, and those that leave the list and the   *)
(* queue alone, keep the pings and the list together.                      *)
Balanced(l, q, p) == \A s \in Servlet : Times(l, s) = Times(q, s) + Held(p, s)

LEMMA PingedBalanced ==
  /\ ListedArePinged <=> Balanced(sockets, queue, pinger)
  /\ ListedArePinged' <=> Balanced(sockets', queue', pinger')
BY DEF ListedArePinged, Balanced, Held

LEMMA StartupBalanced ==
  ASSUME NEW l \in Seq(Servlet), NEW q \in Seq(Servlet), NEW x \in Servlet,
         NEW p, NEW r, Balanced(l, q, p), \A t \in Pinger : r[t].s = p[t].s
  PROVE  Balanced(Append(l, x), Append(q, x), r)
<1> SUFFICES ASSUME NEW s \in Servlet
             PROVE  Times(Append(l, x), s) = Times(Append(q, x), s) + Held(r, s)
  BY DEF Balanced
<1>1. Times(l, s) \in Nat /\ Times(Append(l, x), s) = Times(l, s) + One(x, s)
  BY TimesAppend
<1>2. Times(q, s) \in Nat /\ Times(Append(q, x), s) = Times(q, s) + One(x, s)
  BY TimesAppend
<1>3. Held(r, s) = Held(p, s) /\ Held(p, s) \in Nat
  BY HeldSame, HeldType
<1>4. Times(l, s) = Times(q, s) + Held(p, s)
  BY DEF Balanced
<1>5. One(x, s) \in Nat
  BY DEF One
<1> QED BY <1>1, <1>2, <1>3, <1>4, <1>5

LEMMA StartupPinged ==
  ASSUME Inv, ListedArePinged, NEW x \in Servlet, Startup(x),
         \A t \in Pinger : pinger'[t].s = pinger[t].s
  PROVE  ListedArePinged'
<1>1. /\ sockets \in Seq(Servlet) /\ queue \in Seq(Servlet)
      /\ sockets' = Append(sockets, x) /\ queue' = Append(queue, x)
  BY DEF Inv, TypeOK, Startup
<1> QED BY <1>1, PingedBalanced, StartupBalanced

LEMMA StillPinged ==
  ASSUME ListedArePinged, UNCHANGED <<sockets, queue>>,
         \A t \in Pinger : pinger'[t].s = pinger[t].s
  PROVE  ListedArePinged'
<1>1. \A s \in Servlet : Held(pinger', s) = Held(pinger, s)
  BY HeldSame
<1> QED BY <1>1, PingedBalanced DEF Balanced

(* Taken from the queue by a thread, put back by it, or dropped by it.     *)
LEMMA TakePinged ==
  ASSUME Inv, ListedArePinged, NEW t \in Pinger, Take(t)
  PROVE  ListedArePinged'
<1> SUFFICES ASSUME NEW s \in Servlet
             PROVE  Times(sockets', s) = Times(queue', s) + Held(pinger', s)
  BY PingedBalanced DEF Balanced
<1>1. queue \in Seq(Servlet) /\ queue # <<>> /\ queue' = Tail(queue) /\ sockets' = sockets
  BY DEF Inv, TypeOK, Take
<1>2. Times(queue', s) \in Nat /\ Times(queue, s) = Times(queue', s) + One(Head(queue), s)
  BY <1>1, TimesTail
<1>3. pinger[t].s = None /\ pinger'[t].s = Head(queue)
      /\ OnlyMoves(pinger, pinger', t)
  BY DEF Inv, TypeOK, Take, OnlyMoves
<1>4. Held(pinger', s) + One(pinger[t].s, s) = Held(pinger, s) + One(pinger'[t].s, s)
  BY <1>3, HeldMove
<1>5. One(None, s) = 0 /\ One(Head(queue), s) \in Nat
  BY PeersAssumption DEF One
<1>6. Times(sockets, s) = Times(queue, s) + Held(pinger, s)
  BY PingedBalanced DEF Balanced
<1>7. Held(pinger, s) \in Nat /\ Held(pinger', s) \in Nat
  BY HeldType
<1> QED BY <1>1, <1>2, <1>3, <1>4, <1>5, <1>6, <1>7

LEMMA WakePinged ==
  ASSUME Inv, ListedArePinged, NEW t \in Pinger, Wake(t)
  PROVE  ListedArePinged'
<1> SUFFICES ASSUME NEW s \in Servlet
             PROVE  Times(sockets', s) = Times(queue', s) + Held(pinger', s)
  BY PingedBalanced DEF Balanced
<1>1. /\ queue \in Seq(Servlet) /\ queue' = Append(queue, pinger[t].s) /\ sockets' = sockets
      /\ pinger[t].s \in Servlet
  BY DEF Inv, TypeOK, Wake, PingerRecord
<1>2. /\ Times(queue, s) \in Nat
      /\ Times(queue', s) = Times(queue, s) + One(pinger[t].s, s)
  BY <1>1, TimesAppend
<1>3. pinger'[t].s = None /\ OnlyMoves(pinger, pinger', t)
  BY DEF Inv, TypeOK, Wake, IdlePinger, OnlyMoves
<1>4. Held(pinger', s) + One(pinger[t].s, s) = Held(pinger, s) + One(pinger'[t].s, s)
  BY <1>3, HeldMove
<1>5. One(None, s) = 0 /\ One(pinger[t].s, s) \in Nat
  BY PeersAssumption DEF One
<1>6. Times(sockets, s) = Times(queue, s) + Held(pinger, s)
  BY PingedBalanced DEF Balanced
<1>7. Held(pinger, s) \in Nat /\ Held(pinger', s) \in Nat
  BY HeldType
<1> QED BY <1>1, <1>2, <1>3, <1>4, <1>5, <1>6, <1>7

(* What is dropped is listed: the thread that has it counts for one time.  *)
LEMMA TimesNone ==
  ASSUME NEW S, NEW l \in Seq(S), NEW x, \A i \in 1..Len(l) : l[i] # x
  PROVE  Times(l, x) = 0
<1>1. {i \in DOMAIN l : l[i] = x} = {}
  BY LenProperties
<1> QED BY <1>1, FS_EmptySet DEF Times

LEMMA DropPinged ==
  ASSUME Inv, ListedArePinged, NEW t \in Pinger, Drop(t)
  PROVE  ListedArePinged'
<1>1. PICK x \in Servlet : x = pinger[t].s
  BY DEF Inv, TypeOK, Drop, PingerRecord
<1>2. /\ sockets \in Seq(Servlet) /\ queue \in Seq(Servlet)
      /\ queue' = queue /\ sockets' = RemoveFirst(sockets, x)
  BY <1>1 DEF Inv, TypeOK, Drop
<1>3. pinger'[t].s = None /\ OnlyMoves(pinger, pinger', t)
  BY DEF Inv, TypeOK, Drop, IdlePinger, OnlyMoves
<1>4. ASSUME NEW s \in Servlet
      PROVE  /\ Held(pinger, s) \in Nat /\ Held(pinger', s) \in Nat
             /\ Held(pinger', s) + One(x, s) = Held(pinger, s)
             /\ Times(queue, s) \in Nat
             /\ Times(sockets, s) = Times(queue, s) + Held(pinger, s)
  <2>1. One(None, s) = 0
    BY PeersAssumption DEF One
  <2>2. Held(pinger', s) + One(pinger[t].s, s) = Held(pinger, s) + One(pinger'[t].s, s)
    BY <1>3, HeldMove
  <2>3. Held(pinger, s) \in Nat /\ Held(pinger', s) \in Nat
    BY HeldType
  <2>4. Times(queue, s) \in Nat
    BY <1>2, TimesAppend
  <2>5. Times(sockets, s) = Times(queue, s) + Held(pinger, s)
    BY PingedBalanced DEF Balanced
  <2> QED BY <1>1, <1>3, <2>1, <2>2, <2>3, <2>4, <2>5
<1>5. \E i \in 1..Len(sockets) : sockets[i] = x
  <2> SUFFICES ASSUME \A i \in 1..Len(sockets) : sockets[i] # x PROVE FALSE
    OBVIOUS
  <2>1. Times(sockets, x) = 0
    BY <1>2, TimesNone
  <2>2. One(x, x) = 1
    BY DEF One
  <2> QED BY <2>1, <2>2, <1>4
<1>6. PICK l \in Seq(Servlet), n \in 1..Len(sockets) :
        sockets' = l /\ sockets[n] = x /\ Without(l, sockets, n)
  BY <1>2, <1>5, RemovedAt
<1> SUFFICES ASSUME NEW s \in Servlet
             PROVE  Times(sockets', s) = Times(queue', s) + Held(pinger', s)
  BY PingedBalanced DEF Balanced
<1>7. Times(l, s) \in Nat /\ Times(sockets, s) = Times(l, s) + One(x, s)
  BY <1>2, <1>6, TimesWithout
<1>8. One(x, s) \in Nat
  BY DEF One
<1>9. Times(l, s) = Times(queue, s) + Held(pinger', s)
  <2>1. /\ Held(pinger', s) \in Nat /\ Held(pinger', s) + One(x, s) = Held(pinger, s)
        /\ Times(queue, s) \in Nat
        /\ Times(sockets, s) = Times(queue, s) + Held(pinger, s)
    BY <1>4
  <2> QED BY ONLY <2>1, <1>7, <1>8
<1> QED BY <1>2, <1>6, <1>9

LEMMA StepPinged ==
  ASSUME Inv, ListedArePinged, [Next]_vars
  PROVE  ListedArePinged'
<1>1. ASSUME NEW h \in Host, Connect(h) \/ Die(h) \/ Lose(h)
      PROVE  ListedArePinged'
  <2>1. CASE Connect(h)
    BY <2>1, StartupPinged DEF Connect, Free
  <2> QED BY <1>1, <2>1, StillPinged DEF Die, Lose
<1>2. ASSUME NEW t \in Pinger, Ping(t)
      PROVE  ListedArePinged'
  <2>1. pinger \in [Pinger -> PingerRecord]
    BY DEF Inv, TypeOK
  <2>2. CASE Check(t) \/ Count(t) \/ LookEnd(t)
    <3>1. \A u \in Pinger : pinger'[u].s = pinger[u].s
      <4>1. Check(t) \/ Count(t) => \A u \in Pinger : pinger'[u].s = pinger[u].s
        <5>1. CASE Check(t)
          BY <2>1, <5>1 DEF Check
        <5>2. CASE Count(t)
          BY <2>1, <5>2 DEF Count
        <5> QED BY <5>1, <5>2
      <4>2. LookEnd(t) => \A u \in Pinger : pinger'[u].s = pinger[u].s
        BY <2>1 DEF LookEnd, IdlePinger, Inv, TypeOK
      <4> QED BY <2>2, <4>1, <4>2
    <3> QED BY <2>2, <3>1, StillPinged DEF Check, Count, LookEnd
  <2>3. CASE Look(t)
    <3>1. \A u \in Pinger : pinger'[u].s = pinger[u].s
      BY <2>1, <2>3 DEF Look
    <3>2. possible[pinger[t].n + 1] \in Servlet
      <4>1. pinger[t].n \in Nat /\ pinger[t].n < Len(possible) /\ possible \in Seq(Servlet)
        BY <2>1, <2>3 DEF Look, Inv, TypeOK, PingerRecord
      <4>2. pinger[t].n + 1 \in 1..Len(possible)
        BY <4>1, LenProperties
      <4> QED BY <4>1, <4>2, ElementOfSeq
    <3> QED BY <2>3, <3>1, <3>2, StartupPinged DEF Look
  <2> QED BY <1>2, <2>2, <2>3, TakePinged, WakePinged, DropPinged DEF Ping
<1>3. ASSUME NEW w \in Worker, Apply(w)
      PROVE  ListedArePinged'
  <2>1. CASE AddFinish(w)
    <3>1. UNCHANGED <<sockets, queue>> \/ \E x \in Servlet : Startup(x)
      BY <2>1 DEF AddFinish, Free
    <3>2. pinger' = pinger
      BY <2>1 DEF AddFinish
    <3> QED BY <3>1, <3>2, StillPinged, StartupPinged
  <2> QED BY <1>3, <2>1, StillPinged DEF Apply, AddFind, LearnFind, LearnAdd
<1>4. ASSUME NEW w \in Worker, NEW h \in Host, PongArrives(w, h) \/ PingArrives(w, h)
      PROVE  ListedArePinged'
  BY <1>4, StillPinged DEF PongArrives, PingArrives, Arrive
<1>5. CASE Tick
  <2>1. \A u \in Pinger : pinger'[u].s = pinger[u].s
    BY <1>5 DEF Tick, Inv, TypeOK, PingerRecord
  <2> QED BY <1>5, <2>1, StillPinged DEF Tick
<1>6. CASE UNCHANGED vars
  BY <1>6, StillPinged DEF vars
<1> QED BY <1>1, <1>2, <1>3, <1>4, <1>5, <1>6 DEF Next, Steps

LEMMA NextInv == Inv /\ [Next]_vars => Inv'
<1> SUFFICES ASSUME Inv, [Next]_vars PROVE Inv'
  OBVIOUS
<1>1. ASSUME NEW h \in Host, Connect(h) \/ Die(h) \/ Lose(h)
      PROVE  Inv'
  BY <1>1, ConnectInv, WorldInv
<1>2. ASSUME NEW t \in Pinger, Ping(t)
      PROVE  Inv'
  BY <1>2, TakeInv, CheckInv, DropInv, CountInv, LookInv, LookEndInv, WakeInv DEF Ping
<1>3. ASSUME NEW w \in Worker, Apply(w)
      PROVE  Inv'
  BY <1>3, AddFindInv, AddFinishInv, LearnInv DEF Apply
<1>4. ASSUME NEW w \in Worker, NEW h \in Host, PongArrives(w, h) \/ PingArrives(w, h)
      PROVE  Inv'
  BY <1>4, ArriveInv
<1>5. CASE Tick
  BY <1>5, TickInv
<1>6. CASE UNCHANGED vars
  BY <1>6 DEF vars, Inv, TypeOK, Holder, NotFound, Unheard, Learnt, Heard, Somebody, Looker,
              NoneCounted
<1> QED BY <1>1, <1>2, <1>3, <1>4, <1>5, <1>6 DEF Next, Steps

(* Every step keeps the invariant.                                         *)
LEMMA Invariance == Spec => []Inv
<1>1. Init => Inv
  BY InitInv
<1>2. Inv /\ [Next]_vars => Inv'
  BY NextInv
<1> QED BY <1>1, <1>2, PTL DEF Spec

(* The lists, records and threads keep their types: look_for_new_servers   *)
(* never starts more servers than its limit lets it.                       *)
THEOREM TypeCorrect == Spec => []TypeOK
<1>1. Inv => TypeOK
  BY DEF Inv
<1> QED BY <1>1, Invariance, PTL

(* check_add_server: packets of one host, however many threads handle them *)
(* at once, list the host once.                                            *)
THEOREM PacketsListOnce == Spec => []HeardOnce
<1>1. Inv => HeardOnce
  BY LenProperties DEF Inv, Heard, HeardOnce, TypeOK
<1> QED BY <1>1, Invariance, PTL

(* idle_pinger: whoever drops the last servlet, somebody looks for others  *)
(* or the user is asked.                                                   *)
THEOREM SomebodyLooks == Spec => []NeverStranded
<1>1. Inv => NeverStranded
  BY DEF Inv, Somebody, Looker, NeverStranded
<1> QED BY <1>1, Invariance, PTL

LEMMA InitPinged == Init => ListedArePinged
<1> SUFFICES ASSUME Init, NEW s \in Servlet
             PROVE  Times(sockets, s) = Times(queue, s) + Held(pinger, s)
  BY PingedBalanced DEF Balanced
<1>1. Times(sockets, s) = 0 /\ Times(queue, s) = 0
  <2>1. sockets = <<>> /\ queue = <<>>
    BY DEF Init
  <2>2. <<>> \in Seq(Servlet) /\ \A i \in 1..Len(<<>>) : <<>>[i] # s
    BY EmptySeq
  <2>3. Times(<<>>, s) = 0
    BY <2>2, TimesNone
  <2> QED BY <2>1, <2>3
<1>2. {t \in Pinger : pinger[t].s = s} = {}
  BY PeersAssumption DEF Init, IdlePinger
<1>3. Held(pinger, s) = 0
  BY <1>2, FS_EmptySet DEF Held
<1> QED BY <1>1, <1>3

(* idle_pinger: for every time a servlet is in the list there is one task  *)
(* that pings it, in the queue or in a thread's hands, and one for no      *)
(* other: none is lost between them, however many threads there are.       *)
THEOREM ListedPinged == Spec => []ListedArePinged
<1>1. Init => ListedArePinged
  BY InitPinged
<1>2. Inv /\ Inv' /\ ListedArePinged /\ [Next]_vars => ListedArePinged'
  BY StepPinged
<1> QED BY <1>1, <1>2, Invariance, PTL DEF Spec

-----------------------------------------------------------------------------
(* As many tasks as places in the list, counted over all servlets at once. *)
Tally ==
  Len(sockets) + Held(pinger, None) = Len(queue) + Cardinality(Pinger)

LEMMA TallyMoves ==
  ASSUME Tally, NEW t \in Pinger, OnlyMoves(pinger, pinger', t),
         Len(sockets) \in Nat, Len(queue) \in Nat,
         Len(sockets') \in Nat, Len(queue') \in Nat,
         Len(sockets') + Len(queue) + One(pinger'[t].s, None)
           = Len(sockets) + Len(queue') + One(pinger[t].s, None)
  PROVE  Tally'
<1>1. Held(pinger', None) + One(pinger[t].s, None)
        = Held(pinger, None) + One(pinger'[t].s, None)
  BY HeldMove
<1>2. Held(pinger, None) \in Nat /\ Held(pinger', None) \in Nat
  BY HeldType
<1>3. One(pinger[t].s, None) \in Nat /\ One(pinger'[t].s, None) \in Nat
  BY DEF One
<1>4. Cardinality(Pinger) \in Nat
  BY PeersAssumption, FS_CardinalityType
<1>5. Len(sockets) + Held(pinger, None) = Len(queue) + Cardinality(Pinger)
  BY DEF Tally
<1>6. Len(sockets') + Held(pinger', None) = Len(queue') + Cardinality(Pinger)
  <2>1. PICK l \in Nat, q \in Nat, k \in Nat, r \in Nat :
          l = Len(sockets) /\ q = Len(queue) /\ k = Len(sockets') /\ r = Len(queue')
    OBVIOUS
  <2>2. PICK a \in Nat, b \in Nat, c \in Nat, h \in Nat, g \in Nat :
          /\ a = One(pinger[t].s, None) /\ b = One(pinger'[t].s, None)
          /\ c = Cardinality(Pinger) /\ h = Held(pinger, None) /\ g = Held(pinger', None)
    BY <1>2, <1>3, <1>4
  <2>3. l + h = q + c
    BY <2>1, <2>2, <1>5
  <2>4. g + a = h + b
    BY <2>1, <2>2, <1>1
  <2>5. k + q + b = l + r + a
    BY <2>1, <2>2
  <2>6. k + g = r + c
    BY ONLY <2>3, <2>4, <2>5
  <2> QED BY <2>1, <2>2, <2>6
<1> QED BY <1>6 DEF Tally

LEMMA TallyStays ==
  ASSUME Inv, Tally, \A u \in Pinger : pinger'[u].s = pinger[u].s,
         \/ UNCHANGED <<sockets, queue>>
         \/ \E x \in Servlet : Startup(x)
  PROVE  Tally'
<1>1. Held(pinger', None) = Held(pinger, None) /\ Held(pinger, None) \in Nat
  BY HeldSame, HeldType
<1>2. /\ sockets \in Seq(Servlet) /\ queue \in Seq(Servlet)
      /\ Len(sockets) \in Nat /\ Len(queue) \in Nat /\ Cardinality(Pinger) \in Nat
  BY PeersAssumption, FS_CardinalityType, LenProperties DEF Inv, TypeOK
<1>3. CASE UNCHANGED <<sockets, queue>>
  BY <1>1, <1>3 DEF Tally
<1>4. CASE \E x \in Servlet : Startup(x)
  <2>1. PICK x \in Servlet : Startup(x)
    BY <1>4
  <2>2. Len(sockets') = Len(sockets) + 1 /\ Len(queue') = Len(queue) + 1
    BY <1>2, <2>1, AppendProperties DEF Startup
  <2>3. Len(sockets') + Held(pinger', None) = Len(queue') + Cardinality(Pinger)
    BY <1>1, <1>2, <2>2 DEF Tally
  <2> QED BY <2>3 DEF Tally
<1> QED BY <1>3, <1>4

(* What a thread has is listed, and what is listed waits or is with one.   *)
LEMMA HasListed ==
  ASSUME Inv, ListedArePinged, NEW t \in Pinger, pinger[t].s # None
  PROVE  \E i \in 1..Len(sockets) : sockets[i] = pinger[t].s
<1>1. PICK x \in Servlet : x = pinger[t].s
  BY DEF Inv, TypeOK, PingerRecord
<1>2. Times(sockets, x) = Times(queue, x) + Held(pinger, x)
  BY PingedBalanced DEF Balanced
<1>3. Times(queue, x) \in Nat
  BY TimesAppend DEF Inv, TypeOK
<1>4. Held(pinger, x) \in Nat /\ Held(pinger, x) # 0
  <2>1. {u \in Pinger : pinger[u].s = x} \in SUBSET Pinger
        /\ t \in {u \in Pinger : pinger[u].s = x}
    BY <1>1
  <2>2. IsFiniteSet({u \in Pinger : pinger[u].s = x})
        /\ {u \in Pinger : pinger[u].s = x} # {}
    BY ONLY <2>1, PeersAssumption, FS_Subset
  <2> QED BY ONLY <2>2, FS_EmptySet, FS_CardinalityType DEF Held
<1>5. Times(sockets, x) # 0
  BY <1>2, <1>3, <1>4
<1> QED BY <1>1, <1>5, TimesNone DEF Inv, TypeOK

LEMMA ListedHas ==
  ASSUME Inv, ListedArePinged, queue = <<>>, NEW i \in 1..Len(sockets)
  PROVE  \E t \in Pinger : pinger[t].s = sockets[i]
<1>1. PICK x \in Servlet : x = sockets[i]
  BY ElementOfSeq DEF Inv, TypeOK
<1>2. Times(sockets, x) = Times(queue, x) + Held(pinger, x)
  BY PingedBalanced DEF Balanced
<1>3. Times(queue, x) = 0
  <2>1. \A j \in 1..Len(queue) : queue[j] # x
    BY EmptySeq
  <2> QED BY <2>1, TimesNone DEF Inv, TypeOK
<1>4. Times(sockets, x) # 0
  <2> DEFINE P == {j \in DOMAIN sockets : sockets[j] = x}
  <2>1. P \in SUBSET (1..Len(sockets)) /\ P # {} /\ Len(sockets) \in Nat
    BY <1>1, LenProperties DEF Inv, TypeOK
  <2>2. IsFiniteSet(1..Len(sockets))
    BY <2>1, FS_Interval, 1 \in Int, Len(sockets) \in Int
  <2>3. IsFiniteSet(P)
    BY ONLY <2>1, <2>2, FS_Subset
  <2> HIDE DEF P
  <2>4. Cardinality(P) # 0
    BY ONLY <2>1, <2>3, FS_EmptySet
  <2> QED BY <2>4 DEF Times, P
<1>5. Held(pinger, x) # 0 
  BY <1>2, <1>3, <1>4, HeldType
<1>6. {u \in Pinger : pinger[u].s = x} # {}
  BY <1>5, FS_EmptySet DEF Held
<1> QED BY <1>1, <1>6

LEMMA StepTally ==
  ASSUME Inv, ListedArePinged, Tally, [Next]_vars
  PROVE  Tally'
<1>0. /\ sockets \in Seq(Servlet) /\ queue \in Seq(Servlet)
      /\ Len(sockets) \in Nat /\ Len(queue) \in Nat
      /\ pinger \in [Pinger -> PingerRecord]
  BY LenProperties DEF Inv, TypeOK
<1>1. ASSUME NEW h \in Host, Connect(h) \/ Die(h) \/ Lose(h)
      PROVE  Tally'
  <2>1. Connect(h) => \E x \in Servlet : Startup(x)
    BY DEF Connect, Free
  <2>2. UNCHANGED pinger
    BY <1>1 DEF Connect, Die, Lose
  <2>3. UNCHANGED <<sockets, queue>> \/ \E x \in Servlet : Startup(x)
    BY <1>1, <2>1 DEF Die, Lose
  <2> QED BY <2>2, <2>3, TallyStays
<1>2. ASSUME NEW t \in Pinger, Ping(t)
      PROVE  Tally'
  <2>1. CASE Take(t)
    <3>1. queue # <<>> /\ queue' = Tail(queue) /\ sockets' = sockets
          /\ pinger[t].s = None /\ pinger'[t].s = Head(queue)
          /\ OnlyMoves(pinger, pinger', t)
      BY <2>1 DEF Inv, TypeOK, Take, OnlyMoves
    <3>2. Len(queue') = Len(queue) - 1
      BY <1>0, <3>1, HeadTailProperties
    <3>3. Head(queue) # None
      BY <1>0, <3>1, HeadTailProperties, PeersAssumption
    <3>4. One(pinger'[t].s, None) = 0 /\ One(pinger[t].s, None) = 1
      BY <3>1, <3>3 DEF One
    <3>5. Len(queue') \in Nat /\ Len(sockets') = Len(sockets)
      BY <1>0, <3>1, HeadTailProperties, LenProperties
    <3> QED BY <1>0, <3>1, <3>2, <3>4, <3>5, TallyMoves
  <2>2. CASE Wake(t)
    <3>1. queue' = Append(queue, pinger[t].s) /\ sockets' = sockets
          /\ pinger[t].s \in Servlet /\ pinger'[t].s = None
          /\ OnlyMoves(pinger, pinger', t)
      BY <2>2 DEF Inv, TypeOK, Wake, IdlePinger, OnlyMoves, PingerRecord
    <3>2. Len(queue') = Len(queue) + 1
      BY <1>0, <3>1, AppendProperties
    <3>3. One(pinger'[t].s, None) = 1 /\ One(pinger[t].s, None) = 0
      BY <3>1, PeersAssumption DEF One
    <3>4. Len(sockets') = Len(sockets)
      BY <3>1
    <3> QED BY <1>0, <3>1, <3>2, <3>3, <3>4, TallyMoves
  <2>3. CASE Drop(t)
    <3>1. queue' = queue /\ sockets' = RemoveFirst(sockets, pinger[t].s)
          /\ pinger[t].s \in Servlet /\ pinger'[t].s = None
          /\ OnlyMoves(pinger, pinger', t)
      BY <2>3 DEF Inv, TypeOK, Drop, IdlePinger, OnlyMoves, PingerRecord
    <3>2. pinger[t].s # None
      BY <3>1, PeersAssumption
    <3>3. Len(sockets') \in Nat /\ Len(sockets') = Len(sockets) - 1
      <4>1. \E i \in 1..Len(sockets) : sockets[i] = pinger[t].s
        BY <3>2, HasListed
      <4>2. PICK n \in 1..Len(sockets) :
              Without(RemoveFirst(sockets, pinger[t].s), sockets, n)
        BY <1>0, <4>1, RemovedAt
      <4> QED BY <1>0, <3>1, <4>2 DEF Without
    <3>4. One(pinger'[t].s, None) = 1 /\ One(pinger[t].s, None) = 0
      BY <3>1, <3>2 DEF One
    <3>5. Len(queue') = Len(queue)
      BY <3>1
    <3> QED BY <1>0, <3>1, <3>3, <3>4, <3>5, TallyMoves
  <2>4. CASE Check(t)
    BY <1>0, <2>4, TallyStays DEF Check
  <2>5. CASE Count(t)
    BY <1>0, <2>5, TallyStays DEF Count
  <2>6. CASE LookEnd(t)
    <3>1. \A u \in Pinger : pinger'[u].s = pinger[u].s
      BY <2>6 DEF LookEnd, IdlePinger, Inv, TypeOK
    <3> QED BY <2>6, <3>1, TallyStays DEF LookEnd
  <2>7. CASE Look(t)
    <3>1. \A u \in Pinger : pinger'[u].s = pinger[u].s
      BY <1>0, <2>7 DEF Look
    <3>2. possible[pinger[t].n + 1] \in Servlet
      <4>1. pinger[t].n \in Nat /\ pinger[t].n < Len(possible) /\ possible \in Seq(Servlet)
        BY <1>0, <2>7 DEF Look, Inv, TypeOK, PingerRecord
      <4>2. pinger[t].n + 1 \in 1..Len(possible)
        BY <4>1, LenProperties
      <4> QED BY <4>1, <4>2, ElementOfSeq
    <3> QED BY <2>7, <3>1, <3>2, TallyStays DEF Look
  <2> QED BY <1>2, <2>1, <2>2, <2>3, <2>4, <2>5, <2>6, <2>7 DEF Ping
<1>3. ASSUME NEW w \in Worker, Apply(w)
      PROVE  Tally'
  <2>1. UNCHANGED <<sockets, queue>> \/ \E x \in Servlet : Startup(x)
    BY <1>3 DEF Apply, AddFind, AddFinish, LearnFind, LearnAdd, Free
  <2>2. UNCHANGED pinger
    BY <1>3 DEF Apply, AddFind, AddFinish, LearnFind, LearnAdd
  <2> QED BY <2>1, <2>2, TallyStays
<1>4. ASSUME NEW w \in Worker, NEW h \in Host, PongArrives(w, h) \/ PingArrives(w, h)
      PROVE  Tally'
  BY <1>4, TallyStays DEF PongArrives, PingArrives, Arrive
<1>5. CASE Tick
  <2>1. \A u \in Pinger : pinger'[u].s = pinger[u].s
    BY <1>5 DEF Tick, Inv, TypeOK, PingerRecord
  <2> QED BY <1>5, <2>1, TallyStays DEF Tick
<1>6. CASE UNCHANGED vars
  BY <1>6, TallyStays DEF vars
<1> QED BY <1>1, <1>2, <1>3, <1>4, <1>5, <1>6 DEF Next, Steps

(* A host's first servlet of the list is the one its packets refresh.      *)
IsFirst(s) == \E i \in 1..Len(sockets) :
  sockets[i] = s /\ \A j \in 1..i - 1 : servlet[sockets[j]].addr # servlet[s].addr

(* An answer that will refresh it is on its way.                           *)
Pending(s) ==
  \/ servlet[s].addr \in pongs
  \/ \E w \in Worker :
       /\ worker[w].from = servlet[s].addr
       /\ worker[w].pc = "add" \/ (worker[w].pc = "added" /\ worker[w].found = s)

Fresh(s) ==
  /\ servlet[s].ponged <= PongTime
  /\ servlet[s].pinged <= PingTime => Pending(s) \/ servlet[s].ponged <= servlet[s].pinged
  /\ \A t \in Pinger : pinger[t].s = s =>
       /\ pinger[t].pc # "drop"
       /\ pinger[t].pc = "check" => Pending(s) \/ servlet[s].ponged <= PingTime
       /\ pinger[t].pc = "sleep" => Pending(s) \/ servlet[s].ponged + pinger[t].n <= PongTime

Sure(s) == IsFirst(s) /\ alive[servlet[s].addr] /\ ~Possible(servlet[s].addr)

Timely == \A s \in Servlet : Sure(s) => Fresh(s)

(* The records that stay in a list keep their addresses.                   *)
Lists == ToSet(sockets) \cup ToSet(possible)

LEMMA InLists ==
  ASSUME Inv
  PROVE  /\ Lists \subseteq Servlet
         /\ \A i \in 1..Len(sockets) : sockets[i] \in Lists
         /\ \A i \in 1..Len(possible) : possible[i] \in Lists
         /\ DOMAIN sockets = 1..Len(sockets) /\ Len(sockets) \in Nat
         /\ DOMAIN possible = 1..Len(possible) /\ Len(possible) \in Nat
BY LenProperties, ElementOfSeq DEF Inv, TypeOK, ToSet, Lists

LEMMA InListsNext ==
  ASSUME Inv'
  PROVE  /\ \A i \in 1..Len(sockets') : sockets'[i] \in Lists'
         /\ \A i \in 1..Len(possible') : possible'[i] \in Lists'
         /\ DOMAIN possible' = 1..Len(possible') /\ Len(sockets') \in Nat
BY LenProperties, ElementOfSeq DEF Inv, TypeOK, ToSet, Lists

LEMMA NewElsewhere ==
  ASSUME Inv, NEW h \in Host, NEW who \in {"packet", "reply", "user"}, NEW x \in Free,
         servlet' = [servlet EXCEPT ![x] = New(h, who)]
  PROVE  /\ \A y \in Lists : y # x /\ servlet'[y] = servlet[y]
         /\ servlet'[x] = New(h, who)
         /\ x \in Servlet /\ \A t \in Pinger : pinger[t].s # x
BY DEF Inv, TypeOK, Free, Lists

LEMMA AddrKept ==
  ASSUME Inv, Inv', [Next]_vars, NEW y \in Lists, y \in Lists'
  PROVE  servlet'[y].addr = servlet[y].addr
<1>0. y \in Servlet /\ servlet \in [Servlet -> ServletRecord]
  BY InLists DEF Inv, TypeOK
<1>1. CASE UNCHANGED servlet
  BY <1>1
<1>2. ASSUME NEW h \in Host, NEW who \in {"packet", "reply", "user"}, NEW x \in Free,
             servlet' = [servlet EXCEPT ![x] = New(h, who)]
      PROVE  servlet'[y].addr = servlet[y].addr
  BY <1>2, NewElsewhere
<1>3. ASSUME NEW h \in Host, Connect(h)
      PROVE  servlet'[y].addr = servlet[y].addr
  BY <1>2, <1>3 DEF Connect
<1>4. ASSUME NEW t \in Pinger, Take(t)
      PROVE  servlet'[y].addr = servlet[y].addr
  BY <1>0, <1>4 DEF Take, ServletRecord
<1>5. ASSUME NEW t \in Pinger, Drop(t)
      PROVE  servlet'[y].addr = servlet[y].addr
  <2>1. y \notin Free'
    BY <1>0 DEF Free, Lists
  <2>2. servlet' = [servlet EXCEPT ![pinger[t].s] =
                      IF pinger[t].s \in Free' THEN Blank ELSE servlet[pinger[t].s]]
    BY <1>0, <1>5 DEF Drop
  <2> QED BY <1>0, <2>1, <2>2
<1>6. ASSUME NEW w \in Worker, AddFinish(w)
      PROVE  servlet'[y].addr = servlet[y].addr
  <2>1. worker[w].from \in Host
    BY <1>6, WorkersOK DEF AddFinish, Packet, WorkerRecord
  <2>2. CASE \E x \in Free : servlet' = [servlet EXCEPT ![x] = New(worker[w].from, "packet")]
    BY <1>2, <2>1, <2>2
  <2>3. CASE servlet' = [servlet EXCEPT ![worker[w].found].ponged = 0]
    BY <1>0, <2>3 DEF ServletRecord
  <2> QED BY <1>6, <2>2, <2>3 DEF AddFinish
<1>7. ASSUME NEW w \in Worker, LearnAdd(w)
      PROVE  servlet'[y].addr = servlet[y].addr
  <2>1. worker[w].names \in Host
    BY <1>7, WorkersOK DEF LearnAdd, Packet, WorkerRecord
  <2> QED BY <1>2, <1>7, <2>1 DEF LearnAdd
<1>8. CASE Tick
  BY <1>0, <1>8 DEF Tick, ServletRecord
<1> QED BY <1>1, <1>3, <1>4, <1>5, <1>6, <1>7, <1>8
        DEF Next, Steps, Ping, Apply, Check, Count, Look, LookEnd, Wake, AddFind, LearnFind,
            Die, Lose, PongArrives, PingArrives, Arrive, vars

(* What a possible server is, it stays; who died stays so.                 *)
LEMMA PossibleStays ==
  ASSUME Inv, Inv', [Next]_vars, NEW h, Possible(h)
  PROVE  Possible(h)'
<1>1. PICK i \in 1..Len(possible) : servlet[possible[i]].addr = h
  BY InLists DEF Possible
<1>2. i \in 1..Len(possible') /\ possible'[i] = possible[i]
  <2>1. UNCHANGED possible \/ \E x \in Servlet : possible' = Append(possible, x)
    BY DEF Next, Steps, Ping, Apply, Connect, Take, Check, Drop, Count, Look, LookEnd, Wake,
           AddFind, AddFinish, LearnFind, LearnAdd, Free, Die, Lose, PongArrives, PingArrives,
           Arrive, Tick, vars
  <2>2. CASE UNCHANGED possible
    BY <2>2
  <2>3. ASSUME NEW x \in Servlet, possible' = Append(possible, x)
        PROVE  i \in 1..Len(possible') /\ possible'[i] = possible[i]
    <3>1. possible \in Seq(Servlet) /\ Len(possible) \in Nat
      BY InLists DEF Inv, TypeOK
    <3>2. Len(possible') = Len(possible) + 1
          /\ \A j \in 1..Len(possible) : possible'[j] = possible[j]
      BY <2>3, <3>1, AppendProperties
    <3> QED BY <3>1, <3>2
  <2> QED BY <2>1, <2>2, <2>3
<1>3. possible[i] \in Lists /\ possible'[i] \in Lists' /\ i \in DOMAIN possible'
  BY <1>1, <1>2, InLists, InListsNext
<1>4. servlet'[possible'[i]].addr = h
  BY <1>1, <1>2, <1>3, AddrKept
<1> QED BY <1>3, <1>4 DEF Possible

LEMMA StaysDead ==
  ASSUME Inv, [Next]_vars, NEW h \in Host, alive'[h]
  PROVE  alive[h]
<1>1. UNCHANGED alive \/ \E g \in Host : alive' = [alive EXCEPT ![g] = FALSE]
  BY DEF Next, Steps, Ping, Apply, Connect, Take, Check, Drop, Count, Look, LookEnd, Wake,
         AddFind, AddFinish, LearnFind, LearnAdd, Die, Lose, PongArrives, PingArrives,
         Arrive, Tick, vars
<1> QED BY <1>1 DEF Inv, TypeOK

(* A servlet that is the first of its host was so before the step, unless  *)
(* the step listed it or dropped the one before it.                        *)
LEMMA SureBefore ==
  ASSUME Inv, Inv', [Next]_vars, NEW s \in Servlet, Sure(s)', IsFirst(s),
         servlet'[s].addr = servlet[s].addr
  PROVE  Sure(s)
<1>1. servlet[s].addr \in Host
  BY DEF Inv, TypeOK, ServletRecord
<1>2. ~Possible(servlet[s].addr)
  <2>1. PICK h : h = servlet[s].addr
    OBVIOUS
  <2>2. ~Possible(h)'
    BY <2>1 DEF Sure, Possible
  <2> QED BY <2>1, <2>2, PossibleStays
<1>3. alive'[servlet[s].addr]
  BY DEF Sure
<1> QED BY <1>1, <1>2, <1>3, StaysDead DEF Sure

LEMMA FirstStays ==
  ASSUME Inv, Inv', [Next]_vars, NEW s \in Servlet, IsFirst(s)',
         \/ UNCHANGED sockets
         \/ \E x \in Servlet : sockets' = Append(sockets, x) /\ x # s
  PROVE  IsFirst(s) /\ servlet'[s].addr = servlet[s].addr
<1>1. PICK i \in 1..Len(sockets') :
        sockets'[i] = s /\ \A j \in 1..i - 1 : servlet'[sockets'[j]].addr # servlet'[s].addr
  BY DEF IsFirst
<1>2. i \in 1..Len(sockets) /\ \A j \in 1..i : sockets'[j] = sockets[j]
  <2>1. sockets \in Seq(Servlet) /\ Len(sockets) \in Nat
    BY InLists DEF Inv, TypeOK
  <2>2. CASE UNCHANGED sockets
    BY <2>2
  <2>3. ASSUME NEW x \in Servlet, sockets' = Append(sockets, x), x # s
        PROVE  i \in 1..Len(sockets) /\ \A j \in 1..i : sockets'[j] = sockets[j]
    <3>1. /\ Len(sockets') = Len(sockets) + 1 /\ sockets'[Len(sockets) + 1] = x
          /\ \A j \in 1..Len(sockets) : sockets'[j] = sockets[j]
      BY <2>1, <2>3, AppendProperties
    <3>2. i # Len(sockets) + 1
      BY <1>1, <2>3, <3>1
    <3>3. i \in 1..Len(sockets)
      BY <2>1, <3>1, <3>2
    <3> QED BY <2>1, <3>1, <3>3
  <2> QED BY <2>2, <2>3
<1>3. \A j \in 1..i : j \in 1..Len(sockets) /\ sockets[j] \in Lists /\ sockets[j] \in Lists'
  <2>1. \A j \in 1..i : j \in 1..Len(sockets) /\ j \in 1..Len(sockets')
    BY <1>1, <1>2, InLists, InListsNext
  <2> QED BY <1>2, <2>1, InLists, InListsNext
<1>4. \A j \in 1..i : servlet'[sockets[j]].addr = servlet[sockets[j]].addr
  BY <1>3, AddrKept
<1>5. i \in 1..i /\ sockets[i] = s /\ \A j \in 1..i - 1 : j \in 1..i
  BY <1>1, <1>2, InLists
<1>6. servlet'[s].addr = servlet[s].addr
  BY <1>4, <1>5
<1>7. \A j \in 1..i - 1 : servlet[sockets[j]].addr # servlet[s].addr
  BY <1>1, <1>2, <1>4, <1>5, <1>6
<1> QED BY <1>2, <1>5, <1>6, <1>7 DEF IsFirst

(* check_add_server finds it.                                              *)
LEMMA FirstIsFound ==
  ASSUME Inv, NEW s \in Servlet, IsFirst(s)
  PROVE  First(sockets, servlet[s].addr) = s
<1>1. PICK i \in 1..Len(sockets) :
        sockets[i] = s /\ \A j \in 1..i - 1 : servlet[sockets[j]].addr # servlet[s].addr
  BY DEF IsFirst
<1>2. sockets \in Seq(Servlet)
  BY DEF Inv, TypeOK
<1>3. PICK k \in 1..Len(sockets) :
        /\ First(sockets, servlet[s].addr) = sockets[k]
        /\ servlet[sockets[k]].addr = servlet[s].addr
        /\ \A j \in 1..k - 1 : servlet[sockets[j]].addr # servlet[s].addr
  BY <1>1, <1>2, FirstFound
<1>4. ~(i \in 1..k - 1) /\ ~(k \in 1..i - 1)
  BY <1>1, <1>3
<1>5. i = k
  BY <1>4, InLists
<1> QED BY <1>1, <1>3, <1>5

(* The code: PING_TIME 5, PONG_TIME 30, sleep(4).                          *)
TimesFit == PingTime + SleepTime <= PongTime

(* Steps that leave a servlet's ages alone, and lose no answer.            *)
LEMMA FreshStays ==
  ASSUME NEW s \in Servlet, Fresh(s), servlet'[s] = servlet[s],
         Pending(s) => Pending(s)',
         \A t \in Pinger : pinger'[t].s = s => pinger'[t] = pinger[t]
  PROVE  Fresh(s)'
BY DEF Fresh

LEMMA PendingStays ==
  ASSUME NEW s \in Servlet, Pending(s), servlet'[s].addr = servlet[s].addr,
         servlet[s].addr \in pongs => servlet[s].addr \in pongs',
         \A w \in Worker : worker[w].pc \in {"add", "added"} => worker'[w] = worker[w]
  PROVE  Pending(s)'
BY DEF Pending

LEMMA Numbers ==
  ASSUME Inv, NEW s \in Servlet
  PROVE  /\ PingTime \in Nat /\ PongTime \in Nat /\ SleepTime \in Nat
         /\ servlet[s].pinged \in Nat /\ servlet[s].ponged \in Nat
         /\ servlet[s].addr \in Host
         /\ servlet \in [Servlet -> ServletRecord] /\ pinger \in [Pinger -> PingerRecord]
         /\ worker \in [Worker -> WorkerRecord]
         /\ \A t \in Pinger : pinger[t].n \in Nat
         /\ \A t \in Pinger : pinger[t].pc = "sleep" => pinger[t].n <= SleepTime
         /\ None \notin Servlet
<1>1. /\ servlet \in [Servlet -> ServletRecord] /\ pinger \in [Pinger -> PingerRecord]
      /\ worker \in [Worker -> WorkerRecord]
  BY DEF Inv, TypeOK
<1>2. PingTime \in Nat /\ PongTime \in Nat /\ SleepTime \in Nat /\ None \notin Servlet
  BY PeersAssumption
<1>3. /\ servlet[s].pinged \in Nat /\ servlet[s].ponged \in Nat
      /\ servlet[s].addr \in Host
  BY <1>1, <1>2 DEF ServletRecord
<1>4. \A t \in Pinger : pinger[t].n \in Nat
  BY <1>1 DEF PingerRecord
<1>5. \A t \in Pinger : pinger[t].pc = "sleep" => pinger[t].n <= SleepTime
  BY DEF Inv, TypeOK
<1> QED BY <1>1, <1>2, <1>3, <1>4, <1>5

(* A servlet that starts.                                                  *)
LEMMA NewFresh ==
  ASSUME Inv, NEW h \in Host, NEW who \in {"packet", "reply", "user"}, NEW x \in Free,
         servlet' = [servlet EXCEPT ![x] = New(h, who)], UNCHANGED pinger
  PROVE  Fresh(x)'
<1>1. servlet'[x].pinged = PingTime + 1 /\ servlet'[x].ponged = 0
      /\ \A t \in Pinger : pinger'[t].s # x
  <2>1. servlet'[x] = New(h, who) /\ \A t \in Pinger : pinger[t].s # x
    BY DEF Inv, TypeOK, Free
  <2> QED BY <2>1 DEF New
<1>2. 0 <= PongTime /\ ~(PingTime + 1 <= PingTime)
  BY PeersAssumption
<1> QED BY <1>1, <1>2 DEF Fresh

LEMMA StartFresh ==
  ASSUME Inv, NEW h \in Host, NEW who \in {"packet", "user"}, NEW x \in Free,
         servlet' = [servlet EXCEPT ![x] = New(h, who)], Startup(x), UNCHANGED pinger,
         Inv', [Next]_vars, Timely,
         \A s \in Servlet : Pending(s) /\ servlet'[s] = servlet[s] => Pending(s)',
         NEW s \in Servlet, Sure(s)'
  PROVE  Fresh(s)'
<1>1. CASE s = x
  BY <1>1, NewFresh
<1>2. CASE s # x
  <2>1. sockets' = Append(sockets, x) /\ x \in Servlet
    BY DEF Startup, Free
  <2>2. IsFirst(s) /\ servlet'[s].addr = servlet[s].addr
    BY <1>2, <2>1, FirstStays DEF Sure
  <2>3. Fresh(s)
    BY <2>2, SureBefore DEF Timely
  <2>4. servlet'[s] = servlet[s]
    BY <1>2, Numbers
  <2> QED BY <2>3, <2>4, FreshStays
<1> QED BY <1>1, <1>2

LEMMA ConnectFresh ==
  ASSUME Inv, Inv', [Next]_vars, Timely, NEW h \in Host, Connect(h), NEW s \in Servlet, Sure(s)'
  PROVE  Fresh(s)'
<1>1. PICK x \in Free : servlet' = [servlet EXCEPT ![x] = New(h, "user")] /\ Startup(x)
  BY DEF Connect
<1>2. UNCHANGED <<pinger, worker, pongs>>
  BY DEF Connect
<1>3. \A y \in Servlet : Pending(y) /\ servlet'[y] = servlet[y] => Pending(y)'
  BY <1>2 DEF Pending
<1> QED BY <1>1, <1>2, <1>3, StartFresh

(* Steps that list nothing.                                                *)
LEMMA WasFresh ==
  ASSUME Inv, Inv', [Next]_vars, Timely, UNCHANGED sockets, NEW s \in Servlet, Sure(s)'
  PROVE  Sure(s) /\ Fresh(s) /\ IsFirst(s)
BY FirstStays, SureBefore DEF Timely, Sure

LEMMA TakeFresh ==
  ASSUME Inv, Inv', [Next]_vars, Timely, NEW t \in Pinger, Take(t), NEW s \in Servlet, Sure(s)'
  PROVE  Fresh(s)'
<1> DEFINE x == Head(queue)
           due == servlet[x].pinged > PingTime
<1>1. /\ UNCHANGED <<sockets, worker, alive>>
      /\ pinger' = [pinger EXCEPT ![t] = [pc |-> "check", s |-> x, n |-> 0]]
      /\ servlet' = IF due THEN [servlet EXCEPT ![x].pinged = 0] ELSE servlet
      /\ pongs' = IF due /\ alive[servlet[x].addr] THEN pongs \cup {servlet[x].addr} ELSE pongs
  BY DEF Take
<1>2. Sure(s) /\ Fresh(s)
  BY <1>1, WasFresh
<1>3. servlet'[s].addr = servlet[s].addr /\ servlet'[s].ponged = servlet[s].ponged
  BY <1>1, Numbers DEF ServletRecord
<1>4. Pending(s) => Pending(s)'
  BY <1>1, <1>3, PendingStays
<1>5. pinger'[t].pc = "check" /\ pinger'[t].s = x
      /\ \A u \in Pinger : u # t => pinger'[u] = pinger[u]
  BY <1>1, Numbers
<1>6. CASE x # s
  <2>1. servlet'[s] = servlet[s]
    BY <1>1, <1>6, Numbers
  <2> QED BY <1>2, <1>4, <1>5, <1>6, <2>1, FreshStays
<1>7. CASE x = s /\ due
  <2>1. Pending(s)'
    <3>1. servlet'[s].addr \in pongs'
      BY <1>1, <1>2, <1>3, <1>7 DEF Sure
    <3> QED BY <3>1 DEF Pending
  <2>2. servlet'[s].ponged <= PongTime
    BY <1>2, <1>3 DEF Fresh
  <2>3. \A u \in Pinger : pinger'[u].s = s => pinger'[u].pc # "drop"
    BY <1>2, <1>5 DEF Fresh
  <2> QED BY <2>1, <2>2, <2>3 DEF Fresh
<1>8. CASE x = s /\ ~due
  <2>1. servlet'[s] = servlet[s] /\ servlet[s].pinged <= PingTime
    BY <1>1, <1>8, Numbers
  <2>2. Pending(s) \/ servlet[s].ponged <= PingTime
    BY <1>2, <2>1, Numbers DEF Fresh
  <2>3. ASSUME NEW u \in Pinger, pinger'[u].s = s
        PROVE  /\ pinger'[u].pc # "drop"
               /\ pinger'[u].pc = "check" => Pending(s)' \/ servlet'[s].ponged <= PingTime
               /\ pinger'[u].pc = "sleep" =>
                    Pending(s)' \/ servlet'[s].ponged + pinger'[u].n <= PongTime
    BY <1>2, <1>4, <1>5, <2>1, <2>2, <2>3 DEF Fresh
  <2>4. servlet'[s].ponged <= PongTime
    BY <1>2, <2>1 DEF Fresh
  <2>5. servlet'[s].pinged <= PingTime =>
          Pending(s)' \/ servlet'[s].ponged <= servlet'[s].pinged
    BY <1>2, <1>4, <2>1 DEF Fresh
  <2> QED BY <2>3, <2>4, <2>5 DEF Fresh
<1> QED BY <1>6, <1>7, <1>8

LEMMA CheckFresh ==
  ASSUME Inv, Inv', [Next]_vars, Timely, TimesFit, NEW t \in Pinger, Check(t),
         NEW s \in Servlet, Sure(s)'
  PROVE  Fresh(s)'
<1>1. /\ UNCHANGED <<sockets, servlet, worker, pongs>> /\ pinger[t].pc = "check"
      /\ pinger' = IF Overdue(pinger[t].s)
                   THEN [pinger EXCEPT ![t].pc = "drop"]
                   ELSE [pinger EXCEPT ![t].pc = "sleep", ![t].n = SleepTime]
  BY DEF Check
<1>2. Fresh(s)
  BY <1>1, WasFresh
<1>3. Pending(s) <=> Pending(s)'
  BY <1>1 DEF Pending
<1>4. \A u \in Pinger : u # t => pinger'[u] = pinger[u]
  BY <1>1, Numbers
<1>5. CASE pinger[t].s # s
  <2>1. pinger'[t].s = pinger[t].s
    BY <1>1, Numbers DEF PingerRecord
  <2> QED BY <1>1, <1>2, <1>3, <1>4, <1>5, <2>1, FreshStays
<1>6. CASE pinger[t].s = s
  <2>1. ~Overdue(s)
    BY <1>2, Numbers DEF Fresh, Overdue
  <2>2. pinger'[t].pc = "sleep" /\ pinger'[t].n = SleepTime
    BY <1>1, <1>6, <2>1, Numbers DEF PingerRecord
  <2>3. Pending(s) \/ servlet[s].ponged <= PingTime
    BY <1>1, <1>2, <1>6 DEF Fresh
  <2>4. Pending(s)' \/ servlet'[s].ponged + pinger'[t].n <= PongTime
    BY <1>1, <1>3, <2>2, <2>3, Numbers DEF TimesFit
  <2>5. ASSUME NEW u \in Pinger, pinger'[u].s = s
        PROVE  /\ pinger'[u].pc # "drop"
               /\ pinger'[u].pc = "check" => Pending(s)' \/ servlet'[s].ponged <= PingTime
               /\ pinger'[u].pc = "sleep" =>
                    Pending(s)' \/ servlet'[s].ponged + pinger'[u].n <= PongTime
    <3>1. CASE u = t
      BY <2>2, <2>4, <3>1
    <3>2. CASE u # t
      BY <1>1, <1>2, <1>3, <1>4, <2>5, <3>2 DEF Fresh
    <3> QED BY <3>1, <3>2
  <2> QED BY <1>1, <1>2, <1>3, <2>5 DEF Fresh
<1> QED BY <1>5, <1>6

LEMMA IdleFresh ==
  ASSUME Inv, Inv', [Next]_vars, Timely, NEW t \in Pinger, Count(t) \/ LookEnd(t) \/ Wake(t),
         NEW s \in Servlet, Sure(s)'
  PROVE  Fresh(s)'
<1>1. UNCHANGED <<sockets, servlet, worker, pongs>>
  BY DEF Count, LookEnd, Wake
<1>2. Fresh(s)
  BY <1>1, WasFresh
<1>3. Pending(s) => Pending(s)'
  BY <1>1 DEF Pending
<1>4. pinger'[t].s # s /\ \A u \in Pinger : u # t => pinger'[u] = pinger[u]
  <2>1. CASE Count(t)
    <3>1. pinger[t].s = None
      BY <2>1 DEF Inv, TypeOK, Count
    <3> QED BY <2>1, <3>1, Numbers DEF Count, PingerRecord
  <2>2. CASE LookEnd(t) \/ Wake(t)
    BY <2>2, Numbers DEF LookEnd, Wake, IdlePinger
  <2> QED BY <2>1, <2>2
<1> QED BY <1>1, <1>2, <1>3, <1>4, FreshStays

LEMMA LookFresh ==
  ASSUME Inv, Inv', [Next]_vars, Timely, NEW t \in Pinger, Look(t), NEW s \in Servlet, Sure(s)'
  PROVE  Fresh(s)'
<1> DEFINE k == pinger[t].n + 1
           x == possible[k]
<1>1. /\ UNCHANGED <<possible, servlet, worker, pongs>> /\ sockets' = Append(sockets, x)
      /\ pinger' = [pinger EXCEPT ![t].n = k] /\ pinger[t].pc = "look"
      /\ pinger[t].n < Len(possible)
  BY DEF Look, Startup
<1>2. k \in 1..Len(possible) /\ x \in Servlet
  <2>1. k \in 1..Len(possible)
    BY <1>1, Numbers, InLists
  <2> QED BY <2>1, InLists
<1>3. Possible(servlet[x].addr)
  BY <1>2, InLists DEF Possible
<1>4. x # s
  BY <1>1, <1>3 DEF Sure, Possible
<1>5. IsFirst(s) /\ servlet'[s].addr = servlet[s].addr
  BY <1>1, <1>2, <1>4, FirstStays DEF Sure
<1>6. Fresh(s)
  BY <1>5, SureBefore DEF Timely
<1>7. Pending(s) => Pending(s)'
  BY <1>1 DEF Pending
<1>8. pinger'[t].s # s /\ \A u \in Pinger : u # t => pinger'[u] = pinger[u]
  <2>1. pinger[t].s = None
    BY <1>1 DEF Inv, TypeOK
  <2> QED BY <1>1, <2>1, Numbers DEF PingerRecord
<1> QED BY <1>1, <1>6, <1>7, <1>8, FreshStays

(* What is dropped is no host's first, so the first of the rest was first. *)
LEMMA DropFresh ==
  ASSUME Inv, Inv', [Next]_vars, Timely, ListedArePinged, NEW t \in Pinger, Drop(t),
         NEW s \in Servlet, Sure(s)'
  PROVE  Fresh(s)'
<1>1. PICK x \in Servlet : x = pinger[t].s
  BY DEF Inv, TypeOK, Drop, PingerRecord
<1>2. /\ sockets' = RemoveFirst(sockets, x) /\ pinger[t].pc = "drop"
      /\ pinger' = [pinger EXCEPT ![t] = [IdlePinger EXCEPT !.pc = "count"]]
      /\ servlet' = [servlet EXCEPT ![x] = IF x \in Free' THEN Blank ELSE servlet[x]]
      /\ UNCHANGED <<possible, queue, worker, adding, pongs, alive, asked>>
  BY <1>1 DEF Drop
<1>3. \E i \in 1..Len(sockets) : sockets[i] = x
  <2>1. pinger[t].s # None
    BY <1>1, Numbers
  <2> QED BY <1>1, <2>1, HasListed
<1>4. PICK n \in 1..Len(sockets) : sockets[n] = x /\ Without(sockets', sockets, n)
  <2>1. sockets \in Seq(Servlet)
    BY DEF Inv, TypeOK
  <2> QED BY <1>2, <1>3, <2>1, RemovedAt
<1>5. PICK i \in 1..Len(sockets') :
        sockets'[i] = s /\ \A j \in 1..i - 1 : servlet'[sockets'[j]].addr # servlet'[s].addr
  BY DEF Sure, IsFirst
<1> DEFINE p(j) == IF j < n THEN j ELSE j + 1
<1>6. \A j \in 1..i : /\ j \in 1..Len(sockets') /\ p(j) \in 1..Len(sockets)
                      /\ sockets'[j] = sockets[p(j)]
  <2>1. /\ Len(sockets') = Len(sockets) - 1 /\ Len(sockets) \in Nat
        /\ \A j \in 1..Len(sockets) - 1 : sockets'[j] = sockets[p(j)]
    BY <1>4, InLists DEF Without
  <2>2. \A j \in 1..i : j \in 1..Len(sockets) - 1
    BY <1>5, <2>1
  <2> QED BY <2>1, <2>2
<1>7. \A j \in 1..i : servlet'[sockets'[j]].addr = servlet[sockets'[j]].addr
  BY <1>6, InLists, InListsNext, AddrKept
<1>8. \A j \in 1..i : servlet'[sockets'[j]] = servlet[sockets'[j]]
  <2> SUFFICES ASSUME NEW j \in 1..i
               PROVE  servlet'[sockets'[j]] = servlet[sockets'[j]]
    OBVIOUS
  <2>1. sockets'[j] \in Servlet /\ sockets'[j] \in Lists'
    BY <1>6, InLists, InListsNext
  <2>2. sockets'[j] \notin Free'
    BY <2>1 DEF Lists, Free
  <2> QED BY <1>2, <2>1, <2>2, Numbers
<1>9. i \in 1..i /\ servlet'[s] = servlet[s]
  <2>1. i \in 1..i
    BY <1>5, InListsNext
  <2> QED BY <1>5, <1>8, <2>1
<1>10. \A j \in 1..i - 1 : servlet[sockets[p(j)]].addr # servlet[s].addr
  <2> SUFFICES ASSUME NEW j \in 1..i - 1
               PROVE  servlet[sockets[p(j)]].addr # servlet[s].addr
    OBVIOUS
  <2>1. j \in 1..i
    BY <1>5, InListsNext
  <2>2. sockets'[j] = sockets[p(j)] /\ servlet'[sockets'[j]] = servlet[sockets'[j]]
    BY <1>6, <1>8, <2>1
  <2> QED BY <1>5, <1>9, <2>2
<1>11. alive[servlet[s].addr] /\ ~Possible(servlet[s].addr)
  <2>1. PICK h : h = servlet[s].addr
    OBVIOUS
  <2>2. ~Possible(h)' /\ alive'[h]
    BY <1>9, <2>1 DEF Sure, Possible
  <2> QED BY <1>2, <2>1, <2>2, PossibleStays
<1>12. IsFirst(s)
  <2>1. CASE i < n
    <3>1. i \in 1..Len(sockets) /\ sockets[i] = s
      BY <1>5, <1>6, <1>9, <2>1
    <3>2. \A j \in 1..i - 1 : j < n
      BY <1>5, <2>1, InListsNext
    <3>3. \A j \in 1..i - 1 : servlet[sockets[j]].addr # servlet[s].addr
      BY <1>10, <3>2
    <3> QED BY <3>1, <3>3 DEF IsFirst
  <2>2. CASE ~(i < n) /\ servlet[x].addr # servlet[s].addr
    <3>1. i + 1 \in 1..Len(sockets) /\ sockets[i + 1] = s
      BY <1>5, <1>6, <1>9, <2>2
    <3>2. ASSUME NEW m \in 1..(i + 1) - 1
          PROVE  servlet[sockets[m]].addr # servlet[s].addr
      <4>1. CASE m < n
        <5>1. m \in 1..i - 1 /\ p(m) = m
          BY <1>5, <2>2, <4>1, InListsNext
        <5> QED BY <1>10, <5>1
      <4>2. CASE m = n
        BY <1>4, <2>2, <4>2
      <4>3. CASE m > n
        <5>1. m - 1 \in 1..i - 1 /\ p(m - 1) = m
          BY <1>5, <2>2, <4>3, InListsNext
        <5> QED BY <1>10, <5>1
      <4> QED BY <4>1, <4>2, <4>3
    <3> QED BY <3>1, <3>2 DEF IsFirst
  <2>3. CASE ~(i < n) /\ servlet[x].addr = servlet[s].addr
    <3>1. \A j \in 1..n - 1 : j \in 1..i - 1 /\ p(j) = j
      BY <1>5, <2>3, InListsNext
    <3>2. \A j \in 1..n - 1 : servlet[sockets[j]].addr # servlet[x].addr
      BY <1>10, <2>3, <3>1
    <3>3. Sure(x)
      BY <1>4, <1>11, <2>3, <3>2 DEF Sure, IsFirst
    <3>4. Fresh(x)
      BY <3>3 DEF Timely
    <3> QED BY <1>1, <1>2, <3>4 DEF Fresh
  <2> QED BY <2>1, <2>2, <2>3
<1>13. Fresh(s)
  BY <1>11, <1>12 DEF Timely, Sure
<1>14. Pending(s) => Pending(s)'
  BY <1>2, <1>9 DEF Pending
<1>15. pinger'[t].s # s /\ \A u \in Pinger : u # t => pinger'[u] = pinger[u]
  BY <1>2, Numbers DEF IdlePinger
<1> QED BY <1>9, <1>13, <1>14, <1>15, FreshStays

(* Packets: an answer on its way arrives, finds its servlet, refreshes it. *)
LEMMA ArriveFresh ==
  ASSUME Inv, Inv', [Next]_vars, Timely, NEW w \in Worker, NEW h \in Host,
         PongArrives(w, h) \/ PingArrives(w, h), NEW s \in Servlet, Sure(s)'
  PROVE  Fresh(s)'
<1>1. /\ UNCHANGED <<sockets, servlet, pinger>> /\ worker[w].pc = "idle"
      /\ pongs' = pongs \/ pongs' = pongs \ {h}
  BY DEF PongArrives, PingArrives, Arrive
<1>2. worker'[w].pc = "add" /\ worker'[w].from = h
      /\ \A v \in Worker : v # w => worker'[v] = worker[v]
  <2>1. PICK names : worker' = [worker EXCEPT ![w] =
          [pc |-> "add", from |-> h, names |-> names, found |-> None]]
    BY DEF PongArrives, PingArrives, Arrive
  <2> QED BY <2>1, Numbers
<1>3. Pending(s) => Pending(s)'
  BY <1>1, <1>2 DEF Pending
<1> QED BY <1>1, <1>3, WasFresh, FreshStays

LEMMA AddFindFresh ==
  ASSUME Inv, Inv', [Next]_vars, Timely, NEW w \in Worker, AddFind(w),
         NEW s \in Servlet, Sure(s)'
  PROVE  Fresh(s)'
<1>1. UNCHANGED <<sockets, servlet, pinger, pongs>> /\ Find(w)
  BY DEF AddFind
<1>2. Fresh(s) /\ IsFirst(s)
  BY <1>1, WasFresh
<1>3. /\ worker'[w].pc = "added" /\ worker'[w].from = worker[w].from
      /\ worker'[w].found = First(sockets, worker[w].from)
      /\ \A v \in Worker : v # w => worker'[v] = worker[v]
  BY <1>1, Numbers DEF Find, WorkerRecord
<1>4. Pending(s) => Pending(s)'
  <2>1. worker[w].from = servlet[s].addr => worker'[w].found = s
    BY <1>2, <1>3, FirstIsFound
  <2> QED BY <1>1, <1>3, <2>1 DEF Pending
<1> QED BY <1>1, <1>2, <1>4, FreshStays

LEMMA AddedKeeps ==
  ASSUME Inv, NEW w \in Worker, Added(w), UNCHANGED pongs, NEW s \in Servlet, Pending(s),
         worker[w].pc = "added", worker[w].found # s, servlet'[s].addr = servlet[s].addr
  PROVE  Pending(s)'
<1>1. \A v \in Worker : v # w => worker'[v] = worker[v]
  BY DEF Added, Inv, TypeOK
<1> QED BY <1>1 DEF Pending

LEMMA AddFinishFresh ==
  ASSUME Inv, Inv', [Next]_vars, Timely, TimesFit, NEW w \in Worker, AddFinish(w),
         NEW s \in Servlet, Sure(s)'
  PROVE  Fresh(s)'
<1> DEFINE x == worker[w].found
<1>1. /\ worker[w].pc = "added" /\ Added(w) /\ UNCHANGED <<pinger, pongs>>
      /\ worker[w].from \in Host
  BY WorkersOK DEF AddFinish, Packet, WorkerRecord
<1>2. CASE x # None /\ servlet' = [servlet EXCEPT ![x].ponged = 0] /\ UNCHANGED sockets
  <2>1. Fresh(s)
    BY <1>2, WasFresh
  <2>2. CASE x = s
    <3>1. servlet'[s].ponged = 0 /\ servlet'[s].pinged = servlet[s].pinged
      BY <1>2, <2>2, Numbers DEF ServletRecord
    <3>2. \A u \in Pinger : pinger'[u] = pinger[u]
      BY <1>1
    <3>3. 0 <= PongTime /\ 0 <= PingTime /\ 0 <= servlet[s].pinged
      BY Numbers
    <3>4. \A u \in Pinger : pinger[u].pc = "sleep" => 0 + pinger[u].n <= PongTime
      BY Numbers DEF TimesFit
    <3>5. \A u \in Pinger : pinger'[u].s = s => pinger'[u].pc # "drop"
      BY <2>1, <3>2 DEF Fresh
    <3> QED BY <3>1, <3>2, <3>3, <3>4, <3>5 DEF Fresh
  <2>3. CASE x # s
    <3>1. servlet'[s] = servlet[s]
      BY <1>2, <2>3, Numbers
    <3>2. Pending(s) => Pending(s)'
      BY <1>1, <2>3, <3>1, AddedKeeps
    <3> QED BY <1>1, <2>1, <3>1, <3>2, FreshStays
  <2> QED BY <2>2, <2>3
<1>3. CASE x = None /\ \E new \in Free :
             /\ servlet' = [servlet EXCEPT ![new] = New(worker[w].from, "packet")]
             /\ Startup(new)
  <2>1. PICK new \in Free : /\ servlet' = [servlet EXCEPT ![new] = New(worker[w].from, "packet")]
                            /\ Startup(new)
    BY <1>3
  <2>2. \A y \in Servlet : Pending(y) /\ servlet'[y] = servlet[y] => Pending(y)'
    <3>1. \A y \in Servlet : x # y
      BY <1>3, Numbers
    <3> QED BY <1>1, <3>1, AddedKeeps
  <2> QED BY <1>1, <2>1, <2>2, StartFresh
<1> QED BY <1>2, <1>3 DEF AddFinish

LEMMA LearnFresh ==
  ASSUME Inv, Inv', [Next]_vars, Timely, NEW w \in Worker, LearnFind(w) \/ LearnAdd(w),
         NEW s \in Servlet, Sure(s)'
  PROVE  Fresh(s)'
<1>1. UNCHANGED <<sockets, pinger, pongs>> /\ worker[w].pc \in {"learn", "learned"}
  BY DEF LearnFind, LearnAdd
<1>2. Fresh(s) /\ IsFirst(s)
  BY <1>1, WasFresh
<1>3. servlet'[s] = servlet[s]
  <2>1. s \in Lists
    BY <1>2, InLists DEF IsFirst
  <2>2. CASE LearnAdd(w)
    <3>1. PICK x \in Free : servlet' = [servlet EXCEPT ![x] = New(worker[w].names, "reply")]
      BY <2>2 DEF LearnAdd
    <3> QED BY <2>1, <3>1, Numbers DEF Lists, Free
  <2> QED BY <2>2 DEF LearnFind
<1>4. \A v \in Worker : v # w => worker'[v] = worker[v]
  BY Numbers DEF LearnFind, LearnAdd
<1>5. Pending(s) => Pending(s)'
  BY <1>1, <1>3, <1>4 DEF Pending
<1> QED BY <1>1, <1>2, <1>3, <1>5, FreshStays

(* When time passes, each listed servlet's thread sleeps, and no answer is *)
(* on its way: with enough threads none waits in the queue.                *)
EnoughThreads == Len(sockets) <= Cardinality(Pinger)

LEMMA QuietQueue ==
  ASSUME Inv, Tally, EnoughThreads, Quiet
  PROVE  queue = <<>>
<1> SUFFICES ASSUME queue # <<>> PROVE FALSE
  OBVIOUS
<1>1. Len(queue) \in Nat \ {0} /\ Len(sockets) \in Nat /\ Cardinality(Pinger) \in Nat
  BY EmptySeq, LenProperties, PeersAssumption, FS_CardinalityType DEF Inv, TypeOK
<1>2. \A t \in Pinger : pinger[t].pc = "sleep"
  BY DEF Quiet
<1>3. {t \in Pinger : pinger[t].s = None} = {}
  BY <1>2 DEF Inv, TypeOK
<1>4. Held(pinger, None) = 0
  BY <1>3, FS_EmptySet DEF Held
<1> QED BY <1>1, <1>4 DEF Tally, EnoughThreads

LEMMA TickFresh ==
  ASSUME Inv, Inv', [Next]_vars, Timely, ListedArePinged, Tally, EnoughThreads, Quiet, Tick,
         NEW s \in Servlet, Sure(s)'
  PROVE  Fresh(s)'
<1>1. UNCHANGED <<sockets, worker, pongs>>
  BY DEF Tick
<1>2. Fresh(s) /\ IsFirst(s)
  BY <1>1, WasFresh
<1>3. ~Pending(s)
  <2>1. pongs = {} /\ \A w \in Worker : worker[w].pc = "idle"
    BY DEF Quiet
  <2> QED BY <2>1 DEF Pending
<1>4. ASSUME NEW u \in Pinger, pinger[u].s = s
      PROVE  /\ pinger[u].pc = "sleep" /\ pinger[u].n > 0
             /\ pinger'[u].pc = "sleep" /\ pinger'[u].n = pinger[u].n - 1
             /\ servlet[s].ponged + pinger[u].n <= PongTime
  <2>1. pinger[u].pc # "idle"
    BY <1>4, Numbers DEF Inv, TypeOK
  <2>2. pinger[u].pc = "sleep" /\ pinger[u].n > 0
    BY <2>1 DEF Quiet
  <2>3. pinger'[u].pc = "sleep" /\ pinger'[u].n = pinger[u].n - 1
    BY <2>2, Numbers DEF Tick, PingerRecord
  <2> QED BY <1>2, <1>3, <1>4, <2>2, <2>3 DEF Fresh
<1>5. servlet[s].ponged < PongTime
  <2>1. PICK i \in 1..Len(sockets) : sockets[i] = s
    BY <1>2 DEF IsFirst
  <2>2. PICK u \in Pinger : pinger[u].s = s
    BY <2>1, QuietQueue, ListedHas
  <2>3. pinger[u].n \in Nat /\ pinger[u].n > 0 /\ servlet[s].ponged + pinger[u].n <= PongTime
    BY <1>4, <2>2, Numbers
  <2> QED BY <2>3, Numbers
<1>6. servlet'[s].ponged = servlet[s].ponged + 1
      /\ servlet'[s].pinged = Older(servlet[s].pinged, PingTime)
  <2>1. servlet'[s].ponged = Older(servlet[s].ponged, PongTime)
        /\ servlet'[s].pinged = Older(servlet[s].pinged, PingTime)
    BY Numbers DEF Tick, ServletRecord
  <2>2. ~(servlet[s].ponged > PongTime)
    BY <1>5, Numbers
  <2> QED BY <2>1, <2>2 DEF Older
<1>7. servlet'[s].ponged <= PongTime
  BY <1>5, <1>6, Numbers
<1>8. servlet'[s].pinged <= PingTime => servlet'[s].ponged <= servlet'[s].pinged
  <2> SUFFICES ASSUME servlet'[s].pinged <= PingTime
               PROVE  servlet'[s].ponged <= servlet'[s].pinged
    OBVIOUS
  <2>1. servlet[s].pinged <= PingTime /\ servlet'[s].pinged = servlet[s].pinged + 1
    BY <1>6, Numbers DEF Older
  <2>2. servlet[s].ponged <= servlet[s].pinged
    BY <1>2, <1>3, <2>1 DEF Fresh
  <2> QED BY <1>6, <2>1, <2>2, Numbers
<1>9. ASSUME NEW u \in Pinger, pinger'[u].s = s
      PROVE  /\ pinger'[u].pc = "sleep"
             /\ servlet'[s].ponged + pinger'[u].n <= PongTime
  <2>1. pinger[u].s = s
    BY <1>9, Numbers DEF Tick, PingerRecord
  <2> QED BY <1>4, <1>6, <2>1, Numbers
<1> QED BY <1>7, <1>8, <1>9 DEF Fresh

LEMMA StepTimely ==
  ASSUME Inv, Inv', Timely, ListedArePinged, Tally, EnoughThreads, TimesFit, [PromptNext]_vars
  PROVE  Timely'
<1>0. [Next]_vars
  BY DEF PromptNext, Next
<1> SUFFICES ASSUME NEW s \in Servlet, Sure(s)' PROVE Fresh(s)'
  BY DEF Timely
<1>1. ASSUME NEW h \in Host, Connect(h)
      PROVE  Fresh(s)'
  BY <1>0, <1>1, ConnectFresh
<1>2. ASSUME NEW t \in Pinger, Ping(t)
      PROVE  Fresh(s)'
  BY <1>0, <1>2, TakeFresh, CheckFresh, DropFresh, IdleFresh, LookFresh DEF Ping
<1>3. ASSUME NEW w \in Worker, Apply(w)
      PROVE  Fresh(s)'
  BY <1>0, <1>3, AddFindFresh, AddFinishFresh, LearnFresh DEF Apply
<1>4. ASSUME NEW w \in Worker, NEW h \in Host, PongArrives(w, h) \/ PingArrives(w, h)
      PROVE  Fresh(s)'
  BY <1>0, <1>4, ArriveFresh
<1>5. CASE Quiet /\ Tick
  BY <1>0, <1>5, TickFresh
<1>6. CASE UNCHANGED vars \/ \E h \in Host : Die(h)
  <2>1. UNCHANGED <<sockets, servlet, pinger, worker, pongs>>
    BY <1>6 DEF vars, Die
  <2>2. Pending(s) => Pending(s)'
    BY <2>1 DEF Pending
  <2> QED BY <1>0, <2>1, <2>2, WasFresh, FreshStays
<1> QED BY <1>1, <1>2, <1>3, <1>4, <1>5, <1>6 DEF PromptNext, Steps

LEMMA TimelyStays ==
  ASSUME Inv, Timely, ListedArePinged
  PROVE  AnsweringStays
<1> SUFFICES ASSUME NEW t \in Pinger, pinger[t].pc = "drop",
                    NEW s, s = pinger[t].s, NEW h, h = servlet[s].addr,
                    alive[h], ~Possible(h),
                    \A i \in DOMAIN sockets : servlet[sockets[i]].addr = h => sockets[i] = s
             PROVE  FALSE
  BY DEF AnsweringStays
<1>1. s \in Servlet /\ s # None
  BY PeersAssumption DEF Inv, TypeOK, PingerRecord
<1>2. PICK k \in 1..Len(sockets) : sockets[k] = s
  BY <1>1, HasListed
<1>3. sockets \in Seq(Servlet) /\ servlet[sockets[k]].addr = h
  BY <1>2 DEF Inv, TypeOK
<1>4. PICK i \in 1..Len(sockets) :
        /\ First(sockets, h) = sockets[i] /\ servlet[sockets[i]].addr = h
        /\ \A j \in 1..i - 1 : servlet[sockets[j]].addr # h
  <2>1. \/ First(sockets, h) = None /\ \A i \in 1..Len(sockets) : servlet[sockets[i]].addr # h
        \/ \E i \in 1..Len(sockets) :
             /\ First(sockets, h) = sockets[i] /\ servlet[sockets[i]].addr = h
             /\ \A j \in 1..i - 1 : servlet[sockets[j]].addr # h
    BY ONLY <1>3, FirstFound
  <2>2. ~ \A i \in 1..Len(sockets) : servlet[sockets[i]].addr # h
    BY <1>3
  <2> QED BY ONLY <2>1, <2>2
<1>5. sockets[i] = s
  BY <1>4, InLists
<1>6. Sure(s)
  BY <1>4, <1>5 DEF Sure, IsFirst
<1>7. Fresh(s)
  BY <1>1, <1>6 DEF Timely
<1> QED BY <1>7 DEF Fresh

LEMMA InitTally == Init => Tally
<1> SUFFICES ASSUME Init PROVE Tally
  OBVIOUS
<1>1. {t \in Pinger : pinger[t].s = None} = Pinger
  BY DEF Init, IdlePinger
<1>2. Held(pinger, None) = Cardinality(Pinger) /\ Cardinality(Pinger) \in Nat
  BY <1>1, PeersAssumption, FS_CardinalityType DEF Held
<1>3. Len(sockets) = 0 /\ Len(queue) = 0
  BY EmptySeq DEF Init
<1> QED BY <1>2, <1>3 DEF Tally

(* idle_pinger, check_add_server: with a thread for each servlet that is   *)
(* listed, and times like those of protocol.h, a host that runs and whose  *)
(* answers arrive is not given up, however many packets are handled at     *)
(* once, unless another record lists it too or it is a possible server.    *)
THEOREM AnsweringHostsStay ==
  ASSUME TimesFit
  PROVE  PromptSpec /\ []EnoughThreads => []AnsweringStays
<1>1. Init => Inv /\ ListedArePinged /\ Tally /\ Timely
  <2> SUFFICES ASSUME Init PROVE Timely
    BY InitInv, InitPinged, InitTally
  <2>1. \A s : ~IsFirst(s)
    BY DEF Init, IsFirst
  <2> QED BY <2>1 DEF Timely, Sure
<1>2. Inv /\ ListedArePinged /\ Tally /\ Timely /\ EnoughThreads /\ [PromptNext]_vars
        => (Inv /\ ListedArePinged /\ Tally /\ Timely)'
  <2> SUFFICES ASSUME Inv, ListedArePinged, Tally, Timely, EnoughThreads, [PromptNext]_vars
               PROVE  (Inv /\ ListedArePinged /\ Tally /\ Timely)'
    OBVIOUS
  <2>1. [Next]_vars
    BY DEF PromptNext, Next
  <2>2. Inv'
    BY <2>1, NextInv
  <2>3. ListedArePinged' /\ Tally'
    BY <2>1, StepPinged, StepTally
  <2>4. Timely'
    BY <2>2, StepTimely
  <2> QED BY <2>2, <2>3, <2>4
<1>3. Inv /\ ListedArePinged /\ Timely => AnsweringStays
  BY TimelyStays
<1> QED BY <1>1, <1>2, <1>3, PTL DEF PromptSpec
=============================================================================
