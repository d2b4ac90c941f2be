------------------------ MODULE RequestHandlerProofs ------------------------
(***************************************************************************)
(* The safety of the request table, for every set of addresses, every      *)
(* number of request numbers and every timeout.  IInv is inductive: one    *)
(* lemma per action shows that the action preserves it.                    *)
(***************************************************************************)
EXTENDS RequestHandler, TLAPS

LEMMA InitInv == Init => IInv
<1> SUFFICES ASSUME Init  PROVE IInv
  OBVIOUS
<1>1. TypeOK
  <2>1. [active |-> FALSE, timedout |-> FALSE, starttime |-> 0, reqno |-> 0]
          \in Request
    BY ConstAssumption DEF Request, ReqNo
  <2>2. mem \in [Addr -> Request]
    BY <2>1 DEF Init
  <2>3. now \in 0..MaxTime /\ tree \in [ReqNo -> Addr \cup {NoAddr}]
    BY ConstAssumption DEF Init
  <2>. QED  BY <2>2, <2>3 DEF Init, TypeOK, Steps
<1>2. Used = {} /\ Started = {}
  BY DEF Init, Used, Started
<1>3. TreeSound /\ ToldOnce
  BY <1>2 DEF TreeSound, ToldOnce
<1>4. ListSound /\ ToldSound
  BY <1>2 DEF Init, ListSound, ToldSound
<1>5. NoneLost
  BY <1>2, ConstAssumption DEF Init, NoneLost, ReqNo
<1>. QED  BY <1>1, <1>3, <1>4, <1>5 DEF IInv

(* The facts about the timer's list that the sweep lemmas share: there is  *)
(* one first record, and until it is marked the table holds it.            *)
LEMMA FirstIsUnique ==
  ASSUME IInv, NEW k, First(k)
  PROVE  /\ locked
         /\ k \in Addr
         /\ mem[k] \in Request
         /\ \A j : First(j) => j = k
         /\ step # "mark" => InTable(k)
         /\ \A j \in list \ {k} : InTable(j) /\ mem[j].reqno # mem[k].reqno
<1> USE DEF IInv, First
<1>1. locked /\ k \in Addr /\ mem[k] \in Request
  BY DEF TypeOK, ListSound
<1>2. ASSUME NEW j, First(j)  PROVE j = k
  <2>1. j \in Addr /\ mem[j].reqno \in Int /\ mem[k].reqno \in Int
    BY <1>1, <1>2, ConstAssumption DEF TypeOK, Request, ReqNo
  <2>2. mem[j].reqno <= mem[k].reqno /\ mem[k].reqno <= mem[j].reqno
    BY <1>2
  <2>3. mem[j].reqno = mem[k].reqno
    BY <2>1, <2>2
  <2>. QED  BY <1>2, <2>3 DEF ListSound
<1>3. step # "mark" => InTable(k)
  BY DEF ListSound
<1>4. ASSUME NEW j \in list \ {k}
      PROVE  InTable(j) /\ mem[j].reqno # mem[k].reqno
  BY <1>2, <1>4 DEF ListSound
<1>. QED  BY <1>1, <1>2, <1>3, <1>4

LEMMA TickInv == IInv /\ Tick => IInv'
<1> SUFFICES ASSUME IInv, Tick  PROVE IInv'
  OBVIOUS
<1> USE DEF IInv, Tick
<1>1. TypeOK'
  BY ConstAssumption DEF TypeOK
<1>2. Used' = Used /\ Started' = Started
  BY DEF Used, Started
<1>3. \A k : (InTable(k)' <=> InTable(k)) /\ (First(k)' <=> First(k))
             /\ (Current(k)' <=> Current(k))
  BY <1>2 DEF InTable, First, Current
<1>4. \A k \in list : Expired(k)'
  BY ConstAssumption DEF TypeOK, Request, Expired, ListSound
<1>5. ListSound'
  BY <1>2, <1>3, <1>4 DEF ListSound
<1>6. TreeSound' /\ ToldOnce' /\ NoneLost'
  BY <1>2 DEF TreeSound, ToldOnce, NoneLost
<1>7. ToldSound'
  BY <1>2, <1>3 DEF ToldSound
<1>. QED  BY <1>1, <1>5, <1>6, <1>7

LEMMA MallocInv == ASSUME IInv, NEW a \in Addr, Malloc(a)  PROVE IInv'
<1> USE DEF IInv, Malloc
<1>1. TypeOK'
  BY DEF TypeOK
<1>2. Used' = Used /\ Started' = Started
  BY DEF Used, Started, TypeOK
<1>3. \A k : (InTable(k)' <=> InTable(k)) /\ (First(k)' <=> First(k))
             /\ (Current(k)' <=> Current(k)) /\ (Expired(k)' <=> Expired(k))
  BY <1>2 DEF InTable, First, Current, Expired
<1>4. TreeSound' /\ ToldOnce' /\ NoneLost'
  BY <1>2 DEF TreeSound, ToldOnce, NoneLost
<1>5. ListSound' /\ ToldSound'
  BY <1>2, <1>3 DEF ListSound, ToldSound
<1>. QED  BY <1>1, <1>4, <1>5

LEMMA RequestStartInv ==
  ASSUME IInv, NEW a \in Addr, RequestStart(a)  PROVE IInv'
<1> USE DEF IInv
<1>1. PICK found \in ReqNo :
        /\ ~locked /\ a \in pending /\ now + Timeout < MaxTime
        /\ Finds(Used, found)
        /\ tree' = [tree EXCEPT ![found] = a]
        /\ mem' = [mem EXCEPT ![a] =
             [active |-> TRUE, timedout |-> FALSE,
              starttime |-> now + Timeout, reqno |-> found]]
        /\ pending' = pending \ {a}
        /\ told' = [told EXCEPT ![a] = 0]
        /\ wrapped' = (wrapped \/ found = 0)
        /\ UNCHANGED <<now, alloc, locked, list, step>>
  <2>1. PICK found \in Counts :
          ~locked /\ a \in pending /\ now + Timeout < MaxTime
          /\ Finds(Used, found) /\ StartRecord(a, found)
    BY DEF RequestStart
  <2>2. found \in ReqNo
    BY <2>1, ConstAssumption DEF Finds, ReqNo
  <2>. QED  BY <2>1, <2>2 DEF StartRecord
<1>2. list = {} /\ list' = {} /\ step = "callback" /\ step' = "callback"
  BY <1>1 DEF ListSound
<1>3. TypeOK'
  <2>1. [active |-> TRUE, timedout |-> FALSE,
         starttime |-> now + Timeout, reqno |-> found] \in Request
    BY <1>1, ConstAssumption DEF TypeOK, Request
  <2>2. mem' \in [Addr -> Request]
    BY <1>1, <2>1 DEF TypeOK
  <2>3. tree' \in [ReqNo -> Addr \cup {NoAddr}]
    BY <1>1 DEF TypeOK
  <2>4. told' \in [Addr -> Nat]
    BY <1>1 DEF TypeOK
  <2>. QED  BY <1>1, <2>2, <2>3, <2>4 DEF TypeOK
<1>4. mem'[a].reqno = found /\ ~mem'[a].timedout /\ told'[a] = 0
      /\ tree'[found] = a /\ a # NoAddr
  BY <1>1, ConstAssumption DEF TypeOK
<1>5. \A b \in Addr \ {a} : mem'[b] = mem[b] /\ told'[b] = told[b]
  BY <1>1 DEF TypeOK
<1>6. \A n \in ReqNo \ {found} : tree'[n] = tree[n]
  BY <1>1 DEF TypeOK
<1>7. a \notin Started /\ a \in Started' /\ Started' = Started \cup {a}
  BY <1>1 DEF Started, TypeOK
<1>8. ReqNo' = ReqNo /\ Used' \subseteq Used \cup {found}
  BY <1>6 DEF Used, ReqNo
<1>9. \A n \in Used : tree[n] \in Addr \ {a}
  BY <1>7 DEF TreeSound, Used, TypeOK
<1>10. TreeSound'
  BY <1>4, <1>5, <1>6, <1>7, <1>8, <1>9 DEF TreeSound, Used
<1>11. ListSound'
  BY <1>2 DEF ListSound
<1>12. ToldOnce'
  BY <1>4, <1>5, <1>6, <1>8, <1>9 DEF ToldOnce, Used
<1>13. ToldSound'
  <2>1. \A k : ~Current(k) /\ ~Current(k)'
    BY <1>2 DEF Current
  <2>2. ASSUME NEW n \in Used'
        PROVE  ~(told'[tree'[n]] = 1 /\ ~mem'[tree'[n]].timedout)
    <3>1. CASE n = found
      BY <1>4, <3>1
    <3>2. CASE n # found
      <4>1. n \in Used /\ tree'[n] = tree[n] /\ tree[n] \in Addr \ {a}
        BY <1>6, <1>8, <1>9, <2>2, <3>2 DEF Used
      <4>2. ~(told[tree[n]] = 1 /\ ~mem[tree[n]].timedout)
        BY <2>1, <4>1 DEF ToldSound
      <4>. QED  BY <1>5, <4>1, <4>2
    <3>. QED  BY <3>1, <3>2
  <2>. QED  BY <1>2, <2>2 DEF ToldSound
<1>14. NoneLost'
  <2> SUFFICES ASSUME ~wrapped'  PROVE NoneLost'
    BY DEF NoneLost
  <2>1. ~wrapped /\ found # 0 /\ tree[0] = NoAddr /\ 0 \in ReqNo
    <3>1. ~(wrapped \/ found = 0)
      BY <1>1, Zenon
    <3>2. 0 \in ReqNo
      BY ConstAssumption DEF ReqNo
    <3>3. tree[0] = NoAddr
      BY <3>1, Zenon DEF NoneLost
    <3>. QED  BY <3>1, <3>2, <3>3, Zenon
  <2>2. found \notin Used
    BY <1>1, <2>1 DEF Finds, Used
  <2>3. ASSUME NEW b \in Started'  PROVE tree'[mem'[b].reqno] = b
    <3>1. CASE b = a
      BY <1>4, <3>1
    <3>2. CASE b # a
      <4>1. b \in Started /\ b \in Addr /\ mem[b].reqno \in ReqNo
        BY <1>7, <2>3, <3>2 DEF Started, TypeOK, Request
      <4>2. mem[b].reqno \in Used
        BY <2>1, <4>1, ConstAssumption DEF NoneLost, Used
      <4>. QED  BY <1>5, <1>6, <2>1, <2>2, <3>2, <4>1, <4>2 DEF NoneLost
    <3>. QED  BY <3>1, <3>2
  <2>. QED  BY <1>6, <2>1, <2>3 DEF NoneLost
<1>. QED  BY <1>3, <1>10, <1>11, <1>12, <1>13, <1>14

LEMMA RequestEndInv ==
  ASSUME IInv, NEW n \in ReqNo, RequestEnd(n)  PROVE IInv'
<1> USE DEF IInv
<1>1. /\ UNCHANGED <<now, alloc, pending, tree, locked, list, step, told, wrapped>>
      /\ ~locked /\ list = {} /\ step = "callback"
  BY DEF RequestEnd, ListSound
<1>2. /\ mem' \in [Addr -> Request]
      /\ \A b \in Addr : /\ mem'[b].reqno = mem[b].reqno
                         /\ mem'[b].timedout = mem[b].timedout
                         /\ mem'[b].active => mem[b].active
  <2>1. CASE tree[n] = NoAddr
    BY <2>1 DEF RequestEnd, TypeOK
  <2>2. CASE tree[n] # NoAddr
    <3>1. tree[n] \in Addr
      BY <2>2 DEF TypeOK
    <3>2. mem' = [mem EXCEPT ![tree[n]].active = FALSE]
      BY <2>2 DEF RequestEnd
    <3>3. mem' = [mem EXCEPT ![tree[n]] = [mem[tree[n]] EXCEPT !.active = FALSE]]
      BY <3>1, <3>2 DEF TypeOK
    <3>4. mem[tree[n]] \in Request
      BY <3>1 DEF TypeOK
    <3>. QED  BY <3>1, <3>3, <3>4 DEF TypeOK, Request
  <2>. QED  BY <2>1, <2>2
<1>3. TypeOK'
  BY <1>1, <1>2 DEF TypeOK
<1>4. Used' = Used /\ Started' = Started /\ Started \subseteq Addr
  BY <1>1 DEF Used, Started, TypeOK
<1>5. \A m \in Used : tree'[m] = tree[m] /\ tree[m] \in Addr
  BY <1>1 DEF Used, TypeOK
<1>6. TreeSound' /\ NoneLost'
  BY <1>1, <1>2, <1>4, <1>5 DEF TreeSound, NoneLost
<1>7. ToldOnce'
  BY <1>1, <1>2, <1>4, <1>5 DEF ToldOnce
<1>8. ListSound'
  BY <1>1 DEF ListSound
<1>9. ToldSound'
  <2>1. \A k : ~Current(k) /\ ~Current(k)'
    BY <1>1 DEF Current
  <2>2. ASSUME NEW m \in Used'
        PROVE  ~(told'[tree'[m]] = 1 /\ ~mem'[tree'[m]].timedout)
    BY <1>1, <1>2, <1>4, <1>5, <2>1, <2>2 DEF ToldSound
  <2>. QED  BY <1>1, <2>2 DEF ToldSound
<1>. QED  BY <1>3, <1>6, <1>7, <1>8, <1>9

LEMMA SweepBeginInv == ASSUME IInv, SweepBegin  PROVE IInv'
<1> USE DEF IInv, SweepBegin
<1>1. list = {} /\ step = "callback"
  BY DEF ListSound
<1>2. \A k \in list' : k \in Addr /\ InTable(k) /\ Expired(k)
  BY DEF TreeSound, InTable, Used, TypeOK
<1>3. TypeOK'
  BY <1>2 DEF TypeOK
<1>4. Used' = Used /\ Started' = Started
  BY DEF Used, Started
<1>5. TreeSound' /\ ToldOnce' /\ NoneLost'
  BY <1>4 DEF TreeSound, ToldOnce, NoneLost
<1>6. ListSound'
  <2>1. \A j, k \in list' : mem[j].reqno = mem[k].reqno => j = k
    BY <1>2 DEF InTable
  <2>2. \A k : (InTable(k)' <=> InTable(k)) /\ (Expired(k)' <=> Expired(k))
    BY <1>4 DEF InTable, Expired
  <2>. QED  BY <1>1, <1>2, <2>1, <2>2 DEF ListSound
<1>7. ToldSound'
  <2>1. \A k : ~Current(k) /\ ~Current(k)'
    BY <1>1 DEF Current
  <2>. QED  BY <1>4, <2>1 DEF ToldSound
<1>. QED  BY <1>3, <1>5, <1>6, <1>7

LEMMA SweepCallbackInv ==
  ASSUME IInv, NEW k \in Addr, SweepCallback(k)  PROVE IInv'
<1> USE DEF IInv
<1>1. /\ First(k) /\ step = "callback" /\ step' = "release"
      /\ UNCHANGED <<now, mem, alloc, pending, tree, locked, list, wrapped>>
  BY DEF SweepCallback
<1>2. locked /\ InTable(k) /\ (\A j : First(j) => j = k)
  BY <1>1, FirstIsUnique
<1>3. tree[mem[k].reqno] = k /\ mem[k].reqno \in Used
  BY <1>2, ConstAssumption DEF InTable, Used, TypeOK, Request
<1>4. Used' = Used /\ Started' = Started
  BY <1>1 DEF Used, Started
<1>5. \A j : /\ InTable(j)' <=> InTable(j)
             /\ First(j)' <=> First(j)
             /\ Expired(j)' <=> Expired(j)
  BY <1>1, <1>4 DEF InTable, First, Expired
<1>6. \A n \in Used : tree[n] \in Addr /\ told[tree[n]] \in Nat
  BY DEF Used, TypeOK
<1>7. \A n \in Used : told[tree[n]] = 1 => mem[tree[n]].timedout
  BY <1>1 DEF ToldSound, Current
<1>8. told[k] = 0 \/ (told[k] = 1 /\ mem[k].timedout)
  BY <1>3, <1>6, <1>7 DEF ToldOnce
<1>9. /\ told' \in [Addr -> Nat]
      /\ \A b \in Addr \ {k} : told'[b] = told[b]
      /\ NeedsCallback(k) => told'[k] = told[k] + 1
      /\ ~NeedsCallback(k) => told'[k] = told[k]
  <2>1. CASE NeedsCallback(k)
    <3>1. told' = [told EXCEPT ![k] = @ + 1]
      BY <2>1 DEF SweepCallback
    <3>. QED  BY <2>1, <3>1 DEF TypeOK
  <2>2. CASE ~NeedsCallback(k)
    BY <2>2 DEF SweepCallback, TypeOK
  <2>. QED  BY <2>1, <2>2
<1>10. TypeOK'
  BY <1>1, <1>9 DEF TypeOK, Steps
<1>11. TreeSound' /\ NoneLost'
  BY <1>1, <1>4 DEF TreeSound, NoneLost
<1>12. ListSound'
  <2>1. \A j \in list : InTable(j)
    BY <1>1 DEF ListSound
  <2>2. /\ \A j \in list' : InTable(j)' /\ Expired(j)'
        /\ \A i, j \in list' : mem'[i].reqno = mem'[j].reqno => i = j
    BY <1>1, <1>5, <2>1 DEF ListSound
  <2>. QED  BY <1>1, <1>2, <2>2 DEF ListSound, First
<1>13. told'[k] <= 1 /\ (mem[k].active => told'[k] = 1)
  <2>1. CASE NeedsCallback(k)
    <3>1. told[k] = 0
      BY <1>8, <2>1 DEF NeedsCallback
    <3>. QED  BY <1>9, <2>1, <3>1
  <2>2. CASE ~NeedsCallback(k)
    <3>1. mem[k].active => mem[k].timedout
      BY <2>2 DEF NeedsCallback
    <3>2. mem[k].active => told[k] = 1
      BY <1>3, <3>1 DEF ToldOnce
    <3>. QED  BY <1>8, <1>9, <2>2, <3>2
  <2>. QED  BY <2>1, <2>2
<1>14. ToldOnce'
  <2> SUFFICES ASSUME NEW n \in Used
               PROVE  /\ told'[tree[n]] <= 1
                      /\ mem[tree[n]].active /\ mem[tree[n]].timedout
                          => told'[tree[n]] = 1
    BY <1>1, <1>4 DEF ToldOnce
  <2>1. CASE tree[n] = k
    BY <1>13, <2>1
  <2>2. CASE tree[n] # k
    BY <1>6, <1>9, <2>2 DEF ToldOnce
  <2>. QED  BY <2>1, <2>2
<1>15. ToldSound'
  <2>1. ASSUME NEW n \in Used', told'[tree'[n]] = 1, ~mem'[tree'[n]].timedout
        PROVE  tree[n] = k
    BY <1>1, <1>4, <1>6, <1>7, <1>9, <2>1
  <2>2. Current(k)'
    BY <1>1 DEF Current, First
  <2>3. ASSUME NEW j \in list', Current(j)', mem'[j].active
        PROVE  told'[j] = 1
    <3>1. j = k
      BY <1>2, <1>5, <2>3 DEF Current
    <3>. QED  BY <1>1, <1>13, <2>3, <3>1
  <2>. QED  BY <1>1, <2>1, <2>2, <2>3 DEF ToldSound, Current, First
<1>. QED  BY <1>10, <1>11, <1>12, <1>14, <1>15

LEMMA SweepReleaseInv ==
  ASSUME IInv, NEW k \in Addr, SweepRelease(k)  PROVE IInv'
<1> USE DEF IInv
<1>1. /\ First(k) /\ step = "release" /\ step' = "mark"
      /\ UNCHANGED <<now, mem, pending, locked, list, told, wrapped>>
  BY DEF SweepRelease, ReleaseUnless
<1>2. /\ locked /\ InTable(k) /\ (\A j : First(j) => j = k)
      /\ \A j \in list \ {k} : InTable(j) /\ mem[j].reqno # mem[k].reqno
  BY <1>1, FirstIsUnique
<1>3. \A j : First(j)' <=> First(j)
  BY <1>1 DEF First
<1>4. CASE mem[k].active
  <2>1. UNCHANGED <<tree, alloc>>
    BY <1>4 DEF SweepRelease, ReleaseUnless
  <2>2. Used' = Used /\ Started' = Started
    BY <1>1, <2>1 DEF Used, Started
  <2>3. TypeOK'
    BY <1>1, <2>1 DEF TypeOK, Steps
  <2>4. TreeSound' /\ ToldOnce' /\ NoneLost'
    BY <1>1, <2>1, <2>2 DEF TreeSound, ToldOnce, NoneLost
  <2>5. ListSound'
    BY <1>1, <1>2, <2>1, <2>2 DEF ListSound, InTable, Expired, First
  <2>6. ToldSound'
    BY <1>1, <2>1, <2>2 DEF ToldSound, Current, First, InTable
  <2>. QED  BY <2>3, <2>4, <2>5, <2>6
<1>5. CASE ~mem[k].active
  <2>1. tree' = [tree EXCEPT ![mem[k].reqno] = NoAddr] /\ alloc' = alloc \ {k}
    BY <1>5 DEF SweepRelease, ReleaseUnless
  <2>2. k \in Started /\ tree[mem[k].reqno] = k /\ mem[k].reqno \in ReqNo
    BY <1>2 DEF InTable, TypeOK, Request
  <2>3. Started' = Started \ {k}
    BY <1>1, <2>1 DEF Started
  <2>4. /\ tree' \in [ReqNo -> Addr \cup {NoAddr}]
        /\ tree'[mem[k].reqno] = NoAddr
        /\ \A n \in ReqNo \ {mem[k].reqno} : tree'[n] = tree[n]
    BY <2>1, <2>2 DEF TypeOK
  <2>5. TypeOK'
    BY <1>1, <2>1, <2>2, <2>4 DEF TypeOK, Steps, Started
  <2>6. \A n \in Used' : n \in Used /\ tree'[n] = tree[n] /\ tree[n] # k
    BY <2>4 DEF Used, TreeSound
  <2>7. TreeSound'
    BY <1>1, <2>3, <2>6 DEF TreeSound
  <2>8. ToldOnce'
    BY <1>1, <2>6 DEF ToldOnce
  <2>9. NoneLost'
    <3> SUFFICES ASSUME ~wrapped  PROVE NoneLost'
      BY <1>1 DEF NoneLost
    <3>1. \A a \in Started : tree[mem[a].reqno] = a /\ mem[a].reqno \in ReqNo
      BY DEF NoneLost, Started, TypeOK, Request
    <3>2. \A a \in Started' : tree'[mem[a].reqno] = a
      BY <2>2, <2>3, <2>4, <3>1
    <3>3. tree'[0] = NoAddr
      BY <2>4, ConstAssumption DEF NoneLost, ReqNo
    <3>. QED  BY <1>1, <3>2, <3>3 DEF NoneLost
  <2>10. ListSound'
    <3>1. \A j \in list \ {k} : tree'[mem[j].reqno] = j /\ j \in Started'
      BY <1>2, <2>3, <2>4 DEF InTable, TypeOK, Request
    <3>2. \A j \in list : Expired(j)'
      BY <1>1 DEF ListSound, Expired
    <3>. QED  BY <1>1, <1>2, <2>3, <3>1, <3>2 DEF ListSound, InTable, First
  <2>11. ToldSound'
    <3>1. \A j \in list' : ~(Current(j)' /\ InTable(j)')
      BY <1>1, <1>2, <1>3, <2>3 DEF Current, InTable
    <3>2. \A n \in Used' : told[tree[n]] = 1 /\ ~mem[tree[n]].timedout => FALSE
      BY <1>1, <1>2, <2>6 DEF ToldSound, Current
    <3>. QED  BY <1>1, <2>6, <3>1, <3>2 DEF ToldSound
  <2>. QED  BY <2>5, <2>7, <2>8, <2>9, <2>10, <2>11
<1>. QED  BY <1>4, <1>5

LEMMA SweepMarkInv ==
  ASSUME IInv, NEW k \in Addr, SweepMark(k)  PROVE IInv'
<1> USE DEF IInv
<1>1. /\ First(k) /\ step = "mark" /\ step' = "callback"
      /\ mem' = [mem EXCEPT ![k].timedout = TRUE] /\ list' = list \ {k}
      /\ UNCHANGED <<now, alloc, pending, tree, locked, told, wrapped>>
  BY DEF SweepMark
<1>2. /\ locked /\ mem[k] \in Request /\ (\A j : First(j) => j = k)
      /\ \A j \in list \ {k} : InTable(j) /\ mem[j].reqno # mem[k].reqno
  BY <1>1, FirstIsUnique
<1>3. /\ mem' \in [Addr -> Request]
      /\ \A b \in Addr : /\ mem'[b].reqno = mem[b].reqno
                         /\ mem'[b].starttime = mem[b].starttime
                         /\ mem'[b].active = mem[b].active
                         /\ b # k => mem'[b] = mem[b]
      /\ mem'[k].timedout
  <2>1. mem' = [mem EXCEPT ![k] = [mem[k] EXCEPT !.timedout = TRUE]]
    BY <1>1 DEF TypeOK
  <2>. QED  BY <1>2, <2>1 DEF TypeOK, Request
<1>4. TypeOK'
  BY <1>1, <1>3 DEF TypeOK, Steps
<1>5. Used' = Used /\ Started' = Started /\ Started \subseteq Addr
      /\ \A n \in Used : tree[n] \in Addr
  BY <1>1 DEF Used, Started, TypeOK
<1>6. TreeSound' /\ NoneLost'
  BY <1>1, <1>3, <1>5 DEF TreeSound, NoneLost
<1>7. ListSound'
  <2>1. \A j \in list' : tree[mem[j].reqno] = j /\ j \in Started /\ Expired(j)
    BY <1>1, <1>2 DEF ListSound, InTable
  <2>2. \A j \in list' : j \in Addr /\ mem'[j] = mem[j]
    BY <1>1, <1>3 DEF TypeOK
  <2>. QED  BY <1>1, <1>2, <1>5, <2>1, <2>2 DEF ListSound, InTable, Expired
<1>8. ToldOnce'
  <2> SUFFICES ASSUME NEW n \in Used
               PROVE  /\ told[tree[n]] <= 1
                      /\ mem'[tree[n]].active /\ mem'[tree[n]].timedout
                          => told[tree[n]] = 1
    BY <1>1, <1>5 DEF ToldOnce
  <2>1. CASE tree[n] = k
    <3>1. InTable(k) /\ Current(k) /\ k \in list
      BY <1>1, <2>1 DEF TreeSound, InTable, Current, First
    <3>2. mem[k].active => told[k] = 1
      BY <3>1 DEF ToldSound
    <3>. QED  BY <1>3, <2>1, <3>2 DEF ToldOnce
  <2>2. CASE tree[n] # k
    BY <1>3, <1>5, <2>2 DEF ToldOnce
  <2>. QED  BY <2>1, <2>2
<1>9. ToldSound'
  <2>1. ASSUME NEW n \in Used, told[tree[n]] = 1, ~mem'[tree[n]].timedout
        PROVE  FALSE
    <3>1. tree[n] # k /\ ~mem[tree[n]].timedout
      BY <1>3, <1>5, <2>1
    <3>2. Current(tree[n])
      BY <2>1, <3>1 DEF ToldSound
    <3>. QED  BY <1>2, <3>1, <3>2 DEF Current
  <2>2. \A j : ~Current(j)'
    BY <1>1 DEF Current
  <2>. QED  BY <1>1, <1>5, <2>1, <2>2 DEF ToldSound
<1>. QED  BY <1>4, <1>6, <1>7, <1>8, <1>9

LEMMA SweepEndInv == ASSUME IInv, SweepEnd  PROVE IInv'
<1> USE DEF IInv, SweepEnd
<1>1. Used' = Used /\ Started' = Started
  BY DEF Used, Started
<1>2. TypeOK' /\ TreeSound' /\ ToldOnce' /\ NoneLost'
  BY <1>1 DEF TypeOK, TreeSound, ToldOnce, NoneLost
<1>3. ListSound'
  BY DEF ListSound
<1>4. ToldSound'
  BY <1>1 DEF ToldSound, Current, First, InTable
<1>. QED  BY <1>2, <1>3, <1>4

LEMMA StutterInv == IInv /\ UNCHANGED vars => IInv'
<1> SUFFICES ASSUME IInv, UNCHANGED vars  PROVE IInv'
  OBVIOUS
<1> USE DEF IInv, vars
<1>1. Used' = Used /\ Started' = Started
  BY DEF Used, Started
<1>2. TypeOK' /\ TreeSound' /\ ToldOnce' /\ NoneLost'
  BY <1>1 DEF TypeOK, TreeSound, ToldOnce, NoneLost
<1>3. ListSound' /\ ToldSound'
  BY <1>1 DEF ListSound, ToldSound, Current, First, InTable, Expired
<1>. QED  BY <1>2, <1>3

LEMMA NextInv == IInv /\ [Next]_vars => IInv'
<1> SUFFICES ASSUME IInv, [Next]_vars  PROVE IInv'
  OBVIOUS
<1>1. CASE Tick
  BY <1>1, TickInv
<1>2. ASSUME NEW a \in Addr, Malloc(a)  PROVE IInv'
  BY <1>2, MallocInv
<1>3. ASSUME NEW a \in Addr, RequestStart(a)  PROVE IInv'
  BY <1>3, RequestStartInv
<1>4. ASSUME NEW n \in ReqNo, RequestEnd(n)  PROVE IInv'
  BY <1>4, RequestEndInv
<1>5. CASE SweepBegin
  BY <1>5, SweepBeginInv
<1>6. ASSUME NEW k \in Addr, SweepOne(k)  PROVE IInv'
  BY <1>6, SweepCallbackInv, SweepReleaseInv, SweepMarkInv DEF SweepOne
<1>7. CASE SweepEnd
  BY <1>7, SweepEndInv
<1>8. CASE UNCHANGED vars
  BY <1>8, StutterInv
<1>. QED  BY <1>1, <1>2, <1>3, <1>4, <1>5, <1>6, <1>7, <1>8 DEF Next, Sweep

(* Every reachable state of the table satisfies the inductive invariant,   *)
(* whatever the callers of request_start and request_end do.               *)
THEOREM Invariance == Spec => []IInv
<1>. QED  BY InitInv, NextInv, PTL DEF Spec

(* The table, the records and the timer's bookkeeping keep their types.    *)
THEOREM TypeCorrect == Spec => []TypeOK
<1>1. IInv => TypeOK
  BY DEF IInv
<1>. QED  BY <1>1, Invariance, PTL

(* request_get never finds a freed or never-started record, nor one that   *)
(* carries another number.                                                 *)
THEOREM TableIsSound == Spec => []TreeSound
<1>1. IInv => TreeSound
  BY DEF IInv
<1>. QED  BY <1>1, Invariance, PTL

(* No request is reported to its owner twice, and none is marked as timed  *)
(* out unreported, in spite of the mark the sweep writes after free().     *)
THEOREM ToldAtMostOnce == Spec => []ToldOnce
<1>1. IInv => ToldOnce
  BY DEF IInv
<1>. QED  BY <1>1, Invariance, PTL

(* Until request_start has had to hand out the number 0, every started     *)
(* request can be found under its number.                                  *)
THEOREM NoRequestLost == Spec => []NoneLost
<1>1. IInv => NoneLost
  BY DEF IInv
<1>. QED  BY <1>1, Invariance, PTL

(* Every free() the sweep makes is of a record its owner has ended and     *)
(* whose time is over.                                                     *)
THEOREM OnlyDoneFreed == Spec => FreedWhenDone
<1>1. IInv /\ [Next]_vars
        => [\A a \in alloc \ alloc' : ~mem[a].active /\ Expired(a)]_vars
  <2> SUFFICES ASSUME IInv, Next, NEW a \in alloc, a \notin alloc'
               PROVE  ~mem[a].active /\ Expired(a)
    OBVIOUS
  <2>1. ASSUME NEW k \in Addr, SweepRelease(k)
        PROVE  ~mem[a].active /\ Expired(a)
    <3>1. alloc' # alloc
      OBVIOUS
    <3>2. ~mem[k].active /\ a = k /\ k \in list
      BY <2>1, <3>1 DEF SweepRelease, ReleaseUnless, First
    <3>. QED  BY <3>2 DEF IInv, ListSound
  <2>2. \E k \in Addr : SweepRelease(k)
    BY DEF Next, Tick, Malloc, RequestStart, StartRecord, RequestEnd, Sweep, SweepBegin,
           SweepOne, SweepCallback, SweepMark, SweepEnd
  <2>. QED  BY <2>1, <2>2
<1>. QED  BY <1>1, Invariance, PTL DEF Spec, FreedWhenDone
=============================================================================
