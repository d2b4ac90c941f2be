--------------------------- MODULE RequestHandler ---------------------------
(***************************************************************************)
(* The table of outstanding requests of pingu/request_handler.c: a GTree   *)
(* from 16-bit request numbers to malloc'ed request records, guarded by    *)
(* the lock "request_start", and the sweep of the once-a-second timer      *)
(* thread that reports and frees expired requests.                         *)
(*                                                                         *)
(* The callers of the table are left open here: any client may allocate a  *)
(* record, start it, and end any number at any time.  SearchClient closes  *)
(* the system with the program's real callers.                             *)
(***************************************************************************)
EXTENDS Integers, FiniteSets

CONSTANTS
  Addr,        \* the heap addresses malloc may return for a request record
  NoAddr,      \* the NULL pointer
  MaxReqNo,    \* the largest uint16_t (65535 in the program)
  Timeout,     \* seconds request_start gives a request (5 in the program)
  MaxTime      \* bound: the clock stops here

ASSUME ConstAssumption ==
  /\ NoAddr \notin Addr
  /\ MaxReqNo \in Nat \ {0}
  /\ Timeout \in Nat
  /\ MaxTime \in Nat

VARIABLES
  now,       \* time(NULL)
  mem,       \* the contents of each address, which outlive free()
  alloc,     \* the addresses malloc has handed out and free not taken back
  pending,   \* those of alloc that were not passed to request_start yet
  tree,      \* the GTree: request number -> address, NoAddr where absent
  locked,    \* the timer thread holds the lock request_start
  list,      \* the timer's list of expired requests still to process
  step,      \* where the timer is in the processing of the first of list
  told,      \* history: timeout callbacks made since the record was started
  wrapped    \* history: some request was given the number 0

vars == <<now, mem, alloc, pending, tree, locked, list, step, told, wrapped>>

ReqNo   == 0..MaxReqNo
Request == [active : BOOLEAN, timedout : BOOLEAN,
            starttime : 0..(MaxTime + Timeout), reqno : ReqNo]
Steps   == {"callback", "release", "mark"}

Used == {n \in ReqNo : tree[n] # NoAddr}

Started == alloc \ pending

(***************************************************************************)
(* The number request_start finds.  find_next_number counts up from 1      *)
(* along the keys in ascending order and stops at the first key that       *)
(* differs from the count, so it returns the least free number from 1 on;  *)
(* but the count is a uint16_t (all of 1..MaxReqNo used: 0 is returned),   *)
(* and a key 0 stops it at once (1 is returned, free or not).              *)
(***************************************************************************)
Counts == 0..(MaxReqNo + 1)

(* Mutations of Finds: the count is not cut to 16 bits; the count is the   *)
(* number of keys, as if the keys had no gaps.                             *)
FindsUncut(used, n) ==
  LET free == (1..(MaxReqNo + 1)) \ used IN
  IF 0 \in used THEN n = 1 ELSE n \in free /\ \A m \in free : n <= m

FindsByCount(used, n) == n = (Cardinality(used) + 1) % (MaxReqNo + 1)

Finds(used, n) ==
  LET free == (1..MaxReqNo) \ used IN
  \/ 0 \in used /\ n = 1
  \/ 0 \notin used /\ free = {} /\ n = 0
  \/ 0 \notin used /\ n \in free /\ \A m \in free : n <= m

Init ==
  /\ now = 0
  /\ mem = [a \in Addr |-> [active |-> FALSE, timedout |-> FALSE,
                            starttime |-> 0, reqno |-> 0]]
  /\ alloc = {} /\ pending = {}
  /\ tree = [n \in ReqNo |-> NoAddr]
  /\ locked = FALSE /\ list = {} /\ step = "callback"
  /\ told = [a \in Addr |-> 0]
  /\ wrapped = FALSE

Tick ==
  /\ now < MaxTime
  /\ now' = now + 1
  /\ UNCHANGED <<mem, alloc, pending, tree, locked, list, step, told, wrapped>>

-----------------------------------------------------------------------------
(* The operations clients call.                                            *)

(* malloc(sizeof(request)): the record keeps whatever the memory held.     *)
Malloc(a) ==
  /\ a \notin alloc
  /\ alloc' = alloc \cup {a}
  /\ pending' = pending \cup {a}
  /\ UNCHANGED <<now, mem, tree, locked, list, step, told, wrapped>>

StartRecord(a, found) ==
  /\ tree' = [tree EXCEPT ![found] = a]
  /\ mem' = [mem EXCEPT ![a] = [active |-> TRUE, timedout |-> FALSE,
                                starttime |-> now + Timeout, reqno |-> found]]
  /\ pending' = pending \ {a}
  /\ told' = [told EXCEPT ![a] = 0]
  /\ wrapped' = (wrapped \/ found = 0)
  /\ UNCHANGED <<now, alloc, locked, list, step>>

(* Mutation of RequestStart: it does not take the lock.                    *)
StartUnlocked(a) == \E found \in Counts :
  a \in pending /\ now + Timeout < MaxTime /\ Finds(Used, found)
  /\ StartRecord(a, found)

(* Bound: no request is started that could not expire before MaxTime.      *)
RequestStart(a) == \E found \in Counts :
  /\ ~locked
  /\ a \in pending
  /\ now + Timeout < MaxTime
  /\ Finds(Used, found)
  /\ StartRecord(a, found)

RequestEnd(n) ==
  /\ ~locked
  /\ mem' = IF tree[n] = NoAddr THEN mem
            ELSE [mem EXCEPT ![tree[n]].active = FALSE]
  /\ UNCHANGED <<now, alloc, pending, tree, locked, list, step, told, wrapped>>

-----------------------------------------------------------------------------
(* request_do_timeout, by the timer thread, with the lock held throughout. *)

Expired(a) == now > mem[a].starttime

SweepBegin ==
  /\ ~locked
  /\ locked' = TRUE
  /\ list' = {a \in {tree[n] : n \in Used} : Expired(a)}
  /\ UNCHANGED <<now, mem, alloc, pending, tree, step, told, wrapped>>

(* The next record of the list, which g_tree_foreach built by number.      *)
First(k) == k \in list /\ \A j \in list : mem[k].reqno <= mem[j].reqno

(* Mutations of NeedsCallback: timedout is not looked at; active is misread.*)
NeedsCallbackAgain(k) == mem[k].active
NeedsCallbackEnded(k) == ~mem[k].active /\ ~mem[k].timedout

NeedsCallback(k) == mem[k].active /\ ~mem[k].timedout

SweepCallback(k) ==
  /\ First(k) /\ step = "callback"
  /\ told' = IF NeedsCallback(k) THEN [told EXCEPT ![k] = @ + 1] ELSE told
  /\ step' = "release"
  /\ UNCHANGED <<now, mem, alloc, pending, tree, locked, list, wrapped>>

ReleaseUnless(k, kept, key) ==
  /\ First(k) /\ step = "release"
  /\ IF kept
     THEN UNCHANGED <<tree, alloc>>
     ELSE /\ tree' = [tree EXCEPT ![key] = NoAddr]
          /\ alloc' = alloc \ {k}
  /\ step' = "mark"
  /\ UNCHANGED <<now, mem, pending, locked, list, told, wrapped>>

(* Mutations of SweepRelease: it removes the first key instead of the      *)
(* record's; it frees a record once its owner was told; it keeps a record  *)
(* that is marked, ended or not.                                           *)
ReleaseWrongKey(k) == ReleaseUnless(k, mem[k].active, 1)
ReleaseTold(k) == ReleaseUnless(k, FALSE, mem[k].reqno)
ReleaseUnmarked(k) ==
  ReleaseUnless(k, mem[k].active \/ mem[k].timedout, mem[k].reqno)

SweepRelease(k) == ReleaseUnless(k, mem[k].active, mem[k].reqno)

(* k->timedout = TRUE, also when k was just freed: the write then lands in *)
(* memory that another thread may have been given meanwhile.               *)
SweepMark(k) ==
  /\ First(k) /\ step = "mark"
  /\ mem' = [mem EXCEPT ![k].timedout = TRUE]
  /\ list' = list \ {k}
  /\ step' = "callback"
  /\ UNCHANGED <<now, alloc, pending, tree, locked, told, wrapped>>

(* Mutation of SweepEnd: the lock is not released.                         *)
SweepEndLocked == locked /\ list = {} /\ UNCHANGED vars

SweepEnd ==
  /\ locked /\ list = {}
  /\ locked' = FALSE
  /\ UNCHANGED <<now, mem, alloc, pending, tree, list, step, told, wrapped>>

SweepOne(k) == SweepCallback(k) \/ SweepRelease(k) \/ SweepMark(k)
Sweep == SweepBegin \/ (\E k \in Addr : SweepOne(k)) \/ SweepEnd

Next ==
  \/ Tick
  \/ \E a \in Addr : Malloc(a) \/ RequestStart(a)
  \/ \E n \in ReqNo : RequestEnd(n)
  \/ Sweep

Spec == Init /\ [][Next]_vars

(* The timer thread pushes itself back into its pool for ever, and the     *)
(* clock runs; clients owe nothing.                                        *)
FairSpec == Spec /\ WF_vars(Sweep) /\ WF_vars(Tick)

-----------------------------------------------------------------------------
TypeOK ==
  /\ now \in 0..MaxTime
  /\ mem \in [Addr -> Request]
  /\ alloc \subseteq Addr
  /\ pending \subseteq alloc
  /\ tree \in [ReqNo -> Addr \cup {NoAddr}]
  /\ locked \in BOOLEAN
  /\ list \subseteq Addr
  /\ step \in Steps
  /\ told \in [Addr -> Nat]
  /\ wrapped \in BOOLEAN

(* The table never holds a dangling pointer: what it has under n is a      *)
(* started, unfreed record that carries n, so request_get and the sweep    *)
(* (g_tree_remove by k->reqno, then free) act on the record they found.    *)
TreeSound ==
  \A n \in Used : tree[n] \in Started /\ mem[tree[n]].reqno = n

(* A live request is marked as timed out only after its owner was told,    *)
(* exactly once, although the sweep writes the mark into freed memory that *)
(* malloc may have given to a new request.                                 *)
ToldOnce ==
  \A n \in Used : LET a == tree[n] IN
    /\ told[a] <= 1
    /\ mem[a].active /\ mem[a].timedout => told[a] = 1

(* Until all MaxReqNo numbers are in use at the same moment, no started    *)
(* request is pushed out of the table by a later one given its number.     *)
NoneLost ==
  ~wrapped => /\ \A a \in Started : tree[mem[a].reqno] = a
              /\ tree[0] = NoAddr

(* The strengthening that makes the invariants above inductive: what the    *)
(* timer knows of its list while it holds the lock.                        *)
InTable(a) == tree[mem[a].reqno] = a /\ a \in Started

Current(k) == First(k) /\ step # "callback"

ListSound ==
  /\ ~locked => list = {}
  /\ list = {} => step = "callback"
  /\ \A k \in list : Expired(k)
  /\ \A j, k \in list : mem[j].reqno = mem[k].reqno => j = k
  /\ \A k \in list : \/ InTable(k)
                      \/ (First(k) /\ step = "mark" /\ k \notin Started)

(* A record that was told and not yet marked, or is past its callback, is  *)
(* the one the timer is working on.                                        *)
ToldSound ==
  /\ \A n \in Used : told[tree[n]] = 1 /\ ~mem[tree[n]].timedout
                      => Current(tree[n])
  /\ \A k \in list : Current(k) /\ InTable(k) /\ mem[k].active
                      => told[k] = 1

IInv == TypeOK /\ TreeSound /\ ListSound /\ ToldOnce /\ ToldSound /\ NoneLost

(* The sweep frees only records whose owner ended them and whose time had  *)
(* run out, whatever clients do between the steps of the sweep.            *)
FreedWhenDone ==
  [][\A a \in alloc \ alloc' : ~mem[a].active /\ Expired(a)]_vars

(* Every request that is past its time is either reported to its owner or  *)
(* ended by it.  The fairness of the sweep assumes that the callback of a  *)
(* timeout returns; SearchClient has one that may not (TimeoutsReported).  *)
ExpiryIsTold ==
  \A n \in ReqNo :
    (tree[n] # NoAddr /\ Expired(tree[n]))
      ~> (tree[n] = NoAddr \/ told[tree[n]] = 1 \/ ~mem[tree[n]].active)

(* An ended request gives its number back, so that the numbers last.  The  *)
(* same is assumed of callbacks, and nothing said of what nobody ends.     *)
EndedIsFreed ==
  \A n \in ReqNo :
    (tree[n] # NoAddr /\ ~mem[tree[n]].active)
      ~> (tree[n] = NoAddr \/ mem[tree[n]].active)

(* README: "It also uses a unique request number so that multiple searches *)
(* can be done at one time."  Two started requests never share a number.   *)
UniqueNumbers ==
  \A a, b \in Started : mem[a].reqno = mem[b].reqno => a = b
=============================================================================
