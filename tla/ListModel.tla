------------------------------ MODULE ListModel ------------------------------
(***************************************************************************)
(* The list behind a tree view (pingu/model_gslist.c), with the operations *)
(* its two users make of it step by step: the servers in use (socket.c),   *)
(* appended under the lock socket_list, removed by pingers without it and  *)
(* walked by generate_reply_servers without it; and the results of one     *)
(* search (filesearch.c), appended with no lock and never removed.  The    *)
(* view walks either list through the model.  A GSList is its first node;  *)
(* every user keeps that pointer for itself, and writes it back after each *)
(* operation.                                                              *)
(***************************************************************************)
EXTENDS Integers, FiniteSets

CONSTANTS
  Item,   \* the servlets, or results, there may be; an item stands for its node
  Silent, \* the servers that may fall silent, and be removed
  Asker,  \* the REQUEST_SERVERS the program handles
  Own,    \* which item is the asker's own servlet, or None
  None    \* NULL

ASSUME ListModelAssumption ==
  /\ IsFiniteSet(Item) /\ Silent \subseteq Item /\ None \notin Item \cup Asker
  /\ Own \in [Asker -> Item \cup {None}]

VARIABLES
  kind,     \* whose list it is: "servers" or "results"
  sockets,  \* the first node, for socket.c
  list,     \* the first node, for the model
  next,     \* the node after each node
  node,     \* whether each node is yet to be made, there, or freed
  rows,     \* how many rows the view has
  add,      \* how far each item's append is, and what it found
  del,      \* how far each item's removal is, and what it found
  lock,     \* who holds socket_list
  asking,   \* who holds generate_reply_servers
  found,    \* generate_reply_servers_found
  ask,      \* how far each asker's walk is, what it was told, and of
            \* which servers, listed when it began, it is still to be told
  view,     \* how far the view's walk is, the rows it is still to show
  mixed,    \* whether a removal overlapped with anything, or two appends
            \* that hold no lock did
  broken    \* whether a freed node was used

vars == <<kind, sockets, list, next, node, rows, add, del, lock, asking, found,
          ask, view, mixed, broken>>
walks == <<asking, found, ask, view>>

Init ==
  /\ kind \in {"servers", "results"}
  /\ sockets = None /\ list = None
  /\ next = [i \in Item |-> None]
  /\ node = [i \in Item |-> "none"]
  /\ rows = 0
  /\ add = [i \in Item |-> [at |-> "out", head |-> None, last |-> None]]
  /\ del = [i \in Item |-> [at |-> "out", head |-> None, prev |-> None, pos |-> -1]]
  /\ lock = None /\ asking = None /\ found = FALSE
  /\ ask = [a \in Asker |-> [at |-> "out", node |-> None, due |-> {},
                             told |-> FALSE, none |-> FALSE]]
  /\ view = [at |-> "out", node |-> None, due |-> {}]
  /\ mixed = FALSE /\ broken = FALSE

(* The nodes that are met from the node h on: no set that has h, and with  *)
(* each node the one after it, lacks any of them.                          *)
Ways(h) == {S \in SUBSET Item : h \in S \cup {None} /\ \A i \in S : next[i] \in S \cup {None}}

Met(h) == {i \in Item : \A S \in Ways(h) : i \in S}
Last(h) == CHOOSE i \in Met(h) : next[i] = None
Before(h, i) ==
  IF i \in Met(h) /\ i # h THEN CHOOSE j \in Met(h) : next[j] = i ELSE None

(* The place of a node, from 0: how many are met before it.                *)
Index(h, i) ==
  IF i \in Met(h) THEN Cardinality(Met(h) \ Met(i)) ELSE -1

Freed(h) == \E i \in Met(h) : node[i] = "freed"

Adding == {i \in Item : add[i].at \in {"walked", "linked", "kept"}}
Removing ==
  {i \in Item : del[i].at \in {"indexed", "walked", "unlinked", "stored", "returned"}}
Walking == view.node # None \/ \E a \in Asker : ask[a].at = "walking"

-----------------------------------------------------------------------------
(* An append.  g_slist_append walks to the last node, from the head its    *)
(* user passes.  Mutation: without the lock.                               *)
Owned == IF kind = "servers" THEN sockets ELSE list

WalkToLast(i) ==
  LET h == Owned
  IN  IF Freed(h) THEN broken' = TRUE /\ UNCHANGED add
      ELSE /\ add' = [add EXCEPT ![i] = [at |-> "walked", head |-> h,
                        last |-> IF h = None THEN None ELSE Last(h)]]
           /\ UNCHANGED broken

BeginAddUnlocked(i) ==
  /\ ~broken /\ add[i].at = "out"
  /\ lock' = IF kind = "servers" THEN i ELSE None
  /\ mixed' = (mixed \/ Removing # {} \/ (kind = "results" /\ Adding # {}))
  /\ WalkToLast(i)
  /\ UNCHANGED <<kind, sockets, list, next, node, rows, del, walks>>

BeginAdd(i) ==
  /\ ~broken /\ add[i].at = "out" /\ lock = None
  /\ lock' = IF kind = "servers" THEN i ELSE None
  /\ mixed' = (mixed \/ Removing # {} \/ (kind = "results" /\ Adding # {}))
  /\ WalkToLast(i)
  /\ UNCHANGED <<kind, sockets, list, next, node, rows, del, walks>>

Link(i) == LET l == add[i].last IN
  /\ ~broken /\ add[i].at = "walked"
  /\ node' = [node EXCEPT ![i] = "there"]
  /\ IF l = None THEN UNCHANGED <<next, broken>>
     ELSE IF node[l] = "freed" THEN broken' = TRUE /\ UNCHANGED next
     ELSE next' = [next EXCEPT ![l] = i] /\ UNCHANGED broken
  /\ add' = [add EXCEPT ![i].at = "linked", ![i].head = IF l = None THEN i ELSE @]
  /\ UNCHANGED <<kind, sockets, list, rows, del, lock, walks, mixed>>

(* sockets = ..., and no such variable for the results.                    *)
Keep(i) ==
  /\ ~broken /\ add[i].at = "linked"
  /\ sockets' = IF kind = "servers" THEN add[i].head ELSE sockets
  /\ add' = [add EXCEPT ![i].at = "kept"]
  /\ UNCHANGED <<kind, list, next, node, rows, del, lock, walks, mixed, broken>>

(* model_gslist_new_record: the model takes the list, walks it to print    *)
(* its length, and announces a row, the first, to the view.  Mutation: the *)
(* lock is kept.                                                           *)
NewRecord(i) ==
  LET h == IF kind = "servers" THEN sockets ELSE add[i].head
  IN  /\ ~broken /\ add[i].at = "kept"
      /\ list' = h
      /\ broken' = Freed(h)
      /\ rows' = rows + 1
      /\ add' = [add EXCEPT ![i] = [at |-> "done", head |-> None, last |-> None]]
      /\ UNCHANGED <<kind, sockets, next, node, del, walks, mixed>>

AnnounceLocked(i) == NewRecord(i) /\ UNCHANGED lock

Announce(i) == NewRecord(i) /\ lock' = None

-----------------------------------------------------------------------------
(* model_gslist_delete_record, by the pinger that owns the servlet.        *)
BeginRemove(i) ==
  /\ ~broken /\ kind = "servers" /\ i \in Silent
  /\ add[i].at = "done" /\ del[i].at = "out"
  /\ mixed' = (mixed \/ Adding # {} \/ Removing # {} \/ Walking)
  /\ IF Freed(list) THEN broken' = TRUE /\ UNCHANGED del
     ELSE /\ del' = [del EXCEPT ![i].at = "indexed", ![i].pos = Index(list, i)]
          /\ UNCHANGED broken
  /\ UNCHANGED <<kind, sockets, list, next, node, rows, add, lock, walks>>

(* g_slist_remove walks to the node, and then takes it out.                *)
WalkToItem(i) ==
  /\ ~broken /\ del[i].at = "indexed"
  /\ IF Freed(list) THEN broken' = TRUE /\ UNCHANGED del
     ELSE /\ del' = [del EXCEPT ![i].at = "walked", ![i].head = list,
                                ![i].prev = Before(list, i)]
          /\ UNCHANGED broken
  /\ UNCHANGED <<kind, sockets, list, next, node, rows, add, lock, walks, mixed>>

(* What it returns.  Mutation: the head it was given.                      *)
HeadLeft(i) == del[i].head

HeadAfter(i) ==
  IF del[i].head = i THEN next[i] ELSE del[i].head

Unlink(i) == LET p == del[i].prev IN
  /\ ~broken /\ del[i].at = "walked"
  /\ del' = [del EXCEPT ![i].at = "unlinked", ![i].head = HeadAfter(i)]
  /\ IF del[i].head # i /\ p = None THEN UNCHANGED <<next, node, broken>>
     ELSE /\ node' = [node EXCEPT ![i] = "freed"]
          /\ next' = IF p = None THEN next ELSE [next EXCEPT ![p] = next[i]]
          /\ broken' = (p # None /\ node[p] = "freed")
  /\ UNCHANGED <<kind, sockets, list, rows, add, lock, walks, mixed>>

(* The model takes the list, and announces which row went, or row -1.      *)
StoreHead(i) ==
  /\ ~broken /\ del[i].at = "unlinked"
  /\ list' = del[i].head
  /\ rows' = IF del[i].pos >= 0 /\ rows > 0 THEN rows - 1 ELSE rows
  /\ del' = [del EXCEPT ![i].at = "stored"]
  /\ UNCHANGED <<kind, sockets, next, node, add, lock, walks, mixed, broken>>

(* The model's list, as it is by now, is returned, and kept: sockets = ... *)
ReturnHead(i) ==
  /\ ~broken /\ del[i].at = "stored"
  /\ del' = [del EXCEPT ![i].at = "returned", ![i].head = list]
  /\ UNCHANGED <<kind, sockets, list, next, node, rows, add, lock, walks, mixed, broken>>

KeepHead(i) ==
  /\ ~broken /\ del[i].at = "returned"
  /\ sockets' = del[i].head
  /\ del' = [del EXCEPT ![i].at = "done"]
  /\ UNCHANGED <<kind, list, next, node, rows, add, lock, walks, mixed, broken>>

-----------------------------------------------------------------------------
(* generate_reply_servers.  Mutation: without its lock.                    *)
StartWalk(a) ==
  /\ ~broken /\ kind = "servers" /\ ask[a].at = "out"
  /\ found' = FALSE
  /\ ask' = [ask EXCEPT ![a] =
       [at |-> "walking", node |-> sockets, due |-> Met(sockets) \ {Own[a]},
        told |-> FALSE, none |-> FALSE]]
  /\ mixed' = (mixed \/ Removing # {})
  /\ asking' = a
  /\ UNCHANGED <<kind, sockets, list, next, node, rows, add, del, lock, view, broken>>

BeginAskUnlocked(a) == StartWalk(a)

BeginAsk(a) == asking = None /\ StartWalk(a)

(* g_slist_foreach goes on, whatever was found.  Mutation: one is enough.  *)
OnlyOne(a, i) == IF i = Own[a] THEN next[i] ELSE None

Following(a, i) == next[i]

(* One server, unless it is the one that asks.                             *)
Tell(a) == LET i == ask[a].node IN
  /\ ~broken /\ ask[a].at = "walking" /\ i # None
  /\ IF node[i] = "freed" THEN broken' = TRUE /\ UNCHANGED <<found, ask>>
     ELSE /\ ask' = [ask EXCEPT ![a] =
               [at |-> "walking", node |-> Following(a, i), due |-> @.due \ {i},
                told |-> @.told \/ i # Own[a], none |-> FALSE]]
          /\ found' = (found \/ i # Own[a])
          /\ UNCHANGED broken
  /\ UNCHANGED <<kind, sockets, list, next, node, rows, add, del, lock, asking,
                 view, mixed>>

(* REPLY_NOSERVERS if none was found.                                      *)
EndAsk(a) ==
  /\ ~broken /\ ask[a].at = "walking" /\ ask[a].node = None
  /\ ask' = [ask EXCEPT ![a] = [at |-> "done", node |-> None, due |-> @.due,
                                told |-> @.told, none |-> ~found]]
  /\ asking' = None
  /\ UNCHANGED <<kind, sockets, list, next, node, rows, add, del, lock, found,
                 view, mixed, broken>>

-----------------------------------------------------------------------------
(* The view asks the model for its first row, and then for each row's      *)
(* columns and the row after it.  Mutation: the last row is taken for the  *)
(* end.                                                                    *)
Draw ==
  /\ ~broken /\ view.at = "out"
  /\ view' = [at |-> "walking", node |-> list, due |-> Met(list)]
  /\ mixed' = (mixed \/ Removing # {})
  /\ UNCHANGED <<kind, sockets, list, next, node, rows, add, del, lock, asking,
                 found, ask, broken>>

NextButLast(i) ==
  IF next[i] = None \/ next[next[i]] = None THEN None ELSE next[i]

IterNext(i) == next[i]

ShowRow == LET i == view.node IN
  /\ ~broken /\ view.at = "walking" /\ i # None
  /\ IF node[i] = "freed" THEN broken' = TRUE /\ UNCHANGED view
     ELSE /\ view' = [view EXCEPT !.node = IterNext(i), !.due = @ \ {i}]
          /\ UNCHANGED broken
  /\ UNCHANGED <<kind, sockets, list, next, node, rows, add, del, lock, asking,
                 found, ask, mixed>>

-----------------------------------------------------------------------------
Append(i) == BeginAdd(i) \/ Link(i) \/ Keep(i) \/ Announce(i)
Remove(i) == BeginRemove(i) \/ WalkToItem(i) \/ Unlink(i) \/ StoreHead(i)
             \/ ReturnHead(i) \/ KeepHead(i)
Answer(a) == BeginAsk(a) \/ Tell(a) \/ EndAsk(a)

Next ==
  \/ \E i \in Item : Append(i) \/ Remove(i)
  \/ \E a \in Asker : Answer(a)
  \/ Draw \/ ShowRow

Spec == Init /\ [][Next]_vars
-----------------------------------------------------------------------------
ItemOrNone == Item \cup {None}

AddRecord ==
  [at : {"out", "walked", "linked", "kept", "done"},
   head : ItemOrNone, last : ItemOrNone]

DelRecord ==
  [at : {"out", "indexed", "walked", "unlinked", "stored", "returned", "done"},
   head : ItemOrNone, prev : ItemOrNone, pos : Int]

AskRecord ==
  [at : {"out", "walking", "done"}, node : ItemOrNone, due : SUBSET Item,
   told : BOOLEAN, none : BOOLEAN]

ViewRecord == [at : {"out", "walking"}, node : ItemOrNone, due : SUBSET Item]

TypeOK ==
  /\ kind \in {"servers", "results"}
  /\ sockets \in ItemOrNone /\ list \in ItemOrNone
  /\ next \in [Item -> ItemOrNone]
  /\ node \in [Item -> {"none", "there", "freed"}]
  /\ rows \in 0..Cardinality(Item)
  /\ add \in [Item -> AddRecord] /\ del \in [Item -> DelRecord]
  /\ broken \/ lock \in Adding \cup {None}
  /\ lock \in ItemOrNone /\ asking \in Asker \cup {None}
  /\ found \in BOOLEAN /\ mixed \in BOOLEAN /\ broken \in BOOLEAN
  /\ ask \in [Asker -> AskRecord] /\ view \in ViewRecord

(* The lock is what makes servers that appear at the same time safe: as    *)
(* long as no removal overlaps with another operation, once all are over   *)
(* the list has exactly what was appended and not removed, the two heads   *)
(* agree, and the view has as many rows; no freed node was used, by those  *)
(* who walk the list either.                                               *)
Quiet == Adding = {} /\ Removing = {}
Kept == {i \in Item : add[i].at = "done" /\ del[i].at = "out"}

SoundAlone ==
  ~mixed => /\ ~broken
            /\ Quiet => /\ Met(list) = Kept /\ rows = Cardinality(Kept)
                        /\ kind = "servers" => sockets = list

(* Whoever asks for servers is told of one, or that there is none, never   *)
(* both and never neither, though found is one variable for all askers.    *)
ToldOrNone == \A a \in Asker :
  ask[a].at = "done" => (ask[a].none <=> ~ask[a].told)

(* An asker is told of every server that was listed when its request was   *)
(* handled, servers that are appended meanwhile or not, unless a removal   *)
(* overlaps.                                                               *)
ToldOfAll == \A a \in Asker :
  ask[a].at = "done" /\ ~mixed => ask[a].due = {}

(* The view shows every row the list had when it began, though it walks    *)
(* without any lock, unless a removal overlaps.                            *)
ShownAll == view.at = "walking" /\ view.node = None /\ ~mixed => view.due = {}

(* model_gslist.c:632, "where it was inserted": the row that is announced  *)
(* is the item's.  It always is the first.                                 *)
AnnouncedWhereInserted == [][\A i \in Item :
  add[i].at = "kept" /\ add'[i].at = "done" => list' = i]_vars
=============================================================================
