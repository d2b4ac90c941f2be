-------------------------------- MODULE Peers --------------------------------
(***************************************************************************)
(* The servlets a Pingu knows (pingu/socket.c): the list sockets, the pool *)
(* of threads that ping every servlet of the list, the list of possible    *)
(* servers learnt from others' replies, and the pool threads that handle   *)
(* pings and pongs.  One Pingu is modelled; Host are the other machines.   *)
(*                                                                         *)
(* Times are kept as ages, in ticks of about four seconds, and only as far *)
(* as the code's comparisons tell them apart.  A list operation is one     *)
(* step.  A servlet that nothing points to any more is free to be         *)
(* allocated again; the code leaks it (free_servlet does nothing).         *)
(***************************************************************************)
EXTENDS Naturals, FiniteSets, Sequences, SequencesExt

CONSTANTS
  Host,       \* the addresses of other servlets
  Named,      \* the hosts that others name in a REPLY_SERVERS
  Mortal,     \* the hosts that may stop running
  Servlet,    \* the Servlet records: bounds how many are in use at once
  Pinger,     \* the threads of the pool pingers (30)
  Worker,     \* the threads of the pool request_processors (30)
  PingTime, PongTime,  \* PING_TIME, PONG_TIME of protocol.h, in ticks
  SleepTime,  \* the sleep(4) of idle_pinger, in ticks
  LookLast,   \* the i at which look_for_new_servers stops (5)
  None        \* NULL

ASSUME PeersAssumption ==
  /\ Named \subseteq Host /\ Mortal \subseteq Host /\ Host # {}
  /\ None \notin Host \cup Servlet \cup Worker
  /\ {PingTime, PongTime, SleepTime, LookLast} \subseteq Nat
  /\ IsFiniteSet(Pinger)

VARIABLES
  sockets,    \* sockets, the list of servlets in use
  possible,   \* possible_servers
  servlet,    \* the contents of each Servlet record
  queue,      \* the servlets pushed to the pool pingers
  pinger,     \* the threads of pingers, in idle_pinger
  worker,     \* the threads of request_processors, in apply_packet
  adding,     \* the lock add_address: its holder, or None
  pongs,      \* the hosts whose answer to a ping is on its way
  alive,      \* whether each host runs
  asked       \* the dialog that asks the user for a host is shown

vars == <<sockets, possible, servlet, queue, pinger, worker, adding, pongs,
          alive, asked>>

(* lastpinged and lastponged are ages; one above the limit stands for all  *)
(* that are, and for a lastpinged of 0.  via: who made the record.         *)
ServletRecord ==
  [addr : Host, pinged : 0..PingTime + 1, ponged : 0..PongTime + 1,
   via : {"packet", "reply", "user"}]

(* What is in a record that nothing points to does not matter.             *)
Blank == [addr |-> CHOOSE h \in Host : TRUE, pinged |-> PingTime + 1,
          ponged |-> PongTime + 1, via |-> "user"]

New(h, who) == [addr |-> h, pinged |-> PingTime + 1, ponged |-> 0, via |-> who]

IdlePinger == [pc |-> "idle", s |-> None, n |-> 0]
IdleWorker == [pc |-> "idle", from |-> None, names |-> None, found |-> None]

Init ==
  /\ sockets = <<>> /\ possible = <<>> /\ queue = <<>>
  /\ servlet = [s \in Servlet |-> Blank]
  /\ pinger = [t \in Pinger |-> IdlePinger]
  /\ worker = [w \in Worker |-> IdleWorker]
  /\ adding = None
  /\ pongs = {}
  /\ alive = [h \in Host |-> TRUE]
  /\ asked = TRUE

Free == Servlet \ (ToSet(sockets) \cup ToSet(possible) \cup ToSet(queue)
          \cup {pinger[t].s : t \in Pinger} \cup {worker[w].found : w \in Worker})

(* find_servlet: the first servlet in the list l with the address h.       *)
First(l, h) ==
  LET i == SelectInSeq(l, LAMBDA s : servlet[s].addr = h)
  IN  IF i = 0 THEN None ELSE l[i]

(* new_servlet_startup: into the list, and to the pingers.                 *)
Startup(s) ==
  /\ sockets' = Append(sockets, s)
  /\ queue' = Append(queue, s)

-----------------------------------------------------------------------------
(* The GUI thread: do_connection with the host the user gives; the dialog  *)
(* goes.  gethostbyname finds the host.                                    *)
Connect(h) ==
  /\ asked
  /\ asked' = FALSE
  /\ \E s \in Free :
       /\ servlet' = [servlet EXCEPT ![s] = New(h, "user")]
       /\ Startup(s)
  /\ UNCHANGED <<possible, pinger, worker, adding, pongs, alive>>

-----------------------------------------------------------------------------
(* A thread of pingers runs idle_pinger on a servlet.                      *)
(* Mutations: the wrong time is compared; the limit counts as overdue.     *)
OverduePing(s) == servlet[s].pinged > PongTime
OverdueAtLimit(s) == servlet[s].ponged >= PongTime

Overdue(s) == servlet[s].ponged > PongTime

Take(t) ==
  /\ pinger[t].pc = "idle" /\ queue # <<>>
  /\ LET s == Head(queue)
         h == servlet[s].addr
         due == servlet[s].pinged > PingTime
     IN  /\ pinger' = [pinger EXCEPT ![t] = [pc |-> "check", s |-> s, n |-> 0]]
         /\ servlet' = IF due THEN [servlet EXCEPT ![s].pinged = 0] ELSE servlet
         /\ pongs' = IF due /\ alive[h] THEN pongs \cup {h} ELSE pongs
  /\ queue' = Tail(queue)
  /\ UNCHANGED <<sockets, possible, worker, adding, alive, asked>>

Check(t) ==
  /\ pinger[t].pc = "check"
  /\ pinger' = IF Overdue(pinger[t].s)
               THEN [pinger EXCEPT ![t].pc = "drop"]
               ELSE [pinger EXCEPT ![t].pc = "sleep", ![t].n = SleepTime]
  /\ UNCHANGED <<sockets, possible, servlet, queue, worker, adding, pongs,
                 alive, asked>>

(* Mutation of Drop: the thread goes on to its sleep, without a return.    *)
DropGoesOn(t) ==
  /\ pinger[t].pc = "drop"
  /\ sockets' = RemoveFirst(sockets, pinger[t].s)
  /\ pinger' = [pinger EXCEPT ![t].pc = "sleep", ![t].n = SleepTime]
  /\ UNCHANGED <<possible, servlet, queue, worker, adding, pongs, alive, asked>>

(* model_gslist_delete_record, free_servlet.                               *)
Drop(t) == LET s == pinger[t].s IN
  /\ pinger[t].pc = "drop"
  /\ sockets' = RemoveFirst(sockets, s)
  /\ pinger' = [pinger EXCEPT ![t] = [IdlePinger EXCEPT !.pc = "count"]]
  /\ UNCHANGED <<possible, queue, worker, adding, pongs, alive, asked>>
  /\ servlet' = [servlet EXCEPT ![s] = IF s \in Free' THEN Blank ELSE @]

Count(t) ==
  /\ pinger[t].pc = "count"
  /\ pinger' = [pinger EXCEPT ![t].pc = IF sockets = <<>> THEN "look" ELSE "idle"]
  /\ UNCHANGED <<sockets, possible, servlet, queue, worker, adding, pongs,
                 alive, asked>>

(* look_for_new_servers, one servlet of possible at a time; n have been    *)
(* started.  Mutation: without the break.                                  *)
LookAll(t) ==
  LET n == pinger[t].n IN
  /\ pinger[t].pc = "look"
  /\ n < Len(possible)
  /\ Startup(possible[n + 1])
  /\ pinger' = [pinger EXCEPT ![t].n = n + 1]
  /\ UNCHANGED <<possible, servlet, worker, adding, pongs, alive, asked>>

Look(t) ==
  LET n == pinger[t].n IN
  /\ pinger[t].pc = "look"
  /\ n < Len(possible) /\ n <= LookLast
  /\ Startup(possible[n + 1])
  /\ pinger' = [pinger EXCEPT ![t].n = n + 1]
  /\ UNCHANGED <<possible, servlet, worker, adding, pongs, alive, asked>>

(* Its end.  The g_slist_remove calls look for an element that is the list *)
(* itself, find none, and leave possible as it is.  Mutation: the user is  *)
(* not asked.                                                              *)
LookQuiet(t) ==
  LET n == pinger[t].n IN
  /\ pinger[t].pc = "look"
  /\ ~(n < Len(possible) /\ n <= LookLast)
  /\ pinger' = [pinger EXCEPT ![t] = IdlePinger]
  /\ UNCHANGED <<sockets, possible, servlet, queue, worker, adding, pongs,
                 alive, asked>>

LookEnd(t) ==
  LET n == pinger[t].n IN
  /\ pinger[t].pc = "look"
  /\ ~(n < Len(possible) /\ n <= LookLast)
  /\ asked' = (asked \/ n = 0)
  /\ pinger' = [pinger EXCEPT ![t] = IdlePinger]
  /\ UNCHANGED <<sockets, possible, servlet, queue, worker, adding, pongs, alive>>

(* After the sleep, the servlet goes back into the queue.  Mutation: it    *)
(* does not.                                                               *)
WakeAway(t) ==
  /\ pinger[t].pc = "sleep" /\ pinger[t].n = 0
  /\ pinger' = [pinger EXCEPT ![t] = IdlePinger]
  /\ UNCHANGED <<sockets, possible, servlet, queue, worker, adding, pongs,
                 alive, asked>>

Wake(t) ==
  /\ pinger[t].pc = "sleep" /\ pinger[t].n = 0
  /\ queue' = Append(queue, pinger[t].s)
  /\ pinger' = [pinger EXCEPT ![t] = IdlePinger]
  /\ UNCHANGED <<sockets, possible, servlet, worker, adding, pongs, alive, asked>>

Ping(t) == Take(t) \/ Check(t) \/ Drop(t) \/ Count(t) \/ Look(t)
           \/ LookEnd(t) \/ Wake(t)

-----------------------------------------------------------------------------
(* A packet arrives: the answer to a ping, which is a REPLY_SERVERS that   *)
(* names a host or a REPLY_NOSERVERS (None), or a host's own ping.         *)
Arrive(w, h, names) ==
  /\ worker[w].pc = "idle"
  /\ worker' = [worker EXCEPT ![w] = [pc |-> "add", from |-> h, names |-> names,
                                      found |-> None]]
  /\ UNCHANGED <<sockets, possible, servlet, queue, pinger, adding, alive, asked>>

PongArrives(w, h) ==
  /\ h \in pongs
  /\ pongs' = pongs \ {h}
  /\ \E names \in (Named \ {h}) \cup {None} : Arrive(w, h, names)

PingArrives(w, h) ==
  /\ alive[h]
  /\ Arrive(w, h, None)
  /\ UNCHANGED pongs

(* check_add_server.  Mutation: without the lock add_address.              *)
Find(w) == worker' = [worker EXCEPT ![w].pc = "added",
                                    ![w].found = First(sockets, worker[w].from)]

AddFindUnlocked(w) ==
  /\ worker[w].pc = "add"
  /\ adding' = w
  /\ Find(w)
  /\ UNCHANGED <<sockets, possible, servlet, queue, pinger, pongs, alive, asked>>

AddFind(w) ==
  /\ worker[w].pc = "add" /\ adding = None
  /\ adding' = w
  /\ Find(w)
  /\ UNCHANGED <<sockets, possible, servlet, queue, pinger, pongs, alive, asked>>

(* A REPLY_SERVERS goes on to add_upstream_server, anything else is done.  *)
Added(w) ==
  worker' = [worker EXCEPT ![w] =
    IF @.names = None THEN IdleWorker
    ELSE [@ EXCEPT !.pc = "learn", !.found = None]]

(* Its end: the servlet found has answered, or a new one is made.          *)
AddFinish(w) == LET s == worker[w].found IN
  /\ worker[w].pc = "added"
  /\ \/ /\ s # None
        /\ servlet' = [servlet EXCEPT ![s].ponged = 0]
        /\ UNCHANGED <<sockets, queue>>
     \/ /\ s = None
        /\ \E new \in Free :
             /\ servlet' = [servlet EXCEPT ![new] = New(worker[w].from, "packet")]
             /\ Startup(new)
  /\ adding' = None
  /\ Added(w)
  /\ UNCHANGED <<possible, pinger, pongs, alive, asked>>

(* add_upstream_server, which no lock protects.                            *)
LearnFind(w) ==
  /\ worker[w].pc = "learn"
  /\ worker' = [worker EXCEPT ![w] = IF First(possible, @.names) = None
                                     THEN [@ EXCEPT !.pc = "learned"]
                                     ELSE IdleWorker]
  /\ UNCHANGED <<sockets, possible, servlet, queue, pinger, adding, pongs,
                 alive, asked>>

LearnAdd(w) ==
  /\ worker[w].pc = "learned"
  /\ \E new \in Free :
       /\ servlet' = [servlet EXCEPT ![new] = New(worker[w].names, "reply")]
       /\ possible' = Append(possible, new)
  /\ worker' = [worker EXCEPT ![w] = IdleWorker]
  /\ UNCHANGED <<sockets, queue, pinger, adding, pongs, alive, asked>>

Apply(w) == AddFind(w) \/ AddFinish(w) \/ LearnFind(w) \/ LearnAdd(w)

-----------------------------------------------------------------------------
(* Time and the network.  A thread takes no noticeable time from reading   *)
(* the clock to comparing it.                                              *)
Older(age, limit) == IF age > limit THEN age ELSE age + 1

Tick ==
  /\ \A t \in Pinger : pinger[t].pc # "check"
  /\ servlet' = [s \in Servlet |->
       [servlet[s] EXCEPT !.pinged = Older(@, PingTime), !.ponged = Older(@, PongTime)]]
  /\ pinger' = [t \in Pinger |->
       IF pinger[t].pc = "sleep" /\ pinger[t].n > 0
       THEN [pinger[t] EXCEPT !.n = @ - 1] ELSE pinger[t]]
  /\ UNCHANGED <<sockets, possible, queue, worker, adding, pongs, alive, asked>>

Lose(h) ==
  /\ h \in pongs
  /\ pongs' = pongs \ {h}
  /\ UNCHANGED <<sockets, possible, servlet, queue, pinger, worker, adding,
                 alive, asked>>

Die(h) ==
  /\ h \in Mortal /\ alive[h]
  /\ alive' = [alive EXCEPT ![h] = FALSE]
  /\ UNCHANGED <<sockets, possible, servlet, queue, pinger, worker, adding,
                 pongs, asked>>

Steps ==
  \/ \E h \in Host : Connect(h) \/ Die(h)
  \/ \E t \in Pinger : Ping(t)
  \/ \E w \in Worker : Apply(w)
  \/ \E w \in Worker, h \in Host : PongArrives(w, h) \/ PingArrives(w, h)

Next == Steps \/ Tick \/ \E h \in Host : Lose(h)

Spec == Init /\ [][Next]_vars

(* A prompt system: no packet is lost, and nothing that can be done waits  *)
(* for the next tick.                                                      *)
Quiet ==
  /\ \A t \in Pinger : \/ pinger[t].pc = "idle" /\ queue = <<>>
                       \/ pinger[t].pc = "sleep" /\ pinger[t].n > 0
  /\ \A w \in Worker : worker[w].pc = "idle"
  /\ pongs = {}

PromptNext == Steps \/ (Quiet /\ Tick)

PromptSpec == Init /\ [][PromptNext]_vars

(* The threads run, and so does time.                                      *)
FairSpec ==
  /\ Spec
  /\ SF_vars(Tick)
  /\ \A t \in Pinger : WF_vars(Ping(t))
  /\ \A w \in Worker : WF_vars(Apply(w))

-----------------------------------------------------------------------------
PingerRecord ==
  [pc : {"idle", "check", "drop", "sleep", "count", "look"},
   s : Servlet \cup {None}, n : Nat]

WorkerRecord ==
  [pc : {"idle", "add", "added", "learn", "learned"}, from : Host \cup {None},
   names : Host \cup {None}, found : Servlet \cup {None}]

TypeOK ==
  /\ sockets \in Seq(Servlet) /\ possible \in Seq(Servlet) /\ queue \in Seq(Servlet)
  /\ servlet \in [Servlet -> ServletRecord]
  /\ pinger \in [Pinger -> PingerRecord]
  /\ \A t \in Pinger :
       /\ pinger[t].s = None <=> pinger[t].pc \in {"idle", "count", "look"}
       /\ pinger[t].n <= IF pinger[t].pc = "look" THEN LookLast + 1 ELSE SleepTime
  /\ worker \in [Worker -> WorkerRecord]
  /\ \A w \in Worker :
       /\ worker[w].from = None <=> worker[w].pc = "idle"
       /\ worker[w].pc \in {"learn", "learned"} => worker[w].names # None
  /\ adding \in Worker \cup {None}
  /\ pongs \subseteq Host
  /\ alive \in [Host -> BOOLEAN]
  /\ asked \in BOOLEAN

Times(l, s) == Cardinality({i \in DOMAIN l : l[i] = s})

(* Every servlet of the list is pinged, by one task for each time it is    *)
(* listed, and no servlet that left the list is pinged any more.           *)
ListedArePinged == \A s \in Servlet :
  Times(sockets, s) =
    Times(queue, s) + Cardinality({t \in Pinger : pinger[t].s = s})

(* Packets never list the same host twice, however many threads handle     *)
(* packets of that host at once.                                           *)
HeardOnce == \A i, j \in DOMAIN sockets :
  /\ servlet[sockets[i]].addr = servlet[sockets[j]].addr
  /\ servlet[sockets[i]].via = "packet" /\ servlet[sockets[j]].via = "packet"
  => i = j

(* README: when the servlets run out, others are looked for or the user is *)
(* asked: somebody always does, whoever drops the last one.                *)
NeverStranded ==
  sockets = <<>> => asked \/ \E t \in Pinger : pinger[t].pc \in {"count", "look"}

Listed(h) == \E i \in DOMAIN sockets : servlet[sockets[i]].addr = h
Possible(h) == \E i \in DOMAIN possible : servlet[possible[i]].addr = h

(* A host that no longer runs leaves the list.                             *)
SilentGoes == \A h \in Host : ~alive[h] ~> ~Listed(h)

(* README: "if the possible list is empty it asks the user for another ip  *)
(* address": when no host answers any more, the user is asked in the end.  *)
OutOfHostsAsks == (\A h \in Host : ~alive[h]) ~> asked

(* README: a machine is removed "if it has not recieved a pong within 30   *)
(* seconds": one that runs and answers every ping at once is not given up, *)
(* unless another record lists it too, or it is a possible server: one is  *)
(* listed with the age it has, and may take the answers on its way out.    *)
AnsweringStays == \A t \in Pinger :
  pinger[t].pc = "drop" =>
    LET s == pinger[t].s
        h == servlet[s].addr
    IN \/ ~alive[h]
       \/ Possible(h)
       \/ \E i \in DOMAIN sockets : sockets[i] # s /\ servlet[sockets[i]].addr = h

(* README: "it adds the first 5 to the list of active hosts".              *)
LooksForFive == \A t \in Pinger : pinger[t].pc = "look" => pinger[t].n <= LookLast

(* add_upstream_server: "1. Check if the incoming server is already in the *)
(* list", "2. Add it": no host is a possible server twice.                 *)
PossibleOnce == \A i, j \in DOMAIN possible :
  servlet[possible[i]].addr = servlet[possible[j]].addr => i = j
=============================================================================
