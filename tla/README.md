# Verification of Pingu

`src/` holds four unrelated student programs. The largest, Pingu (`src/pingu`), is a peer-to-peer
file sharing client in C: a GTK window, a UDP protocol between servlets, TCP transfers, and a thread
or a thread pool for every job. This directory holds TLA+ models of it, TLC configurations that check
them on small instances, and theorems about them that TLAPS proves. The other three programs
(`diplomacy`, `Partial_Function_Application_In_Java`, `Optimising-Brainfuck-Interpretter-Haskell`)
are sequential and share nothing with Pingu; they are not modelled.

## 1. Inventory

### Components of Pingu

| component | state | operations | runs in |
|---|---|---|---|
| request handler (`request_handler.c`) | `tree`: number -> request record; the sweep's `list`; the lock `request_start` | `request_start`, `request_end`, `request_get`, `request_do_timeout` | GUI thread, pool threads, timer thread |
| search client (`filesearch.c`, `gui.c`) | the notebook's tabs and labels, the results of each search, the fields `data`, `widget` of request records | search, close a tab, a reply arrives, a timeout is reported | GUI thread (with the GDK lock), pool threads, timer |
| search server (`filesearch.c`, `socket.c`) | none of its own: reads the file database and `sockets` | answer a search, pass it on with a smaller TTL | pool threads |
| peers (`socket.c`) | `sockets`, `possible_servers`, the times of each servlet, the pool of pingers | a ping or pong arrives, a pinger wakes, a peer times out, look for new servers, connect to a host | pool threads, pingers, GUI thread |
| transfer (`download.c`) | the sockets and files of each transfer, two pools of ten threads | offer a file, accept and send, connect and receive | pool threads |
| file database (`file_db.c`) | the list of files, `lastupdate` | rescan the directory every second, hand out the list | timer thread; readers in the pools |
| list model (`model_gslist.c`) | a list shared with its owner, the rows the view was told of | append, delete | any thread |
| packets (`socket.c`, `protocol.h`) | none | convert to and from bytes, dispatch on the operation | pool threads |

They interact through calls and through shared memory. A packet that `incoming` reads is handed to a
pool thread, which calls the handler of its operation (`apply_packet`). The thread that rescans the
directory also sweeps the request table once a second, and so runs the timeout callbacks, which take
the GDK lock to change a label. GUI handlers run with the GDK lock held and call the request handler
and the sockets directly. Every list is a bare `GSList` read without its lock.

### What is hard about it

* Concurrency: about eighty threads, five locks with no common order, lists read without them.
* Delivery: every search, reply, ping and pong is one UDP packet, which may be lost, repeated or late.
* Memory: records are freed by the timer while pointers to them are in other threads' hands.
* Time: timeouts race with answers; sleeping threads hold places of a bounded pool.

### What makes each component correct

* Request handler: a number leads to the record that carries it and to no freed one; an expired
  request is reported once, and in the end; a record is freed only when nobody wants it.
* Search client: replies go to the search they answer, or nowhere; no click hangs; a closed tab is
  the tab that goes.
* Search server: a search reaches the servlets within its hops, and then ends; answers go to its origin.
* Peers: the servlets listed are the ones being pinged; a silent one goes, one that answers stays.
* Transfer: the file received is the file sent; no thread waits for ever.
* File database: a reader never sees freed entries; the list follows the directory.
* List model: the rows announced to the view are the rows of the list.

The hazards, each at its line and with the properties that cover it, are in `PROJECT.json`.

## 2. Plan

The seven modules of Pingu's own core are written, checked and proved about, in this order:

1. `RequestHandler`, with `RequestHandlerProofs`: the table that everything else hangs on.
2. `SearchClient`, with `SearchClientProofs`: the table with its real callers and both locks. It
   extends `RequestHandler`; that it implements it is a theorem.
3. `Flood`, with `FloodProofs`: the search server and the forwarding of searches over a network.
4. `Peers`, with `PeersProofs`: the list of servlets, their pingers and timeouts.
5. `Transfer`, with `TransferProofs`: offer, accept, connect, the two copying loops, the bounded pools.
   Its abstract specification is `Delivery`, which it implements.
6. `FileDb`, with `FileDbProofs`: rescans of the directory against the readers of the list.
7. `ListModel`, with `ListModelProofs`: a list behind a view, node by node, as its callers change it.

Modules 4 and 7 overlap on purpose. `Peers` takes an operation on a list as one step, and asks what the
threads do with the servlets; `ListModel` takes it apart, and asks what becomes of the list.

What is left: a run for each of the disagreements of section 6 that has none; `closedown`.

## 3. The modules and the code

Sections 3 to 6 describe what is there. `PROJECT.json` maps every definition to its lines.

### RequestHandler (`request_handler.c`)

A record is an address of the heap. `mem` is the contents of each address and outlives `free`, because
the code writes `k->timedout` after it freed `k`; `alloc` are the addresses in use, `pending` those
that were allocated but not yet passed to `request_start`. `tree` is the GTree. `Finds` says which
number `find_next_number` returns, including what its 16-bit count does when all numbers are taken.
`RequestStart` and `RequestEnd` are the bodies of the functions, under the lock; the sweep is
`SweepBegin` (take the lock, collect the expired records), then for each record `SweepCallback`,
`SweepRelease` and `SweepMark`, then `SweepEnd`. Clients run between any two steps of the sweep, as far
as the lock allows: they may allocate, which is how a freed record comes to be written to. The clients
are open: anyone may start and end anything.

### SearchClient (`filesearch.c`, `gui.c`, the start of `download.c`)

Extends `RequestHandler` with its real callers. `gui` is the handler the GUI thread is in; the GDK lock
is held exactly while it is not idle. `asking` is the label the timer wants to change, for which it
needs that lock while it holds `request_start`. `handling` are the replies between `request_get` and the
use of what it returned; `Workers` bounds them, as the pool of threads does. `owner` is the search that
a record's `data` and `widget` fields lead to; after `malloc` it is that of the record's former owner, or
garbage. A reply is `ReplyGet` (with the lock) followed by `ReplyUse` (without). `searchfile` sets
`starttime` before it calls `request_start`, which overwrites it: the first value is left out.
`ReplyUse` reads `active` and `data` in one step.

### Flood (`get_request_search`, `searchfile`, the sending loops of `socket.c`)

Every servlet of a network and one search. `net` holds the packets that were sent and never shrinks:
a packet may arrive never, once or many times. `known` is each servlet's list; it does not change during
the search. Files are abstracted to `hit`, whether some file matches. `TTLOnward` is the arithmetic on
the TTL, `OriginOf` the rule by which the address in the data is filled in.

### Peers (the rest of `socket.c`)

`sockets`, `possible_servers` and the pool's queue are sequences of `Servlet` records. A thread of
`pingers` goes through `Take` (ping if it is time), `Check`, and either sleep and `Wake`, or `Drop`,
`Count` and `Look`, one servlet at a time. A thread of `request_processors` handles a ping or a pong in
`AddFind` and `AddFinish`, with the lock `add_address`, then `LearnFind` and `LearnAdd`, with none.
Times are ages in ticks of about four seconds, saturated one above their limit, which is all that the
comparisons tell apart. `g_slist_remove(possible_servers, possible_servers)` removes nothing, and so
`LookEnd` leaves `possible` alone. `free_servlet` does nothing; the model lets a record that nothing
points to be used again, with its contents forgotten. The operations on a `GSList` are single steps
here, `Drop` among them, which in the code removes the servlet without a lock (`socket.c:470`): what happens
in the middle of that is the subject of `ListModel`, and what is said here of `sockets` holds of the threads
that use it, provided the list itself survives.

### Transfer and Delivery (`download.c`)

Every `REQUEST_WANTFILE` the sender handles becomes an offer, every `REPLY_TRANSFERWAITING` the receiver
handles a fetch; both packets may be handled never, once or many times, and so both are numbered by how
often they were. `offer[o]` is the thread of `download_pool` with its place in the file (`pos`), in the
buffer (`size`, `left`) and in the current `write` (`put`); `fetch[f]` is the thread of `upload_pool` with
the offset of its descriptor. A pool is a queue and a number of threads. `backlog` are the connections a
listening socket holds, `stream` what is on its way over a connection, `ended` how its sender's side
ended. The file is a row of numbered cells, so that `disk` shows which part of it was written where.
`creat` empties the file under whoever else is writing it.

The faults (`Kinds`) are: `accept` fails (its length argument is uninitialised); a `write` to a connection
returns early, and the loop sends the start of the buffer again (`ShortWrite`); a `read` of the file
returns -1 (`ReadFails`), or finds less than there was (`Truncate`, `length`); an accepted connection
breaks, and what was on its way is lost (`Break`); the sender's program ends (`SenderQuits`), upon which
the system closes its connections in order; the receiver's disk takes less than it is given; the receiver's
program ends (`ReceiverQuits`). Each kind happens at most once; which may come together is the constant
`Together`. A sender that writes to a connection that broke ends too, by `SIGPIPE` (`BrokenPipe`), and takes
all its other transfers with it. Both loops end on every `read` that returns 0 or less, whatever the reason:
the sender then closes the connection as at the end of the file (`Finish`, `ReadFails`), and the receiver
takes what it has for the whole file (`EndFetch`). A connection that falls silent without either end being
told is not modelled: its threads wait.

`Delivery` is what the sender promises: one connection takes an offer, is given what the file holds piece by
piece, and is told that the file is over only when it was given all there then is. The file may be cut, and
an offer stopped. `given` maps to `pos - left + put` of the offer, `over` to the offers that are finished,
`stopped` to those that failed or were lost; pools, backlogs and the receiver's disk vanish.

### FileDb (`file_db.c`, its readers in `filesearch.c` and `download.c`)

`scan` is the scanning thread between `stat`, the freeing of the old list, `readdir`, the digest and the
end, with the lock `create_filenametomd5` held from `Begin` to `End`. `rest` is what `readdir` may still
return, `due` what it must. `mtime` is the directory's modification time in whole seconds. Files come and
go at any time. The result of `stat` is not checked, so for one that goes after `readdir` the answer for an
earlier entry is used: it is passed over, or opened, which ends the program (`Sum`). A reader
passes the lock (`Pass`), reads the head (`GetHead`) and then walks without it; `scans` counts the lists
that were freed, and a reader whose list was freed (`Gone`) may only `Touch` it, which is where the code's
behaviour is undefined. Digests, sizes and names are left out.

### ListModel (`model_gslist.c`, its callers in `socket.c` and `filesearch.c`)

A `GSList` is its first node, and every user keeps that pointer for itself: `sockets` for socket.c, `list`
for the model. An append is `BeginAdd` (find the last node), `Link`, `Keep` (write the head back) and
`Announce` (the model takes the list and tells the view of a row); a removal is `BeginRemove` (the row's
index), `WalkToItem`, `Unlink`, `StoreHead`, `ReturnHead` (read the model's head again) and `KeepHead`
(`sockets = ...`). For the servers an append holds `socket_list`;
a removal holds nothing; results are appended with no lock. An asker of servers walks `sockets` in
`generate_reply_servers` under its own lock, and the view walks `list` with none. `mixed` records that an
operation overlapped with a removal, or two appends of results did; `broken` that a freed node was used.
What is met from a node on (`Met`) is the least set that has the node and what follows each of its nodes:
the same as walking, and without a recursive definition, which could not be reasoned about.

## 4. Runs

| run | instance | what it shows |
|---|---|---|
| RequestTable | 3 records, numbers 0..2, time 0..4 | the invariants of the table, the inductive invariant, and that every expired request is told and every ended one freed |
| SearchClient | 2 searches, 1 download, 2 records, 2 pool threads | replies to a search that has a record are never misfiled or fatal; the fixed pages stay |
| SearchClientLive | 2 searches, no pool threads | clicks are served and searches finish, unless the locks were taken in opposite orders |
| TimeoutsReported | the same | with that exception taken away: the deadlock (a violation) |
| LateReplies | 2 searches, 1 pool thread | a reply after its record was freed crashes the program (a violation) |
| Flood | 5 servlets: all paths and rings, and all mutual networks of four with a fifth behind one of them | hops, origins, TTLs; without loss everyone within three hops answers |
| PeersPrompt | 2 hosts, 1 of them named by the other, 3 records, 2 pingers, 2 pool threads, a prompt network | what is listed is what is pinged; whoever drops the last servlet looks for others; a host that answers stays; two threads never list a host twice |
| PeersLive | 1 host, 2 records, 2 pingers | a dead host goes; the user is asked for another |
| OutOfHosts | 2 hosts that die, one of them a possible server | the user is never asked: dead servers are taken up for ever (a violation) |
| Transfer | 2 requests and 2 replies for a file of 3 cells, 1 or 2 threads in each pool, eight kinds of faults, two at a time | a download that ends has the whole file, or nothing, unless a read failed, the file was cut, the connection broke or the sender ended; without faults the disk gets the file; the transfer implements `Delivery`; downloads end unless the sender's threads are all held |
| FileDb | 2 files in the directory and 1 below it, 2 changes, 3 seconds, 1 reader | a list at rest is the directory; later changes are found; searches are complete; freed entries are read only after a change |
| ListModel | 3 servers, 2 of which may be removed, or 3 results; 2 askers and a view | what appends, and removals that overlap with nothing, leave of the list, its heads and its rows; askers are told of servers or of none; the view shows all rows |

### Bounds

* `RequestHandler`: two numbers besides 0 are enough to be used up, to have a gap, and to be reused
  while a record with the same number is being freed; a third record is the one without a number.
  `MaxTime` stops the clock, and no request is started that could not expire before.
* `SearchClient`: two searches are what the tabs need to be confused and two records what a search
  needs to be given another's. `Timeout` is 1 and `DefaultTimeout` 2 instead of 5 and 300: only their
  order and the fact that they differ are used.
* `Flood`: five servlets in a row are four hops, one more than a packet may make. `StandardTTL` is the
  real 3.
* `Peers`: two pingers are what two droppers need to meet, two pool threads what it takes to list a host
  twice. `Servlet` bounds the records in use: an action that needs one more waits. `LookLast` is 0 or 1
  where one or two possible servers are enough to reach the limit. `Named` and `Mortal` bound which hosts
  are named by others and which may die. `PongTime` is two ticks and `SleepTime` one in `PeersPrompt`, so
  that a host has time to answer between two looks at it, as in the program, where the three times are
  about 1, 7 and 1 ticks. What `AnsweringStays` needs of them and of the number of pingers is what its
  theorem assumes.
* `Transfer`: two requests and two replies are what a repeated packet makes of one, and enough for two
  downloads to write one file at once; pools of one thread are exhausted by the first that waits. A file
  of 3 cells takes a buffer of 2 twice, the second time short; a window of 2 lets a sender fill the
  connection of a receiver that does not read. `Together` pairs the kinds of faults that meet in one place
  of the code; each behaviour has the faults of one pair, each at most once. The theorems have no such bound
  on what comes together.
* `FileDb`: two changes are one that a scan sees and one it misses; three seconds are one before, one for
  and one after the scan. A reader depends on no other, so one is enough.
* `ListModel`: three nodes are a first, one between and a last; one of them stays, so that a list that
  is being changed is not always empty.

`CHECK_DEADLOCK FALSE` is set everywhere: clocks, packets and changes are bounded, and users may stop
clicking. The largest runs have 1,806,614 (`ListModel`), 474,708 (`FileDb`) and 309,672 (`Transfer`)
distinct states.

### Fairness

* `RequestHandler` and `SearchClient`: the timer thread pushes itself back into its pool at the end of
  every turn (`file_db.c:106`), and the clock runs. The timer lets go of `request_start` for a whole
  second in every turn (`sleep(1)`), so a thread that waits for the lock gets it: strong fairness for the
  steps that take one. The user owes nothing. For `ExpiryIsTold` and `EndedIsFreed` the fairness of the
  table's sweep assumes that the callback of a timeout returns. `TimeoutsReported` shows that the callback
  of a search may not; `ClicksServed` and `SearchesFinish` assume nothing of it, and excuse that case.
* `Flood`: `SearchReaches` assumes that no packet is lost and every servlet has a match. It says what the
  forwarding can reach; the network promises nothing of the kind.
* `Peers`: threads of a pool run, and time passes whatever the threads do (strong fairness, since a
  thread between reading and comparing the clock holds it up in the model). In `PromptSpec` nothing
  that can be done waits for the next tick; it is used for a safety property only.
* `Transfer`: the threads of the two pools, the accepting thread and the receiver's handler of a reply it
  has begun run (weak fairness of `Send(o)` and `Receive(f)`). No request or reply has to come, and no
  fault has to happen.
* `FileDb`: the scanning thread, which pushes itself again, runs. Files, clock and readers owe nothing.
  Since it is the thread that sweeps the request table, `LaterChangesListed` assumes, too, that callbacks
  return.
* `ListModel`: none; its properties are about safety.

## 5. Proofs

All with TLAPS, for every value of the constants that the named assumptions allow.

`RequestHandlerProofs` proves `IInv` inductive. `TreeSound` and `ToldOnce` are not inductive as they
stand, because between two steps the timer holds records that are about to be freed or were freed a
moment ago. `ListSound` says what the timer knows: its list is of expired records with distinct numbers,
each still in the table under its number, but for the one it has just freed and is about to mark.
`ToldSound` says that a record that was told and is not marked is the one in the timer's hands. Their
conjunction is proved for `Init` and action by action; `TableIsSound`, `ToldAtMostOnce`, `NoRequestLost`,
`TypeCorrect` and the action property `OnlyDoneFreed` follow.

`SearchClientProofs` proves that `SearchClient` implements `RequestHandler`: every step of the GUI, of
the timer and of the pool threads is a step or a stutter of the table. All theorems of the table hold
for the client (`ClientTableSafe`). On them rests `RepliesStay`. Call a search live when it was sent and
its record was not freed. `RInv` says that, until the numbers run out, a live search's number leads to a
record of its own (`Owned`), a thread that looked the number up holds that record (`Held`), and a search
that is being opened has a live record that no live search has (`Opening`). A start cannot disturb this
since the number it takes is free (`NoneLost`), a sweep only retires the search whose record it frees
(`ListSound`), so that the use of the pointer after the lock was released is safe for live searches.
`PagesKept` needs only that a tab that is being closed is beside the fixed pages (`TabsOK`).

`FloodProofs` proves `FloodInv`: the TTL of a packet says how far it has come. The origin sends
`StandardTTL`, which is more than 1 and counts as at most 2, so first receivers send 1, second ones 0,
and a 0 is never passed on; and the address in a packet is either missing, on packets that the origin
sent itself, or the origin's. `SearchStaysWithinHops` and `AnswersReachOrigin` follow, for any network.

`PeersProofs` proves types, `PacketsListOnce`, `SomebodyLooks` and `ListedPinged` for any hosts, threads,
records and times, and `AnsweringHostsStay` on conditions. A host is listed once by packets since the thread that did not find it holds `add_address` until
it has made the servlet (`Holder`, `NotFound`), and what others list meanwhile was learnt from replies
(`Learnt`), which the property leaves out. When the list is empty, the thread that took the last servlet
is about to count and, counting none, to look with none started (`Somebody`, `NoneCounted`), unless the
user has been asked. `ListedPinged` counts, for each servlet, its places in the list and the tasks that
ping it, in the queue or in a pinger's hands (`Held`): a push comes with a place, taking a task only moves
it, and whoever drops a place keeps no task (`Balanced`). Here and below the assumption that the pool of
pingers is finite is used.

`AnsweringHostsStay` says of a prompt system (`PromptSpec`) that `AnsweringStays` holds, for any hosts,
threads and records, under two conditions. One is on the constants, `PingTime + SleepTime <= PongTime`
(`TimesFit`), which 5, 4 and 30 seconds meet. The other is on the behaviour: that never more servlets are
listed than there are pingers (`EnoughThreads`), without which it is false. The invariant (`Timely`) is
about the servlet of a host that is listed first, which is the one `check_add_server` finds: as long as the
host runs and is no possible server, either an answer is on its way to it (`Pending`: in the network, with
a thread that will search, or with one that found it), or it was heard of no earlier than it was last
pinged, and will not be overdue when its thread has slept for as long as it still has to (`Fresh`). Time
passes only when no answer is on its way and every pinger sleeps or has nothing to do; then no servlet
waits in the queue, since there are as many tasks as places in the list (`Tally`), so each has a thread
that sleeps, and the tick takes as much from its sleep as it adds to its age. So the first of a host is
never dropped, hence stays the first, and what is dropped has it beside it. TLC checked `Timely` and
`Tally` before they were proved.

`TransferProofs` proves types, `WholeFiles`, `FilesIntact` and the refinement `Implements` for any numbers
of requests and replies, any sizes and pools, under every fault. A connection waits in the backlog of one
offer only, once and open (`Backlogs`), so the one an offer accepts is accepted by no other (`Takers`). What
it has read together with what is on its way is what the offer's thread has written, unless the disk lost
some or the connection was reset; so when it ended in order, and nothing is on its way, the receiver has
what the sender had read, and that is the whole file when the sender finished one that was not cut
(`Uncut`). `Places` relates the thread's places in file, buffer and call, which the refinement's `given` is
made of; `Fetches` and `Queued` say that a connection nobody accepted is empty and that an offer is pushed
once. `WholeFiles` is the exact account of the parts the code may leave: it fails for a sender that ends a
transfer before the last buffer is written. In the refinement a read that fails and the end of either program
stop offers, and a cut shortens the file; the end of the file is told only with all of it given.
For `FilesIntact` there is a second invariant, `Undamaged`, of what holds until the first fault: no accepted
connection is reset (`Unreset`), no sender stopped (`Sound`), and a buffer is written whole, so the cells on a connection are the ones that follow the receiver's place (`InPlace`),
so every write puts each cell at its place (`Cells`), and though every `creat` empties the file, one of
those that made it has on disk all it has read, the last to empty it
(`LastMade`). When all have read all of it, so has that one.

`FileDbProofs` proves types, `SafeUntilChanged`, `WholeAnswers` and `ListCurrent` for any files, readers,
changes and times. `Readers` says of each reader, by comparing the number of lists freed with the number
when it began, whether its entry is still there and what it has answered so far (`Collects`). `Seen` says
that while nothing of the directory's own has changed in a second the scan can tell from its own
(`Quiet`), what is listed and what is still to come make up the directory, each file once (`Holds`).

`ListModelProofs` proves all properties of `ListModel`, for any items and askers. It starts with lists:
what is met from a node is shown to have a property by showing that the nodes with the property are closed
under going on (`ReachLeast`), and from that what linking a last node and taking a node out do
(`ReachLinked`, `ReachCut`). `Base` holds however operations overlap, even after a freed node was used:
there are numbers that descend along the list (`Ordered`), a new node getting the lowest, so that a walk
to the last node ends (`ReachEnds`); the pointers of all users are to nodes that were made (`Pointers`).
`Sound` is about states in which nothing overlapped that should not. `SoundAlone` says nothing of the
middle of an operation, so `Alone` does, stage by stage: the nodes that are there are met from the head
that whoever is at work holds, the two heads are that one or the one before, and what was found, the last
node or the one before, still is that. A walk meets all it is still to meet (`Meets`), since an append
only adds to what is met from any node. `SoundList`, `ToldAll` and `AllShown` follow. `OneAnswer` needs
none of it: `found`, one variable for all, is about the walk of the asker that holds the lock (`Holder`).

Only model-checked is liveness (`ExpiryIsTold`, `EndedIsFreed`, `ClicksServed`, `SearchesFinish`,
`SearchReaches`, `SilentGoes`, `OutOfHostsAsks`, `FetchesEnd`, `LaterChangesListed`), which is beyond the
prover. Every invariant that a passing run checks is a theorem as well.

## 6. Disagreements between the code and what is said of it

The runs that end in a violation are listed with the lines they contradict under `findings` in
`PROJECT.json`: `TimeoutsReported` (the deadlock of the two locks), `LateRepliesHarmless` (a late reply
ends the process) and `OutOfHostsAsks` (the user is never asked for a host).

The following properties are stated in the modules and violated by the models, but have no run of
their own. To see one, put it in the place of the properties of the configuration that is named.

* `UniqueNumbers` (`RequestHandler`, `MCRequestHandler.cfg`): README:57-59 promises unique numbers; when
  all are used `request_start` hands out 0, and then 1 whether it is free or not
  (`request_handler.c:42`).
* `CloseRemovesOwnTab` (`SearchClient`, `MCSearchClient.cfg`): `gtk_notebook_page_num` is given a label,
  answers -1, and the last page goes, whichever tab was closed (`gui.c:154-157`).
* `RepliesToOwner` (`SearchClient`, one pool thread): the reply to a closed search is shown by the search
  that was given its number.
* `FullTimeout` (`SearchClient`): a tab says "Finished" after the 5 seconds of `request_start`
  (`request_handler.c:111`), not after the `DEFAULT_TIMEOUT` of `filesearch.c:244`.
* `PossibleOnce` (`Peers`, `Named = {h2}`, three records, one pinger, two pool threads): two replies at
  once make one host a possible server twice (`socket.c:244`).
* `LooksForFive` (`Peers` with `PromptSpec`, three hosts, `LookLast = 1`): `look_for_new_servers` starts
  six servers where the README says five (`socket.c:274`).
* `AnsweringStays` without its excuse for possible servers: one is taken up with the time at which it
  was heard of, and dropped at once (`socket.c:272`). It is not enough to excuse that record alone. When
  a host is a possible server twice, its two records can be listed before the one made for its packets,
  each be on its way out when an answer comes, and take the answer with it: the third is dropped for want
  of answers its host did send. TLC shows it from a state set up by hand, with four records and pingers,
  `PingTime` 0, `PongTime` and `SleepTime` 1; `PeersPrompt` is too small for it. With one pinger for four
  hosts `AnsweringStays` fails too: the README promises a thread per upstream, the pool has thirty
  (`socket.c:600`).
* `FinishedIsWhole` (`Transfer`, `MCTransfer.cfg`): the receiver says "Finished writing file to disk" of a part
  (`download.c:290`), after a broken connection, a failed read or a cut file (`download.c:206`, `:274`).
* `OwnCells` (`Transfer`, `Together` with the set `{"short"}` only): after a short write the bytes are wrong
  (`download.c:218`).
* `ConnectedEnd` (`Transfer`, `Together` with the empty set only): two requests and two replies, in an order
  in which the two pools wait for each other; also a sender's thread whose receiver never connects
  (`download.c:194`, `:218`).
* `SenderOutlives` (`Transfer`, `MCTransfer.cfg`): a receiver that goes away ends the sender's program, by the
  `SIGPIPE` of the second write to its connection, which nobody handles (`download.c:218`).
* `AskerAnswered` (`Transfer`, `MCTransfer.cfg`): who asks for a file that is gone gets no answer; `protocol-notes` says
  it gets a `file_not_found` (`download.c:75`).
* `WaitsForList` (`FileDb`): "Wait for the list to be built" (`file_db.c:71`); before the first scan
  begins, the lock is free and the list empty.
* `AnnouncedWhereInserted` (`ListModel`): "where it was inserted" (`model_gslist.c:632`); the row
  announced is always the first, while items are appended last. `get_path` looks up the node where the
  list holds data, and so finds no row for anything.

Met while reading, outside what the models say: changes below the directory, or in the second of the
last scan, are missed, the first as the comment at `file_db.c:77` admits (`UpToDate` excuses both); the directories a scan opens are never closed
(`file_db.c:158`);
`check_add_server` refreshes a servlet it found without the lock (`socket.c:220`); an unknown host makes
`do_connection` read through NULL with the lock held (`socket.c:437`); `closedown` frees what others
still use (`socket.c:387`).

## 7. Not modelled

* Of the modelled parts: the widgets, the contents of packets and files, `closedown`, the answers to
  others' pings, allocation that fails, descriptors that run out. In `model_gslist.c` the registration
  with GObject and the conversion of columns to values.
* Packets: their conversion to and from bytes. What a packet leads to (`apply_packet`) is in the modules
  of its handlers.
* `md5.c`, `md5.h` and `unlocked-io.h` are GNU coreutils. `download_file` is a test program.
* `diplomacy` loads a map of provinces and shows where a unit may go; the partial application library
  calls Java's reflection; the Brainfuck interpreter is a lazy functional program. All are sequential
  and apart from Pingu, whose threads and packets are what a model checker is needed for.
