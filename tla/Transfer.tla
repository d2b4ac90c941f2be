------------------------------- MODULE Transfer -------------------------------
(***************************************************************************)
(* A file on its way from the Pingu that offers it to the one that asked   *)
(* (pingu/download.c).  Every REQUEST_WANTFILE the sender handles becomes  *)
(* an offer: a listening socket, a REPLY_TRANSFERWAITING, and a task for   *)
(* the pool that accepts and sends.  Every REPLY_TRANSFERWAITING the       *)
(* receiver handles becomes a fetch: a connection, a file made by creat,   *)
(* and a task for the pool that copies.  Packets are UDP: a request or a   *)
(* reply is handled never, once or many times.  Calls fail, connections    *)
(* break, and either program may end and be started again.                 *)
(*                                                                         *)
(* One file, one sender, one receiver.  The file is a row of Size cells,   *)
(* numbered from 1; a cell stands for half of the sender's buffer or less. *)
(***************************************************************************)
EXTENDS Naturals, FiniteSets, Sequences

CONSTANTS
  Offer,         \* numbers for the requests the sender handles
  Fetch,         \* numbers for the replies the receiver handles
  None,          \* no offer, no connection
  Size,          \* the file's length, in cells
  Buffer,        \* BUFFER, the sender's buffer, in cells
  Window,        \* what the sockets of a connection hold, in cells
  Pools,         \* how many threads download_pool and upload_pool may have
  Together       \* bound: the kinds of faults that may come together, once each

(* accept fails; a write to a connection is short, a read of the file      *)
(* fails, the file is cut; a connection breaks; the sender's program ends; *)
(* the receiver's disk is full; the receiver's program ends.               *)
Kinds == {"accept", "short", "read", "cut", "break", "quit", "disk", "leave"}

ASSUME TransferAssumption ==
  /\ Offer \subseteq Nat /\ Fetch \subseteq Nat
  /\ None \notin Fetch \cup Offer
  /\ {Size, Buffer, Window} \subseteq Nat \ {0}
  /\ Pools \subseteq [send : Nat \ {0}, fetch : Nat \ {0}]
  /\ Together \subseteq SUBSET Kinds

VARIABLES
  threads,  \* how many threads the two pools have (10 and 10)
  length,   \* how much of the file there is on the sender's disk
  offer,    \* how far each offer is, and its thread's place in the file
  queue,    \* the offers pushed to download_pool
  backlog,  \* the connections an offer's listening socket has not accepted
  taker,    \* the connection each offer accepted
  fetch,    \* how far each fetch is, of which offer, its place in its file
  fetches,  \* the fetches pushed to upload_pool
  stream,   \* the cells on their way over each connection
  ended,    \* how the sender's side ended: "no", "closed" or "reset"
  disk,     \* the file in the receiver's download directory
  faults    \* the faults there have been

vars == <<threads, length, offer, queue, backlog, taker, fetch, fetches, stream,
          ended, disk, faults>>

(* pos: where the next read starts; size: what the last one returned; left *)
(* what is to be written of it; put: what the current write has written.   *)
NoOffer == [at |-> "none", pos |-> 0, size |-> 0, left |-> 0, put |-> 0]
NoneYet == [at |-> "none", of |-> None, off |-> 0]

Init ==
  /\ threads \in Pools /\ length = Size
  /\ offer = [o \in Offer |-> NoOffer]
  /\ queue = <<>> /\ fetches = <<>>
  /\ backlog = [o \in Offer |-> <<>>]
  /\ taker = [o \in Offer |-> None]
  /\ fetch = [f \in Fetch |-> NoneYet]
  /\ stream = [f \in Fetch |-> <<>>]
  /\ ended = [f \in Fetch |-> "no"]
  /\ disk = <<>>
  /\ faults = {}

Fault(kind) ==
  /\ kind \notin faults /\ \E S \in Together : faults \cup {kind} \subseteq S
  /\ faults' = faults \cup {kind}

Go(o, stage) == offer' = [offer EXCEPT ![o].at = stage]
Step(f, stage) == fetch' = [fetch EXCEPT ![f].at = stage]
Close(f) == ended' = [ended EXCEPT ![f] = IF @ = "no" THEN "closed" ELSE @]

(* Offers and fetches are numbered as they come; their number is bounded.  *)
NextOffer(o) == offer[o].at = "none" /\ \A p \in Offer : p < o => offer[p].at # "none"
NextFetch(f) == fetch[f].at = "none" /\ \A g \in Fetch : g < f => fetch[g].at # "none"

-----------------------------------------------------------------------------
(* The sender: a thread of request_processors handles the request.         *)

(* The file is in the database, opens, and gets a socket: the reply goes   *)
(* out before the task is complete.                                        *)
SendReply(o) ==
  /\ NextOffer(o)
  /\ Go(o, "replied")
  /\ UNCHANGED <<threads, length, queue, backlog, taker, fetch, fetches, stream,
                 ended, disk, faults>>

(* It is not, or an error: NULL is all that is left to push, which the     *)
(* pool refuses.  Nobody is told.                                          *)
SendNothing(o) ==
  /\ NextOffer(o)
  /\ Go(o, "silent")
  /\ UNCHANGED <<threads, length, queue, backlog, taker, fetch, fetches, stream,
                 ended, disk, faults>>

PushOffer(o) ==
  /\ offer[o].at = "replied"
  /\ Go(o, "queued")
  /\ queue' = Append(queue, o)
  /\ UNCHANGED <<threads, length, backlog, taker, fetch, fetches, stream, ended, disk,
                 faults>>

(* A thread of download_pool runs download_send_accept.                    *)
Senders == {o \in Offer : offer[o].at \in {"accepting", "sending"}}

TakeOffer(o) ==
  /\ queue # <<>> /\ o = Head(queue) /\ Cardinality(Senders) < threads.send
  /\ queue' = Tail(queue)
  /\ Go(o, "accepting")
  /\ UNCHANGED <<threads, length, backlog, taker, fetch, fetches, stream, ended, disk,
                 faults>>

(* The first connection is accepted, and the listening socket closed: the  *)
(* others that were waiting there are reset.                               *)
Reset(f, o) == ended[f] = "no" /\ fetch[f].of = o /\ f # Head(backlog[o])

Accept(o) ==
  /\ offer[o].at = "accepting" /\ backlog[o] # <<>>
  /\ taker' = [taker EXCEPT ![o] = Head(backlog[o])]
  /\ ended' = [f \in Fetch |-> IF Reset(f, o) THEN "reset" ELSE ended[f]]
  /\ backlog' = [backlog EXCEPT ![o] = <<>>]
  /\ Go(o, "sending")
  /\ UNCHANGED <<threads, length, queue, fetch, fetches, stream, disk, faults>>

(* j, the length of the address that accept may fill in, is uninitialised: *)
(* when it is negative the connection is made, closed and refused.         *)
AcceptFails(o) ==
  /\ offer[o].at = "accepting" /\ backlog[o] # <<>> /\ Fault("accept")
  /\ Close(Head(backlog[o]))
  /\ backlog' = [backlog EXCEPT ![o] = Tail(@)]
  /\ Go(o, "dropped")
  /\ UNCHANGED <<threads, length, queue, taker, fetch, fetches, stream, disk>>

(* Somebody may cut the file while it is sent.                             *)
Truncate(n) ==
  /\ n < length /\ Fault("cut")
  /\ length' = n
  /\ UNCHANGED <<threads, offer, queue, backlog, taker, fetch, fetches, stream,
                 ended, disk>>

(* read: as much as the buffer takes or the file has left.  Mutation: the  *)
(* whole buffer is sent, however much was read.                            *)
AmountWhole(o) == Buffer

Amount(o) ==
  IF length - offer[o].pos < Buffer THEN length - offer[o].pos ELSE Buffer

ReadFile(o) ==
  /\ offer[o].at = "sending" /\ offer[o].left = 0 /\ offer[o].pos < length
  /\ offer' = [offer EXCEPT ![o] = [at |-> "sending", pos |-> @.pos + Amount(o),
                   size |-> Amount(o), left |-> Amount(o), put |-> 0]]
  /\ UNCHANGED <<threads, length, queue, backlog, taker, fetch, fetches, stream,
                 ended, disk, faults>>

(* write(sockid, buf, k) starts at the start of the buffer, always.        *)
Cell(o) == offer[o].pos - offer[o].size + offer[o].put + 1

(* The call writes cell by cell as there is room, and returns when all k   *)
(* are written.                                                            *)
Put(s) ==
  IF s.put + 1 = s.left THEN [s EXCEPT !.left = 0, !.put = 0]
  ELSE [s EXCEPT !.put = s.put + 1]

Write(o) == LET f == taker[o] IN
  /\ offer[o].at = "sending" /\ offer[o].left > 0
  /\ ended[f] = "no" /\ Len(stream[f]) < Window
  /\ stream' = [stream EXCEPT ![f] = Append(@, Cell(o))]
  /\ offer' = [offer EXCEPT ![o] = Put(@)]
  /\ UNCHANGED <<threads, length, queue, backlog, taker, fetch, fetches, ended, disk,
                 faults>>

(* Or it is interrupted and returns h < k.                                 *)
ShortWrite(o) ==
  /\ offer[o].at = "sending" /\ offer[o].put > 0 /\ Fault("short")
  /\ offer' = [offer EXCEPT ![o].left = @ - offer[o].put, ![o].put = 0]
  /\ UNCHANGED <<threads, length, queue, backlog, taker, fetch, fetches, stream,
                 ended, disk>>

(* read returns 0: the end of the file, wherever it is by now.  Mutation:  *)
(* the rest of the last buffer is not waited for.                          *)
AtEndEarly(o) == offer[o].pos >= length

AtEnd(o) == offer[o].pos >= length /\ offer[o].left = 0

(* Mutation: without the close.                                            *)
FinishOpen(o) ==
  /\ offer[o].at = "sending" /\ AtEnd(o)
  /\ Go(o, "finished")
  /\ UNCHANGED <<threads, length, queue, backlog, taker, fetch, fetches, stream,
                 ended, disk, faults>>

Finish(o) ==
  /\ offer[o].at = "sending" /\ AtEnd(o)
  /\ Close(taker[o])
  /\ Go(o, "finished")
  /\ UNCHANGED <<threads, length, queue, backlog, taker, fetch, fetches, stream,
                 disk, faults>>

(* Or it returns -1, which ends the loop like the end of the file.         *)
ReadFails(o) ==
  /\ offer[o].at = "sending" /\ offer[o].left = 0 /\ Fault("read")
  /\ Close(taker[o])
  /\ Go(o, "failed")
  /\ UNCHANGED <<threads, length, queue, backlog, taker, fetch, fetches, stream, disk>>

(* The sender's program ends, and is started again.  The system closes     *)
(* what it had open: what was written still arrives, and then the end, as  *)
(* from a sender that had finished; who was not accepted is reset.         *)
Live(o) == offer[o].at \in {"replied", "queued", "accepting", "sending", "dropped"}
Taken(f) == \E o \in Offer : taker[o] = f

SenderEnds ==
  /\ offer' = [o \in Offer |-> IF Live(o) THEN [offer[o] EXCEPT !.at = "lost"] ELSE offer[o]]
  /\ queue' = <<>>
  /\ backlog' = [o \in Offer |-> <<>>]
  /\ ended' = [f \in Fetch |-> IF ended[f] # "no" \/ fetch[f].of = None THEN ended[f]
                               ELSE IF Taken(f) THEN "closed" ELSE "reset"]
  /\ UNCHANGED <<threads, length, taker, fetch, fetches, stream, disk>>

SenderQuits == Fault("quit") /\ SenderEnds

(* A write to a connection that broke returns -1, and is repeated at once: *)
(* that raises SIGPIPE, which nobody handles, and the program ends.        *)
BrokenPipe(o) ==
  /\ offer[o].at = "sending" /\ offer[o].left > 0 /\ ended[taker[o]] = "reset"
  /\ SenderEnds
  /\ UNCHANGED faults

Send(o) == PushOffer(o) \/ TakeOffer(o) \/ Accept(o) \/ ReadFile(o) \/ Write(o)
           \/ Finish(o) \/ BrokenPipe(o)

(* A connection that was accepted breaks, under the eyes of both ends:     *)
(* what has not arrived is lost.                                           *)
Break(f) == \E n \in 0..Len(stream[f]) :
  /\ Taken(f) /\ ended[f] # "reset" /\ fetch[f].at \notin {"finished", "lost"}
  /\ Fault("break")
  /\ ended' = [ended EXCEPT ![f] = "reset"]
  /\ stream' = [stream EXCEPT ![f] = SubSeq(@, 1, n)]
  /\ UNCHANGED <<threads, length, offer, queue, backlog, taker, fetch, fetches, disk>>

-----------------------------------------------------------------------------
(* The receiver: a thread of request_processors handles the reply.  A      *)
(* connection to a listening socket is made before it is accepted.         *)
Listening(o) == offer[o].at \in {"replied", "queued", "accepting", "dropped"}

Connect(f, o) ==
  /\ NextFetch(f) /\ offer[o].at \notin {"none", "silent"}
  /\ IF Listening(o)
     THEN /\ backlog' = [backlog EXCEPT ![o] = Append(@, f)]
          /\ fetch' = [fetch EXCEPT ![f] = [at |-> "connected", of |-> o, off |-> 0]]
     ELSE /\ fetch' = [fetch EXCEPT ![f].at = "refused"]
          /\ UNCHANGED backlog
  /\ UNCHANGED <<threads, length, offer, queue, taker, fetches, stream, ended, disk,
                 faults>>

(* creat empties the file, whoever else is writing it.                     *)
Creat(f) ==
  /\ fetch[f].at = "connected"
  /\ disk' = <<>>
  /\ Step(f, "queued")
  /\ fetches' = Append(fetches, f)
  /\ UNCHANGED <<threads, length, offer, queue, backlog, taker, stream, ended, faults>>

(* Or it fails: the connection stays open, and nobody reads it.            *)
CreatFails(f) ==
  /\ fetch[f].at = "connected" /\ Fault("disk")
  /\ Step(f, "abandoned")
  /\ UNCHANGED <<threads, length, offer, queue, backlog, taker, fetches, stream,
                 ended, disk>>

(* A thread of upload_pool runs download_recv_fetch.                       *)
Fetchers == {f \in Fetch : fetch[f].at = "copying"}

TakeFetch(f) ==
  /\ fetches # <<>> /\ f = Head(fetches) /\ Cardinality(Fetchers) < threads.fetch
  /\ fetches' = Tail(fetches)
  /\ Step(f, "copying")
  /\ UNCHANGED <<threads, length, offer, queue, backlog, taker, stream, ended, disk,
                 faults>>

(* write at an offset of the descriptor's own: past the end of a file that *)
(* was emptied meanwhile it leaves a hole, which reads as zero.            *)
Written(d, at, cells) ==
  LET end == at + Len(cells)
  IN  [i \in 1..(IF Len(d) > end THEN Len(d) ELSE end) |->
         IF i \in at + 1..end THEN cells[i - at] ELSE IF i <= Len(d) THEN d[i] ELSE 0]

(* read whatever has come, r cells, and write w of them.                   *)
Move(f, r, w) ==
  /\ stream' = [stream EXCEPT ![f] = SubSeq(@, r + 1, Len(@))]
  /\ disk' = IF w = 0 THEN disk
             ELSE Written(disk, fetch[f].off, SubSeq(stream[f], 1, w))
  /\ UNCHANGED <<threads, length, offer, queue, backlog, taker, fetches, ended>>

Copy(f) == \E r \in 1..Len(stream[f]) :
  /\ fetch[f].at = "copying"
  /\ Move(f, r, r)
  /\ fetch' = [fetch EXCEPT ![f].off = @ + r]
  /\ UNCHANGED faults

(* The disk is full: part is written, which nobody looks at, or write      *)
(* returns -1 and the task ends with its descriptors open.                 *)
CopyBadly(f) == \E r \in 1..Len(stream[f]) : \E w \in 0..r - 1 :
  /\ fetch[f].at = "copying" /\ Fault("disk")
  /\ Move(f, r, w)
  /\ fetch' = [fetch EXCEPT ![f].off = @ + w,
                 ![f].at = IF w = 0 THEN "abandoned" ELSE "copying"]

(* read returns 0, or -1 for a connection that was reset: all the same.    *)
(* Mutation: so does a connection that has brought nothing yet.            *)
EndFetchEarly(f) ==
  /\ fetch[f].at = "copying" /\ stream[f] = <<>>
  /\ Step(f, "finished")
  /\ UNCHANGED <<threads, length, offer, queue, backlog, taker, fetches, stream,
                 ended, disk, faults>>

EndFetch(f) ==
  /\ fetch[f].at = "copying" /\ stream[f] = <<>> /\ ended[f] # "no"
  /\ Step(f, "finished")
  /\ UNCHANGED <<threads, length, offer, queue, backlog, taker, fetches, stream,
                 ended, disk, faults>>

(* The receiver's program ends, and is started again.                      *)
ReceiverQuits ==
  /\ Fault("leave")
  /\ fetch' = [f \in Fetch |->
       IF fetch[f].at \in {"connected", "queued", "copying", "abandoned"}
       THEN [fetch[f] EXCEPT !.at = "lost"] ELSE fetch[f]]
  /\ fetches' = <<>>
  /\ ended' = [f \in Fetch |-> IF ended[f] = "no" /\ fetch[f].of # None
                               THEN "reset" ELSE ended[f]]
  /\ UNCHANGED <<threads, length, offer, queue, backlog, taker, stream, disk>>

Receive(f) == Creat(f) \/ TakeFetch(f) \/ Copy(f) \/ EndFetch(f)

Next ==
  \/ \E o \in Offer : SendReply(o) \/ SendNothing(o) \/ Send(o)
  \/ \E o \in Offer : AcceptFails(o) \/ ShortWrite(o) \/ ReadFails(o)
  \/ \E f \in Fetch : Receive(f) \/ CreatFails(f) \/ CopyBadly(f) \/ Break(f)
  \/ SenderQuits \/ ReceiverQuits \/ \E n \in 0..Size : Truncate(n)
  \/ \E f \in Fetch, o \in Offer : Connect(f, o)

Spec == Init /\ [][Next]_vars

(* The threads run.  Nobody has to ask, and no packet has to arrive.       *)
FairSpec ==
  /\ Spec
  /\ \A o \in Offer : WF_vars(Send(o))
  /\ \A f \in Fetch : WF_vars(Receive(f))

-----------------------------------------------------------------------------
OfferRecord ==
  [at : {"none", "silent", "replied", "queued", "accepting", "sending",
         "finished", "failed", "dropped", "lost"},
   pos : 0..Size, size : 0..Buffer, left : 0..Buffer, put : 0..Buffer]

FetchRecord ==
  [at : {"none", "refused", "connected", "queued", "copying", "finished",
         "abandoned", "lost"},
   of : Offer \cup {None}, off : 0..Size]

TypeOK ==
  /\ offer \in [Offer -> OfferRecord]
  /\ fetch \in [Fetch -> FetchRecord]
  /\ queue \in Seq(Offer) /\ fetches \in Seq(Fetch)
  /\ backlog \in [Offer -> Seq(Fetch)]
  /\ taker \in [Offer -> Fetch \cup {None}]
  /\ stream \in [Fetch -> Seq(1..Size)]
  /\ ended \in [Fetch -> {"no", "closed", "reset"}]
  /\ disk \in Seq(0..Size)
  /\ length \in 0..Size
  /\ faults \subseteq Kinds

File == [i \in 1..Size |-> i]

(* However many downloads of the file run at once, each emptying it and    *)
(* writing at places of its own: when all are over and were served, the    *)
(* file on disk is the file that was offered.  It takes a fault, or a      *)
(* repeated reply whose connection is reset, to spoil it.                  *)
Served(f) == fetch[f].at = "finished" /\ ended[f] = "closed"

Intact ==
  /\ faults = {}
  /\ \E f \in Fetch : Served(f)
  /\ \A f \in Fetch : fetch[f].at \in {"none", "refused", "connected"} \/ Served(f)
  => disk = File

(* What a download that came to its end has read.  Of a connection nobody  *)
(* took, nothing; of one that lasted until the sender closed it, all that  *)
(* the sender had read: the whole file, unless a read failed or the file   *)
(* was cut.  So refused and repeated connections and short writes never    *)
(* leave a part, and a part is left only by a sender that stopped early or *)
(* a connection that broke.  The receiver takes each for the whole file.   *)
WholeOrCutShort == \A f \in Fetch :
  fetch[f].at = "finished" /\ "disk" \notin faults =>
    \/ ~Taken(f) /\ fetch[f].off = 0
    \/ ended[f] = "reset"
    \/ \E o \in Offer : taker[o] = f /\ offer[o].at = "lost"
    \/ \E o \in Offer :
         /\ taker[o] = f /\ offer[o].at \in {"finished", "failed"}
         /\ fetch[f].off = offer[o].pos
         /\ offer[o].at = "finished" /\ "cut" \notin faults => offer[o].pos = Size

(* The sender gives each offer to one connection, piece by piece, and ends *)
(* it in order only when all that was read has been written, short writes  *)
(* or not, and the file then had no more.                                  *)
D == INSTANCE Delivery WITH
       NoFetch <- None,
       given <- [o \in Offer |-> offer[o].pos - offer[o].left + offer[o].put],
       over <- {o \in Offer : offer[o].at = "finished"},
       stopped <- {o \in Offer : offer[o].at \in {"failed", "lost"}}

Delivered == D!Spec

(* Every thread that could send waits for ever: for a connection that does *)
(* not come, or for a receiver that does not read.                         *)
Waits(o) ==
  \/ offer[o].at = "accepting" /\ backlog[o] = <<>>
  \/ /\ offer[o].at = "sending" /\ offer[o].left > 0
     /\ Len(stream[taker[o]]) = Window
     /\ fetch[taker[o]].at \in {"queued", "abandoned"}

SendersHeld ==
  /\ Cardinality(Senders) = threads.send
  /\ \A o \in Senders : Waits(o)

(* Every download that was connected comes to its end.                     *)
ConnectedEnd == \A f \in Fetch :
  fetch[f].at \in {"connected", "queued", "copying"}
    ~> fetch[f].at \in {"finished", "abandoned", "lost"}

(* Every download that was connected comes to its end, unless accept       *)
(* failed or the sender's threads are all held in the end.                 *)
FetchesEnd ==
  \/ ConnectedEnd
  \/ <>("accept" \in faults)
  \/ <>[]SendersHeld

(* download.c:290, "Finished writing file to disk": what is finished is    *)
(* the file, or nothing.                                                   *)
FinishedIsWhole == \A f \in Fetch :
  fetch[f].at = "finished" /\ "disk" \notin faults => fetch[f].off \in {0, Size}

(* download.c:204, "send the file down the new socket": a download that is *)
(* the only one has each cell of the file at its place.                    *)
OwnCells == \A f \in Fetch :
  /\ fetch[f].at = "finished" /\ "disk" \notin faults
  /\ \A g \in Fetch \ {f} : fetch[g].at \in {"none", "refused"}
  => \A i \in 1..Len(disk) : disk[i] = i

(* A sender's program outlives its receivers.                              *)
SenderOutlives == [][~ \E o \in Offer : BrokenPipe(o)]_vars

(* protocol-notes: "The client can either Send you a file_found" or "Send  *)
(* you a file_not_found": whoever asks gets an answer.                     *)
AskerAnswered == \A o \in Offer : offer[o].at # "silent"
=============================================================================
