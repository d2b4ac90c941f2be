---------------------------- MODULE TransferProofs ----------------------------
(***************************************************************************)
(* Proofs about Transfer: for any numbers of requests and replies, any     *)
(* file, buffer, window and pools, and any faults at once, a transfer      *)
(* keeps its types, a download that ends has all that the sender read or   *)
(* was cut short by a broken connection or the sender's end, the sender    *)
(* implements Delivery, and without a fault the file arrives as it was.    *)
(*                                                                         *)
(* The argument: a connection is made to one offer and waits in the        *)
(* backlog of that one only, once, not closed; so the one an offer accepts *)
(* is accepted by no other, and what it has read together with what is on  *)
(* its way is what the sender has written, until it is reset.  The sender  *)
(* closes it when the buffer is written and there is no more to read or a  *)
(* read failed.  Without a fault no accepted connection is reset, what is  *)
(* on its way are the cells that follow those that were read, all who      *)
(* write to the file on disk put each cell at its place, and one of them   *)
(* has written there all it has read: the last to empty it.                *)
(***************************************************************************)
EXTENDS Transfer, SequenceTheorems, TLAPS

(* What an offer's thread has written.                                     *)
Given(o) == offer[o].pos - offer[o].left + offer[o].put

(* The place in the file and in the buffer.                                *)
Places == \A o \in Offer :
  /\ offer[o].left <= offer[o].size /\ offer[o].size <= offer[o].pos
  /\ offer[o].put <= offer[o].left
  /\ offer[o].left > 0 => offer[o].put < offer[o].left
  /\ offer[o].at \notin {"sending", "finished", "failed", "lost"} => offer[o].pos = 0
  /\ offer[o].at \in {"finished", "failed"} => offer[o].left = 0
  /\ offer[o].at = "finished" => offer[o].pos >= length

Uncut == "cut" \notin faults => length = Size

(* The connection an offer accepted is its own, not closed while it sends, *)
(* and has lost nothing but what the disk lost, unless it was reset.       *)
Takers == \A o \in Offer :
  /\ offer[o].at \in {"sending", "finished", "failed"} => taker[o] # None
  /\ taker[o] # None =>
       /\ offer[o].at \in {"sending", "finished", "failed", "lost"}
       /\ fetch[taker[o]].of = o
       /\ ended[taker[o]] \in {IF offer[o].at = "sending" THEN "no" ELSE "closed", "reset"}
       /\ fetch[taker[o]].off + Len(stream[taker[o]]) <= Given(o)
       /\ "disk" \notin faults /\ ended[taker[o]] # "reset" =>
            fetch[taker[o]].off + Len(stream[taker[o]]) = Given(o)

(* The connections that wait for an offer are its own, each once, and not  *)
(* closed.                                                                 *)
Backlogs == \A o \in Offer :
  /\ \A i \in 1..Len(backlog[o]) :
       fetch[backlog[o][i]].of = o /\ ended[backlog[o][i]] \in {"no", "reset"}
  /\ \A i, j \in 1..Len(backlog[o]) : backlog[o][i] = backlog[o][j] => i = j
  /\ offer[o].at \in {"sending", "finished", "failed", "lost"} => backlog[o] = <<>>

(* A connection nobody accepted has carried nothing, one that is not made  *)
(* is nobody's and open, and one that came to its end is empty.            *)
Fetches == \A f \in Fetch :
  /\ fetch[f].at \in {"none", "refused"} => fetch[f].of = None
  /\ fetch[f].of = None => ended[f] = "no"
  /\ (\A o \in Offer : taker[o] # f) => stream[f] = <<>> /\ fetch[f].off = 0
  /\ fetch[f].at = "finished" => ended[f] # "no" /\ stream[f] = <<>>

(* An offer is pushed once: a thread that takes one starts it.             *)
Queued == \A i \in 1..Len(queue) :
  /\ offer[queue[i]].at = "queued"
  /\ \A j \in 1..Len(queue) : queue[i] = queue[j] => i = j

Inv == TypeOK /\ Places /\ Uncut /\ Takers /\ Backlogs /\ Fetches /\ Queued

(* Until there is a fault: what is to be written of the buffer is all of   *)
(* it, a connection holds the cells that follow the place of its file, and *)
(* it is closed by the offer that took it.                                 *)
Unbroken == \A o \in Offer : offer[o].left > 0 => offer[o].left = offer[o].size

InPlace == \A f \in Fetch : \A i \in 1..Len(stream[f]) : stream[f][i] = fetch[f].off + i

Untouched == \A f \in Fetch :
  fetch[f].at \in {"none", "refused", "connected", "queued"} => fetch[f].off = 0

OwnClosed == \A f \in Fetch : ended[f] = "closed" => \E o \in Offer : taker[o] = f

(* Only connections that nobody took, and that wait for nobody, are reset, *)
(* so every offer that starts to send comes to the end of the file.        *)
Unreset == \A f \in Fetch : ended[f] = "reset" =>
  \A o \in Offer : taker[o] # f /\ \A i \in 1..Len(backlog[o]) : backlog[o][i] # f

Sound == \A o \in Offer : offer[o].at \notin {"failed", "lost"}

(* The file on disk has each cell at its place or a hole there, and all    *)
(* that one of those that made it has copied: the last to empty it.        *)
Cells(d) == Len(d) <= Size /\ \A i \in 1..Len(d) : d[i] \in {0, i}

Covered(d, n) == n <= Len(d) /\ \A i \in 1..n : d[i] = i

Made(f) == fetch[f].at \in {"queued", "copying", "finished"}

LastMade == (\E f \in Fetch : Made(f)) =>
              \E c \in Fetch : Made(c) /\ Covered(disk, fetch[c].off)

Pushed == \A i \in 1..Len(fetches) : Made(fetches[i])

Faultless ==
  /\ Unbroken /\ InPlace /\ Untouched /\ OwnClosed /\ Unreset /\ Sound
  /\ Cells(disk) /\ LastMade /\ Pushed

Undamaged == faults = {} => Faultless

(* Sequences, element by element.                                          *)
LEMMA Appended ==
  ASSUME NEW S, NEW s \in Seq(S), NEW x \in S
  PROVE  /\ Append(s, x) \in Seq(S) /\ Len(s) \in Nat
         /\ Len(Append(s, x)) = Len(s) + 1
         /\ \A i \in 1..Len(s) : Append(s, x)[i] = s[i] /\ s[i] \in S
         /\ Append(s, x)[Len(s) + 1] = x
BY AppendProperties, LenProperties, ElementOfSeq

LEMMA SameBound ==
  ASSUME NEW n \in Nat, NEW m \in Nat, 1..n = 1..m
  PROVE  n = m
<1>1. n \in 1..m \/ n = 0
  OBVIOUS
<1>2. m \in 1..n \/ m = 0
  OBVIOUS
<1> QED BY <1>1, <1>2

LEMMA TailOf ==
  ASSUME NEW S, NEW s \in Seq(S), s # <<>>
  PROVE  /\ Head(s) = s[1] /\ s[1] \in S /\ Len(s) \in Nat \ {0}
         /\ Tail(s) \in Seq(S) /\ Len(Tail(s)) = Len(s) - 1
         /\ \A i \in 1..Len(s) - 1 : Tail(s)[i] = s[i + 1]
<1>1. Len(s) \in Nat \ {0}
  BY LenProperties, EmptySeq
<1> QED BY <1>1, HeadTailProperties, ElementOfSeq

(* Writing cells of a file over a file gives a file.                       *)
LEMMA WrittenType ==
  ASSUME NEW d \in Seq(0..Size), NEW cells \in Seq(0..Size), NEW at \in Nat
  PROVE  Written(d, at, cells) \in Seq(0..Size)
<1> DEFINE end == at + Len(cells)
           n == IF Len(d) > end THEN Len(d) ELSE end
           w == [i \in 1..n |->
                  IF i \in at + 1..end THEN cells[i - at] ELSE IF i <= Len(d) THEN d[i] ELSE 0]
<1>1. n \in Nat /\ end \in Nat
  BY LenProperties
<1>2. ASSUME NEW i \in 1..n
      PROVE  (IF i \in at + 1..end THEN cells[i - at] ELSE IF i <= Len(d) THEN d[i] ELSE 0)
               \in 0..Size
  <2>1. CASE i \in at + 1..end
    <3>1. i - at \in 1..Len(cells)
      BY <2>1, LenProperties
    <3> QED BY <2>1, <3>1, ElementOfSeq
  <2>2. CASE i \notin at + 1..end /\ i <= Len(d)
    <3>1. i \in 1..Len(d)
      BY <2>2, <1>1, LenProperties
    <3> QED BY <2>2, <3>1, ElementOfSeq
  <2>3. CASE i \notin at + 1..end /\ ~(i <= Len(d))
    BY <2>3, TransferAssumption
  <2> QED BY <2>1, <2>2, <2>3
<1>3. w \in [1..n -> 0..Size]
  BY <1>2
<1>4. w \in Seq(0..Size)
  BY <1>1, <1>3, SeqDef
<1>5. Written(d, at, cells) = w
  BY DEF Written
<1> QED BY <1>4, <1>5

(* What a step of an offer, or of a fetch, leaves.                         *)
LEMMA GoEffect ==
  ASSUME TypeOK, NEW o \in Offer,
         NEW s \in {"none", "silent", "replied", "queued", "accepting", "sending",
                   "finished", "failed", "dropped", "lost"},
         Go(o, s)
  PROVE  /\ offer' \in [Offer -> OfferRecord]
         /\ \A p \in Offer : p # o => offer'[p] = offer[p]
         /\ offer'[o].at = s /\ offer'[o].pos = offer[o].pos
         /\ offer'[o].size = offer[o].size /\ offer'[o].left = offer[o].left
         /\ offer'[o].put = offer[o].put
<1>1. offer[o] \in OfferRecord
  BY DEF TypeOK
<1>2. [offer[o] EXCEPT !.at = s] \in OfferRecord
  BY <1>1 DEF OfferRecord
<1>3. offer' = [offer EXCEPT ![o] = [offer[o] EXCEPT !.at = s]]
  BY DEF Go
<1>4. offer'[o] = [offer[o] EXCEPT !.at = s]
  BY <1>3 DEF TypeOK
<1>5. /\ offer'[o].at = s /\ offer'[o].pos = offer[o].pos
      /\ offer'[o].size = offer[o].size /\ offer'[o].left = offer[o].left
      /\ offer'[o].put = offer[o].put
  BY <1>1, <1>4 DEF OfferRecord
<1>6. offer' \in [Offer -> OfferRecord] /\ \A p \in Offer : p # o => offer'[p] = offer[p]
  BY <1>2, <1>3 DEF TypeOK
<1> QED BY <1>5, <1>6

LEMMA StepEffect ==
  ASSUME TypeOK, NEW f \in Fetch,
         NEW s \in {"none", "refused", "connected", "queued", "copying", "finished",
                   "abandoned", "lost"},
         Step(f, s)
  PROVE  /\ fetch' \in [Fetch -> FetchRecord]
         /\ \A g \in Fetch : g # f => fetch'[g] = fetch[g]
         /\ fetch'[f].at = s /\ fetch'[f].of = fetch[f].of
         /\ fetch'[f].off = fetch[f].off
<1>1. fetch[f] \in FetchRecord
  BY DEF TypeOK
<1>2. [fetch[f] EXCEPT !.at = s] \in FetchRecord
  BY <1>1 DEF FetchRecord
<1>3. fetch' = [fetch EXCEPT ![f] = [fetch[f] EXCEPT !.at = s]]
  BY DEF Step
<1>4. fetch'[f] = [fetch[f] EXCEPT !.at = s]
  BY <1>3 DEF TypeOK
<1>5. fetch'[f].at = s /\ fetch'[f].of = fetch[f].of /\ fetch'[f].off = fetch[f].off
  BY <1>1, <1>4 DEF FetchRecord
<1>6. fetch' \in [Fetch -> FetchRecord] /\ \A g \in Fetch : g # f => fetch'[g] = fetch[g]
  BY <1>2, <1>3 DEF TypeOK
<1> QED BY <1>5, <1>6

(* What the invariant says of numbers.                                     *)
LEMMA Numbers ==
  ASSUME TypeOK, NEW o \in Offer, NEW f \in Fetch
  PROVE  /\ offer[o].pos \in 0..Size /\ offer[o].size \in 0..Buffer
         /\ offer[o].left \in 0..Buffer /\ offer[o].put \in 0..Buffer
         /\ fetch[f].off \in 0..Size /\ fetch[f].of \in Offer \cup {None}
         /\ Len(stream[f]) \in Nat /\ Size \in Nat \ {0} /\ Buffer \in Nat \ {0}
BY LenProperties, TransferAssumption DEF TypeOK, OfferRecord, FetchRecord

LEMMA GivenBound ==
  ASSUME Inv, NEW o \in Offer
  PROVE  Given(o) \in 0..Size
<1>1. ASSUME NEW n \in 0..Size, NEW k \in 0..Buffer, NEW h \in 0..Buffer, k <= n, h <= k
      PROVE  n - k + h \in 0..Size
  BY <1>1, TransferAssumption
<1>2. /\ offer[o].pos \in 0..Size /\ offer[o].size \in 0..Buffer
      /\ offer[o].left \in 0..Buffer /\ offer[o].put \in 0..Buffer
  BY DEF Inv, TypeOK, OfferRecord
<1>3. offer[o].left <= offer[o].pos /\ offer[o].put <= offer[o].left
  BY <1>2, TransferAssumption DEF Inv, Places
<1> QED BY <1>1, <1>2, <1>3 DEF Given

LEMMA InitInv == Init => Inv
<1> SUFFICES ASSUME Init PROVE Inv
  OBVIOUS
<1> USE TransferAssumption
<1>1. TypeOK
  <2>1. 0 \in 0..Size /\ 0 \in 0..Buffer
    OBVIOUS
  <2> QED BY <2>1, EmptySeq DEF Init, TypeOK, NoOffer, NoneYet, OfferRecord, FetchRecord
<1>2. Places
  BY DEF Init, Places, NoOffer
<1>3. Takers
  BY DEF Init, Takers, NoOffer
<1>4. Backlogs
  BY DEF Init, Backlogs, NoOffer
<1>5. Fetches
  BY DEF Init, Fetches, NoneYet
<1>6. Uncut /\ Queued
  BY DEF Init, Uncut, Queued
<1> QED BY <1>1, <1>2, <1>3, <1>4, <1>5, <1>6 DEF Inv

(* The steps that only move an offer on: nothing is read or written.       *)
LEMMA GoInv ==
  ASSUME Inv, NEW o \in Offer, SendReply(o) \/ SendNothing(o) \/ PushOffer(o) \/ TakeOffer(o)
  PROVE  Inv'
<1>0. TypeOK /\ queue \in Seq(Offer)
  BY DEF Inv, TypeOK
<1>1. PICK s \in {"silent", "replied", "queued", "accepting"} : Go(o, s)
  BY DEF SendReply, SendNothing, PushOffer, TakeOffer
<1>2. /\ offer[o].at \in {"none", "replied", "queued"}
      /\ UNCHANGED <<length, backlog, taker, fetch, fetches, stream, ended, disk, faults>>
  <2>1. TakeOffer(o) => offer[o].at = "queued"
    <3> SUFFICES ASSUME TakeOffer(o) PROVE offer[o].at = "queued"
      OBVIOUS
    <3>1. o = queue[1] /\ 1 \in 1..Len(queue)
      BY <1>0, TailOf DEF TakeOffer
    <3> QED BY <3>1 DEF Inv, Queued
  <2> QED BY <2>1 DEF SendReply, SendNothing, PushOffer, TakeOffer, NextOffer
<1>3. /\ offer' \in [Offer -> OfferRecord]
      /\ \A p \in Offer : p # o => offer'[p] = offer[p]
      /\ offer'[o].at = s /\ offer'[o].pos = offer[o].pos
      /\ offer'[o].size = offer[o].size /\ offer'[o].left = offer[o].left
      /\ offer'[o].put = offer[o].put
  BY <1>0, <1>1, GoEffect
<1>4. queue' \in Seq(Offer) /\ Queued'
  <2>1. \A i \in 1..Len(queue) : queue[i] \in Offer /\ offer[queue[i]].at = "queued"
    BY <1>0, ElementOfSeq DEF Inv, Queued
  <2>2. CASE SendReply(o) \/ SendNothing(o)
    <3>1. queue' = queue /\ offer[o].at = "none"
      BY <2>2 DEF SendReply, SendNothing, NextOffer
    <3>2. \A i \in 1..Len(queue) : queue[i] # o
      BY <2>1, <3>1
    <3> QED BY <1>0, <1>3, <2>1, <3>1, <3>2 DEF Inv, Queued
  <2>3. CASE PushOffer(o)
    <3>1. queue' = Append(queue, o) /\ offer[o].at = "replied" /\ offer'[o].at = "queued"
      BY <1>0, <2>3, GoEffect DEF PushOffer
    <3>2. \A i \in 1..Len(queue) : queue[i] # o
      BY <2>1, <3>1
    <3> QED BY <1>0, <1>3, <2>1, <3>1, <3>2, Appended DEF Inv, Queued
  <2>4. CASE TakeOffer(o)
    <3>1. queue # <<>> /\ queue' = Tail(queue) /\ o = queue[1]
      BY <1>0, <2>4, TailOf DEF TakeOffer
    <3>2. /\ queue' \in Seq(Offer) /\ Len(queue) \in Nat \ {0} /\ Len(queue') = Len(queue) - 1
          /\ \A i \in 1..Len(queue) - 1 : queue'[i] = queue[i + 1]
      BY <1>0, <3>1, TailOf
    <3>3. \A i \in 1..Len(queue) - 1 : queue[i + 1] # o
      BY <3>1, <3>2 DEF Inv, Queued
    <3>4. \A i \in 1..Len(queue') : offer'[queue'[i]].at = "queued"
      <4>1. ASSUME NEW i \in 1..Len(queue')
            PROVE  /\ i \in 1..Len(queue) - 1 /\ i + 1 \in 1..Len(queue)
                   /\ queue'[i] = queue[i + 1]
        BY <3>2
      <4>2. ASSUME NEW i \in 1..Len(queue')
            PROVE  queue'[i] \in Offer /\ queue'[i] # o /\ offer[queue'[i]].at = "queued"
        BY <4>1, <2>1, <3>3
      <4> QED BY <4>2, <1>3
    <3>5. \A i, j \in 1..Len(queue') : queue'[i] = queue'[j] => i = j
      BY <3>2 DEF Inv, Queued
    <3> QED BY <3>2, <3>4, <3>5 DEF Queued
  <2> QED BY <2>2, <2>3, <2>4
<1>5. TypeOK'
  BY <1>2, <1>3, <1>4 DEF Inv, TypeOK
<1>6. Places' /\ Uncut'
  BY <1>2, <1>3 DEF Inv, Places, Uncut
<1>7. Takers'
  BY <1>2, <1>3 DEF Inv, Takers, Given
<1>8. Backlogs'
  BY <1>2, <1>3 DEF Inv, Backlogs
<1>9. Fetches'
  BY <1>2 DEF Inv, Fetches
<1> QED BY <1>4, <1>5, <1>6, <1>7, <1>8, <1>9 DEF Inv

(* accept: the connections that wait are the offer's own and open, and     *)
(* nobody has accepted them.                                               *)
LEMMA Waiting ==
  ASSUME Inv, NEW o \in Offer, offer[o].at = "accepting", backlog[o] # <<>>
  PROVE  LET f == Head(backlog[o]) IN
         /\ f = backlog[o][1] /\ 1 \in 1..Len(backlog[o]) /\ f \in Fetch /\ f # None
         /\ fetch[f].of = o /\ ended[f] \in {"no", "reset"} /\ taker[o] = None
         /\ \A p \in Offer : taker[p] # f
         /\ stream[f] = <<>> /\ fetch[f].off = 0
         /\ offer[o].pos = 0 /\ offer[o].left = 0 /\ offer[o].put = 0
<1> DEFINE f == Head(backlog[o])
<1>1. backlog[o] \in Seq(Fetch)
  BY DEF Inv, TypeOK
<1>2. f = backlog[o][1] /\ 1 \in 1..Len(backlog[o]) /\ f \in Fetch /\ f # None
  BY <1>1, TailOf, TransferAssumption
<1>3. fetch[f].of = o /\ ended[f] \in {"no", "reset"}
  BY <1>2 DEF Inv, Backlogs
<1>4. taker[o] = None /\ \A p \in Offer : taker[p] # f
  BY <1>2, <1>3 DEF Inv, Takers
<1>5. stream[f] = <<>> /\ fetch[f].off = 0
  BY <1>2, <1>4 DEF Inv, Fetches
<1>6. offer[o].pos = 0
  BY DEF Inv, Places
<1>7. offer[o].left = 0 /\ offer[o].put = 0
  <2>1. TypeOK
    BY DEF Inv
  <2> QED BY <2>1, <1>2, <1>6, Numbers DEF Inv, Places
<1> QED BY <1>2, <1>3, <1>4, <1>5, <1>6, <1>7

LEMMA AcceptInv ==
  ASSUME Inv, NEW o \in Offer, Accept(o)
  PROVE  Inv'
<1> DEFINE f == Head(backlog[o])
<1>0. TypeOK /\ offer[o].at = "accepting" /\ backlog[o] # <<>>
  BY DEF Inv, Accept
<1>1. /\ f = backlog[o][1] /\ 1 \in 1..Len(backlog[o]) /\ f \in Fetch /\ f # None
      /\ fetch[f].of = o /\ ended[f] \in {"no", "reset"} /\ taker[o] = None
      /\ \A p \in Offer : taker[p] # f
      /\ stream[f] = <<>> /\ fetch[f].off = 0
      /\ offer[o].pos = 0 /\ offer[o].left = 0 /\ offer[o].put = 0
  BY <1>0, Waiting
<1> HIDE DEF f
<1>2. /\ offer' \in [Offer -> OfferRecord]
      /\ \A p \in Offer : p # o => offer'[p] = offer[p]
      /\ offer'[o].at = "sending" /\ offer'[o].pos = offer[o].pos
      /\ offer'[o].size = offer[o].size /\ offer'[o].left = offer[o].left
      /\ offer'[o].put = offer[o].put
  BY <1>0, GoEffect DEF Accept
<1>3. /\ taker' \in [Offer -> Fetch \cup {None}]
      /\ taker'[o] = f /\ \A p \in Offer : p # o => taker'[p] = taker[p]
  BY <1>1 DEF Accept, Inv, TypeOK, f
<1>4. /\ backlog' \in [Offer -> Seq(Fetch)]
      /\ backlog'[o] = <<>> /\ \A p \in Offer : p # o => backlog'[p] = backlog[p]
  BY EmptySeq DEF Accept, Inv, TypeOK
<1>5. /\ ended' \in [Fetch -> {"no", "closed", "reset"}]
      /\ \A g \in Fetch : ended[g] # "no" \/ fetch[g].of # o \/ g = f => ended'[g] = ended[g]
      /\ \A g \in Fetch : ended[g] # "no" => ended'[g] # "no"
  BY DEF Accept, Inv, TypeOK, Reset, f
<1>6. UNCHANGED <<length, queue, fetch, fetches, stream, disk, faults>>
  BY DEF Accept
<1>7. TypeOK'
  BY <1>0, <1>2, <1>3, <1>4, <1>5, <1>6 DEF TypeOK
<1>8. Places' /\ Uncut'
  BY <1>0, <1>1, <1>2, <1>6 DEF Inv, Places, Uncut
<1>9. Takers'
  <2> SUFFICES ASSUME NEW p \in Offer
               PROVE  /\ offer'[p].at \in {"sending", "finished", "failed"} => taker'[p] # None
                      /\ taker'[p] # None =>
                           /\ offer'[p].at \in {"sending", "finished", "failed", "lost"}
                           /\ fetch'[taker'[p]].of = p
                           /\ ended'[taker'[p]] \in
                                {IF offer'[p].at = "sending" THEN "no" ELSE "closed", "reset"}
                           /\ fetch'[taker'[p]].off + Len(stream'[taker'[p]])
                                <= offer'[p].pos - offer'[p].left + offer'[p].put
                           /\ "disk" \notin faults' /\ ended'[taker'[p]] # "reset" =>
                                fetch'[taker'[p]].off + Len(stream'[taker'[p]])
                                = offer'[p].pos - offer'[p].left + offer'[p].put
    BY DEF Takers, Given
  <2>1. CASE p = o
    <3>1. fetch[f].off + Len(stream[f]) = 0
      BY <1>1, EmptySeq
    <3> QED BY <2>1, <3>1, <1>1, <1>2, <1>3, <1>5, <1>6
  <2>2. CASE p # o
    <3>1. taker[p] # None => taker[p] \in Fetch /\ fetch[taker[p]].of # o
      BY <1>0, <2>2 DEF Inv, Takers, TypeOK
    <3> QED BY <3>1, <2>2, <1>2, <1>3, <1>5, <1>6 DEF Inv, Takers, Given
  <2> QED BY <2>1, <2>2
<1>10. Backlogs'
  <2> SUFFICES ASSUME NEW p \in Offer
               PROVE  /\ \A i \in 1..Len(backlog'[p]) :
                           fetch'[backlog'[p][i]].of = p /\ ended'[backlog'[p][i]] \in {"no", "reset"}
                      /\ \A i, j \in 1..Len(backlog'[p]) : backlog'[p][i] = backlog'[p][j] => i = j
                      /\ offer'[p].at \in {"sending", "finished", "failed", "lost"} => backlog'[p] = <<>>
    BY DEF Backlogs
  <2>1. CASE p = o
    BY <2>1, <1>4, EmptySeq
  <2>2. CASE p # o
    <3>1. \A i \in 1..Len(backlog[p]) : backlog[p][i] \in Fetch
      BY <1>0, ElementOfSeq DEF TypeOK
    <3>2. backlog'[p] = backlog[p] /\ offer'[p] = offer[p] /\ fetch' = fetch
      BY <2>2, <1>2, <1>4, <1>6
    <3>3. \A i \in 1..Len(backlog[p]) :
            fetch[backlog[p][i]].of = p /\ ended'[backlog[p][i]] \in {"no", "reset"}
      BY <3>1, <2>2, <1>5 DEF Inv, Backlogs
    <3> QED BY <3>2, <3>3 DEF Inv, Backlogs
  <2> QED BY <2>1, <2>2
<1>11. Fetches'
  <2>1. ASSUME NEW g \in Fetch, \A p \in Offer : taker'[p] # g
        PROVE  \A p \in Offer : taker[p] # g
    BY <2>1, <1>1, <1>3, TransferAssumption
  <2> QED BY <2>1, <1>5, <1>6, TransferAssumption DEF Inv, Fetches
<1>12. Queued'
  <2>1. \A i \in 1..Len(queue) : queue[i] \in Offer /\ queue[i] # o
    BY <1>0, ElementOfSeq DEF Inv, Queued, TypeOK
  <2> QED BY <2>1, <1>2, <1>6 DEF Inv, Queued
<1> QED BY <1>7, <1>8, <1>9, <1>10, <1>11, <1>12 DEF Inv

LEMMA AcceptFailsInv ==
  ASSUME Inv, NEW o \in Offer, AcceptFails(o)
  PROVE  Inv'
<1> DEFINE f == Head(backlog[o])
<1>0. TypeOK /\ offer[o].at = "accepting" /\ backlog[o] # <<>>
  BY DEF Inv, AcceptFails
<1>1. /\ f = backlog[o][1] /\ 1 \in 1..Len(backlog[o]) /\ f \in Fetch /\ f # None
      /\ fetch[f].of = o /\ ended[f] \in {"no", "reset"} /\ taker[o] = None
      /\ \A p \in Offer : taker[p] # f
      /\ offer[o].pos = 0
  BY <1>0, Waiting
<1> HIDE DEF f
<1>2. /\ offer' \in [Offer -> OfferRecord]
      /\ \A p \in Offer : p # o => offer'[p] = offer[p]
      /\ offer'[o].at = "dropped" /\ offer'[o].pos = offer[o].pos
      /\ offer'[o].size = offer[o].size /\ offer'[o].left = offer[o].left
      /\ offer'[o].put = offer[o].put
  BY <1>0, GoEffect DEF AcceptFails
<1>3. /\ backlog[o] \in Seq(Fetch) /\ Len(backlog[o]) \in Nat \ {0}
      /\ Tail(backlog[o]) \in Seq(Fetch) /\ Len(Tail(backlog[o])) = Len(backlog[o]) - 1
      /\ \A i \in 1..Len(backlog[o]) - 1 : Tail(backlog[o])[i] = backlog[o][i + 1]
  <2>1. backlog[o] \in Seq(Fetch)
    BY <1>0 DEF TypeOK
  <2> QED BY <2>1, <1>0, TailOf
<1>4. /\ backlog' \in [Offer -> Seq(Fetch)]
      /\ backlog'[o] = Tail(backlog[o]) /\ \A p \in Offer : p # o => backlog'[p] = backlog[p]
  BY <1>0, <1>3 DEF AcceptFails, TypeOK
<1>5. /\ ended' \in [Fetch -> {"no", "closed", "reset"}]
      /\ \A g \in Fetch : g # f => ended'[g] = ended[g]
      /\ ended'[f] # "no"
  BY <1>0, <1>1 DEF AcceptFails, Close, TypeOK, f
<1>6. /\ UNCHANGED <<length, queue, taker, fetch, fetches, stream, disk>>
      /\ faults \subseteq faults' /\ faults' \subseteq Kinds
  BY <1>0 DEF AcceptFails, Fault, Kinds, TypeOK
<1>7. TypeOK'
  BY <1>0, <1>2, <1>4, <1>5, <1>6 DEF TypeOK
<1>8. Places' /\ Uncut'
  BY <1>0, <1>1, <1>2, <1>6 DEF Inv, Places, Uncut
<1>9. Takers'
  <2>1. ASSUME NEW p \in Offer, taker[p] # None
        PROVE  p # o /\ taker[p] \in Fetch /\ taker[p] # f
    BY <2>1, <1>0, <1>1 DEF TypeOK
  <2>2. ASSUME NEW p \in Offer
        PROVE  /\ offer'[p].at \in {"sending", "finished", "failed"} => taker[p] # None
               /\ taker[p] # None => offer'[p].at = offer[p].at
    BY <1>1, <1>2 DEF Inv, Takers
  <2> QED BY <2>1, <2>2, <1>2, <1>5, <1>6 DEF Inv, Takers, Given
<1>10. Backlogs'
  <2> SUFFICES ASSUME NEW p \in Offer
               PROVE  /\ \A i \in 1..Len(backlog'[p]) :
                           fetch'[backlog'[p][i]].of = p /\ ended'[backlog'[p][i]] \in {"no", "reset"}
                      /\ \A i, j \in 1..Len(backlog'[p]) : backlog'[p][i] = backlog'[p][j] => i = j
                      /\ offer'[p].at \in {"sending", "finished", "failed", "lost"} => backlog'[p] = <<>>
    BY DEF Backlogs
  <2>1. CASE p = o
    <3>1. ASSUME NEW i \in 1..Len(backlog[o]) - 1
          PROVE  /\ i + 1 \in 1..Len(backlog[o]) /\ backlog[o][i + 1] # f
                 /\ backlog[o][i + 1] \in Fetch
      BY <1>1, <1>3, ElementOfSeq DEF Inv, Backlogs
    <3>2. backlog'[o] = Tail(backlog[o]) /\ offer'[o].at = "dropped" /\ fetch' = fetch
      BY <1>2, <1>4, <1>6
    <3>3. ASSUME NEW i \in 1..Len(backlog[o]) - 1
          PROVE  fetch[backlog[o][i + 1]].of = o /\ ended'[backlog[o][i + 1]] \in {"no", "reset"}
      <4>1. i + 1 \in 1..Len(backlog[o]) /\ backlog[o][i + 1] \in Fetch /\ backlog[o][i + 1] # f
        BY <3>1
      <4>2. fetch[backlog[o][i + 1]].of = o /\ ended[backlog[o][i + 1]] \in {"no", "reset"}
        BY <4>1 DEF Inv, Backlogs
      <4> QED BY <4>1, <4>2, <1>5
    <3>4. ASSUME NEW i \in 1..Len(backlog[o]) - 1, NEW j \in 1..Len(backlog[o]) - 1,
                 backlog[o][i + 1] = backlog[o][j + 1]
          PROVE  i = j
      <4>1. i + 1 \in 1..Len(backlog[o]) /\ j + 1 \in 1..Len(backlog[o])
        BY <3>1
      <4>2. i + 1 = j + 1
        BY <3>4, <4>1 DEF Inv, Backlogs
      <4> QED BY <4>2, <1>3
    <3> DEFINE b == Tail(backlog[o])
    <3>5. Len(b) = Len(backlog[o]) - 1 /\ \A i \in 1..Len(b) : b[i] = backlog[o][i + 1]
      BY <1>3
    <3> HIDE DEF b
    <3>6. /\ \A i \in 1..Len(b) : fetch[b[i]].of = o /\ ended'[b[i]] \in {"no", "reset"}
          /\ \A i, j \in 1..Len(b) : b[i] = b[j] => i = j
      BY <3>3, <3>4, <3>5
    <3>7. backlog'[p] = b
      BY <2>1, <3>2 DEF b
    <3> QED BY <2>1, <3>2, <3>6, <3>7
  <2>2. CASE p # o
    <3>1. \A i \in 1..Len(backlog[p]) : backlog[p][i] \in Fetch /\ backlog[p][i] # f
      BY <1>0, <1>1, <2>2, ElementOfSeq DEF Inv, Backlogs, TypeOK
    <3>2. backlog'[p] = backlog[p] /\ offer'[p] = offer[p] /\ fetch' = fetch
      BY <2>2, <1>2, <1>4, <1>6
    <3>3. \A i \in 1..Len(backlog[p]) :
            fetch[backlog[p][i]].of = p /\ ended'[backlog[p][i]] \in {"no", "reset"}
      BY <3>1, <1>5 DEF Inv, Backlogs
    <3> QED BY <3>2, <3>3 DEF Inv, Backlogs
  <2> QED BY <2>1, <2>2
<1>11. Fetches'
  BY <1>1, <1>5, <1>6, TransferAssumption DEF Inv, Fetches
<1>12. Queued'
  <2>1. \A i \in 1..Len(queue) : queue[i] \in Offer /\ queue[i] # o
    BY <1>0, ElementOfSeq DEF Inv, Queued, TypeOK
  <2> QED BY <2>1, <1>2, <1>6 DEF Inv, Queued
<1> QED BY <1>7, <1>8, <1>9, <1>10, <1>11, <1>12 DEF Inv

(* What the amount read is.                                                *)
LEMMA AmountRead ==
  ASSUME TypeOK, NEW o \in Offer, offer[o].pos < length
  PROVE  /\ Amount(o) \in 1..Buffer /\ offer[o].pos + Amount(o) \in 0..Size
<1>1. /\ offer[o].pos \in 0..Size /\ length \in 0..Size
      /\ Size \in Nat \ {0} /\ Buffer \in Nat \ {0}
  BY TransferAssumption DEF TypeOK, OfferRecord
<1> QED BY <1>1 DEF Amount

(* A step that moves an offer in its file and its buffer, and leaves what  *)
(* it has written as it was.                                               *)
LEMMA PlaceInv ==
  ASSUME Inv, NEW o \in Offer, offer[o].at = "sending",
         NEW s \in OfferRecord, offer' = [offer EXCEPT ![o] = s],
         s.at = "sending", s.pos - s.left + s.put = Given(o),
         s.left <= s.size, s.size <= s.pos, s.put <= s.left,
         s.left > 0 => s.put < s.left,
         UNCHANGED <<length, queue, backlog, taker, fetch, fetches, stream, ended, disk>>,
         faults \subseteq faults' /\ faults' \subseteq Kinds
  PROVE  Inv' /\ \A p \in Offer : Given(p)' = Given(p) /\ offer'[p].at = offer[p].at
<1>0. TypeOK
  BY DEF Inv
<1>1. /\ offer' \in [Offer -> OfferRecord] /\ offer'[o] = s
      /\ \A p \in Offer : p # o => offer'[p] = offer[p]
  BY <1>0 DEF TypeOK
<1>2. TypeOK'
  BY <1>0, <1>1 DEF TypeOK
<1>3. Places' /\ Uncut'
  BY <1>1 DEF Inv, Places, Uncut
<1>4. \A p \in Offer : Given(p)' = Given(p) /\ offer'[p].at = offer[p].at
  BY <1>1 DEF Given
<1>5. Takers'
  BY <1>4 DEF Inv, Takers
<1>6. Backlogs'
  BY <1>4 DEF Inv, Backlogs
<1>7. Fetches'
  BY DEF Inv, Fetches
<1>8. Queued'
  <2>1. \A i \in 1..Len(queue) : queue[i] \in Offer
    BY <1>0, ElementOfSeq DEF TypeOK
  <2> QED BY <2>1, <1>4 DEF Inv, Queued
<1> QED BY <1>2, <1>3, <1>4, <1>5, <1>6, <1>7, <1>8 DEF Inv

LEMMA ReadFileInv ==
  ASSUME Inv, NEW o \in Offer, ReadFile(o)
  PROVE  Inv' /\ \A p \in Offer : Given(p)' = Given(p) /\ offer'[p].at = offer[p].at
<1> DEFINE s == [at |-> "sending", pos |-> offer[o].pos + Amount(o),
                 size |-> Amount(o), left |-> Amount(o), put |-> 0]
<1>0. TypeOK /\ offer[o].pos < length /\ offer[o].left = 0 /\ offer[o].at = "sending"
  BY DEF Inv, ReadFile
<1>1. /\ Amount(o) \in 1..Buffer /\ offer[o].pos + Amount(o) \in 0..Size
      /\ offer[o].pos \in 0..Size /\ Size \in Nat /\ Buffer \in Nat
  BY <1>0, AmountRead, TransferAssumption DEF TypeOK, OfferRecord
<1>2. offer[o].put = 0
  BY <1>0, TransferAssumption DEF Inv, Places, TypeOK, OfferRecord
<1>3. s \in OfferRecord
  BY <1>1 DEF OfferRecord
<1>4. /\ s.at = "sending" /\ s.pos - s.left + s.put = Given(o)
      /\ s.left <= s.size /\ s.size <= s.pos /\ s.put <= s.left
      /\ s.left > 0 /\ s.put < s.left
  BY <1>0, <1>1, <1>2 DEF Given
<1>5. offer' = [offer EXCEPT ![o] = s]
  BY <1>0 DEF ReadFile, TypeOK
<1>6. /\ UNCHANGED <<length, queue, backlog, taker, fetch, fetches, stream, ended, disk>>
      /\ faults \subseteq faults' /\ faults' \subseteq Kinds
  BY <1>0 DEF ReadFile, TypeOK
<1> HIDE DEF s
<1> QED BY <1>0, <1>3, <1>4, <1>5, <1>6, PlaceInv

LEMMA ShortWriteInv ==
  ASSUME Inv, NEW o \in Offer, ShortWrite(o)
  PROVE  Inv' /\ \A p \in Offer : Given(p)' = Given(p) /\ offer'[p].at = offer[p].at
<1> DEFINE s == [offer[o] EXCEPT !.left = @ - offer[o].put, !.put = 0]
<1>0. TypeOK /\ offer[o].put > 0 /\ offer[o].at = "sending"
  BY DEF Inv, ShortWrite
<1>1. /\ offer[o] \in OfferRecord
      /\ offer[o].pos \in 0..Size /\ offer[o].size \in 0..Buffer
      /\ offer[o].left \in 0..Buffer /\ offer[o].put \in 0..Buffer
      /\ Size \in Nat /\ Buffer \in Nat
  BY <1>0, TransferAssumption DEF TypeOK, OfferRecord
<1>2. /\ offer[o].left <= offer[o].size /\ offer[o].size <= offer[o].pos
      /\ offer[o].put < offer[o].left
  BY <1>0, <1>1 DEF Inv, Places
<1>3. /\ s.at = "sending" /\ s.pos = offer[o].pos /\ s.size = offer[o].size
      /\ s.left = offer[o].left - offer[o].put /\ s.put = 0
  BY <1>0, <1>1 DEF OfferRecord
<1>4. s \in OfferRecord
  <2>1. offer[o].left - offer[o].put \in 0..Buffer /\ 0 \in 0..Buffer
    BY <1>1, <1>2
  <2> QED BY <2>1, <1>1 DEF OfferRecord
<1>5. offer' = [offer EXCEPT ![o] = s]
  BY <1>0 DEF ShortWrite, TypeOK
<1>6. /\ UNCHANGED <<length, queue, backlog, taker, fetch, fetches, stream, ended, disk>>
      /\ faults \subseteq faults' /\ faults' \subseteq Kinds
  BY <1>0 DEF ShortWrite, Fault, Kinds, TypeOK
<1> HIDE DEF s
<1>7. /\ s.pos - s.left + s.put = Given(o) /\ s.left <= s.size /\ s.size <= s.pos
      /\ s.put <= s.left /\ (s.left > 0 => s.put < s.left)
  BY <1>1, <1>2, <1>3 DEF Given
<1> QED BY <1>0, <1>3, <1>4, <1>5, <1>6, <1>7, PlaceInv

(* The connection an offer writes to, and a cell of the file.              *)
LEMMA Writing ==
  ASSUME Inv, NEW o \in Offer, offer[o].at = "sending"
  PROVE  /\ taker[o] \in Fetch /\ taker[o] # None
         /\ fetch[taker[o]].of = o /\ ended[taker[o]] \in {"no", "reset"}
         /\ \A p \in Offer : p # o => taker[p] # taker[o]
         /\ \A p \in Offer : \A i \in 1..Len(backlog[p]) : backlog[p][i] # taker[o]
<1>1. taker[o] \in Fetch /\ taker[o] # None
  BY DEF Inv, Takers, TypeOK
<1>2. fetch[taker[o]].of = o /\ ended[taker[o]] \in {"no", "reset"}
  BY <1>1 DEF Inv, Takers
<1>3. \A p \in Offer : p # o => taker[p] # taker[o]
  BY <1>1, <1>2 DEF Inv, Takers
<1>4. backlog[o] = <<>>
  BY DEF Inv, Backlogs
<1>5. \A p \in Offer : \A i \in 1..Len(backlog[p]) : backlog[p][i] # taker[o]
  BY <1>2, <1>4, EmptySeq DEF Inv, Backlogs
<1> QED BY <1>1, <1>2, <1>3, <1>5

LEMMA WriteInv ==
  ASSUME Inv, NEW o \in Offer, Write(o)
  PROVE  /\ Inv' /\ Given(o)' = Given(o) + 1
         /\ \A p \in Offer : p # o => Given(p)' = Given(p)
         /\ \A p \in Offer : offer'[p].at = offer[p].at
<1> DEFINE f == taker[o]
           s == Put(offer[o])
<1>0. TypeOK /\ offer[o].left > 0 /\ offer[o].at = "sending"
  BY DEF Inv, Write
<1>1. /\ offer[o] \in OfferRecord
      /\ offer[o].pos \in 0..Size /\ offer[o].size \in 0..Buffer
      /\ offer[o].left \in 0..Buffer /\ offer[o].put \in 0..Buffer
      /\ Size \in Nat /\ Buffer \in Nat
  BY <1>0, TransferAssumption DEF TypeOK, OfferRecord
<1>2. /\ offer[o].left <= offer[o].size /\ offer[o].size <= offer[o].pos
      /\ offer[o].put < offer[o].left
  BY <1>0, <1>1 DEF Inv, Places
<1>3. /\ s \in OfferRecord /\ s.at = "sending" /\ s.pos = offer[o].pos
      /\ s.size = offer[o].size /\ s.pos - s.left + s.put = Given(o) + 1
      /\ s.left <= s.size /\ s.put <= s.left /\ (s.left > 0 => s.put < s.left)
  <2>1. CASE offer[o].put + 1 = offer[o].left
    <3>1. s = [offer[o] EXCEPT !.left = 0, !.put = 0]
      BY <2>1 DEF Put
    <3>2. /\ s.at = "sending" /\ s.pos = offer[o].pos /\ s.size = offer[o].size
          /\ s.left = 0 /\ s.put = 0
      BY <3>1, <1>0, <1>1 DEF OfferRecord
    <3>3. 0 \in 0..Buffer
      BY <1>1
    <3>4. s \in OfferRecord
      BY <3>1, <3>3, <1>1 DEF OfferRecord
    <3> HIDE DEF s
    <3> QED BY <3>2, <3>4, <2>1, <1>1, <1>2 DEF Given
  <2>2. CASE offer[o].put + 1 # offer[o].left
    <3>1. s = [offer[o] EXCEPT !.put = offer[o].put + 1]
      BY <2>2 DEF Put
    <3> QED BY <3>1, <2>2, <1>0, <1>1, <1>2 DEF OfferRecord, Given
  <2> QED BY <2>1, <2>2
<1> HIDE DEF s
<1>4. /\ offer' \in [Offer -> OfferRecord] /\ offer'[o] = s
      /\ \A p \in Offer : p # o => offer'[p] = offer[p]
  BY <1>0, <1>3 DEF TypeOK, Write, s
<1>5. /\ f \in Fetch /\ f # None /\ fetch[f].of = o /\ ended[f] = "no"
      /\ \A p \in Offer : p # o => taker[p] # f
  BY <1>0, Writing DEF Write
<1> HIDE DEF f
<1>6. /\ stream' \in [Fetch -> Seq(1..Size)] /\ Len(stream'[f]) = Len(stream[f]) + 1
      /\ \A g \in Fetch : g # f => stream'[g] = stream[g]
  <2>1. Cell(o) \in 1..Size
    BY <1>0, <1>1, <1>2 DEF Cell
  <2>2. stream[f] \in Seq(1..Size)
    BY <1>0, <1>5 DEF TypeOK
  <2>3. Append(stream[f], Cell(o)) \in Seq(1..Size)
        /\ Len(Append(stream[f], Cell(o))) = Len(stream[f]) + 1
    BY <2>1, <2>2, Appended
  <2> QED BY <2>3, <1>0, <1>5 DEF TypeOK, Write, f
<1>7. UNCHANGED <<length, queue, backlog, taker, fetch, fetches, ended, disk, faults>>
  BY DEF Write
<1>8. TypeOK'
  BY <1>0, <1>4, <1>6, <1>7 DEF TypeOK
<1>9. Places' /\ Uncut'
  BY <1>1, <1>2, <1>3, <1>4, <1>7 DEF Inv, Places, Uncut
<1>10. /\ Given(o)' = Given(o) + 1
       /\ \A p \in Offer : p # o => Given(p)' = Given(p)
       /\ \A p \in Offer : offer'[p].at = offer[p].at
  BY <1>0, <1>3, <1>4 DEF Given
<1>11. Takers'
  <2>1. \A p \in Offer : taker[p] # None => taker[p] \in Fetch
    BY <1>0 DEF TypeOK
  <2>2. /\ fetch[f].off \in Nat /\ Len(stream[f]) \in Nat /\ Given(o) \in Int
    BY <1>0, <1>1, <1>5, Numbers DEF Given
  <2>3. /\ fetch[f].off + Len(stream'[f]) <= Given(o)'
        /\ "disk" \notin faults /\ ended[f] # "reset" => fetch[f].off + Len(stream'[f]) = Given(o)'
    <3>1. /\ fetch[f].off + Len(stream[f]) <= Given(o)
          /\ "disk" \notin faults /\ ended[f] # "reset" =>
               fetch[f].off + Len(stream[f]) = Given(o)
      BY <1>5 DEF Inv, Takers, f
    <3>2. Len(stream'[f]) = Len(stream[f]) + 1 /\ Given(o)' = Given(o) + 1
      BY <1>6, <1>10
    <3> QED BY <3>1, <3>2, <2>2
  <2> SUFFICES ASSUME NEW p \in Offer
               PROVE  /\ offer'[p].at \in {"sending", "finished", "failed"} => taker'[p] # None
                      /\ taker'[p] # None =>
                           /\ offer'[p].at \in {"sending", "finished", "failed", "lost"}
                           /\ fetch'[taker'[p]].of = p
                           /\ ended'[taker'[p]] \in
                                {IF offer'[p].at = "sending" THEN "no" ELSE "closed", "reset"}
                           /\ fetch'[taker'[p]].off + Len(stream'[taker'[p]]) <= Given(p)'
                           /\ "disk" \notin faults' /\ ended'[taker'[p]] # "reset" =>
                                fetch'[taker'[p]].off + Len(stream'[taker'[p]]) = Given(p)'
    BY DEF Takers
  <2>4. CASE p = o
    BY <2>3, <2>4, <1>5, <1>7, <1>10, <1>0 DEF f
  <2>5. CASE p # o
    BY <2>1, <2>5, <1>5, <1>6, <1>7, <1>10 DEF Inv, Takers
  <2> QED BY <2>4, <2>5
<1>12. Backlogs'
  BY <1>7, <1>10 DEF Inv, Backlogs
<1>13. Fetches'
  BY <1>5, <1>6, <1>7 DEF Inv, Fetches, f
<1>14. Queued'
  <2>1. \A i \in 1..Len(queue) : queue[i] \in Offer
    BY <1>0, ElementOfSeq DEF TypeOK
  <2> QED BY <2>1, <1>7, <1>10 DEF Inv, Queued
<1> QED BY <1>8, <1>9, <1>10, <1>11, <1>12, <1>13, <1>14 DEF Inv

(* The end of the file, or a read that fails.                              *)
LEMMA FinishInv ==
  ASSUME Inv, NEW o \in Offer, Finish(o) \/ ReadFails(o)
  PROVE  Inv'
<1> DEFINE f == taker[o]
<1>0. TypeOK /\ offer[o].at = "sending" /\ offer[o].left = 0
  BY DEF Inv, Finish, AtEnd, ReadFails
<1>1. PICK s \in {"finished", "failed"} :
        Go(o, s) /\ (s = "finished" => offer[o].pos >= length)
  BY DEF Finish, AtEnd, ReadFails
<1>2. /\ offer' \in [Offer -> OfferRecord]
      /\ \A p \in Offer : p # o => offer'[p] = offer[p]
      /\ offer'[o].at = s /\ offer'[o].pos = offer[o].pos
      /\ offer'[o].size = offer[o].size /\ offer'[o].left = offer[o].left
      /\ offer'[o].put = offer[o].put
  BY <1>0, <1>1, GoEffect
<1>3. /\ f \in Fetch /\ f # None /\ fetch[f].of = o /\ ended[f] \in {"no", "reset"}
      /\ \A p \in Offer : p # o => taker[p] # f
      /\ \A p \in Offer : \A i \in 1..Len(backlog[p]) : backlog[p][i] # f
  BY <1>0, Writing
<1>4. Close(f)
  BY DEF Finish, ReadFails
<1> HIDE DEF f
<1>5. /\ ended' \in [Fetch -> {"no", "closed", "reset"}]
      /\ ended'[f] = IF ended[f] = "reset" THEN "reset" ELSE "closed"
      /\ \A g \in Fetch : g # f => ended'[g] = ended[g]
  BY <1>0, <1>3, <1>4 DEF Close, TypeOK
<1>6. /\ UNCHANGED <<length, queue, backlog, taker, fetch, fetches, stream, disk>>
      /\ faults \subseteq faults' /\ faults' \subseteq Kinds
  BY <1>0 DEF Finish, ReadFails, Fault, Kinds, TypeOK
<1>7. TypeOK'
  BY <1>0, <1>2, <1>5, <1>6 DEF TypeOK
<1>8. Places' /\ Uncut'
  BY <1>0, <1>1, <1>2, <1>6 DEF Inv, Places, Uncut
<1>9. Takers'
  <2>1. \A p \in Offer : taker[p] # None => taker[p] \in Fetch
    BY <1>0 DEF TypeOK
  <2>2. \A p \in Offer : Given(p)' = Given(p)
    BY <1>2 DEF Given
  <2> SUFFICES ASSUME NEW p \in Offer
               PROVE  /\ offer'[p].at \in {"sending", "finished", "failed"} => taker'[p] # None
                      /\ taker'[p] # None =>
                           /\ offer'[p].at \in {"sending", "finished", "failed", "lost"}
                           /\ fetch'[taker'[p]].of = p
                           /\ ended'[taker'[p]] \in
                                {IF offer'[p].at = "sending" THEN "no" ELSE "closed", "reset"}
                           /\ fetch'[taker'[p]].off + Len(stream'[taker'[p]]) <= Given(p)'
                           /\ "disk" \notin faults' /\ ended'[taker'[p]] # "reset" =>
                                fetch'[taker'[p]].off + Len(stream'[taker'[p]]) = Given(p)'
    BY DEF Takers
  <2>3. CASE p = o
    BY <2>2, <2>3, <1>2, <1>3, <1>5, <1>6 DEF Inv, Takers, f
  <2>4. CASE p # o
    BY <2>1, <2>2, <2>4, <1>2, <1>3, <1>5, <1>6 DEF Inv, Takers
  <2> QED BY <2>3, <2>4
<1>10. Backlogs'
  <2>1. \A p \in Offer : \A i \in 1..Len(backlog[p]) : backlog[p][i] \in Fetch
    BY <1>0, ElementOfSeq DEF TypeOK
  <2>2. \A p \in Offer :
          offer'[p].at \in {"sending", "finished", "failed", "lost"} => backlog[p] = <<>>
    BY <1>0, <1>2 DEF Inv, Backlogs
  <2>3. \A p \in Offer : \A i \in 1..Len(backlog[p]) : ended'[backlog[p][i]] \in {"no", "reset"}
    BY <2>1, <1>3, <1>5 DEF Inv, Backlogs
  <2> QED BY <2>2, <2>3, <1>6 DEF Inv, Backlogs
<1>11. Fetches'
  BY <1>3, <1>5, <1>6, TransferAssumption DEF Inv, Fetches
<1>12. Queued'
  <2>1. \A i \in 1..Len(queue) : queue[i] \in Offer /\ queue[i] # o
    BY <1>0, ElementOfSeq DEF Inv, Queued, TypeOK
  <2> QED BY <2>1, <1>2, <1>6 DEF Inv, Queued
<1> QED BY <1>7, <1>8, <1>9, <1>10, <1>11, <1>12 DEF Inv

(* The file is cut: who was at its end is so still.                        *)
LEMMA TruncateInv ==
  ASSUME Inv, NEW n \in 0..Size, Truncate(n)
  PROVE  Inv'
<1>0. /\ UNCHANGED <<offer, queue, backlog, taker, fetch, fetches, stream, ended, disk>>
      /\ length' = n /\ n < length /\ faults' = faults \cup {"cut"}
  BY DEF Truncate, Fault
<1>1. TypeOK'
  BY <1>0 DEF Inv, TypeOK, Kinds
<1>2. Places' /\ Uncut'
  <2>1. \A o \in Offer : offer[o].pos >= length => offer[o].pos >= n
    BY <1>0, TransferAssumption DEF Inv, TypeOK, OfferRecord
  <2> QED BY <2>1, <1>0 DEF Inv, Places, Uncut
<1>3. Takers'
  BY <1>0 DEF Inv, Takers, Given
<1>4. Backlogs' /\ Fetches' /\ Queued'
  BY <1>0 DEF Inv, Backlogs, Fetches, Queued
<1> QED BY <1>1, <1>2, <1>3, <1>4 DEF Inv

(* The sender's program ends: each of its connections is closed or reset.  *)
LEMMA SenderEndsEffect ==
  ASSUME Inv, SenderEnds
  PROVE  /\ offer' \in [Offer -> OfferRecord]
         /\ \A p \in Offer :
              /\ offer'[p].at = IF Live(p) THEN "lost" ELSE offer[p].at
              /\ offer'[p].pos = offer[p].pos /\ offer'[p].size = offer[p].size
              /\ offer'[p].left = offer[p].left /\ offer'[p].put = offer[p].put
<1>1. offer' = [o \in Offer |-> IF Live(o) THEN [offer[o] EXCEPT !.at = "lost"] ELSE offer[o]]
  BY DEF SenderEnds
<1>2. ASSUME NEW p \in Offer
      PROVE  /\ offer'[p] \in OfferRecord
             /\ offer'[p].at = IF Live(p) THEN "lost" ELSE offer[p].at
             /\ offer'[p].pos = offer[p].pos /\ offer'[p].size = offer[p].size
             /\ offer'[p].left = offer[p].left /\ offer'[p].put = offer[p].put
  <2>1. offer[p] \in OfferRecord
    BY DEF Inv, TypeOK
  <2>2. CASE Live(p)
    <3>1. offer'[p] = [offer[p] EXCEPT !.at = "lost"]
      BY <1>1, <2>2
    <3> QED BY <3>1, <2>1, <2>2 DEF OfferRecord
  <2>3. CASE ~Live(p)
    <3>1. offer'[p] = offer[p]
      BY <1>1, <2>3
    <3> QED BY <3>1, <2>1, <2>3
  <2> QED BY <2>2, <2>3
<1> QED BY <1>1, <1>2

LEMMA SenderEndsInv ==
  ASSUME Inv, SenderEnds, faults \subseteq faults' /\ faults' \subseteq Kinds
  PROVE  Inv'
<1>0. TypeOK
  BY DEF Inv
<1>1. /\ offer' \in [Offer -> OfferRecord]
      /\ \A p \in Offer :
           /\ offer'[p].at = IF Live(p) THEN "lost" ELSE offer[p].at
           /\ offer'[p].pos = offer[p].pos /\ offer'[p].size = offer[p].size
           /\ offer'[p].left = offer[p].left /\ offer'[p].put = offer[p].put
  BY SenderEndsEffect
<1>2. /\ ended' \in [Fetch -> {"no", "closed", "reset"}]
      /\ \A g \in Fetch : ended[g] # "no" \/ fetch[g].of = None => ended'[g] = ended[g]
      /\ \A g \in Fetch : ended[g] = "no" /\ fetch[g].of # None => ended'[g] # "no"
  BY <1>0 DEF SenderEnds, TypeOK
<1>3. /\ queue' = <<>> /\ backlog' = [o \in Offer |-> <<>>]
      /\ UNCHANGED <<length, taker, fetch, fetches, stream, disk>>
  BY DEF SenderEnds
<1>4. TypeOK'
  BY <1>0, <1>1, <1>2, <1>3, EmptySeq DEF TypeOK
<1>5. Places' /\ Uncut'
  BY <1>1, <1>3 DEF Inv, Places, Uncut, Live
<1>6. Takers'
  <2>1. \A p \in Offer : Given(p)' = Given(p) /\ (taker[p] # None => taker[p] \in Fetch)
    BY <1>0, <1>1 DEF Given, TypeOK
  <2> SUFFICES ASSUME NEW p \in Offer
               PROVE  /\ offer'[p].at \in {"sending", "finished", "failed"} => taker'[p] # None
                      /\ taker'[p] # None =>
                           /\ offer'[p].at \in {"sending", "finished", "failed", "lost"}
                           /\ fetch'[taker'[p]].of = p
                           /\ ended'[taker'[p]] \in
                                {IF offer'[p].at = "sending" THEN "no" ELSE "closed", "reset"}
                           /\ fetch'[taker'[p]].off + Len(stream'[taker'[p]]) <= Given(p)'
                           /\ "disk" \notin faults' /\ ended'[taker'[p]] # "reset" =>
                                fetch'[taker'[p]].off + Len(stream'[taker'[p]]) = Given(p)'
    BY DEF Takers
  <2>2. offer'[p].at # "sending"
    BY <1>1 DEF Live
  <2>3. taker[p] # None => /\ offer'[p].at \in {"finished", "failed", "lost"}
                           /\ fetch[taker[p]].of = p /\ p # None
    BY <1>1, TransferAssumption DEF Inv, Takers, Live
  <2>4. taker[p] # None => /\ ended'[taker[p]] \in {"closed", "reset"}
                           /\ ended'[taker[p]] # "reset" => ended[taker[p]] # "reset"
    BY <2>1, <2>3, <1>2
  <2>5. offer'[p].at \in {"finished", "failed"} => taker[p] # None
    BY <1>1 DEF Inv, Takers
  <2> QED BY <2>1, <2>2, <2>3, <2>4, <2>5, <1>3 DEF Inv, Takers
<1>7. Backlogs'
  BY <1>3, EmptySeq DEF Backlogs
<1>8. Fetches'
  BY <1>2, <1>3 DEF Inv, Fetches
<1>9. Queued'
  BY <1>3, EmptySeq DEF Queued
<1> QED BY <1>4, <1>5, <1>6, <1>7, <1>8, <1>9 DEF Inv

(* An accepted connection breaks, and what was on its way is lost.         *)
LEMMA BreakInv ==
  ASSUME Inv, NEW f \in Fetch, Break(f)
  PROVE  Inv'
<1>0. TypeOK /\ Taken(f) /\ fetch[f].at # "finished" /\ f # None
  BY TransferAssumption DEF Inv, Break
<1>1. PICK n \in 0..Len(stream[f]) :
        /\ ended' = [ended EXCEPT ![f] = "reset"]
        /\ stream' = [stream EXCEPT ![f] = SubSeq(@, 1, n)]
  BY DEF Break
<1>2. /\ UNCHANGED <<length, offer, queue, backlog, taker, fetch, fetches, disk>>
      /\ faults \subseteq faults' /\ faults' \subseteq Kinds
  BY <1>0 DEF Break, Fault, Kinds, TypeOK
<1>3. /\ SubSeq(stream[f], 1, n) \in Seq(1..Size) /\ Len(SubSeq(stream[f], 1, n)) = n
      /\ n \in Nat /\ n <= Len(stream[f]) /\ Len(stream[f]) \in Nat
  <2>1. stream[f] \in Seq(1..Size) /\ Len(stream[f]) \in Nat
    BY <1>0, LenProperties DEF TypeOK
  <2>2. \A i \in 1..n : stream[f][i] \in 1..Size
    BY <2>1, ElementOfSeq, \A i \in 1..n : i \in 1..Len(stream[f])
  <2> QED BY <2>1, <2>2, SubSeqProperties
<1>4. /\ stream' \in [Fetch -> Seq(1..Size)] /\ Len(stream'[f]) = n
      /\ \A g \in Fetch : g # f => stream'[g] = stream[g]
  BY <1>0, <1>1, <1>3 DEF TypeOK
<1>5. /\ ended' \in [Fetch -> {"no", "closed", "reset"}] /\ ended'[f] = "reset"
      /\ \A g \in Fetch : g # f => ended'[g] = ended[g]
  BY <1>0, <1>1 DEF TypeOK
<1>6. TypeOK'
  BY <1>0, <1>2, <1>4, <1>5 DEF TypeOK
<1>7. Places' /\ Uncut'
  BY <1>2 DEF Inv, Places, Uncut
<1>8. Takers'
  <2>1. \A p \in Offer : Given(p)' = Given(p) /\ (taker[p] # None => taker[p] \in Fetch)
    BY <1>0, <1>2 DEF Given, TypeOK
  <2> SUFFICES ASSUME NEW p \in Offer
               PROVE  /\ offer'[p].at \in {"sending", "finished", "failed"} => taker'[p] # None
                      /\ taker'[p] # None =>
                           /\ offer'[p].at \in {"sending", "finished", "failed", "lost"}
                           /\ fetch'[taker'[p]].of = p
                           /\ ended'[taker'[p]] \in
                                {IF offer'[p].at = "sending" THEN "no" ELSE "closed", "reset"}
                           /\ fetch'[taker'[p]].off + Len(stream'[taker'[p]]) <= Given(p)'
                           /\ "disk" \notin faults' /\ ended'[taker'[p]] # "reset" =>
                                fetch'[taker'[p]].off + Len(stream'[taker'[p]]) = Given(p)'
    BY DEF Takers
  <2>2. CASE taker[p] = f
    <3>1. fetch[f].off + Len(stream[f]) <= Given(p) /\ fetch[f].of = p
      BY <2>2, <1>0 DEF Inv, Takers
    <3>2. fetch[f].off \in Nat /\ Given(p) \in Nat
      BY <1>0, GivenBound, Numbers
    <3>3. fetch[f].off + n <= Given(p)
      BY <3>1, <3>2, <1>3
    <3> QED BY <2>1, <2>2, <3>1, <3>3, <1>0, <1>2, <1>4, <1>5 DEF Inv, Takers
  <2>3. CASE taker[p] # f
    BY <2>1, <2>3, <1>2, <1>4, <1>5 DEF Inv, Takers
  <2> QED BY <2>2, <2>3
<1>9. Backlogs'
  <2>1. \A p \in Offer : \A i \in 1..Len(backlog[p]) : backlog[p][i] \in Fetch
    BY <1>0, ElementOfSeq DEF TypeOK
  <2> QED BY <2>1, <1>2, <1>5 DEF Inv, Backlogs
<1>10. Fetches'
  <2>1. fetch[f].of # None
    <3>1. PICK o \in Offer : taker[o] = f
      BY <1>0 DEF Taken
    <3> QED BY <3>1, <1>0, TransferAssumption DEF Inv, Takers
  <2> QED BY <2>1, <1>0, <1>2, <1>4, <1>5 DEF Inv, Fetches, Taken
<1>11. Queued'
  BY <1>2 DEF Inv, Queued
<1> QED BY <1>6, <1>7, <1>8, <1>9, <1>10, <1>11 DEF Inv

(* The receiver's program ends: its connections are reset.                 *)
LEMMA ReceiverQuitsInv ==
  ASSUME Inv, ReceiverQuits
  PROVE  Inv'
<1>0. TypeOK
  BY DEF Inv
<1>1. /\ fetch' \in [Fetch -> FetchRecord]
      /\ \A g \in Fetch : /\ fetch'[g].of = fetch[g].of /\ fetch'[g].off = fetch[g].off
                           /\ fetch'[g].at \in {fetch[g].at, "lost"}
  <2>1. ASSUME NEW g \in Fetch
        PROVE  /\ fetch'[g] \in FetchRecord /\ fetch'[g].of = fetch[g].of
               /\ fetch'[g].off = fetch[g].off /\ fetch'[g].at \in {fetch[g].at, "lost"}
    <3>1. fetch[g] \in FetchRecord
      BY <1>0 DEF TypeOK
    <3>2. fetch'[g] \in {fetch[g], [fetch[g] EXCEPT !.at = "lost"]}
      BY DEF ReceiverQuits
    <3>3. CASE fetch'[g] = fetch[g]
      BY <3>1, <3>3
    <3>4. CASE fetch'[g] = [fetch[g] EXCEPT !.at = "lost"]
      BY <3>1, <3>4 DEF FetchRecord
    <3> QED BY <3>2, <3>3, <3>4
  <2>2. fetch' = [g \in Fetch |-> fetch'[g]]
    BY DEF ReceiverQuits
  <2> QED BY <2>1, <2>2
<1>2. /\ ended' \in [Fetch -> {"no", "closed", "reset"}]
      /\ \A g \in Fetch : ended[g] # "no" \/ fetch[g].of = None => ended'[g] = ended[g]
      /\ \A g \in Fetch : ended[g] = "no" /\ fetch[g].of # None => ended'[g] = "reset"
  BY <1>0 DEF ReceiverQuits, TypeOK
<1>3. /\ fetches' = <<>> /\ UNCHANGED <<length, offer, queue, backlog, taker, stream, disk>>
      /\ faults \subseteq faults' /\ faults' \subseteq Kinds
  BY <1>0 DEF ReceiverQuits, Fault, Kinds, TypeOK
<1>4. TypeOK'
  BY <1>0, <1>1, <1>2, <1>3, EmptySeq DEF TypeOK
<1>5. Places' /\ Uncut'
  BY <1>3 DEF Inv, Places, Uncut
<1>6. Takers'
  <2>1. \A p \in Offer : Given(p)' = Given(p) /\ (taker[p] # None => taker[p] \in Fetch)
    BY <1>0, <1>3 DEF Given, TypeOK
  <2>2. \A p \in Offer : taker[p] # None =>
          /\ ended'[taker[p]] \in {ended[taker[p]], "reset"}
          /\ ended[taker[p]] = "reset" => ended'[taker[p]] = "reset"
    BY <2>1, <1>2
  <2> QED BY <2>1, <2>2, <1>1, <1>3 DEF Inv, Takers
<1>7. Backlogs'
  <2>1. \A p \in Offer : \A i \in 1..Len(backlog[p]) : backlog[p][i] \in Fetch
    BY <1>0, ElementOfSeq DEF TypeOK
  <2>2. \A g \in Fetch : ended[g] \in {"no", "reset"} => ended'[g] \in {"no", "reset"}
    BY <1>2
  <2> QED BY <2>1, <2>2, <1>1, <1>3 DEF Inv, Backlogs
<1>8. Fetches'
  BY <1>1, <1>2, <1>3 DEF Inv, Fetches
<1>9. Queued'
  BY <1>3 DEF Inv, Queued
<1> QED BY <1>4, <1>5, <1>6, <1>7, <1>8, <1>9 DEF Inv

(* A step that only moves a fetch on, to its end when it may.              *)
LEMMA StepInv ==
  ASSUME Inv, NEW f \in Fetch,
         NEW s \in {"refused", "queued", "copying", "finished", "abandoned"}, Step(f, s),
         s = "refused" => fetch[f].of = None,
         s = "finished" => ended[f] # "no" /\ stream[f] = <<>>,
         UNCHANGED <<length, offer, queue, backlog, taker, stream, ended>>,
         disk' \in Seq(0..Size), fetches' \in Seq(Fetch),
         faults \subseteq faults' /\ faults' \subseteq Kinds
  PROVE  Inv'
<1>0. TypeOK
  BY DEF Inv
<1>1. /\ fetch' \in [Fetch -> FetchRecord]
      /\ \A g \in Fetch : g # f => fetch'[g] = fetch[g]
      /\ fetch'[f].at = s /\ fetch'[f].of = fetch[f].of /\ fetch'[f].off = fetch[f].off
  BY <1>0, StepEffect
<1>2. \A g \in Fetch : fetch'[g].of = fetch[g].of /\ fetch'[g].off = fetch[g].off
  BY <1>1
<1>3. TypeOK'
  BY <1>0, <1>1 DEF TypeOK
<1>4. Places' /\ Uncut'
  BY DEF Inv, Places, Uncut
<1>5. Takers'
  <2>1. \A p \in Offer : taker[p] # None => taker[p] \in Fetch
    BY <1>0 DEF TypeOK
  <2> QED BY <2>1, <1>2 DEF Inv, Takers, Given
<1>6. Backlogs'
  <2>1. \A p \in Offer : \A i \in 1..Len(backlog[p]) : backlog[p][i] \in Fetch
    BY <1>0, ElementOfSeq DEF TypeOK
  <2>2. \A p \in Offer : \A i \in 1..Len(backlog[p]) :
          fetch'[backlog[p][i]].of = p /\ ended[backlog[p][i]] \in {"no", "reset"}
    BY <2>1, <1>2 DEF Inv, Backlogs
  <2> QED BY <2>2 DEF Inv, Backlogs
<1>7. Fetches'
  BY <1>1 DEF Inv, Fetches
<1>8. Queued'
  BY DEF Inv, Queued
<1> QED BY <1>3, <1>4, <1>5, <1>6, <1>7, <1>8 DEF Inv

LEMMA ConnectInv ==
  ASSUME Inv, NEW f \in Fetch, NEW o \in Offer, Connect(f, o)
  PROVE  Inv'
<1>0. TypeOK /\ fetch[f].at = "none"
  BY DEF Inv, Connect, NextFetch
<1>1. fetch[f].of = None /\ ended[f] = "no"
  BY <1>0 DEF Inv, Fetches
<1>2. CASE ~Listening(o)
  <2>1. Step(f, "refused")
    BY <1>2 DEF Connect, Step
  <2>2. UNCHANGED <<length, offer, queue, backlog, taker, fetches, stream, ended, disk, faults>>
    BY <1>2 DEF Connect
  <2>3. disk \in Seq(0..Size) /\ fetches \in Seq(Fetch) /\ faults \subseteq Kinds
    BY <1>0 DEF TypeOK
  <2> QED BY <1>1, <2>1, <2>2, <2>3, StepInv
<1>3. CASE Listening(o)
  <2> DEFINE t == [at |-> "connected", of |-> o, off |-> 0]
  <2>1. /\ fetch' \in [Fetch -> FetchRecord] /\ fetch'[f] = t
        /\ \A g \in Fetch : g # f => fetch'[g] = fetch[g]
    <3>1. t \in FetchRecord
      BY TransferAssumption DEF FetchRecord
    <3> HIDE DEF t
    <3>2. fetch' = [fetch EXCEPT ![f] = t]
      BY <1>3 DEF Connect, t
    <3> QED BY <3>1, <3>2, <1>0 DEF TypeOK
  <2>2. t.at = "connected" /\ t.of = o /\ t.off = 0
    OBVIOUS
  <2> HIDE DEF t
  <2>3. /\ backlog' \in [Offer -> Seq(Fetch)] /\ backlog[o] \in Seq(Fetch)
        /\ backlog'[o] = Append(backlog[o], f)
        /\ \A p \in Offer : p # o => backlog'[p] = backlog[p]
    <3>1. backlog[o] \in Seq(Fetch)
      BY <1>0 DEF TypeOK
    <3>2. Append(backlog[o], f) \in Seq(Fetch)
      BY <3>1, Appended
    <3> QED BY <3>1, <3>2, <1>0, <1>3 DEF Connect, TypeOK
  <2>4. UNCHANGED <<length, offer, queue, taker, fetches, stream, ended, disk, faults>>
    BY <1>3 DEF Connect
  <2>5. \A p \in Offer : taker[p] # f /\ (taker[p] # None => taker[p] \in Fetch)
    BY <1>0, <1>1, TransferAssumption DEF Inv, Takers, TypeOK
  <2>6. \A p \in Offer : \A i \in 1..Len(backlog[p]) : backlog[p][i] \in Fetch /\ backlog[p][i] # f
    BY <1>0, <1>1, ElementOfSeq, TransferAssumption DEF Inv, Backlogs, TypeOK
  <2>7. TypeOK'
    BY <1>0, <2>1, <2>3, <2>4 DEF TypeOK
  <2>8. Places' /\ Uncut'
    BY <2>4 DEF Inv, Places, Uncut
  <2>9. Takers'
    BY <2>1, <2>4, <2>5 DEF Inv, Takers, Given
  <2>10. Backlogs'
    <3> SUFFICES ASSUME NEW p \in Offer
                 PROVE  /\ \A i \in 1..Len(backlog'[p]) :
                             fetch'[backlog'[p][i]].of = p /\ ended'[backlog'[p][i]] \in {"no", "reset"}
                        /\ \A i, j \in 1..Len(backlog'[p]) : backlog'[p][i] = backlog'[p][j] => i = j
                        /\ offer'[p].at \in {"sending", "finished", "failed", "lost"} => backlog'[p] = <<>>
      BY DEF Backlogs
    <3>1. CASE p # o
      <4>1. \A i \in 1..Len(backlog[p]) :
              fetch'[backlog[p][i]].of = p /\ ended[backlog[p][i]] \in {"no", "reset"}
        BY <2>1, <2>6 DEF Inv, Backlogs
      <4>2. backlog'[p] = backlog[p]
        BY <3>1, <2>3
      <4> QED BY <4>1, <4>2, <2>4 DEF Inv, Backlogs
    <3>2. CASE p = o
      <4> DEFINE b == backlog[o]
                 c == Append(backlog[o], f)
      <4>1. /\ Len(b) \in Nat /\ Len(c) = Len(b) + 1 /\ c[Len(b) + 1] = f
            /\ \A i \in 1..Len(b) : c[i] = b[i] /\ b[i] \in Fetch /\ b[i] # f
        BY <2>3, <2>6, Appended
      <4>2. /\ \A i \in 1..Len(b) : fetch'[b[i]].of = o /\ ended[b[i]] \in {"no", "reset"}
            /\ \A i, j \in 1..Len(b) : b[i] = b[j] => i = j
        BY <4>1, <2>1 DEF Inv, Backlogs
      <4>3. offer[o].at \notin {"sending", "finished", "failed", "lost"}
        BY <1>3 DEF Listening
      <4>4. backlog'[p] = c
        BY <3>2, <2>3
      <4> HIDE DEF b, c
      <4>5. \A i \in 1..Len(c) : i \in 1..Len(b) \/ i = Len(b) + 1
        BY <4>1
      <4>6. \A i \in 1..Len(c) : fetch'[c[i]].of = o /\ ended[c[i]] \in {"no", "reset"}
        BY <4>1, <4>2, <4>5, <1>1, <2>1, <2>2
      <4>7. \A i, j \in 1..Len(c) : c[i] = c[j] => i = j
        BY <4>1, <4>2, <4>5
      <4> QED BY <3>2, <4>3, <4>4, <4>6, <4>7, <2>4
    <3> QED BY <3>1, <3>2
  <2>11. Fetches'
    BY <1>1, <2>1, <2>2, <2>4, <2>5, TransferAssumption DEF Inv, Fetches
  <2>12. Queued'
    BY <2>4 DEF Inv, Queued
  <2> QED BY <2>7, <2>8, <2>9, <2>10, <2>11, <2>12 DEF Inv
<1> QED BY <1>2, <1>3

LEMMA FetchStepsInv ==
  ASSUME Inv, NEW f \in Fetch, Creat(f) \/ CreatFails(f) \/ TakeFetch(f) \/ EndFetch(f)
  PROVE  Inv'
<1>0. /\ disk \in Seq(0..Size) /\ fetches \in Seq(Fetch)
      /\ faults \subseteq Kinds
  BY DEF Inv, TypeOK
<1>1. CASE Creat(f)
  <2>1. <<>> \in Seq(0..Size) /\ Append(fetches, f) \in Seq(Fetch)
    BY <1>0, EmptySeq, Appended
  <2> QED BY <1>0, <1>1, <2>1, StepInv DEF Creat
<1>2. CASE CreatFails(f)
  BY <1>0, <1>2, StepInv DEF CreatFails, Fault, Kinds
<1>3. CASE TakeFetch(f)
  <2>1. Tail(fetches) \in Seq(Fetch)
    BY <1>0, <1>3, TailOf DEF TakeFetch
  <2> QED BY <1>0, <1>3, <2>1, StepInv DEF TakeFetch
<1>4. CASE EndFetch(f)
  BY <1>0, <1>4, StepInv DEF EndFetch
<1> QED BY <1>1, <1>2, <1>3, <1>4

(* Cells are read, and written as far as the disk lets them.               *)
LEMMA MoveInv ==
  ASSUME Inv, NEW f \in Fetch, NEW r \in 1..Len(stream[f]), NEW w \in 0..r, Move(f, r, w),
         NEW s \in {"copying", "abandoned"}, NEW t, fetch' = [fetch EXCEPT ![f] = t],
         fetch[f].off + w \in 0..Size => t \in FetchRecord,
         t.at = s, t.of = fetch[f].of, t.off = fetch[f].off + w,
         fetch[f].at = "copying",
         faults \subseteq faults' /\ faults' \subseteq Kinds,
         "disk" \notin faults' => w = r
  PROVE  Inv'
<1>0. TypeOK /\ stream[f] \in Seq(1..Size) /\ r \in Nat /\ w \in Nat /\ w <= r /\ r >= 1
      /\ r <= Len(stream[f]) /\ Len(stream[f]) \in Nat
  BY LenProperties DEF Inv, TypeOK
<1>1. PICK o \in Offer : taker[o] = f
  <2>1. stream[f] # <<>>
    BY <1>0, EmptySeq
  <2> QED BY <2>1 DEF Inv, Fetches
<1>2. /\ f # None /\ fetch[f].of = o /\ fetch[f].off + Len(stream[f]) <= Given(o)
      /\ "disk" \notin faults /\ ended[f] # "reset" => fetch[f].off + Len(stream[f]) = Given(o)
      /\ \A p \in Offer : p # o => taker[p] # f
  <2>1. f # None
    BY TransferAssumption
  <2> QED BY <2>1, <1>1 DEF Inv, Takers
<1>3. Given(o) \in 0..Size /\ fetch[f].off \in Nat /\ Size \in Nat
  BY <1>0, GivenBound, Numbers
<1>4. t \in FetchRecord /\ t.of = fetch[f].of /\ t.off = fetch[f].off + w /\ t.at = s
  <2>1. fetch[f].off + w \in 0..Size
    <3>1. ASSUME NEW n \in Nat, NEW m \in Nat, NEW g \in 0..Size, n + m <= g, r <= m
          PROVE  n + w \in 0..Size
      BY <3>1, <1>0, <1>3
    <3>2. fetch[f].off \in Nat /\ Len(stream[f]) \in Nat /\ Given(o) \in 0..Size
      BY <1>0, <1>3
    <3>3. fetch[f].off + Len(stream[f]) <= Given(o) /\ r <= Len(stream[f])
      BY <1>0, <1>2
    <3> QED BY <3>1, <3>2, <3>3
  <2> QED BY <2>1
<1>5. /\ fetch' \in [Fetch -> FetchRecord] /\ fetch'[f] = t
      /\ \A g \in Fetch : g # f => fetch'[g] = fetch[g]
  BY <1>0, <1>4 DEF TypeOK
<1>6. /\ stream' \in [Fetch -> Seq(1..Size)] /\ Len(stream'[f]) = Len(stream[f]) - r
      /\ \A g \in Fetch : g # f => stream'[g] = stream[g]
  <2> DEFINE rest == SubSeq(stream[f], r + 1, Len(stream[f]))
  <2>1. rest \in Seq(1..Size) /\ Len(rest) = Len(stream[f]) - r
    <3>1. CASE r = Len(stream[f])
      BY <3>1, <1>0, EmptySeq, SubSeqProperties
    <3>2. CASE r < Len(stream[f])
      <4>1. \A i \in r + 1..Len(stream[f]) : stream[f][i] \in 1..Size
        BY <1>0, ElementOfSeq, \A i \in r + 1..Len(stream[f]) : i \in 1..Len(stream[f])
      <4> QED BY <4>1, <3>2, <1>0, SubSeqProperties
    <3> QED BY <3>1, <3>2, <1>0
  <2> HIDE DEF rest
  <2>2. stream' = [stream EXCEPT ![f] = rest]
    BY <1>0 DEF Move, rest, TypeOK
  <2> QED BY <2>1, <2>2, <1>0 DEF TypeOK
<1>7. disk' \in Seq(0..Size)
  <2>1. disk \in Seq(0..Size)
    BY <1>0 DEF TypeOK
  <2>2. CASE w = 0
    BY <2>1, <2>2 DEF Move
  <2>3. CASE w # 0
    <3>1. SubSeq(stream[f], 1, w) \in Seq(1..Size)
      <4>1. \A i \in 1..w : stream[f][i] \in 1..Size
        BY <1>0, ElementOfSeq, \A i \in 1..w : i \in 1..Len(stream[f])
      <4> QED BY <4>1, <1>0, SubSeqProperties
    <3>2. SubSeq(stream[f], 1, w) \in Seq(0..Size)
      <4>1. 1..Size \subseteq 0..Size
        BY <1>3
      <4> QED BY <3>1, <4>1, SeqDef
    <3>3. Written(disk, fetch[f].off, SubSeq(stream[f], 1, w)) \in Seq(0..Size)
      BY <2>1, <3>2, <1>3, WrittenType
    <3> QED BY <2>3, <3>3 DEF Move
  <2> QED BY <2>2, <2>3
<1>8. UNCHANGED <<length, offer, queue, backlog, taker, fetches, ended>>
  BY DEF Move
<1>9. TypeOK'
  BY <1>0, <1>5, <1>6, <1>7, <1>8 DEF TypeOK
<1>10. Places' /\ Uncut'
  BY <1>8 DEF Inv, Places, Uncut
<1>11. Takers'
  <2>1. /\ t.off + Len(stream'[f]) <= Given(o)
        /\ "disk" \notin faults' /\ ended[f] # "reset" => t.off + Len(stream'[f]) = Given(o)
    <3>1. Len(stream'[f]) = Len(stream[f]) - r /\ t.off = fetch[f].off + w
      BY <1>4, <1>6
    <3>2. "disk" \notin faults' /\ ended[f] # "reset" =>
            fetch[f].off + Len(stream[f]) = Given(o) /\ w = r
      BY <1>2
    <3>3. fetch[f].off + Len(stream[f]) <= Given(o)
      BY <1>2
    <3>4. ASSUME NEW n \in Nat, NEW m \in Nat, NEW g \in Nat, n + m <= g
          PROVE  n + w + (m - r) <= g /\ (n + m = g /\ w = r => n + w + (m - r) = g)
      BY <3>4, <1>0
    <3>5. t.off + Len(stream'[f]) = fetch[f].off + w + (Len(stream[f]) - r)
      BY <3>1
    <3>6. fetch[f].off \in Nat /\ Len(stream[f]) \in Nat /\ Given(o) \in Nat
      BY <1>0, <1>3
    <3>7. /\ fetch[f].off + w + (Len(stream[f]) - r) <= Given(o)
          /\ fetch[f].off + Len(stream[f]) = Given(o) /\ w = r =>
               fetch[f].off + w + (Len(stream[f]) - r) = Given(o)
      BY <3>3, <3>4, <3>6
    <3> QED BY <3>2, <3>5, <3>7
  <2>2. \A p \in Offer : Given(p)' = Given(p) /\ (taker[p] # None => taker[p] \in Fetch)
    BY <1>0, <1>8 DEF Given, TypeOK
  <2>3. /\ offer[o].at \in {"sending", "finished", "failed", "lost"}
        /\ ended[f] \in {IF offer[o].at = "sending" THEN "no" ELSE "closed", "reset"}
    BY <1>1, <1>2 DEF Inv, Takers
  <2> SUFFICES ASSUME NEW p \in Offer
               PROVE  /\ offer'[p].at \in {"sending", "finished", "failed"} => taker'[p] # None
                      /\ taker'[p] # None =>
                           /\ offer'[p].at \in {"sending", "finished", "failed", "lost"}
                           /\ fetch'[taker'[p]].of = p
                           /\ ended'[taker'[p]] \in
                                {IF offer'[p].at = "sending" THEN "no" ELSE "closed", "reset"}
                           /\ fetch'[taker'[p]].off + Len(stream'[taker'[p]]) <= Given(p)'
                           /\ "disk" \notin faults' /\ ended'[taker'[p]] # "reset" =>
                                fetch'[taker'[p]].off + Len(stream'[taker'[p]]) = Given(p)'
    BY DEF Takers
  <2>4. CASE p = o
    BY <2>1, <2>2, <2>3, <2>4, <1>1, <1>2, <1>4, <1>5, <1>8
  <2>5. CASE p # o
    BY <2>2, <2>5, <1>2, <1>5, <1>6, <1>8 DEF Inv, Takers
  <2> QED BY <2>4, <2>5
<1>12. Backlogs'
  <2>1. \A p \in Offer : \A i \in 1..Len(backlog[p]) : backlog[p][i] \in Fetch
    BY <1>0, ElementOfSeq DEF TypeOK
  <2>2. \A g \in Fetch : fetch'[g].of = fetch[g].of
    BY <1>4, <1>5
  <2> QED BY <2>1, <2>2, <1>8 DEF Inv, Backlogs
<1>13. Fetches'
  <2>1. fetch'[f].at = s /\ fetch'[f].of = fetch[f].of
    BY <1>4, <1>5
  <2>2. fetch[f].of # None
    BY <1>2, TransferAssumption
  <2>3. \E p \in Offer : taker'[p] = f
    BY <1>1, <1>8
  <2> SUFFICES ASSUME NEW g \in Fetch
               PROVE  /\ fetch'[g].at \in {"none", "refused"} => fetch'[g].of = None
                      /\ fetch'[g].of = None => ended'[g] = "no"
                      /\ (\A p \in Offer : taker'[p] # g) => stream'[g] = <<>> /\ fetch'[g].off = 0
                      /\ fetch'[g].at = "finished" => ended'[g] # "no" /\ stream'[g] = <<>>
    BY DEF Fetches
  <2>4. CASE g = f
    BY <2>1, <2>2, <2>3, <2>4
  <2>5. CASE g # f
    BY <2>5, <1>5, <1>6, <1>8 DEF Inv, Fetches
  <2> QED BY <2>4, <2>5
<1>14. Queued'
  BY <1>8 DEF Inv, Queued
<1> QED BY <1>9, <1>10, <1>11, <1>12, <1>13, <1>14 DEF Inv

LEMMA CopyInv ==
  ASSUME Inv, NEW f \in Fetch, Copy(f) \/ CopyBadly(f)
  PROVE  Inv'
<1>0. TypeOK /\ fetch[f] \in FetchRecord /\ fetch[f].at = "copying"
      /\ faults \subseteq Kinds
  BY DEF Inv, TypeOK, Copy, CopyBadly
<1>1. CASE Copy(f)
  <2>1. PICK r \in 1..Len(stream[f]) :
          Move(f, r, r) /\ fetch' = [fetch EXCEPT ![f].off = @ + r] /\ UNCHANGED faults
    BY <1>1 DEF Copy
  <2> DEFINE t == [fetch[f] EXCEPT !.off = fetch[f].off + r]
  <2>2. fetch' = [fetch EXCEPT ![f] = t] /\ r \in 0..r
    BY <2>1, <1>0 DEF TypeOK
  <2>3. /\ t.at = "copying" /\ t.of = fetch[f].of /\ t.off = fetch[f].off + r
        /\ fetch[f].off + r \in 0..Size => t \in FetchRecord
    BY <1>0 DEF FetchRecord
  <2> HIDE DEF t
  <2>4. "disk" \notin faults' => r = r
    OBVIOUS
  <2>5. faults \subseteq faults' /\ faults' \subseteq Kinds
    BY <2>1, <1>0
  <2>6. "copying" \in {"copying", "abandoned"} /\ Move(f, r, r) /\ fetch[f].at = "copying"
    BY <2>1, <1>0
  <2> QED BY <2>2, <2>3, <2>4, <2>5, <2>6, MoveInv
<1>2. CASE CopyBadly(f)
  <2>0. PICK r \in 1..Len(stream[f]) : \E w \in 0..r - 1 :
          /\ Move(f, r, w)
          /\ fetch' = [fetch EXCEPT ![f].off = @ + w,
                         ![f].at = IF w = 0 THEN "abandoned" ELSE "copying"]
          /\ faults' = faults \cup {"disk"}
    BY <1>2 DEF CopyBadly, Fault
  <2>1. PICK w \in 0..r - 1 :
          /\ Move(f, r, w)
          /\ fetch' = [fetch EXCEPT ![f].off = @ + w,
                         ![f].at = IF w = 0 THEN "abandoned" ELSE "copying"]
          /\ faults' = faults \cup {"disk"}
    BY <2>0
  <2> DEFINE s == IF w = 0 THEN "abandoned" ELSE "copying"
             t == [fetch[f] EXCEPT !.off = fetch[f].off + w, !.at = s]
  <2>2. s \in {"copying", "abandoned"} /\ w \in 0..r
    OBVIOUS
  <2>3. fetch' = [fetch EXCEPT ![f] = t]
    BY <2>1, <1>0 DEF TypeOK
  <2> HIDE DEF s
  <2>4. /\ t.at = s /\ t.of = fetch[f].of /\ t.off = fetch[f].off + w
        /\ fetch[f].off + w \in 0..Size => t \in FetchRecord
    BY <2>2, <1>0 DEF FetchRecord
  <2> HIDE DEF t
  <2>5. faults \subseteq faults' /\ faults' \subseteq Kinds /\ "disk" \in faults'
    BY <2>1, <1>0 DEF Kinds
  <2>6. Move(f, r, w) /\ fetch[f].at = "copying"
    BY <2>1, <1>0
  <2> QED BY <2>2, <2>3, <2>4, <2>5, <2>6, MoveInv
<1> QED BY <1>1, <1>2

LEMMA NextInv == Inv /\ [Next]_vars => Inv'
<1> SUFFICES ASSUME Inv, [Next]_vars PROVE Inv'
  OBVIOUS
<1>0. faults \subseteq Kinds
  BY DEF Inv, TypeOK
<1>1. ASSUME NEW o \in Offer, SendReply(o) \/ SendNothing(o) \/ Send(o)
      PROVE  Inv'
  <2>1. CASE BrokenPipe(o)
    BY <1>0, <2>1, SenderEndsInv DEF BrokenPipe
  <2>2. CASE ~BrokenPipe(o)
    BY <1>1, <2>2, GoInv, AcceptInv, ReadFileInv, WriteInv, FinishInv DEF Send
  <2> QED BY <2>1, <2>2
<1>2. ASSUME NEW o \in Offer, AcceptFails(o) \/ ShortWrite(o) \/ ReadFails(o)
      PROVE  Inv'
  BY <1>2, AcceptFailsInv, ShortWriteInv, FinishInv
<1>3. ASSUME NEW f \in Fetch, Receive(f) \/ CreatFails(f) \/ CopyBadly(f) \/ Break(f)
      PROVE  Inv'
  BY <1>3, FetchStepsInv, CopyInv, BreakInv DEF Receive
<1>4. ASSUME NEW f \in Fetch, NEW o \in Offer, Connect(f, o)
      PROVE  Inv'
  BY <1>4, ConnectInv
<1>5. CASE SenderQuits
  BY <1>0, <1>5, SenderEndsInv DEF SenderQuits, Fault, Kinds
<1>6. CASE ReceiverQuits \/ \E n \in 0..Size : Truncate(n)
  BY <1>6, ReceiverQuitsInv, TruncateInv
<1>7. CASE UNCHANGED vars
  BY <1>7 DEF vars, Inv, TypeOK, Places, Uncut, Takers, Backlogs, Fetches, Queued, Given
<1> QED BY <1>1, <1>2, <1>3, <1>4, <1>5, <1>6, <1>7 DEF Next

(* Every step keeps the invariant.                                         *)
LEMMA Invariance == Spec => []Inv
<1>1. Init => Inv
  BY InitInv
<1>2. Inv /\ [Next]_vars => Inv'
  BY NextInv
<1> QED BY <1>1, <1>2, PTL DEF Spec

(* Whatever the two programs' threads do, and in whatever order packets    *)
(* come, the state of a transfer keeps its types: no thread's place in the *)
(* file or the buffer runs over its end (download_send_accept).            *)
THEOREM TypeCorrect == Spec => []TypeOK
<1>1. Inv => TypeOK
  BY DEF Inv
<1> QED BY <1>1, Invariance, PTL

(* What download_recv_fetch has read when it ends: nothing of a connection *)
(* nobody took, and else all that the sender had read, which is the whole  *)
(* file, unless the connection broke, the sender's program ended, a read   *)
(* failed, or the file was cut: for any file, buffer and number of threads. *)
THEOREM WholeFiles == Spec => []WholeOrCutShort
<1>1. Inv => WholeOrCutShort
  <2> SUFFICES ASSUME Inv, NEW f \in Fetch, fetch[f].at = "finished", "disk" \notin faults,
                      Taken(f) \/ fetch[f].off # 0, ended[f] # "reset",
                      ~ \E o \in Offer : taker[o] = f /\ offer[o].at = "lost"
               PROVE  \E o \in Offer :
                        /\ taker[o] = f /\ offer[o].at \in {"finished", "failed"}
                        /\ fetch[f].off = offer[o].pos
                        /\ offer[o].at = "finished" /\ "cut" \notin faults => offer[o].pos = Size
    BY DEF WholeOrCutShort
  <2>1. ended[f] = "closed" /\ stream[f] = <<>>
    BY DEF Inv, Fetches, TypeOK
  <2>2. PICK o \in Offer : taker[o] = f
    BY DEF Inv, Fetches, Taken
  <2>3. f # None
    BY TransferAssumption
  <2>4. offer[o].at \in {"finished", "failed"} /\ fetch[f].off + Len(stream[f]) = Given(o)
    BY <2>1, <2>2, <2>3 DEF Inv, Takers
  <2>5. offer[o].left = 0 /\ offer[o].put = 0
    BY <2>4, Numbers DEF Inv, Places
  <2>6. fetch[f].off = offer[o].pos
    <3>1. fetch[f].off + 0 = offer[o].pos - 0 + 0
      BY <2>1, <2>4, <2>5, EmptySeq DEF Given
    <3>2. fetch[f].off \in Nat /\ offer[o].pos \in Nat
      BY Numbers DEF Inv
    <3> QED BY <3>1, <3>2
  <2>7. offer[o].at = "finished" /\ "cut" \notin faults => offer[o].pos = Size
    <3>1. offer[o].pos \in 0..Size /\ Size \in Nat
      BY Numbers DEF Inv
    <3> QED BY <3>1 DEF Inv, Places, Uncut
  <2> QED BY <2>2, <2>4, <2>6, <2>7
<1> QED BY <1>1, Invariance, PTL

(* A step that changes nothing Delivery sees.                              *)
LEMMA Unseen ==
  ASSUME UNCHANGED <<length, taker>>, \A p \in Offer : Given(p)' = Given(p),
         \A p \in Offer : offer'[p].at = "finished" <=> offer[p].at = "finished",
         \A p \in Offer : offer'[p].at \in {"failed", "lost"} <=> offer[p].at \in {"failed", "lost"}
  PROVE  UNCHANGED D!dvars
BY DEF D!dvars, Given

LEMMA AcceptTakes ==
  ASSUME Inv, NEW o \in Offer, Accept(o)
  PROVE  D!Next
<1> DEFINE f == Head(backlog[o])
<1>1. /\ f \in Fetch /\ taker[o] = None /\ \A p \in Offer : taker[p] # f
  BY Waiting DEF Accept
<1>2. taker' = [taker EXCEPT ![o] = f]
  BY DEF Accept
<1>3. /\ \A p \in Offer : offer'[p].pos - offer'[p].left + offer'[p].put
                          = offer[p].pos - offer[p].left + offer[p].put
      /\ \A p \in Offer : offer'[p].at = "finished" <=> offer[p].at = "finished"
      /\ \A p \in Offer : offer'[p].at \in {"failed", "lost"} <=> offer[p].at \in {"failed", "lost"}
  BY GoEffect DEF Accept, Inv
<1>4. offer[o].at = "accepting" /\ UNCHANGED length
  BY DEF Accept
<1> HIDE DEF f
<1>5. D!Open(o)
  BY <1>4 DEF D!Open
<1>6. D!Take(o, f)
  BY <1>1, <1>2, <1>3, <1>4, <1>5 DEF D!Take
<1> QED BY <1>1, <1>6 DEF D!Next

LEMMA WriteGives ==
  ASSUME Inv, NEW o \in Offer, Write(o)
  PROVE  D!Next
<1>1. /\ Given(o)' = Given(o) + 1
      /\ \A p \in Offer : p # o => Given(p)' = Given(p)
      /\ \A p \in Offer : offer'[p].at = offer[p].at
  BY WriteInv
<1>2. Given(o) < Size
  <2>1. ASSUME NEW n \in 0..Size, NEW k \in 0..Buffer, NEW h \in 0..Buffer, h < k
        PROVE  n - k + h < Size
    BY <2>1, TransferAssumption
  <2>2. /\ offer[o].pos \in 0..Size /\ offer[o].left \in 0..Buffer
        /\ offer[o].put \in 0..Buffer
    BY DEF Inv, TypeOK, OfferRecord
  <2>3. offer[o].put < offer[o].left
    BY DEF Inv, Places, Write
  <2> QED BY <2>1, <2>2, <2>3 DEF Given
<1>3. taker[o] # None /\ UNCHANGED <<length, taker>> /\ offer[o].at = "sending"
  BY Writing DEF Write
<1>4. [p \in Offer |-> Given(p)'] = [[p \in Offer |-> Given(p)] EXCEPT ![o] = @ + 1]
  BY <1>1
<1>5. D!Give(o)
  BY <1>1, <1>2, <1>3, <1>4 DEF D!Give, D!Open, Given
<1> QED BY <1>5 DEF D!Next

LEMMA FinishTells ==
  ASSUME Inv, NEW o \in Offer, Finish(o)
  PROVE  D!Next
<1>1. offer[o].at = "sending" /\ offer[o].pos >= length /\ offer[o].left = 0
  BY DEF Finish, AtEnd
<1>2. /\ \A p \in Offer : p # o => offer'[p] = offer[p]
      /\ offer'[o].at = "finished" /\ offer'[o].pos = offer[o].pos
      /\ offer'[o].left = offer[o].left /\ offer'[o].put = offer[o].put
  BY GoEffect DEF Finish, Inv
<1>3. offer[o].pos - offer[o].left + offer[o].put >= length
  <2>1. offer[o].put = 0 /\ offer[o].pos \in Nat /\ length \in Nat
    BY <1>1, TransferAssumption DEF Inv, Places, TypeOK, OfferRecord
  <2> QED BY <1>1, <2>1
<1>4. taker[o] # None /\ UNCHANGED <<length, taker>>
  BY <1>1, Writing DEF Finish
<1>5. D!Tell(o)
  BY <1>1, <1>2, <1>3, <1>4 DEF D!Tell, D!Open
<1> QED BY <1>5 DEF D!Next

(* A read that fails stops an offer, the end of the program all it has.    *)
LEMMA OffersStop ==
  ASSUME UNCHANGED <<length, taker>>, \A p \in Offer : Given(p)' = Given(p),
         NEW S \in SUBSET Offer,
         \A p \in S : offer[p].at \notin {"finished", "failed", "lost"},
         \A p \in Offer : offer'[p].at \in {"failed", "lost"} <=>
                            offer[p].at \in {"failed", "lost"} \/ p \in S,
         \A p \in Offer : offer'[p].at = "finished" <=> offer[p].at = "finished"
  PROVE  D!Next
<1>1. S \in SUBSET {o \in Offer : D!Open(o)}
  BY DEF D!Open
<1>2. {o \in Offer : offer'[o].at \in {"failed", "lost"}}
        = {o \in Offer : offer[o].at \in {"failed", "lost"}} \cup S
  OBVIOUS
<1>3. D!Stop
  BY <1>1, <1>2 DEF D!Stop, Given
<1> QED BY <1>3 DEF D!Next

LEMMA ReadFailsStops ==
  ASSUME Inv, NEW o \in Offer, ReadFails(o)
  PROVE  D!Next
<1>1. offer[o].at = "sending" /\ UNCHANGED <<length, taker>>
  BY DEF ReadFails
<1>2. /\ \A p \in Offer : p # o => offer'[p] = offer[p]
      /\ offer'[o].at = "failed" /\ offer'[o].pos = offer[o].pos
      /\ offer'[o].left = offer[o].left /\ offer'[o].put = offer[o].put
  BY GoEffect DEF ReadFails, Inv
<1>3. \A p \in Offer : Given(p)' = Given(p)
  BY <1>2 DEF Given
<1> DEFINE S == {o}
<1>4. /\ S \in SUBSET Offer
      /\ \A p \in S : offer[p].at \notin {"finished", "failed", "lost"}
      /\ \A p \in Offer : offer'[p].at \in {"failed", "lost"} <=>
                            offer[p].at \in {"failed", "lost"} \/ p \in S
      /\ \A p \in Offer : offer'[p].at = "finished" <=> offer[p].at = "finished"
  BY <1>1, <1>2
<1> HIDE DEF S
<1> QED BY <1>1, <1>3, <1>4, OffersStop

LEMMA SenderEndsStops ==
  ASSUME Inv, SenderEnds
  PROVE  D!Next
<1>1. UNCHANGED <<length, taker>>
  BY DEF SenderEnds
<1>2. \A p \in Offer :
        /\ offer'[p].at = IF Live(p) THEN "lost" ELSE offer[p].at
        /\ offer'[p].pos = offer[p].pos /\ offer'[p].left = offer[p].left
        /\ offer'[p].put = offer[p].put
  BY SenderEndsEffect
<1>3. \A p \in Offer : Given(p)' = Given(p)
  BY <1>2 DEF Given
<1> DEFINE S == {p \in Offer : Live(p)}
<1>4. /\ S \in SUBSET Offer
      /\ \A p \in S : offer[p].at \notin {"finished", "failed", "lost"}
      /\ \A p \in Offer : offer'[p].at \in {"failed", "lost"} <=>
                            offer[p].at \in {"failed", "lost"} \/ p \in S
      /\ \A p \in Offer : offer'[p].at = "finished" <=> offer[p].at = "finished"
  BY <1>2 DEF Live
<1> HIDE DEF S
<1> QED BY <1>1, <1>3, <1>4, OffersStop

LEMMA TruncateShortens ==
  ASSUME Inv, NEW n \in 0..Size, Truncate(n)
  PROVE  D!Next
<1>1. length \in 0..Size /\ length' = n /\ n < length /\ UNCHANGED <<offer, taker>>
  BY DEF Truncate, Inv, TypeOK
<1>2. n \in 0..length - 1
  BY <1>1, TransferAssumption
<1>3. D!Shorten
  BY <1>1, <1>2 DEF D!Shorten
<1> QED BY <1>3 DEF D!Next

(* The sender implements Delivery: each offer is taken by one connection   *)
(* that no other offer took, given no more than the file, and ended only   *)
(* when it was given all that the file still holds, or when it is stopped: *)
(* by a read that fails, or by the end of the program                      *)
(* (download_send_accept).                                                 *)
THEOREM Implements == Spec => Delivered
<1>1. Init => D!Init
  BY DEF Init, D!Init, NoOffer
<1>2. Inv /\ [Next]_vars => [D!Next]_(D!dvars)
  <2> SUFFICES ASSUME Inv, [Next]_vars PROVE [D!Next]_(D!dvars)
    OBVIOUS
  <2>1. ASSUME NEW o \in Offer,
               SendReply(o) \/ SendNothing(o) \/ PushOffer(o) \/ TakeOffer(o) \/ AcceptFails(o)
        PROVE  UNCHANGED D!dvars
    <3>1. PICK s \in {"silent", "replied", "queued", "accepting", "dropped"} : Go(o, s)
      BY <2>1 DEF SendReply, SendNothing, PushOffer, TakeOffer, AcceptFails
    <3>2. offer[o].at \notin {"finished", "failed", "lost"} /\ UNCHANGED <<length, taker>>
      <4>1. TakeOffer(o) => offer[o].at = "queued"
        <5> SUFFICES ASSUME TakeOffer(o) PROVE offer[o].at = "queued"
          OBVIOUS
        <5>1. o = queue[1] /\ 1 \in 1..Len(queue)
          BY TailOf DEF TakeOffer, Inv, TypeOK
        <5> QED BY <5>1 DEF Inv, Queued
      <4> QED BY <2>1, <4>1 DEF SendReply, SendNothing, PushOffer, TakeOffer, AcceptFails, NextOffer
    <3>3. /\ \A p \in Offer : p # o => offer'[p] = offer[p]
          /\ offer'[o].at \notin {"finished", "failed", "lost"} /\ offer'[o].pos = offer[o].pos
          /\ offer'[o].left = offer[o].left /\ offer'[o].put = offer[o].put
      BY <3>1, GoEffect DEF Inv
    <3>4. /\ \A p \in Offer : Given(p)' = Given(p)
          /\ \A p \in Offer : offer'[p].at = "finished" <=> offer[p].at = "finished"
          /\ \A p \in Offer : offer'[p].at \in {"failed", "lost"} <=>
                                offer[p].at \in {"failed", "lost"}
      BY <3>2, <3>3 DEF Given
    <3> QED BY <3>2, <3>4, Unseen
  <2>2. ASSUME NEW o \in Offer, ReadFile(o) \/ ShortWrite(o)
        PROVE  UNCHANGED D!dvars
    <3>1. \A p \in Offer : Given(p)' = Given(p) /\ offer'[p].at = offer[p].at
      BY <2>2, ReadFileInv, ShortWriteInv
    <3> QED BY <2>2, <3>1, Unseen DEF ReadFile, ShortWrite
  <2>3. ASSUME NEW o \in Offer,
               Accept(o) \/ Write(o) \/ Finish(o) \/ ReadFails(o) \/ BrokenPipe(o)
        PROVE  D!Next
    BY <2>3, AcceptTakes, WriteGives, FinishTells, ReadFailsStops, SenderEndsStops DEF BrokenPipe
  <2>4. ASSUME NEW f \in Fetch, Receive(f) \/ CreatFails(f) \/ CopyBadly(f) \/ Break(f)
        PROVE  UNCHANGED D!dvars
    BY <2>4 DEF Receive, Creat, TakeFetch, Copy, EndFetch, CreatFails, CopyBadly, Move, Break, D!dvars
  <2>5. ASSUME NEW f \in Fetch, NEW o \in Offer, Connect(f, o)
        PROVE  UNCHANGED D!dvars
    BY <2>5 DEF Connect, D!dvars
  <2>6. CASE SenderQuits \/ \E n \in 0..Size : Truncate(n)
    BY <2>6, SenderEndsStops, TruncateShortens DEF SenderQuits
  <2>7. CASE ReceiverQuits
    BY <2>7 DEF ReceiverQuits, D!dvars
  <2>8. CASE UNCHANGED vars
    BY <2>8 DEF vars, D!dvars
  <2>9. CASE Next
    BY <2>1, <2>2, <2>3, <2>4, <2>5, <2>6, <2>7, <2>9 DEF Next, Send
  <2> QED BY <2>8, <2>9
<1> QED BY <1>1, <1>2, Invariance, PTL DEF Spec, Delivered, D!Spec

(* Steps of an offer that neither write nor close.                         *)
LEMMA OfferUndamaged ==
  ASSUME Inv, Faultless, NEW o \in Offer,
         SendReply(o) \/ SendNothing(o) \/ PushOffer(o) \/ TakeOffer(o) \/ ReadFile(o)
  PROVE  Faultless'
<1>1. UNCHANGED <<backlog, taker, fetch, fetches, stream, ended, disk>>
  BY DEF SendReply, SendNothing, PushOffer, TakeOffer, ReadFile
<1>2. Unbroken' /\ Sound'
  <2>1. TypeOK
    BY DEF Inv
  <2>2. CASE ReadFile(o)
    <3>1. offer' = [offer EXCEPT ![o] = [at |-> "sending", pos |-> @.pos + Amount(o),
                      size |-> Amount(o), left |-> Amount(o), put |-> 0]]
      BY <2>2 DEF ReadFile
    <3>2. /\ \A p \in Offer : p # o => offer'[p] = offer[p]
          /\ offer'[o].left = Amount(o) /\ offer'[o].size = Amount(o)
          /\ offer'[o].at = "sending"
      BY <2>1, <3>1 DEF TypeOK
    <3> QED BY <3>2 DEF Faultless, Unbroken, Sound
  <2>3. CASE ~ReadFile(o)
    <3>1. PICK s \in {"silent", "replied", "queued", "accepting"} : Go(o, s)
      BY <2>3 DEF SendReply, SendNothing, PushOffer, TakeOffer
    <3>2. /\ \A p \in Offer : offer'[p].left = offer[p].left /\ offer'[p].size = offer[p].size
          /\ \A p \in Offer : offer'[p].at \in {offer[p].at, s}
      BY <2>1, <3>1, GoEffect
    <3> QED BY <3>2 DEF Faultless, Unbroken, Sound
  <2> QED BY <2>2, <2>3
<1> QED BY <1>1, <1>2
        DEF Faultless, InPlace, Untouched, OwnClosed, Unreset, LastMade, Pushed, Made

LEMMA AcceptUndamaged ==
  ASSUME Inv, Faultless, NEW o \in Offer, Accept(o) \/ Finish(o)
  PROVE  Faultless'
<1>0. TypeOK
  BY DEF Inv
<1>1. UNCHANGED <<fetch, fetches, stream, disk>>
  BY DEF Accept, Finish
<1>2. Unbroken' /\ Sound'
  <2>1. PICK s \in {"sending", "finished"} : Go(o, s)
    BY DEF Accept, Finish
  <2>2. /\ \A p \in Offer : offer'[p].left = offer[p].left /\ offer'[p].size = offer[p].size
        /\ \A p \in Offer : offer'[p].at \in {offer[p].at, s}
    BY <1>0, <2>1, GoEffect
  <2> QED BY <2>2 DEF Faultless, Unbroken, Sound
<1>3. OwnClosed' /\ Unreset'
  <2>1. CASE Accept(o)
    <3> DEFINE f == Head(backlog[o])
    <3>1. /\ taker[o] = None /\ f \in Fetch /\ f = backlog[o][1] /\ 1 \in 1..Len(backlog[o])
      BY <2>1, Waiting DEF Accept
    <3>2. /\ taker'[o] = f /\ \A p \in Offer : p # o => taker'[p] = taker[p]
          /\ backlog'[o] = <<>> /\ \A p \in Offer : p # o => backlog'[p] = backlog[p]
      BY <1>0, <2>1 DEF Accept, TypeOK
    <3> HIDE DEF f
    <3>3. \A g \in Fetch : /\ g # None
                           /\ ended'[g] = "closed" => ended[g] = "closed"
                           /\ ended'[g] = "reset" =>
                                ended[g] = "reset" \/ (fetch[g].of = o /\ g # f)
      BY <2>1, TransferAssumption DEF Accept, Reset, f
    <3>4. OwnClosed'
      BY <3>1, <3>2, <3>3 DEF Faultless, OwnClosed
    <3>5. ASSUME NEW g \in Fetch, ended'[g] = "reset", NEW p \in Offer
          PROVE  taker'[p] # g /\ \A i \in 1..Len(backlog'[p]) : backlog'[p][i] # g
      <4>1. CASE p = o
        <5>1. g # f
          BY <3>1, <3>3, <3>5 DEF Faultless, Unreset
        <5> QED BY <4>1, <5>1, <3>2, EmptySeq
      <4>2. CASE p # o /\ ended[g] = "reset"
        BY <4>2, <3>2 DEF Faultless, Unreset
      <4>3. CASE p # o /\ fetch[g].of = o
        <5>1. taker[p] # g
          BY <4>3, <3>3 DEF Inv, Takers
        <5>2. \A i \in 1..Len(backlog[p]) : backlog[p][i] # g
          BY <4>3 DEF Inv, Backlogs
        <5> QED BY <4>3, <5>1, <5>2, <3>2
      <4> QED BY <4>1, <4>2, <4>3, <3>3, <3>5
    <3> QED BY <3>4, <3>5 DEF Unreset
  <2>2. CASE Finish(o)
    <3>1. Close(taker[o]) /\ UNCHANGED <<taker, backlog>>
      BY <2>2 DEF Finish
    <3>2. \A f \in Fetch : /\ f # taker[o] => ended'[f] = ended[f]
                           /\ ended'[f] = "reset" => ended[f] = "reset"
      BY <1>0, <3>1 DEF Close, TypeOK
    <3> QED BY <3>1, <3>2 DEF Faultless, OwnClosed, Unreset
  <2> QED BY <2>1, <2>2
<1> QED BY <1>1, <1>2, <1>3 DEF Faultless, InPlace, Untouched, LastMade, Pushed, Made

(* The cell that is written is the one after those that were.              *)
LEMMA WriteUndamaged ==
  ASSUME Inv, Faultless, faults = {}, NEW o \in Offer, Write(o)
  PROVE  Faultless'
<1> DEFINE f == taker[o]
           s == Put(offer[o])
<1>0. TypeOK /\ offer[o].left > 0 /\ offer[o].at = "sending" /\ offer[o] \in OfferRecord
  BY DEF Inv, Write, TypeOK
<1>1. UNCHANGED <<backlog, taker, fetch, fetches, ended, disk>>
  BY DEF Write
<1>2. f \in Fetch /\ f # None /\ ended[f] = "no"
  BY <1>0, Writing DEF Write
<1>3. /\ offer' = [offer EXCEPT ![o] = s]
      /\ stream' = [stream EXCEPT ![f] = Append(stream[f], Cell(o))]
      /\ stream[f] \in Seq(1..Size)
  BY <1>0, <1>2 DEF Write, TypeOK
<1>4. Unbroken'
  <2>1. s.left > 0 => s.left = s.size
    <3>1. CASE offer[o].put + 1 = offer[o].left
      BY <3>1, <1>0 DEF Put, OfferRecord
    <3>2. CASE offer[o].put + 1 # offer[o].left
      <4>1. s.left = offer[o].left /\ s.size = offer[o].size
        BY <3>2, <1>0 DEF Put, OfferRecord
      <4> QED BY <4>1, <1>0 DEF Faultless, Unbroken
    <3> QED BY <3>1, <3>2
  <2>2. offer'[o] = s /\ \A p \in Offer : p # o => offer'[p] = offer[p]
    BY <1>0, <1>3 DEF TypeOK
  <2> HIDE DEF s
  <2> QED BY <2>1, <2>2 DEF Faultless, Unbroken
<1>5. Cell(o) = fetch[f].off + Len(stream[f]) + 1 /\ Cell(o) \in 1..Size
  <2>1. fetch[f].off + Len(stream[f]) = Given(o)
    BY <1>2 DEF Inv, Takers
  <2>2. offer[o].left = offer[o].size
    BY <1>0 DEF Faultless, Unbroken
  <2>3. Cell(o) = Given(o) + 1
    BY <1>0, <2>2, TransferAssumption DEF Cell, Given, OfferRecord
  <2>4. Cell(o) \in 1..Size
    <3>1. /\ offer[o].pos \in 0..Size /\ offer[o].size \in 0..Buffer
          /\ offer[o].left \in 0..Buffer /\ offer[o].put \in 0..Buffer
          /\ Size \in Nat /\ Buffer \in Nat
      BY <1>0, TransferAssumption DEF OfferRecord
    <3>2. /\ offer[o].left <= offer[o].size /\ offer[o].size <= offer[o].pos
          /\ offer[o].put < offer[o].left
      BY <1>0 DEF Inv, Places
    <3> QED BY <3>1, <3>2 DEF Cell
  <2> QED BY <2>1, <2>3, <2>4
<1>6. InPlace'
  <2>1. /\ Len(stream[f]) \in Nat
        /\ Len(Append(stream[f], Cell(o))) = Len(stream[f]) + 1
        /\ \A i \in 1..Len(stream[f]) : Append(stream[f], Cell(o))[i] = stream[f][i]
        /\ Append(stream[f], Cell(o))[Len(stream[f]) + 1] = Cell(o)
    BY <1>3, <1>5, Appended
  <2>2. /\ stream'[f] = Append(stream[f], Cell(o))
        /\ \A g \in Fetch : g # f => stream'[g] = stream[g]
    BY <1>0, <1>2, <1>3 DEF TypeOK
  <2>3. \A i \in 1..Len(stream'[f]) : i \in 1..Len(stream[f]) \/ i = Len(stream[f]) + 1
    BY <2>1, <2>2
  <2>4. \A i \in 1..Len(stream[f]) : stream[f][i] = fetch[f].off + i
    BY <1>2 DEF Faultless, InPlace
  <2>5. fetch[f].off + (Len(stream[f]) + 1) = Cell(o)
    <3>1. \A g \in Fetch : fetch[g].off \in Nat
      BY Numbers DEF Inv
    <3> QED BY <3>1, <1>2, <1>5, <2>1
  <2>6. \A i \in 1..Len(stream'[f]) : stream'[f][i] = fetch[f].off + i
    BY <2>1, <2>2, <2>3, <2>4, <2>5
  <2> QED BY <2>2, <2>6, <1>1 DEF Faultless, InPlace
<1>7. Sound'
  BY WriteInv DEF Faultless, Sound
<1> QED BY <1>1, <1>4, <1>6, <1>7
        DEF Faultless, Untouched, OwnClosed, Unreset, LastMade, Pushed, Made

(* A file that was made is empty, and what the others copied before is of  *)
(* no account: the one that emptied it has copied nothing yet.             *)
LEMMA FetchUndamaged ==
  ASSUME Inv, Faultless, NEW f \in Fetch, Creat(f) \/ TakeFetch(f) \/ EndFetch(f)
  PROVE  Faultless'
<1>0. TypeOK
  BY DEF Inv
<1>1. UNCHANGED <<offer, backlog, taker, stream, ended>>
  BY DEF Creat, TakeFetch, EndFetch
<1>2. PICK s \in {"queued", "copying", "finished"} : Step(f, s)
  BY DEF Creat, TakeFetch, EndFetch
<1>3. /\ \A g \in Fetch : g # f => fetch'[g] = fetch[g]
      /\ fetch'[f].at = s /\ fetch'[f].off = fetch[f].off
  BY <1>0, <1>2, StepEffect
<1>4. \A g \in Fetch : fetch'[g].off = fetch[g].off
  BY <1>3
<1>5. Untouched'
  <2>1. s = "queued" => Creat(f) /\ fetch[f].at = "connected"
    <3>1. Creat(f) => fetch[f].at = "connected"
      BY DEF Creat
    <3>2. TakeFetch(f) => fetch'[f].at = "copying"
      BY <1>0, StepEffect DEF TakeFetch
    <3>3. EndFetch(f) => fetch'[f].at = "finished"
      BY <1>0, StepEffect DEF EndFetch
    <3> QED BY <3>1, <3>2, <3>3, <1>3
  <2> QED BY <2>1, <1>3 DEF Faultless, Untouched
<1>6. Cells(disk') /\ LastMade'
  <2>1. CASE Creat(f)
    <3>1. disk' = <<>> /\ fetch[f].at = "connected"
      BY <2>1 DEF Creat
    <3>2. fetch'[f].off = 0
      BY <3>1, <1>4 DEF Faultless, Untouched
    <3>3. Covered(disk', 0) /\ Cells(disk')
      BY <3>1, EmptySeq, TransferAssumption DEF Covered, Cells
    <3>4. Made(f)'
      BY <1>3 DEF Made
    <3> QED BY <3>2, <3>3, <3>4 DEF LastMade
  <2>2. CASE ~Creat(f)
    <3>1. disk' = disk
      BY <2>2 DEF TakeFetch, EndFetch
    <3>2. Made(f)
      <4>1. CASE TakeFetch(f)
        <5>1. fetches # <<>> /\ f = Head(fetches) /\ fetches \in Seq(Fetch)
          BY <4>1, <1>0 DEF TakeFetch, TypeOK
        <5>2. f = fetches[1] /\ Len(fetches) \in Nat \ {0}
          BY <5>1, TailOf
        <5> QED BY <5>2 DEF Faultless, Pushed
      <4> QED BY <4>1, <2>2 DEF EndFetch, Made
    <3>3. \A g \in Fetch : Made(g) => Made(g)'
      BY <1>3 DEF Made
    <3> QED BY <3>1, <3>2, <3>3, <1>4 DEF Faultless, LastMade
  <2> QED BY <2>1, <2>2
<1>7. Pushed'
  <2>1. fetches \in Seq(Fetch) /\ \A i \in 1..Len(fetches) : Made(fetches[i])
    BY <1>0 DEF Faultless, Pushed, TypeOK
  <2>2. \A g \in Fetch : Made(g) => Made(g)'
    BY <1>3 DEF Made
  <2>3. Made(f)'
    BY <1>3 DEF Made
  <2>4. Len(fetches) \in Nat /\ \A i \in 1..Len(fetches) : fetches[i] \in Fetch
    BY <2>1, LenProperties, ElementOfSeq
  <2>5. \A i \in 1..Len(fetches) : fetch'[fetches[i]].at \in {"queued", "copying", "finished"}
    BY <2>1, <2>2, <2>4 DEF Made
  <2>6. CASE Creat(f)
    <3>1. fetches' = Append(fetches, f)
      BY <2>6 DEF Creat
    <3>2. /\ Len(fetches') = Len(fetches) + 1
          /\ \A i \in 1..Len(fetches) : fetches'[i] = fetches[i]
          /\ fetches'[Len(fetches) + 1] = f
      BY <3>1, <2>1, Appended
    <3>3. \A i \in 1..Len(fetches') : i \in 1..Len(fetches) \/ i = Len(fetches) + 1
      BY <3>2, <2>4
    <3> QED BY <3>2, <3>3, <2>3, <2>5 DEF Pushed, Made
  <2>7. CASE TakeFetch(f)
    <3>1. fetches # <<>> /\ fetches' = Tail(fetches)
      BY <2>7 DEF TakeFetch
    <3>2. /\ Len(fetches') = Len(fetches) - 1
          /\ \A i \in 1..Len(fetches) - 1 : fetches'[i] = fetches[i + 1]
      BY <3>1, <2>1, TailOf
    <3>3. \A i \in 1..Len(fetches') : i + 1 \in 1..Len(fetches) /\ i \in 1..Len(fetches) - 1
      BY <3>2, <2>4
    <3> QED BY <3>2, <3>3, <2>5 DEF Pushed, Made
  <2>8. CASE EndFetch(f)
    <3>1. fetches' = fetches
      BY <2>8 DEF EndFetch
    <3> QED BY <3>1, <2>5 DEF Pushed, Made
  <2> QED BY <2>6, <2>7, <2>8
<1> QED BY <1>1, <1>4, <1>5, <1>6, <1>7
        DEF Faultless, Unbroken, InPlace, OwnClosed, Unreset, Sound

LEMMA ConnectUndamaged ==
  ASSUME Inv, Faultless, NEW f \in Fetch, NEW o \in Offer, Connect(f, o)
  PROVE  Faultless'
<1>0. TypeOK /\ fetch[f].at = "none" /\ fetch[f].off = 0
  BY DEF Inv, Connect, NextFetch, Faultless, Untouched
<1>1. UNCHANGED <<offer, taker, fetches, stream, ended, disk>>
  BY DEF Connect
<1>2. /\ \A g \in Fetch : g # f => fetch'[g] = fetch[g]
      /\ fetch'[f].at \in {"connected", "refused"} /\ fetch'[f].off = 0
  BY <1>0 DEF Connect, TypeOK, FetchRecord
<1>3. \A g \in Fetch : fetch'[g].off = fetch[g].off /\ (Made(g)' <=> Made(g))
  BY <1>0, <1>2 DEF Made
<1>4. Untouched'
  BY <1>2 DEF Faultless, Untouched
<1>5. Pushed'
  <2>1. \A i \in 1..Len(fetches) : fetches[i] \in Fetch
    BY <1>0, ElementOfSeq DEF TypeOK
  <2> QED BY <2>1, <1>1, <1>3 DEF Faultless, Pushed, Made
<1>6. Unreset'
  <2>1. ended[f] = "no"
    BY <1>0 DEF Inv, Fetches
  <2>2. ASSUME NEW g \in Fetch, ended[g] = "reset", NEW p \in Offer
        PROVE  \A i \in 1..Len(backlog'[p]) : backlog'[p][i] # g
    <3>1. g # f /\ \A i \in 1..Len(backlog[p]) : backlog[p][i] # g
      BY <2>1, <2>2 DEF Faultless, Unreset
    <3>2. backlog'[p] = backlog[p] \/ backlog'[p] = Append(backlog[p], f)
      BY <1>0 DEF Connect, TypeOK
    <3>3. backlog[p] \in Seq(Fetch)
      BY <1>0 DEF TypeOK
    <3>4. \A i \in 1..Len(backlog[p]) + 1 : i \in 1..Len(backlog[p]) \/ i = Len(backlog[p]) + 1
      BY <3>3, LenProperties
    <3> QED BY <3>1, <3>2, <3>3, <3>4, Appended
  <2> QED BY <2>2, <1>1 DEF Faultless, Unreset
<1> QED BY <1>1, <1>3, <1>4, <1>5, <1>6 DEF Faultless, Unbroken, InPlace, OwnClosed, Sound, LastMade

(* What a copy leaves on disk: what was there, and the cells it writes.    *)
LEMMA WrittenCells ==
  ASSUME NEW d \in Seq(0..Size), NEW cells \in Seq(1..Size), NEW at \in Nat,
         Cells(d), \A i \in 1..Len(cells) : cells[i] = at + i, at + Len(cells) <= Size
  PROVE  LET w == Written(d, at, cells) IN
         /\ Cells(w)
         /\ \A n \in Nat : Covered(d, n) => Covered(w, n)
         /\ Covered(d, at) => Covered(w, at + Len(cells))
<1> DEFINE m == Len(cells)
           k == Len(d)
           end == at + m
           n == IF k > end THEN k ELSE end
           w == [i \in 1..n |->
                  IF i \in at + 1..end THEN cells[i - at] ELSE IF i <= k THEN d[i] ELSE 0]
<1>1. m \in Nat /\ k \in Nat /\ n \in Nat /\ Size \in Nat
  BY LenProperties, TransferAssumption
<1>2. Written(d, at, cells) = w
  BY DEF Written
<1>3. Len(w) = n
  <2>1. DOMAIN w = 1..n /\ w \in Seq(0..Size)
    BY <1>2, WrittenType, SeqMonotonic, 1..Size \subseteq 0..Size
  <2>2. DOMAIN w = 1..Len(w) /\ Len(w) \in Nat
    BY <2>1, LenProperties
  <2> QED BY <2>1, <2>2, <1>1, SameBound
<1>4. ASSUME NEW i \in 1..n
      PROVE  /\ w[i] \in {0, i}
             /\ i \in at + 1..end => w[i] = i
             /\ i <= k /\ d[i] = i => w[i] = i
  <2>1. CASE i \in at + 1..end
    <3>1. i - at \in 1..m /\ at + (i - at) = i
      BY <2>1, <1>1
    <3> QED BY <3>1, <2>1
  <2>2. CASE i \notin at + 1..end /\ i <= k
    <3>1. i \in 1..k /\ w[i] = d[i]
      BY <2>2, <1>1
    <3> QED BY <3>1, <2>2 DEF Cells
  <2>3. CASE i \notin at + 1..end /\ ~(i <= k)
    BY <2>3
  <2> QED BY <2>1, <2>2, <2>3
<1> HIDE DEF w
<1>5. Cells(w)
  BY <1>1, <1>3, <1>4 DEF Cells
<1>6. ASSUME NEW j \in Nat, Covered(d, j)
      PROVE  Covered(w, j)
  <2>1. j <= k /\ k <= n /\ \A i \in 1..j : d[i] = i
    BY <1>1, <1>6 DEF Covered
  <2> HIDE DEF n, k
  <2>2. j <= n /\ \A i \in 1..j : i \in 1..n /\ i <= k /\ d[i] = i
    BY <2>1, <1>1
  <2>3. \A i \in 1..j : w[i] = i
    BY <2>2, <1>4
  <2> QED BY <2>2, <2>3, <1>3 DEF Covered
<1>7. ASSUME Covered(d, at)
      PROVE  Covered(w, end)
  <2>1. \A i \in 1..end : i \in 1..n /\ (i \in at + 1..end \/ (i \in 1..at /\ i <= k))
    BY <1>1, <1>7 DEF Covered
  <2> QED BY <2>1, <1>1, <1>3, <1>4, <1>7 DEF Covered
<1> QED BY <1>2, <1>5, <1>6, <1>7

LEMMA CopyUndamaged ==
  ASSUME Inv, Faultless, NEW f \in Fetch, Copy(f)
  PROVE  Faultless'
<1>0. TypeOK /\ fetch[f].at = "copying" /\ fetch[f] \in FetchRecord
  BY DEF Inv, TypeOK, Copy
<1>1. PICK r \in 1..Len(stream[f]) :
        Move(f, r, r) /\ fetch' = [fetch EXCEPT ![f].off = @ + r]
  BY DEF Copy
<1> DEFINE a == fetch[f].off
           m == Len(stream[f])
           cells == SubSeq(stream[f], 1, r)
           rest == SubSeq(stream[f], r + 1, m)
<1>2. /\ stream[f] \in Seq(1..Size) /\ a \in Nat /\ m \in Nat /\ Size \in Nat
      /\ \A i \in 1..m : stream[f][i] = a + i /\ stream[f][i] \in 1..Size
  <2>1. stream[f] \in Seq(1..Size) /\ a \in Nat /\ Size \in Nat
    BY <1>0, TransferAssumption DEF TypeOK, FetchRecord
  <2>2. m \in Nat /\ \A i \in 1..m : stream[f][i] \in 1..Size
    BY <2>1, LenProperties, ElementOfSeq
  <2>3. \A i \in 1..m : stream[f][i] = a + i
    BY DEF Faultless, InPlace
  <2> QED BY <2>1, <2>2, <2>3
<1>3. a + m <= Size
  <2>1. PICK o \in Offer : taker[o] = f
    BY <1>2, EmptySeq DEF Inv, Fetches
  <2>2. a + m <= Given(o) /\ Given(o) \in 0..Size
    BY <2>1, GivenBound, TransferAssumption DEF Inv, Takers
  <2> QED BY <2>2, <1>2
<1>4. /\ UNCHANGED <<offer, backlog, taker, ended>>
      /\ stream' = [stream EXCEPT ![f] = rest] /\ disk' = Written(disk, a, cells)
  BY <1>0, <1>1 DEF Move, TypeOK
<1>5. /\ fetch'[f].at = "copying" /\ fetch'[f].off = a + r
      /\ \A g \in Fetch : g # f => fetch'[g] = fetch[g]
  <2>1. fetch' = [fetch EXCEPT ![f] = [fetch[f] EXCEPT !.off = a + r]]
    BY <1>1
  <2>2. fetch'[f] = [fetch[f] EXCEPT !.off = a + r]
    BY <1>0, <2>1 DEF TypeOK
  <2> QED BY <1>0, <2>1, <2>2 DEF FetchRecord, TypeOK
<1>6. /\ cells \in Seq(1..Size) /\ Len(cells) = r
      /\ \A i \in 1..r : cells[i] = a + i
  <2>1. \A i \in 1..r : stream[f][i] \in 1..Size /\ stream[f][i] = a + i
    BY <1>2
  <2>2. /\ cells \in Seq(1..Size) /\ Len(cells) = r
        /\ \A i \in 1..r : cells[i] = stream[f][1 + i - 1]
    BY <2>1, <1>2, SubSeqProperties
  <2> QED BY <2>1, <2>2
<1>7. InPlace'
  <2>1. Len(rest) = m - r /\ \A i \in 1..m - r : rest[i] = stream[f][r + i]
    <3>1. \A i \in r + 1..m : stream[f][i] \in 1..Size
      BY <1>2
    <3>2. r + 1 \in Int /\ m \in Int /\ r <= m /\ r \in Nat
      BY <1>2
    <3>3. /\ Len(rest) = IF r + 1 <= m THEN m - (r + 1) + 1 ELSE 0
          /\ \A i \in 1..m - (r + 1) + 1 : rest[i] = stream[f][r + 1 + i - 1]
      BY <3>1, <3>2, SubSeqProperties
    <3> HIDE DEF rest, m
    <3>4. Len(rest) = m - r /\ m - (r + 1) + 1 = m - r
      BY <3>2, <3>3
    <3>5. \A i \in 1..m - r : r + 1 + i - 1 = r + i
      BY <3>2
    <3> QED BY <3>3, <3>4, <3>5
  <2>2. \A i \in 1..Len(rest) : rest[i] = a + r + i
    <3>1. \A i \in 1..m - r : r + i \in 1..m /\ a + (r + i) = a + r + i
      BY <1>2
    <3> QED BY <3>1, <2>1, <1>2
  <2>3. stream'[f] = rest /\ \A g \in Fetch : g # f => stream'[g] = stream[g]
    BY <1>0, <1>4 DEF TypeOK
  <2> HIDE DEF rest, a
  <2> QED BY <2>2, <2>3, <1>5 DEF Faultless, InPlace
<1> HIDE DEF cells, rest
<1>8. /\ Cells(disk')
      /\ \A n \in Nat : Covered(disk, n) => Covered(disk', n)
      /\ Covered(disk, a) => Covered(disk', a + r)
  <2>1. disk \in Seq(0..Size) /\ Cells(disk) /\ a + Len(cells) <= Size
    BY <1>0, <1>2, <1>3, <1>6 DEF TypeOK, Faultless
  <2>2. \A i \in 1..Len(cells) : cells[i] = a + i
    BY <1>6
  <2>3. LET w == Written(disk, a, cells) IN
        /\ Cells(w)
        /\ \A n \in Nat : Covered(disk, n) => Covered(w, n)
        /\ Covered(disk, a) => Covered(w, a + Len(cells))
    BY <2>1, <2>2, <1>2, <1>6, WrittenCells
  <2> QED BY <2>3, <1>4, <1>6
<1>9. LastMade'
  <2>1. PICK c \in Fetch : Made(c) /\ Covered(disk, fetch[c].off)
    BY <1>0 DEF Faultless, LastMade, Made
  <2>2. Made(c)'
    BY <2>1, <1>5 DEF Made
  <2>3. Covered(disk', fetch'[c].off)
    <3>1. CASE c = f
      BY <3>1, <2>1, <1>5, <1>8
    <3>2. CASE c # f
      <4>1. fetch[c].off \in Nat
        BY <1>0, TransferAssumption DEF TypeOK, FetchRecord
      <4> QED BY <3>2, <4>1, <2>1, <1>5, <1>8
    <3> QED BY <3>1, <3>2
  <2> QED BY <2>2, <2>3 DEF LastMade
<1>10. Untouched'
  BY <1>5 DEF Faultless, Untouched
<1>11. Pushed'
  <2>1. \A i \in 1..Len(fetches) : fetches[i] \in Fetch
    BY <1>0, ElementOfSeq DEF TypeOK
  <2>2. fetches' = fetches
    BY <1>1 DEF Move
  <2> QED BY <2>1, <2>2, <1>0, <1>5 DEF Faultless, Pushed, Made
<1> QED BY <1>4, <1>7, <1>8, <1>9, <1>10, <1>11 DEF Faultless, Unbroken, OwnClosed, Unreset, Sound

LEMMA StepUndamaged ==
  ASSUME Inv, Undamaged, [Next]_vars
  PROVE  Undamaged'
<1> SUFFICES ASSUME faults' = {} PROVE Faultless'
  BY DEF Undamaged
<1>1. faults = {} => Faultless
  BY DEF Undamaged
<1>2. ASSUME NEW o \in Offer, SendReply(o) \/ SendNothing(o) \/ Send(o)
      PROVE  Faultless'
  <2>1. faults = {}
    BY <1>2 DEF SendReply, SendNothing, Send, PushOffer, TakeOffer, Accept, ReadFile, Write,
                Finish, BrokenPipe
  <2>2. ~BrokenPipe(o)
    <3>1. offer[o].at = "sending" => taker[o] \in Fetch /\ ended[taker[o]] # "reset"
      BY <1>1, <2>1, Writing DEF Faultless, Unreset
    <3> QED BY <3>1 DEF BrokenPipe
  <2> QED BY <1>1, <1>2, <2>1, <2>2, OfferUndamaged, AcceptUndamaged, WriteUndamaged DEF Send
<1>3. ASSUME NEW o \in Offer, AcceptFails(o) \/ ShortWrite(o) \/ ReadFails(o)
      PROVE  FALSE
  BY <1>3 DEF AcceptFails, ShortWrite, ReadFails, Fault
<1>4. ASSUME NEW f \in Fetch, Receive(f) \/ CreatFails(f) \/ CopyBadly(f) \/ Break(f)
      PROVE  Faultless'
  <2>1. Receive(f)
    BY <1>4 DEF CreatFails, CopyBadly, Break, Fault
  <2>2. faults = {}
    BY <2>1 DEF Receive, Creat, TakeFetch, Copy, EndFetch
  <2> QED BY <1>1, <2>1, <2>2, FetchUndamaged, CopyUndamaged DEF Receive
<1>5. ASSUME NEW f \in Fetch, NEW o \in Offer, Connect(f, o)
      PROVE  Faultless'
  BY <1>1, <1>5, ConnectUndamaged DEF Connect
<1>6. ~SenderQuits /\ ~ReceiverQuits /\ \A n \in 0..Size : ~Truncate(n)
  BY DEF SenderQuits, ReceiverQuits, Truncate, Fault
<1>7. CASE UNCHANGED vars
  <2>1. UNCHANGED <<offer, backlog, taker, fetch, fetches, stream, ended, disk, faults>>
    BY <1>7 DEF vars
  <2> QED BY <1>1, <2>1
          DEF Faultless, Unbroken, InPlace, Untouched, OwnClosed, Unreset, Sound, LastMade,
              Pushed, Made
<1> QED BY <1>2, <1>3, <1>4, <1>5, <1>6, <1>7 DEF Next

(* Without a fault, and with no more replies than are served, the file on  *)
(* disk is the file that was offered once all downloads of it are over,    *)
(* in whatever order they emptied it and copied (download_recv_fetch).     *)
THEOREM FilesIntact == Spec => []Intact
<1>1. Init => Undamaged
  BY EmptySeq, TransferAssumption
     DEF Init, Undamaged, Faultless, Unbroken, InPlace, Untouched, OwnClosed, Unreset, Sound,
         Cells, LastMade, Pushed, Made, NoOffer, NoneYet
<1>2. Inv /\ Undamaged /\ [Next]_vars => Undamaged'
  BY StepUndamaged
<1>3. Inv /\ Undamaged => Intact
  <2> SUFFICES ASSUME Inv, Undamaged, faults = {}, NEW f \in Fetch, Served(f),
                      \A g \in Fetch : fetch[g].at \in {"none", "refused", "connected"} \/ Served(g)
               PROVE  disk = File
    BY DEF Intact
  <2>1. PICK c \in Fetch : Made(c) /\ Covered(disk, fetch[c].off)
    <3>1. Made(f)
      BY DEF Served, Made
    <3> QED BY <3>1 DEF Undamaged, Faultless, LastMade
  <2>2. Served(c)
    BY <2>1 DEF Made
  <2>3. PICK o \in Offer : taker[o] = c
    BY <2>2 DEF Undamaged, Faultless, OwnClosed, Served
  <2>4. fetch[c].off = Size
    <3>1. c # None /\ ended[c] = "closed" /\ stream[c] = <<>>
      BY <2>2, TransferAssumption DEF Served, Inv, Fetches
    <3>2. offer[o].at = "finished" /\ fetch[c].off + Len(stream[c]) = Given(o)
      BY <2>3, <3>1 DEF Inv, Takers, Undamaged, Faultless, Sound
    <3>3. offer[o].pos = Size /\ offer[o].left = 0 /\ offer[o].put = 0
      BY <3>2, Numbers DEF Inv, Places, Uncut
    <3>4. fetch[c].off + 0 = Size - 0 + 0
      BY <3>1, <3>2, <3>3, EmptySeq DEF Given
    <3>5. fetch[c].off \in Nat /\ Size \in Nat
      BY <3>1, Numbers DEF Inv
    <3> QED BY <3>4, <3>5
  <2>5. /\ disk \in Seq(0..Size) /\ Len(disk) = Size /\ \A i \in 1..Size : disk[i] = i
    <3>1. disk \in Seq(0..Size) /\ Len(disk) \in Nat /\ Size \in Nat
      BY LenProperties, TransferAssumption DEF Inv, TypeOK
    <3>2. Len(disk) <= Size
      BY DEF Undamaged, Faultless, Cells
    <3> QED BY <2>1, <2>4, <3>1, <3>2 DEF Covered
  <2> QED BY <2>5, LenProperties DEF File
<1> QED BY <1>1, <1>2, <1>3, Invariance, PTL DEF Spec
=============================================================================
