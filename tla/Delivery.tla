------------------------------- MODULE Delivery -------------------------------
(***************************************************************************)
(* What pingu/download.c promises of a file it offers: one receiver takes  *)
(* the offer, is given what the file holds, piece by piece, and is told    *)
(* that the file is over when it was given all there is.  The file may     *)
(* become shorter, and an offer may be stopped at any time: the receiver   *)
(* cannot tell either from the end.  Nothing is promised to happen.        *)
(***************************************************************************)
EXTENDS Naturals

CONSTANTS
  Offer,    \* the offers of the file
  Fetch,    \* the receivers' connections
  NoFetch,  \* nobody
  Size      \* how much the file holds

VARIABLES
  length,  \* how much the file holds now
  taker,   \* the connection that took each offer
  given,   \* how much it was given
  over,    \* the offers whose taker was told that the file is over
  stopped  \* the offers that were stopped before that

dvars == <<length, taker, given, over, stopped>>

Init ==
  /\ length = Size
  /\ taker = [o \in Offer |-> NoFetch]
  /\ given = [o \in Offer |-> 0]
  /\ over = {} /\ stopped = {}

Open(o) == o \notin over \cup stopped

Take(o, f) ==
  /\ Open(o) /\ taker[o] = NoFetch /\ \A p \in Offer : taker[p] # f
  /\ taker' = [taker EXCEPT ![o] = f]
  /\ UNCHANGED <<length, given, over, stopped>>

(* What was read before the file was cut is given all the same.            *)
Give(o) ==
  /\ Open(o) /\ taker[o] # NoFetch /\ given[o] < Size
  /\ given' = [given EXCEPT ![o] = @ + 1]
  /\ UNCHANGED <<length, taker, over, stopped>>

Tell(o) ==
  /\ Open(o) /\ taker[o] # NoFetch /\ given[o] >= length
  /\ over' = over \cup {o}
  /\ UNCHANGED <<length, taker, given, stopped>>

Shorten ==
  /\ length' \in 0..length - 1
  /\ UNCHANGED <<taker, given, over, stopped>>

Stop ==
  /\ \E S \in SUBSET {o \in Offer : Open(o)} : stopped' = stopped \cup S
  /\ UNCHANGED <<length, taker, given, over>>

Next ==
  \/ \E o \in Offer : Give(o) \/ Tell(o) \/ \E f \in Fetch : Take(o, f)
  \/ Shorten \/ Stop

Spec == Init /\ [][Next]_dvars
=============================================================================
