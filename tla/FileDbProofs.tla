----------------------------- MODULE FileDbProofs -----------------------------
(***************************************************************************)
(* Proofs about FileDb: for any files, any number of readers and changes   *)
(* and any length of time, a directory that was left alone is read safely, *)
(* a search that no rescan meets answers with the whole list, and a list   *)
(* at rest is the directory.                                               *)
(*                                                                         *)
(* The argument: a reader knows by what number of lists it walks whether   *)
(* its list was freed; between a scan's first step and its end the list    *)
(* and what readdir has yet to return are the directory, unless an entry   *)
(* of it came or went, which its time shows if that was a second later.    *)
(***************************************************************************)
EXTENDS FileDb, SequenceTheorems, TLAPS

Walking(w) == w.at \in {"entry", "next"}

(* The scanning thread's times are past ones, the first scan is the one    *)
(* without lastupdate, and frees no list that anybody got.                 *)
Times ==
  /\ scan.buf <= mtime /\ scan.since <= now /\ lastupdate <= mtime
  /\ scan.at # "idle" => scan.buf > 0
  /\ scan.at = "summing" => scan.name \in File

First ==
  /\ scan.at \in {"freed", "reading", "summing"} => scans > 0
  /\ lastupdate = 0 => /\ scans <= 1
                       /\ scan.at \in {"idle", "freeing"} => scans = 0
                       /\ scan.at \in {"idle", "freeing", "freed"} => list = <<>>
  /\ mtime = 1 => scans <= 1 /\ (scan.at # "idle" => lastupdate = 0)

(* A reader is at an entry of its list, while that is there, and got no    *)
(* list that is there while the next is being freed.                       *)
Placed(w, l, n) == Walking(w) /\ w.walks = n => w.pos \in 1..Len(l)

Behind(w, at, n) ==
  /\ w.passed <= n /\ w.walks <= n
  /\ at = "freed" /\ Walking(w) => w.walks # n

(* Before the first change it walks the list there is.                     *)
Safe(w, m, n) == m = 1 => (Walking(w) => w.walks = n) /\ w.at # "touched"

(* Until the list it saw finished is freed, it has what it passed of it.   *)
Taken(l, k) == {l[i] : i \in 1..k}

Collects(w, at, l, n) ==
  w.passed = n /\ w.at # "idle" =>
    /\ at \in {"idle", "freeing"}
    /\ Walking(w) => w.walks = n
    /\ w.at # "touched"
    /\ w.at = "passed" => w.answers = {}
    /\ w.at = "entry" => w.answers = Taken(l, w.pos - 1)
    /\ w.at = "next" => w.answers = Taken(l, w.pos)
    /\ w.at = "done" => w.answers = Taken(l, Len(l))

ReaderOK(w, at, l, n, m) ==
  Placed(w, l, n) /\ Behind(w, at, n) /\ Safe(w, m, n) /\ Collects(w, at, l, n)

Readers == \A r \in Reader : ReaderOK(reader[r], scan.at, list, scans, mtime)

(* Nothing of the directory's own has come or gone since the scan began,   *)
(* for all its time can tell.                                              *)
Quiet == mtime = scan.buf /\ scan.since > mtime

(* What is listed, and what is to come, are the directory's files.         *)
Holds(more) ==
  /\ (Taken(list, Len(list)) \cup more) \cap Top = files \cap Top
  /\ \A i \in 1..Len(list) : list[i] \in Top => list[i] \notin more
  /\ \A i, j \in 1..Len(list) : list[i] = list[j] /\ list[i] \in Top => i = j

Seen ==
  /\ scan.at = "idle" => lastupdate = scan.buf
  /\ Quiet /\ scan.at = "idle" => Holds({})
  /\ Quiet /\ scan.at \in {"reading", "summing"} => scan.rest \cap Top = scan.due \cap Top
  /\ Quiet /\ scan.at = "reading" => Holds(scan.due)
  /\ Quiet /\ scan.at = "summing" => /\ Holds(scan.due \cup {scan.name})
                                     /\ scan.name \notin scan.due

Types ==
  /\ now \in 1..MaxTime /\ mtime \in 1..now
  /\ files \subseteq File /\ changes \in 0..Changes
  /\ scan \in Scan
  /\ lastupdate \in 0..now
  /\ list \in Seq(File)
  /\ scans \in Nat
  /\ reader \in [Reader -> Walk]

Inv == Types /\ Times /\ First /\ Readers /\ Seen

LEMMA InitInv == Init => Inv
<1> SUFFICES ASSUME Init PROVE Inv
  OBVIOUS
<1>1. Types
  <2>1. Idle \in Scan /\ Waiting \in Walk
    BY FileDbAssumption DEF Idle, Scan, Waiting, Walk
  <2>2. <<>> \in Seq(File)
    BY EmptySeq
  <2> QED BY <2>1, <2>2, FileDbAssumption DEF Init, Types
<1>2. Times /\ First
  BY DEF Init, Times, First, Idle
<1>3. Readers
  BY DEF Init, Readers, ReaderOK, Placed, Behind, Safe, Collects, Walking, Waiting, Idle
<1>4. Seen
  BY DEF Init, Seen, Quiet, Idle
<1> QED BY <1>1, <1>2, <1>3, <1>4 DEF Inv

-----------------------------------------------------------------------------
(* Readers change themselves only.                                         *)
LEMMA ReaderMoves ==
  ASSUME Inv, NEW r \in Reader, NEW w \in Walk,
         ReaderOK(w, scan.at, list, scans, mtime),
         reader' = [reader EXCEPT ![r] = w],
         UNCHANGED <<now, mtime, files, changes, scan, lastupdate, list, scans>>
  PROVE  Inv'
<1>1. reader \in [Reader -> Walk]
  BY DEF Inv, Types
<1>2. \A q \in Reader : reader'[q] = IF q = r THEN w ELSE reader[q]
  BY <1>1
<1>3. reader' \in [Reader -> Walk]
  BY <1>1
<1>4. Types' /\ Times' /\ First' /\ Seen'
  BY <1>3 DEF Inv, Types, Times, First, Seen, Quiet, Holds
<1>5. Readers'
  BY <1>2 DEF Inv, Readers
<1> QED BY <1>4, <1>5 DEF Inv

LEMMA ReadInv ==
  ASSUME Inv, NEW r \in Reader, Read(r)
  PROVE  Inv'
<1>1. /\ reader[r] \in Walk /\ ReaderOK(reader[r], scan.at, list, scans, mtime)
      /\ scans \in Nat /\ list \in Seq(File) /\ Len(list) \in Nat
      /\ scan \in Scan /\ scan.at \in {"idle", "freeing", "freed", "reading", "summing", "exited"}
      /\ First /\ Times /\ lastupdate \in Nat
  BY LenProperties DEF Inv, Readers, Types, Scan
<1>2. PICK v \in Walk : v = reader[r]
  BY <1>1
<1>3. ReaderOK(v, scan.at, list, scans, mtime)
  BY <1>1, <1>2
<1>4. CASE Pass(r)
  <2> DEFINE w == [Waiting EXCEPT !.at = "passed", !.passed = scans]
  <2>1. w \in Walk /\ w.at = "passed" /\ w.passed = scans /\ w.walks = 0 /\ w.answers = {}
    BY <1>1 DEF Waiting, Walk
  <2>2. scan.at = "idle"
    BY <1>4 DEF Pass, Locked
  <2>3. /\ reader' = [reader EXCEPT ![r] = w]
        /\ UNCHANGED <<now, mtime, files, changes, scan, lastupdate, list, scans>>
    BY <1>4 DEF Pass
  <2> HIDE DEF w
  <2>4. ReaderOK(w, scan.at, list, scans, mtime)
    BY <1>1, <2>1, <2>2 DEF ReaderOK, Placed, Behind, Safe, Collects, Walking
  <2> QED BY <2>1, <2>3, <2>4, ReaderMoves
<1>5. CASE GetHead(r)
  <2> DEFINE w == [v EXCEPT !.at = IF list = <<>> THEN "done" ELSE "entry",
                            !.walks = IF scan.at = "freed" THEN scans - 1 ELSE scans,
                            !.pos = 1]
  <2>1. v.at = "passed" /\ scan.at # "exited"
    BY <1>2, <1>5 DEF GetHead, Running
  <2>2. /\ reader' = [reader EXCEPT ![r] = w]
        /\ UNCHANGED <<now, mtime, files, changes, scan, lastupdate, list, scans>>
    BY <1>2, <1>5 DEF GetHead
  <2>3. scan.at = "freed" => scans - 1 \in Nat /\ scans - 1 # scans /\ scans - 1 <= scans
    BY <1>1 DEF First
  <2>4. /\ w \in Walk /\ w.at = (IF list = <<>> THEN "done" ELSE "entry") /\ w.pos = 1
        /\ w.passed = v.passed /\ w.answers = v.answers
        /\ w.walks = (IF scan.at = "freed" THEN scans - 1 ELSE scans)
    BY <1>1, <2>3 DEF Walk
  <2> HIDE DEF w
  <2>5. Placed(w, list, scans)
    <3>1. list # <<>> => 1 \in 1..Len(list)
      BY <1>1, EmptySeq
    <3> QED BY <2>4, <3>1 DEF Placed, Walking
  <2>6. Behind(w, scan.at, scans)
    BY <1>1, <1>3, <2>3, <2>4 DEF Behind, ReaderOK, Walking
  <2>7. Safe(w, mtime, scans)
    <3>1. mtime = 1 /\ scan.at = "freed" => list = <<>>
      BY <1>1 DEF First
    <3> QED BY <2>4, <3>1 DEF Safe, Walking
  <2>8. Collects(w, scan.at, list, scans)
    <3> SUFFICES ASSUME w.passed = scans
                 PROVE  Collects(w, scan.at, list, scans)
      BY DEF Collects
    <3>1. scan.at \in {"idle", "freeing"} /\ v.answers = {}
      BY <1>3, <2>1, <2>4 DEF ReaderOK, Collects
    <3>2. Taken(list, 0) = {} /\ (list = <<>> => Taken(list, Len(list)) = {}) /\ 1 - 1 = 0
      BY EmptySeq DEF Taken
    <3> QED BY <2>4, <3>1, <3>2 DEF Collects, Walking
  <2> QED BY <2>2, <2>4, <2>5, <2>6, <2>7, <2>8, ReaderMoves DEF ReaderOK
<1>6. CASE Touch(r)
  <2> DEFINE w == [v EXCEPT !.at = "touched"]
  <2>1. Walking(v) /\ v.walks # scans
    BY <1>2, <1>6 DEF Touch, Gone, Walking
  <2>2. /\ reader' = [reader EXCEPT ![r] = w]
        /\ UNCHANGED <<now, mtime, files, changes, scan, lastupdate, list, scans>>
    BY <1>2, <1>6 DEF Touch
  <2>3. w \in Walk /\ w.at = "touched" /\ w.passed = v.passed /\ w.walks = v.walks
    BY DEF Walk
  <2> HIDE DEF w
  <2>4. ReaderOK(w, scan.at, list, scans, mtime)
    BY <1>3, <2>1, <2>3 DEF ReaderOK, Placed, Behind, Safe, Collects, Walking
  <2> QED BY <2>2, <2>3, <2>4, ReaderMoves
<1>7. CASE Use(r)
  <2> DEFINE w == [v EXCEPT !.at = "next", !.answers = @ \cup {list[v.pos]}]
  <2>1. v.at = "entry" /\ v.walks = scans
    BY <1>2, <1>7 DEF Use, Gone
  <2>2. /\ reader' = [reader EXCEPT ![r] = w]
        /\ UNCHANGED <<now, mtime, files, changes, scan, lastupdate, list, scans>>
    BY <1>2, <1>7 DEF Use
  <2>3. v.pos \in 1..Len(list)
    BY <1>3, <2>1 DEF ReaderOK, Placed, Walking
  <2>4. list[v.pos] \in File
    BY <1>1, <2>3, ElementOfSeq
  <2>5. /\ w \in Walk /\ w.at = "next" /\ w.passed = v.passed /\ w.walks = v.walks
        /\ w.pos = v.pos /\ w.answers = v.answers \cup {list[v.pos]}
    BY <2>4 DEF Walk
  <2> HIDE DEF w
  <2>6. Taken(list, v.pos - 1) \cup {list[v.pos]} = Taken(list, v.pos)
    <3>1. 1..v.pos = 1..v.pos - 1 \cup {v.pos}
      BY <1>1, <2>3
    <3> QED BY <3>1 DEF Taken
  <2>7. Collects(w, scan.at, list, scans)
    BY <1>3, <2>1, <2>5, <2>6 DEF ReaderOK, Collects, Walking
  <2>8. Placed(w, list, scans) /\ Behind(w, scan.at, scans) /\ Safe(w, mtime, scans)
    BY <1>3, <2>1, <2>3, <2>5 DEF ReaderOK, Placed, Behind, Safe, Walking
  <2> QED BY <2>2, <2>5, <2>7, <2>8, ReaderMoves DEF ReaderOK
<1>8. CASE Stop(r)
  <2> DEFINE w == [v EXCEPT !.at = "found"]
  <2>1. Walking(v)
    BY <1>2, <1>8 DEF Stop, Walking
  <2>2. /\ reader' = [reader EXCEPT ![r] = w]
        /\ UNCHANGED <<now, mtime, files, changes, scan, lastupdate, list, scans>>
    BY <1>2, <1>8 DEF Stop
  <2>3. w \in Walk /\ w.at = "found" /\ w.passed = v.passed /\ w.walks = v.walks
    BY DEF Walk
  <2> HIDE DEF w
  <2>4. ReaderOK(w, scan.at, list, scans, mtime)
    BY <1>3, <2>1, <2>3 DEF ReaderOK, Placed, Behind, Safe, Collects, Walking
  <2> QED BY <2>2, <2>3, <2>4, ReaderMoves
<1>9. CASE Follow(r)
  <2>1. v.at = "next" /\ v.walks = scans
    BY <1>2, <1>9 DEF Follow, Gone
  <2>2. UNCHANGED <<now, mtime, files, changes, scan, lastupdate, list, scans>>
    BY <1>9 DEF Follow
  <2>3. v.pos \in 1..Len(list)
    BY <1>3, <2>1 DEF ReaderOK, Placed, Walking
  <2>4. CASE v.pos < Len(list)
    <3> DEFINE w == [v EXCEPT !.at = "entry", !.pos = @ + 1]
    <3>1. reader' = [reader EXCEPT ![r] = w]
      BY <1>2, <1>9, <2>4 DEF Follow
    <3>2. /\ w \in Walk /\ w.at = "entry" /\ w.pos = v.pos + 1
          /\ w.passed = v.passed /\ w.walks = v.walks /\ w.answers = v.answers
      <4>1. v.pos + 1 \in Nat
        BY <2>3, <1>1
      <4> QED BY <4>1 DEF Walk
    <3> HIDE DEF w
    <3>3. w.pos \in 1..Len(list) /\ w.pos - 1 = v.pos
      BY <1>1, <2>3, <2>4, <3>2
    <3>4. Collects(w, scan.at, list, scans)
      BY <1>3, <2>1, <3>2, <3>3 DEF ReaderOK, Collects, Walking
    <3>5. Placed(w, list, scans) /\ Behind(w, scan.at, scans) /\ Safe(w, mtime, scans)
      BY <1>3, <2>1, <3>2, <3>3 DEF ReaderOK, Placed, Behind, Safe, Walking
    <3> QED BY <2>2, <3>1, <3>2, <3>4, <3>5, ReaderMoves DEF ReaderOK
  <2>5. CASE ~(v.pos < Len(list))
    <3> DEFINE w == [v EXCEPT !.at = "done"]
    <3>1. reader' = [reader EXCEPT ![r] = w]
      BY <1>2, <1>9, <2>5 DEF Follow, Walk
    <3>2. /\ w \in Walk /\ w.at = "done"
          /\ w.passed = v.passed /\ w.walks = v.walks /\ w.answers = v.answers
      BY DEF Walk
    <3> HIDE DEF w
    <3>3. v.pos = Len(list)
      BY <1>1, <2>3, <2>5
    <3>4. Collects(w, scan.at, list, scans)
      BY <1>3, <2>1, <3>2, <3>3 DEF ReaderOK, Collects, Walking
    <3>5. Placed(w, list, scans) /\ Behind(w, scan.at, scans) /\ Safe(w, mtime, scans)
      BY <1>3, <2>1, <3>2 DEF ReaderOK, Placed, Behind, Safe, Walking
    <3> QED BY <2>2, <3>1, <3>2, <3>4, <3>5, ReaderMoves DEF ReaderOK
  <2> QED BY <2>4, <2>5
<1>10. CASE Again(r)
  <2>1. Waiting \in Walk
    BY DEF Waiting, Walk
  <2>2. ReaderOK(Waiting, scan.at, list, scans, mtime)
    BY <1>1 DEF ReaderOK, Placed, Behind, Safe, Collects, Walking, Waiting
  <2>3. /\ reader' = [reader EXCEPT ![r] = Waiting]
        /\ UNCHANGED <<now, mtime, files, changes, scan, lastupdate, list, scans>>
    BY <1>10 DEF Again
  <2> QED BY <2>1, <2>2, <2>3, ReaderMoves
<1> QED BY <1>4, <1>5, <1>6, <1>7, <1>8, <1>9, <1>10 DEF Read

-----------------------------------------------------------------------------
(* Steps of the scanning thread and of the file system leave readers alone.*)
LEMMA ReadersStay ==
  ASSUME Inv, reader' = reader,
         \A w \in Walk : ReaderOK(w, scan.at, list, scans, mtime)
                           => ReaderOK(w, scan'.at, list', scans', mtime')
  PROVE  Readers'
<1>1. \A r \in Reader : reader[r] \in Walk /\ ReaderOK(reader[r], scan.at, list, scans, mtime)
  BY DEF Inv, Types, Readers
<1> QED BY <1>1 DEF Readers

(* What the first part of the invariant says of the variables now.         *)
LEMMA Facts ==
  ASSUME Inv
  PROVE  /\ now \in 1..MaxTime /\ mtime \in 1..now /\ MaxTime \in Nat
         /\ scan.buf \in Nat /\ scan.since \in Nat /\ lastupdate \in Nat
         /\ scan.at \in {"idle", "freeing", "freed", "reading", "summing", "exited"}
         /\ scan.rest \subseteq File /\ scan.due \subseteq File
         /\ scan.name \in File \cup {None}
         /\ list \in Seq(File) /\ Len(list) \in Nat /\ scans \in Nat
BY FileDbAssumption, LenProperties DEF Inv, Types, Scan

(* A later time of the directory's is no quiet one.                        *)
LEMMA TickInv ==
  ASSUME Inv, Tick
  PROVE  Inv'
<1>1. Types'
  <2>1. now' \in 1..MaxTime /\ mtime' \in 1..now' /\ lastupdate' \in 0..now'
    BY Facts DEF Tick, Inv, Types
  <2> QED BY <2>1 DEF Tick, Inv, Types
<1>2. Times' /\ First' /\ Seen'
  BY Facts DEF Tick, Inv, Types, Times, First, Seen, Quiet, Holds
<1>3. Readers'
  BY DEF Tick, Inv, Readers
<1> QED BY <1>1, <1>2, <1>3 DEF Inv

LEMMA Touching ==
  ASSUME Inv, NEW f \in File, Touched(f),
         scan'.at = scan.at, scan'.buf = scan.buf, scan'.since = scan.since,
         scan'.name = scan.name,
         UNCHANGED <<now, lastupdate, list, scans, reader>>
  PROVE  /\ Times' /\ First' /\ Readers'
         /\ mtime' \in 1..now'
         /\ Quiet' => f \notin Top /\ Quiet
<1>1. mtime' = (IF f \in Top THEN now ELSE mtime) /\ mtime <= mtime'
  BY Facts DEF Touched
<1>2. Times'
  BY <1>1, Facts DEF Inv, Times
<1>3. First'
  BY <1>1, Facts DEF Inv, First
<1>4. mtime' = 1 => mtime = 1
  BY <1>1, Facts
<1>5. Readers'
  <2>1. ASSUME NEW w \in Walk, ReaderOK(w, scan.at, list, scans, mtime)
        PROVE  ReaderOK(w, scan'.at, list', scans', mtime')
    BY <2>1, <1>4 DEF ReaderOK, Safe
  <2> QED BY <2>1, ReadersStay
<1>6. Quiet' => f \notin Top /\ Quiet
  BY <1>1, Facts DEF Quiet, Inv, Times
<1>7. mtime' \in 1..now'
  BY <1>1, Facts
<1> QED BY <1>2, <1>3, <1>5, <1>6, <1>7

LEMMA CreateInv ==
  ASSUME Inv, NEW f \in File, Create(f)
  PROVE  Inv'
<1>1. /\ scan' \in Scan
      /\ scan'.at = scan.at /\ scan'.buf = scan.buf /\ scan'.since = scan.since
      /\ scan'.name = scan.name /\ scan'.due = scan.due
      /\ scan'.rest \ {f} = scan.rest \ {f}
  BY DEF Create, Inv, Types, Scan
<1>2. /\ Touched(f) /\ files' = files \cup {f} /\ changes' \in 0..Changes
      /\ UNCHANGED <<now, lastupdate, list, scans, reader>>
  BY FileDbAssumption DEF Create, Inv, Types
<1>3. /\ Times' /\ First' /\ Readers' /\ mtime' \in 1..now'
      /\ Quiet' => f \notin Top /\ Quiet
  BY <1>1, <1>2, Touching
<1>4. Types'
  BY <1>1, <1>2, <1>3 DEF Inv, Types
<1>5. Seen'
  BY <1>1, <1>2, <1>3 DEF Inv, Seen, Holds
<1> QED BY <1>3, <1>4, <1>5 DEF Inv

LEMMA RemoveInv ==
  ASSUME Inv, NEW f \in File, Remove(f)
  PROVE  Inv'
<1>1. /\ scan' \in Scan
      /\ scan'.at = scan.at /\ scan'.buf = scan.buf /\ scan'.since = scan.since
      /\ scan'.name = scan.name /\ scan'.due = scan.due \ {f}
      /\ scan'.rest = scan.rest
  BY DEF Remove, Inv, Types, Scan
<1>2. /\ Touched(f) /\ files' = files \ {f} /\ changes' \in 0..Changes
      /\ UNCHANGED <<now, lastupdate, list, scans, reader>>
  BY FileDbAssumption DEF Remove, Inv, Types
<1>3. /\ Times' /\ First' /\ Readers' /\ mtime' \in 1..now'
      /\ Quiet' => f \notin Top /\ Quiet
  BY <1>1, <1>2, Touching
<1>4. Types'
  BY <1>1, <1>2, <1>3 DEF Inv, Types
<1>5. Seen'
  BY <1>1, <1>2, <1>3 DEF Inv, Seen, Holds
<1> QED BY <1>3, <1>4, <1>5 DEF Inv

-----------------------------------------------------------------------------
(* The steps of a scan.                                                    *)
LEMMA BeginInv ==
  ASSUME Inv, Begin
  PROVE  Inv'
<1>1. /\ scan.at = "idle" /\ Changed /\ scan' \in Scan
      /\ scan'.at = "freeing" /\ scan'.buf = mtime /\ scan'.since = now
      /\ UNCHANGED <<now, mtime, files, changes, lastupdate, list, scans, reader>>
  <2>1. mtime \in 0..MaxTime /\ now \in 0..MaxTime
    BY Facts
  <2> QED BY <2>1 DEF Begin, Inv, Types, Scan
<1>2. Types'
  BY <1>1 DEF Inv, Types
<1>3. Times' /\ First'
  BY <1>1, Facts DEF Inv, Times, First, Changed
<1>4. Seen'
  BY <1>1 DEF Seen
<1>5. Readers'
  <2>1. ASSUME NEW w \in Walk, ReaderOK(w, scan.at, list, scans, mtime)
        PROVE  ReaderOK(w, scan'.at, list', scans', mtime')
    BY <2>1, <1>1 DEF ReaderOK, Behind, Collects
  <2> QED BY <2>1, <1>1, ReadersStay
<1> QED BY <1>2, <1>3, <1>4, <1>5 DEF Inv

(* Whoever walks the list that is freed walks by its number, and nobody    *)
(* has got the first.                                                      *)
LEMMA FreeListInv ==
  ASSUME Inv, FreeList
  PROVE  Inv'
<1>1. /\ scan.at = "freeing" /\ scan' \in Scan
      /\ scan'.at = "freed" /\ scan'.buf = scan.buf /\ scan'.since = scan.since
      /\ scans' = scans + 1 /\ scans + 1 \in Nat
      /\ UNCHANGED <<now, mtime, files, changes, lastupdate, list, reader>>
  BY Facts DEF FreeList, Inv, Types, Scan
<1>2. Types'
  BY <1>1 DEF Inv, Types
<1>3. Times' /\ First'
  BY <1>1, Facts DEF Inv, Times, First
<1>4. Seen'
  BY <1>1 DEF Seen
<1>5. mtime = 1 => list = <<>> /\ Len(list) = 0 /\ scans = 0
  BY <1>1, EmptySeq DEF Inv, First
<1>6. Readers'
  <2>1. ASSUME NEW w \in Walk, ReaderOK(w, scan.at, list, scans, mtime)
        PROVE  ReaderOK(w, scan'.at, list', scans', mtime')
    <3>1. w.passed <= scans /\ w.walks <= scans /\ w.passed \in Nat /\ w.walks \in Nat
      BY <2>1 DEF ReaderOK, Behind, Walk
    <3>2. w.passed # scans + 1 /\ w.walks # scans + 1
          /\ w.passed <= scans + 1 /\ w.walks <= scans + 1
      BY <3>1, Facts
    <3>3. Placed(w, list, scans + 1) /\ Behind(w, "freed", scans + 1)
          /\ Collects(w, "freed", list, scans + 1)
      BY <3>2 DEF Placed, Behind, Collects
    <3>4. Safe(w, mtime, scans + 1)
      <4>1. mtime = 1 => ~Walking(w) /\ w.at # "touched"
        <5>1. mtime = 1 /\ Walking(w) => w.pos \in 1..0
          BY <1>5, <2>1 DEF ReaderOK, Safe, Placed
        <5>2. 1..0 = {}
          OBVIOUS
        <5> QED BY <5>1, <5>2, <2>1 DEF ReaderOK, Safe
      <4> QED BY <4>1 DEF Safe
    <3> QED BY <3>3, <3>4, <1>1 DEF ReaderOK
  <2> QED BY <2>1, <1>1, ReadersStay
<1> QED BY <1>2, <1>3, <1>4, <1>6 DEF Inv

LEMMA NothingTaken ==
  Taken(<<>>, Len(<<>>)) = {} /\ Len(<<>>) = 0
BY EmptySeq DEF Taken

LEMMA OpenDirInv ==
  ASSUME Inv, OpenDir
  PROVE  Inv'
<1>1. /\ scan.at = "freed" /\ scan' \in Scan
      /\ scan'.at = "reading" /\ scan'.buf = scan.buf /\ scan'.since = scan.since
      /\ scan'.rest = files /\ scan'.due = files
      /\ list' = <<>>
      /\ UNCHANGED <<now, mtime, files, changes, lastupdate, scans, reader>>
  BY DEF OpenDir, Inv, Types, Scan
<1>2. Types'
  BY <1>1, EmptySeq DEF Inv, Types
<1>3. Times' /\ First'
  BY <1>1 DEF Inv, Times, First
<1>4. Seen'
  BY <1>1, NothingTaken DEF Seen, Holds
<1>5. Readers'
  <2>1. ASSUME NEW w \in Walk, ReaderOK(w, scan.at, list, scans, mtime)
        PROVE  ReaderOK(w, scan'.at, list', scans', mtime')
    BY <2>1, <1>1 DEF ReaderOK, Placed, Behind, Collects
  <2> QED BY <2>1, <1>1, ReadersStay
<1> QED BY <1>2, <1>3, <1>4, <1>5 DEF Inv

(* While the directory is read no reader's list is built.                  *)
LEMMA Reading ==
  ASSUME Inv, scan.at \in {"reading", "summing"},
         scan'.at \in {"idle", "reading", "summing", "exited"},
         UNCHANGED <<scans, mtime, reader>>,
         NEW n \in Nat, Len(list') = Len(list) + n
  PROVE  Readers'
<1>1. ASSUME NEW w \in Walk, ReaderOK(w, scan.at, list, scans, mtime)
      PROVE  ReaderOK(w, scan'.at, list', scans', mtime')
  <2>1. w.passed # scans \/ w.at = "idle"
    BY <1>1 DEF ReaderOK, Collects
  <2>2. \A i \in 1..Len(list) : i \in 1..Len(list')
    BY Facts
  <2> QED BY <1>1, <2>1, <2>2 DEF ReaderOK, Placed, Behind, Collects
<1> QED BY <1>1, ReadersStay

LEMMA ReadDirInv ==
  ASSUME Inv, NEW f \in File, ReadDir(f)
  PROVE  Inv'
<1>1. /\ scan.at = "reading" /\ f \in scan.rest /\ scan' \in Scan
      /\ scan'.at = "summing" /\ scan'.buf = scan.buf /\ scan'.since = scan.since
      /\ scan'.name = f /\ scan'.rest = scan.rest \ {f} /\ scan'.due = scan.due \ {f}
      /\ UNCHANGED <<now, mtime, files, changes, lastupdate, list, scans, reader>>
  BY DEF ReadDir, Inv, Types, Scan
<1>2. Types'
  BY <1>1 DEF Inv, Types
<1>3. Times' /\ First'
  BY <1>1 DEF Inv, Times, First
<1>4. Seen'
  <2> SUFFICES ASSUME Quiet
               PROVE  /\ Holds(scan'.due \cup {f})
                      /\ scan'.rest \cap Top = scan'.due \cap Top
    BY <1>1 DEF Seen, Quiet, Holds
  <2>1. Holds(scan.due) /\ scan.rest \cap Top = scan.due \cap Top
    BY <1>1 DEF Inv, Seen
  <2>2. (scan'.due \cup {f}) \cap Top = scan.due \cap Top
        /\ \A i \in 1..Len(list) : list[i] \in Top /\ list[i] \notin scan.due
                                     => list[i] \notin scan'.due \cup {f}
    BY <1>1, <2>1
  <2> QED BY <1>1, <2>1, <2>2 DEF Holds
<1>5. Readers'
  BY <1>1, Reading, Facts
<1> QED BY <1>2, <1>3, <1>4, <1>5 DEF Inv

LEMMA SumInv ==
  ASSUME Inv, Sum
  PROVE  Inv'
<1>1. /\ scan.at = "summing" /\ scan' \in Scan
      /\ scan'.buf = scan.buf /\ scan'.since = scan.since
      /\ scan'.rest = scan.rest /\ scan'.due = scan.due
      /\ UNCHANGED <<now, mtime, files, changes, lastupdate, scans, reader>>
      /\ scan.name \in File
  BY DEF Sum, Inv, Types, Times, Scan
<1>2. CASE scan.name \notin files
  <2>1. scan'.at \in {"reading", "exited"} /\ list' = list
    BY <1>2 DEF Sum, Inv, Types, Scan
  <2>2. Types' /\ Times' /\ First'
    BY <1>1, <2>1 DEF Inv, Types, Times, First
  <2>3. Seen'
    <3> SUFFICES ASSUME Quiet
                 PROVE  Holds(scan.due)' /\ scan.rest \cap Top = scan.due \cap Top
      BY <1>1, <2>1 DEF Seen, Quiet, Holds
    <3>1. Holds(scan.due \cup {scan.name}) /\ scan.rest \cap Top = scan.due \cap Top
      BY <1>1 DEF Inv, Seen
    <3>2. scan.name \notin Top
      BY <1>2, <3>1 DEF Holds
    <3>3. (Taken(list, Len(list)) \cup scan.due) \cap Top = files \cap Top
      BY <3>1, <3>2 DEF Holds
    <3> QED BY <1>1, <2>1, <3>1, <3>3 DEF Holds, Taken
  <2>4. Readers'
    <3>1. Len(list') = Len(list) + 0
      BY <2>1, Facts
    <3> QED BY <1>1, <2>1, <3>1, Reading
  <2> QED BY <2>2, <2>3, <2>4 DEF Inv
<1>3. CASE scan.name \in files
  <2>1. scan'.at = "reading" /\ list' = Append(list, scan.name)
    BY <1>3 DEF Sum, Inv, Types, Scan
  <2>2. /\ list' \in Seq(File) /\ Len(list') = Len(list) + 1
        /\ \A i \in 1..Len(list) : list'[i] = list[i]
        /\ list'[Len(list) + 1] = scan.name
    BY <1>1, <2>1, Facts, AppendProperties
  <2>3. Types' /\ Times' /\ First'
    BY <1>1, <2>1, <2>2 DEF Inv, Types, Times, First
  <2>4. Seen'
    <3> SUFFICES ASSUME Quiet
                 PROVE  Holds(scan.due)' /\ scan.rest \cap Top = scan.due \cap Top
      BY <1>1, <2>1 DEF Seen, Quiet, Holds
    <3>1. /\ Holds(scan.due \cup {scan.name}) /\ scan.rest \cap Top = scan.due \cap Top
          /\ scan.name \notin scan.due
      BY <1>1 DEF Inv, Seen
    <3>2. Taken(list', Len(list')) = Taken(list, Len(list)) \cup {scan.name}
      <4>1. 1..Len(list) + 1 = 1..Len(list) \cup {Len(list) + 1}
        BY Facts
      <4> QED BY <2>2, <4>1 DEF Taken
    <3>3. \A i \in 1..Len(list') : i \in 1..Len(list) \/ i = Len(list) + 1
      BY <2>2, Facts
    <3>4. (Taken(list', Len(list')) \cup scan.due) \cap Top = files \cap Top
      BY <3>1, <3>2 DEF Holds
    <3>5. \A i \in 1..Len(list') : list'[i] \in Top => list'[i] \notin scan.due
      BY <2>2, <3>1, <3>3 DEF Holds
    <3>6. \A i, j \in 1..Len(list') : list'[i] = list'[j] /\ list'[i] \in Top => i = j
      BY <2>2, <3>1, <3>3 DEF Holds
    <3> QED BY <1>1, <3>1, <3>4, <3>5, <3>6 DEF Holds
  <2>5. Readers'
    BY <1>1, <2>1, <2>2, Reading
  <2> QED BY <2>3, <2>4, <2>5 DEF Inv
<1> QED BY <1>2, <1>3

LEMMA EndInv ==
  ASSUME Inv, End
  PROVE  Inv'
<1>1. /\ scan.at = "reading" /\ scan.due = {} /\ scan' \in Scan
      /\ scan'.at = "idle" /\ scan'.buf = scan.buf /\ scan'.since = scan.since
      /\ lastupdate' = scan.buf
      /\ UNCHANGED <<now, mtime, files, changes, list, scans, reader>>
  BY DEF End, Inv, Types, Scan
<1>2. Types'
  BY <1>1, Facts DEF Inv, Types, Times
<1>3. Times' /\ First'
  BY <1>1, Facts DEF Inv, Times, First
<1>4. Seen'
  BY <1>1 DEF Inv, Seen, Quiet, Holds
<1>5. Readers'
  BY <1>1, Reading, Facts
<1> QED BY <1>2, <1>3, <1>4, <1>5 DEF Inv

LEMMA Invariance == Spec => []Inv
<1>1. Inv /\ [Next]_vars => Inv'
  <2> SUFFICES ASSUME Inv, [Next]_vars PROVE Inv'
    OBVIOUS
  <2>1. ASSUME Tick PROVE Inv'
    BY <2>1, TickInv
  <2>2. ASSUME Scanner PROVE Inv'
    BY <2>2, BeginInv, FreeListInv, OpenDirInv, ReadDirInv, SumInv, EndInv DEF Scanner
  <2>3. ASSUME NEW f \in File, Create(f) \/ Remove(f) PROVE Inv'
    BY <2>3, CreateInv, RemoveInv
  <2>4. ASSUME NEW r \in Reader, Read(r) PROVE Inv'
    BY <2>4, ReadInv
  <2>5. ASSUME UNCHANGED vars PROVE Inv'
    BY <2>5 DEF vars, Inv, Types, Times, First, Readers, Seen, Quiet, Holds
  <2> QED BY <2>1, <2>2, <2>3, <2>4, <2>5 DEF Next
<1> QED BY InitInv, <1>1, PTL DEF Spec

(* get_request_search: a reader whose list is there is at an entry of it.  *)
THEOREM TypeCorrect == Spec => []TypeOK
<1>1. Inv => TypeOK
  <2> SUFFICES ASSUME Inv PROVE TypeOK
    OBVIOUS
  <2>1. \A r \in Reader :
          reader[r].at \in {"entry", "next"} /\ ~Gone(r) => reader[r].pos \in DOMAIN list
    BY Facts, LenProperties DEF Inv, Readers, ReaderOK, Placed, Walking, Gone
  <2> QED BY <2>1 DEF Inv, Types, TypeOK
<1> QED BY <1>1, Invariance, PTL

(* get_file_database gives the list out without its lock: with a directory *)
(* that was left alone, no reader ever touches a freed entry.              *)
THEOREM SafeUntilChanged == Spec => []TouchNeedsChange
<1>1. Inv => TouchNeedsChange
  BY Facts DEF Inv, Readers, ReaderOK, Safe, TouchNeedsChange
<1> QED BY <1>1, Invariance, PTL

(* get_request_search: an answer that no rescan met is complete.           *)
THEOREM WholeAnswers == Spec => []AnswersComplete
<1>1. Inv => AnswersComplete
  <2> SUFFICES ASSUME Inv PROVE AnswersComplete
    OBVIOUS
  <2>1. Range(list) = Taken(list, Len(list))
    BY Facts, LenProperties DEF Range, Taken
  <2> QED BY <2>1 DEF Inv, Readers, ReaderOK, Collects, AnswersComplete
<1> QED BY <1>1, Invariance, PTL

(* create_filenametomd5: the list of a directory that has kept its time is *)
(* the directory, each file once.                                          *)
THEOREM ListCurrent == Spec => []UpToDate
<1>1. Inv => UpToDate
  <2> SUFFICES ASSUME Inv, Settled PROVE UpToDate
    BY DEF UpToDate
  <2>1. Holds({})
    BY DEF Inv, Seen, Quiet, Settled
  <2>2. Range(list) = Taken(list, Len(list)) /\ DOMAIN list = 1..Len(list)
    BY Facts, LenProperties DEF Range, Taken
  <2> QED BY <2>1, <2>2 DEF Holds, UpToDate
<1> QED BY <1>1, Invariance, PTL
=============================================================================
