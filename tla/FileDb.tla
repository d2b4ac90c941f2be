-------------------------------- MODULE FileDb --------------------------------
(***************************************************************************)
(* The database of the files a Pingu offers (pingu/file_db.c): one thread  *)
(* scans the directory whenever its modification time has changed, and the *)
(* threads that handle requests (get_request_search of filesearch.c,       *)
(* get_request_wantfile of download.c) walk the list it built.  The lock   *)
(* create_filenametomd5 is held by the scan, and only passed by a reader,  *)
(* which then walks without it.                                            *)
(*                                                                         *)
(* Files come and go meanwhile.  The directory's time is in seconds, and   *)
(* only a change of its own entries touches it: what happens in a          *)
(* directory below it does not.                                            *)
(***************************************************************************)
EXTENDS Naturals, Sequences, FiniteSets, Functions

CONSTANTS
  File,     \* the regular files there may be, by their full names
  Top,      \* those directly in the directory
  Reader,   \* the threads that handle requests
  None,     \* no file
  MaxTime,  \* bound on the clock, in seconds
  Changes   \* bound on how many files come or go

ASSUME FileDbAssumption ==
  Top \subseteq File /\ None \notin File /\ MaxTime \in Nat \ {0} /\ Changes \in Nat

VARIABLES
  now,         \* the clock; it starts at 1
  mtime,       \* when the directory was last modified
  files,       \* the files there are
  changes,     \* how often one came or went
  scan,        \* the scanning thread
  lastupdate,  \* the modification time the last scan went by; 0: none yet
  list,        \* filenametomd5, from its head
  scans,       \* how many lists were freed, to begin another
  reader       \* the readers

vars == <<now, mtime, files, changes, scan, lastupdate, list, scans, reader>>

(* at: where the scanning thread is; buf: the time its stat returned, at   *)
(* the time since; rest: what readdir may still return, of which due was   *)
(* there all the time; name: what it did return.                           *)
Idle == [at |-> "idle", buf |-> 0, since |-> 0, rest |-> {}, due |-> {}, name |-> None]

(* passed: the lists freed when the lock was passed; walks: those freed    *)
(* before the list it walks began; pos: the entry it is at; answers: the   *)
(* files it answered with.                                                 *)
Waiting == [at |-> "idle", passed |-> 0, walks |-> 0, pos |-> 0, answers |-> {}]

Init ==
  /\ now = 1 /\ mtime = 1
  /\ files \in SUBSET File /\ changes = 0
  /\ scan = Idle
  /\ lastupdate = 0 /\ list = <<>> /\ scans = 0
  /\ reader = [r \in Reader |-> Waiting]

Running == scan.at # "exited"
Locked == scan.at # "idle"

-----------------------------------------------------------------------------
(* The file system.                                                        *)

Tick ==
  /\ Running /\ now < MaxTime
  /\ now' = now + 1
  /\ UNCHANGED <<mtime, files, changes, scan, lastupdate, list, scans, reader>>

Touched(f) == mtime' = IF f \in Top THEN now ELSE mtime

(* A file that comes while the directory is read may be returned or not.   *)
Create(f) ==
  /\ Running /\ f \notin files
  /\ files' = files \cup {f}
  /\ Touched(f) /\ changes < Changes /\ changes' = changes + 1
  /\ scan' = IF scan.at \in {"reading", "summing"}
             THEN [scan EXCEPT !.rest = @ \cup {f}] ELSE scan
  /\ UNCHANGED <<now, lastupdate, list, scans, reader>>

(* One that goes may still be returned, from what was read in advance.     *)
Remove(f) ==
  /\ Running /\ f \in files
  /\ files' = files \ {f}
  /\ Touched(f) /\ changes < Changes /\ changes' = changes + 1
  /\ scan' = [scan EXCEPT !.due = @ \ {f}]
  /\ UNCHANGED <<now, lastupdate, list, scans, reader>>

-----------------------------------------------------------------------------
(* The scanning thread: a pool of one, which pushes itself again after a   *)
(* second's sleep (any sleep here) and a sweep of the request table.       *)
Changed == mtime # lastupdate \/ lastupdate = 0

Begin ==
  /\ scan.at = "idle" /\ Changed
  /\ scan' = [scan EXCEPT !.at = "freeing", !.buf = mtime, !.since = now]
  /\ UNCHANGED <<now, mtime, files, changes, lastupdate, list, scans, reader>>

(* The entries and the nodes are freed while the head still leads to them. *)
FreeList ==
  /\ scan.at = "freeing"
  /\ scan' = [scan EXCEPT !.at = "freed"]
  /\ scans' = scans + 1
  /\ UNCHANGED <<now, mtime, files, changes, lastupdate, list, reader>>

(* Mutation: the head is not set to NULL.                                  *)
OpenDirOnto ==
  /\ scan.at = "freed"
  /\ scan' = [scan EXCEPT !.at = "reading", !.rest = files, !.due = files]
  /\ UNCHANGED <<now, mtime, files, changes, lastupdate, list, scans, reader>>

OpenDir ==
  /\ scan.at = "freed"
  /\ list' = <<>>
  /\ scan' = [scan EXCEPT !.at = "reading", !.rest = files, !.due = files]
  /\ UNCHANGED <<now, mtime, files, changes, lastupdate, scans, reader>>

ReadDir(f) ==
  /\ scan.at = "reading" /\ f \in scan.rest
  /\ scan' = [scan EXCEPT !.at = "summing", !.name = f, !.rest = @ \ {f}, !.due = @ \ {f}]
  /\ UNCHANGED <<now, mtime, files, changes, lastupdate, list, scans, reader>>

(* The stat that tells files from directories goes unchecked: for a file   *)
(* that has gone since readdir it leaves the answer for an entry before.   *)
(* So the file is passed over, as a directory that does not open, or is    *)
(* opened as a file, which ends the program.                               *)
Sum ==
  /\ scan.at = "summing"
  /\ \/ /\ scan.name \in files
        /\ list' = Append(list, scan.name)
        /\ scan' = [scan EXCEPT !.at = "reading", !.name = None]
     \/ /\ scan.name \notin files
        /\ \E stage \in {"reading", "exited"} :
             scan' = [scan EXCEPT !.at = stage, !.name = None]
        /\ UNCHANGED list
  /\ UNCHANGED <<now, mtime, files, changes, lastupdate, scans, reader>>

(* readdir has no more.  Mutation: the directory's time is read again.     *)
EndAnew ==
  /\ scan.at = "reading" /\ scan.due = {}
  /\ scan' = [scan EXCEPT !.at = "idle", !.rest = {}]
  /\ lastupdate' = mtime
  /\ UNCHANGED <<now, mtime, files, changes, list, scans, reader>>

(* Mutation: lastupdate is not set.                                        *)
EndForgetful ==
  /\ scan.at = "reading" /\ scan.due = {}
  /\ scan' = [scan EXCEPT !.at = "idle", !.rest = {}]
  /\ UNCHANGED <<now, mtime, files, changes, lastupdate, list, scans, reader>>

End ==
  /\ scan.at = "reading" /\ scan.due = {}
  /\ scan' = [scan EXCEPT !.at = "idle", !.rest = {}]
  /\ lastupdate' = scan.buf
  /\ UNCHANGED <<now, mtime, files, changes, list, scans, reader>>

Scanner == Begin \/ FreeList \/ OpenDir \/ (\E f \in File : ReadDir(f)) \/ Sum \/ End

-----------------------------------------------------------------------------
(* A reader.  Mutation: the lock is not waited for.                        *)
PassAlways(r) ==
  /\ Running /\ reader[r].at = "idle"
  /\ reader' = [reader EXCEPT ![r] = [Waiting EXCEPT !.at = "passed", !.passed = scans]]
  /\ UNCHANGED <<now, mtime, files, changes, scan, lastupdate, list, scans>>

Pass(r) ==
  /\ Running /\ reader[r].at = "idle" /\ ~Locked
  /\ reader' = [reader EXCEPT ![r] = [Waiting EXCEPT !.at = "passed", !.passed = scans]]
  /\ UNCHANGED <<now, mtime, files, changes, scan, lastupdate, list, scans>>

(* The head, as it is by now, which may be that of a list just freed.      *)
GetHead(r) ==
  /\ Running /\ reader[r].at = "passed"
  /\ reader' = [reader EXCEPT
       ![r].at = IF list = <<>> THEN "done" ELSE "entry",
       ![r].walks = IF scan.at = "freed" THEN scans - 1 ELSE scans,
       ![r].pos = 1]
  /\ UNCHANGED <<now, mtime, files, changes, scan, lastupdate, list, scans>>

Gone(r) == reader[r].walks # scans

Touch(r) ==
  /\ Running /\ reader[r].at \in {"entry", "next"} /\ Gone(r)
  /\ reader' = [reader EXCEPT ![r].at = "touched"]
  /\ UNCHANGED <<now, mtime, files, changes, scan, lastupdate, list, scans>>

(* The entry is looked at, and answered with if it matches.                *)
Use(r) ==
  /\ Running /\ reader[r].at = "entry" /\ ~Gone(r)
  /\ reader' = [reader EXCEPT ![r].at = "next", ![r].answers = @ \cup {list[reader[r].pos]}]
  /\ UNCHANGED <<now, mtime, files, changes, scan, lastupdate, list, scans>>

(* get_request_wantfile stops at the file it looks for.                    *)
Stop(r) ==
  /\ Running /\ reader[r].at = "next"
  /\ reader' = [reader EXCEPT ![r].at = "found"]
  /\ UNCHANGED <<now, mtime, files, changes, scan, lastupdate, list, scans>>

(* Mutation: the end of the list is not looked for.                        *)
FollowBlind(r) ==
  /\ Running /\ reader[r].at = "next" /\ ~Gone(r)
  /\ reader' = [reader EXCEPT ![r].at = "entry", ![r].pos = @ + 1]
  /\ UNCHANGED <<now, mtime, files, changes, scan, lastupdate, list, scans>>

Follow(r) ==
  /\ Running /\ reader[r].at = "next" /\ ~Gone(r)
  /\ reader' = [reader EXCEPT
       ![r].at = IF reader[r].pos < Len(list) THEN "entry" ELSE "done",
       ![r].pos = IF reader[r].pos < Len(list) THEN @ + 1 ELSE @]
  /\ UNCHANGED <<now, mtime, files, changes, scan, lastupdate, list, scans>>

(* The thread takes its next request.                                      *)
Again(r) ==
  /\ Running /\ reader[r].at \in {"done", "found"}
  /\ reader' = [reader EXCEPT ![r] = Waiting]
  /\ UNCHANGED <<now, mtime, files, changes, scan, lastupdate, list, scans>>

Read(r) == Pass(r) \/ GetHead(r) \/ Touch(r) \/ Use(r) \/ Stop(r) \/ Follow(r) \/ Again(r)

Next ==
  \/ Tick \/ Scanner
  \/ \E f \in File : Create(f) \/ Remove(f)
  \/ \E r \in Reader : Read(r)

Spec == Init /\ [][Next]_vars

(* The scanning thread runs; readers may or may not come.                  *)
FairSpec == Spec /\ WF_vars(Scanner)

-----------------------------------------------------------------------------
Scan == [at : {"idle", "freeing", "freed", "reading", "summing", "exited"},
         buf : 0..MaxTime, since : 0..MaxTime, rest : SUBSET File, due : SUBSET File,
         name : File \cup {None}]

Walk == [at : {"idle", "passed", "entry", "next", "touched", "found", "done"},
         passed : Nat, walks : Nat, pos : Nat, answers : SUBSET File]

TypeOK ==
  /\ now \in 1..MaxTime /\ mtime \in 1..now
  /\ files \subseteq File /\ changes \in 0..Changes
  /\ scan \in Scan
  /\ lastupdate \in 0..now
  /\ list \in Seq(File)
  /\ scans \in Nat
  /\ reader \in [Reader -> Walk]
  /\ \A r \in Reader :
       reader[r].at \in {"entry", "next"} /\ ~Gone(r) => reader[r].pos \in DOMAIN list

(* A reader looks at freed entries only when the directory was changed in  *)
(* a second after the one the program started in: for a directory left     *)
(* alone, walking the list without its lock does no harm.                  *)
TouchNeedsChange == (\E r \in Reader : reader[r].at = "touched") => mtime > 1

(* When the scanner rests, finds the directory's time to be the one it     *)
(* went by, and had looked at it in a later second than that, the list has *)
(* exactly the files of the directory, each once, whatever came and went   *)
(* while it was read.                                                      *)
Settled == scan.at = "idle" /\ mtime = lastupdate /\ scan.since > mtime

UpToDate ==
  Settled => /\ Range(list) \cap Top = files \cap Top
             /\ \A i, j \in DOMAIN list :
                  list[i] = list[j] /\ list[i] \in Top => i = j

(* A search answers with every file of the list unless a rescan came       *)
(* between, although it walks the list without the lock: passing the lock  *)
(* keeps it from walking a list that is being built.                       *)
AnswersComplete == \A r \in Reader :
  reader[r].at = "done" /\ reader[r].passed = scans => reader[r].answers = Range(list)

(* A file that is there after the directory changed in a later second than *)
(* the last look at it gets into the list, unless it goes, or a file that  *)
(* went ended the program.  Assumed is that the scanning thread comes back *)
(* from request_do_timeout, which TimeoutsReported shows it may not.       *)
LaterChangesListed == \A f \in Top :
  mtime > scan.since /\ f \in files
    ~> f \in Range(list) \/ f \notin files \/ ~Running

(* file_db.c:71, "Wait for the list to be built": no reader gets the list  *)
(* before the first scan built it.                                         *)
WaitsForList == \A r \in Reader : reader[r].at = "done" => lastupdate # 0
=============================================================================
