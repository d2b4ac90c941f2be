---------------------------- MODULE SearchClient ----------------------------
(***************************************************************************)
(* The request table with its real callers: the GUI thread, which starts   *)
(* searches and downloads and closes tabs, the timer thread, which reports *)
(* timeouts to the tabs, and the pool threads that handle search replies.  *)
(*                                                                         *)
(* Two locks meet here.  GTK runs every handler of the GUI thread with the *)
(* GDK lock held, so it is held exactly while gui.pc # "idle"; the timer   *)
(* holds request_start (locked) while it waits for the GDK lock to change  *)
(* a label.  Replies travel by UDP: each may be lost, repeated or late.    *)
(***************************************************************************)
EXTENDS RequestHandler, Sequences

CONSTANTS
  Search,          \* the searches the user makes, each named by its tab
  Download,        \* the downloads the user asks for
  Nobody,          \* no search: what an uninitialised pointer refers to
  Pages,           \* the notebook's own pages: Main, Downstream Servers
  Workers,         \* the threads of request_processors (30 in the program)
  DefaultTimeout   \* DEFAULT_TIMEOUT of request_handler.h

ASSUME ClientAssumption ==
  /\ Search \cap Download = {}
  /\ Nobody \notin Search
  /\ Pages \in Seq(STRING)
  /\ \A i \in DOMAIN Pages : Pages[i] \notin Search
  /\ Workers \in Nat
  /\ DefaultTimeout \in Nat
  /\ MaxTime > 0

VARIABLES
  gui,       \* the GUI thread's handler: where it is, for whom, its record
  asking,    \* the label the timer waits to change, <<>> if it does not wait
  handling,  \* replies between request_get and the use of its result
  owner,     \* the search whose model and label a record's fields point at
  callback,  \* the function a record's timeout field points at
  number,    \* the request number a search's close button was given
  tabs,      \* the notebook's pages
  finished,  \* the searches whose label was changed to "Finished ..."
  sent,      \* the searches that were sent, so that replies may arrive
  filed,     \* pairs <<s, t>>: a reply to s was added to the results of t
  retired,   \* history: searches whose record was freed
  slept,     \* when the timer's sleep(1) is over
  crashed    \* "no", or what dereferenced a bad pointer

client == <<gui, asking, handling, owner, callback, number, tabs, finished,
            sent, filed, retired, slept, crashed>>
cvars  == <<vars, client>>

Idle == [pc |-> "idle", who |-> Nobody, rec |-> NoAddr]
Alive == crashed = "no"
Tab(s) == \E i \in DOMAIN tabs : tabs[i] = s

ClientInit ==
  /\ Init
  /\ gui = Idle /\ asking = <<>> /\ handling = {}
  /\ owner = [a \in Addr |-> Nobody]
  /\ callback = [a \in Addr |-> "label"]
  /\ number = [s \in Search |-> 0]
  /\ tabs = Pages
  /\ finished = {} /\ sent = {} /\ filed = {} /\ retired = {}
  /\ slept = 1
  /\ crashed = "no"

-----------------------------------------------------------------------------
(* Handlers of the GUI thread.  A click is taken when the previous handler *)
(* is over; downloads and searches share the first two steps.              *)

(* malloc leaves the fields as a former owner left them, or as garbage.    *)
(* Bound: no request is made that could not expire before MaxTime.         *)
Allocate(a, c, function) ==
  /\ Malloc(a)
  /\ now + Timeout < MaxTime
  /\ gui' = [pc |-> "starting", who |-> c, rec |-> a]
  /\ callback' = [callback EXCEPT ![a] = function]
  /\ \E old \in {owner[a], Nobody} : owner' = [owner EXCEPT ![a] = old]
  /\ UNCHANGED <<asking, handling, number, tabs, finished, sent, filed, retired,
                 slept, crashed>>

ClickSearch(s, a) ==
  /\ Alive /\ gui = Idle /\ s \notin sent
  /\ Allocate(a, s, "label")

(* A download starts from a result of a tab.  Bound: each once.            *)
ClickDownload(d, a) ==
  /\ Alive /\ gui = Idle /\ d \notin sent
  /\ \E f \in filed : Tab(f[2])
  /\ Allocate(a, d, "print")

GuiStart ==
  /\ Alive /\ gui.pc = "starting"
  /\ RequestStart(gui.rec)
  /\ IF gui.who \in Search
     THEN gui' = [gui EXCEPT !.pc = "opening"] /\ sent' = sent
     ELSE gui' = Idle /\ sent' = sent \cup {gui.who}
  /\ UNCHANGED <<asking, handling, owner, callback, number, tabs, finished, filed,
                 retired, slept, crashed>>

(* Make the model and the tab, set data and widget, send to all servers.   *)
GuiOpen ==
  /\ Alive /\ gui.pc = "opening"
  /\ owner' = [owner EXCEPT ![gui.rec] = gui.who]
  /\ number' = [number EXCEPT ![gui.who] = mem[gui.rec].reqno]
  /\ tabs' = Append(tabs, gui.who)
  /\ sent' = sent \cup {gui.who}
  /\ gui' = Idle
  /\ UNCHANGED <<vars, asking, handling, callback, finished, filed, retired,
                 slept, crashed>>

ClickClose(s) ==
  /\ Alive /\ gui = Idle /\ Tab(s)
  /\ gui' = [pc |-> "ending", who |-> s, rec |-> NoAddr]
  /\ UNCHANGED <<vars, asking, handling, owner, callback, number, tabs, finished,
                 sent, filed, retired, slept, crashed>>

GuiEnd ==
  /\ Alive /\ gui.pc = "ending"
  /\ RequestEnd(number[gui.who])
  /\ gui' = [gui EXCEPT !.pc = "getting"]
  /\ UNCHANGED <<asking, handling, owner, callback, number, tabs, finished, sent,
                 filed, retired, slept, crashed>>

(* What filesearch_unallocate_request does with what it got; and without   *)
(* its test for NULL.                                                      *)
GoOnUnchecked(r) == [gui EXCEPT !.pc = "removing", !.rec = r]

GoOn(r) ==
  IF r = NoAddr THEN Idle ELSE [gui EXCEPT !.pc = "removing", !.rec = r]

GuiGet ==
  /\ Alive /\ gui.pc = "getting" /\ ~locked
  /\ gui' = GoOn(tree[number[gui.who]])
  /\ UNCHANGED <<vars, asking, handling, owner, callback, number, tabs, finished,
                 sent, filed, retired, slept, crashed>>

(* The widget of the record is a label, not a page, so                     *)
(* gtk_notebook_page_num answers -1, and gtk_notebook_remove_page(-1)      *)
(* removes the last page.  Mutation: it removes the first.                 *)
PageFirst == 1

PageRemoved == Len(tabs)

GuiRemove ==
  /\ Alive /\ gui.pc = "removing"
  /\ tabs' = [i \in 1..(Len(tabs) - 1) |->
                IF i < PageRemoved THEN tabs[i] ELSE tabs[i + 1]]
  /\ gui' = Idle
  /\ UNCHANGED <<vars, asking, handling, owner, callback, number, finished, sent,
                 filed, retired, slept, crashed>>

Gui ==
  \/ \E a \in Addr : \/ \E s \in Search : ClickSearch(s, a)
                     \/ \E d \in Download : ClickDownload(d, a)
  \/ \E s \in Search : ClickClose(s)
  \/ GuiStart \/ GuiOpen \/ GuiEnd \/ GuiGet \/ GuiRemove

-----------------------------------------------------------------------------
(* The timer thread: sleep a second, sweep, and so on.                     *)

TimerBegin ==
  /\ Alive /\ slept <= now
  /\ SweepBegin
  /\ UNCHANGED client

(* request_ontimeout reads the widget, then waits for the GDK lock.        *)
TimerAsk(k) ==
  /\ Alive /\ First(k) /\ step = "callback" /\ asking = <<>>
  /\ NeedsCallback(k) /\ callback[k] = "label"
  /\ asking' = <<owner[k]>>
  /\ UNCHANGED <<vars, gui, handling, owner, callback, number, tabs, finished,
                 sent, filed, retired, slept, crashed>>

(* A label of a removed page is freed memory, like a garbage pointer.      *)
TimerTell(k) ==
  /\ Alive /\ asking # <<>> /\ gui.pc = "idle"
  /\ SweepCallback(k)
  /\ asking' = <<>>
  /\ \/ asking[1] \in Search /\ Tab(asking[1])
        /\ finished' = finished \cup {asking[1]} /\ crashed' = crashed
     \/ ~(asking[1] \in Search /\ Tab(asking[1]))
        /\ finished' = finished /\ crashed' \in {crashed, "label"}
  /\ UNCHANGED <<gui, handling, owner, callback, number, tabs, sent, filed,
                 retired, slept>>

TimerPass(k) ==
  /\ Alive /\ ~(NeedsCallback(k) /\ callback[k] = "label")
  /\ SweepCallback(k)
  /\ UNCHANGED client

TimerRelease(k) ==
  /\ Alive /\ SweepRelease(k)
  /\ retired' = IF k \in alloc' THEN retired ELSE retired \cup {owner[k]}
  /\ UNCHANGED <<gui, asking, handling, owner, callback, number, tabs, finished,
                 sent, filed, slept, crashed>>

TimerMark(k) == Alive /\ SweepMark(k) /\ UNCHANGED client

(* Bound: when the clock stands still, the timer does not sleep.           *)
TimerEnd ==
  /\ Alive /\ SweepEnd
  /\ slept' = IF now < MaxTime THEN now + 1 ELSE now
  /\ UNCHANGED <<gui, asking, handling, owner, callback, number, tabs, finished,
                 sent, filed, retired, crashed>>

Timer ==
  \/ TimerBegin \/ TimerEnd
  \/ \E k \in Addr : \/ TimerAsk(k) \/ TimerTell(k) \/ TimerPass(k)
                     \/ TimerRelease(k) \/ TimerMark(k)

-----------------------------------------------------------------------------
(* get_reply_search, by a pool thread, for a reply that carries the number *)
(* of search s: look the number up under the lock, use the result after.   *)

ReplyGet(s) ==
  /\ Alive /\ s \in sent /\ Cardinality(handling) < Workers /\ ~locked
  /\ handling' = handling \cup {[from |-> s, rec |-> tree[number[s]]]}
  /\ UNCHANGED <<vars, gui, asking, owner, callback, number, tabs, finished, sent,
                 filed, retired, slept, crashed>>

(* Only h is left after a crash, to name the reply that caused it.         *)
ReplyCrash(h) ==
  /\ handling' = {h} /\ crashed' = "reply" /\ filed' = filed

ReplyDrop(h) ==
  /\ handling' = handling \ {h} /\ UNCHANGED <<crashed, filed>>

ReplyFile(h) ==
  /\ handling' = handling \ {h} /\ crashed' = crashed
  /\ filed' = filed \cup {<<h.from, owner[h.rec]>>}

(* NULL is dereferenced; freed memory is what it was, or anything; a live  *)
(* record whose fields are not set yet has whatever malloc returned.       *)
ReplyUse(h) ==
  /\ Alive /\ IF h.rec = NoAddr THEN ReplyCrash(h)
     ELSE IF h.rec \notin alloc THEN ReplyDrop(h) \/ ReplyCrash(h)
     ELSE IF ~mem[h.rec].active THEN ReplyDrop(h)
     ELSE IF owner[h.rec] = Nobody THEN ReplyCrash(h)
     ELSE ReplyFile(h)
  /\ UNCHANGED <<vars, gui, asking, owner, callback, number, tabs, finished, sent,
                 retired, slept>>

Replies == \/ \E s \in Search : ReplyGet(s)
           \/ \E h \in handling : ReplyUse(h)

(* Bound: the clock waits for a request that it would leave no time.       *)
ClientTick ==
  /\ Alive /\ gui.pc = "starting" => now + 1 + Timeout < MaxTime
  /\ Tick
  /\ UNCHANGED client

ClientNext == ClientTick \/ Gui \/ Timer \/ Replies

ClientSpec == ClientInit /\ [][ClientNext]_cvars

(* A handler goes on until it ends.  The lock is free for a second between *)
(* two sweeps, so that who waits for it gets it in the end; the timer      *)
(* waits for the GDK lock in the same way.                                 *)
ClientFair ==
  /\ ClientSpec
  /\ WF_cvars(ClientTick)
  /\ WF_cvars(GuiOpen) /\ WF_cvars(GuiRemove)
  /\ SF_cvars(GuiStart) /\ SF_cvars(GuiEnd)
  /\ SF_cvars(GuiGet)
  /\ WF_cvars(TimerBegin) /\ WF_cvars(TimerEnd)
  /\ \A k \in Addr :
       /\ SF_cvars(TimerTell(k))
       /\ WF_cvars(TimerAsk(k) \/ TimerPass(k) \/ TimerRelease(k) \/ TimerMark(k))

-----------------------------------------------------------------------------
(* A handler that uses its record or its search has one.                   *)
GuiOK ==
  /\ gui \in [pc : {"idle", "starting", "opening", "ending", "getting",
                    "removing"},
              who : Search \cup Download \cup {Nobody},
              rec : Addr \cup {NoAddr}]
  /\ gui.pc = "starting" => gui.who \in Search \cup Download
  /\ gui.pc \in {"starting", "opening", "removing"} => gui.rec \in Addr
  /\ gui.pc \in {"opening", "ending", "getting", "removing"} => gui.who \in Search

ClientTypeOK ==
  /\ TypeOK
  /\ GuiOK
  /\ asking \in {<<>>} \cup {<<s>> : s \in Search \cup {Nobody}}
  /\ handling \subseteq [from : Search, rec : Addr \cup {NoAddr}]
  /\ owner \in [Addr -> Search \cup {Nobody}]
  /\ callback \in [Addr -> {"label", "print"}]
  /\ number \in [Search -> ReqNo]
  /\ finished \subseteq Search /\ retired \subseteq Search \cup {Nobody}
  /\ sent \subseteq Search \cup Download
  /\ filed \subseteq Search \X Search
  /\ slept \in 1..MaxTime
  /\ crashed \in {"no", "reply", "label"}

(* As long as the record of a search is in the table (and the numbers have *)
(* not run out, see UniqueNumbers), the replies to the search go to        *)
(* its own results: none is filed under another search, and none makes the *)
(* client crash, although a pool thread uses the pointer request_get gave  *)
(* it when the record may have been ended, freed and allocated again.      *)
RepliesKept == ~wrapped =>
  /\ \A f \in filed : f[1] = f[2] \/ f[1] \in retired
  /\ crashed = "reply" => \A h \in handling : h.from \in retired

(* Closing tabs removes the last page each time, whichever tab was closed, *)
(* and still never takes one of the notebook's own pages.                  *)
PagesStay ==
  Len(tabs) >= Len(Pages) /\ \A i \in DOMAIN Pages : tabs[i] = Pages[i]

(* The two locks are taken in opposite orders: the handler holds the GDK   *)
(* lock and waits for request_start, the timer the other way round.        *)
Inverted == asking # <<>> /\ gui.pc \in {"starting", "ending", "getting"}

(* Nothing else hangs the GUI: every click is served, or the two threads   *)
(* have taken their locks in opposite orders (or the client crashed).      *)
ClicksServed == gui.pc # "idle" ~> (gui.pc = "idle" \/ Inverted \/ ~Alive)

(* Every search whose tab is open before its time is up says "Finished" in *)
(* the end, unless its tab was closed, its request ended, or the client    *)
(* hung or crashed.                                                        *)
Waiting(s) ==
  /\ s \in sent \ finished /\ Tab(s)
  /\ \E a \in Started : owner[a] = s /\ mem[a].active

SearchesFinish ==
  \A s \in Search :
    Waiting(s) /\ now <= mem[tree[number[s]]].starttime
      ~> ~Waiting(s) \/ Inverted \/ ~Alive

(* README: "The server the request came from locally asks the request      *)
(* handler to inform it off timeouts so that it knows when to give up      *)
(* searching for that packet."                                             *)
TimeoutsReported ==
  \A a \in Addr :
    (a \in Started /\ Expired(a) /\ mem[a].active)
      ~> (a \notin Started \/ ~mem[a].active \/ told[a] = 1 \/ ~Alive)

(* gui.c on filename_search_close_freewidgets: "Called to remove a search  *)
(* tab".  The page it removes is the one whose close button was clicked.   *)
CloseRemovesOwnTab ==
  [][gui.pc = "removing" /\ tabs' # tabs => tabs[Len(tabs)] = gui.who]_cvars

(* README: "It also uses a unique request number so that multiple searches *)
(* can be done at one time."  No reply is shown under another search.      *)
RepliesToOwner == \A f \in filed : f[1] = f[2]

(* README: the request handler tells "when to give up searching for that   *)
(* packet".  A reply that comes after that does no harm.                   *)
LateRepliesHarmless == crashed # "reply"

(* request_handler.h: "#define DEFAULT_TIMEOUT 300 // 5 minutes".  No tab  *)
(* says "Finished" before that time.                                       *)
FullTimeout == finished # {} => now > DefaultTimeout
=============================================================================
