------------------------- MODULE SearchClientProofs -------------------------
(***************************************************************************)
(* The client runs the request table as RequestHandler specifies it, so    *)
(* what is proved of the table with arbitrary callers holds of the client. *)
(***************************************************************************)
EXTENDS SearchClient, RequestHandlerProofs, SequenceTheorems

LEMMA ClientInitOK == ClientInit => Init /\ ClientTypeOK
<1> SUFFICES ASSUME ClientInit  PROVE ClientTypeOK
  BY DEF ClientInit
<1>1. TypeOK
  BY InitInv DEF ClientInit, IInv
<1>2. number \in [Search -> ReqNo]
  BY ConstAssumption DEF ClientInit, ReqNo
<1>3. slept \in 1..MaxTime
  BY ConstAssumption, ClientAssumption DEF ClientInit
<1>4. GuiOK
  BY DEF ClientInit, GuiOK, Idle
<1>. QED  BY <1>1, <1>2, <1>3, <1>4 DEF ClientInit, ClientTypeOK

(* A step of the client is a step of the table, or leaves it alone.        *)
LEMMA ClientStep == ASSUME ClientTypeOK, ClientNext  PROVE [Next]_vars
<1>1. CASE ClientTick
  BY <1>1 DEF ClientTick, Next
<1>2. ASSUME NEW a \in Addr, NEW c, NEW f, Allocate(a, c, f)  PROVE Next
  BY <1>2 DEF Allocate, Next
<1>3. CASE GuiStart
  <2>1. gui.rec \in Addr
    BY <1>3 DEF GuiStart, ClientTypeOK, GuiOK
  <2>. QED  BY <1>3, <2>1 DEF GuiStart, Next
<1>4. CASE GuiEnd
  <2>1. number[gui.who] \in ReqNo
    BY <1>4 DEF GuiEnd, ClientTypeOK, GuiOK
  <2>. QED  BY <1>4, <2>1 DEF GuiEnd, Next
<1>5. CASE Gui
  BY <1>2, <1>3, <1>4, <1>5
  DEF Gui, ClickSearch, ClickDownload, ClickClose, GuiOpen, GuiGet, GuiRemove
<1>6. CASE Timer
  BY <1>6 DEF Timer, TimerBegin, TimerAsk, TimerTell, TimerPass, TimerRelease,
              TimerMark, TimerEnd, Next, Sweep, SweepOne
<1>7. CASE Replies
  BY <1>7 DEF Replies, ReplyGet, ReplyUse
<1>. QED  BY <1>1, <1>5, <1>6, <1>7 DEF ClientNext

LEMMA GuiStepOK ==
  ASSUME ClientTypeOK, TypeOK', Gui  PROVE ClientTypeOK'
<1> USE DEF ClientTypeOK, GuiOK
<1>1. ASSUME NEW a \in Addr, NEW c \in Search \cup Download,
             NEW f \in {"label", "print"}, Allocate(a, c, f)
      PROVE  ClientTypeOK'
  BY <1>1 DEF Allocate
<1>2. ASSUME NEW a \in Addr,
             \/ \E s \in Search : ClickSearch(s, a)
             \/ \E d \in Download : ClickDownload(d, a)
      PROVE  ClientTypeOK'
  BY <1>1, <1>2 DEF ClickSearch, ClickDownload
<1>3. ASSUME NEW s \in Search, ClickClose(s)  PROVE ClientTypeOK'
  <2>1. gui' = [pc |-> "ending", who |-> s, rec |-> NoAddr] /\ s \in Search
        /\ UNCHANGED <<asking, handling, owner, callback, number, tabs, finished,
                       sent, filed, retired, slept, crashed>>
    BY <1>3 DEF ClickClose
  <2>. QED  BY <2>1
<1>4. CASE GuiStart
  <2>1. CASE gui.who \in Search
    BY <1>4, <2>1 DEF GuiStart
  <2>2. CASE gui.who \notin Search
    BY <1>4, <2>2 DEF GuiStart, Idle
  <2>. QED  BY <2>1, <2>2
<1>5. CASE GuiOpen
  <2>1. mem[gui.rec].reqno \in ReqNo /\ gui.who \in Search /\ gui.rec \in Addr
    BY <1>5 DEF GuiOpen, TypeOK, Request
  <2>. QED  BY <1>5, <2>1 DEF GuiOpen, Idle
<1>6. CASE GuiEnd
  BY <1>6 DEF GuiEnd
<1>7. CASE GuiGet
  <2>1. tree[number[gui.who]] \in Addr \cup {NoAddr} /\ gui.who \in Search
    BY <1>7 DEF GuiGet, TypeOK
  <2>2. UNCHANGED <<asking, handling, owner, callback, number, tabs, finished,
                    sent, filed, retired, slept, crashed>>
    BY <1>7 DEF GuiGet
  <2>3. CASE tree[number[gui.who]] = NoAddr
    BY <1>7, <2>2, <2>3 DEF GuiGet, GoOn, Idle
  <2>4. CASE tree[number[gui.who]] # NoAddr
    BY <1>7, <2>1, <2>2, <2>4 DEF GuiGet, GoOn
  <2>. QED  BY <2>3, <2>4
<1>8. CASE GuiRemove
  BY <1>8 DEF GuiRemove, Idle
<1> HIDE DEF ClientTypeOK, GuiOK
<1>. QED  BY <1>2, <1>3, <1>4, <1>5, <1>6, <1>7, <1>8 DEF Gui

LEMMA TimerStepOK ==
  ASSUME ClientTypeOK, TypeOK', Timer  PROVE ClientTypeOK'
<1> USE DEF ClientTypeOK
<1>1. CASE TimerBegin
  BY <1>1 DEF TimerBegin, client, GuiOK
<1>2. CASE TimerEnd
  <2>1. slept' \in 1..MaxTime
    BY <1>2, ConstAssumption, ClientAssumption DEF TimerEnd, TypeOK
  <2>. QED  BY <1>2, <2>1 DEF TimerEnd, GuiOK
<1>3. ASSUME NEW k \in Addr, TimerAsk(k)  PROVE ClientTypeOK'
  BY <1>3 DEF TimerAsk, GuiOK
<1>4. ASSUME NEW k \in Addr, TimerTell(k)  PROVE ClientTypeOK'
  BY <1>4 DEF TimerTell, GuiOK
<1>5. ASSUME NEW k \in Addr, TimerPass(k) \/ TimerMark(k)  PROVE ClientTypeOK'
  BY <1>5 DEF TimerPass, TimerMark, client, GuiOK
<1>6. ASSUME NEW k \in Addr, TimerRelease(k)  PROVE ClientTypeOK'
  BY <1>6 DEF TimerRelease, GuiOK
<1>. QED  BY <1>1, <1>2, <1>3, <1>4, <1>5, <1>6 DEF Timer

LEMMA ReplyStepOK ==
  ASSUME ClientTypeOK, TypeOK', Replies  PROVE ClientTypeOK'
<1> USE DEF ClientTypeOK
<1>1. ASSUME NEW s \in Search, ReplyGet(s)  PROVE ClientTypeOK'
  <2>1. tree[number[s]] \in Addr \cup {NoAddr}
    BY DEF TypeOK
  <2>. QED  BY <1>1, <2>1 DEF ReplyGet, GuiOK
<1>2. ASSUME NEW h \in handling, ReplyUse(h)  PROVE ClientTypeOK'
  <2>1. /\ h.from \in Search /\ h.rec \in Addr \cup {NoAddr}
        /\ UNCHANGED <<vars, gui, asking, owner, callback, number, tabs, finished,
                       sent, retired, slept>>
    BY <1>2 DEF ReplyUse
  <2>2. CASE ReplyCrash(h)
    BY <2>1, <2>2 DEF ReplyCrash, GuiOK
  <2>3. CASE ReplyDrop(h)
    BY <2>1, <2>3 DEF ReplyDrop, GuiOK
  <2>4. CASE h.rec # NoAddr /\ owner[h.rec] # Nobody /\ ReplyFile(h)
    <3>1. owner[h.rec] \in Search
      BY <2>1, <2>4
    <3>. QED  BY <2>1, <2>4, <3>1 DEF ReplyFile, GuiOK
  <2>. QED  BY <1>2, <2>2, <2>3, <2>4 DEF ReplyUse
<1>. QED  BY <1>1, <1>2 DEF Replies

LEMMA ClientInv ==
  ASSUME IInv, ClientTypeOK, [ClientNext]_cvars
  PROVE  IInv' /\ ClientTypeOK' /\ [Next]_vars
<1>1. [Next]_vars
  BY ClientStep DEF cvars
<1>2. IInv' /\ TypeOK'
  BY <1>1, NextInv DEF IInv
<1>3. UNCHANGED client => ClientTypeOK'
  BY <1>2 DEF client, ClientTypeOK, GuiOK
<1>4. ClientTick \/ UNCHANGED cvars => UNCHANGED client
  BY DEF ClientTick, cvars
<1>. QED  BY <1>1, <1>2, <1>3, <1>4, GuiStepOK, TimerStepOK, ReplyStepOK
          DEF ClientNext

(* Every behaviour of the client is one of the request table: its calls    *)
(* keep the locking and the order of calls that RequestHandler assumes.    *)
THEOREM ClientImplementsTable == ClientSpec => Spec
<1>1. ClientInit => Init /\ IInv /\ ClientTypeOK
  BY ClientInitOK, InitInv
<1>. QED  BY <1>1, ClientInv, PTL DEF ClientSpec, Spec

(* The client keeps its types; no handler uses a record it does not have.  *)
THEOREM ClientTypeCorrect == ClientSpec => []ClientTypeOK
<1>1. ClientInit => IInv /\ ClientTypeOK
  BY ClientInitOK, InitInv
<1>. QED  BY <1>1, ClientInv, PTL DEF ClientSpec

(* Hence the table of the running client never holds a dangling pointer    *)
(* and no search is told twice that its time is over.                      *)
THEOREM ClientTableSafe == ClientSpec => [](TreeSound /\ ToldOnce /\ NoneLost)
<1>. QED  BY ClientImplementsTable, TableIsSound, ToldAtMostOnce, NoRequestLost, PTL
-----------------------------------------------------------------------------
(* The pages.  A tab that is being closed is there, beside the notebook's  *)
(* own pages, and only the GUI thread changes any.                         *)
TabsOK ==
  /\ tabs \in Seq(STRING \cup Search)
  /\ Len(tabs) >= Len(Pages)
  /\ \A i \in 1..Len(Pages) : tabs[i] = Pages[i]
  /\ gui.pc \in {"ending", "getting", "removing"} => Len(tabs) > Len(Pages)

LEMMA PagesLength == Len(Pages) \in Nat /\ DOMAIN Pages = 1..Len(Pages)
BY ClientAssumption, LenProperties

LEMMA SameLength ==
  ASSUME NEW m \in Nat, NEW n \in Nat, 1..m = 1..n
  PROVE  m = n
<1>1. CASE m < n
  <2>1. n \in 1..n /\ n \notin 1..m
    BY <1>1
  <2>. QED  BY <2>1
<1>2. CASE n < m
  <2>1. m \in 1..m /\ m \notin 1..n
    BY <1>2
  <2>. QED  BY <2>1
<1>. QED  BY <1>1, <1>2

LEMMA TabsStep ==
  ASSUME ClientTypeOK, TabsOK, [ClientNext]_cvars
  PROVE  TabsOK'
<1>1. Len(tabs) \in Nat /\ DOMAIN tabs = 1..Len(tabs)
  BY LenProperties DEF TabsOK
<1>2. ASSUME tabs' = tabs, gui' = gui  PROVE TabsOK'
  BY <1>2 DEF TabsOK
<1>3. ASSUME tabs' = tabs, gui'.pc \notin {"ending", "getting", "removing"}
      PROVE  TabsOK'
  BY <1>3 DEF TabsOK
<1>4. ASSUME tabs' = tabs, gui.pc \in {"ending", "getting", "removing"}
      PROVE  TabsOK'
  BY <1>4 DEF TabsOK
<1>5. ASSUME NEW a \in Addr, NEW c, NEW f, Allocate(a, c, f)  PROVE TabsOK'
  BY <1>3, <1>5 DEF Allocate
<1>6. ASSUME NEW s \in Search, ClickClose(s)  PROVE TabsOK'
  <2>1. PICK i \in 1..Len(tabs) : tabs[i] = s
    BY <1>1, <1>6 DEF ClickClose, Tab
  <2>2. i \notin 1..Len(Pages)
    BY <2>1, PagesLength, ClientAssumption DEF TabsOK
  <2>3. Len(tabs) > Len(Pages)
    BY <1>1, <2>1, <2>2, PagesLength
  <2>. QED  BY <1>6, <2>3 DEF ClickClose, TabsOK
<1>7. CASE GuiStart
  <2>1. gui'.pc \in {"idle", "opening"}
    BY <1>7 DEF GuiStart, Idle, ClientTypeOK, GuiOK
  <2>. QED  BY <1>3, <1>7, <2>1 DEF GuiStart
<1>8. CASE GuiOpen
  <2>1. gui.who \in Search /\ tabs' = Append(tabs, gui.who) /\ gui'.pc = "idle"
    BY <1>8 DEF GuiOpen, Idle, ClientTypeOK, GuiOK
  <2>2. /\ tabs' \in Seq(STRING \cup Search) /\ Len(tabs') = Len(tabs) + 1
        /\ \A i \in 1..Len(tabs) : tabs'[i] = tabs[i]
    BY <2>1, AppendProperties DEF TabsOK
  <2>3. \A i \in 1..Len(Pages) : i \in 1..Len(tabs)
    BY <1>1, PagesLength DEF TabsOK
  <2>4. Len(tabs') >= Len(Pages)
    BY <1>1, <2>2, PagesLength DEF TabsOK
  <2>. QED  BY <2>1, <2>2, <2>3, <2>4 DEF TabsOK
<1>9. CASE GuiEnd \/ GuiGet
  BY <1>4, <1>9 DEF GuiEnd, GuiGet
<1>10. CASE GuiRemove
  <2>1. /\ gui.pc = "removing" /\ gui'.pc = "idle"
        /\ tabs' = [i \in 1..(Len(tabs) - 1) |->
                      IF i < Len(tabs) THEN tabs[i] ELSE tabs[i + 1]]
    BY <1>10 DEF GuiRemove, PageRemoved, Idle
  <2>2. Len(tabs) > Len(Pages) /\ Len(tabs) - 1 \in Nat /\ Len(tabs) - 1 >= Len(Pages)
    BY <1>1, <2>1, PagesLength DEF TabsOK
  <2>3. \A i \in 1..(Len(tabs) - 1) : i < Len(tabs) /\ tabs[i] \in STRING \cup Search
    BY <1>1, <2>2, ElementOfSeq DEF TabsOK
  <2>4. /\ tabs' \in [1..(Len(tabs) - 1) -> STRING \cup Search]
        /\ \A i \in 1..(Len(tabs) - 1) : tabs'[i] = tabs[i]
    BY <2>1, <2>3
  <2>5. tabs' \in Seq(STRING \cup Search)
    BY <2>2, <2>4, SeqDef
  <2>6. Len(tabs') = Len(tabs) - 1
    <3>1. DOMAIN tabs' = 1..(Len(tabs) - 1) /\ DOMAIN tabs' = 1..Len(tabs')
          /\ Len(tabs') \in Nat
      BY <2>4, <2>5, LenProperties
    <3>. QED  BY <2>2, <3>1, SameLength
  <2>7. \A i \in 1..Len(Pages) : i \in 1..(Len(tabs) - 1)
    BY <2>2, PagesLength
  <2>. QED  BY <2>1, <2>2, <2>4, <2>5, <2>6, <2>7 DEF TabsOK
<1>11. CASE Gui
  BY <1>5, <1>6, <1>7, <1>8, <1>9, <1>10, <1>11 DEF Gui, ClickSearch, ClickDownload
<1>12. CASE ClientTick \/ Timer \/ Replies \/ UNCHANGED cvars
  <2>1. tabs' = tabs /\ gui' = gui
    BY <1>12 DEF ClientTick, Timer, TimerBegin, TimerAsk, TimerTell, TimerPass,
                 TimerRelease, TimerMark, TimerEnd, Replies, ReplyGet, ReplyUse,
                 cvars, client
  <2>. QED  BY <1>2, <2>1
<1>. QED  BY <1>11, <1>12 DEF ClientNext

(* filename_search_close_freewidgets removes the last page, whichever tab  *)
(* was closed, and never one of the notebook's own.                        *)
THEOREM PagesKept == ClientSpec => []PagesStay
<1>1. ClientInit => IInv /\ ClientTypeOK /\ TabsOK
  <2>1. ClientInit => TabsOK
    <3>1. Pages \in Seq(STRING \cup Search)
      BY ClientAssumption, SeqMonotonic
    <3>. QED  BY <3>1, PagesLength DEF ClientInit, TabsOK, Idle
  <2>. QED  BY <2>1, ClientInitOK, InitInv
<1>2. TabsOK => PagesStay
  BY PagesLength DEF TabsOK, PagesStay
<1>. QED  BY <1>1, <1>2, ClientInv, TabsStep, PTL DEF ClientSpec

-----------------------------------------------------------------------------
(* The replies.  What is known of a search that was sent and is not        *)
(* retired: its number is in the table, and the record there is its own;   *)
(* a pool thread that looked the number up holds that record.  A search    *)
(* that is being opened has a live record no other search has.             *)
Live(s) == s \in sent /\ s \notin retired

Unsent ==
  /\ gui.pc \in {"starting", "opening"} => gui.who \notin sent
  /\ \A h \in handling : h.from \in sent

Opening == gui.pc = "opening" =>
  /\ gui.rec \in Started /\ mem[gui.rec].active
  /\ \A s \in Search : Live(s) => tree[number[s]] # gui.rec

Owned == \A s \in Search :
  Live(s) => tree[number[s]] # NoAddr /\ owner[tree[number[s]]] = s

Held == \A h \in handling : Live(h.from) => h.rec = tree[number[h.from]]

Filed ==
  /\ \A f \in filed : f[1] = f[2] \/ f[1] \in retired
  /\ crashed = "reply" => \A h \in handling : h.from \in retired

RInv == Unsent /\ (~wrapped => Opening /\ Owned /\ Held /\ Filed)

(* A step that leaves the table's keys and the client's own state alone,   *)
(* but for labels, pages and the timer's, and ends or frees no record.     *)
LEMMA QuietStep ==
  ASSUME RInv, UNCHANGED <<tree, wrapped, handling, owner, number, sent, filed,
                           retired>>,
         gui' = gui \/ gui'.pc \notin {"starting", "opening"},
         gui'.pc = "opening" =>
           /\ gui.rec \in Started => gui.rec \in Started'
           /\ mem[gui.rec].active => mem'[gui.rec].active,
         crashed' = crashed \/ crashed' = "label"
  PROVE  RInv'
<1>1. Unsent'
  BY DEF RInv, Unsent
<1>2. ASSUME ~wrapped'  PROVE Opening' /\ Owned' /\ Held' /\ Filed'
  <2>0. Opening /\ Owned /\ Held /\ Filed
    BY <1>2 DEF RInv
  <2>1. Opening'
    BY <2>0 DEF Opening, Live
  <2>2. Owned' /\ Held'
    BY <2>0 DEF Owned, Held, Live
  <2>3. Filed'
    BY <2>0 DEF Filed
  <2>. QED  BY <2>1, <2>2, <2>3
<1>. QED  BY <1>1, <1>2 DEF RInv

LEMMA AllocateReplies ==
  ASSUME IInv, ClientTypeOK, RInv, Alive,
         NEW a \in Addr, NEW c \in Search \cup Download, c \notin sent,
         NEW f, Allocate(a, c, f)
  PROVE  RInv'
<1>0. /\ a \notin alloc /\ gui'.pc = "starting" /\ gui'.who = c
      /\ UNCHANGED <<tree, mem, wrapped, handling, number, sent, filed, retired,
                     crashed>>
      /\ \A b \in Addr : b # a => owner'[b] = owner[b]
  BY DEF Allocate, Malloc, ClientTypeOK
<1>1. Unsent'
  BY <1>0 DEF RInv, Unsent
<1>2. ASSUME ~wrapped'  PROVE Opening' /\ Owned' /\ Held' /\ Filed'
  <2>0. Owned /\ Held /\ Filed
    BY <1>0, <1>2 DEF RInv
  <2>1. Opening'
    BY <1>0 DEF Opening
  <2>2. Owned'
    <3> SUFFICES ASSUME NEW s \in Search, Live(s)
        PROVE tree[number[s]] # NoAddr /\ owner'[tree[number[s]]] = s
      BY <1>0 DEF Owned, Live
    <3>1. tree[number[s]] # NoAddr /\ owner[tree[number[s]]] = s /\ number[s] \in Used
      BY <2>0 DEF Owned, Used, ClientTypeOK
    <3>2. tree[number[s]] \in alloc /\ tree[number[s]] \in Addr
      BY <3>1 DEF IInv, TreeSound, Started, TypeOK
    <3>. QED  BY <1>0, <3>1, <3>2
  <2>3. Held' /\ Filed'
    BY <1>0, <2>0 DEF Held, Filed, Live
  <2>. QED  BY <2>1, <2>2, <2>3
<1>. QED  BY <1>1, <1>2 DEF RInv

LEMMA StartReplies ==
  ASSUME IInv, ClientTypeOK, RInv, GuiStart
  PROVE  RInv'
<1>0. /\ gui.pc = "starting" /\ gui.rec \in Addr /\ gui.who \in Search \cup Download
      /\ UNCHANGED <<handling, owner, number, filed, retired, crashed>>
      /\ RequestStart(gui.rec)
  BY DEF GuiStart, ClientTypeOK, GuiOK
<1>1. PICK found \in Counts :
        /\ gui.rec \in pending /\ Finds(Used, found)
        /\ StartRecord(gui.rec, found)
  BY <1>0 DEF RequestStart
<1>2. gui.who \in Search => gui' = [gui EXCEPT !.pc = "opening"] /\ sent' = sent
  BY DEF GuiStart
<1>3. gui.who \notin Search => gui'.pc = "idle" /\ sent' = sent \cup {gui.who}
  BY DEF GuiStart, Idle
<1>4. \A s \in Search : s \in sent' <=> s \in sent
  BY <1>2, <1>3
<1>5. gui'.pc = "opening" => gui'.rec = gui.rec /\ gui'.who = gui.who
                             /\ gui.who \in Search
  BY <1>2, <1>3 DEF ClientTypeOK, GuiOK
<1>6. Unsent'
  <2>1. sent \subseteq sent' /\ (gui.who \in Search => sent' = sent)
    BY <1>2, <1>3
  <2>2. gui'.pc # "starting"
    BY <1>2, <1>3 DEF ClientTypeOK, GuiOK
  <2>. QED  BY <1>0, <1>5, <2>1, <2>2 DEF RInv, Unsent
<1>7. ASSUME ~wrapped'  PROVE Opening' /\ Owned' /\ Held' /\ Filed'
  <2>0. ~wrapped /\ found # 0 /\ Owned /\ Held /\ Filed
    BY <1>1, <1>7 DEF StartRecord, RInv
  <2>1. found \notin Used
    BY <2>0, <1>1 DEF Finds, IInv, NoneLost, Used
  <2>2. \A s \in Search : Live(s) =>
          /\ tree[number[s]] # NoAddr /\ owner[tree[number[s]]] = s
          /\ number[s] \in Used /\ tree[number[s]] \in Started
          /\ tree'[number[s]] = tree[number[s]]
    BY <1>1, <2>0, <2>1
    DEF Owned, Used, ClientTypeOK, IInv, TypeOK, TreeSound, StartRecord
  <2>3. Owned'
    BY <1>0, <1>4, <2>2 DEF Owned, Live
  <2>4. Held'
    <3> SUFFICES ASSUME NEW h \in handling, h.from \in sent, h.from \notin retired
        PROVE h.rec = tree'[number[h.from]]
      BY <1>0 DEF Held, Live, RInv, Unsent
    <3>1. h.from \in Search
      BY DEF ClientTypeOK
    <3>. QED  BY <2>0, <2>2, <3>1 DEF Held, Live
  <2>5. Opening'
    <3>1. gui.rec \in Started' /\ mem'[gui.rec].active
      BY <1>0, <1>1 DEF StartRecord, Started, IInv, TypeOK
    <3>2. \A s \in Search : Live(s) => tree'[number[s]] # gui.rec
      BY <1>1, <2>2 DEF Started
    <3>. QED  BY <1>0, <1>4, <1>5, <3>1, <3>2 DEF Opening, Live
  <2>6. Filed'
    BY <1>0, <2>0 DEF Filed
  <2>. QED  BY <2>3, <2>4, <2>5, <2>6
<1>. QED  BY <1>6, <1>7 DEF RInv

LEMMA OpenReplies ==
  ASSUME IInv, ClientTypeOK, RInv, GuiOpen
  PROVE  RInv'
<1>0. /\ gui.pc = "opening" /\ gui.rec \in Addr /\ gui.who \in Search
      /\ gui'.pc = "idle" /\ sent' = sent \cup {gui.who}
      /\ owner' = [owner EXCEPT ![gui.rec] = gui.who]
      /\ number' = [number EXCEPT ![gui.who] = mem[gui.rec].reqno]
      /\ UNCHANGED <<tree, wrapped, handling, filed, retired, crashed>>
  BY DEF GuiOpen, Idle, vars, ClientTypeOK, GuiOK
<1>1. Unsent'
  BY <1>0 DEF RInv, Unsent
<1>2. ASSUME ~wrapped'  PROVE Opening' /\ Owned' /\ Held' /\ Filed'
  <2>0. ~wrapped /\ Opening /\ Owned /\ Held /\ Filed /\ gui.who \notin sent
    BY <1>0, <1>2 DEF RInv, Unsent
  <2>1. tree'[number'[gui.who]] = gui.rec /\ gui.rec # NoAddr
        /\ owner'[gui.rec] = gui.who
    BY <1>0, <2>0, ConstAssumption DEF Opening, IInv, NoneLost, ClientTypeOK
  <2>2. ASSUME NEW s \in Search, Live(s)
        PROVE  /\ number'[s] = number[s] /\ tree[number[s]] # NoAddr
               /\ owner'[tree[number[s]]] = s
    <3>1. s # gui.who /\ tree[number[s]] # gui.rec /\ tree[number[s]] # NoAddr
          /\ owner[tree[number[s]]] = s
      BY <1>0, <2>0, <2>2 DEF Live, Opening, Owned
    <3>2. tree[number[s]] \in Addr
      BY <3>1 DEF ClientTypeOK, TypeOK
    <3>. QED  BY <1>0, <3>1, <3>2 DEF ClientTypeOK
  <2>3. Owned'
    <3> SUFFICES ASSUME NEW s \in Search, s \in sent', s \notin retired
        PROVE tree'[number'[s]] # NoAddr /\ owner'[tree'[number'[s]]] = s
      BY <1>0 DEF Owned, Live
    <3>. QED  BY <1>0, <2>1, <2>2 DEF Live
  <2>4. Held'
    <3> SUFFICES ASSUME NEW h \in handling, h.from \notin retired
        PROVE h.rec = tree'[number'[h.from]]
      BY <1>0 DEF Held, Live
    <3>1. h.from \in Search /\ Live(h.from)
      BY DEF ClientTypeOK, RInv, Unsent, Live
    <3>. QED  BY <1>0, <2>0, <2>2, <3>1 DEF Held
  <2>5. Opening' /\ Filed'
    BY <1>0, <2>0 DEF Opening, Filed
  <2>. QED  BY <2>3, <2>4, <2>5
<1>. QED  BY <1>1, <1>2 DEF RInv

LEMMA ReleaseReplies ==
  ASSUME IInv, ClientTypeOK, RInv, NEW k \in Addr, TimerRelease(k)
  PROVE  RInv'
<1>0. /\ First(k) /\ step = "release"
      /\ UNCHANGED <<gui, handling, owner, number, sent, filed, crashed, mem,
                     pending, wrapped>>
      /\ Alive /\ retired \subseteq retired'
  BY DEF TimerRelease, SweepRelease, ReleaseUnless
<1>1. CASE mem[k].active
  <2>1. UNCHANGED <<tree, alloc>>
    BY <1>1 DEF TimerRelease, SweepRelease, ReleaseUnless
  <2>2. k \in alloc
    BY <1>0 DEF IInv, ListSound, First, InTable, Started
  <2>3. retired' = retired
    BY <2>1, <2>2 DEF TimerRelease
  <2>. QED  BY <1>0, <2>1, <2>3, QuietStep DEF Started
<1>2. CASE ~mem[k].active
  <2>1. /\ tree' = [tree EXCEPT ![mem[k].reqno] = NoAddr] /\ alloc' = alloc \ {k}
        /\ retired' = retired \cup {owner[k]}
    BY <1>2 DEF TimerRelease, SweepRelease, ReleaseUnless
  <2>2. tree[mem[k].reqno] = k
    BY <1>0 DEF IInv, ListSound, First, InTable
  <2>3. Unsent'
    BY <1>0 DEF RInv, Unsent
  <2>4. ASSUME ~wrapped'  PROVE Opening' /\ Owned' /\ Held' /\ Filed'
    <3>0. Opening /\ Owned /\ Held /\ Filed
      BY <1>0, <2>4 DEF RInv
    <3>1. ASSUME NEW s \in Search, s \in sent, s \notin retired'
          PROVE  Live(s) /\ tree'[number[s]] = tree[number[s]]
                 /\ tree[number[s]] # NoAddr /\ owner[tree[number[s]]] = s
      <4>1. Live(s) /\ owner[k] # s
        BY <1>0, <2>1, <3>1 DEF Live
      <4>2. tree[number[s]] # NoAddr /\ owner[tree[number[s]]] = s
        BY <3>0, <4>1 DEF Owned
      <4>3. number[s] # mem[k].reqno
        BY <2>2, <4>1, <4>2
      <4>. QED  BY <2>1, <4>1, <4>2, <4>3 DEF ClientTypeOK, TypeOK
    <3>2. Owned'
      BY <1>0, <3>1 DEF Owned, Live
    <3>3. Held'
      BY <1>0, <3>0, <3>1 DEF Held, Live, ClientTypeOK
    <3>4. Opening'
      BY <1>0, <1>2, <2>1, <3>0, <3>1 DEF Opening, Live, Started
    <3>5. Filed'
      BY <1>0, <3>0 DEF Filed
    <3>. QED  BY <3>2, <3>3, <3>4, <3>5
  <2>. QED  BY <2>3, <2>4 DEF RInv
<1>. QED  BY <1>1, <1>2

LEMMA GetReplies ==
  ASSUME ClientTypeOK, RInv, NEW s \in Search, ReplyGet(s)
  PROVE  RInv'
<1>0. /\ s \in sent /\ crashed = "no"
      /\ handling' = handling \cup {[from |-> s, rec |-> tree[number[s]]]}
      /\ UNCHANGED <<tree, mem, alloc, pending, wrapped, gui, owner, number, sent,
                     filed, retired, crashed>>
  BY DEF ReplyGet, Alive, vars
<1>1. Unsent'
  BY <1>0 DEF RInv, Unsent
<1>2. ~wrapped' => Opening' /\ Owned' /\ Filed'
  BY <1>0 DEF RInv, Opening, Owned, Filed, Live, Started
<1>3. ~wrapped' => Held'
  BY <1>0 DEF RInv, Held, Live
<1>. QED  BY <1>1, <1>2, <1>3 DEF RInv

(* A reply to a search that is not retired neither strays nor crashes: the *)
(* record it holds is the search's own, and started.                       *)
LEMMA UseReplies ==
  ASSUME IInv, ClientTypeOK, RInv, NEW h \in handling, ReplyUse(h)
  PROVE  RInv'
<1>0. /\ UNCHANGED <<tree, mem, alloc, pending, wrapped, gui, owner, number, sent,
                     retired>>
      /\ crashed = "no" /\ handling' \subseteq handling
      /\ \A g \in filed' : g \in filed \/ ReplyFile(h)
      /\ crashed' = "reply" => ReplyCrash(h)
  BY DEF ReplyUse, ReplyCrash, ReplyDrop, ReplyFile, Alive, vars
<1>1. Unsent'
  BY <1>0 DEF RInv, Unsent
<1>2. ASSUME ~wrapped'  PROVE Opening' /\ Owned' /\ Held' /\ Filed'
  <2>0. Opening /\ Owned /\ Held /\ Filed
    BY <1>0, <1>2 DEF RInv
  <2>1. Opening' /\ Owned' /\ Held'
    BY <1>0, <2>0 DEF Opening, Owned, Held, Live, Started
  <2>2. h.from \notin retired =>
          /\ h.rec # NoAddr /\ h.rec \in alloc /\ owner[h.rec] = h.from
          /\ h.from \in Search
    <3>1. h.from \in Search /\ h.from \in sent
      BY DEF ClientTypeOK, RInv, Unsent
    <3> SUFFICES ASSUME h.from \notin retired
        PROVE h.rec # NoAddr /\ h.rec \in alloc /\ owner[h.rec] = h.from
      BY <3>1
    <3>2. h.rec = tree[number[h.from]] /\ h.rec # NoAddr /\ owner[h.rec] = h.from
      BY <2>0, <3>1 DEF Held, Owned, Live
    <3>3. number[h.from] \in Used
      BY <3>1, <3>2 DEF Used, ClientTypeOK
    <3>. QED  BY <3>2, <3>3 DEF IInv, TreeSound, Started
  <2>3. h.from \notin retired => ~ReplyCrash(h)
    BY <2>2, ClientAssumption DEF ReplyUse, ReplyCrash, ReplyDrop, ReplyFile, Alive
  <2>4. ReplyCrash(h) => Filed'
    BY <1>0, <2>0, <2>3 DEF ReplyCrash, Filed
  <2>5. ~ReplyCrash(h) => Filed'
    <3> SUFFICES ASSUME ~ReplyCrash(h), NEW g \in filed', g \notin filed
        PROVE g[1] = g[2] \/ g[1] \in retired
      BY <1>0, <2>0 DEF Filed
    <3>1. g = <<h.from, owner[h.rec]>>
      BY <1>0 DEF ReplyFile
    <3>. QED  BY <2>2, <3>1
  <2>. QED  BY <2>1, <2>4, <2>5
<1>. QED  BY <1>1, <1>2 DEF RInv

LEMMA RepliesStep ==
  ASSUME IInv, ClientTypeOK, RInv, [ClientNext]_cvars
  PROVE  RInv'
<1>1. CASE UNCHANGED cvars \/ ClientTick
  BY <1>1, QuietStep DEF cvars, vars, client, ClientTick, Tick, Started
<1>2. ASSUME NEW a \in Addr,
             \/ \E s \in Search : ClickSearch(s, a)
             \/ \E d \in Download : ClickDownload(d, a)
      PROVE  RInv'
  BY <1>2, AllocateReplies DEF ClickSearch, ClickDownload
<1>3. CASE (\E s \in Search : ClickClose(s)) \/ GuiGet \/ GuiRemove
  <2>1. UNCHANGED <<vars, handling, owner, number, sent, filed, retired, crashed>>
    BY <1>3 DEF ClickClose, GuiGet, GuiRemove
  <2>2. gui'.pc \in {"ending", "idle", "removing"}
    <3>1. CASE GuiGet
      BY <3>1 DEF GuiGet, GoOn, Idle, ClientTypeOK, GuiOK
    <3>. QED  BY <1>3, <3>1 DEF ClickClose, GuiRemove, Idle
  <2>. QED  BY <2>1, <2>2, QuietStep DEF vars
<1>4. CASE GuiEnd
  <2>1. /\ UNCHANGED <<tree, wrapped, handling, owner, number, sent, filed, retired,
                       crashed>>
        /\ gui'.pc \notin {"starting", "opening"}
    BY <1>4 DEF GuiEnd, RequestEnd, ClientTypeOK, GuiOK
  <2>. QED  BY <2>1, QuietStep
<1>5. CASE Gui
  BY <1>2, <1>3, <1>4, <1>5, StartReplies, OpenReplies DEF Gui
<1>6. ASSUME NEW k \in Addr, TimerAsk(k) \/ TimerTell(k) \/ TimerPass(k)
      PROVE  RInv'
  <2>1. /\ UNCHANGED <<tree, mem, alloc, pending, wrapped, gui, handling, owner,
                       number, sent, filed, retired>>
        /\ crashed' = crashed \/ crashed' = "label"
    BY <1>6 DEF TimerAsk, TimerTell, TimerPass, SweepCallback, vars, client
  <2>. QED  BY <2>1, QuietStep DEF Started
<1>7. ASSUME NEW k \in Addr, TimerMark(k)  PROVE RInv'
  <2>1. /\ UNCHANGED <<tree, alloc, pending, wrapped, gui, handling, owner,
                       number, sent, filed, retired, crashed>>
        /\ mem' = [mem EXCEPT ![k].timedout = TRUE]
    BY <1>7 DEF TimerMark, SweepMark, client
  <2>2. gui.pc = "opening" => (mem[gui.rec].active => mem'[gui.rec].active)
    BY <2>1 DEF ClientTypeOK, GuiOK, TypeOK, Request
  <2>. QED  BY <2>1, <2>2, QuietStep DEF Started
<1>8. CASE TimerBegin \/ TimerEnd
  <2>1. UNCHANGED <<tree, mem, alloc, pending, wrapped, gui, handling, owner,
                    number, sent, filed, retired, crashed>>
    BY <1>8 DEF TimerBegin, TimerEnd, SweepBegin, SweepEnd, client
  <2>. QED  BY <2>1, QuietStep DEF Started
<1>9. CASE Timer
  BY <1>6, <1>7, <1>8, <1>9, ReleaseReplies DEF Timer
<1>10. CASE Replies
  BY <1>10, GetReplies, UseReplies DEF Replies
<1>. QED  BY <1>1, <1>5, <1>9, <1>10 DEF ClientNext

(* While the numbers last, a reply is filed under the search it answers    *)
(* and crashes nothing, unless the record of that search was freed.        *)
THEOREM RepliesStay == ClientSpec => []RepliesKept
<1>1. ClientInit => IInv /\ ClientTypeOK /\ RInv
  <2>1. ClientInit => RInv
    BY DEF ClientInit, Idle, RInv, Unsent, Opening, Owned, Held, Filed, Live
  <2>. QED  BY <2>1, ClientInitOK, InitInv
<1>2. RInv => RepliesKept
  BY DEF RInv, Filed, RepliesKept
<1>. QED  BY <1>1, <1>2, ClientInv, RepliesStep, PTL DEF ClientSpec
=============================================================================
