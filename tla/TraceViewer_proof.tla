------------------------- MODULE TraceViewer_proof -------------------------
(***************************************************************************)
(* A tab outlives the tree jobs that deliver to it, and the indices that   *)
(* it keeps name its views, for any number of tabs, jobs, views and        *)
(* mappings.                                                               *)
(***************************************************************************)
EXTENDS TraceViewer, Data_proof, SequenceTheorems
-----------------------------------------------------------------------------
(* The inductive invariant, in parts.                                      *)

TabRecord == [state : {"none", "loading", "failed", "open", "deleted"}, map : Int, resolved : BOOLEAN,
              views : Seq(View), flatIndex : Int, treeIndex : Int, flatNamed : BOOLEAN,
              pending : Int, treeButton : BOOLEAN, resolveButton : BOOLEAN]
JobRecord == [pc : JobPc, tab : Tabs \cup {None}, map : Int, main : BOOLEAN]
Event == [ev : {"treeModelReady"}, to : Tabs, job : Jobs]
           \cup [ev : {"endLongTask"}, to : {None}, job : Jobs]
           \cup [ev : {"symbolsResolved"}, to : Tabs, ok : BOOLEAN]

TypeInv ==
  /\ tabs \in [Tabs -> TabRecord]
  /\ jobs \in [Jobs -> JobRecord]
  /\ queue \in Seq(Event)
  /\ current \in Tabs \cup {None}
  /\ m_TasksRunning \in Int
  /\ innerClosed \subseteq Tabs
  /\ \A j \in Jobs : jobs[j].pc # "unused" <=> jobs[j].tab \in Tabs

\* When the event loop has ended there is nothing left to happen in it.
QuitInv ==
  quit # "no" => queue = << >> /\ current = None /\ \A t \in Tabs : ~Exists(t)

Posted(i, ev, j) == queue[i].ev = ev /\ queue[i].job = j
IsPosted(ev, j) == \E i \in DOMAIN queue : Posted(i, ev, j)

\* A job posts its result, and behind it its end, each once.
EventInv ==
  /\ \A i \in DOMAIN queue :
       /\ queue[i].ev = "endLongTask" => jobs[queue[i].job].pc \in {"count", "done"}
       /\ queue[i].ev = "treeModelReady" =>
            /\ jobs[queue[i].job].pc \in {"end", "count", "done"}
            /\ queue[i].to = jobs[queue[i].job].tab
            /\ jobs[queue[i].job].pc = "end"
                 \/ \E k \in DOMAIN queue : i < k /\ Posted(k, "endLongTask", queue[i].job)
  /\ \A ev \in {"treeModelReady", "endLongTask"} : \A j \in Jobs :
       \A i, k \in DOMAIN queue : Posted(i, ev, j) /\ Posted(k, ev, j) => i = k

\* The jobs that MainWindow has counted in and not out.
Counted == {j \in Jobs : jobs[j].pc \in {"start", "build", "ready", "end"} \/ IsPosted("endLongTask", j)}
CountInv == quit = "no" => m_TasksRunning = Cardinality(Counted)

\* The result of the job has yet to become a view.
InFlight(j) == jobs[j].pc \in {"start", "build", "ready"} \/ IsPosted("treeModelReady", j)

\* One main tree at a time is on its way to a tab, and only while there is none.
MainInv ==
  quit = "no" =>
    /\ \A j \in Jobs : jobs[j].main /\ InFlight(j) =>
         ~tabs[jobs[j].tab].treeButton /\ tabs[jobs[j].tab].treeIndex = -1
    /\ \A j, k \in Jobs : (/\ jobs[j].main /\ InFlight(j) /\ jobs[k].main /\ InFlight(k)
                           /\ jobs[j].tab = jobs[k].tab) => j = k

\* As IndexNamesItsView, for any index; an index is -1 or that of a view.
Ranged(t) ==
  /\ tabs[t].flatIndex = -1 \/ tabs[t].flatIndex > 0
  /\ tabs[t].treeIndex = -1 \/ tabs[t].treeIndex > 0
Indexed(t) ==
  \A i \in Nat \ {0} :
    /\ (tabs[t].flatIndex = i) <=> (i \in DOMAIN tabs[t].views /\ tabs[t].views[i] = "flat")
    /\ (tabs[t].treeIndex = i) <=> (i \in DOMAIN tabs[t].views /\ tabs[t].views[i] = "tree")
IndexInv == \A t \in Tabs : Ranged(t) /\ (t \notin innerClosed => Indexed(t))

-----------------------------------------------------------------------------
(* Sequences.                                                              *)

LEMMA EventTypes ==
  ASSUME NEW e \in Event
  PROVE  /\ e.ev = "treeModelReady" => e.to \in Tabs /\ e.job \in Jobs
         /\ e.ev = "endLongTask" => e.to = None /\ e.job \in Jobs
         /\ e.ev = "symbolsResolved" => e.to \in Tabs /\ e.ok \in BOOLEAN
         /\ e.ev \in {"treeModelReady", "endLongTask", "symbolsResolved"}
  BY DEF Event

LEMMA Removed ==
  ASSUME NEW S, NEW s \in Seq(S), NEW i \in DOMAIN s
  PROVE  RemoveAt(s, i) \in Seq(S)
<1> DEFINE front == SubSeq(s, 1, i - 1)
           behind == SubSeq(s, i + 1, Len(s))
<1>1. front \in Seq(S) /\ behind \in Seq(S)
  BY SubSeqProperties
<1>2. RemoveAt(s, i) = front \o behind
  BY DEF RemoveAt
<1> HIDE DEF front, behind
<1> QED BY <1>1, <1>2

LEMMA LastRemoved ==
  ASSUME NEW S, NEW s \in Seq(S), s # << >>
  PROVE  /\ DOMAIN RemoveAt(s, Len(s)) = 1 .. Len(s) - 1
         /\ \A k \in 1 .. Len(s) - 1 : RemoveAt(s, Len(s))[k] = s[k]
<1> DEFINE n == Len(s)
           front == SubSeq(s, 1, n - 1)
           behind == SubSeq(s, n + 1, n)
<1>1. n \in Nat /\ n > 0
  OBVIOUS
<1>2. front \in Seq(S) /\ Len(front) = n - 1 /\ \A k \in 1 .. n - 1 : front[k] = s[k]
  <2>1. \A k \in 1 .. n - 1 : s[k] \in S
    BY <1>1
  <2>2. n - 1 \in Int /\ n - 1 - 1 + 1 = n - 1 /\ \A k \in 1 .. n - 1 : 1 + k - 1 = k
    BY <1>1
  <2> HIDE DEF n
  <2> QED BY <1>1, <2>1, <2>2, SubSeqProperties
<1>3. behind = << >>
  BY <1>1, SubSeqEmpty
<1>4. RemoveAt(s, n) = front \o behind
  BY DEF RemoveAt
<1> HIDE DEF n, front, behind
<1>5. DOMAIN (front \o behind) = 1 .. n - 1 /\ \A k \in 1 .. n - 1 : (front \o behind)[k] = front[k]
  <2>1. behind \in Seq(S) /\ Len(behind) = 0
    BY <1>3
  <2> QED BY <1>1, <1>2, <2>1
<1> QED BY <1>2, <1>4, <1>5 DEF n
-----------------------------------------------------------------------------
(* Types.                                                                  *)

LEMMA NewTabType == NewTab \in TabRecord /\ [NewTab EXCEPT !.state = "deleted"] \in TabRecord
<1>1. << >> \in Seq(View)
  BY EmptySeq
<1>2. NewTab \in TabRecord
  BY <1>1 DEF NewTab, TabRecord
<1> QED BY <1>2 DEF TabRecord

LEMMA TabChanged ==
  /\ \A x \in TabRecord : \A v \in {"none", "loading", "failed", "open", "deleted"} : [x EXCEPT !.state = v] \in TabRecord
  /\ \A x \in TabRecord : \A v \in BOOLEAN : [x EXCEPT !.resolveButton = v] \in TabRecord
  /\ \A x \in TabRecord : \A v \in Int : [x EXCEPT !.pending = v] \in TabRecord
  /\ \A x \in TabRecord : \A v \in Seq(View) : [x EXCEPT !.views = v] \in TabRecord
  /\ \A x \in TabRecord : \A u \in {"none", "loading", "failed", "open", "deleted"}, v \in Int, w \in BOOLEAN :
       [x EXCEPT !.state = u, !.map = v, !.resolved = w] \in TabRecord
  /\ \A x \in TabRecord : \A u \in Int, v \in BOOLEAN :
       [x EXCEPT !.pending = u, !.treeButton = v] \in TabRecord
  /\ \A x \in TabRecord : \A u \in Seq(View), v \in Int, w \in BOOLEAN :
       [[x EXCEPT !.views = u] EXCEPT !.flatIndex = v, !.flatNamed = w] \in TabRecord
  /\ \A x \in TabRecord : \A u \in Seq(View), v \in Int, w \in BOOLEAN :
       [[x EXCEPT !.views = u] EXCEPT !.treeIndex = v, !.treeButton = w] \in TabRecord
  /\ \A x \in TabRecord : \A u \in Seq(View), v, y \in Int, w \in BOOLEAN :
       [x EXCEPT !.views = u, !.flatIndex = v, !.treeIndex = y, !.flatNamed = w] \in TabRecord
  /\ \A x \in TabRecord : \A u \in Int, v, w, y \in BOOLEAN :
       [x EXCEPT !.map = u, !.resolveButton = v, !.flatNamed = w, !.resolved = y] \in TabRecord
<1>1. \A x \in TabRecord : \A v \in {"none", "loading", "failed", "open", "deleted"} : [x EXCEPT !.state = v] \in TabRecord
  BY Zenon DEF TabRecord
<1>2. \A x \in TabRecord : \A v \in BOOLEAN : [x EXCEPT !.resolveButton = v] \in TabRecord
  BY Zenon DEF TabRecord
<1>3. \A x \in TabRecord : \A v \in Int : [x EXCEPT !.pending = v] \in TabRecord
  BY Zenon DEF TabRecord
<1>4. \A x \in TabRecord : \A v \in Seq(View) : [x EXCEPT !.views = v] \in TabRecord
  BY Zenon DEF TabRecord
<1>5. \A x \in TabRecord : \A u \in {"none", "loading", "failed", "open", "deleted"}, v \in Int, w \in BOOLEAN :
       [x EXCEPT !.state = u, !.map = v, !.resolved = w] \in TabRecord
  BY Zenon DEF TabRecord
<1>6. \A x \in TabRecord : \A u \in Int, v \in BOOLEAN :
       [x EXCEPT !.pending = u, !.treeButton = v] \in TabRecord
  BY Zenon DEF TabRecord
<1>7. \A x \in TabRecord : \A u \in Seq(View), v \in Int, w \in BOOLEAN :
       [[x EXCEPT !.views = u] EXCEPT !.flatIndex = v, !.flatNamed = w] \in TabRecord
  BY Zenon DEF TabRecord
<1>8. \A x \in TabRecord : \A u \in Seq(View), v \in Int, w \in BOOLEAN :
       [[x EXCEPT !.views = u] EXCEPT !.treeIndex = v, !.treeButton = w] \in TabRecord
  BY Zenon DEF TabRecord
<1>9. \A x \in TabRecord : \A u \in Seq(View), v, y \in Int, w \in BOOLEAN :
       [x EXCEPT !.views = u, !.flatIndex = v, !.treeIndex = y, !.flatNamed = w] \in TabRecord
  BY Zenon DEF TabRecord
<1>10. \A x \in TabRecord : \A u \in Int, v, w, y \in BOOLEAN :
       [x EXCEPT !.map = u, !.resolveButton = v, !.flatNamed = w, !.resolved = y] \in TabRecord
  BY Zenon DEF TabRecord
<1> QED BY <1>1, <1>2, <1>3, <1>4, <1>5, <1>6, <1>7, <1>8, <1>9, <1>10

\* A queue that is posted to, read from, or loses the events of a deleted tab.
LEMMA QueueType ==
  ASSUME queue \in Seq(Event)
  PROVE  /\ \A e \in Event : Post(e) => queue' \in Seq(Event)
         /\ \A ev : Takes(ev) => queue' \in Seq(Event) /\ Head(queue) \in Event /\ Head(queue).ev = ev
         /\ \A t : QueueWithout(t) \in Seq(Event)
<1>1. ASSUME NEW e \in Event, Post(e)
      PROVE  queue' \in Seq(Event)
  BY <1>1 DEF Post
<1>2. ASSUME NEW ev, Takes(ev)
      PROVE  queue' \in Seq(Event) /\ Head(queue) \in Event /\ Head(queue).ev = ev
  BY <1>2 DEF Takes
<1>3. ASSUME NEW t
      PROVE  QueueWithout(t) \in Seq(Event)
  BY SelectedElements DEF QueueWithout
<1> QED BY <1>1, <1>2, <1>3

LEMMA TypeInitially == Init => TypeInv
<1>1. << >> \in Seq(Event)
  OBVIOUS
<1> QED BY <1>1, NewTabType, NoneAssumption DEF Init, TypeInv, JobRecord, JobPc

\* Slots of the user that build or change tabs.
TabSlot(t) ==
  \/ OpenTrace(t) \/ SelectTab(t) \/ OpenFlatProfile(t) \/ OpenAnnotation(t)
  \/ ResolveSymbolsClicked(t) \/ LoadSucceeded(t) \/ \E i \in 1 .. MaxViews : CloseView(t, i)

LEMMA TabSlotType ==
  ASSUME TypeInv, NEW t \in Tabs, TabSlot(t)
  PROVE  /\ tabs' \in [Tabs -> TabRecord] /\ innerClosed' \subseteq Tabs
         /\ current' \in Tabs \cup {None}
         /\ UNCHANGED <<jobs, queue, m_TasksRunning, crashed, quit>>
<1>0. tabs[t] \in TabRecord /\ tabs \in [Tabs -> TabRecord] /\ innerClosed \subseteq Tabs
      /\ current \in Tabs \cup {None}
  BY DEF TypeInv
<1>1. CASE OpenTrace(t) \/ SelectTab(t)
  <2>1. CASE tabs' = [tabs EXCEPT ![t].state = "failed"]
    BY <1>0, <1>1, <2>1 DEF OpenTrace, SelectTab, TabRecord
  <2>2. ASSUME NEW b \in BOOLEAN,
               tabs' = [tabs EXCEPT ![t] = [@ EXCEPT !.state = "loading", !.map = 1, !.resolved = b]]
        PROVE  tabs' \in [Tabs -> TabRecord]
    <3>1. [tabs[t] EXCEPT !.state = "loading", !.map = 1, !.resolved = b] \in TabRecord
      <4>1. 1 \in Int
        OBVIOUS
      <4> QED BY <1>0, <4>1, TabChanged
    <3> QED BY <1>0, <2>2, <3>1
  <2> QED BY <1>0, <1>1, <2>1, <2>2 DEF OpenTrace, SelectTab
<1>5. CASE LoadSucceeded(t) \/ ResolveSymbolsClicked(t)
  <2>1. [tabs[t] EXCEPT !.state = "open"] \in TabRecord /\ [tabs[t] EXCEPT !.resolveButton = FALSE] \in TabRecord
    BY <1>0, TabChanged
  <2> QED BY <1>0, <1>5, <2>1 DEF LoadSucceeded, ResolveSymbolsClicked
<1>2. CASE OpenFlatProfile(t)
  <2>1. Append(tabs[t].views, "flat") \in Seq(View) /\ Len(tabs[t].views) + 1 \in Int
    BY <1>0 DEF TabRecord, View
  <2> QED BY <1>0, <1>2, <2>1 DEF OpenFlatProfile, WithView, TabRecord
<1>3. CASE OpenAnnotation(t)
  <2>1. Append(tabs[t].views, "source") \in Seq(View)
    BY <1>0 DEF TabRecord, View
  <2> QED BY <1>0, <1>3, <2>1 DEF OpenAnnotation, WithView, TabRecord
<1>4. ASSUME NEW i \in 1 .. MaxViews, CloseView(t, i)
      PROVE  /\ tabs' \in [Tabs -> TabRecord] /\ innerClosed' \subseteq Tabs
             /\ current' \in Tabs \cup {None}
             /\ UNCHANGED <<jobs, queue, m_TasksRunning, crashed, quit>>
  <2>1. tabs[t].views \in Seq(View) /\ i \in DOMAIN tabs[t].views
    BY <1>0, <1>4 DEF TabRecord, CloseView
  <2>2. RemoveAt(tabs[t].views, i) \in Seq(View)
    BY <2>1, Removed
  <2> DEFINE flat == IF tabs[t].flatIndex = i THEN -1 ELSE tabs[t].flatIndex
             tree == IF tabs[t].treeIndex = i /\ tabs[t].flatIndex # i THEN -1 ELSE tabs[t].treeIndex
             named == tabs[t].flatNamed /\ tabs[t].views[i] # "flat"
             tab == [tabs[t] EXCEPT !.views = RemoveAt(tabs[t].views, i), !.flatIndex = flat,
                                    !.treeIndex = tree, !.flatNamed = named]
  <2>3. flat \in Int /\ tree \in Int /\ named \in BOOLEAN
    BY <1>0 DEF TabRecord
  <2>4. tabs' = [tabs EXCEPT ![t] = tab]
    BY <1>4 DEF CloseView
  <2> HIDE DEF flat, tree, named
  <2>5. tab \in TabRecord
    BY <1>0, <2>2, <2>3, TabChanged
  <2> HIDE DEF tab
  <2> QED BY <1>0, <1>4, <2>4, <2>5 DEF CloseView
<1> QED BY <1>1, <1>2, <1>3, <1>4, <1>5 DEF TabSlot

\* Steps of a job, and where it is afterwards.
JobGoes(j, from, to) ==
  /\ jobs[j].pc = from
  /\ jobs'[j].pc = to /\ jobs'[j].tab = jobs[j].tab /\ jobs'[j].main = jobs[j].main
  /\ \A k \in Jobs \ {j} : jobs'[k] = jobs[k]
  /\ jobs' \in [Jobs -> JobRecord]

LEMMA JobSteps ==
  ASSUME TypeInv, NEW j \in Jobs, JobNext(j)
  PROVE  /\ \/ JobGoes(j, "start", "build") /\ UNCHANGED <<tabs, queue>>
            \/ JobGoes(j, "build", "ready") /\ UNCHANGED <<tabs, queue>>
            \/ /\ JobGoes(j, "ready", "end") /\ UNCHANGED tabs
               /\ Post([ev |-> "treeModelReady", to |-> jobs[j].tab, job |-> j])
            \/ /\ JobGoes(j, "end", "count") /\ UNCHANGED tabs
               /\ Post([ev |-> "endLongTask", to |-> None, job |-> j])
            \/ /\ JobGoes(j, "count", "done") /\ UNCHANGED queue
               /\ tabs' \in {tabs, [tabs EXCEPT ![jobs[j].tab].pending = @ - 1]}
         /\ UNCHANGED <<current, m_TasksRunning, resolving, quit, innerClosed>>
<1>0. jobs \in [Jobs -> JobRecord] /\ jobs[j] \in JobRecord /\ tabs \in [Tabs -> TabRecord]
  BY DEF TypeInv
<1>1. CASE StartBuild(j)
  <2>1. jobs[j].tab \in Tabs /\ tabs[jobs[j].tab].map \in Int
    BY <1>0, <1>1 DEF StartBuild, TypeInv, TabRecord
  <2>2. [jobs[j] EXCEPT !.pc = "build", !.map = tabs[jobs[j].tab].map] \in JobRecord
    BY <1>0, <2>1 DEF JobRecord, JobPc
  <2> QED BY <1>0, <1>1, <2>2 DEF StartBuild, JobGoes, JobRecord
<1>2. ASSUME NEW from \in JobPc, NEW to \in JobPc, JobStep(j, from, to)
      PROVE  JobGoes(j, from, to)
  BY <1>0, <1>2 DEF JobStep, JobGoes, JobRecord
<1>3. {"start", "build", "ready", "end", "count", "done"} \subseteq JobPc
  BY DEF JobPc
<1>4. CASE Build(j)
  BY <1>2, <1>3, <1>4 DEF Build
<1>5. CASE EmitReady(j)
  BY <1>2, <1>3, <1>5 DEF EmitReady
<1>6. CASE EmitEnd(j)
  BY <1>2, <1>3, <1>6 DEF EmitEnd
<1>7. CASE CountDown(j)
  BY <1>2, <1>3, <1>7 DEF CountDown
<1> QED BY <1>1, <1>4, <1>5, <1>6, <1>7 DEF JobNext

LEMMA NextSteps ==
  ASSUME [Next]_vars
  PROVE  \/ \E t \in Tabs : TabSlot(t) \/ OpenTreeProfile(t) \/ OpenReverseView(t) \/ ResolveTask(t)
         \/ \E inside \in BOOLEAN : CloseTrace(inside)
         \/ CloseWindow \/ QuitAction
         \/ \E j \in Jobs : JobNext(j)
         \/ TreeModelReady \/ LongTaskFinished \/ SymbolsResolved
         \/ UNCHANGED vars
  BY Zenon DEF Next, User, HandleEvent, TabSlot

\* Slots that delete tabs.
Deleted == [NewTab EXCEPT !.state = "deleted"]

LEMMA CloseTraceSteps ==
  ASSUME TypeInv, NEW inside \in BOOLEAN, CloseTrace(inside)
  PROVE  /\ current \in Tabs /\ m_TasksRunning = 0
         /\ tabs' = [tabs EXCEPT ![current] = Deleted]
         /\ queue' = QueueWithout(current) /\ current' \in Tabs \cup {None}
         /\ UNCHANGED <<m_TasksRunning, jobs, resolving, quit, innerClosed>>
<1>1. current \in Tabs \cup {None} /\ current # None
  BY DEF TypeInv, CloseTrace
<1>2. current' \in Tabs \cup {None}
  BY DEF CloseTrace
<1> QED BY <1>1, <1>2 DEF CloseTrace, Deleted

LEMMA ExitSteps ==
  ASSUME CloseWindow \/ QuitAction
  PROVE  /\ quit = "no" /\ quit' \in {"window", "menu"}
         /\ quit' = "window" => m_TasksRunning = 0
         /\ tabs' = [t \in Tabs |-> IF Exists(t) THEN Deleted ELSE tabs[t]]
         /\ queue' = << >> /\ current' = None
         /\ UNCHANGED <<m_TasksRunning, jobs, resolving, innerClosed>>
  BY DEF CloseWindow, QuitAction, Exit, Deleted

\* doCreateTreeView: the job it starts.
LEMMA TreeSteps ==
  ASSUME TypeInv, NEW t \in Tabs, NEW main \in BOOLEAN, CreateTreeView(t, main)
  PROVE  /\ \E j \in Jobs : /\ jobs[j].pc = "unused"
                            /\ jobs' = [jobs EXCEPT ![j] = [pc |-> "start", tab |-> t, map |-> 0, main |-> main]]
         /\ \E n \in Int : tabs' = [tabs EXCEPT ![t].pending = n,
                                                ![t].treeButton = IF main THEN FALSE ELSE tabs[t].treeButton]
         /\ m_TasksRunning' = m_TasksRunning + 1
         /\ UNCHANGED <<current, resolving, queue, quit, innerClosed>>
<1>1. tabs \in [Tabs -> TabRecord] /\ tabs[t].pending + 1 \in Int
  BY DEF TypeInv, TabRecord
<1>2. tabs' = [tabs EXCEPT ![t].pending = tabs[t].pending + 1,
                           ![t].treeButton = IF main THEN FALSE ELSE tabs[t].treeButton]
  BY <1>1 DEF CreateTreeView, TabRecord
<1> QED BY <1>1, <1>2 DEF CreateTreeView

\* What of the tabs it leaves as it is.
LEMMA TreeTabs ==
  ASSUME TypeInv, NEW t \in Tabs, NEW main \in BOOLEAN, CreateTreeView(t, main), NEW x \in Tabs
  PROVE  /\ tabs'[x].state = tabs[x].state /\ tabs'[x].views = tabs[x].views
         /\ tabs'[x].flatIndex = tabs[x].flatIndex /\ tabs'[x].treeIndex = tabs[x].treeIndex
         /\ tabs'[x].treeButton = IF x = t /\ main THEN FALSE ELSE tabs[x].treeButton
<1>1. tabs \in [Tabs -> TabRecord] /\ tabs[t] \in TabRecord
  BY DEF TypeInv
<1>2. PICK n \in Int : tabs' = [tabs EXCEPT ![t].pending = n,
                                           ![t].treeButton = IF main THEN FALSE ELSE tabs[t].treeButton]
  BY TreeSteps
<1>3. PICK b : b = IF main THEN FALSE ELSE tabs[t].treeButton
  OBVIOUS
<1>4. PICK mid : mid = [tabs EXCEPT ![t].pending = n]
  OBVIOUS
<1>5. DOMAIN mid = Tabs /\ mid[t] = [tabs[t] EXCEPT !.pending = n] /\ (x # t => mid[x] = tabs[x])
  BY <1>1, <1>4
<1>6. tabs' = [mid EXCEPT ![t].treeButton = b]
  BY <1>2, <1>3, <1>4
<1>7. tabs'[t] = [mid[t] EXCEPT !.treeButton = b] /\ (x # t => tabs'[x] = mid[x])
  BY <1>5, <1>6
<1>8. CASE x = t
  <2>1. tabs'[t] = [tabs[t] EXCEPT !.pending = n, !.treeButton = b]
    BY <1>5, <1>7
  <2>2. /\ tabs'[t].state = tabs[t].state /\ tabs'[t].views = tabs[t].views
        /\ tabs'[t].flatIndex = tabs[t].flatIndex /\ tabs'[t].treeIndex = tabs[t].treeIndex
        /\ tabs'[t].treeButton = b
    BY <1>1, <2>1 DEF TabRecord
  <2> QED BY <1>3, <1>8, <2>2
<1>9. CASE x # t
  BY <1>5, <1>7, <1>9
<1> QED BY <1>8, <1>9

\* Delivered events.
LEMMA ReadySteps ==
  ASSUME TypeInv, TreeModelReady
  PROVE  LET e == Head(queue)
             t == e.to
         IN  /\ queue # << >> /\ queue' = Tail(queue) /\ e.ev = "treeModelReady"
             /\ e.job \in Jobs /\ t \in Tabs
             /\ \E v \in {"tree", "reverse"} :
                  /\ v = "tree" <=> jobs[e.job].main
                  /\ tabs' = [tabs EXCEPT ![t] = IF v = "tree"
                       THEN [WithView(tabs[t], v) EXCEPT !.treeIndex = Len(tabs[t].views) + 1, !.treeButton = TRUE]
                       ELSE WithView(tabs[t], v)]
             /\ UNCHANGED <<current, m_TasksRunning, jobs, resolving, quit, innerClosed>>
<1> DEFINE e == Head(queue)
           t == e.to
           v == IF jobs[e.job].main THEN "tree" ELSE "reverse"
<1>1. queue # << >> /\ queue' = Tail(queue) /\ e.ev = "treeModelReady"
  BY DEF TreeModelReady, Takes
<1>2. e \in Event
  BY <1>1 DEF TypeInv
<1>3. e.job \in Jobs /\ t \in Tabs
  BY <1>1, <1>2, EventTypes
<1>4. /\ v \in {"tree", "reverse"}
      /\ v = "tree" <=> jobs[e.job].main
      /\ tabs' = [tabs EXCEPT ![t] = IF v = "tree"
           THEN [WithView(tabs[t], v) EXCEPT !.treeIndex = Len(tabs[t].views) + 1, !.treeButton = TRUE]
           ELSE WithView(tabs[t], v)]
  BY DEF TreeModelReady
<1>5. UNCHANGED <<current, m_TasksRunning, jobs, resolving, quit, innerClosed>>
  BY DEF TreeModelReady
<1> QED BY <1>1, <1>3, <1>4, <1>5

LEMMA ReadyType ==
  ASSUME TypeInv, TreeModelReady
  PROVE  tabs' \in [Tabs -> TabRecord] /\ queue' \in Seq(Event)
<1> DEFINE t == Head(queue).to
<1>1. queue # << >> /\ queue' = Tail(queue) /\ t \in Tabs /\ queue \in Seq(Event)
  BY ReadySteps DEF TypeInv
<1>2. tabs \in [Tabs -> TabRecord] /\ tabs[t] \in TabRecord /\ tabs[t].views \in Seq(View)
  BY <1>1 DEF TypeInv, TabRecord
<1>3. Len(tabs[t].views) + 1 \in Int
  BY <1>2
<1>4. \A v \in {"tree", "reverse"} : Append(tabs[t].views, v) \in Seq(View)
  BY <1>2 DEF View
<1>5. \A v \in {"tree", "reverse"} :
        /\ WithView(tabs[t], v) \in TabRecord
        /\ [WithView(tabs[t], v) EXCEPT !.treeIndex = Len(tabs[t].views) + 1, !.treeButton = TRUE] \in TabRecord
  BY <1>2, <1>3, <1>4, TabChanged DEF WithView
<1>6. tabs' \in [Tabs -> TabRecord]
  <2>1. PICK v \in {"tree", "reverse"} : tabs' = [tabs EXCEPT ![t] = IF v = "tree"
           THEN [WithView(tabs[t], v) EXCEPT !.treeIndex = Len(tabs[t].views) + 1, !.treeButton = TRUE]
           ELSE WithView(tabs[t], v)]
    BY ReadySteps
  <2> QED BY <1>1, <1>2, <1>5, <2>1
<1> QED BY <1>1, <1>6

LEMMA ResolvedSteps ==
  ASSUME TypeInv, SymbolsResolved
  PROVE  LET t == Head(queue).to
         IN  /\ queue # << >> /\ queue' = Tail(queue) /\ Head(queue).ev = "symbolsResolved"
             /\ t \in Tabs
             /\ \E m \in Int, named, ok \in BOOLEAN :
                  tabs' = [tabs EXCEPT ![t] = [tabs[t] EXCEPT !.map = m, !.resolveButton = TRUE,
                                                              !.flatNamed = named, !.resolved = ok]]
             /\ UNCHANGED <<current, m_TasksRunning, jobs, resolving, quit, innerClosed>>
<1> DEFINE e == Head(queue)
           t == e.to
           named == tabs[t].resolved /\ Contains(tabs[t].views, "flat")
<1>1. queue # << >> /\ queue' = Tail(queue) /\ e.ev = "symbolsResolved"
  BY DEF SymbolsResolved, Takes
<1>2. e \in Event
  BY <1>1 DEF TypeInv
<1>3. t \in Tabs /\ e.ok \in BOOLEAN
  BY <1>1, <1>2, EventTypes
<1>4. tabs[t].map + 1 \in Int /\ named \in BOOLEAN
  BY <1>3 DEF TypeInv, TabRecord
<1>5. tabs' = [tabs EXCEPT ![t] = [tabs[t] EXCEPT !.map = tabs[t].map + 1, !.resolveButton = TRUE,
                                                  !.flatNamed = named, !.resolved = e.ok]]
  BY DEF SymbolsResolved
<1>6. UNCHANGED <<current, m_TasksRunning, jobs, resolving, quit, innerClosed>>
  BY DEF SymbolsResolved
<1> HIDE DEF named
<1> QED BY <1>1, <1>3, <1>4, <1>5, <1>6

LEMMA TypePreserved == TypeInv /\ [Next]_vars => TypeInv'
<1> SUFFICES ASSUME TypeInv, [Next]_vars
             PROVE  TypeInv'
  OBVIOUS
<1>0. /\ tabs \in [Tabs -> TabRecord] /\ jobs \in [Jobs -> JobRecord] /\ queue \in Seq(Event)
      /\ current \in Tabs \cup {None} /\ m_TasksRunning \in Int /\ innerClosed \subseteq Tabs
      /\ \A j \in Jobs : jobs[j].pc # "unused" <=> jobs[j].tab \in Tabs
      /\ Deleted \in TabRecord
  BY NewTabType DEF TypeInv, Deleted
<1>1. ASSUME NEW t \in Tabs, TabSlot(t)
      PROVE  TypeInv'
  BY <1>0, <1>1, TabSlotType DEF TypeInv
<1>2. ASSUME NEW t \in Tabs, NEW main \in BOOLEAN, CreateTreeView(t, main)
      PROVE  TypeInv'
  <2>1. PICK j \in Jobs : /\ jobs[j].pc = "unused"
                          /\ jobs' = [jobs EXCEPT ![j] = [pc |-> "start", tab |-> t, map |-> 0, main |-> main]]
    BY <1>2, TreeSteps
  <2>2. PICK n \in Int : tabs' = [tabs EXCEPT ![t].pending = n,
                                              ![t].treeButton = IF main THEN FALSE ELSE tabs[t].treeButton]
    BY <1>2, TreeSteps
  <2>3. [pc |-> "start", tab |-> t, map |-> 0, main |-> main] \in JobRecord
    BY DEF JobRecord, JobPc
  <2>4. jobs' \in [Jobs -> JobRecord] /\ \A k \in Jobs : jobs'[k].pc # "unused" <=> jobs'[k].tab \in Tabs
    BY <1>0, <2>1, <2>3
  <2>5. tabs' \in [Tabs -> TabRecord]
    <3> DEFINE b == IF main THEN FALSE ELSE tabs[t].treeButton
    <3>1. b \in BOOLEAN
      BY <1>0 DEF TabRecord
    <3>2. tabs' = [tabs EXCEPT ![t] = [tabs[t] EXCEPT !.pending = n, !.treeButton = b]]
      BY <1>0, <2>2
    <3> HIDE DEF b
    <3>3. [tabs[t] EXCEPT !.pending = n, !.treeButton = b] \in TabRecord
      BY <1>0, <3>1, TabChanged
    <3> QED BY <1>0, <3>2, <3>3
  <2>6. m_TasksRunning' = m_TasksRunning + 1 /\ UNCHANGED <<current, queue, innerClosed>>
    BY <1>2, TreeSteps
  <2>7. m_TasksRunning' \in Int
    BY <1>0, <2>6
  <2> QED BY <1>0, <2>4, <2>5, <2>6, <2>7 DEF TypeInv
<1>3. ASSUME NEW inside \in BOOLEAN, CloseTrace(inside)
      PROVE  TypeInv'
  BY <1>0, <1>3, CloseTraceSteps, QueueType DEF TypeInv
<1>4. CASE CloseWindow \/ QuitAction
  <2>1. << >> \in Seq(Event)
    OBVIOUS
  <2>2. tabs' \in [Tabs -> TabRecord]
    BY <1>0, <1>4, ExitSteps
  <2> QED BY <1>0, <1>4, <2>1, <2>2, ExitSteps DEF TypeInv
<1>5. ASSUME NEW j \in Jobs, JobNext(j)
      PROVE  TypeInv'
  <2>1. jobs' \in [Jobs -> JobRecord] /\ jobs'[j].tab = jobs[j].tab /\ jobs'[j].pc # "unused" /\ jobs[j].pc # "unused"
        /\ \A k \in Jobs \ {j} : jobs'[k] = jobs[k]
    BY <1>5, JobSteps DEF JobGoes
  <2>2. \A k \in Jobs : jobs'[k].pc # "unused" <=> jobs'[k].tab \in Tabs
    BY <1>0, <2>1
  <2>3. jobs[j].tab \in Tabs
    BY <1>0, <2>1
  <2>4. tabs' \in [Tabs -> TabRecord]
    <3> DEFINE t == jobs[j].tab
    <3>1. tabs[t] \in TabRecord /\ tabs[t].pending - 1 \in Int
      BY <1>0, <2>3 DEF TabRecord
    <3>2. [tabs[t] EXCEPT !.pending = tabs[t].pending - 1] \in TabRecord
      BY <3>1, TabChanged
    <3>3. [tabs EXCEPT ![t].pending = @ - 1] \in [Tabs -> TabRecord]
      BY <1>0, <2>3, <3>2
    <3> QED BY <1>0, <1>5, <3>3, JobSteps
  <2>5. queue' \in Seq(Event)
    <3>1. [ev |-> "treeModelReady", to |-> jobs[j].tab, job |-> j] \in Event
      BY <2>3 DEF Event
    <3>2. [ev |-> "endLongTask", to |-> None, job |-> j] \in Event
      BY DEF Event
    <3> QED BY <1>0, <1>5, <3>1, <3>2, JobSteps, QueueType
  <2> QED BY <1>0, <1>5, <2>1, <2>2, <2>4, <2>5, JobSteps DEF TypeInv
<1>6. ASSUME NEW t \in Tabs, ResolveTask(t)
      PROVE  TypeInv'
  <2>1. \A ok \in BOOLEAN : [ev |-> "symbolsResolved", to |-> t, ok |-> ok] \in Event
    BY DEF Event
  <2>2. queue' \in Seq(Event)
    BY <1>0, <1>6, <2>1, QueueType DEF ResolveTask
  <2> QED BY <1>0, <1>6, <2>2 DEF ResolveTask, TypeInv
<1>7. CASE TreeModelReady
  BY <1>0, <1>7, ReadySteps, ReadyType DEF TypeInv
<1>8. CASE LongTaskFinished
  <2>1. queue' \in Seq(Event) /\ m_TasksRunning' \in Int
    BY <1>0, <1>8, QueueType DEF LongTaskFinished
  <2> QED BY <1>0, <1>8, <2>1 DEF LongTaskFinished, TypeInv
<1>9. CASE SymbolsResolved
  <2>3. queue # << >> /\ queue' = Tail(queue)
    BY <1>9, ResolvedSteps
  <2>1. queue' \in Seq(Event)
    BY <1>0, <2>3
  <2>2. tabs' \in [Tabs -> TabRecord]
    <3> DEFINE t == Head(queue).to
    <3>1. PICK m \in Int, named, ok \in BOOLEAN :
             tabs' = [tabs EXCEPT ![t] = [tabs[t] EXCEPT !.map = m, !.resolveButton = TRUE,
                                                         !.flatNamed = named, !.resolved = ok]]
      BY <1>9, ResolvedSteps
    <3>2. t \in Tabs
      BY <1>9, ResolvedSteps
    <3>3. [tabs[t] EXCEPT !.map = m, !.resolveButton = TRUE, !.flatNamed = named, !.resolved = ok] \in TabRecord
      BY <1>0, <3>2, TabChanged
    <3> QED BY <1>0, <3>1, <3>2, <3>3
  <2> QED BY <1>0, <1>9, <2>1, <2>2, ResolvedSteps DEF TypeInv
<1>10. CASE UNCHANGED vars
  BY <1>0, <1>10 DEF vars, TypeInv
<1>11. ASSUME NEW t \in Tabs, OpenTreeProfile(t) \/ OpenReverseView(t)
       PROVE  TypeInv'
  BY <1>2, <1>11 DEF OpenTreeProfile, OpenReverseView
<1> QED BY <1>1, <1>3, <1>4, <1>5, <1>6, <1>7, <1>8, <1>9, <1>10, <1>11, NextSteps
-----------------------------------------------------------------------------
(* The queue.                                                              *)

LEMMA QueueAppended ==
  ASSUME TypeInv, NEW e, Post(e), quit = "no"
  PROVE  /\ Len(queue) \in Nat /\ DOMAIN queue = 1 .. Len(queue) /\ DOMAIN queue' = 1 .. Len(queue) + 1
         /\ \A i \in DOMAIN queue : queue'[i] = queue[i]
         /\ queue'[Len(queue) + 1] = e
<1>1. queue' = Append(queue, e) /\ queue \in Seq(Event)
  BY DEF Post, TypeInv
<1> QED BY <1>1

LEMMA QueueTaken ==
  ASSUME TypeInv, queue # << >>, queue' = Tail(queue)
  PROVE  /\ Len(queue) \in Nat /\ DOMAIN queue = 1 .. Len(queue) /\ 1 \in DOMAIN queue
         /\ DOMAIN queue' = 1 .. Len(queue) - 1
         /\ \A i \in DOMAIN queue' : queue'[i] = queue[i + 1] /\ i + 1 \in DOMAIN queue
         /\ \A i \in DOMAIN queue : i # 1 => i - 1 \in DOMAIN queue' /\ queue'[i - 1] = queue[i]
         /\ Head(queue) = queue[1]
<1>1. queue \in Seq(Event)
  BY DEF TypeInv
<1>2. Len(queue) \in Nat /\ DOMAIN queue = 1 .. Len(queue) /\ 1 \in DOMAIN queue
  BY <1>1
<1>3. DOMAIN queue' = 1 .. Len(queue) - 1 /\ \A i \in 1 .. Len(queue) - 1 : queue'[i] = queue[i + 1]
  BY <1>1, <1>2
<1>4. \A i \in DOMAIN queue' : queue'[i] = queue[i + 1] /\ i + 1 \in DOMAIN queue
  BY <1>2, <1>3
<1>5. ASSUME NEW i \in DOMAIN queue, i # 1
      PROVE  i - 1 \in DOMAIN queue' /\ queue'[i - 1] = queue[i]
  <2>1. i - 1 \in 1 .. Len(queue) - 1 /\ (i - 1) + 1 = i
    BY <1>2, <1>5
  <2> QED BY <1>3, <2>1
<1>6. Head(queue) = queue[1]
  BY <1>1
<1> QED BY <1>2, <1>3, <1>4, <1>5, <1>6

LEMMA QueuedTypes ==
  ASSUME TypeInv, NEW i \in DOMAIN queue
  PROVE  queue[i] \in Event
<1>1. queue \in Seq(Event)
  BY DEF TypeInv
<1> QED BY <1>1

\* What is posted after a step.
LEMMA PostedAfter ==
  ASSUME TypeInv, NEW e, Post(e), quit = "no", NEW ev, NEW j
  PROVE  IsPosted(ev, j)' <=> (IsPosted(ev, j) \/ (e.ev = ev /\ e.job = j))
<1>1. /\ Len(queue) \in Nat /\ DOMAIN queue = 1 .. Len(queue) /\ DOMAIN queue' = 1 .. Len(queue) + 1
      /\ \A i \in DOMAIN queue : queue'[i] = queue[i]
      /\ queue'[Len(queue) + 1] = e
  BY QueueAppended
<1> QED BY <1>1 DEF IsPosted, Posted

LEMMA PostedAfterTaking ==
  ASSUME TypeInv, queue # << >>, queue' = Tail(queue), NEW ev, NEW j
  PROVE  /\ IsPosted(ev, j)' => IsPosted(ev, j)
         /\ ~(Head(queue).ev = ev /\ Head(queue).job = j) => (IsPosted(ev, j)' <=> IsPosted(ev, j))
<1>1. /\ 1 \in DOMAIN queue
      /\ \A i \in DOMAIN queue' : queue'[i] = queue[i + 1] /\ i + 1 \in DOMAIN queue
      /\ \A i \in DOMAIN queue : i # 1 => i - 1 \in DOMAIN queue' /\ queue'[i - 1] = queue[i]
      /\ Head(queue) = queue[1]
  BY QueueTaken
<1>2. IsPosted(ev, j)' => IsPosted(ev, j)
  BY <1>1 DEF IsPosted, Posted
<1>3. ASSUME ~(Head(queue).ev = ev /\ Head(queue).job = j), IsPosted(ev, j)
      PROVE  IsPosted(ev, j)'
  <2>1. PICK i \in DOMAIN queue : queue[i].ev = ev /\ queue[i].job = j
    BY <1>3 DEF IsPosted, Posted
  <2>2. i # 1
    BY <1>1, <1>3, <2>1
  <2> QED BY <1>1, <2>1, <2>2 DEF IsPosted, Posted
<1> QED BY <1>2, <1>3

\* The job whose event is taken has no second one of that kind.
LEMMA PostedOnce ==
  ASSUME TypeInv, EventInv, queue # << >>, queue' = Tail(queue),
         NEW ev \in {"treeModelReady", "endLongTask"}, NEW j \in Jobs,
         Head(queue).ev = ev, Head(queue).job = j
  PROVE  ~IsPosted(ev, j)'
<1>1. /\ 1 \in DOMAIN queue
      /\ \A i \in DOMAIN queue' : queue'[i] = queue[i + 1] /\ i + 1 \in DOMAIN queue
      /\ Head(queue) = queue[1]
      /\ DOMAIN queue' = 1 .. Len(queue) - 1
  BY QueueTaken
<1>2. ASSUME NEW i \in DOMAIN queue', queue'[i].ev = ev, queue'[i].job = j
      PROVE  FALSE
  <2>1. i + 1 \in DOMAIN queue /\ Posted(i + 1, ev, j) /\ Posted(1, ev, j)
    BY <1>1, <1>2 DEF Posted
  <2>2. i + 1 = 1
    BY <1>1, <2>1 DEF EventInv
  <2> QED BY <1>1, <1>2, <2>2
<1> QED BY <1>2 DEF IsPosted, Posted

\* No task is running: no job and no event of a job is under way.
LEMMA NothingRuns ==
  ASSUME TypeInv, EventInv, CountInv, quit = "no", m_TasksRunning = 0
  PROVE  /\ \A j \in Jobs : jobs[j].pc \in {"unused", "count", "done"} /\ ~IsPosted("endLongTask", j)
         /\ \A i \in DOMAIN queue : queue[i].ev = "symbolsResolved"
         /\ \A j \in Jobs : ~InFlight(j)
<1>1. Counted = {}
  <2>1. Cardinality(Counted) = 0
    BY DEF CountInv
  <2>2. Counted \in SUBSET Jobs
    BY DEF Counted
  <2>3. IsFiniteSet(Counted)
    BY <2>2, JobsAssumption, FS_Subset
  <2> QED BY Zenon, <2>1, <2>3, FS_EmptySet
<1>2. ASSUME NEW j \in Jobs
      PROVE  jobs[j].pc \in {"unused", "count", "done"} /\ ~IsPosted("endLongTask", j)
  <2>1. jobs[j].pc \notin {"start", "build", "ready", "end"} /\ ~IsPosted("endLongTask", j)
    BY <1>1 DEF Counted
  <2>2. jobs[j].pc \in JobPc
    BY DEF TypeInv, JobRecord
  <2> QED BY <2>1, <2>2 DEF JobPc
<1>3. ASSUME NEW i \in DOMAIN queue
      PROVE  queue[i].ev = "symbolsResolved"
  <2> DEFINE e == queue[i]
  <2>1. e \in Event
    BY QueuedTypes
  <2>2. e.ev # "endLongTask"
    <3>1. SUFFICES ASSUME e.ev = "endLongTask"
                   PROVE  FALSE
      OBVIOUS
    <3>2. e.job \in Jobs
      BY <2>1, <3>1, EventTypes
    <3>3. IsPosted("endLongTask", e.job)
      BY <3>1 DEF IsPosted, Posted
    <3> QED BY <1>2, <3>2, <3>3
  <2>3. e.ev # "treeModelReady"
    <3>1. SUFFICES ASSUME e.ev = "treeModelReady"
                   PROVE  FALSE
      OBVIOUS
    <3>2. e.job \in Jobs
      BY <2>1, <3>1, EventTypes
    <3>3. jobs[e.job].pc = "end" \/ \E k \in DOMAIN queue : i < k /\ Posted(k, "endLongTask", e.job)
      BY <3>1 DEF EventInv
    <3>4. jobs[e.job].pc = "end" \/ IsPosted("endLongTask", e.job)
      BY <3>3 DEF IsPosted
    <3> QED BY <1>2, <3>2, <3>4
  <2> QED BY <2>1, <2>2, <2>3, EventTypes
<1>4. ASSUME NEW j \in Jobs
      PROVE  ~InFlight(j)
  <2>1. ~IsPosted("treeModelReady", j)
    BY <1>3 DEF IsPosted, Posted
  <2> QED BY <1>2, <2>1 DEF InFlight
<1> QED BY <1>2, <1>3, <1>4
-----------------------------------------------------------------------------
(* Jobs and their events.                                                  *)

LEMMA PendingKeeps ==
  ASSUME tabs \in [Tabs -> TabRecord], NEW x, NEW t \in Tabs
  PROVE  LET new == [tabs EXCEPT ![x].pending = @ - 1]
         IN  /\ new[t].state = tabs[t].state /\ new[t].treeButton = tabs[t].treeButton
             /\ new[t].views = tabs[t].views
             /\ new[t].flatIndex = tabs[t].flatIndex /\ new[t].treeIndex = tabs[t].treeIndex
<1> DEFINE new == [tabs EXCEPT ![x].pending = @ - 1]
<1>1. CASE x = t
  <2>1. new[t] = [tabs[t] EXCEPT !.pending = tabs[t].pending - 1]
    BY <1>1
  <2> QED BY <2>1 DEF TabRecord
<1>2. CASE x # t
  <2>1. new[t] = tabs[t]
    BY <1>2
  <2> QED BY <2>1
<1> QED BY <1>1, <1>2

LEMMA QuitStays ==
  [Next]_vars /\ quit # "no" => quit' = quit
<1> SUFFICES ASSUME [Next]_vars, quit # "no"
             PROVE  quit' = quit
  OBVIOUS
<1>1. ASSUME NEW t \in Tabs, TabSlot(t) \/ OpenTreeProfile(t) \/ OpenReverseView(t) \/ ResolveTask(t)
      PROVE  quit' = quit
  BY <1>1 DEF TabSlot, OpenTrace, SelectTab, OpenFlatProfile, OpenAnnotation, ResolveSymbolsClicked, LoadSucceeded,
              CloseView, OpenTreeProfile, OpenReverseView, CreateTreeView, ResolveTask
<1>2. ASSUME NEW inside \in BOOLEAN, CloseTrace(inside)
      PROVE  quit' = quit
  BY <1>2 DEF CloseTrace
<1>3. ~CloseWindow /\ ~QuitAction
  BY ExitSteps
<1>4. ASSUME NEW j \in Jobs, JobNext(j)
      PROVE  quit' = quit
  BY <1>4 DEF JobNext, StartBuild, Build, EmitReady, EmitEnd, CountDown
<1>5. CASE TreeModelReady \/ LongTaskFinished \/ SymbolsResolved \/ UNCHANGED vars
  BY <1>5 DEF TreeModelReady, LongTaskFinished, SymbolsResolved, vars
<1> QED BY <1>1, <1>2, <1>3, <1>4, <1>5, NextSteps

LEMMA QuitPreserved ==
  TypeInv /\ QuitInv /\ [Next]_vars => QuitInv'
<1> SUFFICES ASSUME TypeInv, QuitInv, [Next]_vars
             PROVE  QuitInv'
  OBVIOUS
<1>0. tabs \in [Tabs -> TabRecord]
  BY DEF TypeInv
<1>1. CASE CloseWindow \/ QuitAction
  <2>1. Deleted.state = "deleted"
    BY DEF Deleted, NewTab
  <2>2. \A t \in Tabs : ~(Exists(t)')
    BY <1>0, <1>1, <2>1, ExitSteps DEF Exists
  <2> QED BY <1>1, <2>2, ExitSteps DEF QuitInv
<1>2. CASE quit = "no" /\ ~(CloseWindow \/ QuitAction)
  <2>1. quit' = "no"
    <3>1. ASSUME NEW t \in Tabs, TabSlot(t)
          PROVE  quit' = quit
      BY <3>1, TabSlotType
    <3>2. ASSUME NEW t \in Tabs, OpenTreeProfile(t) \/ OpenReverseView(t) \/ ResolveTask(t)
          PROVE  quit' = quit
      BY <3>2 DEF OpenTreeProfile, OpenReverseView, CreateTreeView, ResolveTask
    <3>3. ASSUME NEW inside \in BOOLEAN, CloseTrace(inside)
          PROVE  quit' = quit
      BY <3>3 DEF CloseTrace
    <3>4. ASSUME NEW j \in Jobs, JobNext(j)
          PROVE  quit' = quit
      BY <3>4, JobSteps
    <3>5. CASE TreeModelReady \/ LongTaskFinished \/ SymbolsResolved
      BY <1>2, <3>5 DEF TreeModelReady, LongTaskFinished, SymbolsResolved
    <3>6. CASE UNCHANGED vars
      BY <1>2, <3>6 DEF vars
    <3> QED BY <1>2, <3>1, <3>2, <3>3, <3>4, <3>5, <3>6, NextSteps
  <2> QED BY <2>1 DEF QuitInv
<1>3. CASE quit # "no"
  <2>0. queue = << >> /\ current = None /\ \A t \in Tabs : tabs[t].state \notin {"loading", "failed", "open"}
    BY <1>3 DEF QuitInv, Exists
  <2>1. ASSUME NEW t \in Tabs, TabSlot(t)
        PROVE  FALSE
    BY <1>3, <2>0, <2>1 DEF TabSlot, OpenTrace, SelectTab, OpenFlatProfile, OpenAnnotation, ResolveSymbolsClicked,
                            LoadSucceeded, CloseView, Open, Exists
  <2>2. ASSUME NEW t \in Tabs, OpenTreeProfile(t) \/ OpenReverseView(t)
        PROVE  FALSE
    BY <2>0, <2>2 DEF OpenTreeProfile, OpenReverseView, CreateTreeView, Open
  <2>3. ASSUME NEW t \in Tabs, ResolveTask(t)
        PROVE  UNCHANGED <<tabs, queue, current, quit>>
    BY <2>0, <2>3 DEF ResolveTask, Exists
  <2>4. ASSUME NEW inside \in BOOLEAN, CloseTrace(inside)
        PROVE  FALSE
    BY <2>0, <2>4 DEF CloseTrace
  <2>5. ~CloseWindow /\ ~QuitAction
    BY <1>3, ExitSteps
  <2>6. ASSUME NEW j \in Jobs, JobNext(j)
        PROVE  /\ queue' = queue /\ current' = current /\ quit' = quit
               /\ tabs' \in {tabs, [tabs EXCEPT ![jobs[j].tab].pending = @ - 1]}
    BY <1>3, <2>6, JobSteps DEF Post
  <2>7. ~TreeModelReady /\ ~LongTaskFinished /\ ~SymbolsResolved
    BY <2>0 DEF TreeModelReady, LongTaskFinished, SymbolsResolved, Takes
  <2>8. /\ queue' = queue /\ current' = current /\ quit' = quit
        /\ tabs' = tabs \/ \E j \in Jobs : tabs' = [tabs EXCEPT ![jobs[j].tab].pending = @ - 1]
    <3>1. CASE UNCHANGED vars
      BY <3>1 DEF vars
    <3> QED BY <2>1, <2>2, <2>3, <2>4, <2>5, <2>6, <2>7, <3>1, NextSteps
  <2>9. \A t \in Tabs : tabs'[t].state = tabs[t].state
    <3>1. CASE tabs' = tabs
      BY <3>1
    <3>2. ASSUME NEW j \in Jobs, tabs' = [tabs EXCEPT ![jobs[j].tab].pending = @ - 1], NEW t \in Tabs
          PROVE  tabs'[t].state = tabs[t].state
      <4>1. [tabs EXCEPT ![jobs[j].tab].pending = @ - 1][t].state = tabs[t].state
        BY <1>0, PendingKeeps
      <4> QED BY <3>2, <4>1
    <3> QED BY <2>8, <3>1, <3>2
  <2> QED BY <2>0, <2>8, <2>9 DEF QuitInv, Exists
<1> QED BY <1>1, <1>2, <1>3

\* What a step does to the jobs and the queue.
Starts(j) == /\ jobs[j].pc = "unused" /\ jobs'[j].pc = "start"
             /\ \A k \in Jobs \ {j} : jobs'[k] = jobs[k]
             /\ UNCHANGED queue
LEMMA JobsAndQueue ==
  ASSUME TypeInv, [Next]_vars, quit = "no", quit' = "no"
  PROVE  \/ UNCHANGED <<jobs, queue, m_TasksRunning>>
         \/ \E j \in Jobs : Starts(j) /\ m_TasksRunning' = m_TasksRunning + 1
         \/ /\ m_TasksRunning = 0 /\ UNCHANGED <<jobs, m_TasksRunning>>
            /\ queue' = QueueWithout(current)
         \/ \E j \in Jobs : /\ UNCHANGED m_TasksRunning
                            /\ \/ JobGoes(j, "start", "build") /\ UNCHANGED queue
                               \/ JobGoes(j, "build", "ready") /\ UNCHANGED queue
                               \/ /\ JobGoes(j, "ready", "end")
                                  /\ Post([ev |-> "treeModelReady", to |-> jobs[j].tab, job |-> j])
                               \/ /\ JobGoes(j, "end", "count")
                                  /\ Post([ev |-> "endLongTask", to |-> None, job |-> j])
                               \/ JobGoes(j, "count", "done") /\ UNCHANGED queue
         \/ /\ UNCHANGED <<jobs, m_TasksRunning>>
            /\ \E t \in Tabs, ok \in BOOLEAN : Post([ev |-> "symbolsResolved", to |-> t, ok |-> ok])
         \/ /\ UNCHANGED jobs /\ queue # << >> /\ queue' = Tail(queue)
            /\ \/ Head(queue).ev \in {"treeModelReady", "symbolsResolved"} /\ UNCHANGED m_TasksRunning
               \/ Head(queue).ev = "endLongTask" /\ m_TasksRunning' = m_TasksRunning - 1
<1>0. jobs \in [Jobs -> JobRecord]
  BY DEF TypeInv
<1>1. ASSUME NEW t \in Tabs, TabSlot(t)
      PROVE  UNCHANGED <<jobs, queue, m_TasksRunning>>
  BY <1>1, TabSlotType
<1>2. ASSUME NEW t \in Tabs, OpenTreeProfile(t) \/ OpenReverseView(t)
      PROVE  \E j \in Jobs : Starts(j) /\ m_TasksRunning' = m_TasksRunning + 1
  <2>1. PICK main \in BOOLEAN : CreateTreeView(t, main)
    BY <1>2 DEF OpenTreeProfile, OpenReverseView
  <2>2. PICK j \in Jobs : /\ jobs[j].pc = "unused"
                          /\ jobs' = [jobs EXCEPT ![j] = [pc |-> "start", tab |-> t, map |-> 0, main |-> main]]
    BY <2>1, TreeSteps
  <2>3. Starts(j)
    BY <1>0, <2>1, <2>2, TreeSteps DEF Starts
  <2> QED BY <2>1, <2>3, TreeSteps
<1>3. ASSUME NEW inside \in BOOLEAN, CloseTrace(inside)
      PROVE  m_TasksRunning = 0 /\ UNCHANGED <<jobs, m_TasksRunning>> /\ queue' = QueueWithout(current)
  BY <1>3, CloseTraceSteps
<1>4. ~CloseWindow /\ ~QuitAction
  BY ExitSteps
<1>5. ASSUME NEW t \in Tabs, ResolveTask(t)
      PROVE  /\ UNCHANGED <<jobs, m_TasksRunning>>
             /\ \/ UNCHANGED queue
                \/ \E ok \in BOOLEAN : Post([ev |-> "symbolsResolved", to |-> t, ok |-> ok])
  BY <1>5 DEF ResolveTask
<1>6. CASE TreeModelReady
  BY <1>6, ReadySteps
<1>7. CASE LongTaskFinished
  BY <1>7 DEF LongTaskFinished, Takes
<1>8. CASE SymbolsResolved
  BY <1>8, ResolvedSteps
<1>9. CASE UNCHANGED vars
  BY <1>9 DEF vars
<1>10. ASSUME NEW j \in Jobs, JobNext(j)
       PROVE  /\ UNCHANGED m_TasksRunning
              /\ \/ JobGoes(j, "start", "build") /\ UNCHANGED queue
                 \/ JobGoes(j, "build", "ready") /\ UNCHANGED queue
                 \/ /\ JobGoes(j, "ready", "end")
                    /\ Post([ev |-> "treeModelReady", to |-> jobs[j].tab, job |-> j])
                 \/ /\ JobGoes(j, "end", "count")
                    /\ Post([ev |-> "endLongTask", to |-> None, job |-> j])
                 \/ JobGoes(j, "count", "done") /\ UNCHANGED queue
  BY <1>10, JobSteps
<1> QED BY <1>1, <1>2, <1>3, <1>4, <1>5, <1>6, <1>7, <1>8, <1>9, <1>10, NextSteps

\* The two parts of EventInv.
EventsAreOf(j, i) ==
  /\ Posted(i, "endLongTask", j) => jobs[j].pc \in {"count", "done"}
  /\ Posted(i, "treeModelReady", j) =>
       /\ jobs[j].pc \in {"end", "count", "done"}
       /\ queue[i].to = jobs[j].tab
       /\ jobs[j].pc = "end" \/ \E k \in DOMAIN queue : i < k /\ Posted(k, "endLongTask", j)
Once(j) == \A ev \in {"treeModelReady", "endLongTask"} :
             \A i, k \in DOMAIN queue : Posted(i, ev, j) /\ Posted(k, ev, j) => i = k

EventsOfJobs == \A j \in Jobs : Once(j) /\ \A i \in DOMAIN queue : EventsAreOf(j, i)

LEMMA EventParts == TypeInv => (EventInv <=> EventsOfJobs)
<1> SUFFICES ASSUME TypeInv
             PROVE  EventInv <=> EventsOfJobs
  OBVIOUS
<1>1. \A i \in DOMAIN queue :
        queue[i].ev \in {"treeModelReady", "endLongTask"} => queue[i].job \in Jobs
  BY QueuedTypes, EventTypes
<1>2. ASSUME \A j \in Jobs : Once(j) /\ \A i \in DOMAIN queue : EventsAreOf(j, i)
      PROVE  EventInv
  <2>1. ASSUME NEW i \in DOMAIN queue, queue[i].ev = "endLongTask"
        PROVE  jobs[queue[i].job].pc \in {"count", "done"}
    BY <1>1, <1>2, <2>1 DEF EventsAreOf, Posted
  <2>2. ASSUME NEW i \in DOMAIN queue, queue[i].ev = "treeModelReady"
        PROVE  /\ jobs[queue[i].job].pc \in {"end", "count", "done"}
               /\ queue[i].to = jobs[queue[i].job].tab
               /\ jobs[queue[i].job].pc = "end"
                    \/ \E k \in DOMAIN queue : i < k /\ Posted(k, "endLongTask", queue[i].job)
    <3>1. queue[i].job \in Jobs /\ Posted(i, "treeModelReady", queue[i].job)
      BY <1>1, <2>2 DEF Posted
    <3> QED BY <1>2, <3>1 DEF EventsAreOf
  <2>3. \A ev \in {"treeModelReady", "endLongTask"} : \A j \in Jobs :
          \A i, k \in DOMAIN queue : Posted(i, ev, j) /\ Posted(k, ev, j) => i = k
    BY <1>2 DEF Once
  <2> QED BY <2>1, <2>2, <2>3 DEF EventInv
<1>3. ASSUME EventInv, NEW j \in Jobs
      PROVE  Once(j) /\ \A i \in DOMAIN queue : EventsAreOf(j, i)
  BY <1>3 DEF EventInv, Once, EventsAreOf, Posted
<1> QED BY <1>2, <1>3 DEF EventsOfJobs

LEMMA EventPartsNext == TypeInv' => (EventInv' <=> EventsOfJobs')
  BY EventParts, PTL

\* Nothing is lost or said twice when an event is taken from the queue.
LEMMA TakingKeepsEvents ==
  ASSUME TypeInv, EventInv, UNCHANGED jobs, queue # << >>, queue' = Tail(queue), NEW j \in Jobs
  PROVE  Once(j)' /\ \A i \in DOMAIN queue' : EventsAreOf(j, i)'
<1>1. /\ Len(queue) \in Nat /\ DOMAIN queue = 1 .. Len(queue)
      /\ DOMAIN queue' = 1 .. Len(queue) - 1
      /\ \A i \in DOMAIN queue' : queue'[i] = queue[i + 1] /\ i + 1 \in DOMAIN queue
      /\ \A i \in DOMAIN queue : i # 1 => i - 1 \in DOMAIN queue' /\ queue'[i - 1] = queue[i]
  BY QueueTaken
<1>2. Once(j) /\ \A i \in DOMAIN queue : EventsAreOf(j, i)
  BY EventParts DEF EventsOfJobs
<1>3. \A i \in DOMAIN queue' : \A ev : Posted(i, ev, j)' <=> Posted(i + 1, ev, j)
  BY <1>1 DEF Posted
<1>4. Once(j)'
  <2> SUFFICES ASSUME NEW ev \in {"treeModelReady", "endLongTask"}, NEW i \in DOMAIN queue', NEW k \in DOMAIN queue',
                      Posted(i, ev, j)', Posted(k, ev, j)'
               PROVE  i = k
    BY DEF Once
  <2>1. i + 1 = k + 1
    BY <1>1, <1>2, <1>3 DEF Once
  <2> QED BY <1>1, <2>1
<1>5. ASSUME NEW i \in DOMAIN queue'
      PROVE  EventsAreOf(j, i)'
  <2>1. EventsAreOf(j, i + 1)
    BY <1>1, <1>2
  <2>2. Posted(i, "endLongTask", j)' => jobs'[j].pc \in {"count", "done"}
    BY <1>3, <2>1 DEF EventsAreOf
  <2>3. ASSUME Posted(i, "treeModelReady", j)'
        PROVE  /\ jobs'[j].pc \in {"end", "count", "done"}
               /\ queue'[i].to = jobs'[j].tab
               /\ jobs'[j].pc = "end" \/ \E k \in DOMAIN queue' : i < k /\ Posted(k, "endLongTask", j)'
    <3>1. /\ jobs[j].pc \in {"end", "count", "done"}
          /\ queue[i + 1].to = jobs[j].tab
          /\ jobs[j].pc = "end" \/ \E k \in DOMAIN queue : i + 1 < k /\ Posted(k, "endLongTask", j)
      BY <1>3, <2>1, <2>3 DEF EventsAreOf
    <3>2. ASSUME NEW k \in DOMAIN queue, i + 1 < k, Posted(k, "endLongTask", j)
          PROVE  \E l \in DOMAIN queue' : i < l /\ Posted(l, "endLongTask", j)'
      <4>1. k - 1 \in DOMAIN queue' /\ i < k - 1 /\ queue'[k - 1] = queue[k]
        BY <1>1, <3>2
      <4> QED BY <3>2, <4>1 DEF Posted
    <3> QED BY <1>1, <3>1, <3>2
  <2> QED BY <2>2, <2>3 DEF EventsAreOf
<1> QED BY <1>4, <1>5

\* A posted event of a kind that its job has not posted before.
LEMMA PostingKeepsEvents ==
  ASSUME TypeInv, EventInv, quit = "no", NEW e, Post(e), NEW j \in Jobs,
         jobs'[j].tab = jobs[j].tab,
         jobs[j].pc \in {"count", "done"} => jobs'[j].pc \in {"count", "done"},
         jobs[j].pc = "end" /\ jobs'[j].pc # "end" => jobs'[j].pc = "count" /\ e.ev = "endLongTask" /\ e.job = j,
         e.ev = "treeModelReady" /\ e.job = j => jobs[j].pc = "ready" /\ jobs'[j].pc = "end" /\ e.to = jobs[j].tab,
         e.ev = "endLongTask" /\ e.job = j => jobs[j].pc = "end" /\ jobs'[j].pc = "count"
  PROVE  Once(j)' /\ \A i \in DOMAIN queue' : EventsAreOf(j, i)'
<1>0. PICK n : n = Len(queue) + 1
  OBVIOUS
<1>1. /\ Len(queue) \in Nat /\ DOMAIN queue = 1 .. Len(queue) /\ DOMAIN queue' = 1 .. n
      /\ \A i \in DOMAIN queue : queue'[i] = queue[i]
      /\ queue'[n] = e
  BY <1>0, QueueAppended
<1>2. Once(j) /\ \A i \in DOMAIN queue : EventsAreOf(j, i)
  BY EventParts DEF EventsOfJobs
<1>3. n \in DOMAIN queue' /\ \A i \in DOMAIN queue : i \in DOMAIN queue' /\ i < n
  BY <1>0, <1>1
<1>4. \A i \in DOMAIN queue' : i \in DOMAIN queue \/ i = n
  BY <1>0, <1>1
<1>5. \A ev : Posted(n, ev, j)' <=> (e.ev = ev /\ e.job = j)
  BY <1>1 DEF Posted
<1>6. \A i \in DOMAIN queue : \A ev : Posted(i, ev, j)' <=> Posted(i, ev, j)
  BY <1>1 DEF Posted
<1>7. \A i \in DOMAIN queue, ev \in {"treeModelReady", "endLongTask"} : e.ev = ev /\ e.job = j => ~Posted(i, ev, j)
  BY <1>2 DEF EventsAreOf
<1>8. Once(j)'
  BY <1>2, <1>4, <1>5, <1>6, <1>7 DEF Once
<1>9. ASSUME NEW i \in DOMAIN queue'
      PROVE  EventsAreOf(j, i)'
  <2>1. CASE i = n
    BY <1>1, <1>5, <2>1 DEF EventsAreOf
  <2>2. CASE i \in DOMAIN queue
    <3>1. Posted(i, "endLongTask", j)' => jobs'[j].pc \in {"count", "done"}
      BY <1>2, <1>6, <2>2 DEF EventsAreOf
    <3>2. ASSUME Posted(i, "treeModelReady", j)'
          PROVE  /\ jobs'[j].pc \in {"end", "count", "done"}
                 /\ queue'[i].to = jobs'[j].tab
                 /\ jobs'[j].pc = "end" \/ \E k \in DOMAIN queue' : i < k /\ Posted(k, "endLongTask", j)'
      <4>1. /\ jobs[j].pc \in {"end", "count", "done"}
            /\ queue[i].to = jobs[j].tab
            /\ jobs[j].pc = "end" \/ \E k \in DOMAIN queue : i < k /\ Posted(k, "endLongTask", j)
        BY <1>2, <1>6, <2>2, <3>2 DEF EventsAreOf
      <4>2. queue'[i].to = jobs'[j].tab
        BY <1>1, <2>2, <4>1
      <4>3. CASE jobs[j].pc = "end" /\ jobs'[j].pc # "end"
        <5>1. jobs'[j].pc = "count" /\ Posted(n, "endLongTask", j)'
          BY <1>5, <4>3
        <5> QED BY <1>3, <2>2, <4>2, <5>1
      <4>4. CASE jobs[j].pc = "end" /\ jobs'[j].pc = "end"
        BY <4>2, <4>4
      <4>5. CASE jobs[j].pc # "end"
        <5>1. PICK k \in DOMAIN queue : i < k /\ Posted(k, "endLongTask", j)
          BY <4>1, <4>5
        <5>2. k \in DOMAIN queue' /\ Posted(k, "endLongTask", j)'
          BY <1>3, <1>6, <5>1
        <5>3. jobs'[j].pc \in {"count", "done"}
          BY <4>1, <4>5
        <5> QED BY <4>2, <5>1, <5>2, <5>3
      <4> QED BY <4>3, <4>4, <4>5
    <3> QED BY <3>1, <3>2 DEF EventsAreOf
  <2> QED BY <1>4, <2>1, <2>2
<1> QED BY <1>8, <1>9

\* With an empty queue, or one of which no event is from a job.
LEMMA NoEvents ==
  ASSUME TypeInv', \A i \in DOMAIN queue' : queue'[i].ev \notin {"treeModelReady", "endLongTask"}
  PROVE  EventInv' /\ \A j \in Jobs : ~IsPosted("endLongTask", j)' /\ ~IsPosted("treeModelReady", j)'
<1>1. \A i \in DOMAIN queue', j \in Jobs : \A ev \in {"treeModelReady", "endLongTask"} : ~Posted(i, ev, j)'
  BY DEF Posted
<1>2. EventInv'
  BY <1>1 DEF EventInv
<1> QED BY <1>1, <1>2 DEF IsPosted

LEMMA DroppedEvents ==
  ASSUME TypeInv, NEW t, queue' = QueueWithout(t), \A i \in DOMAIN queue : queue[i].ev = "symbolsResolved"
  PROVE  \A i \in DOMAIN queue' : queue'[i].ev = "symbolsResolved"
<1> DEFINE I == {i \in DOMAIN queue : queue[i].to # t}
<1>1. queue \in Seq(Event) /\ I \in SUBSET DOMAIN queue
  BY DEF TypeInv
<1>2. \A k \in DOMAIN Selected(queue, I) : Nth(I, k) \in I /\ Selected(queue, I)[k] = queue[Nth(I, k)]
  BY <1>1, SelectedElements
<1>3. queue' = Selected(queue, I)
  BY DEF QueueWithout
<1> HIDE DEF I
<1> QED BY <1>1, <1>2, <1>3

LEMMA EventPreserved ==
  TypeInv /\ TypeInv' /\ QuitInv /\ QuitInv' /\ EventInv /\ CountInv /\ [Next]_vars => EventInv'
<1> SUFFICES ASSUME TypeInv, TypeInv', QuitInv, QuitInv', EventInv, CountInv, [Next]_vars
             PROVE  EventInv'
  OBVIOUS
<1>1. CASE quit' # "no"
  <2>1. queue' = << >>
    BY <1>1 DEF QuitInv
  <2> QED BY <2>1, NoEvents
<1>2. CASE quit = "no" /\ quit' = "no"
  <2>0. \A j \in Jobs : Once(j) /\ \A i \in DOMAIN queue : EventsAreOf(j, i)
    BY EventParts DEF EventsOfJobs
  <2>1. CASE UNCHANGED <<jobs, queue, m_TasksRunning>>
    BY <2>1 DEF EventInv, Posted
  <2>2. ASSUME UNCHANGED queue,
               \A j \in Jobs : \/ jobs'[j] = jobs[j]
                               \/ jobs[j].pc \in {"unused", "start", "build"}
                               \/ jobs[j].pc = "count" /\ jobs'[j].pc = "done" /\ jobs'[j].tab = jobs[j].tab
        PROVE  EventInv'
    <3>1. \A i \in DOMAIN queue, j \in Jobs : \A ev : Posted(i, ev, j)' <=> Posted(i, ev, j)
      BY <2>2 DEF Posted
    <3>2. \A j \in Jobs : Once(j)'
      BY <2>0, <2>2, <3>1 DEF Once
    <3>3. \A j \in Jobs : \A i \in DOMAIN queue : EventsAreOf(j, i)'
      BY <2>0, <2>2, <3>1 DEF EventsAreOf
    <3> QED BY <2>2, <3>2, <3>3, EventPartsNext DEF EventsOfJobs
  <2>3. ASSUME NEW j \in Jobs, Starts(j)
        PROVE  EventInv'
    BY <2>2, <2>3 DEF Starts
  <2>4. CASE m_TasksRunning = 0 /\ queue' = QueueWithout(current)
    <3>1. \A i \in DOMAIN queue : queue[i].ev = "symbolsResolved"
      BY <1>2, <2>4, NothingRuns
    <3>2. \A i \in DOMAIN queue' : queue'[i].ev = "symbolsResolved"
      BY <2>4, <3>1, DroppedEvents
    <3> QED BY <3>2, NoEvents
  <2>5. ASSUME NEW j \in Jobs, JobGoes(j, "start", "build") \/ JobGoes(j, "build", "ready") \/ JobGoes(j, "count", "done"),
               UNCHANGED queue
        PROVE  EventInv'
    BY <2>2, <2>5 DEF JobGoes
  <2>6. ASSUME NEW j \in Jobs, JobGoes(j, "ready", "end"),
               Post([ev |-> "treeModelReady", to |-> jobs[j].tab, job |-> j])
        PROVE  EventInv'
    <3>1. PICK e : e = [ev |-> "treeModelReady", to |-> jobs[j].tab, job |-> j]
      OBVIOUS
    <3>2. Post(e) /\ e.ev = "treeModelReady" /\ e.to = jobs[j].tab /\ e.job = j
      BY <2>6, <3>1
    <3>3. \A k \in Jobs : Once(k)' /\ \A i \in DOMAIN queue' : EventsAreOf(k, i)'
      BY <1>2, <2>6, <3>2, PostingKeepsEvents DEF JobGoes
    <3> QED BY <3>3, EventPartsNext DEF EventsOfJobs
  <2>7. ASSUME NEW j \in Jobs, JobGoes(j, "end", "count"),
               Post([ev |-> "endLongTask", to |-> None, job |-> j])
        PROVE  EventInv'
    <3>1. PICK e : e = [ev |-> "endLongTask", to |-> None, job |-> j]
      OBVIOUS
    <3>2. Post(e) /\ e.ev = "endLongTask" /\ e.job = j
      BY <2>7, <3>1
    <3>3. \A k \in Jobs : Once(k)' /\ \A i \in DOMAIN queue' : EventsAreOf(k, i)'
      BY <1>2, <2>7, <3>2, PostingKeepsEvents DEF JobGoes
    <3> QED BY <3>3, EventPartsNext DEF EventsOfJobs
  <2>8. ASSUME NEW t \in Tabs, NEW ok \in BOOLEAN, UNCHANGED jobs,
               Post([ev |-> "symbolsResolved", to |-> t, ok |-> ok])
        PROVE  EventInv'
    <3>1. PICK e : e = [ev |-> "symbolsResolved", to |-> t, ok |-> ok]
      OBVIOUS
    <3>2. Post(e) /\ e.ev = "symbolsResolved"
      BY <2>8, <3>1
    <3>3. \A k \in Jobs : Once(k)' /\ \A i \in DOMAIN queue' : EventsAreOf(k, i)'
      BY <1>2, <2>8, <3>2, PostingKeepsEvents
    <3> QED BY <3>3, EventPartsNext DEF EventsOfJobs
  <2>9. CASE UNCHANGED jobs /\ queue # << >> /\ queue' = Tail(queue)
    <3>1. \A k \in Jobs : Once(k)' /\ \A i \in DOMAIN queue' : EventsAreOf(k, i)'
      BY <2>9, TakingKeepsEvents
    <3> QED BY <3>1, EventPartsNext DEF EventsOfJobs
  <2> QED BY <1>2, <2>1, <2>3, <2>4, <2>5, <2>6, <2>7, <2>8, <2>9, JobsAndQueue
<1>3. CASE quit # "no"
  <2>1. quit' # "no"
    BY <1>3, QuitStays
  <2> QED BY <1>1, <2>1
<1> QED BY <1>1, <1>2, <1>3

LEMMA CountedIsFinite == IsFiniteSet(Counted)
<1>1. Counted \in SUBSET Jobs
  BY DEF Counted
<1> QED BY <1>1, JobsAssumption, FS_Subset

\* A step that leaves the counted jobs as they are.
LEMMA SameCounted ==
  ASSUME CountInv, quit = "no", UNCHANGED m_TasksRunning, \A j \in Jobs : j \in Counted' <=> j \in Counted
  PROVE  CountInv'
<1>1. \A x : x \in Counted' <=> x \in Counted
  BY DEF Counted
<1>2. Counted' = Counted
  BY <1>1
<1> QED BY <1>2 DEF CountInv

LEMMA CountPreserved ==
  TypeInv /\ TypeInv' /\ QuitInv /\ EventInv /\ EventInv' /\ CountInv /\ [Next]_vars => CountInv'
<1> SUFFICES ASSUME TypeInv, TypeInv', QuitInv, EventInv, EventInv', CountInv, [Next]_vars, quit' = "no"
             PROVE  CountInv'
  BY DEF CountInv
<1>0. quit = "no"
  BY QuitStays
<1>1. CASE UNCHANGED <<jobs, queue, m_TasksRunning>>
  BY <1>0, <1>1 DEF CountInv, Counted, IsPosted, Posted
<1>2. ASSUME NEW j \in Jobs, Starts(j), m_TasksRunning' = m_TasksRunning + 1
      PROVE  CountInv'
  <2>1. \A k \in Jobs : IsPosted("endLongTask", k)' <=> IsPosted("endLongTask", k)
    BY <1>2 DEF Starts, IsPosted, Posted
  <2>2. \A i \in DOMAIN queue : queue[i].ev = "endLongTask" => queue[i].job # j
    BY <1>2 DEF Starts, EventInv
  <2>3. j \notin Counted
    BY <1>2, <2>2 DEF Starts, Counted, IsPosted, Posted
  <2>4. \A k : k \in Counted' <=> k \in Counted \cup {j}
    BY <1>2, <2>1 DEF Starts, Counted
  <2>5. Counted' = Counted \cup {j}
    BY <2>4
  <2>6. Cardinality(Counted \cup {j}) = Cardinality(Counted) + 1
    BY <2>3, CountedIsFinite, FS_AddElement
  <2> QED BY <1>0, <1>2, <2>5, <2>6 DEF CountInv
<1>3. CASE m_TasksRunning = 0 /\ UNCHANGED <<jobs, m_TasksRunning>> /\ queue' = QueueWithout(current)
  <2>1. /\ \A j \in Jobs : jobs[j].pc \in {"unused", "count", "done"} /\ ~IsPosted("endLongTask", j)
        /\ \A i \in DOMAIN queue : queue[i].ev = "symbolsResolved"
    BY <1>0, <1>3, NothingRuns
  <2>2. \A i \in DOMAIN queue' : queue'[i].ev = "symbolsResolved"
    BY <1>3, <2>1, DroppedEvents
  <2>3. \A j \in Jobs : ~IsPosted("endLongTask", j)'
    BY <2>2 DEF IsPosted, Posted
  <2> QED BY <1>0, <1>3, <2>1, <2>3, SameCounted DEF Counted
<1>4. ASSUME NEW j \in Jobs, UNCHANGED <<m_TasksRunning, queue>>,
             JobGoes(j, "start", "build") \/ JobGoes(j, "build", "ready") \/ JobGoes(j, "count", "done")
      PROVE  CountInv'
  <2>1. \A k \in Jobs : IsPosted("endLongTask", k)' <=> IsPosted("endLongTask", k)
    BY <1>4 DEF IsPosted, Posted
  <2>2. \A k \in Jobs : k \in Counted' <=> k \in Counted
    BY <1>4, <2>1 DEF JobGoes, Counted
  <2> QED BY <1>0, <1>4, <2>2, SameCounted
<1>5. ASSUME NEW j \in Jobs, UNCHANGED m_TasksRunning, JobGoes(j, "ready", "end"),
             Post([ev |-> "treeModelReady", to |-> jobs[j].tab, job |-> j])
      PROVE  CountInv'
  <2>1. PICK e : e = [ev |-> "treeModelReady", to |-> jobs[j].tab, job |-> j]
    OBVIOUS
  <2>2. Post(e) /\ e.ev = "treeModelReady"
    BY <1>5, <2>1
  <2>3. \A k \in Jobs : IsPosted("endLongTask", k)' <=> IsPosted("endLongTask", k)
    BY <1>0, <2>2, PostedAfter
  <2>4. \A k \in Jobs : k \in Counted' <=> k \in Counted
    BY <1>5, <2>3 DEF JobGoes, Counted
  <2> QED BY <1>0, <1>5, <2>4, SameCounted
<1>6. ASSUME NEW j \in Jobs, UNCHANGED m_TasksRunning, JobGoes(j, "end", "count"),
             Post([ev |-> "endLongTask", to |-> None, job |-> j])
      PROVE  CountInv'
  <2>1. PICK e : e = [ev |-> "endLongTask", to |-> None, job |-> j]
    OBVIOUS
  <2>2. Post(e) /\ e.ev = "endLongTask" /\ e.job = j
    BY <1>6, <2>1
  <2>3. \A k \in Jobs : IsPosted("endLongTask", k)' <=> (IsPosted("endLongTask", k) \/ k = j)
    BY <1>0, <2>2, PostedAfter
  <2>4. \A k \in Jobs : k \in Counted' <=> k \in Counted
    BY <1>6, <2>3 DEF JobGoes, Counted
  <2> QED BY <1>0, <1>6, <2>4, SameCounted
<1>7. ASSUME UNCHANGED <<jobs, m_TasksRunning>>, NEW t \in Tabs, NEW ok \in BOOLEAN,
             Post([ev |-> "symbolsResolved", to |-> t, ok |-> ok])
      PROVE  CountInv'
  <2>1. PICK e : e = [ev |-> "symbolsResolved", to |-> t, ok |-> ok]
    OBVIOUS
  <2>2. Post(e) /\ e.ev = "symbolsResolved"
    BY <1>7, <2>1
  <2>3. \A k \in Jobs : IsPosted("endLongTask", k)' <=> IsPosted("endLongTask", k)
    BY <1>0, <2>2, PostedAfter
  <2>4. \A k \in Jobs : k \in Counted' <=> k \in Counted
    BY <1>7, <2>3 DEF Counted
  <2> QED BY <1>0, <1>7, <2>4, SameCounted
<1>8. CASE /\ UNCHANGED <<jobs, m_TasksRunning>> /\ queue # << >> /\ queue' = Tail(queue)
           /\ Head(queue).ev \in {"treeModelReady", "symbolsResolved"}
  <2>1. \A k \in Jobs : IsPosted("endLongTask", k)' <=> IsPosted("endLongTask", k)
    BY <1>8, PostedAfterTaking
  <2>2. \A k \in Jobs : k \in Counted' <=> k \in Counted
    BY <1>8, <2>1 DEF Counted
  <2> QED BY <1>0, <1>8, <2>2, SameCounted
<1>9. CASE /\ UNCHANGED jobs /\ m_TasksRunning' = m_TasksRunning - 1 /\ queue # << >> /\ queue' = Tail(queue)
           /\ Head(queue).ev = "endLongTask"
  <2>1. 1 \in DOMAIN queue /\ Head(queue) = queue[1]
    BY <1>9, QueueTaken
  <2>2. Head(queue) \in Event
    BY <2>1, QueuedTypes
  <2>3. PICK j \in Jobs : Head(queue).job = j
    BY <1>9, <2>2, EventTypes
  <2>4. jobs[j].pc \in {"count", "done"} /\ IsPosted("endLongTask", j)
    BY <1>9, <2>1, <2>3 DEF EventInv, IsPosted, Posted
  <2>5. ~IsPosted("endLongTask", j)'
    BY <1>9, <2>3, PostedOnce
  <2>6. \A k \in Jobs \ {j} : IsPosted("endLongTask", k)' <=> IsPosted("endLongTask", k)
    BY <1>9, <2>3, PostedAfterTaking
  <2>7. \A k : k \in Counted' <=> k \in Counted \ {j}
    BY <1>9, <2>4, <2>5, <2>6 DEF Counted
  <2>8. Counted' = Counted \ {j} /\ j \in Counted
    BY <2>4, <2>7 DEF Counted
  <2>9. Cardinality(Counted \ {j}) = Cardinality(Counted) - 1
    BY <2>8, CountedIsFinite, FS_RemoveElement
  <2> QED BY <1>0, <1>9, <2>8, <2>9 DEF CountInv
<1> QED BY <1>0, <1>1, <1>2, <1>3, <1>4, <1>5, <1>6, <1>7, <1>8, <1>9, JobsAndQueue
-----------------------------------------------------------------------------
(* The tree jobs end, as far as the tab is concerned, before it is deleted. *)

Inv == TypeInv /\ QuitInv /\ EventInv /\ CountInv

LEMMA InvPreserved == Inv /\ [Next]_vars => Inv'
  BY TypePreserved, QuitPreserved, EventPreserved, CountPreserved DEF Inv

LEMMA InvInitially == Init => Inv
<1> SUFFICES ASSUME Init
             PROVE  Inv
  OBVIOUS
<1>1. TypeInv
  BY TypeInitially
<1>2. queue = << >> /\ quit = "no" /\ m_TasksRunning = 0 /\ \A j \in Jobs : jobs[j].pc = "unused"
  BY DEF Init
<1>3. QuitInv /\ EventInv
  BY <1>2 DEF QuitInv, EventInv, Posted
<1>4. \A j : j \notin Counted
  BY <1>2 DEF Counted, IsPosted
<1>5. Counted = {} /\ Cardinality({}) = 0
  BY <1>4, FS_EmptySet
<1>6. CountInv
  BY <1>2, <1>5 DEF CountInv
<1> QED BY <1>1, <1>3, <1>6 DEF Inv

\* What every step but the ends of tabs leaves of the tabs.
LEMMA OnlyEndsDelete ==
  ASSUME TypeInv, [Next]_vars, NEW t \in Tabs, Deletes(t)
  PROVE  (\E inside \in BOOLEAN : CloseTrace(inside)) \/ CloseWindow \/ QuitAction
<1>0. tabs \in [Tabs -> TabRecord] /\ tabs[t].state # "deleted" /\ tabs'[t].state = "deleted"
  BY DEF TypeInv, Deletes
<1>1. ASSUME NEW x \in Tabs, TabSlot(x)
      PROVE  FALSE
  <2>1. CASE OpenTrace(x)
    <3>1. tabs'[t] = tabs[t] \/ tabs'[t].state = "failed" \/ tabs'[t].state = "loading"
      <4>1. CASE tabs' = [tabs EXCEPT ![x].state = "failed"]
        BY <1>0, <4>1 DEF TabRecord
      <4>2. ASSUME NEW r \in BOOLEAN,
                   tabs' = [tabs EXCEPT ![x] = [@ EXCEPT !.state = "loading", !.map = 1, !.resolved = r]]
            PROVE  tabs'[t] = tabs[t] \/ tabs'[t].state = "loading"
        BY <1>0, <4>2 DEF TabRecord
      <4> QED BY <2>1, <4>1, <4>2 DEF OpenTrace
    <3> QED BY <1>0, <3>1
  <2>2. CASE SelectTab(x) \/ ResolveSymbolsClicked(x) \/ LoadSucceeded(x)
    BY <1>0, <2>2 DEF SelectTab, ResolveSymbolsClicked, LoadSucceeded, TabRecord
  <2>4. CASE OpenFlatProfile(x)
    BY <1>0, <2>4 DEF OpenFlatProfile, WithView, TabRecord
  <2>5. CASE OpenAnnotation(x)
    BY <1>0, <2>5 DEF OpenAnnotation, WithView, TabRecord
  <2>3. ASSUME NEW i \in 1 .. MaxViews, CloseView(x, i)
        PROVE  FALSE
    BY <1>0, <2>3 DEF CloseView, TabRecord
  <2> QED BY <1>1, <2>1, <2>2, <2>3, <2>4, <2>5 DEF TabSlot
<1>2. ASSUME NEW x \in Tabs, OpenTreeProfile(x) \/ OpenReverseView(x)
      PROVE  FALSE
  <2>1. PICK main \in BOOLEAN : CreateTreeView(x, main)
    BY <1>2 DEF OpenTreeProfile, OpenReverseView
  <2> QED BY <1>0, <2>1, TreeTabs
<1>3. ASSUME NEW x \in Tabs, ResolveTask(x)
      PROVE  FALSE
  BY <1>0, <1>3 DEF ResolveTask
<1>4. ASSUME NEW j \in Jobs, JobNext(j)
      PROVE  FALSE
  <2>1. tabs' \in {tabs, [tabs EXCEPT ![jobs[j].tab].pending = @ - 1]}
    BY <1>4, JobSteps
  <2>2. [tabs EXCEPT ![jobs[j].tab].pending = @ - 1][t].state = tabs[t].state
    BY <1>0, PendingKeeps
  <2> QED BY <1>0, <2>1, <2>2
<1>5. CASE TreeModelReady
  <2>1. PICK v \in {"tree", "reverse"} : tabs' = [tabs EXCEPT ![Head(queue).to] = IF v = "tree"
           THEN [WithView(tabs[Head(queue).to], v) EXCEPT
                   !.treeIndex = Len(tabs[Head(queue).to].views) + 1, !.treeButton = TRUE]
           ELSE WithView(tabs[Head(queue).to], v)]
    BY <1>5, ReadySteps
  <2> QED BY <1>0, <2>1 DEF WithView, TabRecord
<1>6. CASE LongTaskFinished
  BY <1>0, <1>6 DEF LongTaskFinished
<1>7. CASE SymbolsResolved
  BY <1>0, <1>7 DEF SymbolsResolved, TabRecord
<1>8. CASE UNCHANGED vars
  BY <1>0, <1>8 DEF vars
<1> QED BY <1>1, <1>2, <1>3, <1>4, <1>5, <1>6, <1>7, <1>8, NextSteps

\* A tab is deleted, but by the menu's quit, only when each of its tree jobs has
\* handed over its result and reported its end, for any number of tabs, jobs and
\* events on their way (MainWindow::closeTrace and closeEvent, m_TasksRunning).
THEOREM TabOutlivesItsTreesThere == Spec => TabOutlivesItsTrees
<1> DEFINE Kept == \A t \in Tabs : (Deletes(t) /\ quit' # "menu") =>
                     \A j \in Jobs : jobs[j].tab = t =>
                       /\ jobs[j].pc \in {"count", "done"}
                       /\ \A i \in DOMAIN queue : queue[i].ev # "treeModelReady"
<1>1. Inv /\ [Next]_vars => [Kept]_vars
  <2> SUFFICES ASSUME Inv, [Next]_vars, NEW t \in Tabs, Deletes(t), quit' # "menu", NEW j \in Jobs, jobs[j].tab = t
               PROVE  /\ jobs[j].pc \in {"count", "done"}
                      /\ \A i \in DOMAIN queue : queue[i].ev # "treeModelReady"
    OBVIOUS
  <2>0. TypeInv /\ QuitInv /\ EventInv /\ CountInv
    BY DEF Inv
  <2>1. m_TasksRunning = 0 /\ quit = "no"
    <3>1. ASSUME NEW inside \in BOOLEAN, CloseTrace(inside)
          PROVE  m_TasksRunning = 0 /\ quit = "no"
      BY <2>0, <3>1, CloseTraceSteps, NoneAssumption DEF QuitInv
    <3>2. CASE CloseWindow \/ QuitAction
      BY <3>2, ExitSteps
    <3> QED BY <2>0, <3>1, <3>2, OnlyEndsDelete
  <2>2. jobs[j].pc # "unused"
    BY <2>0 DEF TypeInv
  <2>3. jobs[j].pc \in {"unused", "count", "done"} /\ \A i \in DOMAIN queue : queue[i].ev = "symbolsResolved"
    BY <2>0, <2>1, NothingRuns
  <2> QED BY <2>2, <2>3
<1> QED BY <1>1, InvInitially, InvPreserved, PTL DEF Spec, TabOutlivesItsTrees
-----------------------------------------------------------------------------
(* The views of a tab and the indices that are kept of them.               *)

\* What a step does to the views of a tab.
ViewsKept(t) ==
  /\ tabs'[t].views = tabs[t].views
  /\ tabs'[t].flatIndex = tabs[t].flatIndex /\ tabs'[t].treeIndex = tabs[t].treeIndex
  /\ tabs'[t].treeButton => tabs[t].treeButton

FlatOpened(t) ==
  /\ tabs[t].flatIndex = -1
  /\ tabs'[t].views = Append(tabs[t].views, "flat")
  /\ tabs'[t].flatIndex = Len(tabs[t].views) + 1 /\ tabs'[t].treeIndex = tabs[t].treeIndex
  /\ tabs'[t].treeButton = tabs[t].treeButton

OtherOpened(t, v) ==
  /\ tabs'[t].views = Append(tabs[t].views, v)
  /\ tabs'[t].flatIndex = tabs[t].flatIndex /\ tabs'[t].treeIndex = tabs[t].treeIndex
  /\ tabs'[t].treeButton = tabs[t].treeButton

TreeOpened(t) ==
  /\ TreeModelReady /\ Head(queue).to = t /\ jobs[Head(queue).job].main
  /\ tabs'[t].views = Append(tabs[t].views, "tree")
  /\ tabs'[t].flatIndex = tabs[t].flatIndex /\ tabs'[t].treeIndex = Len(tabs[t].views) + 1

Closed(t, i) ==
  /\ tabs'[t].views = RemoveAt(tabs[t].views, i)
  /\ tabs'[t].flatIndex = IF tabs[t].flatIndex = i THEN -1 ELSE tabs[t].flatIndex
  /\ tabs'[t].treeIndex = IF tabs[t].treeIndex = i /\ tabs[t].flatIndex # i THEN -1 ELSE tabs[t].treeIndex
  /\ tabs'[t].treeButton = tabs[t].treeButton
  /\ i < Len(tabs[t].views) => t \in innerClosed'

Gone(t) ==
  /\ (m_TasksRunning = 0 /\ quit = "no") \/ quit # "no" \/ quit' # "no"
  /\ tabs'[t].views = << >> /\ tabs'[t].flatIndex = -1 /\ tabs'[t].treeIndex = -1

ViewChange(t) ==
  \/ ViewsKept(t) \/ FlatOpened(t) \/ (\E v \in {"source", "reverse"} : OtherOpened(t, v)) \/ TreeOpened(t)
  \/ (\E i \in DOMAIN tabs[t].views : Closed(t, i)) \/ Gone(t)

LEMMA DeletedTab ==
  Deleted.views = << >> /\ Deleted.flatIndex = -1 /\ Deleted.treeIndex = -1 /\ Deleted.state = "deleted"
  BY DEF Deleted, NewTab

LEMMA SameTab ==
  ASSUME NEW t, tabs'[t] = tabs[t]
  PROVE  ViewChange(t)
  BY DEF ViewChange, ViewsKept

LEMMA SlotViews ==
  ASSUME TypeInv, NEW x \in Tabs, TabSlot(x), NEW t \in Tabs
  PROVE  ViewChange(t) /\ innerClosed \subseteq innerClosed'
<1>0. tabs \in [Tabs -> TabRecord] /\ tabs[t] \in TabRecord
  BY DEF TypeInv
<1>1. innerClosed \subseteq innerClosed'
  BY DEF TabSlot, OpenTrace, SelectTab, OpenFlatProfile, OpenAnnotation, ResolveSymbolsClicked, LoadSucceeded, CloseView
<1>2. CASE SelectTab(x)
  BY <1>2, SameTab DEF SelectTab
<1>3. CASE OpenTrace(x)
  <2>1. CASE tabs' = [tabs EXCEPT ![x].state = "failed"]
    <3>1. ViewsKept(t)
      BY <1>0, <2>1 DEF ViewsKept, TabRecord
    <3> QED BY <1>1, <3>1 DEF ViewChange
  <2>2. ASSUME NEW b \in BOOLEAN,
               tabs' = [tabs EXCEPT ![x] = [@ EXCEPT !.state = "loading", !.map = 1, !.resolved = b]]
        PROVE  ViewChange(t)
    <3>1. ViewsKept(t)
      BY <1>0, <2>2 DEF ViewsKept, TabRecord
    <3> QED BY <1>1, <3>1 DEF ViewChange
  <2> QED BY <1>3, <2>1, <2>2 DEF OpenTrace
<1>4. CASE LoadSucceeded(x) \/ ResolveSymbolsClicked(x)
  <2>1. CASE tabs' = [tabs EXCEPT ![x].state = "open"]
    <3>1. ViewsKept(t)
      BY <1>0, <2>1 DEF ViewsKept, TabRecord
    <3> QED BY <1>1, <3>1 DEF ViewChange
  <2>2. CASE tabs' = [tabs EXCEPT ![x].resolveButton = FALSE]
    <3>1. ViewsKept(t)
      BY <1>0, <2>2 DEF ViewsKept, TabRecord
    <3> QED BY <1>1, <3>1 DEF ViewChange
  <2> QED BY <1>4, <2>1, <2>2 DEF LoadSucceeded, ResolveSymbolsClicked
<1>5. CASE OpenFlatProfile(x)
  <2>1. CASE x # t
    BY <1>0, <1>5, <2>1, SameTab DEF OpenFlatProfile
  <2>2. CASE x = t
    <3>1. FlatOpened(t)
      BY <1>0, <1>5, <2>2 DEF OpenFlatProfile, WithView, FlatOpened, TabRecord
    <3> QED BY <1>1, <3>1 DEF ViewChange
  <2> QED BY <2>1, <2>2
<1>6. CASE OpenAnnotation(x)
  <2>1. CASE x # t
    BY <1>0, <1>6, <2>1, SameTab DEF OpenAnnotation
  <2>2. CASE x = t
    <3>1. OtherOpened(t, "source")
      BY <1>0, <1>6, <2>2 DEF OpenAnnotation, WithView, OtherOpened, TabRecord
    <3> QED BY <1>1, <3>1 DEF ViewChange
  <2> QED BY <2>1, <2>2
<1>7. ASSUME NEW i \in 1 .. MaxViews, CloseView(x, i)
      PROVE  ViewChange(t)
  <2>1. CASE x # t
    BY <1>0, <1>7, <2>1, SameTab DEF CloseView
  <2>2. CASE x = t
    <3>1. PICK flat, tree, named :
            /\ flat = IF tabs[t].flatIndex = i THEN -1 ELSE tabs[t].flatIndex
            /\ tree = IF tabs[t].treeIndex = i /\ tabs[t].flatIndex # i THEN -1 ELSE tabs[t].treeIndex
            /\ named = (tabs[t].flatNamed /\ tabs[t].views[i] # "flat")
      OBVIOUS
    <3>2. tabs'[t] = [tabs[t] EXCEPT !.views = RemoveAt(tabs[t].views, i), !.flatIndex = flat,
                                     !.treeIndex = tree, !.flatNamed = named]
      BY <1>0, <1>7, <2>2, <3>1 DEF CloseView
    <3>3. /\ tabs'[t].views = RemoveAt(tabs[t].views, i) /\ tabs'[t].flatIndex = flat
          /\ tabs'[t].treeIndex = tree /\ tabs'[t].treeButton = tabs[t].treeButton
      BY <1>0, <3>2 DEF TabRecord
    <3>4. i < Len(tabs[t].views) => t \in innerClosed'
      BY <1>7, <2>2 DEF CloseView
    <3>5. Closed(t, i)
      BY <3>1, <3>3, <3>4 DEF Closed
    <3>6. i \in DOMAIN tabs[t].views
      BY <1>7, <2>2 DEF CloseView
    <3> QED BY <3>5, <3>6 DEF ViewChange
  <2> QED BY <2>1, <2>2
<1> QED BY <1>1, <1>2, <1>3, <1>4, <1>5, <1>6, <1>7 DEF TabSlot

LEMMA ReadyViews ==
  ASSUME TypeInv, TreeModelReady, NEW t \in Tabs
  PROVE  ViewChange(t)
<1>0. tabs \in [Tabs -> TabRecord] /\ tabs[t] \in TabRecord
  BY DEF TypeInv
<1>1. PICK v \in {"tree", "reverse"} :
        /\ v = "tree" <=> jobs[Head(queue).job].main
        /\ tabs' = [tabs EXCEPT ![Head(queue).to] = IF v = "tree"
             THEN [WithView(tabs[Head(queue).to], v) EXCEPT
                     !.treeIndex = Len(tabs[Head(queue).to].views) + 1, !.treeButton = TRUE]
             ELSE WithView(tabs[Head(queue).to], v)]
  BY ReadySteps
<1>2. CASE Head(queue).to # t
  BY <1>0, <1>1, <1>2, SameTab
<1>3. CASE Head(queue).to = t /\ v = "tree"
  <2>1. tabs'[t] = [WithView(tabs[t], "tree") EXCEPT !.treeIndex = Len(tabs[t].views) + 1, !.treeButton = TRUE]
    BY <1>0, <1>1, <1>3
  <2>2. TreeOpened(t)
    BY <1>0, <1>1, <1>3, <2>1 DEF WithView, TreeOpened, TabRecord
  <2> QED BY <2>2 DEF ViewChange
<1>4. CASE Head(queue).to = t /\ v = "reverse"
  <2>1. tabs'[t] = WithView(tabs[t], "reverse")
    BY <1>0, <1>1, <1>4
  <2>2. OtherOpened(t, "reverse")
    BY <1>0, <2>1 DEF WithView, OtherOpened, TabRecord
  <2> QED BY <2>2 DEF ViewChange
<1> QED BY <1>2, <1>3, <1>4

LEMMA StepViews ==
  ASSUME TypeInv, [Next]_vars, NEW t \in Tabs
  PROVE  ViewChange(t) /\ innerClosed \subseteq innerClosed'
<1>0. tabs \in [Tabs -> TabRecord] /\ tabs[t] \in TabRecord
  BY DEF TypeInv
<1>1. ASSUME NEW x \in Tabs, TabSlot(x)
      PROVE  ViewChange(t) /\ innerClosed \subseteq innerClosed'
  BY <1>1, SlotViews
<1>2. ASSUME NEW x \in Tabs, OpenTreeProfile(x) \/ OpenReverseView(x)
      PROVE  ViewChange(t) /\ innerClosed \subseteq innerClosed'
  <2>1. PICK main \in BOOLEAN : CreateTreeView(x, main)
    BY <1>2 DEF OpenTreeProfile, OpenReverseView
  <2>2. ViewsKept(t)
    BY <2>1, TreeTabs DEF ViewsKept
  <2>3. innerClosed' = innerClosed
    BY <2>1, TreeSteps
  <2> QED BY <2>2, <2>3 DEF ViewChange
<1>3. ASSUME NEW x \in Tabs, ResolveTask(x)
      PROVE  ViewChange(t) /\ innerClosed \subseteq innerClosed'
  BY <1>3, SameTab DEF ResolveTask
<1>4. ASSUME NEW inside \in BOOLEAN, CloseTrace(inside)
      PROVE  ViewChange(t) /\ innerClosed \subseteq innerClosed'
  <2>1. m_TasksRunning = 0 /\ tabs' = [tabs EXCEPT ![current] = Deleted] /\ innerClosed' = innerClosed
    BY <1>4, CloseTraceSteps
  <2>2. CASE current = t
    <3>1. tabs'[t] = Deleted
      BY <1>0, <2>1, <2>2
    <3>2. Gone(t)
      BY <2>1, <3>1, DeletedTab DEF Gone
    <3> QED BY <2>1, <3>2 DEF ViewChange
  <2>3. CASE current # t
    BY <1>0, <2>1, <2>3, SameTab
  <2> QED BY <2>2, <2>3
<1>5. CASE CloseWindow \/ QuitAction
  <2>1. /\ quit' # "no" /\ innerClosed' = innerClosed
        /\ tabs'[t] = IF Exists(t) THEN Deleted ELSE tabs[t]
    BY <1>5, ExitSteps
  <2>2. CASE Exists(t)
    <3>1. Gone(t)
      BY <2>1, <2>2, DeletedTab DEF Gone
    <3> QED BY <2>1, <3>1 DEF ViewChange
  <2>3. CASE ~Exists(t)
    BY <2>1, <2>3, SameTab
  <2> QED BY <2>2, <2>3
<1>6. ASSUME NEW j \in Jobs, JobNext(j)
      PROVE  ViewChange(t) /\ innerClosed \subseteq innerClosed'
  <2>1. tabs' \in {tabs, [tabs EXCEPT ![jobs[j].tab].pending = @ - 1]} /\ innerClosed' = innerClosed
    BY <1>6, JobSteps
  <2>2. CASE tabs' = [tabs EXCEPT ![jobs[j].tab].pending = @ - 1]
    <3>1. ViewsKept(t)
      BY <1>0, <2>2, PendingKeeps DEF ViewsKept
    <3> QED BY <2>1, <3>1 DEF ViewChange
  <2> QED BY <2>1, <2>2, SameTab
<1>7. CASE TreeModelReady
  BY <1>7, ReadyViews, ReadySteps
<1>8. CASE LongTaskFinished \/ UNCHANGED vars
  BY <1>8, SameTab DEF LongTaskFinished, vars
<1>9. CASE SymbolsResolved
  <2>1. PICK m \in Int, named, ok \in BOOLEAN :
           tabs' = [tabs EXCEPT ![Head(queue).to] = [tabs[Head(queue).to] EXCEPT !.map = m, !.resolveButton = TRUE,
                                                     !.flatNamed = named, !.resolved = ok]]
    BY <1>9, ResolvedSteps
  <2>2. innerClosed' = innerClosed
    BY <1>9, ResolvedSteps
  <2>3. ViewsKept(t)
    BY <1>0, <2>1 DEF ViewsKept, TabRecord
  <2> QED BY <2>2, <2>3 DEF ViewChange
<1> QED BY <1>1, <1>2, <1>3, <1>4, <1>5, <1>6, <1>7, <1>8, <1>9, NextSteps

\* The result that the GUI thread takes is that of a job that is in flight.
LEMMA TreeIsFor ==
  ASSUME Inv, MainInv, TreeModelReady, jobs[Head(queue).job].main
  PROVE  /\ quit = "no" /\ Head(queue).job \in Jobs /\ InFlight(Head(queue).job)
         /\ jobs[Head(queue).job].tab = Head(queue).to
         /\ tabs[Head(queue).to].treeIndex = -1
<1>1. TypeInv /\ QuitInv /\ EventInv
  BY DEF Inv
<1>2. /\ queue # << >> /\ queue' = Tail(queue) /\ Head(queue).ev = "treeModelReady"
      /\ Head(queue).job \in Jobs
  BY <1>1, ReadySteps
<1>3. 1 \in DOMAIN queue /\ Head(queue) = queue[1]
  BY <1>1, <1>2, QueueTaken
<1>4. InFlight(Head(queue).job)
  BY <1>2, <1>3 DEF InFlight, IsPosted, Posted
<1>5. jobs[Head(queue).job].tab = Head(queue).to
  BY <1>1, <1>2, <1>3 DEF EventInv
<1>6. quit = "no"
  BY <1>1, <1>2 DEF QuitInv
<1> QED BY <1>2, <1>4, <1>5, <1>6 DEF MainInv

LEMMA IndexPreserved ==
  ASSUME Inv, MainInv, IndexInv, [Next]_vars, NEW t \in Tabs
  PROVE  Ranged(t)' /\ (t \notin innerClosed' => Indexed(t)')
<1> DEFINE tab == tabs[t]
           new == tabs'[t]
           n == Len(tab.views)
<1>0. /\ TypeInv /\ tab.views \in Seq(View) /\ n \in Nat /\ DOMAIN tab.views = 1 .. n
      /\ tab.flatIndex \in Int /\ tab.treeIndex \in Int
  BY DEF Inv, TypeInv, TabRecord
<1>1. Ranged(t) /\ (t \notin innerClosed => Indexed(t))
  BY DEF IndexInv
<1>2. ViewChange(t) /\ innerClosed \subseteq innerClosed'
  BY <1>0, StepViews
<1>3. CASE ViewsKept(t)
  BY <1>1, <1>2, <1>3 DEF ViewsKept, Ranged, Indexed
<1>4. CASE Gone(t)
  BY <1>4 DEF Gone, Ranged, Indexed
<1>5. ASSUME NEW v, new.views = Append(tab.views, v)
      PROVE  DOMAIN new.views = 1 .. n + 1 /\ new.views[n + 1] = v /\ \A i \in 1 .. n : new.views[i] = tab.views[i]
  BY <1>0, <1>5
<1>6. CASE FlatOpened(t)
  <2>1. /\ DOMAIN new.views = 1 .. n + 1 /\ new.views[n + 1] = "flat"
        /\ \A i \in 1 .. n : new.views[i] = tab.views[i]
        /\ tab.flatIndex = -1 /\ new.flatIndex = n + 1 /\ new.treeIndex = tab.treeIndex
    BY <1>5, <1>6 DEF FlatOpened
  <2>2. Ranged(t)'
    BY <1>0, <1>1, <2>1 DEF Ranged
  <2>3. ASSUME Indexed(t)
        PROVE  Indexed(t)'
    <3>1. ASSUME NEW k \in Nat \ {0}
          PROVE  /\ (tab.flatIndex = k) <=> (k \in 1 .. n /\ tab.views[k] = "flat")
                 /\ (tab.treeIndex = k) <=> (k \in 1 .. n /\ tab.views[k] = "tree")
      BY <1>0, <2>3, <3>1 DEF Indexed
    <3>2. ASSUME NEW k \in Nat \ {0}
          PROVE  /\ (new.flatIndex = k) <=> (k \in DOMAIN new.views /\ new.views[k] = "flat")
                 /\ (new.treeIndex = k) <=> (k \in DOMAIN new.views /\ new.views[k] = "tree")
      <4>1. CASE k = n + 1
        BY <1>0, <2>1, <3>1, <4>1
      <4>2. CASE k # n + 1
        <5>1. /\ k \in 1 .. n + 1 <=> k \in 1 .. n
              /\ new.flatIndex # k /\ tab.flatIndex # k
          BY <1>0, <2>1, <4>2
        <5>2. k \in 1 .. n => new.views[k] = tab.views[k]
          BY <2>1
        <5> QED BY <2>1, <3>1, <5>1, <5>2
      <4> QED BY <4>1, <4>2
    <3> QED BY <3>2 DEF Indexed
  <2> QED BY <1>1, <1>2, <2>2, <2>3
<1>7. ASSUME NEW v \in {"source", "reverse"}, OtherOpened(t, v)
      PROVE  Ranged(t)' /\ (t \notin innerClosed' => Indexed(t)')
  <2>1. /\ DOMAIN new.views = 1 .. n + 1 /\ new.views[n + 1] = v
        /\ \A i \in 1 .. n : new.views[i] = tab.views[i]
        /\ new.flatIndex = tab.flatIndex /\ new.treeIndex = tab.treeIndex
    BY <1>5, <1>7 DEF OtherOpened
  <2>2. Ranged(t)'
    BY <1>0, <1>1, <2>1 DEF Ranged
  <2>3. ASSUME Indexed(t)
        PROVE  Indexed(t)'
    <3>1. ASSUME NEW k \in Nat \ {0}
          PROVE  /\ (tab.flatIndex = k) <=> (k \in 1 .. n /\ tab.views[k] = "flat")
                 /\ (tab.treeIndex = k) <=> (k \in 1 .. n /\ tab.views[k] = "tree")
      BY <1>0, <2>3, <3>1 DEF Indexed
    <3>2. v # "flat" /\ v # "tree"
      OBVIOUS
    <3>3. ASSUME NEW k \in Nat \ {0}
          PROVE  /\ (new.flatIndex = k) <=> (k \in DOMAIN new.views /\ new.views[k] = "flat")
                 /\ (new.treeIndex = k) <=> (k \in DOMAIN new.views /\ new.views[k] = "tree")
      <4>1. CASE k = n + 1
        BY <1>0, <2>1, <3>1, <3>2, <4>1
      <4>2. CASE k # n + 1
        <5>1. k \in 1 .. n + 1 <=> k \in 1 .. n
          BY <1>0, <4>2
        <5>2. k \in 1 .. n => new.views[k] = tab.views[k]
          BY <2>1
        <5> QED BY <2>1, <3>1, <5>1, <5>2
      <4> QED BY <4>1, <4>2
    <3> QED BY <3>3 DEF Indexed
  <2> QED BY <1>1, <1>2, <2>2, <2>3
<1>8. CASE TreeOpened(t)
  <2>1. /\ DOMAIN new.views = 1 .. n + 1 /\ new.views[n + 1] = "tree"
        /\ \A i \in 1 .. n : new.views[i] = tab.views[i]
        /\ new.flatIndex = tab.flatIndex /\ new.treeIndex = n + 1
    BY <1>5, <1>8 DEF TreeOpened
  <2>2. tab.treeIndex = -1
    BY <1>8, TreeIsFor DEF TreeOpened
  <2>3. Ranged(t)'
    BY <1>0, <1>1, <2>1 DEF Ranged
  <2>4. ASSUME Indexed(t)
        PROVE  Indexed(t)'
    <3>1. ASSUME NEW k \in Nat \ {0}
          PROVE  /\ (tab.flatIndex = k) <=> (k \in 1 .. n /\ tab.views[k] = "flat")
                 /\ (tab.treeIndex = k) <=> (k \in 1 .. n /\ tab.views[k] = "tree")
      BY <1>0, <2>4, <3>1 DEF Indexed
    <3>2. ASSUME NEW k \in Nat \ {0}
          PROVE  /\ (new.flatIndex = k) <=> (k \in DOMAIN new.views /\ new.views[k] = "flat")
                 /\ (new.treeIndex = k) <=> (k \in DOMAIN new.views /\ new.views[k] = "tree")
      <4>1. CASE k = n + 1
        BY <1>0, <2>1, <3>1, <4>1
      <4>2. CASE k # n + 1
        <5>1. /\ k \in 1 .. n + 1 <=> k \in 1 .. n
              /\ new.treeIndex # k /\ tab.treeIndex # k
          BY <1>0, <2>1, <2>2, <4>2
        <5>2. k \in 1 .. n => new.views[k] = tab.views[k]
          BY <2>1
        <5> QED BY <2>1, <3>1, <5>1, <5>2
      <4> QED BY <4>1, <4>2
    <3> QED BY <3>2 DEF Indexed
  <2> QED BY <1>1, <1>2, <2>3, <2>4
<1>9. ASSUME NEW i \in DOMAIN tab.views, Closed(t, i)
      PROVE  Ranged(t)' /\ (t \notin innerClosed' => Indexed(t)')
  <2>1. Ranged(t)'
    BY <1>1, <1>9 DEF Closed, Ranged
  <2>2. ASSUME Indexed(t), t \notin innerClosed'
        PROVE  Indexed(t)'
    <3>1. i = n /\ n > 0
      BY <1>0, <1>9, <2>2 DEF Closed
    <3>2. DOMAIN new.views = 1 .. n - 1 /\ \A k \in 1 .. n - 1 : new.views[k] = tab.views[k]
      <4>1. tab.views # << >>
        BY <1>0, <3>1
      <4> QED BY <1>0, <1>9, <3>1, <4>1, LastRemoved DEF Closed
    <3>3. /\ new.flatIndex = IF tab.flatIndex = n THEN -1 ELSE tab.flatIndex
          /\ new.treeIndex = IF tab.treeIndex = n /\ tab.flatIndex # n THEN -1 ELSE tab.treeIndex
      BY <1>9, <3>1 DEF Closed
    <3>4. tab.treeIndex = n => tab.flatIndex # n
      BY <1>0, <2>2, <3>1 DEF Indexed
    <3>5. ASSUME NEW k \in Nat \ {0}
          PROVE  /\ (tab.flatIndex = k) <=> (k \in 1 .. n /\ tab.views[k] = "flat")
                 /\ (tab.treeIndex = k) <=> (k \in 1 .. n /\ tab.views[k] = "tree")
      BY <1>0, <2>2, <3>5 DEF Indexed
    <3>6. ASSUME NEW k \in Nat \ {0}
          PROVE  /\ (new.flatIndex = k) <=> (k \in DOMAIN new.views /\ new.views[k] = "flat")
                 /\ (new.treeIndex = k) <=> (k \in DOMAIN new.views /\ new.views[k] = "tree")
      <4>1. k \in 1 .. n - 1 \/ k \notin 1 .. n \/ k = n
        BY <1>0
      <4>2. CASE k \in 1 .. n - 1
        <5>1. k \in DOMAIN new.views /\ new.views[k] = tab.views[k] /\ k \in 1 .. n /\ k # n
          BY <1>0, <3>2, <4>2
        <5> QED BY <1>0, <3>3, <3>5, <5>1
      <4>3. CASE k \notin 1 .. n
        BY <1>0, <3>2, <3>3, <3>5, <4>3
      <4>4. CASE k = n
        <5>1. k \notin DOMAIN new.views
          BY <1>0, <3>2, <4>4
        <5>2. new.flatIndex # n /\ new.treeIndex # n
          BY <1>0, <3>3, <3>4
        <5> QED BY <4>4, <5>1, <5>2
      <4> QED BY <4>1, <4>2, <4>3, <4>4
    <3> QED BY <3>6 DEF Indexed
  <2> QED BY <1>1, <1>2, <2>1, <2>2
<1> QED BY <1>2, <1>3, <1>4, <1>6, <1>7, <1>8, <1>9 DEF ViewChange
-----------------------------------------------------------------------------
(* One main tree at a time.                                                *)

\* A step brings a job in flight only by starting it.
LEMMA InFlightAfter ==
  ASSUME Inv, [Next]_vars, quit = "no", quit' = "no", NEW j \in Jobs, InFlight(j)'
  PROVE  \/ InFlight(j) /\ jobs'[j].tab = jobs[j].tab /\ jobs'[j].main = jobs[j].main
         \/ Starts(j)
<1> DEFINE Stays == InFlight(j) /\ jobs'[j].tab = jobs[j].tab /\ jobs'[j].main = jobs[j].main
<1>0. TypeInv /\ EventInv /\ CountInv
  BY DEF Inv
<1>1. ASSUME jobs'[j] = jobs[j], IsPosted("treeModelReady", j)' => IsPosted("treeModelReady", j)
      PROVE  Stays
  BY <1>1 DEF InFlight
<1>2. ASSUME NEW e, Post(e), e.ev # "treeModelReady" \/ e.job # j
      PROVE  IsPosted("treeModelReady", j)' => IsPosted("treeModelReady", j)
  BY <1>0, <1>2, PostedAfter
<1>3. CASE UNCHANGED <<jobs, queue, m_TasksRunning>>
  BY <1>1, <1>3 DEF IsPosted, Posted
<1>4. ASSUME NEW k \in Jobs, Starts(k)
      PROVE  Stays \/ Starts(j)
  <2>1. CASE k # j
    <3>1. jobs'[j] = jobs[j] /\ queue' = queue
      BY <1>4, <2>1 DEF Starts
    <3> QED BY <1>1, <3>1 DEF IsPosted, Posted
  <2> QED BY <1>4, <2>1
<1>5. CASE m_TasksRunning = 0 /\ UNCHANGED <<jobs, m_TasksRunning>> /\ queue' = QueueWithout(current)
  <2>1. \A i \in DOMAIN queue : queue[i].ev = "symbolsResolved"
    BY <1>0, <1>5, NothingRuns
  <2>2. \A i \in DOMAIN queue' : queue'[i].ev = "symbolsResolved"
    BY <1>0, <1>5, <2>1, DroppedEvents
  <2>3. ~IsPosted("treeModelReady", j)'
    BY <2>2 DEF IsPosted, Posted
  <2> QED BY <1>1, <1>5, <2>3
<1>6. ASSUME NEW k \in Jobs,
             \/ JobGoes(k, "start", "build") /\ UNCHANGED queue
             \/ JobGoes(k, "build", "ready") /\ UNCHANGED queue
             \/ JobGoes(k, "count", "done") /\ UNCHANGED queue
      PROVE  Stays
  <2>1. IsPosted("treeModelReady", j)' => IsPosted("treeModelReady", j)
    BY <1>6 DEF IsPosted, Posted
  <2> QED BY <1>1, <1>6, <2>1 DEF JobGoes, InFlight
<1>7. ASSUME NEW k \in Jobs, JobGoes(k, "ready", "end"),
             Post([ev |-> "treeModelReady", to |-> jobs[k].tab, job |-> k])
      PROVE  Stays
  <2>1. CASE k = j
    BY <1>7, <2>1 DEF JobGoes, InFlight
  <2>2. CASE k # j
    <3>1. PICK e : e = [ev |-> "treeModelReady", to |-> jobs[k].tab, job |-> k]
      OBVIOUS
    <3>2. IsPosted("treeModelReady", j)' => IsPosted("treeModelReady", j)
      BY <1>2, <1>7, <2>2, <3>1
    <3> QED BY <1>1, <1>7, <2>2, <3>2 DEF JobGoes
  <2> QED BY <2>1, <2>2
<1>8. ASSUME NEW k \in Jobs, JobGoes(k, "end", "count"),
             Post([ev |-> "endLongTask", to |-> None, job |-> k])
      PROVE  Stays
  <2>1. PICK e : e = [ev |-> "endLongTask", to |-> None, job |-> k]
    OBVIOUS
  <2>2. IsPosted("treeModelReady", j)' => IsPosted("treeModelReady", j)
    BY <1>2, <1>8, <2>1
  <2> QED BY <1>1, <1>8, <2>2 DEF JobGoes, InFlight
<1>9. ASSUME NEW t \in Tabs, NEW ok \in BOOLEAN, UNCHANGED jobs,
              Post([ev |-> "symbolsResolved", to |-> t, ok |-> ok])
       PROVE  Stays
  <2>1. PICK e : e = [ev |-> "symbolsResolved", to |-> t, ok |-> ok]
    OBVIOUS
  <2>2. IsPosted("treeModelReady", j)' => IsPosted("treeModelReady", j)
    BY <1>2, <1>9, <2>1
  <2> QED BY <1>1, <1>9, <2>2
<1>10. CASE UNCHANGED jobs /\ queue # << >> /\ queue' = Tail(queue)
  BY <1>0, <1>1, <1>10, PostedAfterTaking
<1> QED BY <1>0, <1>3, <1>4, <1>5, <1>6, <1>7, <1>8, <1>9, <1>10, JobsAndQueue

\* It starts from the button of the tree profile, or from a view.
LEMMA WhoStarts ==
  ASSUME TypeInv, [Next]_vars, NEW j \in Jobs, Starts(j)
  PROVE  /\ jobs'[j].tab \in Tabs /\ jobs'[j].main \in BOOLEAN
         /\ jobs'[j].main => /\ tabs[jobs'[j].tab].treeButton /\ tabs[jobs'[j].tab].treeIndex = -1
                             /\ ~tabs'[jobs'[j].tab].treeButton /\ tabs'[jobs'[j].tab].treeIndex = -1
<1>0. jobs \in [Jobs -> JobRecord]
  BY DEF TypeInv
<1>1. jobs[j].pc = "unused" /\ jobs'[j].pc = "start"
  BY DEF Starts
<1>2. jobs' # jobs
  BY <1>1
<1>3. ASSUME NEW t \in Tabs, NEW main \in BOOLEAN, CreateTreeView(t, main)
      PROVE  jobs'[j].tab = t /\ jobs'[j].main = main
  <2>1. PICK k \in Jobs : jobs' = [jobs EXCEPT ![k] = [pc |-> "start", tab |-> t, map |-> 0, main |-> main]]
    BY <1>3, TreeSteps
  <2>2. k = j
    BY <1>0, <1>1, <2>1
  <2> QED BY <1>0, <2>1, <2>2
<1>4. ASSUME NEW t \in Tabs, OpenTreeProfile(t)
      PROVE  /\ jobs'[j].tab = t /\ jobs'[j].main = TRUE
             /\ tabs[t].treeButton /\ tabs[t].treeIndex = -1
             /\ ~tabs'[t].treeButton /\ tabs'[t].treeIndex = -1
  BY <1>3, <1>4, TreeTabs DEF OpenTreeProfile
<1>5. ASSUME NEW t \in Tabs, OpenReverseView(t)
      PROVE  jobs'[j].tab = t /\ jobs'[j].main = FALSE
  BY <1>3, <1>5 DEF OpenReverseView
<1>6. ASSUME NEW t \in Tabs, TabSlot(t) \/ ResolveTask(t)
      PROVE  FALSE
  BY <1>2, <1>6, TabSlotType DEF ResolveTask
<1>7. ASSUME NEW inside \in BOOLEAN, CloseTrace(inside)
      PROVE  FALSE
  BY <1>2, <1>7 DEF CloseTrace
<1>8. ~CloseWindow /\ ~QuitAction
  BY <1>2, ExitSteps
<1>9. ASSUME NEW k \in Jobs, JobNext(k)
      PROVE  FALSE
  <2>1. k # j /\ \A l \in Jobs \ {k} : jobs'[l] = jobs[l]
    BY <1>1, <1>9, JobSteps DEF JobGoes
  <2> QED BY <1>1, <2>1
<1>10. ~TreeModelReady /\ ~LongTaskFinished /\ ~SymbolsResolved /\ ~UNCHANGED vars
  BY <1>2 DEF TreeModelReady, LongTaskFinished, SymbolsResolved, vars
<1> QED BY <1>4, <1>5, <1>6, <1>7, <1>8, <1>9, <1>10, NextSteps

LEMMA MainPreserved ==
  ASSUME Inv, MainInv, [Next]_vars
  PROVE  MainInv'
<1> SUFFICES ASSUME quit' = "no"
             PROVE  MainInv'
  BY DEF MainInv
<1>0. TypeInv /\ EventInv /\ CountInv
  BY DEF Inv
<1>1. quit = "no"
  BY QuitStays
<1> DEFINE Mine(j) == jobs[j].main /\ InFlight(j)
<1>2. /\ \A j \in Jobs : Mine(j) => ~tabs[jobs[j].tab].treeButton /\ tabs[jobs[j].tab].treeIndex = -1
      /\ \A j, k \in Jobs : Mine(j) /\ Mine(k) /\ jobs[j].tab = jobs[k].tab => j = k
  BY <1>1 DEF MainInv
<1>3. ASSUME NEW j \in Jobs, jobs'[j].main, InFlight(j)'
      PROVE  \/ Mine(j) /\ jobs'[j].tab = jobs[j].tab
             \/ Starts(j)
  BY <1>1, <1>3, InFlightAfter
<1>4. ASSUME NEW j \in Jobs, jobs'[j].main, InFlight(j)'
      PROVE  ~tabs'[jobs'[j].tab].treeButton /\ tabs'[jobs'[j].tab].treeIndex = -1
  <2>1. CASE Starts(j)
    BY <1>0, <1>4, <2>1, WhoStarts
  <2>2. CASE Mine(j) /\ jobs'[j].tab = jobs[j].tab
    <3>1. PICK t \in Tabs : t = jobs[j].tab
      <4>1. jobs[j].pc # "unused"
        <5>1. ASSUME IsPosted("treeModelReady", j)
              PROVE  jobs[j].pc \in {"end", "count", "done"}
          BY <1>0, <5>1 DEF EventInv, IsPosted, Posted
        <5> QED BY <2>2, <5>1 DEF InFlight
      <4> QED BY <1>0, <4>1 DEF TypeInv
    <3>2. ~tabs[t].treeButton /\ tabs[t].treeIndex = -1
      BY <1>2, <2>2, <3>1
    <3>3. CASE TreeOpened(t)
      <4>1. /\ Head(queue).job \in Jobs /\ Mine(Head(queue).job) /\ jobs[Head(queue).job].tab = t
        BY <3>3, TreeIsFor DEF TreeOpened
      <4>2. Head(queue).job = j
        BY <1>2, <2>2, <3>1, <4>1
      <4>3. /\ queue # << >> /\ queue' = Tail(queue) /\ Head(queue).ev = "treeModelReady" /\ jobs' = jobs
        BY <1>0, <3>3, ReadySteps DEF TreeOpened
      <4>4. ~IsPosted("treeModelReady", j)'
        BY <1>0, <4>2, <4>3, PostedOnce
      <4>5. 1 \in DOMAIN queue /\ queue[1] = Head(queue)
        BY <1>0, <4>3, QueueTaken
      <4>6. jobs[j].pc \in {"end", "count", "done"}
        BY <1>0, <4>2, <4>3, <4>5 DEF EventInv
      <4> QED BY <1>4, <4>3, <4>4, <4>6 DEF InFlight
    <3>4. CASE Gone(t)
      <4>1. m_TasksRunning = 0
        BY <1>1, <3>4 DEF Gone
      <4> QED BY <1>0, <1>1, <2>2, <4>1, NothingRuns
    <3>5. CASE ViewsKept(t)
      BY <2>2, <3>1, <3>2, <3>5 DEF ViewsKept
    <3>6. CASE FlatOpened(t)
      BY <2>2, <3>1, <3>2, <3>6 DEF FlatOpened
    <3>7. ASSUME NEW v \in {"source", "reverse"}, OtherOpened(t, v)
          PROVE  ~tabs'[jobs'[j].tab].treeButton /\ tabs'[jobs'[j].tab].treeIndex = -1
      BY <2>2, <3>1, <3>2, <3>7 DEF OtherOpened
    <3>8. ASSUME NEW i \in DOMAIN tabs[t].views, Closed(t, i)
          PROVE  ~tabs'[jobs'[j].tab].treeButton /\ tabs'[jobs'[j].tab].treeIndex = -1
      BY <2>2, <3>1, <3>2, <3>8 DEF Closed
    <3> QED BY <1>0, <3>3, <3>4, <3>5, <3>6, <3>7, <3>8, StepViews DEF ViewChange
  <2> QED BY <1>3, <1>4, <2>1, <2>2
<1>5. ASSUME NEW j \in Jobs, jobs'[j].main, InFlight(j)', NEW k \in Jobs, jobs'[k].main, InFlight(k)',
             jobs'[j].tab = jobs'[k].tab, Starts(j)
      PROVE  j = k
  <2>1. tabs[jobs'[j].tab].treeButton
    BY <1>0, <1>5, WhoStarts
  <2>2. CASE Mine(k) /\ jobs'[k].tab = jobs[k].tab
    BY <1>2, <1>5, <2>1, <2>2
  <2>3. CASE Starts(k)
    <3>1. jobs[k].pc = "unused" /\ jobs'[k].pc = "start" /\ \A l \in Jobs \ {j} : jobs'[l] = jobs[l]
      BY <1>5, <2>3 DEF Starts
    <3> QED BY <3>1
  <2> QED BY <1>3, <1>5, <2>2, <2>3
<1>6. ASSUME NEW j \in Jobs, jobs'[j].main, InFlight(j)', NEW k \in Jobs, jobs'[k].main, InFlight(k)',
             jobs'[j].tab = jobs'[k].tab
      PROVE  j = k
  <2>1. CASE Starts(j)
    BY <1>5, <1>6, <2>1
  <2>2. CASE Starts(k)
    BY <1>5, <1>6, <2>2
  <2>3. CASE Mine(j) /\ jobs'[j].tab = jobs[j].tab /\ Mine(k) /\ jobs'[k].tab = jobs[k].tab
    BY <1>2, <1>6, <2>3
  <2> QED BY <1>3, <1>6, <2>1, <2>2, <2>3
<1> QED BY <1>4, <1>6 DEF MainInv

LEMMA ViewsInitially == Init => MainInv /\ IndexInv
<1> SUFFICES ASSUME Init
             PROVE  MainInv /\ IndexInv
  OBVIOUS
<1>1. MainInv
  BY DEF Init, MainInv, InFlight, IsPosted
<1>2. \A t \in Tabs : tabs[t] = NewTab
  BY DEF Init
<1>3. \A t \in Tabs : tabs[t].views = << >> /\ tabs[t].flatIndex = -1 /\ tabs[t].treeIndex = -1
  BY <1>2 DEF NewTab
<1>4. IndexInv
  BY <1>3 DEF IndexInv, Ranged, Indexed
<1> QED BY <1>1, <1>4

\* A kept index names the flat or the main tree view, and there is never a
\* second one, in any tab of which no view was closed that had another one
\* behind it, for any number of tabs, jobs and views
\* (TraceTab::openFlatProfile, openTreeProfile and tabCloseRequested).
THEOREM IndexNamesItsViewThere == Spec => []IndexNamesItsView
<1> DEFINE IInv == Inv /\ MainInv /\ IndexInv
<1>1. Init => IInv
  BY InvInitially, ViewsInitially
<1>2. IInv /\ [Next]_vars => IInv'
  <2> SUFFICES ASSUME IInv, [Next]_vars
               PROVE  IInv'
    OBVIOUS
  <2>1. Inv'
    BY InvPreserved
  <2>2. MainInv'
    BY MainPreserved
  <2>3. \A t \in Tabs : Ranged(t)' /\ (t \notin innerClosed' => Indexed(t)')
    BY IndexPreserved
  <2>4. IndexInv'
    BY <2>3 DEF IndexInv
  <2> QED BY <2>1, <2>2, <2>4
<1>3. IInv => IndexNamesItsView
  <2>1. \A i \in 1 .. MaxViews : i \in Nat \ {0}
    OBVIOUS
  <2> QED BY <2>1 DEF IndexInv, Indexed, IndexNamesItsView
<1> QED BY <1>1, <1>2, <1>3, PTL DEF Spec
=============================================================================
