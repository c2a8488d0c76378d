---------------------------- MODULE TraceViewer ----------------------------
(***************************************************************************)
(* The GUI (src/UI): MainWindow with its trace tabs, TraceTab with its     *)
(* views, TraceData with its mapped file, and the background jobs that     *)
(* build call trees and resolve symbols.                                   *)
(*                                                                         *)
(* A slot runs in the GUI thread, in one step. Jobs run in threads of      *)
(* their own and reach the GUI thread through its event queue. Deleting a  *)
(* tab deletes its TraceData and drops the events that are on their way to *)
(* either, and waits for nobody. A step that uses memory that is gone may  *)
(* end the program or go on.                                               *)
(*                                                                         *)
(* Abstracted: what the file and the views contain, up to whether names    *)
(* are resolved; texts, cursors and the tab that is in front inside a      *)
(* TraceTab.                                                               *)
(***************************************************************************)
EXTENDS Integers, Sequences, SequencesExt, FiniteSets, Subsequences

CONSTANTS
  Tabs,       \* TraceTab objects
  Jobs,       \* calls of doCreateTreeView
  MaxViews,   \* bound on the views of one tab
  MaxMaps,    \* bound on the times one file is mapped
  None

ASSUME JobsAssumption == IsFiniteSet(Jobs)
ASSUME NoneAssumption == None \notin Tabs

VARIABLES
  tabs,             \* tabs[t]: the TraceTab and its TraceData
  current,          \* the tab in front, or None
  m_TasksRunning,
  jobs,             \* jobs[j]: a tree job
  resolving,        \* the tabs whose symbolResolveTask is running
  queue,            \* the event queue of the GUI thread
  crashed,
  quit,             \* how the program was left: "no", "window" or "menu"
  innerClosed       \* history: tabs that lost a view with another one behind it

vars == <<tabs, current, m_TasksRunning, jobs, resolving, queue, crashed, quit, innerClosed>>

View == {"flat", "tree", "reverse", "source"}
JobPc == {"unused", "start", "build", "ready", "end", "count", "done"}

TypeOK ==
  /\ \A t \in Tabs :
       /\ tabs[t].state \in {"none", "loading", "failed", "open", "deleted"}
       /\ tabs[t].map \in 0 .. MaxMaps
       /\ tabs[t].views \in Seq(View) /\ Len(tabs[t].views) <= MaxViews
       /\ tabs[t].flatIndex \in {-1} \cup 1 .. MaxViews
       /\ tabs[t].treeIndex \in {-1} \cup 1 .. MaxViews
       /\ tabs[t].pending \in 0 .. Cardinality(Jobs)
       /\ {tabs[t].resolved, tabs[t].flatNamed, tabs[t].treeButton, tabs[t].resolveButton} \subseteq BOOLEAN
  /\ current \in Tabs \cup {None}
  /\ m_TasksRunning \in 0 .. Cardinality(Jobs)
  /\ \A j \in Jobs : jobs[j].pc \in JobPc /\ jobs[j].map \in 0 .. MaxMaps
  /\ resolving \subseteq Tabs
  /\ quit \in {"no", "window", "menu"}

NewTab == [state |-> "none",
           map |-> 0,           \* which mapping m_Data points into, 0 for none
           resolved |-> FALSE,  \* isResolved
           views |-> << >>,
           flatIndex |-> -1, treeIndex |-> -1,
           flatNamed |-> FALSE, \* FlatModel has rows, which have names
           pending |-> 0,
           treeButton |-> TRUE, resolveButton |-> TRUE]

Init ==
  /\ tabs = [t \in Tabs |-> NewTab]
  /\ current = None
  /\ m_TasksRunning = 0
  /\ jobs = [j \in Jobs |-> [pc |-> "unused", tab |-> None, map |-> 0, main |-> FALSE]]
  /\ resolving = {}
  /\ queue = << >>
  /\ crashed = FALSE
  /\ quit = "no"
  /\ innerClosed = {}

Exists(t) == tabs[t].state \in {"loading", "failed", "open"}
Open(t) == ~crashed /\ tabs[t].state = "open"

\* A use of an object: fatal, perhaps, if the object is gone.
Uses(alive) == IF alive THEN UNCHANGED crashed ELSE crashed' \in BOOLEAN
-----------------------------------------------------------------------------
(* MainWindow::openTrace and TraceData::beginLoadTrace. The file may have  *)
(* been resolved in an earlier session.                                    *)

OpenTrace(t) ==
  /\ ~crashed /\ quit = "no"
  /\ tabs[t].state = "none"
  /\ \/ tabs' = [tabs EXCEPT ![t].state = "failed"]
     \/ \E r \in BOOLEAN :
          tabs' = [tabs EXCEPT ![t] = [@ EXCEPT !.state = "loading", !.map = 1, !.resolved = r]]
  /\ current' = IF current = None THEN t ELSE current
  /\ UNCHANGED <<m_TasksRunning, jobs, resolving, queue, crashed, quit, innerClosed>>

\* The timer of beginLoadTrace fires.
LoadSucceeded(t) ==
  /\ ~crashed
  /\ tabs[t].state = "loading"
  /\ tabs' = [tabs EXCEPT ![t].state = "open"]
  /\ UNCHANGED <<current, m_TasksRunning, jobs, resolving, queue, crashed, quit, innerClosed>>

SelectTab(t) ==
  /\ ~crashed
  /\ Exists(t)
  /\ current' = t
  /\ UNCHANGED <<tabs, m_TasksRunning, jobs, resolving, queue, crashed, quit, innerClosed>>

\* The events that are left when t is deleted.
QueueWithout(t) == Selected(queue, {i \in DOMAIN queue : queue[i].to # t})

\* Mutant: the count of running tasks is not looked at.
CloseTraceAnyTime(inside) ==
  /\ ~crashed
  /\ current # None
  /\ inside => tabs[current].state = "open"
  /\ tabs' = [tabs EXCEPT ![current] = [NewTab EXCEPT !.state = "deleted"]]
  /\ queue' = QueueWithout(current)
  /\ \E t \in Tabs \cup {None} :
       /\ IF t = None THEN \A x \in Tabs : ~Exists(x) \/ x = current
                      ELSE Exists(t) /\ t # current
       /\ current' = t
  /\ Uses(~inside)
  /\ UNCHANGED <<m_TasksRunning, jobs, resolving, quit, innerClosed>>

\* MainWindow::closeTrace deletes the tab in front. It is called by the tab
\* bar, or (inside) by TraceTab::tabCloseRequested of the tab itself, which
\* then goes on to read its own members.
CloseTrace(inside) ==
  /\ ~crashed
  /\ current # None
  /\ m_TasksRunning = 0
  /\ inside => tabs[current].state = "open"
  /\ tabs' = [tabs EXCEPT ![current] = [NewTab EXCEPT !.state = "deleted"]]
  /\ queue' = QueueWithout(current)
  /\ \E t \in Tabs \cup {None} :
       /\ IF t = None THEN \A x \in Tabs : ~Exists(x) \/ x = current
                      ELSE Exists(t) /\ t # current
       /\ current' = t
  /\ Uses(~inside)
  /\ UNCHANGED <<m_TasksRunning, jobs, resolving, quit, innerClosed>>

\* The event loop ends; main deletes the window and its tabs, and the
\* application then waits for the jobs.
Exit(how) ==
  /\ ~crashed /\ quit = "no"
  /\ quit' = how
  /\ tabs' = [t \in Tabs |-> IF Exists(t) THEN [NewTab EXCEPT !.state = "deleted"] ELSE tabs[t]]
  /\ queue' = << >>
  /\ current' = None
  /\ UNCHANGED <<m_TasksRunning, jobs, resolving, crashed, innerClosed>>

\* The window is closed: closeEvent refuses while tasks are running.
CloseWindow == m_TasksRunning = 0 /\ Exit("window")

\* m_QuitAction is connected to QApplication::quit, which asks nobody.
QuitAction == Exit("menu")
-----------------------------------------------------------------------------
(* The views of a tab. View i is at index i of m_TabWidget; index 0 is the *)
(* summary page.                                                           *)

\* The views a tab has, or will have when its jobs are done.
Expected(t) == Len(tabs[t].views)
                 + Cardinality({j \in Jobs : jobs[j].tab = t /\ jobs[j].pc \in {"start", "build", "ready"}})
                 + Cardinality({i \in DOMAIN queue : queue[i].ev = "treeModelReady" /\ queue[i].to = t})

WithView(tab, v) == [tab EXCEPT !.views = Append(@, v)]

\* When the view exists it only comes to the front.
OpenFlatProfile(t) ==
  /\ Open(t)
  /\ tabs[t].flatIndex = -1
  /\ Expected(t) < MaxViews
  /\ tabs' = [tabs EXCEPT ![t] =
       [WithView(tabs[t], "flat") EXCEPT !.flatIndex = Len(tabs[t].views) + 1,
                                   !.flatNamed = tabs[t].resolved]]
  /\ UNCHANGED <<current, m_TasksRunning, jobs, resolving, queue, crashed, quit, innerClosed>>

\* doCreateTreeView, with MainWindow::longTaskStarted.
CreateTreeView(t, main) ==
  /\ Open(t)
  /\ Expected(t) < MaxViews
  /\ \E j \in Jobs :
       /\ jobs[j].pc = "unused"
       /\ jobs' = [jobs EXCEPT ![j] = [pc |-> "start", tab |-> t, map |-> 0, main |-> main]]
  /\ m_TasksRunning' = m_TasksRunning + 1
  /\ tabs' = [tabs EXCEPT ![t].pending = @ + 1,
                          ![t].treeButton = IF main THEN FALSE ELSE @]
  /\ UNCHANGED <<current, resolving, queue, crashed, quit, innerClosed>>

OpenTreeProfile(t) ==
  /\ tabs[t].treeButton
  /\ tabs[t].treeIndex = -1
  /\ CreateTreeView(t, TRUE)

\* From a view that shows symbols.
OpenReverseView(t) ==
  /\ \E i \in DOMAIN tabs[t].views : tabs[t].views[i] # "source"
  /\ CreateTreeView(t, FALSE)

OpenAnnotation(t) ==
  /\ Open(t)
  /\ tabs[t].resolved
  /\ \E i \in DOMAIN tabs[t].views : tabs[t].views[i] # "source"
  /\ Expected(t) < MaxViews
  /\ tabs' = [tabs EXCEPT ![t] = WithView(tabs[t], "source")]
  /\ UNCHANGED <<current, m_TasksRunning, jobs, resolving, queue, crashed, quit, innerClosed>>

\* Mutant: only the flat profile's index is reset.
CloseViewKeepsTreeIndex(t, i) ==
  /\ Open(t)
  /\ i \in DOMAIN tabs[t].views
  /\ tabs' = [tabs EXCEPT ![t] =
       [tabs[t] EXCEPT
          !.views = RemoveAt(@, i),
          !.flatIndex = IF @ = i THEN -1 ELSE @,
          !.flatNamed = @ /\ tabs[t].views[i] # "flat"]]
  /\ innerClosed' = IF i < Len(tabs[t].views) THEN innerClosed \cup {t} ELSE innerClosed
  /\ UNCHANGED <<current, m_TasksRunning, jobs, resolving, queue, crashed, quit>>

\* tabCloseRequested: the views behind the closed one move up; the indices
\* that were kept do not.
CloseView(t, i) ==
  /\ Open(t)
  /\ i \in DOMAIN tabs[t].views
  /\ tabs' = [tabs EXCEPT ![t] =
       [tabs[t] EXCEPT
          !.views = RemoveAt(@, i),
          !.flatIndex = IF @ = i THEN -1 ELSE @,
          !.treeIndex = IF @ = i /\ tabs[t].flatIndex # i THEN -1 ELSE @,
          !.flatNamed = @ /\ tabs[t].views[i] # "flat"]]
  /\ innerClosed' = IF i < Len(tabs[t].views) THEN innerClosed \cup {t} ELSE innerClosed
  /\ UNCHANGED <<current, m_TasksRunning, jobs, resolving, queue, crashed, quit>>
-----------------------------------------------------------------------------
(* A tree job.                                                             *)

JobStep(j, from, to) ==
  /\ ~crashed
  /\ jobs[j].pc = from
  /\ jobs' = [jobs EXCEPT ![j].pc = to]

\* After the end of the event loop there is nobody to post to.
Post(e) == queue' = IF quit = "no" THEN Append(queue, e) ELSE queue

\* createTree takes pointers into the mapped file.
StartBuild(j) ==
  /\ ~crashed
  /\ jobs[j].pc = "start"
  /\ jobs' = [jobs EXCEPT ![j] = [@ EXCEPT !.pc = "build", !.map = tabs[jobs[j].tab].map]]
  /\ Uses(Exists(jobs[j].tab))
  /\ UNCHANGED <<tabs, current, m_TasksRunning, resolving, queue, quit, innerClosed>>

\* It has read through them to the end.
Build(j) ==
  /\ JobStep(j, "build", "ready")
  /\ Uses(Exists(jobs[j].tab) /\ tabs[jobs[j].tab].map = jobs[j].map)
  /\ UNCHANGED <<tabs, current, m_TasksRunning, resolving, queue, quit, innerClosed>>

EmitReady(j) ==
  /\ JobStep(j, "ready", "end")
  /\ Post([ev |-> "treeModelReady", to |-> jobs[j].tab, job |-> j])
  /\ Uses(Exists(jobs[j].tab))
  /\ UNCHANGED <<tabs, current, m_TasksRunning, resolving, quit, innerClosed>>

\* Mutant: the end of the task is not reported.
EmitEndNot(j) ==
  /\ JobStep(j, "end", "count")
  /\ Uses(Exists(jobs[j].tab))
  /\ UNCHANGED <<tabs, current, m_TasksRunning, resolving, queue, quit, innerClosed>>

EmitEnd(j) ==
  /\ JobStep(j, "end", "count")
  /\ Post([ev |-> "endLongTask", to |-> None, job |-> j])
  /\ Uses(Exists(jobs[j].tab))
  /\ UNCHANGED <<tabs, current, m_TasksRunning, resolving, quit, innerClosed>>

CountDown(j) ==
  /\ JobStep(j, "count", "done")
  /\ IF Exists(jobs[j].tab) THEN tabs' = [tabs EXCEPT ![jobs[j].tab].pending = @ - 1]
                            ELSE UNCHANGED tabs
  /\ Uses(Exists(jobs[j].tab))
  /\ UNCHANGED <<current, m_TasksRunning, resolving, queue, quit, innerClosed>>

JobNext(j) == StartBuild(j) \/ Build(j) \/ EmitReady(j) \/ EmitEnd(j) \/ CountDown(j)
-----------------------------------------------------------------------------
(* Symbol resolution.                                                      *)

ResolveSymbolsClicked(t) ==
  /\ Open(t)
  /\ tabs[t].resolveButton
  /\ tabs[t].map < MaxMaps
  /\ tabs' = [tabs EXCEPT ![t].resolveButton = FALSE]
  /\ resolving' = resolving \cup {t}
  /\ UNCHANGED <<current, m_TasksRunning, jobs, queue, crashed, quit, innerClosed>>

\* symbolResolveTask reads the mapped file and reports to its TraceData. A
\* failed one has no symbols.
ResolveTask(t) ==
  /\ ~crashed
  /\ t \in resolving
  /\ resolving' = resolving \ {t}
  /\ IF Exists(t) THEN \E ok \in BOOLEAN : Post([ev |-> "symbolsResolved", to |-> t, ok |-> ok])
                  ELSE UNCHANGED queue
  /\ Uses(Exists(t))
  /\ UNCHANGED <<tabs, current, m_TasksRunning, jobs, quit, innerClosed>>
-----------------------------------------------------------------------------
(* The GUI thread takes the next event.                                    *)

Takes(ev) == ~crashed /\ queue # << >> /\ Head(queue).ev = ev /\ queue' = Tail(queue)

\* Mutant: the button stays disabled.
TreeModelReadyNoButton ==
  /\ Takes("treeModelReady")
  /\ LET t == Head(queue).to
         main == jobs[Head(queue).job].main
     IN  tabs' = [tabs EXCEPT ![t] =
           IF main THEN [WithView(tabs[t], "tree") EXCEPT !.treeIndex = Len(tabs[t].views) + 1]
           ELSE WithView(tabs[t], "reverse")]
  /\ UNCHANGED <<current, m_TasksRunning, jobs, resolving, crashed, quit, innerClosed>>

\* createViewFromTreeModel
TreeModelReady ==
  /\ Takes("treeModelReady")
  /\ LET t == Head(queue).to
         main == jobs[Head(queue).job].main
     IN  tabs' = [tabs EXCEPT ![t] =
           IF main THEN [WithView(tabs[t], "tree") EXCEPT !.treeIndex = Len(tabs[t].views) + 1,
                                                    !.treeButton = TRUE]
           ELSE WithView(tabs[t], "reverse")]
  /\ UNCHANGED <<current, m_TasksRunning, jobs, resolving, crashed, quit, innerClosed>>

LongTaskFinished ==
  /\ Takes("endLongTask")
  /\ m_TasksRunning' = m_TasksRunning - 1
  /\ UNCHANGED <<tabs, current, jobs, resolving, crashed, quit, innerClosed>>

\* TraceData::symbolsResolved: the file grows and is mapped again, FlatModel
\* reads it anew, with the header it still has, and the new header is written;
\* then TraceTab::symbolResolutionCompleted.
SymbolsResolved ==
  /\ Takes("symbolsResolved")
  /\ LET t == Head(queue).to
     IN  tabs' = [tabs EXCEPT ![t] =
           [tabs[t] EXCEPT
              !.map = @ + 1, !.resolveButton = TRUE,
              !.flatNamed = tabs[t].resolved /\ Contains(tabs[t].views, "flat"),
              !.resolved = Head(queue).ok]]
  /\ UNCHANGED <<current, m_TasksRunning, jobs, resolving, crashed, quit, innerClosed>>

HandleEvent == TreeModelReady \/ LongTaskFinished \/ SymbolsResolved
-----------------------------------------------------------------------------
User ==
  \/ \E t \in Tabs :
       \/ OpenTrace(t) \/ SelectTab(t) \/ OpenFlatProfile(t) \/ OpenTreeProfile(t)
       \/ OpenReverseView(t) \/ OpenAnnotation(t) \/ ResolveSymbolsClicked(t)
       \/ \E i \in 1 .. MaxViews : CloseView(t, i)
  \/ \E inside \in BOOLEAN : CloseTrace(inside)
  \/ CloseWindow \/ QuitAction

Next ==
  \/ User
  \/ HandleEvent
  \/ \E t \in Tabs : LoadSucceeded(t) \/ ResolveTask(t)
  \/ \E j \in Jobs : JobNext(j)

Spec == Init /\ [][Next]_vars

\* The thread pool runs every job and the GUI thread empties its queue.
FairSpec ==
  /\ Spec
  /\ WF_vars(HandleEvent)
  /\ \A j \in Jobs : WF_vars(JobNext(j))
  /\ \A t \in Tabs : WF_vars(ResolveTask(t))
-----------------------------------------------------------------------------
Deletes(t) == tabs[t].state # "deleted" /\ tabs'[t].state = "deleted"

\* A tab is never deleted before its last tree job has handed over its result
\* and reported its end: longTaskStarted counts the job in before it starts,
\* and its end reaches the main window behind its result (doCreateTreeView,
\* MainWindow::closeTrace and closeEvent). What the job does after that, it does
\* on its own, and the menu's quit waits for no job at all.
TabOutlivesItsTrees ==
  [][\A t \in Tabs : Deletes(t) /\ quit' # "menu" =>
       \A j \in Jobs : jobs[j].tab = t =>
         /\ jobs[j].pc \in {"count", "done"}
         /\ \A i \in DOMAIN queue : queue[i].ev # "treeModelReady"]_vars

\* m_FlatProfileTabIndex and m_TreeProfileTabIndex are the indices of the flat
\* and of the main tree view, and -1 when there is none, so that a click on
\* their button shows them and never makes a second one; as long as the user
\* closes no view that has another one behind it (TraceTab::tabCloseRequested).
IndexNamesItsView ==
  \A t \in Tabs \ innerClosed :
    \A i \in 1 .. MaxViews :
      /\ (tabs[t].flatIndex = i) <=> (i \in DOMAIN tabs[t].views /\ tabs[t].views[i] = "flat")
      /\ (tabs[t].treeIndex = i) <=> (i \in DOMAIN tabs[t].views /\ tabs[t].views[i] = "tree")

\* Every tree job that is counted in is counted out again, so that tabs and
\* program can be closed (MainWindow::longTaskFinished).
TasksFinish == []<>(crashed \/ quit # "no" \/ m_TasksRunning = 0)

\* The button that openTreeProfile disables is enabled again, and so is the one
\* that resolveSymbolsClicked disables.
ButtonsComeBack ==
  \A t \in Tabs :
    /\ ~tabs[t].treeButton ~> (crashed \/ tabs[t].treeButton)
    /\ ~tabs[t].resolveButton ~> (crashed \/ tabs[t].resolveButton)
=============================================================================
