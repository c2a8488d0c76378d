--------------------------- MODULE CaptureArming ---------------------------
(***************************************************************************)
(* How CacheSimStartCapture sets the trap flag of every mapped thread.     *)
(*                                                                         *)
(* Linux (CacheSimLinux.cpp): a process can not ptrace itself, so a forked *)
(* helper attaches to the threads of its parent, arms them and detaches    *)
(* while the parent enables the capture, installs the handler, allows the  *)
(* helper to attach, and waits.                                            *)
(* Windows (CacheSimWindows.cpp): the caller suspends the other threads,   *)
(* arms them and resumes them.                                             *)
(*                                                                         *)
(* Threads trap, look themselves up in the table of CoreMappings and exit  *)
(* in between. What a trap records is in CaptureRuntime.                   *)
(***************************************************************************)
EXTENDS CoreMappings, FiniteSets

CONSTANTS
  Caller,         \* the thread that starts and ends captures
  Scenarios       \* the systems and the bounds to look at

\* platform: "linux" or "windows"; ptraceScope: on Linux, only a process named
\* by PR_SET_PTRACER may attach; others: child processes of the application's
\* own; mapped: the threads in the table at first; and the bounds sets, exits
\* and captures: how often a mapping is set, a thread exits, a capture starts.
Scenario == [platform : {"linux", "windows"}, ptraceScope : BOOLEAN, others : Nat,
             mapped : Seq(Threads), sets : Nat, exits : Nat, captures : Nat]

ASSUME CallerAssumption == Caller \in Threads
ASSUME ScenarioAssumption ==
  \A s \in Scenarios : /\ s \in Scenario /\ Len(s.mapped) <= Capacity
                       /\ \A i, j \in DOMAIN s.mapped : s.mapped[i] = s.mapped[j] => i = j

VARIABLES
  scenario,
  g_Generation, g_TraceEnabled,
  g_SignalHandlerInstalled,   \* Windows: trampoline_installed
  start,          \* the caller's position in CacheSimStartCapture
  helper,         \* Linux: the forked child
  others,         \* Linux: other children, [alive |-> n, zombie |-> n]
  trapFlag,
  m_Generation,   \* thread local
  held,           \* held[t]: how often t is stopped or suspended
  exited,
  wanted,         \* history: threads mapped since the start was called
  excused         \* history: <<t, why>>, t need not be armed by this start

armingVars == <<scenario, g_Generation, g_TraceEnabled,
                g_SignalHandlerInstalled, start, helper, others, trapFlag,
                m_Generation, held, exited, wanted, excused>>
vars == <<mappingVars, armingVars>>

Idle == [pc |-> "none", i |-> 0, count |-> 0, handles |-> << >>]
NoHelper == [pc |-> "none", i |-> 0, ids |-> << >>, tids |-> << >>, permitted |-> FALSE]

Init ==
  /\ scenario \in Scenarios
  /\ MappingInit(scenario.mapped, scenario.sets)
  /\ g_Generation = 1
  /\ g_TraceEnabled = FALSE
  /\ g_SignalHandlerInstalled = FALSE
  /\ start = Idle
  /\ helper = NoHelper
  /\ others = [alive |-> scenario.others, zombie |-> 0]
  /\ trapFlag = [t \in Threads |-> FALSE]
  /\ m_Generation = [t \in Threads |-> 0]
  /\ held = [t \in Threads |-> 0]
  /\ exited = {}
  /\ wanted = {}
  /\ excused = {}

Linux == scenario.platform = "linux"
Runs(t) == ~broke /\ held[t] = 0 /\ t \notin exited
-----------------------------------------------------------------------------
(* What the application's threads do meanwhile.                            *)

\* A mapping that is removed takes the thread from those the start must arm;
\* a removal while Windows walks the table can make it overlook another.
SetMapping(t, c) ==
  /\ ~broke
  /\ SetThreadCoreMapping(t, c) \/ TableFull(t, c)
  /\ wanted' = IF c = -1 THEN wanted \ {t} ELSE wanted
  /\ excused' = IF Removes(t, c) /\ start.pc = "open"
                THEN excused \cup (Threads \X {"moved"}) ELSE excused
  /\ UNCHANGED <<scenario, g_Generation, g_TraceEnabled,
                 g_SignalHandlerInstalled, start, helper, others, trapFlag,
                 m_Generation, held, exited>>

Store == ~broke /\ StoreNext /\ UNCHANGED armingVars

ExitThread(t) ==
  /\ Runs(t) /\ finding[t] = NoCall /\ t # Caller
  /\ exited' = exited \cup {t}
  /\ trapFlag' = [trapFlag EXCEPT ![t] = FALSE]
  /\ UNCHANGED <<mappingVars, scenario, g_Generation, g_TraceEnabled,
                 g_SignalHandlerInstalled, start, helper, others, m_Generation,
                 held, wanted, excused>>

OtherExits ==
  /\ others.alive > 0
  /\ others' = [alive |-> others.alive - 1, zombie |-> others.zombie + 1]
  /\ UNCHANGED <<mappingVars, scenario, g_Generation, g_TraceEnabled,
                 g_SignalHandlerInstalled, start, helper, trapFlag,
                 m_Generation, held, exited, wanted, excused>>
-----------------------------------------------------------------------------
(* A thread's trap: HandleTrap, StepFilter.                                *)

TrapVars == <<scenario, g_Generation, g_TraceEnabled,
              g_SignalHandlerInstalled, start, helper, others, held, exited,
              wanted>>
Traps(t) == Runs(t) /\ trapFlag[t] /\ finding[t] = NoCall

\* Nobody handles the exception: the program ends.
TrapUnhandled(t) ==
  /\ Traps(t)
  /\ ~g_SignalHandlerInstalled
  /\ broke' = TRUE
  /\ UNCHANGED <<s_CoreMappings, s_CoreMappingCount, setting, finding,
                 m_LogicalCoreIndex, mapping, setsLeft, trapFlag, m_Generation, excused, TrapVars>>

\* Linux: without a capture the flag is cleared first of all. A start that is
\* still on its way to enabling the capture loses the thread by that.
TrapNotTracing(t) ==
  /\ Traps(t) /\ g_SignalHandlerInstalled
  /\ Linux /\ ~g_TraceEnabled
  /\ trapFlag' = [trapFlag EXCEPT ![t] = FALSE]
  /\ excused' = IF start.pc = "none" THEN excused ELSE excused \cup {<<t, "early">>}
  /\ UNCHANGED <<mappingVars, m_Generation, TrapVars>>

Looks(t) == ~Linux \/ g_TraceEnabled

\* A new generation: look the core up again.
TrapLookup(t) ==
  /\ Traps(t) /\ g_SignalHandlerInstalled /\ Looks(t)
  /\ m_Generation[t] # g_Generation
  /\ FindCount(t)
  /\ UNCHANGED <<armingVars>>

TrapFind(t) == Runs(t) /\ FindId(t) /\ UNCHANGED armingVars

\* Windows clears the flag when it delivers the exception; StepFilter sets it
\* again for a thread it records. Linux leaves it alone.
FlagAfter(t, core) ==
  IF Linux THEN trapFlag[t] ELSE g_TraceEnabled /\ core >= 0

TrapFound(t) ==
  /\ Runs(t)
  /\ FindReturn(t)
  /\ m_Generation' = [m_Generation EXCEPT ![t] = g_Generation]
  /\ trapFlag' = [trapFlag EXCEPT ![t] = FlagAfter(t, FoundCore(t))]
  /\ excused' = IF finding[t].moved /\ start.pc # "none" THEN excused \cup {<<t, "moved">>} ELSE excused
  /\ UNCHANGED TrapVars

\* The same generation: the thread is traced, or on Windows let go.
TrapAgain(t) ==
  /\ Traps(t) /\ g_SignalHandlerInstalled /\ Looks(t)
  /\ m_Generation[t] = g_Generation
  /\ trapFlag' = [trapFlag EXCEPT ![t] = FlagAfter(t, m_LogicalCoreIndex[t])]
  /\ trapFlag' # trapFlag
  /\ UNCHANGED <<mappingVars, m_Generation, excused, TrapVars>>
-----------------------------------------------------------------------------
(* CacheSimStartCapture, the part that both systems share.                 *)

CallerVars == <<scenario, others, exited, m_Generation>>

Goes(from, to) ==
  /\ Runs(Caller) /\ finding[Caller] = NoCall
  /\ start.pc = from
  /\ start' = [start EXCEPT !.pc = to, !.i = 0]

\* The history is that of the start under way.
Returned == wanted' = {} /\ excused' = {}

\* The helper is a copy of the process: it has the table as it is now.
Forked == [NoHelper EXCEPT !.pc = "attach",
             !.ids = [i \in 1 .. s_CoreMappingCount |-> s_CoreMappings[i - 1].id]]

\* A capture that is on, and on Windows a debugger, make the call return false
\* without more. Captures follow each other here only when every thread has
\* taken its last trap; CaptureRuntime has those that do not, and g_Cache.Init().
\* Windows reads the count of the loop that follows.
Start ==
  /\ ~g_TraceEnabled
  /\ g_Generation <= scenario.captures
  /\ \A t \in Threads : ~trapFlag[t]
  /\ Runs(Caller) /\ finding[Caller] = NoCall
  /\ start.pc = "none"
  /\ start' = IF Linux THEN [Idle EXCEPT !.pc = "generation"]
              ELSE [Idle EXCEPT !.pc = "open", !.count = s_CoreMappingCount]
  /\ helper' = IF Linux THEN Forked ELSE helper
  /\ wanted' = {t \in Threads \ exited : mapping[t] >= 0
                  /\ (setting # NoCall => ~(setting.id = t /\ setting.core = -1))}
  /\ excused' = IF ~Linux /\ setting # NoCall /\ setting.removes
                THEN Threads \X {"moved"} ELSE {}
  /\ UNCHANGED <<mappingVars, CallerVars, g_Generation, g_TraceEnabled,
                 g_SignalHandlerInstalled, trapFlag, held>>

\* Mutant: the helper is let in before the capture is enabled.
IncrementGenerationPermits ==
  /\ Goes("generation", "enable")
  /\ g_Generation' = g_Generation + 1
  /\ helper' = [helper EXCEPT !.permitted = helper.pc # "none"]
  /\ UNCHANGED <<mappingVars, CallerVars, g_TraceEnabled, g_SignalHandlerInstalled,
                 trapFlag, held, wanted, excused>>

IncrementGeneration ==
  /\ Goes("generation", "enable")
  /\ g_Generation' = g_Generation + 1
  /\ UNCHANGED <<mappingVars, CallerVars, g_TraceEnabled, g_SignalHandlerInstalled,
                 helper, trapFlag, held, wanted, excused>>

EnableTrace ==
  /\ Goes("enable", "handler")
  /\ g_TraceEnabled' = TRUE
  /\ UNCHANGED <<mappingVars, CallerVars, g_Generation, g_SignalHandlerInstalled,
                 helper, trapFlag, held, wanted, excused>>

\* sigaction, or the jump that is written over RtlpCallVectoredHandlers: once,
\* and it stays.
InstallHandler ==
  /\ Goes("handler", IF Linux THEN "ptracer" ELSE "arm")
  /\ g_SignalHandlerInstalled' = TRUE
  /\ UNCHANGED <<mappingVars, CallerVars, g_Generation, g_TraceEnabled, helper,
                 trapFlag, held, wanted, excused>>

\* CacheSimEndCapture as far as the flags go: the caller clears its own, the
\* others clear theirs in their next trap.
EndCapture ==
  /\ start.pc = "none" /\ g_TraceEnabled
  /\ Runs(Caller) /\ finding[Caller] = NoCall
  /\ g_TraceEnabled' = FALSE
  /\ trapFlag' = [trapFlag EXCEPT ![Caller] = FALSE]
  /\ UNCHANGED <<mappingVars, CallerVars, g_Generation, g_SignalHandlerInstalled,
                 start, helper, held, wanted, excused>>

\* Nothing is removed on Windows. On Linux a thread that has yet to take its
\* last trap needs the handler: the application waits for that.
CacheSimRemoveHandler ==
  /\ Linux
  /\ start.pc = "none" /\ ~g_TraceEnabled /\ \A t \in Threads : ~trapFlag[t]
  /\ Runs(Caller)
  /\ g_SignalHandlerInstalled /\ g_SignalHandlerInstalled' = FALSE
  /\ UNCHANGED <<mappingVars, CallerVars, g_Generation, g_TraceEnabled, start,
                 helper, trapFlag, held, wanted, excused>>
-----------------------------------------------------------------------------
(* Linux, the parent.                                                      *)

\* PR_SET_DUMPABLE and PR_SET_PTRACER
SetPtracer ==
  /\ Goes("ptracer", "wait1")
  /\ helper' = [helper EXCEPT !.permitted = helper.pc # "none"]
  /\ UNCHANGED <<mappingVars, CallerVars, g_Generation, g_TraceEnabled,
                 g_SignalHandlerInstalled, trapFlag, held, wanted, excused>>

Zombies == others.zombie > 0 \/ helper.pc = "zombie"
Childless == others.alive = 0 /\ others.zombie = 0 /\ helper.pc = "none"

\* wait(): any child that has ended; ECHILD when there is none.
Wait(from, to) ==
  /\ Goes(from, to)
  /\ \/ /\ Childless
        /\ UNCHANGED <<others, helper>>
     \/ /\ others.zombie > 0
        /\ others' = [others EXCEPT !.zombie = @ - 1]
        /\ UNCHANGED helper
     \/ /\ helper.pc = "zombie"
        /\ helper' = NoHelper
        /\ UNCHANGED others
  /\ UNCHANGED <<mappingVars, scenario, exited, m_Generation,
                 g_Generation, g_TraceEnabled, g_SignalHandlerInstalled,
                 trapFlag, held>>

WaitForHooks == Wait("wait1", "wait2") /\ UNCHANGED <<wanted, excused>>
WaitForExit == Wait("wait2", "none") /\ Returned
-----------------------------------------------------------------------------
(* Linux, the helper. Its loops go over ids, a copy of the table, and over *)
(* tids, the threads it has attached to.                                   *)

HelperVars == <<mappingVars, scenario, g_Generation,
                g_TraceEnabled, g_SignalHandlerInstalled, start, others,
                m_Generation, exited, wanted>>

Next_id == helper.ids[helper.i + 1]
Next_tid == helper.tids[helper.i + 1]
MayAttach == ~scenario.ptraceScope \/ helper.permitted

\* PTRACE_ATTACH. A thread that has exited gives ESRCH and is tried again, for
\* ever: no step. One that is already attached, or may not be, gives EPERM.
Attach ==
  /\ helper.pc = "attach" /\ helper.i < Len(helper.ids)
  /\ Next_id \notin exited
  /\ IF MayAttach /\ held[Next_id] = 0
     THEN /\ helper' = [helper EXCEPT !.pc = "stopping", !.tids = Append(@, Next_id)]
          /\ UNCHANGED excused
     ELSE /\ helper' = [helper EXCEPT !.i = @ + 1]
          /\ excused' = IF MayAttach THEN excused ELSE excused \cup {<<Next_id, "refused">>}
  /\ UNCHANGED <<HelperVars, held, trapFlag>>

\* waitpid: the thread has stopped, or it has exited meanwhile.
Stopped ==
  /\ helper.pc = "stopping"
  /\ helper' = [helper EXCEPT !.pc = "attach", !.i = @ + 1]
  /\ held' = [held EXCEPT ![Next_id] = IF Next_id \in exited THEN 0 ELSE 1]
  /\ UNCHANGED <<HelperVars, trapFlag, excused>>

AttachedAll ==
  /\ helper.pc = "attach" /\ helper.i = Len(helper.ids)
  /\ helper' = [helper EXCEPT !.pc = "arm", !.i = 0]
  /\ UNCHANGED <<HelperVars, held, trapFlag, excused>>

\* Mutant: the last thread is left out.
ArmTracedButLast ==
  /\ helper.pc = "arm" /\ helper.i < Len(helper.tids)
  /\ Next_tid \notin exited
  /\ trapFlag' = [trapFlag EXCEPT ![Next_tid] = helper.i < Len(helper.tids) - 1]
  /\ helper' = [helper EXCEPT !.i = @ + 1]
  /\ UNCHANGED <<HelperVars, held, excused>>

\* PTRACE_GETREGS and PTRACE_SETREGS
ArmTraced ==
  /\ helper.pc = "arm" /\ helper.i < Len(helper.tids)
  /\ Next_tid \notin exited
  /\ trapFlag' = [trapFlag EXCEPT ![Next_tid] = TRUE]
  /\ helper' = [helper EXCEPT !.i = @ + 1]
  /\ UNCHANGED <<HelperVars, held, excused>>

\* The registers of a thread that has exited can not be read: DebugBreak, which
\* ends the helper, and the kernel detaches the rest, armed or not.
ArmFails ==
  /\ helper.pc = "arm" /\ helper.i < Len(helper.tids)
  /\ Next_tid \in exited
  /\ helper' = [helper EXCEPT !.pc = "zombie"]
  /\ held' = [t \in Threads |-> 0]
  /\ excused' = excused \cup {<<helper.tids[j], "gone">> : j \in helper.i + 1 .. Len(helper.tids)}
  /\ UNCHANGED <<HelperVars, trapFlag>>

ArmedAll ==
  /\ helper.pc = "arm" /\ helper.i = Len(helper.tids)
  /\ helper' = [helper EXCEPT !.pc = "detach", !.i = 0]
  /\ UNCHANGED <<HelperVars, held, trapFlag, excused>>

\* PTRACE_DETACH
Detach ==
  /\ helper.pc = "detach" /\ helper.i < Len(helper.tids)
  /\ held' = [held EXCEPT ![Next_tid] = 0]
  /\ helper' = [helper EXCEPT !.i = @ + 1]
  /\ UNCHANGED <<HelperVars, trapFlag, excused>>

\* ContinueProcess waits for its own parent, which waitpid refuses: the helper
\* ends in DebugBreak and not in exit(0).
ContinueProcess ==
  /\ helper.pc = "detach" /\ helper.i = Len(helper.tids)
  /\ helper' = [helper EXCEPT !.pc = "zombie"]
  /\ UNCHANGED <<HelperVars, held, trapFlag, excused>>

Helper ==
  \/ Attach \/ Stopped \/ AttachedAll \/ ArmTraced \/ ArmFails \/ ArmedAll
  \/ Detach \/ ContinueProcess
-----------------------------------------------------------------------------
(* Windows. The loops of the start go over the table, then over handles.   *)

WindowsVars == <<CallerVars, helper, g_Generation, g_TraceEnabled,
                 g_SignalHandlerInstalled, wanted, excused>>

InLoop(pc, n) ==
  /\ Runs(Caller) /\ finding[Caller] = NoCall
  /\ start.pc = pc /\ start.i < n

LoopEnds(pc, n, to) ==
  /\ start.pc = pc /\ start.i = n
  /\ Goes(pc, to)
  /\ UNCHANGED <<mappingVars, WindowsVars, trapFlag, held>>

Opens(t) == t \in Threads \ exited

\* Mutant: the caller is not left out.
OpenThreadOwnToo ==
  /\ InLoop("open", start.count)
  /\ LET t == s_CoreMappings[start.i].id IN
       start' = [start EXCEPT !.i = @ + 1,
                   !.handles = IF Opens(t) THEN Append(@, t) ELSE @]
  /\ UNCHANGED <<mappingVars, WindowsVars, trapFlag, held>>

\* The table is read while others may write it; a thread that has exited can
\* not be opened and is left out.
OpenThread ==
  /\ InLoop("open", start.count)
  /\ LET t == s_CoreMappings[start.i].id IN
       start' = [start EXCEPT !.i = @ + 1,
                   !.handles = IF t # Caller /\ Opens(t) THEN Append(@, t) ELSE @]
  /\ UNCHANGED <<mappingVars, WindowsVars, trapFlag, held>>

Handle == start.handles[start.i + 1]

\* A thread that has exited since it was opened can not be suspended:
\* DebugBreak. The Sleep(1000) makes sure the others have stopped.
SuspendThread ==
  /\ InLoop("suspend", Len(start.handles))
  /\ start' = [start EXCEPT !.i = @ + 1]
  /\ held' = IF Handle \in exited THEN held ELSE [held EXCEPT ![Handle] = @ + 1]
  /\ broke' = (Handle \in exited)
  /\ UNCHANGED <<s_CoreMappings, s_CoreMappingCount, setting, finding,
                 m_LogicalCoreIndex, mapping, setsLeft, WindowsVars, trapFlag>>

\* GetThreadContext and SetThreadContext
SetThreadContext ==
  /\ InLoop("arm", Len(start.handles))
  /\ start' = [start EXCEPT !.i = @ + 1]
  /\ trapFlag' = [trapFlag EXCEPT ![Handle] = TRUE]
  /\ UNCHANGED <<mappingVars, WindowsVars, held>>

\* Mutant: the last handle is not resumed.
ResumeThreadButLast ==
  /\ InLoop("resume", Len(start.handles))
  /\ start' = [start EXCEPT !.i = @ + 1]
  /\ held' = IF start.i = Len(start.handles) - 1 THEN held
             ELSE [held EXCEPT ![Handle] = @ - 1]
  /\ UNCHANGED <<mappingVars, WindowsVars, trapFlag>>

ResumeThread ==
  /\ InLoop("resume", Len(start.handles))
  /\ start' = [start EXCEPT !.i = @ + 1]
  /\ held' = [held EXCEPT ![Handle] = @ - 1]
  /\ UNCHANGED <<mappingVars, WindowsVars, trapFlag>>

\* __writeeflags: the caller arms itself, mapped or not, and returns.
ArmSelf ==
  /\ Runs(Caller)
  /\ start.pc = "self"
  /\ start' = Idle
  /\ trapFlag' = [trapFlag EXCEPT ![Caller] = TRUE]
  /\ Returned
  /\ UNCHANGED <<mappingVars, CallerVars, helper, g_Generation, g_TraceEnabled,
                 g_SignalHandlerInstalled, held>>

StartWindows ==
  \/ OpenThread
  \/ LoopEnds("open", start.count, "suspend")
  \/ SuspendThread
  \/ LoopEnds("suspend", Len(start.handles), "generation")
  \/ SetThreadContext
  \/ LoopEnds("arm", Len(start.handles), "resume")
  \/ ResumeThread
  \/ LoopEnds("resume", Len(start.handles), "self")
  \/ ArmSelf
-----------------------------------------------------------------------------
StartCapture ==
  \/ IncrementGeneration \/ EnableTrace \/ InstallHandler
  \/ SetPtracer \/ WaitForHooks \/ WaitForExit
  \/ StartWindows

Trap(t) ==
  \/ TrapUnhandled(t) \/ TrapNotTracing(t) \/ TrapLookup(t) \/ TrapFind(t)
  \/ TrapFound(t) \/ TrapAgain(t)

Next ==
  \/ Start \/ StartCapture \/ EndCapture \/ CacheSimRemoveHandler
  \/ ~broke /\ Helper
  \/ \E t \in Threads : Trap(t)
  \/ \E t \in Threads, c \in Cores \cup {-1} : SetMapping(t, c)
  \/ Store
  \/ Cardinality(exited) < scenario.exits /\ \E t \in Threads : ExitThread(t)
  \/ OtherExits

\* The scheduler runs every thread and process that can run; nothing makes the
\* application's other children end.
Fairness ==
  /\ WF_vars(StartCapture)
  /\ WF_vars(~broke /\ Helper)
  /\ WF_vars(\E t \in Threads : TrapFind(t) \/ TrapFound(t))

Spec == Init /\ [][Next]_vars /\ Fairness
-----------------------------------------------------------------------------
\* When CacheSimStartCapture has returned, the helper is gone and every thread
\* it or the caller has stopped goes on. Linux: the two calls of wait() make
\* sure of it even if one of them gets another child of the application.
NobodyLeftStopped ==
  (start.pc = "none" /\ ~broke) =>
    helper.pc = "none" /\ \A t \in Threads : held[t] = 0

\* A thread runs with its trap flag set only when there is a handler to take
\* the trap, and during a start only once the capture is enabled: on Windows
\* because the threads are suspended, on Linux because the helper may not attach
\* before the parent says so, which only a system that restricts ptrace enforces.
ArmedThreadsAreHandled ==
  \A t \in Threads : (Runs(t) /\ trapFlag[t] /\ (Linux => scenario.ptraceScope)) =>
    g_SignalHandlerInstalled /\ (start.pc # "none" => g_TraceEnabled)

Excused(t) == \E why \in {"refused", "gone", "early", "moved"} : <<t, why>> \in excused

\* When CacheSimStartCapture returns true, every thread that lives and has been
\* mapped all along is single-stepping. Excused are, on Linux, the threads the
\* helper was refused because it was too early, those of a helper that ended
\* because one of them exited, and those that trapped before the capture was
\* enabled; on Windows those that a concurrent removal moved in the table.
ArmedWhenStarted ==
  [][(start.pc # "none" /\ start'.pc = "none" /\ ~broke') =>
       \A t \in wanted \ exited : trapFlag'[t] \/ Excused(t)]_vars

\* The helper tries for ever to attach to a thread that has exited; wait()
\* waits for a child that has nothing to do with the capture.
HelperSpins == helper.pc = "attach" /\ helper.i < Len(helper.ids) /\ Next_id \in exited
WaitsForOther == start.pc = "wait2" /\ helper.pc = "none" /\ others.alive > 0

\* CacheSimStartCapture returns, whatever the threads it stops are doing, but
\* for those two cases.
StartReturns ==
  start.pc # "none" ~> start.pc = "none" \/ broke \/ HelperSpins \/ WaitsForOther
=============================================================================
