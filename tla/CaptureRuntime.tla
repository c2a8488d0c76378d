--------------------------- MODULE CaptureRuntime ---------------------------
(***************************************************************************)
(* The in-process recorder on Linux (CacheSimCommon.inl,                   *)
(* CacheSimLinux.cpp): threads that single-step through their code under   *)
(* the SIGTRAP handler HandleTrap while one of them starts and ends        *)
(* captures.                                                               *)
(*                                                                         *)
(* A thread's position is upc (in its own code, or in a function of the    *)
(* recorder's interface that it calls) and, while the handler runs on top  *)
(* of that, hpc. Every step of upc is followed by a trap if the thread's   *)
(* trap flag is set, steps inside the interface functions included. One    *)
(* step of hpc is the code between two uses of state that other threads    *)
(* write. A critical section of g_Lock is entered in one step and left in  *)
(* another, so that a thread can be stopped, or trapped, inside it.        *)
(*                                                                         *)
(* Abstracted: the instruction and its operands (JaguarCacheSim), frames   *)
(* of a call stack (a model value), the number of times a node is hit, the *)
(* layout of the saved file.                                               *)
(***************************************************************************)
EXTENDS Integers, Sequences, SequencesExt

CONSTANTS
  Threads,
  Controller,     \* the thread that calls CacheSimStartCapture/EndCapture
  CallStacks,
  MaxGeneration,  \* bound on g_Generation: one capture per increment
  Allowed         \* what else the application and the kernel do, see Hazard

\* "straggler": a capture is started before every thread has noticed, in a
\*              trap of its own, that the last one ended.
\* "cancel":    a capture is ended without saving.
\* "map":       threads call CacheSimSetThreadCoreMapping during a capture.
\* "early":     the forked child attaches before its parent reaches wait().
Hazard == {"straggler", "cancel", "map", "early"}

ASSUME ControllerAssumption == Controller \in Threads
ASSUME BoundAssumption == MaxGeneration \in Nat
ASSUME AllowedAssumption == Allowed \subseteq Hazard

VARIABLES
  g_TraceEnabled, g_Generation,
  g_Lock,         \* Free or the thread that holds it
  s_CoreMappings, \* s_CoreMappings[t]: a core, -1, or NotMapped
  g_StackData,    \* the distinct call stacks; a stack's offset is its index
  g_Stats,        \* the nodes, each with its offset and its true origin
  g_SignalHandlerInstalled,
  s_ThreadState,  \* thread local: generation, core and stack offset
  trapFlag,       \* bit 8 of the thread's EFLAGS
  upc, hpc,
  callStack,      \* the call stack a thread is in
  next,           \* the call stack its next instruction leads to
  mapTarget,      \* thread_id of the CacheSimSetThreadCoreMapping that holds
                  \*   g_Lock, or Free
  child,          \* the threads the forked child has yet to arm, NoChild, or
                  \*   EarlyChild when it did not wait for its parent
  killed,         \* a SIGTRAP arrived that nobody could take
  began           \* history: where and when the current trap began

recorder == <<g_TraceEnabled, g_Generation, g_StackData, g_Stats, g_SignalHandlerInstalled>>
vars == <<recorder, g_Lock, s_CoreMappings, s_ThreadState, trapFlag, upc, hpc,
          callStack, next, mapTarget, child, killed, began>>

CONSTANTS Free, NoChild, EarlyChild
ASSUME FreeAssumption == Free \notin Threads
ASSUME NoChildAssumption ==
  NoChild # EarlyChild /\ \A S \in SUBSET Threads : NoChild # S /\ EarlyChild # S

NotMapped == -2
NoStack == 0
Cores == {0}    \* what tells cores apart is in JaguarModule

UserPc == {"app", "map", "unmap", "start.gen", "start.enable", "start.handler",
           "start.wait", "end.flag", "end.lock", "end.save"}
HandlerPc == {"none", "check", "refresh", "filter", "stack", "insert",
              "commit", "recheck", "record"}

Node == [offset : Nat \ {NoStack}, stack : CallStacks, gen : Nat]

TypeOK ==
  /\ g_TraceEnabled \in BOOLEAN
  /\ g_Generation \in 1 .. MaxGeneration + 1
  /\ g_Lock \in Threads \cup {Free}
  /\ s_CoreMappings \in [Threads -> Cores \cup {-1, NotMapped}]
  /\ g_StackData \in Seq(CallStacks)
  /\ g_Stats \subseteq Node
  /\ g_SignalHandlerInstalled \in BOOLEAN
  /\ s_ThreadState \in [Threads -> [gen : Nat, core : Cores \cup {-1}, stack : Nat]]
  /\ trapFlag \in [Threads -> BOOLEAN]
  /\ upc \in [Threads -> UserPc]
  /\ hpc \in [Threads -> HandlerPc]
  /\ callStack \in [Threads -> CallStacks]
  /\ next \in [Threads -> CallStacks]
  /\ mapTarget \in Threads \cup {Free}
  /\ child \in (SUBSET Threads) \cup {NoChild, EarlyChild}
  /\ killed \in BOOLEAN
  /\ began \in [Threads -> [gen : Nat, mapped : BOOLEAN]]

\* CacheSimInit has run; the globals and the thread locals are zero.
Init ==
  /\ g_TraceEnabled = FALSE
  /\ g_Generation = 1
  /\ g_Lock = Free
  /\ s_CoreMappings = [t \in Threads |-> NotMapped]
  /\ g_StackData = << >>
  /\ g_Stats = {}
  /\ g_SignalHandlerInstalled = FALSE
  /\ s_ThreadState = [t \in Threads |-> [gen |-> 0, core |-> 0, stack |-> 0]]
  /\ trapFlag = [t \in Threads |-> FALSE]
  /\ upc = [t \in Threads |-> "app"]
  /\ hpc = [t \in Threads |-> "none"]
  /\ callStack \in [Threads -> CallStacks]
  /\ next = callStack
  /\ mapTarget = Free
  /\ child = NoChild
  /\ killed = FALSE
  /\ began = [t \in Threads |-> [gen |-> 0, mapped |-> FALSE]]
-----------------------------------------------------------------------------
(* The thread's own code. CPU and kernel: a step made with the trap flag   *)
(* set is followed by SIGTRAP; without a handler that ends the process.    *)

UserStep(t, from, to) ==
  /\ ~killed
  /\ hpc[t] = "none"
  /\ upc[t] = from
  /\ upc' = [upc EXCEPT ![t] = to]
  /\ hpc' = [hpc EXCEPT ![t] =
               IF trapFlag[t] /\ g_SignalHandlerInstalled THEN "check" ELSE "none"]
  /\ killed' = (trapFlag[t] /\ ~g_SignalHandlerInstalled)

\* One instruction of the application: a call or a return if it leads to
\* another call stack.
Execute(t) ==
  /\ UserStep(t, "app", "app")
  /\ callStack' = [callStack EXCEPT ![t] = next[t]]
  /\ \E s \in CallStacks : next' = [next EXCEPT ![t] = s]
  /\ UNCHANGED <<recorder, g_Lock, s_CoreMappings, s_ThreadState, trapFlag,
                 mapTarget, child, began>>

CallsOrReturns(t) == upc[t] = "app" /\ next[t] # callStack[t]
-----------------------------------------------------------------------------
(* HandleTrap and GenerateMemoryAccesses.                                  *)

HandlerStep(t, from, to) ==
  /\ ~killed
  /\ hpc[t] = from
  /\ hpc' = [hpc EXCEPT ![t] = to]
  /\ UNCHANGED <<g_TraceEnabled, g_Generation, g_SignalHandlerInstalled,
                 s_CoreMappings, upc, callStack, next, mapTarget, child,
                 killed>>

\* Mutant: the trap bit is left set.
NotTracingKeepsFlag(t) ==
  /\ ~g_TraceEnabled
  /\ HandlerStep(t, "check", "none")
  /\ UNCHANGED <<trapFlag, g_Lock, g_StackData, g_Stats, s_ThreadState, began>>

\* No capture: clear the trap bit and return.
NotTracing(t) ==
  /\ ~g_TraceEnabled
  /\ HandlerStep(t, "check", "none")
  /\ trapFlag' = [trapFlag EXCEPT ![t] = FALSE]
  /\ UNCHANGED <<g_Lock, g_StackData, g_Stats, s_ThreadState, began>>

Tracing(t) ==
  /\ g_TraceEnabled
  /\ HandlerStep(t, "check", "refresh")
  /\ began' = [began EXCEPT ![t] = [gen |-> g_Generation, mapped |-> s_CoreMappings[t] >= 0]]
  /\ UNCHANGED <<g_Lock, g_StackData, g_Stats, s_ThreadState, trapFlag>>

FindLogicalCoreIndex(t) == IF s_CoreMappings[t] = NotMapped THEN -1 ELSE s_CoreMappings[t]

\* Mutant: a new generation does not look the core up again.
RefreshKeepsCore(t) ==
  /\ HandlerStep(t, "refresh", "filter")
  /\ s_ThreadState' = [s_ThreadState EXCEPT
       ![t].gen = g_Generation,
       ![t].stack = IF s_ThreadState[t].gen = g_Generation THEN @ ELSE NoStack]
  /\ UNCHANGED <<g_Lock, g_StackData, g_Stats, trapFlag, began>>

\* Bring the thread state up to the current generation.
Refresh(t) ==
  /\ HandlerStep(t, "refresh", "filter")
  /\ s_ThreadState' =
       IF s_ThreadState[t].gen = g_Generation THEN s_ThreadState
       ELSE [s_ThreadState EXCEPT ![t] =
               [gen |-> g_Generation, core |-> FindLogicalCoreIndex(t), stack |-> NoStack]]
  /\ UNCHANGED <<g_Lock, g_StackData, g_Stats, trapFlag, began>>

\* The second look at g_TraceEnabled; the trap flag stays set.
Filter(t) ==
  /\ HandlerStep(t, "filter",
       IF ~(g_TraceEnabled /\ s_ThreadState[t].core >= 0) THEN "none"
       ELSE IF s_ThreadState[t].stack = NoStack THEN "stack" ELSE "commit")
  /\ UNCHANGED <<g_Lock, g_StackData, g_Stats, s_ThreadState, trapFlag, began>>

\* AutoSpinLock
Lock(t) == g_Lock = Free /\ g_Lock' = t
Unlock == g_Lock' = Free

LockForInsert(t) ==
  /\ HandlerStep(t, "stack", "insert")
  /\ Lock(t)
  /\ UNCHANGED <<g_StackData, g_Stats, s_ThreadState, trapFlag, began>>

\* InsertStack: an existing stack is found by its key, a new one is appended.
InsertStack(t) ==
  /\ HandlerStep(t, "insert", "commit")
  /\ g_StackData' = IF Contains(g_StackData, callStack[t]) THEN g_StackData
                    ELSE Append(g_StackData, callStack[t])
  /\ s_ThreadState' = [s_ThreadState EXCEPT ![t].stack =
       CHOOSE i \in DOMAIN g_StackData' : g_StackData'[i] = callStack[t]]
  /\ Unlock
  /\ UNCHANGED <<g_Stats, trapFlag, began>>

\* Mutant: a call or a return keeps the stack offset.
InvalidateStackNever(t) == UNCHANGED s_ThreadState

\* GenerateMemoryAccesses has looked at the instruction; a call or a return
\* invalidates the thread's stack offset after it was read for this node.
InvalidateStack(t) ==
  s_ThreadState' = IF CallsOrReturns(t) THEN [s_ThreadState EXCEPT ![t].stack = NoStack]
                   ELSE s_ThreadState

LockForCommit(t) ==
  /\ HandlerStep(t, "commit", "recheck")
  /\ Lock(t)
  /\ UNCHANGED <<g_StackData, g_Stats, s_ThreadState, trapFlag, began>>

\* Mutant: the early return forgets the lock.
TooLateKeepsLock(t) ==
  /\ ~g_TraceEnabled
  /\ HandlerStep(t, "recheck", "none")
  /\ InvalidateStack(t)
  /\ UNCHANGED <<g_Lock, g_StackData, g_Stats, trapFlag, began>>

\* The capture ended before the lock was taken: nothing is recorded.
TooLate(t) ==
  /\ ~g_TraceEnabled
  /\ HandlerStep(t, "recheck", "none")
  /\ InvalidateStack(t)
  /\ Unlock
  /\ UNCHANGED <<g_StackData, g_Stats, trapFlag, began>>

InTime(t) ==
  /\ g_TraceEnabled
  /\ HandlerStep(t, "recheck", "record")
  /\ UNCHANGED <<g_Lock, g_StackData, g_Stats, s_ThreadState, trapFlag, began>>

\* GetRipNode, the accesses to g_Cache and the counters.
Record(t) ==
  /\ HandlerStep(t, "record", "none")
  /\ g_Stats' = g_Stats \cup {[offset |-> s_ThreadState[t].stack,
                               stack |-> callStack[t], gen |-> began[t].gen]}
  /\ InvalidateStack(t)
  /\ Unlock
  /\ UNCHANGED <<g_StackData, trapFlag, began>>

Handle(t) ==
  \/ NotTracing(t) \/ Tracing(t) \/ Refresh(t) \/ Filter(t)
  \/ LockForInsert(t) \/ InsertStack(t)
  \/ LockForCommit(t) \/ TooLate(t) \/ InTime(t) \/ Record(t)
-----------------------------------------------------------------------------
(* CacheSimSetThreadCoreMapping, called by a thread for itself or another. *)

Quiet == \A t \in Threads : hpc[t] = "none" /\ ~trapFlag[t]
Starting == upc[Controller] \in {"start.gen", "start.enable", "start.handler", "start.wait"}

LockForMapping(t) ==
  /\ "map" \in Allowed \/ ~(g_TraceEnabled \/ Starting \/ trapFlag[t])
  /\ \E to \in {"map", "unmap"} : UserStep(t, "app", to)
  /\ \E x \in Threads : mapTarget' = x
  /\ Lock(t)
  /\ UNCHANGED <<recorder, s_CoreMappings, s_ThreadState, trapFlag, callStack,
                 next, child, began>>

SetMapping(core) ==
  /\ s_CoreMappings' = [s_CoreMappings EXCEPT ![mapTarget] = core]
  /\ mapTarget' = Free
  /\ Unlock
  /\ UNCHANGED <<recorder, s_ThreadState, trapFlag, callStack, next, child,
                 began>>

MapThread(t) ==
  /\ UserStep(t, "map", "app")
  /\ \E core \in Cores : SetMapping(core)

\* A core id of -1 removes a mapping, and adds one with core -1 if the thread
\* has none.
UnmapThread(t) ==
  /\ UserStep(t, "unmap", "app")
  /\ SetMapping(IF s_CoreMappings[mapTarget] = NotMapped THEN -1 ELSE NotMapped)
-----------------------------------------------------------------------------
(* CacheSimStartCapture. The parent goes on while the child arms the       *)
(* threads that were mapped when it was forked.                            *)

\* g_Cache.Init(), without g_Lock, and fork(). When a capture is already on
\* the call returns and changes nothing.
StartReset(c) ==
  /\ ~g_TraceEnabled
  /\ g_Generation <= MaxGeneration
  /\ "straggler" \in Allowed \/ Quiet
  /\ "map" \in Allowed \/ \A t \in Threads : upc[t] \notin {"map", "unmap"}
  /\ UserStep(c, "app", "start.gen")
  /\ child' = {t \in Threads : s_CoreMappings[t] # NotMapped}
  /\ UNCHANGED <<recorder, g_Lock, s_CoreMappings, s_ThreadState, trapFlag,
                 callStack, next, mapTarget, began>>

StartGeneration(c) ==
  /\ UserStep(c, "start.gen", "start.enable")
  /\ g_Generation' = g_Generation + 1
  /\ UNCHANGED <<g_TraceEnabled, g_StackData, g_Stats,
                 g_SignalHandlerInstalled, g_Lock, s_CoreMappings,
                 s_ThreadState, trapFlag, callStack, next, mapTarget, child,
                 began>>

\* Mutant: the capture is not enabled before the threads are armed.
StartEnableNot(c) ==
  /\ UserStep(c, "start.enable", "start.handler")
  /\ UNCHANGED <<recorder, g_Lock, s_CoreMappings, s_ThreadState, trapFlag,
                 callStack, next, mapTarget, child, began>>

StartEnable(c) ==
  /\ UserStep(c, "start.enable", "start.handler")
  /\ g_TraceEnabled' = TRUE
  /\ UNCHANGED <<g_Generation, g_StackData, g_Stats, g_SignalHandlerInstalled,
                 g_Lock, s_CoreMappings, s_ThreadState, trapFlag, callStack,
                 next, mapTarget, child, began>>

\* sigaction, and the two prctl that let the child attach.
StartHandler(c) ==
  /\ UserStep(c, "start.handler", "start.wait")
  /\ g_SignalHandlerInstalled' = TRUE
  /\ UNCHANGED <<g_TraceEnabled, g_Generation, g_StackData, g_Stats, g_Lock,
                 s_CoreMappings, s_ThreadState, trapFlag, callStack, next,
                 mapTarget, child, began>>

\* The child stops all its threads, sets their trap flags and lets them go.
\* In a thread that is inside the handler the flag raises a SIGTRAP that is
\* blocked, and the kernel ends the process. It is too early when the parent
\* has yet to enable the capture: the traps that come before are not traced.
ChildArms ==
  /\ ~killed
  /\ child \notin {NoChild, EarlyChild}
  /\ "early" \in Allowed \/ upc[Controller] = "start.wait"
  /\ trapFlag' = [t \in Threads |-> trapFlag[t] \/ t \in child]
  /\ killed' = \E t \in child : hpc[t] # "none"
  /\ child' = IF upc[Controller] \in {"start.gen", "start.enable"} THEN EarlyChild ELSE NoChild
  /\ UNCHANGED <<recorder, g_Lock, s_CoreMappings, s_ThreadState, upc, hpc,
                 callStack, next, mapTarget, began>>

\* The kernel refuses: the parent has not named the child its tracer yet.
ChildRefused ==
  /\ ~killed
  /\ child \notin {NoChild, EarlyChild}
  /\ "early" \in Allowed /\ upc[Controller] # "start.wait"
  /\ child' = EarlyChild
  /\ UNCHANGED <<recorder, g_Lock, s_CoreMappings, s_ThreadState, trapFlag,
                 upc, hpc, callStack, next, mapTarget, killed, began>>

StartReturn(c) ==
  /\ child \in {NoChild, EarlyChild}
  /\ UserStep(c, "start.wait", "app")
  /\ UNCHANGED <<recorder, g_Lock, s_CoreMappings, s_ThreadState, trapFlag,
                 callStack, next, mapTarget, child, began>>
-----------------------------------------------------------------------------
(* CacheSimEndCapture.                                                     *)

\* Mutant: the capture is not disabled before the lock is waited for.
EndDisableNot(c) ==
  /\ UserStep(c, "app", "end.flag")
  /\ UNCHANGED <<recorder, g_Lock, s_CoreMappings, s_ThreadState, trapFlag,
                 callStack, next, mapTarget, child, began>>

EndDisable(c) ==
  /\ UserStep(c, "app", "end.flag")
  /\ g_TraceEnabled' = FALSE
  /\ UNCHANGED <<g_Generation, g_StackData, g_Stats, g_SignalHandlerInstalled,
                 g_Lock, s_CoreMappings, s_ThreadState, trapFlag, callStack,
                 next, mapTarget, child, began>>

\* DisableTrapFlag, then the return of a call with save = false.
EndClearFlag(c) ==
  /\ \/ UserStep(c, "end.flag", "end.lock")
     \/ "cancel" \in Allowed /\ UserStep(c, "end.flag", "app")
  /\ trapFlag' = [trapFlag EXCEPT ![c] = FALSE]
  /\ UNCHANGED <<recorder, g_Lock, s_CoreMappings, s_ThreadState, callStack,
                 next, mapTarget, child, began>>

\* Mutant: the tables are saved without the lock.
EndLockNot(c) ==
  /\ UserStep(c, "end.lock", "end.save")
  /\ UNCHANGED <<recorder, g_Lock, s_CoreMappings, s_ThreadState, trapFlag,
                 callStack, next, mapTarget, child, began>>

EndLock(c) ==
  /\ UserStep(c, "end.lock", "end.save")
  /\ Lock(c)
  /\ UNCHANGED <<recorder, s_CoreMappings, s_ThreadState, trapFlag, callStack,
                 next, mapTarget, child, began>>

\* Mutant: the nodes are not freed.
EndSaveKeepsStats(c) ==
  /\ UserStep(c, "end.save", "app")
  /\ g_StackData' = << >>
  /\ Unlock
  /\ UNCHANGED <<g_Stats, g_TraceEnabled, g_Generation,
                 g_SignalHandlerInstalled, s_CoreMappings, s_ThreadState,
                 trapFlag, callStack, next, mapTarget, child, began>>

\* The tables go to the file as they are, then they are freed.
EndSave(c) ==
  /\ UserStep(c, "end.save", "app")
  /\ g_Stats' = {}
  /\ g_StackData' = << >>
  /\ Unlock
  /\ UNCHANGED <<g_TraceEnabled, g_Generation, g_SignalHandlerInstalled,
                 s_CoreMappings, s_ThreadState, trapFlag, callStack, next,
                 mapTarget, child, began>>
-----------------------------------------------------------------------------
Call(t) ==
  \/ LockForMapping(t)
  \/ t = Controller /\ (StartReset(t) \/ EndDisable(t))

\* A function of the interface, once called, goes on.
Continue(t) ==
  \/ MapThread(t) \/ UnmapThread(t)
  \/ StartGeneration(t) \/ StartEnable(t) \/ StartHandler(t) \/ StartReturn(t)
  \/ EndClearFlag(t) \/ EndLock(t) \/ EndSave(t)

Next ==
  \/ \E t \in Threads : Execute(t) \/ Call(t) \/ Continue(t) \/ Handle(t)
  \/ ChildArms \/ ChildRefused

Spec == Init /\ [][Next]_vars

\* Threads inside the recorder's code are scheduled and do not block except on
\* g_Lock and, in Start, on the child.
RecorderFairness ==
  /\ \A t \in Threads : WF_vars(Continue(t)) /\ WF_vars(Handle(t))
  /\ WF_vars(ChildArms)

FairSpec == Spec /\ RecorderFairness

\* Besides, the application's threads keep executing instructions.
BusySpec == FairSpec /\ \A t \in Threads : WF_vars(Execute(t))
-----------------------------------------------------------------------------
\* Every node names, by its offset, the call stack its instruction was reached
\* through: m_StackIndex is "recomputed whenever the call stack contents
\* changes" (ThreadState), and offsets do not outlive the tables they index.
NodesNameTheirStack ==
  \A n \in g_Stats : n.offset \in DOMAIN g_StackData /\ g_StackData[n.offset] = n.stack

\* What CacheSimEndCapture saves was trapped in the capture it ends: starting a
\* capture begins with a "Reset" (comment in CacheSimStartCapture).
SavesOneCapture ==
  upc[Controller] = "end.save" => \A n \in g_Stats : n.gen = g_Generation

\* g_Cache.Init, which takes no lock, never runs while a thread commits to the
\* same cache "in a critical section" (comment in GenerateMemoryAccesses).
ResetExcludesCommit == [][StartReset(Controller) => \A t \in Threads : hpc[t] # "record"]_vars

\* When CacheSimStartCapture returns, the threads it was to trace are traced,
\* whichever of parent and child ran first after the fork, unless the child
\* attached before its parent had enabled the capture or was refused because
\* the parent had not come to prctl: nothing in the code keeps it from that.
StartTraces ==
  [][StartReturn(Controller) /\ child # EarlyChild =>
       \A t \in Threads : s_CoreMappings[t] # NotMapped => trapFlag[t]]_vars

\* A thread whose core id was set to -1 is not recorded any more (CacheSim.h):
\* no trap that begins after that makes a node.
UnmappedNotRecorded ==
  [][\A t \in Threads : Record(t) => began[t].mapped]_vars

\* The application does not call the interface over and over.
CallsStop == <>[][\A t \in Threads : ~Call(t)]_vars

\* CacheSimEndCapture returns: after g_TraceEnabled is cleared every thread
\* takes g_Lock in HandleTrap at most twice more, so that even a spin lock
\* that is not fair is won in the end.
EndReturns == CallsStop => ((upc[Controller] = "end.lock") ~> (upc[Controller] = "app"))

\* Nobody keeps g_Lock for ever (AutoSpinLock).
LockReleased == \A t \in Threads : (g_Lock = t) ~> (g_Lock # t)

\* Once no capture is on, every thread that keeps running loses its trap flag,
\* or another capture starts: no thread single-steps for ever.
TrapFlagsCleared ==
  CallsStop =>
    \A t \in Threads : (trapFlag[t] /\ ~g_TraceEnabled) ~> (~trapFlag[t] \/ g_TraceEnabled)
=============================================================================
