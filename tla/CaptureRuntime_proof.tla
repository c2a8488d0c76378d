------------------------ MODULE CaptureRuntime_proof ------------------------
(***************************************************************************)
(* Proofs about CaptureRuntime, for every set of threads and call stacks   *)
(* and every number of captures. A theorem names the hazards it excludes   *)
(* and holds whatever else Allowed permits.                                *)
(***************************************************************************)
EXTENDS CaptureRuntime, SequenceTheorems, TLAPS

NoStragglers == "straggler" \notin Allowed
NoCancel == "cancel" \notin Allowed
NoLateMapping == "map" \notin Allowed
-----------------------------------------------------------------------------
(* The inductive invariant, in parts.                                      *)

\* Only the controller starts and ends captures, and where it is in that says
\* whether a capture is on.
CallInv ==
  /\ \A t \in Threads \ {Controller} : upc[t] \in {"app", "map", "unmap"}
  /\ upc[Controller] \in {"start.gen", "start.enable", "end.flag", "end.lock", "end.save"}
       => ~g_TraceEnabled
  /\ upc[Controller] \in {"start.handler", "start.wait"} => g_TraceEnabled
  /\ upc[Controller] = "start.gen" => g_Generation <= MaxGeneration

\* The critical sections of g_Lock, in an interface function or in the handler.
CallLocks(t) == upc[t] \in {"map", "unmap", "end.save"}
HandlerLocks(t) == hpc[t] \in {"insert", "recheck", "record"}

LockInv ==
  \A t \in Threads :
    /\ CallLocks(t) \/ HandlerLocks(t) => g_Lock = t
    /\ ~(CallLocks(t) /\ HandlerLocks(t))

\* Nobody commits without a stack offset.
OffsetInv ==
  \A t \in Threads :
    hpc[t] \in {"commit", "recheck", "record"} => s_ThreadState[t].stack # NoStack

\* A capture starts on threads that are out of the handler, and none gets past
\* the first check before the capture is enabled. What a thread keeps from the
\* last capture is of an older generation.
QuietInv ==
  /\ g_TraceEnabled \/ Starting => \A t \in Threads : hpc[t] # "none" => trapFlag[t]
  /\ upc[Controller] \in {"start.gen", "start.enable"} =>
       \A t \in Threads : hpc[t] \in {"none", "check"}
  /\ \A t \in Threads : /\ s_ThreadState[t].gen <= g_Generation
                        /\ upc[Controller] = "start.enable" => s_ThreadState[t].gen < g_Generation

\* A trap that has got past Refresh while the capture is on is of this generation.
InHandler == {"filter", "stack", "insert", "commit", "recheck"}
FreshInv ==
  \A t \in Threads :
    /\ g_TraceEnabled /\ hpc[t] \in InHandler => s_ThreadState[t].gen = g_Generation
    /\ hpc[t] \in {"stack", "insert"} \/ s_ThreadState[t].stack # NoStack
         => s_ThreadState[t].core >= 0

Names(offset, stack) == offset \in DOMAIN g_StackData /\ g_StackData[offset] = stack
StackIsCurrent(t) == Names(s_ThreadState[t].stack, callStack[t])

\* The offset that a thread keeps names its call stack as long as the capture is
\* on, also between traps: the thread is armed, so that it traps at its next
\* instruction, and that one does not call or return, since a call or a return
\* would have invalidated the offset.
StackInv ==
  \A t \in Threads :
    /\ hpc[t] = "record" => StackIsCurrent(t)
    /\ g_TraceEnabled /\ s_ThreadState[t].gen = g_Generation /\ s_ThreadState[t].stack # NoStack =>
         /\ StackIsCurrent(t)
         /\ trapFlag[t]
         /\ hpc[t] = "none" /\ upc[t] = "app" /\ ~killed => next[t] = callStack[t]

\* A capture is on, or one that was on has yet to be saved.
Ending == upc[Controller] \in {"end.flag", "end.lock"}
Unsaved == g_TraceEnabled \/ Ending

OriginInv ==
  /\ \A n \in g_Stats : n.gen = g_Generation /\ (Unsaved \/ upc[Controller] = "end.save")
  /\ \A t \in Threads : g_TraceEnabled /\ hpc[t] \notin {"none", "check"} => began[t].gen = g_Generation
  /\ \A t \in Threads : hpc[t] = "record" => began[t].gen = g_Generation

CommitInv == \A t \in Threads : hpc[t] = "record" => Unsaved

\* No mapping changes while a capture starts or is on.
MappingInv == g_TraceEnabled \/ Starting => \A t \in Threads : upc[t] \notin {"map", "unmap"}

CoreInv ==
  \A t \in Threads :
    /\ g_TraceEnabled /\ s_ThreadState[t].gen = g_Generation
         => s_ThreadState[t].core = FindLogicalCoreIndex(t)
    /\ g_TraceEnabled /\ hpc[t] \notin {"none", "check"}
         => began[t].mapped = (s_CoreMappings[t] >= 0)
    /\ hpc[t] \in {"stack", "insert", "commit", "recheck", "record"} => began[t].mapped

Mapped == {t \in Threads : s_CoreMappings[t] # NotMapped}
ArmedInv ==
  /\ upc[Controller] \in {"start.gen", "start.enable"} => child \in {Mapped, EarlyChild}
  /\ upc[Controller] \in {"start.handler", "start.wait"} =>
       \/ child \in {Mapped, EarlyChild}
       \/ child = NoChild /\ \A t \in Mapped : trapFlag[t]
-----------------------------------------------------------------------------
(* What holds whatever the application and the kernel do.                  *)

\* InsertStack keeps every offset that is in use and returns one that names the
\* call stack.
LEMMA InsertedStack ==
  ASSUME TypeOK, NEW t \in Threads, InsertStack(t)
  PROVE  /\ g_StackData' \in Seq(CallStacks)
         /\ \A i \in DOMAIN g_StackData : i \in DOMAIN g_StackData' /\ g_StackData'[i] = g_StackData[i]
         /\ s_ThreadState'[t].stack \in DOMAIN g_StackData'
         /\ g_StackData'[s_ThreadState'[t].stack] = callStack[t]
         /\ s_ThreadState'[t].stack \in Nat \ {NoStack}
         /\ s_ThreadState'[t].gen = s_ThreadState[t].gen
         /\ s_ThreadState'[t].core = s_ThreadState[t].core
         /\ \A u \in Threads \ {t} : s_ThreadState'[u] = s_ThreadState[u]
<1> DEFINE s == callStack[t]
           i == CHOOSE k \in DOMAIN g_StackData' : g_StackData'[k] = s
<1>1. s \in CallStacks /\ g_StackData \in Seq(CallStacks)
  BY DEF TypeOK
<1>2. g_StackData' = IF Contains(g_StackData, s) THEN g_StackData ELSE Append(g_StackData, s)
  BY DEF InsertStack
<1>3. /\ s_ThreadState'[t].stack = i
      /\ s_ThreadState'[t].gen = s_ThreadState[t].gen
      /\ s_ThreadState'[t].core = s_ThreadState[t].core
      /\ \A u \in Threads \ {t} : s_ThreadState'[u] = s_ThreadState[u]
  BY DEF InsertStack, TypeOK
<1> HIDE DEF s
<1>4. CASE Contains(g_StackData, s)
  <2>1. g_StackData' = g_StackData
    BY <1>2, <1>4
  <2>2. \E k \in DOMAIN g_StackData' : g_StackData'[k] = s
    BY <1>1, <1>4, <2>1 DEF Contains
  <2>3. i \in DOMAIN g_StackData' /\ g_StackData'[i] = s
    BY <2>2
  <2>4. i \in Nat \ {NoStack}
    BY <1>1, <2>1, <2>3 DEF NoStack
  <2> QED
    BY <1>1, <1>3, <2>1, <2>3, <2>4 DEF s
<1>5. CASE ~Contains(g_StackData, s)
  <2>1. g_StackData' = Append(g_StackData, s)
    BY <1>2, <1>5
  <2>2. /\ g_StackData' \in Seq(CallStacks)
        /\ \A k \in DOMAIN g_StackData : k \in DOMAIN g_StackData' /\ g_StackData'[k] = g_StackData[k]
    BY <1>1, <2>1
  <2>3. Len(g_StackData') \in DOMAIN g_StackData' /\ g_StackData'[Len(g_StackData')] = s
    BY <1>1, <2>1
  <2>4. i \in DOMAIN g_StackData' /\ g_StackData'[i] = s
    BY <2>3
  <2>5. i \in Nat \ {NoStack}
    BY <2>2, <2>4 DEF NoStack
  <2> QED
    BY <1>3, <2>2, <2>4, <2>5 DEF s
<1> QED
  BY <1>4, <1>5 DEF s

\* What a step of the handler leaves alone.
LEMMA HandlerFrame ==
  ASSUME NEW t \in Threads, Handle(t)
  PROVE  UNCHANGED <<g_TraceEnabled, g_Generation, g_SignalHandlerInstalled,
                     s_CoreMappings, upc, callStack, next, mapTarget, child, killed>>
<1>1. CASE NotTracing(t) \/ Tracing(t) \/ Refresh(t) \/ Filter(t)
  BY <1>1 DEF NotTracing, Tracing, Refresh, Filter, HandlerStep
<1>2. CASE LockForInsert(t) \/ InsertStack(t) \/ LockForCommit(t)
  BY <1>2 DEF LockForInsert, InsertStack, LockForCommit, HandlerStep
<1>3. CASE TooLate(t) \/ InTime(t) \/ Record(t)
  BY <1>3 DEF TooLate, InTime, Record, HandlerStep
<1> QED
  BY <1>1, <1>2, <1>3 DEF Handle

\* An offset that is written into a thread's state, and one that is invalidated.
LEMMA StackWritten ==
  ASSUME TypeOK, NEW t \in Threads, NEW n \in Nat,
         s_ThreadState' = [s_ThreadState EXCEPT ![t].stack = n]
  PROVE  /\ s_ThreadState' \in [Threads -> [gen : Nat, core : Cores \cup {-1}, stack : Nat]]
         /\ s_ThreadState'[t].stack = n
<1> DEFINE S == [gen : Nat, core : Cores \cup {-1}, stack : Nat]
           row == [s_ThreadState[t] EXCEPT !.stack = n]
<1>1. s_ThreadState \in [Threads -> S] /\ s_ThreadState[t] \in S
  BY DEF TypeOK
<1>2. row \in S /\ row.stack = n
  BY <1>1
<1>3. s_ThreadState' = [s_ThreadState EXCEPT ![t] = row]
  OBVIOUS
<1> HIDE DEF S, row
<1>4. s_ThreadState' \in [Threads -> S] /\ s_ThreadState'[t] = row
  BY <1>1, <1>2, <1>3
<1> QED
  BY <1>2, <1>4 DEF S

LEMMA StackInvalidated ==
  ASSUME TypeOK, NEW t \in Threads, InvalidateStack(t)
  PROVE  /\ s_ThreadState' \in [Threads -> [gen : Nat, core : Cores \cup {-1}, stack : Nat]]
         /\ s_ThreadState'[t].stack \in {s_ThreadState[t].stack, NoStack}
<1>1. CASE CallsOrReturns(t)
  BY <1>1, StackWritten DEF InvalidateStack, NoStack
<1>2. CASE ~CallsOrReturns(t)
  BY <1>2 DEF InvalidateStack, TypeOK
<1> QED
  BY <1>1, <1>2

LEMMA TypeInitially == Init => TypeOK
<1> SUFFICES ASSUME Init
             PROVE  TypeOK
  OBVIOUS
<1>1. g_StackData \in Seq(CallStacks)
  BY EmptySeq DEF Init
<1>2. g_Generation \in 1 .. MaxGeneration + 1
  BY BoundAssumption DEF Init
<1> QED
  BY <1>1, <1>2 DEF Init, TypeOK, UserPc, HandlerPc, Cores, NotMapped

LEMMA TypePreserved == TypeOK /\ CallInv /\ OffsetInv /\ [Next]_vars => TypeOK'
<1> SUFFICES ASSUME TypeOK, CallInv, OffsetInv, [Next]_vars
             PROVE  TypeOK'
  OBVIOUS
<1> USE DEF TypeOK, recorder
<1>1. ASSUME NEW t \in Threads, Execute(t)
      PROVE  TypeOK'
  BY <1>1 DEF Execute, UserStep, UserPc, HandlerPc
<1>2. ASSUME NEW t \in Threads, Call(t)
      PROVE  TypeOK'
  <2> USE DEF UserStep, UserPc, HandlerPc
  <2>1. CASE LockForMapping(t)
    BY <2>1 DEF LockForMapping, Lock
  <2>2. CASE StartReset(t) \/ EndDisable(t)
    BY <2>2 DEF StartReset, EndDisable
  <2> QED
    BY <1>2, <2>1, <2>2 DEF Call
<1>3. ASSUME NEW t \in Threads, Continue(t)
      PROVE  TypeOK'
  <2> USE DEF UserStep, UserPc, HandlerPc
  <2>1. CASE MapThread(t) \/ UnmapThread(t)
    BY <2>1 DEF MapThread, UnmapThread, SetMapping, Unlock, Cores, NotMapped
  <2>2. CASE StartGeneration(t)
    <3>1. t = Controller
      BY <2>2 DEF StartGeneration, CallInv
    <3> QED
      BY <2>2, <3>1, BoundAssumption DEF StartGeneration, CallInv
  <2>3. CASE StartEnable(t) \/ StartHandler(t) \/ StartReturn(t)
    BY <2>3 DEF StartEnable, StartHandler, StartReturn
  <2>4. CASE EndClearFlag(t) \/ EndLock(t)
    BY <2>4 DEF EndClearFlag, EndLock, Lock
  <2>5. CASE EndSave(t)
    <3>1. g_StackData' \in Seq(CallStacks)
      BY <2>5, EmptySeq DEF EndSave
    <3> QED
      BY <2>5, <3>1 DEF EndSave, Unlock
  <2> QED
    BY <1>3, <2>1, <2>2, <2>3, <2>4, <2>5 DEF Continue
<1>4. ASSUME NEW t \in Threads, Handle(t)
      PROVE  TypeOK'
  <2> USE DEF HandlerStep, HandlerPc
  <2>8. UNCHANGED <<g_TraceEnabled, g_Generation, g_SignalHandlerInstalled,
                    s_CoreMappings, upc, callStack, next, mapTarget, child, killed>>
    BY <1>4, HandlerFrame
  <2>1. CASE NotTracing(t) \/ Filter(t)
    BY <2>1 DEF NotTracing, Filter
  <2>7. CASE Tracing(t)
    <3>1. g_Generation \in Nat /\ (s_CoreMappings[t] >= 0) \in BOOLEAN
      BY BoundAssumption
    <3> QED
      BY <2>7, <3>1 DEF Tracing
  <2>2. CASE Refresh(t)
    BY <2>2 DEF Refresh, FindLogicalCoreIndex, NotMapped, NoStack, Cores
  <2>3. CASE LockForInsert(t) \/ LockForCommit(t) \/ InTime(t)
    BY <2>3 DEF LockForInsert, LockForCommit, InTime, Lock
  <2>4. CASE InsertStack(t)
    <3>1. g_StackData' \in Seq(CallStacks) /\ s_ThreadState'[t].stack \in Nat
      BY <2>4, InsertedStack
    <3>2. s_ThreadState' \in [Threads -> [gen : Nat, core : Cores \cup {-1}, stack : Nat]]
      <4>1. PICK n : s_ThreadState' = [s_ThreadState EXCEPT ![t].stack = n]
        BY <2>4 DEF InsertStack
      <4>2. s_ThreadState'[t].stack = n
        BY <4>1 DEF TypeOK
      <4> QED
        BY <3>1, <4>1, <4>2, StackWritten
    <3>3. hpc' \in [Threads -> HandlerPc]
      BY <2>4 DEF InsertStack
    <3>4. g_Lock' = Free /\ UNCHANGED <<g_Stats, trapFlag, began>>
      BY <2>4 DEF InsertStack, Unlock
    <3> QED
      BY <2>8, <3>1, <3>2, <3>3, <3>4
  <2>5. CASE TooLate(t)
    <3>1. s_ThreadState' \in [Threads -> [gen : Nat, core : Cores \cup {-1}, stack : Nat]]
      BY <2>5, StackInvalidated DEF TooLate
    <3>2. hpc' \in [Threads -> HandlerPc]
      BY <2>5 DEF TooLate
    <3>3. g_Lock' = Free /\ UNCHANGED <<g_StackData, g_Stats, trapFlag, began>>
      BY <2>5 DEF TooLate, Unlock
    <3> QED
      BY <2>8, <3>1, <3>2, <3>3
  <2>6. CASE Record(t)
    <3>1. s_ThreadState[t].stack # NoStack
      BY <2>6 DEF Record, OffsetInv
    <3>2. [offset |-> s_ThreadState[t].stack, stack |-> callStack[t], gen |-> began[t].gen] \in Node
      BY <3>1 DEF Node
    <3>3. g_Stats' \subseteq Node
      BY <2>6, <3>2 DEF Record
    <3>4. s_ThreadState' \in [Threads -> [gen : Nat, core : Cores \cup {-1}, stack : Nat]]
      BY <2>6, StackInvalidated DEF Record
    <3>5. hpc' \in [Threads -> HandlerPc]
      BY <2>6 DEF Record
    <3>6. g_Lock' = Free /\ UNCHANGED <<g_StackData, trapFlag, began>>
      BY <2>6 DEF Record, Unlock
    <3> QED
      BY <2>8, <3>3, <3>4, <3>5, <3>6
  <2> QED
    BY <1>4, <2>1, <2>2, <2>3, <2>4, <2>5, <2>6, <2>7 DEF Handle
<1>5. CASE ChildArms \/ ChildRefused
  BY <1>5 DEF ChildArms, ChildRefused
<1>6. CASE UNCHANGED vars
  BY <1>6 DEF vars
<1> QED
  BY <1>1, <1>2, <1>3, <1>4, <1>5, <1>6 DEF Next

\* What a step of a thread's own code, and one of its handler, does to the
\* positions.
LEMMA UserSteps ==
  ASSUME TypeOK, NEW t \in Threads, NEW from, NEW to, UserStep(t, from, to)
  PROVE  /\ upc[t] = from /\ upc'[t] = to
         /\ hpc[t] = "none" /\ hpc'[t] \in {"none", "check"}
         /\ hpc'[t] = "check" <=> (trapFlag[t] /\ g_SignalHandlerInstalled)
         /\ ~killed /\ killed' = (trapFlag[t] /\ ~g_SignalHandlerInstalled)
         /\ \A u \in Threads \ {t} : upc'[u] = upc[u] /\ hpc'[u] = hpc[u]
  BY DEF UserStep, TypeOK

LEMMA HandlerSteps ==
  ASSUME TypeOK, NEW t \in Threads, NEW from, NEW to, HandlerStep(t, from, to)
  PROVE  /\ hpc[t] = from /\ hpc'[t] = to
         /\ \A u \in Threads \ {t} : hpc'[u] = hpc[u]
         /\ ~killed
         /\ UNCHANGED <<g_TraceEnabled, g_Generation, g_SignalHandlerInstalled,
                        s_CoreMappings, upc, callStack, next, mapTarget, child, killed>>
  BY DEF HandlerStep, TypeOK

\* What a step of a thread's own code changes.
LEMMA ThreadFrame ==
  ASSUME TypeOK, NEW t \in Threads, Execute(t) \/ Call(t) \/ Continue(t)
  PROVE  /\ s_ThreadState' = s_ThreadState /\ began' = began
         /\ ~killed
         /\ hpc[t] = "none" /\ hpc'[t] \in {"none", "check"}
         /\ hpc'[t] = "check" => trapFlag[t]
         /\ trapFlag[t] /\ ~killed' => hpc'[t] = "check"
         /\ \A u \in Threads \ {t} : hpc'[u] = hpc[u] /\ upc'[u] = upc[u]
<1>1. CASE Execute(t) \/ LockForMapping(t)
  BY <1>1, UserSteps DEF Execute, LockForMapping
<1>2. CASE StartReset(t) \/ EndDisable(t) \/ MapThread(t) \/ UnmapThread(t)
  BY <1>2, UserSteps DEF StartReset, EndDisable, MapThread, UnmapThread, SetMapping
<1>3. CASE StartGeneration(t) \/ StartEnable(t) \/ StartHandler(t) \/ StartReturn(t)
  BY <1>3, UserSteps DEF StartGeneration, StartEnable, StartHandler, StartReturn
<1>4. CASE EndClearFlag(t) \/ EndLock(t) \/ EndSave(t)
  BY <1>4, UserSteps DEF EndClearFlag, EndLock, EndSave
<1> QED
  BY <1>1, <1>2, <1>3, <1>4 DEF Call, Continue

LEMMA CaptureFrame ==
  ASSUME NEW t \in Threads, Execute(t) \/ Call(t) \/ Continue(t)
  PROVE  /\ Execute(t) \/ UNCHANGED <<callStack, next>>
         /\ StartGeneration(t) \/ UNCHANGED g_Generation
         /\ StartEnable(t) \/ EndDisable(t) \/ UNCHANGED g_TraceEnabled
         /\ StartEnable(t) \/ (g_TraceEnabled' => g_TraceEnabled)
         /\ EndSave(t) \/ UNCHANGED <<g_StackData, g_Stats>>
         /\ EndClearFlag(t) \/ UNCHANGED trapFlag
         /\ MapThread(t) \/ UnmapThread(t) \/ UNCHANGED s_CoreMappings
         /\ (t = Controller /\ StartReset(t)) \/ UNCHANGED child
<1> USE DEF recorder
<1>1. CASE Execute(t)
  BY <1>1 DEF Execute
<1>2. CASE LockForMapping(t)
  BY <1>2 DEF LockForMapping
<1>3. CASE t = Controller /\ StartReset(t)
  BY <1>3 DEF StartReset
<1>4. CASE EndDisable(t)
  BY <1>4 DEF EndDisable
<1>5. CASE MapThread(t) \/ UnmapThread(t)
  BY <1>5 DEF MapThread, UnmapThread, SetMapping
<1>6. CASE StartGeneration(t)
  BY <1>6 DEF StartGeneration
<1>7. CASE StartEnable(t)
  BY <1>7 DEF StartEnable
<1>8. CASE StartHandler(t) \/ StartReturn(t)
  BY <1>8 DEF StartHandler, StartReturn
<1>9. CASE EndClearFlag(t)
  BY <1>9 DEF EndClearFlag
<1>10. CASE EndLock(t)
  BY <1>10 DEF EndLock
<1>11. CASE EndSave(t)
  BY <1>11 DEF EndSave
<1> QED
  BY <1>1, <1>2, <1>3, <1>4, <1>5, <1>6, <1>7, <1>8, <1>9, <1>10, <1>11 DEF Call, Continue

LEMMA HandlerKeeps ==
  ASSUME TypeOK, NEW t \in Threads, Handle(t)
  PROVE  /\ \A u \in Threads \ {t} : /\ s_ThreadState'[u] = s_ThreadState[u]
                                    /\ trapFlag'[u] = trapFlag[u]
                                    /\ began'[u] = began[u]
                                    /\ hpc'[u] = hpc[u]
         /\ NotTracing(t) \/ trapFlag' = trapFlag
         /\ Tracing(t) \/ began' = began
         /\ Refresh(t) \/ (/\ s_ThreadState'[t].gen = s_ThreadState[t].gen
                           /\ s_ThreadState'[t].core = s_ThreadState[t].core)
<1>1. CASE NotTracing(t)
  BY <1>1, HandlerSteps DEF NotTracing, TypeOK
<1>2. CASE Tracing(t)
  BY <1>2, HandlerSteps DEF Tracing, TypeOK
<1>3. CASE Refresh(t)
  BY <1>3, HandlerSteps DEF Refresh, TypeOK
<1>4. CASE Filter(t)
  BY <1>4, HandlerSteps DEF Filter
<1>5. CASE LockForInsert(t) \/ LockForCommit(t) \/ InTime(t)
  BY <1>5, HandlerSteps DEF LockForInsert, LockForCommit, InTime
<1>6. CASE InsertStack(t)
  <2>1. trapFlag' = trapFlag /\ began' = began /\ \A u \in Threads \ {t} : hpc'[u] = hpc[u]
    BY <1>6, HandlerSteps DEF InsertStack
  <2> QED
    BY <1>6, <2>1, InsertedStack
<1>7. CASE TooLate(t) \/ Record(t)
  BY <1>7, HandlerSteps DEF TooLate, Record, InvalidateStack, TypeOK
<1> QED
  BY <1>1, <1>2, <1>3, <1>4, <1>5, <1>6, <1>7 DEF Handle

LEMMA ChildFrame ==
  ASSUME TypeOK, ChildArms \/ ChildRefused
  PROVE  /\ UNCHANGED <<g_TraceEnabled, g_Generation, g_StackData, g_Stats,
                        g_SignalHandlerInstalled, g_Lock, s_CoreMappings, s_ThreadState,
                        upc, hpc, callStack, next, mapTarget, began>>
         /\ ~killed
         /\ child \notin {NoChild, EarlyChild} /\ child' \in {NoChild, EarlyChild}
         /\ \A t \in Threads : trapFlag[t] => trapFlag'[t]
<1>1. CASE ChildArms
  BY <1>1 DEF ChildArms, recorder
<1>2. CASE ChildRefused
  BY <1>2 DEF ChildRefused, recorder
<1> QED
  BY <1>1, <1>2

LEMMA CallPreserved == TypeOK /\ CallInv /\ [Next]_vars => CallInv'
<1> SUFFICES ASSUME TypeOK, CallInv, [Next]_vars
             PROVE  CallInv'
  OBVIOUS
<1> USE ControllerAssumption DEF CallInv, recorder
<1>1. ASSUME NEW t \in Threads, Execute(t)
      PROVE  CallInv'
  BY <1>1, UserSteps DEF Execute
<1>2. ASSUME NEW t \in Threads, Call(t)
      PROVE  CallInv'
  <2>1. CASE LockForMapping(t)
    BY <2>1, UserSteps DEF LockForMapping
  <2>2. CASE t = Controller /\ StartReset(t)
    BY <2>2, UserSteps DEF StartReset
  <2>3. CASE t = Controller /\ EndDisable(t)
    BY <2>3, UserSteps DEF EndDisable
  <2> QED
    BY <1>2, <2>1, <2>2, <2>3 DEF Call
<1>3. ASSUME NEW t \in Threads, Continue(t)
      PROVE  CallInv'
  <2>1. CASE MapThread(t) \/ UnmapThread(t)
    BY <2>1, UserSteps DEF MapThread, UnmapThread, SetMapping
  <2>2. CASE StartGeneration(t)
    BY <2>2, UserSteps DEF StartGeneration
  <2>3. CASE StartEnable(t)
    BY <2>3, UserSteps DEF StartEnable
  <2>4. CASE StartHandler(t) \/ StartReturn(t)
    BY <2>4, UserSteps DEF StartHandler, StartReturn
  <2>5. CASE EndClearFlag(t)
    BY <2>5, UserSteps DEF EndClearFlag
  <2>6. CASE EndLock(t) \/ EndSave(t)
    BY <2>6, UserSteps DEF EndLock, EndSave
  <2> QED
    BY <1>3, <2>1, <2>2, <2>3, <2>4, <2>5, <2>6 DEF Continue
<1>4. ASSUME NEW t \in Threads, Handle(t)
      PROVE  CallInv'
  BY <1>4, HandlerFrame
<1>5. CASE ChildArms \/ ChildRefused
  BY <1>5, ChildFrame
<1>6. CASE UNCHANGED vars
  BY <1>6 DEF vars
<1> QED
  BY <1>1, <1>2, <1>3, <1>4, <1>5, <1>6 DEF Next

\* Mutual exclusion of the critical sections, and of the two positions of a thread.
LEMMA LockPreserved == TypeOK /\ LockInv /\ [Next]_vars => LockInv'
<1> SUFFICES ASSUME TypeOK, LockInv, [Next]_vars
             PROVE  LockInv'
  OBVIOUS
<1> USE FreeAssumption DEF LockInv, CallLocks, HandlerLocks, recorder, Lock, Unlock
<1>1. ASSUME NEW t \in Threads, Execute(t)
      PROVE  LockInv'
  BY <1>1, UserSteps DEF Execute
<1>2. ASSUME NEW t \in Threads, Call(t)
      PROVE  LockInv'
  <2>1. CASE LockForMapping(t)
    BY <2>1, UserSteps DEF LockForMapping
  <2>2. CASE StartReset(t) \/ EndDisable(t)
    BY <2>2, UserSteps DEF StartReset, EndDisable
  <2> QED
    BY <1>2, <2>1, <2>2 DEF Call
<1>3. ASSUME NEW t \in Threads, Continue(t)
      PROVE  LockInv'
  <2>1. CASE MapThread(t) \/ UnmapThread(t)
    BY <2>1, UserSteps DEF MapThread, UnmapThread, SetMapping
  <2>2. CASE StartGeneration(t) \/ StartEnable(t)
    BY <2>2, UserSteps DEF StartGeneration, StartEnable
  <2>3. CASE StartHandler(t) \/ StartReturn(t)
    BY <2>3, UserSteps DEF StartHandler, StartReturn
  <2>4. CASE EndClearFlag(t)
    BY <2>4, UserSteps DEF EndClearFlag
  <2>5. CASE EndLock(t) \/ EndSave(t)
    BY <2>5, UserSteps DEF EndLock, EndSave
  <2> QED
    BY <1>3, <2>1, <2>2, <2>3, <2>4, <2>5 DEF Continue
<1>4. ASSUME NEW t \in Threads, Handle(t)
      PROVE  LockInv'
  <2>1. CASE NotTracing(t) \/ Tracing(t)
    BY <2>1, HandlerSteps DEF NotTracing, Tracing
  <2>2. CASE Refresh(t) \/ Filter(t)
    BY <2>2, HandlerSteps DEF Refresh, Filter
  <2>3. CASE LockForInsert(t) \/ LockForCommit(t) \/ InTime(t)
    BY <2>3, HandlerSteps DEF LockForInsert, LockForCommit, InTime
  <2>4. CASE InsertStack(t) \/ TooLate(t) \/ Record(t)
    BY <2>4, HandlerSteps DEF InsertStack, TooLate, Record
  <2> QED
    BY <1>4, <2>1, <2>2, <2>3, <2>4 DEF Handle
<1>5. CASE ChildArms \/ ChildRefused
  BY <1>5 DEF ChildArms, ChildRefused
<1>6. CASE UNCHANGED vars
  BY <1>6 DEF vars
<1> QED
  BY <1>1, <1>2, <1>3, <1>4, <1>5, <1>6 DEF Next

LEMMA OffsetPreserved == TypeOK /\ OffsetInv /\ [Next]_vars => OffsetInv'
<1> SUFFICES ASSUME TypeOK, OffsetInv, [Next]_vars
             PROVE  OffsetInv'
  OBVIOUS
<1> USE DEF OffsetInv, recorder
<1>1. ASSUME NEW t \in Threads, Execute(t) \/ Call(t) \/ Continue(t)
      PROVE  OffsetInv'
  <2>1. /\ s_ThreadState' = s_ThreadState
        /\ hpc'[t] \in {"none", "check"}
        /\ \A u \in Threads \ {t} : hpc'[u] = hpc[u]
    BY <1>1, ThreadFrame
  <2> QED
    BY <2>1
<1>2. ASSUME NEW t \in Threads, Handle(t)
      PROVE  OffsetInv'
  <2>1. CASE NotTracing(t) \/ Tracing(t)
    BY <2>1, HandlerSteps DEF NotTracing, Tracing
  <2>2. CASE Refresh(t)
    BY <2>2, HandlerSteps DEF Refresh, TypeOK
  <2>3. CASE Filter(t)
    BY <2>3, HandlerSteps DEF Filter
  <2>4. CASE LockForInsert(t) \/ LockForCommit(t) \/ InTime(t)
    BY <2>4, HandlerSteps DEF LockForInsert, LockForCommit, InTime
  <2>5. CASE InsertStack(t)
    <3>1. s_ThreadState'[t].stack # NoStack /\ \A u \in Threads \ {t} : s_ThreadState'[u] = s_ThreadState[u]
      BY <2>5, InsertedStack
    <3>2. \A u \in Threads \ {t} : hpc'[u] = hpc[u]
      BY <2>5, HandlerSteps DEF InsertStack
    <3> QED
      BY <3>1, <3>2
  <2>6. CASE TooLate(t) \/ Record(t)
    BY <2>6, HandlerSteps DEF TooLate, Record, InvalidateStack, TypeOK
  <2> QED
    BY <1>2, <2>1, <2>2, <2>3, <2>4, <2>5, <2>6 DEF Handle
<1>3. CASE ChildArms \/ ChildRefused
  BY <1>3 DEF ChildArms, ChildRefused
<1>4. CASE UNCHANGED vars
  BY <1>4 DEF vars
<1> QED
  BY <1>1, <1>2, <1>3, <1>4 DEF Next

-----------------------------------------------------------------------------
(* With every capture started on threads that have noticed the end of the  *)
(* last one.                                                               *)

LEMMA QuietPreserved ==
  ASSUME NoStragglers, TypeOK, CallInv, QuietInv, [Next]_vars
  PROVE  QuietInv'
<1> USE ControllerAssumption, BoundAssumption DEF QuietInv, Starting, CallInv, recorder
<1>0. \A u \in Threads : s_ThreadState[u].gen \in Nat /\ g_Generation \in Nat
  BY DEF TypeOK
<1>1. ASSUME NEW t \in Threads, Execute(t)
      PROVE  QuietInv'
  BY <1>1, UserSteps DEF Execute
<1>2. ASSUME NEW t \in Threads, Call(t)
      PROVE  QuietInv'
  <2>1. CASE LockForMapping(t)
    BY <2>1, UserSteps DEF LockForMapping
  <2>2. CASE t = Controller /\ StartReset(t)
    <3>1. Quiet
      BY <2>2 DEF StartReset, NoStragglers
    <3> QED
      BY <2>2, <3>1, UserSteps DEF StartReset, Quiet
  <2>3. CASE t = Controller /\ EndDisable(t)
    BY <2>3, UserSteps DEF EndDisable
  <2> QED
    BY <1>2, <2>1, <2>2, <2>3 DEF Call
<1>3. ASSUME NEW t \in Threads, Continue(t)
      PROVE  QuietInv'
  <2>1. CASE MapThread(t) \/ UnmapThread(t)
    BY <2>1, UserSteps DEF MapThread, UnmapThread, SetMapping
  <2>2. CASE StartGeneration(t)
    BY <1>0, <2>2, UserSteps DEF StartGeneration
  <2>3. CASE StartEnable(t)
    BY <2>3, UserSteps DEF StartEnable
  <2>4. CASE StartHandler(t) \/ StartReturn(t)
    BY <2>4, UserSteps DEF StartHandler, StartReturn
  <2>5. CASE EndClearFlag(t)
    BY <2>5, UserSteps DEF EndClearFlag
  <2>6. CASE EndLock(t) \/ EndSave(t)
    BY <2>6, UserSteps DEF EndLock, EndSave
  <2> QED
    BY <1>3, <2>1, <2>2, <2>3, <2>4, <2>5, <2>6 DEF Continue
<1>4. ASSUME NEW t \in Threads, Handle(t)
      PROVE  QuietInv'
  <2> USE HandlerSteps, HandlerKeeps, <1>0, <1>4
  <2>1. CASE NotTracing(t)
    <3>1. hpc'[t] = "none" /\ s_ThreadState' = s_ThreadState
      BY <2>1 DEF NotTracing
    <3>2. UNCHANGED <<g_TraceEnabled, g_Generation, upc>>
      BY HandlerFrame
    <3> QED
      BY <3>1, <3>2
  <2>2. CASE Tracing(t)
    <3>1. g_TraceEnabled /\ hpc[t] = "check" /\ trapFlag' = trapFlag /\ s_ThreadState' = s_ThreadState
      BY ONLY <2>2 DEF Tracing, HandlerStep
    <3>2. UNCHANGED <<g_TraceEnabled, g_Generation, upc>>
      BY HandlerFrame
    <3>3. upc[Controller] \notin {"start.gen", "start.enable"}
      BY <3>1
    <3>4. \A u \in Threads : hpc'[u] # "none" => trapFlag'[u]
      BY <3>1
    <3> QED
      BY <3>1, <3>2, <3>3, <3>4
  <2>3. CASE Refresh(t)
    <3>1. \A u \in Threads : s_ThreadState'[u].gen <= g_Generation
      BY <2>3 DEF Refresh, TypeOK
    <3> QED
      BY <2>3, <3>1 DEF Refresh
  <2>4. CASE Filter(t)
    BY <2>4 DEF Filter
  <2>5. CASE LockForInsert(t) \/ LockForCommit(t) \/ InTime(t)
    BY <2>5 DEF LockForInsert, LockForCommit, InTime
  <2>6. CASE InsertStack(t)
    BY <2>6 DEF InsertStack
  <2>7. CASE TooLate(t) \/ Record(t)
    <3>1. hpc'[t] = "none" /\ ~Refresh(t)
      BY <2>7 DEF TooLate, Record, Refresh
    <3>2. UNCHANGED <<g_TraceEnabled, g_Generation, upc>>
      BY HandlerFrame
    <3>3. trapFlag' = trapFlag
      BY <2>7 DEF TooLate, Record
    <3> QED
      BY <3>1, <3>2, <3>3
  <2> QED
    BY <2>1, <2>2, <2>3, <2>4, <2>5, <2>6, <2>7 DEF Handle
<1>5. CASE ChildArms \/ ChildRefused
  BY <1>5, ChildFrame
<1>6. CASE UNCHANGED vars
  BY <1>6 DEF vars
<1> QED
  BY <1>1, <1>2, <1>3, <1>4, <1>5, <1>6 DEF Next

LEMMA FreshPreserved ==
  ASSUME TypeOK, CallInv, QuietInv, FreshInv, [Next]_vars
  PROVE  FreshInv'
<1> USE ControllerAssumption DEF FreshInv, InHandler, recorder
<1>1. ASSUME NEW t \in Threads, Execute(t) \/ Call(t) \/ Continue(t)
      PROVE  FreshInv'
  <2>1. /\ s_ThreadState' = s_ThreadState
        /\ hpc'[t] \in {"none", "check"}
        /\ \A u \in Threads \ {t} : hpc'[u] = hpc[u]
    BY <1>1, ThreadFrame
  <2>2. CASE StartEnable(t)
    <3>1. upc[Controller] = "start.enable"
      BY <2>2, UserSteps DEF StartEnable, CallInv
    <3> QED
      BY <2>1, <3>1 DEF QuietInv
  <2>3. CASE StartGeneration(t)
    BY <2>1, <2>3 DEF StartGeneration, QuietInv, CallInv, UserStep
  <2>4. CASE ~StartEnable(t) /\ ~StartGeneration(t)
    <3>1. g_Generation' = g_Generation /\ (g_TraceEnabled' => g_TraceEnabled)
      BY <1>1, <2>4, CaptureFrame
    <3> QED
      BY <2>1, <3>1
  <2> QED
    BY <2>2, <2>3, <2>4
<1>2. ASSUME NEW t \in Threads, Handle(t)
      PROVE  FreshInv'
  <2> USE <1>2, HandlerSteps, HandlerKeeps, HandlerFrame
  <2>1. CASE NotTracing(t) \/ Tracing(t)
    BY <2>1 DEF NotTracing, Tracing
  <2>2. CASE Refresh(t)
    <3>1. /\ s_ThreadState'[t].gen = g_Generation
          /\ s_ThreadState'[t].stack # NoStack => s_ThreadState' = s_ThreadState
      BY <2>2 DEF Refresh, TypeOK
    <3> QED
      BY <2>2, <3>1 DEF Refresh
  <2>3. CASE Filter(t)
    BY <2>3 DEF Filter
  <2>4. CASE LockForInsert(t)
    BY <2>4 DEF LockForInsert
  <2>5. CASE InsertStack(t)
    BY <2>5 DEF InsertStack
  <2>6. CASE LockForCommit(t) \/ InTime(t)
    BY <2>6 DEF LockForCommit, InTime
  <2>7. CASE TooLate(t) \/ Record(t)
    <3>1. /\ hpc'[t] = "none" /\ ~Refresh(t)
          /\ s_ThreadState'[t].stack \in {s_ThreadState[t].stack, NoStack}
      <4>1. InvalidateStack(t) /\ hpc'[t] = "none" /\ hpc[t] # "refresh"
        BY <2>7 DEF TooLate, Record
      <4> QED
        BY <4>1, StackInvalidated DEF Refresh
    <3>2. /\ UNCHANGED <<g_TraceEnabled, g_Generation>>
          /\ s_ThreadState'[t].core = s_ThreadState[t].core
          /\ \A u \in Threads \ {t} : s_ThreadState'[u] = s_ThreadState[u] /\ hpc'[u] = hpc[u]
      BY <3>1
    <3>3. /\ g_TraceEnabled' /\ hpc'[t] \in InHandler => s_ThreadState'[t].gen = g_Generation'
          /\ hpc'[t] \in {"stack", "insert"} \/ s_ThreadState'[t].stack # NoStack
               => s_ThreadState'[t].core >= 0
      BY <3>1, <3>2
    <3> QED
      BY <3>2, <3>3
  <2> QED
    BY <2>1, <2>2, <2>3, <2>4, <2>5, <2>6, <2>7 DEF Handle
<1>3. CASE ChildArms \/ ChildRefused
  BY <1>3, ChildFrame
<1>4. CASE UNCHANGED vars
  BY <1>4 DEF vars
<1> QED
  BY <1>1, <1>2, <1>3, <1>4 DEF Next

\* The offset that a thread keeps, a step of its own code that does not start a
\* capture, and no table that is freed.
LEMMA StackPreserved ==
  ASSUME TypeOK, CallInv, LockInv, OffsetInv, QuietInv, FreshInv, StackInv, [Next]_vars
  PROVE  StackInv'
<1> USE ControllerAssumption DEF StackInv, StackIsCurrent, Names, recorder
<1>1. ASSUME NEW t \in Threads, Execute(t)
      PROVE  StackInv'
  <2>1. /\ \A u \in Threads \ {t} : callStack'[u] = callStack[u] /\ next'[u] = next[u]
        /\ callStack'[t] = next[t]
        /\ UNCHANGED <<g_TraceEnabled, g_Generation, g_StackData, s_ThreadState, trapFlag>>
    BY <1>1 DEF Execute, TypeOK
  <2>2. UserStep(t, "app", "app")
    BY <1>1 DEF Execute
  <2>3. /\ upc[t] = "app" /\ hpc[t] = "none" /\ hpc'[t] \in {"none", "check"}
        /\ trapFlag[t] /\ ~killed' => hpc'[t] = "check"
        /\ ~killed
        /\ \A u \in Threads \ {t} : upc'[u] = upc[u] /\ hpc'[u] = hpc[u]
    BY <2>2, UserSteps
  <2> QED
    BY <2>1, <2>3
<1>2. ASSUME NEW t \in Threads, Call(t) \/ Continue(t)
      PROVE  StackInv'
  <2>1. Execute(t) \/ UNCHANGED <<callStack, next>>
    BY <1>2, CaptureFrame
  <2>2. /\ s_ThreadState' = s_ThreadState
        /\ ~killed
        /\ hpc[t] = "none" /\ hpc'[t] \in {"none", "check"}
        /\ trapFlag[t] /\ ~killed' => hpc'[t] = "check"
        /\ \A u \in Threads \ {t} : hpc'[u] = hpc[u] /\ upc'[u] = upc[u]
    BY <1>2, ThreadFrame
  <2>3. CASE EndSave(t)
    <3>1. upc[t] = "end.save" /\ ~g_TraceEnabled /\ ~g_TraceEnabled'
      BY <2>3, UserSteps DEF EndSave, CallInv
    <3>2. \A u \in Threads : hpc[u] # "record"
      BY <2>2, <3>1 DEF LockInv, CallLocks, HandlerLocks
    <3> QED
      BY <2>2, <3>1, <3>2
  <2>4. CASE StartEnable(t)
    <3>1. upc[Controller] = "start.enable"
      BY <2>4, UserSteps DEF StartEnable, CallInv
    <3>2. \A u \in Threads : s_ThreadState[u].gen < g_Generation /\ hpc[u] # "record"
      BY <3>1 DEF QuietInv
    <3>3. \A u \in Threads : s_ThreadState[u].gen # g_Generation
      BY <3>2 DEF TypeOK
    <3> QED
      BY <2>2, <2>4, <3>2, <3>3 DEF StartEnable
  <2>5. CASE StartGeneration(t) \/ EndClearFlag(t)
    <3>1. ~g_TraceEnabled
      BY <2>5, UserSteps DEF StartGeneration, EndClearFlag, CallInv
    <3>2. UNCHANGED <<g_TraceEnabled, g_StackData, callStack>>
      BY <2>5 DEF StartGeneration, EndClearFlag
    <3> QED
      BY <2>2, <3>1, <3>2
  <2>6. CASE ~EndSave(t) /\ ~StartEnable(t) /\ ~StartGeneration(t) /\ ~EndClearFlag(t)
    <3>1. UNCHANGED <<g_Generation, g_StackData, trapFlag>> /\ (g_TraceEnabled' => g_TraceEnabled)
      BY <1>2, <2>6, CaptureFrame
    <3>2. CASE Execute(t)
      BY <1>1, <3>2
    <3>3. CASE ~Execute(t)
      BY <2>1, <2>2, <3>1, <3>3
    <3> QED
      BY <3>2, <3>3
  <2> QED
    BY <2>3, <2>4, <2>5, <2>6
<1>3. ASSUME NEW t \in Threads, Handle(t)
      PROVE  StackInv'
  <2>1. /\ UNCHANGED <<g_TraceEnabled, g_Generation, upc, callStack, next, killed>>
        /\ \A u \in Threads \ {t} : /\ s_ThreadState'[u] = s_ThreadState[u]
                                   /\ trapFlag'[u] = trapFlag[u]
                                   /\ hpc'[u] = hpc[u]
        /\ NotTracing(t) \/ trapFlag' = trapFlag
    BY <1>3, HandlerFrame, HandlerKeeps
  <2>2. CASE NotTracing(t)
    <3>1. ~g_TraceEnabled /\ hpc'[t] = "none" /\ UNCHANGED <<g_StackData, s_ThreadState>>
      BY <2>2, HandlerSteps DEF NotTracing
    <3> QED
      BY <2>1, <3>1
  <2>3. CASE Tracing(t) \/ LockForInsert(t) \/ LockForCommit(t)
    <3>1. /\ hpc'[t] \in {"refresh", "insert", "recheck"}
          /\ UNCHANGED <<g_StackData, s_ThreadState, trapFlag>>
      BY <2>3, HandlerSteps DEF Tracing, LockForInsert, LockForCommit
    <3> QED
      BY <2>1, <3>1
  <2>4. CASE Refresh(t)
    <3>1. /\ hpc'[t] = "filter" /\ UNCHANGED <<g_StackData, trapFlag>>
          /\ \/ s_ThreadState'[t].stack = NoStack
             \/ s_ThreadState' = s_ThreadState
      BY <2>4, HandlerSteps DEF Refresh, TypeOK
    <3> QED
      BY <2>1, <3>1
  <2>5. CASE Filter(t)
    <3>1. UNCHANGED <<g_StackData, s_ThreadState, trapFlag>>
      BY <2>5 DEF Filter
    <3>2. hpc'[t] \in {"none", "stack", "commit"}
      BY <2>5, HandlerSteps DEF Filter
    <3>3. hpc'[t] = "none" /\ g_TraceEnabled => ~(s_ThreadState[t].core >= 0)
      BY <2>5 DEF Filter, HandlerStep, TypeOK
    <3>4. hpc'[t] = "none" /\ g_TraceEnabled => s_ThreadState[t].stack = NoStack
      BY <3>3 DEF FreshInv
    <3> QED
      BY <2>1, <3>1, <3>2, <3>4
  <2>6. CASE InsertStack(t)
    <3>1. /\ hpc'[t] = "commit" /\ hpc[t] = "insert" /\ g_Lock = t
          /\ trapFlag' = trapFlag
      BY <2>6, HandlerSteps DEF InsertStack, LockInv, HandlerLocks
    <3>2. g_TraceEnabled => trapFlag[t]
      BY <3>1 DEF QuietInv
    <3> QED
      BY <2>1, <2>6, <3>1, <3>2, InsertedStack
  <2>7. CASE InTime(t)
    <3>1. g_TraceEnabled /\ UNCHANGED <<g_StackData, s_ThreadState, trapFlag>>
      BY <2>7 DEF InTime
    <3>2. hpc[t] = "recheck" /\ hpc'[t] = "record"
      BY <2>7 DEF InTime, HandlerStep, TypeOK
    <3>3. s_ThreadState[t].gen = g_Generation /\ s_ThreadState[t].stack # NoStack
      BY <3>1, <3>2 DEF FreshInv, InHandler, OffsetInv
    <3> QED
      BY <2>1, <3>1, <3>2, <3>3
  <2>8. CASE TooLate(t) \/ Record(t)
    <3>1. hpc'[t] = "none" /\ UNCHANGED <<g_StackData, trapFlag>> /\ InvalidateStack(t)
      BY <2>8, HandlerSteps DEF TooLate, Record
    <3>2. \/ s_ThreadState'[t].stack = NoStack
          \/ s_ThreadState' = s_ThreadState /\ ~CallsOrReturns(t)
      BY <3>1 DEF InvalidateStack, TypeOK
    <3> QED
      BY <2>1, <3>1, <3>2 DEF CallsOrReturns
  <2> QED
    BY <1>3, <2>2, <2>3, <2>4, <2>5, <2>6, <2>7, <2>8 DEF Handle
<1>4. CASE ChildArms \/ ChildRefused
  BY <1>4, ChildFrame
<1>5. CASE UNCHANGED vars
  BY <1>5 DEF vars
<1> QED
  BY <1>1, <1>2, <1>3, <1>4, <1>5 DEF Next

LEMMA NodesPreserved ==
  ASSUME TypeOK, StackInv, NodesNameTheirStack, [Next]_vars
  PROVE  NodesNameTheirStack'
<1> USE DEF NodesNameTheirStack, recorder
<1>1. ASSUME NEW t \in Threads, Execute(t) \/ Call(t) \/ Continue(t)
      PROVE  NodesNameTheirStack'
  <2>1. EndSave(t) \/ UNCHANGED <<g_StackData, g_Stats>>
    BY <1>1, CaptureFrame
  <2>2. CASE EndSave(t)
    BY <2>2 DEF EndSave
  <2> QED
    BY <2>1, <2>2
<1>2. ASSUME NEW t \in Threads, Handle(t)
      PROVE  NodesNameTheirStack'
  <2>1. CASE InsertStack(t)
    <3>1. g_Stats' = g_Stats
      BY <2>1 DEF InsertStack
    <3> QED
      BY <2>1, <3>1, InsertedStack
  <2>2. CASE Record(t)
    <3>1. hpc[t] = "record" /\ g_StackData' = g_StackData
      BY <2>2, HandlerSteps DEF Record
    <3>2. StackIsCurrent(t)
      BY <3>1 DEF StackInv
    <3> QED
      BY <2>2, <3>1, <3>2 DEF Record, StackIsCurrent, Names
  <2>3. CASE ~InsertStack(t) /\ ~Record(t)
    <3>1. UNCHANGED <<g_StackData, g_Stats>>
      BY <1>2, <2>3 DEF Handle, NotTracing, Tracing, Refresh, Filter, LockForInsert,
                        LockForCommit, TooLate, InTime
    <3> QED
      BY <3>1
  <2> QED
    BY <2>1, <2>2, <2>3
<1>3. CASE ChildArms \/ ChildRefused
  BY <1>3, ChildFrame
<1>4. CASE UNCHANGED vars
  BY <1>4 DEF vars
<1> QED
  BY <1>1, <1>2, <1>3, <1>4 DEF Next

LEMMA InvInitially ==
  Init => CallInv /\ LockInv /\ OffsetInv /\ QuietInv /\ FreshInv /\ StackInv
<1> SUFFICES ASSUME Init
             PROVE  CallInv /\ LockInv /\ OffsetInv /\ QuietInv /\ FreshInv /\ StackInv
  OBVIOUS
<1> USE ControllerAssumption DEF Init
<1>1. CallInv /\ LockInv /\ OffsetInv
  BY DEF CallInv, LockInv, CallLocks, HandlerLocks, OffsetInv
<1>2. QuietInv /\ FreshInv /\ StackInv
  BY DEF QuietInv, Starting, FreshInv, InHandler, StackInv, NoStack
<1> QED
  BY <1>1, <1>2

\* Types, and mutual exclusion of the critical sections of g_Lock, hold whatever
\* the application and the kernel do.
THEOREM RecorderTypeCorrect == Spec => [](TypeOK /\ CallInv /\ LockInv /\ OffsetInv)
<1>1. Init => TypeOK /\ CallInv /\ LockInv /\ OffsetInv
  BY TypeInitially, InvInitially
<1>2. TypeOK /\ CallInv /\ LockInv /\ OffsetInv /\ [Next]_vars
        => (TypeOK /\ CallInv /\ LockInv /\ OffsetInv)'
  BY TypePreserved, CallPreserved, LockPreserved, OffsetPreserved
<1> QED
  BY <1>1, <1>2, PTL DEF Spec

\* Unless a capture is started on threads that have not noticed the end of the
\* last one, every node of g_Stats names, by its offset, the call stack it was
\* reached through: whatever calls and returns, captures that are cancelled,
\* mappings that change and children that run early come in between
\* (InsertStack, ThreadState::m_StackIndex).
THEOREM NodesNameTheirStackThere ==
  ASSUME NoStragglers
  PROVE  Spec => []NodesNameTheirStack
<1> DEFINE Base == TypeOK /\ CallInv /\ LockInv /\ OffsetInv
           Inv == QuietInv /\ FreshInv /\ StackInv /\ NodesNameTheirStack
<1>1. Init => Inv
  BY InvInitially DEF Init, NodesNameTheirStack
<1>2. Base /\ Inv /\ [Next]_vars => Inv'
  BY QuietPreserved, FreshPreserved, StackPreserved, NodesPreserved
<1>3. Inv => NodesNameTheirStack
  OBVIOUS
<1> QED
  BY <1>1, <1>2, <1>3, RecorderTypeCorrect, PTL DEF Spec

-----------------------------------------------------------------------------
(* With every capture saved.                                               *)

\* g_TraceEnabled is cleared while others commit, but EndSave is not reached
\* before they have: CacheSimEndCapture waits for g_Lock.
LEMMA CommitPreserved ==
  ASSUME NoCancel, TypeOK, CallInv, LockInv, CommitInv, [Next]_vars
  PROVE  CommitInv'
<1> USE ControllerAssumption DEF CommitInv, Unsaved, Ending, CallInv, recorder
<1>1. ASSUME NEW t \in Threads, Execute(t)
      PROVE  CommitInv'
  BY <1>1, UserSteps DEF Execute
<1>2. ASSUME NEW t \in Threads, Call(t)
      PROVE  CommitInv'
  <2>1. CASE LockForMapping(t)
    BY <2>1, UserSteps DEF LockForMapping
  <2>2. CASE t = Controller /\ StartReset(t)
    BY <2>2, UserSteps DEF StartReset
  <2>3. CASE t = Controller /\ EndDisable(t)
    BY <2>3, UserSteps DEF EndDisable
  <2> QED
    BY <1>2, <2>1, <2>2, <2>3 DEF Call
<1>3. ASSUME NEW t \in Threads, Continue(t)
      PROVE  CommitInv'
  <2>1. CASE MapThread(t) \/ UnmapThread(t)
    BY <2>1, UserSteps DEF MapThread, UnmapThread, SetMapping
  <2>2. CASE StartGeneration(t)
    BY <2>2, UserSteps DEF StartGeneration
  <2>3. CASE StartEnable(t)
    BY <2>3, UserSteps DEF StartEnable
  <2>4. CASE StartHandler(t) \/ StartReturn(t)
    BY <2>4, UserSteps DEF StartHandler, StartReturn
  <2>5. CASE EndClearFlag(t)
    BY <2>5, UserSteps DEF EndClearFlag, NoCancel
  <2>6. CASE EndLock(t)
    <3>1. \A u \in Threads : hpc[u] # "record"
      BY <2>6, FreeAssumption DEF EndLock, Lock, LockInv, HandlerLocks
    <3> QED
      BY <2>6, <3>1, UserSteps DEF EndLock
  <2>7. CASE EndSave(t)
    BY <2>7, UserSteps DEF EndSave
  <2> QED
    BY <1>3, <2>1, <2>2, <2>3, <2>4, <2>5, <2>6, <2>7 DEF Continue
<1>4. ASSUME NEW t \in Threads, Handle(t)
      PROVE  CommitInv'
  <2>1. UNCHANGED <<g_TraceEnabled, upc>> /\ \A u \in Threads \ {t} : hpc'[u] = hpc[u]
    BY <1>4, HandlerFrame, HandlerKeeps
  <2>2. hpc'[t] # "record" \/ g_TraceEnabled
    BY <1>4 DEF Handle, NotTracing, Tracing, Refresh, Filter, LockForInsert, InsertStack,
                LockForCommit, TooLate, InTime, Record, HandlerStep, TypeOK
  <2> QED
    BY <2>1, <2>2
<1>5. CASE ChildArms \/ ChildRefused
  BY <1>5, ChildFrame
<1>6. CASE UNCHANGED vars
  BY <1>6 DEF vars
<1> QED
  BY <1>1, <1>2, <1>3, <1>4, <1>5, <1>6 DEF Next

\* The nodes in the table were trapped in the capture that is on, or in the last
\* one if it has yet to be saved.
LEMMA OriginPreserved ==
  ASSUME NoCancel, TypeOK, CallInv, QuietInv, CommitInv, OriginInv, [Next]_vars
  PROVE  OriginInv'
<1> USE ControllerAssumption DEF OriginInv, Unsaved, Ending, recorder
<1>1. ASSUME NEW t \in Threads, Execute(t)
      PROVE  OriginInv'
  BY <1>1, UserSteps DEF Execute
<1>2. ASSUME NEW t \in Threads, Call(t)
      PROVE  OriginInv'
  <2>1. CASE LockForMapping(t)
    BY <2>1, UserSteps DEF LockForMapping
  <2>2. CASE t = Controller /\ StartReset(t)
    BY <2>2, UserSteps DEF StartReset
  <2>3. CASE t = Controller /\ EndDisable(t)
    BY <2>3, UserSteps DEF EndDisable
  <2> QED
    BY <1>2, <2>1, <2>2, <2>3 DEF Call
<1>3. ASSUME NEW t \in Threads, Continue(t)
      PROVE  OriginInv'
  <2> USE DEF CallInv
  <2>1. CASE MapThread(t) \/ UnmapThread(t)
    BY <2>1, UserSteps DEF MapThread, UnmapThread, SetMapping
  <2>2. CASE StartGeneration(t)
    <3>1. upc[Controller] = "start.gen" /\ ~g_TraceEnabled /\ g_Stats = {}
      BY <2>2, UserSteps DEF StartGeneration
    <3>2. \A u \in Threads : hpc[u] # "record"
      BY <3>1 DEF QuietInv
    <3>3. ~g_TraceEnabled' /\ g_Stats' = {} /\ \A u \in Threads : hpc'[u] # "record"
      BY <2>2, <3>1, <3>2, UserSteps DEF StartGeneration
    <3> QED
      BY <3>3
  <2>3. CASE StartEnable(t)
    BY <2>3, UserSteps DEF StartEnable, QuietInv
  <2>4. CASE StartHandler(t) \/ StartReturn(t)
    BY <2>4, UserSteps DEF StartHandler, StartReturn
  <2>5. CASE EndClearFlag(t)
    BY <2>5, UserSteps DEF EndClearFlag, NoCancel
  <2>6. CASE EndLock(t)
    BY <2>6, UserSteps DEF EndLock
  <2>7. CASE EndSave(t)
    BY <2>7, UserSteps DEF EndSave
  <2> QED
    BY <1>3, <2>1, <2>2, <2>3, <2>4, <2>5, <2>6, <2>7 DEF Continue
<1>4. ASSUME NEW t \in Threads, Handle(t)
      PROVE  OriginInv'
  <2>1. /\ UNCHANGED <<g_TraceEnabled, g_Generation, upc>>
        /\ \A u \in Threads \ {t} : hpc'[u] = hpc[u] /\ began'[u] = began[u]
    BY <1>4, HandlerFrame, HandlerKeeps
  <2>2. CASE Tracing(t)
    <3>1. g_Stats' = g_Stats /\ began'[t].gen = g_Generation
      BY <2>2 DEF Tracing, TypeOK
    <3> QED
      BY <2>1, <3>1
  <2>3. CASE Record(t)
    <3>1. hpc[t] = "record" /\ hpc'[t] = "none" /\ began' = began
      BY <2>3, HandlerSteps DEF Record
    <3>2. Unsaved /\ began[t].gen = g_Generation
      BY <3>1 DEF CommitInv
    <3>3. \A n \in g_Stats' : n \in g_Stats \/ n.gen = g_Generation
      BY <2>3, <3>2 DEF Record
    <3> QED
      BY <2>1, <3>1, <3>2, <3>3
  <2>4. CASE ~Tracing(t) /\ ~Record(t)
    <3>1. began' = began
      BY <1>4, <2>4, HandlerKeeps
    <3>2. g_Stats' = g_Stats
      BY <1>4, <2>4 DEF Handle, NotTracing, Refresh, Filter, LockForInsert, InsertStack,
                        LockForCommit, TooLate, InTime
    <3>3. \/ hpc'[t] = "none"
          \/ hpc[t] \notin {"none", "check"} /\ (hpc'[t] = "record" => g_TraceEnabled)
      BY <1>4, <2>4 DEF Handle, NotTracing, Refresh, Filter, LockForInsert, InsertStack,
                        LockForCommit, TooLate, InTime, HandlerStep, TypeOK
    <3> QED
      BY <2>1, <3>1, <3>2, <3>3
  <2> QED
    BY <2>2, <2>3, <2>4
<1>5. CASE ChildArms \/ ChildRefused
  BY <1>5, ChildFrame
<1>6. CASE UNCHANGED vars
  BY <1>6 DEF vars
<1> QED
  BY <1>1, <1>2, <1>3, <1>4, <1>5, <1>6 DEF Next

LEMMA RecorderInvariant ==
  ASSUME NoStragglers
  PROVE  Spec => [](/\ TypeOK /\ CallInv /\ LockInv /\ OffsetInv
                    /\ QuietInv /\ FreshInv /\ StackInv)
<1> DEFINE Base == TypeOK /\ CallInv /\ LockInv /\ OffsetInv
           Inv == QuietInv /\ FreshInv /\ StackInv
<1>1. Init => Inv
  BY InvInitially
<1>2. Base /\ Inv /\ [Next]_vars => Inv'
  BY QuietPreserved, FreshPreserved, StackPreserved
<1> QED
  BY <1>1, <1>2, RecorderTypeCorrect, PTL DEF Spec

\* If every capture that ends is saved and starts on threads that have noticed
\* the end of the last one, CacheSimEndCapture saves nodes of its own capture
\* only, although it clears g_TraceEnabled while other threads commit and frees
\* the tables while threads are still being trapped.
THEOREM SavesOneCaptureThere ==
  ASSUME NoStragglers, NoCancel
  PROVE  Spec => []SavesOneCapture
<1> DEFINE Base == TypeOK /\ CallInv /\ LockInv /\ OffsetInv /\ QuietInv
           Inv == CommitInv /\ OriginInv
<1>1. Init => Inv
  BY DEF Init, CommitInv, OriginInv
<1>2. Base /\ Inv /\ [Next]_vars => Inv'
  BY CommitPreserved, OriginPreserved
<1>3. Inv => SavesOneCapture
  BY DEF OriginInv, SavesOneCapture
<1> QED
  BY <1>1, <1>2, <1>3, RecorderInvariant, PTL DEF Spec

\* g_Cache.Init, which takes no lock, does not meet a commit to the cache if
\* every capture that ends is saved, for then CacheSimEndCapture has waited for
\* the last commit; nor if captures start on threads that are out of the handler.
THEOREM ResetExcludesCommitThere ==
  ASSUME NoCancel \/ NoStragglers
  PROVE  Spec => ResetExcludesCommit
<1> DEFINE NoCommit == \A t \in Threads : hpc[t] # "record"
           Base == TypeOK /\ CallInv /\ LockInv /\ OffsetInv
<1>1. CASE NoCancel
  <2>1. Init => CommitInv
    BY DEF Init, CommitInv
  <2>2. Base /\ CommitInv /\ [Next]_vars => CommitInv'
    BY <1>1, CommitPreserved
  <2>3. CommitInv => [StartReset(Controller) => NoCommit]_vars
    BY ControllerAssumption DEF CommitInv, Unsaved, Ending, StartReset, UserStep
  <2> QED
    BY <2>1, <2>2, <2>3, RecorderTypeCorrect, PTL DEF Spec, ResetExcludesCommit
<1>2. CASE NoStragglers
  <2>1. [StartReset(Controller) => NoCommit]_vars
    BY <1>2 DEF StartReset, Quiet, NoStragglers
  <2> QED
    BY <2>1, PTL DEF ResetExcludesCommit
<1> QED
  BY <1>1, <1>2
-----------------------------------------------------------------------------
(* With mappings that are made before a capture starts.                    *)

LEMMA MappingPreserved ==
  ASSUME NoLateMapping, TypeOK, CallInv, MappingInv, [Next]_vars
  PROVE  MappingInv'
<1> USE ControllerAssumption DEF MappingInv, Starting, CallInv, recorder
<1>1. ASSUME NEW t \in Threads, Execute(t)
      PROVE  MappingInv'
  BY <1>1, UserSteps DEF Execute
<1>2. ASSUME NEW t \in Threads, Call(t)
      PROVE  MappingInv'
  <2>1. CASE LockForMapping(t)
    BY <2>1, UserSteps DEF LockForMapping, NoLateMapping
  <2>2. CASE t = Controller /\ StartReset(t)
    BY <2>2, UserSteps DEF StartReset, NoLateMapping
  <2>3. CASE t = Controller /\ EndDisable(t)
    BY <2>3, UserSteps DEF EndDisable
  <2> QED
    BY <1>2, <2>1, <2>2, <2>3 DEF Call
<1>3. ASSUME NEW t \in Threads, Continue(t)
      PROVE  MappingInv'
  <2>1. CASE MapThread(t) \/ UnmapThread(t)
    BY <2>1, UserSteps DEF MapThread, UnmapThread, SetMapping
  <2>2. CASE StartGeneration(t)
    BY <2>2, UserSteps DEF StartGeneration
  <2>3. CASE StartEnable(t)
    BY <2>3, UserSteps DEF StartEnable
  <2>4. CASE StartHandler(t) \/ StartReturn(t)
    BY <2>4, UserSteps DEF StartHandler, StartReturn
  <2>5. CASE EndClearFlag(t)
    BY <2>5, UserSteps DEF EndClearFlag
  <2>6. CASE EndLock(t) \/ EndSave(t)
    BY <2>6, UserSteps DEF EndLock, EndSave
  <2> QED
    BY <1>3, <2>1, <2>2, <2>3, <2>4, <2>5, <2>6 DEF Continue
<1>4. ASSUME NEW t \in Threads, Handle(t)
      PROVE  MappingInv'
  BY <1>4, HandlerFrame
<1>5. CASE ChildArms \/ ChildRefused
  BY <1>5, ChildFrame
<1>6. CASE UNCHANGED vars
  BY <1>6 DEF vars
<1> QED
  BY <1>1, <1>2, <1>3, <1>4, <1>5, <1>6 DEF Next

\* The core that a thread looked up is the one it is mapped to.
LEMMA CorePreserved ==
  ASSUME TypeOK, CallInv, QuietInv, FreshInv, MappingInv, CoreInv, [Next]_vars
  PROVE  CoreInv'
<1> USE ControllerAssumption DEF CoreInv, FindLogicalCoreIndex, recorder
<1>1. ASSUME NEW t \in Threads, Execute(t) \/ Call(t) \/ Continue(t)
      PROVE  CoreInv'
  <2>1. /\ s_ThreadState' = s_ThreadState /\ began' = began
        /\ hpc'[t] \in {"none", "check"}
        /\ \A u \in Threads \ {t} : hpc'[u] = hpc[u]
    BY <1>1, ThreadFrame
  <2>2. CASE StartEnable(t)
    <3>1. upc[Controller] = "start.enable"
      BY <2>2, UserSteps DEF StartEnable, CallInv
    <3>2. \A u \in Threads : s_ThreadState[u].gen # g_Generation /\ hpc[u] \in {"none", "check"}
      BY <3>1 DEF QuietInv, TypeOK
    <3> QED
      BY <2>1, <2>2, <3>2 DEF StartEnable
  <2>3. CASE StartGeneration(t)
    <3>1. ~g_TraceEnabled /\ ~g_TraceEnabled'
      BY <2>3, UserSteps DEF StartGeneration, CallInv
    <3> QED
      BY <2>1, <3>1
  <2>4. CASE MapThread(t) \/ UnmapThread(t)
    <3>1. upc[t] \in {"map", "unmap"} /\ g_TraceEnabled' = g_TraceEnabled
      BY <2>4, UserSteps DEF MapThread, UnmapThread, SetMapping
    <3>2. ~g_TraceEnabled /\ ~g_TraceEnabled'
      BY <3>1 DEF MappingInv
    <3> QED
      BY <2>1, <3>2
  <2>5. CASE ~StartEnable(t) /\ ~StartGeneration(t) /\ ~MapThread(t) /\ ~UnmapThread(t)
    <3>1. UNCHANGED <<g_Generation, s_CoreMappings>> /\ (g_TraceEnabled' => g_TraceEnabled)
      BY <1>1, <2>5, CaptureFrame
    <3> QED
      BY <2>1, <3>1
  <2> QED
    BY <2>2, <2>3, <2>4, <2>5
<1>2. ASSUME NEW t \in Threads, Handle(t)
      PROVE  CoreInv'
  <2>1. /\ UNCHANGED <<g_TraceEnabled, g_Generation, s_CoreMappings>>
        /\ \A u \in Threads \ {t} : /\ s_ThreadState'[u] = s_ThreadState[u]
                                   /\ hpc'[u] = hpc[u] /\ began'[u] = began[u]
    BY <1>2, HandlerFrame, HandlerKeeps
  <2>2. CASE Tracing(t)
    <3>1. /\ s_ThreadState' = s_ThreadState /\ began'[t].mapped = (s_CoreMappings[t] >= 0)
          /\ hpc'[t] = "refresh"
      BY <2>2 DEF Tracing, HandlerStep, TypeOK
    <3> QED
      BY <2>1, <3>1
  <2>3. CASE Refresh(t)
    <3>1. /\ began' = began /\ hpc[t] = "refresh" /\ hpc'[t] = "filter"
      BY <2>3, HandlerSteps DEF Refresh
    <3>2. \/ s_ThreadState' = s_ThreadState
          \/ s_ThreadState'[t].core = FindLogicalCoreIndex(t)
      BY <2>3 DEF Refresh, TypeOK
    <3> QED
      BY <2>1, <3>1, <3>2
  <2>4. CASE Filter(t)
    <3>1. s_ThreadState' = s_ThreadState /\ began' = began /\ hpc[t] = "filter"
      BY <2>4, HandlerSteps DEF Filter
    <3>2. \/ hpc'[t] = "none"
          \/ /\ hpc'[t] \in {"stack", "commit"} /\ g_TraceEnabled
             /\ s_ThreadState[t].core >= 0
      BY <2>4 DEF Filter, HandlerStep, TypeOK
    <3>3. g_TraceEnabled => s_ThreadState[t].core = FindLogicalCoreIndex(t)
      BY <3>1 DEF FreshInv, InHandler
    <3>4. g_TraceEnabled /\ s_ThreadState[t].core >= 0 => began[t].mapped
      <4>1. s_ThreadState[t].core >= 0 /\ g_TraceEnabled => s_CoreMappings[t] >= 0
        BY <3>3
      <4>2. g_TraceEnabled => began[t].mapped = (s_CoreMappings[t] >= 0)
        BY <3>1
      <4> QED
        BY <4>1, <4>2
    <3> QED
      BY <2>1, <3>1, <3>2, <3>4
  <2>5. CASE ~Tracing(t) /\ ~Refresh(t) /\ ~Filter(t)
    <3>1. /\ began' = began
          /\ s_ThreadState'[t].gen = s_ThreadState[t].gen
          /\ s_ThreadState'[t].core = s_ThreadState[t].core
      BY <1>2, <2>5, HandlerKeeps
    <3>2. hpc'[t] = "none" \/ hpc[t] \in {"stack", "insert", "commit", "recheck"}
      BY <1>2, <2>5 DEF Handle, NotTracing, LockForInsert, InsertStack, LockForCommit,
                        TooLate, InTime, Record, HandlerStep, TypeOK
    <3> QED
      BY <2>1, <3>1, <3>2
  <2> QED
    BY <2>2, <2>3, <2>4, <2>5
<1>3. CASE ChildArms \/ ChildRefused
  BY <1>3, ChildFrame
<1>4. CASE UNCHANGED vars
  BY <1>4 DEF vars
<1> QED
  BY <1>1, <1>2, <1>3, <1>4 DEF Next

\* A thread whose mapping was removed before a capture starts is not recorded,
\* whatever it still has of the core it had in an earlier capture: the
\* generation makes it look the core up again (FindLogicalCoreIndex).
THEOREM UnmappedNotRecordedThere ==
  ASSUME NoStragglers, NoLateMapping
  PROVE  Spec => UnmappedNotRecorded
<1> DEFINE Base == /\ TypeOK /\ CallInv /\ LockInv /\ OffsetInv
                   /\ QuietInv /\ FreshInv /\ StackInv
           Inv == MappingInv /\ CoreInv
<1>1. Init => Inv
  BY DEF Init, MappingInv, CoreInv
<1>2. Base /\ Inv /\ [Next]_vars => Inv'
  BY MappingPreserved, CorePreserved
<1>3. Inv => [\A t \in Threads : Record(t) => began[t].mapped]_vars
  BY DEF CoreInv, Record, HandlerStep
<1> QED
  BY <1>1, <1>2, <1>3, RecorderInvariant, PTL DEF Spec, UnmappedNotRecorded

\* The child arms the threads that were mapped when it was forked, and these are
\* the threads that are mapped when CacheSimStartCapture returns. It may come at
\* any time: a flag that is set once the capture is enabled stays set.
LEMMA ArmedPreserved ==
  ASSUME TypeOK, CallInv, MappingInv, ArmedInv, [Next]_vars
  PROVE  ArmedInv'
<1> USE ControllerAssumption DEF ArmedInv, Mapped, CallInv, recorder
<1>1. ASSUME NEW t \in Threads, Execute(t)
      PROVE  ArmedInv'
  BY <1>1, UserSteps DEF Execute
<1>2. ASSUME NEW t \in Threads, Call(t)
      PROVE  ArmedInv'
  <2>1. CASE LockForMapping(t)
    BY <2>1, UserSteps DEF LockForMapping
  <2>2. CASE t = Controller /\ StartReset(t)
    BY <2>2, UserSteps DEF StartReset
  <2>3. CASE t = Controller /\ EndDisable(t)
    BY <2>3, UserSteps DEF EndDisable
  <2> QED
    BY <1>2, <2>1, <2>2, <2>3 DEF Call
<1>3. ASSUME NEW t \in Threads, Continue(t)
      PROVE  ArmedInv'
  <2>1. CASE MapThread(t) \/ UnmapThread(t)
    <3>1. upc[t] \in {"map", "unmap"} /\ upc'[t] = "app" /\ \A u \in Threads \ {t} : upc'[u] = upc[u]
      BY <2>1, UserSteps DEF MapThread, UnmapThread
    <3>2. ~Starting
      BY <3>1 DEF MappingInv
    <3>3. upc'[Controller] \notin {"start.gen", "start.enable", "start.handler", "start.wait"}
      BY <3>1, <3>2 DEF Starting
    <3> QED
      BY <3>3
  <2>2. CASE StartGeneration(t)
    BY <2>2, UserSteps DEF StartGeneration
  <2>3. CASE StartEnable(t)
    BY <2>3, UserSteps DEF StartEnable
  <2>4. CASE StartHandler(t) \/ StartReturn(t)
    BY <2>4, UserSteps DEF StartHandler, StartReturn
  <2>5. CASE EndClearFlag(t)
    BY <2>5, UserSteps DEF EndClearFlag
  <2>6. CASE EndLock(t) \/ EndSave(t)
    BY <2>6, UserSteps DEF EndLock, EndSave
  <2> QED
    BY <1>3, <2>1, <2>2, <2>3, <2>4, <2>5, <2>6 DEF Continue
<1>4. ASSUME NEW t \in Threads, Handle(t)
      PROVE  ArmedInv'
  <2>1. UNCHANGED <<g_TraceEnabled, s_CoreMappings, upc, child>>
    BY <1>4, HandlerFrame
  <2>2. g_TraceEnabled => trapFlag' = trapFlag
    BY <1>4, HandlerKeeps DEF NotTracing
  <2> QED
    BY <2>1, <2>2
<1>5. CASE ChildArms
  <2>1. UNCHANGED <<upc, s_CoreMappings>>
    BY <1>5 DEF ChildArms
  <2>2. child \notin {NoChild, EarlyChild} /\ child \in SUBSET Threads
    BY <1>5 DEF ChildArms, TypeOK
  <2>3. \A u \in child : trapFlag'[u]
    BY <1>5, <2>2 DEF ChildArms
  <2>4. CASE upc[Controller] \in {"start.gen", "start.enable"}
    BY <1>5, <2>1, <2>4 DEF ChildArms
  <2>5. CASE upc[Controller] \notin {"start.gen", "start.enable"}
    <3>1. child' = NoChild
      BY <1>5, <2>5 DEF ChildArms
    <3> QED
      BY <2>1, <2>2, <2>3, <2>5, <3>1
  <2> QED
    BY <2>4, <2>5
<1>6. CASE ChildRefused
  <2>1. UNCHANGED <<upc, s_CoreMappings>> /\ child' = EarlyChild
    BY <1>6 DEF ChildRefused
  <2> QED
    BY <2>1
<1>7. CASE UNCHANGED vars
  BY <1>7 DEF vars
<1> QED
  BY <1>1, <1>2, <1>3, <1>4, <1>5, <1>6, <1>7 DEF Next

\* When CacheSimStartCapture returns every mapped thread has its trap flag set,
\* wherever the parent was when the child armed the threads, if only the capture
\* was enabled by then and the kernel let the child attach: also if some of them
\* are still in the handler of the last capture, which clears the flag when it
\* finds that no capture is on.
THEOREM StartTracesThere ==
  ASSUME NoLateMapping
  PROVE  Spec => StartTraces
<1> DEFINE Base == TypeOK /\ CallInv /\ LockInv /\ OffsetInv
           Inv == MappingInv /\ ArmedInv
           Traced == \A t \in Threads : s_CoreMappings[t] # NotMapped => trapFlag[t]
<1>1. Init => Inv
  BY ControllerAssumption DEF Init, MappingInv, Starting, ArmedInv
<1>2. Base /\ Inv /\ [Next]_vars => Inv'
  BY MappingPreserved, ArmedPreserved
<1>3. TypeOK /\ Inv => [StartReturn(Controller) /\ child # EarlyChild => Traced]_vars
  <2> SUFFICES ASSUME TypeOK, Inv, StartReturn(Controller), child # EarlyChild
               PROVE  Traced
    OBVIOUS
  <2>1. upc[Controller] = "start.wait" /\ child = NoChild
    BY DEF StartReturn, UserStep
  <2>2. child # Mapped
    BY <2>1, NoChildAssumption DEF Mapped
  <2> QED
    BY <2>1, <2>2 DEF ArmedInv, Mapped
<1> QED
  BY <1>1, <1>2, <1>3, RecorderTypeCorrect, PTL DEF Spec, StartTraces
=============================================================================
