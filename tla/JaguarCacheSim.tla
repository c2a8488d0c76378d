--------------------------- MODULE JaguarCacheSim ---------------------------
(***************************************************************************)
(* JaguarCacheSim::Access (CacheSimInternals.cpp): an access of size bytes *)
(* at addr is split into one JaguarModule::Access per line by a loop over  *)
(* 64-bit unsigned line addresses. One action is one trip of that loop.    *)
(*                                                                         *)
(* Calls do not overlap: every caller holds g_Lock. Init (Reset) is called *)
(* by CacheSimStartCapture without the lock, so that after a cancelled     *)
(* capture it may come in the middle of a call that is still running.      *)
(***************************************************************************)
EXTENDS JaguarModule

CONSTANTS
  kLineSize,    \* 64 in the code
  AddrSpace,    \* 2^64 in the code
  Requests      \* the calls of Access that the program makes

ASSUME LineSizeAssumption == kLineSize \in Nat \ {0}
ASSUME AddrSpaceAssumption ==
  /\ AddrSpace \in Nat \ {0}
  /\ AddrSpace % kLineSize = 0
  /\ Lines = 0 .. (AddrSpace \div kLineSize) - 1
ASSUME RequestsAssumption ==
  Requests \subseteq [core : 0 .. 2 * kCoreCount - 1, addr : 0 .. AddrSpace - 1,
                      size : 1 .. AddrSpace - 1, mode : AccessMode]

VARIABLES
  req,          \* the arguments of the current call
  running,      \* the call has not returned yet
  line_base, line_end,
  r,            \* the local variable that Access returns
  touched       \* history: the lines this call has accessed

loopVars == <<req, running, line_base, line_end, r, touched>>
vars == <<moduleVars, loopVars>>

LineBase(a) == a - (a % kLineSize)
LineOf(a) == a \div kLineSize

ModuleOf(core) == (core \div kCoreCount) % 2
CoreOf(core) == core % kCoreCount

LoopTypeOK ==
  /\ req \in Requests
  /\ running \in BOOLEAN
  /\ line_base \in 0 .. AddrSpace - 1
  /\ line_end \in 0 .. AddrSpace - 1
  /\ r \in AccessResult
  /\ touched \subseteq Lines

TypeOK == ModuleTypeOK /\ LoopTypeOK

\* No call has been made: the values of the call's locals do not matter.
Init ==
  /\ ModuleInit
  /\ req \in Requests
  /\ running = FALSE
  /\ line_base = 0
  /\ line_end = 0
  /\ r = kD1Hit
  /\ touched = {}

\* Mutant: only the first line of a straddling access is handled.
CallFirstLineOnly(q) ==
  /\ ~running
  /\ running' = TRUE
  /\ req' = q
  /\ r' = kD1Hit
  /\ line_base' = LineBase(q.addr)
  /\ line_end' = LineBase(q.addr)
  /\ touched' = {}
  /\ UNCHANGED moduleVars

\* Mutant: the result starts from the wrong enumerator.
CallFromI1Hit(q) ==
  /\ ~running
  /\ running' = TRUE
  /\ req' = q
  /\ r' = kI1Hit
  /\ line_base' = LineBase(q.addr)
  /\ line_end' = LineBase((q.addr + q.size) % AddrSpace)
  /\ touched' = {}
  /\ UNCHANGED moduleVars

Call(q) ==
  /\ ~running
  /\ running' = TRUE
  /\ req' = q
  /\ r' = kD1Hit
  /\ line_base' = LineBase(q.addr)
  /\ line_end' = LineBase((q.addr + q.size) % AddrSpace)
  /\ touched' = {}
  /\ UNCHANGED moduleVars

\* Mutant: the results of the lines are added up.
SumResult(a, b) == a + b

MaxResult(a, b) == IF b > a THEN b ELSE a

\* Mutant: line_base is not advanced.
LoopStepStuck ==
  /\ running
  /\ line_base <= line_end
  /\ LET m == ModuleOf(req.core)
         c == CoreOf(req.core)
         line == LineOf(line_base)
     IN  /\ ModuleAccess(m, c, line, req.mode)
         /\ r' = MaxResult(r, Result(m, c, line, req.mode))
         /\ touched' = touched \cup {line}
  /\ UNCHANGED <<req, running, line_base, line_end>>

LoopStep ==
  /\ running
  /\ line_base <= line_end
  /\ LET m == ModuleOf(req.core)
         c == CoreOf(req.core)
         line == LineOf(line_base)
     IN  /\ ModuleAccess(m, c, line, req.mode)
         /\ r' = MaxResult(r, Result(m, c, line, req.mode))
         /\ touched' = touched \cup {line}
  /\ line_base' = (line_base + kLineSize) % AddrSpace
  /\ UNCHANGED <<req, running, line_end>>

Return ==
  /\ running
  /\ line_base > line_end
  /\ running' = FALSE
  /\ UNCHANGED <<moduleVars, req, line_base, line_end, r, touched>>

Reset == ModuleReset /\ UNCHANGED loopVars

Next ==
  \/ \E q \in Requests : Call(q)
  \/ LoopStep
  \/ Return
  \/ Reset

Spec == Init /\ [][Next]_vars

\* The thread that makes the call keeps running until the call returns.
FairSpec == Spec /\ WF_vars(LoopStep) /\ WF_vars(Return)
-----------------------------------------------------------------------------
\* The lines that hold a byte of the access.
Overlapped(q) == {LineOf((q.addr + i) % AddrSpace) : i \in 0 .. q.size - 1}

Returning == running /\ line_base > line_end

\* When Access returns, every line with a byte of the access was accessed, and
\* besides these at most the line right behind the last byte. Excepted is an
\* access that reaches the end of the address space: addr + size wraps around,
\* line_end is below line_base and the loop does nothing.
CoversTheAccess ==
  Returning /\ req.addr + req.size < AddrSpace =>
    /\ Overlapped(req) \subseteq touched
    /\ touched \subseteq Overlapped(req) \cup {LineOf(req.addr + req.size)}

\* The result a call returns is one its mode can produce, so that the counter
\* which GenerateMemoryAccesses bumps with it is one of the right kind.
ResultMatchesMode ==
  Returning =>
    r \in IF req.mode = "kCodeRead" THEN {kI1Hit, kL2Hit, kL2IMiss}
                                    ELSE {kD1Hit, kL2Hit, kL2DMiss}

\* The trips of the loop do not evict each other's lines: when a call returns,
\* the same call made again would hit in L1 on every line it has accessed,
\* unless the caches were cleared under it.
RepeatHits ==
  Returning =>
    LET m == ModuleOf(req.core)
        c == CoreOf(req.core)
        used == l2Used[m] \cap (IF req.mode = "kCodeRead" THEN i1Used[m][c]
                                                          ELSE d1Used[m][c])
    IN  \A line \in touched \cap used :
          Result(m, c, line, req.mode) \in {kD1Hit, kI1Hit}

\* Every call returns; its caller holds g_Lock all the while. Excepted is a call
\* whose line_end is the last line of the address space: line_base wraps around
\* before it can exceed that.
Terminates == (running /\ line_end + kLineSize < AddrSpace) ~> ~running
=============================================================================
