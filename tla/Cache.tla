------------------------------- MODULE Cache -------------------------------
(***************************************************************************)
(* One object of the class template Cache (CacheSimInternals.h) and its    *)
(* three operations: Init, Access and Invalidate. LruCache says what a     *)
(* user of the object may rely on; this module is shown to implement it.   *)
(***************************************************************************)
EXTENDS SetData, FiniteSets

CONSTANTS
  kWays, kSetCount, kLineSize,
  Addrs      \* the addresses the object is used with

ASSUME WaysAssumption == kWays \in Nat \ {0}
ASSUME SetCountAssumption == kSetCount \in Nat \ {0}
ASSUME LineSizeAssumption == kLineSize \in Nat \ {0}

\* No address of the first line: its line number is the invalid marker.
ASSUME AddrsAssumption == \A a \in Addrs : a \in Nat /\ a >= kLineSize

VARIABLES
  m_Sets,
  call       \* the last call: its line, and what it returned if it was Access

vars == <<m_Sets, call>>

\* addr >> kSetSizeShift
Line(addr) == addr \div kLineSize
Lines == {Line(a) : a \in Addrs}

Calls == [op : {"Access"}, line : Lines, hit : BOOLEAN]
           \cup [op : {"Invalidate"}, line : Lines] \cup [op : {"Init"}]

TypeOK ==
  /\ m_Sets \in Caches(kWays, kSetCount, Lines \cup {NoLine})
  /\ call \in Calls

Init ==
  /\ m_Sets = EmptyCache(kWays, kSetCount)
  /\ call = [op |-> "Init"]

Access(addr) ==
  /\ call' = [op |-> "Access", line |-> Line(addr),
              hit |-> CacheHits(kSetCount, m_Sets, Line(addr))]
  /\ m_Sets' = CacheAccess(kWays, kSetCount, m_Sets, Line(addr))

Invalidate(addr) ==
  /\ m_Sets' = CacheInvalidate(kWays, kSetCount, m_Sets, Line(addr))
  /\ call' = [op |-> "Invalidate", line |-> Line(addr)]

Reinit ==
  /\ m_Sets' = EmptyCache(kWays, kSetCount)
  /\ call' = [op |-> "Init"]

Next ==
  \/ \E addr \in Addrs : Access(addr) \/ Invalidate(addr)
  \/ Reinit

Spec == Init /\ [][Next]_vars
-----------------------------------------------------------------------------
\* The abstract state: which lines are cached, and for two cached lines of
\* one set which of them was used later.
UsedLater ==
  {p \in ResidentLines(m_Sets) \X ResidentLines(m_Sets) :
     \E s \in Sets(kSetCount) : \E v, w \in Ways(kWays) :
       /\ v < w
       /\ p = <<m_Sets[s][v], m_Sets[s][w]>>}

Lru == INSTANCE LruCache WITH
         resident <- ResidentLines(m_Sets), later <- UsedLater, call <- call,
         Capacity <- kWays, SetOf <- [l \in Lines |-> SetIndex(kSetCount, l)]

\* Every behaviour of the shifting arrays is a behaviour of an LRU cache: a
\* line is evicted only by a miss in its own set, only when that set is full,
\* and then it is the line of the set that was used least recently
\* (Cache::Access, Cache::Invalidate).
ImplementsLru == Lru!Spec
=============================================================================
