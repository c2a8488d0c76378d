-------------------- MODULE GenerateMemoryAccesses_proof --------------------
(***************************************************************************)
(* The simulator and what it is told to do. First the two modules of the   *)
(* Jaguar and the simulator that drives them: for every number of cores,   *)
(* every geometry of the three kinds of cache, every address space, line   *)
(* size and set of requests, those included whose loop wraps around or     *)
(* never ends. Then what an instruction commits, for every instruction     *)
(* set, and that the commits use the simulator as JaguarCacheSim says it   *)
(* is used, so that all that is proved of it holds under them.             *)
(***************************************************************************)
EXTENDS GenerateMemoryAccesses, Data_proof
-----------------------------------------------------------------------------
(* The modules. The inductive invariant says three things: the types; that *)
(* every cache is well formed, without which an Invalidate might leave a   *)
(* second copy of the line behind; and that a cache holds only lines its   *)
(* history lists as used and not overwritten since, from which NoStaleHit  *)
(* follows.                                                                *)

\* A cache holds only lines its core, or module, has used and nobody whose
\* write invalidates that cache has written since.
HoldsOnlyUsed ==
  \A m \in Modules :
    /\ ResidentLines(m_Level2[m]) \subseteq l2Used[m]
    /\ \A c \in Cores : /\ ResidentLines(m_CoreD1[m][c]) \subseteq d1Used[m][c]
                        /\ ResidentLines(m_CoreI1[m][c]) \subseteq i1Used[m][c]

ModuleInv == ModuleTypeOK /\ CachesWellFormed /\ HoldsOnlyUsed

LEMMA StoredType == Stored \in SUBSET Nat /\ NoLine \in Stored /\ Lines \subseteq Stored
  BY LinesAssumption DEF Stored, NoLine

\* The three parts of the invariant for the L1s of one kind.
L1Inv(k, n, l1, used) ==
  /\ l1 \in PerCore(Caches(k, n, Stored))
  /\ used \in PerCore(SUBSET Lines)
  /\ \A x \in Modules, i \in Cores :
       WellFormed(n, l1[x][i]) /\ ResidentLines(l1[x][i]) \subseteq used[x][i]

\* One step of the L1s of either kind keeps all three parts of the invariant.
LEMMA L1Step ==
  ASSUME NEW k \in Nat \ {0}, NEW n \in Nat \ {0}, NEW l1, NEW used,
         L1Inv(k, n, l1, used),
         NEW m \in Modules, NEW c \in Cores, NEW line \in Lines,
         NEW writes \in BOOLEAN, NEW serves \in BOOLEAN
  PROVE  L1Inv(k, n, AfterL1(k, n, l1, m, c, line, writes, serves),
                     UsedL1(used, m, c, line, writes, serves))
<1> DEFINE l1n == AfterL1(k, n, l1, m, c, line, writes, serves)
           usedn == UsedL1(used, m, c, line, writes, serves)
<1>0. /\ l1 \in PerCore(Caches(k, n, Stored))
      /\ used \in PerCore(SUBSET Lines)
  BY DEF L1Inv
<1>1. line \in Stored /\ Stored \in SUBSET Nat /\ NoLine \in Stored
  BY StoredType
<1>2. ASSUME NEW x \in Modules, NEW i \in Cores
      PROVE  /\ l1[x][i] \in Caches(k, n, Stored)
             /\ used[x][i] \in SUBSET Lines
             /\ WellFormed(n, l1[x][i])
             /\ ResidentLines(l1[x][i]) \subseteq used[x][i]
  BY DEF L1Inv, PerCore
<1>3. ASSUME NEW i \in Cores
      PROVE  /\ CacheAccess(k, n, l1[m][i], line) \in Caches(k, n, Stored)
             /\ CacheInvalidate(k, n, l1[m][i], line) \in Caches(k, n, Stored)
             /\ WellFormed(n, CacheAccess(k, n, l1[m][i], line))
             /\ WellFormed(n, CacheInvalidate(k, n, l1[m][i], line))
             /\ ResidentLines(CacheAccess(k, n, l1[m][i], line)) \subseteq used[m][i] \cup {line}
             /\ ResidentLines(CacheInvalidate(k, n, l1[m][i], line)) \subseteq used[m][i] \ {line}
  <2>1. /\ l1[m][i] \in Caches(k, n, Stored)
        /\ WellFormed(n, l1[m][i])
        /\ ResidentLines(l1[m][i]) \subseteq used[m][i]
    BY <1>2
  <2>2. ResidentLines(CacheAccess(k, n, l1[m][i], line)) \subseteq ResidentLines(l1[m][i]) \cup {line}
    BY <1>1, <2>1, AccessContents
  <2>3. ResidentLines(CacheInvalidate(k, n, l1[m][i], line)) \subseteq ResidentLines(l1[m][i]) \ {line}
    BY <1>1, <2>1, InvalidateContents
  <2>4. /\ CacheAccess(k, n, l1[m][i], line) \in Caches(k, n, Stored)
        /\ CacheInvalidate(k, n, l1[m][i], line) \in Caches(k, n, Stored)
    BY <1>1, <2>1, CacheTypes
  <2>5. /\ WellFormed(n, CacheAccess(k, n, l1[m][i], line))
        /\ WellFormed(n, CacheInvalidate(k, n, l1[m][i], line))
    BY <1>1, <2>1, CacheWellFormed
  <2> QED
    BY <2>1, <2>2, <2>3, <2>4, <2>5
<1>4. ASSUME NEW x \in Modules, NEW i \in Cores
      PROVE  /\ l1n[x][i] \in Caches(k, n, Stored)
             /\ usedn[x][i] \in SUBSET Lines
             /\ WellFormed(n, l1n[x][i])
             /\ ResidentLines(l1n[x][i]) \subseteq usedn[x][i]
  <2>1. CASE x # m
    <3>1. l1n[x][i] = l1[x][i] /\ usedn[x][i] = used[x][i]
      BY <1>0, <2>1 DEF AfterL1, UsedL1, PerCore
    <3> QED
      BY <1>2, <3>1
  <2>2. CASE x = m /\ i = c
    <3>1. /\ l1n[x][i] = IF serves THEN CacheAccess(k, n, l1[m][i], line) ELSE l1[m][i]
          /\ usedn[x][i] = used[m][i] \cup (IF serves THEN {line} ELSE {})
      BY <1>0, <2>2 DEF AfterL1, UsedL1, PerCore
    <3> QED
      BY <1>2, <1>3, <2>2, <3>1
  <2>3. CASE x = m /\ i # c
    <3>1. /\ l1n[x][i] = IF writes THEN CacheInvalidate(k, n, l1[m][i], line) ELSE l1[m][i]
          /\ usedn[x][i] = used[m][i] \ (IF writes THEN {line} ELSE {})
      BY <1>0, <2>3 DEF AfterL1, UsedL1, PerCore
    <3> QED
      BY <1>2, <1>3, <2>3, <3>1
  <2> QED
    BY <2>1, <2>2, <2>3
<1>5. /\ l1n = [x \in Modules |-> [i \in Cores |-> l1n[x][i]]]
      /\ usedn = [x \in Modules |-> [i \in Cores |-> usedn[x][i]]]
  BY <1>0 DEF AfterL1, UsedL1, PerCore
<1> HIDE DEF l1n, usedn
<1>6. l1n \in PerCore(Caches(k, n, Stored)) /\ usedn \in PerCore(SUBSET Lines)
  BY <1>4, <1>5 DEF PerCore
<1>7. L1Inv(k, n, l1n, usedn)
  BY <1>4, <1>6 DEF L1Inv
<1> QED
  BY <1>7 DEF l1n, usedn

\* One step of the L2s keeps all three parts of the invariant.
LEMMA L2Step ==
  ASSUME ModuleInv, NEW m \in Modules, NEW line \in Lines, NEW writes \in BOOLEAN
  PROVE  /\ AfterL2(m, line, writes) \in [Modules -> Caches(kL2Ways, kL2Sets, Stored)]
         /\ UsedL2(m, line, writes) \in [Modules -> SUBSET Lines]
         /\ \A x \in Modules :
              /\ WellFormed(kL2Sets, AfterL2(m, line, writes)[x])
              /\ ResidentLines(AfterL2(m, line, writes)[x]) \subseteq UsedL2(m, line, writes)[x]
<1>1. line \in Stored /\ Stored \in SUBSET Nat /\ NoLine \in Stored
  BY StoredType
<1>2. kL2Ways \in Nat \ {0} /\ kL2Sets \in Nat \ {0}
  BY GeometryAssumption
<1>3. ASSUME NEW x \in Modules
      PROVE  LET acc == CacheAccess(kL2Ways, kL2Sets, m_Level2[x], line)
                 inv == CacheInvalidate(kL2Ways, kL2Sets, m_Level2[x], line)
             IN  /\ {m_Level2[x], acc, inv} \subseteq Caches(kL2Ways, kL2Sets, Stored)
                 /\ WellFormed(kL2Sets, m_Level2[x])
                 /\ WellFormed(kL2Sets, acc)
                 /\ WellFormed(kL2Sets, inv)
                 /\ ResidentLines(m_Level2[x]) \subseteq l2Used[x]
                 /\ ResidentLines(acc) \subseteq l2Used[x] \cup {line}
                 /\ ResidentLines(inv) \subseteq l2Used[x] \ {line}
                 /\ l2Used[x] \in SUBSET Lines
  <2>1. /\ m_Level2[x] \in Caches(kL2Ways, kL2Sets, Stored)
        /\ WellFormed(kL2Sets, m_Level2[x])
        /\ ResidentLines(m_Level2[x]) \subseteq l2Used[x]
        /\ l2Used[x] \in SUBSET Lines
    BY DEF ModuleInv, ModuleTypeOK, CachesWellFormed, HoldsOnlyUsed
  <2>2. ResidentLines(CacheAccess(kL2Ways, kL2Sets, m_Level2[x], line))
          \subseteq ResidentLines(m_Level2[x]) \cup {line}
    BY <1>1, <1>2, <2>1, AccessContents
  <2>3. ResidentLines(CacheInvalidate(kL2Ways, kL2Sets, m_Level2[x], line))
          \subseteq ResidentLines(m_Level2[x]) \ {line}
    BY <1>1, <1>2, <2>1, InvalidateContents
  <2>4. /\ CacheAccess(kL2Ways, kL2Sets, m_Level2[x], line) \in Caches(kL2Ways, kL2Sets, Stored)
        /\ CacheInvalidate(kL2Ways, kL2Sets, m_Level2[x], line) \in Caches(kL2Ways, kL2Sets, Stored)
    BY <1>1, <1>2, <2>1, CacheTypes
  <2>5. /\ WellFormed(kL2Sets, CacheAccess(kL2Ways, kL2Sets, m_Level2[x], line))
        /\ WellFormed(kL2Sets, CacheInvalidate(kL2Ways, kL2Sets, m_Level2[x], line))
    BY <1>1, <1>2, <2>1, CacheWellFormed
  <2> QED
    BY <2>1, <2>2, <2>3, <2>4, <2>5
<1> QED
  BY <1>3 DEF AfterL2, UsedL2

\* Freshly initialised caches satisfy the invariant (JaguarModule::Init).
LEMMA EmptyCaches ==
  /\ ForEachCore(EmptyCache(kD1Ways, kD1Sets)) \in PerCore(Caches(kD1Ways, kD1Sets, Stored))
  /\ ForEachCore(EmptyCache(kI1Ways, kI1Sets)) \in PerCore(Caches(kI1Ways, kI1Sets, Stored))
  /\ [m \in Modules |-> EmptyCache(kL2Ways, kL2Sets)] \in [Modules -> Caches(kL2Ways, kL2Sets, Stored)]
  /\ ForEachCore({}) \in PerCore(SUBSET Lines)
  /\ [m \in Modules |-> {}] \in [Modules -> SUBSET Lines]
  /\ \A m \in Modules :
       /\ WellFormed(kL2Sets, EmptyCache(kL2Ways, kL2Sets))
       /\ ResidentLines(EmptyCache(kL2Ways, kL2Sets)) = {}
       /\ WellFormed(kD1Sets, EmptyCache(kD1Ways, kD1Sets))
       /\ ResidentLines(EmptyCache(kD1Ways, kD1Sets)) = {}
       /\ WellFormed(kI1Sets, EmptyCache(kI1Ways, kI1Sets))
       /\ ResidentLines(EmptyCache(kI1Ways, kI1Sets)) = {}
  BY GeometryAssumption, StoredType, EmptyCacheIsACache DEF ForEachCore, PerCore

LEMMA ModuleInitInv == ModuleInit => ModuleInv
  BY EmptyCaches
  DEF ModuleInit, ModuleInv, ModuleTypeOK, CachesWellFormed, HoldsOnlyUsed, ForEachCore

LEMMA ModuleResetInv == ModuleReset => ModuleInv'
  BY EmptyCaches
  DEF ModuleReset, ModuleInv, ModuleTypeOK, CachesWellFormed, HoldsOnlyUsed, ForEachCore

\* One call of JaguarModule::Access keeps the invariant.
LEMMA ModuleAccessInv ==
  ASSUME ModuleInv, NEW m \in Modules, NEW c \in Cores, NEW line \in Lines,
         NEW mode \in AccessMode, ModuleAccess(m, c, line, mode)
  PROVE  ModuleInv'
<1> DEFINE writes == mode = "kWrite"
           code == mode = "kCodeRead"
           data == ~code
<1>1. /\ m_CoreD1' = AfterL1(kD1Ways, kD1Sets, m_CoreD1, m, c, line, writes, data)
      /\ m_CoreI1' = AfterL1(kI1Ways, kI1Sets, m_CoreI1, m, c, line, writes, code)
      /\ m_Level2' = AfterL2(m, line, writes)
      /\ d1Used' = UsedL1(d1Used, m, c, line, writes, data)
      /\ i1Used' = UsedL1(i1Used, m, c, line, writes, code)
      /\ l2Used' = UsedL2(m, line, writes)
  BY DEF ModuleAccess
<1>2. writes \in BOOLEAN /\ code \in BOOLEAN /\ data \in BOOLEAN
  OBVIOUS
<1> HIDE DEF writes, code, data
<1>3. L1Inv(kD1Ways, kD1Sets, m_CoreD1', d1Used')
  <2>1. L1Inv(kD1Ways, kD1Sets, m_CoreD1, d1Used)
    BY DEF L1Inv, ModuleInv, ModuleTypeOK, CachesWellFormed, HoldsOnlyUsed
  <2>2. kD1Ways \in Nat \ {0} /\ kD1Sets \in Nat \ {0}
    BY GeometryAssumption
  <2>3. L1Inv(kD1Ways, kD1Sets,
              AfterL1(kD1Ways, kD1Sets, m_CoreD1, m, c, line, writes, data),
              UsedL1(d1Used, m, c, line, writes, data))
    BY <1>2, <2>1, <2>2, L1Step
  <2> QED
    BY <1>1, <2>3
<1>4. L1Inv(kI1Ways, kI1Sets, m_CoreI1', i1Used')
  <2>1. L1Inv(kI1Ways, kI1Sets, m_CoreI1, i1Used)
    BY DEF L1Inv, ModuleInv, ModuleTypeOK, CachesWellFormed, HoldsOnlyUsed
  <2>2. kI1Ways \in Nat \ {0} /\ kI1Sets \in Nat \ {0}
    BY GeometryAssumption
  <2>3. L1Inv(kI1Ways, kI1Sets,
              AfterL1(kI1Ways, kI1Sets, m_CoreI1, m, c, line, writes, code),
              UsedL1(i1Used, m, c, line, writes, code))
    BY <1>2, <2>1, <2>2, L1Step
  <2> QED
    BY <1>1, <2>3
<1>5. /\ m_Level2' \in [Modules -> Caches(kL2Ways, kL2Sets, Stored)]
      /\ l2Used' \in [Modules -> SUBSET Lines]
      /\ \A x \in Modules :
           /\ WellFormed(kL2Sets, m_Level2'[x])
           /\ ResidentLines(m_Level2'[x]) \subseteq l2Used'[x]
  BY <1>1, <1>2, L2Step
<1> QED
  BY <1>3, <1>4, <1>5 DEF L1Inv, ModuleInv, ModuleTypeOK, CachesWellFormed, HoldsOnlyUsed

\* ModuleInv is an invariant of every order of calls of Access and Init.
THEOREM ModuleInvariant == ModuleSpec => []ModuleInv
<1>1. ModuleInit => ModuleInv
  BY ModuleInitInv
<1>2. ModuleInv /\ [ModuleNext]_moduleVars => ModuleInv'
  <2> SUFFICES ASSUME ModuleInv, [ModuleNext]_moduleVars
               PROVE  ModuleInv'
    OBVIOUS
  <2>1. ASSUME NEW m \in Modules, NEW c \in Cores, NEW line \in Lines,
               NEW mode \in AccessMode, ModuleAccess(m, c, line, mode)
        PROVE  ModuleInv'
    BY <2>1, ModuleAccessInv
  <2>2. CASE ModuleReset
    BY <2>2, ModuleResetInv
  <2>3. CASE UNCHANGED moduleVars
    BY <2>3 DEF moduleVars, ModuleInv, ModuleTypeOK, CachesWellFormed, HoldsOnlyUsed
  <2> QED
    BY <2>1, <2>2, <2>3 DEF ModuleNext
<1> QED
  BY <1>1, <1>2, PTL DEF ModuleSpec

\* The types of JaguarModule: every cache keeps the shape of its template.
THEOREM ModuleTypeCorrect == ModuleSpec => []ModuleTypeOK
<1>1. ModuleInv => ModuleTypeOK
  BY DEF ModuleInv
<1> QED
  BY <1>1, ModuleInvariant, PTL

\* No cache ever holds a line twice or in the wrong set.
THEOREM ModuleWellFormed == ModuleSpec => []CachesWellFormed
<1>1. ModuleInv => CachesWellFormed
  BY DEF ModuleInv
<1> QED
  BY <1>1, ModuleInvariant, PTL

\* What the invariant says of the results of JaguarModule::Access.
LEMMA InvHits ==
  ASSUME ModuleInv
  PROVE  NoStaleHit
<1> SUFFICES ASSUME NEW m \in Modules, NEW c \in Cores, NEW line \in Lines \ {NoLine},
                    NEW mode \in AccessMode
             PROVE  HitIsDeserved(m, c, line, mode)
  BY DEF NoStaleHit
<1>1. line \in Stored /\ Stored \in SUBSET Nat /\ line # NoLine
  BY StoredType
<1>2. /\ m_CoreD1[m][c] \in Caches(kD1Ways, kD1Sets, Stored)
      /\ m_CoreI1[m][c] \in Caches(kI1Ways, kI1Sets, Stored)
      /\ m_Level2[m] \in Caches(kL2Ways, kL2Sets, Stored)
  BY DEF ModuleInv, ModuleTypeOK, PerCore
<1>3. CacheHits(kD1Sets, m_CoreD1[m][c], line) => line \in d1Used[m][c]
  <2>1. CacheHits(kD1Sets, m_CoreD1[m][c], line) => line \in ResidentLines(m_CoreD1[m][c])
    BY <1>1, <1>2, HitsAreResident, GeometryAssumption
  <2> QED
    BY <2>1 DEF ModuleInv, HoldsOnlyUsed
<1>4. CacheHits(kI1Sets, m_CoreI1[m][c], line) => line \in i1Used[m][c]
  <2>1. CacheHits(kI1Sets, m_CoreI1[m][c], line) => line \in ResidentLines(m_CoreI1[m][c])
    BY <1>1, <1>2, HitsAreResident, GeometryAssumption
  <2> QED
    BY <2>1 DEF ModuleInv, HoldsOnlyUsed
<1>5. CacheHits(kL2Sets, m_Level2[m], line) => line \in l2Used[m]
  <2>1. CacheHits(kL2Sets, m_Level2[m], line) => line \in ResidentLines(m_Level2[m])
    BY <1>1, <1>2, HitsAreResident, GeometryAssumption
  <2> QED
    BY <2>1 DEF ModuleInv, HoldsOnlyUsed
<1> QED
  BY <1>3, <1>4, <1>5
  DEF HitIsDeserved, Result, kD1Hit, kI1Hit, kL2Hit, kL2IMiss, kL2DMiss

\* No access to a line other than line 0 is reported as a hit unless the core,
\* or its module, used the line and nobody it hears of wrote to it since.
THEOREM ModuleNoStaleHit == ModuleSpec => []NoStaleHit
<1>1. ModuleInv => NoStaleHit
  BY InvHits
<1> QED
  BY <1>1, ModuleInvariant, PTL
-----------------------------------------------------------------------------
(* The simulator drives the modules only through JaguarModule::Access and  *)
(* Init. What is proved of the modules therefore holds of all of it.       *)

LEMMA LineInRange ==
  ASSUME NEW a \in 0 .. AddrSpace - 1
  PROVE  LineOf(a) \in Lines
<1>1. kLineSize \in Nat /\ kLineSize > 0 /\ AddrSpace \in Nat /\ a \in Nat /\ a < AddrSpace
  BY LineSizeAssumption, AddrSpaceAssumption
<1> DEFINE q == a \div kLineSize
           n == AddrSpace \div kLineSize
<1>2. q \in Nat /\ n \in Nat
  BY <1>1
<1>3. kLineSize * q <= a
  BY <1>1
<1>4. AddrSpace = kLineSize * n
  BY <1>1, AddrSpaceAssumption
<1>5. kLineSize * q < kLineSize * n
  BY <1>1, <1>2, <1>3, <1>4
<1> HIDE DEF q, n
<1>6. q < n
  BY <1>1, <1>2, <1>5
<1> QED
  BY <1>2, <1>6, AddrSpaceAssumption DEF LineOf, q, n

\* The line address that & ~63 leaves is an address.
LEMMA LineBaseInRange ==
  ASSUME NEW a \in 0 .. AddrSpace - 1
  PROVE  LineBase(a) \in 0 .. AddrSpace - 1
<1>1. kLineSize \in Nat /\ kLineSize > 0 /\ AddrSpace \in Nat /\ a \in Nat
  BY LineSizeAssumption, AddrSpaceAssumption
<1>2. a % kLineSize \in Nat /\ a % kLineSize <= a
  BY <1>1
<1> QED
  BY <1>1, <1>2 DEF LineBase

\* A core id selects a module and one of its cores.
LEMMA CoreInRange ==
  ASSUME NEW core \in 0 .. 2 * kCoreCount - 1
  PROVE  ModuleOf(core) \in Modules /\ CoreOf(core) \in Cores
<1>1. kCoreCount \in Nat /\ kCoreCount > 0 /\ core \in Nat
  BY CoreCountAssumption
<1>2. core \div kCoreCount \in Nat
  BY <1>1
<1> QED
  BY <1>1, <1>2 DEF ModuleOf, CoreOf, Modules, Cores

LEMMA RequestFields ==
  ASSUME NEW q \in Requests
  PROVE  /\ q.core \in 0 .. 2 * kCoreCount - 1
         /\ q.addr \in 0 .. AddrSpace - 1
         /\ q.size \in 1 .. AddrSpace - 1
         /\ q.mode \in AccessMode
  BY RequestsAssumption

LEMMA ResultInRange ==
  ASSUME NEW m, NEW c, NEW line, NEW mode
  PROVE  Result(m, c, line, mode) \in AccessResult
  BY DEF Result, AccessResult, kD1Hit, kI1Hit, kL2Hit, kL2IMiss, kL2DMiss

LEMMA LoopTypeStarts == Init => LoopTypeOK
<1>1. 0 \in 0 .. AddrSpace - 1
  BY AddrSpaceAssumption
<1>2. kD1Hit \in AccessResult
  BY DEF AccessResult, kD1Hit, kL2DMiss
<1> QED
  BY <1>1, <1>2 DEF Init, LoopTypeOK

LEMMA LoopTypePreserved == LoopTypeOK /\ [Next]_vars => LoopTypeOK'
<1> SUFFICES ASSUME LoopTypeOK, [Next]_vars
             PROVE  LoopTypeOK'
  OBVIOUS
<1>1. ASSUME NEW q \in Requests, Call(q)
      PROVE  LoopTypeOK'
  <2>1. /\ q.addr \in 0 .. AddrSpace - 1
        /\ (q.addr + q.size) % AddrSpace \in 0 .. AddrSpace - 1
    BY RequestFields, AddrSpaceAssumption
  <2>2. line_base' \in 0 .. AddrSpace - 1 /\ line_end' \in 0 .. AddrSpace - 1
    BY <1>1, <2>1, LineBaseInRange DEF Call
  <2> QED
    BY <1>1, <2>2 DEF Call, LoopTypeOK, AccessResult, kD1Hit, kL2DMiss
<1>2. CASE LoopStep
  <2>1. LineOf(line_base) \in Lines
    BY LineInRange DEF LoopTypeOK
  <2>2. r' \in AccessResult
    BY <1>2, ResultInRange DEF LoopStep, LoopTypeOK, MaxResult
  <2>3. line_base' \in 0 .. AddrSpace - 1
    BY <1>2, AddrSpaceAssumption, LineSizeAssumption DEF LoopStep, LoopTypeOK
  <2> QED
    BY <1>2, <2>1, <2>2, <2>3 DEF LoopStep, LoopTypeOK
<1>3. CASE Return
  BY <1>3 DEF Return, LoopTypeOK
<1>4. CASE Reset
  BY <1>4 DEF Reset, loopVars, LoopTypeOK
<1>5. CASE UNCHANGED vars
  BY <1>5 DEF vars, loopVars, LoopTypeOK
<1> QED
  BY <1>1, <1>2, <1>3, <1>4, <1>5 DEF Next

\* The locals of JaguarCacheSim::Access keep their types, whatever wraps.
THEOREM LoopTypeCorrect == Spec => []LoopTypeOK
  BY LoopTypeStarts, LoopTypePreserved, PTL DEF Spec

\* Every behaviour of the simulator is, seen at the caches, a behaviour of the
\* two modules: a trip of the loop is one JaguarModule::Access, and no other
\* step but Init touches a cache.
THEOREM ImplementsModules == Spec => ModuleSpec
<1>1. Init => ModuleInit
  BY DEF Init
<1>2. LoopTypeOK /\ [Next]_vars => [ModuleNext]_moduleVars
  <2> SUFFICES ASSUME LoopTypeOK, [Next]_vars
               PROVE  [ModuleNext]_moduleVars
    OBVIOUS
  <2>1. ASSUME NEW q \in Requests, Call(q)
        PROVE  UNCHANGED moduleVars
    BY <2>1 DEF Call
  <2>2. CASE LoopStep
    <3>1. /\ ModuleOf(req.core) \in Modules
          /\ CoreOf(req.core) \in Cores
          /\ req.mode \in AccessMode
      BY RequestFields, CoreInRange DEF LoopTypeOK
    <3>2. LineOf(line_base) \in Lines
      BY LineInRange DEF LoopTypeOK
    <3>3. ModuleAccess(ModuleOf(req.core), CoreOf(req.core), LineOf(line_base), req.mode)
      BY <2>2 DEF LoopStep
    <3> QED
      BY <3>1, <3>2, <3>3 DEF ModuleNext
  <2>3. CASE Return
    BY <2>3 DEF Return
  <2>4. CASE Reset
    BY <2>4 DEF Reset, ModuleNext
  <2>5. CASE UNCHANGED vars
    BY <2>5 DEF vars
  <2> QED
    BY <2>1, <2>2, <2>3, <2>4, <2>5 DEF Next
<1> QED
  BY <1>1, <1>2, LoopTypeCorrect, PTL DEF Spec, ModuleSpec

\* All of the simulator's state keeps its type.
THEOREM TypeCorrect == Spec => []TypeOK
<1>1. ModuleTypeOK /\ LoopTypeOK => TypeOK
  BY DEF TypeOK
<1> QED
  BY <1>1, LoopTypeCorrect, ImplementsModules, ModuleTypeCorrect, PTL

\* NoStaleHit and CachesWellFormed hold of the whole simulator.
THEOREM SimulatorSafe == Spec => [](CachesWellFormed /\ NoStaleHit)
  BY ImplementsModules, ModuleWellFormed, ModuleNoStaleHit, PTL
-----------------------------------------------------------------------------
(* Division with remainder: what / and & of line numbers rest on.          *)

LEMMA TimesMonotone ==
  ASSUME NEW k \in Nat, NEW p \in Nat, NEW q \in Nat, p < q
  PROVE  k * p + k <= k * q
<1>1. PICK d \in Nat : q = p + 1 + d
  <2>1. q - p - 1 \in Nat /\ q = p + 1 + (q - p - 1)
    OBVIOUS
  <2> QED
    BY <2>1
<1>2. k * q = k * p + k + k * d /\ k * d >= 0
  BY <1>1
<1> QED
  BY <1>2

LEMMA DivMod ==
  ASSUME NEW k \in Nat \ {0}, NEW a \in Nat
  PROVE  /\ a \div k \in Nat
         /\ a % k \in 0 .. k - 1
         /\ a = k * (a \div k) + (a % k)
  OBVIOUS

LEMMA QuotientIs ==
  ASSUME NEW k \in Nat \ {0}, NEW a \in Nat, NEW q \in Nat, k * q <= a, a < k * q + k
  PROVE  a \div k = q
<1> DEFINE p == a \div k
<1>1. p \in Nat /\ k * p <= a /\ a < k * p + k
  BY DivMod
<1> HIDE DEF p
<1>2. ~(p < q)
  BY <1>1, TimesMonotone
<1>3. ~(q < p)
  BY <1>1, TimesMonotone
<1> QED
  BY <1>1, <1>2, <1>3 DEF p

LEMMA QuotientMonotone ==
  ASSUME NEW k \in Nat \ {0}, NEW a \in Nat, NEW b \in Nat, a <= b
  PROVE  a \div k <= b \div k
<1> DEFINE p == a \div k
           q == b \div k
<1>1. p \in Nat /\ k * p <= a /\ a < k * p + k
  BY DivMod
<1>2. q \in Nat /\ k * q <= b /\ b < k * q + k
  BY DivMod
<1> HIDE DEF p, q
<1>3. ~(q < p)
  BY <1>1, <1>2, TimesMonotone
<1> QED
  BY <1>1, <1>2, <1>3 DEF p, q

LEMMA RemaindersDiffer ==
  ASSUME NEW n \in Nat \ {0}, NEW a \in Nat, NEW b \in Nat, a < b, b < a + n
  PROVE  a % n # b % n
<1> DEFINE p == a \div n
           q == b \div n
<1> SUFFICES ASSUME a % n = b % n
             PROVE  FALSE
  OBVIOUS
<1>1. p \in Nat /\ a = n * p + (a % n)
  BY DivMod
<1>0. a % n \in Nat
  BY DivMod
<1>2. q \in Nat /\ b = n * q + (b % n)
  BY DivMod
<1> HIDE DEF p, q
<1>3. n * p < n * q /\ n * q < n * p + n
  BY <1>0, <1>1, <1>2
<1>4. ~(p < q)
  BY <1>1, <1>2, <1>3, TimesMonotone
<1>5. p # q /\ ~(q < p)
  BY <1>1, <1>2, <1>3, TimesMonotone
<1> QED
  BY <1>1, <1>2, <1>4, <1>5

LEMMA LineParts ==
  ASSUME NEW a \in Nat
  PROVE  /\ LineOf(a) \in Nat
         /\ LineBase(a) = kLineSize * LineOf(a)
         /\ kLineSize * LineOf(a) <= a /\ a < kLineSize * LineOf(a) + kLineSize
<1>1. kLineSize \in Nat \ {0}
  BY LineSizeAssumption
<1>2. /\ a \div kLineSize \in Nat
      /\ a % kLineSize \in 0 .. kLineSize - 1
      /\ a = kLineSize * (a \div kLineSize) + (a % kLineSize)
  BY <1>1, DivMod
<1> DEFINE p == a \div kLineSize
           w == a % kLineSize
<1>3. kLineSize * p \in Nat
  BY <1>1, <1>2
<1> HIDE DEF p, w
<1>4. a - w = kLineSize * p /\ kLineSize * p <= a /\ a < kLineSize * p + kLineSize
  BY <1>1, <1>2, <1>3 DEF p, w
<1> QED
  BY <1>2, <1>4 DEF LineOf, LineBase, p, w

LEMMA LineIs ==
  ASSUME NEW a \in Nat, NEW q \in Nat, kLineSize * q <= a, a < kLineSize * q + kLineSize
  PROVE  LineOf(a) = q
  BY QuotientIs, LineSizeAssumption DEF LineOf

\* The number of lines in the address space.
LineCount == AddrSpace \div kLineSize

LEMMA LineCounts ==
  /\ LineCount \in Nat \ {0}
  /\ AddrSpace = kLineSize * LineCount
  /\ \A a \in 0 .. AddrSpace - 1 : LineOf(a) \in 0 .. LineCount - 1
<1>1. kLineSize \in Nat \ {0} /\ AddrSpace \in Nat \ {0} /\ AddrSpace % kLineSize = 0
  BY LineSizeAssumption, AddrSpaceAssumption
<1>2. LineCount \in Nat /\ AddrSpace = kLineSize * LineCount
  BY <1>1, DivMod DEF LineCount
<1>3. LineCount # 0
  BY <1>1, <1>2
<1>4. \A a \in 0 .. AddrSpace - 1 : LineOf(a) \in 0 .. LineCount - 1
  BY LineInRange, AddrSpaceAssumption DEF LineCount
<1> QED
  BY <1>2, <1>3, <1>4
-----------------------------------------------------------------------------
(* The loop over the lines of an access.                                   *)

FirstLine == LineOf(req.addr)
LastLine == LineOf((req.addr + req.size) % AddrSpace)
CurrentLine == LineOf(line_base)

\* line_base and line_end are the addresses of lines, and what the loop has
\* behind it are the lines from the first to the current one, unless line_end is
\* the last line of the address space, which the loop never gets past.
LoopInv ==
  running =>
    /\ line_base = kLineSize * CurrentLine
    /\ line_end = kLineSize * LastLine
    /\ LastLine < LineCount - 1 =>
         /\ FirstLine <= CurrentLine
         /\ CurrentLine = FirstLine \/ CurrentLine <= LastLine + 1
         /\ touched = FirstLine .. CurrentLine - 1

LEMMA LineLocals ==
  ASSUME LoopTypeOK
  PROVE  /\ FirstLine \in 0 .. LineCount - 1
         /\ LastLine \in 0 .. LineCount - 1
         /\ CurrentLine \in 0 .. LineCount - 1
<1>1. req.addr \in 0 .. AddrSpace - 1 /\ req.size \in 1 .. AddrSpace - 1
  BY RequestFields DEF LoopTypeOK
<1>2. (req.addr + req.size) % AddrSpace \in 0 .. AddrSpace - 1
  BY <1>1, AddrSpaceAssumption
<1> QED
  BY <1>1, <1>2, LineCounts DEF LoopTypeOK, FirstLine, LastLine, CurrentLine

\* The addresses of lines are ordered as the lines are.
LEMMA LineOrder ==
  ASSUME NEW p \in Nat, NEW q \in Nat
  PROVE  /\ kLineSize * p <= kLineSize * q <=> p <= q
         /\ LineOf(kLineSize * p) = p
<1>1. kLineSize \in Nat /\ kLineSize > 0 /\ kLineSize * p \in Nat /\ kLineSize * q \in Nat
  BY LineSizeAssumption
<1>2. p < q => kLineSize * p + kLineSize <= kLineSize * q
  BY <1>1, TimesMonotone
<1>3. q < p => kLineSize * q + kLineSize <= kLineSize * p
  BY <1>1, TimesMonotone
<1>4. p = q => kLineSize * p = kLineSize * q
  OBVIOUS
<1>5. LineOf(kLineSize * p) = p
  BY <1>1, LineIs
<1> QED
  BY <1>1, <1>2, <1>3, <1>4, <1>5

\* What one trip does to line_base.
LEMMA TripAdvances ==
  ASSUME LoopTypeOK, LoopInv, LoopStep
  PROVE  /\ CurrentLine <= LastLine
         /\ CurrentLine < LineCount - 1 =>
              line_base' = kLineSize * (CurrentLine + 1) /\ CurrentLine' = CurrentLine + 1
         /\ CurrentLine = LineCount - 1 => line_base' = 0 /\ CurrentLine' = 0
<1> DEFINE b == CurrentLine
<1>1. /\ running /\ line_base <= line_end
      /\ line_base' = (line_base + kLineSize) % AddrSpace
  BY DEF LoopStep
<1>2. line_base = kLineSize * b /\ line_end = kLineSize * LastLine
  BY <1>1 DEF LoopInv
<1>3. b \in 0 .. LineCount - 1 /\ LastLine \in 0 .. LineCount - 1
  BY LineLocals
<1>4. kLineSize \in Nat \ {0} /\ LineCount \in Nat \ {0} /\ AddrSpace = kLineSize * LineCount
  BY LineCounts, LineSizeAssumption
<1> HIDE DEF b
<1>5. b <= LastLine
  BY <1>1, <1>2, <1>3, <1>4, LineOrder
<1>6. line_base' = (kLineSize * b + kLineSize) % AddrSpace
  BY <1>1, <1>2
<1>7. CurrentLine' = LineOf(line_base')
  BY DEF CurrentLine
<1>8. kLineSize * b + kLineSize = kLineSize * (b + 1)
  BY <1>3, <1>4
<1>9. CASE b < LineCount - 1
  <2>1. kLineSize * (b + 1) + kLineSize <= AddrSpace
    BY <1>3, <1>4, <1>9, TimesMonotone
  <2>2. kLineSize * (b + 1) \in 0 .. AddrSpace - 1 /\ AddrSpace \in Nat
    BY <1>3, <1>4, <2>1
  <2>3. line_base' = kLineSize * (b + 1)
    BY <1>6, <1>8, <2>2
  <2>4. CurrentLine' = b + 1
    BY <1>3, <1>7, <2>3, LineOrder
  <2> QED
    BY <1>3, <1>4, <1>5, <1>9, <2>3, <2>4 DEF b
<1>10. CASE b = LineCount - 1
  <2>1. kLineSize * (b + 1) = AddrSpace
    BY <1>3, <1>4, <1>10
  <2>2. line_base' = 0
    BY <1>4, <1>6, <1>8, <2>1, AddrSpaceAssumption
  <2>3. kLineSize * 0 = 0
    BY <1>4
  <2>4. CurrentLine' = 0
    BY <1>7, <2>2, <2>3, LineOrder
  <2> QED
    BY <1>3, <1>4, <1>5, <1>10, <2>2, <2>4 DEF b
<1> QED
  BY <1>3, <1>4, <1>9, <1>10 DEF b

LEMMA LoopPreserved == LoopTypeOK /\ LoopInv /\ [Next]_vars => LoopInv'
<1> SUFFICES ASSUME LoopTypeOK, LoopInv, [Next]_vars
             PROVE  LoopInv'
  OBVIOUS
<1>1. ASSUME NEW q \in Requests, Call(q)
      PROVE  LoopInv'
  <2> DEFINE last == (q.addr + q.size) % AddrSpace
  <2>1. q.addr \in Nat /\ last \in Nat
    BY RequestFields, AddrSpaceAssumption
  <2>2. /\ req' = q /\ touched' = {}
        /\ line_base' = LineBase(q.addr)
        /\ line_end' = LineBase(last)
    BY <1>1 DEF Call
  <2>3. FirstLine' = LineOf(q.addr) /\ LastLine' = LineOf(last) /\ CurrentLine' = LineOf(line_base')
    BY <2>2 DEF FirstLine, LastLine, CurrentLine
  <2> HIDE DEF last
  <2>4. /\ LineOf(q.addr) \in Nat
        /\ line_base' = kLineSize * LineOf(q.addr)
        /\ line_end' = kLineSize * LineOf(last)
    BY <2>1, <2>2, LineParts
  <2>5. CurrentLine' = LineOf(q.addr)
    BY <2>3, <2>4, LineOrder
  <2>6. touched' = FirstLine' .. CurrentLine' - 1
    BY <2>2, <2>3, <2>4, <2>5
  <2> QED
    BY <2>3, <2>4, <2>5, <2>6 DEF LoopInv
<1>2. CASE LoopStep
  <2>1. running /\ running' /\ line_end' = line_end /\ touched' = touched \cup {CurrentLine}
    BY <1>2 DEF LoopStep, CurrentLine
  <2>2. FirstLine' = FirstLine /\ LastLine' = LastLine
    BY <1>2 DEF LoopStep, FirstLine, LastLine
  <2>3. /\ FirstLine \in 0 .. LineCount - 1 /\ LastLine \in 0 .. LineCount - 1
        /\ CurrentLine \in 0 .. LineCount - 1 /\ LineCount \in Nat
    BY LineLocals, LineCounts
  <2>4. line_base' = kLineSize * CurrentLine'
    <3>1. kLineSize * 0 = 0
      BY LineSizeAssumption
    <3> QED
      BY <1>2, <2>3, <3>1, TripAdvances
  <2>5. line_end' = kLineSize * LastLine'
    BY <2>1, <2>2 DEF LoopInv
  <2>6. ASSUME LastLine < LineCount - 1
        PROVE  /\ FirstLine <= CurrentLine' /\ CurrentLine' <= LastLine + 1
               /\ touched' = FirstLine .. CurrentLine' - 1
    <3>1. CurrentLine <= LastLine /\ CurrentLine' = CurrentLine + 1
      BY <1>2, <2>3, <2>6, TripAdvances
    <3>2. FirstLine <= CurrentLine /\ touched = FirstLine .. CurrentLine - 1
      BY <2>1, <2>6 DEF LoopInv
    <3> QED
      BY <2>1, <2>3, <3>1, <3>2
  <2> QED
    BY <2>2, <2>4, <2>5, <2>6 DEF LoopInv
<1>3. CASE Return
  BY <1>3 DEF Return, LoopInv
<1>4. CASE Reset \/ UNCHANGED vars
  BY <1>4 DEF Reset, vars, loopVars, LoopInv, FirstLine, LastLine, CurrentLine
<1> QED
  BY <1>1, <1>2, <1>3, <1>4 DEF Next

\* A trip of the loop has touched the lines from the first to the one before the
\* current line, and when Access returns it has touched the last one too.
THEOREM LoopInvariant == Spec => []LoopInv
<1>1. Init => LoopInv
  BY DEF Init, LoopInv
<1> QED
  BY <1>1, LoopPreserved, LoopTypeCorrect, PTL DEF Spec

\* The loop ends behind line_end, which is not the last line then.
LEMMA ReturningBehind ==
  ASSUME LoopTypeOK, LoopInv, Returning
  PROVE  LastLine < CurrentLine /\ LastLine < LineCount - 1
<1>1. /\ LastLine \in 0 .. LineCount - 1 /\ CurrentLine \in 0 .. LineCount - 1
      /\ LineCount \in Nat
  BY LineLocals, LineCounts
<1>2. /\ line_base = kLineSize * CurrentLine
      /\ line_end = kLineSize * LastLine
      /\ line_base > line_end
  BY DEF Returning, LoopInv
<1>3. kLineSize * CurrentLine \in Nat /\ kLineSize * LastLine \in Nat
  BY <1>1, LineSizeAssumption
<1> QED
  BY <1>1, <1>2, <1>3, LineOrder

\* Of an access that does not reach the end of the address space, the loop has
\* behind it, when it ends, all lines from the first to the last one.
LEMMA ReturningTouched ==
  ASSUME LoopTypeOK, LoopInv, Returning, req.addr + req.size < AddrSpace
  PROVE  /\ touched = FirstLine .. LastLine
         /\ FirstLine <= LastLine
         /\ LastLine = LineOf(req.addr + req.size)
<1>1. /\ FirstLine \in 0 .. LineCount - 1 /\ LastLine \in 0 .. LineCount - 1
      /\ CurrentLine \in 0 .. LineCount - 1 /\ LineCount \in Nat
  BY LineLocals, LineCounts
<1>4. LastLine < CurrentLine
  BY ReturningBehind
<1>5. req.addr \in Nat /\ req.size \in Nat /\ AddrSpace \in Nat
  BY RequestFields, AddrSpaceAssumption DEF LoopTypeOK
<1>6. (req.addr + req.size) % AddrSpace = req.addr + req.size
  BY <1>5
<1>7. LastLine = LineOf(req.addr + req.size)
  BY <1>6 DEF LastLine
<1>8. FirstLine <= LastLine
  BY <1>5, <1>7, QuotientMonotone, LineSizeAssumption DEF FirstLine, LineOf
<1>9. /\ FirstLine <= CurrentLine
      /\ CurrentLine = FirstLine \/ CurrentLine <= LastLine + 1
      /\ touched = FirstLine .. CurrentLine - 1
  BY <1>1, <1>4 DEF Returning, LoopInv
<1>10. CurrentLine = LastLine + 1
  BY <1>1, <1>4, <1>8, <1>9
<1> QED
  BY <1>1, <1>7, <1>8, <1>9, <1>10

\* When Access returns it has accessed every line with a byte of the access, and
\* besides these at most the line right behind the last byte.
THEOREM CoversTheAccessThere == Spec => []CoversTheAccess
<1>1. LoopTypeOK /\ LoopInv => CoversTheAccess
  <2> SUFFICES ASSUME LoopTypeOK, LoopInv, Returning, req.addr + req.size < AddrSpace
               PROVE  /\ Overlapped(req) \subseteq touched
                      /\ touched \subseteq Overlapped(req) \cup {LineOf(req.addr + req.size)}
    BY DEF CoversTheAccess
  <2>1. /\ touched = FirstLine .. LastLine
        /\ LastLine = LineOf(req.addr + req.size)
    BY ReturningTouched
  <2>2. req.addr \in Nat /\ req.size \in Nat \ {0} /\ AddrSpace \in Nat /\ kLineSize \in Nat \ {0}
    BY RequestFields, AddrSpaceAssumption, LineSizeAssumption DEF LoopTypeOK
  <2>3. FirstLine = LineOf(req.addr)
    BY DEF FirstLine
  <2>4. /\ FirstLine \in Nat /\ kLineSize * FirstLine <= req.addr
        /\ req.addr < kLineSize * FirstLine + kLineSize
    BY <2>2, <2>3, LineParts
  <2>5. /\ req.addr + req.size \in Nat
        /\ LastLine \in Nat /\ kLineSize * LastLine <= req.addr + req.size
    <3>1. req.addr + req.size \in Nat
      BY <2>2
    <3> QED
      BY <2>1, <3>1, LineParts
  <2>6. ASSUME NEW i \in 0 .. req.size - 1
        PROVE  /\ (req.addr + i) % AddrSpace = req.addr + i
               /\ req.addr + i \in Nat
               /\ req.addr <= req.addr + i /\ req.addr + i <= req.addr + req.size
    BY <2>2
  <2>7. ASSUME NEW i \in 0 .. req.size - 1
        PROVE  LineOf(req.addr + i) \in touched
    <3>1. LineOf(req.addr + i) \in Nat
      BY <2>6, LineParts
    <3>2. /\ LineOf(req.addr) <= LineOf(req.addr + i)
          /\ LineOf(req.addr + i) <= LineOf(req.addr + req.size)
      BY <2>2, <2>5, <2>6, QuotientMonotone DEF LineOf
    <3> QED
      BY <2>1, <2>3, <2>4, <2>5, <3>1, <3>2
  <2>8. ASSUME NEW x \in touched, x # LastLine
        PROVE  x \in Overlapped(req)
    <3>1. x \in Nat /\ FirstLine <= x /\ x < LastLine
      BY <2>1, <2>4, <2>5, <2>8
    <3>2. kLineSize * x \in Nat
      BY <2>2, <3>1
    <3>3. kLineSize * x + kLineSize <= kLineSize * LastLine
      BY <2>2, <2>5, <3>1, TimesMonotone
    <3>4. CASE x = FirstLine
      <4>1. 0 \in 0 .. req.size - 1 /\ LineOf((req.addr + 0) % AddrSpace) = x
        BY <2>2, <2>3, <2>6, <3>4
      <4> QED
        BY <4>1 DEF Overlapped
    <3>5. CASE x # FirstLine
      <4> DEFINE i == kLineSize * x - req.addr
      <4>1. kLineSize * FirstLine + kLineSize <= kLineSize * x
        BY <2>2, <2>4, <3>1, <3>5, TimesMonotone
      <4>2. i \in 0 .. req.size - 1 /\ req.addr + i = kLineSize * x
        <5>1. kLineSize * FirstLine \in Nat /\ kLineSize * LastLine \in Nat
          BY <2>2, <2>4, <2>5
        <5> QED
          BY <2>2, <2>4, <2>5, <3>2, <3>3, <4>1, <5>1
      <4> HIDE DEF i
      <4>3. LineOf((req.addr + i) % AddrSpace) = x
        BY <2>6, <3>1, <4>2, LineOrder
      <4> QED
        BY <4>2, <4>3 DEF Overlapped
    <3> QED
      BY <3>4, <3>5
  <2>9. Overlapped(req) \subseteq touched
    BY <2>6, <2>7 DEF Overlapped
  <2> QED
    BY <2>1, <2>8, <2>9
<1> QED
  BY <1>1, LoopInvariant, LoopTypeCorrect, PTL
-----------------------------------------------------------------------------
(* What a call returns.                                                    *)

\* No instruction is at the very end of the address space.
CodeIsBelowTheEnd ==
  \A q \in Requests : q.mode = "kCodeRead" => q.addr + q.size < AddrSpace

\* The result starts as that of a data access, and the first trip makes it one of
\* the request's mode.
ResultInv ==
  running =>
    IF req.mode = "kCodeRead"
    THEN r \in {kI1Hit, kL2Hit, kL2IMiss} \/ (touched = {} /\ r = kD1Hit)
    ELSE r \in {kD1Hit, kL2Hit, kL2DMiss}

LEMMA ResultPreserved == ResultInv /\ [Next]_vars => ResultInv'
<1> SUFFICES ASSUME ResultInv, [Next]_vars
             PROVE  ResultInv'
  OBVIOUS
<1> USE DEF ResultInv
<1>1. ASSUME NEW q \in Requests, Call(q)
      PROVE  ResultInv'
  BY <1>1 DEF Call
<1>2. CASE LoopStep
  <2> DEFINE res == Result(ModuleOf(req.core), CoreOf(req.core), LineOf(line_base), req.mode)
  <2>1. /\ running /\ req' = req /\ touched' = touched \cup {LineOf(line_base)}
        /\ r' = MaxResult(r, res)
    BY <1>2 DEF LoopStep
  <2>2. res \in IF req.mode = "kCodeRead" THEN {kI1Hit, kL2Hit, kL2IMiss}
                                          ELSE {kD1Hit, kL2Hit, kL2DMiss}
    BY DEF Result
  <2> HIDE DEF res
  <2> QED
    BY <2>1, <2>2 DEF MaxResult, kD1Hit, kI1Hit, kL2Hit, kL2IMiss, kL2DMiss
<1>3. CASE Return
  BY <1>3 DEF Return
<1>4. CASE Reset \/ UNCHANGED vars
  BY <1>4 DEF Reset, vars, loopVars
<1> QED
  BY <1>1, <1>2, <1>3, <1>4 DEF Next

\* The result of a call is one of its mode: a fetch of an instruction counts as
\* a fetch, and a read or a write as a data access, or as a hit in the L2.
THEOREM ResultMatchesModeThere ==
  ASSUME CodeIsBelowTheEnd
  PROVE  Spec => []ResultMatchesMode
<1>1. Init => ResultInv
  BY DEF Init, ResultInv
<1>2. LoopTypeOK /\ LoopInv /\ ResultInv => ResultMatchesMode
  <2> SUFFICES ASSUME LoopTypeOK, LoopInv, ResultInv, Returning
               PROVE  r \in IF req.mode = "kCodeRead" THEN {kI1Hit, kL2Hit, kL2IMiss}
                                                       ELSE {kD1Hit, kL2Hit, kL2DMiss}
    BY DEF ResultMatchesMode
  <2>1. req.mode = "kCodeRead" => touched # {}
    <3> SUFFICES ASSUME req.mode = "kCodeRead"
                 PROVE  touched # {}
      OBVIOUS
    <3>1. req.addr + req.size < AddrSpace
      BY DEF CodeIsBelowTheEnd, LoopTypeOK
    <3>2. touched = FirstLine .. LastLine /\ FirstLine <= LastLine
      BY <3>1, ReturningTouched
    <3>3. FirstLine \in 0 .. LineCount - 1
      BY LineLocals
    <3>4. FirstLine \in FirstLine .. LastLine
      BY <3>2, <3>3, LineLocals
    <3> QED
      BY <3>2, <3>4
  <2> QED
    BY <2>1 DEF ResultInv, Returning
<1> QED
  BY <1>1, <1>2, ResultPreserved, LoopInvariant, LoopTypeCorrect, PTL DEF Spec
-----------------------------------------------------------------------------
(* The trips of a call and the caches.                                     *)

L1Sets(mode) == IF mode = "kCodeRead" THEN kI1Sets ELSE kD1Sets

\* The lines of one access are in different sets of each cache it goes through.
RequestsFit ==
  \A q \in Requests : /\ q.size <= kLineSize * (L1Sets(q.mode) - 1)
                      /\ q.size <= kLineSize * (kL2Sets - 1)

ReqModule == ModuleOf(req.core)
ReqCore == CoreOf(req.core)

UsedByRequester ==
  l2Used[ReqModule] \cap (IF req.mode = "kCodeRead" THEN i1Used[ReqModule][ReqCore]
                                                    ELSE d1Used[ReqModule][ReqCore])

HitsInL1(line) ==
  IF req.mode = "kCodeRead" THEN CacheHits(kI1Sets, m_CoreI1[ReqModule][ReqCore], line)
                            ELSE CacheHits(kD1Sets, m_CoreD1[ReqModule][ReqCore], line)

\* What the loop has behind it is in both caches, if they have not been cleared.
HitInv ==
  running /\ LastLine < LineCount - 1 =>
    \A line \in touched \cap UsedByRequester :
      CacheHits(kL2Sets, m_Level2[ReqModule], line) /\ HitsInL1(line)

LEMMA SpanIsShort ==
  ASSUME LoopTypeOK, NEW n \in Nat \ {0}, req.size <= kLineSize * (n - 1)
  PROVE  LastLine < FirstLine + n
<1>1. /\ req.addr \in Nat /\ req.size \in Nat /\ AddrSpace \in Nat \ {0}
      /\ kLineSize \in Nat \ {0}
  BY RequestFields, AddrSpaceAssumption, LineSizeAssumption DEF LoopTypeOK
<1> DEFINE end == (req.addr + req.size) % AddrSpace
           first == LineOf(req.addr)
           last == LineOf(end)
<1>2. end \in Nat /\ end <= req.addr + req.size
  BY <1>1
<1>3. /\ first \in Nat /\ kLineSize * first <= req.addr
      /\ req.addr < kLineSize * first + kLineSize
  BY <1>1, LineParts
<1> HIDE DEF end
<1>4. last \in Nat /\ kLineSize * last <= end
  BY <1>2, LineParts
<1>5. FirstLine = first /\ LastLine = last
  BY DEF FirstLine, LastLine, end
<1> HIDE DEF first, last
<1>6. kLineSize * (first + n) = kLineSize * first + kLineSize * (n - 1) + kLineSize
  BY <1>1, <1>3
<1>7. kLineSize * (n - 1) \in Nat /\ kLineSize * first \in Nat /\ kLineSize * last \in Nat
  BY <1>1, <1>3, <1>4
<1>8. kLineSize * last < kLineSize * (first + n)
  BY <1>1, <1>2, <1>3, <1>4, <1>6, <1>7
<1>9. ~(first + n <= last)
  <2>1. first + n \in Nat
    BY <1>3
  <2>2. kLineSize * (first + n) <= kLineSize * last <=> first + n <= last
    BY <1>4, <2>1, LineOrder
  <2>3. kLineSize * (first + n) \in Nat
    BY <1>1, <2>1
  <2> QED
    BY <1>7, <1>8, <2>2, <2>3
<1> QED
  BY <1>3, <1>4, <1>5, <1>9

\* A trip in the cache of k ways and n sets that serves it: the current line
\* hits from now on, and those the loop has behind it as before.
LEMMA TripKeepsHits ==
  ASSUME LoopTypeOK, LoopInv, LoopStep, LastLine < LineCount - 1,
         NEW k \in Nat \ {0}, NEW n \in Nat \ {0}, req.size <= kLineSize * (n - 1),
         NEW sets \in Caches(k, n, Stored)
  PROVE  /\ CacheHits(n, CacheAccess(k, n, sets, CurrentLine), CurrentLine)
         /\ \A x \in touched : CacheHits(n, sets, x) =>
                                 CacheHits(n, CacheAccess(k, n, sets, CurrentLine), x)
<1>1. /\ FirstLine \in 0 .. LineCount - 1 /\ LastLine \in 0 .. LineCount - 1
      /\ CurrentLine \in 0 .. LineCount - 1 /\ LineCount \in Nat
  BY LineLocals, LineCounts
<1>2. /\ FirstLine <= CurrentLine /\ CurrentLine <= LastLine
      /\ touched = FirstLine .. CurrentLine - 1
  BY TripAdvances DEF LoopStep, LoopInv
<1>3. LastLine < FirstLine + n
  BY SpanIsShort
<1>4. CurrentLine \in Stored /\ Stored \in SUBSET Nat
  BY StoredType, LineInRange DEF LoopTypeOK, CurrentLine
<1>5. ASSUME NEW x \in touched
      PROVE  x \in Nat /\ SetIndex(n, x) # SetIndex(n, CurrentLine)
  <2>1. /\ x \in Nat /\ CurrentLine \in Nat
        /\ x < CurrentLine /\ CurrentLine < x + n
    BY <1>1, <1>2, <1>3
  <2>2. x % n # CurrentLine % n
    BY ONLY <2>1, RemaindersDiffer, n \in Nat \ {0}
  <2> QED
    BY <2>1, <2>2 DEF SetIndex
<1>6. /\ CacheHits(n, CacheAccess(k, n, sets, CurrentLine), CurrentLine)
      /\ \A x \in Nat : SetIndex(n, x) # SetIndex(n, CurrentLine) /\ CacheHits(n, sets, x)
                          => CacheHits(n, CacheAccess(k, n, sets, CurrentLine), x)
  BY <1>4, HitsAfterAccess
<1> QED
  BY <1>5, <1>6

LEMMA HitPreserved ==
  ASSUME RequestsFit, ModuleTypeOK, LoopTypeOK, LoopInv, HitInv, [Next]_vars
  PROVE  HitInv'
<1>1. ASSUME NEW q \in Requests, Call(q)
      PROVE  HitInv'
  BY <1>1 DEF Call, HitInv
<1>2. CASE LoopStep
  <2> SUFFICES ASSUME LastLine' < LineCount - 1
               PROVE  \A line \in touched' \cap UsedByRequester' :
                        CacheHits(kL2Sets, m_Level2'[ReqModule'], line) /\ HitsInL1(line)'
    BY DEF HitInv
  <2> DEFINE m == ReqModule
             c == ReqCore
             b == CurrentLine
  <2>1. /\ running /\ req' = req /\ touched' = touched \cup {b}
        /\ ModuleAccess(m, c, b, req.mode)
    BY <1>2 DEF LoopStep, ReqModule, ReqCore, CurrentLine
  <2>2. LastLine < LineCount - 1 /\ ReqModule' = m /\ ReqCore' = c
    BY <2>1 DEF LastLine, ReqModule, ReqCore
  <2>3. m \in Modules /\ c \in Cores /\ req \in Requests
    BY CoreInRange, RequestFields DEF LoopTypeOK, ReqModule, ReqCore
  <2>4. /\ m_CoreD1[m][c] \in Caches(kD1Ways, kD1Sets, Stored)
        /\ m_CoreI1[m][c] \in Caches(kI1Ways, kI1Sets, Stored)
        /\ m_Level2[m] \in Caches(kL2Ways, kL2Sets, Stored)
    BY <2>3 DEF ModuleTypeOK, PerCore
  <2> HIDE DEF m, c, b
  <2>5. ASSUME NEW x \in touched' \cap UsedByRequester', x # b
        PROVE  CacheHits(kL2Sets, m_Level2[m], x) /\ HitsInL1(x)
    <3>1. x \in touched
      BY <2>1, <2>5
    <3>2. l2Used'[m] = l2Used[m] \cup {b}
      BY <2>1, <2>3 DEF ModuleAccess, UsedL2
    <3>3. req.mode = "kCodeRead" => i1Used'[m][c] = i1Used[m][c] \cup {b}
      BY <2>1, <2>3 DEF ModuleAccess, UsedL1, ModuleTypeOK, PerCore
    <3>4. req.mode # "kCodeRead" => d1Used'[m][c] = d1Used[m][c] \cup {b}
      BY <2>1, <2>3 DEF ModuleAccess, UsedL1, ModuleTypeOK, PerCore
    <3>5. x \in UsedByRequester
      BY <2>1, <2>2, <2>5, <3>2, <3>3, <3>4 DEF UsedByRequester, m, c
    <3> QED
      BY <2>1, <2>2, <3>1, <3>5 DEF HitInv, m
  <2>6. m_Level2'[m] = CacheAccess(kL2Ways, kL2Sets, m_Level2[m], b)
    BY <2>1, <2>3 DEF ModuleAccess, AfterL2
  <2>7. ASSUME NEW x \in touched' \cap UsedByRequester'
        PROVE  CacheHits(kL2Sets, m_Level2'[m], x)
    <3>1. req.size <= kLineSize * (kL2Sets - 1)
      BY <2>3 DEF RequestsFit
    <3> QED
      BY <1>2, <2>1, <2>2, <2>4, <2>5, <2>6, <3>1, TripKeepsHits, GeometryAssumption DEF b
  <2>8. ASSUME NEW x \in touched' \cap UsedByRequester', req.mode = "kCodeRead"
        PROVE  CacheHits(kI1Sets, m_CoreI1'[m][c], x)
    <3>1. req.size <= kLineSize * (kI1Sets - 1)
      BY <2>3, <2>8 DEF RequestsFit, L1Sets
    <3>2. m_CoreI1'[m][c] = CacheAccess(kI1Ways, kI1Sets, m_CoreI1[m][c], b)
      BY <2>1, <2>3, <2>8 DEF ModuleAccess, AfterL1, ModuleTypeOK, PerCore
    <3>3. x # b => CacheHits(kI1Sets, m_CoreI1[m][c], x)
      BY <2>5, <2>8 DEF HitsInL1, m, c
    <3> QED
      BY <1>2, <2>1, <2>2, <2>4, <3>1, <3>2, <3>3, TripKeepsHits, GeometryAssumption DEF b
  <2>9. ASSUME NEW x \in touched' \cap UsedByRequester', req.mode # "kCodeRead"
        PROVE  CacheHits(kD1Sets, m_CoreD1'[m][c], x)
    <3>1. req.size <= kLineSize * (kD1Sets - 1)
      BY <2>3, <2>9 DEF RequestsFit, L1Sets
    <3>2. m_CoreD1'[m][c] = CacheAccess(kD1Ways, kD1Sets, m_CoreD1[m][c], b)
      BY <2>1, <2>3, <2>9 DEF ModuleAccess, AfterL1, ModuleTypeOK, PerCore
    <3>3. x # b => CacheHits(kD1Sets, m_CoreD1[m][c], x)
      BY <2>5, <2>9 DEF HitsInL1, m, c
    <3> QED
      BY <1>2, <2>1, <2>2, <2>4, <3>1, <3>2, <3>3, TripKeepsHits, GeometryAssumption DEF b
  <2> QED
    BY <2>1, <2>2, <2>7, <2>8, <2>9 DEF HitsInL1
<1>3. CASE Return
  BY <1>3 DEF Return, HitInv
<1>4. CASE Reset
  <2>1. UNCHANGED loopVars /\ l2Used' = [m \in Modules |-> {}]
    BY <1>4 DEF Reset, ModuleReset
  <2>2. ReqModule' \in Modules
    BY <2>1, CoreInRange, RequestFields DEF LoopTypeOK, ReqModule, loopVars
  <2> QED
    BY <2>1, <2>2 DEF HitInv, UsedByRequester
<1>5. CASE UNCHANGED vars
  BY <1>5 DEF vars, loopVars, moduleVars, HitInv, LastLine, UsedByRequester, HitsInL1,
              ReqModule, ReqCore
<1> QED
  BY <1>1, <1>2, <1>3, <1>4, <1>5 DEF Next

\* The trips of one call do not evict each other's lines: the same call made
\* again would hit on every line, if the access spans fewer lines than the caches
\* have sets (the longest, of 512 bytes, spans nine; the smallest cache has 64).
THEOREM RepeatHitsThere ==
  ASSUME RequestsFit
  PROVE  Spec => []RepeatHits
<1>1. Init => HitInv
  BY DEF Init, HitInv
<1>2. ModuleTypeOK /\ LoopTypeOK /\ LoopInv /\ HitInv /\ [Next]_vars => HitInv'
  BY HitPreserved
<1>3. LoopTypeOK /\ LoopInv /\ HitInv => RepeatHits
  <2> SUFFICES ASSUME LoopTypeOK, LoopInv, HitInv, Returning
               PROVE  RepeatHits
    BY DEF RepeatHits
  <2>1. LastLine < LineCount - 1
    BY ReturningBehind
  <2>2. \A line \in touched \cap UsedByRequester :
          CacheHits(kL2Sets, m_Level2[ReqModule], line) /\ HitsInL1(line)
    BY <2>1 DEF HitInv, Returning
  <2>3. \A line \in touched \cap UsedByRequester :
          Result(ReqModule, ReqCore, line, req.mode) \in {kD1Hit, kI1Hit}
    BY <2>2 DEF Result, HitsInL1
  <2> QED
    BY <2>3 DEF RepeatHits, UsedByRequester, ReqModule, ReqCore
<1> QED
  BY <1>1, <1>2, <1>3, LoopInvariant, TypeCorrect, PTL DEF Spec, TypeOK
-----------------------------------------------------------------------------
(* What the two switches find.                                             *)

LEMMA ImplicitOpsAre ==
  ASSUME NEW i
  PROVE  /\ ImplicitOps(i).r = IF i.mnemonic \in {"lods", "scas", "movs"} THEN <<MemOp(i.regs["rsi"], i.size)>>
                               ELSE IF i.mnemonic = "ret" THEN <<MemOp(i.regs["rsp"], i.size)>>
                               ELSE << >>
         /\ ImplicitOps(i).w = IF i.mnemonic \in {"stos", "movs"} THEN <<MemOp(i.regs["rdi"], i.size)>>
                               ELSE IF i.mnemonic \in {"push", "pop", "call"} THEN <<MemOp(i.regs["rsp"], i.size)>>
                               ELSE << >>
         /\ ImplicitOps(i).prefetch = << >>
<1> DEFINE x == i.mnemonic
<1>1. CASE x \in {"lods", "scas"}
  <2>1. ImplicitOps(i) = Reads(<<MemOp(i.regs["rsi"], i.size)>>)
    BY <1>1 DEF ImplicitOps
  <2> QED BY <1>1, <2>1 DEF Reads, NoOps
<1>2. CASE x = "stos"
  <2>1. ImplicitOps(i) = Writes(<<MemOp(i.regs["rdi"], i.size)>>)
    BY <1>2 DEF ImplicitOps
  <2> QED BY <1>2, <2>1 DEF Writes, NoOps
<1>3. CASE x = "movs"
  <2>1. ImplicitOps(i) = [Reads(<<MemOp(i.regs["rsi"], i.size)>>) EXCEPT !.w = <<MemOp(i.regs["rdi"], i.size)>>]
    BY <1>3 DEF ImplicitOps
  <2> QED BY <1>3, <2>1 DEF Reads, NoOps
<1>4. CASE x \in {"push", "pop", "call"}
  <2>1. ImplicitOps(i) = Writes(<<MemOp(i.regs["rsp"], i.size)>>)
    BY <1>4 DEF ImplicitOps
  <2> QED BY <1>4, <2>1 DEF Writes, NoOps
<1>5. CASE x = "ret"
  <2>1. ImplicitOps(i) = Reads(<<MemOp(i.regs["rsp"], i.size)>>)
    BY <1>5 DEF ImplicitOps
  <2> QED BY <1>5, <2>1 DEF Reads, NoOps
<1>6. CASE x \notin {"lods", "scas", "stos", "movs", "push", "pop", "call", "ret"}
  <2>1. ImplicitOps(i) = NoOps
    BY <1>6 DEF ImplicitOps
  <2> QED BY <1>6, <2>1 DEF NoOps
<1> QED BY <1>1, <1>2, <1>3, <1>4, <1>5, <1>6

NoMemory == {"lea", "nop", "pause"}

LEMMA SpecialOpsAre ==
  ASSUME NEW i
  PROVE  /\ SpecialOps(i).r = IF i.mnemonic \in NoMemory \cup {"prefetch", "movnt", "fxsave"} THEN << >>
                              ELSE IF i.mnemonic = "fxrstor" THEN <<MemOp(ComputeEa(i.operands[1], i), kFxSize)>>
                              ELSE Explicit(i, {"read"})
         /\ SpecialOps(i).w = IF i.mnemonic \in NoMemory \cup {"prefetch", "fxrstor"} THEN << >>
                              ELSE IF i.mnemonic = "movnt" THEN <<MemOp(ComputeEa(i.operands[1], i), i.size)>>
                              ELSE IF i.mnemonic = "fxsave" THEN <<MemOp(ComputeEa(i.operands[1], i), kFxSize)>>
                              ELSE Explicit(i, {"write"})
         /\ SpecialOps(i).prefetch = IF i.mnemonic = "prefetch" THEN <<MemOp(ComputeEa(i.operands[1], i), kPrefetchSize)>>
                                     ELSE << >>
<1> DEFINE x == i.mnemonic
           at(sz) == <<MemOp(ComputeEa(i.operands[1], i), sz)>>
<1>1. CASE x \in NoMemory
  <2>1. SpecialOps(i) = NoOps
    BY <1>1 DEF SpecialOps, NoMemory
  <2> QED BY <1>1, <2>1 DEF NoOps, NoMemory
<1>2. CASE x = "prefetch"
  <2>1. SpecialOps(i) = [NoOps EXCEPT !.prefetch = at(kPrefetchSize)]
    BY <1>2 DEF SpecialOps
  <2> QED BY <1>2, <2>1 DEF NoOps, NoMemory
<1>3. CASE x = "movnt"
  <2>1. SpecialOps(i) = Writes(at(i.size))
    BY <1>3 DEF SpecialOps
  <2> QED BY <1>3, <2>1 DEF Writes, NoOps, NoMemory
<1>4. CASE x = "fxsave"
  <2>1. SpecialOps(i) = Writes(at(kFxSize))
    BY <1>4 DEF SpecialOps
  <2> QED BY <1>4, <2>1 DEF Writes, NoOps, NoMemory
<1>5. CASE x = "fxrstor"
  <2>1. SpecialOps(i) = Reads(at(kFxSize))
    BY <1>5 DEF SpecialOps
  <2> QED BY <1>5, <2>1 DEF Reads, NoOps, NoMemory
<1>6. CASE x \notin NoMemory \cup {"prefetch", "movnt", "fxsave", "fxrstor"}
  <2>1. SpecialOps(i) = [NoOps EXCEPT !.r = Explicit(i, {"read"}), !.w = Explicit(i, {"write"})]
    BY <1>6 DEF SpecialOps, NoMemory
  <2> QED BY <1>6, <2>1 DEF NoOps, NoMemory
<1> QED BY <1>1, <1>2, <1>3, <1>4, <1>5, <1>6 DEF NoMemory
-----------------------------------------------------------------------------
(* The accesses of a commit.                                               *)

LEMMA OwnRange ==
  ASSUME NEW T, NEW s \in Seq(T)
  PROVE  /\ s \in Seq(Range(s))
         /\ Range(s) \subseteq T
         /\ \A x : x \in Range(s) <=> \E n \in DOMAIN s : s[n] = x
  BY DEF Range

LEMMA ConcatRange ==
  ASSUME NEW S, NEW s \in Seq(S), NEW T, NEW t \in Seq(T)
  PROVE  /\ s \o t \in Seq(S \cup T)
         /\ \A x : x \in Range(s \o t) <=> x \in Range(s) \/ x \in Range(t)
<1>1. s \in Seq(S \cup T) /\ t \in Seq(S \cup T)
  OBVIOUS
<1>2. s \o t \in Seq(S \cup T)
  BY <1>1
<1>3. \A x : x \in Range(s \o t) => x \in Range(s) \cup Range(t)
  BY <1>1 DEF Range
<1>4. ASSUME NEW n \in DOMAIN s
      PROVE  s[n] \in Range(s \o t)
  <2>1. n \in DOMAIN (s \o t) /\ (s \o t)[n] = s[n]
    BY <1>1
  <2> QED BY <2>1 DEF Range
<1>5. ASSUME NEW n \in DOMAIN t
      PROVE  t[n] \in Range(s \o t)
  <2>1. Len(s) + n \in DOMAIN (s \o t) /\ (s \o t)[Len(s) + n] = t[n]
    BY <1>1
  <2> QED BY <2>1 DEF Range
<1>6. \A x : x \in Range(s) \cup Range(t) => x \in Range(s \o t)
  BY <1>4, <1>5 DEF Range
<1> QED BY <1>2, <1>3, <1>6

LEMMA Single ==
  ASSUME NEW x
  PROVE  <<x>> \in Seq({x}) /\ Range(<<x>>) = {x}
  BY DEF Range

LEMMA None ==
  << >> \in Seq(Range(<< >>)) /\ Range(<< >>) = {}
<1>1. << >> \in Seq({})
  OBVIOUS
<1> QED BY <1>1, OwnRange DEF Range

\* The operands that the loop at the end of the second switch finds.
ExplicitAt(i, access) == {n \in DOMAIN i.operands : i.operands[n].mem /\ i.operands[n].access = access}
OpAt(i, n) == MemOp(ComputeEa(i.operands[n], i), i.operands[n].size)

LEMMA ExplicitIs ==
  ASSUME NEW i \in Instructions, NEW access
  PROVE  /\ Explicit(i, access) \in Seq(Range(Explicit(i, access)))
         /\ Range(Explicit(i, access)) = {OpAt(i, n) : n \in ExplicitAt(i, access)}
<1> DEFINE I == ExplicitAt(i, access)
           ops == Selected(i.operands, I)
           seq == [k \in DOMAIN ops |-> MemOp(ComputeEa(ops[k], i), ops[k].size)]
<1>1. i.operands \in Seq(Range(i.operands)) /\ I \in SUBSET DOMAIN i.operands
  BY InstructionsAssumption DEF Disassembled, ExplicitAt
<1>2. Cardinality(I) \in Nat
  <2>1. DOMAIN i.operands = 1 .. Len(i.operands) /\ Len(i.operands) \in Nat
    BY <1>1
  <2> QED BY <1>1, <2>1, NthIsThere
<1> HIDE DEF I
<1> HIDE DEF ops
<1>3. /\ DOMAIN ops = 1 .. Cardinality(I)
      /\ \A k \in DOMAIN ops : Nth(I, k) \in I /\ ops[k] = i.operands[Nth(I, k)]
      /\ \A n \in I : \E k \in DOMAIN ops : ops[k] = i.operands[n]
  <2>1. ops = Selected(i.operands, I)
    BY DEF ops
  <2>2. DOMAIN ops = 1 .. Cardinality(I)
    BY <1>1, <2>1, SelectedElements
  <2>3. \A k \in DOMAIN ops : Nth(I, k) \in I
    BY <1>1, <2>1, SelectedElements
  <2>4. \A k \in DOMAIN ops : ops[k] = i.operands[Nth(I, k)]
    BY <1>1, <2>1, SelectedElements
  <2>5. \A n \in I : \E k \in DOMAIN ops : ops[k] = i.operands[n]
    BY <1>1, <2>1, SelectedElements
  <2> QED BY <2>2, <2>3, <2>4, <2>5
<1>4. Explicit(i, access) = seq
  BY DEF Explicit, I, ops, ExplicitAt
<1>5. \A k \in DOMAIN seq : seq[k] = OpAt(i, Nth(I, k)) /\ Nth(I, k) \in I
  BY <1>3 DEF OpAt
<1>6. \A n \in I : \E k \in DOMAIN seq : seq[k] = OpAt(i, n)
  BY <1>3 DEF OpAt
<1>7. DOMAIN seq = 1 .. Cardinality(I)
  BY <1>3
<1>8. seq \in Seq({OpAt(i, n) : n \in I})
  BY <1>2, <1>5, <1>7
<1> HIDE DEF seq
<1>9. Range(seq) = {OpAt(i, n) : n \in I}
  BY <1>5, <1>6 DEF Range
<1> QED BY <1>4, <1>8, <1>9 DEF I

LEMMA KeptIs ==
  ASSUME NEW T, NEW ops \in Seq(T)
  PROVE  /\ Kept(ops) \in Seq(T)
         /\ Range(Kept(ops)) = {op \in Range(ops) : op.ea # 0}
<1> DEFINE I == {n \in DOMAIN ops : ops[n].ea # 0}
<1>1. I \in SUBSET DOMAIN ops
  OBVIOUS
<1>2. Kept(ops) = Selected(ops, I)
  BY DEF Kept
<1> HIDE DEF I
<1>3. /\ Kept(ops) \in Seq(T)
      /\ \A k \in DOMAIN Kept(ops) : Nth(I, k) \in I /\ Kept(ops)[k] = ops[Nth(I, k)]
      /\ \A n \in I : \E k \in DOMAIN Kept(ops) : Kept(ops)[k] = ops[n]
  <2>1. Kept(ops) \in Seq(T)
    BY <1>1, <1>2, SelectedElements
  <2>2. \A k \in DOMAIN Kept(ops) : Nth(I, k) \in I
    BY <1>1, <1>2, SelectedElements
  <2>3. \A k \in DOMAIN Kept(ops) : Kept(ops)[k] = ops[Nth(I, k)]
    BY <1>1, <1>2, SelectedElements
  <2>4. \A n \in I : \E k \in DOMAIN Kept(ops) : Kept(ops)[k] = ops[n]
    BY <1>1, <1>2, SelectedElements
  <2> QED BY <2>1, <2>2, <2>3, <2>4
<1>4. \A x \in Range(Kept(ops)) : x \in Range(ops) /\ x.ea # 0
  <2> SUFFICES ASSUME NEW k \in DOMAIN Kept(ops)
               PROVE  Kept(ops)[k] \in Range(ops) /\ Kept(ops)[k].ea # 0
    BY DEF Range
  <2>1. PICK n \in I : Kept(ops)[k] = ops[n]
    BY <1>3
  <2>2. n \in DOMAIN ops /\ ops[n].ea # 0
    BY DEF I
  <2> QED BY <2>1, <2>2 DEF Range
<1>5. \A x \in Range(ops) : x.ea # 0 => x \in Range(Kept(ops))
  <2> SUFFICES ASSUME NEW n \in DOMAIN ops, ops[n].ea # 0
               PROVE  ops[n] \in Range(Kept(ops))
    BY DEF Range
  <2>1. n \in I
    BY DEF I
  <2> QED BY <1>3, <2>1 DEF Range
<1> QED BY <1>3, <1>4, <1>5

\* Found puts the operands of the two switches behind one another.
LEMMA FoundIs ==
  ASSUME NEW i \in Instructions, NEW k \in {"r", "w", "prefetch"}
  PROVE  /\ Found(i)[k] \in Seq(Range(Found(i)[k]))
         /\ Range(Found(i)[k]) = Range(ImplicitOps(i)[k]) \cup Range(SpecialOps(i)[k])
<1>1. ImplicitOps(i)[k] \in Seq(Range(ImplicitOps(i)[k]))
  <2>1. \/ ImplicitOps(i)[k] = << >>
        \/ \E x : ImplicitOps(i)[k] = <<x>>
    BY ImplicitOpsAre
  <2> QED BY <2>1, Single, None
<1>2. SpecialOps(i)[k] \in Seq(Range(SpecialOps(i)[k]))
  <2>1. \/ SpecialOps(i)[k] = << >>
        \/ \E x : SpecialOps(i)[k] = <<x>>
        \/ \E access : SpecialOps(i)[k] = Explicit(i, access)
    BY SpecialOpsAre
  <2> QED BY <2>1, Single, None, ExplicitIs
<1>3. Found(i)[k] = ImplicitOps(i)[k] \o SpecialOps(i)[k]
  BY DEF Found
<1> DEFINE a == ImplicitOps(i)[k]
           b == SpecialOps(i)[k]
<1> HIDE DEF a, b
<1>4. a \o b \in Seq(Range(a) \cup Range(b))
  BY <1>1, <1>2, ConcatRange DEF a, b
<1>5. \A x : x \in Range(a \o b) <=> x \in Range(a) \/ x \in Range(b)
  BY <1>1, <1>2, ConcatRange DEF a, b
<1>6. a \o b \in Seq(Range(a \o b))
  BY <1>4, <1>5
<1> QED BY <1>3, <1>5, <1>6 DEF a, b

\* The accesses of one list, in its order.
AccessSet(kind, mode, ops) == {Access(kind, mode, op) : op \in Range(ops)}

LEMMA AccessesOfIs ==
  ASSUME NEW T, NEW ops \in Seq(T), NEW kind, NEW mode
  PROVE  /\ AccessesOf(kind, mode, ops) \in Seq(AccessSet(kind, mode, ops))
         /\ Range(AccessesOf(kind, mode, ops)) = AccessSet(kind, mode, ops)
<1>1. DOMAIN ops = 1 .. Len(ops) /\ Len(ops) \in Nat
  OBVIOUS
<1>2. AccessesOf(kind, mode, ops) = [n \in 1 .. Len(ops) |-> Access(kind, mode, ops[n])]
  BY <1>1 DEF AccessesOf
<1>3. \A n \in 1 .. Len(ops) : Access(kind, mode, ops[n]) \in AccessSet(kind, mode, ops)
  BY <1>1 DEF AccessSet, Range
<1>4. AccessesOf(kind, mode, ops) \in Seq(AccessSet(kind, mode, ops))
  BY <1>1, <1>2, <1>3
<1>5. \A x \in Range(AccessesOf(kind, mode, ops)) : x \in AccessSet(kind, mode, ops)
  BY <1>2, <1>3 DEF Range
<1>6. ASSUME NEW op \in Range(ops)
      PROVE  Access(kind, mode, op) \in Range(AccessesOf(kind, mode, ops))
  <2>1. PICK n \in 1 .. Len(ops) : ops[n] = op
    BY <1>1 DEF Range
  <2>2. n \in DOMAIN AccessesOf(kind, mode, ops) /\ AccessesOf(kind, mode, ops)[n] = Access(kind, mode, op)
    BY <1>2, <2>1
  <2> QED BY <2>2 DEF Range
<1>7. \A x \in AccessSet(kind, mode, ops) : x \in Range(AccessesOf(kind, mode, ops))
  BY <1>6 DEF AccessSet
<1> QED BY <1>4, <1>5, <1>7

CodeFetch(i) == Access("code", "kCodeRead", MemOp(i.regs["rip"], i.ilen))
\* What a commit accesses behind the code fetch
Behind(i) == AccessSet("prefetch", "kRead", Kept(Found(i).prefetch))
             \cup AccessSet("data", "kRead", Kept(Found(i).r))
             \cup AccessSet("data", "kWrite", Kept(Found(i).w))

\* A commit is its code fetch and, behind it, the other accesses.
LEMMA CommitShape ==
  ASSUME NEW i \in Instructions
  PROVE  \E rest \in Seq(Behind(i)) : Commit(i) = <<CodeFetch(i)>> \o rest /\ Range(rest) = Behind(i)
<1> DEFINE p == AccessesOf("prefetch", "kRead", Kept(Found(i).prefetch))
           rd == AccessesOf("data", "kRead", Kept(Found(i).r))
           wr == AccessesOf("data", "kWrite", Kept(Found(i).w))
           P == AccessSet("prefetch", "kRead", Kept(Found(i).prefetch))
           R == AccessSet("data", "kRead", Kept(Found(i).r))
           W == AccessSet("data", "kWrite", Kept(Found(i).w))
<1>1. \A k \in {"r", "w", "prefetch"} : Kept(Found(i)[k]) \in Seq(Range(Found(i)[k]))
  BY FoundIs, KeptIs
<1>2. p \in Seq(P) /\ Range(p) = P
  BY <1>1, AccessesOfIs
<1>3. rd \in Seq(R) /\ Range(rd) = R
  BY <1>1, AccessesOfIs
<1>4. wr \in Seq(W) /\ Range(wr) = W
  BY <1>1, AccessesOfIs
<1>5. Commit(i) = <<CodeFetch(i)>> \o p \o rd \o wr
  BY DEF Commit, CodeFetch
<1>6. Behind(i) = P \cup R \cup W
  BY DEF Behind
<1> HIDE DEF p, rd, wr, P, R, W
<1>7. p \o rd \in Seq(P \cup R) /\ Range(p \o rd) = P \cup R
  <2>1. p \o rd \in Seq(P \cup R)
    BY <1>2, <1>3, ConcatRange
  <2>2. \A x : x \in Range(p \o rd) <=> x \in Range(p) \/ x \in Range(rd)
    BY <1>2, <1>3, ConcatRange
  <2> QED BY <1>2, <1>3, <2>1, <2>2
<1>8. (p \o rd) \o wr \in Seq((P \cup R) \cup W) /\ Range((p \o rd) \o wr) = P \cup R \cup W
  <2>1. PICK pr, PR : pr = p \o rd /\ PR = P \cup R
    OBVIOUS
  <2>2. pr \in Seq(PR) /\ Range(pr) = PR
    BY <1>7, <2>1
  <2>3. /\ pr \o wr \in Seq(PR \cup W)
        /\ \A x : x \in Range(pr \o wr) <=> x \in Range(pr) \/ x \in Range(wr)
    BY <1>4, <2>2, ConcatRange
  <2>4. Range(pr \o wr) = PR \cup W
    BY <1>4, <2>2, <2>3
  <2> QED BY <2>1, <2>3, <2>4
<1>9. <<CodeFetch(i)>> \o p \o rd \o wr = <<CodeFetch(i)>> \o ((p \o rd) \o wr)
  <2> DEFINE A == {CodeFetch(i)} \cup P \cup R \cup W
  <2>1. CodeFetch(i) \in A /\ P \subseteq A /\ R \subseteq A /\ W \subseteq A
    OBVIOUS
  <2> HIDE DEF A
  <2>2. <<CodeFetch(i)>> \in Seq(A)
    BY <2>1
  <2>3. p \in Seq(A) /\ rd \in Seq(A) /\ wr \in Seq(A)
    BY <1>2, <1>3, <1>4, <2>1, SeqMonotonic
  <2> QED BY <2>2, <2>3
<1> QED BY <1>5, <1>6, <1>8, <1>9

LEMMA CommitFacts ==
  ASSUME NEW i \in Instructions
  PROVE  /\ Len(Commit(i)) \in Nat \ {0} /\ DOMAIN Commit(i) = 1 .. Len(Commit(i))
         /\ Commit(i) \in Seq(Range(Commit(i)))
         /\ Commit(i)[1] = CodeFetch(i)
         /\ \A n \in 2 .. Len(Commit(i)) : Commit(i)[n] \in Behind(i)
         /\ \A x : x \in Range(Commit(i)) <=> x = CodeFetch(i) \/ x \in Behind(i)
<1>1. PICK rest \in Seq(Behind(i)) : Commit(i) = <<CodeFetch(i)>> \o rest /\ Range(rest) = Behind(i)
  BY CommitShape
<1> DEFINE c == CodeFetch(i)
<1> HIDE DEF c
<1>2. Commit(i) = <<c>> \o rest
  BY <1>1 DEF c
<1>3. /\ Len(<<c>> \o rest) = 1 + Len(rest)
      /\ (<<c>> \o rest)[1] = c
      /\ DOMAIN (<<c>> \o rest) = 1 .. 1 + Len(rest)
      /\ \A n \in 2 .. 1 + Len(rest) : (<<c>> \o rest)[n] = rest[n - 1] /\ n - 1 \in 1 .. Len(rest)
  BY <1>1
<1>4. Len(rest) \in Nat /\ \A n \in 1 .. Len(rest) : rest[n] \in Behind(i)
  BY <1>1
<1>5. \A x : x \in Range(<<c>> \o rest) <=> x \in Range(<<c>>) \/ x \in Range(rest)
  <2>1. <<c>> \in Seq({c})
    BY Single
  <2> QED BY <1>1, <2>1, ConcatRange
<1>6. \A x : x \in Range(Commit(i)) <=> x = c \/ x \in Behind(i)
  BY <1>1, <1>2, <1>5, Single
<1>7. Commit(i) \in Seq(Range(Commit(i)))
  <2>1. Commit(i) \in Seq({c} \cup Behind(i))
    BY <1>1, <1>2
  <2> QED BY <2>1, OwnRange
<1> QED BY <1>2, <1>3, <1>4, <1>6, <1>7 DEF c

\* An access is of one kind, and only the fetch has the mode of code.
LEMMA KindsOf ==
  ASSUME NEW i \in Instructions, NEW n \in DOMAIN Commit(i)
  PROVE  /\ Commit(i)[n].kind \in {"code", "prefetch", "data"}
         /\ Commit(i)[n].kind = "code" <=> n = 1
         /\ Commit(i)[n].kind = "code" <=> Commit(i)[n].mode = "kCodeRead"
<1>1. n \in 1 .. Len(Commit(i)) /\ Len(Commit(i)) \in Nat
  BY CommitFacts
<1>2. CASE n = 1
  <2>1. Commit(i)[n] = CodeFetch(i)
    BY <1>2, CommitFacts
  <2>2. Commit(i)[n].kind = "code" /\ Commit(i)[n].mode = "kCodeRead"
    BY <2>1 DEF CodeFetch, Access
  <2> QED BY <1>2, <2>2
<1>3. CASE n # 1
  <2>1. Commit(i)[n] \in Behind(i)
    BY <1>1, <1>3, CommitFacts
  <2>2. \E op : Commit(i)[n] \in {Access("prefetch", "kRead", op), Access("data", "kRead", op),
                                 Access("data", "kWrite", op)}
    BY <2>1 DEF Behind, AccessSet
  <2> QED BY <1>3, <2>2 DEF Access
<1> QED BY <1>2, <1>3
-----------------------------------------------------------------------------
(* The commits are calls of the simulator.                                 *)

\* The accesses of the instruction that were made
Done == Len(Commit(insn)) - Len(todo)

\* What is still to be done is the end of the commit, and the call that runs is
\* the next access.
QueueInv ==
  /\ insn \in Instructions /\ stopped \in BOOLEAN /\ m_Stats \in [Counters -> Nat]
  /\ todo # << >> => m_Stats[kInstructionsExecuted] = 1
  /\ m_Stats[kInstructionsExecuted] = 1 =>
       /\ ~Breaks(insn)
       /\ todo \in Seq(Range(Commit(insn))) /\ Done \in 0 .. Len(Commit(insn))
       /\ \A n \in 1 .. Len(todo) : todo[n] = Commit(insn)[Done + n]
  /\ running => todo # << >> /\ req = Request(insn, Head(todo))

LEMMA NextAccess ==
  ASSUME QueueInv, todo # << >>
  PROVE  /\ m_Stats[kInstructionsExecuted] = 1 /\ insn \in Instructions /\ ~Breaks(insn)
         /\ Done \in Nat /\ Done + 1 \in DOMAIN Commit(insn)
         /\ Head(todo) = Commit(insn)[Done + 1]
         /\ Request(insn, Head(todo)) \in Requests
<1>1. /\ m_Stats[kInstructionsExecuted] = 1 /\ insn \in Instructions /\ ~Breaks(insn)
      /\ todo \in Seq(Range(Commit(insn))) /\ Done \in 0 .. Len(Commit(insn))
      /\ \A n \in 1 .. Len(todo) : todo[n] = Commit(insn)[Done + n]
  BY DEF QueueInv
<1>2. Len(Commit(insn)) \in Nat \ {0} /\ DOMAIN Commit(insn) = 1 .. Len(Commit(insn))
  BY <1>1, CommitFacts
<1>3. Len(todo) \in Nat \ {0} /\ Head(todo) = todo[1]
  BY <1>1
<1>4. Done \in Nat /\ Done + 1 \in 1 .. Len(Commit(insn))
  BY <1>1, <1>2, <1>3 DEF Done
<1>5. Head(todo) = Commit(insn)[Done + 1]
  BY <1>1, <1>3
<1>6. Request(insn, Head(todo)) \in Requests
  BY <1>1, <1>2, <1>4, <1>5, CommitAssumption
<1> QED BY <1>1, <1>2, <1>4, <1>5, <1>6

LEMMA StatsType ==
  NothingCounted \in [Counters -> Nat] /\ kInstructionsExecuted \in Counters
  BY DEF NothingCounted, Counters, kD1Hit, kInstructionsExecuted

LEMMA QueueStarts == CommitInit => QueueInv
<1> SUFFICES ASSUME CommitInit
             PROVE  QueueInv
  OBVIOUS
<1>1. insn \in Instructions
  BY InstructionsAssumption DEF CommitInit
<1>2. m_Stats[kInstructionsExecuted] = 0 /\ m_Stats \in [Counters -> Nat]
  BY StatsType DEF CommitInit, NothingCounted
<1>3. todo = << >> /\ stopped = FALSE /\ running = FALSE
  BY DEF CommitInit, Init
<1>4. m_Stats[kInstructionsExecuted] # 1
  BY <1>2
<1> QED BY <1>1, <1>2, <1>3, <1>4 DEF QueueInv

LEMMA DecodeQueues ==
  ASSUME QueueInv, NEW i \in Instructions, Decode(i)
  PROVE  QueueInv'
<1>1. /\ insn' = i /\ stopped' = Breaks(i) /\ running' = running /\ req' = req
      /\ todo' = IF Breaks(i) THEN << >> ELSE Commit(i)
      /\ m_Stats' = [NothingCounted EXCEPT ![kInstructionsExecuted] = IF Breaks(i) THEN 0 ELSE 1]
  BY DEF Decode, vars, loopVars
<1>2. ~running
  BY DEF Decode, Idle, QueueInv
<1>3. m_Stats' \in [Counters -> Nat] /\ m_Stats'[kInstructionsExecuted] = IF Breaks(i) THEN 0 ELSE 1
  BY <1>1, StatsType
<1>4. stopped' \in BOOLEAN
  <2>1. Breaks(i) \in BOOLEAN
    BY DEF Breaks
  <2> QED BY <1>1, <2>1
<1>5. CASE Breaks(i)
  BY <1>1, <1>2, <1>3, <1>4, <1>5 DEF QueueInv
<1>6. CASE ~Breaks(i)
  <2>1. /\ Len(Commit(i)) \in Nat \ {0} /\ DOMAIN Commit(i) = 1 .. Len(Commit(i))
        /\ Commit(i) \in Seq(Range(Commit(i)))
    BY CommitFacts
  <2>2. todo' = Commit(insn') /\ Done' = 0
    BY <1>1, <1>6, <2>1 DEF Done
  <2>3. todo' # << >>
    BY <1>1, <1>6, <2>1
  <2>4. \A n \in 1 .. Len(todo') : todo'[n] = Commit(insn')[Done' + n]
    BY <2>1, <2>2
  <2>5. todo' \in Seq(Range(Commit(insn'))) /\ Done' \in 0 .. Len(Commit(insn'))
    BY <1>1, <2>1, <2>2
  <2> QED BY <1>1, <1>2, <1>3, <1>4, <1>6, <2>3, <2>4, <2>5 DEF QueueInv
<1> QED BY <1>5, <1>6

LEMMA IssueQueues ==
  ASSUME QueueInv, Issue
  PROVE  QueueInv'
<1>1. /\ todo # << >> /\ running' = TRUE /\ req' = Request(insn, Head(todo))
      /\ UNCHANGED <<insn, todo, m_Stats, stopped>>
  BY DEF Issue, Call, commitVars
<1>2. Done' = Done
  BY <1>1 DEF Done
<1> QED BY <1>1, <1>2 DEF QueueInv

LEMMA CountQueues ==
  ASSUME LoopTypeOK, QueueInv, Count
  PROVE  QueueInv' /\ Done' = Done + 1 /\ todo # << >>
<1>1. /\ running /\ running' = FALSE
      /\ m_Stats' = [n \in Counters |-> m_Stats[n] + IF n \in Counter(Head(todo).kind) THEN 1 ELSE 0]
      /\ todo' = Tail(todo) /\ insn' = insn /\ stopped' = stopped
  BY DEF Count, Return
<1>2. todo # << >> /\ m_Stats[kInstructionsExecuted] = 1 /\ insn \in Instructions /\ ~Breaks(insn)
  BY <1>1 DEF QueueInv
<1>3. /\ todo \in Seq(Range(Commit(insn))) /\ Done \in 0 .. Len(Commit(insn))
      /\ \A n \in 1 .. Len(todo) : todo[n] = Commit(insn)[Done + n]
      /\ m_Stats \in [Counters -> Nat] /\ stopped \in BOOLEAN
  BY <1>2 DEF QueueInv
<1>4. Len(Commit(insn)) \in Nat
  BY <1>2, CommitFacts
<1>5. /\ Tail(todo) \in Seq(Range(Commit(insn))) /\ Len(Tail(todo)) = Len(todo) - 1
      /\ Len(todo) \in Nat \ {0}
      /\ \A n \in 1 .. Len(Tail(todo)) : Tail(todo)[n] = todo[n + 1]
  BY <1>2, <1>3
<1>6. Done' = Done + 1 /\ Done' \in 0 .. Len(Commit(insn))
  BY <1>1, <1>3, <1>4, <1>5 DEF Done
<1>7. \A n \in 1 .. Len(todo') : todo'[n] = Commit(insn')[Done' + n]
  <2> SUFFICES ASSUME NEW n \in 1 .. Len(Tail(todo))
               PROVE  Tail(todo)[n] = Commit(insn)[Done + 1 + n]
    BY <1>1, <1>6
  <2>1. n + 1 \in 1 .. Len(todo) /\ Tail(todo)[n] = todo[n + 1]
    BY <1>5
  <2>2. todo[n + 1] = Commit(insn)[Done + (n + 1)] /\ Done + (n + 1) = Done + 1 + n
    BY <1>3, <1>4, <2>1
  <2> QED BY <2>1, <2>2
<1>8. m_Stats' \in [Counters -> Nat]
  BY <1>1, <1>3
<1>9. m_Stats'[kInstructionsExecuted] = 1
  <2>1. kInstructionsExecuted \notin Counter(Head(todo).kind)
    <3>1. r # kInstructionsExecuted
      BY DEF LoopTypeOK, AccessResult, kD1Hit, kL2DMiss, kInstructionsExecuted
    <3>2. kPrefetchHitD1 # kInstructionsExecuted /\ kPrefetchHitL2 # kInstructionsExecuted
      BY DEF kPrefetchHitD1, kPrefetchHitL2, kInstructionsExecuted
    <3>3. Counter(Head(todo).kind) \in {{r}, {kPrefetchHitD1}, {kPrefetchHitL2}, {}}
      BY DEF Counter
    <3> QED BY <3>1, <3>2, <3>3
  <2> QED BY <1>1, <1>2, <1>3, <2>1, StatsType
<1> QED BY <1>1, <1>2, <1>3, <1>5, <1>6, <1>7, <1>8, <1>9 DEF QueueInv

LEMMA QueuePreserved == LoopTypeOK /\ QueueInv /\ [CommitNext]_allVars => QueueInv'
<1> SUFFICES ASSUME LoopTypeOK, QueueInv, [CommitNext]_allVars
             PROVE  QueueInv'
  OBVIOUS
<1>1. ASSUME NEW i \in Instructions, Decode(i)
      PROVE  QueueInv'
  BY <1>1, DecodeQueues
<1>2. CASE Issue
  BY <1>2, IssueQueues
<1>3. CASE Trip \/ ResetUnderCommit \/ UNCHANGED allVars
  <2>1. UNCHANGED <<insn, todo, m_Stats, stopped, running, req>>
    BY <1>3 DEF Trip, LoopStep, ResetUnderCommit, Reset, commitVars, allVars, vars, loopVars
  <2>2. Done' = Done
    BY <2>1 DEF Done
  <2> QED BY <2>1, <2>2 DEF QueueInv
<1>4. CASE Count
  BY <1>4, CountQueues
<1> QED BY <1>1, <1>2, <1>3, <1>4 DEF CommitNext

\* What is proved of the simulator holds under the commits of the recorder:
\* every step of a commit is a step of the simulator or leaves it alone, and
\* every call that a commit makes is one the simulator may be called with.
THEOREM CommitImplements == CommitSpec => Spec
<1>1. CommitInit => Init /\ QueueInv /\ LoopTypeOK
  BY LoopTypeStarts, QueueStarts DEF CommitInit
<1>2. QueueInv /\ [CommitNext]_allVars => [Next]_vars
  <2> SUFFICES ASSUME QueueInv, [CommitNext]_allVars
               PROVE  [Next]_vars
    OBVIOUS
  <2>1. ASSUME NEW i \in Instructions, Decode(i)
        PROVE  [Next]_vars
    BY <2>1 DEF Decode
  <2>2. CASE Issue
    BY <2>2, NextAccess DEF Issue, Next
  <2>3. CASE Trip \/ Count \/ ResetUnderCommit \/ UNCHANGED allVars
    BY <2>3 DEF Trip, Count, ResetUnderCommit, allVars, Next
  <2> QED BY <2>1, <2>2, <2>3 DEF CommitNext
<1>3. LoopTypeOK /\ [Next]_vars => LoopTypeOK'
  BY LoopTypePreserved
<1> QED BY <1>1, <1>2, <1>3, QueuePreserved, PTL DEF CommitSpec, Spec

\* So the caches stay well formed under the commits of all cores, no hit on an
\* overwritten line is counted, and every access touches all of its lines.
THEOREM CommitSafe == CommitSpec => [](TypeOK /\ CachesWellFormed /\ NoStaleHit /\ CoversTheAccess)
  BY CommitImplements, TypeCorrect, SimulatorSafe, CoversTheAccessThere, PTL

\* What is still to be done is what is left of the commit.
THEOREM QueueInvariant == CommitSpec => []QueueInv
  BY CommitImplements, LoopTypeCorrect, QueueStarts, QueuePreserved, PTL DEF CommitSpec
-----------------------------------------------------------------------------
(* Every access is counted once.                                           *)

DoneOf(kind) == {n \in 1 .. Done : Commit(insn)[n].kind = kind}

CodeCount == m_Stats[kI1Hit] + m_Stats[kL2IMiss]
DataCount == m_Stats[kD1Hit] + m_Stats[kL2DMiss]
PrefetchCount == m_Stats[kPrefetchHitD1] + m_Stats[kPrefetchHitL2]

\* The counters agree with the accesses made so far.
CountInv ==
  m_Stats[kInstructionsExecuted] = 1 =>
    /\ CodeCount <= Cardinality(DoneOf("code"))
    /\ DataCount <= Cardinality(DoneOf("data"))
    /\ CodeCount + DataCount + m_Stats[kL2Hit] = Cardinality(DoneOf("code")) + Cardinality(DoneOf("data"))
    /\ PrefetchCount <= Cardinality(DoneOf("prefetch"))

LEMMA DoneTypes ==
  ASSUME QueueInv, NEW kind
  PROVE  IsFiniteSet(DoneOf(kind)) /\ Cardinality(DoneOf(kind)) \in Nat
<1>1. CASE Done \in Int
  <2>1. IsFiniteSet(1 .. Done)
    BY <1>1, FS_Interval
  <2>2. DoneOf(kind) \in SUBSET (1 .. Done)
    BY DEF DoneOf
  <2>3. IsFiniteSet(DoneOf(kind))
    BY <2>1, <2>2, FS_Subset
  <2> QED BY <2>3, FS_CardinalityType
<1>2. Done \in Int
  <2>1. Len(Commit(insn)) \in Nat
    BY CommitFacts DEF QueueInv
  <2>2. Len(todo) \in Nat
    <3>1. CASE todo = << >>
      BY <3>1
    <3>2. CASE todo # << >>
      BY <3>2 DEF QueueInv
    <3> QED BY <3>1, <3>2
  <2> QED BY <2>1, <2>2 DEF Done
<1> QED BY <1>1, <1>2

\* One more access is done: of its kind there is one more, of the others not.
LEMMA DoneGrows ==
  ASSUME QueueInv, QueueInv', todo # << >>, Done' = Done + 1, insn' = insn, NEW kind
  PROVE  Cardinality(DoneOf(kind))' =
           Cardinality(DoneOf(kind)) + IF Head(todo).kind = kind THEN 1 ELSE 0
<1>1. Done \in Nat /\ Head(todo) = Commit(insn)[Done + 1]
  BY NextAccess
<1>2. IsFiniteSet(DoneOf(kind)) /\ Cardinality(DoneOf(kind)) \in Nat
  BY DoneTypes
<1>3. CASE Head(todo).kind = kind
  <2>1. DoneOf(kind)' = DoneOf(kind) \cup {Done + 1}
    BY <1>1, <1>3 DEF DoneOf
  <2>2. Done + 1 \notin DoneOf(kind)
    BY <1>1 DEF DoneOf
  <2>3. Cardinality(DoneOf(kind) \cup {Done + 1}) = Cardinality(DoneOf(kind)) + 1
    BY <1>2, <2>2, FS_AddElement
  <2> QED BY <1>3, <2>1, <2>3
<1>4. CASE Head(todo).kind # kind
  <2>1. DoneOf(kind)' = DoneOf(kind)
    BY <1>1, <1>4 DEF DoneOf
  <2> QED BY <1>2, <1>4, <2>1
<1> QED BY <1>3, <1>4

LEMMA CountersDiffer ==
  /\ kD1Hit = 0 /\ kI1Hit = 1 /\ kL2Hit = 2 /\ kL2IMiss = 3 /\ kL2DMiss = 4
  /\ kPrefetchHitD1 = 5 /\ kPrefetchHitL2 = 6 /\ kInstructionsExecuted = 7
  /\ Counters = 0 .. 7
  BY DEF kD1Hit, kI1Hit, kL2Hit, kL2IMiss, kL2DMiss, kPrefetchHitD1, kPrefetchHitL2,
         kInstructionsExecuted, Counters

\* What a return adds to the counters, by the kind of the access.
LEMMA CountAdds ==
  ASSUME QueueInv, ResultMatchesMode, Count
  PROVE  /\ Head(todo).kind \in {"code", "data", "prefetch"}
         /\ Head(todo).kind = "code" =>
              \/ CodeCount' = CodeCount + 1 /\ m_Stats'[kL2Hit] = m_Stats[kL2Hit]
              \/ CodeCount' = CodeCount /\ m_Stats'[kL2Hit] = m_Stats[kL2Hit] + 1
         /\ Head(todo).kind = "data" =>
              \/ DataCount' = DataCount + 1 /\ m_Stats'[kL2Hit] = m_Stats[kL2Hit]
              \/ DataCount' = DataCount /\ m_Stats'[kL2Hit] = m_Stats[kL2Hit] + 1
         /\ Head(todo).kind = "prefetch" => PrefetchCount' <= PrefetchCount + 1
         /\ Head(todo).kind = "prefetch" => m_Stats'[kL2Hit] = m_Stats[kL2Hit]
         /\ Head(todo).kind # "code" => CodeCount' = CodeCount
         /\ Head(todo).kind # "data" => DataCount' = DataCount
         /\ Head(todo).kind # "prefetch" => PrefetchCount' = PrefetchCount
<1> DEFINE kind == Head(todo).kind
           C == Counter(kind)
<1>1. /\ running /\ Returning /\ req = Request(insn, Head(todo)) /\ todo # << >>
      /\ m_Stats' = [n \in Counters |-> m_Stats[n] + IF n \in C THEN 1 ELSE 0]
      /\ m_Stats \in [Counters -> Nat]
  BY DEF Count, Return, Returning, QueueInv
<1>2. /\ insn \in Instructions /\ Done + 1 \in DOMAIN Commit(insn)
      /\ Head(todo) = Commit(insn)[Done + 1]
  BY <1>1, NextAccess
<1>3. kind \in {"code", "data", "prefetch"} /\ (kind = "code" <=> Head(todo).mode = "kCodeRead")
  BY <1>2, KindsOf
<1>4. req.mode = Head(todo).mode
  BY <1>1 DEF Request
<1>5. r \in IF kind = "code" THEN {1, 2, 3} ELSE {0, 2, 4}
  BY <1>1, <1>3, <1>4, CountersDiffer DEF ResultMatchesMode
<1>6. C = IF kind # "prefetch" THEN {r} ELSE IF r = 0 THEN {5} ELSE IF r = 2 THEN {6} ELSE {}
  BY CountersDiffer DEF Counter
<1> HIDE DEF C, kind
<1>7. \A n \in 0 .. 7 : m_Stats[n] \in Nat /\ m_Stats'[n] = m_Stats[n] + IF n \in C THEN 1 ELSE 0
  BY <1>1, CountersDiffer
<1>8. /\ CodeCount = m_Stats[1] + m_Stats[3] /\ DataCount = m_Stats[0] + m_Stats[4]
      /\ PrefetchCount = m_Stats[5] + m_Stats[6]
      /\ CodeCount' = m_Stats'[1] + m_Stats'[3] /\ DataCount' = m_Stats'[0] + m_Stats'[4]
      /\ PrefetchCount' = m_Stats'[5] + m_Stats'[6] /\ kL2Hit = 2
  BY CountersDiffer DEF CodeCount, DataCount, PrefetchCount
<1>9. CASE kind = "code"
  <2>1. r \in {1, 2, 3} /\ C = {r}
    BY <1>5, <1>6, <1>9
  <2> QED BY <1>7, <1>8, <1>9, <2>1 DEF kind
<1>10. CASE kind = "data"
  <2>1. r \in {0, 2, 4} /\ C = {r}
    BY <1>5, <1>6, <1>10
  <2> QED BY <1>7, <1>8, <1>10, <2>1 DEF kind
<1>11. CASE kind = "prefetch"
  <2>1. C = {5} \/ C = {6} \/ C = {}
    BY <1>6, <1>11
  <2> QED BY <1>7, <1>8, <1>11, <2>1 DEF kind
<1> QED BY <1>3, <1>9, <1>10, <1>11

LEMMA CountPreserved ==
  LoopTypeOK /\ QueueInv /\ QueueInv' /\ CountInv /\ ResultMatchesMode /\ [CommitNext]_allVars => CountInv'
<1> SUFFICES ASSUME LoopTypeOK, QueueInv, QueueInv', CountInv, ResultMatchesMode, [CommitNext]_allVars
             PROVE  CountInv'
  OBVIOUS
<1>1. ASSUME NEW i \in Instructions, Decode(i)
      PROVE  CountInv'
  <2> SUFFICES ASSUME m_Stats'[kInstructionsExecuted] = 1
               PROVE  CountInv'
    BY DEF CountInv
  <2>1. ~Breaks(i) /\ m_Stats' = [NothingCounted EXCEPT ![kInstructionsExecuted] = 1]
        /\ todo' = Commit(i) /\ insn' = i
    <3>1. m_Stats' = [NothingCounted EXCEPT ![kInstructionsExecuted] = IF Breaks(i) THEN 0 ELSE 1]
      BY <1>1 DEF Decode
    <3>2. m_Stats'[kInstructionsExecuted] = IF Breaks(i) THEN 0 ELSE 1
      BY <3>1, StatsType
    <3>3. ~Breaks(i)
      BY <3>2
    <3> QED BY <1>1, <3>1, <3>3 DEF Decode
  <2>2. \A n \in 0 .. 6 : m_Stats'[n] = 0
    BY <2>1, CountersDiffer DEF NothingCounted
  <2>3. Done' = 0
    BY <2>1, CommitFacts DEF Done
  <2>4. \A kind : DoneOf(kind)' = {}
    BY <2>3 DEF DoneOf
  <2>5. Cardinality(DoneOf("code"))' = 0 /\ Cardinality(DoneOf("data"))' = 0 /\ Cardinality(DoneOf("prefetch"))' = 0
    BY <2>4, FS_EmptySet
  <2>6. /\ CodeCount' = 0 /\ DataCount' = 0 /\ PrefetchCount' = 0 /\ m_Stats'[kL2Hit] = 0
    BY <2>2, CountersDiffer DEF CodeCount, DataCount, PrefetchCount
  <2> QED BY <2>5, <2>6 DEF CountInv
<1>2. CASE Issue \/ Trip \/ ResetUnderCommit \/ UNCHANGED allVars
  <2>1. UNCHANGED <<insn, todo, m_Stats>>
    BY <1>2 DEF Issue, Trip, ResetUnderCommit, allVars, commitVars
  <2>2. Done' = Done
    BY <2>1 DEF Done
  <2>3. \A kind : DoneOf(kind)' = DoneOf(kind)
    BY <2>1, <2>2 DEF DoneOf
  <2> QED BY <2>1, <2>3 DEF CountInv, CodeCount, DataCount, PrefetchCount
<1>3. CASE Count
  <2>1. Done' = Done + 1 /\ todo # << >> /\ insn' = insn
    BY <1>3, CountQueues DEF Count
  <2> DEFINE code == Cardinality(DoneOf("code"))
             data == Cardinality(DoneOf("data"))
             prefetch == Cardinality(DoneOf("prefetch"))
             kind == Head(todo).kind
  <2>2. /\ code \in Nat /\ code' = code + IF kind = "code" THEN 1 ELSE 0
        /\ data \in Nat /\ data' = data + IF kind = "data" THEN 1 ELSE 0
        /\ prefetch \in Nat /\ prefetch' = prefetch + IF kind = "prefetch" THEN 1 ELSE 0
    BY <2>1, DoneGrows, DoneTypes
  <2>3. m_Stats[kInstructionsExecuted] = 1
    BY <2>1, NextAccess
  <2>4. /\ CodeCount <= code /\ DataCount <= data /\ PrefetchCount <= prefetch
        /\ CodeCount + DataCount + m_Stats[kL2Hit] = code + data
    BY <2>3 DEF CountInv
  <2>5. CodeCount \in Nat /\ DataCount \in Nat /\ PrefetchCount \in Nat /\ m_Stats[kL2Hit] \in Nat
    <3>1. \A n \in 0 .. 7 : m_Stats[n] \in Nat
      BY CountersDiffer DEF QueueInv
    <3> QED BY <3>1, CountersDiffer DEF CodeCount, DataCount, PrefetchCount
  <2>6. CodeCount' \in Nat /\ DataCount' \in Nat /\ PrefetchCount' \in Nat /\ m_Stats'[kL2Hit] \in Nat
    <3>1. \A n \in 0 .. 7 : m_Stats'[n] \in Nat
      BY CountersDiffer DEF QueueInv
    <3> QED BY <3>1, CountersDiffer DEF CodeCount, DataCount, PrefetchCount
  <2> HIDE DEF code, data, prefetch, kind
  <2>7. /\ CodeCount' <= code' /\ DataCount' <= data' /\ PrefetchCount' <= prefetch'
        /\ CodeCount' + DataCount' + m_Stats'[kL2Hit] = code' + data'
    <3>1. CASE kind = "code"
      <4>1. /\ \/ CodeCount' = CodeCount + 1 /\ m_Stats'[kL2Hit] = m_Stats[kL2Hit]
               \/ CodeCount' = CodeCount /\ m_Stats'[kL2Hit] = m_Stats[kL2Hit] + 1
            /\ DataCount' = DataCount /\ PrefetchCount' = PrefetchCount
        BY <1>3, <3>1, CountAdds DEF kind
      <4>2. code' = code + 1 /\ data' = data /\ prefetch' = prefetch
        BY <2>2, <3>1
      <4>3. code \in Nat /\ data \in Nat /\ prefetch \in Nat
        BY <2>2
      <4>4. CASE CodeCount' = CodeCount + 1 /\ m_Stats'[kL2Hit] = m_Stats[kL2Hit]
        BY <2>4, <2>5, <4>1, <4>2, <4>3, <4>4
      <4>5. CASE CodeCount' = CodeCount /\ m_Stats'[kL2Hit] = m_Stats[kL2Hit] + 1
        BY <2>4, <2>5, <4>1, <4>2, <4>3, <4>5
      <4> QED BY <4>1, <4>4, <4>5
    <3>2. CASE kind = "data"
      <4>1. /\ \/ DataCount' = DataCount + 1 /\ m_Stats'[kL2Hit] = m_Stats[kL2Hit]
               \/ DataCount' = DataCount /\ m_Stats'[kL2Hit] = m_Stats[kL2Hit] + 1
            /\ CodeCount' = CodeCount /\ PrefetchCount' = PrefetchCount
        BY <1>3, <3>2, CountAdds DEF kind
      <4> QED BY <2>2, <2>4, <2>5, <2>6, <3>2, <4>1
    <3>3. CASE kind = "prefetch"
      <4>1. /\ PrefetchCount' <= PrefetchCount + 1 /\ m_Stats'[kL2Hit] = m_Stats[kL2Hit]
            /\ CodeCount' = CodeCount /\ DataCount' = DataCount
        BY <1>3, <3>3, CountAdds DEF kind
      <4> QED BY <2>2, <2>4, <2>5, <2>6, <3>3, <4>1
    <3> QED BY <1>3, <3>1, <3>2, <3>3, CountAdds DEF kind
  <2> QED BY <2>7 DEF CountInv, code, data, prefetch
<1> QED BY <1>1, <1>2, <1>3 DEF CommitNext

LEMMA CountStarts == CommitInit => CountInv
  BY CountersDiffer DEF CommitInit, NothingCounted, CountInv

\* When an instruction is through, its counters add up to its accesses, each of
\* them counted as what it is, for every instruction and every outcome.
THEOREM EveryAccessCountedThere ==
  ASSUME CodeIsBelowTheEnd
  PROVE  CommitSpec => []EveryAccessCounted
<1>1. QueueInv /\ CountInv => EveryAccessCounted
  <2> SUFFICES ASSUME QueueInv, CountInv, Committed
               PROVE  EveryAccessCounted
    BY DEF EveryAccessCounted
  <2> DEFINE C == Commit(insn)
  <2>1. /\ todo = << >> /\ insn \in Instructions /\ ~Breaks(insn)
        /\ m_Stats[kInstructionsExecuted] = 1
    BY DEF Committed, Idle, QueueInv
  <2>2. Len(C) \in Nat \ {0} /\ DOMAIN C = 1 .. Len(C)
    BY <2>1, CommitFacts
  <2>3. 1 .. Done = DOMAIN C
    BY <2>1, <2>2 DEF Done
  <2>4. \A kind : DoneOf(kind) = {n \in DOMAIN C : C[n].kind = kind}
    BY <2>3 DEF DoneOf
  <2>5. DoneOf("code") = {1}
    BY <2>1, <2>2, <2>4, KindsOf
  <2>6. Cardinality(DoneOf("code")) = 1
    BY <2>5, FS_Singleton
  <2>7. OfKind("data") = Cardinality(DoneOf("data")) /\ OfKind("prefetch") = Cardinality(DoneOf("prefetch"))
    BY <2>4 DEF OfKind
  <2>8. ASSUME NEW a \in Range(C), a.kind = "data"
        PROVE  a.size > 0 /\ 2 * a.addr < AddrSpace
    <3>1. a \in Behind(insn)
      <4>1. CodeFetch(insn).kind = "code"
        BY DEF CodeFetch, Access
      <4>2. a = CodeFetch(insn) \/ a \in Behind(insn)
        BY <2>1, CommitFacts
      <4> QED BY <2>8, <4>1, <4>2
    <3>2. PICK op \in Range(Kept(Found(insn).r)) \cup Range(Kept(Found(insn).w)) :
            a.addr = op.ea /\ a.size = op.sz
      BY <2>8, <3>1 DEF Behind, AccessSet, Access
    <3>3. op \in Asserted(insn)
      <4>1. \A k \in {"r", "w"} : Found(insn)[k] \in Seq(Range(Found(insn)[k]))
        BY <2>1, FoundIs
      <4>2. \A k \in {"r", "w"} : Range(Kept(Found(insn)[k])) \subseteq Range(Found(insn)[k])
        BY <4>1, KeptIs
      <4> QED BY <3>2, <4>2 DEF Asserted
    <3>4. op.sz # 0 /\ ~(2 * op.ea >= AddrSpace)
      BY <2>1, <3>3 DEF Breaks
    <3>5. PICK n \in DOMAIN C : C[n] = a
      BY DEF Range
    <3>6. Request(insn, a) \in Requests
      BY <2>1, <3>5, CommitAssumption
    <3>7. a.size \in Nat /\ a.addr \in Nat
      BY <3>6, RequestFields, AddrSpaceAssumption DEF Request
    <3> QED BY <3>2, <3>4, <3>7, AddrSpaceAssumption
  <2> QED BY <2>1, <2>6, <2>7, <2>8 DEF CountInv, EveryAccessCounted, CodeCount, DataCount, PrefetchCount
<1> QED
  BY <1>1, CommitImplements, LoopTypeCorrect, ResultMatchesModeThere, QueueInvariant, CountStarts, CountPreserved,
     PTL DEF CommitSpec
-----------------------------------------------------------------------------
(* What is committed is what the processor does.                           *)

\* A multiple of the modulus makes no difference.
LEMMA ModShift ==
  ASSUME NEW n \in Nat \ {0}, NEW y \in Int, NEW k \in Int
  PROVE  (y + n * k) % n = y % n
<1> DEFINE z == y + n * k
           p == y \div n
           s == y % n
           q == z \div n
           t == z % n
<1>1. n * k \in Int /\ z \in Int
  OBVIOUS
<1>2. p \in Int /\ s \in 0 .. n - 1 /\ y = n * p + s
  OBVIOUS
<1>3. q \in Int /\ t \in 0 .. n - 1 /\ z = n * q + t
  <2> HIDE DEF z
  <2> QED BY <1>1
<1> HIDE DEF p, s, q, t
<1>4. n * (p + k - q) = t - s
  <2>1. n * p + s + n * k = n * q + t
    BY <1>2, <1>3
  <2>2. n * (p + k - q) = n * p + n * k - n * q
    BY <1>2, <1>3
  <2>3. n * p \in Int /\ n * q \in Int
    BY <1>2, <1>3
  <2> QED BY <1>1, <1>2, <1>3, <2>1, <2>2, <2>3
<1> DEFINE d == p + k - q
<1>5. d \in Int
  BY <1>2, <1>3
<1>6. n * d = t - s
  BY <1>4
<1> HIDE DEF d
<1>7. d = 0
  <2>1. CASE d >= 1
    <3>1. n * d >= n
      BY <1>5, <2>1
    <3> QED BY <1>2, <1>3, <1>6, <3>1
  <2>2. CASE d <= -1
    <3>1. n * d <= -n
      BY <1>5, <2>2
    <3> QED BY <1>2, <1>3, <1>6, <3>1
  <2> QED BY <1>5, <2>1, <2>2
<1>8. t = s
  BY <1>2, <1>3, <1>6, <1>7
<1> QED BY <1>8 DEF t, s

LEMMA ModPlus ==
  ASSUME NEW n \in Nat \ {0}, NEW x \in Int, NEW s \in Int
  PROVE  ((x % n) + s) % n = (x + s) % n
<1> DEFINE q == x \div n
           y == (x % n) + s
           w == x % n
<1>1. q \in Int /\ x = n * q + w /\ w \in Int
  OBVIOUS
<1> HIDE DEF q, w
<1>2. n * q \in Int
  BY <1>1
<1>3. x + s = y + n * q /\ y \in Int
  BY <1>1, <1>2 DEF w
<1> HIDE DEF q, y
<1>4. (y + n * q) % n = y % n
  BY <1>1, <1>3, ModShift
<1> QED BY <1>3, <1>4 DEF y

\* What is below the smaller modulus is the same modulo both.
LEMMA SmallerMod ==
  ASSUME NEW n \in Nat \ {0}, NEW h \in Nat \ {0}, n % h = 0, NEW x \in Int, x % n < h
  PROVE  x % h = x % n
<1> DEFINE q == x \div n
           w == x % n
           k == n \div h
<1>1. q \in Int /\ w \in 0 .. n - 1 /\ x = n * q + w
  OBVIOUS
<1>2. k \in Int /\ n = h * k
  <2>1. k \in Nat /\ n = h * k + (n % h)
    BY DivMod
  <2> HIDE DEF k
  <2>2. h * k \in Nat
    BY <2>1
  <2> QED BY <2>1, <2>2
<1>3. w < h
  OBVIOUS
<1> HIDE DEF q, w, k
<1>4. n * q = h * (k * q) /\ k * q \in Int
  <2>1. \A a, b, c \in Int : (a * b) * c = a * (b * c) /\ b * c \in Int
    OBVIOUS
  <2> QED BY <1>1, <1>2, <2>1
<1>5. x = w + h * (k * q)
  BY <1>1, <1>4
<1>6. (w + h * (k * q)) % h = w % h
  <2> DEFINE j == k * q
  <2>1. j \in Int /\ w \in Int
    BY <1>1, <1>4
  <2> HIDE DEF j
  <2>2. (w + h * j) % h = w % h
    BY <2>1, ModShift
  <2> QED BY <2>2 DEF j
<1>7. w % h = w
  BY <1>1, <1>3
<1> QED BY <1>5, <1>6, <1>7 DEF w

\* A register of an address other than RIP, that is whole or whose half is not
\* negative, is read as it is.
LEMMA SameRegister ==
  ASSUME NEW i \in Instructions, NEW reg,
         reg.name # "none" => reg.name \in DOMAIN i.regs \ {"rip"} /\ reg.space = i.space,
         i.space = AddrSpace \/ 2 * ProcessorValue(reg, i) < i.space
  PROVE  RegValue(reg, i.regs) = ProcessorValue(reg, i) /\ ProcessorValue(reg, i) \in Nat
<1>1. CASE reg.name = "none"
  BY <1>1 DEF RegValue, ProcessorValue
<1>2. CASE reg.name # "none"
  <2> DEFINE v == i.regs[reg.name]
  <2>1. v \in 0 .. AddrSpace - 1 /\ AddrSpace \in Nat \ {0} /\ HalfSpace \in Nat \ {0}
    BY <1>2, InstructionsAssumption, AddrSpaceAssumption, WordAssumption
  <2>2. i.space \in {AddrSpace, HalfSpace}
    BY InstructionsAssumption DEF Disassembled
  <2>3. ProcessorValue(reg, i) = v % i.space
    BY <1>2 DEF ProcessorValue
  <2>4. RegValue(reg, i.regs) = SignExtended(v, i.space)
    BY <1>2 DEF RegValue, ReadReg
  <2> HIDE DEF v
  <2>5. v % i.space \in Nat
    BY <2>1, <2>2
  <2>6. SignExtended(v, i.space) = v % i.space
    <3>1. CASE i.space = AddrSpace
      BY <2>1, <2>5, <3>1 DEF SignExtended
    <3>2. CASE i.space # AddrSpace
      BY <2>3, <3>2 DEF SignExtended
    <3> QED BY <3>1, <3>2
  <2> QED BY <2>3, <2>4, <2>5, <2>6
<1> QED BY <1>1, <1>2

\* Exact operands are at the same address for the recorder and the processor.
LEMMA SameEa ==
  ASSUME NEW i \in Instructions, NEW n \in DOMAIN i.operands, i.operands[n].mem, Exact(i.operands[n], i)
  PROVE  ComputeEa(i.operands[n], i) = ProcessorEa(i.operands[n], i)
<1> DEFINE op == i.operands[n]
           times == IF op.scale = 0 THEN 1 ELSE op.scale
           base == ProcessorValue(op.base, i)
           index == ProcessorValue(op.index, i)
           disp == SignExtended(op.lval, op.offset)
           x == disp + base + times * index
           seg == SegmentBase[i.seg]
<1>1. /\ op.lval \in Int /\ op.offset \in Nat \ {0} /\ op.scale \in Nat
      /\ op.base.name \in DOMAIN i.regs \cup {"none"}
      /\ op.index.name \in (DOMAIN i.regs \cup {"none"}) \ {"rip"}
      /\ op.base.name # "none" => op.base.space = i.space
      /\ op.index.name # "none" => op.index.space = i.space
      /\ i.space \in {AddrSpace, HalfSpace}
      /\ seg \in 0 .. AddrSpace - 1
  BY InstructionsAssumption DEF Disassembled
<1>2. /\ op.base.name # "rip"
      /\ i.space = AddrSpace \/ 2 * base < i.space
      /\ i.space = AddrSpace \/ 2 * index < i.space
      /\ x % AddrSpace < i.space
  BY DEF Exact, ProcessorSum
<1>3. AddrSpace \in Nat \ {0} /\ HalfSpace \in Nat \ {0} /\ AddrSpace % HalfSpace = 0
  BY AddrSpaceAssumption, WordAssumption
<1>4. RegValue(op.base, i.regs) = base /\ base \in Nat
  BY <1>1, <1>2, SameRegister
<1>5. RegValue(op.index, i.regs) = index /\ index \in Nat
  BY <1>1, <1>2, SameRegister
<1>6. disp \in Int /\ times \in Nat
  BY <1>1, <1>3 DEF SignExtended
<1>7. ComputeEa(op, i) = (x + seg) % AddrSpace
  BY <1>4, <1>5 DEF ComputeEa
<1>8. ProcessorEa(op, i) = ((x % i.space) + seg) % AddrSpace
  BY DEF ProcessorEa, ProcessorSum, Linear
<1> HIDE DEF op, times, base, index, disp, seg
<1>9. times * index \in Nat
  BY <1>5, <1>6
<1>10. x \in Int
  BY <1>4, <1>6, <1>9
<1> HIDE DEF x
<1>11. x % i.space = x % AddrSpace
  <2>1. CASE i.space = AddrSpace
    BY <2>1
  <2>2. CASE i.space = HalfSpace
    <3>1. x % AddrSpace < HalfSpace
      BY <1>2, <2>2
    <3>2. x % HalfSpace = x % AddrSpace
      BY <1>3, <1>10, <3>1, SmallerMod
    <3> QED BY <2>2, <3>2
  <2> QED BY <1>1, <2>1, <2>2
<1>12. ((x % AddrSpace) + seg) % AddrSpace = (x + seg) % AddrSpace
  <2>1. seg \in Int
    BY <1>1
  <2> QED BY <1>3, <1>10, <2>1, ModPlus
<1> QED BY <1>7, <1>8, <1>11, <1>12 DEF op

\* The operands of the loop are some of those the processor reads, or writes,
\* and all of them unless there is one that is read and written.
LEMMA SameOps ==
  ASSUME NEW i \in Instructions, ~Misplaces(i), NEW access \in {"read", "write"}
  PROVE  /\ Range(Explicit(i, {access})) \subseteq ProcessorOps(i, access)
         /\ ~Loses(i) => ProcessorOps(i, access) \subseteq Range(Explicit(i, {access}))
<1> DEFINE I == {n \in DOMAIN i.operands : i.operands[n].mem /\ access \in i.operands[n].access}
           ea(n) == MemOp(ProcessorEa(i.operands[n], i), i.operands[n].size)
<1>1. ExplicitAt(i, {access}) \subseteq I
  BY DEF ExplicitAt
<1>2. ASSUME ~Loses(i)
      PROVE  I \subseteq ExplicitAt(i, {access})
  <2>1. SUFFICES ASSUME NEW n \in I
                 PROVE  i.operands[n].access = {access}
    BY DEF ExplicitAt
  <2> DEFINE a == i.operands[n].access
  <2>2. a \subseteq {"read", "write"} /\ access \in a
    BY InstructionsAssumption DEF Disassembled
  <2>3. a # {"read", "write"}
    BY <1>2 DEF Loses
  <2> HIDE DEF a
  <2>4. a = {access}
    BY <2>2, <2>3
  <2> QED BY <2>4 DEF a
<1>3. \A n \in I : ea(n) = OpAt(i, n)
  <2> SUFFICES ASSUME NEW n \in I
               PROVE  ea(n) = OpAt(i, n)
    OBVIOUS
  <2>1. Exact(i.operands[n], i)
    BY DEF Misplaces
  <2> QED BY <2>1, SameEa DEF OpAt
<1>4. ProcessorOps(i, access) = {ea(n) : n \in I}
  BY DEF ProcessorOps
<1>5. Range(Explicit(i, {access})) = {OpAt(i, n) : n \in ExplicitAt(i, {access})}
  BY ExplicitIs
<1> HIDE DEF I, ea
<1>6. Range(Explicit(i, {access})) \subseteq ProcessorOps(i, access)
  BY <1>1, <1>3, <1>4, <1>5
<1>7. ~Loses(i) => ProcessorOps(i, access) \subseteq Range(Explicit(i, {access}))
  BY <1>2, <1>3, <1>4, <1>5
<1> QED BY <1>6, <1>7

\* String instructions, ret, and those without a case have no operands for the
\* loop.
LEMMA NoOperands ==
  ASSUME NEW i \in Instructions, i.mnemonic \in StringOps \cup NoCaseOps \cup {"ret"},
         NEW access \in {"read", "write"}
  PROVE  Range(Explicit(i, {access})) = {} /\ ProcessorOps(i, access) = {}
<1>1. \A n \in DOMAIN i.operands : ~i.operands[n].mem
  BY InstructionsAssumption DEF Disassembled
<1>2. ExplicitAt(i, {access}) = {}
  BY <1>1 DEF ExplicitAt
<1>3. Range(Explicit(i, {access})) = {}
  <2>1. Range(Explicit(i, {access})) = {OpAt(i, n) : n \in ExplicitAt(i, {access})}
    BY ExplicitIs
  <2> QED BY <1>2, <2>1
<1>4. ProcessorOps(i, access) = {}
  BY <1>1 DEF ProcessorOps
<1> QED BY <1>3, <1>4

\* The first operand of an instruction that takes an address
LEMMA SameFirst ==
  ASSUME NEW i \in Instructions, ~Misplaces(i), i.mnemonic \in AddressOps
  PROVE  ComputeEa(i.operands[1], i) = ProcessorEa(i.operands[1], i)
<1>1. 1 \in DOMAIN i.operands /\ i.operands[1].mem
  BY InstructionsAssumption DEF Disassembled
<1>2. Exact(i.operands[1], i)
  BY <1>1 DEF Misplaces
<1> QED BY <1>1, <1>2, SameEa

\* A string instruction that is not misplaced uses its registers as they are.
LEMMA SameString ==
  ASSUME NEW i \in Instructions, ~Misplaces(i), i.mnemonic \in StringOps
  PROVE  /\ i.mnemonic \in {"lods", "movs"} => Source(i) = MemOp(i.regs["rsi"], i.size)
         /\ Destination(i) = MemOp(i.regs["rdi"], i.size)
<1>1. /\ i.regs["rsi"] \in 0 .. AddrSpace - 1 /\ i.regs["rdi"] \in 0 .. AddrSpace - 1
      /\ i.space \in {AddrSpace, HalfSpace}
  BY InstructionsAssumption DEF Disassembled
<1>2. AddrSpace \in Nat \ {0} /\ HalfSpace \in Nat \ {0}
  BY AddrSpaceAssumption, WordAssumption
<1>3. ~(i.regs["rsi"] >= i.space) /\ ~(i.regs["rdi"] >= i.space)
  BY DEF Misplaces
<1>4. i.regs["rsi"] % i.space = i.regs["rsi"] /\ i.regs["rdi"] % i.space = i.regs["rdi"]
  BY <1>1, <1>2, <1>3
<1>5. ASSUME i.mnemonic \in {"lods", "movs"}
      PROVE  Linear(i.regs["rsi"], i) = i.regs["rsi"]
  <2>1. SegmentBase[i.seg] = 0
    BY <1>5 DEF Misplaces
  <2>2. (i.regs["rsi"] + 0) % AddrSpace = i.regs["rsi"]
    BY <1>1, <1>2
  <2> QED BY <1>4, <2>1, <2>2 DEF Linear
<1> QED BY <1>4, <1>5 DEF Source, Destination

LEMMA ReadsFound ==
  ASSUME NEW i \in Instructions, ~Misplaces(i)
  PROVE  /\ Range(Found(i).r) \subseteq ProcessorReads(i)
         /\ ~Loses(i) => ProcessorReads(i) \subseteq Range(Found(i).r)
<1> DEFINE x == i.mnemonic
           implicit == Range(ImplicitOps(i).r)
           special == Range(SpecialOps(i).r)
<1>1. Range(Found(i).r) = implicit \cup special
  BY FoundIs
<1>2. x \in {"lods", "stos", "movs", "ret", "lea", "nop", "pause", "prefetch", "movnt", "fxsave",
              "fxrstor", "other"} \cup NoCaseOps
  BY InstructionsAssumption DEF Disassembled, Mnemonics, StringOps, StackOps, AddressOps, Misplaces
<1>3. ~Skipped(i)
  BY DEF Misplaces
<1> HIDE DEF implicit, special
<1>4. CASE x \in {"lods", "movs"}
  <2>1. implicit = {MemOp(i.regs["rsi"], i.size)}
    BY <1>4, ImplicitOpsAre, Single DEF implicit
  <2>2. special = {}
    BY <1>4, SpecialOpsAre, NoOperands DEF special, StringOps, NoMemory
  <2>3. ProcessorReads(i) = {Source(i)}
    BY <1>3, <1>4, NoOperands DEF ProcessorReads, ImplicitReads, StringOps
  <2> QED BY <1>1, <1>4, <2>1, <2>2, <2>3, SameString DEF StringOps
<1>5. CASE x = "ret"
  <2>1. implicit = {MemOp(i.regs["rsp"], i.size)}
    BY <1>5, ImplicitOpsAre, Single DEF implicit
  <2>2. special = {}
    BY <1>5, SpecialOpsAre, NoOperands DEF special, NoMemory
  <2>3. ProcessorReads(i) = {MemOp(i.regs["rsp"], i.slot)}
    BY <1>3, <1>5, NoOperands DEF ProcessorReads, ImplicitReads, Popped
  <2>4. i.size = i.slot
    BY <1>5, InstructionsAssumption DEF Disassembled
  <2> QED BY <1>1, <2>1, <2>2, <2>3, <2>4
<1>6. CASE x \in {"lea", "nop", "pause", "prefetch", "movnt", "fxsave"}
  <2>1. implicit = {} /\ special = {}
    BY <1>6, ImplicitOpsAre, SpecialOpsAre, None DEF implicit, special, NoMemory
  <2>2. ProcessorReads(i) = {}
    BY <1>6 DEF ProcessorReads
  <2> QED BY <1>1, <2>1, <2>2
<1>7. CASE x = "fxrstor"
  <2>1. implicit = {}
    BY <1>7, ImplicitOpsAre, None DEF implicit
  <2>2. special = {MemOp(ComputeEa(i.operands[1], i), kFxSize)}
    BY <1>7, SpecialOpsAre, Single DEF special, NoMemory
  <2>3. ProcessorReads(i) = {MemOp(ProcessorEa(i.operands[1], i), kFxSize)}
    BY <1>3, <1>7 DEF ProcessorReads
  <2> QED BY <1>1, <1>7, <2>1, <2>2, <2>3, SameFirst DEF AddressOps
<1>8. CASE x \in {"other", "stos"}
  <2>1. implicit = {}
    BY <1>8, ImplicitOpsAre, None DEF implicit
  <2>2. special = Range(Explicit(i, {"read"}))
    BY <1>8, SpecialOpsAre DEF special, NoMemory
  <2>3. ProcessorReads(i) = ProcessorOps(i, "read")
    BY <1>3, <1>8 DEF ProcessorReads, ImplicitReads
  <2> QED BY <1>1, <2>1, <2>2, <2>3, SameOps
<1>9. CASE x \in NoCaseOps
  <2>1. implicit = {}
    BY <1>9, ImplicitOpsAre, None DEF implicit, NoCaseOps
  <2>2. special = {}
    BY <1>9, SpecialOpsAre, NoOperands DEF special, NoCaseOps, NoMemory
  <2>3. Loses(i)
    BY <1>9 DEF Loses
  <2> QED BY <1>1, <2>1, <2>2, <2>3
<1> QED BY <1>2, <1>4, <1>5, <1>6, <1>7, <1>8, <1>9

LEMMA WritesFound ==
  ASSUME NEW i \in Instructions, ~Misplaces(i)
  PROVE  /\ Range(Found(i).w) \subseteq ProcessorWrites(i)
         /\ ~Loses(i) => ProcessorWrites(i) \subseteq Range(Found(i).w)
<1> DEFINE x == i.mnemonic
           implicit == Range(ImplicitOps(i).w)
           special == Range(SpecialOps(i).w)
<1>1. Range(Found(i).w) = implicit \cup special
  BY FoundIs
<1>2. x \in {"lods", "stos", "movs", "ret", "lea", "nop", "pause", "prefetch", "movnt", "fxsave",
              "fxrstor", "other"} \cup NoCaseOps
  BY InstructionsAssumption DEF Disassembled, Mnemonics, StringOps, StackOps, AddressOps, Misplaces
<1>3. ~Skipped(i)
  BY DEF Misplaces
<1> HIDE DEF implicit, special
<1>4. CASE x \in {"stos", "movs"}
  <2>1. implicit = {MemOp(i.regs["rdi"], i.size)}
    BY <1>4, ImplicitOpsAre, Single DEF implicit
  <2>2. special = {}
    BY <1>4, SpecialOpsAre, NoOperands DEF special, StringOps, NoMemory
  <2>3. ProcessorWrites(i) = {Destination(i)}
    BY <1>3, <1>4, NoOperands DEF ProcessorWrites, ImplicitWrites, StringOps
  <2> QED BY <1>1, <1>4, <2>1, <2>2, <2>3, SameString DEF StringOps
<1>5. CASE x \in {"lea", "nop", "pause", "prefetch", "fxrstor"}
  <2>1. implicit = {} /\ special = {}
    BY <1>5, ImplicitOpsAre, SpecialOpsAre, None DEF implicit, special, NoMemory
  <2>2. ProcessorWrites(i) = {}
    BY <1>5 DEF ProcessorWrites
  <2> QED BY <1>1, <2>1, <2>2
<1>6. CASE x \in {"movnt", "fxsave"}
  <2> DEFINE sz == IF x = "movnt" THEN i.size ELSE kFxSize
  <2>1. implicit = {}
    BY <1>6, ImplicitOpsAre, None DEF implicit
  <2>2. special = {MemOp(ComputeEa(i.operands[1], i), sz)}
    BY <1>6, SpecialOpsAre, Single DEF special, NoMemory
  <2>3. ProcessorWrites(i) = {MemOp(ProcessorEa(i.operands[1], i), sz)}
    BY <1>3, <1>6 DEF ProcessorWrites
  <2> QED BY <1>1, <1>6, <2>1, <2>2, <2>3, SameFirst DEF AddressOps
<1>7. CASE x \in {"other", "lods", "ret"}
  <2>1. implicit = {}
    BY <1>7, ImplicitOpsAre, None DEF implicit
  <2>2. special = Range(Explicit(i, {"write"}))
    BY <1>7, SpecialOpsAre DEF special, NoMemory
  <2>3. ProcessorWrites(i) = ProcessorOps(i, "write")
    BY <1>3, <1>7 DEF ProcessorWrites, ImplicitWrites
  <2> QED BY <1>1, <2>1, <2>2, <2>3, SameOps
<1>8. CASE x \in NoCaseOps
  <2>1. implicit = {}
    BY <1>8, ImplicitOpsAre, None DEF implicit, NoCaseOps
  <2>2. special = {}
    BY <1>8, SpecialOpsAre, NoOperands DEF special, NoCaseOps, NoMemory
  <2>3. Loses(i)
    BY <1>8 DEF Loses
  <2> QED BY <1>1, <2>1, <2>2, <2>3
<1> QED BY <1>2, <1>4, <1>5, <1>6, <1>7, <1>8

\* An operand is an address and a size and nothing else.
LEMMA FoundMemOps ==
  ASSUME NEW i \in Instructions, NEW k \in {"r", "w"}
  PROVE  \A op \in Range(Found(i)[k]) : op = MemOp(op.ea, op.sz)
<1>1. \A a, b : MemOp(a, b).ea = a /\ MemOp(a, b).sz = b
  BY DEF MemOp
<1>2. ASSUME NEW op \in Range(ImplicitOps(i)[k])
      PROVE  \E a, b : op = MemOp(a, b)
  <2>1. \/ ImplicitOps(i)[k] = << >>
        \/ \E a, b : ImplicitOps(i)[k] = <<MemOp(a, b)>>
    BY ImplicitOpsAre
  <2>2. \A a, b : ImplicitOps(i)[k] = <<MemOp(a, b)>> => op = MemOp(a, b)
    BY <1>2, Single
  <2>3. ImplicitOps(i)[k] # << >>
    BY <1>2, None
  <2> QED BY <2>1, <2>2, <2>3
<1>3. ASSUME NEW op \in Range(SpecialOps(i)[k])
      PROVE  \E a, b : op = MemOp(a, b)
  <2>1. \/ SpecialOps(i)[k] = << >>
        \/ \E a, b : SpecialOps(i)[k] = <<MemOp(a, b)>>
        \/ \E access : SpecialOps(i)[k] = Explicit(i, access)
    BY SpecialOpsAre
  <2>2. ASSUME NEW access, SpecialOps(i)[k] = Explicit(i, access)
        PROVE  \E a, b : op = MemOp(a, b)
    BY <1>3, <2>2, ExplicitIs DEF OpAt
  <2>3. \A a, b : SpecialOps(i)[k] = <<MemOp(a, b)>> => op = MemOp(a, b)
    BY <1>3, Single
  <2>4. SpecialOps(i)[k] # << >>
    BY <1>3, None
  <2> QED BY <2>1, <2>2, <2>3, <2>4
<1>4. Range(Found(i)[k]) = Range(ImplicitOps(i)[k]) \cup Range(SpecialOps(i)[k])
  BY FoundIs
<1> QED BY <1>1, <1>2, <1>3, <1>4

\* The data accesses of a commit are the operands found, but for null addresses.
LEMMA DataOfIs ==
  ASSUME NEW i \in Instructions, NEW mode \in {"kRead", "kWrite"}
  PROVE  \A x : x \in DataOf(i, mode) <=>
                  x \in Range(Found(i)[IF mode = "kRead" THEN "r" ELSE "w"]) /\ x.ea # 0
<1> DEFINE k == IF mode = "kRead" THEN "r" ELSE "w"
           A == {a \in Range(Commit(i)) : a.kind = "data" /\ a.mode = mode}
           kept == Range(Kept(Found(i)[k]))
<1>1. k \in {"r", "w"}
  OBVIOUS
<1>2. kept = {op \in Range(Found(i)[k]) : op.ea # 0}
  BY <1>1, FoundIs, KeptIs
<1>3. \A op \in kept : op = MemOp(op.ea, op.sz)
  BY <1>1, <1>2, FoundMemOps
<1>4. \A a : a \in A <=> \E op \in kept : a = Access("data", mode, op)
  <2>1. CodeFetch(i).kind = "code"
    BY DEF CodeFetch, Access
  <2>2. \A kind, md, op : Access(kind, md, op).kind = kind /\ Access(kind, md, op).mode = md
    BY DEF Access
  <2>3. \A a : a \in Behind(i) <=>
          \/ \E op \in Range(Kept(Found(i).prefetch)) : a = Access("prefetch", "kRead", op)
          \/ \E op \in Range(Kept(Found(i).r)) : a = Access("data", "kRead", op)
          \/ \E op \in Range(Kept(Found(i).w)) : a = Access("data", "kWrite", op)
    BY DEF Behind, AccessSet
  <2>4. \A a : a \in A <=> a \in Behind(i) /\ a.kind = "data" /\ a.mode = mode
    BY <2>1, CommitFacts
  <2>5. CASE mode = "kRead"
    BY <2>2, <2>3, <2>4, <2>5
  <2>6. CASE mode = "kWrite"
    BY <2>2, <2>3, <2>4, <2>6
  <2> QED BY <2>5, <2>6
<1>5. \A op : Access("data", mode, op).addr = op.ea /\ Access("data", mode, op).size = op.sz
  BY DEF Access
<1>6. DataOf(i, mode) = {MemOp(a.addr, a.size) : a \in A}
  BY DEF DataOf
<1> HIDE DEF A, kept
<1>7. \A x : x \in DataOf(i, mode) <=> x \in kept
  BY <1>3, <1>4, <1>5, <1>6
<1> QED BY <1>2, <1>7

\* No commit makes a data access that the processor does not make, and none is
\* lost, for every instruction that is not among the excepted ones, which are
\* named one by one.
THEOREM CommitsWhatTheProcessorDoesThere == CommitSpec => []CommitsWhatTheProcessorDoes
<1>1. QueueInv => CommitsWhatTheProcessorDoes
  <2> SUFFICES ASSUME QueueInv, ~Misplaces(insn)
               PROVE  /\ DataOf(insn, "kRead") \subseteq ProcessorReads(insn)
                      /\ DataOf(insn, "kWrite") \subseteq ProcessorWrites(insn)
                      /\ ~Loses(insn) => /\ NotNull(ProcessorReads(insn)) \subseteq DataOf(insn, "kRead")
                                         /\ NotNull(ProcessorWrites(insn)) \subseteq DataOf(insn, "kWrite")
    BY DEF CommitsWhatTheProcessorDoes
  <2>1. insn \in Instructions
    BY DEF QueueInv
  <2>2. \A x : x \in DataOf(insn, "kRead") <=> x \in Range(Found(insn).r) /\ x.ea # 0
    BY <2>1, DataOfIs
  <2>3. \A x : x \in DataOf(insn, "kWrite") <=> x \in Range(Found(insn).w) /\ x.ea # 0
    BY <2>1, DataOfIs
  <2>4. /\ DataOf(insn, "kRead") \subseteq ProcessorReads(insn)
        /\ ~Loses(insn) => NotNull(ProcessorReads(insn)) \subseteq DataOf(insn, "kRead")
    BY <2>1, <2>2, ReadsFound DEF NotNull
  <2>5. /\ DataOf(insn, "kWrite") \subseteq ProcessorWrites(insn)
        /\ ~Loses(insn) => NotNull(ProcessorWrites(insn)) \subseteq DataOf(insn, "kWrite")
    BY <2>1, <2>3, WritesFound DEF NotNull
  <2> QED BY <2>4, <2>5
<1> QED BY <1>1, QueueInvariant, PTL
=============================================================================
