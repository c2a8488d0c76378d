---------------------------- MODULE JaguarModule ----------------------------
(***************************************************************************)
(* The two JaguarModule objects of a JaguarCacheSim (CacheSimInternals.h,  *)
(* CacheSimInternals.cpp): per core a D1 and an I1, per module an L2.      *)
(*                                                                         *)
(* One action is one call of JaguarModule::Access, for one line. The       *)
(* callers serialise these calls with g_Lock, except that Init, called by  *)
(* CacheSimStartCapture without the lock, may come between any two.        *)
(***************************************************************************)
EXTENDS SetData

CONSTANTS
  kCoreCount,
  kD1Ways, kD1Sets, kI1Ways, kI1Sets, kL2Ways, kL2Sets,
  Lines         \* the lines the simulated program uses

ASSUME CoreCountAssumption == kCoreCount \in Nat \ {0}
ASSUME GeometryAssumption ==
  /\ kD1Ways \in Nat \ {0} /\ kD1Sets \in Nat \ {0}
  /\ kI1Ways \in Nat \ {0} /\ kI1Sets \in Nat \ {0}
  /\ kL2Ways \in Nat \ {0} /\ kL2Sets \in Nat \ {0}
ASSUME LinesAssumption == Lines \subseteq Nat

Modules == {0, 1}
Cores == 0 .. kCoreCount - 1
Other(m) == 1 - m

AccessMode == {"kRead", "kCodeRead", "kWrite"}

kD1Hit == 0
kI1Hit == 1
kL2Hit == 2
kL2IMiss == 3
kL2DMiss == 4
AccessResult == kD1Hit .. kL2DMiss

VARIABLES
  m_CoreD1,     \* m_CoreD1[m][c]: the D1 of core c of module m
  m_CoreI1,
  m_Level2,     \* m_Level2[m]
  \* History: who used which line since another core last wrote to it.
  d1Used,       \* d1Used[m][c]: lines core c used as data and no other core
                \*   of its module has written since
  i1Used,       \* i1Used[m][c]: the same for lines fetched as code
  l2Used        \* l2Used[m]: lines module m used and the other module has
                \*   not written since

caches == <<m_CoreD1, m_CoreI1, m_Level2>>
history == <<d1Used, i1Used, l2Used>>
moduleVars == <<m_CoreD1, m_CoreI1, m_Level2, d1Used, i1Used, l2Used>>

Stored == Lines \cup {NoLine}
PerCore(S) == [Modules -> [Cores -> S]]

ModuleTypeOK ==
  /\ m_CoreD1 \in PerCore(Caches(kD1Ways, kD1Sets, Stored))
  /\ m_CoreI1 \in PerCore(Caches(kI1Ways, kI1Sets, Stored))
  /\ m_Level2 \in [Modules -> Caches(kL2Ways, kL2Sets, Stored)]
  /\ d1Used \in PerCore(SUBSET Lines)
  /\ i1Used \in PerCore(SUBSET Lines)
  /\ l2Used \in [Modules -> SUBSET Lines]

ForEachCore(x) == [m \in Modules |-> [c \in Cores |-> x]]

ModuleInit ==
  /\ m_CoreD1 = ForEachCore(EmptyCache(kD1Ways, kD1Sets))
  /\ m_CoreI1 = ForEachCore(EmptyCache(kI1Ways, kI1Sets))
  /\ m_Level2 = [m \in Modules |-> EmptyCache(kL2Ways, kL2Sets)]
  /\ d1Used = ForEachCore({})
  /\ i1Used = ForEachCore({})
  /\ l2Used = [m \in Modules |-> {}]
-----------------------------------------------------------------------------
\* What Access returns: an L1 hit counts only when the L2 also hits. The
\* invalidations that a write makes first do not touch the caches consulted.
Result(m, c, line, mode) ==
  LET code  == mode = "kCodeRead"
      l2Hit == CacheHits(kL2Sets, m_Level2[m], line)
      l1Hit == IF code THEN CacheHits(kI1Sets, m_CoreI1[m][c], line)
                       ELSE CacheHits(kD1Sets, m_CoreD1[m][c], line)
  IN  IF l2Hit /\ l1Hit THEN (IF code THEN kI1Hit ELSE kD1Hit)
      ELSE IF l2Hit THEN kL2Hit
      ELSE IF code THEN kL2IMiss ELSE kL2DMiss

\* Mutant: a write leaves the other cores' L1s alone.
AfterL1NoKick(k, n, l1, m, c, line, writes, serves) ==
  [l1 EXCEPT ![m][c] = IF serves THEN CacheAccess(k, n, @, line) ELSE @]

\* The L1s of kind l1 (k ways, n sets) after core c of module m used the line:
\* a write takes it out of the L1s of the other cores of module m, and the
\* core's own L1 is accessed when it is the one that serves the access.
AfterL1(k, n, l1, m, c, line, writes, serves) ==
  [l1 EXCEPT ![m] =
    [i \in Cores |->
      IF i # c THEN (IF writes THEN CacheInvalidate(k, n, l1[m][i], line)
                               ELSE l1[m][i])
      ELSE IF serves THEN CacheAccess(k, n, l1[m][i], line) ELSE l1[m][i]]]

AfterL2(m, line, writes) ==
  [x \in Modules |->
    IF x = m THEN CacheAccess(kL2Ways, kL2Sets, m_Level2[x], line)
    ELSE IF writes THEN CacheInvalidate(kL2Ways, kL2Sets, m_Level2[x], line)
    ELSE m_Level2[x]]

\* The history of the same step, in terms of who used what and when.
UsedL1(used, m, c, line, writes, serves) ==
  [used EXCEPT ![m] =
    [i \in Cores |->
      IF i = c THEN used[m][i] \cup (IF serves THEN {line} ELSE {})
      ELSE used[m][i] \ (IF writes THEN {line} ELSE {})]]

UsedL2(m, line, writes) ==
  [x \in Modules |-> IF x = m THEN l2Used[x] \cup {line}
                     ELSE l2Used[x] \ (IF writes THEN {line} ELSE {})]

\* JaguarModule::Access
ModuleAccess(m, c, line, mode) ==
  LET writes == mode = "kWrite"
      code   == mode = "kCodeRead"
  IN  /\ m_CoreD1' = AfterL1(kD1Ways, kD1Sets, m_CoreD1, m, c, line, writes, ~code)
      /\ m_CoreI1' = AfterL1(kI1Ways, kI1Sets, m_CoreI1, m, c, line, writes, code)
      /\ m_Level2' = AfterL2(m, line, writes)
      /\ d1Used' = UsedL1(d1Used, m, c, line, writes, ~code)
      /\ i1Used' = UsedL1(i1Used, m, c, line, writes, code)
      /\ l2Used' = UsedL2(m, line, writes)

\* JaguarCacheSim::Init and JaguarModule::Init
ModuleReset ==
  /\ m_CoreD1' = ForEachCore(EmptyCache(kD1Ways, kD1Sets))
  /\ m_CoreI1' = ForEachCore(EmptyCache(kI1Ways, kI1Sets))
  /\ m_Level2' = [m \in Modules |-> EmptyCache(kL2Ways, kL2Sets)]
  /\ d1Used' = ForEachCore({})
  /\ i1Used' = ForEachCore({})
  /\ l2Used' = [m \in Modules |-> {}]

ModuleNext ==
  \/ \E m \in Modules, c \in Cores, line \in Lines, mode \in AccessMode :
       ModuleAccess(m, c, line, mode)
  \/ ModuleReset

ModuleSpec == ModuleInit /\ [][ModuleNext]_moduleVars
-----------------------------------------------------------------------------
\* No cache ever holds a line twice or in a set the scans do not look at, so
\* that an invalidation, which stops at the first way that matches, leaves no
\* second copy behind (Cache::Access, Cache::Invalidate as Access calls them).
CachesWellFormed ==
  \A m \in Modules :
    /\ WellFormed(kL2Sets, m_Level2[m])
    /\ \A c \in Cores : /\ WellFormed(kD1Sets, m_CoreD1[m][c])
                        /\ WellFormed(kI1Sets, m_CoreI1[m][c])

HitIsDeserved(m, c, line, mode) ==
  LET res == Result(m, c, line, mode)
  IN  /\ res = kD1Hit => line \in d1Used[m][c]
      /\ res = kI1Hit => line \in i1Used[m][c]
      /\ res \in {kD1Hit, kI1Hit, kL2Hit} => line \in l2Used[m]

\* Whatever was read, fetched, written and evicted before: an access now is
\* reported as an L1 hit only if the core itself used the line and no other
\* core of its module wrote to it since, and as an L2 hit only if the module
\* used it and the other module did not write to it since (JaguarModule::Access).
\* Line 0 is excepted: its number is the invalid marker, and the scan hits it in
\* an empty cache.
NoStaleHit ==
  \A m \in Modules, c \in Cores, line \in Lines \ {NoLine}, mode \in AccessMode :
    HitIsDeserved(m, c, line, mode)

\* A write kicks the line "out of every other L1 and the other L2 package"
\* (comment in JaguarModule::Access).
WriteKicksEveryOther ==
  [][\A m \in Modules, c \in Cores, line \in Lines :
       ModuleAccess(m, c, line, "kWrite") =>
         /\ line \notin ResidentLines(m_Level2'[Other(m)])
         /\ \A x \in Modules, i \in Cores :
              <<x, i>> # <<m, c>> =>
                line \notin ResidentLines(m_CoreD1'[x][i])
                              \cup ResidentLines(m_CoreI1'[x][i])]_moduleVars
=============================================================================
