------------------------------ MODULE SetData ------------------------------
(***************************************************************************)
(* The rows and the arrays of rows of the class template                   *)
(* Cache<kCacheSizeBytes, kWays> (CacheSimInternals.h), as operators.      *)
(*                                                                         *)
(* A row is SetData<kWays>::m_Addr: a function from 0 .. kWays-1 to lines, *)
(* most recently used first. A line is an address shifted right by         *)
(* kSetSizeShift; line 0 in a way means that the way is invalid. A cache   *)
(* is m_Sets: a function from 0 .. kSetCount-1 to rows. The template       *)
(* parameters are the operators' parameters k (ways) and n (sets).         *)
(***************************************************************************)
EXTENDS Integers

NoLine == 0

Ways(k) == 0 .. k - 1
Sets(n) == 0 .. n - 1
Rows(k, L) == [Ways(k) -> L]
Caches(k, n, L) == [Sets(n) -> Rows(k, L)]

\* Cache::Init: the memset of m_Sets.
EmptyCache(k, n) == [s \in Sets(n) |-> [w \in Ways(k) |-> NoLine]]

Holds(row, base) == \E w \in DOMAIN row : row[w] = base

\* The scan of Access, or of Invalidate, has stopped before way v.
FoundBefore(row, base, v) == \E u \in DOMAIN row : u < v /\ row[u] = base

\* Mutant: a hit does not move the line to the front.
AccessRowNoRotate(k, row, base) ==
  IF Holds(row, base) THEN row
  ELSE [v \in Ways(k) |-> IF v = 0 THEN base ELSE row[v - 1]]

\* Mutant: every access is handled as a miss.
AccessRowNoScan(k, row, base) ==
  [v \in Ways(k) |-> IF v = 0 THEN base ELSE row[v - 1]]

\* A hit at way w rotates ways 0 .. w; a miss shifts the whole row and loses
\* the last way. Either way the line ends up in way 0.
AccessRow(k, row, base) ==
  [v \in Ways(k) |-> IF v = 0 THEN base
                     ELSE IF FoundBefore(row, base, v) THEN row[v]
                     ELSE row[v - 1]]

\* Mutant: the last way is marked with -1.
InvalidateRowMinusOne(k, row, base) ==
  [v \in Ways(k) |-> IF ~FoundBefore(row, base, v + 1) THEN row[v]
                     ELSE IF v = k - 1 THEN -1
                     ELSE row[v + 1]]

\* The ways to the right of the first one that holds the line move left, and
\* the last way is cleared; nothing changes when no way holds it.
InvalidateRow(k, row, base) ==
  [v \in Ways(k) |-> IF ~FoundBefore(row, base, v + 1) THEN row[v]
                     ELSE IF v = k - 1 THEN NoLine
                     ELSE row[v + 1]]

\* Mutant: the mask is used as the modulus.
SetIndexModMask(n, base) == base % (n - 1)

\* base & kSetMask; kSetCount is a power of two.
SetIndex(n, base) == base % n

CacheHits(n, sets, base) == Holds(sets[SetIndex(n, base)], base)

CacheAccess(k, n, sets, base) ==
  [sets EXCEPT ![SetIndex(n, base)] = AccessRow(k, @, base)]

CacheInvalidate(k, n, sets, base) ==
  [sets EXCEPT ![SetIndex(n, base)] = InvalidateRow(k, @, base)]

Resident(row) == {row[w] : w \in DOMAIN row} \ {NoLine}

ResidentLines(sets) == UNION {Resident(sets[s]) : s \in DOMAIN sets}
-----------------------------------------------------------------------------
(* What a well-formed cache is, stated here for every cache that uses it.  *)

RowHasNoDuplicate(row) ==
  \A v, w \in DOMAIN row : row[v] = row[w] /\ row[v] # NoLine => v = w

RowIsCompact(row) ==
  \A v, w \in DOMAIN row : v < w /\ row[w] # NoLine => row[v] # NoLine

RowIsPlaced(n, s, row) ==
  \A w \in DOMAIN row : row[w] # NoLine => SetIndex(n, row[w]) = s

\* A valid line is in at most one way of the cache: the way the scans find.
WellFormed(n, sets) ==
  \A s \in DOMAIN sets : RowHasNoDuplicate(sets[s]) /\ RowIsPlaced(n, s, sets[s])
=============================================================================
