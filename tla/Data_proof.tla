---------------------------- MODULE Data_proof ----------------------------
(***************************************************************************)
(* Lemmas about the data that several components are made of. First what   *)
(* the operators of SetData do to rows and caches, for every number of     *)
(* ways and sets. Then what is left of a sequence by Selected: the chosen  *)
(* positions up to each of them are counted; as the counts grow with the   *)
(* position and are as many as the positions, every count is one of them,  *)
(* and no induction over the sequence is needed. Last, induction over the  *)
(* numbers, division, and sequences.                                       *)
(***************************************************************************)
EXTENDS SetData, Subsequences, FiniteSetTheorems, SequenceTheorems, WellFoundedInduction, TLAPS

\* SetIndex names a set: base & kSetMask is below kSetCount.
LEMMA SetIndexInRange ==
  ASSUME NEW n \in Nat \ {0}, NEW base \in Nat
  PROVE  SetIndex(n, base) \in Sets(n)
  BY DEF SetIndex, Sets

\* Access and Invalidate store only lines the row held or the accessed line.
LEMMA RowTypes ==
  ASSUME NEW k \in Nat \ {0}, NEW L, NoLine \in L,
         NEW row \in Rows(k, L), NEW base \in L
  PROVE  /\ AccessRow(k, row, base) \in Rows(k, L)
         /\ InvalidateRow(k, row, base) \in Rows(k, L)
<1>1. \A v \in Ways(k) : v # 0 => v - 1 \in Ways(k)
  BY DEF Ways
<1>2. \A v \in Ways(k) : v # k - 1 => v + 1 \in Ways(k)
  BY DEF Ways
<1>3. \A v \in Ways(k) : row[v] \in L
  BY DEF Rows
<1> QED
  BY <1>1, <1>2, <1>3 DEF AccessRow, InvalidateRow, Rows

\* A row without duplicates has none after an Access, hit or miss.
LEMMA AccessRowNoDuplicate ==
  ASSUME NEW k \in Nat \ {0}, NEW L \in SUBSET Nat,
         NEW row \in Rows(k, L), NEW base \in L,
         RowHasNoDuplicate(row)
  PROVE  RowHasNoDuplicate(AccessRow(k, row, base))
<1> DEFINE new == AccessRow(k, row, base)
<1>1. DOMAIN row = Ways(k) /\ DOMAIN new = Ways(k)
  BY DEF Rows, AccessRow
<1> SUFFICES ASSUME NEW v \in Ways(k), NEW w \in Ways(k), v < w,
                    new[v] = new[w], new[v] # NoLine
             PROVE  FALSE
  BY <1>1 DEF RowHasNoDuplicate, Ways
<1>2. v \in Nat /\ w \in Nat /\ w - 1 \in Ways(k) /\ (v # 0 => v - 1 \in Ways(k))
  BY DEF Ways
<1>3. CASE FoundBefore(row, base, w)
  <2>1. new[w] = row[w]
    BY <1>2, <1>3 DEF AccessRow
  <2>2. PICK u \in Ways(k) : u < w /\ row[u] = base
    BY <1>1, <1>3 DEF FoundBefore
  <2>3. CASE v = 0
    <3>1. row[u] = row[w] /\ row[u] # NoLine
      BY <2>1, <2>2, <2>3 DEF AccessRow
    <3> QED
      BY <1>1, <2>2, <3>1 DEF RowHasNoDuplicate, Ways
  <2>4. CASE v # 0
    <3>1. \/ new[v] = row[v]
          \/ new[v] = row[v - 1]
      BY <2>4 DEF AccessRow
    <3> QED
      BY <1>1, <1>2, <2>1, <2>4, <3>1 DEF RowHasNoDuplicate
  <2> QED
    BY <2>3, <2>4
<1>4. CASE ~FoundBefore(row, base, w)
  <2>1. new[w] = row[w - 1]
    BY <1>2, <1>4 DEF AccessRow
  <2>2. row[w - 1] # base
    BY <1>1, <1>2, <1>4 DEF FoundBefore
  <2>3. CASE v = 0
    BY <2>1, <2>2, <2>3 DEF AccessRow
  <2>4. CASE v # 0
    <3>1. ~FoundBefore(row, base, v)
      BY <1>1, <1>2, <1>4 DEF FoundBefore, Ways
    <3>2. new[v] = row[v - 1]
      BY <2>4, <3>1 DEF AccessRow
    <3> QED
      BY <1>1, <1>2, <2>1, <2>4, <3>2 DEF RowHasNoDuplicate
  <2> QED
    BY <2>3, <2>4
<1> QED
  BY <1>3, <1>4

\* A row without duplicates has none after an Invalidate.
LEMMA InvalidateRowNoDuplicate ==
  ASSUME NEW k \in Nat \ {0}, NEW L \in SUBSET Nat,
         NEW row \in Rows(k, L), NEW base \in L,
         RowHasNoDuplicate(row)
  PROVE  RowHasNoDuplicate(InvalidateRow(k, row, base))
<1> DEFINE new == InvalidateRow(k, row, base)
<1>1. DOMAIN row = Ways(k) /\ DOMAIN new = Ways(k)
  BY DEF Rows, InvalidateRow
<1> SUFFICES ASSUME NEW v \in Ways(k), NEW w \in Ways(k), v < w,
                    new[v] = new[w], new[v] # NoLine
             PROVE  FALSE
  BY <1>1 DEF RowHasNoDuplicate, Ways
<1>2. v \in Nat /\ w \in Nat /\ v + 1 \in Ways(k) /\ (w # k - 1 => w + 1 \in Ways(k))
  BY DEF Ways
<1>3. CASE FoundBefore(row, base, v + 1)
  <2>1. FoundBefore(row, base, w + 1)
    BY <1>1, <1>2, <1>3 DEF FoundBefore, Ways
  <2>2. w # k - 1 /\ v # k - 1
    BY <1>2, <2>1 DEF InvalidateRow, Ways
  <2>3. new[v] = row[v + 1] /\ new[w] = row[w + 1]
    BY <1>3, <2>1, <2>2 DEF InvalidateRow
  <2>4. row[v + 1] = row[w + 1] /\ row[v + 1] # NoLine
    BY <2>3
  <2>5. v + 1 = w + 1
    BY <1>1, <1>2, <2>2, <2>4 DEF RowHasNoDuplicate
  <2> QED
    BY <1>2, <2>5
<1>4. CASE ~FoundBefore(row, base, v + 1)
  <2>1. new[v] = row[v]
    BY <1>4 DEF InvalidateRow
  <2>2. \/ new[w] = row[w]
        \/ w # k - 1 /\ new[w] = row[w + 1]
    BY <2>1 DEF InvalidateRow
  <2> QED
    BY <1>1, <1>2, <2>1, <2>2 DEF RowHasNoDuplicate
<1> QED
  BY <1>3, <1>4

\* After an Invalidate the row does not hold the line: the scan stops at the
\* first copy, and there is no second one.
LEMMA InvalidateRowRemoves ==
  ASSUME NEW k \in Nat \ {0}, NEW L \in SUBSET Nat,
         NEW row \in Rows(k, L), NEW base \in L,
         RowHasNoDuplicate(row), base # NoLine
  PROVE  ~Holds(InvalidateRow(k, row, base), base)
<1> DEFINE new == InvalidateRow(k, row, base)
<1>1. DOMAIN row = Ways(k) /\ DOMAIN new = Ways(k)
  BY DEF Rows, InvalidateRow
<1> SUFFICES ASSUME NEW v \in Ways(k), new[v] = base
             PROVE  FALSE
  BY <1>1 DEF Holds
<1>2. v \in Nat /\ v < v + 1 /\ (v # k - 1 => v + 1 \in Ways(k))
  BY DEF Ways
<1>3. CASE FoundBefore(row, base, v + 1)
  <2>1. PICK u \in Ways(k) : u < v + 1 /\ row[u] = base
    BY <1>1, <1>3 DEF FoundBefore
  <2>2. v # k - 1 /\ row[v + 1] = base
    BY <1>3 DEF InvalidateRow
  <2> QED
    BY <1>1, <1>2, <2>1, <2>2 DEF RowHasNoDuplicate
<1>4. CASE ~FoundBefore(row, base, v + 1)
  <2>1. row[v] = base
    BY <1>4 DEF InvalidateRow
  <2> QED
    BY <1>1, <1>2, <1>4, <2>1 DEF FoundBefore
<1> QED
  BY <1>3, <1>4

\* What a row holds after an Access it held before, or it is the line.
LEMMA AccessRowContents ==
  ASSUME NEW k \in Nat \ {0}, NEW L \in SUBSET Nat,
         NEW row \in Rows(k, L), NEW base \in L, NEW w \in Ways(k)
  PROVE  \/ AccessRow(k, row, base)[w] = base
         \/ \E v \in Ways(k) : AccessRow(k, row, base)[w] = row[v]
<1>1. w # 0 => w - 1 \in Ways(k)
  BY DEF Ways
<1> QED
  BY <1>1 DEF AccessRow

\* What a row holds after an Invalidate it held before.
LEMMA InvalidateRowContents ==
  ASSUME NEW k \in Nat \ {0}, NEW L \in SUBSET Nat,
         NEW row \in Rows(k, L), NEW base \in L, NEW w \in Ways(k)
  PROVE  \/ InvalidateRow(k, row, base)[w] = NoLine
         \/ \E v \in Ways(k) : InvalidateRow(k, row, base)[w] = row[v]
<1>1. w # k - 1 => w + 1 \in Ways(k)
  BY DEF Ways
<1> QED
  BY <1>1 DEF InvalidateRow
-----------------------------------------------------------------------------
\* The operations on a cache keep its type.
LEMMA CacheTypes ==
  ASSUME NEW k \in Nat \ {0}, NEW n \in Nat \ {0}, NEW L \in SUBSET Nat, NoLine \in L,
         NEW sets \in Caches(k, n, L), NEW base \in L
  PROVE  /\ CacheAccess(k, n, sets, base) \in Caches(k, n, L)
         /\ CacheInvalidate(k, n, sets, base) \in Caches(k, n, L)
<1>1. base \in Nat
  OBVIOUS
<1>2. SetIndex(n, base) \in Sets(n)
  BY <1>1, SetIndexInRange
<1>3. sets[SetIndex(n, base)] \in Rows(k, L)
  BY <1>2 DEF Caches
<1>4. /\ AccessRow(k, sets[SetIndex(n, base)], base) \in Rows(k, L)
      /\ InvalidateRow(k, sets[SetIndex(n, base)], base) \in Rows(k, L)
  BY <1>3, RowTypes
<1> QED
  BY <1>2, <1>4 DEF CacheAccess, CacheInvalidate, Caches

LEMMA EmptyCacheIsACache ==
  ASSUME NEW k \in Nat \ {0}, NEW n \in Nat \ {0}, NEW L, NoLine \in L
  PROVE  /\ EmptyCache(k, n) \in Caches(k, n, L)
         /\ WellFormed(n, EmptyCache(k, n))
         /\ ResidentLines(EmptyCache(k, n)) = {}
<1>1. EmptyCache(k, n) \in Caches(k, n, L)
  BY DEF EmptyCache, Caches, Rows
<1>2. \A s \in Sets(n) : \A w \in DOMAIN EmptyCache(k, n)[s] : EmptyCache(k, n)[s][w] = NoLine
  BY DEF EmptyCache
<1>3. DOMAIN EmptyCache(k, n) = Sets(n)
  BY DEF EmptyCache
<1> QED
  BY <1>1, <1>2, <1>3
  DEF WellFormed, RowHasNoDuplicate, RowIsPlaced, ResidentLines, Resident

\* The operations on a cache keep it well formed.
LEMMA CacheWellFormed ==
  ASSUME NEW k \in Nat \ {0}, NEW n \in Nat \ {0}, NEW L \in SUBSET Nat,
         NEW sets \in Caches(k, n, L), NEW base \in L, WellFormed(n, sets)
  PROVE  /\ WellFormed(n, CacheAccess(k, n, sets, base))
         /\ WellFormed(n, CacheInvalidate(k, n, sets, base))
<1> DEFINE i == SetIndex(n, base)
           a == AccessRow(k, sets[i], base)
           d == InvalidateRow(k, sets[i], base)
<1>1. i \in Sets(n)
  BY SetIndexInRange
<1>2. DOMAIN sets = Sets(n) /\ sets[i] \in Rows(k, L) /\ DOMAIN sets[i] = Ways(k)
  BY <1>1 DEF Caches, Rows
<1>3. RowHasNoDuplicate(sets[i]) /\ RowIsPlaced(n, i, sets[i])
  BY <1>1, <1>2 DEF WellFormed
<1>4. RowHasNoDuplicate(a) /\ RowHasNoDuplicate(d)
  BY <1>2, <1>3, AccessRowNoDuplicate, InvalidateRowNoDuplicate
<1>5. RowIsPlaced(n, i, a)
  <2>1. DOMAIN a = Ways(k)
    BY DEF AccessRow
  <2> HIDE DEF a
  <2>2. \A w \in Ways(k) : a[w] = base \/ \E v \in Ways(k) : a[w] = sets[i][v]
    BY <1>2, AccessRowContents DEF a
  <2> QED
    BY <1>2, <1>3, <2>1, <2>2 DEF RowIsPlaced
<1>6. RowIsPlaced(n, i, d)
  <2>1. DOMAIN d = Ways(k)
    BY DEF InvalidateRow
  <2> HIDE DEF d
  <2>2. \A w \in Ways(k) : d[w] = NoLine \/ \E v \in Ways(k) : d[w] = sets[i][v]
    BY <1>2, InvalidateRowContents DEF d
  <2> QED
    BY <1>2, <1>3, <2>1, <2>2 DEF RowIsPlaced
<1>7. /\ CacheAccess(k, n, sets, base) = [sets EXCEPT ![i] = a]
      /\ CacheInvalidate(k, n, sets, base) = [sets EXCEPT ![i] = d]
  BY DEF CacheAccess, CacheInvalidate
<1> HIDE DEF i, a, d
<1> QED
  BY <1>1, <1>2, <1>4, <1>5, <1>6, <1>7 DEF WellFormed

\* The line an Access brings in is the only one it adds to a cache.
LEMMA AccessContents ==
  ASSUME NEW k \in Nat \ {0}, NEW n \in Nat \ {0}, NEW L \in SUBSET Nat,
         NEW sets \in Caches(k, n, L), NEW base \in L
  PROVE  ResidentLines(CacheAccess(k, n, sets, base)) \subseteq ResidentLines(sets) \cup {base}
<1> DEFINE i == SetIndex(n, base)
           a == AccessRow(k, sets[i], base)
<1>1. i \in Sets(n)
  BY SetIndexInRange
<1>2. DOMAIN sets = Sets(n) /\ sets[i] \in Rows(k, L) /\ DOMAIN sets[i] = Ways(k)
  BY <1>1 DEF Caches, Rows
<1>3. DOMAIN a = Ways(k)
  BY DEF AccessRow
<1>4. CacheAccess(k, n, sets, base) = [sets EXCEPT ![i] = a]
  BY DEF CacheAccess
<1> HIDE DEF a
<1>5. \A w \in Ways(k) : a[w] = base \/ \E v \in Ways(k) : a[w] = sets[i][v]
  BY <1>2, AccessRowContents DEF a
<1>6. Resident(a) \subseteq Resident(sets[i]) \cup {base}
  BY <1>2, <1>3, <1>5 DEF Resident
<1> HIDE DEF i
<1> QED
  BY <1>1, <1>2, <1>4, <1>6 DEF ResidentLines

\* An Invalidate takes exactly its line out of a well-formed cache: nothing
\* comes in, and the line is gone from every set.
LEMMA InvalidateContents ==
  ASSUME NEW k \in Nat \ {0}, NEW n \in Nat \ {0}, NEW L \in SUBSET Nat,
         NEW sets \in Caches(k, n, L), NEW base \in L, WellFormed(n, sets)
  PROVE  ResidentLines(CacheInvalidate(k, n, sets, base)) \subseteq ResidentLines(sets) \ {base}
<1> DEFINE i == SetIndex(n, base)
           d == InvalidateRow(k, sets[i], base)
<1>1. i \in Sets(n)
  BY SetIndexInRange
<1>2. DOMAIN sets = Sets(n) /\ sets[i] \in Rows(k, L) /\ DOMAIN sets[i] = Ways(k)
  BY <1>1 DEF Caches, Rows
<1>3. DOMAIN d = Ways(k)
  BY DEF InvalidateRow
<1>4. CacheInvalidate(k, n, sets, base) = [sets EXCEPT ![i] = d]
  BY DEF CacheInvalidate
<1>5. base # NoLine => ~Holds(d, base)
  BY <1>1, <1>2, InvalidateRowRemoves DEF WellFormed
<1> HIDE DEF d
<1>6. \A w \in Ways(k) : d[w] = NoLine \/ \E v \in Ways(k) : d[w] = sets[i][v]
  BY <1>2, InvalidateRowContents DEF d
<1>7. Resident(d) \subseteq Resident(sets[i]) \ {base}
  BY <1>2, <1>3, <1>5, <1>6 DEF Resident, Holds
<1>8. ASSUME NEW s \in Sets(n), s # i
      PROVE  base \notin Resident(sets[s])
  BY <1>2, <1>8 DEF WellFormed, RowIsPlaced, Resident
<1> HIDE DEF i
<1> QED
  BY <1>1, <1>2, <1>4, <1>7, <1>8 DEF ResidentLines

\* A hit on a valid line means that the cache holds it.
LEMMA HitsAreResident ==
  ASSUME NEW k \in Nat \ {0}, NEW n \in Nat \ {0}, NEW L \in SUBSET Nat,
         NEW sets \in Caches(k, n, L), NEW base \in L, base # NoLine,
         CacheHits(n, sets, base)
  PROVE  base \in ResidentLines(sets)
<1>1. SetIndex(n, base) \in DOMAIN sets
  BY SetIndexInRange DEF Caches
<1> QED
  BY <1>1 DEF CacheHits, Holds, ResidentLines, Resident

\* The line that was accessed hits, and the lines of the other sets hit if they
\* did before.
LEMMA HitsAfterAccess ==
  ASSUME NEW k \in Nat \ {0}, NEW n \in Nat \ {0}, NEW L \in SUBSET Nat,
         NEW sets \in Caches(k, n, L), NEW base \in L
  PROVE  /\ CacheHits(n, CacheAccess(k, n, sets, base), base)
         /\ \A x \in Nat : SetIndex(n, x) # SetIndex(n, base) /\ CacheHits(n, sets, x)
                             => CacheHits(n, CacheAccess(k, n, sets, base), x)
<1> DEFINE i == SetIndex(n, base)
           a == AccessRow(k, sets[i], base)
<1>1. i \in Sets(n)
  BY SetIndexInRange
<1>2. DOMAIN sets = Sets(n)
  BY DEF Caches
<1>3. 0 \in DOMAIN a /\ a[0] = base
  BY DEF AccessRow, Ways
<1>4. CacheAccess(k, n, sets, base) = [sets EXCEPT ![i] = a]
  BY DEF CacheAccess
<1>5. CacheAccess(k, n, sets, base)[i] = a
  BY <1>1, <1>2, <1>4
<1> HIDE DEF a
<1>6. Holds(a, base)
  BY <1>3 DEF Holds
<1>7. CacheHits(n, CacheAccess(k, n, sets, base), base)
  BY <1>5, <1>6 DEF CacheHits
<1>8. ASSUME NEW x \in Nat, SetIndex(n, x) # i, CacheHits(n, sets, x)
      PROVE  CacheHits(n, CacheAccess(k, n, sets, base), x)
  <2>1. CacheAccess(k, n, sets, base)[SetIndex(n, x)] = sets[SetIndex(n, x)]
    <3>1. SetIndex(n, x) \in Sets(n)
      BY SetIndexInRange
    <3> QED
      BY <1>2, <1>4, <1>8, <3>1
  <2> QED
    BY <1>8, <2>1 DEF CacheHits
<1> QED
  BY <1>7, <1>8
-----------------------------------------------------------------------------
(* Subsequences                                                            *)

\* Of two numbers the greater one has the higher rank.
LEMMA RankGrows ==
  ASSUME NEW I \in SUBSET Int, IsFiniteSet(I), NEW i \in I, NEW j \in I, i < j
  PROVE  Rank(I, i) < Rank(I, j)
<1> DEFINE U(x) == {y \in I : y <= x}
<1>3. IsFiniteSet(U(j)) /\ IsFiniteSet(U(i))
  <2>1. U(j) \in SUBSET I /\ U(i) \in SUBSET I
    OBVIOUS
  <2> QED BY <2>1, FS_Subset
<1>4. U(i) \in SUBSET U(j)
  <2>1. \A y \in I : y \in Int
    OBVIOUS
  <2>2. \A y \in I : y <= i => y <= j
    BY <2>1
  <2> QED BY <2>2
<1>5. U(i) # U(j)
  <2>1. j \in U(j) /\ j \notin U(i)
    OBVIOUS
  <2> QED BY <2>1
<1>6. /\ Cardinality(U(i)) <= Cardinality(U(j))
      /\ Cardinality(U(j)) = Cardinality(U(i)) => U(j) = U(i)
  <2> HIDE DEF U
  <2> QED BY <1>3, <1>4, FS_Subset
<1>7. Cardinality(U(i)) \in Nat /\ Cardinality(U(j)) \in Nat
  BY <1>3, FS_CardinalityType
<1> HIDE DEF U
<1>8. Cardinality(U(i)) < Cardinality(U(j))
  BY <1>5, <1>6, <1>7
<1> QED BY <1>8 DEF U, Rank

\* Every number up to that of the members is the rank of one of them.
LEMMA NthOfSet ==
  ASSUME NEW I \in SUBSET Int, IsFiniteSet(I)
  PROVE  /\ Cardinality(I) \in Nat
         /\ \A i \in I : Rank(I, i) \in 1 .. Cardinality(I)
         /\ \A k \in 1 .. Cardinality(I) : Nth(I, k) \in I /\ Rank(I, Nth(I, k)) = k
         /\ \A i \in I : Nth(I, Rank(I, i)) = i
         /\ \A k, l \in 1 .. Cardinality(I) : k < l => Nth(I, k) < Nth(I, l)
<1> DEFINE U(x) == {y \in I : y <= x}
           rank == [i \in I |-> Rank(I, i)]
<1>1. IsFiniteSet(I) /\ Cardinality(I) \in Nat
  BY FS_CardinalityType
<1>2. ASSUME NEW i \in I
      PROVE  Rank(I, i) \in 1 .. Cardinality(I)
  <2>1. U(i) \in SUBSET I /\ i \in U(i)
    OBVIOUS
  <2>2. IsFiniteSet(U(i)) /\ Cardinality(U(i)) <= Cardinality(I)
    <3> HIDE DEF U
    <3> QED BY <1>1, <2>1, FS_Subset
  <2>3. Cardinality(U(i)) \in Nat
    BY <2>2, FS_CardinalityType
  <2>4. Cardinality(U(i)) # 0
    <3> HIDE DEF U
    <3> QED BY <2>1, <2>2, FS_EmptySet
  <2> HIDE DEF U
  <2>5. Cardinality(U(i)) \in 1 .. Cardinality(I)
    BY <1>1, <2>2, <2>3, <2>4
  <2> QED BY <2>5 DEF U, Rank
<1>3. \A i, j \in I : i # j => Rank(I, i) # Rank(I, j)
  <2> SUFFICES ASSUME NEW i \in I, NEW j \in I, i # j
               PROVE  Rank(I, i) # Rank(I, j)
    OBVIOUS
  <2>1. Rank(I, i) \in Nat /\ Rank(I, j) \in Nat
    BY <1>1, <1>2
  <2>2. CASE i < j
    <3>1. Rank(I, i) < Rank(I, j)
      BY <2>2, RankGrows
    <3> QED BY <2>1, <3>1
  <2>3. CASE j < i
    <3>1. Rank(I, j) < Rank(I, i)
      BY <2>3, RankGrows
    <3> QED BY <2>1, <3>1
  <2> QED BY <2>2, <2>3
<1>4. rank \in Injection(I, 1 .. Cardinality(I))
  BY <1>2, <1>3 DEF Injection, IsInjective
<1>5. IsFiniteSet(1 .. Cardinality(I)) /\ Cardinality(1 .. Cardinality(I)) = Cardinality(I)
  BY <1>1, FS_Interval
<1>6. rank \in Surjection(I, 1 .. Cardinality(I))
  <2> HIDE DEF rank
  <2> QED BY <1>4, <1>5, FS_Injection
<1>7. \A k \in 1 .. Cardinality(I) : \E i \in I : Rank(I, i) = k
  BY <1>6 DEF Surjection
<1>8. \A k \in 1 .. Cardinality(I) : Nth(I, k) \in I /\ Rank(I, Nth(I, k)) = k
  BY <1>7 DEF Nth
<1>9. \A i \in I : Nth(I, Rank(I, i)) = i
  BY <1>2, <1>3, <1>8
<1>10. ASSUME NEW k \in 1 .. Cardinality(I), NEW l \in 1 .. Cardinality(I), k < l
       PROVE  Nth(I, k) < Nth(I, l)
  <2>1. Nth(I, k) \in I /\ Nth(I, l) \in I /\ Rank(I, Nth(I, k)) = k /\ Rank(I, Nth(I, l)) = l
    BY <1>8
  <2>2. CASE Nth(I, l) < Nth(I, k)
    <3>1. Rank(I, Nth(I, l)) < Rank(I, Nth(I, k))
      BY <2>1, <2>2, RankGrows
    <3> QED BY <1>10, <2>1, <3>1
  <2>3. CASE Nth(I, l) = Nth(I, k)
    BY <1>10, <2>1, <2>3
  <2>4. \A x \in I : x \in Int
    OBVIOUS
  <2>5. Nth(I, k) \in Int /\ Nth(I, l) \in Int
    BY <2>1, <2>4
  <2> QED BY <2>2, <2>3, <2>5
<1> QED BY <1>1, <1>2, <1>8, <1>9, <1>10

\* In particular of the chosen positions.
LEMMA NthIsThere ==
  ASSUME NEW n \in Nat, NEW I \in SUBSET (1 .. n)
  PROVE  /\ IsFiniteSet(I) /\ Cardinality(I) \in Nat
         /\ \A i \in I : Rank(I, i) \in 1 .. Cardinality(I)
         /\ \A k \in 1 .. Cardinality(I) : Nth(I, k) \in I /\ Rank(I, Nth(I, k)) = k
         /\ \A i \in I : Nth(I, Rank(I, i)) = i
         /\ \A k, l \in 1 .. Cardinality(I) : k < l => Nth(I, k) < Nth(I, l)
<1>1. IsFiniteSet(1 .. n) /\ I \in SUBSET Int
  BY FS_Interval
<1>2. IsFiniteSet(I)
  BY <1>1, FS_Subset
<1> QED
  BY <1>1, <1>2, NthOfSet

\* A sequence that is evaluated is the sequence.
LEMMA EvaluatedIsItself ==
  ASSUME NEW S, NEW s \in Seq(S)
  PROVE  Evaluated(s) = s
  BY DEF Evaluated

\* Selected is a sequence of the elements at the positions, of all of them and
\* of nothing else, as many as there are positions.
LEMMA SelectedElements ==
  ASSUME NEW S, NEW s \in Seq(S), NEW I \in SUBSET DOMAIN s
  PROVE  /\ Selected(s, I) \in Seq(S)
         /\ Len(Selected(s, I)) = Cardinality(I)
         /\ DOMAIN Selected(s, I) = 1 .. Cardinality(I)
         /\ \A k \in DOMAIN Selected(s, I) : Nth(I, k) \in I /\ Selected(s, I)[k] = s[Nth(I, k)]
         /\ \A i \in I : \E k \in DOMAIN Selected(s, I) : Selected(s, I)[k] = s[i]
<1>1. Len(s) \in Nat /\ DOMAIN s = 1 .. Len(s)
  OBVIOUS
<1>2. /\ Cardinality(I) \in Nat
      /\ \A i \in I : Rank(I, i) \in 1 .. Cardinality(I)
      /\ \A k \in 1 .. Cardinality(I) : Nth(I, k) \in I
      /\ \A i \in I : Nth(I, Rank(I, i)) = i
  BY <1>1, NthIsThere
<1>4. \A k \in 1 .. Cardinality(I) : s[Nth(I, k)] \in S
  BY <1>1, <1>2
<1>5. [k \in 1 .. Cardinality(I) |-> s[Nth(I, k)]] \in Seq(S)
  BY <1>2, <1>4
<1>3. Selected(s, I) = [k \in 1 .. Cardinality(I) |-> s[Nth(I, k)]]
  BY <1>5, EvaluatedIsItself DEF Selected
<1> QED BY <1>1, <1>2, <1>3, <1>4

\* An order has every position at one place, and what comes first has the lower
\* key, or the same key and the lower position.
LEMMA OrderOfKeys ==
  ASSUME NEW key \in Seq(Int)
  PROVE  /\ Order(key) \in Seq(DOMAIN key) /\ DOMAIN Order(key) = DOMAIN key
         /\ \A i \in DOMAIN key : \E k \in DOMAIN key : Order(key)[k] = i
         /\ \A k, l \in DOMAIN key : Order(key)[k] = Order(key)[l] => k = l
         /\ \A k, l \in DOMAIN key : k < l => key[Order(key)[k]] <= key[Order(key)[l]]
<1> DEFINE n == Len(key)
           I == 1 .. n
           U(i) == {j \in I : key[j] < key[i] \/ (key[j] = key[i] /\ j <= i)}
           place == [i \in I |-> Place(key, i)]
           order == [k \in I |-> CHOOSE i \in I : Place(key, i) = k]
<1>1. n \in Nat /\ DOMAIN key = I /\ \A i \in I : key[i] \in Int
  OBVIOUS
<1>2. IsFiniteSet(I) /\ Cardinality(I) = n
  <2>1. PICK m \in Nat : m = n
    BY <1>1
  <2>2. IsFiniteSet(1 .. m) /\ Cardinality(1 .. m) = m
    BY FS_Interval
  <2> QED
    BY <2>1, <2>2
<1>3. \A i \in I : Place(key, i) = Cardinality(U(i))
  BY <1>1 DEF Place
<1>4. ASSUME NEW i \in I
      PROVE  IsFiniteSet(U(i)) /\ Cardinality(U(i)) \in 1 .. n
  <2>1. U(i) \in SUBSET I /\ i \in U(i)
    BY <1>1
  <2> HIDE DEF U, I
  <2>2. IsFiniteSet(U(i)) /\ Cardinality(U(i)) <= Cardinality(I)
    BY <1>2, <2>1, FS_Subset
  <2>3. Cardinality(U(i)) \in Nat /\ Cardinality(U(i)) # 0
    BY <2>1, <2>2, FS_CardinalityType, FS_EmptySet
  <2> QED
    BY <1>1, <1>2, <2>2, <2>3
<1>5. ASSUME NEW i \in I, NEW j \in I, key[i] < key[j] \/ (key[i] = key[j] /\ i < j)
      PROVE  Cardinality(U(i)) < Cardinality(U(j))
  <2>1. U(i) \in SUBSET U(j)
    <3> SUFFICES ASSUME NEW x \in I, key[x] < key[i] \/ (key[x] = key[i] /\ x <= i)
                 PROVE  key[x] < key[j] \/ (key[x] = key[j] /\ x <= j)
      OBVIOUS
    <3>1. key[x] \in Int /\ key[i] \in Int /\ key[j] \in Int /\ x \in Int /\ i \in Int /\ j \in Int
      BY <1>1
    <3> QED
      BY <1>5, <3>1
  <2>2. j \in U(j) /\ j \notin U(i)
    <3>1. key[i] \in Int /\ key[j] \in Int /\ i \in Int /\ j \in Int
      BY <1>1
    <3> QED
      BY <1>5, <3>1
  <2>3. U(i) # U(j)
    BY <2>2
  <2>4. IsFiniteSet(U(j)) /\ Cardinality(U(i)) \in Nat /\ Cardinality(U(j)) \in Nat
    <3>1. IsFiniteSet(U(j)) /\ Cardinality(U(i)) \in 1 .. n /\ Cardinality(U(j)) \in 1 .. n
      <4> HIDE DEF U
      <4> QED
        BY <1>4
    <3> QED
      BY <1>1, <3>1
  <2> HIDE DEF U, I
  <2>5. Cardinality(U(i)) <= Cardinality(U(j)) /\ (Cardinality(U(j)) = Cardinality(U(i)) => U(j) = U(i))
    BY <2>1, <2>4, FS_Subset
  <2> QED
    BY <2>3, <2>4, <2>5
<1>6. \A i, j \in I : Place(key, i) = Place(key, j) => i = j
  <2> SUFFICES ASSUME NEW i \in I, NEW j \in I, i # j
               PROVE  Place(key, i) # Place(key, j)
    OBVIOUS
  <2>1. Place(key, i) \in Nat /\ Place(key, j) \in Nat
    <3> HIDE DEF U
    <3>1. Place(key, i) \in 1 .. n /\ Place(key, j) \in 1 .. n
      BY <1>3, <1>4
    <3> QED
      BY <1>1, <3>1
  <2>2. key[i] \in Int /\ key[j] \in Int /\ i \in Int /\ j \in Int
    BY <1>1
  <2>3. CASE key[i] < key[j] \/ (key[i] = key[j] /\ i < j)
    <3>1. Place(key, i) < Place(key, j)
      BY <1>3, <1>5, <2>3
    <3> QED
      BY <2>1, <3>1
  <2>4. CASE key[j] < key[i] \/ (key[j] = key[i] /\ j < i)
    <3>1. Place(key, j) < Place(key, i)
      BY <1>3, <1>5, <2>4
    <3> QED
      BY <2>1, <3>1
  <2> QED
    BY <2>2, <2>3, <2>4
<1>7. place \in Surjection(I, I)
  <2>1. place \in [I -> I]
    BY <1>3, <1>4
  <2>2. place \in Injection(I, I)
    BY <1>6, <2>1 DEF Injection, IsInjective
  <2> HIDE DEF place, I
  <2> QED
    BY <1>2, <2>2, FS_Injection
<1>8. \A k \in I : \E i \in I : Place(key, i) = k
  BY <1>7 DEF Surjection
<1>9. \A k \in I : order[k] \in I /\ Place(key, order[k]) = k
  <2> HIDE DEF I
  <2> QED
    BY <1>8
<1>10. Order(key) = order
  <2>1. Evaluated(key) = key
    BY EvaluatedIsItself
  <2>2. order \in Seq(I)
    BY <1>1, <1>9
  <2>3. Evaluated(order) = order
    BY <2>2, EvaluatedIsItself
  <2> QED
    BY <1>1, <2>1, <2>3 DEF Order
<1>11. \A i \in I : \E k \in I : order[k] = i
  <2> SUFFICES ASSUME NEW i \in I PROVE \E k \in I : order[k] = i
    OBVIOUS
  <2>1. Place(key, i) \in I
    BY <1>3, <1>4
  <2>2. order[Place(key, i)] = i
    BY <1>6, <1>9, <2>1
  <2> QED
    BY <2>1, <2>2
<1>12. \A k, l \in I : order[k] = order[l] => k = l
  BY <1>9
<1>13. \A k, l \in I : k < l => key[order[k]] <= key[order[l]]
  <2> SUFFICES ASSUME NEW k \in I, NEW l \in I, k < l, ~(key[order[k]] <= key[order[l]])
               PROVE  FALSE
    OBVIOUS
  <2>1. PICK i \in I, j \in I : i = order[k] /\ j = order[l] /\ Place(key, i) = k /\ Place(key, j) = l
    <3> HIDE DEF order, I
    <3> QED
      BY <1>9
  <2>2. key[j] < key[i]
    BY <1>1, <2>1
  <2>3. Place(key, j) < Place(key, i)
    BY <1>3, <1>5, <2>2
  <2> QED
    BY <1>1, <2>1, <2>3
<1>14. order \in Seq(I) /\ DOMAIN order = I
  BY <1>1, <1>9
<1> HIDE DEF order, I, place, U, n
<1> QED BY <1>1, <1>10, <1>11, <1>12, <1>13, <1>14

\* How many of some numbers are less than one of them.
LEMMA RankIsOneMore ==
  ASSUME NEW n \in Nat, NEW I \in SUBSET (1 .. n), NEW i \in I
  PROVE  Rank(I, i) = Cardinality({j \in I : j < i}) + 1
<1>1. PICK U : U = {j \in I : j < i}
  OBVIOUS
<1>2. IsFiniteSet(1 .. n)
  BY FS_Interval
<1>3. IsFiniteSet(I)
  BY <1>2, FS_Subset
<1>4. IsFiniteSet(U) /\ i \notin U
  BY <1>1, <1>3, FS_Subset
<1>5. {j \in I : j <= i} = U \cup {i}
  <2>1. \A j \in I : j <= i <=> j \in U \/ j = i
    BY <1>1
  <2>2. U \in SUBSET I
    BY <1>1
  <2> QED
    BY <2>1, <2>2
<1>6. Cardinality(U \cup {i}) = Cardinality(U) + 1
  BY <1>4, FS_AddElement
<1> QED
  BY <1>1, <1>5, <1>6 DEF Rank

LEMMA SequenceOfItsMembers ==
  ASSUME NEW n \in Nat, NEW s, DOMAIN s = 1 .. n, s = [k \in 1 .. n |-> s[k]]
  PROVE  s \in Seq({s[k] : k \in DOMAIN s}) /\ Evaluated(s) = s
<1>1. PICK S : S = {s[k] : k \in DOMAIN s}
  OBVIOUS
<1>2. \A k \in 1 .. n : s[k] \in S
  BY <1>1
<1>3. s \in Seq(S)
  BY <1>2
<1> QED
  BY <1>1, <1>3, EvaluatedIsItself

\* The members of I, each at one of the places up to m.
Enumerates(e, I, m) ==
  /\ m \in Nat /\ DOMAIN e = 1 .. m
  /\ \A k \in 1 .. m : e[k] \in I
  /\ \A i \in I : \E k \in 1 .. m : e[k] = i
  /\ \A k, l \in 1 .. m : e[k] = e[l] => k = l

LEMMA PlacesSelected ==
  ASSUME NEW n \in Nat, NEW I \in SUBSET (1 .. n)
  PROVE  \E m \in Nat : Enumerates(Selected([a \in 1 .. n |-> a], I), I, m)
<1>1. PICK places : places = [a \in 1 .. n |-> a]
  OBVIOUS
<1>2. places \in Seq(1 .. n) /\ DOMAIN places = 1 .. n /\ (\A a \in 1 .. n : places[a] = a)
  BY <1>1
<1>3. I \in SUBSET DOMAIN places
  BY <1>2
<1>4. PICK found : found = Selected(places, I)
  OBVIOUS
<1>5. /\ found \in Seq(1 .. n) /\ DOMAIN found = 1 .. Cardinality(I)
      /\ \A k \in DOMAIN found : Nth(I, k) \in I /\ found[k] = places[Nth(I, k)]
      /\ \A i \in I : \E k \in DOMAIN found : found[k] = places[i]
  <2>1. PICK S : S = 1 .. n
    OBVIOUS
  <2>2. places \in Seq(S)
    BY <1>2, <2>1
  <2>3. /\ found \in Seq(S) /\ DOMAIN found = 1 .. Cardinality(I)
        /\ \A k \in DOMAIN found : Nth(I, k) \in I /\ found[k] = places[Nth(I, k)]
        /\ \A i \in I : \E k \in DOMAIN found : found[k] = places[i]
    BY <1>3, <1>4, <2>2, SelectedElements
  <2> QED
    BY <2>1, <2>3
<1>6. /\ Cardinality(I) \in Nat
      /\ \A k, l \in 1 .. Cardinality(I) : k < l => Nth(I, k) < Nth(I, l)
  BY <1>2, <1>3, NthIsThere
<1>7. PICK m \in Nat : m = Cardinality(I)
  BY <1>6
<1>8. ASSUME NEW k \in 1 .. m PROVE found[k] \in I /\ found[k] = Nth(I, k)
  <2>1. Nth(I, k) \in I /\ found[k] = places[Nth(I, k)]
    BY <1>5, <1>7
  <2>2. Nth(I, k) \in 1 .. n
    BY <2>1
  <2> QED
    BY <1>2, <2>1, <2>2
<1>9. \A k, l \in 1 .. m : found[k] = found[l] => k = l
  <2> SUFFICES ASSUME NEW k \in 1 .. m, NEW l \in 1 .. m, k # l PROVE found[k] # found[l]
    OBVIOUS
  <2>1. found[k] \in 1 .. n /\ found[l] \in 1 .. n
    BY <1>8
  <2>2. CASE k < l
    BY <1>6, <1>7, <1>8, <2>1, <2>2
  <2>3. CASE l < k
    BY <1>6, <1>7, <1>8, <2>1, <2>3
  <2> QED
    BY <2>2, <2>3
<1>10. \A i \in I : \E k \in 1 .. m : found[k] = i
  BY <1>2, <1>5, <1>7
<1>11. Enumerates(found, I, m)
  BY <1>5, <1>7, <1>8, <1>9, <1>10 DEF Enumerates
<1> QED
  BY <1>1, <1>4, <1>11

LEMMA PlacesSorted ==
  ASSUME NEW m \in Nat, NEW keys \in Seq(Int), DOMAIN keys = 1 .. m
  PROVE  Enumerates(Order(keys), 1 .. m, m)
<1>1. PICK order : order = Order(keys)
  OBVIOUS
<1>2. /\ order \in Seq(DOMAIN keys) /\ DOMAIN order = DOMAIN keys
      /\ \A i \in DOMAIN keys : \E k \in DOMAIN keys : order[k] = i
      /\ \A k, l \in DOMAIN keys : order[k] = order[l] => k = l
  BY <1>1, OrderOfKeys
<1>3. \A k \in DOMAIN order : order[k] \in DOMAIN keys
  BY <1>2
<1>4. Enumerates(order, 1 .. m, m)
  BY <1>2, <1>3 DEF Enumerates
<1> QED
  BY <1>1, <1>4

LEMMA PlacesOfPlaces ==
  ASSUME NEW e, NEW I, NEW m, Enumerates(e, I, m), NEW p, Enumerates(p, 1 .. m, m)
  PROVE  Enumerates([k \in 1 .. m |-> e[p[k]]], I, m)
<1>1. PICK q : q = [k \in 1 .. m |-> e[p[k]]]
  OBVIOUS
<1>2. DOMAIN q = 1 .. m /\ \A k \in 1 .. m : q[k] = e[p[k]] /\ p[k] \in 1 .. m
  BY <1>1 DEF Enumerates
<1>3. \A k \in 1 .. m : q[k] \in I
  BY <1>2 DEF Enumerates
<1>4. \A i \in I : \E k \in 1 .. m : q[k] = i
  BY <1>2 DEF Enumerates
<1>5. \A k, l \in 1 .. m : q[k] = q[l] => k = l
  BY <1>2 DEF Enumerates
<1>6. Enumerates(q, I, m)
  BY <1>2, <1>3, <1>4, <1>5 DEF Enumerates
<1> QED
  BY <1>1, <1>6
-----------------------------------------------------------------------------
(* Induction. The theorems of the library take the statement as an         *)
(* operator, which no prover instantiates; these take it as a set.         *)

\* A set of numbers that is not empty has a least one.
LEMMA LeastNumber ==
  ASSUME NEW S \in SUBSET Nat, S # {}
  PROVE  \E n \in S : \A m \in S : n <= m
<1> DEFINE R == {p \in Nat \X Nat : p[1] < p[2]}
<1>1. IsWellFoundedOn(R, Nat)
  BY NatLessThanWellFounded DEF OpToRel
<1> HIDE DEF R
<1>2. PICK n \in S : \A m \in S : <<m, n>> \notin R
  BY <1>1, WFMin
<1>3. \A m \in S : ~(m < n)
  BY <1>2 DEF R
<1> QED
  BY <1>2, <1>3

\* What holds of 0, and of n + 1 if it holds of n, holds of every number.
LEMMA Induction ==
  ASSUME NEW S, 0 \in S, \A n \in Nat : n \in S => n + 1 \in S
  PROVE  \A n \in Nat : n \in S
<1> DEFINE T == {n \in Nat : n \notin S}
<1> SUFFICES ASSUME T # {} PROVE FALSE
  OBVIOUS
<1>1. PICK n \in T : \A m \in T : n <= m
  BY LeastNumber
<1>2. n # 0
  BY <1>1
<1>3. n - 1 \in Nat /\ n - 1 \notin T
  BY <1>1, <1>2
<1> QED
  BY <1>1, <1>3
-----------------------------------------------------------------------------
(* Division                                                                *)

LEMMA QuotientAndRest ==
  ASSUME NEW n \in Int, NEW b \in Nat \ {0}
  PROVE  \E q \in Int, r \in 0 .. b - 1 :
           /\ q = n \div b /\ r = n % b /\ n = b * q + r
           /\ n >= 0 => q >= 0
<1>1. n % b = n - b * (n \div b) /\ n % b \in 0 .. b - 1 /\ n \div b \in Int
  BY Z3
<1>2. PICK q \in Int : q = n \div b
  BY <1>1
<1>3. PICK r \in 0 .. b - 1 : r = n % b
  BY <1>1
<1>4. r = n - b * q
  BY <1>1, <1>2, <1>3
<1>5. n = b * q + r
  <2>1. PICK u \in Int : u = b * q
    OBVIOUS
  <2> QED
    BY <2>1, <1>4
<1>6. n >= 0 => q >= 0
  <2>1. \A x \in Int : x <= -1 => b * x <= -b
    OBVIOUS
  <2> QED
    BY <2>1, <1>5
<1> QED
  BY <1>2, <1>3, <1>5, <1>6

LEMMA RestIsUnique ==
  ASSUME NEW b \in Nat \ {0}, NEW q \in Int, NEW p \in Int,
         NEW r \in 0 .. b - 1, NEW s \in 0 .. b - 1, b * q + r = b * p + s
  PROVE  q = p /\ r = s
<1>1. b * (q - p) = s - r
  OBVIOUS
<1>2. \A x \in Int : x >= 1 => b * x >= b
  OBVIOUS
<1>3. ~(q - p >= 1)
  BY <1>1, <1>2
<1>4. b * (p - q) = r - s
  OBVIOUS
<1>5. ~(p - q >= 1)
  BY <1>4, <1>2
<1>6. q = p
  BY <1>3, <1>5
<1> QED
  BY <1>6

\* A quotient and a rest are those of a division if the rest is small enough.
LEMMA DivisionIsUnique ==
  ASSUME NEW b \in Nat \ {0}, NEW q \in Int, NEW r \in 0 .. b - 1, NEW n \in Int, n = b * q + r
  PROVE  n \div b = q /\ n % b = r
<1>1. PICK p \in Int, s \in 0 .. b - 1 : p = n \div b /\ s = n % b /\ n = b * p + s
  BY QuotientAndRest
<1>2. q = p /\ r = s
  BY <1>1, RestIsUnique
<1> QED
  BY <1>1, <1>2
-----------------------------------------------------------------------------
(* Finite sets and sequences                                               *)

\* A set with one element less has one element less.
LEMMA FewerElements ==
  ASSUME NEW S, IsFiniteSet(S), NEW n \in Nat, Cardinality(S) = n + 1, NEW x \in S
  PROVE  IsFiniteSet(S \ {x}) /\ Cardinality(S \ {x}) = n
<1>1. IsFiniteSet(S \ {x}) /\ Cardinality(S \ {x}) = Cardinality(S) - 1
  BY FS_RemoveElement
<1> QED
  BY <1>1

LEMMA OneElement ==
  ASSUME NEW S, NEW x \in S
  PROVE  \E e \in Seq(S) : e = <<x>> /\ Len(e) = 1 /\ e[1] = x
<1>1. <<x>> \in Seq(S)
  OBVIOUS
<1>2. Len(<<x>>) = 1 /\ <<x>>[1] = x
  OBVIOUS
<1> QED
  BY <1>1, <1>2

LEMMA OneElementPrepended ==
  ASSUME NEW S, NEW x \in S, NEW s \in Seq(S), NEW n \in Nat, Len(s) = n
  PROVE  /\ <<x>> \o s \in Seq(S) /\ Len(<<x>> \o s) = n + 1
         /\ (<<x>> \o s)[1] = x
         /\ \A i \in 1 .. n : (<<x>> \o s)[i + 1] = s[i]
<1>1. PICK one \in Seq(S) : one = <<x>> /\ Len(one) = 1 /\ one[1] = x
  BY OneElement
<1>2. /\ one \o s \in Seq(S) /\ Len(one \o s) = 1 + n
      /\ \A i \in 1 .. 1 + n : (one \o s)[i] = IF i <= 1 THEN one[i] ELSE s[i - 1]
  BY <1>1, ConcatProperties
<1>3. (one \o s)[1] = x
  BY <1>1, <1>2
<1>4. ASSUME NEW i \in 1 .. n PROVE (one \o s)[i + 1] = s[i]
  <2>1. i + 1 \in 1 .. 1 + n /\ ~(i + 1 <= 1) /\ (i + 1) - 1 = i
    OBVIOUS
  <2> QED
    BY <1>2, <2>1
<1> QED
  BY <1>1, <1>2, <1>3, <1>4

LEMMA AppendElements ==
  ASSUME NEW S, NEW a \in Seq(S), NEW x \in S, NEW q \in Nat, Len(a) = q
  PROVE  /\ Append(a, x) \in Seq(S) /\ Len(Append(a, x)) = q + 1
         /\ Append(a, x) \in [1 .. q + 1 -> S]
         /\ \A i \in 1 .. q : Append(a, x)[i] = a[i]
         /\ Append(a, x)[q + 1] = x
<1>1. /\ Append(a, x) \in Seq(S) /\ Len(Append(a, x)) = q + 1
      /\ \A i \in 1 .. q : Append(a, x)[i] = a[i]
      /\ Append(a, x)[q + 1] = x
  BY AppendProperties
<1>2. Append(a, x) \in [1 .. q + 1 -> S]
  BY <1>1, LenProperties
<1> QED
  BY <1>1, <1>2

\* The first d elements of a sequence
LEMMA FirstElements ==
  ASSUME NEW S, NEW s \in Seq(S), NEW d \in 0 .. Len(s)
  PROVE  /\ SubSeq(s, 1, d) \in Seq(S) /\ Len(SubSeq(s, 1, d)) = d
         /\ \A i \in 1 .. d : SubSeq(s, 1, d)[i] = s[i]
<1>1. PICK n \in Nat : n = Len(s) /\ \A i \in 1 .. n : s[i] \in S
  BY LenProperties
<1>2. 1 \in Int /\ d \in Int /\ d \in Nat /\ \A i \in 1 .. d : s[i] \in S
  BY <1>1
<1>3. /\ SubSeq(s, 1, d) \in Seq(S)
      /\ Len(SubSeq(s, 1, d)) = IF 1 <= d THEN d - 1 + 1 ELSE 0
      /\ \A i \in 1 .. d - 1 + 1 : SubSeq(s, 1, d)[i] = s[1 + i - 1]
  BY <1>2, SubSeqProperties
<1>4. d - 1 + 1 = d /\ \A i \in 1 .. d : 1 + i - 1 = i
  BY <1>2
<1>5. Len(SubSeq(s, 1, d)) = d
  BY <1>2, <1>3
<1> QED
  BY <1>3, <1>4, <1>5
=============================================================================
