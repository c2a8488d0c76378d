---------------------------- MODULE Cache_proof ----------------------------
(***************************************************************************)
(* The arrays of Cache implement LruCache, for every number of ways and    *)
(* sets, every line size and every set of addresses behind the first line. *)
(***************************************************************************)
EXTENDS Cache, Data_proof

-----------------------------------------------------------------------------
(* Where the lines of a row go. An Access moves the line of way            *)
(* Source(row, l, v) to way v, and that of way u to way Target(row, l, u). *)

Source(row, l, v) == IF FoundBefore(row, l, v) THEN v ELSE v - 1
Target(row, l, u) == IF FoundBefore(row, l, u) THEN u ELSE u + 1

\* The way is not the one that a miss evicts.
Stays(k, row, l, u) == row[u] # l /\ (Holds(row, l) \/ u # k - 1)

LEMMA AccessSources ==
  ASSUME NEW k \in Nat \ {0}, NEW L \in SUBSET Nat, NEW row \in Rows(k, L),
         NEW l \in L, l # NoLine, RowHasNoDuplicate(row)
  PROVE  \A v \in Ways(k) \ {0} :
           /\ Source(row, l, v) \in Ways(k)
           /\ AccessRow(k, row, l)[v] = row[Source(row, l, v)]
           /\ Stays(k, row, l, Source(row, l, v))
           /\ \A w \in Ways(k) : v < w => Source(row, l, v) < Source(row, l, w)
<1> SUFFICES ASSUME NEW v \in Ways(k) \ {0}
             PROVE  /\ Source(row, l, v) \in Ways(k)
                    /\ AccessRow(k, row, l)[v] = row[Source(row, l, v)]
                    /\ Stays(k, row, l, Source(row, l, v))
                    /\ \A w \in Ways(k) : v < w => Source(row, l, v) < Source(row, l, w)
  OBVIOUS
<1>1. DOMAIN row = Ways(k) /\ v \in Ways(k) /\ v - 1 \in Ways(k) /\ v \in Nat
  BY DEF Rows, Ways
<1>2. Source(row, l, v) \in Ways(k)
  BY <1>1 DEF Source
<1>3. AccessRow(k, row, l)[v] = row[Source(row, l, v)]
  BY <1>1 DEF AccessRow, Source
<1>4. row[Source(row, l, v)] # l
  <2>1. CASE FoundBefore(row, l, v)
    <3>1. PICK u \in Ways(k) : u < v /\ row[u] = l
      BY <1>1, <2>1 DEF FoundBefore
    <3>2. row[v] # l
      BY <1>1, <3>1 DEF RowHasNoDuplicate, Ways
    <3>3. QED
      BY <2>1, <3>2 DEF Source
  <2>2. CASE ~FoundBefore(row, l, v)
    BY <1>1, <2>2 DEF FoundBefore, Source
  <2>3. QED
    BY <2>1, <2>2
<1>5. Holds(row, l) \/ Source(row, l, v) # k - 1
  <2>1. ~Holds(row, l) => ~FoundBefore(row, l, v)
    BY DEF Holds, FoundBefore
  <2>2. v - 1 # k - 1
    BY <1>1 DEF Ways
  <2>3. QED
    BY <2>1, <2>2 DEF Source
<1>6. ASSUME NEW w \in Ways(k), v < w
      PROVE  Source(row, l, v) < Source(row, l, w)
  <2>1. w \in Nat
    BY DEF Ways
  <2>2. FoundBefore(row, l, v) => FoundBefore(row, l, w)
    BY <1>1, <1>6, <2>1 DEF FoundBefore, Ways
  <2>3. QED
    BY <1>1, <1>6, <2>1, <2>2 DEF Source
<1>7. QED
  BY <1>2, <1>3, <1>4, <1>5, <1>6 DEF Stays

LEMMA AccessTargets ==
  ASSUME NEW k \in Nat \ {0}, NEW L \in SUBSET Nat, NEW row \in Rows(k, L),
         NEW l \in L, NEW u \in Ways(k), Stays(k, row, l, u)
  PROVE  /\ Target(row, l, u) \in Ways(k) \ {0}
         /\ AccessRow(k, row, l)[Target(row, l, u)] = row[u]
         /\ \A w \in Ways(k) : u < w => Target(row, l, u) < Target(row, l, w)
<1>1. DOMAIN row = Ways(k) /\ u \in Nat
  BY DEF Rows, Ways
<1>2. CASE FoundBefore(row, l, u)
  <2>1. PICK p \in Ways(k) : p < u /\ row[p] = l
    BY <1>1, <1>2 DEF FoundBefore
  <2>2. Target(row, l, u) = u /\ u # 0
    BY <1>1, <1>2, <2>1 DEF Target, Ways
  <2>3. AccessRow(k, row, l)[u] = row[u]
    BY <1>2, <2>2 DEF AccessRow
  <2>4. ASSUME NEW w \in Ways(k), u < w
        PROVE  u < Target(row, l, w)
    <3>1. w \in Nat
      BY DEF Ways
    <3>2. QED
      BY <1>1, <2>4, <3>1 DEF Target
  <2>5. QED
    BY <2>2, <2>3, <2>4
<1>3. CASE ~FoundBefore(row, l, u)
  <2>1. u # k - 1
    <3>1. CASE Holds(row, l)
      <4>1. PICK p \in Ways(k) : row[p] = l
        BY <1>1, <3>1 DEF Holds
      <4>2. ~(p < u)
        BY <1>1, <1>3, <4>1 DEF FoundBefore
      <4>3. p # u
        BY <4>1 DEF Stays
      <4>4. p \in Nat /\ p <= k - 1
        BY DEF Ways
      <4>5. QED
        BY <1>1, <4>2, <4>3, <4>4
    <3>2. CASE ~Holds(row, l)
      BY <3>2 DEF Stays
    <3>3. QED
      BY <3>1, <3>2
  <2>2. u + 1 \in Ways(k) \ {0} /\ Target(row, l, u) = u + 1
    BY <1>1, <1>3, <2>1 DEF Ways, Target
  <2>3. ~FoundBefore(row, l, u + 1)
    <3>1. \A p \in Ways(k) : p < u + 1 => p < u \/ p = u
      BY <1>1 DEF Ways
    <3>2. QED
      BY <1>1, <1>3, <3>1 DEF FoundBefore, Stays
  <2>4. AccessRow(k, row, l)[u + 1] = row[u]
    BY <1>1, <2>2, <2>3 DEF AccessRow
  <2>5. ASSUME NEW w \in Ways(k), u < w
        PROVE  u + 1 < Target(row, l, w)
    <3>1. w \in Nat
      BY DEF Ways
    <3>2. w = u + 1 => ~FoundBefore(row, l, w)
      BY <2>3
    <3>3. QED
      BY <1>1, <2>5, <3>1, <3>2 DEF Target
  <2>6. QED
    BY <2>2, <2>4, <2>5
<1>4. QED
  BY <1>2, <1>3

\* Line b stands behind line a in the row.
Above(row, a, b) == \E v, w \in DOMAIN row : v < w /\ row[v] = a /\ row[w] = b

\* An Access keeps the order of the lines, but for the one that it moves to the
\* front, and a miss loses the last one.
LEMMA AccessedRow ==
  ASSUME NEW k \in Nat \ {0}, NEW L \in SUBSET Nat, NEW row \in Rows(k, L),
         NEW l \in L, l # NoLine, RowHasNoDuplicate(row),
         NEW a, NEW b, a # l, b # l
  PROVE  /\ Holds(AccessRow(k, row, l), l)
         /\ Holds(AccessRow(k, row, l), b) <=>
              \E w \in Ways(k) : row[w] = b /\ Stays(k, row, l, w)
         /\ ~Above(AccessRow(k, row, l), b, l)
         /\ Above(AccessRow(k, row, l), l, b) <=>
              \E w \in Ways(k) : row[w] = b /\ Stays(k, row, l, w)
         /\ Above(AccessRow(k, row, l), a, b) <=>
              \E v, w \in Ways(k) : /\ v < w /\ row[v] = a /\ row[w] = b
                                    /\ Stays(k, row, l, v) /\ Stays(k, row, l, w)
<1> DEFINE new == AccessRow(k, row, l)
<1>1. DOMAIN new = Ways(k) /\ new[0] = l /\ 0 \in Ways(k)
  BY DEF AccessRow, Ways
<1>2. \A v \in Ways(k) : v \in Nat /\ (v # 0 => 0 < v /\ ~(v < 0))
  BY DEF Ways
<1>3. \A v \in Ways(k) \ {0} : new[v] # l
  BY AccessSources DEF Stays
<1>4. \A v \in Ways(k) \ {0} :
        /\ Source(row, l, v) \in Ways(k)
        /\ new[v] = row[Source(row, l, v)]
        /\ Stays(k, row, l, Source(row, l, v))
        /\ \A w \in Ways(k) : v < w => Source(row, l, v) < Source(row, l, w)
  BY AccessSources
<1>5. \A u \in Ways(k) : Stays(k, row, l, u) =>
        /\ Target(row, l, u) \in Ways(k) \ {0}
        /\ new[Target(row, l, u)] = row[u]
        /\ \A w \in Ways(k) : u < w => Target(row, l, u) < Target(row, l, w)
  BY AccessTargets
<1> HIDE DEF new
<1>6. Holds(new, l)
  BY <1>1 DEF Holds
<1>7. Holds(new, b) <=> \E w \in Ways(k) : row[w] = b /\ Stays(k, row, l, w)
  <2>1. ASSUME Holds(new, b)
        PROVE  \E w \in Ways(k) : row[w] = b /\ Stays(k, row, l, w)
    <3>1. PICK v \in Ways(k) \ {0} : new[v] = b
      BY <1>1, <2>1 DEF Holds
    <3>2. QED
      BY <1>4, <3>1
  <2>2. ASSUME NEW w \in Ways(k), row[w] = b, Stays(k, row, l, w)
        PROVE  Holds(new, b)
    BY <1>1, <1>5, <2>2 DEF Holds
  <2>3. QED
    BY <2>1, <2>2
<1>8. ~Above(new, b, l)
  BY <1>1, <1>2, <1>3 DEF Above
<1>9. Above(new, l, b) <=> Holds(new, b)
  <2>1. ASSUME Holds(new, b)
        PROVE  Above(new, l, b)
    <3>1. PICK v \in Ways(k) \ {0} : new[v] = b
      BY <1>1, <2>1 DEF Holds
    <3>2. QED
      BY <1>1, <1>2, <3>1 DEF Above
  <2>2. Above(new, l, b) => Holds(new, b)
    BY DEF Above, Holds
  <2>3. QED
    BY <2>1, <2>2
<1>10. ASSUME Above(new, a, b)
       PROVE  \E v, w \in Ways(k) : /\ v < w /\ row[v] = a /\ row[w] = b
                                    /\ Stays(k, row, l, v) /\ Stays(k, row, l, w)
  <2>1. PICK v \in Ways(k), w \in Ways(k) : v < w /\ new[v] = a /\ new[w] = b
    BY <1>1, <1>10 DEF Above
  <2>2. v # 0 /\ w # 0
    BY <1>1, <2>1
  <2>3. QED
    BY <1>4, <2>1, <2>2
<1>11. ASSUME NEW v \in Ways(k), NEW w \in Ways(k), v < w, row[v] = a, row[w] = b,
              Stays(k, row, l, v), Stays(k, row, l, w)
       PROVE  Above(new, a, b)
  BY <1>1, <1>5, <1>11 DEF Above
<1>12. QED
  BY <1>6, <1>7, <1>8, <1>9, <1>10, <1>11 DEF new

\* After an Access there is no valid way behind an invalid one if there was none.
LEMMA AccessRowCompact ==
  ASSUME NEW k \in Nat \ {0}, NEW L \in SUBSET Nat, NEW row \in Rows(k, L),
         NEW l \in L, l # NoLine, RowHasNoDuplicate(row), RowIsCompact(row)
  PROVE  RowIsCompact(AccessRow(k, row, l))
<1> DEFINE new == AccessRow(k, row, l)
<1>1. DOMAIN new = Ways(k) /\ DOMAIN row = Ways(k) /\ new[0] = l
  BY DEF AccessRow, Ways, Rows
<1>2. \A v \in Ways(k) \ {0} :
        /\ Source(row, l, v) \in Ways(k)
        /\ new[v] = row[Source(row, l, v)]
        /\ \A w \in Ways(k) : v < w => Source(row, l, v) < Source(row, l, w)
  BY AccessSources
<1> HIDE DEF new
<1>3. ASSUME NEW v \in Ways(k), NEW w \in Ways(k), v < w, new[w] # NoLine
      PROVE  new[v] # NoLine
  <2>1. w # 0
    BY <1>3 DEF Ways
  <2>2. CASE v = 0
    BY <1>1, <2>2
  <2>3. CASE v # 0
    BY <1>1, <1>2, <1>3, <2>1, <2>3 DEF RowIsCompact
  <2>4. QED
    BY <2>2, <2>3
<1>4. QED
  BY <1>1, <1>3 DEF RowIsCompact, new
-----------------------------------------------------------------------------
(* The same for an Invalidate.                                             *)

SourceBehind(row, l, v) == IF FoundBefore(row, l, v + 1) THEN v + 1 ELSE v
TargetBefore(row, l, u) == IF FoundBefore(row, l, u) THEN u - 1 ELSE u

LEMMA InvalidateSources ==
  ASSUME NEW k \in Nat \ {0}, NEW L \in SUBSET Nat, NEW row \in Rows(k, L),
         NEW l \in L, l # NoLine, RowHasNoDuplicate(row),
         NEW v \in Ways(k), InvalidateRow(k, row, l)[v] # NoLine
  PROVE  /\ SourceBehind(row, l, v) \in Ways(k)
         /\ InvalidateRow(k, row, l)[v] = row[SourceBehind(row, l, v)]
         /\ row[SourceBehind(row, l, v)] # l
         /\ \A w \in Ways(k) : v < w => SourceBehind(row, l, v) < SourceBehind(row, l, w)
<1>1. DOMAIN row = Ways(k) /\ v \in Nat
  BY DEF Rows, Ways
<1>2. v # k - 1 => v + 1 \in Ways(k)
  BY DEF Ways
<1>3. \A w \in Ways(k) : w \in Nat
  BY DEF Ways
<1>4. CASE FoundBefore(row, l, v + 1)
  <2>1. v + 1 \in Ways(k) /\ InvalidateRow(k, row, l)[v] = row[v + 1]
    BY <1>2, <1>4 DEF InvalidateRow
  <2>2. PICK u \in Ways(k) : u < v + 1 /\ row[u] = l
    BY <1>1, <1>4 DEF FoundBefore
  <2>3. row[v + 1] # l
    BY <1>1, <1>3, <2>1, <2>2 DEF RowHasNoDuplicate
  <2>4. ASSUME NEW w \in Ways(k), v < w
        PROVE  v + 1 < SourceBehind(row, l, w)
    <3>1. FoundBefore(row, l, w + 1)
      BY <1>1, <1>3, <2>2, <2>4 DEF FoundBefore
    <3>2. QED
      BY <1>1, <1>3, <2>4, <3>1 DEF SourceBehind
  <2>5. QED
    BY <1>4, <2>1, <2>3, <2>4 DEF SourceBehind
<1>5. CASE ~FoundBefore(row, l, v + 1)
  <2>1. InvalidateRow(k, row, l)[v] = row[v]
    BY <1>5 DEF InvalidateRow
  <2>2. row[v] # l
    BY <1>1, <1>5 DEF FoundBefore
  <2>3. ASSUME NEW w \in Ways(k), v < w
        PROVE  v < SourceBehind(row, l, w)
    BY <1>1, <1>3, <2>3 DEF SourceBehind
  <2>4. QED
    BY <1>5, <2>1, <2>2, <2>3 DEF SourceBehind
<1>6. QED
  BY <1>4, <1>5

LEMMA InvalidateTargets ==
  ASSUME NEW k \in Nat \ {0}, NEW L \in SUBSET Nat, NEW row \in Rows(k, L),
         NEW l \in L, NEW u \in Ways(k), row[u] # l
  PROVE  /\ TargetBefore(row, l, u) \in Ways(k)
         /\ InvalidateRow(k, row, l)[TargetBefore(row, l, u)] = row[u]
         /\ \A w \in Ways(k) : u < w /\ row[w] # l =>
              TargetBefore(row, l, u) < TargetBefore(row, l, w)
<1>1. DOMAIN row = Ways(k) /\ u \in Nat
  BY DEF Rows, Ways
<1>2. \A w \in Ways(k) : w \in Nat
  BY DEF Ways
<1>3. CASE FoundBefore(row, l, u)
  <2>1. PICK p \in Ways(k) : p < u /\ row[p] = l
    BY <1>1, <1>3 DEF FoundBefore
  <2>2. u - 1 \in Ways(k) /\ u - 1 # k - 1 /\ (u - 1) + 1 = u
    BY <1>1, <1>2, <2>1 DEF Ways
  <2>3. InvalidateRow(k, row, l)[u - 1] = row[u]
    BY <1>3, <2>2 DEF InvalidateRow
  <2>4. ASSUME NEW w \in Ways(k), u < w
        PROVE  u - 1 < TargetBefore(row, l, w)
    BY <1>1, <1>2, <2>4 DEF TargetBefore
  <2>5. QED
    BY <1>3, <2>2, <2>3, <2>4 DEF TargetBefore
<1>4. CASE ~FoundBefore(row, l, u)
  <2>1. ~FoundBefore(row, l, u + 1)
    <3>1. \A p \in Ways(k) : p < u + 1 => p < u \/ p = u
      BY <1>1, <1>2
    <3>2. QED
      BY <1>1, <1>4, <3>1 DEF FoundBefore
  <2>2. InvalidateRow(k, row, l)[u] = row[u]
    BY <2>1 DEF InvalidateRow
  <2>3. ASSUME NEW w \in Ways(k), u < w, row[w] # l
        PROVE  u < TargetBefore(row, l, w)
    <3>1. CASE FoundBefore(row, l, w)
      <4>1. PICK p \in Ways(k) : p < w /\ row[p] = l
        BY <1>1, <3>1 DEF FoundBefore
      <4>2. p > u
        BY <1>1, <1>2, <1>4, <4>1 DEF FoundBefore
      <4>3. QED
        BY <1>1, <1>2, <3>1, <4>1, <4>2 DEF TargetBefore
    <3>2. CASE ~FoundBefore(row, l, w)
      BY <2>3, <3>2 DEF TargetBefore
    <3>3. QED
      BY <3>1, <3>2
  <2>4. QED
    BY <1>4, <2>2, <2>3 DEF TargetBefore
<1>5. QED
  BY <1>3, <1>4

\* An Invalidate keeps the order of the other lines and loses its own.
LEMMA InvalidatedRow ==
  ASSUME NEW k \in Nat \ {0}, NEW L \in SUBSET Nat, NEW row \in Rows(k, L),
         NEW l \in L, l # NoLine, RowHasNoDuplicate(row),
         NEW a, NEW b, a # NoLine, b # NoLine
  PROVE  /\ Holds(InvalidateRow(k, row, l), b) <=> Holds(row, b) /\ b # l
         /\ Above(InvalidateRow(k, row, l), a, b) <=> Above(row, a, b) /\ a # l /\ b # l
<1> DEFINE new == InvalidateRow(k, row, l)
<1>1. DOMAIN new = Ways(k) /\ DOMAIN row = Ways(k)
  BY DEF InvalidateRow, Rows
<1>2. \A v \in Ways(k) : new[v] # NoLine =>
        /\ SourceBehind(row, l, v) \in Ways(k)
        /\ new[v] = row[SourceBehind(row, l, v)]
        /\ row[SourceBehind(row, l, v)] # l
        /\ \A w \in Ways(k) : v < w => SourceBehind(row, l, v) < SourceBehind(row, l, w)
  BY InvalidateSources
<1>3. \A u \in Ways(k) : row[u] # l =>
        /\ TargetBefore(row, l, u) \in Ways(k)
        /\ new[TargetBefore(row, l, u)] = row[u]
        /\ \A w \in Ways(k) : u < w /\ row[w] # l =>
             TargetBefore(row, l, u) < TargetBefore(row, l, w)
  BY InvalidateTargets
<1> HIDE DEF new
<1>4. Holds(new, b) => Holds(row, b) /\ b # l
  BY <1>1, <1>2 DEF Holds
<1>5. Holds(row, b) /\ b # l => Holds(new, b)
  BY <1>1, <1>3 DEF Holds
<1>6. ASSUME Above(new, a, b)
      PROVE  Above(row, a, b) /\ a # l /\ b # l
  <2>1. PICK v \in Ways(k), w \in Ways(k) : v < w /\ new[v] = a /\ new[w] = b
    BY <1>1, <1>6 DEF Above
  <2>2. QED
    BY <1>1, <1>2, <2>1 DEF Above
<1>7. ASSUME Above(row, a, b), a # l, b # l
      PROVE  Above(new, a, b)
  <2>1. PICK v \in Ways(k), w \in Ways(k) : v < w /\ row[v] = a /\ row[w] = b
    BY <1>1, <1>7 DEF Above
  <2>2. QED
    BY <1>1, <1>3, <1>7, <2>1 DEF Above
<1>8. QED
  BY <1>4, <1>5, <1>6, <1>7 DEF new

LEMMA InvalidateRowCompact ==
  ASSUME NEW k \in Nat \ {0}, NEW L \in SUBSET Nat, NEW row \in Rows(k, L),
         NEW l \in L, l # NoLine, RowHasNoDuplicate(row), RowIsCompact(row)
  PROVE  RowIsCompact(InvalidateRow(k, row, l))
<1> DEFINE new == InvalidateRow(k, row, l)
<1>1. DOMAIN new = Ways(k) /\ DOMAIN row = Ways(k)
  BY DEF InvalidateRow, Rows
<1> SUFFICES ASSUME NEW v \in Ways(k), NEW w \in Ways(k), v < w, new[w] # NoLine
             PROVE  new[v] # NoLine
  BY <1>1 DEF RowIsCompact
<1>2. v \in Nat /\ w \in Nat /\ v + 1 \in Ways(k) /\ v + 1 <= w
  BY DEF Ways
<1>3. v # k - 1
  BY <1>2 DEF Ways
<1>4. SourceBehind(row, l, w) \in Ways(k) /\ new[w] = row[SourceBehind(row, l, w)]
  BY InvalidateSources
<1>5. CASE FoundBefore(row, l, v + 1)
  <2>1. FoundBefore(row, l, w + 1)
    BY <1>1, <1>2, <1>5 DEF FoundBefore, Ways
  <2>2. new[v] = row[v + 1] /\ SourceBehind(row, l, w) = w + 1
    BY <1>3, <1>5, <2>1 DEF InvalidateRow, SourceBehind
  <2>3. QED
    BY <1>1, <1>2, <1>4, <2>2 DEF RowIsCompact
<1>6. CASE ~FoundBefore(row, l, v + 1)
  <2>1. new[v] = row[v] /\ SourceBehind(row, l, w) \in {w, w + 1}
    BY <1>6 DEF InvalidateRow, SourceBehind
  <2>2. v < SourceBehind(row, l, w)
    BY <1>2, <2>1
  <2>3. QED
    BY <1>1, <1>4, <2>1, <2>2 DEF RowIsCompact
<1>7. QED
  BY <1>5, <1>6
-----------------------------------------------------------------------------
(* The line that a miss evicts, if any, and the two operations in terms of *)
(* lines.                                                                  *)

Evicted(k, row, l) == IF Holds(row, l) THEN {} ELSE {row[k - 1]} \ {NoLine}

LEMMA AccessedLines ==
  ASSUME NEW k \in Nat \ {0}, NEW L \in SUBSET Nat, NEW row \in Rows(k, L),
         NEW l \in L, l # NoLine, RowHasNoDuplicate(row),
         NEW a, NEW b, a # NoLine, b # NoLine
  PROVE  /\ Holds(AccessRow(k, row, l), b) <=>
              b = l \/ (Holds(row, b) /\ b \notin Evicted(k, row, l))
         /\ Above(AccessRow(k, row, l), a, b) <=>
              /\ b # l /\ b \notin Evicted(k, row, l)
              /\ \/ a = l /\ Holds(row, b)
                 \/ a # l /\ a \notin Evicted(k, row, l) /\ Above(row, a, b)
<1> DEFINE new == AccessRow(k, row, l)
           Kept(x) == x # l /\ x \notin Evicted(k, row, l)
<1>1. DOMAIN new = Ways(k) /\ DOMAIN row = Ways(k) /\ k - 1 \in Ways(k)
  BY DEF AccessRow, Rows, Ways
<1>2. \A u \in Ways(k) : row[u] # NoLine => (Stays(k, row, l, u) <=> Kept(row[u]))
  BY <1>1 DEF Stays, Evicted, RowHasNoDuplicate
<1>3. \A v \in Ways(k) : ~(v < v)
  BY DEF Ways
<1>4. Holds(new, l)
  <2>1. 0 \in Ways(k) /\ new[0] = l
    BY DEF AccessRow, Ways
  <2>2. QED
    BY <1>1, <2>1 DEF Holds
<1>5. ~Above(new, l, l)
  <2>1. RowHasNoDuplicate(new)
    BY AccessRowNoDuplicate
  <2>2. QED
    BY <1>1, <1>3, <2>1 DEF Above, RowHasNoDuplicate
<1>6. ASSUME b # l
      PROVE  /\ Holds(new, b) <=> Holds(row, b) /\ Kept(b)
             /\ ~Above(new, b, l)
             /\ Above(new, l, b) <=> Holds(row, b) /\ Kept(b)
  <2>1. /\ Holds(new, b) <=> \E w \in Ways(k) : row[w] = b /\ Stays(k, row, l, w)
        /\ ~Above(new, b, l)
        /\ Above(new, l, b) <=> \E w \in Ways(k) : row[w] = b /\ Stays(k, row, l, w)
    <3>1. \A c : c # l =>
            /\ Holds(new, b) <=> \E w \in Ways(k) : row[w] = b /\ Stays(k, row, l, w)
            /\ ~Above(new, b, l)
            /\ Above(new, l, b) <=> \E w \in Ways(k) : row[w] = b /\ Stays(k, row, l, w)
      BY <1>6, AccessedRow
    <3>2. QED
      BY <1>6, <3>1
  <2>2. (\E w \in Ways(k) : row[w] = b /\ Stays(k, row, l, w)) <=> Holds(row, b) /\ Kept(b)
    BY <1>1, <1>2 DEF Holds
  <2>3. QED
    BY <2>1, <2>2
<1>7. ASSUME a # l, b # l
      PROVE  Above(new, a, b) <=> Above(row, a, b) /\ Kept(a) /\ Kept(b)
  <2>1. Above(new, a, b) <=>
          \E v, w \in Ways(k) : /\ v < w /\ row[v] = a /\ row[w] = b
                                /\ Stays(k, row, l, v) /\ Stays(k, row, l, w)
    BY <1>7, AccessedRow
  <2>2. (\E v, w \in Ways(k) : /\ v < w /\ row[v] = a /\ row[w] = b
                               /\ Stays(k, row, l, v) /\ Stays(k, row, l, w))
           <=> Above(row, a, b) /\ Kept(a) /\ Kept(b)
    BY <1>1, <1>2 DEF Above
  <2>3. QED
    BY <2>1, <2>2
<1>8. Holds(new, b) <=> b = l \/ (Holds(row, b) /\ b \notin Evicted(k, row, l))
  BY <1>4, <1>6
<1>9. CASE b = l
  <2>1. a # l => ~Above(new, a, l)
    BY AccessedRow
  <2>2. QED
    BY <1>5, <1>8, <1>9, <2>1
<1>10. CASE b # l
  BY <1>6, <1>7, <1>8, <1>10
<1>11. QED
  BY <1>9, <1>10

LEMMA LinesAreNumbers == Lines \subseteq Nat \ {NoLine}
<1>1. ASSUME NEW a \in Nat, a >= kLineSize
      PROVE  a \div kLineSize \in Nat \ {0}
  BY <1>1, LineSizeAssumption
<1>2. QED
  BY <1>1, AddrsAssumption DEF Lines, Line, NoLine

AllLines == Lines \cup {NoLine}

\* The order of use in a cache, of which UsedLater is that of m_Sets.
UsedLaterIn(sets) ==
  {p \in ResidentLines(sets) \X ResidentLines(sets) :
     \E s \in Sets(kSetCount) : \E v, w \in Ways(kWays) :
       v < w /\ p = <<sets[s][v], sets[s][w]>>}

IndexOf(l) == SetIndex(kSetCount, l)

\* A line can only be in the set of its number.
LEMMA CachedLines ==
  ASSUME NEW sets \in Caches(kWays, kSetCount, AllLines), WellFormed(kSetCount, sets),
         NEW a, NEW b
  PROVE  /\ b \in ResidentLines(sets) <=> b \in Lines /\ Holds(sets[IndexOf(b)], b)
         /\ <<a, b>> \in UsedLaterIn(sets) <=>
              /\ a \in Lines /\ b \in Lines /\ IndexOf(a) = IndexOf(b)
              /\ Above(sets[IndexOf(b)], a, b)
<1>1. DOMAIN sets = Sets(kSetCount)
  BY DEF Caches
<1>2. \A s \in Sets(kSetCount) : DOMAIN sets[s] = Ways(kWays) /\ sets[s] \in Rows(kWays, AllLines)
  BY DEF Caches, Rows
<1>3. \A l \in Lines : IndexOf(l) \in Sets(kSetCount) /\ l # NoLine
  BY LinesAreNumbers, SetIndexInRange, SetCountAssumption DEF IndexOf
<1>4. \A s \in Sets(kSetCount), w \in Ways(kWays) :
        sets[s][w] # NoLine => sets[s][w] \in Lines /\ IndexOf(sets[s][w]) = s
  <2>1. \A s \in Sets(kSetCount), w \in Ways(kWays) : sets[s][w] \in AllLines
    BY DEF Caches, Rows
  <2>2. QED
    BY <1>1, <1>2, <2>1 DEF WellFormed, RowIsPlaced, IndexOf, AllLines
<1>5. \A x : x \in ResidentLines(sets) <=>
        x # NoLine /\ \E s \in Sets(kSetCount), w \in Ways(kWays) : sets[s][w] = x
  BY <1>1, <1>2 DEF ResidentLines, Resident
<1>6. \A x : x \in ResidentLines(sets) <=> x \in Lines /\ Holds(sets[IndexOf(x)], x)
  BY <1>2, <1>3, <1>4, <1>5 DEF Holds
<1>7. ASSUME <<a, b>> \in UsedLaterIn(sets)
      PROVE  /\ a \in Lines /\ b \in Lines /\ IndexOf(a) = IndexOf(b)
             /\ Above(sets[IndexOf(b)], a, b)
  <2>1. a \in ResidentLines(sets) /\ b \in ResidentLines(sets)
    BY <1>7 DEF UsedLaterIn
  <2>2. PICK s \in Sets(kSetCount), v \in Ways(kWays), w \in Ways(kWays) :
          v < w /\ a = sets[s][v] /\ b = sets[s][w]
    BY <1>7 DEF UsedLaterIn
  <2>3. IndexOf(a) = s /\ IndexOf(b) = s
    BY <1>4, <1>5, <2>1, <2>2
  <2>4. QED
    BY <1>2, <1>6, <2>1, <2>2, <2>3 DEF Above
<1>8. ASSUME a \in Lines, b \in Lines, IndexOf(a) = IndexOf(b), Above(sets[IndexOf(b)], a, b)
      PROVE  <<a, b>> \in UsedLaterIn(sets)
  <2>1. PICK v \in Ways(kWays), w \in Ways(kWays) :
          v < w /\ sets[IndexOf(b)][v] = a /\ sets[IndexOf(b)][w] = b
    BY <1>2, <1>3, <1>8 DEF Above
  <2>2. a \in ResidentLines(sets) /\ b \in ResidentLines(sets)
    BY <1>3, <1>5, <1>8, <2>1
  <2>3. QED
    BY <1>3, <1>8, <2>1, <2>2 DEF UsedLaterIn
<1>9. QED
  BY <1>6, <1>7, <1>8

\* No way of a row is valid behind an invalid one, so that a miss evicts a line
\* only from a full row.
Compact(sets) == \A s \in DOMAIN sets : RowIsCompact(sets[s])

Usable(sets) ==
  sets \in Caches(kWays, kSetCount, AllLines) /\ WellFormed(kSetCount, sets) /\ Compact(sets)

LEMMA RowOf ==
  ASSUME NEW sets, Usable(sets), NEW l \in Lines
  PROVE  /\ IndexOf(l) \in Sets(kSetCount) /\ l \in Nat /\ l # NoLine /\ l \in AllLines
         /\ AllLines \in SUBSET Nat /\ NoLine \in AllLines
         /\ DOMAIN sets = Sets(kSetCount)
         /\ sets[IndexOf(l)] \in Rows(kWays, AllLines)
         /\ RowHasNoDuplicate(sets[IndexOf(l)]) /\ RowIsCompact(sets[IndexOf(l)])
<1>1. AllLines \in SUBSET Nat /\ l \in Nat /\ l # NoLine /\ l \in AllLines /\ NoLine \in AllLines
  BY LinesAreNumbers DEF AllLines, NoLine
<1>2. IndexOf(l) \in Sets(kSetCount)
  BY <1>1, SetIndexInRange, SetCountAssumption DEF IndexOf
<1>3. DOMAIN sets = Sets(kSetCount) /\ sets[IndexOf(l)] \in Rows(kWays, AllLines)
  BY <1>2 DEF Usable, Caches
<1>4. QED
  BY <1>1, <1>2, <1>3 DEF Usable, WellFormed, Compact

LEMMA AccessKeepsUsable ==
  ASSUME NEW sets, Usable(sets), NEW l \in Lines
  PROVE  Usable(CacheAccess(kWays, kSetCount, sets, l))
<1> DEFINE new == AccessRow(kWays, sets[IndexOf(l)], l)
<1>1. /\ CacheAccess(kWays, kSetCount, sets, l) \in Caches(kWays, kSetCount, AllLines)
      /\ WellFormed(kSetCount, CacheAccess(kWays, kSetCount, sets, l))
  BY RowOf, CacheTypes, CacheWellFormed, WaysAssumption, SetCountAssumption DEF Usable
<1>2. RowIsCompact(new)
  BY RowOf, AccessRowCompact, WaysAssumption
<1>3. CacheAccess(kWays, kSetCount, sets, l) = [sets EXCEPT ![IndexOf(l)] = new]
  BY DEF CacheAccess, IndexOf
<1> HIDE DEF new
<1>4. Compact(CacheAccess(kWays, kSetCount, sets, l))
  BY <1>2, <1>3 DEF Compact, Usable
<1>5. QED
  BY <1>1, <1>4 DEF Usable

LEMMA InvalidateKeepsUsable ==
  ASSUME NEW sets, Usable(sets), NEW l \in Lines
  PROVE  Usable(CacheInvalidate(kWays, kSetCount, sets, l))
<1> DEFINE new == InvalidateRow(kWays, sets[IndexOf(l)], l)
<1>1. /\ CacheInvalidate(kWays, kSetCount, sets, l) \in Caches(kWays, kSetCount, AllLines)
      /\ WellFormed(kSetCount, CacheInvalidate(kWays, kSetCount, sets, l))
  BY RowOf, CacheTypes, CacheWellFormed, WaysAssumption, SetCountAssumption DEF Usable
<1>2. RowIsCompact(new)
  BY RowOf, InvalidateRowCompact, WaysAssumption
<1>3. CacheInvalidate(kWays, kSetCount, sets, l) = [sets EXCEPT ![IndexOf(l)] = new]
  BY DEF CacheInvalidate, IndexOf
<1> HIDE DEF new
<1>4. Compact(CacheInvalidate(kWays, kSetCount, sets, l))
  BY <1>2, <1>3 DEF Compact, Usable
<1>5. QED
  BY <1>1, <1>4 DEF Usable

\* What an Access of line l evicts from the whole cache.
Victims(sets, l) == Evicted(kWays, sets[IndexOf(l)], l)

\* An evicted line was in the set of the line that takes its place.
LEMMA VictimsAreCached ==
  ASSUME NEW sets, Usable(sets), NEW l \in Lines, NEW x \in Victims(sets, l)
  PROVE  x \in ResidentLines(sets) /\ IndexOf(x) = IndexOf(l) /\ x # l
<1> DEFINE row == sets[IndexOf(l)]
<1>1. x = row[kWays - 1] /\ x # NoLine /\ ~Holds(row, l)
  BY DEF Victims, Evicted
<1>2. kWays - 1 \in DOMAIN row
  BY RowOf, WaysAssumption DEF Rows, Ways
<1>3. IndexOf(x) = IndexOf(l)
  BY <1>1, <1>2, RowOf DEF Usable, WellFormed, RowIsPlaced, IndexOf
<1>4. x \in AllLines
  BY <1>1, <1>2, RowOf DEF Rows
<1>5. x \in Lines /\ Holds(row, x)
  BY <1>1, <1>2, <1>4 DEF AllLines, Holds
<1>6. QED
  BY <1>1, <1>3, <1>5, CachedLines DEF Usable

\* An Access of l, in terms of the abstract state.
LEMMA AccessedCache ==
  ASSUME NEW sets, Usable(sets), NEW l \in Lines, NEW a, NEW b
  PROVE  LET new == CacheAccess(kWays, kSetCount, sets, l)
             kept == ResidentLines(sets) \ (Victims(sets, l) \cup {l})
         IN /\ b \in ResidentLines(new) <=> b = l \/ b \in kept
            /\ <<a, b>> \in UsedLaterIn(new) <=>
                 /\ b \in kept
                 /\ \/ a = l /\ IndexOf(b) = IndexOf(l)
                    \/ a \in kept /\ <<a, b>> \in UsedLaterIn(sets)
<1> DEFINE new == CacheAccess(kWays, kSetCount, sets, l)
           kept == ResidentLines(sets) \ (Victims(sets, l) \cup {l})
           i == IndexOf(l)
<1>1. Usable(new)
  BY AccessKeepsUsable
<1>2. new = [sets EXCEPT ![i] = AccessRow(kWays, sets[i], l)]
  BY DEF CacheAccess, IndexOf
<1>3. /\ new[i] = AccessRow(kWays, sets[i], l)
      /\ \A x \in Lines : IndexOf(x) # i => new[IndexOf(x)] = sets[IndexOf(x)]
  BY <1>2, RowOf
<1>4. \A x \in Lines : x # NoLine
  BY LinesAreNumbers
<1> HIDE DEF new, i
<1>5. ASSUME NEW x
      PROVE  x \in ResidentLines(new) <=> x = l \/ x \in kept
  <2>1. x \in ResidentLines(new) <=> x \in Lines /\ Holds(new[IndexOf(x)], x)
    BY <1>1, CachedLines DEF Usable
  <2>2. x \in ResidentLines(sets) <=> x \in Lines /\ Holds(sets[IndexOf(x)], x)
    BY CachedLines DEF Usable
  <2>3. CASE x \in Lines /\ IndexOf(x) = i
    <3>1. Holds(new[i], x) <=> x = l \/ (Holds(sets[i], x) /\ x \notin Victims(sets, l))
      <4>1. \A c : c # NoLine =>
              (Holds(AccessRow(kWays, sets[i], l), x) <=>
                 x = l \/ (Holds(sets[i], x) /\ x \notin Evicted(kWays, sets[i], l)))
        BY <1>4, <2>3, AccessedLines, RowOf, WaysAssumption DEF i
      <4>2. QED
        BY <1>3, <1>4, <2>3, <4>1 DEF Victims, i
    <3>2. QED
      BY <2>1, <2>2, <2>3, <3>1
  <2>4. CASE x \in Lines /\ IndexOf(x) # i
    <3>1. x # l /\ x \notin Victims(sets, l)
      BY <2>4, VictimsAreCached DEF i
    <3>2. QED
      BY <1>3, <2>1, <2>2, <2>4, <3>1
  <2>5. CASE x \notin Lines
    BY <2>1, <2>2, <2>5
  <2>6. QED
    BY <2>3, <2>4, <2>5
<1>6. <<a, b>> \in UsedLaterIn(new) <=> /\ a \in Lines /\ b \in Lines /\ IndexOf(a) = IndexOf(b)
                                        /\ Above(new[IndexOf(b)], a, b)
  BY <1>1, CachedLines DEF Usable
<1>7. <<a, b>> \in UsedLaterIn(sets) <=> /\ a \in Lines /\ b \in Lines /\ IndexOf(a) = IndexOf(b)
                                         /\ Above(sets[IndexOf(b)], a, b)
  BY CachedLines DEF Usable
<1>8. \A x : x \in ResidentLines(sets) <=> x \in Lines /\ Holds(sets[IndexOf(x)], x)
  BY CachedLines DEF Usable
<1>9. <<a, b>> \in UsedLaterIn(sets) => a \in ResidentLines(sets) /\ b \in ResidentLines(sets)
  BY DEF UsedLaterIn
<1>10. <<a, b>> \in UsedLaterIn(new) <=>
         /\ b \in kept
         /\ \/ a = l /\ IndexOf(b) = i
            \/ a \in kept /\ <<a, b>> \in UsedLaterIn(sets)
  <2>1. CASE a \in Lines /\ b \in Lines /\ IndexOf(a) = i /\ IndexOf(b) = i
    <3>1. Above(new[i], a, b) <=>
            /\ b # l /\ b \notin Victims(sets, l)
            /\ \/ a = l /\ Holds(sets[i], b)
               \/ a # l /\ a \notin Victims(sets, l) /\ Above(sets[i], a, b)
      BY <1>3, <1>4, <2>1, AccessedLines, RowOf, WaysAssumption DEF Victims, i
    <3>2. CASE a = l
      BY <1>6, <1>8, <2>1, <3>1, <3>2
    <3>3. CASE a # l
      BY <1>6, <1>7, <1>9, <2>1, <3>1, <3>3
    <3>4. QED
      BY <3>2, <3>3
  <2>2. CASE a \in Lines /\ b \in Lines /\ IndexOf(a) = IndexOf(b) /\ IndexOf(b) # i
    <3>1. a # l /\ b # l /\ a \notin Victims(sets, l) /\ b \notin Victims(sets, l)
      BY <2>2, VictimsAreCached DEF i
    <3>2. QED
      BY <1>3, <1>6, <1>7, <1>9, <2>2, <3>1
  <2>3. CASE ~(a \in Lines /\ b \in Lines /\ IndexOf(a) = IndexOf(b))
    <3>1. <<a, b>> \notin UsedLaterIn(new) /\ <<a, b>> \notin UsedLaterIn(sets)
      BY <1>6, <1>7, <2>3
    <3>2. ~(b \in kept /\ a = l /\ IndexOf(b) = i)
      BY <1>8, <2>3 DEF i
    <3>3. QED
      BY <3>1, <3>2
  <2>4. QED
    BY <2>1, <2>2, <2>3
<1>11. QED
  BY <1>5, <1>10 DEF new, i

\* An Invalidate of l.
LEMMA InvalidatedCache ==
  ASSUME NEW sets, Usable(sets), NEW l \in Lines, NEW a, NEW b
  PROVE  LET new == CacheInvalidate(kWays, kSetCount, sets, l)
         IN /\ b \in ResidentLines(new) <=> b \in ResidentLines(sets) /\ b # l
            /\ <<a, b>> \in UsedLaterIn(new) <=> <<a, b>> \in UsedLaterIn(sets) /\ a # l /\ b # l
<1> DEFINE new == CacheInvalidate(kWays, kSetCount, sets, l)
           i == IndexOf(l)
<1>1. Usable(new)
  BY InvalidateKeepsUsable
<1>2. new = [sets EXCEPT ![i] = InvalidateRow(kWays, sets[i], l)]
  BY DEF CacheInvalidate, IndexOf
<1>3. /\ new[i] = InvalidateRow(kWays, sets[i], l)
      /\ \A x \in Lines : IndexOf(x) # i => new[IndexOf(x)] = sets[IndexOf(x)]
  BY <1>2, RowOf
<1>4. \A x \in Lines : x # NoLine
  BY LinesAreNumbers
<1> HIDE DEF new, i
<1>5. /\ b \in ResidentLines(new) <=> b \in Lines /\ Holds(new[IndexOf(b)], b)
      /\ b \in ResidentLines(sets) <=> b \in Lines /\ Holds(sets[IndexOf(b)], b)
      /\ <<a, b>> \in UsedLaterIn(new) <=> /\ a \in Lines /\ b \in Lines /\ IndexOf(a) = IndexOf(b)
                                           /\ Above(new[IndexOf(b)], a, b)
      /\ <<a, b>> \in UsedLaterIn(sets) <=> /\ a \in Lines /\ b \in Lines /\ IndexOf(a) = IndexOf(b)
                                            /\ Above(sets[IndexOf(b)], a, b)
  BY <1>1, CachedLines DEF Usable
<1>6. /\ sets[i] \in Rows(kWays, AllLines) /\ RowHasNoDuplicate(sets[i])
      /\ AllLines \in SUBSET Nat /\ l \in AllLines /\ l # NoLine
  BY RowOf DEF i
<1>7. ASSUME NEW x \in Lines, NEW y \in Lines
      PROVE  /\ Holds(new[i], y) <=> Holds(sets[i], y) /\ y # l
             /\ Above(new[i], x, y) <=> Above(sets[i], x, y) /\ x # l /\ y # l
  <2>1. PICK row \in Rows(kWays, AllLines) : row = sets[i] /\ RowHasNoDuplicate(row)
    BY <1>6
  <2>2. x # NoLine /\ y # NoLine
    BY <1>4
  <2>3. /\ Holds(InvalidateRow(kWays, row, l), y) <=> Holds(row, y) /\ y # l
        /\ Above(InvalidateRow(kWays, row, l), x, y) <=> Above(row, x, y) /\ x # l /\ y # l
    BY <1>6, <2>1, <2>2, InvalidatedRow, WaysAssumption
  <2>4. InvalidateRow(kWays, row, l) = new[i]
    BY <1>3, <2>1
  <2> QED
    BY <2>1, <2>3, <2>4
<1>8. ASSUME b \in Lines, IndexOf(b) = i
      PROVE  Holds(new[i], b) <=> Holds(sets[i], b) /\ b # l
  BY <1>7, <1>8
<1>9. ASSUME a \in Lines, b \in Lines, IndexOf(a) = i, IndexOf(b) = i
      PROVE  Above(new[i], a, b) <=> Above(sets[i], a, b) /\ a # l /\ b # l
  BY <1>7, <1>9
<1>10. \A x : IndexOf(x) # i => x # l
  BY DEF i
<1>11. b \in ResidentLines(new) <=> b \in ResidentLines(sets) /\ b # l
  BY <1>3, <1>5, <1>8, <1>10
<1>12. <<a, b>> \in UsedLaterIn(new) <=> <<a, b>> \in UsedLaterIn(sets) /\ a # l /\ b # l
  BY <1>3, <1>5, <1>9, <1>10
<1>13. QED
  BY <1>11, <1>12 DEF new
-----------------------------------------------------------------------------
(* The size of a row.                                                      *)

LEMMA RowSize ==
  ASSUME NEW k \in Nat \ {0}, NEW L \in SUBSET Nat, NEW row \in Rows(k, L),
         RowHasNoDuplicate(row), RowIsCompact(row)
  PROVE  /\ IsFiniteSet(Resident(row))
         /\ row[k - 1] = NoLine => Cardinality(Resident(row)) < k
         /\ row[k - 1] # NoLine => Cardinality(Resident(row)) = k
<1> DEFINE used == {w \in Ways(k) : row[w] # NoLine}
           f == [w \in used |-> row[w]]
<1>1. DOMAIN row = Ways(k) /\ k - 1 \in Ways(k)
  BY DEF Rows, Ways
<1>2. IsFiniteSet(Ways(k)) /\ Cardinality(Ways(k)) = k
  <2>1. IsFiniteSet(0 .. k - 1) /\ Cardinality(0 .. k - 1) = IF 0 > k - 1 THEN 0 ELSE (k - 1) - 0 + 1
    BY FS_Interval
  <2>2. QED
    BY <2>1 DEF Ways
<1>3. IsFiniteSet(used)
  BY <1>2, FS_Subset
<1>4. f \in Surjection(used, Resident(row)) /\ f \in Injection(used, Resident(row))
  <2>1. f \in [used -> Resident(row)]
    BY <1>1 DEF Resident
  <2>2. \A x \in Resident(row) : \E w \in used : f[w] = x
    BY <1>1 DEF Resident
  <2>3. \A v, w \in used : f[v] = f[w] => v = w
    BY <1>1 DEF RowHasNoDuplicate
  <2>4. QED
    BY <2>1, <2>2, <2>3 DEF Surjection, Injection, IsInjective
<1> HIDE DEF f
<1>5. IsFiniteSet(Resident(row)) /\ Cardinality(Resident(row)) = Cardinality(used)
  BY <1>3, <1>4, FS_Surjection
<1>6. ASSUME row[k - 1] = NoLine
      PROVE  Cardinality(used) < k
  <2>1. used \subseteq 0 .. k - 2
    BY <1>1, <1>6 DEF Ways
  <2>2. IsFiniteSet(0 .. k - 2) /\ Cardinality(0 .. k - 2) = k - 1
    <3>1. IsFiniteSet(0 .. k - 2)
            /\ Cardinality(0 .. k - 2) = IF 0 > k - 2 THEN 0 ELSE (k - 2) - 0 + 1
      BY FS_Interval
    <3>2. QED
      BY <3>1
  <2>3. Cardinality(used) <= k - 1
    BY <2>1, <2>2, FS_Subset
  <2>4. Cardinality(used) \in Nat
    BY <1>3, FS_CardinalityType
  <2>5. QED
    BY <2>3, <2>4
<1>7. ASSUME row[k - 1] # NoLine
      PROVE  used = Ways(k)
  <2>1. \A w \in Ways(k) : w = k - 1 \/ w < k - 1
    BY DEF Ways
  <2>2. QED
    BY <1>1, <1>7, <2>1 DEF RowIsCompact
<1>8. QED
  BY <1>2, <1>5, <1>6, <1>7
-----------------------------------------------------------------------------
(* The refinement.                                                         *)

\* Which lines compete with l for a way: those in its row.
LEMMA PeersOf ==
  ASSUME Usable(m_Sets), NEW l \in Lines
  PROVE  /\ Lru!Peers(l) = {x \in ResidentLines(m_Sets) : IndexOf(x) = IndexOf(l) /\ x # l}
         /\ Lru!Peers(l) = Resident(m_Sets[IndexOf(l)]) \ {l}
<1>1. \A x : x \in ResidentLines(m_Sets) <=> x \in Lines /\ Holds(m_Sets[IndexOf(x)], x)
  BY CachedLines DEF Usable
<1>2. Lru!Peers(l) = {x \in ResidentLines(m_Sets) : IndexOf(x) = IndexOf(l) /\ x # l}
  BY <1>1 DEF Lru!Peers, IndexOf
<1>3. ASSUME NEW x
      PROVE  x \in ResidentLines(m_Sets) /\ IndexOf(x) = IndexOf(l)
               <=> x \in Resident(m_Sets[IndexOf(l)])
  <2>1. ASSUME x \in Resident(m_Sets[IndexOf(l)])
        PROVE  x \in Lines /\ IndexOf(x) = IndexOf(l) /\ Holds(m_Sets[IndexOf(l)], x)
    <3>1. PICK w \in DOMAIN m_Sets[IndexOf(l)] : x = m_Sets[IndexOf(l)][w] /\ x # NoLine
      BY <2>1 DEF Resident
    <3>2. x \in AllLines
      BY <3>1, RowOf DEF Rows
    <3>3. IndexOf(x) = IndexOf(l)
      BY <3>1, RowOf DEF Usable, WellFormed, RowIsPlaced, IndexOf
    <3>4. QED
      BY <3>1, <3>2, <3>3 DEF AllLines, Holds
  <2>2. ASSUME x \in Lines, IndexOf(x) = IndexOf(l), Holds(m_Sets[IndexOf(x)], x)
        PROVE  x \in Resident(m_Sets[IndexOf(l)])
    BY <2>2, LinesAreNumbers DEF Resident, Holds
  <2>3. QED
    BY <1>1, <2>1, <2>2
<1>4. QED
  BY <1>2, <1>3

\* The invariant: every row has each line once, where it belongs, and is compact.
CacheInv == TypeOK /\ Usable(m_Sets)

LEMMA CacheInitially == Init => CacheInv
<1> SUFFICES ASSUME Init
             PROVE  CacheInv
  OBVIOUS
<1>1. /\ m_Sets \in Caches(kWays, kSetCount, AllLines)
      /\ WellFormed(kSetCount, m_Sets)
  <2>1. NoLine \in AllLines
    BY DEF AllLines
  <2>2. QED
    BY <2>1, EmptyCacheIsACache, WaysAssumption, SetCountAssumption DEF Init
<1>2. Compact(m_Sets)
  <2>1. \A s \in DOMAIN m_Sets : \A w \in DOMAIN m_Sets[s] : m_Sets[s][w] = NoLine
    BY DEF Init, EmptyCache
  <2>2. QED
    BY <2>1 DEF Compact, RowIsCompact
<1>3. QED
  BY <1>1, <1>2 DEF CacheInv, Usable, TypeOK, AllLines, Init, Calls

LEMMA CachePreserved == CacheInv /\ [Next]_vars => CacheInv'
<1> SUFFICES ASSUME CacheInv, [Next]_vars
             PROVE  CacheInv'
  OBVIOUS
<1>1. ASSUME NEW addr \in Addrs, Access(addr)
      PROVE  CacheInv'
  <2>1. Line(addr) \in Lines
    BY DEF Lines
  <2>2. Usable(m_Sets')
    BY <1>1, <2>1, AccessKeepsUsable DEF CacheInv, Access
  <2>3. call' \in Calls
    <3>1. CacheHits(kSetCount, m_Sets, Line(addr)) \in BOOLEAN
      BY DEF CacheHits, Holds
    <3>2. QED
      BY <1>1, <2>1, <3>1 DEF Access, Calls
  <2>4. QED
    BY <2>2, <2>3 DEF CacheInv, TypeOK, Usable, AllLines
<1>2. ASSUME NEW addr \in Addrs, Invalidate(addr)
      PROVE  CacheInv'
  <2>1. Line(addr) \in Lines
    BY DEF Lines
  <2>2. Usable(m_Sets')
    BY <1>2, <2>1, InvalidateKeepsUsable DEF CacheInv, Invalidate
  <2>3. call' \in Calls
    BY <1>2, <2>1 DEF Invalidate, Calls
  <2>4. QED
    BY <2>2, <2>3 DEF CacheInv, TypeOK, Usable, AllLines
<1>3. CASE Reinit
  <2>1. /\ m_Sets' \in Caches(kWays, kSetCount, AllLines)
        /\ WellFormed(kSetCount, m_Sets')
    <3>1. NoLine \in AllLines
      BY DEF AllLines
    <3>2. QED
      BY <1>3, <3>1, EmptyCacheIsACache, WaysAssumption, SetCountAssumption DEF Reinit
  <2>2. Compact(m_Sets')
    <3>1. \A s \in DOMAIN m_Sets' : \A w \in DOMAIN m_Sets'[s] : m_Sets'[s][w] = NoLine
      BY <1>3 DEF Reinit, EmptyCache
    <3>2. QED
      BY <3>1 DEF Compact, RowIsCompact
  <2>3. call' \in Calls
    BY <1>3 DEF Reinit, Calls
  <2>4. QED
    BY <2>1, <2>2, <2>3 DEF CacheInv, TypeOK, Usable, AllLines
<1>4. CASE UNCHANGED vars
  BY <1>4 DEF vars, CacheInv, TypeOK
<1>5. QED
  BY <1>1, <1>2, <1>3, <1>4 DEF Next

\* An Access is a use of its line that evicts the victims.
LEMMA AccessIsUse ==
  ASSUME Usable(m_Sets), NEW addr \in Addrs, Access(addr)
  PROVE  Lru!Use(Line(addr), Victims(m_Sets, Line(addr)))
<1> DEFINE l == Line(addr)
           E == Victims(m_Sets, l)
           kept == ResidentLines(m_Sets) \ (E \cup {l})
<1>1. l \in Lines
  BY DEF Lines
<1>2. m_Sets' = CacheAccess(kWays, kSetCount, m_Sets, l)
  BY DEF Access
<1> HIDE DEF l, E
<1>3. CacheHits(kSetCount, m_Sets, l) <=> l \in ResidentLines(m_Sets)
  <2>1. l \in ResidentLines(m_Sets) <=> l \in Lines /\ Holds(m_Sets[IndexOf(l)], l)
    BY CachedLines DEF Usable
  <2>2. QED
    BY <1>1, <2>1 DEF CacheHits, IndexOf
<1>4. call' = [op |-> "Access", line |-> l, hit |-> l \in ResidentLines(m_Sets)]
  <2>1. CacheHits(kSetCount, m_Sets, l) = (l \in ResidentLines(m_Sets))
    <3>1. CacheHits(kSetCount, m_Sets, l) \in BOOLEAN
      BY DEF CacheHits, Holds
    <3>2. QED
      BY <1>3, <3>1
  <2>2. QED
    BY <2>1 DEF Access, l
<1>5. \A a, b :
        /\ b \in ResidentLines(m_Sets') <=> b = l \/ b \in kept
        /\ <<a, b>> \in UsedLaterIn(m_Sets') <=>
             /\ b \in kept
             /\ \/ a = l /\ IndexOf(b) = IndexOf(l)
                \/ a \in kept /\ <<a, b>> \in UsedLaterIn(m_Sets)
  BY <1>1, <1>2, AccessedCache DEF E
<1>6. l \notin E
  BY <1>1, VictimsAreCached DEF E
<1>7. ResidentLines(m_Sets') = (ResidentLines(m_Sets) \ E) \cup {l}
  BY <1>5, <1>6
<1>8. /\ UsedLater = UsedLaterIn(m_Sets) /\ UsedLater' = UsedLaterIn(m_Sets')
      /\ UsedLaterIn(m_Sets) \subseteq ResidentLines(m_Sets) \X ResidentLines(m_Sets)
      /\ UsedLaterIn(m_Sets') \subseteq ResidentLines(m_Sets') \X ResidentLines(m_Sets')
  BY DEF UsedLater, UsedLaterIn
<1>9. Lru!Peers(l) = {x \in ResidentLines(m_Sets) : IndexOf(x) = IndexOf(l) /\ x # l}
  BY <1>1, PeersOf
<1>10. Lru!Keep(kept) = {p \in UsedLaterIn(m_Sets) : p[1] \in kept /\ p[2] \in kept}
  BY <1>8 DEF Lru!Keep
<1>11. UsedLater' = Lru!Keep(kept) \cup {<<l, x>> : x \in Lru!Peers(l) \ E}
  <2> DEFINE later == Lru!Keep(kept) \cup {<<l, x>> : x \in Lru!Peers(l) \ E}
  <2>1. \A a, b : <<a, b>> \in later <=>
          /\ b \in kept
          /\ \/ a = l /\ IndexOf(b) = IndexOf(l)
             \/ a \in kept /\ <<a, b>> \in UsedLaterIn(m_Sets)
    <3>1. \A a, b : <<a, b>> \in Lru!Keep(kept)
                      <=> a \in kept /\ b \in kept /\ <<a, b>> \in UsedLaterIn(m_Sets)
      BY <1>10
    <3>2. \A a, b : <<a, b>> \in {<<l, x>> : x \in Lru!Peers(l) \ E}
                      <=> a = l /\ b \in kept /\ IndexOf(b) = IndexOf(l)
      BY <1>9
    <3>3. QED
      BY <3>1, <3>2
  <2>2. \A p \in later : \E a, b : p = <<a, b>>
    BY <1>8, <1>10
  <2>3. \A p \in UsedLater' : \E a, b : p = <<a, b>>
    BY <1>8
  <2> HIDE DEF later
  <2>4. \A a, b : <<a, b>> \in UsedLater' <=> <<a, b>> \in later
    BY <1>5, <1>8, <2>1
  <2>5. UsedLater' = later
    BY <2>2, <2>3, <2>4
  <2>6. QED
    BY <2>5 DEF later
<1>12. QED
  BY <1>4, <1>7, <1>11 DEF Lru!Use, l, E

LEMMA SameCardinality == \A S : Lru!Cardinality(S) = Cardinality(S)
  BY DEF Lru!Cardinality, Cardinality

\* An Access is a hit, fills a free way, or replaces the line of its set that was
\* used least recently.
LEMMA AccessIsLru ==
  ASSUME Usable(m_Sets), NEW addr \in Addrs, Access(addr)
  PROVE  Lru!Hit(Line(addr)) \/ Lru!Fill(Line(addr)) \/ Lru!Replace(Line(addr))
<1> DEFINE l == Line(addr)
           row == m_Sets[IndexOf(l)]
<1>1. Lru!Use(l, Victims(m_Sets, l))
  BY AccessIsUse
<1>2. l \in Lines
  BY DEF Lines
<1> HIDE DEF l
<1>3. /\ l \in ResidentLines(m_Sets) <=> Holds(row, l)
      /\ Victims(m_Sets, l) = IF Holds(row, l) THEN {} ELSE {row[kWays - 1]} \ {NoLine}
  <2>1. l \in ResidentLines(m_Sets) <=> l \in Lines /\ Holds(m_Sets[IndexOf(l)], l)
    BY CachedLines DEF Usable
  <2>2. QED
    BY <1>2, <2>1 DEF Victims, Evicted
<1>4. DOMAIN row = Ways(kWays) /\ kWays - 1 \in Ways(kWays)
  BY <1>2, RowOf, WaysAssumption DEF Rows, Ways
<1>5. /\ row[kWays - 1] = NoLine => Cardinality(Resident(row)) < kWays
      /\ row[kWays - 1] # NoLine => Cardinality(Resident(row)) = kWays
  BY <1>2, RowOf, RowSize, WaysAssumption
<1>6. CASE Holds(row, l)
  BY <1>1, <1>3, <1>6 DEF Lru!Hit, l
<1>7. ASSUME ~Holds(row, l)
      PROVE  Lru!Peers(l) = Resident(row)
  <2>1. Lru!Peers(l) = Resident(row) \ {l}
    BY <1>2, PeersOf
  <2>2. l \notin Resident(row)
    BY <1>7 DEF Resident, Holds
  <2>3. QED
    BY <2>1, <2>2
<1>8. CASE ~Holds(row, l) /\ row[kWays - 1] = NoLine
  <2>1. l \notin ResidentLines(m_Sets) /\ Victims(m_Sets, l) = {}
    BY <1>3, <1>8
  <2>2. Lru!Cardinality(Lru!Peers(l)) < kWays
    BY <1>5, <1>7, <1>8, SameCardinality
  <2>3. Lru!Fill(l)
    BY <1>1, <2>1, <2>2 DEF Lru!Fill
  <2>4. QED
    BY <2>3 DEF l
<1>9. CASE ~Holds(row, l) /\ row[kWays - 1] # NoLine
  <2> DEFINE x == row[kWays - 1]
  <2>1. Victims(m_Sets, l) = {x}
    BY <1>3, <1>9
  <2>2. x \in Lru!Peers(l)
    BY <1>4, <1>7, <1>9 DEF Resident
  <2>3. ASSUME NEW y \in Lru!Peers(l) \ {x}
        PROVE  <<y, x>> \in UsedLater
    <3>1. PICK v \in Ways(kWays) : y = row[v]
      BY <1>4, <1>7, <1>9 DEF Resident
    <3>2. v < kWays - 1
      <4>1. v # kWays - 1
        BY <2>3, <3>1
      <4>2. QED
        BY <4>1, WaysAssumption DEF Ways
    <3>3. IndexOf(y) = IndexOf(l) /\ IndexOf(x) = IndexOf(l)
          /\ y \in ResidentLines(m_Sets) /\ x \in ResidentLines(m_Sets)
      BY <1>2, <2>2, <2>3, PeersOf
    <3>4. Above(m_Sets[IndexOf(x)], y, x)
      BY <1>4, <3>1, <3>2, <3>3 DEF Above
    <3>5. y \in Lines /\ x \in Lines
      <4>1. \A z : z \in ResidentLines(m_Sets) => z \in Lines
        BY CachedLines DEF Usable
      <4>2. QED
        BY <3>3, <4>1
    <3>6. <<y, x>> \in UsedLaterIn(m_Sets)
      BY <3>3, <3>4, <3>5, CachedLines DEF Usable
    <3>7. QED
      BY <3>6 DEF UsedLater, UsedLaterIn
  <2> HIDE DEF x
  <2>4. Lru!Oldest(l, x)
    BY <2>2, <2>3 DEF Lru!Oldest
  <2>5. l \notin ResidentLines(m_Sets) /\ Lru!Cardinality(Lru!Peers(l)) = kWays
    BY <1>3, <1>5, <1>7, <1>9, SameCardinality
  <2>6. Lru!Replace(l)
    BY <1>1, <2>1, <2>2, <2>4, <2>5 DEF Lru!Replace
  <2>7. QED
    BY <2>6 DEF l
<1>10. QED
  BY <1>6, <1>8, <1>9 DEF l

LEMMA InvalidateIsDrop ==
  ASSUME Usable(m_Sets), NEW addr \in Addrs, Invalidate(addr)
  PROVE  Lru!Drop(Line(addr))
<1> DEFINE l == Line(addr)
<1>1. l \in Lines
  BY DEF Lines
<1>2. m_Sets' = CacheInvalidate(kWays, kSetCount, m_Sets, l)
      /\ call' = [op |-> "Invalidate", line |-> l]
  BY DEF Invalidate
<1> HIDE DEF l
<1>3. \A a, b :
        /\ b \in ResidentLines(m_Sets') <=> b \in ResidentLines(m_Sets) /\ b # l
        /\ <<a, b>> \in UsedLaterIn(m_Sets') <=> <<a, b>> \in UsedLaterIn(m_Sets) /\ a # l /\ b # l
  BY <1>1, <1>2, InvalidatedCache
<1>4. /\ UsedLater = UsedLaterIn(m_Sets) /\ UsedLater' = UsedLaterIn(m_Sets')
      /\ UsedLaterIn(m_Sets) \subseteq ResidentLines(m_Sets) \X ResidentLines(m_Sets)
      /\ UsedLaterIn(m_Sets') \subseteq ResidentLines(m_Sets') \X ResidentLines(m_Sets')
  BY DEF UsedLater, UsedLaterIn
<1>5. ResidentLines(m_Sets') = ResidentLines(m_Sets) \ {l}
  BY <1>3
<1>6. UsedLater' = Lru!Keep(ResidentLines(m_Sets) \ {l})
  <2> DEFINE later == Lru!Keep(ResidentLines(m_Sets) \ {l})
  <2>1. later = {p \in UsedLaterIn(m_Sets) : /\ p[1] \in ResidentLines(m_Sets) \ {l}
                                             /\ p[2] \in ResidentLines(m_Sets) \ {l}}
    BY <1>4 DEF Lru!Keep
  <2> HIDE DEF later
  <2>2. \A a, b : <<a, b>> \in later <=> <<a, b>> \in UsedLaterIn(m_Sets) /\ a # l /\ b # l
    BY <1>4, <2>1
  <2>3. \A p \in later : \E a, b : p = <<a, b>>
    BY <1>4, <2>1
  <2>4. \A p \in UsedLater' : \E a, b : p = <<a, b>>
    BY <1>4
  <2>5. \A a, b : <<a, b>> \in UsedLater' <=> <<a, b>> \in later
    BY <1>3, <1>4, <2>2
  <2>6. UsedLater' = later
    BY <2>3, <2>4, <2>5
  <2>7. QED
    BY <2>6 DEF later
<1>7. QED
  BY <1>2, <1>5, <1>6 DEF Lru!Drop, l

LEMMA EmptyIsClear ==
  ASSUME NEW sets, sets = EmptyCache(kWays, kSetCount)
  PROVE  ResidentLines(sets) = {} /\ UsedLaterIn(sets) = {}
<1>1. NoLine \in {NoLine}
  OBVIOUS
<1>2. ResidentLines(sets) = {}
  BY <1>1, EmptyCacheIsACache, WaysAssumption, SetCountAssumption
<1>3. QED
  BY <1>2 DEF UsedLaterIn

\* The arrays that Access rotates and shifts and Invalidate closes up implement
\* an LRU cache: every call hits exactly if the line is cached, evicts only on a
\* miss in a full set, and then the line of that set that was used least
\* recently (Cache::Access, Cache::Invalidate, Cache::Init).
THEOREM ImplementsLruThere == Spec => ImplementsLru
<1>1. Init => Lru!Init
  <2> SUFFICES ASSUME Init
               PROVE  Lru!Init
    OBVIOUS
  <2>1. ResidentLines(m_Sets) = {} /\ UsedLater = {}
    BY EmptyIsClear DEF Init, UsedLater, UsedLaterIn
  <2>2. QED
    BY <2>1 DEF Lru!Init, Init
<1>2. CacheInv /\ [Next]_vars => [Lru!Next]_(Lru!vars)
  <2> SUFFICES ASSUME CacheInv, [Next]_vars
               PROVE  [Lru!Next]_(Lru!vars)
    OBVIOUS
  <2>1. ASSUME NEW addr \in Addrs, Access(addr)
        PROVE  Lru!Next
    <3>1. Line(addr) \in Lines
      BY DEF Lines
    <3>2. QED
      BY <2>1, <3>1, AccessIsLru DEF CacheInv, Lru!Next
  <2>2. ASSUME NEW addr \in Addrs, Invalidate(addr)
        PROVE  Lru!Next
    <3>1. Line(addr) \in Lines
      BY DEF Lines
    <3>2. QED
      BY <2>2, <3>1, InvalidateIsDrop DEF CacheInv, Lru!Next
  <2>3. CASE Reinit
    <3>1. ResidentLines(m_Sets') = {} /\ UsedLater' = {}
      BY <2>3, EmptyIsClear DEF Reinit, UsedLater, UsedLaterIn
    <3>2. QED
      BY <2>3, <3>1 DEF Reinit, Lru!Clear, Lru!Next
  <2>4. CASE UNCHANGED vars
    BY <2>4 DEF vars, Lru!vars, UsedLater
  <2>5. QED
    BY <2>1, <2>2, <2>3, <2>4 DEF Next
<1>3. Spec => []CacheInv
  BY CacheInitially, CachePreserved, PTL DEF Spec
<1>4. QED
  BY <1>1, <1>2, <1>3, PTL DEF Spec, ImplementsLru, Lru!Spec
=============================================================================
