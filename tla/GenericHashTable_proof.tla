----------------------- MODULE GenericHashTable_proof -----------------------
(***************************************************************************)
(* The hash table implements StableMap, its fill is bounded and its        *)
(* iteration is complete, for every set of keys, every hash function,      *)
(* every initial capacity and every size of the allocator's blocks.        *)
(***************************************************************************)
EXTENDS GenericHashTable, Data_proof, SequenceTheorems

-----------------------------------------------------------------------------
(* Slots. The capacity doubles, so that the elements of a new chain were   *)
(* in one old chain.                                                       *)

\* hash & (2 * c - 1), cut down to hash & (c - 1), is hash & (c - 1).
LEMMA OldSlotOfNew ==
  ASSUME NEW h \in Nat, NEW c \in Nat \ {0}
  PROVE  (h % (c * 2)) % c = h % c /\ h % c \in 0 .. c - 1 /\ h % (c * 2) \in 0 .. c * 2 - 1
<1>0. h \in Int
  OBVIOUS
<1>1. PICK m \in Nat \ {0} : m = c * 2
  OBVIOUS
<1>2. PICK q \in Int, r \in 0 .. m - 1 : r = h % m /\ h = m * q + r
  BY <1>0, QuotientAndRest
<1>3. h = m * q + r
  BY <1>2
<1>4. PICK u \in Int, y \in 0 .. c - 1 : y = h % c /\ h = c * u + y
  BY <1>0, QuotientAndRest
<1>5. h = c * u + y
  BY <1>4
<1>6. r \in Nat
  BY <1>1
<1>7. PICK v \in Int, x \in 0 .. c - 1 : x = r % c /\ r = c * v + x
  BY <1>6, QuotientAndRest
<1>8. r = c * v + x
  BY <1>7
<1>9. h = c * (2 * q + v) + x
  <2>1. PICK A \in Int : A = c * (2 * q)
    OBVIOUS
  <2>2. PICK B \in Int : B = c * v
    OBVIOUS
  <2>3. c * (2 * q + v) = c * (2 * q) + c * v
    OBVIOUS
  <2>4. m * q = c * (2 * q)
    BY <1>1
  <2>5. c * (2 * q + v) = A + B
    BY <2>1, <2>2, <2>3
  <2>6. h = A + (B + x)
    BY <1>3, <1>8, <2>1, <2>2, <2>4
  <2> QED BY <2>5, <2>6
<1>10. c * u + y = c * (2 * q + v) + x
  BY <1>5, <1>9
<1>11. 2 * q + v \in Int
  OBVIOUS
<1>12. y = x
  BY <1>10, <1>11, RestIsUnique
<1>13. (h % (c * 2)) % c = h % c
  BY <1>1, <1>2, <1>4, <1>7, <1>12
<1> QED BY <1>1, <1>2, <1>4, <1>13
-----------------------------------------------------------------------------
(* Chains. *)

\* The elements of s at the positions I, each of them once.
Keeps(r, S, s, I) ==
  /\ r \in Seq(S)
  /\ \A n \in DOMAIN r : \E i \in I : r[n] = s[i]
  /\ \A i \in I : \E n \in DOMAIN r : r[n] = s[i]
  /\ \A n, o \in DOMAIN r : r[n] = r[o] => n = o

\* What is left of a chain without duplicates, in either order.
LEMMA ChainParts ==
  ASSUME NEW S, NEW s \in Seq(S), NEW I \in SUBSET DOMAIN s,
         \A n, o \in DOMAIN s : s[n] = s[o] => n = o
  PROVE  Keeps(Selected(s, I), S, s, I) /\ Keeps(Reverse(Selected(s, I)), S, s, I)
<1> DEFINE t == Selected(s, I)
<1>1. /\ t \in Seq(S)
      /\ Len(t) = Cardinality(I) /\ DOMAIN t = 1 .. Cardinality(I)
      /\ \A k \in DOMAIN t : Nth(I, k) \in I /\ t[k] = s[Nth(I, k)]
      /\ \A i \in I : \E k \in DOMAIN t : t[k] = s[i]
  BY SelectedElements
<1>2. Len(s) \in Nat /\ I \in SUBSET (1 .. Len(s))
  OBVIOUS
<1>3. \A k, l \in 1 .. Cardinality(I) : k < l => Nth(I, k) < Nth(I, l)
  BY <1>2, NthIsThere
<1>4. Cardinality(I) \in Nat
  BY <1>2, NthIsThere
<1>5. \A k, l \in DOMAIN t : t[k] = t[l] => k = l
  <2> SUFFICES ASSUME NEW k \in DOMAIN t, NEW l \in DOMAIN t, t[k] = t[l] PROVE k = l
    OBVIOUS
  <2>1. Nth(I, k) = Nth(I, l)
    BY <1>1
  <2>2. Nth(I, k) \in Int /\ k \in Int /\ l \in Int
    BY <1>1, <1>2, <1>4
  <2> QED BY <2>1, <2>2, <1>1, <1>3
<1> HIDE DEF t
<1>6. Keeps(t, S, s, I)
  BY <1>1, <1>5 DEF Keeps
<1>7. Keeps(Reverse(t), S, s, I)
  <2> DEFINE r == Reverse(t)
  <2>1. r = [i \in 1 .. Len(t) |-> t[(Len(t) - i) + 1]]
    BY DEF Reverse
  <2> HIDE DEF r
  <2>2. Len(t) \in Nat /\ DOMAIN t = 1 .. Len(t)
    BY <1>1
  <2>3. \A i \in 1 .. Len(t) : (Len(t) - i) + 1 \in DOMAIN t /\ t[(Len(t) - i) + 1] \in S
    BY <2>2, <1>1
  <2>4. r \in Seq(S) /\ DOMAIN r = DOMAIN t
    BY <2>1, <2>2, <2>3
  <2>5. \A n \in DOMAIN r : \E i \in I : r[n] = s[i]
    BY <2>1, <2>2, <2>3, <2>4, <1>1
  <2>6. \A i \in I : \E n \in DOMAIN r : r[n] = s[i]
    <3> SUFFICES ASSUME NEW i \in I PROVE \E n \in DOMAIN r : r[n] = s[i]
      OBVIOUS
    <3>1. PICK k \in DOMAIN t : t[k] = s[i]
      BY <1>1
    <3>2. (Len(t) - k) + 1 \in DOMAIN r /\ (Len(t) - ((Len(t) - k) + 1)) + 1 = k
      BY <2>2, <2>4, <3>1
    <3> QED BY <3>1, <3>2, <2>1, <2>2, <2>4
  <2>7. \A n, o \in DOMAIN r : r[n] = r[o] => n = o
    BY <2>1, <2>2, <2>3, <2>4, <1>5
  <2>8. Keeps(r, S, s, I)
    BY <2>4, <2>5, <2>6, <2>7 DEF Keeps
  <2> QED BY <2>8 DEF r
<1> QED BY <1>6, <1>7 DEF t
-----------------------------------------------------------------------------
(* Tables. *)

Elem == [key : Keys, place : Places]

\* Every element is in the chain of its hash, and no chain holds it twice.
WellPlaced(T, c) ==
  /\ T \in [0 .. c - 1 -> Seq(Elem)]
  /\ \A i \in 0 .. c - 1 : \A n \in DOMAIN T[i] : Index(T[i][n].key, c) = i
  /\ \A i \in 0 .. c - 1 : \A n, o \in DOMAIN T[i] : T[i][n] = T[i][o] => n = o

ElementsOf(T) == {e \in Elem : \E i \in DOMAIN T : \E n \in DOMAIN T[i] : T[i][n] = e}

LEMMA IndexIsASlot ==
  ASSUME NEW k \in Keys, NEW c \in Nat \ {0}
  PROVE  Index(k, c) \in 0 .. c - 1 /\ Index(k, c * 2) \in 0 .. c * 2 - 1
         /\ Index(k, c * 2) % c = Index(k, c)
<1>1. Hash[k] \in Nat
  BY HashAssumption
<1> QED BY <1>1, OldSlotOfNew DEF Index

\* An element is where its hash says.
LEMMA ElementInItsSlot ==
  ASSUME NEW c \in Nat, NEW T, WellPlaced(T, c), NEW e
  PROVE  e \in ElementsOf(T) <=>
           /\ e \in Elem /\ c # 0
           /\ \E n \in DOMAIN T[Index(e.key, c)] : T[Index(e.key, c)][n] = e
<1>1. DOMAIN T = 0 .. c - 1
  BY DEF WellPlaced
<1>2. ASSUME e \in ElementsOf(T)
      PROVE  /\ e \in Elem /\ c # 0
             /\ \E n \in DOMAIN T[Index(e.key, c)] : T[Index(e.key, c)][n] = e
  <2>1. e \in Elem
    BY <1>2 DEF ElementsOf
  <2>2. PICK i \in 0 .. c - 1 : \E n \in DOMAIN T[i] : T[i][n] = e
    BY <1>1, <1>2 DEF ElementsOf
  <2>3. PICK n \in DOMAIN T[i] : T[i][n] = e
    BY <2>2
  <2>4. Index(e.key, c) = i
    BY <2>3 DEF WellPlaced
  <2> QED BY <2>1, <2>3, <2>4
<1>3. ASSUME e \in Elem, c # 0, NEW n \in DOMAIN T[Index(e.key, c)], T[Index(e.key, c)][n] = e
      PROVE  e \in ElementsOf(T)
  <2>1. e.key \in Keys
    BY <1>3 DEF Elem
  <2>2. Index(e.key, c) \in DOMAIN T
    BY <1>1, <1>3, <2>1, IndexIsASlot
  <2> QED BY <1>3, <2>2 DEF ElementsOf
<1> QED BY <1>2, <1>3

\* Growing moves the elements and loses none of them.
LEMMA GrownKeeps ==
  ASSUME m_Capacity \in Nat, WellPlaced(m_Table, m_Capacity),
         NEW new, new = IF m_Capacity = 0 THEN kInitialCapacity ELSE m_Capacity * 2
  PROVE  WellPlaced(Grown(new), new) /\ ElementsOf(Grown(new)) = ElementsOf(m_Table)
<1> DEFINE G == Grown(new)
<1>1. CASE m_Capacity = 0
  <2>1. G = [j \in 0 .. new - 1 |-> << >>]
    BY <1>1 DEF Grown
  <2>2. \A j \in 0 .. new - 1 : G[j] = << >> /\ G[j] \in Seq(Elem) /\ DOMAIN G[j] = {}
    <3>1. << >> \in Seq(Elem) /\ DOMAIN << >> = {}
      OBVIOUS
    <3>2. \A j \in 0 .. new - 1 : G[j] = << >>
      BY <2>1
    <3> HIDE DEF G
    <3> QED BY <3>1, <3>2
  <2>3. DOMAIN G = 0 .. new - 1
    BY <2>1
  <2> HIDE DEF G
  <2>4. WellPlaced(G, new)
    BY <2>1, <2>2 DEF WellPlaced
  <2>5. ElementsOf(G) = {}
    BY <2>2, <2>3 DEF ElementsOf
  <2>6. DOMAIN m_Table = {}
    BY <1>1 DEF WellPlaced
  <2>7. ElementsOf(m_Table) = {}
    BY <2>6 DEF ElementsOf
  <2> QED BY <2>4, <2>5, <2>7 DEF G
<1>2. CASE m_Capacity # 0
  <2> DEFINE Old(j) == m_Table[j % m_Capacity]
             Taken(j) == {n \in DOMAIN Old(j) : Index(Old(j)[n].key, new) = j}
  <2>1. new = m_Capacity * 2 /\ m_Capacity \in Nat \ {0} /\ new \in Nat \ {0}
    BY <1>2
  <2>2. G = [j \in 0 .. new - 1 |-> Reverse(Selected(Old(j), Taken(j)))]
    BY <1>2 DEF Grown
  <2>3. ASSUME NEW j \in 0 .. new - 1
        PROVE  /\ G[j] \in Seq(Elem)
               /\ \A n \in DOMAIN G[j] : \E o \in Taken(j) : G[j][n] = Old(j)[o]
               /\ \A o \in Taken(j) : \E n \in DOMAIN G[j] : G[j][n] = Old(j)[o]
               /\ \A n, o \in DOMAIN G[j] : G[j][n] = G[j][o] => n = o
    <3>1. j % m_Capacity \in 0 .. m_Capacity - 1
      BY <2>1
    <3>2. Old(j) \in Seq(Elem) /\ \A n, o \in DOMAIN Old(j) : Old(j)[n] = Old(j)[o] => n = o
      BY <3>1 DEF WellPlaced
    <3>3. Taken(j) \in SUBSET DOMAIN Old(j)
      OBVIOUS
    <3>4. G[j] = Reverse(Selected(Old(j), Taken(j)))
      BY <2>2
    <3> HIDE DEF G, Old, Taken
    <3>5. Keeps(G[j], Elem, Old(j), Taken(j))
      BY <3>2, <3>3, <3>4, ChainParts
    <3> QED BY <3>5 DEF Keeps
  <2>4. DOMAIN G = 0 .. new - 1 /\ G = [j \in 0 .. new - 1 |-> G[j]]
    BY <2>2
  <2> HIDE DEF G
  <2>5. G \in [0 .. new - 1 -> Seq(Elem)]
    BY <2>3, <2>4
  <2>6. \A j \in 0 .. new - 1 : \A n \in DOMAIN G[j] : Index(G[j][n].key, new) = j
    BY <2>3
  <2>7. WellPlaced(G, new)
    BY <2>3, <2>5, <2>6 DEF WellPlaced
  <2>8. ASSUME NEW e \in ElementsOf(G) PROVE e \in ElementsOf(m_Table)
    <3>1. e \in Elem
      BY DEF ElementsOf
    <3>2. PICK j \in 0 .. new - 1 : \E n \in DOMAIN G[j] : G[j][n] = e
      BY <2>4 DEF ElementsOf
    <3>3. PICK o \in Taken(j) : Old(j)[o] = e
      BY <3>2, <2>3
    <3>4. j % m_Capacity \in 0 .. m_Capacity - 1 /\ DOMAIN m_Table = 0 .. m_Capacity - 1
      BY <2>1 DEF WellPlaced
    <3>5. o \in DOMAIN m_Table[j % m_Capacity] /\ m_Table[j % m_Capacity][o] = e
      BY <3>3
    <3> QED BY <3>1, <3>4, <3>5 DEF ElementsOf
  <2>9. ASSUME NEW e \in ElementsOf(m_Table) PROVE e \in ElementsOf(G)
    <3>1. e \in Elem /\ e.key \in Keys
      BY DEF ElementsOf, Elem
    <3>2. PICK n \in DOMAIN m_Table[Index(e.key, m_Capacity)] :
            m_Table[Index(e.key, m_Capacity)][n] = e
      BY ElementInItsSlot
    <3>3. PICK j \in 0 .. new - 1 : j = Index(e.key, new)
      BY <2>1, <3>1, IndexIsASlot
    <3>4. j % m_Capacity = Index(e.key, m_Capacity)
      BY <2>1, <3>1, <3>3, IndexIsASlot
    <3>5. n \in Taken(j) /\ Old(j)[n] = e
      BY <3>2, <3>3, <3>4
    <3>6. \E o \in DOMAIN G[j] : G[j][o] = e
      BY <2>3, <3>5
    <3> QED BY <3>1, <3>6, <2>4 DEF ElementsOf
  <2> QED BY <2>7, <2>8, <2>9 DEF G
<1> QED BY <1>1, <1>2

\* The table after InsertNew, if it has not grown, and after RemoveKey
Pushed(T, c, e) == [T EXCEPT ![Index(e.key, c)] = <<e>> \o @]
Without(T, c, k) == [T EXCEPT ![Index(k, c)] = Selected(@, {n \in DOMAIN @ : @[n].key # k})]

\* A new element comes first in its chain.
LEMMA PushedElement ==
  ASSUME NEW c \in Nat \ {0}, NEW T, WellPlaced(T, c), NEW e \in Elem, e \notin ElementsOf(T)
  PROVE  WellPlaced(Pushed(T, c, e), c) /\ ElementsOf(Pushed(T, c, e)) = ElementsOf(T) \cup {e}
<1> DEFINE U == Pushed(T, c, e)
<1>1. PICK i \in 0 .. c - 1 : i = Index(e.key, c)
  BY IndexIsASlot DEF Elem
<1>2. DOMAIN T = 0 .. c - 1 /\ T[i] \in Seq(Elem)
  BY <1>1 DEF WellPlaced
<1>3. U = [T EXCEPT ![i] = <<e>> \o @]
  BY <1>1 DEF Pushed
<1> HIDE DEF U
<1>4. DOMAIN U = 0 .. c - 1 /\ U[i] = <<e>> \o T[i] /\ \A j \in 0 .. c - 1 : j # i => U[j] = T[j]
  BY <1>2, <1>3
<1>5. PICK s \in Seq(Elem) : s = T[i]
  BY <1>2
<1>6. PICK l \in Nat : l = Len(s)
  OBVIOUS
<1>7. DOMAIN s = 1 .. l
  BY <1>6
<1>8. /\ U[i] \in Seq(Elem) /\ DOMAIN U[i] = 1 .. l + 1
      /\ U[i][1] = e /\ \A n \in 1 .. l : U[i][n + 1] = s[n]
  <2>1. U[i] = <<e>> \o s
    BY <1>4, <1>5
  <2> DEFINE u == <<e>>
  <2>2. u \in Seq(Elem) /\ Len(u) = 1 /\ u[1] = e
    OBVIOUS
  <2> HIDE DEF u
  <2>3. /\ u \o s \in Seq(Elem) /\ Len(u \o s) = Len(u) + Len(s)
        /\ \A n \in 1 .. Len(u) + Len(s) : (u \o s)[n] = IF n <= Len(u) THEN u[n] ELSE s[n - Len(u)]
    BY <2>2, ConcatProperties
  <2>4. PICK v \in Seq(Elem) : v = U[i] /\ v = u \o s
    BY <2>1, <2>2, <2>3 DEF u
  <2>5. Len(v) = 1 + l /\ \A n \in 1 .. 1 + l : v[n] = IF n <= 1 THEN u[n] ELSE s[n - 1]
    BY <2>2, <2>3, <2>4, <1>6
  <2>6. DOMAIN v = 1 .. l + 1
    BY <2>5
  <2>7. v[1] = e
    BY <2>2, <2>5
  <2>8. \A n \in 1 .. l : v[n + 1] = s[n]
    <3> SUFFICES ASSUME NEW n \in 1 .. l PROVE v[n + 1] = s[n]
      OBVIOUS
    <3>1. n + 1 \in 1 .. 1 + l /\ ~(n + 1 <= 1) /\ (n + 1) - 1 = n
      OBVIOUS
    <3> QED BY <3>1, <2>5
  <2> QED BY <2>4, <2>6, <2>7, <2>8
<1>9. \A n \in DOMAIN U[i] : n = 1 \/ (n - 1 \in 1 .. l /\ U[i][n] = s[n - 1])
  <2> SUFFICES ASSUME NEW n \in 1 .. l + 1, n # 1
               PROVE  n - 1 \in 1 .. l /\ U[i][n] = s[n - 1]
    BY <1>8
  <2>1. n - 1 \in 1 .. l /\ (n - 1) + 1 = n
    OBVIOUS
  <2> QED BY <2>1, <1>8
<1>10. U \in [0 .. c - 1 -> Seq(Elem)]
  <2>1. \A j \in 0 .. c - 1 : U[j] \in Seq(Elem)
    BY <1>4, <1>8 DEF WellPlaced
  <2>2. U = [j \in 0 .. c - 1 |-> U[j]]
    BY <1>2, <1>3
  <2> QED BY <2>1, <2>2
<1>11. ASSUME NEW j \in 0 .. c - 1, NEW n \in DOMAIN U[j] PROVE Index(U[j][n].key, c) = j
  <2>1. CASE j # i
    BY <2>1, <1>4 DEF WellPlaced
  <2>2. CASE j = i /\ n = 1
    BY <2>2, <1>8, <1>1
  <2>3. CASE j = i /\ n # 1
    <3>1. n - 1 \in DOMAIN T[i] /\ U[i][n] = T[i][n - 1]
      BY <2>3, <1>5, <1>7, <1>9
    <3>2. Index(T[i][n - 1].key, c) = i
      BY <3>1 DEF WellPlaced
    <3> QED BY <3>1, <3>2, <2>3
  <2> QED BY <2>1, <2>2, <2>3
<1>12. \A n \in 1 .. l : s[n] # e
  <2> SUFFICES ASSUME NEW n \in 1 .. l, s[n] = e PROVE FALSE
    OBVIOUS
  <2>1. n \in DOMAIN T[i] /\ T[i][n] = e
    BY <1>5, <1>7
  <2> QED BY <2>1, <1>2 DEF ElementsOf
<1>13. ASSUME NEW j \in 0 .. c - 1, NEW n \in DOMAIN U[j], NEW o \in DOMAIN U[j], U[j][n] = U[j][o]
       PROVE  n = o
  <2>1. CASE j # i
    BY <2>1, <1>4, <1>13 DEF WellPlaced
  <2>2. CASE j = i
    <3>1. n \in 1 .. l + 1 /\ o \in 1 .. l + 1
      BY <2>2, <1>8
    <3>2. ASSUME NEW x \in DOMAIN U[i], U[i][x] = e PROVE x = 1
      BY <3>2, <1>9, <1>12
    <3>3. U[i][n] = U[i][o] /\ U[i][1] = e /\ n \in DOMAIN U[i] /\ o \in DOMAIN U[i]
      BY <2>2, <1>8, <1>13
    <3>4. n = 1 <=> o = 1
      BY <3>2, <3>3
    <3>5. CASE n # 1 /\ o # 1
      <4>1. n - 1 \in 1 .. l /\ o - 1 \in 1 .. l /\ s[n - 1] = s[o - 1]
        BY <3>3, <3>5, <1>9
      <4>2. n - 1 = o - 1
        BY <4>1, <1>5, <1>7 DEF WellPlaced
      <4> QED BY <4>2, <3>1
    <3> QED BY <3>4, <3>5
  <2> QED BY <2>1, <2>2
<1>14. WellPlaced(U, c)
  BY <1>10, <1>11, <1>13 DEF WellPlaced
<1>15. ASSUME NEW f \in ElementsOf(U) PROVE f \in ElementsOf(T) \cup {e}
  <2>1. f \in Elem
    BY DEF ElementsOf
  <2>2. PICK j \in 0 .. c - 1 : \E n \in DOMAIN U[j] : U[j][n] = f
    BY <1>4 DEF ElementsOf
  <2>3. PICK n \in DOMAIN U[j] : U[j][n] = f
    BY <2>2
  <2>4. CASE j # i
    <3>1. n \in DOMAIN T[j] /\ T[j][n] = f
      BY <2>3, <2>4, <1>4
    <3> QED BY <3>1, <2>1, <1>2 DEF ElementsOf
  <2>5. CASE j = i /\ n = 1
    BY <2>3, <2>5, <1>8
  <2>6. CASE j = i /\ n # 1
    <3>1. n - 1 \in DOMAIN T[i] /\ T[i][n - 1] = f
      BY <2>3, <2>6, <1>5, <1>7, <1>9
    <3> QED BY <3>1, <2>1, <1>2 DEF ElementsOf
  <2> QED BY <2>4, <2>5, <2>6
<1>16. ASSUME NEW f \in ElementsOf(T) PROVE f \in ElementsOf(U)
  <2>1. f \in Elem
    BY DEF ElementsOf
  <2>2. PICK j \in 0 .. c - 1 : \E n \in DOMAIN T[j] : T[j][n] = f
    BY <1>2 DEF ElementsOf
  <2>3. PICK n \in DOMAIN T[j] : T[j][n] = f
    BY <2>2
  <2>4. CASE j # i
    <3>1. n \in DOMAIN U[j] /\ U[j][n] = f
      BY <2>3, <2>4, <1>4
    <3> QED BY <3>1, <2>1, <1>4 DEF ElementsOf
  <2>5. CASE j = i
    <3>1. n \in 1 .. l /\ s[n] = f
      BY <2>3, <2>5, <1>5, <1>7
    <3>2. n + 1 \in DOMAIN U[i] /\ U[i][n + 1] = f
      BY <3>1, <1>8
    <3> QED BY <3>2, <2>1, <1>4 DEF ElementsOf
  <2> QED BY <2>4, <2>5
<1>17. e \in ElementsOf(U)
  <2>1. 1 \in DOMAIN U[i] /\ U[i][1] = e
    BY <1>8
  <2> QED BY <2>1, <1>4 DEF ElementsOf
<1> QED BY <1>14, <1>15, <1>16, <1>17 DEF U

\* What is left when the elements of a key are taken out of their chain.
LEMMA TakenOut ==
  ASSUME NEW c \in Nat \ {0}, NEW T, WellPlaced(T, c), NEW k \in Keys
  PROVE  WellPlaced(Without(T, c, k), c)
         /\ ElementsOf(Without(T, c, k)) = {e \in ElementsOf(T) : e.key # k}
<1> DEFINE U == Without(T, c, k)
<1>1. PICK i \in 0 .. c - 1 : i = Index(k, c)
  BY IndexIsASlot
<1>2. DOMAIN T = 0 .. c - 1
  BY <1>1 DEF WellPlaced
<1>3. PICK s \in Seq(Elem) : s = T[i] /\ \A n, o \in DOMAIN s : s[n] = s[o] => n = o
  BY <1>1 DEF WellPlaced
<1> DEFINE I == {n \in DOMAIN s : s[n].key # k}
<1>4. U = [T EXCEPT ![i] = Selected(s, I)]
  BY <1>1, <1>3 DEF Without
<1> HIDE DEF U
<1>5. I \in SUBSET DOMAIN s /\ \A n \in DOMAIN s : n \in I <=> s[n].key # k
  OBVIOUS
<1> HIDE DEF I
<1>6. DOMAIN U = 0 .. c - 1 /\ U[i] = Selected(s, I) /\ \A j \in 0 .. c - 1 : j # i => U[j] = T[j]
  BY <1>2, <1>4
<1>7. /\ U[i] \in Seq(Elem)
      /\ \A n \in DOMAIN U[i] : \E o \in I : U[i][n] = s[o]
      /\ \A o \in I : \E n \in DOMAIN U[i] : U[i][n] = s[o]
      /\ \A n, o \in DOMAIN U[i] : U[i][n] = U[i][o] => n = o
  <2>1. Keeps(Selected(s, I), Elem, s, I)
    BY <1>3, <1>5, ChainParts
  <2>2. Keeps(U[i], Elem, s, I)
    BY <2>1, <1>6
  <2> QED BY <2>2 DEF Keeps
<1>8. U \in [0 .. c - 1 -> Seq(Elem)]
  <2>1. \A j \in 0 .. c - 1 : U[j] \in Seq(Elem)
    BY <1>6, <1>7 DEF WellPlaced
  <2>2. U = [j \in 0 .. c - 1 |-> U[j]]
    BY <1>2, <1>4
  <2> QED BY <2>1, <2>2
<1>9. ASSUME NEW j \in 0 .. c - 1, NEW n \in DOMAIN U[j]
      PROVE  \E o \in DOMAIN T[j] : T[j][o] = U[j][n] /\ T[j][o].key # k
  <2>1. CASE j # i
    <3>1. n \in DOMAIN T[j] /\ T[j][n] = U[j][n]
      BY <2>1, <1>6
    <3>2. Index(T[j][n].key, c) = j
      BY <3>1 DEF WellPlaced
    <3> QED BY <2>1, <3>1, <3>2, <1>1
  <2>2. CASE j = i
    <3>1. PICK o \in I : U[i][n] = s[o]
      BY <2>2, <1>7
    <3>2. o \in DOMAIN s /\ s[o].key # k
      BY <1>5
    <3> QED BY <2>2, <3>1, <3>2, <1>3
  <2> QED BY <2>1, <2>2
<1>10. \A j \in 0 .. c - 1 : \A n \in DOMAIN U[j] : Index(U[j][n].key, c) = j
  <2> SUFFICES ASSUME NEW j \in 0 .. c - 1, NEW n \in DOMAIN U[j] PROVE Index(U[j][n].key, c) = j
    OBVIOUS
  <2>1. PICK o \in DOMAIN T[j] : T[j][o] = U[j][n]
    BY <1>9
  <2>2. Index(T[j][o].key, c) = j
    BY <2>1 DEF WellPlaced
  <2> QED BY <2>1, <2>2
<1>11. \A j \in 0 .. c - 1 : \A n, o \in DOMAIN U[j] : U[j][n] = U[j][o] => n = o
  <2> SUFFICES ASSUME NEW j \in 0 .. c - 1, NEW n \in DOMAIN U[j], NEW o \in DOMAIN U[j],
                      U[j][n] = U[j][o]
               PROVE  n = o
    OBVIOUS
  <2>1. CASE j # i
    BY <2>1, <1>6 DEF WellPlaced
  <2>2. CASE j = i
    BY <2>2, <1>7
  <2> QED BY <2>1, <2>2
<1>12. WellPlaced(U, c)
  BY <1>8, <1>10, <1>11 DEF WellPlaced
<1>13. ASSUME NEW e \in ElementsOf(U) PROVE e \in ElementsOf(T) /\ e.key # k
  <2>1. e \in Elem
    BY DEF ElementsOf
  <2>2. PICK j \in 0 .. c - 1 : \E n \in DOMAIN U[j] : U[j][n] = e
    BY <1>6 DEF ElementsOf
  <2>3. PICK n \in DOMAIN U[j] : U[j][n] = e
    BY <2>2
  <2>4. PICK o \in DOMAIN T[j] : T[j][o] = U[j][n] /\ T[j][o].key # k
    BY <1>9
  <2> QED BY <2>1, <2>3, <2>4, <1>2 DEF ElementsOf
<1>14. ASSUME NEW e \in ElementsOf(T), e.key # k PROVE e \in ElementsOf(U)
  <2>1. e \in Elem
    BY DEF ElementsOf
  <2>2. PICK j \in 0 .. c - 1 : \E n \in DOMAIN T[j] : T[j][n] = e
    BY <1>2 DEF ElementsOf
  <2>3. PICK n \in DOMAIN T[j] : T[j][n] = e
    BY <2>2
  <2>4. CASE j # i
    <3>1. n \in DOMAIN U[j] /\ U[j][n] = e
      BY <2>3, <2>4, <1>6
    <3> QED BY <3>1, <2>1, <1>6 DEF ElementsOf
  <2>5. CASE j = i
    <3>1. n \in I /\ s[n] = e
      BY <2>3, <2>5, <1>3, <1>5, <1>14
    <3>2. \E o \in DOMAIN U[i] : U[i][o] = e
      BY <3>1, <1>7
    <3> QED BY <3>2, <2>1, <1>6 DEF ElementsOf
  <2> QED BY <2>4, <2>5
<1> QED BY <1>12, <1>13, <1>14 DEF U
-----------------------------------------------------------------------------
(* The invariant. *)

Elements == ElementsOf(m_Table)
KeysIn == {k \in Keys : \E e \in Elements : e.key = k}

TableOK ==
  /\ m_Capacity \in Nat /\ m_Count \in 0 .. kMaxCount
  /\ WellPlaced(m_Table, m_Capacity)
  /\ m_Capacity = 0 => m_Count = 0
  /\ FillIsBounded

\* No two elements have one key, and no two one place.
ElementsDiffer ==
  /\ \A e, f \in Elements : e.key = f.key => e = f
  /\ \A e, f \in Elements : e.place = f.place => e = f

\* The allocator has an element in its free list once, or has handed it out.
HeapOK ==
  /\ blocks \in 0 .. m_Count
  /\ m_FreeList \in Seq(Allocated)
  /\ \A n, o \in DOMAIN m_FreeList : m_FreeList[n] = m_FreeList[o] => n = o
  /\ \A e \in Elements : e.place \in Allocated
  /\ \A e \in Elements : \A n \in DOMAIN m_FreeList : m_FreeList[n] # e.place
  /\ value \in [Places -> 0 .. kMaxValue]

\* A pointer that a user still has is the one Find gives.
HeldOK ==
  /\ held \in [Keys -> Places \cup {Null}]
  /\ \A k \in Keys : held[k] # Null => held[k] = FindInternal(k)

CountOK ==
  /\ removed \in Nat
  /\ IsFiniteSet(KeysIn) /\ Cardinality(KeysIn) = m_Count - removed

HashInv == TableOK /\ ElementsDiffer /\ HeapOK /\ HeldOK /\ CountOK

\* What FindInternal finds.
FindsElements ==
  \A k \in Keys :
    IF k \in KeysIn
    THEN \E e \in Elements : e.key = k /\ e.place = FindInternal(k)
    ELSE FindInternal(k) = Null

LEMMA ElementTypes == \A e \in Elements : e \in Elem /\ e.key \in Keys /\ e.place \in Places
  BY DEF Elements, ElementsOf, Elem

LEMMA FindFinds == TableOK /\ ElementsDiffer => FindsElements
<1> SUFFICES ASSUME TableOK, ElementsDiffer, NEW k \in Keys
             PROVE  IF k \in KeysIn
                    THEN \E e \in Elements : e.key = k /\ e.place = FindInternal(k)
                    ELSE FindInternal(k) = Null
  BY DEF FindsElements
<1>1. m_Capacity \in Nat /\ WellPlaced(m_Table, m_Capacity)
  BY DEF TableOK
<1>2. Scanned(k) = {e \in Elements : e.key = k}
  <2>1. CASE m_Capacity = 0
    <3>1. DOMAIN m_Table = {}
      BY <1>1, <2>1 DEF WellPlaced
    <3>2. Elements = {}
      BY <3>1 DEF Elements, ElementsOf
    <3> QED BY <2>1, <3>2 DEF Scanned
  <2>2. CASE m_Capacity # 0
    <3> DEFINE chain == m_Table[Index(k, m_Capacity)]
    <3>1. Scanned(k) = {e \in Range(chain) : e.key = k}
      BY <2>2 DEF Scanned
    <3>2. chain \in Seq(Elem)
      BY <1>1, <2>2, IndexIsASlot DEF WellPlaced
    <3>3. \A e : e \in Range(chain) <=> \E n \in DOMAIN chain : chain[n] = e
      BY DEF Range
    <3>4. \A n \in DOMAIN chain : chain[n] \in Elem
      BY <3>2
    <3>5. \A e : e.key = k => (e \in Elements <=> e \in Elem /\ \E n \in DOMAIN chain : chain[n] = e)
      BY <1>1, <2>2, ElementInItsSlot DEF Elements
    <3> HIDE DEF chain
    <3>6. \A e : e \in Scanned(k) <=> e \in {x \in Elements : x.key = k}
      BY <3>1, <3>3, <3>4, <3>5
    <3> QED BY <3>6
  <2> QED BY <2>1, <2>2
<1>3. CASE k \in KeysIn
  <2>1. PICK e \in Elements : e.key = k
    BY <1>3 DEF KeysIn
  <2>2. Scanned(k) # {}
    BY <2>1, <1>2
  <2>3. PICK f \in Scanned(k) : f = (CHOOSE x \in Scanned(k) : TRUE)
    BY <2>2
  <2>4. FindInternal(k) = f.place
    BY <2>2, <2>3 DEF FindInternal
  <2>5. f \in Elements /\ f.key = k
    BY <1>2
  <2> QED BY <1>3, <2>4, <2>5
<1>4. CASE k \notin KeysIn
  <2>1. Scanned(k) = {}
    BY <1>2, <1>4 DEF KeysIn
  <2> QED BY <1>4, <2>1 DEF FindInternal
<1> QED BY <1>3, <1>4

\* The same, said of places.
Answers ==
  /\ \A k \in Keys : FindInternal(k) \in Places \cup {Null}
  /\ \A k \in Keys : k \in KeysIn <=> FindInternal(k) # Null
  /\ \A e \in Elements : FindInternal(e.key) = e.place
  /\ \A k \in Keys : k \in KeysIn => [key |-> k, place |-> FindInternal(k)] \in Elements

LEMMA FindAnswers == TableOK /\ ElementsDiffer => Answers
<1> SUFFICES ASSUME TableOK, ElementsDiffer PROVE Answers
  OBVIOUS
<1>1. FindsElements
  BY FindFinds
<1>2. ASSUME NEW k \in KeysIn
      PROVE  /\ k \in Keys /\ FindInternal(k) \in Places /\ FindInternal(k) # Null
             /\ \E e \in Elements : e.key = k /\ e.place = FindInternal(k)
  <2>1. k \in Keys
    BY DEF KeysIn
  <2>2. PICK e \in Elements : e.key = k /\ e.place = FindInternal(k)
    BY <1>1, <2>1 DEF FindsElements
  <2>3. e.place \in Places
    BY ElementTypes
  <2> QED BY <2>1, <2>2, <2>3, NullAssumption
<1>3. \A k \in Keys : k \notin KeysIn => FindInternal(k) = Null
  BY <1>1 DEF FindsElements
<1>4. ASSUME NEW e \in Elements PROVE FindInternal(e.key) = e.place
  <2>1. e.key \in KeysIn
    BY ElementTypes DEF KeysIn
  <2>2. PICK f \in Elements : f.key = e.key /\ f.place = FindInternal(e.key)
    BY <1>2, <2>1
  <2>3. f = e
    BY <2>2 DEF ElementsDiffer
  <2> QED BY <2>2, <2>3
<1>5. ASSUME NEW k \in KeysIn PROVE [key |-> k, place |-> FindInternal(k)] \in Elements
  <2>1. PICK e \in Elements : e.key = k /\ e.place = FindInternal(k)
    BY <1>2
  <2>2. e = [key |-> k, place |-> FindInternal(k)]
    BY <2>1, ElementTypes DEF Elem
  <2> QED BY <2>1, <2>2
<1> QED BY <1>2, <1>3, <1>4, <1>5 DEF Answers
-----------------------------------------------------------------------------
(* Every step keeps it. *)

LEMMA InitHolds == Init => HashInv
<1> SUFFICES ASSUME Init PROVE HashInv
  OBVIOUS
<1> USE DEF Init
<1>1. 0 .. m_Capacity - 1 = {} /\ m_Table = << >> /\ DOMAIN m_Table = {}
  OBVIOUS
<1>2. Elements = {} /\ KeysIn = {}
  BY <1>1 DEF Elements, ElementsOf, KeysIn
<1>3. WellPlaced(m_Table, m_Capacity)
  <2>1. m_Table \in [0 .. m_Capacity - 1 -> Seq(Elem)]
    BY <1>1
  <2> QED BY <2>1, <1>1 DEF WellPlaced
<1>4. TableOK
  BY <1>3, BoundAssumption DEF TableOK, FillIsBounded
<1>5. ElementsDiffer /\ HeldOK /\ CountOK
  BY <1>2, FS_EmptySet DEF ElementsDiffer, HeldOK, CountOK
<1>6. HeapOK
  <2>1. m_FreeList \in Seq(Allocated) /\ DOMAIN m_FreeList = {}
    OBVIOUS
  <2>2. value \in [Places -> 0 .. kMaxValue]
    BY BoundAssumption
  <2>3. blocks \in 0 .. m_Count
    OBVIOUS
  <2> QED BY <2>1, <2>2, <2>3, <1>2 DEF HeapOK
<1> QED BY <1>4, <1>5, <1>6 DEF HashInv

\* More blocks, more places.
LEMMA MoreBlocks ==
  ASSUME NEW b \in Nat, NEW d \in Nat, b <= d
  PROVE  /\ b * kBlockElems \in Nat /\ d * kBlockElems \in Nat
         /\ b * kBlockElems <= d * kBlockElems
<1>1. PICK w \in Nat : w = kBlockElems
  BY SizeAssumption
<1>2. PICK x \in Nat : d = b + x
  <2>1. d - b \in Nat /\ d = b + (d - b)
    OBVIOUS
  <2> QED BY <2>1
<1>3. b * w \in Nat /\ x * w \in Nat /\ (b + x) * w = b * w + x * w
  OBVIOUS
<1>4. PICK u \in Nat, v \in Nat : u = b * w /\ v = x * w
  BY <1>3
<1>5. d * w = u + v
  BY <1>2, <1>3, <1>4
<1> QED BY <1>1, <1>4, <1>5

\* The free list, or a new block if it is empty, has elements of the allocator
\* that nobody has, each of them once.
LEMMA RoomIsThere ==
  ASSUME TableOK, HeapOK, m_Count < kMaxCount,
         NEW b, b = IF m_FreeList = << >> THEN blocks + 1 ELSE blocks
  PROVE  /\ b \in 0 .. m_Count + 1
         /\ Allocated \subseteq 0 .. b * kBlockElems - 1
         /\ 0 .. b * kBlockElems - 1 \subseteq Places
         /\ WithRoom \in Seq(0 .. b * kBlockElems - 1) /\ WithRoom # << >>
         /\ \A n, o \in DOMAIN WithRoom : WithRoom[n] = WithRoom[o] => n = o
         /\ \A e \in Elements : \A n \in DOMAIN WithRoom : WithRoom[n] # e.place
<1>1. blocks \in Nat /\ blocks <= m_Count /\ m_Count \in Nat /\ kMaxCount \in Nat
  BY BoundAssumption DEF HeapOK, TableOK
<1>2. b \in Nat /\ b <= m_Count + 1 /\ blocks <= b /\ b <= kMaxCount
  BY <1>1
<1>3. PICK B \in Nat, A \in Nat, P \in Nat :
        B = b * kBlockElems /\ A = blocks * kBlockElems /\ P = kMaxCount * kBlockElems
        /\ A <= B /\ B <= P
  <2>1. blocks * kBlockElems <= b * kBlockElems /\ blocks * kBlockElems \in Nat
        /\ b * kBlockElems \in Nat
    BY <1>1, <1>2, MoreBlocks
  <2>2. b * kBlockElems <= kMaxCount * kBlockElems /\ kMaxCount * kBlockElems \in Nat
    BY <1>1, <1>2, MoreBlocks
  <2> QED BY <2>1, <2>2
<1>4. Allocated = 0 .. A - 1
  BY <1>3 DEF Allocated
<1>5. Places = 0 .. P - 1
  <2>1. kBlockElems * kMaxCount = kMaxCount * kBlockElems
    BY SizeAssumption, BoundAssumption
  <2> QED BY <1>3, <2>1 DEF Places
<1>6. Allocated \subseteq 0 .. B - 1 /\ 0 .. B - 1 \subseteq Places
  BY <1>3, <1>4, <1>5
<1>7. CASE m_FreeList # << >>
  <2>1. WithRoom = m_FreeList /\ m_FreeList \in Seq(0 .. A - 1) /\ A = B
    BY <1>2, <1>3, <1>4, <1>7 DEF WithRoom, HeapOK
  <2>2. /\ \A n, o \in DOMAIN WithRoom : WithRoom[n] = WithRoom[o] => n = o
        /\ \A e \in Elements : \A n \in DOMAIN WithRoom : WithRoom[n] # e.place
    BY <2>1 DEF HeapOK
  <2> QED BY <2>1, <2>2, <1>1, <1>2, <1>3, <1>6, <1>7
<1>8. CASE m_FreeList = << >>
  <2>1. PICK w \in Nat \ {0} : w = kBlockElems
    BY SizeAssumption
  <2>2. B = A + w
    <3>1. (blocks + 1) * w = blocks * w + w
      BY <1>1
    <3> QED BY <3>1, <2>1, <1>3, <1>8
  <2>3. WithRoom = [i \in 1 .. w |-> A + w - i]
    BY <1>3, <1>8, <2>1 DEF WithRoom, NewBlock
  <2>4. \A i \in 1 .. w : A + w - i \in 0 .. B - 1 /\ ~(A + w - i <= A - 1)
    BY <2>2
  <2>5. WithRoom \in Seq(0 .. B - 1) /\ DOMAIN WithRoom = 1 .. w
    BY <2>3, <2>4
  <2>6. WithRoom # << >>
    BY <2>5
  <2>7. \A n, o \in DOMAIN WithRoom : WithRoom[n] = WithRoom[o] => n = o
    BY <2>3, <2>5
  <2>8. \A e \in Elements : e.place \in 0 .. A - 1
    BY <1>4 DEF HeapOK
  <2>9. \A e \in Elements : \A n \in DOMAIN WithRoom : WithRoom[n] # e.place
    BY <2>3, <2>4, <2>5, <2>8
  <2> QED BY <2>5, <2>6, <2>7, <2>9, <1>1, <1>2, <1>3, <1>6
<1> QED BY <1>7, <1>8

\* What a lookup gives depends on the table alone.
LEMMA SameTable ==
  ASSUME HashInv, UNCHANGED <<table, m_FreeList, blocks, removed>>,
         value' \in [Places -> 0 .. kMaxValue],
         held' \in [Keys -> Places \cup {Null}],
         \A k \in Keys : held'[k] # Null => held'[k] = FindInternal(k)
  PROVE  HashInv' /\ Elements' = Elements /\ KeysIn' = KeysIn
         /\ \A k : FindInternal(k)' = FindInternal(k)
<1> USE DEF table
<1>1. Elements' = Elements /\ KeysIn' = KeysIn
  BY DEF Elements, KeysIn
<1>2. \A k : FindInternal(k)' = FindInternal(k)
  BY DEF FindInternal, Scanned
<1>3. TableOK'
  BY DEF HashInv, TableOK, FillIsBounded
<1>4. ElementsDiffer'
  BY <1>1 DEF HashInv, ElementsDiffer
<1>5. HeapOK'
  BY <1>1 DEF HashInv, HeapOK, Allocated
<1>6. HeldOK' /\ CountOK'
  BY <1>1, <1>2 DEF HashInv, HeldOK, CountOK
<1> QED BY <1>1, <1>2, <1>3, <1>4, <1>5, <1>6 DEF HashInv

LEMMA HoldsAnswers == HashInv => Answers
  BY FindAnswers DEF HashInv

LEMMA InsertOldStep ==
  ASSUME HashInv, NEW k \in Keys, InsertOld(k)
  PROVE  HashInv' /\ Elements' = Elements /\ \A x : FindInternal(x)' = FindInternal(x)
<1>1. Answers
  BY HoldsAnswers
<1>2. UNCHANGED <<table, m_FreeList, blocks, removed>> /\ value' = value
      /\ held' = [held EXCEPT ![k] = FindInternal(k)]
  BY DEF InsertOld, heap
<1>3. value' \in [Places -> 0 .. kMaxValue]
  BY <1>2 DEF HashInv, HeapOK
<1>4. FindInternal(k) \in Places \cup {Null}
  BY <1>1 DEF Answers
<1>5. held' \in [Keys -> Places \cup {Null}]
      /\ \A x \in Keys : held'[x] # Null => held'[x] = FindInternal(x)
  BY <1>2, <1>4 DEF HashInv, HeldOK
<1> QED BY <1>2, <1>3, <1>5, SameTable

LEMMA CountStep ==
  ASSUME HashInv, NEW k \in Keys, CountThrough(k)
  PROVE  HashInv' /\ Elements' = Elements /\ \A x : FindInternal(x)' = FindInternal(x)
         /\ held[k] = FindInternal(k) /\ held[k] \in Places
         /\ value' = [value EXCEPT ![held[k]] = @ + 1]
<1>1. UNCHANGED <<table, m_FreeList, blocks, removed>> /\ held' = held
      /\ value' = [value EXCEPT ![held[k]] = @ + 1]
      /\ held[k] # Null /\ value[held[k]] < kMaxValue
  BY DEF CountThrough
<1>2. held[k] \in Places /\ held[k] = FindInternal(k)
  BY <1>1 DEF HashInv, HeldOK
<1>3. value' \in [Places -> 0 .. kMaxValue]
  <2>1. value[held[k]] \in 0 .. kMaxValue
    BY <1>2 DEF HashInv, HeapOK
  <2>2. value[held[k]] + 1 \in 0 .. kMaxValue
    BY <2>1, <1>1, BoundAssumption
  <2> QED BY <2>2, <1>1, <1>2 DEF HashInv, HeapOK
<1>4. held' \in [Keys -> Places \cup {Null}]
      /\ \A x \in Keys : held'[x] # Null => held'[x] = FindInternal(x)
  BY <1>1 DEF HashInv, HeldOK
<1> QED BY <1>1, <1>2, <1>3, <1>4, SameTable

LEMMA QuietStep ==
  ASSUME HashInv, UNCHANGED <<table, heap, held, removed>>
  PROVE  HashInv' /\ Elements' = Elements /\ KeysIn' = KeysIn
         /\ \A x : FindInternal(x)' = FindInternal(x)
<1>1. UNCHANGED <<table, m_FreeList, blocks, removed>> /\ value' = value /\ held' = held
  BY DEF heap
<1>2. value' \in [Places -> 0 .. kMaxValue]
  BY <1>1 DEF HashInv, HeapOK
<1>3. held' \in [Keys -> Places \cup {Null}]
      /\ \A x \in Keys : held'[x] # Null => held'[x] = FindInternal(x)
  BY <1>1 DEF HashInv, HeldOK
<1> QED BY <1>1, <1>2, <1>3, SameTable

LEMMA InsertNewStep ==
  ASSUME HashInv, NEW k \in Keys, InsertNew(k)
  PROVE  /\ HashInv'
         /\ k \notin KeysIn /\ Head(WithRoom) \in Places
         /\ Elements' = Elements \cup {[key |-> k, place |-> Head(WithRoom)]}
         /\ \A e \in Elements : e.place # Head(WithRoom)
<1> DEFINE place == Head(WithRoom)
           new == [key |-> k, place |-> place]
           grown == IF NeedsGrowth THEN Grown(NewCapacity) ELSE m_Table
           b == IF m_FreeList = << >> THEN blocks + 1 ELSE blocks
           A == 0 .. b * kBlockElems - 1
<1>1. /\ FindInternal(k) = Null /\ m_Count < kMaxCount
      /\ m_Capacity' = NewCapacity
      /\ m_Table' = [grown EXCEPT ![Index(k, NewCapacity)] = <<new>> \o @]
      /\ m_Count' = m_Count + 1
      /\ m_FreeList' = Tail(WithRoom) /\ blocks' = b
      /\ value' = [value EXCEPT ![place] = 0]
      /\ held' = [held EXCEPT ![k] = place]
      /\ removed' = removed
  BY DEF InsertNew
<1>2. TableOK /\ ElementsDiffer /\ HeapOK /\ HeldOK /\ CountOK /\ Answers
  BY HoldsAnswers DEF HashInv
<1>3. /\ b \in 0 .. m_Count + 1
      /\ Allocated \subseteq A /\ A \subseteq Places
      /\ WithRoom \in Seq(A) /\ WithRoom # << >>
      /\ \A n, o \in DOMAIN WithRoom : WithRoom[n] = WithRoom[o] => n = o
      /\ \A e \in Elements : \A n \in DOMAIN WithRoom : WithRoom[n] # e.place
  BY <1>1, <1>2, RoomIsThere
<1>4. k \notin KeysIn
  BY <1>1, <1>2 DEF Answers
<1>5. /\ 1 \in DOMAIN WithRoom /\ place = WithRoom[1] /\ place \in A
      /\ Tail(WithRoom) \in Seq(A)
      /\ \A n \in DOMAIN Tail(WithRoom) : n + 1 \in DOMAIN WithRoom /\ n # 0 /\ n \in Nat
                                          /\ Tail(WithRoom)[n] = WithRoom[n + 1]
  <2> DEFINE W == WithRoom
  <2>1. W \in Seq(A) /\ W # << >>
    BY <1>3
  <2> HIDE DEF W, A
  <2>2. Len(W) \in Nat /\ Len(W) # 0 /\ DOMAIN W = 1 .. Len(W) /\ Head(W) = W[1]
    BY <2>1
  <2>3. Tail(W) \in Seq(A) /\ Len(Tail(W)) = Len(W) - 1
        /\ \A n \in 1 .. Len(W) - 1 : Tail(W)[n] = W[n + 1]
    BY <2>1, <2>2, HeadTailProperties
  <2>4. DOMAIN Tail(W) = 1 .. Len(W) - 1
    BY <2>2, <2>3
  <2>5. 1 \in DOMAIN W /\ W[1] \in A
    BY <2>1, <2>2
  <2> QED BY <2>2, <2>3, <2>4, <2>5 DEF W
<1>6. \A e \in Elements : e.place # place
  BY <1>3, <1>5
<1>7. place \in Places /\ new \in Elem /\ new.key = k /\ new.place = place
  BY <1>3, <1>5 DEF Elem
<1> HIDE DEF place, b, A
<1>8. m_Capacity \in Nat /\ m_Count \in Nat /\ kInitialCapacity \in Nat \ {0} /\ kMaxCount \in Nat
  BY <1>2, SizeAssumption, BoundAssumption DEF TableOK
<1>9. /\ WellPlaced(grown, NewCapacity) /\ ElementsOf(grown) = Elements
      /\ NewCapacity \in Nat \ {0} /\ m_Count * 4 < NewCapacity * 3
  <2>1. CASE NeedsGrowth
    <3>1. NewCapacity = IF m_Capacity = 0 THEN kInitialCapacity ELSE m_Capacity * 2
      BY <2>1 DEF NewCapacity
    <3>2. WellPlaced(grown, NewCapacity) /\ ElementsOf(grown) = Elements
      BY <2>1, <3>1, <1>2, <1>8, GrownKeeps DEF TableOK, Elements
    <3>3. m_Count * 4 < NewCapacity * 3 /\ NewCapacity \in Nat \ {0}
      BY <3>1, <1>2, <1>8 DEF TableOK, FillIsBounded
    <3> QED BY <3>2, <3>3
  <2>2. CASE ~NeedsGrowth
    <3>1. NewCapacity = m_Capacity /\ grown = m_Table /\ ~(m_Count * 4 >= m_Capacity * 3)
      BY <2>2 DEF NewCapacity, NeedsGrowth
    <3>2. m_Capacity # 0 /\ m_Count * 4 < m_Capacity * 3
      BY <3>1, <1>8
    <3> QED BY <3>1, <3>2, <1>2, <1>8 DEF TableOK, Elements
  <2> QED BY <2>1, <2>2
<1> HIDE DEF grown
<1>10. new \notin Elements
  BY <1>6, <1>7
<1>11. WellPlaced(m_Table', NewCapacity) /\ ElementsOf(m_Table') = Elements \cup {new}
  <2>1. m_Table' = Pushed(grown, NewCapacity, new)
    BY <1>1, <1>7 DEF Pushed
  <2>2. new \notin ElementsOf(grown)
    BY <1>9, <1>10
  <2> HIDE DEF new
  <2> QED BY <2>1, <2>2, <1>7, <1>9, PushedElement
<1>12. Elements' = Elements \cup {new}
  BY <1>11 DEF Elements
<1>13. TableOK'
  BY <1>1, <1>8, <1>9, <1>11 DEF TableOK, FillIsBounded
<1>14. ElementsDiffer'
  <2>1. \A e \in Elements : e.key # k
    BY <1>4, ElementTypes DEF KeysIn
  <2>2. /\ \A e, f \in Elements' : e.key = f.key => e = f
        /\ \A e, f \in Elements' : e.place = f.place => e = f
    BY <2>1, <1>2, <1>6, <1>7, <1>12 DEF ElementsDiffer
  <2> QED BY <2>2 DEF ElementsDiffer
<1>15. HeapOK'
  <2>1. Allocated' = A
    BY <1>1 DEF Allocated, A
  <2>2. blocks' \in 0 .. m_Count'
    BY <1>1, <1>3
  <2>3. m_FreeList' \in Seq(Allocated')
    BY <1>1, <1>5, <2>1
  <2>4. \A n \in DOMAIN m_FreeList' : n + 1 \in DOMAIN WithRoom /\ n # 0 /\ n \in Nat
                                      /\ m_FreeList'[n] = WithRoom[n + 1]
    BY <1>1, <1>5
  <2>5. \A n, o \in DOMAIN m_FreeList' : m_FreeList'[n] = m_FreeList'[o] => n = o
    <3> SUFFICES ASSUME NEW n \in DOMAIN m_FreeList', NEW o \in DOMAIN m_FreeList',
                        m_FreeList'[n] = m_FreeList'[o]
                 PROVE  n = o
      OBVIOUS
    <3>1. WithRoom[n + 1] = WithRoom[o + 1] /\ n \in Nat /\ o \in Nat
          /\ n + 1 \in DOMAIN WithRoom /\ o + 1 \in DOMAIN WithRoom
      BY <2>4
    <3>2. n + 1 = o + 1
      BY <3>1, <1>3
    <3> QED BY <3>1, <3>2
  <2>6. \A e \in Elements' : e.place \in Allocated'
    BY <2>1, <1>2, <1>3, <1>5, <1>7, <1>12 DEF HeapOK
  <2>7. \A n \in DOMAIN m_FreeList' : m_FreeList'[n] # place
    <3> SUFFICES ASSUME NEW n \in DOMAIN m_FreeList', m_FreeList'[n] = place PROVE FALSE
      OBVIOUS
    <3>1. WithRoom[n + 1] = WithRoom[1] /\ n + 1 \in DOMAIN WithRoom /\ n # 0 /\ n \in Nat
      BY <2>4, <1>5
    <3>2. n + 1 = 1
      BY <3>1, <1>3, <1>5
    <3> QED BY <3>1, <3>2
  <2>8. \A e \in Elements' : \A n \in DOMAIN m_FreeList' : m_FreeList'[n] # e.place
    <3> SUFFICES ASSUME NEW e \in Elements', NEW n \in DOMAIN m_FreeList'
                 PROVE  m_FreeList'[n] # e.place
      OBVIOUS
    <3>1. CASE e \in Elements
      BY <3>1, <2>4, <1>3
    <3>2. CASE e = new
      BY <3>2, <2>7, <1>7
    <3> QED BY <3>1, <3>2, <1>12
  <2>9. value' \in [Places -> 0 .. kMaxValue]
    <3>1. 0 \in 0 .. kMaxValue
      BY BoundAssumption
    <3> QED BY <3>1, <1>1, <1>2, <1>7 DEF HeapOK
  <2> QED BY <2>2, <2>3, <2>5, <2>6, <2>8, <2>9 DEF HeapOK
<1>16. Answers'
  <2>1. (TableOK /\ ElementsDiffer => Answers)'
    BY FindAnswers, PTL
  <2> QED BY <2>1, <1>13, <1>14
<1>17. HeldOK'
  <2>1. held' \in [Keys -> Places \cup {Null}]
    BY <1>1, <1>2, <1>7 DEF HeldOK
  <2>2. \A e \in Elements' : FindInternal(e.key)' = e.place
    BY <1>16 DEF Answers
  <2>3. ASSUME NEW x \in Keys, held'[x] # Null PROVE held'[x] = FindInternal(x)'
    <3>1. CASE x = k
      BY <3>1, <2>2, <1>1, <1>2, <1>7, <1>12 DEF HeldOK
    <3>2. CASE x # k
      <4>1. held'[x] = held[x] /\ held[x] = FindInternal(x) /\ held[x] # Null
        BY <3>2, <2>3, <1>1, <1>2 DEF HeldOK
      <4>2. [key |-> x, place |-> FindInternal(x)] \in Elements
        BY <4>1, <1>2 DEF Answers
      <4>3. FindInternal([key |-> x, place |-> FindInternal(x)].key)' = [key |-> x, place |-> FindInternal(x)].place
        BY <4>2, <2>2, <1>12
      <4> QED BY <4>1, <4>3
    <3> QED BY <3>1, <3>2
  <2> QED BY <2>1, <2>3 DEF HeldOK
<1>18. CountOK'
  <2>1. KeysIn' = KeysIn \cup {k}
    <3>1. \A x \in Keys : (\E e \in Elements' : e.key = x) <=> x = k \/ \E e \in Elements : e.key = x
      BY <1>7, <1>12
    <3> QED BY <3>1 DEF KeysIn
  <2>2. IsFiniteSet(KeysIn') /\ Cardinality(KeysIn') = Cardinality(KeysIn) + 1
    BY <2>1, <1>2, <1>4, FS_AddElement DEF CountOK
  <2> QED BY <2>2, <1>1, <1>2, <1>8 DEF CountOK
<1>19. HashInv'
  BY <1>13, <1>14, <1>15, <1>17, <1>18 DEF HashInv
<1>20. Elements' = Elements \cup {[key |-> k, place |-> place]}
  BY <1>12
<1> QED BY <1>4, <1>6, <1>7, <1>19, <1>20 DEF place

LEMMA RemoveStep ==
  ASSUME HashInv, NEW k \in Keys, RemoveKey(k)
  PROVE  /\ HashInv'
         /\ k \in KeysIn
         /\ Elements' = {e \in Elements : e.key # k}
<1> DEFINE place == FindInternal(k)
<1>1. /\ place # Null
      /\ m_Table' = [m_Table EXCEPT ![Index(k, m_Capacity)] = Selected(@, {n \in DOMAIN @ : @[n].key # k})]
      /\ m_FreeList' = <<place>> \o m_FreeList
      /\ held' = [held EXCEPT ![k] = Null]
      /\ removed' = removed + 1
      /\ UNCHANGED <<m_Capacity, m_Count, blocks, value>>
  BY DEF RemoveKey
<1>2. TableOK /\ ElementsDiffer /\ HeapOK /\ HeldOK /\ CountOK /\ Answers
  BY HoldsAnswers DEF HashInv
<1>3. k \in KeysIn /\ [key |-> k, place |-> place] \in Elements
  BY <1>1, <1>2 DEF Answers
<1>4. PICK gone \in Elements : gone = [key |-> k, place |-> place]
  BY <1>3
<1> HIDE DEF place
<1>5. gone.key = k /\ gone.place = place
  BY <1>4
<1>6. m_Capacity \in Nat \ {0}
  <2>1. CASE m_Capacity = 0
    <3>1. DOMAIN m_Table = {}
      BY <2>1, <1>2 DEF TableOK, WellPlaced
    <3> QED BY <3>1, <1>4 DEF Elements, ElementsOf
  <2> QED BY <2>1, <1>2 DEF TableOK
<1>7. WellPlaced(m_Table', m_Capacity) /\ ElementsOf(m_Table') = {e \in ElementsOf(m_Table) : e.key # k}
  <2>1. m_Table' = Without(m_Table, m_Capacity, k)
    BY <1>1 DEF Without
  <2> QED BY <2>1, <1>2, <1>6, TakenOut DEF TableOK
<1>8. Elements' = {e \in Elements : e.key # k}
  BY <1>7 DEF Elements
<1>9. TableOK'
  BY <1>1, <1>2, <1>7 DEF TableOK, FillIsBounded
<1>10. ElementsDiffer'
  BY <1>2, <1>8 DEF ElementsDiffer
<1>11. HeapOK'
  <2> DEFINE F == m_FreeList
             G == <<place>> \o F
  <2>1. Allocated' = Allocated
    BY <1>1 DEF Allocated
  <2>2. place \in Allocated /\ F \in Seq(Allocated) /\ Len(F) \in Nat /\ DOMAIN F = 1 .. Len(F)
    BY <1>2, <1>4, <1>5 DEF HeapOK
  <2> HIDE DEF F
  <2>3. /\ G \in Seq(Allocated) /\ DOMAIN G = 1 .. Len(F) + 1 /\ G[1] = place
        /\ \A n \in DOMAIN G : n # 1 => n - 1 \in DOMAIN F /\ G[n] = F[n - 1]
    <3> DEFINE u == <<place>>
    <3>1. u \in Seq(Allocated) /\ Len(u) = 1 /\ u[1] = place
      BY <2>2
    <3> HIDE DEF u
    <3>2. /\ u \o F \in Seq(Allocated) /\ Len(u \o F) = Len(u) + Len(F)
          /\ \A n \in 1 .. Len(u) + Len(F) : (u \o F)[n] = IF n <= Len(u) THEN u[n] ELSE F[n - Len(u)]
      BY <2>2, <3>1, ConcatProperties
    <3>3. PICK v \in Seq(Allocated) : v = u \o F /\ v = G
      BY <3>2 DEF u
    <3>4. Len(v) = 1 + Len(F) /\ \A n \in 1 .. 1 + Len(F) : v[n] = IF n <= 1 THEN u[n] ELSE F[n - 1]
      BY <3>1, <3>2, <3>3
    <3>5. DOMAIN v = 1 .. Len(F) + 1 /\ v[1] = place
      BY <3>1, <3>4, <2>2
    <3>6. \A n \in DOMAIN v : n # 1 => n - 1 \in DOMAIN F /\ v[n] = F[n - 1]
      <4> SUFFICES ASSUME NEW n \in 1 .. Len(F) + 1, n # 1
                   PROVE  n - 1 \in DOMAIN F /\ v[n] = F[n - 1]
        BY <3>5
      <4>1. n - 1 \in 1 .. Len(F) /\ ~(n <= 1) /\ n \in 1 .. 1 + Len(F)
        BY <2>2
      <4> QED BY <4>1, <3>4, <2>2
    <3> QED BY <3>3, <3>5, <3>6
  <2>4. \A e \in Elements : \A n \in DOMAIN F : F[n] # e.place
    BY <1>2 DEF HeapOK, F
  <2>5. \A n \in DOMAIN F : F[n] # place
    BY <2>4, <1>5
  <2>6. \A n, o \in DOMAIN F : F[n] = F[o] => n = o
    BY <1>2 DEF HeapOK, F
  <2>7. m_FreeList' = G
    BY <1>1 DEF F
  <2> HIDE DEF G
  <2>8. \A n, o \in DOMAIN G : G[n] = G[o] => n = o
    <3> SUFFICES ASSUME NEW n \in DOMAIN G, NEW o \in DOMAIN G, G[n] = G[o] PROVE n = o
      OBVIOUS
    <3>1. n = 1 <=> o = 1
      BY <2>3, <2>5
    <3>2. CASE n # 1 /\ o # 1
      <4>1. n - 1 \in DOMAIN F /\ o - 1 \in DOMAIN F /\ F[n - 1] = F[o - 1]
        BY <3>2, <2>3
      <4>2. n - 1 = o - 1 /\ n \in Int /\ o \in Int
        BY <4>1, <2>2, <2>3, <2>6
      <4> QED BY <4>2
    <3> QED BY <3>1, <3>2
  <2>9. \A e \in Elements' : e \in Elements /\ e.place # place
    <3> SUFFICES ASSUME NEW e \in Elements', e.place = place PROVE FALSE
      BY <1>8
    <3>1. e \in Elements /\ e.key # k
      BY <1>8
    <3>2. e = gone
      BY <3>1, <1>2, <1>5 DEF ElementsDiffer
    <3> QED BY <3>1, <3>2, <1>5
  <2>10. \A e \in Elements' : \A n \in DOMAIN G : G[n] # e.place
    <3> SUFFICES ASSUME NEW e \in Elements', NEW n \in DOMAIN G PROVE G[n] # e.place
      OBVIOUS
    <3>1. e \in Elements /\ e.place # place
      BY <2>9
    <3>2. CASE n = 1
      BY <3>1, <3>2, <2>3
    <3>3. CASE n # 1
      BY <3>1, <3>3, <2>3, <2>4
    <3> QED BY <3>2, <3>3
  <2>11. \A e \in Elements' : e.place \in Allocated
    BY <2>9, <1>2 DEF HeapOK
  <2>12. blocks' \in 0 .. m_Count' /\ value' \in [Places -> 0 .. kMaxValue]
    BY <1>1, <1>2 DEF HeapOK
  <2> QED BY <2>1, <2>3, <2>7, <2>8, <2>10, <2>11, <2>12 DEF HeapOK
<1>12. Answers'
  <2>1. (TableOK /\ ElementsDiffer => Answers)'
    BY FindAnswers, PTL
  <2> QED BY <2>1, <1>9, <1>10
<1>13. HeldOK'
  <2>1. held' \in [Keys -> Places \cup {Null}]
    BY <1>1, <1>2 DEF HeldOK
  <2>2. \A e \in Elements' : FindInternal(e.key)' = e.place
    BY <1>12 DEF Answers
  <2>3. ASSUME NEW x \in Keys, held'[x] # Null PROVE held'[x] = FindInternal(x)'
    <3>1. x # k
      BY <2>3, <1>1, <1>2 DEF HeldOK
    <3>2. held'[x] = held[x] /\ held[x] = FindInternal(x) /\ held[x] # Null
      BY <3>1, <2>3, <1>1, <1>2 DEF HeldOK
    <3>3. PICK e \in Elements : e = [key |-> x, place |-> FindInternal(x)]
      BY <3>2, <1>2 DEF Answers
    <3>4. e \in Elements' /\ e.key = x /\ e.place = FindInternal(x)
      BY <3>1, <3>3, <1>8
    <3>5. FindInternal(e.key)' = e.place
      BY <3>4, <2>2
    <3> QED BY <3>2, <3>4, <3>5
  <2> QED BY <2>1, <2>3 DEF HeldOK
<1>14. CountOK'
  <2>1. KeysIn' = KeysIn \ {k}
    <3>1. \A x \in Keys : (\E e \in Elements' : e.key = x) <=> x # k /\ \E e \in Elements : e.key = x
      BY <1>8
    <3> QED BY <3>1 DEF KeysIn
  <2>2. IsFiniteSet(KeysIn') /\ Cardinality(KeysIn') = Cardinality(KeysIn) - 1
    BY <2>1, <1>2, <1>3, FS_RemoveElement DEF CountOK
  <2>3. m_Count \in Nat /\ removed \in Nat
    BY <1>2 DEF TableOK, CountOK
  <2> QED BY <2>2, <2>3, <1>1, <1>2 DEF CountOK
<1>15. HashInv'
  BY <1>9, <1>10, <1>11, <1>13, <1>14 DEF HashInv
<1> QED BY <1>3, <1>8, <1>15

\* FreeAll leaves what Init made.
LEMMA FreeAllStep ==
  ASSUME FreeAll
  PROVE  HashInv' /\ Elements' = {} /\ KeysIn' = {}
<1>1. /\ m_Capacity' = 0 /\ m_Count' = 0 /\ m_Table' = << >>
      /\ m_FreeList' = << >> /\ blocks' = 0 /\ value' = [p \in Places |-> 0]
      /\ held' = [k \in Keys |-> Null] /\ removed' = 0
  BY DEF FreeAll
<1>2. 0 .. m_Capacity' - 1 = {} /\ DOMAIN m_Table' = {}
  BY <1>1
<1>3. Elements' = {} /\ KeysIn' = {}
  BY <1>2 DEF Elements, ElementsOf, KeysIn
<1>4. WellPlaced(m_Table, m_Capacity)'
  <2>1. m_Table' \in [0 .. m_Capacity' - 1 -> Seq(Elem)]
    BY <1>1, <1>2
  <2> QED BY <2>1, <1>2 DEF WellPlaced
<1>5. TableOK'
  BY <1>1, <1>4, BoundAssumption DEF TableOK, FillIsBounded
<1>6. ElementsDiffer' /\ HeldOK' /\ CountOK'
  BY <1>1, <1>3, FS_EmptySet DEF ElementsDiffer, HeldOK, CountOK
<1>7. HeapOK'
  <2>1. m_FreeList' \in Seq(Allocated') /\ DOMAIN m_FreeList' = {}
    BY <1>1
  <2>2. value' \in [Places -> 0 .. kMaxValue]
    BY <1>1, BoundAssumption
  <2>3. blocks' \in 0 .. m_Count'
    BY <1>1
  <2> QED BY <2>1, <2>2, <2>3, <1>3 DEF HeapOK
<1> QED BY <1>3, <1>5, <1>6, <1>7 DEF HashInv
-----------------------------------------------------------------------------
(* The iteration. What it has been through are the keys of the slots below *)
(* the index, but for those of the chain it is in and has not reached yet. *)

VisitedBy(at) ==
  {k \in KeysIn : Index(k, m_Capacity) < at.index /\ \A n \in DOMAIN at.curr : at.curr[n].key # k}

\* What is left of the chain is of a slot below the index, each element once.
RestOK(curr, index) ==
  /\ curr \in Seq(Elem) /\ index \in 0 .. m_Capacity
  /\ \A n \in DOMAIN curr : curr[n] \in Elements /\ Index(curr[n].key, m_Capacity) < index
  /\ \A n, o \in DOMAIN curr : curr[n] = curr[o] => n = o

IterOK ==
  it # Null =>
    /\ RestOK(it.at.curr, it.at.index)
    /\ it.at.curr = << >> => it.at.index = m_Capacity
    /\ it.saved \in Seq([key : Keys, count : 0 .. kMaxValue])
    /\ Len(it.saved) = Cardinality(VisitedBy(it.at))
    /\ Range(it.saved) = {Saved(k) : k \in VisitedBy(it.at)}

\* If a chain is not empty, there is a first one.
LEMMA FirstChainIsThere ==
  ASSUME m_Capacity \in Nat, NEW from \in Nat,
         \E i \in from .. m_Capacity - 1 : m_Table[i] # << >>
  PROVE  FirstChain(from) # {}
<1> DEFINE I == {n \in 1 .. m_Capacity : n - 1 >= from /\ m_Table[n - 1] # << >>}
<1>1. I \in SUBSET (1 .. m_Capacity)
  OBVIOUS
<1>2. \A n : n \in I <=> n \in 1 .. m_Capacity /\ n - 1 >= from /\ m_Table[n - 1] # << >>
  OBVIOUS
<1>3. PICK x \in I : TRUE
  <2>1. PICK i \in from .. m_Capacity - 1 : m_Table[i] # << >>
    OBVIOUS
  <2>2. i + 1 \in 1 .. m_Capacity /\ (i + 1) - 1 = i /\ i >= from
    OBVIOUS
  <2> QED BY <2>1, <2>2
<1> HIDE DEF I
<1>4. /\ \A i \in I : Rank(I, i) \in 1 .. Cardinality(I)
      /\ \A k \in 1 .. Cardinality(I) : Nth(I, k) \in I /\ Rank(I, Nth(I, k)) = k
      /\ Cardinality(I) \in Nat /\ IsFiniteSet(I)
  BY <1>1, NthIsThere
<1>5. 1 \in 1 .. Cardinality(I)
  BY <1>3, <1>4
<1>6. PICK m \in I : Rank(I, m) = 1
  BY <1>4, <1>5
<1>7. ASSUME NEW j \in I, j < m PROVE FALSE
  <2>1. I \in SUBSET Int
    BY <1>1
  <2>2. Rank(I, j) < Rank(I, m)
    BY <1>4, <1>7, <2>1, RankGrows
  <2> QED BY <2>2, <1>4, <1>6
<1>8. m - 1 \in from .. m_Capacity - 1 /\ m_Table[m - 1] # << >> /\ m \in 1 .. m_Capacity
  BY <1>1, <1>2
<1>9. ASSUME NEW j \in from .. (m - 1) - 1, m_Table[j] # << >> PROVE FALSE
  <2>1. j + 1 \in 1 .. m_Capacity /\ (j + 1) - 1 = j /\ j >= from /\ j + 1 < m
    BY <1>8
  <2>2. j + 1 \in I
    BY <2>1, <1>2, <1>9
  <2> QED BY <2>1, <2>2, <1>7
<1>10. m - 1 \in FirstChain(from)
  BY <1>8, <1>9 DEF FirstChain
<1> QED BY <1>10

\* A key that is in the table is in the chain of its slot.
LEMMA KeyInItsSlot ==
  ASSUME TableOK, NEW k \in KeysIn
  PROVE  /\ k \in Keys /\ m_Capacity # 0 /\ Index(k, m_Capacity) \in 0 .. m_Capacity - 1
         /\ \E n \in DOMAIN m_Table[Index(k, m_Capacity)] : m_Table[Index(k, m_Capacity)][n].key = k
<1>1. PICK e \in Elements : e.key = k
  BY DEF KeysIn
<1>2. m_Capacity \in Nat /\ WellPlaced(m_Table, m_Capacity) /\ k \in Keys
  BY DEF TableOK, KeysIn
<1>3. m_Capacity # 0 /\ \E n \in DOMAIN m_Table[Index(e.key, m_Capacity)] :
                          m_Table[Index(e.key, m_Capacity)][n] = e
  BY <1>1, <1>2, ElementInItsSlot DEF Elements
<1> QED BY <1>1, <1>2, <1>3, IndexIsASlot

\* Step goes to the next element and skips none.
LEMMA SteppedSkipsNone ==
  ASSUME TableOK, NEW rest, NEW index, RestOK(rest, index)
  PROVE  /\ RestOK(Stepped(rest, index).curr, Stepped(rest, index).index)
         /\ Stepped(rest, index).curr = << >> => Stepped(rest, index).index = m_Capacity
         /\ VisitedBy(Stepped(rest, index)) = VisitedBy([curr |-> rest, index |-> index])
<1>1. m_Capacity \in Nat /\ WellPlaced(m_Table, m_Capacity)
  BY DEF TableOK
<1>2. rest \in Seq(Elem) /\ index \in 0 .. m_Capacity /\ index \in Nat
  BY <1>1 DEF RestOK
<1>3. \A k \in KeysIn : /\ Index(k, m_Capacity) \in 0 .. m_Capacity - 1
                        /\ m_Table[Index(k, m_Capacity)] # << >>
                        /\ \E n \in DOMAIN m_Table[Index(k, m_Capacity)] :
                             m_Table[Index(k, m_Capacity)][n].key = k
  <2> SUFFICES ASSUME NEW k \in KeysIn
               PROVE  /\ Index(k, m_Capacity) \in 0 .. m_Capacity - 1
                      /\ m_Table[Index(k, m_Capacity)] # << >>
                      /\ \E n \in DOMAIN m_Table[Index(k, m_Capacity)] :
                           m_Table[Index(k, m_Capacity)][n].key = k
    OBVIOUS
  <2>1. PICK i \in 0 .. m_Capacity - 1 : i = Index(k, m_Capacity)
    BY KeyInItsSlot
  <2>2. PICK n \in DOMAIN m_Table[i] : m_Table[i][n].key = k
    BY <2>1, KeyInItsSlot
  <2>3. m_Table[i] # << >>
    BY <2>2
  <2> QED BY <2>1, <2>2, <2>3
<1>4. CASE rest # << >>
  <2>1. Stepped(rest, index) = [curr |-> rest, index |-> index]
    BY <1>4 DEF Stepped
  <2> QED BY <2>1, <1>4
<1>5. CASE rest = << >> /\ FirstChain(index) = {}
  <2>1. Stepped(rest, index) = [curr |-> rest, index |-> m_Capacity]
    BY <1>5 DEF Stepped
  <2>2. RestOK(rest, m_Capacity)
    BY <1>1, <1>2, <1>5 DEF RestOK
  <2>3. ASSUME NEW k \in KeysIn PROVE Index(k, m_Capacity) < index /\ Index(k, m_Capacity) < m_Capacity
    <3>1. PICK i \in 0 .. m_Capacity - 1 : i = Index(k, m_Capacity) /\ m_Table[i] # << >>
      BY <1>3
    <3>2. ~(i >= index)
      <4> SUFFICES ASSUME i >= index PROVE FALSE
        OBVIOUS
      <4>1. i \in index .. m_Capacity - 1
        BY <1>2
      <4> QED BY <4>1, <3>1, <1>1, <1>2, <1>5, FirstChainIsThere
    <3> QED BY <3>1, <3>2, <1>1, <1>2
  <2>4. VisitedBy([curr |-> rest, index |-> m_Capacity]) = VisitedBy([curr |-> rest, index |-> index])
    BY <2>3 DEF VisitedBy
  <2> QED BY <2>1, <2>2, <2>4
<1>6. CASE rest = << >> /\ FirstChain(index) # {}
  <2>1. PICK i \in FirstChain(index) : Stepped(rest, index) = [curr |-> m_Table[i], index |-> i + 1]
    BY <1>6 DEF Stepped
  <2>2. /\ i \in index .. m_Capacity - 1 /\ m_Table[i] # << >>
        /\ \A j \in index .. i - 1 : m_Table[j] = << >>
    BY DEF FirstChain
  <2>3. i \in 0 .. m_Capacity - 1 /\ i \in Nat /\ i + 1 \in 0 .. m_Capacity /\ i >= index
    BY <1>1, <1>2, <2>2
  <2>4. RestOK(m_Table[i], i + 1)
    <3>1. m_Table[i] \in Seq(Elem) /\ \A n, o \in DOMAIN m_Table[i] : m_Table[i][n] = m_Table[i][o] => n = o
      BY <1>1, <2>3 DEF WellPlaced
    <3>2. ASSUME NEW n \in DOMAIN m_Table[i]
          PROVE  m_Table[i][n] \in Elements /\ Index(m_Table[i][n].key, m_Capacity) < i + 1
      <4>1. m_Table[i][n] \in Elem /\ Index(m_Table[i][n].key, m_Capacity) = i
        BY <1>1, <2>3, <3>1 DEF WellPlaced
      <4>2. i \in DOMAIN m_Table
        BY <1>1, <2>3 DEF WellPlaced
      <4> QED BY <4>1, <4>2, <2>3 DEF Elements, ElementsOf
    <3> QED BY <3>1, <3>2, <2>3 DEF RestOK
  <2>5. ASSUME NEW k \in KeysIn
        PROVE  (Index(k, m_Capacity) < i + 1 /\ \A n \in DOMAIN m_Table[i] : m_Table[i][n].key # k)
               <=> Index(k, m_Capacity) < index
    <3>1. PICK h \in 0 .. m_Capacity - 1 : h = Index(k, m_Capacity) /\ m_Table[h] # << >>
      BY <1>3
    <3>2. h < index \/ h = i \/ h > i
      <4>1. ~(h \in index .. i - 1)
        BY <2>2, <3>1
      <4> QED BY <4>1, <1>2, <2>3
    <3>3. h = i => \E n \in DOMAIN m_Table[i] : m_Table[i][n].key = k
      BY <1>3, <3>1
    <3>4. ASSUME h < index, NEW n \in DOMAIN m_Table[i], m_Table[i][n].key = k PROVE FALSE
      <4>1. Index(m_Table[i][n].key, m_Capacity) = i
        BY <1>1, <2>3 DEF WellPlaced
      <4> QED BY <4>1, <3>1, <3>4, <1>2, <2>3
    <3> QED BY <3>1, <3>2, <3>3, <3>4, <1>2, <2>3
  <2>6. VisitedBy([curr |-> m_Table[i], index |-> i + 1]) = VisitedBy([curr |-> rest, index |-> index])
    <3>1. DOMAIN rest = {}
      BY <1>6
    <3>2. \A k : k \in VisitedBy([curr |-> m_Table[i], index |-> i + 1])
                 <=> k \in KeysIn /\ Index(k, m_Capacity) < i + 1
                     /\ \A n \in DOMAIN m_Table[i] : m_Table[i][n].key # k
      BY DEF VisitedBy
    <3>3. \A k : k \in VisitedBy([curr |-> rest, index |-> index])
                 <=> k \in KeysIn /\ Index(k, m_Capacity) < index
      BY <3>1 DEF VisitedBy
    <3> QED BY <2>5, <3>2, <3>3
  <2> QED BY <2>1, <2>2, <2>4, <2>6
<1> QED BY <1>4, <1>5, <1>6

LEMMA BeginStep ==
  ASSUME HashInv, BeginKeys
  PROVE  IterOK'
<1>1. it' = [at |-> Stepped(<< >>, 0), saved |-> << >>] /\ UNCHANGED <<table, heap, held, removed>>
  BY DEF BeginKeys
<1>2. TableOK
  BY DEF HashInv
<1>3. RestOK(<< >>, 0)
  BY <1>2 DEF RestOK, TableOK
<1> DEFINE at == Stepped(<< >>, 0)
<1>4. /\ RestOK(at.curr, at.index)
      /\ at.curr = << >> => at.index = m_Capacity
      /\ VisitedBy(at) = VisitedBy([curr |-> << >>, index |-> 0])
  BY <1>2, <1>3, SteppedSkipsNone
<1>5. VisitedBy([curr |-> << >>, index |-> 0]) = {}
  <2>1. \A k \in KeysIn : ~(Index(k, m_Capacity) < 0)
    <3> SUFFICES ASSUME NEW k \in KeysIn PROVE ~(Index(k, m_Capacity) < 0)
      OBVIOUS
    <3>1. PICK i \in 0 .. m_Capacity - 1 : i = Index(k, m_Capacity)
      BY <1>2, KeyInItsSlot
    <3>2. m_Capacity \in Nat
      BY <1>2 DEF TableOK
    <3> QED BY <3>1, <3>2
  <2> QED BY <2>1 DEF VisitedBy
<1> HIDE DEF at
<1>6. m_Table' = m_Table /\ m_Capacity' = m_Capacity
  BY <1>1 DEF table
<1>7. Elements' = Elements /\ KeysIn' = KeysIn
  BY <1>6 DEF Elements, KeysIn
<1>8. it'.at = at /\ it'.saved = << >>
  BY <1>1 DEF at
<1>9. /\ it'.at.curr \in Seq(Elem) /\ it'.at.index \in 0 .. m_Capacity'
      /\ \A n \in DOMAIN it'.at.curr : it'.at.curr[n] \in Elements' /\ Index(it'.at.curr[n].key, m_Capacity') < it'.at.index
      /\ \A n, o \in DOMAIN it'.at.curr : it'.at.curr[n] = it'.at.curr[o] => n = o
  BY <1>4, <1>6, <1>7, <1>8 DEF RestOK
<1>10. RestOK(it.at.curr, it.at.index)'
  BY <1>9 DEF RestOK
<1>11. VisitedBy(it.at)' = VisitedBy(at)
  BY <1>6, <1>7, <1>8 DEF VisitedBy
<1>12. VisitedBy(it.at)' = {}
  BY <1>4, <1>5, <1>11
<1>13. it'.saved \in Seq([key : Keys, count : 0 .. kMaxValue]) /\ Len(it'.saved) = 0
       /\ Range(it'.saved) = {}
  BY <1>8 DEF Range
<1>14. Cardinality(VisitedBy(it.at)') = 0
  BY <1>12, FS_EmptySet
<1>15. {Saved(k)' : k \in VisitedBy(it.at)'} = {}
  BY <1>12
<1> QED BY <1>4, <1>6, <1>8, <1>10, <1>13, <1>14, <1>15 DEF IterOK

LEMMA NextKeyStep ==
  ASSUME HashInv, IterOK, NextKey
  PROVE  IterOK'
<1> DEFINE curr == it.at.curr
           index == it.at.index
           rest == Tail(curr)
           first == curr[1]
           at == Stepped(rest, index)
<1>1. /\ it # Null /\ ~AtEnd
      /\ it' = [at |-> at, saved |-> Append(it.saved, Saved(Head(curr).key))]
      /\ UNCHANGED <<table, heap, held, removed>>
  BY DEF NextKey
<1>2. TableOK /\ ElementsDiffer /\ HeapOK /\ Answers /\ IsFiniteSet(KeysIn)
  BY HoldsAnswers DEF HashInv, CountOK
<1>3. /\ RestOK(curr, index)
      /\ curr = << >> => index = m_Capacity
      /\ it.saved \in Seq([key : Keys, count : 0 .. kMaxValue])
      /\ Len(it.saved) = Cardinality(VisitedBy(it.at))
      /\ Range(it.saved) = {Saved(k) : k \in VisitedBy(it.at)}
  BY <1>1 DEF IterOK
<1>4. curr # << >> /\ curr \in Seq(Elem)
  BY <1>1, <1>3 DEF AtEnd, RestOK
<1>5. /\ first = Head(curr) /\ 1 \in DOMAIN curr /\ rest \in Seq(Elem)
      /\ \A n \in DOMAIN rest : n \in Nat /\ n + 1 \in DOMAIN curr /\ n # 0 /\ rest[n] = curr[n + 1]
      /\ \A n \in DOMAIN curr : n = 1 \/ (n - 1 \in DOMAIN rest /\ rest[n - 1] = curr[n])
  <2> HIDE DEF curr
  <2>1. Len(curr) \in Nat /\ Len(curr) # 0 /\ DOMAIN curr = 1 .. Len(curr) /\ Head(curr) = curr[1]
    BY <1>4
  <2>2. Tail(curr) \in Seq(Elem) /\ Len(Tail(curr)) = Len(curr) - 1
        /\ \A n \in 1 .. Len(curr) - 1 : Tail(curr)[n] = curr[n + 1]
    BY <1>4, <2>1, HeadTailProperties
  <2>3. DOMAIN rest = 1 .. Len(curr) - 1
    BY <2>1, <2>2
  <2>4. \A n \in DOMAIN rest : n \in Nat /\ n + 1 \in DOMAIN curr /\ n # 0 /\ rest[n] = curr[n + 1]
    BY <2>1, <2>2, <2>3
  <2>5. \A n \in DOMAIN curr : n = 1 \/ (n - 1 \in DOMAIN rest /\ rest[n - 1] = curr[n])
    <3> SUFFICES ASSUME NEW n \in DOMAIN curr, n # 1 PROVE n - 1 \in DOMAIN rest /\ rest[n - 1] = curr[n]
      OBVIOUS
    <3>1. n - 1 \in 1 .. Len(curr) - 1 /\ (n - 1) + 1 = n
      BY <2>1
    <3> QED BY <3>1, <2>2, <2>3
  <2> QED BY <2>1, <2>2, <2>4, <2>5
<1>6. /\ \A n \in DOMAIN curr : curr[n] \in Elements /\ Index(curr[n].key, m_Capacity) < index
      /\ \A n, o \in DOMAIN curr : curr[n] = curr[o] => n = o
      /\ index \in 0 .. m_Capacity
  BY <1>3 DEF RestOK
<1>7. it.at.index = index /\ it.at.curr = curr
  OBVIOUS
<1> HIDE DEF curr, index, rest
<1>8. RestOK(rest, index)
  <2>1. \A n \in DOMAIN rest : rest[n] \in Elements /\ Index(rest[n].key, m_Capacity) < index
    BY <1>5, <1>6
  <2>2. \A n, o \in DOMAIN rest : rest[n] = rest[o] => n = o
    <3> SUFFICES ASSUME NEW n \in DOMAIN rest, NEW o \in DOMAIN rest, rest[n] = rest[o] PROVE n = o
      OBVIOUS
    <3>1. n + 1 = o + 1 /\ n \in Nat /\ o \in Nat
      BY <1>5, <1>6
    <3> QED BY <3>1
  <2> QED BY <2>1, <2>2, <1>5, <1>6 DEF RestOK
<1>9. /\ RestOK(at.curr, at.index)
      /\ at.curr = << >> => at.index = m_Capacity
      /\ VisitedBy(at) = VisitedBy([curr |-> rest, index |-> index])
  BY <1>2, <1>8, SteppedSkipsNone
<1> HIDE DEF at
<1>10. first \in Elements /\ first.key \in KeysIn /\ Index(first.key, m_Capacity) < index
  <2>1. first \in Elements /\ Index(first.key, m_Capacity) < index
    BY <1>5, <1>6
  <2> QED BY <2>1, ElementTypes DEF KeysIn
<1>11. \A n \in DOMAIN rest : rest[n].key # first.key
  <2> SUFFICES ASSUME NEW n \in DOMAIN rest, rest[n].key = first.key PROVE FALSE
    OBVIOUS
  <2>1. curr[n + 1] \in Elements /\ curr[n + 1].key = first.key /\ n + 1 \in DOMAIN curr
        /\ n \in Nat /\ n # 0
    BY <1>5, <1>6
  <2>2. curr[n + 1] = curr[1]
    BY <2>1, <1>2, <1>10 DEF ElementsDiffer
  <2>3. n + 1 = 1
    BY <2>1, <2>2, <1>5, <1>6
  <2> QED BY <2>1, <2>3
<1>12. VisitedBy(at) = VisitedBy(it.at) \cup {first.key} /\ first.key \notin VisitedBy(it.at)
  <2>1. \A k : k \in VisitedBy([curr |-> rest, index |-> index])
               <=> k \in KeysIn /\ Index(k, m_Capacity) < index /\ \A n \in DOMAIN rest : rest[n].key # k
    BY DEF VisitedBy
  <2>2. \A k : k \in VisitedBy(it.at)
               <=> k \in KeysIn /\ Index(k, m_Capacity) < index /\ \A n \in DOMAIN curr : curr[n].key # k
    BY <1>7 DEF VisitedBy
  <2>3. \A k : (\A n \in DOMAIN curr : curr[n].key # k)
               <=> k # first.key /\ \A n \in DOMAIN rest : rest[n].key # k
    <3> SUFFICES ASSUME NEW k
                 PROVE  (\A n \in DOMAIN curr : curr[n].key # k)
                        <=> k # first.key /\ \A n \in DOMAIN rest : rest[n].key # k
      OBVIOUS
    <3>1. ASSUME \A n \in DOMAIN curr : curr[n].key # k
          PROVE  k # first.key /\ \A n \in DOMAIN rest : rest[n].key # k
      BY <3>1, <1>5
    <3>2. ASSUME k # first.key, \A n \in DOMAIN rest : rest[n].key # k, NEW n \in DOMAIN curr
          PROVE  curr[n].key # k
      <4>1. CASE n = 1
        BY <4>1, <3>2
      <4>2. CASE n # 1
        BY <4>2, <3>2, <1>5
      <4> QED BY <4>1, <4>2
    <3> QED BY <3>1, <3>2
  <2> HIDE DEF first
  <2>4. ASSUME NEW k
        PROVE  k \in VisitedBy(at) <=> k \in VisitedBy(it.at) \/ k = first.key
    <3>1. CASE k = first.key
      BY <3>1, <2>1, <1>9, <1>10, <1>11
    <3>2. CASE k # first.key
      <4>1. k \in VisitedBy(at) <=> k \in KeysIn /\ Index(k, m_Capacity) < index
                                    /\ \A n \in DOMAIN rest : rest[n].key # k
        BY <2>1, <1>9
      <4>2. (\A n \in DOMAIN curr : curr[n].key # k) <=> \A n \in DOMAIN rest : rest[n].key # k
        BY <2>3, <3>2
      <4> QED BY <4>1, <4>2, <2>2, <3>2
    <3> QED BY <3>1, <3>2
  <2>5. first.key \notin VisitedBy(it.at)
    BY <2>2, <2>3
  <2> QED BY <2>4, <2>5
<1>13. m_Table' = m_Table /\ m_Capacity' = m_Capacity /\ value' = value
  BY <1>1 DEF table, heap
<1>14. Elements' = Elements /\ KeysIn' = KeysIn
  BY <1>13 DEF Elements, KeysIn
<1>15. \A k : FindInternal(k)' = FindInternal(k)
  BY <1>13 DEF FindInternal, Scanned
<1>16. \A k : Saved(k)' = Saved(k)
  BY <1>13, <1>15 DEF Saved
<1>17. it'.at = at /\ it'.saved = Append(it.saved, Saved(first.key))
  BY <1>1, <1>5
<1>18. RestOK(it.at.curr, it.at.index)'
  <2>1. /\ it'.at.curr \in Seq(Elem) /\ it'.at.index \in 0 .. m_Capacity'
        /\ \A n \in DOMAIN it'.at.curr : it'.at.curr[n] \in Elements' /\ Index(it'.at.curr[n].key, m_Capacity') < it'.at.index
        /\ \A n, o \in DOMAIN it'.at.curr : it'.at.curr[n] = it'.at.curr[o] => n = o
    BY <1>9, <1>13, <1>14, <1>17 DEF RestOK
  <2> QED BY <2>1 DEF RestOK
<1>19. VisitedBy(it.at)' = VisitedBy(it.at) \cup {first.key}
  <2>1. VisitedBy(it.at)' = VisitedBy(at)
    BY <1>13, <1>14, <1>17 DEF VisitedBy
  <2> QED BY <2>1, <1>12
<1>20. IsFiniteSet(VisitedBy(it.at))
  <2>1. VisitedBy(it.at) \in SUBSET KeysIn
    BY DEF VisitedBy
  <2> QED BY <2>1, <1>2, FS_Subset
<1>21. Cardinality(VisitedBy(it.at)') = Cardinality(VisitedBy(it.at)) + 1
  BY <1>12, <1>19, <1>20, FS_AddElement
<1>22. Saved(first.key) \in [key : Keys, count : 0 .. kMaxValue]
  <2>1. first.key \in Keys /\ FindInternal(first.key) \in Places
    BY <1>2, <1>10, ElementTypes DEF Answers
  <2>2. value[FindInternal(first.key)] \in 0 .. kMaxValue
    BY <2>1, <1>2 DEF HeapOK
  <2> QED BY <2>1, <2>2 DEF Saved
<1>23. /\ it'.saved \in Seq([key : Keys, count : 0 .. kMaxValue])
       /\ Len(it'.saved) = Len(it.saved) + 1
       /\ Range(it'.saved) = Range(it.saved) \cup {Saved(first.key)}
  <2> DEFINE R == [key : Keys, count : 0 .. kMaxValue]
             s == it.saved
             x == Saved(first.key)
  <2>1. s \in Seq(R) /\ x \in R
    BY <1>3, <1>22
  <2> HIDE DEF R, s, x
  <2>2. /\ Append(s, x) \in Seq(R) /\ Len(Append(s, x)) = Len(s) + 1
        /\ \A i \in 1 .. Len(s) : Append(s, x)[i] = s[i]
        /\ Append(s, x)[Len(s) + 1] = x
    BY <2>1, AppendProperties
  <2>3. Len(s) \in Nat /\ DOMAIN s = 1 .. Len(s) /\ DOMAIN Append(s, x) = 1 .. Len(s) + 1
    BY <2>1, <2>2
  <2>4. Range(Append(s, x)) = Range(s) \cup {x}
    <3>1. \A y : y \in Range(Append(s, x)) <=> \E i \in 1 .. Len(s) + 1 : Append(s, x)[i] = y
      BY <2>3 DEF Range
    <3>2. \A y : y \in Range(s) <=> \E i \in 1 .. Len(s) : s[i] = y
      BY <2>3 DEF Range
    <3>3. \A i : i \in 1 .. Len(s) + 1 <=> i \in 1 .. Len(s) \/ i = Len(s) + 1
      BY <2>3
    <3> QED BY <3>1, <3>2, <3>3, <2>2
  <2> QED BY <2>2, <2>4, <1>17 DEF R, s, x
<1>24. {Saved(k)' : k \in VisitedBy(it.at)'} = {Saved(k) : k \in VisitedBy(it.at)} \cup {Saved(first.key)}
  BY <1>16, <1>19
<1>25. Range(it'.saved) = {Saved(k)' : k \in VisitedBy(it.at)'}
  BY <1>3, <1>23, <1>24
<1>26. Len(it'.saved) = Cardinality(VisitedBy(it.at)')
  BY <1>3, <1>21, <1>23
<1>27. it'.at.curr = << >> => it'.at.index = m_Capacity'
  BY <1>9, <1>13, <1>17
<1>28. it'.saved \in Seq([key : Keys, count : 0 .. kMaxValue])
  BY <1>23
<1> QED BY <1>18, <1>25, <1>26, <1>27, <1>28 DEF IterOK
-----------------------------------------------------------------------------
HashAndIterInv == HashInv /\ IterOK

LEMMA StepKeepsInvariant == HashAndIterInv /\ [Next]_vars => HashAndIterInv'
<1> SUFFICES ASSUME HashInv, IterOK, [Next]_vars PROVE HashInv' /\ IterOK'
  BY DEF HashAndIterInv
<1>1. ASSUME NEW k \in Keys, InsertOld(k) PROVE HashInv' /\ IterOK'
  <2>1. ~(it' # Null)
    BY <1>1 DEF InsertOld
  <2> QED BY <2>1, <1>1, InsertOldStep DEF IterOK
<1>2. ASSUME NEW k \in Keys, InsertNew(k) PROVE HashInv' /\ IterOK'
  <2>1. ~(it' # Null)
    BY <1>2 DEF InsertNew
  <2> QED BY <2>1, <1>2, InsertNewStep DEF IterOK
<1>3. ASSUME NEW k \in Keys, Find(k) PROVE HashInv' /\ IterOK'
  <2>1. ~(it' # Null) /\ UNCHANGED <<table, heap, held, removed>>
    BY <1>3 DEF Find
  <2> QED BY <2>1, QuietStep DEF IterOK
<1>4. ASSUME NEW k \in Keys, CountThrough(k) PROVE HashInv' /\ IterOK'
  <2>1. ~(it' # Null)
    BY <1>4 DEF CountThrough
  <2> QED BY <2>1, <1>4, CountStep DEF IterOK
<1>5. ASSUME NEW k \in Keys, RemoveKey(k) PROVE HashInv' /\ IterOK'
  <2>1. ~(it' # Null)
    BY <1>5 DEF RemoveKey
  <2> QED BY <2>1, <1>5, RemoveStep DEF IterOK
<1>6. ASSUME FreeAll PROVE HashInv' /\ IterOK'
  <2>1. ~(it' # Null)
    BY <1>6 DEF FreeAll
  <2> QED BY <2>1, <1>6, FreeAllStep DEF IterOK
<1>7. ASSUME BeginKeys PROVE HashInv' /\ IterOK'
  <2>1. UNCHANGED <<table, heap, held, removed>>
    BY <1>7 DEF BeginKeys
  <2> QED BY <2>1, <1>7, QuietStep, BeginStep
<1>8. ASSUME NextKey PROVE HashInv' /\ IterOK'
  <2>1. UNCHANGED <<table, heap, held, removed>>
    BY <1>8 DEF NextKey
  <2> QED BY <2>1, <1>8, QuietStep, NextKeyStep
<1>9. ASSUME EndKeys PROVE HashInv' /\ IterOK'
  <2>1. ~(it' # Null) /\ UNCHANGED <<table, heap, held, removed>>
    BY <1>9 DEF EndKeys
  <2> QED BY <2>1, QuietStep DEF IterOK
<1>10. ASSUME UNCHANGED vars PROVE HashInv' /\ IterOK'
  <2>1. UNCHANGED <<table, heap, held, removed>> /\ it' = it
    BY <1>10 DEF vars
  <2>2. HashInv' /\ KeysIn' = KeysIn /\ Elements' = Elements /\ \A x : FindInternal(x)' = FindInternal(x)
    BY <2>1, QuietStep
  <2>3. m_Capacity' = m_Capacity /\ value' = value
    BY <2>1 DEF table, heap
  <2>4. VisitedBy(it.at)' = VisitedBy(it.at) /\ \A k : Saved(k)' = Saved(k)
    BY <2>1, <2>2, <2>3 DEF VisitedBy, Saved
  <2>5. RestOK(it.at.curr, it.at.index)' <=> RestOK(it.at.curr, it.at.index)
    BY <2>1, <2>2, <2>3 DEF RestOK
  <2>6. IterOK'
    BY <2>1, <2>3, <2>4, <2>5 DEF IterOK
  <2> QED BY <2>2, <2>6
<1> QED BY <1>1, <1>2, <1>3, <1>4, <1>5, <1>6, <1>7, <1>8, <1>9, <1>10 DEF Next

THEOREM HashInvariant == Spec => []HashAndIterInv
<1>1. Init => HashAndIterInv
  <2>1. Init => IterOK
    BY DEF Init, IterOK
  <2> QED BY <2>1, InitHolds DEF HashAndIterInv
<1> QED BY <1>1, StepKeepsInvariant, PTL DEF Spec

\* The types, with the chains in the slots of the table and their elements in
\* the allocator's blocks.
THEOREM HashTypeCorrect == Spec => []TypeOK
<1>1. HashAndIterInv => TypeOK
  <2> SUFFICES ASSUME TableOK, HeapOK, HeldOK PROVE TypeOK
    BY DEF HashAndIterInv, HashInv
  <2>1. WellPlaced(m_Table, m_Capacity) /\ m_Capacity \in Nat /\ m_Count \in 0 .. kMaxCount
    BY DEF TableOK
  <2>2. ASSUME NEW i \in Slots PROVE m_Table[i] \in Seq([key : Keys, place : Allocated])
    <3>1. m_Table[i] \in Seq(Elem) /\ i \in DOMAIN m_Table
      BY <2>1 DEF WellPlaced, Slots
    <3>2. \A n \in DOMAIN m_Table[i] : m_Table[i][n] \in [key : Keys, place : Allocated]
      <4> SUFFICES ASSUME NEW n \in DOMAIN m_Table[i]
                   PROVE  m_Table[i][n] \in [key : Keys, place : Allocated]
        OBVIOUS
      <4>1. m_Table[i][n] \in Elem
        BY <3>1
      <4>2. m_Table[i][n] \in Elements
        BY <3>1, <4>1 DEF Elements, ElementsOf
      <4>3. m_Table[i][n].place \in Allocated
        BY <4>2 DEF HeapOK
      <4> QED BY <4>1, <4>3 DEF Elem
    <3> DEFINE chain == m_Table[i]
               R == [key : Keys, place : Allocated]
    <3>3. chain \in Seq(Elem) /\ \A n \in DOMAIN chain : chain[n] \in R
      BY <3>1, <3>2
    <3> HIDE DEF chain, R
    <3>4. Len(chain) \in Nat /\ DOMAIN chain = 1 .. Len(chain)
          /\ chain = [n \in 1 .. Len(chain) |-> chain[n]]
      BY <3>3
    <3>5. chain \in Seq(R)
      BY <3>3, <3>4
    <3> QED BY <3>5 DEF chain, R
  <2>3. m_Table \in [Slots -> Seq([key : Keys, place : Allocated])]
    BY <2>1, <2>2 DEF WellPlaced, Slots
  <2>4. blocks \in Nat
    BY <2>1 DEF HeapOK
  <2>5. m_FreeList \in Seq(Allocated) /\ value \in [Places -> 0 .. kMaxValue]
    BY DEF HeapOK
  <2>6. held \in [Keys -> Places \cup {Null}]
    BY DEF HeldOK
  <2> QED BY <2>1, <2>3, <2>4, <2>5, <2>6 DEF TypeOK
<1> QED BY <1>1, HashInvariant, PTL

\* Chains stay short on average, whatever is inserted and removed.
THEOREM FillIsBoundedThere == Spec => []FillIsBounded
<1>1. HashAndIterInv => FillIsBounded
  BY DEF HashAndIterInv, HashInv, TableOK
<1> QED BY <1>1, HashInvariant, PTL

\* The map is what the lookups give.
EntriesByKey == Entries = [k \in KeysIn |-> Entry(k)]

LEMMA EntriesAre == HashInv => EntriesByKey
<1> SUFFICES ASSUME HashInv PROVE Entries = [k \in KeysIn |-> Entry(k)]
  BY DEF EntriesByKey
<1>1. \A k \in Keys : k \in KeysIn <=> FindInternal(k) # Null
  BY HoldsAnswers DEF Answers
<1>2. {k \in Keys : FindInternal(k) # Null} = KeysIn
  BY <1>1 DEF KeysIn
<1> QED BY <1>2 DEF Entries

\* The loop of CacheSimEndCapture saves every key once, with its counter, and
\* as many as were counted, but for the removed ones.
THEOREM IterationIsCompleteThere == Spec => []IterationIsComplete
<1>1. HashAndIterInv => IterationIsComplete
  <2> SUFFICES ASSUME HashInv, IterOK, it # Null, AtEnd
               PROVE  /\ Len(it.saved) = Cardinality(DOMAIN Entries)
                      /\ Range(it.saved) = {[key |-> k, count |-> Entries[k].count] : k \in DOMAIN Entries}
                      /\ Len(it.saved) = m_Count - removed
    BY DEF HashAndIterInv, IterationIsComplete
  <2>1. Entries = [k \in KeysIn |-> Entry(k)] /\ TableOK /\ CountOK
    BY EntriesAre DEF HashInv, EntriesByKey
  <2>2. VisitedBy(it.at) = KeysIn
    <3>1. \A k \in KeysIn : Index(k, m_Capacity) < m_Capacity
      <4> SUFFICES ASSUME NEW k \in KeysIn PROVE Index(k, m_Capacity) < m_Capacity
        OBVIOUS
      <4>1. PICK i \in 0 .. m_Capacity - 1 : i = Index(k, m_Capacity)
        BY <2>1, KeyInItsSlot
      <4> QED BY <4>1, <2>1 DEF TableOK
    <3>2. DOMAIN it.at.curr = {} /\ it.at.index = m_Capacity
      BY DEF AtEnd
    <3> QED BY <3>1, <3>2 DEF VisitedBy
  <2>3. Len(it.saved) = Cardinality(KeysIn) /\ Range(it.saved) = {Saved(k) : k \in KeysIn}
    BY <2>2 DEF IterOK
  <2>4. DOMAIN Entries = KeysIn
    BY <2>1
  <2>5. \A k \in KeysIn : [key |-> k, count |-> Entries[k].count] = Saved(k)
    BY <2>1 DEF Entry, Saved
  <2>6. {[key |-> k, count |-> Entries[k].count] : k \in KeysIn} = {Saved(k) : k \in KeysIn}
    BY <2>5
  <2> QED BY <2>1, <2>3, <2>4, <2>6 DEF CountOK
<1> QED BY <1>1, HashInvariant, PTL
-----------------------------------------------------------------------------
(* The refinement. *)

\* If neither the elements nor the counters change, the map does not.
LEMMA SameMap ==
  ASSUME HashInv, HashInv', Elements' = Elements, \A x : FindInternal(x)' = FindInternal(x),
         value' = value
  PROVE  Entries' = Entries
<1>1. Entries = [k \in KeysIn |-> Entry(k)]
  BY EntriesAre DEF EntriesByKey
<1>2. Entries' = [k \in KeysIn' |-> Entry(k)']
  <2>1. (HashInv => EntriesByKey)'
    BY EntriesAre, PTL
  <2> QED BY <2>1 DEF EntriesByKey
<1>3. KeysIn' = KeysIn
  BY DEF KeysIn
<1>4. \A k \in KeysIn : Entry(k)' = Entry(k)
  BY DEF Entry
<1> QED BY <1>1, <1>2, <1>3, <1>4

LEMMA InitMaps == Init => Map!Init
<1> SUFFICES ASSUME Init PROVE Map!Init
  OBVIOUS
<1>1. HashInv
  BY InitHolds
<1>2. Entries = [k \in KeysIn |-> Entry(k)]
  BY <1>1, EntriesAre DEF EntriesByKey
<1>3. KeysIn = {}
  <2>1. DOMAIN m_Table = {}
    BY DEF Init
  <2> QED BY <2>1 DEF KeysIn, Elements, ElementsOf
<1>4. Entries = << >>
  BY <1>2, <1>3
<1> QED BY <1>4 DEF Init, Map!Init

LEMMA InsertOldMaps ==
  ASSUME HashInv, NEW k \in Keys, InsertOld(k)
  PROVE  Map!InsertOld(k)
<1>1. HashInv' /\ Elements' = Elements /\ \A x : FindInternal(x)' = FindInternal(x)
  BY InsertOldStep
<1>2. value' = value /\ FindInternal(k) # Null
      /\ call' = [op |-> "Insert", key |-> k, result |-> FindInternal(k)]
  BY DEF InsertOld, heap
<1>3. Entries' = Entries
  BY <1>1, <1>2, SameMap
<1>4. k \in KeysIn
  BY <1>2, HoldsAnswers DEF Answers
<1>5. Entries = [x \in KeysIn |-> Entry(x)]
  BY EntriesAre DEF EntriesByKey
<1>6. k \in DOMAIN Entries /\ Entries[k].place = FindInternal(k)
  BY <1>4, <1>5 DEF Entry
<1> QED BY <1>2, <1>3, <1>6 DEF Map!InsertOld, Map!PlaceOf

LEMMA InsertNewMaps ==
  ASSUME HashInv, NEW k \in Keys, InsertNew(k)
  PROVE  Map!InsertNew(k)
<1>1. PICK p \in Places :
        /\ p = Head(WithRoom)
        /\ HashInv' /\ k \notin KeysIn
        /\ Elements' = Elements \cup {[key |-> k, place |-> p]}
        /\ \A e \in Elements : e.place # p
  BY InsertNewStep
<1>2. value' = [value EXCEPT ![p] = 0] /\ call' = [op |-> "Insert", key |-> k, result |-> p]
  BY <1>1 DEF InsertNew
<1>3. Answers /\ Answers'
  <2>1. (HashInv => Answers)'
    BY HoldsAnswers, PTL
  <2> QED BY <2>1, <1>1, HoldsAnswers
<1>4. Entries = [x \in KeysIn |-> Entry(x)]
  BY EntriesAre DEF EntriesByKey
<1>5. Entries' = [x \in KeysIn' |-> Entry(x)']
  <2>1. (HashInv => EntriesByKey)'
    BY EntriesAre, PTL
  <2> QED BY <2>1, <1>1 DEF EntriesByKey
<1>6. PICK new \in Elements' : /\ new.key = k /\ new.place = p
                               /\ \A e : e \in Elements' <=> e \in Elements \/ e = new
  BY <1>1
<1>7. KeysIn' = KeysIn \cup {k}
  <2>1. \A x \in Keys : (\E e \in Elements' : e.key = x) <=> x = k \/ \E e \in Elements : e.key = x
    BY <1>1, <1>6
  <2> QED BY <2>1 DEF KeysIn
<1>8. value \in [Places -> 0 .. kMaxValue]
  BY DEF HashInv, HeapOK
<1>9. Entry(k)' = [place |-> p, count |-> 0]
  <2>1. FindInternal(k)' = p
    <3>1. \A e \in Elements' : FindInternal(e.key)' = e.place
      BY <1>3 DEF Answers
    <3>2. FindInternal(new.key)' = new.place
      BY <3>1, <1>1
    <3> QED BY <3>2, <1>6
  <2>2. value'[p] = 0
    BY <1>1, <1>2, <1>8
  <2> QED BY <2>1, <2>2 DEF Entry
<1>10. ASSUME NEW x \in KeysIn
       PROVE  Entry(x)' = Entry(x) /\ FindInternal(x) # p
  <2>1. x \in Keys
    BY DEF KeysIn
  <2>2. PICK e \in Elements : e = [key |-> x, place |-> FindInternal(x)]
    BY <2>1, <1>3 DEF Answers
  <2>3. e.key = x /\ e.place = FindInternal(x) /\ e \in Elements' /\ e.place # p
    BY <2>2, <1>1
  <2>4. FindInternal(x)' = FindInternal(x)
    <3>1. \A f \in Elements' : FindInternal(f.key)' = f.place
      BY <1>3 DEF Answers
    <3>2. FindInternal(e.key)' = e.place
      BY <2>3, <3>1
    <3> QED BY <3>2, <2>3
  <2>5. value'[FindInternal(x)] = value[FindInternal(x)]
    BY <1>1, <1>2, <1>8, <2>3
  <2> QED BY <2>3, <2>4, <2>5 DEF Entry
<1>11. DOMAIN Entries = KeysIn /\ \A x \in KeysIn : Entries[x] = Entry(x)
  BY <1>4
<1>12. Entries' = [x \in DOMAIN Entries \cup {k} |->
                    IF x = k THEN [place |-> p, count |-> 0] ELSE Entries[x]]
  BY <1>5, <1>7, <1>9, <1>10, <1>11
<1>13. p \in Places \ Map!Occupied
  <2>1. ASSUME NEW x \in KeysIn PROVE Entries[x].place # p
    <3>1. Entry(x).place = FindInternal(x)
      BY DEF Entry
    <3>2. FindInternal(x) # p
      BY <1>10
    <3> QED BY <3>1, <3>2, <1>11
  <2>2. p \notin Map!Occupied
    BY <2>1, <1>11 DEF Map!Occupied
  <2> QED BY <2>2, <1>1
<1> QED BY <1>1, <1>2, <1>11, <1>12, <1>13 DEF Map!InsertNew

LEMMA FindMaps ==
  ASSUME HashInv, NEW k \in Keys, Find(k)
  PROVE  Map!Find(k)
<1>1. UNCHANGED <<table, heap, held, removed>> /\ value' = value
      /\ call' = [op |-> "Find", key |-> k, result |-> FindInternal(k)]
  BY DEF Find, heap
<1>2. Entries' = Entries
  BY <1>1, QuietStep, SameMap
<1>3. Entries = [x \in KeysIn |-> Entry(x)]
  BY EntriesAre DEF EntriesByKey
<1>4. FindInternal(k) = Map!PlaceOf(k)
  <2>1. k \in KeysIn <=> FindInternal(k) # Null
    BY HoldsAnswers DEF Answers
  <2> QED BY <2>1, <1>3 DEF Map!PlaceOf, Entry
<1> QED BY <1>1, <1>2, <1>4 DEF Map!Find

\* What is counted through a pointer is found under its key, and nowhere else.
LEMMA CountMaps ==
  ASSUME HashInv, NEW k \in Keys, CountThrough(k)
  PROVE  Map!Count(k)
<1>1. /\ HashInv' /\ Elements' = Elements /\ \A x : FindInternal(x)' = FindInternal(x)
      /\ held[k] = FindInternal(k) /\ held[k] \in Places
      /\ value' = [value EXCEPT ![held[k]] = @ + 1]
  BY CountStep
<1>2. held[k] # Null /\ call' = [op |-> "Count", key |-> k]
  BY DEF CountThrough
<1>3. k \in KeysIn /\ Answers
  BY <1>1, <1>2, HoldsAnswers DEF Answers
<1>4. Entries = [x \in KeysIn |-> Entry(x)]
  BY EntriesAre DEF EntriesByKey
<1>5. Entries' = [x \in KeysIn' |-> Entry(x)']
  <2>1. (HashInv => EntriesByKey)'
    BY EntriesAre, PTL
  <2> QED BY <2>1, <1>1 DEF EntriesByKey
<1>6. KeysIn' = KeysIn
  BY <1>1 DEF KeysIn
<1>7. value \in [Places -> 0 .. kMaxValue]
  BY DEF HashInv, HeapOK
<1>8. Entry(k)' = [place |-> FindInternal(k), count |-> value[FindInternal(k)] + 1]
  BY <1>1, <1>7 DEF Entry
<1>9. ASSUME NEW x \in KeysIn, x # k PROVE Entry(x)' = Entry(x)
  <2>1. x \in Keys
    BY DEF KeysIn
  <2>2. PICK e \in Elements : e = [key |-> x, place |-> FindInternal(x)]
    BY <2>1, <1>3 DEF Answers
  <2>3. PICK f \in Elements : f = [key |-> k, place |-> FindInternal(k)]
    BY <1>3 DEF Answers
  <2>4. e.place # f.place
    BY <2>2, <2>3, <1>9 DEF HashInv, ElementsDiffer
  <2>5. FindInternal(x) # FindInternal(k)
    BY <2>2, <2>3, <2>4
  <2>6. value'[FindInternal(x)] = value[FindInternal(x)]
    BY <1>1, <1>7, <2>5
  <2> QED BY <2>6, <1>1 DEF Entry
<1>10. DOMAIN Entries = KeysIn /\ \A x \in KeysIn : Entries[x] = Entry(x)
  BY <1>4
<1>11. [Entries[k] EXCEPT !.count = @ + 1] = Entry(k)'
  BY <1>3, <1>8, <1>10 DEF Entry
<1>12. Entries' = [Entries EXCEPT ![k] = [Entries[k] EXCEPT !.count = @ + 1]]
  BY <1>3, <1>4, <1>5, <1>6, <1>9, <1>10, <1>11
<1>13. Entries' = [Entries EXCEPT ![k].count = @ + 1]
  BY <1>12
<1> QED BY <1>2, <1>3, <1>10, <1>13 DEF Map!Count

LEMMA RemoveMaps ==
  ASSUME HashInv, NEW k \in Keys, RemoveKey(k)
  PROVE  Map!Remove(k)
<1>1. HashInv' /\ k \in KeysIn /\ Elements' = {e \in Elements : e.key # k}
  BY RemoveStep
<1>2. value' = value /\ call' = [op |-> "Remove", key |-> k]
  BY DEF RemoveKey
<1>3. Answers /\ Answers'
  <2>1. (HashInv => Answers)'
    BY HoldsAnswers, PTL
  <2> QED BY <2>1, <1>1, HoldsAnswers
<1>4. Entries = [x \in KeysIn |-> Entry(x)]
  BY EntriesAre DEF EntriesByKey
<1>5. Entries' = [x \in KeysIn' |-> Entry(x)']
  <2>1. (HashInv => EntriesByKey)'
    BY EntriesAre, PTL
  <2> QED BY <2>1, <1>1 DEF EntriesByKey
<1>6. KeysIn' = KeysIn \ {k}
  <2>1. \A x \in Keys : (\E e \in Elements' : e.key = x) <=> x # k /\ \E e \in Elements : e.key = x
    BY <1>1
  <2> QED BY <2>1 DEF KeysIn
<1>7. ASSUME NEW x \in KeysIn, x # k PROVE Entry(x)' = Entry(x)
  <2>1. x \in Keys
    BY DEF KeysIn
  <2>2. PICK e \in Elements : e = [key |-> x, place |-> FindInternal(x)]
    BY <2>1, <1>3 DEF Answers
  <2>3. e.key = x /\ e.place = FindInternal(x) /\ e \in Elements'
    BY <2>2, <1>1, <1>7
  <2>4. \A f \in Elements' : FindInternal(f.key)' = f.place
    BY <1>3 DEF Answers
  <2>5. FindInternal(e.key)' = e.place
    BY <2>3, <2>4
  <2> QED BY <2>3, <2>5, <1>2 DEF Entry
<1>8. DOMAIN Entries = KeysIn /\ \A x \in KeysIn : Entries[x] = Entry(x)
  BY <1>4
<1>9. Entries' = [x \in DOMAIN Entries \ {k} |-> Entries[x]]
  BY <1>5, <1>6, <1>7, <1>8
<1> QED BY <1>1, <1>2, <1>8, <1>9 DEF Map!Remove

LEMMA FreeAllMaps ==
  ASSUME FreeAll
  PROVE  Map!Clear
<1>1. HashInv' /\ KeysIn' = {}
  BY FreeAllStep
<1>2. (HashInv => EntriesByKey)'
  BY EntriesAre, PTL
<1>3. Entries' = [x \in KeysIn' |-> Entry(x)']
  BY <1>1, <1>2 DEF EntriesByKey
<1>4. Entries' = << >>
  BY <1>1, <1>3
<1> QED BY <1>4 DEF FreeAll, Map!Clear

\* The steps of an iteration read; the first one is the call.
LEMMA QuietMaps ==
  ASSUME HashInv, UNCHANGED <<table, heap, held, removed>>
  PROVE  Entries' = Entries
<1>1. value' = value
  BY DEF heap
<1> QED BY <1>1, QuietStep, SameMap

\* Through growth, removals, reuse of freed elements and FreeAll the table is
\* a map whose values stay where they are.
THEOREM ImplementsMapThere == Spec => ImplementsMap
<1>1. HashAndIterInv /\ [Next]_vars => [Map!Next]_(Map!vars)
  <2> SUFFICES ASSUME HashInv, [Next]_vars PROVE [Map!Next]_(Map!vars)
    BY DEF HashAndIterInv
  <2> USE DEF Map!Next
  <2>1. ASSUME NEW k \in Keys, InsertOld(k) PROVE Map!Next
    BY <2>1, InsertOldMaps
  <2>2. ASSUME NEW k \in Keys, InsertNew(k) PROVE Map!Next
    BY <2>2, InsertNewMaps
  <2>3. ASSUME NEW k \in Keys, Find(k) PROVE Map!Next
    BY <2>3, FindMaps
  <2>4. ASSUME NEW k \in Keys, CountThrough(k) PROVE Map!Next
    BY <2>4, CountMaps
  <2>5. ASSUME NEW k \in Keys, RemoveKey(k) PROVE Map!Next
    BY <2>5, RemoveMaps
  <2>6. ASSUME FreeAll PROVE Map!Next
    BY <2>6, FreeAllMaps
  <2>7. ASSUME BeginKeys PROVE Map!Next
    <3>1. UNCHANGED <<table, heap, held, removed>> /\ call' = [op |-> "Keys"]
      BY <2>7 DEF BeginKeys
    <3> QED BY <3>1, QuietMaps DEF Map!Enumerate
  <2>8. ASSUME NextKey \/ EndKeys \/ UNCHANGED vars PROVE UNCHANGED Map!vars
    <3>1. UNCHANGED <<table, heap, held, removed>> /\ call' = call
      BY <2>8 DEF NextKey, EndKeys, vars
    <3> QED BY <3>1, QuietMaps DEF Map!vars
  <2> QED BY <2>1, <2>2, <2>3, <2>4, <2>5, <2>6, <2>7, <2>8 DEF Next
<1> QED BY <1>1, InitMaps, HashInvariant, PTL DEF Spec, ImplementsMap, Map!Spec
=============================================================================
