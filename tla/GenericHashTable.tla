-------------------------- MODULE GenericHashTable --------------------------
(***************************************************************************)
(* The class template GenericHashTable (GenericHashTable.h) with its       *)
(* element allocator: an array of chains that doubles when it is three     *)
(* quarters full. StableMap says what a user may rely on.                  *)
(*                                                                         *)
(* A value is a counter, as in RipStats, and is written through the        *)
(* pointer that Insert returned. The iteration of Keys() is a sequence of  *)
(* steps during which, as in CacheSimEndCapture, which holds g_Lock,       *)
(* nothing else is called.                                                 *)
(***************************************************************************)
EXTENDS Integers, Sequences, FiniteSets, SequencesExt, Subsequences

CONSTANTS
  Keys,
  Hash,              \* Hash[k]: HashFunctions::Hash(k)
  kInitialCapacity,  \* 64 in the code
  kBlockElems,       \* how many elements one block of the allocator holds
  kMaxCount,         \* bound on m_Count
  kMaxValue,         \* bound on a counter
  Null

ASSUME HashAssumption == Hash \in [Keys -> Nat]
ASSUME SizeAssumption == kInitialCapacity \in Nat \ {0} /\ kBlockElems \in Nat \ {0}
ASSUME BoundAssumption == kMaxCount \in Nat /\ kMaxValue \in Nat

VARIABLES
  m_Capacity, m_Count,
  m_Table,      \* m_Table[i]: the elements of a chain, first one first
  m_FreeList,   \* HashTableAllocator's free elements
  blocks,       \* the number of blocks in m_BlockList
  value,        \* value[p]: m_Value of the element at address p
  held,         \* held[k]: the pointer a user got from Insert(k), or Null
  it,           \* the iteration of Keys(), or Null
  removed,      \* history: how many elements Remove has taken out
  call          \* the last call and its result

table == <<m_Capacity, m_Count, m_Table>>
heap == <<m_FreeList, blocks, value>>
vars == <<table, heap, held, it, removed, call>>

Slots == 0 .. m_Capacity - 1
Places == 0 .. kBlockElems * kMaxCount - 1

ASSUME NullAssumption == Null \notin Places

\* hash & (capacity - 1); the capacity is a power of two.
Index(k, capacity) == Hash[k] % capacity

\* FindInternal
Scanned(k) == IF m_Capacity = 0 THEN {}
              ELSE {e \in Range(m_Table[Index(k, m_Capacity)]) : e.key = k}
FindInternal(k) == IF Scanned(k) = {} THEN Null ELSE (CHOOSE e \in Scanned(k) : TRUE).place

\* The elements of the allocator's blocks.
Allocated == 0 .. blocks * kBlockElems - 1

TypeOK ==
  /\ m_Capacity \in Nat /\ m_Count \in 0 .. kMaxCount
  /\ m_Table \in [Slots -> Seq([key : Keys, place : Allocated])]
  /\ m_FreeList \in Seq(Allocated)
  /\ blocks \in Nat
  /\ value \in [Places -> 0 .. kMaxValue]
  /\ held \in [Keys -> Places \cup {Null}]

Init ==
  /\ m_Capacity = 0 /\ m_Count = 0 /\ m_Table = << >>
  /\ m_FreeList = << >> /\ blocks = 0 /\ value = [p \in Places |-> 0]
  /\ held = [k \in Keys |-> Null]
  /\ it = Null
  /\ removed = 0
  /\ call = [op |-> "Init"]
-----------------------------------------------------------------------------
\* HashTableAllocator::AllocInternal pushes the elements of a new block, from
\* its first to its last.
NewBlock == [i \in 1 .. kBlockElems |-> blocks * kBlockElems + kBlockElems - i]
WithRoom == IF m_FreeList = << >> THEN NewBlock ELSE m_FreeList

\* Mutant: the chains keep their slots.
GrownNoRehash(new) ==
  [j \in 0 .. new - 1 |-> IF j \in Slots THEN m_Table[j] ELSE << >>]

\* Grow: every chain is walked and every element pushed to its new chain. As
\* the capacity doubles, those of a new chain come from one old chain.
Grown(new) ==
  [j \in 0 .. new - 1 |->
    IF m_Capacity = 0 THEN << >>
    ELSE LET chain == m_Table[j % m_Capacity]
         IN  Reverse(Selected(chain, {n \in DOMAIN chain : Index(chain[n].key, new) = j}))]

\* Mutant: the table never grows once it exists.
NeedsGrowthOnce == m_Capacity = 0

NeedsGrowth == m_Count * 4 >= m_Capacity * 3
NewCapacity == IF ~NeedsGrowth THEN m_Capacity
               ELSE IF m_Capacity = 0 THEN kInitialCapacity ELSE m_Capacity * 2

InsertOld(k) ==
  /\ it = Null
  /\ FindInternal(k) # Null
  /\ held' = [held EXCEPT ![k] = FindInternal(k)]
  /\ call' = [op |-> "Insert", key |-> k, result |-> FindInternal(k)]
  /\ UNCHANGED <<table, heap, it, removed>>

InsertNew(k) ==
  LET place == Head(WithRoom)
      grown == IF NeedsGrowth THEN Grown(NewCapacity) ELSE m_Table
  IN  /\ it = Null
      /\ FindInternal(k) = Null
      /\ m_Count < kMaxCount
      /\ m_Capacity' = NewCapacity
      /\ m_Table' = [grown EXCEPT ![Index(k, NewCapacity)] =
                       <<[key |-> k, place |-> place]>> \o @]
      /\ m_Count' = m_Count + 1
      /\ m_FreeList' = Tail(WithRoom)
      /\ blocks' = IF m_FreeList = << >> THEN blocks + 1 ELSE blocks
      /\ value' = [value EXCEPT ![place] = 0]
      /\ held' = [held EXCEPT ![k] = place]
      /\ call' = [op |-> "Insert", key |-> k, result |-> place]
      /\ UNCHANGED <<it, removed>>

Find(k) ==
  /\ it = Null
  /\ call' = [op |-> "Find", key |-> k, result |-> FindInternal(k)]
  /\ UNCHANGED <<table, heap, held, it, removed>>

\* RipStats::m_Stats, through the pointer of an earlier Insert.
CountThrough(k) ==
  /\ it = Null
  /\ held[k] # Null
  /\ value[held[k]] < kMaxValue
  /\ value' = [value EXCEPT ![held[k]] = @ + 1]
  /\ call' = [op |-> "Count", key |-> k]
  /\ UNCHANGED <<table, m_FreeList, blocks, held, it, removed>>

\* m_Count stays as it is. The walk has no end but the element: the caller
\* must know that the key is there.
RemoveKey(k) ==
  LET i == Index(k, m_Capacity)
      place == FindInternal(k)
  IN  /\ it = Null
      /\ place # Null
      /\ m_Table' = [m_Table EXCEPT ![i] = Selected(@, {n \in DOMAIN @ : @[n].key # k})]
      /\ m_FreeList' = <<place>> \o m_FreeList
      /\ held' = [held EXCEPT ![k] = Null]
      /\ removed' = removed + 1
      /\ call' = [op |-> "Remove", key |-> k]
      /\ UNCHANGED <<m_Capacity, m_Count, blocks, value, it>>

\* The blocks go back to the system, which hands out zeroed memory.
FreeAll ==
  /\ it = Null
  /\ m_Capacity' = 0 /\ m_Count' = 0 /\ m_Table' = << >>
  /\ m_FreeList' = << >> /\ blocks' = 0 /\ value' = [p \in Places |-> 0]
  /\ held' = [k \in Keys |-> Null]
  /\ removed' = 0
  /\ call' = [op |-> "FreeAll"]
  /\ UNCHANGED it
-----------------------------------------------------------------------------
(* Iterator: the rest of the current chain and the next slot. It is at the *)
(* end when both are used up.                                              *)

FirstChain(from) ==
  {i \in from .. m_Capacity - 1 : m_Table[i] # << >> /\ \A j \in from .. i - 1 : m_Table[j] = << >>}

\* Step: the next chain that is not empty, once this one is used up.
Stepped(rest, index) ==
  IF rest # << >> \/ FirstChain(index) = {}
  THEN [curr |-> rest, index |-> IF rest # << >> THEN index ELSE m_Capacity]
  ELSE LET i == CHOOSE i \in FirstChain(index) : TRUE
       IN  [curr |-> m_Table[i], index |-> i + 1]

AtEnd == it.at.curr = << >> /\ it.at.index = m_Capacity

BeginKeys ==
  /\ it = Null
  /\ it' = [at |-> Stepped(<< >>, 0), saved |-> << >>]
  /\ call' = [op |-> "Keys"]
  /\ UNCHANGED <<table, heap, held, removed>>

\* The loop of CacheSimEndCapture: the key, and the value that Find yields.
Saved(key) == [key |-> key, count |-> value[FindInternal(key)]]

\* Mutant: ++ goes to the next slot at once.
NextKeySkipsChain ==
  /\ it # Null /\ ~AtEnd
  /\ it' = [at |-> Stepped(<< >>, it.at.index),
            saved |-> Append(it.saved, Saved(Head(it.at.curr).key))]
  /\ UNCHANGED <<table, heap, held, removed, call>>

NextKey ==
  /\ it # Null /\ ~AtEnd
  /\ it' = [at |-> Stepped(Tail(it.at.curr), it.at.index),
            saved |-> Append(it.saved, Saved(Head(it.at.curr).key))]
  /\ UNCHANGED <<table, heap, held, removed, call>>

EndKeys ==
  /\ it # Null /\ AtEnd
  /\ it' = Null
  /\ UNCHANGED <<table, heap, held, removed, call>>
-----------------------------------------------------------------------------
Next ==
  \/ \E k \in Keys : \/ InsertOld(k) \/ InsertNew(k) \/ Find(k)
                     \/ CountThrough(k) \/ RemoveKey(k)
  \/ FreeAll \/ BeginKeys \/ NextKey \/ EndKeys

Spec == Init /\ [][Next]_vars
-----------------------------------------------------------------------------
Entry(k) == [place |-> FindInternal(k), count |-> value[FindInternal(k)]]
Entries == [k \in {k \in Keys : FindInternal(k) # Null} |-> Entry(k)]

Map == INSTANCE StableMap WITH entries <- Entries

\* Through growth, removals, reuse of freed elements and FreeAll the table is a
\* map whose values do not move: what a user counts through a pointer it got
\* earlier is found under its key ("The pointer is guaranteed to stay valid",
\* comments of Find and Insert), and no two keys share an element.
ImplementsMap == Map!Spec

\* CacheSimEndCapture writes GetCount() and then, for what the iteration of
\* Keys() yields, the values it finds: every key of the map once, with its
\* counter, and as many as were counted, but for the elements that Remove took
\* out without counting down.
IterationIsComplete ==
  (it # Null /\ AtEnd) =>
    /\ Len(it.saved) = Cardinality(DOMAIN Entries)
    /\ Range(it.saved) = {[key |-> k, count |-> Entries[k].count] : k \in DOMAIN Entries}
    /\ Len(it.saved) = m_Count - removed

\* Chains stay short: at most three quarters of the slots' number of elements,
\* and one more, are in the table (comment "Allow 75% fill").
FillIsBounded == (m_Capacity # 0) => (m_Count - 1) * 4 < m_Capacity * 3
=============================================================================
