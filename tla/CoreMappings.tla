---------------------------- MODULE CoreMappings ----------------------------
(***************************************************************************)
(* The table of the threads that are recorded (CacheSimCommon.inl): an     *)
(* array and a count, written under g_Lock by CacheSimSetThreadCoreMapping *)
(* and read without it by FindLogicalCoreIndex. Every load and store of    *)
(* shared memory is a step.                                                *)
(*                                                                         *)
(* CacheSimSetThreadCoreMapping is called here by threads that are not     *)
(* recorded; CaptureRuntime has what becomes of one that is.               *)
(***************************************************************************)
EXTENDS Integers, Sequences

CONSTANTS
  Threads,
  Cores,
  Capacity,   \* ARRAY_SIZE(s_CoreMappings)
  NoThread,   \* the thread id 0 of an entry that was never used
  NoCall

ASSUME CapacityAssumption == Capacity \in Nat \ {0}
ASSUME CoresAssumption == Cores \subseteq Nat /\ 0 \in Cores

\* A store of a call of CacheSimSetThreadCoreMapping, the call, and a lookup.
MemoryStore == [at : {"id"}, index : Nat, value : Threads]
                 \cup [at : {"core", "count"}, index : Nat, value : Int]
SetCall == [id : Threads, core : Int, stores : Seq(MemoryStore), removes : BOOLEAN]
Lookup == [count : Nat, i : Nat, hit : BOOLEAN, seen : SUBSET Int, moved : BOOLEAN]

ASSUME NoCallAssumption == NoCall \notin SetCall /\ NoCall \notin Lookup

VARIABLES
  s_CoreMappings, s_CoreMappingCount,
  setting,            \* the call that holds g_Lock: the stores it has left
  finding,            \* finding[t]: t's lookup of its own core, or NoCall
  m_LogicalCoreIndex, \* what t's last lookup returned
  mapping,            \* history: mapping[t], the core t is mapped to or -1
  setsLeft,           \* bound: calls of CacheSimSetThreadCoreMapping to come
  broke               \* DebugBreak was reached

mappingVars == <<s_CoreMappings, s_CoreMappingCount, setting, finding,
                 m_LogicalCoreIndex, mapping, setsLeft, broke>>

Index == 0 .. Capacity - 1

\* The threads of the sequence mapped have been mapped to core 0 one by one.
MappingInit(mapped, calls) ==
  /\ s_CoreMappings = [i \in Index |-> [id |-> IF i < Len(mapped) THEN mapped[i + 1] ELSE NoThread,
                                        core |-> 0]]
  /\ s_CoreMappingCount = Len(mapped)
  /\ mapping = [t \in Threads |-> IF \E i \in DOMAIN mapped : mapped[i] = t THEN 0 ELSE -1]
  /\ setsLeft = calls
  /\ setting = NoCall
  /\ finding = [t \in Threads |-> NoCall]
  /\ m_LogicalCoreIndex = [t \in Threads |-> 0]
  /\ broke = FALSE
-----------------------------------------------------------------------------
(* CacheSimSetThreadCoreMapping.                                           *)

EntryOf(t) == {i \in 0 .. s_CoreMappingCount - 1 : s_CoreMappings[i].id = t}

IdStore(i, t) == [at |-> "id", index |-> i, value |-> t]
CoreStore(i, c) == [at |-> "core", index |-> i, value |-> c]
CountStore(n) == [at |-> "count", index |-> 0, value |-> n]

\* Mutant: the entry is published before it is filled in.
StoresForCountFirst(t, c) ==
  LET count == s_CoreMappingCount
      last == s_CoreMappings[count - 1]
      i == CHOOSE i \in EntryOf(t) : \A j \in EntryOf(t) : i <= j
  IN IF EntryOf(t) = {}
     THEN {<<CountStore(count + 1), IdStore(count, t), CoreStore(count, c)>>}
     ELSE IF c # -1 THEN {<<CoreStore(i, c)>>}
     ELSE {<<IdStore(i, last.id), CoreStore(i, last.core), CountStore(count - 1)>>}

\* The stores of one call, in the orders a compiler may give them: an entry is
\* added, changed, or removed by copying the last one, a struct, over it.
StoresFor(t, c) ==
  LET count == s_CoreMappingCount
      last == s_CoreMappings[count - 1]
      i == CHOOSE i \in EntryOf(t) : \A j \in EntryOf(t) : i <= j
  IN IF EntryOf(t) = {}
     THEN {<<IdStore(count, t), CoreStore(count, c), CountStore(count + 1)>>}
     ELSE IF c # -1 THEN {<<CoreStore(i, c)>>}
     ELSE {<<IdStore(i, last.id), CoreStore(i, last.core), CountStore(count - 1)>>,
           <<CoreStore(i, last.core), IdStore(i, last.id), CountStore(count - 1)>>}

Removes(t, c) == c = -1 /\ EntryOf(t) # {}

\* Lookups under way may see the old and the new mapping, and are told of a
\* removal: moved.
Overlapped(t, c) ==
  [u \in Threads |->
     IF finding[u] = NoCall THEN NoCall
     ELSE [finding[u] EXCEPT !.seen = IF u = t THEN @ \cup {c} ELSE @,
                             !.moved = @ \/ Removes(t, c)]]

SetThreadCoreMapping(t, c) ==
  /\ setting = NoCall
  /\ setsLeft > 0
  /\ setsLeft' = setsLeft - 1
  /\ EntryOf(t) # {} \/ s_CoreMappingCount < Capacity
  /\ \E stores \in StoresFor(t, c) :
       setting' = [id |-> t, core |-> c, stores |-> stores, removes |-> Removes(t, c)]
  /\ finding' = Overlapped(t, c)
  /\ UNCHANGED <<s_CoreMappings, s_CoreMappingCount, m_LogicalCoreIndex, mapping, broke>>

\* The table is full: DebugBreak, which an application does not survive.
TableFull(t, c) ==
  /\ setting = NoCall
  /\ setsLeft > 0
  /\ EntryOf(t) = {} /\ s_CoreMappingCount = Capacity
  /\ setsLeft' = setsLeft - 1
  /\ broke' = TRUE
  /\ UNCHANGED <<s_CoreMappings, s_CoreMappingCount, setting, finding, m_LogicalCoreIndex, mapping>>

\* One store; the last one is followed by the release of g_Lock.
StoreNext ==
  /\ setting # NoCall
  /\ LET s == Head(setting.stores) IN
       /\ s_CoreMappings' =
            CASE s.at = "id"    -> [s_CoreMappings EXCEPT ![s.index].id = s.value]
              [] s.at = "core"  -> [s_CoreMappings EXCEPT ![s.index].core = s.value]
              [] s.at = "count" -> s_CoreMappings
       /\ s_CoreMappingCount' = IF s.at = "count" THEN s.value ELSE s_CoreMappingCount
  /\ IF Len(setting.stores) = 1
     THEN /\ setting' = NoCall
          /\ mapping' = [mapping EXCEPT ![setting.id] = setting.core]
     ELSE /\ setting' = [setting EXCEPT !.stores = Tail(@)]
          /\ UNCHANGED mapping
  /\ UNCHANGED <<finding, m_LogicalCoreIndex, setsLeft, broke>>
-----------------------------------------------------------------------------
(* FindLogicalCoreIndex, called by t for itself.                           *)

\* The count is read once.
FindCount(t) ==
  /\ finding[t] = NoCall
  /\ finding' = [finding EXCEPT ![t] =
       [count |-> s_CoreMappingCount, i |-> 0, hit |-> FALSE,
        seen |-> {mapping[t]} \cup
                 (IF setting # NoCall /\ setting.id = t THEN {setting.core} ELSE {}),
        moved |-> setting # NoCall /\ setting.removes]]
  /\ UNCHANGED <<s_CoreMappings, s_CoreMappingCount, setting, m_LogicalCoreIndex, mapping, setsLeft, broke>>

InTable(t) == finding[t] # NoCall /\ ~finding[t].hit /\ finding[t].i < finding[t].count

FindId(t) ==
  /\ InTable(t)
  /\ finding' = [finding EXCEPT
       ![t].hit = s_CoreMappings[finding[t].i].id = t,
       ![t].i = IF s_CoreMappings[finding[t].i].id = t THEN @ ELSE @ + 1]
  /\ UNCHANGED <<s_CoreMappings, s_CoreMappingCount, setting, m_LogicalCoreIndex, mapping, setsLeft, broke>>

\* The core of the entry that was hit, read after its id; -1 without a hit.
FoundCore(t) == IF finding[t].hit THEN s_CoreMappings[finding[t].i].core ELSE -1

FindReturn(t) ==
  /\ finding[t] # NoCall /\ ~InTable(t)
  /\ m_LogicalCoreIndex' = [m_LogicalCoreIndex EXCEPT ![t] = FoundCore(t)]
  /\ finding' = [finding EXCEPT ![t] = NoCall]
  /\ UNCHANGED <<s_CoreMappings, s_CoreMappingCount, setting, mapping, setsLeft, broke>>
-----------------------------------------------------------------------------
\* A thread that looks itself up in the table without the lock gets a core
\* that it was mapped to at some time during the lookup, and -1 only if it was
\* not mapped at some time during it, unless an entry was being removed: the
\* copy over the removed entry can be seen half done, and an entry that has
\* moved can be overlooked.
LookupIsCurrent ==
  [][\A t \in Threads :
       (finding[t] # NoCall /\ finding'[t] = NoCall /\ ~finding[t].moved)
         => m_LogicalCoreIndex'[t] \in finding[t].seen]_mappingVars
=============================================================================
