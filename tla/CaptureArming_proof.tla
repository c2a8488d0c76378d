------------------------- MODULE CaptureArming_proof -------------------------
(***************************************************************************)
(* Proofs about CaptureArming and the table of CoreMappings, for every set *)
(* of threads, capacity of the table and scenario.                         *)
(***************************************************************************)
EXTENDS CaptureArming, SequenceTheorems, FiniteSetTheorems, TLAPS

\* The application has at most one child process of its own on Linux: with two
\* of them, CacheSimStartCapture's two calls of wait() can reap both and leave
\* the helper behind.
AtMostOneOther == \A s \in Scenarios : s.platform = "linux" => s.others <= 1
-----------------------------------------------------------------------------
(* The table. The inductive invariant in parts.                            *)

Core == Cores \cup {-1}
Entries == 0 .. s_CoreMappingCount - 1
Id(i) == s_CoreMappings[i].id

TableType ==
  /\ s_CoreMappings \in [Index -> [id : Threads \cup {NoThread}, core : Core]]
  /\ s_CoreMappingCount \in 0 .. Capacity
  /\ setting \in SetCall \cup {NoCall}
  /\ setting # NoCall => setting.core \in Core
  /\ mapping \in [Threads -> Core]
  /\ m_LogicalCoreIndex \in [Threads -> Core]
  /\ finding \in [Threads -> Lookup \cup {NoCall}]
  /\ \A t \in Threads : finding[t] # NoCall =>
       /\ finding[t].count <= Capacity
       /\ finding[t].i <= finding[t].count
       /\ finding[t].hit => finding[t].i < finding[t].count
       /\ finding[t].seen \subseteq Core

\* The entries of the set S are those of different threads and hold their
\* mappings, and no other thread has one, but for those that are busy.
Holds(S, busy) ==
  /\ \A i, j \in S : Id(i) = Id(j) => i = j
  /\ \A i \in S : Id(i) \in Threads \ busy /\ s_CoreMappings[i].core = mapping[Id(i)]
  /\ \A t \in Threads \ busy : (\A i \in S : Id(i) # t) => mapping[t] = -1

\* How far the call that holds g_Lock is.
Adding ==
  /\ ~setting.removes
  /\ s_CoreMappingCount < Capacity
  /\ \A i \in Entries : Id(i) # setting.id
  /\ LET n == s_CoreMappingCount
         idStore == IdStore(n, setting.id)
         coreStore == CoreStore(n, setting.core)
         countStore == CountStore(n + 1)
     IN \/ setting.stores = <<idStore, coreStore, countStore>>
        \/ setting.stores = <<coreStore, countStore>> /\ Id(n) = setting.id
        \/ setting.stores = <<countStore>>
           /\ Id(n) = setting.id /\ s_CoreMappings[n].core = setting.core

Changing ==
  /\ ~setting.removes
  /\ \E i \in Entries : Id(i) = setting.id /\ setting.stores = <<CoreStore(i, setting.core)>>

RemovingAt(i) ==
  LET n == s_CoreMappingCount - 1
      last == s_CoreMappings[n]
      idStore == IdStore(i, last.id)
      coreStore == CoreStore(i, last.core)
      countStore == CountStore(n)
  IN \/ setting.stores = <<idStore, coreStore, countStore>> /\ Id(i) = setting.id
     \/ setting.stores = <<coreStore, idStore, countStore>> /\ Id(i) = setting.id
     \/ setting.stores = <<coreStore, countStore>> /\ Id(i) = last.id
     \/ setting.stores = <<idStore, countStore>> /\ Id(i) = setting.id
        /\ s_CoreMappings[i].core = last.core
     \/ setting.stores = <<countStore>> /\ Id(i) = last.id
        /\ s_CoreMappings[i].core = last.core

Removing ==
  /\ setting.removes /\ setting.core = -1
  /\ \E i \in Entries :
       Id(i) \in Threads /\ Holds(Entries \ {i}, {setting.id}) /\ RemovingAt(i)

Removal == setting # NoCall /\ setting.removes

TableInv ==
  /\ ~Removal => Holds(Entries, {})
  /\ setting # NoCall => Adding \/ Changing \/ Removing

\* A lookup that no removal has overlapped.
LookupInv ==
  \A t \in Threads : finding[t] # NoCall /\ ~finding[t].moved =>
    /\ ~Removal
    /\ finding[t].count <= s_CoreMappingCount
    /\ mapping[t] \in finding[t].seen
    /\ setting # NoCall /\ setting.id = t => setting.core \in finding[t].seen
    /\ finding[t].hit => Id(finding[t].i) = t
    /\ ~finding[t].hit => \A k \in 0 .. finding[t].i - 1 : Id(k) # t
    /\ (\A k \in 0 .. finding[t].count - 1 : Id(k) # t) => -1 \in finding[t].seen
-----------------------------------------------------------------------------
(* The start of a capture. *)

LinuxPc == {"none", "generation", "enable", "handler", "ptracer", "wait1", "wait2"}
WindowsPc == {"none", "open", "suspend", "generation", "enable", "handler", "arm", "resume", "self"}
HelperPc == {"none", "attach", "stopping", "arm", "detach", "zombie"}
Why == {"refused", "gone", "early", "moved"}

StartRecord == [pc : LinuxPc \cup WindowsPc, i : Nat, count : 0 .. Capacity,
                handles : Seq(Threads \ {Caller})]
HelperRecord == [pc : HelperPc, i : Nat, ids : Seq(Threads), tids : Seq(Threads), permitted : BOOLEAN]

ArmingType ==
  /\ scenario \in Scenarios
  /\ g_Generation \in Nat /\ g_TraceEnabled \in BOOLEAN /\ g_SignalHandlerInstalled \in BOOLEAN
  /\ start \in StartRecord
  /\ helper \in HelperRecord
  /\ others \in [alive : Nat, zombie : Nat]
  /\ trapFlag \in [Threads -> BOOLEAN]
  /\ m_Generation \in [Threads -> Nat]
  /\ held \in [Threads -> Int]
  /\ exited \subseteq Threads
  /\ wanted \subseteq Threads
  /\ excused \subseteq Threads \X Why
  /\ broke \in BOOLEAN

Enabled == {"handler", "ptracer", "wait1", "wait2", "arm", "resume", "self"}
Handled == {"ptracer", "wait1", "wait2", "arm", "resume", "self"}

PhaseInv ==
  /\ start.pc \in IF Linux THEN LinuxPc ELSE WindowsPc
  /\ start.pc \in Enabled => g_TraceEnabled
  /\ start.pc \in Handled => g_SignalHandlerInstalled
  /\ ~Linux => helper = NoHelper
  /\ \A t \in Threads : m_Generation[t] <= g_Generation

\* The helper is there until the second call of wait().
ChildInv ==
  Linux =>
    /\ others.alive + others.zombie <= 1
    /\ helper.pc = "none" => helper = NoHelper
    /\ start.pc = "none" => helper.pc = "none"
    /\ helper.pc = "none" => start.pc \in {"none", "wait2"}
    /\ start.pc = "wait2" => helper.pc = "none" \/ others.alive + others.zombie = 0

\* Linux: who is stopped has yet to be detached.
TracedInv ==
  Linux =>
    /\ helper.pc \in {"attach", "stopping"} => helper.i <= Len(helper.ids)
    /\ helper.pc = "stopping" => helper.i < Len(helper.ids)
                                  /\ \E j \in DOMAIN helper.tids : helper.tids[j] = Next_id
    /\ helper.pc \in {"arm", "detach"} => helper.i <= Len(helper.tids)
    /\ helper.pc \in {"none", "zombie"} => \A t \in Threads : held[t] = 0
    /\ helper.pc \in {"attach", "stopping", "arm"} => \A t \in Threads :
         held[t] # 0 => \E j \in DOMAIN helper.tids : helper.tids[j] = t
    /\ helper.pc = "detach" => \A t \in Threads :
         held[t] # 0 => \E j \in helper.i + 1 .. Len(helper.tids) : helper.tids[j] = t

\* Windows: a thread is suspended as often as the loops say.
Suspended ==
  CASE start.pc = "suspend" -> 1 .. start.i
    [] start.pc \in {"generation", "enable", "handler", "arm"} -> 1 .. Len(start.handles)
    [] start.pc = "resume" -> start.i + 1 .. Len(start.handles)
    [] OTHER -> {}

\* How many of the handles at the indices S are of t.
TimesIn(h, t, S) == Cardinality({j \in S : h[j] = t})
Times(t) == TimesIn(start.handles, t, Suspended)

SuspendedInv ==
  ~Linux /\ ~broke =>
    /\ start.pc \in {"suspend", "arm", "resume"} => start.i <= Len(start.handles)
    /\ start.pc = "open" => start.i <= start.count
    /\ \A t \in Threads : held[t] = Times(t)

Scoped == Linux => scenario.ptraceScope
FlagInv ==
  Scoped =>
    /\ start.pc \in {"open", "suspend", "generation", "enable", "handler", "ptracer"} =>
         \A t \in Threads : ~trapFlag[t]
    /\ Linux /\ helper.tids # << >> => helper.permitted
    /\ Linux /\ helper.permitted => start.pc \in {"wait1", "wait2"}
    /\ (\E t \in Threads : trapFlag[t]) => g_SignalHandlerInstalled

\* Who is wanted is mapped, and a lookup of its core under way will not miss it.
WantedInv ==
  /\ start.pc = "none" => wanted = {}
  /\ \A t \in wanted :
       /\ mapping[t] # -1
       /\ setting # NoCall => ~(setting.id = t /\ setting.core = -1)
       /\ finding[t] # NoCall => -1 \notin finding[t].seen

Armed(t) == trapFlag[t] \/ Excused(t)
Attached(t) == \E j \in DOMAIN helper.tids : helper.tids[j] = t
LinuxArm(t) ==
  /\ helper.pc \in {"attach", "stopping"} => \E j \in DOMAIN helper.ids : helper.ids[j] = t
  /\ helper.pc \in {"attach", "stopping"} =>
       \A j \in 1 .. helper.i : helper.ids[j] = t => Attached(t) \/ Excused(t)
  /\ helper.pc = "arm" => Attached(t) \/ Excused(t)
  /\ helper.pc = "arm" => \A j \in 1 .. helper.i : helper.tids[j] = t => Armed(t)
  /\ helper.pc \in {"detach", "zombie", "none"} => Armed(t)
LinuxArmInv == Linux => \A t \in wanted \ exited : LinuxArm(t)

Opened(t) == \E j \in DOMAIN start.handles : start.handles[j] = t
AllMoved == Threads \X {"moved"} \subseteq excused
AllOpen ==
  start.pc = "open" /\ ~AllMoved => ~Removal /\ start.count <= s_CoreMappingCount
HandlesArmed == start.pc = "arm" => \A j \in 1 .. start.i : trapFlag[start.handles[j]]
WindowsArm(t) ==
  /\ start.pc = "open" /\ ~AllMoved =>
       Opened(t) \/ \E k \in start.i .. start.count - 1 : Id(k) = t
  /\ start.pc \in {"suspend", "generation", "enable", "handler", "arm"} => Opened(t) \/ Excused(t)
  /\ start.pc \in {"resume", "self"} => Armed(t)
  /\ start.pc \in {"enable", "handler", "arm", "resume", "self"} /\ m_Generation[t] = g_Generation =>
       m_LogicalCoreIndex[t] >= 0 \/ Excused(t)
WindowsArmInv ==
  ~Linux /\ ~broke =>
    AllOpen /\ HandlesArmed /\ \A t \in wanted \ (exited \cup {Caller}) : WindowsArm(t)

-----------------------------------------------------------------------------
(* The steps of the table. *)

LEMMA Lists ==
  ASSUME NEW a, NEW b, NEW c
  PROVE  /\ Head(<<a, b, c>>) = a /\ Tail(<<a, b, c>>) = <<b, c>> /\ Len(<<a, b, c>>) = 3
         /\ Head(<<a, b>>) = a /\ Tail(<<a, b>>) = <<b>> /\ Len(<<a, b>>) = 2
         /\ Head(<<a>>) = a /\ Len(<<a>>) = 1
OBVIOUS

LEMMA TriplesAreSequences ==
  ASSUME NEW S, NEW a \in S, NEW b \in S, NEW c \in S
  PROVE  <<a, b, c>> \in Seq(S)
OBVIOUS

LEMMA CoresAreIntegers == Core \subseteq Int
  BY CoresAssumption DEF Core

\* The stores of a call of CacheSimSetThreadCoreMapping are of the type.
LEMMA StoreTypes ==
  ASSUME NEW i \in Nat, NEW n \in Nat, NEW t \in Threads, NEW c \in Core
  PROVE  /\ IdStore(i, t) \in MemoryStore /\ CoreStore(i, c) \in MemoryStore
         /\ CountStore(n) \in MemoryStore
<1>1. c \in Int
  BY CoresAssumption DEF Core
<1>2. QED
  BY <1>1 DEF IdStore, CoreStore, CountStore, MemoryStore

\* The search of the table finds the one entry of the thread.
LEMMA ChosenEntry ==
  ASSUME TableType, Holds(Entries, {}), NEW t \in Threads, EntryOf(t) # {}
  PROVE  (CHOOSE i \in EntryOf(t) : \A j \in EntryOf(t) : i <= j) \in EntryOf(t)
<1>1. PICK i \in EntryOf(t) : TRUE
  OBVIOUS
<1>2. i \in Int
  BY CapacityAssumption DEF EntryOf, TableType
<1>3. \A j \in EntryOf(t) : j = i
  BY <1>1 DEF EntryOf, Entries, Holds, Id
<1>4. \A j \in EntryOf(t) : i <= j
  BY <1>2, <1>3
<1>5. QED
  BY <1>1, <1>4

LEMMA SetStep ==
  ASSUME TableType, TableInv, NEW t \in Threads, NEW c \in Core, SetThreadCoreMapping(t, c)
  PROVE  /\ TableType' /\ TableInv'
         /\ setting = NoCall /\ setting' # NoCall /\ setting'.id = t /\ setting'.core = c
         /\ setting'.removes = Removes(t, c)
         /\ finding' = Overlapped(t, c)
         /\ UNCHANGED <<s_CoreMappings, s_CoreMappingCount, m_LogicalCoreIndex, mapping>>
         /\ \A u \in Threads :
              /\ finding[u] = NoCall => finding'[u] = NoCall
              /\ finding[u] # NoCall =>
                   /\ finding'[u] # NoCall
                   /\ finding'[u].seen = IF u = t THEN finding[u].seen \cup {c} ELSE finding[u].seen
<1> DEFINE n == s_CoreMappingCount
           last == s_CoreMappings[n - 1]
           i == CHOOSE i \in EntryOf(t) : \A j \in EntryOf(t) : i <= j
<1>1. /\ setting = NoCall /\ finding' = Overlapped(t, c)
      /\ EntryOf(t) # {} \/ n < Capacity
      /\ UNCHANGED <<s_CoreMappings, s_CoreMappingCount, m_LogicalCoreIndex, mapping>>
  BY DEF SetThreadCoreMapping
<1>2. PICK stores \in StoresFor(t, c) :
        setting' = [id |-> t, core |-> c, stores |-> stores, removes |-> Removes(t, c)]
  BY DEF SetThreadCoreMapping
<1>3. Holds(Entries, {}) /\ n \in 0 .. Capacity /\ n \in Nat /\ c \in Int
  <2>1. Holds(Entries, {})
    BY <1>1 DEF TableInv, Removal
  <2>2. n \in 0 .. Capacity /\ n \in Nat
    BY CapacityAssumption DEF TableType
  <2>3. c \in Int
    BY CoresAssumption DEF Core
  <2>4. QED
    BY <2>1, <2>2, <2>3
<1>4. Entries = Entries' /\ Holds(Entries, {})'
  BY <1>1, <1>3 DEF Holds, Id, Entries
<1>5. Removes(t, c) \in BOOLEAN /\ (Removes(t, c) <=> (c = -1 /\ EntryOf(t) # {}))
  BY DEF Removes
<1>6. setting' \in SetCall /\ (~setting'.removes => Holds(Entries, {})') /\ (Adding \/ Changing \/ Removing)'
  <2>1. CASE EntryOf(t) = {}
    <3>1. stores = <<IdStore(n, t), CoreStore(n, c), CountStore(n + 1)>>
      BY <1>2, <2>1 DEF StoresFor
    <3>2. stores \in Seq(MemoryStore)
      BY <1>3, <3>1, StoreTypes
    <3>3. Adding'
      BY <1>1, <1>2, <1>5, <2>1, <3>1 DEF Adding, EntryOf, Entries, Id
    <3>4. QED
      BY <1>2, <1>3, <1>4, <1>5, <3>2, <3>3 DEF SetCall
  <2>2. CASE EntryOf(t) # {}
    <3>1. PICK k \in EntryOf(t) : k = i
      BY <1>3, <2>2, ChosenEntry
    <3> HIDE DEF i
    <3>2. k \in Entries /\ Id(k) = t /\ k \in Nat /\ n - 1 \in Entries /\ n - 1 \in Nat
      BY <1>3, <3>1 DEF EntryOf, Entries, Id
    <3>3. last.id \in Threads /\ last.core \in Core /\ last.core \in Int
      <4>1. last.id \in Threads
        BY <1>3, <3>2 DEF Holds, Id
      <4>2. n - 1 \in Index
        BY <1>3, <3>2, CapacityAssumption DEF Index
      <4>3. last.core \in Core
        <5>1. s_CoreMappings \in [Index -> [id : Threads \cup {NoThread}, core : Core]]
          BY DEF TableType
        <5>2. QED
          BY <4>2, <5>1
      <4>4. last.core \in Int
        BY <4>3, CoresAreIntegers
      <4>5. QED
        BY <4>1, <4>3, <4>4
    <3>4. CASE c # -1
      <4>1. stores = <<CoreStore(k, c)>>
        BY <1>2, <2>2, <3>4, <3>1 DEF StoresFor, i
      <4>2. stores \in Seq(MemoryStore)
        BY <3>2, <4>1, StoreTypes
      <4>3. Changing'
        BY <1>1, <1>2, <1>5, <3>2, <3>4, <4>1 DEF Changing, Entries, Id
      <4>4. QED
        BY <1>2, <1>3, <1>4, <1>5, <4>2, <4>3 DEF SetCall
    <3>5. CASE c = -1
      <4>1. \/ stores = <<IdStore(k, last.id), CoreStore(k, last.core), CountStore(n - 1)>>
            \/ stores = <<CoreStore(k, last.core), IdStore(k, last.id), CountStore(n - 1)>>
        BY <1>2, <2>2, <3>5, <3>1 DEF StoresFor, i
      <4>2. stores \in Seq(MemoryStore)
        <5>1. PICK id \in Threads, core \in Core : id = last.id /\ core = last.core
          BY <3>3
        <5>2. PICK m \in Nat : m = n - 1
          BY <3>2
        <5>3. /\ IdStore(k, id) \in MemoryStore /\ CoreStore(k, core) \in MemoryStore
              /\ CountStore(m) \in MemoryStore
          BY <3>2, StoreTypes
        <5>4. \/ stores = <<IdStore(k, id), CoreStore(k, core), CountStore(m)>>
              \/ stores = <<CoreStore(k, core), IdStore(k, id), CountStore(m)>>
          BY <4>1, <5>1, <5>2
        <5>5. QED
          BY <5>3, <5>4, TriplesAreSequences
      <4>3. setting'.removes /\ setting'.core = -1 /\ setting'.id = t /\ setting'.stores = stores
        BY <1>2, <1>5, <2>2, <3>5
      <4>4. Holds(Entries \ {k}, {t})
        <5>1. \A j \in Entries : Id(j) = t => j = k
          BY <1>3, <3>2 DEF Holds
        <5>2. \A u \in Threads \ {t} : (\A j \in Entries \ {k} : Id(j) # u) => mapping[u] = -1
          BY <1>3, <3>2 DEF Holds
        <5>3. QED
          BY <1>3, <5>1, <5>2 DEF Holds
      <4>5. Holds(Entries \ {k}, {t})' /\ k \in Entries' /\ Id(k)' = t
        BY <1>1, <1>4, <3>2, <4>4 DEF Holds, Id
      <4>6. RemovingAt(k)'
        BY <1>1, <4>1, <4>3, <4>5 DEF RemovingAt
      <4>7. Removing'
        BY <4>3, <4>5, <4>6 DEF Removing
      <4>8. QED
        BY <1>2, <1>3, <1>4, <4>2, <4>3, <4>7, <1>5 DEF SetCall
    <3>6. QED
      BY <3>4, <3>5
  <2>3. QED
    BY <2>1, <2>2
<1>7. setting' # NoCall /\ setting'.id = t /\ setting'.core = c /\ setting'.removes = Removes(t, c)
  BY <1>2, <1>6, NoCallAssumption
<1>8. TableInv'
  BY <1>6, <1>7 DEF TableInv, Removal
<1>9. ASSUME NEW u \in Threads
      PROVE  /\ finding[u] = NoCall => finding'[u] = NoCall
             /\ finding[u] # NoCall =>
                  /\ finding'[u] \in Lookup
                  /\ finding'[u].count = finding[u].count /\ finding'[u].i = finding[u].i
                  /\ finding'[u].hit = finding[u].hit
                  /\ finding'[u].seen = IF u = t THEN finding[u].seen \cup {c} ELSE finding[u].seen
                  /\ finding'[u].moved = (finding[u].moved \/ Removes(t, c))
  <2>1. CASE finding[u] = NoCall
    BY <1>1, <2>1 DEF Overlapped
  <2>2. CASE finding[u] # NoCall
    <3>1. finding[u] \in Lookup
      BY <2>2 DEF TableType
    <3> DEFINE s == IF u = t THEN finding[u].seen \cup {c} ELSE finding[u].seen
               m == finding[u].moved \/ Removes(t, c)
    <3>2. finding'[u] = [finding[u] EXCEPT !.seen = s, !.moved = m]
      BY <1>1, <2>2 DEF Overlapped
    <3>3. m \in BOOLEAN /\ s \in SUBSET Int
      BY <1>3, <3>1 DEF Lookup
    <3> HIDE DEF s, m
    <3>4. /\ finding'[u] \in Lookup
          /\ finding'[u].count = finding[u].count /\ finding'[u].i = finding[u].i
          /\ finding'[u].hit = finding[u].hit
          /\ finding'[u].seen = s /\ finding'[u].moved = m
      BY <3>1, <3>2, <3>3 DEF Lookup
    <3>5. QED
      BY <2>2, <3>4 DEF s, m
  <2>3. QED
    BY <2>1, <2>2
<1>10. finding' \in [Threads -> Lookup \cup {NoCall}]
  <2>1. DOMAIN finding' = Threads /\ finding' = [u \in Threads |-> finding'[u]]
    BY <1>1 DEF Overlapped
  <2>2. \A u \in Threads : finding'[u] \in Lookup \cup {NoCall}
    BY <1>9
  <2>3. QED
    BY <2>1, <2>2
<1>11. \A u \in Threads : finding'[u] # NoCall =>
       /\ finding'[u].count <= Capacity
       /\ finding'[u].i <= finding'[u].count
       /\ finding'[u].hit => finding'[u].i < finding'[u].count
       /\ finding'[u].seen \subseteq Core
  <2> TAKE u \in Threads
  <2> HAVE finding'[u] # NoCall
  <2>1. finding[u] # NoCall
    BY <1>9
  <2>2. QED
    BY <1>9, <2>1 DEF TableType
<1>12. TableType'
  BY <1>1, <1>6, <1>7, <1>10, <1>11 DEF TableType
<1>13. \A u \in Threads : finding[u] # NoCall => finding'[u] # NoCall
  BY <1>9, NoCallAssumption
<1>14. QED
  BY <1>1, <1>7, <1>8, <1>9, <1>12, <1>13

TableOfEntries == s_CoreMappings \in [Index -> [id : Threads \cup {NoThread}, core : Core]]

LEMMA IdStored ==
  ASSUME TableOfEntries, NEW i \in Index, NEW t \in Threads, StoreNext,
         Head(setting.stores) = IdStore(i, t)
  PROVE  /\ TableOfEntries' /\ UNCHANGED s_CoreMappingCount
         /\ \A k \in Index : /\ Id(k)' = IF k = i THEN t ELSE Id(k)
                             /\ s_CoreMappings'[k].core = s_CoreMappings[k].core
<1> DEFINE s == Head(setting.stores)
<1>0. s.at = "id" /\ s.index = i /\ s.value = t
  BY DEF IdStore
<1>1. s_CoreMappings' = [s_CoreMappings EXCEPT ![i].id = t] /\ UNCHANGED s_CoreMappingCount
  <2>1. s_CoreMappings' = [s_CoreMappings EXCEPT ![s.index].id = s.value]
    BY <1>0, Zenon DEF StoreNext
  <2>2. QED
    BY <1>0, <2>1 DEF StoreNext
<1>2. QED
  BY <1>1 DEF TableOfEntries, Id

LEMMA CoreStored ==
  ASSUME TableOfEntries, NEW i \in Index, NEW c \in Core, StoreNext,
         Head(setting.stores) = CoreStore(i, c)
  PROVE  /\ TableOfEntries' /\ UNCHANGED s_CoreMappingCount
         /\ \A k \in Index : /\ Id(k)' = Id(k)
                             /\ s_CoreMappings'[k].core = IF k = i THEN c ELSE s_CoreMappings[k].core
<1> DEFINE s == Head(setting.stores)
<1>0. s.at = "core" /\ s.index = i /\ s.value = c
  BY DEF CoreStore
<1>1. s_CoreMappings' = [s_CoreMappings EXCEPT ![i].core = c] /\ UNCHANGED s_CoreMappingCount
  <2>1. s_CoreMappings' = [s_CoreMappings EXCEPT ![s.index].core = s.value]
    BY <1>0, Zenon DEF StoreNext
  <2>2. QED
    BY <1>0, <2>1 DEF StoreNext
<1>2. QED
  BY <1>1 DEF TableOfEntries, Id

LEMMA CountStored ==
  ASSUME NEW n \in Nat, StoreNext, Head(setting.stores) = CountStore(n)
  PROVE  UNCHANGED s_CoreMappings /\ s_CoreMappingCount' = n
BY DEF StoreNext, CountStore

LEMMA MoreStores ==
  ASSUME setting \in SetCall, StoreNext, Len(setting.stores) # 1, Len(setting.stores) # 0
  PROVE  /\ setting' \in SetCall /\ setting' # NoCall /\ UNCHANGED mapping
         /\ setting'.id = setting.id /\ setting'.core = setting.core
         /\ setting'.removes = setting.removes /\ setting'.stores = Tail(setting.stores)
<1>1. setting' = [setting EXCEPT !.stores = Tail(setting.stores)] /\ UNCHANGED mapping
  BY DEF StoreNext
<1>2. setting.stores \in Seq(MemoryStore)
  BY DEF SetCall
<1>3. Tail(setting.stores) \in Seq(MemoryStore)
  BY <1>2
<1> DEFINE tail == Tail(setting.stores)
<1> HIDE DEF tail
<1>4. setting' = [setting EXCEPT !.stores = tail]
  BY <1>1 DEF tail
<1>5. setting' \in SetCall /\ setting'.id = setting.id /\ setting'.core = setting.core
      /\ setting'.removes = setting.removes /\ setting'.stores = tail
  BY <1>3, <1>4 DEF SetCall, tail
<1>6. QED
  BY <1>1, <1>5, NoCallAssumption DEF tail

LEMMA LastStore ==
  ASSUME StoreNext, Len(setting.stores) = 1
  PROVE  setting' = NoCall /\ mapping' = [mapping EXCEPT ![setting.id] = setting.core]
BY DEF StoreNext

\* What every store leaves as it was.
LEMMA StoreFrame ==
  ASSUME TableType, StoreNext
  PROVE  /\ setting # NoCall /\ setting \in SetCall /\ setting.core \in Core /\ setting.id \in Threads
         /\ setting.removes \in BOOLEAN
         /\ TableOfEntries
         /\ UNCHANGED <<finding, m_LogicalCoreIndex>>
<1>1. setting # NoCall /\ UNCHANGED <<finding, m_LogicalCoreIndex>>
  BY DEF StoreNext
<1>2. setting \in SetCall /\ setting.core \in Core /\ TableOfEntries
  BY <1>1 DEF TableType, TableOfEntries
<1>3. QED
  BY <1>1, <1>2 DEF SetCall

LEMMA AddingStep ==
  ASSUME TableType, TableInv, Adding, StoreNext
  PROVE  /\ TableType' /\ TableInv'
         /\ \A i \in Entries : Id(i)' = Id(i)
         /\ s_CoreMappingCount' >= s_CoreMappingCount
<1> DEFINE n == s_CoreMappingCount
<1>1. /\ setting # NoCall /\ setting \in SetCall /\ setting.core \in Core /\ setting.id \in Threads
      /\ TableOfEntries /\ UNCHANGED <<finding, m_LogicalCoreIndex>> /\ ~setting.removes
  BY StoreFrame DEF Adding
<1>2. PICK t \in Threads, c \in Core, m \in Nat :
        t = setting.id /\ c = setting.core /\ m = n /\ m \in Index /\ m + 1 \in 0 .. Capacity
  BY <1>1, CapacityAssumption DEF Adding, TableType, Index
<1>3. Holds(Entries, {}) /\ Entries \subseteq Index /\ m \notin Entries
  BY <1>1, <1>2, CapacityAssumption DEF TableInv, Removal, Entries, Index
<1>4. \A i \in Entries : Id(i) # t
  BY <1>2 DEF Adding
<1>5. mapping[t] = -1 /\ mapping \in [Threads -> Core]
  BY <1>3, <1>4 DEF Holds, TableType
<1> HIDE DEF n
<1>6. CASE setting.stores = <<IdStore(m, t), CoreStore(m, c), CountStore(m + 1)>>
  <2>1. Head(setting.stores) = IdStore(m, t) /\ Len(setting.stores) = 3
        /\ Tail(setting.stores) = <<CoreStore(m, c), CountStore(m + 1)>>
    BY <1>6, Lists
  <2>2. /\ TableOfEntries' /\ UNCHANGED s_CoreMappingCount
        /\ \A k \in Index : /\ Id(k)' = IF k = m THEN t ELSE Id(k)
                            /\ s_CoreMappings'[k].core = s_CoreMappings[k].core
    BY <1>1, <1>2, <2>1, IdStored
  <2>3. /\ setting' \in SetCall /\ setting' # NoCall /\ UNCHANGED mapping
        /\ setting'.id = t /\ setting'.core = c
        /\ ~setting'.removes /\ setting'.stores = Tail(setting.stores)
    BY <1>1, <1>2, <2>1, MoreStores
  <2>4. Entries' = Entries /\ Holds(Entries, {})' /\ \A i \in Entries : Id(i)' = Id(i)
    BY <1>3, <2>2, <2>3 DEF Holds, Entries
  <2>5. Adding'
    BY <1>2, <1>4, <2>1, <2>2, <2>3, <2>4, CapacityAssumption DEF Adding, n
  <2>6. TableType'
    BY <1>1, <1>2, <2>2, <2>3 DEF TableType, TableOfEntries
  <2>7. QED
    BY <1>2, <2>2, <2>3, <2>4, <2>5, <2>6 DEF TableInv, Removal, n
<1>7. CASE setting.stores = <<CoreStore(m, c), CountStore(m + 1)>> /\ Id(m) = t
  <2>1. Head(setting.stores) = CoreStore(m, c) /\ Len(setting.stores) = 2
        /\ Tail(setting.stores) = <<CountStore(m + 1)>>
    BY <1>7, Lists
  <2>2. /\ TableOfEntries' /\ UNCHANGED s_CoreMappingCount
        /\ \A k \in Index : /\ Id(k)' = Id(k)
                            /\ s_CoreMappings'[k].core = IF k = m THEN c ELSE s_CoreMappings[k].core
    BY <1>1, <1>2, <2>1, CoreStored
  <2>3. /\ setting' \in SetCall /\ setting' # NoCall /\ UNCHANGED mapping
        /\ setting'.id = t /\ setting'.core = c
        /\ ~setting'.removes /\ setting'.stores = Tail(setting.stores)
    BY <1>1, <1>2, <2>1, MoreStores
  <2>4. Entries' = Entries /\ Holds(Entries, {})' /\ \A i \in Entries : Id(i)' = Id(i)
    BY <1>3, <2>2, <2>3 DEF Holds, Entries
  <2>5. Adding'
    BY <1>2, <1>4, <1>7, <2>1, <2>2, <2>3, <2>4, CapacityAssumption DEF Adding, n
  <2>6. TableType'
    BY <1>1, <1>2, <2>2, <2>3 DEF TableType, TableOfEntries
  <2>7. QED
    BY <1>2, <2>2, <2>3, <2>4, <2>5, <2>6 DEF TableInv, Removal, n
<1>8. CASE setting.stores = <<CountStore(m + 1)>> /\ Id(m) = t /\ s_CoreMappings[m].core = c
  <2>1. Head(setting.stores) = CountStore(m + 1) /\ Len(setting.stores) = 1
    BY <1>8, Lists
  <2>2. UNCHANGED s_CoreMappings /\ s_CoreMappingCount' = m + 1
    BY <1>2, <2>1, CountStored
  <2>3. setting' = NoCall /\ mapping' = [mapping EXCEPT ![t] = c]
    BY <1>2, <2>1, LastStore
  <2>4. Entries' = Entries \cup {m} /\ \A i \in Entries : Id(i)' = Id(i)
    BY <1>2, <2>2 DEF Entries, Id, n
  <2>5. Holds(Entries, {})'
    <3>1. \A i, j \in Entries' : Id(i)' = Id(j)' => i = j
      BY <1>3, <1>4, <1>8, <2>2, <2>4 DEF Holds, Id
    <3>2. \A i \in Entries' : Id(i)' \in Threads /\ s_CoreMappings'[i].core = mapping'[Id(i)']
      BY <1>2, <1>3, <1>4, <1>5, <1>8, <2>2, <2>3, <2>4 DEF Holds, Id
    <3>3. \A u \in Threads : (\A i \in Entries' : Id(i)' # u) => mapping'[u] = -1
      BY <1>3, <1>5, <1>8, <2>2, <2>3, <2>4 DEF Holds, Id
    <3>4. QED
      BY <3>1, <3>2, <3>3 DEF Holds, Id
  <2>6. TableType'
    BY <1>1, <1>2, <1>5, <2>2, <2>3 DEF TableType, TableOfEntries
  <2>7. QED
    BY <1>2, <2>2, <2>3, <2>4, <2>5, <2>6 DEF TableInv, Removal, n
<1>9. QED
  BY <1>2, <1>6, <1>7, <1>8 DEF Adding, n

LEMMA ChangingStep ==
  ASSUME TableType, TableInv, Changing, StoreNext
  PROVE  /\ TableType' /\ TableInv'
         /\ \A i \in Entries : Id(i)' = Id(i)
         /\ UNCHANGED s_CoreMappingCount
<1>1. /\ setting # NoCall /\ setting \in SetCall /\ setting.core \in Core /\ setting.id \in Threads
      /\ TableOfEntries /\ UNCHANGED <<finding, m_LogicalCoreIndex>> /\ ~setting.removes
  BY StoreFrame DEF Changing
<1>2. PICK k \in Entries : Id(k) = setting.id /\ setting.stores = <<CoreStore(k, setting.core)>>
  BY DEF Changing
<1>3. PICK t \in Threads, c \in Core : t = setting.id /\ c = setting.core
  BY <1>1
<1>4. Holds(Entries, {}) /\ Entries \subseteq Index /\ mapping \in [Threads -> Core]
  BY <1>1, CapacityAssumption DEF TableInv, TableType, Removal, Entries, Index
<1>5. Head(setting.stores) = CoreStore(k, c) /\ Len(setting.stores) = 1
  BY <1>2, <1>3, Lists
<1>6. /\ TableOfEntries' /\ UNCHANGED s_CoreMappingCount
      /\ \A j \in Index : /\ Id(j)' = Id(j)
                          /\ s_CoreMappings'[j].core = IF j = k THEN c ELSE s_CoreMappings[j].core
  BY <1>1, <1>4, <1>5, CoreStored
<1>7. setting' = NoCall /\ mapping' = [mapping EXCEPT ![t] = c]
  BY <1>3, <1>5, LastStore
<1>8. Entries' = Entries
  BY <1>6 DEF Entries
<1>9. Holds(Entries, {})'
  <2>1. \A i, j \in Entries : Id(i)' = Id(j)' => i = j
    BY <1>4, <1>6 DEF Holds
  <2>2. \A i \in Entries : Id(i)' \in Threads /\ s_CoreMappings'[i].core = mapping'[Id(i)']
    BY <1>2, <1>3, <1>4, <1>6, <1>7 DEF Holds
  <2>3. \A u \in Threads : (\A i \in Entries : Id(i)' # u) => mapping'[u] = -1
    BY <1>2, <1>3, <1>4, <1>6, <1>7 DEF Holds
  <2>4. QED
    BY <1>8, <2>1, <2>2, <2>3 DEF Holds
<1>10. TableType'
  BY <1>1, <1>3, <1>4, <1>6, <1>7 DEF TableType, TableOfEntries
<1>11. QED
  BY <1>4, <1>6, <1>7, <1>9, <1>10 DEF TableInv, Removal

\* Entry k is being removed: t is its thread, and <<id, core>> the last entry.
LEMMA RemovingStep ==
  ASSUME TableType, TableInv, Removing, StoreNext
  PROVE  TableType' /\ TableInv'
<1>1. /\ setting # NoCall /\ setting \in SetCall /\ setting.id \in Threads /\ setting.core = -1
      /\ TableOfEntries /\ UNCHANGED <<finding, m_LogicalCoreIndex>> /\ setting.removes
      /\ mapping \in [Threads -> Core]
  BY StoreFrame DEF Removing, TableType
<1>2. PICK k \in Entries :
        Id(k) \in Threads /\ Holds(Entries \ {k}, {setting.id}) /\ RemovingAt(k)
  BY DEF Removing
<1>3. PICK m \in Nat : m = s_CoreMappingCount - 1
  BY <1>2, CapacityAssumption DEF TableType, Entries
<1>4. k \in Index /\ m \in Index /\ m \in Entries /\ Entries = 0 .. m /\ Entries \subseteq Index
  BY <1>2, <1>3, CapacityAssumption DEF TableType, Entries, Index
<1>5. Id(m) \in Threads /\ s_CoreMappings[m].core \in Core
  <2>1. s_CoreMappings[m].core \in Core
    BY <1>1, <1>4 DEF TableOfEntries
  <2>2. CASE m # k
    BY <1>2, <1>4, <2>1, <2>2 DEF Holds
  <2>3. CASE m = k
    BY <1>2, <2>1, <2>3
  <2>4. QED
    BY <2>2, <2>3
<1>6. PICK t \in Threads, id \in Threads, core \in Core :
        t = setting.id /\ id = Id(m) /\ core = s_CoreMappings[m].core
  BY <1>1, <1>5
<1>7. Holds(Entries \ {k}, {t})
  BY <1>2, <1>6
<1>8. \/ setting.stores = <<IdStore(k, id), CoreStore(k, core), CountStore(m)>> /\ Id(k) = t
      \/ setting.stores = <<CoreStore(k, core), IdStore(k, id), CountStore(m)>> /\ Id(k) = t
      \/ setting.stores = <<CoreStore(k, core), CountStore(m)>> /\ Id(k) = id
      \/ setting.stores = <<IdStore(k, id), CountStore(m)>> /\ Id(k) = t
         /\ s_CoreMappings[k].core = core
      \/ setting.stores = <<CountStore(m)>> /\ Id(k) = id /\ s_CoreMappings[k].core = core
  BY <1>2, <1>3, <1>6 DEF RemovingAt, Id
<1>9. ASSUME Head(setting.stores) \in {IdStore(k, id), CoreStore(k, core)},
             Len(setting.stores) # 0, Len(setting.stores) # 1,
             \/ Tail(setting.stores) = <<IdStore(k, id), CountStore(m)>>
                /\ Head(setting.stores) = CoreStore(k, core) /\ Id(k) = t
             \/ Tail(setting.stores) = <<CoreStore(k, core), CountStore(m)>>
                /\ Head(setting.stores) = IdStore(k, id)
             \/ Tail(setting.stores) = <<CountStore(m)>>
                /\ Head(setting.stores) = CoreStore(k, core) /\ Id(k) = id
             \/ Tail(setting.stores) = <<CountStore(m)>>
                /\ Head(setting.stores) = IdStore(k, id) /\ s_CoreMappings[k].core = core
      PROVE  TableType' /\ TableInv'
  <2>1. /\ TableOfEntries' /\ UNCHANGED s_CoreMappingCount
        /\ \A j \in Index \ {k} : Id(j)' = Id(j) /\ s_CoreMappings'[j].core = s_CoreMappings[j].core
        /\ Head(setting.stores) = IdStore(k, id) =>
             Id(k)' = id /\ s_CoreMappings'[k].core = s_CoreMappings[k].core
        /\ Head(setting.stores) = CoreStore(k, core) =>
             Id(k)' = Id(k) /\ s_CoreMappings'[k].core = core
    <3>1. CASE Head(setting.stores) = IdStore(k, id)
      <4>1. Head(setting.stores) # CoreStore(k, core)
        BY <3>1 DEF IdStore, CoreStore
      <4>2. QED
        BY <1>1, <1>4, <3>1, <4>1, IdStored
    <3>2. CASE Head(setting.stores) = CoreStore(k, core)
      <4>1. Head(setting.stores) # IdStore(k, id)
        BY <3>2 DEF IdStore, CoreStore
      <4>2. QED
        BY <1>1, <1>4, <3>2, <4>1, CoreStored
    <3>3. QED
      BY <1>9, <3>1, <3>2
  <2>2. /\ setting' \in SetCall /\ setting' # NoCall /\ UNCHANGED mapping
        /\ setting'.id = t /\ setting'.core = -1
        /\ setting'.removes /\ setting'.stores = Tail(setting.stores)
    BY <1>1, <1>6, <1>9, MoreStores
  <2>3. Entries' = Entries /\ Holds(Entries \ {k}, {t})'
    <3>1. Entries' = Entries
      BY <2>1 DEF Entries
    <3>2. QED
      BY <1>4, <1>7, <2>1, <2>2, <3>1 DEF Holds
  <2>4. Id(m)' = id /\ s_CoreMappings'[m].core = core /\ s_CoreMappingCount' - 1 = m
    BY <1>3, <1>4, <1>6, <1>9, <2>1
  <2>5. RemovingAt(k)'
    <3>1. \/ setting'.stores = <<IdStore(k, id), CountStore(m)>> /\ Id(k)' = t
             /\ s_CoreMappings'[k].core = core
          \/ setting'.stores = <<CoreStore(k, core), CountStore(m)>> /\ Id(k)' = id
          \/ setting'.stores = <<CountStore(m)>> /\ Id(k)' = id /\ s_CoreMappings'[k].core = core
      BY <1>9, <2>1, <2>2
    <3>2. QED
      BY <2>2, <2>4, <3>1 DEF RemovingAt, Id
  <2>6. Removing'
    <3>1. k \in Entries' /\ Id(k)' \in Threads /\ Holds(Entries \ {k}, {setting.id})'
      BY <1>2, <1>9, <2>1, <2>2, <2>3
    <3>2. QED
      BY <2>2, <2>5, <3>1 DEF Removing
  <2>7. TableType'
    BY <1>1, <2>1, <2>2, CoresAssumption DEF TableType, TableOfEntries, Core
  <2>8. QED
    BY <2>2, <2>6, <2>7 DEF TableInv, Removal
<1>10. CASE \/ setting.stores = <<IdStore(k, id), CoreStore(k, core), CountStore(m)>> /\ Id(k) = t
            \/ setting.stores = <<CoreStore(k, core), IdStore(k, id), CountStore(m)>> /\ Id(k) = t
            \/ setting.stores = <<CoreStore(k, core), CountStore(m)>> /\ Id(k) = id
            \/ setting.stores = <<IdStore(k, id), CountStore(m)>> /\ Id(k) = t
               /\ s_CoreMappings[k].core = core
  <2>1. CASE setting.stores = <<IdStore(k, id), CoreStore(k, core), CountStore(m)>> /\ Id(k) = t
    BY <1>9, <2>1, Lists
  <2>2. CASE setting.stores = <<CoreStore(k, core), IdStore(k, id), CountStore(m)>> /\ Id(k) = t
    BY <1>9, <2>2, Lists
  <2>3. CASE setting.stores = <<CoreStore(k, core), CountStore(m)>> /\ Id(k) = id
    BY <1>9, <2>3, Lists
  <2>4. CASE setting.stores = <<IdStore(k, id), CountStore(m)>> /\ Id(k) = t
               /\ s_CoreMappings[k].core = core
    BY <1>9, <2>4, Lists
  <2>5. QED
    BY <1>10, <2>1, <2>2, <2>3, <2>4
<1>11. CASE setting.stores = <<CountStore(m)>> /\ Id(k) = id /\ s_CoreMappings[k].core = core
  <2>1. Head(setting.stores) = CountStore(m) /\ Len(setting.stores) = 1
    BY <1>11, Lists
  <2>2. UNCHANGED s_CoreMappings /\ s_CoreMappingCount' = m /\ Entries' = 0 .. m - 1
        /\ \A j \in Index : Id(j)' = Id(j)
    BY <2>1, CountStored DEF Entries, Id
  <2>3. setting' = NoCall /\ mapping' = [mapping EXCEPT ![t] = -1]
    BY <1>1, <1>6, <2>1, LastStore
  <2>4. \A i, j \in 0 .. m - 1 : Id(i) = Id(j) => i = j
    BY <1>4, <1>6, <1>7, <1>11 DEF Holds
  <2>5. \A i \in 0 .. m - 1 : Id(i) \in Threads \ {t} /\ s_CoreMappings[i].core = mapping[Id(i)]
    BY <1>4, <1>6, <1>7, <1>11 DEF Holds
  <2>6. ASSUME NEW u \in Threads, \A i \in 0 .. m - 1 : Id(i) # u
        PROVE  mapping'[u] = -1
    <3>1. CASE u = t
      BY <1>1, <2>3, <3>1
    <3>2. CASE u # t
      <4>1. \A i \in Entries \ {k} : Id(i) # u
        BY <1>4, <1>6, <1>11, <2>6
      <4>2. QED
        BY <1>1, <1>7, <2>3, <3>2, <4>1 DEF Holds
    <3>3. QED
      BY <3>1, <3>2
  <2>7. Holds(Entries, {})'
    <3>1. \A i, j \in Entries' : Id(i)' = Id(j)' => i = j
      BY <1>4, <2>2, <2>4
    <3>2. \A i \in Entries' : Id(i)' \in Threads /\ s_CoreMappings'[i].core = mapping'[Id(i)']
      BY <1>1, <1>4, <2>2, <2>3, <2>5
    <3>3. \A u \in Threads : (\A i \in Entries' : Id(i)' # u) => mapping'[u] = -1
      BY <1>4, <2>2, <2>6
    <3>4. QED
      BY <3>1, <3>2, <3>3 DEF Holds
  <2>8. TableType'
    <3>1. s_CoreMappingCount' \in 0 .. Capacity
      BY <1>4, <2>2, CapacityAssumption DEF Index
    <3>2. mapping' \in [Threads -> Core]
      BY <1>1, <2>3 DEF Core
    <3>3. QED
      BY <1>1, <2>2, <2>3, <3>1, <3>2 DEF TableType
  <2>9. QED
    BY <2>3, <2>7, <2>8 DEF TableInv, Removal
<1>12. QED
  BY <1>8, <1>10, <1>11

LEMMA StoreStep ==
  ASSUME TableType, TableInv, StoreNext
  PROVE  /\ TableType' /\ TableInv'
         /\ setting # NoCall /\ UNCHANGED <<finding, m_LogicalCoreIndex>>
         /\ setting' # NoCall =>
              /\ setting'.id = setting.id /\ setting'.core = setting.core
              /\ setting'.removes = setting.removes
         /\ \A t \in Threads : \/ mapping'[t] = mapping[t]
                               \/ t = setting.id /\ mapping'[t] = setting.core
         /\ ~setting.removes => /\ s_CoreMappingCount' >= s_CoreMappingCount
                                /\ \A i \in Entries : Id(i)' = Id(i)
<1>1. /\ setting # NoCall /\ setting \in SetCall /\ setting.id \in Threads
      /\ UNCHANGED <<finding, m_LogicalCoreIndex>>
  BY StoreFrame
<1>2. Adding \/ Changing \/ Removing
  BY <1>1 DEF TableInv
<1>3. /\ TableType' /\ TableInv'
      /\ ~setting.removes => /\ s_CoreMappingCount' >= s_CoreMappingCount
                             /\ \A i \in Entries : Id(i)' = Id(i)
  <2>1. CASE Adding
    BY <2>1, AddingStep
  <2>2. CASE Changing
    <3>1. s_CoreMappingCount \in Int
      BY DEF TableType
    <3>2. QED
      BY <2>2, <3>1, ChangingStep
  <2>3. CASE Removing
    BY <2>3, RemovingStep DEF Removing
  <2>4. QED
    BY <1>2, <2>1, <2>2, <2>3
<1>4. \A t \in Threads : mapping'[t] = mapping[t] \/ (t = setting.id /\ mapping'[t] = setting.core)
  <2>1. CASE Len(setting.stores) = 1
    BY <1>1, <2>1, LastStore DEF TableType
  <2>2. CASE Len(setting.stores) # 1
    BY <2>2 DEF StoreNext
  <2>3. QED
    BY <2>1, <2>2
<1>5. setting' # NoCall => /\ setting'.id = setting.id /\ setting'.core = setting.core
                           /\ setting'.removes = setting.removes
  <2>1. CASE Len(setting.stores) = 1
    BY <2>1, LastStore
  <2>2. CASE Len(setting.stores) # 1
    <3>1. Len(setting.stores) # 0
      <4>1. Len(setting.stores) \in {1, 2, 3}
        BY <1>2, Lists DEF Adding, Changing, Removing, RemovingAt
      <4>2. QED
        BY <4>1
    <3>2. QED
      BY <1>1, <2>2, <3>1, MoreStores
  <2>3. QED
    BY <2>1, <2>2
<1>6. QED
  BY <1>1, <1>3, <1>4, <1>5

tableVars == <<s_CoreMappings, s_CoreMappingCount, setting, finding, m_LogicalCoreIndex, mapping>>

\* What a lookup sees of the table is what the removals leave alone.
LEMMA SetKeepsLookups ==
  ASSUME TableType, TableInv, LookupInv, NEW t \in Threads, NEW c \in Core, SetThreadCoreMapping(t, c)
  PROVE  LookupInv'
<1>1. /\ setting = NoCall /\ setting' # NoCall /\ setting'.id = t /\ setting'.core = c
      /\ setting'.removes = Removes(t, c)
      /\ finding' = Overlapped(t, c)
      /\ UNCHANGED <<s_CoreMappings, s_CoreMappingCount, m_LogicalCoreIndex, mapping>>
  BY SetStep
<1> SUFFICES ASSUME NEW u \in Threads, finding'[u] # NoCall, ~finding'[u].moved
             PROVE  /\ ~Removal'
                    /\ finding'[u].count <= s_CoreMappingCount
                    /\ mapping[u] \in finding'[u].seen
                    /\ t = u => c \in finding'[u].seen
                    /\ finding'[u].hit => Id(finding'[u].i) = u
                    /\ ~finding'[u].hit => \A k \in 0 .. finding'[u].i - 1 : Id(k) # u
                    /\ (\A k \in 0 .. finding'[u].count - 1 : Id(k) # u) => -1 \in finding'[u].seen
  BY <1>1 DEF LookupInv, Id
<1>2. finding[u] # NoCall
  BY <1>1 DEF Overlapped
<1>3. finding[u] \in Lookup
  BY <1>2 DEF TableType
<1> DEFINE s == IF u = t THEN finding[u].seen \cup {c} ELSE finding[u].seen
           m == finding[u].moved \/ Removes(t, c)
<1>4. finding'[u] = [finding[u] EXCEPT !.seen = s, !.moved = m]
  BY <1>1, <1>2 DEF Overlapped
<1> HIDE DEF s, m
<1>5. /\ finding'[u].count = finding[u].count /\ finding'[u].i = finding[u].i
      /\ finding'[u].hit = finding[u].hit
      /\ finding'[u].seen = s /\ finding'[u].moved = m
  BY <1>3, <1>4 DEF Lookup
<1>6. ~finding[u].moved /\ ~Removes(t, c) /\ finding[u].seen \subseteq s /\ (t = u => c \in s)
  BY <1>5 DEF m, s
<1>7. ~Removal'
  BY <1>1, <1>6 DEF Removal
<1>8. QED
  BY <1>2, <1>5, <1>6, <1>7 DEF LookupInv

LEMMA StoreKeepsLookups ==
  ASSUME TableType, TableInv, LookupInv, StoreNext
  PROVE  LookupInv'
<1>1. /\ setting # NoCall /\ UNCHANGED <<finding, m_LogicalCoreIndex>>
      /\ setting' # NoCall => /\ setting'.id = setting.id /\ setting'.core = setting.core
                              /\ setting'.removes = setting.removes
      /\ \A t \in Threads : mapping'[t] = mapping[t] \/ (t = setting.id /\ mapping'[t] = setting.core)
      /\ ~setting.removes => /\ s_CoreMappingCount' >= s_CoreMappingCount
                             /\ \A i \in Entries : Id(i)' = Id(i)
  BY StoreStep
<1> SUFFICES ASSUME NEW u \in Threads, finding[u] # NoCall, ~finding[u].moved
             PROVE  /\ ~Removal'
                    /\ finding[u].count <= s_CoreMappingCount'
                    /\ mapping'[u] \in finding[u].seen
                    /\ setting' # NoCall /\ setting'.id = u => setting'.core \in finding[u].seen
                    /\ finding[u].hit => Id(finding[u].i)' = u
                    /\ ~finding[u].hit => \A k \in 0 .. finding[u].i - 1 : Id(k)' # u
                    /\ (\A k \in 0 .. finding[u].count - 1 : Id(k)' # u) => -1 \in finding[u].seen
  BY <1>1 DEF LookupInv, Id
<1>2. /\ ~Removal
      /\ finding[u].count <= s_CoreMappingCount
      /\ mapping[u] \in finding[u].seen
      /\ setting # NoCall /\ setting.id = u => setting.core \in finding[u].seen
      /\ finding[u].hit => Id(finding[u].i) = u
      /\ ~finding[u].hit => \A k \in 0 .. finding[u].i - 1 : Id(k) # u
      /\ (\A k \in 0 .. finding[u].count - 1 : Id(k) # u) => -1 \in finding[u].seen
  BY DEF LookupInv
<1>3. ~setting.removes /\ ~Removal'
  BY <1>1, <1>2 DEF Removal
<1>4. finding[u] \in Lookup /\ finding[u].i <= finding[u].count
      /\ (finding[u].hit => finding[u].i < finding[u].count)
  BY DEF TableType
<1>5. finding[u].i \in Nat /\ finding[u].count \in Nat
  BY <1>4 DEF Lookup
<1>6. s_CoreMappingCount \in Int /\ s_CoreMappingCount' \in Int
  BY StoreStep DEF TableType
<1>7. 0 .. finding[u].count - 1 \subseteq Entries
  BY <1>2, <1>5, <1>6 DEF Entries
<1>8. finding[u].hit => Id(finding[u].i)' = u
  BY <1>1, <1>2, <1>3, <1>4, <1>5, <1>7
<1>9. ~finding[u].hit => \A k \in 0 .. finding[u].i - 1 : Id(k)' # u
  BY <1>1, <1>2, <1>3, <1>4, <1>5, <1>7
<1>10. (\A k \in 0 .. finding[u].count - 1 : Id(k)' # u) => -1 \in finding[u].seen
  BY <1>1, <1>2, <1>3, <1>7
<1>11. finding[u].count <= s_CoreMappingCount'
  BY <1>1, <1>2, <1>3, <1>5, <1>6
<1>12. QED
  BY <1>1, <1>2, <1>3, <1>8, <1>9, <1>10, <1>11

\* A lookup that starts sees what the table holds now, and what it is to hold.
LEMMA FindCountStep ==
  ASSUME TableType, TableInv, LookupInv, NEW t \in Threads, FindCount(t)
  PROVE  /\ TableType' /\ TableInv' /\ LookupInv'
         /\ finding'[t].seen = {mapping[t]} \cup
              (IF setting # NoCall /\ setting.id = t THEN {setting.core} ELSE {})
         /\ \A u \in Threads \ {t} : finding'[u] = finding[u]
         /\ finding[t] = NoCall
         /\ UNCHANGED <<s_CoreMappings, s_CoreMappingCount, setting, mapping, m_LogicalCoreIndex>>
<1> DEFINE s == {mapping[t]} \cup (IF setting # NoCall /\ setting.id = t THEN {setting.core} ELSE {})
           m == setting # NoCall /\ setting.removes
           f == [count |-> s_CoreMappingCount, i |-> 0, hit |-> FALSE, seen |-> s, moved |-> m]
<1>1. /\ finding' = [finding EXCEPT ![t] = f] /\ finding[t] = NoCall
      /\ UNCHANGED <<s_CoreMappings, s_CoreMappingCount, setting, mapping, m_LogicalCoreIndex>>
  BY DEF FindCount
<1>2. s \subseteq Core /\ s \in SUBSET Int
  <2>1. mapping[t] \in Core /\ (setting # NoCall => setting.core \in Core)
    BY DEF TableType
  <2>2. s \subseteq Core
    BY <2>1
  <2>3. QED
    BY <2>2, CoresAreIntegers
<1>3. m \in BOOLEAN
  OBVIOUS
<1>4. s_CoreMappingCount \in Nat /\ s_CoreMappingCount <= Capacity
  BY CapacityAssumption DEF TableType
<1>5. f \in Lookup
  <2> HIDE DEF s, m
  <2>1. QED
    BY <1>2, <1>3, <1>4 DEF Lookup
<1>6. f # NoCall
  BY <1>5, NoCallAssumption
<1>7. f.count = s_CoreMappingCount /\ f.i = 0 /\ ~f.hit /\ f.seen = s /\ f.moved = m
  OBVIOUS
<1> HIDE DEF f
<1>8. finding'[t] = f /\ \A u \in Threads \ {t} : finding'[u] = finding[u]
  BY <1>1 DEF TableType
<1>9. TableType'
  <2>1. finding' \in [Threads -> Lookup \cup {NoCall}]
    BY <1>1, <1>5 DEF TableType
  <2>2. ASSUME NEW u \in Threads, finding'[u] # NoCall
        PROVE  /\ finding'[u].count <= Capacity
               /\ finding'[u].i <= finding'[u].count
               /\ finding'[u].hit => finding'[u].i < finding'[u].count
               /\ finding'[u].seen \subseteq Core
    <3>1. CASE u = t
      BY <1>2, <1>4, <1>7, <1>8, <3>1
    <3>2. CASE u # t
      BY <1>8, <2>2, <3>2 DEF TableType
    <3>3. QED
      BY <3>1, <3>2
  <2>3. QED
    BY <1>1, <2>1, <2>2 DEF TableType
<1>10. TableInv'
  BY <1>1 DEF TableInv, Removal, Holds, Adding, Changing, Removing, RemovingAt, Entries, Id
<1>11. LookupInv'
  <2> SUFFICES ASSUME NEW u \in Threads, finding'[u] # NoCall, ~finding'[u].moved
               PROVE  /\ ~Removal
                      /\ finding'[u].count <= s_CoreMappingCount
                      /\ mapping[u] \in finding'[u].seen
                      /\ setting # NoCall /\ setting.id = u => setting.core \in finding'[u].seen
                      /\ finding'[u].hit => Id(finding'[u].i) = u
                      /\ ~finding'[u].hit => \A k \in 0 .. finding'[u].i - 1 : Id(k) # u
                      /\ (\A k \in 0 .. finding'[u].count - 1 : Id(k) # u) => -1 \in finding'[u].seen
    BY <1>1 DEF LookupInv, Id, Removal
  <2>1. CASE u = t
    <3>1. ~Removal
      BY <1>7, <1>8, <2>1 DEF Removal
    <3>2. Holds(Entries, {})
      BY <3>1 DEF TableInv
    <3>3. (\A k \in Entries : Id(k) # u) => mapping[u] = -1
      BY <3>2 DEF Holds
    <3>4. mapping[u] \in s /\ (setting # NoCall /\ setting.id = u => setting.core \in s)
      BY <2>1
    <3> HIDE DEF s, m
    <3>5. QED
      BY <1>4, <1>7, <1>8, <2>1, <3>1, <3>3, <3>4 DEF Entries
  <2>2. CASE u # t
    BY <1>8, <2>2 DEF LookupInv
  <2>3. QED
    BY <2>1, <2>2
<1>12. finding'[t].seen = s
  BY <1>7, <1>8
<1>13. QED
  BY <1>1, <1>8, <1>9, <1>10, <1>11, <1>12

LEMMA FindIdStep ==
  ASSUME TableType, TableInv, LookupInv, NEW t \in Threads, FindId(t)
  PROVE  /\ TableType' /\ TableInv' /\ LookupInv'
         /\ finding[t] # NoCall /\ finding'[t] # NoCall /\ finding'[t].seen = finding[t].seen
         /\ \A u \in Threads \ {t} : finding'[u] = finding[u]
         /\ UNCHANGED <<s_CoreMappings, s_CoreMappingCount, setting, mapping, m_LogicalCoreIndex>>
<1> DEFINE f == finding[t]
           h == Id(f.i) = t
           n == IF h THEN f.i ELSE f.i + 1
           g == [f EXCEPT !.hit = h, !.i = n]
<1>1. /\ f # NoCall /\ ~f.hit /\ f.i < f.count
      /\ UNCHANGED <<s_CoreMappings, s_CoreMappingCount, setting, mapping, m_LogicalCoreIndex>>
  BY DEF FindId, InTable
<1>2. f \in Lookup /\ f.count <= Capacity /\ f.seen \subseteq Core
  BY <1>1 DEF TableType
<1>3. f.i \in Nat /\ f.count \in Nat
  BY <1>2 DEF Lookup
<1>4. finding' = [finding EXCEPT ![t] = g]
  BY DEF FindId, Id
<1>5. h \in BOOLEAN /\ n \in Nat /\ n <= f.count /\ (h => n < f.count)
  BY <1>1, <1>3
<1>6. /\ g \in Lookup
      /\ g.count = f.count /\ g.i = n /\ g.hit = h /\ g.seen = f.seen /\ g.moved = f.moved
  <2> HIDE DEF f, h, n
  <2>1. QED
    BY <1>2, <1>5 DEF Lookup
<1> HIDE DEF g
<1>7. finding'[t] = g /\ g # NoCall /\ \A u \in Threads \ {t} : finding'[u] = finding[u]
  BY <1>4, <1>6, NoCallAssumption DEF TableType
<1>8. TableType'
  <2>1. finding' \in [Threads -> Lookup \cup {NoCall}]
    BY <1>4, <1>6 DEF TableType
  <2>2. ASSUME NEW u \in Threads, finding'[u] # NoCall
        PROVE  /\ finding'[u].count <= Capacity
               /\ finding'[u].i <= finding'[u].count
               /\ finding'[u].hit => finding'[u].i < finding'[u].count
               /\ finding'[u].seen \subseteq Core
    <3>1. CASE u = t
      <4> HIDE DEF f, h, n
      <4>1. QED
        BY <1>2, <1>5, <1>6, <1>7, <3>1
    <3>2. CASE u # t
      BY <1>7, <2>2, <3>2 DEF TableType
    <3>3. QED
      BY <3>1, <3>2
  <2>3. QED
    BY <1>1, <2>1, <2>2 DEF TableType
<1>9. TableInv'
  BY <1>1 DEF TableInv, Removal, Holds, Adding, Changing, Removing, RemovingAt, Entries, Id
<1>10. LookupInv'
  <2> SUFFICES ASSUME NEW u \in Threads, finding'[u] # NoCall, ~finding'[u].moved
               PROVE  /\ ~Removal
                      /\ finding'[u].count <= s_CoreMappingCount
                      /\ mapping[u] \in finding'[u].seen
                      /\ setting # NoCall /\ setting.id = u => setting.core \in finding'[u].seen
                      /\ finding'[u].hit => Id(finding'[u].i) = u
                      /\ ~finding'[u].hit => \A k \in 0 .. finding'[u].i - 1 : Id(k) # u
                      /\ (\A k \in 0 .. finding'[u].count - 1 : Id(k) # u) => -1 \in finding'[u].seen
    BY <1>1 DEF LookupInv, Id, Removal
  <2>1. CASE u = t
    <3>1. ~f.moved
      BY <1>6, <1>7, <2>1
    <3>2. /\ ~Removal
          /\ f.count <= s_CoreMappingCount
          /\ mapping[t] \in f.seen
          /\ setting # NoCall /\ setting.id = t => setting.core \in f.seen
          /\ \A k \in 0 .. f.i - 1 : Id(k) # t
          /\ (\A k \in 0 .. f.count - 1 : Id(k) # t) => -1 \in f.seen
      BY <1>1, <3>1 DEF LookupInv
    <3>3. h => Id(n) = t
      OBVIOUS
    <3>4. ~h => \A k \in 0 .. n - 1 : Id(k) # t
      BY <1>3, <3>2
    <3> HIDE DEF f, h, n
    <3>5. QED
      BY <1>6, <1>7, <2>1, <3>2, <3>3, <3>4
  <2>2. CASE u # t
    BY <1>7, <2>2 DEF LookupInv
  <2>3. QED
    BY <2>1, <2>2
<1>11. QED
  BY <1>1, <1>6, <1>7, <1>8, <1>9, <1>10

\* The answer is one that the lookup has seen, unless an entry was removed.
LEMMA FoundCoreSeen ==
  ASSUME TableType, TableInv, LookupInv, NEW t \in Threads, finding[t] # NoCall, ~InTable(t)
  PROVE  /\ FoundCore(t) \in Core
         /\ ~finding[t].moved => FoundCore(t) \in finding[t].seen
<1> DEFINE f == finding[t]
<1>1. f \in Lookup /\ f.count <= Capacity /\ f.i <= f.count /\ (f.hit => f.i < f.count)
  BY DEF TableType
<1>2. f.i \in Nat /\ f.count \in Nat /\ f.hit \in BOOLEAN
  BY <1>1 DEF Lookup
<1>3. CASE f.hit
  <2>1. f.i \in Index /\ FoundCore(t) = s_CoreMappings[f.i].core
    BY <1>1, <1>2, <1>3, CapacityAssumption DEF Index, FoundCore
  <2>2. s_CoreMappings \in [Index -> [id : Threads \cup {NoThread}, core : Core]]
    BY DEF TableType
  <2>3. FoundCore(t) \in Core
    BY <2>1, <2>2
  <2>4. ASSUME ~f.moved
        PROVE  FoundCore(t) \in f.seen
    <3>1. ~Removal /\ f.count <= s_CoreMappingCount /\ mapping[t] \in f.seen /\ Id(f.i) = t
      BY <1>3, <2>4 DEF LookupInv
    <3>2. Holds(Entries, {})
      BY <3>1 DEF TableInv
    <3>3. s_CoreMappingCount \in Int
      BY DEF TableType
    <3>4. f.i \in Entries
      BY <1>1, <1>2, <1>3, <3>1, <3>3 DEF Entries
    <3>5. QED
      BY <2>1, <3>1, <3>2, <3>4 DEF Holds
  <2>5. QED
    BY <2>3, <2>4
<1>4. CASE ~f.hit
  <2>1. FoundCore(t) = -1 /\ f.i = f.count
    BY <1>1, <1>2, <1>4 DEF FoundCore, InTable
  <2>2. ~f.moved => -1 \in f.seen
    BY <1>4, <2>1 DEF LookupInv
  <2>3. QED
    BY <2>1, <2>2 DEF Core
<1>5. QED
  BY <1>3, <1>4

LEMMA FindReturnStep ==
  ASSUME TableType, TableInv, LookupInv, NEW t \in Threads, FindReturn(t)
  PROVE  /\ TableType' /\ TableInv' /\ LookupInv'
         /\ finding[t] # NoCall /\ finding'[t] = NoCall
         /\ m_LogicalCoreIndex'[t] = FoundCore(t)
         /\ ~finding[t].moved => FoundCore(t) \in finding[t].seen
         /\ \A u \in Threads \ {t} : /\ finding'[u] = finding[u]
                                     /\ m_LogicalCoreIndex'[u] = m_LogicalCoreIndex[u]
         /\ UNCHANGED <<s_CoreMappings, s_CoreMappingCount, setting, mapping>>
<1>1. /\ finding[t] # NoCall /\ ~InTable(t)
      /\ m_LogicalCoreIndex' = [m_LogicalCoreIndex EXCEPT ![t] = FoundCore(t)]
      /\ finding' = [finding EXCEPT ![t] = NoCall]
      /\ UNCHANGED <<s_CoreMappings, s_CoreMappingCount, setting, mapping>>
  BY DEF FindReturn
<1>2. FoundCore(t) \in Core /\ (~finding[t].moved => FoundCore(t) \in finding[t].seen)
  BY <1>1, FoundCoreSeen
<1>3. /\ finding'[t] = NoCall /\ m_LogicalCoreIndex'[t] = FoundCore(t)
      /\ \A u \in Threads \ {t} : /\ finding'[u] = finding[u]
                                  /\ m_LogicalCoreIndex'[u] = m_LogicalCoreIndex[u]
      /\ m_LogicalCoreIndex' \in [Threads -> Core]
      /\ finding' \in [Threads -> Lookup \cup {NoCall}]
  BY <1>1, <1>2 DEF TableType
<1>4. TableType'
  BY <1>1, <1>3 DEF TableType
<1>5. TableInv'
  BY <1>1 DEF TableInv, Removal, Holds, Adding, Changing, Removing, RemovingAt, Entries, Id
<1>6. LookupInv'
  BY <1>1, <1>3 DEF LookupInv, Removal, Id
<1>7. QED
  BY <1>1, <1>2, <1>3, <1>4, <1>5, <1>6

TableNext ==
  \/ \E t \in Threads, c \in Core : SetThreadCoreMapping(t, c)
  \/ StoreNext
  \/ \E t \in Threads : FindCount(t) \/ FindId(t) \/ FindReturn(t)
  \/ UNCHANGED tableVars

LEMMA TableStep ==
  ASSUME TableType, TableInv, LookupInv, TableNext
  PROVE  TableType' /\ TableInv' /\ LookupInv'
<1>1. CASE UNCHANGED tableVars
  <2>1. TableType'
    BY <1>1 DEF tableVars, TableType
  <2>2. TableInv'
    BY <1>1 DEF tableVars, TableInv, Removal, Holds, Adding, Changing, Removing, RemovingAt, Entries, Id
  <2>3. LookupInv'
    BY <1>1 DEF tableVars, LookupInv, Removal, Id
  <2>4. QED
    BY <2>1, <2>2, <2>3
<1>2. CASE \E t \in Threads, c \in Core : SetThreadCoreMapping(t, c)
  BY <1>2, SetStep, SetKeepsLookups
<1>3. CASE StoreNext
  BY <1>3, StoreStep, StoreKeepsLookups
<1>4. CASE \E t \in Threads : FindCount(t) \/ FindId(t) \/ FindReturn(t)
  BY <1>4, FindCountStep, FindIdStep, FindReturnStep
<1>5. QED
  BY <1>1, <1>2, <1>3, <1>4 DEF TableNext

LEMMA TableInit ==
  ASSUME Init
  PROVE  TableType /\ TableInv /\ LookupInv
<1> DEFINE mapped == scenario.mapped
<1>1. /\ mapped \in Seq(Threads) /\ Len(mapped) \in Nat /\ Len(mapped) <= Capacity
      /\ \A i, j \in DOMAIN mapped : mapped[i] = mapped[j] => i = j
  BY ScenarioAssumption DEF Init, Scenario
<1>2. MappingInit(mapped, scenario.sets)
  BY DEF Init
<1>3. /\ s_CoreMappings = [i \in Index |-> [id |-> IF i < Len(mapped) THEN mapped[i + 1] ELSE NoThread,
                                            core |-> 0]]
      /\ s_CoreMappingCount = Len(mapped)
      /\ mapping = [t \in Threads |-> IF \E i \in DOMAIN mapped : mapped[i] = t THEN 0 ELSE -1]
      /\ setting = NoCall
      /\ finding = [t \in Threads |-> NoCall]
      /\ m_LogicalCoreIndex = [t \in Threads |-> 0]
  BY <1>2 DEF MappingInit
<1> HIDE DEF mapped
<1>4. 0 \in Core /\ -1 \in Core
  BY CoresAssumption DEF Core
<1>5. \A i \in 0 .. Len(mapped) - 1 : i + 1 \in DOMAIN mapped /\ mapped[i + 1] \in Threads
  BY <1>1
<1>6. s_CoreMappings \in [Index -> [id : Threads \cup {NoThread}, core : Core]]
  <2>1. \A i \in Index : (IF i < Len(mapped) THEN mapped[i + 1] ELSE NoThread) \in Threads \cup {NoThread}
    BY <1>1, <1>5 DEF Index
  <2>2. QED
    BY <1>3, <1>4, <2>1
<1>7. TableType
  BY <1>1, <1>3, <1>4, <1>6, CapacityAssumption DEF TableType
<1>8. \A i \in Entries : Id(i) = mapped[i + 1] /\ s_CoreMappings[i].core = 0 /\ i + 1 \in DOMAIN mapped
  BY <1>1, <1>3, <1>5, CapacityAssumption DEF Entries, Id, Index
<1>9. Holds(Entries, {})
  <2>1. \A i, j \in Entries : Id(i) = Id(j) => i = j
    <3> TAKE i, j \in Entries
    <3> HAVE Id(i) = Id(j)
    <3>1. i \in Int /\ j \in Int /\ i + 1 = j + 1
      BY <1>1, <1>8 DEF Entries
    <3>2. QED
      BY <3>1
  <2>2. \A i \in Entries : Id(i) \in Threads /\ s_CoreMappings[i].core = mapping[Id(i)]
    BY <1>1, <1>3, <1>8
  <2>3. ASSUME NEW t \in Threads, \A i \in Entries : Id(i) # t
        PROVE  mapping[t] = -1
    <3>1. ASSUME NEW i \in DOMAIN mapped, mapped[i] = t
          PROVE  FALSE
      <4>1. i \in 1 .. Len(mapped)
        BY <1>1
      <4>2. i - 1 \in Entries /\ (i - 1) + 1 = i
        BY <1>1, <1>3, <4>1 DEF Entries
      <4>3. QED
        BY <1>8, <2>3, <3>1, <4>2
    <3>2. QED
      BY <1>3, <3>1
  <2>4. QED
    BY <2>1, <2>2, <2>3 DEF Holds
<1>10. QED
  BY <1>3, <1>7, <1>9 DEF TableInv, LookupInv, Removal

LEMMA TrapTable ==
  ASSUME NEW t \in Threads, Trap(t)
  PROVE  TableNext
BY DEF Trap, TrapUnhandled, TrapNotTracing, TrapLookup, TrapFind, TrapFound, TrapAgain,
       TableNext, tableVars, mappingVars

LEMMA StartTable ==
  ASSUME Start \/ StartCapture \/ EndCapture \/ CacheSimRemoveHandler
  PROVE  UNCHANGED tableVars
<1>1. CASE Start \/ EndCapture \/ CacheSimRemoveHandler
  BY <1>1 DEF Start, EndCapture, CacheSimRemoveHandler, mappingVars, tableVars
<1>2. CASE IncrementGeneration \/ EnableTrace \/ InstallHandler \/ SetPtracer
  BY <1>2 DEF IncrementGeneration, EnableTrace, InstallHandler, SetPtracer, mappingVars, tableVars
<1>3. CASE WaitForHooks \/ WaitForExit
  BY <1>3 DEF WaitForHooks, WaitForExit, Wait, mappingVars, tableVars
<1>4. CASE StartWindows
  BY <1>4 DEF StartWindows, OpenThread, LoopEnds, SuspendThread, SetThreadContext, ResumeThread,
              ArmSelf, mappingVars, tableVars
<1>5. QED
  BY <1>1, <1>2, <1>3, <1>4 DEF StartCapture

LEMMA HelperTable ==
  ASSUME Helper
  PROVE  UNCHANGED tableVars
BY DEF Helper, Attach, Stopped, AttachedAll, ArmTraced, ArmFails, ArmedAll, Detach,
       ContinueProcess, HelperVars, mappingVars, tableVars

LEMMA NextTable ==
  ASSUME [Next]_vars
  PROVE  TableNext
<1>1. CASE Start \/ StartCapture \/ EndCapture \/ CacheSimRemoveHandler
  BY <1>1, StartTable DEF TableNext
<1>2. CASE Helper
  BY <1>2, HelperTable DEF TableNext
<1>3. CASE \E t \in Threads : Trap(t)
  BY <1>3, TrapTable
<1>4. CASE \E t \in Threads, c \in Cores \cup {-1} : SetMapping(t, c)
  BY <1>4 DEF SetMapping, TableFull, TableNext, tableVars, Core
<1>5. CASE Store
  BY <1>5 DEF Store, TableNext
<1>6. CASE (\E t \in Threads : ExitThread(t)) \/ OtherExits
  BY <1>6 DEF ExitThread, OtherExits, mappingVars, tableVars, TableNext
<1>7. CASE UNCHANGED vars
  BY <1>7 DEF vars, mappingVars, tableVars, TableNext
<1>8. QED
  BY <1>1, <1>2, <1>3, <1>4, <1>5, <1>6, <1>7 DEF Next

\* The table and the lookups in it are right, whatever the start does meanwhile.
THEOREM TableInvariant == Spec => [](TableType /\ TableInv /\ LookupInv)
<1>1. Init => TableType /\ TableInv /\ LookupInv
  BY TableInit
<1>2. TableType /\ TableInv /\ LookupInv /\ [Next]_vars => (TableType /\ TableInv /\ LookupInv)'
  BY NextTable, TableStep
<1>3. QED
  BY <1>1, <1>2, PTL DEF Spec

\* What a thread finds in the table without the lock is a core that it was
\* mapped to during its lookup, unless an entry was removed (FindLogicalCoreIndex).
THEOREM LookupIsCurrentThere == Spec => LookupIsCurrent
<1> DEFINE Answer == \A t \in Threads :
             (finding[t] # NoCall /\ finding'[t] = NoCall /\ ~finding[t].moved)
               => m_LogicalCoreIndex'[t] \in finding[t].seen
<1>1. ASSUME TableType /\ TableInv /\ LookupInv, [Next]_vars
      PROVE  [Answer]_mappingVars
  <2> SUFFICES ASSUME NEW t \in Threads, finding[t] # NoCall, finding'[t] = NoCall, ~finding[t].moved
               PROVE  m_LogicalCoreIndex'[t] \in finding[t].seen
    OBVIOUS
  <2>1. TableNext
    BY <1>1, NextTable
  <2>2. CASE UNCHANGED tableVars
    BY <2>2 DEF tableVars
  <2>3. CASE \E u \in Threads, c \in Core : SetThreadCoreMapping(u, c)
    BY <1>1, <2>3, SetStep
  <2>4. CASE StoreNext
    BY <1>1, <2>4, StoreStep
  <2>5. CASE \E u \in Threads : FindCount(u) \/ FindId(u) \/ FindReturn(u)
    <3>1. PICK u \in Threads : FindCount(u) \/ FindId(u) \/ FindReturn(u)
      BY <2>5
    <3>2. CASE FindCount(u)
      BY <1>1, <3>2, FindCountStep
    <3>3. CASE FindId(u)
      BY <1>1, <3>3, FindIdStep
    <3>4. CASE FindReturn(u)
      BY <1>1, <3>4, FindReturnStep
    <3>5. QED
      BY <3>1, <3>2, <3>3, <3>4
  <2>6. QED
    BY <2>1, <2>2, <2>3, <2>4, <2>5 DEF TableNext
<1>2. QED
  BY <1>1, TableInvariant, PTL DEF Spec, LookupIsCurrent
-----------------------------------------------------------------------------
(* The steps of the start and of its helper, field by field. *)

LEMMA Moves ==
  ASSUME ArmingType, NEW from, NEW to \in LinuxPc \cup WindowsPc, Goes(from, to)
  PROVE  /\ start' \in StartRecord /\ start.pc = from /\ start'.pc = to /\ start'.i = 0
         /\ start'.count = start.count /\ start'.handles = start.handles
         /\ Runs(Caller) /\ finding[Caller] = NoCall
<1>1. /\ start' = [start EXCEPT !.pc = to, !.i = 0] /\ start.pc = from
      /\ Runs(Caller) /\ finding[Caller] = NoCall
  BY DEF Goes
<1>2. QED
  BY <1>1 DEF ArmingType, StartRecord

LEMMA LoopMoves ==
  ASSUME ArmingType, start' = [start EXCEPT !.i = @ + 1]
  PROVE  /\ start' \in StartRecord /\ start'.pc = start.pc /\ start'.i = start.i + 1
         /\ start'.count = start.count /\ start'.handles = start.handles
<1> DEFINE n == start.i + 1
<1>1. start \in StartRecord
  BY DEF ArmingType
<1>2. n \in Nat /\ start' = [start EXCEPT !.i = n]
  BY <1>1 DEF StartRecord
<1> HIDE DEF n
<1>3. /\ start' \in StartRecord /\ start'.pc = start.pc /\ start'.i = n
      /\ start'.count = start.count /\ start'.handles = start.handles
  BY <1>1, <1>2 DEF StartRecord
<1>4. QED
  BY <1>3 DEF n

LEMMA NoHelperType == NoHelper \in HelperRecord
  BY EmptySeq DEF NoHelper, HelperRecord, HelperPc

\* While an entry is added, changed or removed, those of the table are of threads.
LEMMA EntryThreads ==
  ASSUME TableType, TableInv, NEW i \in Entries
  PROVE  Id(i) \in Threads
<1>1. CASE ~Removal
  BY <1>1 DEF TableInv, Holds
<1>2. CASE Removal
  <2>1. PICK k \in Entries :
          Id(k) \in Threads /\ Holds(Entries \ {k}, {setting.id}) /\ RemovingAt(k)
    BY <1>2 DEF TableInv, Removal, Adding, Changing, Removing
  <2>2. QED
    BY <2>1 DEF Holds
<1>3. QED
  BY <1>1, <1>2

LEMMA ForkedFields ==
  ASSUME TableType, TableInv
  PROVE  /\ Forked \in HelperRecord
         /\ Forked.pc = "attach" /\ Forked.i = 0 /\ Forked.tids = << >> /\ ~Forked.permitted
         /\ Len(Forked.ids) = s_CoreMappingCount
         /\ \A j \in 1 .. s_CoreMappingCount : j - 1 \in Entries /\ Forked.ids[j] = Id(j - 1)
<1> DEFINE n == s_CoreMappingCount
           ids == [j \in 1 .. n |-> Id(j - 1)]
<1>1. n \in Nat /\ \A j \in 1 .. n : j - 1 \in Entries
  BY CapacityAssumption DEF TableType, Entries
<1>2. \A j \in 1 .. n : Id(j - 1) \in Threads
  BY <1>1, EntryThreads
<1>3. ids \in Seq(Threads) /\ Len(ids) = n
  BY <1>1, <1>2
<1>4. \A j \in 1 .. n : ids[j] = Id(j - 1)
  OBVIOUS
<1>5. Forked = [NoHelper EXCEPT !.pc = "attach", !.ids = ids]
  BY DEF Forked, Id
<1> HIDE DEF ids
<1>6. Forked \in HelperRecord /\ Forked.pc = "attach" /\ Forked.i = 0 /\ Forked.tids = << >>
      /\ Forked.permitted = FALSE /\ Forked.ids = ids
  BY <1>3, <1>5, EmptySeq DEF NoHelper, HelperRecord, HelperPc
<1>7. QED
  BY <1>1, <1>3, <1>4, <1>6

LEMMA AttachFields ==
  ASSUME ArmingType, Attach
  PROVE  /\ helper' \in HelperRecord /\ helper.pc = "attach" /\ helper.i < Len(helper.ids)
         /\ Next_id \in Threads \ exited
         /\ helper'.ids = helper.ids /\ helper'.permitted = helper.permitted
         /\ \/ /\ MayAttach /\ held[Next_id] = 0 /\ UNCHANGED excused
               /\ helper'.pc = "stopping" /\ helper'.i = helper.i
               /\ helper'.tids = Append(helper.tids, Next_id)
            \/ /\ MayAttach => held[Next_id] # 0
               /\ helper'.pc = "attach" /\ helper'.i = helper.i + 1 /\ helper'.tids = helper.tids
               /\ excused' = IF MayAttach THEN excused ELSE excused \cup {<<Next_id, "refused">>}
<1>1. helper \in HelperRecord /\ helper.pc = "attach" /\ helper.i < Len(helper.ids) /\ Next_id \notin exited
  BY DEF ArmingType, Attach
<1>2. Next_id \in Threads
  BY <1>1 DEF Next_id, HelperRecord
<1>3. CASE MayAttach /\ held[Next_id] = 0
  <2>1. helper' = [helper EXCEPT !.pc = "stopping", !.tids = Append(helper.tids, Next_id)]
        /\ UNCHANGED excused
    BY <1>3 DEF Attach
  <2>2. PICK t \in Threads : t = Next_id
    BY <1>2
  <2>3. Append(helper.tids, t) \in Seq(Threads)
    BY <1>1 DEF HelperRecord
  <2>4. QED
    BY <1>1, <1>2, <1>3, <2>1, <2>2, <2>3 DEF HelperRecord, HelperPc
<1>4. CASE ~(MayAttach /\ held[Next_id] = 0)
  <2>1. helper' = [helper EXCEPT !.i = @ + 1]
        /\ excused' = IF MayAttach THEN excused ELSE excused \cup {<<Next_id, "refused">>}
    BY <1>4 DEF Attach
  <2>2. /\ helper' \in HelperRecord /\ helper'.pc = "attach" /\ helper'.i = helper.i + 1
        /\ helper'.tids = helper.tids /\ helper'.ids = helper.ids
        /\ helper'.permitted = helper.permitted
    BY <1>1, <2>1 DEF HelperRecord
  <2>3. QED
    BY <1>1, <1>2, <1>4, <2>1, <2>2
<1>5. QED
  BY <1>3, <1>4

\* The steps of the helper that leave its lists alone.
LEMMA HelperFields ==
  ASSUME ArmingType,
         Stopped \/ AttachedAll \/ ArmTraced \/ ArmFails \/ ArmedAll \/ Detach \/ ContinueProcess
  PROVE  /\ helper' \in HelperRecord
         /\ helper'.ids = helper.ids /\ helper'.tids = helper.tids /\ helper'.permitted = helper.permitted
         /\ Stopped => helper'.pc = "attach" /\ helper'.i = helper.i + 1
         /\ AttachedAll => helper'.pc = "arm" /\ helper'.i = 0
         /\ ArmTraced \/ Detach => helper'.pc = helper.pc /\ helper'.i = helper.i + 1
         /\ ArmedAll => helper'.pc = "detach" /\ helper'.i = 0
         /\ ArmFails \/ ContinueProcess => helper'.pc = "zombie"
<1> DEFINE n == helper.i + 1
<1>0. helper \in HelperRecord /\ n \in Nat
  BY DEF ArmingType, HelperRecord
<1>1. CASE Stopped
  <2>1. ~AttachedAll /\ ~ArmTraced /\ ~ArmFails /\ ~ArmedAll /\ ~Detach /\ ~ContinueProcess
    BY <1>1 DEF Stopped, AttachedAll, ArmTraced, ArmFails, ArmedAll, Detach, ContinueProcess
  <2>2. helper' = [helper EXCEPT !.pc = "attach", !.i = n]
    BY <1>1 DEF Stopped
  <2> HIDE DEF n
  <2>3. /\ helper' \in HelperRecord /\ helper'.pc = "attach" /\ helper'.i = n
        /\ helper'.ids = helper.ids /\ helper'.tids = helper.tids
        /\ helper'.permitted = helper.permitted
    BY <1>0, <2>2 DEF HelperRecord, HelperPc
  <2>4. QED
    BY <2>1, <2>3 DEF n
<1>2. CASE AttachedAll
  <2>1. ~Stopped /\ ~ArmTraced /\ ~ArmFails /\ ~ArmedAll /\ ~Detach /\ ~ContinueProcess
    BY <1>2 DEF Stopped, AttachedAll, ArmTraced, ArmFails, ArmedAll, Detach, ContinueProcess
  <2>2. helper' = [helper EXCEPT !.pc = "arm", !.i = 0]
    BY <1>2 DEF AttachedAll
  <2>3. QED
    BY <1>0, <2>1, <2>2 DEF HelperRecord, HelperPc
<1>3. CASE ArmTraced \/ Detach
  <2>1. ~Stopped /\ ~AttachedAll /\ ~ArmFails /\ ~ArmedAll /\ ~ContinueProcess
    BY <1>3 DEF Stopped, AttachedAll, ArmTraced, ArmFails, ArmedAll, Detach, ContinueProcess
  <2>2. helper' = [helper EXCEPT !.i = n]
    BY <1>3 DEF ArmTraced, Detach
  <2> HIDE DEF n
  <2>3. /\ helper' \in HelperRecord /\ helper'.pc = helper.pc /\ helper'.i = n
        /\ helper'.ids = helper.ids /\ helper'.tids = helper.tids
        /\ helper'.permitted = helper.permitted
    BY <1>0, <2>2 DEF HelperRecord
  <2>4. QED
    BY <2>1, <2>3 DEF n
<1>4. CASE ArmedAll
  <2>1. ~Stopped /\ ~AttachedAll /\ ~ArmFails /\ ~ArmTraced /\ ~Detach /\ ~ContinueProcess
    BY <1>4 DEF Stopped, AttachedAll, ArmTraced, ArmFails, ArmedAll, Detach, ContinueProcess
  <2>2. helper' = [helper EXCEPT !.pc = "detach", !.i = 0]
    BY <1>4 DEF ArmedAll
  <2>3. QED
    BY <1>0, <2>1, <2>2 DEF HelperRecord, HelperPc
<1>5. CASE ArmFails \/ ContinueProcess
  <2>1. ~Stopped /\ ~AttachedAll /\ ~ArmTraced /\ ~ArmedAll /\ ~Detach
    BY <1>5 DEF Stopped, AttachedAll, ArmTraced, ArmFails, ArmedAll, Detach, ContinueProcess
  <2>2. helper' = [helper EXCEPT !.pc = "zombie"]
    BY <1>5 DEF ArmFails, ContinueProcess
  <2>3. QED
    BY <1>0, <2>1, <2>2 DEF HelperRecord, HelperPc
<1>6. QED
  BY <1>1, <1>2, <1>3, <1>4, <1>5

LEMMA OpenFields ==
  ASSUME ArmingType, OpenThread
  PROVE  LET t == s_CoreMappings[start.i].id
         IN  /\ start' \in StartRecord /\ start.pc = "open" /\ start'.pc = "open"
             /\ start.i < start.count /\ start'.i = start.i + 1 /\ start'.count = start.count
             /\ start'.handles = IF t # Caller /\ Opens(t) THEN Append(start.handles, t)
                                                          ELSE start.handles
<1> DEFINE t == s_CoreMappings[start.i].id
           handles == IF t # Caller /\ Opens(t) THEN Append(start.handles, t) ELSE start.handles
<1>1. start \in StartRecord /\ start.pc = "open" /\ start.i < start.count
  BY DEF ArmingType, OpenThread, InLoop
<1> DEFINE n == start.i + 1
<1>2. start' = [start EXCEPT !.i = n, !.handles = handles] /\ n \in Nat
  BY <1>1 DEF OpenThread, StartRecord
<1>3. handles \in Seq(Threads \ {Caller})
  <2>1. CASE t # Caller /\ Opens(t)
    <3>1. PICK u \in Threads \ {Caller} : u = t
      BY <2>1 DEF Opens
    <3>2. Append(start.handles, u) \in Seq(Threads \ {Caller})
      BY <1>1 DEF StartRecord
    <3>3. QED
      BY <2>1, <3>1, <3>2
  <2>2. CASE ~(t # Caller /\ Opens(t))
    BY <1>1, <2>2 DEF StartRecord
  <2>3. QED
    BY <2>1, <2>2
<1> HIDE DEF handles, n
<1>4. start' \in StartRecord /\ start'.pc = "open" /\ start'.i = n
      /\ start'.count = start.count /\ start'.handles = handles
  BY <1>1, <1>2, <1>3 DEF StartRecord
<1>5. QED
  BY <1>1, <1>4 DEF handles, n
-----------------------------------------------------------------------------
(* The type invariant. *)

LEMMA ArmingInit ==
  ASSUME Init
  PROVE  ArmingType /\ PhaseInv
<1>1. Idle \in StartRecord /\ Idle.pc = "none"
  BY EmptySeq, CapacityAssumption DEF Idle, StartRecord, LinuxPc
<1>2. scenario.others \in Nat
  BY ScenarioAssumption DEF Init, Scenario
<1>3. others \in [alive : Nat, zombie : Nat]
  BY <1>2 DEF Init
<1>4. ArmingType
  <2>1. broke = FALSE /\ start = Idle /\ helper = NoHelper
    BY DEF Init, MappingInit
  <2>2. /\ trapFlag \in [Threads -> BOOLEAN] /\ m_Generation \in [Threads -> Nat]
        /\ held \in [Threads -> Int]
    BY DEF Init
  <2>3. /\ scenario \in Scenarios /\ g_Generation \in Nat /\ g_TraceEnabled \in BOOLEAN
        /\ g_SignalHandlerInstalled \in BOOLEAN /\ exited = {} /\ wanted = {} /\ excused = {}
    BY DEF Init
  <2>4. QED
    BY <1>1, <1>3, <2>1, <2>2, <2>3, NoHelperType DEF ArmingType
<1>5. PhaseInv
  BY <1>1 DEF Init, PhaseInv, Enabled, Handled, LinuxPc, WindowsPc
<1>6. QED
  BY <1>4, <1>5

LEMMA StartType ==
  ASSUME ArmingType, TableType, TableInv, Start
  PROVE  /\ ArmingType'
         /\ start.pc = "none" /\ ~g_TraceEnabled /\ Runs(Caller)
         /\ start'.i = 0 /\ start'.handles = << >>
         /\ Linux => start'.pc = "generation"
         /\ ~Linux => start'.pc = "open" /\ start'.count = s_CoreMappingCount
         /\ \A t \in Threads : ~trapFlag[t]
         /\ UNCHANGED <<scenario, others, exited, m_Generation, g_Generation, g_TraceEnabled,
                        g_SignalHandlerInstalled, trapFlag, held, broke>>
         /\ UNCHANGED tableVars
         /\ helper' = IF Linux THEN Forked ELSE helper
<1>1. /\ start.pc = "none" /\ ~g_TraceEnabled /\ Runs(Caller)
      /\ \A t \in Threads : ~trapFlag[t]
      /\ start' = IF Linux THEN [Idle EXCEPT !.pc = "generation"]
                  ELSE [Idle EXCEPT !.pc = "open", !.count = s_CoreMappingCount]
      /\ helper' = IF Linux THEN Forked ELSE helper
      /\ UNCHANGED <<scenario, others, exited, m_Generation, g_Generation, g_TraceEnabled,
                     g_SignalHandlerInstalled, trapFlag, held, broke>>
      /\ UNCHANGED tableVars
  BY DEF Start, CallerVars, mappingVars, tableVars
<1>2. /\ start' \in StartRecord /\ start'.i = 0 /\ start'.handles = << >>
      /\ Linux => start'.pc = "generation"
      /\ ~Linux => start'.pc = "open" /\ start'.count = s_CoreMappingCount
  <2>1. s_CoreMappingCount \in 0 .. Capacity /\ 0 \in 0 .. Capacity
    BY CapacityAssumption DEF TableType
  <2>2. QED
    BY <1>1, <2>1, EmptySeq DEF Idle, StartRecord, LinuxPc, WindowsPc
<1>3. helper' \in HelperRecord
  BY <1>1, ForkedFields DEF ArmingType
<1>4. wanted' \subseteq Threads /\ excused' \subseteq Threads \X Why
  BY DEF Start, Why
<1>5. ArmingType'
  BY <1>1, <1>2, <1>3, <1>4 DEF ArmingType
<1>6. QED
  BY <1>1, <1>2, <1>5

LEMMA SharedType ==
  ASSUME ArmingType, IncrementGeneration \/ EnableTrace \/ InstallHandler \/ SetPtracer
  PROVE  /\ ArmingType'
         /\ Runs(Caller)
         /\ start'.i = 0 /\ start'.handles = start.handles /\ start'.count = start.count
         /\ helper'.pc = helper.pc /\ helper'.i = helper.i
         /\ helper'.ids = helper.ids /\ helper'.tids = helper.tids
         /\ UNCHANGED <<scenario, others, exited, m_Generation, trapFlag, held, broke, wanted, excused>>
         /\ UNCHANGED tableVars
<1>1. Runs(Caller) /\ start' \in StartRecord
      /\ start'.i = 0 /\ start'.handles = start.handles /\ start'.count = start.count
  BY Moves DEF IncrementGeneration, EnableTrace, InstallHandler, SetPtracer, LinuxPc, WindowsPc
<1>2. /\ UNCHANGED <<scenario, others, exited, m_Generation, trapFlag, held, broke, wanted, excused>>
      /\ UNCHANGED tableVars
  BY DEF IncrementGeneration, EnableTrace, InstallHandler, SetPtracer, CallerVars, mappingVars, tableVars
<1>3. /\ helper' \in HelperRecord /\ helper'.pc = helper.pc /\ helper'.i = helper.i
      /\ helper'.ids = helper.ids /\ helper'.tids = helper.tids
  <2>1. helper \in HelperRecord
    BY DEF ArmingType
  <2>2. CASE UNCHANGED helper
    BY <2>1, <2>2
  <2>3. CASE SetPtracer
    <3>1. helper' = [helper EXCEPT !.permitted = (helper.pc # "none")]
      BY <2>3 DEF SetPtracer
    <3>2. QED
      BY <2>1, <3>1 DEF HelperRecord
  <2>4. QED
    BY <2>2, <2>3 DEF IncrementGeneration, EnableTrace, InstallHandler
<1>4. g_Generation' \in Nat /\ g_TraceEnabled' \in BOOLEAN /\ g_SignalHandlerInstalled' \in BOOLEAN
  <2>1. /\ g_Generation \in Nat /\ g_Generation + 1 \in Nat
        /\ g_TraceEnabled \in BOOLEAN /\ g_SignalHandlerInstalled \in BOOLEAN
    BY DEF ArmingType
  <2>2. /\ g_Generation' \in {g_Generation, g_Generation + 1}
        /\ g_TraceEnabled' \in {g_TraceEnabled, TRUE}
        /\ g_SignalHandlerInstalled' \in {g_SignalHandlerInstalled, TRUE}
    BY Zenon DEF IncrementGeneration, EnableTrace, InstallHandler, SetPtracer
  <2>3. QED
    BY <2>1, <2>2
<1>5. ArmingType'
  BY <1>1, <1>2, <1>3, <1>4 DEF ArmingType
<1>6. QED
  BY <1>1, <1>2, <1>3, <1>5

\* wait(): whom it reaps.
LEMMA WaitType ==
  ASSUME ArmingType, WaitForHooks \/ WaitForExit
  PROVE  /\ ArmingType'
         /\ Runs(Caller)
         /\ UNCHANGED <<scenario, exited, m_Generation, g_Generation, g_TraceEnabled,
                        g_SignalHandlerInstalled, trapFlag, held, broke>>
         /\ UNCHANGED tableVars
         /\ start'.i = 0 /\ start'.handles = start.handles
         /\ \/ WaitForHooks /\ start.pc = "wait1" /\ start'.pc = "wait2" /\ UNCHANGED <<wanted, excused>>
            \/ WaitForExit /\ start.pc = "wait2" /\ start'.pc = "none" /\ wanted' = {} /\ excused' = {}
         /\ \/ Childless /\ UNCHANGED <<others, helper>>
            \/ /\ others.zombie > 0 /\ UNCHANGED helper
               /\ others'.alive = others.alive /\ others'.zombie = others.zombie - 1
            \/ helper.pc = "zombie" /\ helper' = NoHelper /\ UNCHANGED others
<1>1. PICK from \in {"wait1", "wait2"}, to \in {"wait2", "none"} : Wait(from, to)
  BY DEF WaitForHooks, WaitForExit
<1>2. /\ UNCHANGED <<scenario, exited, m_Generation, g_Generation, g_TraceEnabled,
                     g_SignalHandlerInstalled, trapFlag, held, broke>>
      /\ UNCHANGED tableVars
  BY <1>1 DEF Wait, mappingVars, tableVars
<1>3. \/ /\ WaitForHooks /\ start.pc = "wait1" /\ start'.pc = "wait2" /\ UNCHANGED <<wanted, excused>>
         /\ start' \in StartRecord /\ Runs(Caller) /\ start'.i = 0 /\ start'.handles = start.handles
      \/ /\ WaitForExit /\ start.pc = "wait2" /\ start'.pc = "none" /\ wanted' = {} /\ excused' = {}
         /\ start' \in StartRecord /\ Runs(Caller) /\ start'.i = 0 /\ start'.handles = start.handles
  BY Moves DEF WaitForHooks, WaitForExit, Wait, Returned, LinuxPc
<1>4. /\ others' \in [alive : Nat, zombie : Nat] /\ helper' \in HelperRecord
      /\ \/ Childless /\ UNCHANGED <<others, helper>>
         \/ /\ others.zombie > 0 /\ UNCHANGED helper
            /\ others'.alive = others.alive /\ others'.zombie = others.zombie - 1
         \/ helper.pc = "zombie" /\ helper' = NoHelper /\ UNCHANGED others
  <2>1. others \in [alive : Nat, zombie : Nat] /\ helper \in HelperRecord
    BY DEF ArmingType
  <2>2. CASE Childless /\ UNCHANGED <<others, helper>>
    BY <2>1, <2>2
  <2>3. CASE others.zombie > 0 /\ others' = [others EXCEPT !.zombie = @ - 1] /\ UNCHANGED helper
    <3> DEFINE n == others.zombie - 1
    <3>1. n \in Nat /\ others' = [others EXCEPT !.zombie = n]
      BY <2>1, <2>3
    <3> HIDE DEF n
    <3>2. others' \in [alive : Nat, zombie : Nat] /\ others'.alive = others.alive /\ others'.zombie = n
      BY <2>1, <3>1
    <3>3. QED
      BY <2>1, <2>3, <3>2 DEF n
  <2>4. CASE helper.pc = "zombie" /\ helper' = NoHelper /\ UNCHANGED others
    BY <2>1, <2>4, NoHelperType
  <2>5. QED
    BY <1>1, <2>2, <2>3, <2>4 DEF Wait
<1>5. ArmingType'
  BY <1>2, <1>3, <1>4 DEF ArmingType
<1>6. QED
  BY <1>2, <1>3, <1>4, <1>5

LEMMA CaptureEndType ==
  ASSUME ArmingType, EndCapture \/ CacheSimRemoveHandler
  PROVE  /\ ArmingType' /\ start.pc = "none"
         /\ UNCHANGED <<scenario, others, exited, m_Generation, g_Generation, start, helper, held, broke,
                        wanted, excused>>
         /\ UNCHANGED tableVars
         /\ \A t \in Threads : trapFlag'[t] = (trapFlag[t] /\ (t = Caller => ~EndCapture))
         /\ ~UNCHANGED g_SignalHandlerInstalled => \A t \in Threads : ~trapFlag'[t]
         /\ EndCapture => finding[Caller] = NoCall
<1>1. /\ start.pc = "none"
      /\ UNCHANGED <<scenario, others, exited, m_Generation, g_Generation, start, helper, held, broke,
                     wanted, excused>>
      /\ UNCHANGED tableVars
  BY DEF EndCapture, CacheSimRemoveHandler, CallerVars, mappingVars, tableVars
<1>2. CASE EndCapture
  <2>1. /\ trapFlag' = [trapFlag EXCEPT ![Caller] = FALSE] /\ UNCHANGED g_SignalHandlerInstalled
        /\ g_TraceEnabled' = FALSE /\ finding[Caller] = NoCall
    BY <1>2 DEF EndCapture
  <2>2. trapFlag' \in [Threads -> BOOLEAN] /\ \A t \in Threads : trapFlag'[t] = (trapFlag[t] /\ t # Caller)
    BY <2>1, CallerAssumption DEF ArmingType
  <2>3. ArmingType'
    BY <1>1, <2>1, <2>2 DEF ArmingType
  <2>4. QED
    BY <1>1, <1>2, <2>1, <2>2, <2>3
<1>3. CASE CacheSimRemoveHandler /\ ~EndCapture
  <2>1. /\ UNCHANGED <<trapFlag, g_TraceEnabled>> /\ g_SignalHandlerInstalled' = FALSE
        /\ \A t \in Threads : ~trapFlag[t]
    BY <1>3 DEF CacheSimRemoveHandler
  <2>2. ArmingType'
    BY <1>1, <2>1 DEF ArmingType
  <2>3. \A t \in Threads : trapFlag[t] \in BOOLEAN
    BY DEF ArmingType
  <2>4. QED
    BY <1>1, <1>3, <2>1, <2>2, <2>3
<1>4. QED
  BY <1>2, <1>3

WindowsLoop ==
  \/ LoopEnds("open", start.count, "suspend")
  \/ LoopEnds("suspend", Len(start.handles), "generation")
  \/ LoopEnds("arm", Len(start.handles), "resume")
  \/ LoopEnds("resume", Len(start.handles), "self")

WindowsFrame == <<scenario, others, exited, m_Generation, helper, g_Generation, g_TraceEnabled,
                  g_SignalHandlerInstalled>>

LEMMA LoopEndsType ==
  ASSUME ArmingType, WindowsLoop
  PROVE  /\ ArmingType' /\ Runs(Caller)
         /\ UNCHANGED WindowsFrame
         /\ UNCHANGED <<wanted, excused, trapFlag, held, broke>> /\ UNCHANGED tableVars
         /\ start'.i = 0 /\ start'.handles = start.handles
         /\ \/ start.pc = "open" /\ start.i = start.count /\ start'.pc = "suspend"
            \/ start.pc = "suspend" /\ start.i = Len(start.handles) /\ start'.pc = "generation"
            \/ start.pc = "arm" /\ start.i = Len(start.handles) /\ start'.pc = "resume"
            \/ start.pc = "resume" /\ start.i = Len(start.handles) /\ start'.pc = "self"
<1>1. /\ UNCHANGED WindowsFrame
      /\ UNCHANGED <<wanted, excused, trapFlag, held, broke>> /\ UNCHANGED tableVars
  BY DEF WindowsLoop, LoopEnds, WindowsVars, WindowsFrame, CallerVars, mappingVars, tableVars
<1>2. ASSUME NEW from, NEW n, NEW to \in WindowsPc, LoopEnds(from, n, to)
      PROVE  /\ start' \in StartRecord /\ start.pc = from /\ start'.pc = to /\ start.i = n
             /\ start'.i = 0 /\ start'.handles = start.handles /\ Runs(Caller)
  BY <1>2, Moves DEF LoopEnds
<1>3. /\ start' \in StartRecord /\ start'.i = 0 /\ start'.handles = start.handles /\ Runs(Caller)
      /\ \/ start.pc = "open" /\ start.i = start.count /\ start'.pc = "suspend"
         \/ start.pc = "suspend" /\ start.i = Len(start.handles) /\ start'.pc = "generation"
         \/ start.pc = "arm" /\ start.i = Len(start.handles) /\ start'.pc = "resume"
         \/ start.pc = "resume" /\ start.i = Len(start.handles) /\ start'.pc = "self"
  BY <1>2 DEF WindowsLoop, WindowsPc
<1>4. ArmingType'
  BY <1>1, <1>3 DEF ArmingType, WindowsFrame
<1>5. QED
  BY <1>1, <1>3, <1>4

\* One turn of a loop that goes over the handles.
LEMMA HandleType ==
  ASSUME ArmingType, SuspendThread \/ SetThreadContext \/ ResumeThread
  PROVE  /\ ArmingType' /\ Runs(Caller)
         /\ UNCHANGED WindowsFrame
         /\ UNCHANGED <<wanted, excused>> /\ UNCHANGED tableVars
         /\ start.i < Len(start.handles) /\ start.i + 1 \in DOMAIN start.handles
         /\ Handle \in Threads \ {Caller}
         /\ start'.pc = start.pc /\ start'.i = start.i + 1 /\ start'.handles = start.handles
         /\ SuspendThread => /\ start.pc = "suspend" /\ UNCHANGED trapFlag
                             /\ broke' = (Handle \in exited)
                             /\ Handle \notin exited => held' = [held EXCEPT ![Handle] = @ + 1]
         /\ SetThreadContext => /\ start.pc = "arm" /\ UNCHANGED <<held, broke>>
                                /\ trapFlag' = [trapFlag EXCEPT ![Handle] = TRUE]
         /\ ResumeThread => /\ start.pc = "resume" /\ UNCHANGED <<trapFlag, broke>>
                            /\ held' = [held EXCEPT ![Handle] = @ - 1]
<1>1. /\ UNCHANGED WindowsFrame
      /\ UNCHANGED <<wanted, excused>> /\ UNCHANGED tableVars
      /\ Runs(Caller) /\ start.i < Len(start.handles)
      /\ start' = [start EXCEPT !.i = @ + 1]
  BY DEF SuspendThread, SetThreadContext, ResumeThread, InLoop, WindowsVars, WindowsFrame, CallerVars,
         mappingVars, tableVars
<1>2. /\ start' \in StartRecord /\ start'.pc = start.pc /\ start'.i = start.i + 1
      /\ start'.handles = start.handles
  BY <1>1, LoopMoves
<1>3. start \in StartRecord
  BY DEF ArmingType
<1>4. start.i + 1 \in DOMAIN start.handles
  BY <1>1, <1>3 DEF StartRecord
<1>5. Handle \in Threads \ {Caller}
  BY <1>3, <1>4 DEF StartRecord, Handle
<1>6. /\ SuspendThread => /\ start.pc = "suspend" /\ UNCHANGED trapFlag
                          /\ broke' = (Handle \in exited)
                          /\ held' = IF Handle \in exited THEN held ELSE [held EXCEPT ![Handle] = @ + 1]
      /\ SetThreadContext => /\ start.pc = "arm" /\ UNCHANGED <<held, broke>>
                             /\ trapFlag' = [trapFlag EXCEPT ![Handle] = TRUE]
      /\ ResumeThread => /\ start.pc = "resume" /\ UNCHANGED <<trapFlag, broke>>
                         /\ held' = [held EXCEPT ![Handle] = @ - 1]
  BY DEF SuspendThread, SetThreadContext, ResumeThread, InLoop, mappingVars
<1>7. PICK h \in Threads : h = Handle
  BY <1>5
<1>8. held' \in [Threads -> Int] /\ trapFlag' \in [Threads -> BOOLEAN] /\ broke' \in BOOLEAN
  <2>1. held \in [Threads -> Int] /\ trapFlag \in [Threads -> BOOLEAN] /\ broke \in BOOLEAN
    BY DEF ArmingType
  <2>2. CASE SuspendThread
    <3>1. CASE Handle \in exited
      BY <1>6, <2>1, <2>2, <3>1
    <3>2. CASE Handle \notin exited
      BY <1>6, <1>7, <2>1, <2>2, <3>2
    <3>3. QED
      BY <3>1, <3>2
  <2>3. CASE SetThreadContext
    BY <1>6, <2>1, <2>3
  <2>4. CASE ResumeThread
    BY <1>6, <1>7, <2>1, <2>4
  <2>5. QED
    BY <2>2, <2>3, <2>4
<1>9. ArmingType'
  BY <1>1, <1>2, <1>8 DEF ArmingType, WindowsFrame
<1>10. QED
  BY <1>1, <1>2, <1>4, <1>5, <1>6, <1>9

LEMMA OpenType ==
  ASSUME ArmingType, OpenThread
  PROVE  /\ ArmingType' /\ Runs(Caller)
         /\ UNCHANGED WindowsFrame
         /\ UNCHANGED <<wanted, excused, trapFlag, held, broke>> /\ UNCHANGED tableVars
<1>1. /\ Runs(Caller) /\ UNCHANGED WindowsFrame
      /\ UNCHANGED <<wanted, excused, trapFlag, held, broke>> /\ UNCHANGED tableVars
  BY DEF OpenThread, InLoop, WindowsVars, WindowsFrame, CallerVars, mappingVars, tableVars
<1>2. start' \in StartRecord
  BY OpenFields
<1>3. QED
  BY <1>1, <1>2 DEF ArmingType, WindowsFrame

LEMMA ArmSelfType ==
  ASSUME ArmingType, ArmSelf
  PROVE  /\ ArmingType' /\ Runs(Caller)
         /\ UNCHANGED WindowsFrame
         /\ UNCHANGED <<held, broke>> /\ UNCHANGED tableVars
         /\ start.pc = "self" /\ start'.pc = "none" /\ wanted' = {} /\ excused' = {}
         /\ \A t \in Threads : trapFlag'[t] = (trapFlag[t] \/ t = Caller)
<1>1. /\ Runs(Caller) /\ UNCHANGED WindowsFrame
      /\ UNCHANGED <<held, broke>> /\ UNCHANGED tableVars
      /\ start.pc = "self" /\ start' = Idle /\ wanted' = {} /\ excused' = {}
      /\ trapFlag' = [trapFlag EXCEPT ![Caller] = TRUE]
  BY DEF ArmSelf, Returned, WindowsFrame, CallerVars, mappingVars, tableVars
<1>2. start' \in StartRecord /\ start'.pc = "none"
  BY <1>1, EmptySeq, CapacityAssumption DEF Idle, StartRecord, LinuxPc
<1>3. trapFlag' \in [Threads -> BOOLEAN] /\ \A t \in Threads : trapFlag'[t] = (trapFlag[t] \/ t = Caller)
  BY <1>1, CallerAssumption DEF ArmingType
<1>4. ArmingType'
  BY <1>1, <1>2, <1>3 DEF ArmingType, WindowsFrame
<1>5. QED
  BY <1>1, <1>2, <1>3, <1>4

HelperFrame == <<scenario, g_Generation, g_TraceEnabled, g_SignalHandlerInstalled, start, others,
                 m_Generation, exited, wanted, broke>>

LEMMA HelperType ==
  ASSUME ArmingType, Helper
  PROVE  /\ ArmingType'
         /\ UNCHANGED HelperFrame /\ UNCHANGED tableVars
         /\ excused \subseteq excused'
<1>1. UNCHANGED HelperFrame /\ UNCHANGED tableVars
  BY DEF Helper, Attach, Stopped, AttachedAll, ArmTraced, ArmFails, ArmedAll, Detach,
         ContinueProcess, HelperVars, HelperFrame, mappingVars, tableVars
<1>2. helper' \in HelperRecord
  BY AttachFields, HelperFields DEF Helper
<1>3. excused' \subseteq Threads \X Why /\ excused \subseteq excused'
  <2>1. excused \subseteq Threads \X Why /\ helper \in HelperRecord
    BY DEF ArmingType
  <2>2. CASE UNCHANGED excused
    BY <2>1, <2>2
  <2>3. CASE Attach
    BY <2>1, <2>3, AttachFields DEF Why
  <2>4. CASE ArmFails
    <3>1. excused' = excused \cup {<<helper.tids[j], "gone">> : j \in helper.i + 1 .. Len(helper.tids)}
      BY <2>4 DEF ArmFails
    <3>2. \A j \in helper.i + 1 .. Len(helper.tids) : helper.tids[j] \in Threads
      BY <2>1 DEF HelperRecord
    <3>3. QED
      BY <2>1, <3>1, <3>2 DEF Why
  <2>5. QED
    BY <2>2, <2>3, <2>4 DEF Helper, Stopped, AttachedAll, ArmTraced, ArmedAll, Detach, ContinueProcess
<1>4. held' \in [Threads -> Int] /\ trapFlag' \in [Threads -> BOOLEAN]
  <2>1. held \in [Threads -> Int] /\ trapFlag \in [Threads -> BOOLEAN]
    BY DEF ArmingType
  <2>2. CASE UNCHANGED <<held, trapFlag>>
    BY <2>1, <2>2
  <2>3. CASE Stopped
    <3>1. held' = [held EXCEPT ![Next_id] = IF Next_id \in exited THEN 0 ELSE 1] /\ UNCHANGED trapFlag
      BY <2>3 DEF Stopped
    <3>2. (IF Next_id \in exited THEN 0 ELSE 1) \in Int
      OBVIOUS
    <3>3. QED
      BY <2>1, <3>1, <3>2, Zenon
  <2>4. CASE ArmTraced
    BY <2>1, <2>4 DEF ArmTraced
  <2>5. CASE ArmFails
    BY <2>1, <2>5 DEF ArmFails
  <2>6. CASE Detach
    <3>1. held' = [held EXCEPT ![Next_tid] = 0] /\ UNCHANGED trapFlag /\ 0 \in Int
      BY <2>6 DEF Detach
    <3>2. QED
      BY <2>1, <3>1, Zenon
  <2>7. QED
    BY <2>2, <2>3, <2>4, <2>5, <2>6 DEF Helper, Attach, AttachedAll, ArmedAll, ContinueProcess
<1>5. ArmingType'
  BY <1>1, <1>2, <1>3, <1>4 DEF ArmingType, HelperFrame
<1>6. QED
  BY <1>1, <1>3, <1>5

LookupsAreArmed == \A t \in Threads : finding[t] # NoCall => trapFlag[t]

\* A trap concerns its own thread, never arms one that is not armed, and on
\* Linux disarms only a thread that traps too early.
LEMMA TrapType ==
  ASSUME ArmingType, TableType, TableInv, LookupInv, LookupsAreArmed, NEW t \in Threads, Trap(t)
  PROVE  /\ ArmingType' /\ Runs(t) /\ trapFlag[t]
         /\ UNCHANGED TrapVars
         /\ UNCHANGED <<s_CoreMappings, s_CoreMappingCount, setting, mapping>>
         /\ excused \subseteq excused'
         /\ \A u \in Threads \ {t} : /\ trapFlag'[u] = trapFlag[u] /\ m_Generation'[u] = m_Generation[u]
                                     /\ finding'[u] = finding[u]
                                     /\ m_LogicalCoreIndex'[u] = m_LogicalCoreIndex[u]
         /\ m_Generation'[t] \in {m_Generation[t], g_Generation}
         /\ Linux => trapFlag'[t] \/ start.pc = "none" \/ <<t, "early">> \in excused'
         /\ finding'[t] # NoCall => trapFlag'[t]
<1> USE DEF TrapVars
<1>0. /\ trapFlag \in [Threads -> BOOLEAN] /\ m_Generation \in [Threads -> Nat] /\ g_Generation \in Nat
      /\ excused \subseteq Threads \X Why /\ g_TraceEnabled \in BOOLEAN /\ broke \in BOOLEAN
  BY DEF ArmingType
<1>1. CASE TrapUnhandled(t)
  <2>1. /\ Runs(t) /\ trapFlag[t] /\ UNCHANGED TrapVars /\ UNCHANGED tableVars
        /\ UNCHANGED <<trapFlag, m_Generation, excused>> /\ broke' = TRUE
    BY <1>1 DEF TrapUnhandled, Traps, tableVars
  <2>2. ArmingType'
    BY <2>1 DEF ArmingType
  <2>3. QED
    BY <1>0, <2>1, <2>2 DEF tableVars
<1>2. CASE TrapNotTracing(t)
  <2>1. /\ Runs(t) /\ trapFlag[t] /\ finding[t] = NoCall /\ UNCHANGED TrapVars /\ UNCHANGED tableVars
        /\ UNCHANGED <<m_Generation, broke>>
        /\ trapFlag' = [trapFlag EXCEPT ![t] = FALSE]
        /\ excused' = IF start.pc = "none" THEN excused ELSE excused \cup {<<t, "early">>}
    BY <1>2 DEF TrapNotTracing, Traps, mappingVars, tableVars
  <2>2. trapFlag' \in [Threads -> BOOLEAN] /\ excused' \subseteq Threads \X Why
    BY <1>0, <2>1 DEF Why
  <2>3. ArmingType'
    BY <2>1, <2>2 DEF ArmingType
  <2>4. \A u \in Threads \ {t} : trapFlag'[u] = trapFlag[u]
    BY <1>0, <2>1
  <2>5. QED
    BY <2>1, <2>3, <2>4 DEF tableVars
<1>3. CASE TrapLookup(t)
  <2>1. /\ Runs(t) /\ trapFlag[t] /\ FindCount(t) /\ UNCHANGED armingVars
    BY <1>3 DEF TrapLookup, Traps
  <2>2. UNCHANGED broke
    BY <2>1 DEF FindCount
  <2>3. ArmingType'
    BY <2>1, <2>2 DEF armingVars, ArmingType
  <2>4. QED
    BY <2>1, <2>2, <2>3, FindCountStep DEF armingVars
<1>4. CASE TrapFind(t)
  <2>1. /\ Runs(t) /\ FindId(t) /\ UNCHANGED armingVars
    BY <1>4 DEF TrapFind
  <2>2. UNCHANGED broke
    BY <2>1 DEF FindId
  <2>3. ArmingType'
    BY <2>1, <2>2 DEF armingVars, ArmingType
  <2>4. trapFlag[t]
    BY <2>1, FindIdStep DEF LookupsAreArmed
  <2>5. QED
    BY <2>1, <2>2, <2>3, <2>4, FindIdStep DEF armingVars
<1>5. CASE TrapFound(t)
  <2>1. /\ Runs(t) /\ FindReturn(t) /\ UNCHANGED TrapVars /\ UNCHANGED broke
        /\ m_Generation' = [m_Generation EXCEPT ![t] = g_Generation]
        /\ trapFlag' = [trapFlag EXCEPT ![t] = FlagAfter(t, FoundCore(t))]
        /\ excused' = IF finding[t].moved /\ start.pc # "none" THEN excused \cup {<<t, "moved">>}
                                                             ELSE excused
    BY <1>5 DEF TrapFound, FindReturn
  <2>2. trapFlag[t] /\ finding'[t] = NoCall
    BY <2>1, FindReturnStep DEF LookupsAreArmed
  <2>3. FlagAfter(t, FoundCore(t)) \in BOOLEAN /\ (Linux => FlagAfter(t, FoundCore(t)))
    <3>1. CASE Linux
      BY <2>2, <3>1, <1>0 DEF FlagAfter
    <3>2. CASE ~Linux
      BY <3>2 DEF FlagAfter
    <3>3. QED
      BY <3>1, <3>2
  <2>4. /\ trapFlag' \in [Threads -> BOOLEAN] /\ m_Generation' \in [Threads -> Nat]
        /\ excused' \subseteq Threads \X Why /\ excused \subseteq excused'
        /\ trapFlag'[t] = FlagAfter(t, FoundCore(t)) /\ m_Generation'[t] = g_Generation
        /\ \A u \in Threads \ {t} : trapFlag'[u] = trapFlag[u] /\ m_Generation'[u] = m_Generation[u]
    BY <1>0, <2>1, <2>3 DEF Why
  <2>5. ArmingType'
    BY <2>1, <2>4 DEF ArmingType
  <2>6. QED
    BY <2>1, <2>2, <2>3, <2>4, <2>5, FindReturnStep
<1>6. CASE TrapAgain(t)
  <2>1. /\ Runs(t) /\ trapFlag[t] /\ finding[t] = NoCall /\ UNCHANGED TrapVars /\ UNCHANGED tableVars
        /\ UNCHANGED <<m_Generation, broke, excused>>
        /\ trapFlag' = [trapFlag EXCEPT ![t] = FlagAfter(t, m_LogicalCoreIndex[t])]
    BY <1>6 DEF TrapAgain, Traps, mappingVars, tableVars
  <2>2. FlagAfter(t, m_LogicalCoreIndex[t]) \in BOOLEAN /\ (Linux => FlagAfter(t, m_LogicalCoreIndex[t]))
    <3>1. CASE Linux
      BY <2>1, <3>1, <1>0 DEF FlagAfter
    <3>2. CASE ~Linux
      BY <3>2 DEF FlagAfter
    <3>3. QED
      BY <3>1, <3>2
  <2>3. /\ trapFlag' \in [Threads -> BOOLEAN] /\ trapFlag'[t] = FlagAfter(t, m_LogicalCoreIndex[t])
        /\ \A u \in Threads \ {t} : trapFlag'[u] = trapFlag[u]
    BY <1>0, <2>1, <2>2
  <2>4. ArmingType'
    BY <2>1, <2>3 DEF ArmingType
  <2>5. QED
    BY <2>1, <2>2, <2>3, <2>4 DEF tableVars
<1>7. QED
  BY <1>1, <1>2, <1>3, <1>4, <1>5, <1>6 DEF Trap

MappingFrame == <<scenario, g_Generation, g_TraceEnabled, g_SignalHandlerInstalled, start, helper,
                  others, trapFlag, m_Generation, held, exited>>

LEMMA MappingType ==
  ASSUME ArmingType, TableType, TableInv, LookupInv,
         Store \/ \E t \in Threads, c \in Core : SetMapping(t, c)
  PROVE  /\ ArmingType'
         /\ UNCHANGED MappingFrame /\ UNCHANGED m_LogicalCoreIndex
         /\ ~broke /\ (Store => UNCHANGED broke)
         /\ wanted' \subseteq wanted /\ excused \subseteq excused'
<1>1. CASE Store
  <2>1. ~broke /\ StoreNext /\ UNCHANGED armingVars
    BY <1>1 DEF Store
  <2>2. UNCHANGED <<broke, m_LogicalCoreIndex>>
    BY <2>1 DEF StoreNext
  <2>3. ArmingType'
    BY <2>1, <2>2 DEF armingVars, ArmingType
  <2>4. QED
    BY <2>1, <2>2, <2>3 DEF armingVars, MappingFrame
<1>2. CASE ~Store /\ \E t \in Threads, c \in Core : SetMapping(t, c)
  <2>1. PICK t \in Threads, c \in Core : SetMapping(t, c)
    BY <1>2
  <2>2. /\ ~broke /\ UNCHANGED MappingFrame
        /\ wanted' = IF c = -1 THEN wanted \ {t} ELSE wanted
        /\ excused' = IF Removes(t, c) /\ start.pc = "open"
                      THEN excused \cup (Threads \X {"moved"}) ELSE excused
    BY <2>1 DEF SetMapping, MappingFrame
  <2>3. broke' \in BOOLEAN /\ UNCHANGED m_LogicalCoreIndex
    <3>1. broke' \in {broke, TRUE} /\ UNCHANGED m_LogicalCoreIndex
      BY <2>1, Zenon DEF SetMapping, SetThreadCoreMapping, TableFull
    <3>2. broke \in BOOLEAN
      BY DEF ArmingType
    <3>3. QED
      BY <3>1, <3>2
  <2>4. wanted' \subseteq wanted /\ excused \subseteq excused' /\ excused' \subseteq Threads \X Why
    BY <2>2 DEF ArmingType, Why
  <2>5. ArmingType'
    BY <2>2, <2>3, <2>4 DEF ArmingType, MappingFrame
  <2>6. QED
    BY <1>2, <2>2, <2>3, <2>4, <2>5
<1>3. QED
  BY <1>1, <1>2

LEMMA ExitType ==
  ASSUME ArmingType, NEW t \in Threads, ExitThread(t)
  PROVE  /\ ArmingType' /\ Runs(t) /\ t # Caller /\ finding[t] = NoCall
         /\ exited' = exited \cup {t}
         /\ ~trapFlag'[t] /\ \A u \in Threads \ {t} : trapFlag'[u] = trapFlag[u]
         /\ UNCHANGED <<scenario, g_Generation, g_TraceEnabled, g_SignalHandlerInstalled, start, helper,
                        others, m_Generation, held, wanted, excused, broke>>
         /\ UNCHANGED tableVars
<1>1. /\ Runs(t) /\ t # Caller /\ finding[t] = NoCall /\ exited' = exited \cup {t}
      /\ trapFlag' = [trapFlag EXCEPT ![t] = FALSE]
      /\ UNCHANGED <<scenario, g_Generation, g_TraceEnabled, g_SignalHandlerInstalled, start, helper,
                     others, m_Generation, held, wanted, excused, broke>>
      /\ UNCHANGED tableVars
  BY DEF ExitThread, mappingVars, tableVars
<1>2. trapFlag' \in [Threads -> BOOLEAN] /\ ~trapFlag'[t]
      /\ \A u \in Threads \ {t} : trapFlag'[u] = trapFlag[u]
  BY <1>1 DEF ArmingType
<1>3. ArmingType'
  BY <1>1, <1>2 DEF ArmingType
<1>4. QED
  BY <1>1, <1>2, <1>3

LEMMA OtherType ==
  ASSUME ArmingType, OtherExits
  PROVE  /\ ArmingType'
         /\ others'.alive + others'.zombie = others.alive + others.zombie
         /\ UNCHANGED <<scenario, g_Generation, g_TraceEnabled, g_SignalHandlerInstalled, start, helper,
                        trapFlag, m_Generation, held, exited, wanted, excused, broke>>
         /\ UNCHANGED tableVars
<1>1. /\ others' = [alive |-> others.alive - 1, zombie |-> others.zombie + 1] /\ others.alive > 0
      /\ UNCHANGED <<scenario, g_Generation, g_TraceEnabled, g_SignalHandlerInstalled, start, helper,
                     trapFlag, m_Generation, held, exited, wanted, excused, broke>>
      /\ UNCHANGED tableVars
  BY DEF OtherExits, mappingVars, tableVars
<1>2. others.alive \in Nat /\ others.zombie \in Nat
  BY DEF ArmingType
<1>3. others.alive - 1 \in Nat /\ others.zombie + 1 \in Nat
  BY <1>1, <1>2
<1>4. others' \in [alive : Nat, zombie : Nat]
      /\ others'.alive = others.alive - 1 /\ others'.zombie = others.zombie + 1
  BY <1>1, <1>3
<1>5. ArmingType'
  BY <1>1, <1>4 DEF ArmingType
<1>6. QED
  BY <1>1, <1>2, <1>4, <1>5
-----------------------------------------------------------------------------
(* Where the start is, and who looks himself up. *)

Shared == IncrementGeneration \/ EnableTrace \/ InstallHandler \/ SetPtracer
Handles == SuspendThread \/ SetThreadContext \/ ResumeThread
Maps == Store \/ \E t \in Threads, c \in Core : SetMapping(t, c)

\* The groups of steps that the proofs below go through one by one.
Steps ==
  \/ Start \/ Shared \/ WaitForHooks \/ WaitForExit
  \/ WindowsLoop \/ OpenThread \/ Handles \/ ArmSelf
  \/ EndCapture \/ CacheSimRemoveHandler
  \/ ~broke /\ Helper
  \/ \E t \in Threads : Trap(t)
  \/ Maps
  \/ \E t \in Threads : ExitThread(t)
  \/ OtherExits
  \/ UNCHANGED vars

LEMMA NextSteps ==
  ASSUME [Next]_vars
  PROVE  Steps
<1>1. StartWindows => WindowsLoop \/ OpenThread \/ Handles \/ ArmSelf
  BY DEF StartWindows, WindowsLoop, Handles
<1>2. StartCapture => Shared \/ WaitForHooks \/ WaitForExit \/ StartWindows
  BY DEF StartCapture, Shared
<1>3. (\E t \in Threads, c \in Cores \cup {-1} : SetMapping(t, c)) \/ Store => Maps
  BY DEF Maps, Core
<1>4. QED
  BY <1>1, <1>2, <1>3 DEF Next, Steps

LEMMA HelperFlags ==
  ASSUME ArmingType, Helper, NEW t \in Threads
  PROVE  /\ trapFlag[t] => trapFlag'[t]
         /\ ~trapFlag[t] /\ trapFlag'[t] =>
              helper.pc = "arm" /\ helper.tids # << >>
<1>1. CASE UNCHANGED trapFlag
  BY <1>1
<1>2. CASE ArmTraced
  <2>1. trapFlag' = [trapFlag EXCEPT ![Next_tid] = TRUE] /\ trapFlag \in [Threads -> BOOLEAN]
        /\ helper.pc = "arm" /\ helper.i < Len(helper.tids)
    BY <1>2 DEF ArmTraced, ArmingType
  <2>2. helper.tids # << >>
    BY <2>1 DEF ArmingType, HelperRecord
  <2>3. trapFlag[t] => trapFlag'[t]
    BY <2>1
  <2>4. QED
    BY <2>1, <2>2, <2>3
<1>3. QED
  BY <1>1, <1>2 DEF Helper, Attach, Stopped, AttachedAll, ArmFails, ArmedAll, Detach, ContinueProcess

LEMMA MapsLookups ==
  ASSUME TableType, TableInv, LookupInv, Maps, NEW u \in Threads
  PROVE  /\ finding[u] = NoCall <=> finding'[u] = NoCall
         /\ Removal => Removal' \/ UNCHANGED <<s_CoreMappings, setting>> \/ Store
<1>1. CASE Store
  BY <1>1, StoreStep DEF Store
<1>2. CASE \E t \in Threads, c \in Core : SetMapping(t, c)
  <2>1. PICK t \in Threads, c \in Core : SetThreadCoreMapping(t, c) \/ TableFull(t, c)
    BY <1>2 DEF SetMapping
  <2>2. CASE SetThreadCoreMapping(t, c)
    BY <2>2, SetStep DEF Removal
  <2>3. CASE TableFull(t, c)
    BY <2>3 DEF TableFull
  <2>4. QED
    BY <2>1, <2>2, <2>3
<1>3. QED
  BY <1>1, <1>2 DEF Maps

TableInvs == TableType /\ TableInv /\ LookupInv
BaseInv == TableInvs /\ ArmingType /\ PhaseInv /\ LookupsAreArmed

LEMMA LookupsStep ==
  ASSUME TableInvs, ArmingType, LookupsAreArmed, Steps
  PROVE  LookupsAreArmed'
<1> USE DEF LookupsAreArmed, tableVars, TableInvs
<1>1. CASE Start
  BY <1>1, StartType
<1>2. CASE Shared
  BY <1>2, SharedType DEF Shared
<1>3. CASE WaitForHooks \/ WaitForExit
  BY <1>3, WaitType
<1>4. CASE WindowsLoop
  BY <1>4, LoopEndsType
<1>5. CASE OpenThread
  BY <1>5, OpenType
<1>6. CASE Handles
  <2>1. trapFlag \in [Threads -> BOOLEAN]
    BY DEF ArmingType
  <2>2. \A t \in Threads : trapFlag[t] => trapFlag'[t]
    BY <1>6, <2>1, HandleType DEF Handles
  <2>3. QED
    BY <1>6, <2>2, HandleType DEF Handles
<1>7. CASE ArmSelf
  BY <1>7, ArmSelfType
<1>8. CASE EndCapture \/ CacheSimRemoveHandler
  BY <1>8, CaptureEndType
<1>9. CASE Helper
  BY <1>9, HelperType, HelperFlags
<1>10. CASE \E t \in Threads : Trap(t)
  BY <1>10, TrapType
<1>11. CASE Maps
  <2>1. UNCHANGED trapFlag
    BY <1>11, MappingType DEF Maps, MappingFrame
  <2>2. QED
    BY <1>11, <2>1, MapsLookups
<1>12. CASE \E t \in Threads : ExitThread(t)
  BY <1>12, ExitType
<1>13. CASE OtherExits
  BY <1>13, OtherType
<1>14. CASE UNCHANGED vars
  BY <1>14 DEF vars, mappingVars, armingVars
<1>15. QED
  BY <1>1, <1>2, <1>3, <1>4, <1>5, <1>6, <1>7, <1>8, <1>9, <1>10, <1>11, <1>12, <1>13, <1>14 DEF Steps

LEMMA ArmingTypeStep ==
  ASSUME TableInvs, ArmingType, LookupsAreArmed, Steps
  PROVE  ArmingType'
<1> USE DEF TableInvs
<1>1. CASE Start
  BY <1>1, StartType
<1>2. CASE Shared
  BY <1>2, SharedType DEF Shared
<1>3. CASE WaitForHooks \/ WaitForExit
  BY <1>3, WaitType
<1>4. CASE WindowsLoop
  BY <1>4, LoopEndsType
<1>5. CASE OpenThread
  BY <1>5, OpenType
<1>6. CASE Handles
  BY <1>6, HandleType DEF Handles
<1>7. CASE ArmSelf
  BY <1>7, ArmSelfType
<1>8. CASE EndCapture \/ CacheSimRemoveHandler
  BY <1>8, CaptureEndType
<1>9. CASE Helper
  BY <1>9, HelperType
<1>10. CASE \E t \in Threads : Trap(t)
  BY <1>10, TrapType
<1>11. CASE Maps
  BY <1>11, MappingType DEF Maps
<1>12. CASE \E t \in Threads : ExitThread(t)
  BY <1>12, ExitType
<1>13. CASE OtherExits
  BY <1>13, OtherType
<1>14. CASE UNCHANGED vars
  BY <1>14 DEF vars, mappingVars, armingVars, ArmingType
<1>15. QED
  BY <1>1, <1>2, <1>3, <1>4, <1>5, <1>6, <1>7, <1>8, <1>9, <1>10, <1>11, <1>12, <1>13, <1>14 DEF Steps

\* The phases of the steps of the two systems.
LEMMA SharedPhases ==
  ASSUME ArmingType, Shared
  PROVE  \/ /\ IncrementGeneration /\ start.pc = "generation" /\ start'.pc = "enable"
            /\ g_Generation' = g_Generation + 1
            /\ UNCHANGED <<g_TraceEnabled, g_SignalHandlerInstalled, helper>>
         \/ /\ EnableTrace /\ start.pc = "enable" /\ start'.pc = "handler" /\ g_TraceEnabled' = TRUE
            /\ UNCHANGED <<g_Generation, g_SignalHandlerInstalled, helper>>
         \/ /\ InstallHandler /\ start.pc = "handler" /\ start'.pc = IF Linux THEN "ptracer" ELSE "arm"
            /\ g_SignalHandlerInstalled' = TRUE
            /\ UNCHANGED <<g_Generation, g_TraceEnabled, helper>>
         \/ /\ SetPtracer /\ start.pc = "ptracer" /\ start'.pc = "wait1"
            /\ helper' = [helper EXCEPT !.permitted = helper.pc # "none"]
            /\ UNCHANGED <<g_Generation, g_TraceEnabled, g_SignalHandlerInstalled>>
<1> USE DEF LinuxPc, WindowsPc
<1>1. CASE IncrementGeneration
  BY <1>1, Moves DEF IncrementGeneration
<1>2. CASE EnableTrace
  BY <1>2, Moves DEF EnableTrace
<1>3. CASE InstallHandler
  <2>1. (IF Linux THEN "ptracer" ELSE "arm") \in LinuxPc \cup WindowsPc
    OBVIOUS
  <2>2. QED
    BY <1>3, <2>1, Moves DEF InstallHandler
<1>4. CASE SetPtracer
  BY <1>4, Moves DEF SetPtracer
<1>5. QED
  BY <1>1, <1>2, <1>3, <1>4 DEF Shared

LEMMA PhaseStep ==
  ASSUME TableInvs, ArmingType, PhaseInv, LookupsAreArmed, Steps
  PROVE  PhaseInv'
<1> USE DEF TableInvs, Enabled, Handled
<1>0. /\ start.pc \in IF Linux THEN LinuxPc ELSE WindowsPc
      /\ start.pc \in Enabled => g_TraceEnabled
      /\ start.pc \in Handled => g_SignalHandlerInstalled
      /\ ~Linux => helper = NoHelper
      /\ \A t \in Threads : m_Generation[t] <= g_Generation
      /\ \A t \in Threads : m_Generation[t] \in Nat
      /\ g_Generation \in Nat
  BY DEF PhaseInv, ArmingType
<1>1. CASE Start
  BY <1>0, <1>1, StartType DEF PhaseInv, Linux, LinuxPc, WindowsPc
<1>2. CASE Shared
  <2>1. UNCHANGED <<scenario, m_Generation>>
    BY <1>2, SharedType DEF Shared
  <2>2. start'.pc \in IF Linux THEN LinuxPc ELSE WindowsPc
    BY <1>0, <1>2, SharedPhases DEF LinuxPc, WindowsPc
  <2>3. ~Linux => helper' = helper
    BY <1>0, <1>2, SharedPhases DEF WindowsPc
  <2>4. /\ start'.pc \in Enabled => g_TraceEnabled'
        /\ start'.pc \in Handled => g_SignalHandlerInstalled'
    <3>1. CASE start.pc = "generation" /\ start'.pc = "enable"
      BY <3>1
    <3>2. CASE start.pc = "enable" /\ start'.pc = "handler" /\ g_TraceEnabled' = TRUE
      BY <3>2
    <3>3. CASE start.pc = "handler" /\ g_TraceEnabled' = g_TraceEnabled /\ g_SignalHandlerInstalled' = TRUE
      <4>1. g_TraceEnabled
        BY <1>0, <3>3
      <4>2. g_TraceEnabled' /\ g_SignalHandlerInstalled'
        BY <4>1, <3>3
      <4>3. QED
        BY <4>2
    <3>4. CASE start.pc = "ptracer" /\ g_TraceEnabled' = g_TraceEnabled
               /\ g_SignalHandlerInstalled' = g_SignalHandlerInstalled
      <4>1. g_TraceEnabled /\ g_SignalHandlerInstalled
        BY <1>0, <3>4
      <4>2. g_TraceEnabled' /\ g_SignalHandlerInstalled'
        BY <4>1, <3>4, Zenon
      <4>3. QED
        BY <4>2
    <3>5. QED
      BY <1>2, <3>1, <3>2, <3>3, <3>4, SharedPhases
  <2>5. \A t \in Threads : m_Generation[t] <= g_Generation'
    <3>1. g_Generation' \in {g_Generation, g_Generation + 1}
      BY <1>2, SharedPhases
    <3>2. QED
      BY <1>0, <3>1
  <2>6. QED
    BY <1>0, <2>1, <2>2, <2>3, <2>4, <2>5 DEF PhaseInv, Linux
<1>3. CASE WaitForHooks \/ WaitForExit
  <2>1. UNCHANGED <<scenario, m_Generation, g_Generation, g_TraceEnabled, g_SignalHandlerInstalled>>
        /\ start.pc \in {"wait1", "wait2"} /\ start'.pc \in {"wait2", "none"}
    BY <1>3, WaitType
  <2>2. Linux
    BY <1>0, <2>1 DEF WindowsPc
  <2>3. QED
    BY <1>0, <2>1, <2>2 DEF PhaseInv, Linux, LinuxPc
<1>4. CASE WindowsLoop
  <2>1. UNCHANGED WindowsFrame
        /\ \/ start.pc = "open" /\ start'.pc = "suspend"
           \/ start.pc = "suspend" /\ start'.pc = "generation"
           \/ start.pc = "arm" /\ start'.pc = "resume"
           \/ start.pc = "resume" /\ start'.pc = "self"
    BY <1>4, LoopEndsType
  <2>2. ~Linux
    BY <1>0, <2>1 DEF LinuxPc
  <2>3. QED
    BY <1>0, <2>1, <2>2 DEF PhaseInv, Linux, WindowsPc, WindowsFrame
<1>5. CASE OpenThread
  BY <1>0, <1>5, OpenType, OpenFields DEF PhaseInv, Linux, WindowsFrame
<1>6. CASE Handles
  BY <1>0, <1>6, HandleType DEF PhaseInv, Linux, Handles, WindowsFrame
<1>7. CASE ArmSelf
  BY <1>0, <1>7, ArmSelfType DEF PhaseInv, Linux, WindowsFrame, LinuxPc, WindowsPc
<1>8. CASE EndCapture \/ CacheSimRemoveHandler
  BY <1>0, <1>8, CaptureEndType DEF PhaseInv, Linux
<1>9. CASE Helper
  <2>1. helper.pc # "none"
    BY <1>9 DEF Helper, Attach, Stopped, AttachedAll, ArmTraced, ArmFails, ArmedAll, Detach,
                ContinueProcess
  <2>2. Linux
    BY <1>0, <2>1 DEF NoHelper
  <2>3. QED
    BY <1>0, <1>9, <2>2, HelperType DEF PhaseInv, Linux, HelperFrame
<1>10. CASE \E t \in Threads : Trap(t)
  <2>1. PICK t \in Threads : Trap(t)
    BY <1>10
  <2>2. /\ UNCHANGED TrapVars /\ m_Generation'[t] \in {m_Generation[t], g_Generation}
        /\ \A u \in Threads \ {t} : m_Generation'[u] = m_Generation[u]
    BY <2>1, TrapType
  <2>3. \A u \in Threads : m_Generation'[u] <= g_Generation
    BY <1>0, <2>2
  <2>4. QED
    BY <1>0, <2>2, <2>3 DEF PhaseInv, Linux, TrapVars
<1>11. CASE Maps
  BY <1>0, <1>11, MappingType DEF Maps, PhaseInv, Linux, MappingFrame
<1>12. CASE \E t \in Threads : ExitThread(t)
  BY <1>0, <1>12, ExitType DEF PhaseInv, Linux
<1>13. CASE OtherExits
  BY <1>0, <1>13, OtherType DEF PhaseInv, Linux
<1>14. CASE UNCHANGED vars
  BY <1>0, <1>14 DEF vars, armingVars, PhaseInv, Linux
<1>15. QED
  BY <1>1, <1>2, <1>3, <1>4, <1>5, <1>6, <1>7, <1>8, <1>9, <1>10, <1>11, <1>12, <1>13, <1>14 DEF Steps

\* The start of a capture goes through its phases on either system: who may be
\* stopped, attached to or armed in which of them, and what is set by then.
THEOREM BaseInvariant == Spec => []BaseInv
<1>1. Init => BaseInv
  <2>1. Init => LookupsAreArmed
    BY DEF Init, MappingInit, LookupsAreArmed
  <2>2. QED
    BY <2>1, TableInit, ArmingInit DEF BaseInv, TableInvs
<1>2. BaseInv /\ [Next]_vars => BaseInv'
  <2> SUFFICES ASSUME BaseInv, [Next]_vars
               PROVE  BaseInv'
    OBVIOUS
  <2>1. Steps
    BY NextSteps
  <2>2. TableInvs'
    BY NextTable, TableStep DEF BaseInv, TableInvs
  <2>3. ArmingType' /\ PhaseInv' /\ LookupsAreArmed'
    BY <2>1, ArmingTypeStep, PhaseStep, LookupsStep DEF BaseInv
  <2>4. QED
    BY <2>2, <2>3 DEF BaseInv
<1>3. QED
  BY <1>1, <1>2, PTL DEF Spec

\* The steps that are none of the start, its helper and its children.
Apart ==
  \/ EndCapture \/ CacheSimRemoveHandler
  \/ \E t \in Threads : Trap(t)
  \/ Maps
  \/ \E t \in Threads : ExitThread(t)
  \/ UNCHANGED vars
OnlyWindows == WindowsLoop \/ OpenThread \/ Handles \/ ArmSelf

LEMMA ApartFrame ==
  ASSUME BaseInv, Apart
  PROVE  UNCHANGED <<scenario, start, helper, others, held, g_Generation>> /\ (broke => broke')
<1> USE DEF BaseInv, TableInvs
<1>1. CASE EndCapture \/ CacheSimRemoveHandler
  BY <1>1, CaptureEndType
<1>2. CASE \E t \in Threads : Trap(t)
  BY <1>2, TrapType DEF TrapVars, Runs
<1>3. CASE Maps
  BY <1>3, MappingType DEF Maps, MappingFrame
<1>4. CASE \E t \in Threads : ExitThread(t)
  BY <1>4, ExitType
<1>5. CASE UNCHANGED vars
  BY <1>5 DEF vars, armingVars, mappingVars
<1>6. QED
  BY <1>1, <1>2, <1>3, <1>4, <1>5 DEF Apart

LEMMA OnlyWindowsFrame ==
  ASSUME BaseInv, OnlyWindows
  PROVE  ~Linux /\ UNCHANGED WindowsFrame /\ Runs(Caller)
<1> USE DEF BaseInv
<1>1. start.pc \in {"open", "suspend", "arm", "resume", "self"} /\ UNCHANGED WindowsFrame /\ Runs(Caller)
  BY LoopEndsType, OpenType, OpenFields, HandleType, ArmSelfType DEF OnlyWindows, Handles
<1>2. QED
  BY <1>1 DEF PhaseInv, LinuxPc

LEMMA HelperOnlyLinux ==
  ASSUME BaseInv, Helper
  PROVE  Linux /\ helper.pc # "none"
<1>1. helper.pc # "none"
  BY DEF Helper, Attach, Stopped, AttachedAll, ArmTraced, ArmFails, ArmedAll, Detach,
         ContinueProcess
<1>2. QED
  BY <1>1 DEF BaseInv, PhaseInv, NoHelper

LEMMA StepsInGroups ==
  ASSUME Steps
  PROVE  Start \/ Shared \/ WaitForHooks \/ WaitForExit \/ OnlyWindows \/ Helper \/ OtherExits \/ Apart
BY DEF Steps, OnlyWindows, Apart

LEMMA ScenarioStays ==
  ASSUME BaseInv, Steps
  PROVE  scenario' = scenario /\ (Linux' <=> Linux)
<1> USE DEF BaseInv, TableInvs
<1>1. scenario' = scenario
  BY StepsInGroups, StartType, SharedType, WaitType, OnlyWindowsFrame, HelperType, OtherType, ApartFrame
     DEF Shared, WindowsFrame, HelperFrame
<1>2. QED
  BY <1>1 DEF Linux
-----------------------------------------------------------------------------
(* Nobody is left stopped. *)

LEMMA ChildInit ==
  ASSUME Init, AtMostOneOther
  PROVE  ChildInv
<1>1. /\ scenario \in Scenarios /\ others = [alive |-> scenario.others, zombie |-> 0]
      /\ start.pc = "none" /\ helper = NoHelper /\ helper.pc = "none"
  BY DEF Init, Idle, NoHelper
<1>2. scenario.others \in Nat
  BY <1>1, ScenarioAssumption DEF Scenario
<1>3. Linux => scenario.others <= 1
  BY <1>1 DEF AtMostOneOther, Linux
<1>4. QED
  BY <1>1, <1>2, <1>3 DEF ChildInv

LEMMA ChildStep ==
  ASSUME BaseInv, ChildInv, Steps
  PROVE  ChildInv'
<1> USE DEF BaseInv, TableInvs
<1> SUFFICES ASSUME Linux
             PROVE  /\ others'.alive + others'.zombie <= 1
                    /\ helper'.pc = "none" => helper' = NoHelper
                    /\ start'.pc = "none" => helper'.pc = "none"
                    /\ helper'.pc = "none" => start'.pc \in {"none", "wait2"}
                    /\ start'.pc = "wait2" => helper'.pc = "none" \/ others'.alive + others'.zombie = 0
  BY ScenarioStays DEF ChildInv
<1>0. /\ others.alive + others.zombie <= 1
      /\ helper.pc = "none" => helper = NoHelper
      /\ start.pc = "none" => helper.pc = "none"
      /\ helper.pc = "none" => start.pc \in {"none", "wait2"}
      /\ start.pc = "wait2" => helper.pc = "none" \/ others.alive + others.zombie = 0
      /\ others.alive \in Nat /\ others.zombie \in Nat
      /\ NoHelper.pc = "none"
  BY DEF ChildInv, ArmingType, NoHelper
<1>1. CASE Start
  BY <1>0, <1>1, StartType, ForkedFields
<1>2. CASE Shared
  <2>1. start.pc \in {"generation", "enable", "handler", "ptracer"} /\ start'.pc \notin {"none", "wait2"}
    BY <1>2, SharedPhases
  <2>2. others' = others /\ helper'.pc = helper.pc
    BY <1>2, SharedType DEF Shared
  <2>3. QED
    BY <1>0, <2>1, <2>2
<1>3. CASE WaitForHooks \/ WaitForExit
  <2>1. \/ start.pc = "wait1" /\ start'.pc = "wait2"
        \/ start.pc = "wait2" /\ start'.pc = "none"
    BY <1>3, WaitType
  <2>2. CASE Childless /\ UNCHANGED <<others, helper>>
    BY <1>0, <2>1, <2>2 DEF Childless
  <2>3. CASE /\ others.zombie > 0 /\ UNCHANGED helper
             /\ others'.alive = others.alive /\ others'.zombie = others.zombie - 1
    BY <1>0, <2>1, <2>3
  <2>4. CASE helper.pc = "zombie" /\ helper' = NoHelper /\ UNCHANGED others
    BY <1>0, <2>1, <2>4
  <2>5. QED
    BY <1>3, <2>2, <2>3, <2>4, WaitType
<1>4. CASE OnlyWindows
  BY <1>4, OnlyWindowsFrame
<1>5. CASE Helper
  <2>1. helper.pc # "none" /\ helper'.pc # "none"
    BY <1>5, HelperOnlyLinux, AttachFields, HelperFields DEF Helper, ArmTraced, Detach
  <2>2. UNCHANGED <<start, others>>
    BY <1>5, HelperType DEF HelperFrame
  <2>3. QED
    BY <1>0, <2>1, <2>2
<1>6. CASE OtherExits
  BY <1>0, <1>6, OtherType
<1>7. CASE Apart
  BY <1>0, <1>7, ApartFrame
<1>8. QED
  BY <1>1, <1>2, <1>3, <1>4, <1>5, <1>6, <1>7, StepsInGroups

LEMMA TracedStep ==
  ASSUME BaseInv, ChildInv, TracedInv, Steps
  PROVE  TracedInv'
<1> USE DEF BaseInv, TableInvs
<1> SUFFICES ASSUME Linux
             PROVE  TracedInv'
  BY ScenarioStays DEF TracedInv
<1>0. /\ helper \in HelperRecord /\ held \in [Threads -> Int]
      /\ helper.pc \in {"attach", "stopping"} => helper.i <= Len(helper.ids)
      /\ helper.pc = "stopping" => helper.i < Len(helper.ids)
                                    /\ \E j \in DOMAIN helper.tids : helper.tids[j] = Next_id
      /\ helper.pc \in {"arm", "detach"} => helper.i <= Len(helper.tids)
      /\ helper.pc \in {"none", "zombie"} => \A t \in Threads : held[t] = 0
      /\ helper.pc \in {"attach", "stopping", "arm"} => \A t \in Threads :
           held[t] # 0 => \E j \in DOMAIN helper.tids : helper.tids[j] = t
      /\ helper.pc = "detach" => \A t \in Threads :
           held[t] # 0 => \E j \in helper.i + 1 .. Len(helper.tids) : helper.tids[j] = t
  BY DEF TracedInv, ArmingType
<1>00. helper.i \in Nat /\ helper.ids \in Seq(Threads) /\ helper.tids \in Seq(Threads)
  BY <1>0 DEF HelperRecord
<1>1. CASE Start
  <2>1. \A t \in Threads : held'[t] = 0
    BY <1>0, <1>1, StartType DEF ChildInv
  <2>2. helper'.pc = "attach" /\ helper'.i = 0 /\ Len(helper'.ids) \in Nat
    BY <1>1, StartType, ForkedFields, CapacityAssumption DEF TableType
  <2>3. QED
    BY <2>1, <2>2 DEF TracedInv
<1>2. CASE Shared
  <2>1. helper'.pc = helper.pc /\ helper'.i = helper.i /\ helper'.ids = helper.ids
        /\ helper'.tids = helper.tids /\ held' = held
    BY <1>2, SharedType DEF Shared
  <2>2. QED
    BY <1>0, <2>1 DEF TracedInv, Next_id
<1>3. CASE WaitForHooks \/ WaitForExit
  <2>1. held' = held
    BY <1>3, WaitType
  <2>2. CASE helper' = helper
    BY <1>0, <2>1, <2>2 DEF TracedInv, Next_id
  <2>3. CASE helper.pc = "zombie" /\ helper' = NoHelper
    <3>1. helper'.pc = "none" /\ \A t \in Threads : held'[t] = 0
      BY <1>0, <2>1, <2>3 DEF NoHelper
    <3>2. QED
      BY <3>1 DEF TracedInv
  <2>4. CASE Childless /\ UNCHANGED <<others, helper>>
    BY <2>2, <2>4
  <2>5. QED
    BY <1>3, <2>2, <2>3, <2>4, WaitType
<1>4. CASE OnlyWindows
  BY <1>4, OnlyWindowsFrame
<1>5. CASE Helper
  <2>1. CASE Attach
    <3>1. /\ helper' \in HelperRecord /\ helper.pc = "attach" /\ helper.i < Len(helper.ids)
          /\ helper'.ids = helper.ids /\ held' = held /\ Next_id \in Threads
      BY <2>1, AttachFields DEF Attach
    <3>2. CASE helper'.pc = "stopping" /\ helper'.i = helper.i
               /\ helper'.tids = Append(helper.tids, Next_id)
      <4>1. PICK t \in Threads : t = Next_id
        BY <3>1
      <4>2. /\ Len(helper'.tids) = Len(helper.tids) + 1
            /\ \A j \in DOMAIN helper.tids : j \in DOMAIN helper'.tids /\ helper'.tids[j] = helper.tids[j]
            /\ Len(helper.tids) + 1 \in DOMAIN helper'.tids
            /\ helper'.tids[Len(helper.tids) + 1] = t
        BY <1>00, <3>2, <4>1
      <4>3. Next_id' = t
        BY <3>1, <3>2, <4>1 DEF Next_id
      <4>4. \A u \in Threads : held'[u] # 0 => \E j \in DOMAIN helper'.tids : helper'.tids[j] = u
        BY <1>0, <3>1, <4>2
      <4>5. QED
        BY <1>00, <3>1, <3>2, <4>2, <4>3, <4>4 DEF TracedInv
    <3>3. CASE helper'.pc = "attach" /\ helper'.i = helper.i + 1 /\ helper'.tids = helper.tids
      BY <1>0, <1>00, <3>1, <3>3 DEF TracedInv
    <3>4. QED
      BY <2>1, <3>2, <3>3, AttachFields
  <2>2. CASE Stopped
    <3>1. helper'.pc = "attach" /\ helper'.i = helper.i + 1 /\ helper'.ids = helper.ids
          /\ helper'.tids = helper.tids /\ helper.pc = "stopping"
      BY <2>2, HelperFields DEF Stopped
    <3>2. \A t \in Threads : t # Next_id => held'[t] = held[t]
      BY <1>0, <2>2 DEF Stopped
    <3>3. QED
      BY <1>0, <1>00, <3>1, <3>2 DEF TracedInv
  <2>3. CASE AttachedAll
    <3>1. helper'.pc = "arm" /\ helper'.i = 0 /\ helper'.tids = helper.tids /\ helper.pc = "attach"
          /\ held' = held
      BY <2>3, HelperFields DEF AttachedAll
    <3>2. QED
      BY <1>0, <1>00, <3>1 DEF TracedInv
  <2>4. CASE ArmTraced
    <3>1. helper'.pc = "arm" /\ helper'.i = helper.i + 1 /\ helper'.tids = helper.tids /\ helper.pc = "arm"
          /\ held' = held /\ helper.i < Len(helper.tids)
      BY <2>4, HelperFields DEF ArmTraced
    <3>2. QED
      BY <1>0, <1>00, <3>1 DEF TracedInv
  <2>5. CASE ArmFails
    <3>1. helper'.pc = "zombie" /\ \A t \in Threads : held'[t] = 0
      BY <2>5, HelperFields DEF ArmFails
    <3>2. QED
      BY <3>1 DEF TracedInv
  <2>6. CASE ArmedAll
    <3>1. helper'.pc = "detach" /\ helper'.i = 0 /\ helper'.tids = helper.tids /\ helper.pc = "arm"
          /\ held' = held
      BY <2>6, HelperFields DEF ArmedAll
    <3>2. DOMAIN helper.tids = 0 + 1 .. Len(helper.tids) /\ Len(helper.tids) \in Nat
      BY <1>00
    <3>3. \A t \in Threads : held[t] # 0 => \E j \in 0 + 1 .. Len(helper.tids) : helper.tids[j] = t
      BY <1>0, <3>1, <3>2
    <3>4. QED
      BY <3>1, <3>2, <3>3 DEF TracedInv
  <2>7. CASE Detach
    <3>1. helper'.pc = "detach" /\ helper'.i = helper.i + 1 /\ helper'.tids = helper.tids
          /\ helper.pc = "detach" /\ helper.i < Len(helper.tids)
      BY <2>7, HelperFields DEF Detach
    <3>2. held' = [held EXCEPT ![Next_tid] = 0] /\ Len(helper.tids) \in Nat
      BY <1>00, <2>7 DEF Detach
    <3>3. \A t \in Threads : held'[t] # 0 => held[t] # 0 /\ t # helper.tids[helper.i + 1]
      BY <1>0, <3>2 DEF Next_tid
    <3>4. ASSUME NEW t \in Threads, held'[t] # 0
          PROVE  \E j \in (helper.i + 1) + 1 .. Len(helper.tids) : helper.tids[j] = t
      <4>1. PICK j \in helper.i + 1 .. Len(helper.tids) : helper.tids[j] = t
        BY <1>0, <3>1, <3>3, <3>4
      <4>2. j # helper.i + 1
        BY <3>3, <3>4, <4>1
      <4>3. j \in (helper.i + 1) + 1 .. Len(helper.tids)
        BY <1>00, <3>2, <4>1, <4>2
      <4>4. QED
        BY <4>1, <4>3
    <3>5. QED
      BY <1>00, <3>1, <3>2, <3>4 DEF TracedInv
  <2>8. CASE ContinueProcess
    <3>1. helper'.pc = "zombie" /\ held' = held /\ helper.pc = "detach" /\ helper.i = Len(helper.tids)
      BY <2>8, HelperFields DEF ContinueProcess
    <3>2. helper.i + 1 .. Len(helper.tids) = {}
      BY <1>00, <3>1
    <3>3. QED
      BY <1>0, <3>1, <3>2 DEF TracedInv
  <2>9. QED
    BY <1>5, <2>1, <2>2, <2>3, <2>4, <2>5, <2>6, <2>7, <2>8 DEF Helper
<1>6. CASE OtherExits
  <2>1. helper' = helper /\ held' = held
    BY <1>6, OtherType
  <2>2. QED
    BY <1>0, <2>1 DEF TracedInv, Next_id
<1>7. CASE Apart
  <2>1. helper' = helper /\ held' = held
    BY <1>7, ApartFrame
  <2>2. QED
    BY <1>0, <2>1 DEF TracedInv, Next_id
<1>8. QED
  BY <1>1, <1>2, <1>3, <1>4, <1>5, <1>6, <1>7, StepsInGroups

\* Counting the handles of a thread.
LEMMA TimesType ==
  ASSUME NEW S, IsFiniteSet(S), NEW h, NEW t
  PROVE  TimesIn(h, t, S) \in Nat
<1>1. IsFiniteSet({j \in S : h[j] = t})
  BY FS_Subset
<1>2. QED
  BY <1>1, FS_CardinalityType DEF TimesIn

LEMMA OneMore ==
  ASSUME NEW S, IsFiniteSet(S), NEW k, k \notin S, NEW h
  PROVE  TimesIn(h, h[k], S \cup {k}) = TimesIn(h, h[k], S) + 1
<1> DEFINE old == {j \in S : h[j] = h[k]}
           new == {j \in S \cup {k} : h[j] = h[k]}
<1>1. IsFiniteSet(old)
  BY FS_Subset
<1>2. new = old \cup {k} /\ k \notin old
  OBVIOUS
<1>3. Cardinality(new) = Cardinality(old) + 1
  BY <1>1, <1>2, FS_AddElement
<1>4. QED
  BY <1>3 DEF TimesIn

LEMMA NoMore ==
  ASSUME NEW S, NEW k, NEW h, NEW t, h[k] # t
  PROVE  TimesIn(h, t, S \cup {k}) = TimesIn(h, t, S)
<1>1. {j \in S \cup {k} : h[j] = t} = {j \in S : h[j] = t}
  OBVIOUS
<1>2. QED
  BY <1>1 DEF TimesIn

\* When a step may break the program, or leaves it as it is.
LEMMA BreaksFor ==
  ASSUME BaseInv, Steps, broke
  PROVE  broke'
<1> USE DEF BaseInv, TableInvs
<1>1. CASE Start \/ Shared \/ WaitForHooks \/ WaitForExit \/ OnlyWindows
  <2>1. Runs(Caller)
    BY <1>1, StartType, SharedType, WaitType, OnlyWindowsFrame DEF Shared
  <2>2. QED
    BY <2>1 DEF Runs
<1>2. CASE Helper
  BY <1>2, HelperType DEF HelperFrame
<1>3. CASE OtherExits
  BY <1>3, OtherType
<1>4. CASE Apart
  BY <1>4, ApartFrame
<1>5. QED
  BY <1>1, <1>2, <1>3, <1>4, StepsInGroups

LEMMA SuspendedStep ==
  ASSUME BaseInv, SuspendedInv, Steps
  PROVE  SuspendedInv'
<1> USE DEF BaseInv, TableInvs
<1> SUFFICES ASSUME ~Linux, ~broke', ~broke
             PROVE  /\ start'.pc \in {"suspend", "arm", "resume"} => start'.i <= Len(start'.handles)
                    /\ start'.pc = "open" => start'.i <= start'.count
                    /\ \A t \in Threads : held'[t] = Times(t)'
  BY ScenarioStays, BreaksFor DEF SuspendedInv, Times
<1>0. /\ start.pc \in {"suspend", "arm", "resume"} => start.i <= Len(start.handles)
      /\ start.pc = "open" => start.i <= start.count
      /\ \A t \in Threads : held[t] = Times(t)
      /\ start.i \in Nat /\ start.count \in Nat /\ start.handles \in Seq(Threads \ {Caller})
      /\ Len(start.handles) \in Nat
      /\ held \in [Threads -> Int]
  BY CapacityAssumption DEF SuspendedInv, ArmingType, StartRecord, Times
<1>01. ASSUME Suspended' = Suspended, start'.handles = start.handles, held' = held
       PROVE  \A t \in Threads : held'[t] = Times(t)'
  BY <1>0, <1>01 DEF Times, TimesIn
<1>1. CASE Start
  <2>1. start.pc = "none" /\ held' = held /\ start'.pc = "open" /\ start'.i = 0
        /\ start'.count = s_CoreMappingCount /\ s_CoreMappingCount \in Nat
    BY <1>1, StartType, CapacityAssumption DEF TableType
  <2>2. Suspended = {} /\ Suspended' = {}
    BY <2>1 DEF Suspended
  <2>3. \A t \in Threads : Times(t) = Cardinality({}) /\ Times(t)' = Cardinality({})
    BY <2>2, Zenon DEF Times, TimesIn
  <2>4. QED
    BY <1>0, <2>1, <2>3
<1>2. CASE Shared
  <2>1. held' = held /\ start'.handles = start.handles /\ start'.i = 0
    BY <1>2, SharedType DEF Shared
  <2>2. \/ start.pc = "generation" /\ start'.pc = "enable"
        \/ start.pc = "enable" /\ start'.pc = "handler"
        \/ start.pc = "handler" /\ start'.pc = "arm"
        \/ start.pc = "ptracer"
    BY <1>2, SharedPhases
  <2>3. start.pc # "ptracer"
    BY DEF PhaseInv, WindowsPc
  <2>4. Suspended' = Suspended
    BY <2>1, <2>2, <2>3 DEF Suspended
  <2>5. QED
    BY <1>0, <1>01, <2>1, <2>2, <2>3, <2>4
<1>3. CASE WaitForHooks \/ WaitForExit
  BY <1>3, WaitType DEF PhaseInv, WindowsPc
<1>4. CASE WindowsLoop
  <2>1. held' = held /\ start'.handles = start.handles /\ start'.i = 0
        /\ \/ start.pc = "open" /\ start'.pc = "suspend"
           \/ start.pc = "suspend" /\ start.i = Len(start.handles) /\ start'.pc = "generation"
           \/ start.pc = "arm" /\ start'.pc = "resume"
           \/ start.pc = "resume" /\ start.i = Len(start.handles) /\ start'.pc = "self"
    BY <1>4, LoopEndsType
  <2>2. 1 .. 0 = {} /\ Len(start.handles) + 1 .. Len(start.handles) = {}
    BY <1>0
  <2>3. Suspended' = Suspended
    BY <2>1, <2>2 DEF Suspended
  <2>4. QED
    BY <1>0, <1>01, <2>1, <2>3
<1>5. CASE OpenThread
  <2>1. held' = held /\ start.pc = "open" /\ start'.pc = "open" /\ start'.i = start.i + 1
        /\ start.i < start.count /\ start'.count = start.count
    BY <1>5, OpenType, OpenFields
  <2>2. Suspended = {} /\ Suspended' = {}
    BY <2>1 DEF Suspended
  <2>3. \A t \in Threads : Times(t) = Cardinality({}) /\ Times(t)' = Cardinality({})
    BY <2>2, Zenon DEF Times, TimesIn
  <2>4. QED
    BY <1>0, <2>1, <2>3
<1>6. CASE Handles
  <2> DEFINE n == start.i + 1
             h == start.handles
  <2>0. /\ n \in DOMAIN h /\ Handle \in Threads /\ Handle = h[n] /\ start.i < Len(h)
        /\ start'.pc = start.pc /\ start'.i = n /\ start'.handles = h
    BY <1>6, HandleType DEF Handles, Handle
  <2>1. CASE SuspendThread
    <3>1. start.pc = "suspend" /\ broke' = (Handle \in exited)
          /\ (Handle \notin exited => held' = [held EXCEPT ![Handle] = @ + 1])
      BY <2>1, HandleType
    <3>2. held' = [held EXCEPT ![Handle] = @ + 1]
      BY <3>1
    <3>3. Suspended = 1 .. start.i /\ Suspended' = 1 .. n
      BY <2>0, <3>1 DEF Suspended
    <3>4. 1 .. n = (1 .. start.i) \cup {n} /\ n \notin 1 .. start.i
      BY <1>0
    <3>5. IsFiniteSet(1 .. start.i)
      <4>1. 1 \in Int /\ start.i \in Int
        BY <1>0
      <4>2. QED
        BY <4>1, FS_Interval, Zenon
    <3>6. ASSUME NEW t \in Threads
          PROVE  held'[t] = Times(t)'
      <4>0. PICK S : S = 1 .. start.i
        OBVIOUS
      <4>1. IsFiniteSet(S) /\ n \notin S /\ TimesIn(h, t, S) \in Nat
        BY <3>4, <3>5, <4>0, TimesType
      <4>2. Times(t) = TimesIn(h, t, S) /\ Times(t)' = TimesIn(h, t, S \cup {n})
        BY <2>0, <3>3, <3>4, <4>0 DEF Times, TimesIn
      <4>3. CASE h[n] = t
        <5>1. TimesIn(h, t, S \cup {n}) = TimesIn(h, t, S) + 1
          BY <4>1, <4>3, OneMore
        <5>2. held'[t] = held[t] + 1
          BY <1>0, <2>0, <3>2, <4>3
        <5>3. QED
          BY <1>0, <4>1, <4>2, <5>1, <5>2
      <4>4. CASE h[n] # t
        <5>1. TimesIn(h, t, S \cup {n}) = TimesIn(h, t, S)
          BY <4>4, NoMore
        <5>2. held'[t] = held[t]
          BY <1>0, <2>0, <3>2, <4>4
        <5>3. QED
          BY <1>0, <4>2, <5>1, <5>2
      <4>5. QED
        BY <4>3, <4>4
    <3>7. QED
      BY <1>0, <2>0, <3>1, <3>6
  <2>2. CASE SetThreadContext
    <3>1. start.pc = "arm" /\ held' = held
      BY <2>2, HandleType
    <3>2. Suspended' = Suspended
      BY <2>0, <3>1 DEF Suspended
    <3>3. QED
      BY <1>0, <1>01, <2>0, <3>1, <3>2
  <2>3. CASE ResumeThread
    <3>1. start.pc = "resume" /\ held' = [held EXCEPT ![Handle] = @ - 1]
      BY <2>3, HandleType
    <3>2. Suspended = n .. Len(h) /\ Suspended' = n + 1 .. Len(h)
      BY <2>0, <3>1 DEF Suspended
    <3>3. n .. Len(h) = (n + 1 .. Len(h)) \cup {n} /\ n \notin n + 1 .. Len(h)
      BY <1>0, <2>0
    <3>4. IsFiniteSet(n + 1 .. Len(h))
      <4>1. n + 1 \in Int /\ Len(h) \in Int
        BY <1>0
      <4>2. QED
        BY <4>1, FS_Interval, Zenon
    <3>5. ASSUME NEW t \in Threads
          PROVE  held'[t] = Times(t)'
      <4>0. PICK S : S = n + 1 .. Len(h)
        OBVIOUS
      <4>1. IsFiniteSet(S) /\ n \notin S /\ TimesIn(h, t, S) \in Nat
        BY <3>3, <3>4, <4>0, TimesType
      <4>2. Times(t) = TimesIn(h, t, S \cup {n}) /\ Times(t)' = TimesIn(h, t, S)
        BY <2>0, <3>2, <3>3, <4>0 DEF Times, TimesIn
      <4>3. CASE h[n] = t
        <5>1. TimesIn(h, t, S \cup {n}) = TimesIn(h, t, S) + 1
          BY <4>1, <4>3, OneMore
        <5>2. held'[t] = held[t] - 1
          BY <1>0, <2>0, <3>1, <4>3
        <5>3. QED
          BY <1>0, <4>1, <4>2, <5>1, <5>2
      <4>4. CASE h[n] # t
        <5>1. TimesIn(h, t, S \cup {n}) = TimesIn(h, t, S)
          BY <4>4, NoMore
        <5>2. held'[t] = held[t]
          BY <1>0, <2>0, <3>1, <4>4
        <5>3. QED
          BY <1>0, <4>2, <5>1, <5>2
      <4>5. QED
        BY <4>3, <4>4
    <3>6. QED
      BY <1>0, <2>0, <3>1, <3>5
  <2>4. QED
    BY <1>6, <2>1, <2>2, <2>3 DEF Handles
<1>7. CASE ArmSelf
  <2>1. held' = held /\ start.pc = "self" /\ start'.pc = "none"
    BY <1>7, ArmSelfType
  <2>2. Suspended = {} /\ Suspended' = {}
    BY <2>1 DEF Suspended
  <2>3. \A t \in Threads : Times(t) = Cardinality({}) /\ Times(t)' = Cardinality({})
    BY <2>2, Zenon DEF Times, TimesIn
  <2>4. QED
    BY <1>0, <2>1, <2>3
<1>8. CASE Helper
  BY <1>8, HelperOnlyLinux
<1>9. CASE OtherExits
  <2>1. start' = start /\ held' = held
    BY <1>9, OtherType
  <2>2. QED
    BY <1>0, <1>01, <2>1 DEF Suspended
<1>10. CASE Apart
  <2>1. start' = start /\ held' = held
    BY <1>10, ApartFrame
  <2>2. QED
    BY <1>0, <1>01, <2>1 DEF Suspended
<1>11. QED
  BY <1>1, <1>2, <1>3, <1>4, <1>5, <1>6, <1>7, <1>8, <1>9, <1>10, StepsInGroups DEF OnlyWindows

StoppedInv == BaseInv /\ ChildInv /\ TracedInv /\ SuspendedInv

LEMMA StoppedInvariant ==
  ASSUME AtMostOneOther
  PROVE  Spec => []StoppedInv
<1>1. Init => StoppedInv
  <2> SUFFICES ASSUME Init
               PROVE  StoppedInv
    OBVIOUS
  <2>1. BaseInv
    <3>1. LookupsAreArmed
      BY DEF Init, MappingInit, LookupsAreArmed
    <3>2. QED
      BY <3>1, TableInit, ArmingInit DEF BaseInv, TableInvs
  <2>2. start.pc = "none" /\ helper.pc = "none" /\ \A t \in Threads : held[t] = 0
    BY DEF Init, Idle, NoHelper
  <2>3. TracedInv
    BY <2>2 DEF TracedInv
  <2>4. Suspended = {}
    BY <2>2 DEF Suspended
  <2>5. \A t \in Threads : {j \in Suspended : start.handles[j] = t} = {}
    BY <2>4
  <2>6. SuspendedInv
    BY <2>2, <2>5, FS_EmptySet DEF SuspendedInv, Times, TimesIn
  <2>7. QED
    BY <2>1, <2>3, <2>6, ChildInit DEF StoppedInv
<1>2. StoppedInv /\ [Next]_vars => StoppedInv'
  <2> SUFFICES ASSUME StoppedInv, [Next]_vars
               PROVE  StoppedInv'
    OBVIOUS
  <2>1. Steps
    BY NextSteps
  <2>2. BaseInv'
    BY <2>1, NextTable, TableStep, ArmingTypeStep, PhaseStep, LookupsStep DEF StoppedInv, BaseInv, TableInvs
  <2>3. QED
    BY <2>1, <2>2, ChildStep, TracedStep, SuspendedStep DEF StoppedInv
<1>3. QED
  BY <1>1, <1>2, PTL DEF Spec

\* When CacheSimStartCapture returns, the helper is gone and no thread is left
\* stopped, on either system, for any number of threads and captures.
THEOREM NobodyLeftStoppedThere ==
  ASSUME AtMostOneOther
  PROVE  Spec => []NobodyLeftStopped
<1>1. StoppedInv => NobodyLeftStopped
  <2> SUFFICES ASSUME StoppedInv, start.pc = "none", ~broke
               PROVE  helper.pc = "none" /\ \A t \in Threads : held[t] = 0
    BY DEF NobodyLeftStopped
  <2>1. CASE Linux
    BY <2>1 DEF StoppedInv, ChildInv, TracedInv
  <2>2. CASE ~Linux
    <3>1. helper.pc = "none"
      BY <2>2 DEF StoppedInv, BaseInv, PhaseInv, NoHelper
    <3>2. Suspended = {}
      BY DEF Suspended
    <3>3. \A t \in Threads : {j \in Suspended : start.handles[j] = t} = {}
      BY <3>2
    <3>4. \A t \in Threads : held[t] = 0
      BY <2>2, <3>3, FS_EmptySet DEF StoppedInv, SuspendedInv, Times, TimesIn
    <3>5. QED
      BY <3>1, <3>4
  <2>3. QED
    BY <2>1, <2>2
<1>2. QED
  BY <1>1, StoppedInvariant, PTL

-----------------------------------------------------------------------------
(* Who is armed is handled. *)

LEMMA FlagStep ==
  ASSUME BaseInv, ChildInv, FlagInv, Steps
  PROVE  FlagInv'
<1> DEFINE Early == {"open", "suspend", "generation", "enable", "handler", "ptracer"}
<1> USE DEF BaseInv, TableInvs
<1>c. ChildInv'
  BY ChildStep
<1> SUFFICES ASSUME Scoped
             PROVE  /\ start'.pc \in Early => \A t \in Threads : ~trapFlag'[t]
                    /\ Linux /\ helper'.tids # << >> => helper'.permitted
                    /\ Linux /\ helper'.permitted => start'.pc \in {"wait1", "wait2"}
                    /\ (\E t \in Threads : trapFlag'[t]) => g_SignalHandlerInstalled'
  BY ScenarioStays DEF FlagInv, Scoped
<1>0. /\ start.pc \in Early => \A t \in Threads : ~trapFlag[t]
      /\ Linux /\ helper.tids # << >> => helper.permitted
      /\ Linux /\ helper.permitted => start.pc \in {"wait1", "wait2"}
      /\ (\E t \in Threads : trapFlag[t]) => g_SignalHandlerInstalled
      /\ start.pc \in Handled => g_SignalHandlerInstalled
      /\ ~Linux => helper = NoHelper
      /\ trapFlag \in [Threads -> BOOLEAN]
  BY DEF FlagInv, PhaseInv, ArmingType
<1>1. CASE Start
  BY <1>0, <1>1, StartType, ForkedFields
<1>2. CASE Shared
  <2>1. trapFlag' = trapFlag /\ helper'.tids = helper.tids
    BY <1>2, SharedType DEF Shared
  <2>2. start.pc \in {"generation", "enable", "handler", "ptracer"}
        /\ start'.pc \in {"enable", "handler", "ptracer", "arm", "wait1"}
    BY <1>2, SharedPhases
  <2>3. \A t \in Threads : ~trapFlag'[t]
    BY <1>0, <2>1, <2>2
  <2>4. Linux => helper'.tids = << >>
    BY <1>0, <2>1, <2>2
  <2>5. Linux /\ helper'.permitted => start'.pc = "wait1"
    <3>1. CASE start.pc = "ptracer" /\ start'.pc = "wait1"
      BY <3>1
    <3>2. CASE helper' = helper
      BY <1>0, <2>2, <3>2
    <3>3. QED
      BY <1>2, <3>1, <3>2, SharedPhases
  <2>6. QED
    BY <2>3, <2>4, <2>5
<1>3. CASE WaitForHooks \/ WaitForExit
  <2>1. trapFlag' = trapFlag /\ g_SignalHandlerInstalled' = g_SignalHandlerInstalled
        /\ start.pc \in {"wait1", "wait2"} /\ start'.pc \in {"wait2", "none"}
    BY <1>3, WaitType
  <2>2. NoHelper.tids = << >> /\ ~NoHelper.permitted
    BY DEF NoHelper
  <2>3. helper' = helper \/ helper' = NoHelper
    <3>1. CASE Childless /\ UNCHANGED <<others, helper>>
      BY <3>1
    <3>2. QED
      BY <1>3, <3>1, WaitType
  <2>4. Linux /\ helper'.tids # << >> => helper'.permitted
    BY <1>0, <2>2, <2>3
  <2>5. Linux /\ start'.pc = "none" => helper' = NoHelper
    BY <1>c, ScenarioStays DEF ChildInv
  <2>6. Linux /\ helper'.permitted => start'.pc \in {"wait1", "wait2"}
    BY <2>1, <2>2, <2>5
  <2>7. QED
    BY <1>0, <2>1, <2>4, <2>6
<1>4. CASE OnlyWindows
  <2>0. ~Linux /\ g_SignalHandlerInstalled' = g_SignalHandlerInstalled
    BY <1>4, OnlyWindowsFrame DEF WindowsFrame
  <2>1. CASE WindowsLoop \/ OpenThread
    <3>1. trapFlag' = trapFlag
      BY <2>1, LoopEndsType, OpenType
    <3>2. start'.pc \in Early => start.pc \in Early
      BY <2>1, LoopEndsType, OpenFields
    <3>3. QED
      BY <1>0, <2>0, <3>1, <3>2
  <2>2. CASE SuspendThread
    <3>1. trapFlag' = trapFlag /\ start'.pc = start.pc
      BY <2>2, HandleType
    <3>2. QED
      BY <1>0, <2>0, <3>1
  <2>3. CASE SetThreadContext
    <3>1. start'.pc = "arm" /\ start.pc = "arm"
      BY <2>3, HandleType
    <3>2. g_SignalHandlerInstalled
      BY <1>0, <3>1 DEF Handled
    <3>3. QED
      BY <2>0, <3>1, <3>2, Zenon
  <2>4. CASE ResumeThread
    <3>1. trapFlag' = trapFlag /\ start'.pc = start.pc
      BY <2>4, HandleType
    <3>2. QED
      BY <1>0, <2>0, <3>1
  <2>5. CASE ArmSelf
    <3>1. start'.pc = "none" /\ start.pc = "self"
      BY <2>5, ArmSelfType
    <3>2. g_SignalHandlerInstalled
      BY <1>0, <3>1 DEF Handled
    <3>3. QED
      BY <2>0, <3>1, <3>2, Zenon
  <2>6. QED
    BY <1>4, <2>1, <2>2, <2>3, <2>4, <2>5 DEF OnlyWindows, Handles
<1>5. CASE Helper
  <2>0. Linux /\ UNCHANGED <<start, g_SignalHandlerInstalled>>
    BY <1>5, HelperOnlyLinux, HelperType DEF HelperFrame
  <2>1. helper'.permitted = helper.permitted
    BY <1>5, AttachFields, HelperFields DEF Helper
  <2>2. helper'.tids # << >> => helper.permitted
    <3>1. CASE Attach
      <4>1. helper'.tids = helper.tids \/ MayAttach
        BY <3>1, AttachFields
      <4>2. MayAttach => helper.permitted
        BY <2>0 DEF MayAttach, Scoped
      <4>3. QED
        BY <1>0, <2>0, <4>1, <4>2
    <3>2. CASE ~Attach
      <4>1. helper'.tids = helper.tids
        BY <1>5, <3>2, HelperFields DEF Helper
      <4>2. QED
        BY <1>0, <2>0, <4>1
    <3>3. QED
      BY <3>1, <3>2
  <2>3. ASSUME NEW t \in Threads, trapFlag'[t], ~trapFlag[t]
        PROVE  start.pc \in {"wait1", "wait2"}
    BY <1>0, <1>5, <2>0, <2>3, HelperFlags
  <2>4. start.pc \in {"wait1", "wait2"} => g_SignalHandlerInstalled
    BY <1>0 DEF Handled
  <2>5. start'.pc \in Early => \A t \in Threads : ~trapFlag'[t]
    BY <1>0, <2>0, <2>3
  <2>6. (\E t \in Threads : trapFlag'[t]) => g_SignalHandlerInstalled'
    BY <1>0, <2>0, <2>3, <2>4
  <2>7. QED
    BY <1>0, <2>0, <2>1, <2>2, <2>5, <2>6
<1>6. CASE EndCapture \/ CacheSimRemoveHandler
  <2>1. start' = start /\ helper' = helper /\ start.pc = "none"
    BY <1>6, CaptureEndType
  <2>2. (\E t \in Threads : trapFlag'[t]) =>
          g_SignalHandlerInstalled' = g_SignalHandlerInstalled /\ \E t \in Threads : trapFlag[t]
    BY <1>6, CaptureEndType
  <2>3. QED
    BY <1>0, <2>1, <2>2
<1>7. CASE \E t \in Threads : Trap(t)
  <2>1. PICK t \in Threads : Trap(t)
    BY <1>7
  <2>2. /\ trapFlag[t] /\ start' = start /\ helper' = helper
        /\ g_SignalHandlerInstalled' = g_SignalHandlerInstalled
    BY <2>1, TrapType DEF TrapVars
  <2>3. g_SignalHandlerInstalled' /\ start.pc \notin Early
    BY <1>0, <2>2
  <2>4. QED
    BY <1>0, <2>2, <2>3
<1>8. CASE Maps \/ OtherExits \/ UNCHANGED vars
  <2>1. /\ trapFlag' = trapFlag /\ start' = start /\ helper' = helper
        /\ g_SignalHandlerInstalled' = g_SignalHandlerInstalled
    BY <1>8, MappingType, OtherType DEF Maps, MappingFrame, vars, armingVars
  <2>2. QED
    BY <1>0, <2>1
<1>9. CASE \E t \in Threads : ExitThread(t)
  <2>1. /\ \A t \in Threads : trapFlag'[t] => trapFlag[t]
        /\ start' = start /\ helper' = helper
        /\ g_SignalHandlerInstalled' = g_SignalHandlerInstalled
    BY <1>9, ExitType
  <2>2. QED
    BY <1>0, <2>1
<1>10. QED
  BY <1>1, <1>2, <1>3, <1>4, <1>5, <1>6, <1>7, <1>8, <1>9, StepsInGroups DEF Apart

\* A thread that traps has a handler, and traps into a capture that is enabled,
\* where a start goes on and the system lets only the named helper attach.
THEOREM ArmedThreadsAreHandledThere ==
  ASSUME AtMostOneOther
  PROVE  Spec => []ArmedThreadsAreHandled
<1>1. Init => FlagInv
  BY DEF Init, Idle, NoHelper, FlagInv
<1>2. StoppedInv /\ FlagInv /\ [Next]_vars => FlagInv'
  BY NextSteps, FlagStep DEF StoppedInv
<1>3. BaseInv /\ FlagInv => ArmedThreadsAreHandled
  <2> SUFFICES ASSUME BaseInv, FlagInv, NEW t \in Threads, trapFlag[t], Scoped
               PROVE  g_SignalHandlerInstalled /\ (start.pc # "none" => g_TraceEnabled)
    BY DEF ArmedThreadsAreHandled, Scoped
  <2>1. /\ start.pc \notin {"open", "suspend", "generation", "enable", "handler", "ptracer"}
        /\ g_SignalHandlerInstalled
    BY DEF FlagInv
  <2>2. start.pc \in LinuxPc \cup WindowsPc /\ (start.pc \in Enabled => g_TraceEnabled)
    BY DEF BaseInv, PhaseInv
  <2>3. start.pc # "none" => start.pc \in Enabled
    BY <2>1, <2>2 DEF Enabled, LinuxPc, WindowsPc
  <2>4. QED
    BY <2>1, <2>2, <2>3
<1>4. StoppedInv => BaseInv
  BY DEF StoppedInv
<1>5. QED
  BY <1>1, <1>2, <1>3, <1>4, StoppedInvariant, PTL DEF Spec

-----------------------------------------------------------------------------
(* Who is wanted is armed. *)

LEMMA TrapSees ==
  ASSUME BaseInv, NEW t \in Threads, Trap(t), finding'[t] # NoCall
  PROVE  \/ finding[t] # NoCall /\ finding'[t].seen = finding[t].seen
         \/ finding'[t].seen = {mapping[t]} \cup
              (IF setting # NoCall /\ setting.id = t THEN {setting.core} ELSE {})
<1> USE DEF BaseInv, TableInvs
<1>1. CASE TrapUnhandled(t) \/ TrapNotTracing(t) \/ TrapAgain(t)
  <2>1. finding' = finding
    BY <1>1 DEF TrapUnhandled, TrapNotTracing, TrapAgain, mappingVars
  <2>2. QED
    BY <2>1
<1>2. CASE TrapLookup(t)
  BY <1>2, FindCountStep DEF TrapLookup
<1>3. CASE TrapFind(t)
  BY <1>3, FindIdStep DEF TrapFind
<1>4. CASE TrapFound(t)
  BY <1>4, FindReturnStep DEF TrapFound
<1>5. QED
  BY <1>1, <1>2, <1>3, <1>4 DEF Trap

LEMMA WantedSets ==
  ASSUME BaseInv, WantedInv, NEW u \in Threads, NEW c \in Core, SetMapping(u, c), NEW t \in wanted'
  PROVE  /\ mapping'[t] # -1
         /\ setting' # NoCall => ~(setting'.id = t /\ setting'.core = -1)
         /\ finding'[t] # NoCall => -1 \notin finding'[t].seen
<1> USE DEF BaseInv, TableInvs
<1>1. t \in wanted /\ t \in Threads /\ (c = -1 => t # u)
  BY DEF SetMapping, ArmingType
<1>2. /\ mapping[t] # -1
      /\ setting # NoCall => ~(setting.id = t /\ setting.core = -1)
      /\ finding[t] # NoCall => -1 \notin finding[t].seen
  BY <1>1 DEF WantedInv
<1>3. CASE SetThreadCoreMapping(u, c)
  <2>1. setting'.id = u /\ setting'.core = c /\ mapping' = mapping
    BY <1>3, SetStep
  <2>2. finding'[t] # NoCall => finding[t] # NoCall
          /\ finding'[t].seen = IF t = u THEN finding[t].seen \cup {c} ELSE finding[t].seen
    BY <1>1, <1>3, SetStep
  <2>3. QED
    BY <1>1, <1>2, <2>1, <2>2
<1>4. CASE TableFull(u, c)
  <2>1. UNCHANGED <<setting, mapping, finding>>
    BY <1>4 DEF TableFull
  <2>2. QED
    BY <1>2, <2>1
<1>5. QED
  BY <1>3, <1>4 DEF SetMapping

LEMMA WantedStep ==
  ASSUME BaseInv, WantedInv, Steps
  PROVE  WantedInv'
<1> USE DEF BaseInv, TableInvs
<1>0. /\ start.pc = "none" => wanted = {}
      /\ wanted \subseteq Threads
      /\ \A t \in wanted :
           /\ mapping[t] # -1
           /\ setting # NoCall => ~(setting.id = t /\ setting.core = -1)
           /\ finding[t] # NoCall => -1 \notin finding[t].seen
  BY DEF WantedInv, ArmingType
<1>1. CASE Start
  <2>1. start'.pc # "none" /\ UNCHANGED tableVars /\ \A t \in Threads : ~trapFlag[t]
    BY <1>1, StartType
  <2>2. wanted' = {t \in Threads \ exited : mapping[t] >= 0
                     /\ (setting # NoCall => ~(setting.id = t /\ setting.core = -1))}
    BY <1>1 DEF Start
  <2>3. \A t \in Threads : finding'[t] = NoCall
    BY <2>1 DEF LookupsAreArmed, tableVars
  <2>4. UNCHANGED <<mapping, setting>>
    BY <2>1 DEF tableVars
  <2>5. QED
    BY <2>1, <2>2, <2>3, <2>4 DEF WantedInv
<1>2. ASSUME UNCHANGED <<mapping, setting, finding>>, wanted' = wanted \/ wanted' = {},
             start'.pc = "none" => wanted' = {}
      PROVE  WantedInv'
  BY <1>0, <1>2 DEF WantedInv
<1>3. CASE Shared
  <2>1. wanted' = wanted /\ UNCHANGED tableVars
    BY <1>3, SharedType DEF Shared
  <2>2. start'.pc # "none"
    BY <1>3, SharedPhases
  <2>3. QED
    BY <1>2, <2>1, <2>2 DEF tableVars
<1>4. CASE WaitForHooks \/ WaitForExit
  <2>1. UNCHANGED tableVars
    BY <1>4, WaitType
  <2>2. (wanted' = wanted /\ start'.pc = "wait2") \/ wanted' = {}
    BY <1>4, WaitType
  <2>3. QED
    BY <1>2, <2>1, <2>2 DEF tableVars
<1>5. CASE OnlyWindows
  <2>1. UNCHANGED tableVars
    BY <1>5, LoopEndsType, OpenType, HandleType, ArmSelfType DEF OnlyWindows, Handles
  <2>2. CASE WindowsLoop
    BY <1>2, <2>1, <2>2, LoopEndsType DEF tableVars
  <2>3. CASE OpenThread
    <3>1. start'.pc # "none" /\ wanted' = wanted
      BY <2>3, OpenType, OpenFields
    <3>2. QED
      BY <1>2, <2>1, <3>1 DEF tableVars
  <2>4. CASE Handles
    <3>1. start'.pc # "none" /\ wanted' = wanted
      BY <2>4, HandleType DEF Handles
    <3>2. QED
      BY <1>2, <2>1, <3>1 DEF tableVars
  <2>5. CASE ArmSelf
    BY <1>2, <2>1, <2>5, ArmSelfType DEF tableVars
  <2>6. QED
    BY <1>5, <2>2, <2>3, <2>4, <2>5 DEF OnlyWindows
<1>6. CASE Helper \/ OtherExits \/ UNCHANGED vars \/ EndCapture \/ CacheSimRemoveHandler
           \/ \E t \in Threads : ExitThread(t)
  <2>1. UNCHANGED tableVars /\ wanted' = wanted /\ start' = start
    BY <1>6, HelperType, OtherType, CaptureEndType, ExitType
       DEF HelperFrame, vars, mappingVars, armingVars, tableVars
  <2>2. QED
    BY <1>0, <1>2, <2>1 DEF tableVars
<1>7. CASE \E t \in Threads : Trap(t)
  <2>1. PICK t \in Threads : Trap(t)
    BY <1>7
  <2>2. UNCHANGED <<mapping, setting, wanted, start>>
    BY <2>1, TrapType DEF TrapVars
  <2>3. \A u \in Threads \ {t} : finding'[u] = finding[u]
    BY <2>1, TrapType
  <2>4. ASSUME t \in wanted, finding'[t] # NoCall
        PROVE  -1 \notin finding'[t].seen
    BY <1>0, <2>1, <2>4, TrapSees
  <2>5. QED
    BY <1>0, <2>2, <2>3, <2>4 DEF WantedInv
<1>8. CASE Maps
  <2>1. start' = start /\ wanted' \subseteq wanted
    BY <1>8, MappingType DEF Maps, MappingFrame
  <2>2. CASE Store
    <3>0. StoreNext
      BY <2>2 DEF Store
    <3>1. /\ finding' = finding /\ setting # NoCall
          /\ setting' # NoCall => setting'.id = setting.id /\ setting'.core = setting.core
          /\ \A t \in Threads : \/ mapping'[t] = mapping[t]
                                \/ t = setting.id /\ mapping'[t] = setting.core
      BY <3>0, StoreStep
    <3>2. QED
      BY <1>0, <2>1, <3>1 DEF WantedInv
  <2>3. CASE \E u \in Threads, c \in Core : SetMapping(u, c)
    BY <1>0, <2>1, <2>3, WantedSets DEF WantedInv
  <2>4. QED
    BY <1>8, <2>2, <2>3 DEF Maps
<1>9. QED
  BY <1>1, <1>3, <1>4, <1>5, <1>6, <1>7, <1>8, StepsInGroups DEF Apart

\* Who is wanted when a start is called has its entry.
LEMMA WantedEntry ==
  ASSUME BaseInv, Start, NEW t \in wanted'
  PROVE  t \in Threads /\ \E i \in Entries : Id(i) = t
<1> USE DEF BaseInv, TableInvs
<1>1. /\ t \in Threads /\ mapping[t] # -1
      /\ setting # NoCall => ~(setting.id = t /\ setting.core = -1)
  BY DEF Start
<1>2. CASE ~Removal
  BY <1>1, <1>2 DEF TableInv, Holds
<1>3. CASE Removal
  <2>1. PICK k \in Entries : Holds(Entries \ {k}, {setting.id}) /\ setting.core = -1 /\ setting # NoCall
    BY <1>3 DEF TableInv, Removal, Adding, Changing, Removing
  <2>2. QED
    BY <1>1, <2>1 DEF Holds
<1>4. QED
  BY <1>1, <1>2, <1>3

LEMMA ExcusedStays ==
  ASSUME excused \subseteq excused', NEW t, Excused(t)
  PROVE  Excused(t)'
BY DEF Excused

LEMMA LinuxKeeps ==
  ASSUME NEW t, LinuxArm(t),
         helper'.pc = helper.pc, helper'.i = helper.i, helper'.ids = helper.ids, helper'.tids = helper.tids,
         excused \subseteq excused', trapFlag[t] => Armed(t)'
  PROVE  LinuxArm(t)'
<1>1. Excused(t) => Excused(t)'
  BY ExcusedStays
<1>2. Armed(t) => Armed(t)'
  BY <1>1 DEF Armed
<1>3. Attached(t) => Attached(t)'
  BY DEF Attached
<1>4. QED
  BY <1>1, <1>2, <1>3 DEF LinuxArm

\* While a start goes on, no thread loses its flag on Linux but by trapping too early.
LEMMA ApartKeepsLinux ==
  ASSUME BaseInv, Linux, Apart, start.pc # "none", NEW t \in wanted', t \notin exited'
  PROVE  /\ t \in wanted \ exited /\ excused \subseteq excused'
         /\ trapFlag[t] => Armed(t)'
<1> USE DEF BaseInv, TableInvs
<1>0. wanted \subseteq Threads
  BY DEF ArmingType
<1>1. CASE EndCapture \/ CacheSimRemoveHandler
  BY <1>1, CaptureEndType
<1>2. CASE \E u \in Threads : Trap(u)
  <2>1. PICK u \in Threads : Trap(u)
    BY <1>2
  <2>2. wanted' = wanted /\ exited' = exited /\ excused \subseteq excused'
    BY <2>1, TrapType DEF TrapVars
  <2>3. CASE t = u
    <3>1. trapFlag'[t] \/ <<t, "early">> \in excused'
      BY <2>1, <2>3, TrapType
    <3>2. QED
      BY <2>2, <3>1 DEF Armed, Excused
  <2>4. CASE t # u
    <3>1. trapFlag'[t] = trapFlag[t]
      BY <1>0, <2>1, <2>2, <2>4, TrapType
    <3>2. QED
      BY <2>2, <3>1 DEF Armed
  <2>5. QED
    BY <2>3, <2>4
<1>3. CASE Maps
  <2>1. wanted' \subseteq wanted /\ exited' = exited /\ excused \subseteq excused' /\ trapFlag' = trapFlag
    BY <1>3, MappingType DEF Maps, MappingFrame
  <2>2. QED
    BY <2>1 DEF Armed
<1>4. CASE \E u \in Threads : ExitThread(u)
  <2>1. PICK u \in Threads : ExitThread(u)
    BY <1>4
  <2>2. exited' = exited \cup {u} /\ wanted' = wanted /\ excused' = excused
        /\ \A v \in Threads \ {u} : trapFlag'[v] = trapFlag[v]
    BY <2>1, ExitType
  <2>3. QED
    BY <1>0, <2>2 DEF Armed
<1>5. CASE UNCHANGED vars
  <2>1. UNCHANGED <<wanted, exited, excused, trapFlag>>
    BY <1>5 DEF vars, armingVars
  <2>2. QED
    BY <2>1 DEF Armed
<1>6. QED
  BY <1>1, <1>2, <1>3, <1>4, <1>5 DEF Apart

LEMMA HelperArms ==
  ASSUME BaseInv, ChildInv, TracedInv, Linux, Helper, NEW t \in wanted, t \notin exited, LinuxArm(t)
  PROVE  LinuxArm(t)'
<1> USE DEF BaseInv, TableInvs
<1>0. /\ helper \in HelperRecord /\ helper.i \in Nat /\ t \in Threads
      /\ helper.ids \in Seq(Threads) /\ helper.tids \in Seq(Threads)
      /\ trapFlag \in [Threads -> BOOLEAN]
  BY DEF ArmingType, HelperRecord
<1>1. excused \subseteq excused' /\ (trapFlag[t] => trapFlag'[t])
  BY <1>0, HelperType, HelperFlags
<1>2. (Excused(t) => Excused(t)') /\ (Armed(t) => Armed(t)')
  BY <1>1, ExcusedStays DEF Armed
<1>3. CASE Attach
  <2>1. /\ helper.pc = "attach" /\ helper.i < Len(helper.ids) /\ helper'.ids = helper.ids
    BY <1>3, AttachFields
  <2>2. /\ \E j \in DOMAIN helper.ids : helper.ids[j] = t
        /\ \A j \in 1 .. helper.i : helper.ids[j] = t => Attached(t) \/ Excused(t)
    BY <2>1 DEF LinuxArm
  <2>3. CASE /\ helper'.pc = "stopping" /\ helper'.i = helper.i
             /\ helper'.tids = Append(helper.tids, Next_id)
    <3>1. \A j \in DOMAIN helper.tids : j \in DOMAIN helper'.tids /\ helper'.tids[j] = helper.tids[j]
      <4>1. PICK u \in Threads : u = Next_id
        BY <1>3, AttachFields
      <4>2. QED
        BY <1>0, <2>3, <4>1
    <3>2. Attached(t) => Attached(t)'
      BY <3>1 DEF Attached
    <3>3. QED
      BY <1>2, <2>1, <2>2, <2>3, <3>2 DEF LinuxArm
  <2>4. CASE /\ MayAttach => held[Next_id] # 0
             /\ helper'.pc = "attach" /\ helper'.i = helper.i + 1 /\ helper'.tids = helper.tids
             /\ excused' = IF MayAttach THEN excused ELSE excused \cup {<<Next_id, "refused">>}
    <3>1. Attached(t) => Attached(t)'
      BY <2>4 DEF Attached
    <3>2. ASSUME t = Next_id
          PROVE  Attached(t)' \/ Excused(t)'
      <4>1. CASE MayAttach
        <5>1. held[t] # 0
          BY <2>4, <3>2, <4>1
        <5>2. Attached(t)
          BY <1>0, <2>1, <5>1 DEF TracedInv, Attached
        <5>3. QED
          BY <3>1, <5>2
      <4>2. CASE ~MayAttach
        BY <2>4, <3>2, <4>2 DEF Excused
      <4>3. QED
        BY <4>1, <4>2
    <3>3. ASSUME NEW j \in 1 .. helper'.i, helper'.ids[j] = t
          PROVE  Attached(t)' \/ Excused(t)'
      <4>1. j \in 1 .. helper.i \/ j = helper.i + 1
        BY <1>0, <2>4
      <4>2. CASE j \in 1 .. helper.i
        BY <1>2, <2>1, <2>2, <3>1, <3>3, <4>2
      <4>3. CASE j = helper.i + 1
        BY <2>1, <3>2, <3>3, <4>3 DEF Next_id
      <4>4. QED
        BY <4>1, <4>2, <4>3
    <3>4. QED
      BY <2>1, <2>2, <2>4, <3>3 DEF LinuxArm
  <2>5. QED
    BY <1>3, <2>3, <2>4, AttachFields
<1>4. CASE Stopped
  <2>1. /\ helper.pc = "stopping" /\ helper'.pc = "attach" /\ helper'.i = helper.i + 1
        /\ helper'.ids = helper.ids /\ helper'.tids = helper.tids
    BY <1>4, HelperFields DEF Stopped
  <2>2. /\ \E j \in DOMAIN helper.ids : helper.ids[j] = t
        /\ \A j \in 1 .. helper.i : helper.ids[j] = t => Attached(t) \/ Excused(t)
    BY <2>1 DEF LinuxArm
  <2>3. Attached(t) => Attached(t)'
    BY <2>1 DEF Attached
  <2>4. \E j \in DOMAIN helper.tids : helper.tids[j] = Next_id
    BY <2>1 DEF TracedInv
  <2>5. t = Next_id => Attached(t)'
    BY <2>3, <2>4 DEF Attached
  <2>6. ASSUME NEW j \in 1 .. helper'.i, helper'.ids[j] = t
        PROVE  Attached(t)' \/ Excused(t)'
    <3>1. j \in 1 .. helper.i \/ j = helper.i + 1
      BY <1>0, <2>1
    <3>2. CASE j \in 1 .. helper.i
      BY <1>2, <2>1, <2>2, <2>3, <2>6, <3>2
    <3>3. CASE j = helper.i + 1
      BY <2>1, <2>5, <2>6, <3>3 DEF Next_id
    <3>4. QED
      BY <3>1, <3>2, <3>3
  <2>7. QED
    BY <2>1, <2>2, <2>6 DEF LinuxArm
<1>5. CASE AttachedAll
  <2>1. /\ helper.pc = "attach" /\ helper.i = Len(helper.ids) /\ helper'.pc = "arm" /\ helper'.i = 0
        /\ helper'.tids = helper.tids
    BY <1>5, HelperFields DEF AttachedAll
  <2>2. DOMAIN helper.ids = 1 .. helper.i
    BY <1>0, <2>1
  <2>3. Attached(t) \/ Excused(t)
    BY <2>1, <2>2 DEF LinuxArm
  <2>4. Attached(t)' \/ Excused(t)'
    BY <1>2, <2>1, <2>3 DEF Attached
  <2>5. QED
    BY <2>1, <2>4 DEF LinuxArm
<1>6. CASE ArmTraced
  <2>1. /\ helper.pc = "arm" /\ helper'.pc = "arm" /\ helper'.i = helper.i + 1
        /\ helper'.tids = helper.tids /\ trapFlag' = [trapFlag EXCEPT ![Next_tid] = TRUE]
    BY <1>6, HelperFields DEF ArmTraced
  <2>2. /\ Attached(t) \/ Excused(t)
        /\ \A j \in 1 .. helper.i : helper.tids[j] = t => Armed(t)
    BY <2>1 DEF LinuxArm
  <2>3. t = Next_tid => Armed(t)'
    <3>1. t = Next_tid => trapFlag'[t]
      BY <1>0, <2>1
    <3>2. QED
      BY <3>1 DEF Armed
  <2>4. ASSUME NEW j \in 1 .. helper'.i, helper'.tids[j] = t
        PROVE  Armed(t)'
    <3>1. j \in 1 .. helper.i \/ j = helper.i + 1
      BY <1>0, <2>1
    <3>2. CASE j \in 1 .. helper.i
      BY <1>2, <2>1, <2>2, <2>4, <3>2
    <3>3. CASE j = helper.i + 1
      BY <2>1, <2>3, <2>4, <3>3 DEF Next_tid
    <3>4. QED
      BY <3>1, <3>2, <3>3
  <2>5. Attached(t)' \/ Excused(t)'
    BY <1>2, <2>1, <2>2 DEF Attached
  <2>6. QED
    BY <2>1, <2>4, <2>5 DEF LinuxArm
<1>7. CASE ArmFails
  <2>1. /\ helper.pc = "arm" /\ helper'.pc = "zombie"
        /\ excused' = excused \cup {<<helper.tids[j], "gone">> : j \in helper.i + 1 .. Len(helper.tids)}
    BY <1>7, HelperFields DEF ArmFails
  <2>2. /\ Attached(t) \/ Excused(t)
        /\ \A j \in 1 .. helper.i : helper.tids[j] = t => Armed(t)
    BY <2>1 DEF LinuxArm
  <2>3. CASE Excused(t)
    BY <1>2, <2>1, <2>3 DEF Armed, LinuxArm
  <2>4. CASE Attached(t)
    <3>1. PICK j \in DOMAIN helper.tids : helper.tids[j] = t
      BY <2>4 DEF Attached
    <3>2. j \in 1 .. helper.i \/ j \in helper.i + 1 .. Len(helper.tids)
      BY <1>0, <3>1
    <3>3. CASE j \in 1 .. helper.i
      BY <1>2, <2>1, <2>2, <3>1, <3>3 DEF LinuxArm
    <3>4. CASE j \in helper.i + 1 .. Len(helper.tids)
      <4>1. <<t, "gone">> \in excused'
        BY <2>1, <3>1, <3>4
      <4>2. QED
        BY <2>1, <4>1 DEF LinuxArm, Armed, Excused
    <3>5. QED
      BY <3>2, <3>3, <3>4
  <2>5. QED
    BY <2>2, <2>3, <2>4
<1>8. CASE ArmedAll
  <2>1. /\ helper.pc = "arm" /\ helper.i = Len(helper.tids) /\ helper'.pc = "detach"
    BY <1>8, HelperFields DEF ArmedAll
  <2>2. /\ Attached(t) \/ Excused(t)
        /\ \A j \in 1 .. helper.i : helper.tids[j] = t => Armed(t)
    BY <2>1 DEF LinuxArm
  <2>3. DOMAIN helper.tids = 1 .. helper.i
    BY <1>0, <2>1
  <2>4. Armed(t)
    BY <2>2, <2>3 DEF Attached, Armed
  <2>5. QED
    BY <1>2, <2>1, <2>4 DEF LinuxArm
<1>9. CASE Detach \/ ContinueProcess
  <2>1. helper.pc = "detach" /\ helper'.pc \in {"detach", "zombie"}
    BY <1>9, HelperFields DEF Detach, ContinueProcess
  <2>2. QED
    BY <1>2, <2>1 DEF LinuxArm
<1>10. QED
  BY <1>3, <1>4, <1>5, <1>6, <1>7, <1>8, <1>9 DEF Helper

LEMMA LinuxArmStep ==
  ASSUME BaseInv, ChildInv, TracedInv, WantedInv, LinuxArmInv, Steps
  PROVE  LinuxArmInv'
<1> USE DEF BaseInv, TableInvs
<1> SUFFICES ASSUME Linux, NEW t \in wanted', t \notin exited'
             PROVE  LinuxArm(t)'
  BY ScenarioStays DEF LinuxArmInv
<1>0. /\ start.pc = "none" => wanted = {}
      /\ \A u \in wanted \ exited : LinuxArm(u)
      /\ wanted \subseteq Threads
  BY DEF WantedInv, LinuxArmInv, ArmingType
<1>1. CASE Start
  <2>1. helper'.pc = "attach" /\ helper'.i = 0 /\ Len(helper'.ids) = s_CoreMappingCount
        /\ helper'.ids \in Seq(Threads)
        /\ \A j \in 1 .. s_CoreMappingCount : helper'.ids[j] = Id(j - 1)
    BY <1>1, StartType, ForkedFields DEF HelperRecord
  <2>2. PICK i \in Entries : Id(i) = t
    BY <1>1, WantedEntry
  <2>3. i \in Int /\ i + 1 \in 1 .. s_CoreMappingCount /\ (i + 1) - 1 = i
    BY CapacityAssumption DEF Entries, TableType
  <2>4. i + 1 \in DOMAIN helper'.ids /\ helper'.ids[i + 1] = t
    BY <2>1, <2>2, <2>3
  <2>5. QED
    BY <2>1, <2>4 DEF LinuxArm
<1>2. CASE Shared
  <2>1. /\ wanted' = wanted /\ exited' = exited /\ excused' = excused /\ trapFlag' = trapFlag
        /\ helper'.pc = helper.pc /\ helper'.i = helper.i
        /\ helper'.ids = helper.ids /\ helper'.tids = helper.tids
    BY <1>2, SharedType DEF Shared
  <2>2. trapFlag[t] => Armed(t)'
    BY <2>1 DEF Armed
  <2>3. QED
    BY <1>0, <2>1, <2>2, LinuxKeeps
<1>3. CASE WaitForHooks \/ WaitForExit
  <2>1. exited' = exited /\ trapFlag' = trapFlag
    BY <1>3, WaitType
  <2>2. wanted' = wanted /\ excused' = excused
    BY <1>3, WaitType
  <2>3. LinuxArm(t) /\ (trapFlag[t] => Armed(t)')
    BY <1>0, <2>1, <2>2 DEF Armed
  <2>4. CASE helper' = helper
    BY <2>2, <2>3, <2>4, LinuxKeeps
  <2>5. CASE helper.pc = "zombie" /\ helper' = NoHelper
    <3>1. helper'.pc = "none"
      BY <2>5 DEF NoHelper
    <3>2. Armed(t)'
      BY <2>1, <2>2, <2>3, <2>5 DEF LinuxArm, Armed, Excused
    <3>3. QED
      BY <3>1, <3>2 DEF LinuxArm
  <2>6. CASE Childless /\ UNCHANGED <<others, helper>>
    BY <2>4, <2>6
  <2>7. QED
    BY <1>3, <2>4, <2>5, <2>6, WaitType
<1>4. CASE OnlyWindows
  BY <1>4, OnlyWindowsFrame
<1>5. CASE Helper
  <2>1. wanted' = wanted /\ exited' = exited
    BY <1>5, HelperType DEF HelperFrame
  <2>2. QED
    BY <1>0, <1>5, <2>1, HelperArms
<1>6. CASE OtherExits
  <2>1. /\ wanted' = wanted /\ exited' = exited /\ excused' = excused /\ trapFlag' = trapFlag
        /\ helper' = helper
    BY <1>6, OtherType
  <2>2. trapFlag[t] => Armed(t)'
    BY <2>1 DEF Armed
  <2>3. QED
    BY <1>0, <2>1, <2>2, LinuxKeeps
<1>7. CASE Apart
  <2>1. start.pc # "none"
    <3>1. wanted' \subseteq wanted
      <4>1. CASE \E u \in Threads : Trap(u)
        BY <4>1, TrapType DEF TrapVars
      <4>2. CASE Maps
        BY <4>2, MappingType DEF Maps
      <4>3. QED
        BY <1>7, <4>1, <4>2, CaptureEndType, ExitType DEF Apart, vars, armingVars
    <3>2. QED
      BY <1>0, <3>1
  <2>2. t \in wanted \ exited /\ excused \subseteq excused' /\ (trapFlag[t] => Armed(t)')
    BY <1>7, <2>1, ApartKeepsLinux
  <2>3. helper' = helper
    BY <1>7, ApartFrame
  <2>4. QED
    BY <1>0, <2>2, <2>3, LinuxKeeps
<1>8. QED
  BY <1>1, <1>2, <1>3, <1>4, <1>5, <1>6, <1>7, StepsInGroups

\* A thread whose handle has been suspended does not run while the others are armed.
LEMMA SuspendedIsHeld ==
  ASSUME BaseInv, SuspendedInv, ~Linux, ~broke, start.pc = "arm", NEW j \in DOMAIN start.handles
  PROVE  start.handles[j] \in Threads /\ held[start.handles[j]] # 0
<1> DEFINE h == start.handles
<1>0. h \in Seq(Threads \ {Caller})
  BY DEF BaseInv, ArmingType, StartRecord
<1>1. h[j] \in Threads /\ Len(h) \in Nat /\ DOMAIN h = 1 .. Len(h)
  BY <1>0
<1>2. Suspended = 1 .. Len(h)
  BY DEF Suspended
<1>3. PICK S : S = {k \in 1 .. Len(h) : h[k] = h[j]}
  OBVIOUS
<1>4. IsFiniteSet(S)
  <2>1. 1 \in Int /\ Len(h) \in Int
    BY <1>1
  <2>2. IsFiniteSet(1 .. Len(h))
    BY <2>1, FS_Interval, Zenon
  <2>3. S \subseteq 1 .. Len(h)
    BY <1>3
  <2>4. QED
    BY <2>2, <2>3, FS_Subset, Zenon
<1>5. j \in S
  BY <1>1, <1>3
<1>6. Cardinality(S) # 0
  BY <1>4, <1>5, FS_EmptySet
<1>7. held[h[j]] = Times(h[j])
  BY <1>1 DEF SuspendedInv
<1>8. Times(h[j]) = Cardinality(S)
  BY <1>2, <1>3 DEF Times, TimesIn
<1>9. QED
  BY <1>1, <1>6, <1>7, <1>8

\* On Windows a thread that traps while a start goes on keeps its flag.
LEMMA TrapWindows ==
  ASSUME BaseInv, WantedInv, ~Linux, start.pc # "none", g_TraceEnabled, ~broke',
         NEW t \in wanted, Trap(t),
         m_Generation[t] = g_Generation => m_LogicalCoreIndex[t] >= 0 \/ Excused(t)
  PROVE  /\ Armed(t)'
         /\ m_Generation'[t] = g_Generation => m_LogicalCoreIndex'[t] >= 0 \/ Excused(t)'
<1> USE DEF BaseInv, TableInvs
<1>0. t \in Threads /\ trapFlag \in [Threads -> BOOLEAN] /\ m_Generation \in [Threads -> Nat]
  BY DEF ArmingType
<1>1. trapFlag[t] /\ excused \subseteq excused'
  BY <1>0, TrapType
<1>2. Excused(t) => Excused(t)'
  BY <1>1, ExcusedStays
<1>3. CASE TrapUnhandled(t)
  BY <1>3 DEF TrapUnhandled
<1>4. CASE TrapNotTracing(t)
  BY <1>4 DEF TrapNotTracing
<1>5. CASE TrapLookup(t) \/ TrapFind(t)
  <2>1. trapFlag' = trapFlag /\ m_Generation' = m_Generation
    BY <1>5 DEF TrapLookup, TrapFind, armingVars
  <2>2. m_LogicalCoreIndex' = m_LogicalCoreIndex
    BY <1>0, <1>5, FindCountStep, FindIdStep DEF TrapLookup, TrapFind
  <2>3. QED
    BY <1>1, <1>2, <2>1, <2>2 DEF Armed
<1>6. CASE TrapFound(t)
  <2>1. /\ FindReturn(t)
        /\ trapFlag' = [trapFlag EXCEPT ![t] = FlagAfter(t, FoundCore(t))]
        /\ excused' = IF finding[t].moved /\ start.pc # "none" THEN excused \cup {<<t, "moved">>}
                                                             ELSE excused
    BY <1>6 DEF TrapFound
  <2>2. /\ finding[t] # NoCall /\ m_LogicalCoreIndex'[t] = FoundCore(t)
        /\ ~finding[t].moved => FoundCore(t) \in finding[t].seen
    BY <1>0, <2>1, FindReturnStep
  <2>3. CASE finding[t].moved
    <3>1. <<t, "moved">> \in excused'
      BY <2>1, <2>3
    <3>2. QED
      BY <3>1 DEF Excused, Armed
  <2>4. CASE ~finding[t].moved
    <3>1. -1 \notin finding[t].seen /\ finding[t].seen \subseteq Core
      BY <1>0, <2>2 DEF WantedInv, TableType
    <3>2. FoundCore(t) >= 0
      <4>1. FoundCore(t) \in finding[t].seen
        BY <2>2, <2>4
      <4>2. FoundCore(t) \in Core /\ FoundCore(t) # -1
        BY <3>1, <4>1
      <4>3. FoundCore(t) \in Nat
        BY <4>2, CoresAssumption DEF Core
      <4>4. QED
        BY <4>3
    <3>3. FlagAfter(t, FoundCore(t))
      BY <3>2 DEF FlagAfter
    <3>4. trapFlag'[t]
      BY <1>0, <2>1, <3>3
    <3>5. QED
      BY <2>2, <3>2, <3>4 DEF Armed
  <2>5. QED
    BY <2>3, <2>4
<1>7. CASE TrapAgain(t)
  <2>1. /\ trapFlag' = [trapFlag EXCEPT ![t] = FlagAfter(t, m_LogicalCoreIndex[t])]
        /\ m_Generation' = m_Generation /\ m_LogicalCoreIndex' = m_LogicalCoreIndex
        /\ m_Generation[t] = g_Generation
    BY <1>7 DEF TrapAgain, mappingVars
  <2>2. CASE m_LogicalCoreIndex[t] >= 0
    <3>1. FlagAfter(t, m_LogicalCoreIndex[t])
      BY <2>2 DEF FlagAfter
    <3>2. trapFlag'[t]
      BY <1>0, <2>1, <3>1
    <3>3. QED
      BY <2>1, <2>2, <3>2 DEF Armed
  <2>3. CASE Excused(t)
    BY <1>2, <2>3 DEF Armed
  <2>4. QED
    BY <2>1, <2>2, <2>3
<1>8. QED
  BY <1>3, <1>4, <1>5, <1>6, <1>7 DEF Trap

\* What a step does that neither moves the start nor touches the table and flags.
LEMMA WindowsKeeps ==
  ASSUME NEW t, WindowsArm(t), start' = start, excused \subseteq excused', g_Generation' = g_Generation,
         start.pc = "open" /\ ~AllMoved => \A k \in start.i .. start.count - 1 : Id(k)' = Id(k),
         start.pc \in {"resume", "self"} => (trapFlag[t] => Armed(t)'),
         start.pc \in {"enable", "handler", "arm", "resume", "self"} /\ m_Generation'[t] = g_Generation =>
           m_LogicalCoreIndex'[t] >= 0 \/ Excused(t)'
  PROVE  WindowsArm(t)'
<1>1. (Excused(t) => Excused(t)') /\ (AllMoved => AllMoved')
  BY ExcusedStays DEF AllMoved
<1>2. start.pc \in {"resume", "self"} /\ Armed(t) => Armed(t)'
  BY <1>1 DEF Armed
<1>3. Opened(t)' = Opened(t)
  BY DEF Opened
<1>4. start.pc = "open" /\ ~AllMoved' =>
        Opened(t)' \/ \E k \in start.i .. start.count - 1 : Id(k)' = t
  BY <1>1, <1>3 DEF WindowsArm
<1>5. start.pc \in {"suspend", "generation", "enable", "handler", "arm"} => Opened(t)' \/ Excused(t)'
  BY <1>1, <1>3 DEF WindowsArm
<1>6. start.pc \in {"resume", "self"} => Armed(t)'
  BY <1>2 DEF WindowsArm
<1>7. QED
  BY <1>4, <1>5, <1>6 DEF WindowsArm

\* The handles that have been armed stay armed: their threads do not run.
LEMMA TrapsAreElsewhere ==
  ASSUME BaseInv, SuspendedInv, ~Linux, ~broke, HandlesArmed, start' = start,
         NEW u \in Threads, Runs(u), \A v \in Threads \ {u} : trapFlag'[v] = trapFlag[v]
  PROVE  HandlesArmed'
<1> SUFFICES ASSUME start.pc = "arm", NEW j \in 1 .. start.i
             PROVE  trapFlag'[start.handles[j]]
  BY DEF HandlesArmed
<1>1. j \in DOMAIN start.handles
  <2>1. start.i <= Len(start.handles) /\ start.i \in Nat /\ start.handles \in Seq(Threads \ {Caller})
    BY DEF SuspendedInv, BaseInv, ArmingType, StartRecord
  <2>2. QED
    BY <2>1
<1>2. start.handles[j] \in Threads /\ held[start.handles[j]] # 0
  BY <1>1, SuspendedIsHeld
<1>3. start.handles[j] # u
  BY <1>2 DEF Runs
<1>4. trapFlag[start.handles[j]]
  BY DEF HandlesArmed
<1>5. QED
  BY <1>2, <1>3, <1>4

LEMMA ApartKeepsWindows ==
  ASSUME BaseInv, SuspendedInv, FlagInv, WantedInv, AllOpen, HandlesArmed, Apart, ~Linux, ~broke, ~broke',
         \A t \in wanted \ (exited \cup {Caller}) : WindowsArm(t)
  PROVE  /\ AllOpen' /\ HandlesArmed'
         /\ \A t \in wanted' \ (exited' \cup {Caller}) : WindowsArm(t)'
<1> USE DEF BaseInv, TableInvs
<1>0. start' = start /\ g_Generation' = g_Generation /\ wanted \subseteq Threads
  BY ApartFrame DEF ArmingType
<1>1. CASE EndCapture \/ CacheSimRemoveHandler
  <2>1. start'.pc = "none"
    BY <1>0, <1>1, CaptureEndType
  <2>2. QED
    BY <2>1 DEF AllOpen, HandlesArmed, WindowsArm
<1>2. CASE \E u \in Threads : Trap(u)
  <2>1. PICK u \in Threads : Trap(u)
    BY <1>2
  <2>2. /\ Runs(u) /\ trapFlag[u] /\ wanted' = wanted /\ exited' = exited /\ excused \subseteq excused'
        /\ \A v \in Threads \ {u} : /\ trapFlag'[v] = trapFlag[v] /\ m_Generation'[v] = m_Generation[v]
                                    /\ m_LogicalCoreIndex'[v] = m_LogicalCoreIndex[v]
    BY <2>1, TrapType DEF TrapVars
  <2>3. start.pc \notin {"open", "suspend", "generation", "enable", "handler"}
    BY <2>2 DEF FlagInv, Scoped
  <2>4. HandlesArmed'
    BY <1>0, <2>2, TrapsAreElsewhere
  <2>5. AllOpen'
    BY <1>0, <2>3 DEF AllOpen
  <2>6. ASSUME NEW t \in wanted, t \notin exited, t # Caller
        PROVE  WindowsArm(t)'
    <3>1. WindowsArm(t) /\ t \in Threads
      BY <1>0, <2>6
    <3>2. CASE start.pc \notin {"arm", "resume", "self"}
      BY <1>0, <2>3, <3>2 DEF WindowsArm
    <3>3. CASE start.pc \in {"arm", "resume", "self"} /\ t = u
      <4>1. start.pc # "none" /\ g_TraceEnabled
        BY <3>3 DEF PhaseInv, Enabled
      <4>2. m_Generation[t] = g_Generation => m_LogicalCoreIndex[t] >= 0 \/ Excused(t)
        BY <3>1, <3>3 DEF WindowsArm
      <4>3. /\ Armed(t)'
            /\ m_Generation'[t] = g_Generation => m_LogicalCoreIndex'[t] >= 0 \/ Excused(t)'
        BY <2>1, <3>3, <4>1, <4>2, TrapWindows
      <4>4. start.pc # "open"
        BY <3>3
      <4>5. QED
        BY <1>0, <2>2, <3>1, <4>3, <4>4, WindowsKeeps
    <3>4. CASE start.pc \in {"arm", "resume", "self"} /\ t # u
      <4>1. trapFlag'[t] = trapFlag[t] /\ m_Generation'[t] = m_Generation[t]
            /\ m_LogicalCoreIndex'[t] = m_LogicalCoreIndex[t]
        BY <2>2, <3>1, <3>4
      <4>2. Excused(t) => Excused(t)'
        BY <2>2, ExcusedStays
      <4>3. trapFlag[t] => Armed(t)'
        BY <4>1 DEF Armed
      <4>4. m_Generation'[t] = g_Generation => m_LogicalCoreIndex'[t] >= 0 \/ Excused(t)'
        BY <3>1, <3>4, <4>1, <4>2 DEF WindowsArm
      <4>5. start.pc # "open"
        BY <3>4
      <4>6. QED
        BY <1>0, <2>2, <3>1, <4>3, <4>4, <4>5, WindowsKeeps
    <3>5. QED
      BY <3>2, <3>3, <3>4
  <2>7. QED
    BY <2>2, <2>4, <2>5, <2>6
<1>3. CASE Maps
  <2>1. /\ wanted' \subseteq wanted /\ excused \subseteq excused' /\ UNCHANGED m_LogicalCoreIndex
        /\ exited' = exited /\ trapFlag' = trapFlag /\ m_Generation' = m_Generation
    BY <1>3, MappingType DEF Maps, MappingFrame
  <2>2. HandlesArmed'
    BY <1>0, <2>1 DEF HandlesArmed
  <2>3. AllMoved => AllMoved'
    BY <2>1 DEF AllMoved
  <2>4. ASSUME start.pc = "open", ~AllMoved'
        PROVE  /\ ~Removal' /\ start.count <= s_CoreMappingCount'
               /\ \A k \in 0 .. start.count - 1 : Id(k)' = Id(k)
    <3>0. /\ ~Removal /\ start.count <= s_CoreMappingCount
          /\ start.count \in Nat /\ s_CoreMappingCount \in Nat
      BY <2>3, <2>4, CapacityAssumption DEF AllOpen, ArmingType, StartRecord, TableType
    <3>1. CASE Store
      <4>1. StoreNext
        BY <3>1 DEF Store
      <4>2. setting # NoCall /\ ~setting.removes
        BY <3>0, <4>1, StoreStep DEF Removal
      <4>3. s_CoreMappingCount' >= s_CoreMappingCount /\ \A i \in Entries : Id(i)' = Id(i)
        BY <4>1, <4>2, StoreStep
      <4>4. ~Removal'
        BY <4>1, <4>2, StoreStep DEF Removal
      <4>5. s_CoreMappingCount' \in Nat
        BY <4>1, StoreStep, CapacityAssumption DEF TableType
      <4>6. \A k \in 0 .. start.count - 1 : k \in Entries
        BY <3>0 DEF Entries
      <4>7. QED
        BY <3>0, <4>3, <4>4, <4>5, <4>6
    <3>2. CASE \E u \in Threads, c \in Core : SetMapping(u, c)
      <4>1. PICK u \in Threads, c \in Core : SetMapping(u, c)
        BY <3>2
      <4>2. ~Removes(u, c)
        BY <2>4, <4>1 DEF SetMapping, AllMoved
      <4>3. CASE SetThreadCoreMapping(u, c)
        <5>1. ~setting'.removes /\ UNCHANGED <<s_CoreMappings, s_CoreMappingCount>>
          BY <4>2, <4>3, SetStep
        <5>2. QED
          BY <3>0, <5>1 DEF Removal, Id
      <4>4. CASE TableFull(u, c)
        <5>1. UNCHANGED <<s_CoreMappings, s_CoreMappingCount, setting>>
          BY <4>4 DEF TableFull
        <5>2. QED
          BY <3>0, <5>1 DEF Removal, Id
      <4>5. QED
        BY <4>1, <4>3, <4>4 DEF SetMapping
    <3>3. QED
      BY <1>3, <3>1, <3>2 DEF Maps
  <2>5. AllOpen'
    BY <1>0, <2>4 DEF AllOpen
  <2>6. ASSUME NEW t \in wanted, t \notin exited, t # Caller
        PROVE  WindowsArm(t)'
    <3>1. WindowsArm(t)
      BY <2>6
    <3>2. (Excused(t) => Excused(t)') /\ (trapFlag[t] => Armed(t)')
      BY <2>1, ExcusedStays DEF Armed
    <3>3. /\ Opened(t)' = Opened(t) /\ start.i \in Nat /\ start.count \in Nat
      BY <1>0 DEF Opened, ArmingType, StartRecord
    <3>4. start.pc = "open" /\ ~AllMoved' =>
            Opened(t)' \/ \E k \in start.i .. start.count - 1 : Id(k)' = t
      BY <2>3, <2>4, <3>1, <3>3 DEF WindowsArm
    <3>5. start.pc \in {"suspend", "generation", "enable", "handler", "arm"} => Opened(t)' \/ Excused(t)'
      BY <3>1, <3>2, <3>3 DEF WindowsArm
    <3>6. start.pc \in {"resume", "self"} => Armed(t)'
      BY <3>1, <3>2 DEF WindowsArm, Armed
    <3>7. start.pc \in {"enable", "handler", "arm", "resume", "self"} /\ m_Generation[t] = g_Generation =>
            m_LogicalCoreIndex[t] >= 0 \/ Excused(t)'
      BY <3>1, <3>2 DEF WindowsArm
    <3>8. QED
      BY <1>0, <2>1, <3>4, <3>5, <3>6, <3>7 DEF WindowsArm
  <2>7. QED
    BY <2>1, <2>2, <2>5, <2>6
<1>4. CASE \E u \in Threads : ExitThread(u)
  <2>1. PICK u \in Threads : ExitThread(u)
    BY <1>4
  <2>2. /\ Runs(u) /\ exited' = exited \cup {u} /\ \A v \in Threads \ {u} : trapFlag'[v] = trapFlag[v]
        /\ UNCHANGED <<wanted, excused, m_Generation>> /\ UNCHANGED tableVars
    BY <2>1, ExitType
  <2>3. HandlesArmed'
    BY <1>0, <2>2, TrapsAreElsewhere
  <2>4. UNCHANGED <<s_CoreMappings, s_CoreMappingCount, setting, m_LogicalCoreIndex>>
    BY <2>2 DEF tableVars
  <2>5. AllOpen'
    BY <1>0, <2>2, <2>4 DEF AllOpen, AllMoved, Removal
  <2>6. ASSUME NEW t \in wanted, t \notin exited', t # Caller
        PROVE  WindowsArm(t)'
    <3>1. WindowsArm(t) /\ t \in Threads /\ t # u
      BY <1>0, <2>2, <2>6
    <3>2. trapFlag[t] => Armed(t)'
      BY <2>2, <3>1 DEF Armed
    <3>3. QED
      BY <1>0, <2>2, <2>4, <3>1, <3>2 DEF WindowsArm, Opened, Excused, Armed, AllMoved, Id
  <2>7. QED
    BY <2>2, <2>3, <2>5, <2>6
<1>5. CASE UNCHANGED vars
  BY <1>5 DEF vars, armingVars, mappingVars, AllOpen, HandlesArmed, WindowsArm, Opened, Excused, Armed,
              AllMoved, Id, Removal
<1>6. QED
  BY <1>1, <1>2, <1>3, <1>4, <1>5 DEF Apart

LEMMA LoopsKeepWindows ==
  ASSUME BaseInv, SuspendedInv, AllOpen, HandlesArmed, OnlyWindows, ~Linux, ~broke, ~broke',
         \A t \in wanted \ (exited \cup {Caller}) : WindowsArm(t)
  PROVE  /\ AllOpen' /\ HandlesArmed'
         /\ \A t \in wanted' \ (exited' \cup {Caller}) : WindowsArm(t)'
<1> USE DEF BaseInv, TableInvs
<1>0. /\ start.i \in Nat /\ start.count \in Nat /\ start.handles \in Seq(Threads \ {Caller})
      /\ Len(start.handles) \in Nat /\ trapFlag \in [Threads -> BOOLEAN] /\ wanted \subseteq Threads
  BY CapacityAssumption DEF ArmingType, StartRecord
<1>1. UNCHANGED <<exited, m_Generation, g_Generation>>
  BY OnlyWindowsFrame DEF WindowsFrame
<1>2. UNCHANGED <<s_CoreMappings, s_CoreMappingCount, setting, m_LogicalCoreIndex>>
  BY LoopEndsType, OpenType, HandleType, ArmSelfType DEF OnlyWindows, Handles, tableVars
<1>3. CASE WindowsLoop
  <2>1. /\ UNCHANGED <<wanted, excused, trapFlag>> /\ start'.i = 0 /\ start'.handles = start.handles
        /\ \/ start.pc = "open" /\ start.i = start.count /\ start'.pc = "suspend"
           \/ start.pc = "suspend" /\ start.i = Len(start.handles) /\ start'.pc = "generation"
           \/ start.pc = "arm" /\ start.i = Len(start.handles) /\ start'.pc = "resume"
           \/ start.pc = "resume" /\ start.i = Len(start.handles) /\ start'.pc = "self"
    BY <1>3, LoopEndsType
  <2>2. AllOpen' /\ HandlesArmed'
    BY <2>1 DEF AllOpen, HandlesArmed
  <2>3. ASSUME NEW t \in wanted, t \notin exited, t # Caller
        PROVE  WindowsArm(t)'
    <3>1. WindowsArm(t) /\ t \in Threads
      BY <1>0, <2>3
    <3>2. Opened(t)' = Opened(t) /\ Excused(t)' = Excused(t) /\ Armed(t)' = Armed(t)
      BY <2>1 DEF Opened, Excused, Armed
    <3>3. CASE start.pc = "open" /\ start.i = start.count /\ start'.pc = "suspend"
      <4>1. start.i .. start.count - 1 = {}
        BY <1>0, <3>3
      <4>2. AllMoved => Excused(t)
        BY <3>1 DEF AllMoved, Excused
      <4>3. Opened(t) \/ Excused(t)
        BY <3>1, <3>3, <4>1, <4>2 DEF WindowsArm
      <4>4. QED
        BY <3>2, <3>3, <4>3 DEF WindowsArm
    <3>4. CASE start.pc = "suspend" /\ start'.pc = "generation"
      BY <3>1, <3>2, <3>4 DEF WindowsArm
    <3>5. CASE start.pc = "arm" /\ start.i = Len(start.handles) /\ start'.pc = "resume"
      <4>1. Opened(t) => trapFlag[t]
        BY <1>0, <3>5 DEF HandlesArmed, Opened
      <4>2. Armed(t)
        BY <3>1, <3>5, <4>1 DEF WindowsArm, Armed
      <4>3. QED
        BY <1>1, <1>2, <3>1, <3>2, <3>5, <4>2 DEF WindowsArm
    <3>6. CASE start.pc = "resume" /\ start'.pc = "self"
      BY <1>1, <1>2, <3>1, <3>2, <3>6 DEF WindowsArm
    <3>7. QED
      BY <2>1, <3>3, <3>4, <3>5, <3>6
  <2>4. QED
    BY <1>1, <2>1, <2>2, <2>3
<1>4. CASE OpenThread
  <2>1. UNCHANGED <<wanted, excused, trapFlag>>
    BY <1>4, OpenType
  <2>2. /\ start.pc = "open" /\ start'.pc = "open"
        /\ start.i < start.count /\ start'.i = start.i + 1 /\ start'.count = start.count
        /\ start'.handles = IF Id(start.i) # Caller /\ Opens(Id(start.i))
                            THEN Append(start.handles, Id(start.i)) ELSE start.handles
    BY <1>4, OpenFields DEF Id
  <2>3. AllOpen' /\ HandlesArmed'
    BY <1>2, <2>1, <2>2 DEF AllOpen, HandlesArmed, AllMoved, Removal
  <2>4. \A k \in start.i .. start.count - 1 : k = start.i \/ k \in start'.i .. start'.count - 1
    BY <1>0, <2>2
  <2>5. ASSUME NEW t \in wanted, t \notin exited, t # Caller
        PROVE  WindowsArm(t)'
    <3>1. WindowsArm(t) /\ t \in Threads
      BY <1>0, <2>5
    <3>2. Opened(t) => Opened(t)'
      <4>1. CASE start'.handles = start.handles
        BY <4>1 DEF Opened
      <4>2. CASE Id(start.i) # Caller /\ Opens(Id(start.i))
        <5>1. PICK u \in Threads \ {Caller} : u = Id(start.i)
          BY <4>2 DEF Opens
        <5>2. start'.handles = Append(start.handles, u)
          BY <2>2, <4>2, <5>1
        <5>3. \A j \in DOMAIN start.handles : j \in DOMAIN start'.handles
                                              /\ start'.handles[j] = start.handles[j]
          BY <1>0, <5>2
        <5>4. QED
          BY <5>3 DEF Opened
      <4>3. QED
        BY <2>2, <4>1, <4>2
    <3>3. Id(start.i) = t => Opened(t)'
      <4>1. SUFFICES ASSUME Id(start.i) = t
                     PROVE  Opened(t)'
        OBVIOUS
      <4>2. start'.handles = Append(start.handles, t)
        BY <2>2, <2>5, <3>1, <4>1 DEF Opens
      <4>3. /\ Len(start.handles) + 1 \in DOMAIN start'.handles
            /\ start'.handles[Len(start.handles) + 1] = t
        BY <1>0, <2>5, <3>1, <4>2
      <4>4. QED
        BY <4>3 DEF Opened
    <3>4. ~AllMoved => Opened(t)' \/ \E k \in start'.i .. start'.count - 1 : Id(k) = t
      BY <2>2, <2>4, <3>1, <3>2, <3>3 DEF WindowsArm
    <3>5. AllMoved' = AllMoved /\ \A k : Id(k)' = Id(k)
      BY <1>2, <2>1 DEF AllMoved, Id
    <3>6. ~AllMoved' => Opened(t)' \/ \E k \in start'.i .. start'.count - 1 : Id(k)' = t
      BY <3>4, <3>5
    <3>7. QED
      BY <2>2, <3>6 DEF WindowsArm, Id
  <2>6. QED
    BY <1>1, <2>1, <2>3, <2>5
<1>5. CASE Handles
  <2>1. /\ UNCHANGED <<wanted, excused>> /\ start.i + 1 \in DOMAIN start.handles
        /\ Handle \in Threads \ {Caller} /\ Handle = start.handles[start.i + 1]
        /\ start'.pc = start.pc /\ start'.i = start.i + 1 /\ start'.handles = start.handles
        /\ start.pc \in {"suspend", "arm", "resume"}
    BY <1>5, HandleType DEF Handles, Handle
  <2>2. AllOpen'
    BY <2>1 DEF AllOpen
  <2>3. \A t \in Threads : trapFlag[t] => trapFlag'[t]
    <3>1. trapFlag' = trapFlag \/ trapFlag' = [trapFlag EXCEPT ![Handle] = TRUE]
      BY <1>5, HandleType DEF Handles
    <3>2. QED
      BY <1>0, <3>1
  <2>4. HandlesArmed'
    <3>1. SUFFICES ASSUME start.pc = "arm", NEW j \in 1 .. start.i + 1
                   PROVE  trapFlag'[start.handles[j]]
      BY <2>1 DEF HandlesArmed
    <3>2. trapFlag' = [trapFlag EXCEPT ![Handle] = TRUE]
      BY <1>5, <3>1, HandleType DEF Handles
    <3>3. CASE j = start.i + 1
      BY <1>0, <2>1, <3>2, <3>3
    <3>4. CASE j \in 1 .. start.i
      <4>1. trapFlag[start.handles[j]]
        BY <3>1, <3>4 DEF HandlesArmed
      <4>2. j \in DOMAIN start.handles
        BY <1>0, <2>1, <3>4
      <4>3. start.handles[j] \in Threads
        BY <1>0, <4>2
      <4>4. QED
        BY <2>3, <4>1, <4>3
    <3>5. QED
      BY <1>0, <3>3, <3>4
  <2>5. ASSUME NEW t \in wanted, t \notin exited, t # Caller
        PROVE  WindowsArm(t)'
    <3>1. WindowsArm(t) /\ t \in Threads
      BY <1>0, <2>5
    <3>2. Opened(t)' = Opened(t) /\ Excused(t)' = Excused(t) /\ (Armed(t) => Armed(t)')
      BY <2>1, <2>3, <3>1 DEF Opened, Excused, Armed
    <3>3. QED
      BY <1>1, <1>2, <2>1, <3>1, <3>2 DEF WindowsArm
  <2>6. QED
    BY <1>1, <2>1, <2>2, <2>4, <2>5
<1>6. CASE ArmSelf
  <2>1. start'.pc = "none"
    BY <1>6, ArmSelfType
  <2>2. QED
    BY <2>1 DEF AllOpen, HandlesArmed, WindowsArm
<1>7. QED
  BY <1>3, <1>4, <1>5, <1>6 DEF OnlyWindows

LEMMA WindowsArmStep ==
  ASSUME BaseInv, SuspendedInv, FlagInv, WantedInv, WindowsArmInv, Steps
  PROVE  WindowsArmInv'
<1> USE DEF BaseInv, TableInvs
<1> SUFFICES ASSUME ~Linux, ~broke, ~broke'
             PROVE  /\ AllOpen' /\ HandlesArmed'
                    /\ \A t \in wanted' \ (exited' \cup {Caller}) : WindowsArm(t)'
  BY ScenarioStays, BreaksFor DEF WindowsArmInv
<1>0. /\ AllOpen /\ HandlesArmed
      /\ \A t \in wanted \ (exited \cup {Caller}) : WindowsArm(t)
      /\ wanted \subseteq Threads
  BY DEF WindowsArmInv, ArmingType
<1>1. CASE Start
  <2>1. /\ start'.pc = "open" /\ start'.i = 0 /\ start'.count = s_CoreMappingCount
        /\ UNCHANGED <<s_CoreMappings, s_CoreMappingCount, setting>>
    BY <1>1, StartType DEF tableVars
  <2>2. excused' = IF Removal THEN Threads \X {"moved"} ELSE {}
    BY <1>1 DEF Start, Removal
  <2>3. ~AllMoved' => ~Removal
    BY <2>2 DEF AllMoved
  <2>4. s_CoreMappingCount \in Nat
    BY CapacityAssumption DEF TableType
  <2>5. AllOpen' /\ HandlesArmed'
    BY <2>1, <2>3, <2>4 DEF AllOpen, HandlesArmed, Removal
  <2>6. ASSUME NEW t \in wanted'
        PROVE  WindowsArm(t)'
    <3>1. \E k \in 0 .. s_CoreMappingCount - 1 : Id(k) = t
      BY <1>1, <2>6, WantedEntry DEF Entries
    <3>2. QED
      BY <2>1, <3>1 DEF WindowsArm, Id
  <2>7. QED
    BY <2>5, <2>6
<1>2. CASE Shared
  <2>1. /\ UNCHANGED <<exited, wanted, excused, trapFlag, m_Generation>> /\ UNCHANGED tableVars
        /\ start'.i = 0 /\ start'.handles = start.handles
    BY <1>2, SharedType DEF Shared
  <2>2. m_LogicalCoreIndex' = m_LogicalCoreIndex
    BY <2>1 DEF tableVars
  <2>3. \/ start.pc = "generation" /\ start'.pc = "enable" /\ g_Generation' = g_Generation + 1
        \/ start.pc = "enable" /\ start'.pc = "handler" /\ g_Generation' = g_Generation
        \/ start.pc = "handler" /\ start'.pc = "arm" /\ g_Generation' = g_Generation
        \/ start.pc = "ptracer"
    BY <1>2, SharedPhases
  <2>4. start.pc # "ptracer"
    BY DEF PhaseInv, WindowsPc
  <2>5. AllOpen' /\ HandlesArmed'
    BY <2>1, <2>3, <2>4 DEF AllOpen, HandlesArmed
  <2>6. ASSUME NEW t \in wanted, t \notin exited, t # Caller
        PROVE  WindowsArm(t)'
    <3>1. WindowsArm(t) /\ t \in Threads
      BY <1>0, <2>6
    <3>2. Opened(t)' = Opened(t) /\ Excused(t)' = Excused(t)
      BY <2>1 DEF Opened, Excused
    <3>3. m_Generation[t] # g_Generation + 1
      BY <3>1 DEF PhaseInv, ArmingType
    <3>4. CASE start.pc = "generation" /\ start'.pc = "enable" /\ g_Generation' = g_Generation + 1
      BY <2>1, <3>1, <3>2, <3>3, <3>4 DEF WindowsArm
    <3>5. CASE start.pc \in {"enable", "handler"} /\ start'.pc \in {"handler", "arm"}
               /\ g_Generation' = g_Generation
      BY <2>1, <2>2, <3>1, <3>2, <3>5 DEF WindowsArm
    <3>6. QED
      BY <2>3, <2>4, <3>4, <3>5
  <2>7. QED
    BY <2>1, <2>5, <2>6
<1>3. CASE WaitForHooks \/ WaitForExit
  BY <1>3, WaitType DEF PhaseInv, WindowsPc
<1>4. CASE OnlyWindows
  BY <1>0, <1>4, LoopsKeepWindows
<1>5. CASE Helper
  BY <1>5, HelperOnlyLinux
<1>6. CASE OtherExits
  <2>1. UNCHANGED <<start, g_Generation, trapFlag, m_Generation, exited, wanted, excused>>
        /\ UNCHANGED tableVars
    BY <1>6, OtherType
  <2>2. UNCHANGED <<s_CoreMappings, s_CoreMappingCount, setting, m_LogicalCoreIndex>>
    BY <2>1 DEF tableVars
  <2>3. QED
    BY <1>0, <2>1, <2>2 DEF AllOpen, HandlesArmed, WindowsArm, Opened, Excused, Armed, AllMoved, Id, Removal
<1>7. CASE Apart
  BY <1>0, <1>7, ApartKeepsWindows
<1>8. QED
  BY <1>1, <1>2, <1>3, <1>4, <1>5, <1>6, <1>7, StepsInGroups

ArmedInv == FlagInv /\ WantedInv /\ LinuxArmInv /\ WindowsArmInv

\* When CacheSimStartCapture returns, every thread that lives and has been
\* mapped all along is single-stepping, but for the threads that are excused,
\* on both systems, whatever the threads do while the start goes on.
THEOREM ArmedWhenStartedThere ==
  ASSUME AtMostOneOther
  PROVE  Spec => ArmedWhenStarted
<1> DEFINE Returns == (start.pc # "none" /\ start'.pc = "none" /\ ~broke') =>
                        \A t \in wanted \ exited : trapFlag'[t] \/ Excused(t)
<1>1. Init => ArmedInv
  <2> SUFFICES ASSUME Init
               PROVE  ArmedInv
    OBVIOUS
  <2>1. start.pc = "none" /\ wanted = {}
    BY DEF Init, Idle
  <2>2. FlagInv
    BY DEF Init, Idle, NoHelper, FlagInv
  <2>3. QED
    BY <2>1, <2>2 DEF ArmedInv, WantedInv, LinuxArmInv, WindowsArmInv, AllOpen, HandlesArmed
<1>2. StoppedInv /\ ArmedInv /\ [Next]_vars => ArmedInv'
  <2> SUFFICES ASSUME StoppedInv, ArmedInv, [Next]_vars
               PROVE  ArmedInv'
    OBVIOUS
  <2>1. Steps
    BY NextSteps
  <2>2. QED
    BY <2>1, FlagStep, WantedStep, LinuxArmStep, WindowsArmStep DEF StoppedInv, ArmedInv
<1>3. StoppedInv /\ ArmedInv /\ [Next]_vars => [Returns]_vars
  <2> SUFFICES ASSUME StoppedInv, ArmedInv, [Next]_vars,
                      start.pc # "none", start'.pc = "none", ~broke',
                      NEW t \in wanted, t \notin exited
               PROVE  trapFlag'[t] \/ Excused(t)
    OBVIOUS
  <2> USE DEF StoppedInv, ArmedInv
  <2>0. Steps
    BY NextSteps
  <2>1. t \in Threads /\ ArmingType
    BY DEF BaseInv, ArmingType
  <2>2. CASE WaitForExit
    <3>1. /\ trapFlag' = trapFlag /\ start.pc = "wait2"
          /\ \/ Childless \/ others.zombie > 0 \/ helper.pc = "zombie"
      BY <2>1, <2>2, WaitType DEF WaitForHooks, WaitForExit, Wait, Goes
    <3>2. Linux
      BY <3>1 DEF BaseInv, PhaseInv, WindowsPc
    <3>3. helper.pc \in {"none", "zombie"}
      BY <2>1, <3>1, <3>2 DEF ChildInv, Childless, ArmingType
    <3>4. Armed(t)
      BY <3>2, <3>3 DEF LinuxArmInv, LinuxArm
    <3>5. QED
      BY <3>1, <3>4 DEF Armed
  <2>3. CASE ArmSelf
    <3>1. /\ start.pc = "self" /\ trapFlag'[t] = (trapFlag[t] \/ t = Caller) /\ Runs(Caller)
      BY <2>1, <2>3, ArmSelfType
    <3>2. ~Linux /\ ~broke
      BY <3>1 DEF BaseInv, PhaseInv, LinuxPc, Runs
    <3>3. t # Caller => Armed(t)
      BY <3>1, <3>2 DEF WindowsArmInv, WindowsArm
    <3>4. QED
      BY <2>1, <3>1, <3>3 DEF Armed
  <2>4. CASE Start \/ Shared \/ WaitForHooks \/ WindowsLoop \/ OpenThread \/ Handles
    <3>1. start'.pc # "none"
      <4>1. CASE Start
        BY <4>1, StartType DEF BaseInv, TableInvs
      <4>2. CASE Shared
        BY <2>1, <4>2, SharedPhases
      <4>3. CASE WaitForHooks
        BY <2>1, <4>3, Moves DEF WaitForHooks, Wait, LinuxPc
      <4>4. CASE WindowsLoop \/ OpenThread
        BY <2>1, <4>4, LoopEndsType, OpenFields
      <4>5. CASE Handles
        BY <2>1, <4>5, HandleType DEF Handles
      <4>6. QED
        BY <2>4, <4>1, <4>2, <4>3, <4>4, <4>5
    <3>2. QED
      BY <3>1
  <2>5. CASE Helper \/ OtherExits \/ Apart
    <3>1. start' = start
      BY <2>1, <2>5, HelperType, OtherType, ApartFrame DEF HelperFrame
    <3>2. QED
      BY <3>1
  <2>6. QED
    BY <2>0, <2>2, <2>3, <2>4, <2>5, StepsInGroups DEF OnlyWindows
<1>4. QED
  BY <1>1, <1>2, <1>3, StoppedInvariant, PTL DEF Spec, ArmedWhenStarted
=============================================================================
