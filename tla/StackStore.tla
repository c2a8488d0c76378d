----------------------------- MODULE StackStore -----------------------------
(***************************************************************************)
(* The call stacks and the counters of a capture (CacheSimCommon.inl):     *)
(* InsertStack puts every distinct stack once into an array that grows,    *)
(* with a zero after its frames, and GetRipNode counts under the address   *)
(* of an instruction and the offset of its stack. All of it is done under  *)
(* g_Lock (CaptureRuntime), here in one step.                              *)
(***************************************************************************)
EXTENDS Md5

CONSTANTS
  MaxCalls,       \* kMaxCalls: the frames of a stack and the zero fit in it
  InitialReserve, \* 65536
  Counters,       \* 0 .. kAccessResultCount - 1
  CounterRange,   \* 2^32, the range of a counter
  Rips, Stacks    \* the addresses and the call stacks of the application

ASSUME ReserveAssumption == MaxCalls \in Nat /\ InitialReserve \in Nat /\ MaxCalls <= InitialReserve
ASSUME CounterAssumption == CounterRange \in Nat \ {0}
ASSUME RipsAssumption == Rips \subseteq Nat
ASSUME StacksAssumption == \A s \in Stacks : s \in Seq(Nat \ {0}) /\ Len(s) < MaxCalls

VARIABLES
  g_Stacks,     \* StackKey to [m_Offset, m_Count]
  g_StackData,  \* m_Frames, m_Count and m_ReserveCount
  g_Stats       \* <<rip, stack offset>> to the counters

storeVars == <<g_Stacks, g_StackData, g_Stats>>

NoStackData == [m_Frames |-> << >>, m_Count |-> 0, m_ReserveCount |-> 0]

StoreInit ==
  /\ g_Stacks = << >>
  /\ g_StackData = NoStackData
  /\ g_Stats = << >>

Put(f, x, v) == [y \in DOMAIN f \cup {x} |-> IF y = x THEN v ELSE f[y]]

\* Mutant: room for the zero after the frames is forgotten.
ReserveNoZero(d, frame_count) ==
  IF d.m_Count + frame_count <= d.m_ReserveCount THEN d
  ELSE LET n == IF d.m_ReserveCount = 0 THEN InitialReserve ELSE 2 * d.m_ReserveCount
       IN [d EXCEPT !.m_ReserveCount = n,
                    !.m_Frames = [i \in 1 .. n |-> IF i <= d.m_Count THEN d.m_Frames[i] ELSE 0]]

\* The array is doubled once; VirtualMemoryRealloc keeps what is in it and the
\* rest of it is zero.
Reserve(d, frame_count) ==
  IF d.m_Count + frame_count + 1 <= d.m_ReserveCount THEN d
  ELSE LET n == IF d.m_ReserveCount = 0 THEN InitialReserve ELSE 2 * d.m_ReserveCount
       IN [d EXCEPT !.m_ReserveCount = n,
                    !.m_Frames = [i \in 1 .. n |-> IF i <= d.m_Count THEN d.m_Frames[i] ELSE 0]]

\* The frames and a zero at the end; beyond the array if it is too short.
Stored(d, frames) ==
  LET n == d.m_Count
      written == frames \o <<0>>
  IN [d EXCEPT !.m_Count = n + Len(written),
               !.m_Frames = [i \in DOMAIN d.m_Frames \cup (n + 1 .. n + Len(written)) |->
                  IF i > n /\ i <= n + Len(written) THEN written[i - n] ELSE d.m_Frames[i]]]

\* The offset that InsertStack returns.
OffsetOf(frames) ==
  IF StackKey(frames) \in DOMAIN g_Stacks THEN g_Stacks[StackKey(frames)].m_Offset
  ELSE g_StackData.m_Count

InsertStack(frames) ==
  IF StackKey(frames) \in DOMAIN g_Stacks THEN UNCHANGED <<g_Stacks, g_StackData>>
  ELSE /\ g_StackData' = Stored(Reserve(g_StackData, Len(frames)), frames)
       /\ g_Stacks' = Put(g_Stacks, StackKey(frames),
                          [m_Offset |-> g_StackData.m_Count, m_Count |-> Len(frames)])

\* Counters wrap.
NoCounts == [k \in Counters |-> 0]
Plus(a, b) == [k \in Counters |-> (a[k] + b[k]) % CounterRange]

\* GetRipNode: the node of an instruction, new with zeros or as it is.
GetRipNode(rip, offset, counts) ==
  LET key == <<rip, offset>>
  IN g_Stats' = Put(g_Stats, key,
                    Plus(IF key \in DOMAIN g_Stats THEN g_Stats[key] ELSE NoCounts, counts))

\* The end of CacheSimEndCapture
FreeAll ==
  /\ g_Stacks' = << >>
  /\ g_StackData' = NoStackData
  /\ g_Stats' = << >>
-----------------------------------------------------------------------------
\* From an offset to the next zero, as TreeModel::createTree reads it.
StackAt(frames, offset) ==
  LET end == CHOOSE e \in offset + 1 .. Len(frames) :
               frames[e] = 0 /\ \A i \in offset + 1 .. e - 1 : frames[i] # 0
  IN SubSeq(frames, offset + 1, end - 1)
=============================================================================
