# ig-cachesim in TLA+

ig-cachesim measures the cache behaviour of a running x64 program. A library in
the program single-steps its threads, disassembles every instruction, feeds its
memory accesses to a simulation of the two four-core modules of an AMD Jaguar
and counts the outcomes per instruction and call stack. The capture is saved to
a file that a GUI loads and shows.

This directory holds TLA+ models of that code, TLC configurations that check
them and TLAPS proofs about them. `PROJECT.json` maps every definition to the
lines it models and lists runs, mutants, findings, hazards and theorems.

## 1. Inventory

| Part | State | Operations | Works with |
|---|---|---|---|
| `Cache<>` (CacheSimInternals.h) | `m_Sets`: rows of ways, most recently used first, 0 = invalid | `Init`, `Access`, `Invalidate` | used by JaguarModule |
| `JaguarModule` (CacheSimInternals.*) | per core a D1 and an I1, per module an L2 | `Access(core, addr, mode)`, `Init` | two of them, each with a pointer to the other's L2 |
| `JaguarCacheSim` | two modules | `Access(core, addr, size, mode)`: a loop over lines; `Init` | called under `g_Lock`, `Init` without it |
| Recorder, common (CacheSimCommon.inl) | `g_TraceEnabled`, `g_Generation`, `g_Lock`, `s_CoreMappings`, `g_Stacks`, `g_StackData`, `g_Stats`; per thread `s_ThreadState` | `CacheSimSetThreadCoreMapping`, `CacheSimEndCapture`, `GenerateMemoryAccesses`, `InsertStack` | every traced thread runs it in its trap handler |
| Recorder, Linux (CacheSimLinux.cpp) | the trap flags, `g_SignalHandlerInstalled`, a forked child | `CacheSimStartCapture` (fork, ptrace every mapped thread, set its trap flag), `HandleTrap`, `CacheSimRemoveHandler` | SIGTRAP, ptrace, wait |
| Recorder, Windows (CacheSimWindows.cpp) | the trap flags, a vectored exception handler | `CacheSimStartCapture` (suspend, set the flag, resume), `StepFilter` | |
| Core mapping table | `s_CoreMappings`, `s_CoreMappingCount` | set, remove (the last entry moves), find without the lock | |
| `GenericHashTable` | an array of chains, element count, an allocator of blocks | `Insert`, `Find`, `Remove`, `FreeAll`, iteration, growth | `g_Stacks`, `g_Stats`, and the tables of the GUI |
| Instruction operands | none | `ReadReg`, `ComputeEa`, the classification in `GenerateMemoryAccesses` | udis86 |
| Trace file (CacheSimData.h) | sections at offsets from the header | written by `CacheSimEndCapture`, read by the GUI, which appends symbols | |
| GUI: `TraceData`, `SymbolResolver` | a mapped file, a symbol table | load, resolve symbols, map addresses to symbols | background jobs that signal the GUI thread |
| GUI: `TraceTab`, main window | tabs, number of pending jobs | open, load, resolve, build views, close | |
| GUI: `FlatModel`, `TreeModel`, `ObjectStack`, `AnnotationView` | rows, tree nodes, an arena, source lines | aggregate, sort, filter, expand, annotate | |
| MD5 (Md5.cpp) | a context with a block that is filled up | `md5_init`, `md5_append`, `md5_finish` | the key of a call stack |
| udis86 | one `ud_t` per thread, reused for every instruction | `ud_set_input_buffer`, `ud_disassemble` | generated tables (itab.c) |
| examples, tests, DynamicLoader | | users of the above | |

What is hard here:

* **Every instruction is a context switch.** The handler runs on top of any
  instruction of any thread, those of the recorder's own interface included,
  and takes a spin lock that the interrupted code may hold.
* **The end of a capture does not wait for the threads.** It clears a flag; each
  thread notices in its next trap. State that a thread cached before (core, stack
  offset) may be used after the tables it refers to were freed.
* **A forked child arms its parent's threads** while the parent goes on.
* **Long histories.** What a cache reports depends on all accesses, evictions and
  invalidations of all cores before.
* **A decoder that is never reset.** What an instruction leaves in the `ud_t` of
  its thread is there when the next one is decoded.
* **A file that outlives its writer**, is extended in place by the viewer, and is
  read through offsets that were patched in.
* **Boundaries.** 64-bit wrap-around of line addresses, line number 0, accesses
  that end at a line boundary, a full mapping table, a growing hash table.

What makes each part correct:

* **Cache**: it is a least-recently-used cache, set by set, through any sequence
  of accesses and invalidations.
* **JaguarModule**: no hit is reported on a line that was overwritten since by a
  core whose writes invalidate that cache; no cache holds a line twice.
* **JaguarCacheSim**: a call touches every line of the access, returns, and its
  result is one the caller's counters are meant for.
* **Recorder**: every recorded node names the call stack it was reached through;
  a saved capture holds its own samples only; the cache is not cleared under a
  commit; starting traces the mapped threads and ending lets all of them go;
  nobody waits for `g_Lock` for ever; no thread is left stopped, and none is
  armed that nobody handles; a lookup without the lock finds the thread's core.
* **Decoder**: length, mnemonic and memory operand are those of the processor,
  whatever was decoded before.
* **Stack store, trace file, symbols, views**: what was recorded is what is
  saved, read, named, added up and shown.
* **Hash table**: a map whose values do not move, and an iteration that yields
  each key once.
* **GUI**: a tab outlives the jobs that use it, its kept indices name its views,
  counters and buttons come back.

## 2. Modules

`SetData` <- `Cache` (implements `LruCache`) <- `MCCache`<br>
`SetData` <- `JaguarModule` <- `JaguarCacheSim` (implements `ModuleSpec`) <- `GenerateMemoryAccesses` (with `Operands`, which uses `Subsequences`; implements `JaguarCacheSim`) <- `MCGenerateMemoryAccesses`; also `JaguarModule` <- `MCJaguarModule`<br>
`OpcodeTables` <- `Disassembler` <- `DecodeSequence` (with `InstructionSet`) <- `MCDecodeSequence`<br>
`CaptureRuntime` <- `MCCaptureRuntime`<br>
`CoreMappings` <- `CaptureArming` <- `MCCaptureArming`<br>
`Md5` <- `StackStore`, `TraceFile` <- `SymbolResolver` (with `Subsequences`); both <- `ProfileModels`, which with `ObjectStack` <- `Profile` <- `MCProfile`<br>
`GenericHashTable` (uses `Subsequences`; implements `StableMap`) <- `MCGenericHashTable`<br>
`TraceViewer` (uses `Subsequences`) <- `MCTraceViewer`

Proofs: `Data_proof` has lemmas about `SetData` and `Subsequences` and about
division, finite sets and sequences, which the others use; `Cache_proof`,
`GenerateMemoryAccesses_proof` (also of `JaguarModule` and `JaguarCacheSim`, which
the commits drive), `CaptureRuntime_proof`, `CaptureArming_proof` (also of
`CoreMappings`), `GenericHashTable_proof`, `TraceViewer_proof` and `Profile_proof` (also of
the modules `Profile` is composed of) the theorems about the components they are named after.

An operator whose comment starts with "Mutant:" stands in front of the
definition it is a faulty form of. It is used by no specification;
`PROJECT.json` names the property that TLC finds violated with it.

### SetData, Cache, LruCache

A row is `SetData::m_Addr` as a function from ways to line numbers, a cache is
`m_Sets` as a function from sets to rows. The loops that shift or rotate the
array are written as what they leave in each way (`AccessRow`, `InvalidateRow`).
Ways and sets are parameters of the operators, as they are of the template.
`Cache` makes a state machine of one such cache, with one action per method and
the last call and its result in the variable `call`. `LruCache` is what it
promises: per set a sequence of distinct lines in order of use, no longer than
the number of ways. The refinement maps a row to the sequence of its valid ways.
Because `call` is visible, a wrong result of `Access` refutes it as well.

### JaguarModule

The D1 and I1 of every core and the L2 of both modules. `ModuleAccess` is one
`JaguarModule::Access`: the invalidations a write makes, then the L2, then the
L1 that serves the mode; `Result` is the value it returns. `ModuleReset` is
`Init`. The history variables `d1Used`, `i1Used` and `l2Used` say, without
reference to any cache, which line was used by whom since somebody wrote to it.

### JaguarCacheSim

`JaguarCacheSim::Access` with its loop: `Call` computes the first and the last
line address, `LoopStep` is one trip, `Return` the end. Addresses are taken
modulo `AddrSpace`. `Reset` may come at any time, also between two trips,
because `CacheSimStartCapture` calls `Init` without the lock.

### Operands, GenerateMemoryAccesses

`Operands` computes which memory an instruction uses from what udis86 reports of
it (mnemonic, operands) and the registers: `ReadReg`, `ComputeEa`, the two
switches of `GenerateMemoryAccesses` (`ImplicitOps`, `SpecialOps`), the
assertions of its lambdas (`Breaks`). The two arrays of data accesses are what
is kept of all operands, in their order (`Selected` in `Subsequences`). Next to it stands what the processor does
(`ProcessorEa`, `ProcessorReads`, `ProcessorWrites`). `GenerateMemoryAccesses`
composes this with `JaguarCacheSim`: `Decode` takes an instruction of some core,
`Issue` makes its next call of `Access`, `Trip` is a trip of the loop there,
`Count` its return and the counter it adds to, `ResetUnderCommit` an `Init` in
between. `Disassembled` says which operands udis86 gives an instruction: that is
all the proofs know of the set of instructions. The commit holds `g_Lock`, so instructions follow one another.

### OpcodeTables, Disassembler, InstructionSet, DecodeSequence

`Disassembler` is `ud_decode` in 64-bit mode (the recorder sets no other), step
by step under the names of decode.c: prefixes, the walk through the lookup
tables (`decode_ext`), `resolve_mode`, the operands, the end of `ud_decode`
where an error wipes them. A step takes a `ud_t` and returns the changed one, so
that what is not assigned keeps its value from the instruction before. Registers
are pairs of a class and a number; a displacement or immediate is the place and
width of its bytes, which tells apart all that can go wrong in reading it.
`OpcodeTables` holds the rows and tables of itab.c, under their numbers, that
the instructions of the run reach: at least one table of every kind. `InstructionSet` is external: what
the processor makes of an instruction, from the AMD64 manual's encoding, not from the code. `DecodeSequence`
is the use the trap handlers make of it: one `ud_init`, then any instruction
after any other.

### CaptureRuntime

A thread has two positions: `upc` in its own code or in a function of the
interface, and `hpc` in the trap handler on top of it. `UserStep` is the CPU: a
step made with the trap flag set is followed by the handler.

| Code | Actions |
|---|---|
| `HandleTrap` | `NotTracing`, `Tracing`, `Refresh`, `Filter`, `LockForInsert`, `InsertStack` |
| `GenerateMemoryAccesses` | `LockForCommit`, `TooLate`, `InTime`, `Record` (with `InvalidateStack`) |
| `CacheSimSetThreadCoreMapping` | `LockForMapping`, then `MapThread` or `UnmapThread` |
| `CacheSimStartCapture`, parent | `StartReset`, `StartGeneration`, `StartEnable`, `StartHandler`, `StartReturn` |
| `CacheSimStartCapture`, child | `ChildArms`, `ChildRefused` |
| `CacheSimEndCapture` | `EndDisable`, `EndClearFlag`, `EndLock`, `EndSave` |
| the application | `Execute`: one instruction, which may call or return |

A node carries, besides the offset the code stores, the call stack and the
generation in which its trap began: that is what the offset is compared with.

The code does not hold up against every application, so the constant `Allowed`
says what the environment may do besides tracing in an orderly way:
`"straggler"` (a capture is started while threads have not noticed the end of
the last one), `"cancel"` (ended without saving), `"map"` (mappings are changed
during a capture), `"early"` (the forked child runs before its parent waits).
The documentation forbids none of them. With `Allowed = {}` a capture starts
when all threads are out of the handler and mappings change between captures, as
in the two examples of the repository. Each run names what it allows; section 5
says what goes wrong with more.

### CoreMappings, CaptureArming

`CoreMappings` is `s_CoreMappings` as the array it is. A call of
`CacheSimSetThreadCoreMapping` makes its stores one by one (`StoresFor`, in the
orders a compiler may choose where a whole entry is copied), a lookup reads the
count, the ids and the core one by one, without the lock. `CaptureArming` adds
the two implementations of `CacheSimStartCapture`:

| Linux | Actions |
|---|---|
| parent | `Start` (with the fork), `IncrementGeneration`, `EnableTrace`, `InstallHandler`, `SetPtracer`, `WaitForHooks`, `WaitForExit` |
| forked child | `Attach`, `AttachedAll`, `ArmTraced` or `ArmFails`, `ArmedAll`, `Detach`, `ContinueProcess` |
| **Windows** | `OpenThread`, `SuspendThread`, `InstallHandler`, `SetThreadContext`, `ResumeThread`, `ArmSelf` |
| both | `TrapLookup`, `TrapFind`, `TrapFound`, `TrapNotTracing`, `TrapUnhandled`, `EndCapture`, `CacheSimRemoveHandler` |
| environment | `ExitThread`, `OtherExits` (a child process that is not the helper), `SetMapping` |

`CaptureRuntime` has the start of a capture in less detail and what a trap
records in more; the two share the generation, the enable flag and the trap flags.

### Md5, StackStore, TraceFile, SymbolResolver, ProfileModels, ObjectStack, Profile

The way of a sample to the screen. `StackStore` is `InsertStack` with its array
that grows by doubling, and `GetRipNode`; `Md5` the key of a stack: blocks,
padding and length as `md5_append` and `md5_finish` make them, with
`md5_process` as a function that keeps its whole input (free of collisions).
`TraceFile` has the bytes of the file as a set of placed items (`Write`), the
alignment, the words of the header that are patched, and the accessors of
`SerializedHeader`, which find an item only at the exact place it was written
to. `FindSymbol` goes through the rounds of its binary search (`Halved`).
`SymbolResolver` is what both resolvers make of the answers of
`addr2line`, `objdump` and DbgHelp, and the table of symbols and strings of
`symbolResolveTask`. Where the code goes through an array and keeps, sorts or
collects what is new, the models have `Selected`, `Order` (both in
`Subsequences`) and `Distinct`, so that a tree's children are the distinct next
frames of the paths that go on. The objects a program may have loaded are the
constant `Objects`; the segments of a Linux program lie `Apart`. `ProfileModels` are the caches and lookups of `TraceData`,
the rows of `FlatModel`, the tree of `TreeModel` with the index, parent and row
count its view asks for, and the lines and tool tips `AnnotationView` shows. `ObjectStack` is
the arena of the tree's nodes. `Profile` composes them: `Record`, `EndCapture`
(or `EndCaptureFails`), `LoadTrace`, `Resolve` (or `ResolveFails`,
`KilledWhileResolving`), and the views. What happened is kept in history
variables (`recorded`, `loaded`, `info`), from which the properties compute what
must be shown without use of the file.

### GenericHashTable, StableMap

Chains are sequences of elements, an element is a key and a place. The allocator
hands out places from blocks; `Grown` is the walk that pushes every element on
its new chain: as the capacity doubles, what arrives in a new chain comes from one
old chain, its last element first; the iterator is the rest of a chain and the next slot.
`StableMap` is a map from keys to a place and a counter; the place of a key does
not change while the key is there. `held` are pointers users keep. `Remove` is
called with keys that are there (for others the code follows a null pointer) and
does not count down, as in the code. Nobody in the repository calls it today.

### TraceViewer

One action is one slot of the GUI thread, one stretch of a background job
between two signals, or the delivery of one queued signal. Deleting a tab drops
the events on their way to it (`QueueWithout`) and waits for nobody, as Qt does. A step that uses
an object that is gone, or a mapping that was replaced, may end the program or
go on (`Uses`). The program is left by closing its window or by the menu
(`CloseWindow`, `QuitAction`); the jobs run on. The history variable `innerClosed` remembers tabs in which a view
was closed that had another one behind it.

## 3. Runs

| Run | Shows |
|---|---|
| `cache` | the arrays implement an LRU cache |
| `module` | `CachesWellFormed`, `NoStaleHit` with three cores, two of which share a module |
| `commit` | the simulator under instructions of every kind, those included that the recorder has no case for: `CoversTheAccess`, `ResultMatchesMode`, `RepeatHits`, `Terminates`, `EveryAccessCounted`, `CommitsWhatTheProcessorDoes` |
| `capture` | `NodesNameTheirStack`, `SavesOneCapture`, `UnmappedNotRecorded` with `Allowed = {}` |
| `straggler_reset` | with stragglers and a child that may attach at any time after the fork: `ResetExcludesCommit` (the lock that `EndCapture` takes between two captures is what orders them) and `StartTraces` |
| `capture_liveness` | `EndReturns`, `LockReleased`, `TrapFlagsCleared`, with cancelled captures |
| `decoder` | `DecodesWhatTheProcessorReads`, `LengthIsRight`, `OperandsAreContiguous` for every addressing form and prefix, after instructions that leave something in every field |
| `arming` | `NobodyLeftStopped`, `ArmedThreadsAreHandled`, `ArmedWhenStarted`, `StartReturns`, `LookupIsCurrent` on Linux, with and without restricted ptrace, and on Windows |
| `profile` | `StoredStacksReadBack`, `SavedFileReadsBack`, `SymbolsNameTheirAddress`, `ViewsAgreeOnTotals`, `AnnotationShowsItsLines`, `ArenaHoldsTheTree`, with a save that fails and a viewer that is killed while it writes |
| `hash_table` | `ImplementsMap`, `IterationIsComplete`, `FillIsBounded` |
| `viewer` | `IndexNamesItsView`, `TabOutlivesItsTrees`, `TasksFinish`, `ButtonsComeBack` |
| `kick_out` (violation) | a write leaves the line in the L1s of the other module |

Deadlock is checked wherever the system may not stop. It is not in `commit`,
where an assertion may end the program, in the viewer,
where everything may be closed or the program have ended, nor with stragglers
and in `arming`, where the kernel may have ended the process, nor in `decoder`,
where a sequence of instructions ends.

### Bounds

* Caches have one, two or four ways and sets. The code has no case that depends
  on more: a row of four ways has a first, a last and two inner ways, and three
  lines overflow a set of two. Line numbers and sets are powers of two as in the
  code.
* The address space has four lines of eight bytes; half registers have three
  bits and short displacements two. Accesses start at the beginning and at the
  end of a line, end inside a line, at a line boundary and behind it, straddle
  one line or two and, for prefetches, reach up to the last line. A fetch
  of code is at most a line long and not at the end of the address space. There
  is at least one instruction for every case of the two switches.
* Two threads, one of which controls the captures, two call stacks and two
  captures (`MaxGeneration`): the third generation is the one that would have to
  be told apart from the first, and the code only compares for equality.
* The hash table starts with 2 slots in place of 64 and grows to 4 and 8; three
  of its four keys collide; a block holds two elements.
* The viewer has one tab, two tree jobs, two views and one resolution.
* The decoder runs over some 25000 instructions of 79 families, each after none
  and after each of four that set index, scale, displacement, fourth operand,
  segment and prefixes. Registers are 0, 4 and 5, the ones with special cases,
  with and without each REX bit; padding takes instructions up to 15 bytes. Two
  instructions are enough because every step starts by clearing the same fields.
* `arming` has a caller and two more threads in a table of two entries, so that
  an entry is added, changed, moved by a removal and refused, and five
  scenarios: which system, which threads are mapped, and how many of mapping
  changes, exits, other children and captures there are.
* `profile` has captures of up to two samples out of five: two in one function,
  one in a caller of the others, one in a library, one outside of any module.
  Two bodies of debug information (`Full`, `Half`) have known and unknown
  names, files and lines. Stacks of up to three frames in a
  store of four words make it grow; a block of the digest has three words; an arena page
  holds fewer nodes than a tree has; counters wrap at 4; a module list has room for two of three.

### Fairness

* `RecorderFairness`: a thread inside the recorder is scheduled, and so is the
  forked child. It is weak: a thread that spins on `g_Lock` is not promised
  that it ever finds it free. `EndReturns` holds without that promise because
  the other threads stop taking the lock; it assumes that the application does
  not call the interface for ever (`CallsStop`).
* `BusySpec`: besides, application threads execute instructions. A thread that
  is blocked in the kernel keeps its trap flag until it runs.
* `CaptureArming`: the caller of the start, the helper it has forked and threads
  that look up their core are scheduled. Nothing is assumed of the application:
  that its other children exit, or its threads run.
* `CommitFairSpec`: the thread that handles a trap runs on.
* `TraceViewer`: the thread pool runs every job, the event loop delivers, and
  the symbol resolver ends. The last one is an assumption: the Linux resolver
  reads `addr2line`'s answers in a loop that does not end when there are none.

## 4. Proofs

A theorem holds for every value of the constants that the named ASSUMEs of its
modules allow. Where it needs more, the hypothesis is stated in the theorem and
explained here. The inductive invariants of the concurrent components were
checked by TLC on small instances before they were proved.

### Caches and simulator (`Cache_proof`, `GenerateMemoryAccesses_proof`)

* `ImplementsLruThere`: the arrays of `Cache` implement `LruCache`, for every
  number of ways and sets. An access moves the line in way v from way
  `Source(v)` (the way itself behind the line that was found, the way in front
  of it otherwise), and an invalidation closes the gap. The map from the row to
  the sequence of its valid ways commutes with both because the valid ways are a
  prefix of the row (`Usable`): a hole in front of a valid way would be counted.
* `ModuleInvariant`: `ModuleTypeOK /\ CachesWellFormed /\ HoldsOnlyUsed` is
  inductive. `HoldsOnlyUsed` says that a cache holds only lines its history says
  were used and not overwritten. Alone it is not inductive: `Invalidate` stops at
  the first way that matches, and only if there is no second copy is the line
  gone afterwards. That in turn needs that `Access` inserts a line at the front
  only when the scan did not find it. `ModuleTypeCorrect`, `ModuleWellFormed` and
  `ModuleNoStaleHit` follow.
* `ImplementsModules`: every step of the simulator's loop, whatever wraps around,
  is a step of the modules or leaves them alone. `TypeCorrect` and
  `SimulatorSafe` follow.
* `CoversTheAccessThere`: between two trips the lines touched are those from the
  first one to the one in front of `line_base` (`LoopInv`), also when the sum of
  address and size wraps around.
* `ResultMatchesModeThere` needs `CodeIsBelowTheEnd`: no code is fetched at the
  very end of the address space, where the loop makes no trip and a fetch would
  return a data result. User code is nowhere near it.
* `RepeatHitsThere` needs `RequestsFit`: an access spans fewer lines than a cache
  has sets, so that its own trips do not evict each other. The largest access, the
  512 bytes of `fxsave`, touches at most 9 lines; the smallest cache has 64 sets.

### Commits (`GenerateMemoryAccesses_proof`)

* `CommitImplements`: every behaviour of the commits is one of `JaguarCacheSim`, so
  that the theorems above hold under them (`CommitSafe`). `CommitAssumption` says
  what connects the two: the requests of the simulator include those of the
  instructions.
* `EveryAccessCountedThere`: `QueueInv` says that the calls still to be made are a
  suffix of those of the instruction, `CountInv` that the counters add up to the
  calls that have returned, each counted under its kind and outcome. It needs
  `CodeIsBelowTheEnd`, as the counter is chosen by the result.
* `CommitsWhatTheProcessorDoesThere` compares the operands of the two switches and
  of the general loop with what the processor accesses, explicitly and implicitly,
  for every instruction that `InstructionsAssumption` admits, registers and widths
  included. `SameEa` has the arithmetic: the sum of an address modulo 2^64 is what
  it is modulo 2^32 where `Exact` holds, since the one divides the other.
  `ReadsFound` and `WritesFound` go through the mnemonics: both directions where the
  code has a case, one for those that it has none for.
  `SelectedElements` of `Data_proof` says which element of all operands is the k-th one kept.

### Recorder (`CaptureRuntime_proof`)

What the application may do besides tracing in an orderly way is the constant
`Allowed`. Each theorem names what must not be in it and holds with all the
rest; TLC finds a counterexample when any one of these hypotheses is dropped.

| Theorem | Excludes |
|---|---|
| `RecorderTypeCorrect` | nothing |
| `NodesNameTheirStackThere` | `"straggler"` |
| `SavesOneCaptureThere` | `"straggler"` and `"cancel"` |
| `ResetExcludesCommitThere` | one of `"straggler"` and `"cancel"` |
| `UnmappedNotRecordedThere` | `"straggler"` and `"map"` |
| `StartTracesThere` | `"map"` |

The argument for `NodesNameTheirStackThere`, the central one, is `StackInv`: as
long as a capture is on, the offset that a thread keeps names its call stack,
*also between traps*. It is inductive only with the reason why nothing goes wrong
between traps: such a thread has its trap flag set, so it traps at its next
instruction, and that instruction does not call or return, since the call or the
return would have dropped the offset. That no offset survives from one capture to
the next takes `QuietInv` (a capture starts on threads out of the handler, with
older generations) and `FreshInv` (who is past `Refresh` has this generation), and
that the stack table stays while a node is added takes `LockInv`, the critical
sections of `g_Lock`. `CommitInv` and `OriginInv` carry the generation of the trap
to the node for `SavesOneCaptureThere`, `CoreInv` and `MappingInv` the mapping for
`UnmappedNotRecordedThere`, and `ArmedInv` what the forked child knows and which flags it
has set by the time its parent has come to each step. The child may attach at any
of them; `StartTraces` excepts only the two orders in which the code fails, and
`child = EarlyChild` marks them: refused, and attached before the capture was enabled.

### Start of a capture and mapping table (`CaptureArming_proof`)

* `LookupIsCurrentThere`: `TableInv` says, for each order of stores, which entries
  are right at each of them; `LookupInv` that a lookup which no removal has
  overlapped has passed only entries of other threads. `NoCallAssumption` is about
  the marker of "no call", no more.
* `NobodyLeftStoppedThere`, `ArmedThreadsAreHandledThere`, `ArmedWhenStartedThere`,
  for both systems: `BaseInv` says what is set in which phase, `TracedInv` and
  `SuspendedInv` who may be stopped and that somebody will let them go, `FlagInv`
  under which conditions a trap flag may be set, `LinuxArmInv` and `WindowsArmInv`
  where in the two loops a thread is armed. The hypothesis `AtMostOneOther`: on
  Linux the application has at most one other child process. With two of them the
  two calls of `wait` can reap both, the start returns before its helper is done,
  and TLC finds all three violated.

### Hash table (`GenericHashTable_proof`)

* `HashInv`: every element is in the chain of its hash and once in it
  (`WellPlaced`), no two elements have one key or one place (`ElementsDiffer`), the
  allocator has a place once in its free list or has handed it out (`HeapOK`), a
  pointer that a user keeps is the one a lookup gives (`HeldOK`), and the keys are
  as many as were counted, but for the removed ones (`CountOK`). The parts need
  each other: a second element with the same key would be left behind by `Remove`, and
  a place that is free and in use would be handed out again and its counter reset.
* `ImplementsMapThere`: `GrownKeeps` says that growing loses no element and finds
  each its slot, because `hash % (2 * c)`, cut down to `c`, is `hash % c`
  (`OldSlotOfNew`). Each action is then the action of `StableMap` of its name. That
  a count through a kept pointer shows under its key alone is `HeldOK` with
  `ElementsDiffer`.
* `IterationIsCompleteThere`: `IterOK` says that the saved keys are those of the
  slots below the index, but for what is left of the chain; `SteppedSkipsNone` that
  `Step` neither skips nor repeats a key.
* `FillIsBoundedThere`: inductive with "no capacity, no elements". It also holds of
  an initial capacity of one.

They rest on `HashAssumption`, `SizeAssumption`, `BoundAssumption` and
`NullAssumption`: hashes are natural numbers, the first capacity and the number of
elements of a block are not zero, the bounds are numbers and null is no address.

### Viewer (`TraceViewer_proof`)

* `TabOutlivesItsTreesThere`: `CountInv` says that `m_TasksRunning` is the number of
  jobs that have not reported their end or whose report is still in the queue;
  `EventInv` that a job posts its result and then its end, each once, and that the
  result stays in front of the end. A count of zero then means that no result is on
  its way. `QuitInv` is about what is left after the event loop.
* `IndexNamesItsViewThere`: `IndexInv`, for any index, needs `MainInv`: at most one
  main tree is in flight for a tab, and only while its button is disabled and
  `m_TreeProfileTabIndex` is -1. Without it a second delivery would overwrite the
  index of the first. `JobsAssumption` (the jobs of a run are finitely many) is what
  makes the count a number.

### From samples to views (`Profile_proof`)

* MD5: `StackKeyIsDigest` says which blocks are processed, for every length of a
  stack and every size of a block: those of the padded message.
  `DifferentStacksDifferentKeys`: two messages with the same blocks are the same,
  because the last words give the length and the padding is known. So a stack is
  taken for another one only by a collision.
* `StoredStacksReadBackAlways`: `StoreInv` says that the array is as long as was
  reserved and large enough for what was counted (`IsStackData`), that the entry
  of every sampled stack leads to its frames and a zero (`StacksInv`), and that a
  node counts the sum of the samples with its address and stack, modulo the range
  of a counter (`CountsInv`). Growing copies; that one doubling is enough for any
  stack is `ReserveAssumption` (the first reservation holds the longest stack).
* `ProfileInv` adds, in the order of the way: `FramesInv` (every word in the store
  is the address of a call or a zero), `SavedInv` (what was saved is what was counted: the
  store is freed with the save, so nothing else remembers it), `FileInv` (the
  sections of the file are where the header says, with that content, aligned, and
  in front of the end), `SymbolsInv` (if the header has symbols, they are those of
  one completed resolution, sorted by address, with strings behind them) and
  `CacheInv` (a cached string is the one in the file).
* `SavedFileReadsBackAlways` is `FileInv` with `SavedInv`. Symbols are appended at
  the end of the file and change three words of the header; a part of them, with no
  word changed, is behind all that is read. That the objects of the program
  are among the modules is `AreSavedModules`, by what `RecordModule` and `GetModuleList`
  keep of a list; on Windows only where every module could be queried.
* `SymbolsNameTheirAddressAlways`: `SymbolIsFound` is the binary search, by the
  range that is left after each round: it takes as many rounds as there are symbols
  at most. That needs the table to be sorted without duplicates, which is
  `Order` of `Distinct` addresses. On Linux an address must be in one
  module only, which is `Apart` in `LoadedListsAssumption`. The cache is
  emptied when a resolution is delivered, but a flat profile that is open fills it
  again from the table as it was, and then the new one is written: its strings are
  those of another resolution (`cacheInfo`). If that had the same debug
  information, the offsets still are those of the same strings, since where a string
  lies does not depend on the line numbers that were left unset (`JunkLines`). If
  it had not, nothing is promised, as the property says.
* `ArenaHoldsTheTreeAlways`: `HoldsNodes` says that places in a page are multiples of
  the rounded size of a node, that later ones are behind earlier ones, and that
  all end before the data does. `avail` counts the header as free, so the last one
  holds only with `PageSizeAssumption`: what is left of a page when no more nodes
  fit is no less than a header. With 64 bytes of a node and pages of 1 MiB 64
  bytes are left; a node of another size could write past its page.
* `ViewsAgreeOnTotalsAlways`: `RowsAreTotals` compares the rows of `FlatModel`, one
  for each name, with sums over samples; both are sums over sets, split by
  address and by stack. `CountedInv` says that no two saved nodes have one address and
  stack, without which a sample would count twice. For the tree, `TreeIsTotals` says that a
  node is there for each prefix of a path and adds what goes through it, and
  `IsPathTree` that the children of a node are the paths one frame longer, once
  each. From that follows that the walk of the item model (`Walked`) meets every
  node once, in the row `rowInParentSpace` gives it. `ViewsInv`, `FlatInv`
  and `TreeInv` carry this through the steps after a view was made.
* `AnnotationShowsItsLinesAlways`: `DataOfFunction` says that the lines of
  `findFileData` are the known lines of the function with the sums of their samples,
  `LinesShown` that the widget shows at least all between the first and the last of
  them that are in the file. `SourceInv` carries it on.

The assumptions, besides those named above: samples are finitely many, and
addresses, stacks and counts are numbers (`SamplesAssumption`, `StacksAssumption`, `RipsAssumption`,
`CounterAssumption`), module lists have room for one module and programs a first
object (`ModulesAssumption`, `LoadedListsAssumption`), debug information tells an
answer, known or not, for every address (`InfosAssumption`), files have a length
(`SourceLinesAssumption`) and a block of MD5 has two words or more
(`BlockWordsAssumption`).

The sums, digests and tables are recursive functions and folds. What they are for
every input is proved by induction on finite sets: a set of natural numbers that
is not empty has a least one (`LeastNumber` in `Data_proof`), so a statement about
`0 .. n` given as the set of the numbers it holds for is true of all
(`Induction`). That takes no operator as a parameter.

### Only model-checked

* Liveness (`EndReturns`, `LockReleased`, `TrapFlagsCleared`, `StartReturns`,
  `Terminates`, `TasksFinish`, `ButtonsComeBack`): fairness and ENABLED are out of
  the prover's reach.
* The decoder (`DecodesWhatTheProcessorReads`, `LengthIsRight`,
  `OperandsAreContiguous`): its prefixes, tables and operands are recursive
  operators, which follow the functions of decode.c. The three properties
  are about rows of generated tables, of which the model has those that the families of
  the run reach: there is no larger value of a constant to prove them for, and TLC goes
  through every instruction of these families.

## 5. Where code and text disagree

`kick_out` is the finding that `PROJECT.json` quotes: the comment at
`CacheSimInternals.cpp:34` says "Kick the line out of every other L1 and the other
L2 package", and the L1s of the other module keep it. Other things the models
show or except, at the lines where they are.

Simulator and operands:

* `CacheSimInternals.h:94`, `:135`: 0 is the invalid marker and the line number
  of addresses below 64; such an access hits in an empty cache. `NoStaleHit`
  excepts it.
* `CacheSimInternals.cpp:47`: lines stay in an L1 when the L2 loses them, so an L1 hit
  may be reported as an L2 miss.
* `CacheSimInternals.cpp:86`: an access that ends exactly at a line boundary touches the
  next line as well (`CoversTheAccess` allows it); one whose end wraps around
  touches nothing, and one whose last line is the last of the address space
  never returns (`Terminates` excepts it). Only a prefetch, whose address is not
  checked, can get there.
* `CacheSimCommon.inl:503`: an operand that is read and written has both bits of
  `access` set and is neither case of the switch: `add [mem], reg` makes no data
  access.
* `CacheSimCommon.inl:398`: the switch over instructions with implicit operands
  has no case for `cmps`, `ins`, `outs`, `xlat`, `maskmovq`, `vmaskmovdqu`,
  `leave`, `enter`, `pushf`, `popf`, `retf` and `iret`, whose operands in memory
  udis86 does not list either: their data accesses are lost (`NoCaseOps`).
* `CacheSimCommon.inl:447`: `push` and `call` are recorded at RSP and not below it,
  `pop` as a write, `push` of a byte as one of a byte; `scas` (`:402`) reads RSI
  and not RDI; `lods` and `movs` ignore a segment override (`:400`); string
  instructions take RSI and RDI whole where 67 makes them 32 bits wide, and a
  repetition of no times as one. `bt` and its kind ignore the part of a bit
  offset in a register that leads out of the operand (`:503`).
* `CacheSimCommon.inl:298`: RIP-relative addresses are short by the length of the
  instruction. Addresses made of 32-bit registers are sign-extended (`:216`) and
  do not wrap around at 32 bits: wrong if a register or the sum has its upper
  bit set, or the sum carries.
  `CommitsWhatTheProcessorDoes` excepts all of these, what is lost as `Loses` and
  what is misplaced as `Misplaces`; of what `Loses` names it still says that
  nothing else is committed.
* The processor's side of that comparison (the last part of `Operands`) is written by
  hand for the instructions that the tables of udis86 lead to. Left out are
  privileged ones and those of VIA's PadLock (`xcrypt`, `xsha`, `xstore`,
  `montmul`), whose implicit operands the recorder does not know either, all but
  the first slot of `enter`, `retf` and `iret`, the mask of `maskmov`, and what
  only the kernel could map: descriptor tables and the stacks of interrupts.

Decoder (`Deviates` in `DecodeSequence` names all of these):

* `itab.c:322` and the other SSE tables: the F2 and 66 columns are empty, and so is
  the 16-bit column of the operand size tables. The SSE `movsd` is decoded as
  `movups` (16 bytes), `movdqa` as `movq` (8), `movntdq` as `movntq` (8), and
  `66 A5` is invalid. The cases for `movntdqa` (`CacheSimCommon.inl:484`) and for
  `movsd` as an SSE instruction (`:437`) are therefore never met.
* Rows with a wrong width: `movss` to memory and `addss` (16 bytes), 256-bit
  `vunpcklps` (16 bytes), the pointer of a far call; `fxsave` and `cmpxchg16b`
  have no width, so that they are an access of no bytes, and `66` before
  `cmpxchg8b` is an error.
* Rows with a wrong access: `div` writes its operand in memory (`itab.c:3458`), the
  `imul` with one operand reads and writes it (`:3969`), a `sbb` with an immediate
  only writes it (`:4618`); `xchg eax, eax` by its long form is a `nop`.
* `decode.c:629`: with 32-bit addresses, rip-relative is read as absolute, r13d
  is not known as "no base", and VEX's X and B are not looked at.
* `decode.c:970`: REX.W does not undo 66 for a call, so that the padded call of
  `__tls_get_addr` (`66 66 48 E8`) comes out two bytes short.
* `decode.c:1233`: a segment override is dropped when only the third operand is in
  memory. F3 turns a long nop into `pause`; ENDBR64 is invalid; an instruction
  whose opcode is its 15th byte is invalid.

Recorder:

* `CacheSimCommon.inl:534`: a thread that is between `HandleTrap`'s checks and the
  lock keeps its `m_StackIndex` while a capture ends and the next one starts; its
  node then has an offset into tables that are gone, though the comment at `:67`
  says "Recomputed whenever the call stack contents changes". With
  `"straggler"` in `Allowed`, `NodesNameTheirStack` fails.
* `CacheSimCommon.inl:596`: a traced thread that calls
  `CacheSimSetThreadCoreMapping` traps while it holds `g_Lock`, and its handler
  waits for it for ever; `CacheSim.h:88` invites the call ("upon thread
  completion"). With `"map"` in `Allowed`, `LockReleased` fails.
* `CacheSimCommon.inl:670`: a cancelled capture leaves its samples, and they are saved with the
  next one; also, without the lock that a save takes, the next start may clear
  the caches under a commit.
* `CacheSim.h:88`: a core id of -1 "will disable recording the thread", but a
  thread looks its core up once per generation (`CacheSimLinux.cpp:143`), and -1
  for a thread that is not in the table adds an entry.
* `CacheSimCommon.inl:607`: a lookup during a removal can see an entry half
  copied, or miss one that moves (`LookupIsCurrent` excepts removals).
* `CacheSimLinux.cpp:272`: a child that attaches before the parent has called
  `prctl` is refused where ptrace is restricted, and the capture runs without
  traps; where it is not restricted, threads may be armed before there is a
  handler, and the kernel ends the program, or before the capture is enabled,
  and they clear their flags again.
* `CacheSimLinux.cpp:300`: a mapped thread that has exited is attached to for
  ever; one that exits between attach and arm ends the helper, and the start
  still returns true.
* `CacheSimLinux.cpp:208`: `ContinueProcess` waits for its own parent, which fails:
  the helper always ends in `DebugBreak`, never in `exit(0)`. `wait` (`:277`,
  `:280`) takes any child: another one that exits takes the place of the helper,
  one that lives on keeps the second `wait` from returning.
* `CacheSimWindows.cpp:323`: a thread that exits between `OpenThread` and
  `SuspendThread` ends the program in `DebugBreak`.
* `GenericHashTable.h:226`: `Remove` of a key that is not there follows a null pointer,
  and it never lowers the count; no code calls it so far.

File, symbols and views:

* `CacheSimCommon.inl:703`: without modules, stacks or samples, the header keeps the
  placeholders it was written with. `VirtualMemoryFree` (`:802`) is given a count,
  not bytes.
* `CacheSimWindows.cpp:468`: a module that cannot be queried leaves a hole, and the
  last module is lost (`SavedFileReadsBack` excepts it).
* `SymbolResolverLinux.cpp:202`: names from `addr2line` keep their newline, those
  from `objdump` do not; when it prints nothing the loop at `:179` does not end.
  `m_ModuleIndex` is an index in sorted order.
* `SymbolResolverWindows.cpp:99`: the end of a module counts as inside, and a line number that
  was not found is not set.
* `TraceData.cpp:222`, `:228`: the file is remapped under a running tree job;
  the flat view is refreshed, and the caches filled, before the new symbols and
  header are written. Symbols are added up by name, also of different files.
* `AnnotationView.cpp:127`: the line numbers are wrong when the function starts
  in the first five lines of its file.
* `ObjectStack.h:51`: `avail` counts the page header as free, which is harmless
  for nodes of the size that is used (`PageSizeAssumption`); `allocArray` allocates one element.
* `CacheSimMainWindow.cpp:65`: only tree jobs are counted in `m_TasksRunning`; a
  tab can be closed under its symbol resolution, though the message at `:74` says
  "Can't close tabs while async compute is running!". The menu's quit (`:37`)
  asks for nothing, though the message at `:87` says the same of the program.
* `TraceTab.cpp:172`, `:181`: closing the summary page deletes the tab in its
  own slot; closing a view moves those behind it but not the kept indices.

## 6. Plan

Done: the simulator, the operands of instructions, the decoder, the recorder on
both systems with its mapping table, the hash table, the stack store, the trace
file, symbols and profile models, the life of the GUI's objects; proofs of every
safety property but those of the decoder.

Next, in this order:

1. More families of instructions in the decoder, with the rows of itab.c they need.
2. `OperandsAreContiguous` as a theorem about any tables, for which the steps of
   the decoder would have to be written without recursive operators.
3. The remaps of the file in `TraceViewer` composed with what `Profile` reads through it.

### Not modelled

* 16- and 32-bit modes of udis86, the rows of its generated tables that no
  family of the run uses, and its syntax printers (syn*.c), which the recorder
  does not call.
* The compression function of MD5: it is taken to be free of collisions, which
  is what the recorder relies on.
* On Windows, the patch of `RaiseException` and the search for the list of
  exception handlers: they depend on the bytes of system libraries.
* Painting, layout, sorting and number formatting of the GUI; pipes and
  processes of the symbol resolver.
* The dynamic loader, examples and unit tests: they keep no state of their own.
