------------------------------- MODULE Profile -------------------------------
(***************************************************************************)
(* A capture from its first sample to the views of it: samples are counted *)
(* in the stack store (StackStore), CacheSimEndCapture writes them to a    *)
(* file (TraceFile), the GUI opens the file, resolves its symbols          *)
(* (SymbolResolver) and shows it (ProfileModels, ObjectStack). The file    *)
(* outlives the GUI, which may be closed, or killed while it appends the   *)
(* symbols, and opened again.                                              *)
(*                                                                         *)
(* Slots of the GUI are one step each; TraceViewer has their interleaving  *)
(* with the jobs. Samples are counted under g_Lock (CaptureRuntime).       *)
(***************************************************************************)
EXTENDS ProfileModels, ObjectStack

CONSTANTS
  Samples,      \* records [rip, stack, counts]: what an instruction adds
  MaxSamples,   \* bound on the samples of a capture
  LoadedLists,  \* LoadedLists[platform]: lists of the objects a program has loaded
  Infos,        \* the debug information there may be when symbols are resolved
  JunkLines,    \* what a line number that was not set may be
  MaxResolves,  \* bound on the resolutions of a file
  MaxViews,     \* bound on the views that are open together
  NoInfo, NoView

ASSUME SamplesAssumption ==
  /\ IsFiniteSet(Samples)
  /\ \A s \in Samples : s.rip \in Rips /\ s.stack \in Stacks /\ s.counts \in [Counters -> Nat]

\* Segments that do not overlap
Apart(a, b) == \/ a.base + a.seg + a.size <= b.base + b.seg
               \/ b.base + b.seg + b.size <= a.base + a.seg

\* What the systems report. dl_iterate_phdr starts with the program itself, only
\* that and the vdso have no name, and what is loaded lies apart.
\* EnumProcessModules lists modules, among them one that can be queried.
ASSUME LoadedListsAssumption ==
  /\ DOMAIN LoadedLists \subseteq {"linux", "windows"}
  /\ \A p \in DOMAIN LoadedLists : \A list \in LoadedLists[p] :
       /\ list \in Seq(Objects)
       /\ p = "linux" =>
            /\ list # << >> /\ list[1].code /\ ~list[1].vdso
            /\ \A i \in DOMAIN list :
                 (i # 1 /\ list[i].code /\ ~list[i].vdso) => list[i].name # NoName
            /\ \A i, j \in DOMAIN list :
                 (i # j /\ list[i].code /\ list[j].code) => Apart(list[i], list[j])
       /\ p = "windows" =>
            /\ \A i \in DOMAIN list : list[i].code /\ ~list[i].vdso
            /\ \E i \in DOMAIN list : i <= MaxModules /\ list[i].queried

\* Debug information tells of every address of a capture what is known of it.
ASSUME InfosAssumption ==
  /\ NoInfo \notin Infos
  /\ \A i \in Infos : \A r \in Rips \cup UNION {Range(s) : s \in Stacks} :
       /\ i[r].addr2line = Unknown \/ i[r].addr2line.len \in Nat
       /\ i[r].objdump = Unknown \/ i[r].objdump.len \in Nat
       /\ i[r].file.len \in Nat
       /\ i[r].line = NoLineNumber \/ i[r].line \in Nat

ASSUME JunkLinesAssumption == JunkLines \subseteq Int

VARIABLES
  platform,
  phase,      \* "capture", "closed" (the file is there, no GUI) or "open"
  file,
  cache,      \* m_SymbolStringCache
  flat,       \* FlatModel's rows, or NoView
  tree,       \* the last tree that was made, or NoView
  arena,      \* m_Allocator of the last tree
  source,     \* the last annotation, or NoView
  resolves,
  \* history
  recorded,   \* recorded[s]: how often sample s was counted
  loaded,     \* the objects that were loaded when the capture ended
  saved,      \* what was saved
  info,       \* the debug information the file's symbols are from, or NoInfo
  cacheInfo   \* the debug information the cached strings are from

fileVars == <<platform, recorded, loaded, saved>>
viewVars == <<flat, tree, arena, source>>
vars == <<storeVars, fileVars, viewVars, phase, file, cache, resolves, info, cacheInfo>>

NoFile == NewFile
NothingSaved == [modules |-> << >>, frames |-> << >>, nodes |-> << >>]

Init ==
  /\ StoreInit
  /\ platform \in DOMAIN LoadedLists
  /\ phase = "capture"
  /\ file = NoFile
  /\ cache = << >>
  /\ flat = NoView /\ tree = NoView /\ arena = EmptyArena /\ source = NoView
  /\ resolves = 0
  /\ recorded = [s \in Samples |-> 0]
  /\ loaded = << >>
  /\ saved = NothingSaved
  /\ info = NoInfo /\ cacheInfo = NoInfo
-----------------------------------------------------------------------------
(* The capture                                                             *)

Record(s) ==
  /\ phase = "capture"
  /\ FoldFunction(LAMBDA a, b : a + b, 0, recorded) < MaxSamples
  /\ InsertStack(s.stack)
  /\ GetRipNode(s.rip, OffsetOf(s.stack), s.counts)
  /\ recorded' = [recorded EXCEPT ![s] = @ + 1]
  /\ UNCHANGED <<platform, loaded, saved, viewVars, phase, file, cache, resolves, info, cacheInfo>>

GetModuleList(list) ==
  IF platform = "linux" THEN LinuxModuleList(list) ELSE WindowsModuleList(list)

\* The orders in which the keys of a table may be met.
Orders(table) ==
  {o \in [1 .. Cardinality(DOMAIN table) -> DOMAIN table] : IsInjective(o)}

NodesIn(order) ==
  [i \in DOMAIN order |-> [m_Rip |-> order[i][1], m_StackIndex |-> order[i][2], m_Stats |-> g_Stats[order[i]]]]

\* CacheSimEndCapture(true)
EndCapture(list, order) ==
  LET modules == GetModuleList(list)
      frames == SubSeq(g_StackData.m_Frames, 1, g_StackData.m_Count)
  IN /\ phase = "capture"
     /\ phase' = "closed"
     /\ file' = Saved(modules, frames, NodesIn(order))
     /\ FreeAll
     /\ loaded' = list
     /\ saved' = [modules |-> modules, frames |-> frames, nodes |-> NodesIn(order)]
     /\ UNCHANGED <<platform, recorded, viewVars, cache, resolves, info, cacheInfo>>

\* The file can not be opened: the capture is lost, the next one starts anew.
EndCaptureFails ==
  /\ phase = "capture"
  /\ FreeAll
  /\ recorded' = [s \in Samples |-> 0]
  /\ UNCHANGED <<platform, loaded, saved, viewVars, phase, file, cache, resolves, info, cacheInfo>>
-----------------------------------------------------------------------------
(* The GUI                                                                 *)

\* beginLoadTrace
LoadTrace ==
  /\ phase = "closed"
  /\ phase' = "open"
  /\ cache' = << >>
  /\ cacheInfo' = info
  /\ UNCHANGED <<storeVars, fileVars, viewVars, file, resolves, info>>

NoViews ==
  /\ flat' = NoView /\ tree' = NoView /\ source' = NoView
  /\ arena' = EmptyArena

\* The tab is closed, and its TraceData and views with it.
CloseTrace ==
  /\ phase = "open"
  /\ phase' = "closed"
  /\ NoViews
  /\ cache' = << >>
  /\ UNCHANGED <<storeVars, fileVars, file, resolves, info, cacheInfo>>

ResolvedSymbols(known, junk) ==
  LET modules == GetModules(file)
      names == [i \in DOMAIN modules |-> GetModuleName(file, modules[i])]
  IN IF platform = "linux"
     THEN LinuxResolveSymbols(modules, names, GetStacks(file), GetStats(file), known)
     ELSE WindowsResolveSymbols(modules, GetStacks(file), GetStats(file), known, junk)

\* The file with the result of symbolResolveTask: its symbols and their text.
Appended(known, junk) ==
  LET resolved == ResolvedSymbols(known, junk)
  IN AppendSymbols(file, SerializedSymbols(resolved), InternedStrings(resolved))

\* The caches are cleared and the views told before the symbols and the header
\* are copied: a flat profile is made again from the header as it was.
symbolsResolved(newFile, newInfo) ==
  /\ phase = "open" /\ resolves < MaxResolves
  /\ resolves' = resolves + 1
  /\ IF flat = NoView
     THEN cache' = << >> /\ flat' = flat /\ cacheInfo' = newInfo
     ELSE /\ flat' = [rows |-> FlatRows(file, << >>), info |-> info, stale |-> FALSE]
          /\ cache' = CacheAfterFlat(file, << >>)
          /\ cacheInfo' = IF cache' = << >> THEN newInfo ELSE info
  /\ file' = newFile
  /\ info' = newInfo
  /\ UNCHANGED <<storeVars, fileVars, tree, arena, source, phase>>

Resolve(known, junk) == symbolsResolved(Appended(known, junk), known)

\* ResolveSymbols failed: the result is empty.
ResolveFails == symbolsResolved(AppendSymbols(file, << >>, << >>), NoInfo)

\* The GUI is killed in symbolsResolved: the file has its new size, and the
\* header as it was. What was copied before lies where nobody looks.
KilledWhileResolving(known, junk) ==
  /\ phase = "open" /\ resolves < MaxResolves
  /\ resolves' = resolves + 1
  /\ phase' = "closed"
  /\ file' = [file EXCEPT !.size = Appended(known, junk).size]
  /\ NoViews
  /\ cache' = << >>
  /\ UNCHANGED <<storeVars, fileVars, info, cacheInfo>>

RoomForView == Cardinality({v \in {1, 2, 3} : <<flat, tree, source>>[v] # NoView}) < MaxViews

\* FlatModel::setData
OpenFlatProfile ==
  /\ phase = "open" /\ flat = NoView /\ RoomForView
  /\ flat' = [rows |-> FlatRows(file, cache), info |-> info, stale |-> cacheInfo # info]
  /\ cache' = CacheAfterFlat(file, cache)
  /\ UNCHANGED <<storeVars, fileVars, tree, arena, source, phase, file, resolves, info, cacheInfo>>

CloseFlatProfile ==
  /\ flat # NoView
  /\ flat' = NoView
  /\ UNCHANGED <<storeVars, fileVars, tree, arena, source, phase, file, cache, resolves, info, cacheInfo>>

\* The names that can be selected in a view.
Selectable ==
  (IF flat = NoView THEN {} ELSE DOMAIN flat.rows)
    \cup (IF tree = NoView THEN {} ELSE {Last(p) : p \in DOMAIN tree.nodes \ {<< >>}})

\* TreeModel::setTraceData, of a model that is new
OpenTree(rootSymbol) ==
  /\ phase = "open" /\ tree = NoView /\ RoomForView
  /\ rootSymbol # NoRoot => rootSymbol \in Selectable
  /\ tree' = [root |-> rootSymbol, nodes |-> createTree(file, cache, rootSymbol),
              info |-> info, stale |-> cacheInfo # info]
  /\ arena' = AllocNodes(reset(EmptyArena), Cardinality(DOMAIN tree'.nodes))
  /\ cache' = CacheAfterTree(file, cache, rootSymbol)
  /\ UNCHANGED <<storeVars, fileVars, flat, source, phase, file, resolves, info, cacheInfo>>

CloseTree ==
  /\ tree # NoView
  /\ tree' = NoView
  /\ arena' = reset(arena)
  /\ UNCHANGED <<storeVars, fileVars, flat, source, phase, file, cache, resolves, info, cacheInfo>>

\* openAnnotationForSymbol: a tab if the file's name is known and the file there.
OpenAnnotation(symbol) ==
  LET data == findFileData(file, cache, symbol)
  IN /\ phase = "open" /\ source = NoView /\ RoomForView
     /\ symbol \in Selectable
     /\ cache' = CacheAfterAnnotation(file, cache, symbol)
     /\ source' = IF data.m_FileName \in DOMAIN SourceLines
                  THEN [symbol |-> symbol, data |-> data,
                        lines |-> AnnotationView(data, SourceLines[data.m_FileName]),
                        info |-> info, stale |-> cacheInfo # info]
                  ELSE NoView
     /\ UNCHANGED <<storeVars, fileVars, flat, tree, arena, phase, file, resolves, info, cacheInfo>>

CloseAnnotation ==
  /\ source # NoView
  /\ source' = NoView
  /\ UNCHANGED <<storeVars, fileVars, flat, tree, arena, phase, file, cache, resolves, info, cacheInfo>>

Next ==
  \/ \E s \in Samples : Record(s)
  \/ \E list \in LoadedLists[platform], order \in Orders(g_Stats) : EndCapture(list, order)
  \/ EndCaptureFails
  \/ LoadTrace \/ CloseTrace
  \/ \E known \in Infos, junk \in JunkLines : Resolve(known, junk)
  \/ ResolveFails
  \/ \E known \in Infos, junk \in JunkLines : KilledWhileResolving(known, junk)
  \/ OpenFlatProfile \/ CloseFlatProfile
  \/ \E root \in Selectable \cup {NoRoot} : OpenTree(root)
  \/ CloseTree
  \/ \E symbol \in Selectable : OpenAnnotation(symbol)
  \/ CloseAnnotation

Spec == Init /\ [][Next]_vars
-----------------------------------------------------------------------------
(* What the samples say: names by the debug information i, counts by the   *)
(* samples that were recorded.                                             *)

Happened == {s \in Samples : recorded[s] > 0}

SumOf(S) ==
  FoldSet(LAMBDA s, sum : [k \in Counters |-> (sum[k] + recorded[s] * s.counts[k]) % CounterRange],
          NoCounts, S)

Holders(rip) == {m \in DOMAIN saved.modules : InSegment(rip, saved.modules[m])}

HasTrueName(rip, i) == i # NoInfo /\ (platform = "windows" \/ Holders(rip) # {})

TrueName(rip, i) ==
  IF platform = "linux" THEN LinuxName(rip, saved.modules[CHOOSE m \in Holders(rip) : TRUE].m_Filename, i)
  ELSE IF Holders(rip) # {} /\ i[rip].addr2line # Unknown THEN i[rip].addr2line
  ELSE AddressName(rip)

Lined(rip, i) ==
  platform = "windows" => Holders(rip) # {} /\ i[rip].addr2line # Unknown /\ i[rip].line # NoLineNumber

TrueFile(rip, i) == IF Lined(rip, i) THEN i[rip].file ELSE EmptyString

ShownName(rip, i) == IF HasTrueName(rip, i) THEN TrueName(rip, i) ELSE AddressName(rip)

SamplesOf(name, i) == {s \in Happened : HasTrueName(s.rip, i) /\ TrueName(s.rip, i) = name}

\* The path of a sample in a tree.
TruePath(s, root, i) ==
  LET frames == <<s.rip>> \o s.stack
      path == [d \in DOMAIN frames |-> ShownName(frames[d], i)]
  IN IF root = NoRoot THEN Reverse(path) ELSE path

SamplesUnder(root, i) == IF root = NoRoot THEN Happened ELSE SamplesOf(root, i)
-----------------------------------------------------------------------------
(* Properties                                                              *)

\* InsertStack and GetRipNode: the array is never written past its end, every
\* stack that was sampled is found again at its offset, with the zero that ends
\* it, under its MD5 digest, and its counters are those of its samples and of
\* no other, also after a capture that was dropped.
StoredStacksReadBack ==
  phase = "capture" =>
    /\ DOMAIN g_StackData.m_Frames = 1 .. g_StackData.m_ReserveCount
    /\ g_StackData.m_Count <= g_StackData.m_ReserveCount
    /\ \A s \in Happened :
         LET offset == OffsetOf(s.stack)
         IN /\ StackKey(s.stack) = DigestOf(s.stack)
            /\ StackAt(g_StackData.m_Frames, offset) = s.stack
            /\ g_Stats[<<s.rip, offset>>] = SumOf({t \in Happened : t.rip = s.rip /\ t.stack = s.stack})
    /\ Cardinality(DOMAIN g_Stats) = Cardinality({<<s.rip, s.stack>> : s \in Happened})

StringsEnd(f) ==
  f.header.m_ModuleStringOffset
    + Offsets([i \in DOMAIN saved.modules |-> StringBytes(saved.modules[i].m_Filename)])[Len(saved.modules) + 1]

\* Among the first MaxModules objects with code.
Listed(i) ==
  LET code == {j \in DOMAIN loaded : loaded[j].code /\ ~loaded[j].vdso}
  IN i \in code /\ Cardinality({j \in code : j < i}) < MaxModules

\* CacheSimEndCapture writes what SerializedHeader reads: sections that are
\* aligned and do not overlap, the modules with their names, and for every
\* sample a node with its stack and its counts. What is appended later leaves it
\* as it is. The modules are those of the program that fit, unless one of them
\* could not be queried on Windows.
SavedFileReadsBack ==
  phase # "capture" =>
    LET h == file.header
        modules == GetModules(file)
        nodes == GetStats(file)
    IN /\ \A o \in {h.m_ModuleOffset, h.m_FrameOffset, h.m_StatsOffset} : o % 8 = 0
       /\ h.m_ModuleOffset + Len(saved.modules) * SizeOfModuleEntry <= h.m_ModuleStringOffset
       /\ StringsEnd(file) <= h.m_FrameOffset
       /\ h.m_FrameOffset + h.m_FrameCount * SizeOfFrame <= h.m_StatsOffset
       /\ \A i \in DOMAIN modules : GetModuleName(file, modules[i]) = saved.modules[i].m_Filename
       /\ GetStats(file) = saved.nodes
       /\ \A s \in Happened : \E i \in DOMAIN nodes :
            /\ nodes[i].m_Rip = s.rip
            /\ StackAt(GetStacks(file), nodes[i].m_StackIndex) = s.stack
            /\ nodes[i].m_Stats = SumOf({t \in Happened : t.rip = s.rip /\ t.stack = s.stack})
       /\ \/ platform = "windows" /\ \E i \in DOMAIN loaded : ~loaded[i].queried
          \/ \A i \in DOMAIN loaded : Listed(i) =>
               \E m \in DOMAIN modules : modules[m].m_ImageBase = loaded[i].base

FileAddresses == {s.rip : s \in Happened} \cup UNION {Range(s.stack) : s \in Happened}

\* symbolResolveTask, symbolsResolved and FindSymbol: every address that the
\* debug information of the last completed resolution knows is given its name
\* and file, and no other, also when a resolution was repeated, failed or was
\* cut short. With the strings that were read before this holds unless a flat
\* profile was open while symbols were resolved again.
SymbolsNameTheirAddress ==
  phase = "open" =>
    \A rip \in FileAddresses :
      /\ HasSymbol(file, rip) <=> HasTrueName(rip, info)
      /\ HasSymbol(file, rip) =>
           \A c \in {<< >>} \cup (IF cacheInfo = info THEN {cache} ELSE {}) :
             /\ symbolNameForAddress(file, c, rip) = TrueName(rip, info)
             /\ fileNameForAddress(file, c, rip) = TrueFile(rip, info)

\* FlatModel and TreeModel: a row of the flat profile has the counts of the
\* samples in its function, a node of a tree those of the samples whose call
\* path goes through it, and no sample is left out of a tree; all by the symbols
\* the view was made from (for a flat profile, the ones before the last
\* resolution while it was open), unless its names were stale. A view that goes
\* down a tree by index() meets every node once, in a row of its own, and comes
\* back by parent() to where it was.
ViewsAgreeOnTotals ==
  /\ (flat # NoView /\ ~flat.stale) =>
       LET named == {s \in Happened : HasTrueName(s.rip, flat.info)}
       IN flat.rows = [n \in {TrueName(s.rip, flat.info) : s \in named} |-> SumOf(SamplesOf(n, flat.info))]
  /\ (tree # NoView /\ ~tree.stale) =>
       LET under == SamplesUnder(tree.root, tree.info)
           path == [s \in under |-> TruePath(s, tree.root, tree.info)]
           below == UNION {{SubSeq(path[s], 1, d) : d \in DOMAIN path[s]} : s \in under}
           shown == Walked(tree.nodes)
       IN /\ {i.node : i \in shown} = below
          /\ Cardinality(shown) = Cardinality(below)
          /\ \A p \in below : tree.nodes[p].m_Stats = SumOf({s \in under : IsPrefix(p, path[s])})
          /\ \A i \in shown :
               /\ parentIndex(tree.nodes, i) \in shown \cup {InvalidIndex}
               /\ i \in RowsUnder(tree.nodes, parentIndex(tree.nodes, i))

\* findFileData and AnnotationView: every sampled line of the function that is a
\* line of its file is shown, no line has a sample that is another line's or
\* another function's, the tool tip of a line has the counts of its samples, and
\* the number drawn next to a line is its number, unless the function starts in
\* the first lines of the file.
AnnotationShowsItsLines ==
  (source # NoView /\ ~source.stale) =>
    LET S == SamplesOf(source.symbol, source.info)
        lined(s) == Lined(s.rip, source.info)
        line(s) == LinuxLine(s.rip, source.info)
        data == source.data
        allLined == \A s \in S : lined(s)
        tip(k) == ToolTip(data, source.lines, k)
    IN /\ \A s \in S : lined(s) /\ line(s) \in 1 .. SourceLines[data.m_FileName] =>
            \E k \in DOMAIN source.lines : source.lines[k].line = line(s) /\ tip(k) # {}
       /\ \A k \in DOMAIN source.lines : \A t \in tip(k) :
            /\ t.m_LineNumber = source.lines[k].line
            /\ allLined => /\ \E s \in S : line(s) = t.m_LineNumber
                           /\ t.m_Stats = SumOf({s \in S : line(s) = t.m_LineNumber})
       /\ data.m_FirstLine > kContextLines =>
            \A k \in DOMAIN source.lines : LineLabel(data, k) = source.lines[k].line

\* ObjectStack: the nodes of a tree, its root included, are all in the arena,
\* each inside a page, and none over another.
ArenaHoldsTheTree ==
  /\ FitsItsPages(arena)
  /\ tree # NoView => Len(arena.chain) = Cardinality(DOMAIN tree.nodes)
=============================================================================
