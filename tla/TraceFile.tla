----------------------------- MODULE TraceFile -----------------------------
(***************************************************************************)
(* The saved capture: how CacheSimEndCapture writes it (CacheSimCommon.inl *)
(* and the GetModuleList of each system), what symbolsResolved appends     *)
(* (TraceData.cpp), and how it is read (SerializedHeader in                *)
(* CacheSimData.h).                                                        *)
(*                                                                         *)
(* A file is its size, its header and cell[o], what was written at byte o. *)
(* The header's words are written first as placeholders and patched.       *)
(***************************************************************************)
EXTENDS Integers, Sequences, SequencesExt, Subsequences

CONSTANTS
  MaxModules,   \* ARRAY_SIZE(ModuleList::m_Infos)
  Executable,   \* the name of the program's own file
  NoName,       \* an empty module name
  Objects       \* the objects that a program may load

ASSUME ModulesAssumption ==
  /\ MaxModules \in Nat \ {0}
  /\ Executable.len \in Nat /\ NoName.len \in Nat /\ Executable # NoName
  /\ \A o \in Objects :
       /\ o.base \in Nat /\ o.seg \in Nat /\ o.size \in Nat /\ o.name.len \in Nat
       /\ o.code \in BOOLEAN /\ o.vdso \in BOOLEAN /\ o.queried \in BOOLEAN

Placeholder == -1     \* 0xffeeddcc, which is no offset and no count
SizeOfHeader == 48
SizeOfModuleEntry == 24
SizeOfFrame == 8
SizeOfNode == 48
SizeOfSymbol == 32
SizeOfChar == 2       \* sizeof(QChar)

\* Names are records: text tells them apart, len is how long they are.
StringBytes(name) == name.len + 1
-----------------------------------------------------------------------------
(* GetModuleList. A loaded object has an executable segment (code), is the *)
(* vdso, has a name or not, and on Windows can be queried or not.          *)

Info(o, name) == [m_ImageBase |-> o.base, m_ImageSegmentOffset |-> o.seg,
                  m_SizeBytes |-> o.size, m_Filename |-> name]

\* The first object without a name is the program itself.
NameOf(loaded, i) == IF loaded[i].name # NoName THEN loaded[i].name
                     ELSE IF i = 1 THEN Executable ELSE NoName

Recorded(loaded, i) == /\ loaded[i].code /\ ~loaded[i].vdso
                       /\ NameOf(loaded, i) # NoName

\* RecordModule, called by dl_iterate_phdr for every object until the list is
\* full.
LinuxModuleList(loaded) ==
  LET all == [i \in DOMAIN loaded |-> Info(loaded[i], NameOf(loaded, i))]
      list == Selected(all, {i \in DOMAIN loaded : Recorded(loaded, i)})
  IN SubSeq(list, 1, IF Len(list) < MaxModules THEN Len(list) ELSE MaxModules)

EmptyInfo == [m_ImageBase |-> 0, m_ImageSegmentOffset |-> 0, m_SizeBytes |-> 0, m_Filename |-> NoName]

\* A module that can not be queried leaves its place in the list empty, but
\* the count is that of the others.
WindowsModuleList(loaded) ==
  LET n == IF Len(loaded) < MaxModules THEN Len(loaded) ELSE MaxModules
      infos == [i \in 1 .. n |-> IF loaded[i].queried
                                 THEN [Info(loaded[i], NameOf(loaded, i)) EXCEPT !.m_ImageSegmentOffset = 0]
                                 ELSE EmptyInfo]
      m_Count == Cardinality({i \in 1 .. n : loaded[i].queried})
  IN SubSeq(infos, 1, m_Count)
-----------------------------------------------------------------------------
(* CacheSimEndCapture(true)                                                *)

NewFile ==
  [size |-> SizeOfHeader,
   cell |-> << >>,
   header |-> [m_ModuleOffset |-> Placeholder, m_ModuleCount |-> Placeholder,
               m_ModuleStringOffset |-> Placeholder,
               m_FrameOffset |-> Placeholder, m_FrameCount |-> Placeholder,
               m_StatsOffset |-> Placeholder, m_StatsCount |-> Placeholder,
               m_SymbolOffset |-> 0, m_SymbolCount |-> 0, m_SymbolTextOffset |-> 0]]

\* offset[i]: the sum of the sizes before the i-th.
Offsets(sizes) ==
  LET sum[i \in 0 .. Len(sizes)] == IF i = 0 THEN 0 ELSE sum[i - 1] + sizes[i]
  IN [i \in 1 .. Len(sizes) + 1 |-> sum[i - 1]]

\* The values one after the other at the end of the file.
Write(f, values, sizes) ==
  LET at == [i \in 1 .. Len(sizes) + 1 |-> f.size + Offsets(sizes)[i]]
      new == {at[i] : i \in DOMAIN values}
  IN [f EXCEPT !.size = at[Len(sizes) + 1],
               !.cell = [o \in DOMAIN f.cell \cup new |->
                           IF o \in new THEN values[CHOOSE i \in DOMAIN values : at[i] = o]
                           ELSE f.cell[o]]]

WriteEach(f, values, size) == Write(f, values, [i \in DOMAIN values |-> size])

\* Mutant: the position is rounded down.
AlignDown(f) == [f EXCEPT !.size = (@ \div 8) * 8]

Align(f) == [f EXCEPT !.size = ((@ + 7) \div 8) * 8]

ModuleEntries(modules) ==
  LET strings == Offsets([i \in DOMAIN modules |-> StringBytes(modules[i].m_Filename)])
  IN [i \in DOMAIN modules |->
        [m_ImageBase |-> modules[i].m_ImageBase,
         m_ImageSegmentOffset |-> modules[i].m_ImageSegmentOffset,
         m_SizeBytes |-> modules[i].m_SizeBytes,
         m_StringOffset |-> strings[i]]]

\* Without modules their words of the header keep the placeholders.
WriteModules(f, modules) ==
  IF modules = << >> THEN f
  ELSE LET at == Align(f)
           entries == WriteEach(at, ModuleEntries(modules), SizeOfModuleEntry)
           names == [i \in DOMAIN modules |-> modules[i].m_Filename]
           strings == Write(entries, names, [i \in DOMAIN names |-> StringBytes(names[i])])
       IN [strings EXCEPT !.header.m_ModuleOffset = at.size,
                          !.header.m_ModuleCount = Len(modules),
                          !.header.m_ModuleStringOffset = entries.size]

WriteFrames(f, frames) ==
  LET at == Align(f)
  IN [WriteEach(at, frames, SizeOfFrame) EXCEPT
        !.header.m_FrameOffset = at.size, !.header.m_FrameCount = Len(frames)]

WriteStats(f, nodes) ==
  LET at == Align(f)
  IN [WriteEach(at, nodes, SizeOfNode) EXCEPT
        !.header.m_StatsOffset = at.size, !.header.m_StatsCount = Len(nodes)]

Saved(modules, frames, nodes) ==
  WriteStats(WriteFrames(WriteModules(NewFile, modules), frames), nodes)
-----------------------------------------------------------------------------
(* TraceData::symbolsResolved: symbols and their text at the end of the    *)
(* file; what an earlier resolution appended stays where it was.           *)

AppendSymbols(f, symbols, strings) ==
  LET table == WriteEach(f, symbols, SizeOfSymbol)
      text == Write(table, strings, [i \in DOMAIN strings |-> SizeOfChar * StringBytes(strings[i])])
  IN [text EXCEPT !.header.m_SymbolOffset = f.size,
                  !.header.m_SymbolCount = Len(symbols),
                  !.header.m_SymbolTextOffset = table.size]
-----------------------------------------------------------------------------
(* SerializedHeader                                                        *)

serializedOffset(f, offset, count, size) ==
  [i \in 1 .. count |-> f.cell[offset + (i - 1) * size]]

GetModules(f) == serializedOffset(f, f.header.m_ModuleOffset, f.header.m_ModuleCount, SizeOfModuleEntry)
GetModuleName(f, module) == f.cell[f.header.m_ModuleStringOffset + module.m_StringOffset]
GetStacks(f) == serializedOffset(f, f.header.m_FrameOffset, f.header.m_FrameCount, SizeOfFrame)
GetStats(f) == serializedOffset(f, f.header.m_StatsOffset, f.header.m_StatsCount, SizeOfNode)
GetSymbols(f) == serializedOffset(f, f.header.m_SymbolOffset, f.header.m_SymbolCount, SizeOfSymbol)

\* What is between two strings is not the start of one.
NoString == [text |-> <<"?">>, len |-> 1]
GetString(f, offset) ==
  LET at == f.header.m_SymbolTextOffset + SizeOfChar * offset
  IN IF at \in DOMAIN f.cell THEN f.cell[at] ELSE NoString

NoSymbol == 0

\* A round of std::lower_bound: of the symbols in question, those from b.first
\* to before b.last, one half is left.
Halved(symbols, rip, b) ==
  LET middle == b.first + (b.last - b.first) \div 2
  IN IF b.first >= b.last THEN b
     ELSE IF symbols[middle].m_Rip < rip THEN [b EXCEPT !.first = middle + 1]
     ELSE [b EXCEPT !.last = middle]

\* The first symbol that is not less than rip, in a table that is taken to be
\* sorted.
FindSymbol(f, rip) ==
  LET symbols == GetSymbols(f)
      n == Len(symbols)
      inQuestion[k \in 0 .. n] ==
        IF k = 0 THEN [first |-> 1, last |-> n + 1] ELSE Halved(symbols, rip, inQuestion[k - 1])
      s == inQuestion[n].first
  IN IF s > n THEN NoSymbol
     ELSE IF symbols[s].m_Rip # rip THEN NoSymbol ELSE s
=============================================================================
