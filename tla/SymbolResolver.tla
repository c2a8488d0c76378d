--------------------------- MODULE SymbolResolver ---------------------------
(***************************************************************************)
(* From addresses to symbols: ResolveSymbols of each system                *)
(* (SymbolResolverLinux.cpp, SymbolResolverWindows.cpp) and                *)
(* TraceData::symbolResolveTask, which interns their strings and sorts     *)
(* them.                                                                   *)
(*                                                                         *)
(* What addr2line, objdump and DbgHelp know is a parameter: known[rip] is  *)
(* a function's name or Unknown from each, a file and a line, NoLineNumber *)
(* when there is none. A module whose file addr2line can not read makes it *)
(* print nothing, and ResolveSymbols asks it again for ever: not here.     *)
(***************************************************************************)
EXTENDS TraceFile

CONSTANTS Unknown, NoLineNumber

EmptyString == [text |-> << >>, len |-> 0]

\* "[%016x]", for an address without a symbol
AddressName(rip) == [text |-> <<"[", rip, "]">>, len |-> 18]

\* getline keeps the end of the line in the name.
WithNewline(name) == [text |-> Append(name.text, "\n"), len |-> name.len + 1]

\* The first of equal members is kept.
Distinct(s) ==
  LET t == Evaluated(s)
  IN Selected(t, {i \in DOMAIN t : \A j \in 1 .. i - 1 : t[j] # t[i]})

\* The addresses of the stacks, without the zeros that end them, and then those
\* of the nodes, each once.
Addresses(stacks, nodes) ==
  Distinct(Selected(stacks, {i \in DOMAIN stacks : stacks[i] # 0}) \o [i \in DOMAIN nodes |-> nodes[i].m_Rip])

Symbol(rip, name, file, line, module) ==
  [m_Rip |-> rip, m_SymbolName |-> name, m_FileName |-> file, m_LineNumber |-> line, m_ModuleIndex |-> module]
-----------------------------------------------------------------------------
(* Linux                                                                   *)

InSegment(rip, entry) ==
  LET start == entry.m_ImageBase + entry.m_ImageSegmentOffset
  IN rip >= start /\ rip < start + entry.m_SizeBytes

\* "[0x%016lx in %s]"
AddressInModule(rip, file) == [text |-> <<"[0x", rip, "in", file.text, "]">>, len |-> 24 + file.len]

\* addr2line's name, or objdump's, which has no end of line, or the address.
LinuxName(rip, file, known) ==
  IF known[rip].addr2line # Unknown THEN WithNewline(known[rip].addr2line)
  ELSE IF known[rip].objdump # Unknown THEN known[rip].objdump
  ELSE AddressInModule(rip, file)

LinuxLine(rip, known) == IF known[rip].line = NoLineNumber THEN -1 ELSE known[rip].line

\* The first of the modules that have an address, 0 if none has.
FirstOf(having) == IF having = {} THEN 0 ELSE CHOOSE i \in having : \A j \in having : i <= j

\* One module after the other, in order of address; m_ModuleIndex is the place
\* in that order, not in the file.
LinuxResolveSymbols(modules, names, stacks, nodes, known) ==
  LET order == Order([i \in DOMAIN modules |-> modules[i].m_ImageBase])
      addresses == Addresses(stacks, nodes)
      moduleOf == Evaluated([a \in DOMAIN addresses |->
        FirstOf({j \in DOMAIN order : InSegment(addresses[a], modules[order[j]])})])
      found == Selected([a \in DOMAIN addresses |-> a], {a \in DOMAIN addresses : moduleOf[a] # 0})
      byModule == Order([k \in DOMAIN found |-> moduleOf[found[k]]])
  IN Evaluated([k \in DOMAIN found |->
        LET a == found[byModule[k]]
            i == moduleOf[a]
            rip == addresses[a]
        IN Symbol(rip, LinuxName(rip, names[order[i]], known), known[rip].file, LinuxLine(rip, known), i - 1)])
-----------------------------------------------------------------------------
(* Windows                                                                 *)

InImage(rip, entry) == rip >= entry.m_ImageBase /\ rip <= entry.m_ImageBase + entry.m_SizeBytes

\* DbgHelp knows the modules that were loaded into it.
KnownModule(rip, modules) ==
  \E i \in DOMAIN modules : rip >= modules[i].m_ImageBase /\ rip < modules[i].m_ImageBase + modules[i].m_SizeBytes

\* Every address has a symbol, its address if it has no name. The line is not
\* set, and is any, when DbgHelp knows none.
WindowsResolveSymbols(modules, stacks, nodes, known, any) ==
  LET addresses == Addresses(stacks, nodes)
  IN Evaluated([k \in DOMAIN addresses |->
        LET rip == addresses[k]
            named == KnownModule(rip, modules) /\ known[rip].addr2line # Unknown
            lined == named /\ known[rip].line # NoLineNumber
        IN Symbol(rip, IF named THEN known[rip].addr2line ELSE AddressName(rip),
                  IF lined THEN known[rip].file ELSE EmptyString,
                  IF lined THEN known[rip].line ELSE any,
                  FirstOf({j \in DOMAIN modules : InImage(rip, modules[j])}) - 1)])
-----------------------------------------------------------------------------
(* TraceData::symbolResolveTask                                            *)

\* The name and the file of every symbol in turn.
NamesAndFiles(resolved) ==
  [k \in 1 .. 2 * Len(resolved) |->
     IF k % 2 = 1 THEN resolved[(k + 1) \div 2].m_SymbolName ELSE resolved[k \div 2].m_FileName]

\* The distinct names and files in the order they are met, after the empty
\* string that offset 0 stands for.
InternedStrings(resolved) == <<EmptyString>> \o Distinct(NamesAndFiles(resolved))

\* Mutant: the zero after a string is not counted.
StringOffsetNoZero(strings, s) ==
  LET at == Offsets([i \in DOMAIN strings |-> strings[i].len])
  IN at[CHOOSE i \in 2 .. Len(strings) : strings[i] = s]

\* In characters, from the second string on: offset 0 is nobody's.
StringOffset(strings, s) ==
  LET at == Offsets([i \in DOMAIN strings |-> StringBytes(strings[i])])
  IN at[CHOOSE i \in 2 .. Len(strings) : strings[i] = s]

SerializedSymbols(resolved) ==
  LET strings == InternedStrings(resolved)
      out == [i \in DOMAIN resolved |->
        [m_Rip |-> resolved[i].m_Rip,
         m_SymbolName |-> StringOffset(strings, resolved[i].m_SymbolName),
         m_FileName |-> StringOffset(strings, resolved[i].m_FileName),
         m_LineNumber |-> resolved[i].m_LineNumber,
         m_ModuleIndex |-> resolved[i].m_ModuleIndex]]
      order == Order([i \in DOMAIN out |-> resolved[i].m_Rip])
  IN [k \in DOMAIN order |-> out[order[k]]]
=============================================================================
