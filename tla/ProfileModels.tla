--------------------------- MODULE ProfileModels ---------------------------
(***************************************************************************)
(* What the GUI makes of a trace file: the names that TraceData hands out  *)
(* (TraceData.cpp), the rows of the flat profile (FlatModel.cpp), the call *)
(* trees (TreeModel.cpp), and the annotated source of a function           *)
(* (TraceData::findFileData and AnnotationView.cpp).                       *)
(*                                                                         *)
(* Everything is a function of the file f and of cache, the strings that   *)
(* have been read so far by their offset (m_SymbolStringCache). Its values *)
(* are the keys of m_StringToSymbolNameIndex: both are filled and cleared  *)
(* together.                                                               *)
(***************************************************************************)
EXTENDS StackStore, SymbolResolver

CONSTANTS
  SourceLines     \* SourceLines[name]: the lines of the source file of that name

\* No file has an empty name.
ASSUME SourceLinesAssumption ==
  EmptyString \notin DOMAIN SourceLines /\ \A name \in DOMAIN SourceLines : SourceLines[name] \in Nat

-----------------------------------------------------------------------------
(* TraceData                                                               *)

isResolved(f) == f.header.m_SymbolCount > 0

\* A string that has been read before is not read again.
internedSymbolString(f, cache, offset) ==
  IF offset \in DOMAIN cache THEN cache[offset] ELSE GetString(f, offset)

\* The cache after some strings have been asked for.
Interned(f, cache, offsets) ==
  [o \in DOMAIN cache \cup offsets |-> internedSymbolString(f, cache, o)]

HasSymbol(f, rip) == FindSymbol(f, rip) # NoSymbol
SymbolOf(f, rip) == GetSymbols(f)[FindSymbol(f, rip)]

symbolNameForAddress(f, cache, rip) ==
  IF HasSymbol(f, rip) THEN internedSymbolString(f, cache, SymbolOf(f, rip).m_SymbolName)
  ELSE EmptyString

fileNameForAddress(f, cache, rip) ==
  IF HasSymbol(f, rip) THEN internedSymbolString(f, cache, SymbolOf(f, rip).m_FileName)
  ELSE EmptyString

NameOffsets(f, rips) == {SymbolOf(f, rip).m_SymbolName : rip \in {r \in rips : HasSymbol(f, r)}}
FileOffsets(f, rips) == {SymbolOf(f, rip).m_FileName : rip \in {r \in rips : HasSymbol(f, r)}}

RipsOf(nodes) == {nodes[i].m_Rip : i \in DOMAIN nodes}

Total(nodes) == FoldLeft(LAMBDA sum, node : Plus(sum, node.m_Stats), NoCounts, nodes)
-----------------------------------------------------------------------------
(* FlatModel::dataStoreChanged: one row for each name of a node that has a *)
(* symbol.                                                                 *)

FlatRows(f, cache) ==
  LET nodes == GetStats(f)
      named == {i \in DOMAIN nodes : HasSymbol(f, nodes[i].m_Rip)}
      name == [i \in named |-> symbolNameForAddress(f, cache, nodes[i].m_Rip)]
  IN [n \in {name[i] : i \in named} |-> Total(Selected(nodes, {i \in named : name[i] = n}))]

CacheAfterFlat(f, cache) == Interned(f, cache, NameOffsets(f, RipsOf(GetStats(f))))
-----------------------------------------------------------------------------
(* TreeModel. A node of the tree is named by the path of names from the    *)
(* root to it; m_Parent is Front(path).                                    *)

\* An empty rootSymbol asks for the whole tree.
NoRoot == EmptyString

\* Mutant: the instruction's own frame is not part of its path.
FramesOfCallers(f, node, rootSymbol) ==
  LET frames == StackAt(GetStacks(f), node.m_StackIndex)
  IN IF rootSymbol = NoRoot THEN Reverse(frames) ELSE frames

\* From the instruction outwards for the callers of one function, and from the
\* outermost call inwards for the whole tree.
FramesOf(f, node, rootSymbol) ==
  LET frames == <<node.m_Rip>> \o StackAt(GetStacks(f), node.m_StackIndex)
  IN IF rootSymbol = NoRoot THEN Reverse(frames) ELSE frames

FrameName(f, cache, rip) ==
  IF HasSymbol(f, rip) THEN internedSymbolString(f, cache, SymbolOf(f, rip).m_SymbolName)
  ELSE AddressName(rip)

\* The nodes that go into the tree.
NodesUnder(f, cache, rootSymbol) ==
  LET nodes == GetStats(f)
  IN Selected(nodes, {i \in DOMAIN nodes :
       rootSymbol = NoRoot \/ rootSymbol = symbolNameForAddress(f, cache, nodes[i].m_Rip)})

\* Every node adds to all the tree nodes on its path below the root. A tree node
\* has the file of the frame it was made for, and its children in the order in
\* which Node::child made them.
createTree(f, cache, rootSymbol) ==
  LET nodes == NodesUnder(f, cache, rootSymbol)
      frames == [i \in DOMAIN nodes |-> FramesOf(f, nodes[i], rootSymbol)]
      path == [i \in DOMAIN nodes |-> [d \in DOMAIN frames[i] |-> FrameName(f, cache, frames[i][d])]]
      prefixes == UNION {{SubSeq(path[i], 1, d) : d \in DOMAIN path[i]} : i \in DOMAIN nodes}
      through(p) == {i \in DOMAIN nodes : IsPrefix(p, path[i])}
      deeper(p) == Selected(path, {i \in through(p) : Len(path[i]) > Len(p)})
  IN [p \in prefixes \cup {<< >>} |->
        [m_Stats |-> IF p = << >> THEN NoCounts
                     ELSE Total(Selected(nodes, through(p))),
         m_FileName |-> IF p = << >> THEN EmptyString
                        ELSE fileNameForAddress(f, cache, frames[Nth(through(p), 1)][Len(p)]),
         m_Children |-> Distinct([k \in DOMAIN deeper(p) |-> deeper(p)[k][Len(p) + 1]])]]

(* The item model the view walks. An index is a row of a node; the invalid *)
(* one stands for the root.                                                *)
InvalidIndex == [row |-> -1, node |-> << >>]

rowInParentSpace(tree, p) ==
  IF p = << >> THEN 0 ELSE SelectInSeq(tree[Front(p)].m_Children, LAMBDA name : name = Last(p)) - 1

index(tree, row, parent) ==
  LET children == tree[parent.node].m_Children
  IN IF row + 1 \notin DOMAIN children THEN InvalidIndex
     ELSE [row |-> row, node |-> Append(parent.node, children[row + 1])]

parentIndex(tree, child) ==
  IF child = InvalidIndex \/ Front(child.node) = << >> THEN InvalidIndex
  ELSE [row |-> rowInParentSpace(tree, Front(child.node)), node |-> Front(child.node)]

rowCount(tree, parent) == Len(tree[parent.node].m_Children)

\* The children that are shown under an index.
RowsUnder(tree, parent) == {index(tree, row, parent) : row \in 0 .. rowCount(tree, parent) - 1}

\* All that a view finds when it goes down from the root, level by level.
Walked(tree) ==
  LET depth == Max({Len(p) : p \in DOMAIN tree})
      level[d \in 0 .. depth] ==
        IF d = 0 THEN {InvalidIndex} ELSE UNION {RowsUnder(tree, i) : i \in level[d - 1]}
  IN UNION {level[d] : d \in 1 .. depth}


\* The names of all the nodes if there is a root symbol to compare them with,
\* and the names and files of the frames.
CacheAfterTree(f, cache, rootSymbol) ==
  LET nodes == NodesUnder(f, cache, rootSymbol)
      rips == UNION {Range(FramesOf(f, nodes[i], rootSymbol)) : i \in DOMAIN nodes}
      compared == IF rootSymbol = NoRoot THEN {} ELSE RipsOf(GetStats(f))
  IN Interned(f, cache, NameOffsets(f, rips \cup compared) \cup FileOffsets(f, rips))
-----------------------------------------------------------------------------
(* TraceData::findFileData and AnnotationView                              *)

kContextLines == 5

NoFileInfo == [m_FileName |-> EmptyString, m_FirstLine |-> 0, m_LastLine |-> 0, m_Samples |-> << >>]

\* A symbol that is not in m_StringToSymbolNameIndex has index 0.
findFileData(f, cache, symbol) ==
  LET all == GetStats(f)
      nodes == Selected(all, {i \in DOMAIN all :
        HasSymbol(f, all[i].m_Rip) /\ symbolNameForAddress(f, cache, all[i].m_Rip) = symbol})
      line == [i \in DOMAIN nodes |-> SymbolOf(f, nodes[i].m_Rip).m_LineNumber]
      lines == {line[i] : i \in DOMAIN nodes}
      ascending == [k \in 1 .. Cardinality(lines) |-> Nth(lines, k)]
      file == [i \in DOMAIN nodes |-> fileNameForAddress(f, cache, nodes[i].m_Rip)]
      named == Selected(file, {i \in DOMAIN nodes : file[i] # EmptyString})
  IN IF symbol \notin Range(cache) \/ nodes = << >> THEN NoFileInfo
     ELSE [m_FileName |-> IF named = << >> THEN EmptyString ELSE named[1],
           m_FirstLine |-> Min(lines), m_LastLine |-> Max(lines),
           m_Samples |-> [i \in DOMAIN ascending |->
             [m_LineNumber |-> ascending[i],
              m_Stats |-> Total(Selected(nodes, {n \in DOMAIN nodes : line[n] = ascending[i]}))]]]

\* The names of all the nodes, and the files of the function's nodes up to the
\* first that has one.
CacheAfterAnnotation(f, cache, symbol) ==
  LET all == GetStats(f)
      nodes == Selected(all, {i \in DOMAIN all : symbolNameForAddress(f, cache, all[i].m_Rip) = symbol})
      asked == {i \in DOMAIN nodes : \A j \in 1 .. i - 1 :
                  fileNameForAddress(f, cache, nodes[j].m_Rip) = EmptyString}
  IN IF symbol \notin Range(cache) THEN cache
     ELSE Interned(f, cache, NameOffsets(f, RipsOf(GetStats(f)))
                             \cup FileOffsets(f, {nodes[i].m_Rip : i \in asked}))

\* The place of a line's sample among the samples (counted from 1), -1 if it has
\* none: lower_bound.
SampleIndex(info, lineNo) ==
  LET at == Cardinality({i \in DOMAIN info.m_Samples : info.m_Samples[i].m_LineNumber < lineNo}) + 1
  IN IF at \in DOMAIN info.m_Samples /\ info.m_Samples[at].m_LineNumber = lineNo THEN at ELSE -1

\* Mutant: one line too many is skipped.
AnnotationViewSkipsMore(info, length) ==
  LET start == Max({1, info.m_FirstLine - kContextLines + 1})
      end == Min({info.m_LastLine + kContextLines - 1, length})
  IN [i \in 1 .. Max({0, end - start + 1}) |->
        [line |-> start + i - 1, m_SampleIndex |-> SampleIndex(info, start + i - 1)]]

\* The constructor: the lines that are read and kept, and the sample of each.
AnnotationView(info, length) ==
  LET start == Max({1, info.m_FirstLine - kContextLines})
      end == Min({info.m_LastLine + kContextLines - 1, length})
  IN [i \in 1 .. Max({0, end - start + 1}) |->
        [line |-> start + i - 1, m_SampleIndex |-> SampleIndex(info, start + i - 1)]]

\* event: the samples that the tool tip of the i-th line shows, none or one.
ToolTip(info, lines, i) ==
  IF i \notin DOMAIN lines \/ lines[i].m_SampleIndex = -1 THEN {} ELSE {info.m_Samples[lines[i].m_SampleIndex]}

\* paintEvent: the number that is drawn next to the i-th line (counted from 1).
LineLabel(info, i) == i - 1 + info.m_FirstLine - kContextLines
=============================================================================
