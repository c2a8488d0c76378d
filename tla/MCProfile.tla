------------------------------ MODULE MCProfile ------------------------------
(***************************************************************************)
(* Three functions: Main and Work in a program at 100, Sort in a library   *)
(* at 40 that is listed after it, so that the order in the file is not the *)
(* order of the addresses; and code at 200 that belongs to no module.      *)
(* A capture has up to two samples, a digest's block three words, the      *)
(* store of stacks of up to three frames starts with four words, and       *)
(* counters wrap at 4.                                                     *)
(***************************************************************************)
EXTENDS Profile

Str(text, len) == [text |-> <<text>>, len |-> len]

MCCounters == {"miss", "insns"}
Counts(a, b) == [miss |-> a, insns |-> b]

Main == 101
Work1 == 112
Work2 == 113
SortIt == 41
Outside == 200
MCRips == {Main, Work1, Work2, SortIt, Outside}
MCStacks == {<< >>, <<Main>>, <<Work1, Main>>, <<SortIt, Work1, Main>>}

Sample(rip, stack, counts) == [rip |-> rip, stack |-> stack, counts |-> counts]
MCSamples == {Sample(Main, << >>, Counts(0, 2)),
              Sample(Work1, <<Main>>, Counts(1, 3)),
              Sample(Work2, <<Main>>, Counts(0, 1)),
              Sample(SortIt, <<Work1, Main>>, Counts(1, 1)),
              Sample(Outside, <<SortIt, Work1, Main>>, Counts(1, 1))}

Object(name, base, seg, size) ==
  [name |-> name, base |-> base, seg |-> seg, size |-> size, code |-> TRUE, vdso |-> FALSE, queried |-> TRUE]

MCNoName == Str("", 0)
MCExecutable == Str("/bin/prog", 3)
Program == Object(MCNoName, 100, 0, 50)
Library == Object(Str("/lib/sort.so", 6), 30, 10, 20)
Vdso == [Object(Str("linux-vdso.so", 4), 190, 0, 5) EXCEPT !.vdso = TRUE]
DataOnly == [Object(Str("data.so", 2), 300, 0, 5) EXCEPT !.code = FALSE]
LibC == Object(Str("libc.so", 3), 400, 0, 5)
WindowsProgram == [Program EXCEPT !.name = MCExecutable]
Unqueried == [Object(Str("bad.dll", 5), 60, 0, 10) EXCEPT !.queried = FALSE]

MCObjects == {Program, Library, Vdso, DataOnly, LibC, WindowsProgram, Unqueried}
MCLoadedLists == [linux |-> {<<Program, Vdso, DataOnly, Library, LibC>>},
                  windows |-> {<<WindowsProgram, Library>>, <<Unqueried, WindowsProgram>>}]

\* What is known of an address: by addr2line or DbgHelp, and by objdump.
Known(a, o, f, line) == [addr2line |-> a, objdump |-> o, file |-> f, line |-> line]
WorkC == Str("work.c", 5)
NoFileKnown == Str("??", 2)
Nothing == Known(Unknown, Unknown, NoFileKnown, NoLineNumber)

\* With all the debug information, and with half of it: a function that nobody
\* knows, one that only objdump knows, and one with a line that is not known, in
\* the first lines of its file.
Full ==
  [r \in MCRips |->
     CASE r = Main -> Known(Str("main", 4), Unknown, WorkC, 3)
       [] r = Work1 -> Known(Str("work(int)", 9), Unknown, WorkC, 8)
       [] r = Work2 -> Known(Str("work(int)", 9), Unknown, WorkC, 11)
       [] r = SortIt -> Known(Str("sort", 4), Unknown, Str("sort.c", 6), 2)
       [] OTHER -> Nothing]
Half ==
  [r \in MCRips |->
     CASE r = Work1 -> Known(Str("work", 4), Unknown, WorkC, 4)
       [] r = Work2 -> Known(Str("work", 4), Unknown, NoFileKnown, NoLineNumber)
       [] r = SortIt -> Known(Unknown, Str("sort", 4), NoFileKnown, NoLineNumber)
       [] OTHER -> Nothing]
MCInfos == {Full, Half}
MCSourceLines == [f \in {WorkC} |-> 12]
=============================================================================
