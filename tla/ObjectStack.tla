---------------------------- MODULE ObjectStack ----------------------------
(***************************************************************************)
(* The arena under a call tree (ObjectStack.cpp, ObjectStack.h): objects   *)
(* are put one behind the other into pages, each behind a finalizer that   *)
(* reset() runs. An arena is its pages, the current one last, and the      *)
(* chain of finalizers, the newest first.                                  *)
(***************************************************************************)
EXTENDS Integers, Sequences

CONSTANTS
  DefaultPageSize,  \* kDefaultPageSize
  NodeSize          \* sizeof(TreeModel::Node)

SizeOfPage == 24        \* sizeof(Page)
SizeOfFinalizer == 32   \* sizeof(Finalizer)

RoundUp16(n) == ((n + 15) \div 16) * 16

\* A node fits a page, and what is left when no more nodes fit is no less than
\* the header (64 bytes of a page of 1 MiB, with nodes of 64 bytes).
ASSUME PageSizeAssumption ==
  LET bytes == NodeSize + SizeOfFinalizer
  IN /\ DefaultPageSize \in Nat /\ NodeSize \in Nat
     /\ SizeOfPage + bytes <= DefaultPageSize
     /\ (DefaultPageSize - bytes) % RoundUp16(bytes) >= SizeOfPage

EmptyArena == [pages |-> << >>, chain |-> << >>]

\* The header of a page is part of m_Size: avail() counts it as free.
avail(page) == page.m_Size - page.m_Allocated

allocPage(min_size) ==
  [m_Size |-> IF SizeOfPage + min_size > DefaultPageSize THEN SizeOfPage + min_size
              ELSE DefaultPageSize,
   m_Allocated |-> 0]

\* Mutant: the page is not checked for room.
WithRoomUnchecked(pages, byte_count) ==
  IF pages = << >> THEN Append(pages, allocPage(byte_count)) ELSE pages

WithRoom(pages, byte_count) ==
  IF pages = << >> THEN <<allocPage(byte_count)>>
  ELSE IF avail(pages[Len(pages)]) < byte_count THEN Append(pages, allocPage(byte_count))
  ELSE pages

\* allocFinalized through allocRaw: where the object is, and its finalizer.
allocFinalized(arena, byte_count) ==
  LET bytes == byte_count + SizeOfFinalizer
      pages == WithRoom(arena.pages, bytes)
      last == Len(pages)
  IN [arena EXCEPT
        !.pages = [pages EXCEPT ![last].m_Allocated = @ + RoundUp16(bytes)],
        !.chain = <<[page |-> last, at |-> pages[last].m_Allocated, bytes |-> bytes]>> \o @]

\* The destructors are run along the chain, then the pages are freed.
reset(arena) == EmptyArena

AllocNodes(arena, n) ==
  LET after[i \in 0 .. n] == IF i = 0 THEN arena ELSE allocFinalized(after[i - 1], NodeSize)
  IN after[n]
-----------------------------------------------------------------------------
\* Every object lies in the data of its page and no two share a byte.
FitsItsPages(arena) ==
  /\ \A i \in DOMAIN arena.chain :
       LET o == arena.chain[i]
       IN o.at + o.bytes <= arena.pages[o.page].m_Size - SizeOfPage
  /\ \A i, j \in DOMAIN arena.chain :
       (i # j /\ arena.chain[i].page = arena.chain[j].page) =>
         \/ arena.chain[i].at + arena.chain[i].bytes <= arena.chain[j].at
         \/ arena.chain[j].at + arena.chain[j].bytes <= arena.chain[i].at
=============================================================================
