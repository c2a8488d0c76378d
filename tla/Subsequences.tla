---------------------------- MODULE Subsequences ----------------------------
(***************************************************************************)
(* What a loop that goes through an array and keeps some of its elements   *)
(* leaves: the elements at the chosen positions, in their order. SelectSeq *)
(* is the same for a test of the element; this form, without recursion and *)
(* without an operator as argument, can be proved about. And the order a   *)
(* sort by keys brings positions into, as SortSeq has it for elements.     *)
(***************************************************************************)
EXTENDS Naturals, Sequences, FiniteSets

\* How many of the positions I come up to i
Rank(I, i) == Cardinality({j \in I : j <= i})

\* The k-th of the positions I
Nth(I, k) == CHOOSE i \in I : Rank(I, i) = k

\* The same sequence. TLC evaluates one that is concatenated once, and one that
\* is a function at every application.
Evaluated(s) == s \o << >>

Selected(s, I) == Evaluated([k \in 1 .. Cardinality(I) |-> s[Nth(I, k)]])

\* Where position i comes when positions are sorted by their keys, those with
\* equal keys in their order
Place(key, i) ==
  Cardinality({j \in DOMAIN key : key[j] < key[i] \/ (key[j] = key[i] /\ j <= i)})

\* The positions sorted by their keys
Order(key) ==
  LET keys == Evaluated(key)
  IN Evaluated([k \in DOMAIN keys |-> CHOOSE i \in DOMAIN keys : Place(keys, i) = k])
=============================================================================
