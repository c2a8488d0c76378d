----------------------------- MODULE LruCache ------------------------------
(***************************************************************************)
(* What Cache promises: a set-associative cache with least-recently-used   *)
(* replacement, with no arrays, ways or shifting.                          *)
(***************************************************************************)
EXTENDS Naturals, FiniteSets

CONSTANTS
  Lines,      \* the lines that may be cached
  Capacity,   \* how many lines one set holds
  SetOf       \* SetOf[l]: the set of line l

VARIABLES
  resident,   \* the cached lines
  later,      \* <<a, b>>: a and b are cached in one set, a was used after b
  call        \* the last call and its result

vars == <<resident, later, call>>

Peers(l) == {x \in resident : SetOf[x] = SetOf[l] /\ x # l}

\* The peer of l that every other peer was used after.
Oldest(l, x) ==
  /\ x \in Peers(l)
  /\ \A y \in Peers(l) \ {x} : <<y, x>> \in later

Keep(S) == {p \in later : p[1] \in S /\ p[2] \in S}

Init ==
  /\ resident = {}
  /\ later = {}
  /\ call = [op |-> "Init"]

\* Use of line l, where the lines of Evicted make room for it.
Use(l, Evicted) ==
  /\ call' = [op |-> "Access", line |-> l, hit |-> l \in resident]
  /\ resident' = (resident \ Evicted) \cup {l}
  /\ later' = Keep(resident \ (Evicted \cup {l}))
                \cup {<<l, x>> : x \in Peers(l) \ Evicted}

Hit(l) == l \in resident /\ Use(l, {})

Fill(l) ==
  /\ l \notin resident
  /\ Cardinality(Peers(l)) < Capacity
  /\ Use(l, {})

Replace(l) ==
  /\ l \notin resident
  /\ Cardinality(Peers(l)) = Capacity
  /\ \E x \in Peers(l) : Oldest(l, x) /\ Use(l, {x})

Drop(l) ==
  /\ resident' = resident \ {l}
  /\ later' = Keep(resident \ {l})
  /\ call' = [op |-> "Invalidate", line |-> l]

Clear ==
  /\ resident' = {}
  /\ later' = {}
  /\ call' = [op |-> "Init"]

Next ==
  \/ \E l \in Lines : Hit(l) \/ Fill(l) \/ Replace(l) \/ Drop(l)
  \/ Clear

Spec == Init /\ [][Next]_vars
=============================================================================
