----------------------------- MODULE StableMap -----------------------------
(***************************************************************************)
(* What GenericHashTable promises: a map from keys to counters, each of    *)
(* which stays at one place as long as its key is in the map.              *)
(***************************************************************************)
EXTENDS Naturals

CONSTANTS Keys, Places, Null

VARIABLES
  entries,    \* the keys that are in the map, with their place and counter
  call        \* the last call and its result

vars == <<entries, call>>

Occupied == {entries[k].place : k \in DOMAIN entries}
PlaceOf(k) == IF k \in DOMAIN entries THEN entries[k].place ELSE Null

Init == entries = << >> /\ call = [op |-> "Init"]

InsertOld(k) ==
  /\ k \in DOMAIN entries
  /\ call' = [op |-> "Insert", key |-> k, result |-> PlaceOf(k)]
  /\ UNCHANGED entries

\* A new counter starts at zero, wherever there is room.
InsertNew(k) ==
  /\ k \notin DOMAIN entries
  /\ \E p \in Places \ Occupied :
       /\ entries' = [x \in DOMAIN entries \cup {k} |->
                       IF x = k THEN [place |-> p, count |-> 0] ELSE entries[x]]
       /\ call' = [op |-> "Insert", key |-> k, result |-> p]

Find(k) ==
  /\ call' = [op |-> "Find", key |-> k, result |-> PlaceOf(k)]
  /\ UNCHANGED entries

\* The user counts through the pointer it got.
Count(k) ==
  /\ k \in DOMAIN entries
  /\ entries' = [entries EXCEPT ![k].count = @ + 1]
  /\ call' = [op |-> "Count", key |-> k]

Remove(k) ==
  /\ k \in DOMAIN entries
  /\ entries' = [x \in DOMAIN entries \ {k} |-> entries[x]]
  /\ call' = [op |-> "Remove", key |-> k]

Clear == entries' = << >> /\ call' = [op |-> "FreeAll"]

Enumerate == call' = [op |-> "Keys"] /\ UNCHANGED entries

Next ==
  \/ \E k \in Keys : InsertOld(k) \/ InsertNew(k) \/ Find(k) \/ Count(k) \/ Remove(k)
  \/ Clear \/ Enumerate

Spec == Init /\ [][Next]_vars
=============================================================================
