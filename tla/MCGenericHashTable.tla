------------------------- MODULE MCGenericHashTable -------------------------
(* Four keys, three of which share a chain of the smallest table. The      *)
(* table grows from nothing to 2, 4 and 8 slots.                           *)
EXTENDS GenericHashTable

MCHash == [k \in Keys |-> CASE k = 1 -> 1 [] k = 2 -> 3 [] k = 3 -> 7 [] k = 4 -> 2]
=============================================================================
