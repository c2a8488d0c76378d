------------------------------ MODULE MCCache ------------------------------
(* Two sets of four ways: five lines compete for one, two share the other. *)
EXTENDS Cache

MCAddrs == {2, 3, 4, 6, 8, 10, 14, 18}
=============================================================================
