--------------------------- MODULE MCJaguarModule ---------------------------
(***************************************************************************)
(* Two cores of module 0 read and write three lines that compete for two   *)
(* ways, one of them also fetches code; a core of module 1 reads and       *)
(* writes one of the lines.                                                *)
(***************************************************************************)
EXTENDS JaguarModule

CONSTANT Accesses   \* the <<module, core, mode, lines>> the program makes

MCNext ==
  \/ \E a \in Accesses : \E line \in a[4] : ModuleAccess(a[1], a[2], line, a[3])
  \/ ModuleReset

MCSpec == ModuleInit /\ [][MCNext]_moduleVars

MCLines == {1, 2, 3}

MCAccesses ==
  { <<0, 0, "kRead", Lines>>, <<0, 0, "kWrite", Lines>>,
    <<0, 1, "kRead", Lines>>, <<0, 1, "kWrite", {1, 2}>>, <<0, 1, "kCodeRead", Lines>>,
    <<1, 0, "kRead", {1, 2}>>, <<1, 0, "kWrite", {1}>> }
=============================================================================
