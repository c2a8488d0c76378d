------------------------- MODULE MCDecodeSequence -------------------------
(* Instances of DecodeSequence for TLC: every addressing form of a few     *)
(* families, every prefix of all of them.                                  *)
EXTENDS DecodeSequence

Plain == [fam |-> "load", seg |-> "none", opr |-> FALSE, adr |-> FALSE, str |-> 0, rex |-> -1, early |-> FALSE,
          pad |-> 0, long |-> FALSE, wide |-> FALSE, mod |-> 1, reg |-> 0, rm |-> 0, scale |-> 0, index |-> 0, sibBase |-> 0]

(* Addressing forms: the registers 0, 4 and 5 are the ones with exceptions. *)
NoSibs == {<<0, 0, 0>>}
SibsOf(mod, rm) == IF mod # 3 /\ rm = 4 THEN {0, 3} \X {0, 4, 5} \X {0, 4, 5} ELSE NoSibs
Addressing ==
  UNION {{[Plain EXCEPT !.fam = f, !.rex = r, !.mod = m, !.rm = n, !.adr = a,
                        !.scale = s[1], !.index = s[2], !.sibBase = s[3]] :
            f \in {"load", "store8", "vmovups"}, r \in {-1, 0, 1, 2, 3}, a \in BOOLEAN, s \in SibsOf(m, n)} :
         m \in 0 .. 3, n \in {0, 4, 5}}

(* Prefixes: every family with every combination that makes a difference: *)
(* F2 only where it may choose a table, es once as the segment of no use.  *)
SegmentsOf(f) == IF f = "load" THEN {"none", "fs", "es"} ELSE {"none", "fs"}
StrsOf(f) == CASE Families[f].vex -> {0}
               [] ~Families[f].vex /\ (Families[f].op[1] = \h0F \/ f = "movs") -> {0, \hF2, \hF3}
               [] OTHER -> {0, \hF3}
WithFamily(f) ==
  {[Plain EXCEPT !.fam = f, !.seg = g, !.opr = o, !.adr = a, !.str = s, !.rex = r, !.early = e, !.mod = m,
                 !.reg = IF Families[f].digit = 8 THEN 0 ELSE Families[f].digit,
                 !.rm = IF f = "rdtscp" THEN 1 ELSE 0, !.long = l, !.wide = w] :
     g \in SegmentsOf(f), o \in {FALSE, ~Families[f].vex}, a \in BOOLEAN,
     s \in StrsOf(f),
     r \in {-1, 0, 1, 8}, e \in {FALSE, ~Families[f].vex},
     m \in IF HasModrm([fam |-> f]) THEN {1, 3} ELSE {1},
     l \in {FALSE, Families[f].vex}, w \in {FALSE, Families[f].vex}}

(* As long as the processor allows. *)
Padded ==
  {[Plain EXCEPT !.fam = f, !.opr = TRUE, !.pad = n, !.rex = r, !.mod = 2, !.rm = 4] :
     f \in {"nop", "longnop", "storeimm", "store"}, n \in 4 .. 13, r \in {-1, 8}}

MCInstructions ==
  {i \in Padded : WellFormed(i) /\ ProcessorLength(i) <= 15} \union {i \in Addressing : WellFormed(i)} \union UNION {{i \in WithFamily(f) : WellFormed(i)} : f \in DOMAIN Families}

(* Instructions that leave something behind in every field of an operand. *)
MCLeading ==
  {[Plain EXCEPT !.rex = 3, !.mod = 2, !.rm = 4, !.scale = 3, !.index = 5, !.sibBase = 5],
   [Plain EXCEPT !.fam = "vblendvps", !.rex = 1, !.wide = TRUE, !.seg = "fs"],
   [Plain EXCEPT !.fam = "pushes", !.opr = TRUE, !.str = \hF2, !.seg = "fs"],
   [Plain EXCEPT !.fam = "imul", !.opr = TRUE, !.adr = TRUE]}
===========================================================================
