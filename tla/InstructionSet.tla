-------------------------- MODULE InstructionSet --------------------------
(***************************************************************************)
(* What the decoder is compared with: how the processor reads instructions *)
(* of some families in 64-bit mode.  An instruction is a family, prefixes  *)
(* and the fields of its mod/rm and SIB bytes; Encode gives its bytes and  *)
(* the operators after it say what the processor makes of it.              *)
(***************************************************************************)
EXTENDS Integers, Sequences, TLC

(* op: opcode bytes, after 0F or VEX.  mem: "rm" (memory or register), "m" *)
(* (memory only), "r" (register only), "moffs" or "none".  bits: the width *)
(* of the memory operand, if prefixes do not decide it ("v", "y", "2y",    *)
(* "d64", "x").  access: 1 it is read, 2 written, 3 both.                  *)
Family(mnemonic, op, digit, mem, width, bits, access, imm) ==
  [mnemonic |-> mnemonic, op |-> op, digit |-> digit, mem |-> mem, width |-> width, bits |-> bits,
   access |-> access, imm |-> imm, str |-> "any", vex |-> FALSE, map |-> 0, pp |-> 0]
Sse(mnemonic, op, str, bits, access) ==
  [Family(mnemonic, op, 8, "rm", "bits", bits, access, "none") EXCEPT !.str = str]
Vex(mnemonic, map, pp, op, mem, width, bits, access, imm) ==
  [Family(mnemonic, <<op>>, 8, mem, width, bits, access, imm) EXCEPT !.vex = TRUE, !.map = map, !.pp = pp]

Families ==
     "add" :> Family("add", <<\h01>>, 8, "rm", "v", 0, 3, "none")
  @@ "store" :> Family("mov", <<\h89>>, 8, "rm", "v", 0, 2, "none")
  @@ "store8" :> Family("mov", <<\h88>>, 8, "rm", "bits", 8, 2, "none")
  @@ "load" :> Family("mov", <<\h8B>>, 8, "rm", "v", 0, 1, "none")
  @@ "storeimm" :> Family("mov", <<\hC7>>, 0, "rm", "v", 0, 2, "z")
  @@ "loadseg" :> Family("mov", <<\h8E>>, 3, "rm", "bits", 16, 1, "none")
  @@ "loadabs" :> Family("mov", <<\hA0>>, 8, "moffs", "bits", 8, 1, "none")
  @@ "loadimm" :> Family("mov", <<\hB8>>, 8, "none", "bits", 0, 0, "v")
  @@ "imul" :> Family("imul", <<\h69>>, 8, "rm", "v", 0, 1, "z")
  @@ "lea" :> Family("lea", <<\h8D>>, 8, "m", "bits", 0, 1, "none")
  @@ "nop" :> Family("nop", <<\h90>>, 8, "none", "bits", 0, 0, "none")
  @@ "longnop" :> Family("nop", <<\h0F, \h1F>>, 0, "m", "bits", 0, 1, "none")
  @@ "movs8" :> Family("movsb", <<\hA4>>, 8, "none", "bits", 0, 0, "none")
  @@ "movs" :> Family("movsd", <<\hA5>>, 8, "none", "v", 0, 0, "none")
  @@ "ret" :> Family("ret", <<\hC3>>, 8, "none", "bits", 0, 0, "none")
  @@ "call" :> Family("call", <<\hE8>>, 8, "none", "bits", 0, 0, "4")
  @@ "callmem" :> Family("call", <<\hFF>>, 2, "rm", "bits", 64, 1, "none")
  @@ "callfar" :> Family("call", <<\hFF>>, 3, "m", "bits", 48, 1, "none")
  @@ "push" :> Family("push", <<\hFF>>, 6, "rm", "d64", 0, 1, "none")
  @@ "enter" :> Family("enter", <<\hC8>>, 8, "none", "bits", 0, 0, "3")
  @@ "jrcxz" :> Family("jrcxz", <<\hE3>>, 8, "none", "bits", 0, 0, "1")
  @@ "pushes" :> Family("invalid", <<\h06>>, 8, "none", "bits", 0, 0, "none")
  @@ "jmpfar" :> Family("invalid", <<\hEA>>, 8, "none", "bits", 0, 0, "none")
  @@ "andimm8" :> Family("and", <<\h80>>, 4, "rm", "bits", 8, 3, "1")
  @@ "cmpimm8" :> Family("cmp", <<\h80>>, 7, "rm", "bits", 8, 1, "1")
  @@ "subimm" :> Family("sub", <<\h81>>, 5, "rm", "v", 0, 3, "z")
  @@ "sbbimm" :> Family("sbb", <<\h83>>, 3, "rm", "v", 0, 3, "1")
  @@ "shlimm" :> Family("shl", <<\hC1>>, 4, "rm", "v", 0, 3, "1")
  @@ "sarcl" :> Family("sar", <<\hD3>>, 7, "rm", "v", 0, 3, "none")
  @@ "testimm8" :> Family("test", <<\hF6>>, 0, "rm", "bits", 8, 1, "1")
  @@ "testimm" :> Family("test", <<\hF7>>, 0, "rm", "v", 0, 1, "z")
  @@ "neg" :> Family("neg", <<\hF7>>, 3, "rm", "v", 0, 3, "none")
  @@ "imul1" :> Family("imul", <<\hF7>>, 5, "rm", "v", 0, 1, "none")
  @@ "div" :> Family("div", <<\hF7>>, 6, "rm", "v", 0, 1, "none")
  @@ "idiv8" :> Family("idiv", <<\hF6>>, 7, "rm", "bits", 8, 1, "none")
  @@ "inc8" :> Family("inc", <<\hFE>>, 0, "rm", "bits", 8, 3, "none")
  @@ "dec" :> Family("dec", <<\hFF>>, 1, "rm", "v", 0, 3, "none")
  @@ "jmpmem" :> Family("jmp", <<\hFF>>, 4, "rm", "d64", 0, 1, "none")
  @@ "popmem" :> Family("pop", <<\h8F>>, 0, "rm", "d64", 0, 2, "none")
  @@ "pushreg" :> Family("push", <<\h50>>, 8, "none", "bits", 0, 0, "none")
  @@ "pushimm" :> Family("push", <<\h6A>>, 8, "none", "bits", 0, 0, "1")
  @@ "cmp" :> Family("cmp", <<\h3B>>, 8, "rm", "v", 0, 1, "none")
  @@ "test" :> Family("test", <<\h85>>, 8, "rm", "v", 0, 1, "none")
  @@ "xchg" :> Family("xchg", <<\h87>>, 8, "rm", "v", 0, 3, "none")
  @@ "movsxd" :> Family("movsxd", <<\h63>>, 8, "rm", "bits", 32, 1, "none")
  @@ "movzx8" :> Family("movzx", <<\h0F, \hB6>>, 8, "rm", "bits", 8, 1, "none")
  @@ "movzx16" :> Family("movzx", <<\h0F, \hB7>>, 8, "rm", "bits", 16, 1, "none")
  @@ "movsx8" :> Family("movsx", <<\h0F, \hBE>>, 8, "rm", "bits", 8, 1, "none")
  @@ "cmove" :> Family("cmove", <<\h0F, \h44>>, 8, "rm", "v", 0, 1, "none")
  @@ "sete" :> Family("sete", <<\h0F, \h94>>, 8, "rm", "bits", 8, 2, "none")
  @@ "btsimm" :> Family("bts", <<\h0F, \hBA>>, 5, "rm", "v", 0, 3, "1")
  @@ "cmpxchg" :> Family("cmpxchg", <<\h0F, \hB1>>, 8, "rm", "v", 0, 3, "none")
  @@ "cmpxchg2" :> Family("cmpxchg8b", <<\h0F, \hC7>>, 1, "m", "2y", 0, 3, "none")
  @@ "xadd" :> Family("xadd", <<\h0F, \hC1>>, 8, "rm", "v", 0, 3, "none")
  @@ "fld" :> Family("fld", <<\hD9>>, 0, "rm", "bits", 32, 1, "none")
  @@ "fxsave" :> Family("fxsave", <<\h0F, \hAE>>, 0, "m", "bits", 4096, 2, "none")
  @@ "lfence" :> Family("lfence", <<\h0F, \hAE>>, 5, "r", "bits", 0, 0, "none")
  @@ "rdtscp" :> Family("rdtscp", <<\h0F, \h01>>, 7, "r", "bits", 0, 0, "none")
  @@ "prefetch" :> Family("prefetcht0", <<\h0F, \h18>>, 1, "m", "bits", 0, 1, "none")
  @@ "pfmax" :> Family("pfmax", <<\h0F, \h0F>>, 8, "rm", "bits", 64, 1, "suffix")
  @@ "pinsrw" :> [Sse("pinsrw", <<\h0F, \hC4>>, "none", 16, 1) EXCEPT !.imm = "1"]
  @@ "movups" :> Sse("movups", <<\h0F, \h10>>, "none", 128, 1)
  @@ "movss" :> Sse("movss", <<\h0F, \h10>>, "F3", 32, 1)
  @@ "movsd" :> Sse("movsd", <<\h0F, \h10>>, "F2", 64, 1)
  @@ "storess" :> Sse("movss", <<\h0F, \h11>>, "F3", 32, 2)
  @@ "storeups" :> Sse("movups", <<\h0F, \h11>>, "none", 128, 2)
  @@ "movq" :> Sse("movq", <<\h0F, \h6F>>, "none", 64, 1)
  @@ "movdqu" :> Sse("movdqu", <<\h0F, \h6F>>, "F3", 128, 1)
  @@ "movdqa" :> Sse("movdqa", <<\h0F, \h6F>>, "66", 128, 1)
  @@ "movntdq" :> Sse("movntdq", <<\h0F, \hE7>>, "66", 128, 2)
  @@ "addps" :> Sse("addps", <<\h0F, \h58>>, "none", 128, 1)
  @@ "addss" :> Sse("addss", <<\h0F, \h58>>, "F3", 32, 1)
  @@ "cvtsi2ss" :> [Sse("cvtsi2ss", <<\h0F, \h2A>>, "F3", 0, 1) EXCEPT !.width = "y"]
  @@ "vmovups" :> Vex("vmovups", 1, 0, \h10, "rm", "x", 0, 1, "none")
  @@ "vunpcklps" :> Vex("vunpcklps", 1, 0, \h14, "rm", "x", 0, 1, "none")
  @@ "vzero" :> Vex("vzeroupper", 1, 0, \h77, "none", "bits", 0, 0, "none")
  @@ "vmovss" :> Vex("vmovss", 1, 2, \h10, "rm", "bits", 32, 1, "none")
  @@ "vbroadcastsd" :> Vex("vbroadcastsd", 2, 1, \h19, "m", "bits", 64, 1, "none")
  @@ "vblendvps" :> Vex("vblendvps", 3, 1, \h4A, "rm", "x", 0, 1, "1")

FamilyOf(i) == Families[i.fam]
HasModrm(i) == FamilyOf(i).mem \in {"rm", "m", "r"}
HasMem(i) == FamilyOf(i).mem = "moffs" \/ (HasModrm(i) /\ i.mod # 3)
HasSib(i) == HasModrm(i) /\ i.mod # 3 /\ i.rm = 4

Rex(i) == IF i.rex < 0 \/ i.early THEN 0 ELSE i.rex

(* The instructions that can be put together from these fields: a family   *)
(* keeps its digit, its mod and its mandatory prefix.  rex = -1 is none;   *)
(* `early' has it before another prefix, where the processor ignores it;   *)
(* `pad' repeats 66 as compilers do to fill space, `long' forces the       *)
(* three-byte VEX and `wide' is VEX.L.                                     *)
WellFormed(i) ==
  LET f == FamilyOf(i) IN
  /\ f.digit # 8 => i.reg = f.digit
  /\ f.mem = "m" => i.mod # 3
  /\ f.mem = "r" => i.mod = 3
  /\ f.str # "any" => /\ i.str = (CASE f.str = "F2" -> \hF2 [] f.str = "F3" -> \hF3 [] OTHER -> 0)
                      /\ f.str = "66" => i.opr
                      /\ f.str = "none" => ~i.opr
  /\ f.vex => ~i.opr /\ i.str = 0 /\ i.rex \in 0 .. 7 /\ ~i.early
  /\ i.early => i.rex >= 0 /\ (i.opr \/ i.adr \/ i.str # 0 \/ i.seg # "none")
  /\ ~f.vex => ~i.long /\ ~i.wide
  /\ i.wide => f.width = "x" \/ i.fam = "vbroadcastsd"
  /\ i.fam = "vbroadcastsd" => i.wide
  /\ i.pad > 0 => i.opr
  /\ i.fam = "rdtscp" => i.rm = 1
  /\ i.fam \in {"lfence", "fld"} /\ i.mod = 3 => i.rm = 0
  /\ i.fam = "movsxd" => Rex(i) >= 8
  /\ i.fam = "call" /\ i.opr => i.rex >= 8 /\ ~i.early

Bit(n, k) == (n \div 2^k) % 2

---------------------------------------------------------------------------
(* The bytes of an instruction, as far as the decoder looks at them; the   *)
(* bytes of displacements and immediates are zero.                         *)
SegmentByte == "none" :> <<>> @@ "es" :> <<\h26>> @@ "fs" :> <<\h64>> @@ "gs" :> <<\h65>>
If(c, s) == IF c THEN s ELSE <<>>
Zeros(n) == [k \in 1 .. n |-> 0]

LegacyPrefixes(i) ==
  SegmentByte[i.seg] \o If(i.opr, [k \in 1 .. 1 + i.pad |-> \h66]) \o If(i.adr, <<\h67>>) \o If(i.str # 0, <<i.str>>)
Prefixes(i) ==
  LET rex == If(i.rex >= 0 /\ ~FamilyOf(i).vex, <<\h40 + i.rex>>)
  IN IF i.early THEN rex \o LegacyPrefixes(i) ELSE LegacyPrefixes(i) \o rex

(* The three-byte form of VEX unless the two-byte one will do; vvvv is 0. *)
Opcode(i) ==
  LET f == FamilyOf(i)
      pp == f.pp + (IF i.wide THEN 4 ELSE 0) + 8 * 15
      r == 128 * (1 - Bit(i.rex, 2))
  IN IF ~f.vex THEN f.op
     ELSE IF f.map = 1 /\ i.rex \in {0, 4} /\ ~i.long
     THEN <<\hC5, r + pp>> \o f.op
     ELSE <<\hC4, r + 64 * (1 - Bit(i.rex, 1)) + 32 * (1 - Bit(i.rex, 0)) + f.map, pp>> \o f.op

DispBits(i) ==
  CASE FamilyOf(i).mem = "moffs" -> IF i.adr THEN 32 ELSE 64
    [] ~HasMem(i) -> 0
    [] i.mod = 1 -> 8
    [] i.mod = 2 -> 32
    [] OTHER -> IF i.rm = 5 \/ (i.rm = 4 /\ i.sibBase = 5) THEN 32 ELSE 0

OperandBits(i) == IF Rex(i) >= 8 THEN 64 ELSE IF i.opr THEN 16 ELSE 32
ImmBytes(i) ==
  CASE FamilyOf(i).imm = "none" -> 0
    [] FamilyOf(i).imm \in {"1", "suffix"} -> 1
    [] FamilyOf(i).imm = "3" -> 3
    [] FamilyOf(i).imm = "4" -> 4
    [] FamilyOf(i).imm = "z" -> IF OperandBits(i) = 16 THEN 2 ELSE 4
    [] FamilyOf(i).imm = "v" -> OperandBits(i) \div 8

ModrmSib(i) ==
     If(HasModrm(i), <<64 * i.mod + 8 * i.reg + i.rm>>)
  \o If(HasSib(i), <<64 * i.scale + 8 * i.index + i.sibBase>>)

Encode(i) ==
  Prefixes(i) \o Opcode(i) \o ModrmSib(i) \o Zeros(DispBits(i) \div 8)
    \o (IF FamilyOf(i).imm = "suffix" THEN <<\hA4>> ELSE Zeros(ImmBytes(i)))

---------------------------------------------------------------------------
(* What the processor makes of it. *)
ProcessorLength(i) == Len(Encode(i))

ProcessorMnemonic(i) ==
  CASE i.fam = "nop" -> IF Bit(Rex(i), 0) = 1 \/ Rex(i) >= 8 THEN "xchg"
                        ELSE IF i.str = \hF3 THEN "pause" ELSE "nop"
    [] i.fam = "movs" -> CASE OperandBits(i) = 16 -> "movsw" [] OperandBits(i) = 32 -> "movsd" [] OTHER -> "movsq"
    [] i.fam = "cmpxchg2" -> IF Rex(i) >= 8 THEN "cmpxchg16b" ELSE "cmpxchg8b"
    [] i.fam = "jrcxz" -> IF i.adr THEN "jecxz" ELSE "jrcxz"
    [] OTHER -> FamilyOf(i).mnemonic

MemBits(i) ==
  LET f == FamilyOf(i)
  IN CASE f.width = "v" -> OperandBits(i)
       [] f.width = "y" -> IF Rex(i) >= 8 THEN 64 ELSE 32
       [] f.width = "2y" -> IF Rex(i) >= 8 THEN 128 ELSE 64
       [] f.width = "d64" -> IF i.opr /\ Rex(i) < 8 THEN 16 ELSE 64
       [] f.width = "x" -> IF i.wide THEN 256 ELSE 128
       [] OTHER -> f.bits

(* The memory operand: registers as the decoder names them, a scale of at *)
(* least one, and where its displacement is.                              *)
ProcessorMem(i) ==
  LET r(n, ext) == <<IF i.adr THEN "r32" ELSE "r64", n + 8 * Bit(Rex(i), ext)>>
      none == <<"none", 0>>
      index == r(i.index, 1)
      moffs == FamilyOf(i).mem = "moffs"
  IN [base  |-> CASE moffs -> none
                  [] ~moffs /\ i.rm = 4 -> IF i.sibBase = 5 /\ i.mod = 0 THEN none ELSE r(i.sibBase, 0)
                  [] ~moffs /\ i.rm = 5 /\ i.mod = 0 -> <<"rip", 0>>
                  [] OTHER -> r(i.rm, 0),
      index |-> IF moffs \/ i.rm # 4 \/ index[2] = 4 THEN none ELSE index,
      scale |-> IF moffs \/ i.rm # 4 \/ index[2] = 4 THEN 1 ELSE 2^i.scale,
      disp  |-> IF DispBits(i) = 0 THEN [at |-> 0, bits |-> 0]
                ELSE [at |-> Len(Prefixes(i) \o Opcode(i) \o ModrmSib(i)), bits |-> DispBits(i)],
      bits  |-> MemBits(i),
      access |-> FamilyOf(i).access]
===========================================================================
