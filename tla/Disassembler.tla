--------------------------- MODULE Disassembler ---------------------------
(***************************************************************************)
(* udis86's decoder (decode.c, udis86.c) as the trap handler uses it: in   *)
(* 64-bit mode, on a buffer, with one ud object per thread that is never   *)
(* cleared between instructions.  `u' is that object; every operator takes *)
(* one and gives the next, in the order in which the code reads bytes.     *)
(* Displacements and immediates are kept as where they are in the input;   *)
(* the 16- and 32-bit modes are not modelled, nobody sets them.            *)
(***************************************************************************)
EXTENDS OpcodeTables

CONSTANT MAX_INSN_LENGTH

Field(b, low, width) == (b \div 2^low) % 2^width

REX_W(r) == Field(r, 3, 1)
REX_R(r) == Field(r, 2, 1)
REX_X(r) == Field(r, 1, 1)
REX_B(r) == Field(r, 0, 1)
SIB_S(b) == Field(b, 6, 2)
SIB_I(b) == Field(b, 3, 3)
SIB_B(b) == Field(b, 0, 3)
MODRM_REG(b) == Field(b, 3, 3)
MODRM_MOD(b) == Field(b, 6, 2)
MODRM_RM(b) == Field(b, 0, 3)

(* A register is a class and a number in it (enum ud_type). *)
UD_NONE == <<"none", 0>>
UD_R_RIP == <<"rip", 0>>
Gpr(bits, n) == <<CASE bits = 64 -> "r64" [] bits = 32 -> "r32" [] bits = 16 -> "r16" [] OTHER -> "r8", n>>

NoLval == [at |-> 0, bits |-> 0]
ClearOperand == [type |-> "none", size |-> 0, base |-> UD_NONE, index |-> UD_NONE, scale |-> 0,
                 offset |-> 0, lval |-> NoLval, access |-> 0]

(* A ud object after ud_init, which zeroes it: the vendor is AMD. *)
ud_init ==
  [inp_buf |-> <<>>, inp_buf_index |-> 0, inp_ctr |-> 0, inp_curr |-> 0, inp_end |-> FALSE,
   error |-> FALSE, pfx_seg |-> UD_NONE, pfx_opr |-> 0, pfx_adr |-> 0, pfx_lock |-> 0, pfx_str |-> 0,
   pfx_rep |-> 0, pfx_repe |-> 0, pfx_repne |-> 0, pfx_rex |-> 0, rex |-> 0,
   mnemonic |-> "invalid", itab_entry |-> 0, le |-> 0, have_modrm |-> FALSE, modrm |-> 0,
   br_far |-> FALSE, vex_op |-> 0, vex_b1 |-> 0, vex_b2 |-> 0, opr_mode |-> 0, adr_mode |-> 0,
   operand |-> [k \in 1 .. 4 |-> ClearOperand]]

ud_set_input_buffer(u, buf) ==
  [u EXCEPT !.inp_buf = buf, !.inp_buf_index = 0, !.inp_curr = 0, !.inp_ctr = 0, !.inp_end = FALSE]

---------------------------------------------------------------------------
(* Input *)
UDERR(u) == [u EXCEPT !.error = TRUE]

inp_start(u) == [u EXCEPT !.inp_ctr = 0]

inp_next(u) ==
  IF ~u.inp_end /\ u.inp_buf_index < Len(u.inp_buf)
  THEN [u EXCEPT !.inp_ctr = @ + 1, !.inp_buf_index = @ + 1, !.inp_curr = u.inp_buf[u.inp_buf_index + 1]]
  ELSE UDERR([u EXCEPT !.inp_end = TRUE])

(* What the call of inp_next that led to u returned. *)
Returned(u) == IF u.inp_end THEN 0 ELSE u.inp_curr

RECURSIVE inp_uint(_, _)
inp_uint(u, bits) == IF bits = 0 THEN u ELSE inp_uint(inp_next(u), bits - 8)

---------------------------------------------------------------------------
(* Prefixes *)
SegmentOf == \h2E :> "cs" @@ \h36 :> "ss" @@ \h3E :> "ds" @@ \h26 :> "es" @@ \h64 :> "fs" @@ \h65 :> "gs"
IsRex(b) == Field(b, 4, 4) = 4

RECURSIVE PrefixesFrom(_, _)
PrefixesFrom(u, last) ==
  LET v == inp_next(u)
      curr == v.inp_curr
  IN CASE v.error -> v
       [] ~v.error /\ v.inp_ctr = MAX_INSN_LENGTH -> UDERR(v)
       [] OTHER ->
          CASE curr \in DOMAIN SegmentOf -> PrefixesFrom([v EXCEPT !.pfx_seg = <<"seg", SegmentOf[curr]>>], curr)
            [] curr = \h67 -> PrefixesFrom([v EXCEPT !.pfx_adr = \h67], curr)
            [] curr = \hF0 -> PrefixesFrom([v EXCEPT !.pfx_lock = \hF0], curr)
            [] curr = \h66 -> PrefixesFrom([v EXCEPT !.pfx_opr = \h66], curr)
            [] curr \in {\hF2, \hF3} -> PrefixesFrom([v EXCEPT !.pfx_str = curr], curr)
            [] IsRex(curr) -> PrefixesFrom(v, curr)
            [] OTHER -> IF IsRex(last) THEN [v EXCEPT !.pfx_rex = last] ELSE v

decode_prefixes(u) == PrefixesFrom(u, 0)

vex_l(u) == Field(IF u.vex_op = \hC4 THEN u.vex_b2 ELSE u.vex_b1, 2, 1)
vex_w(u) == IF u.vex_op = \hC4 THEN Field(u.vex_b2, 7, 1) ELSE 0

(* The mod/rm byte is read once, by whoever asks for it first. *)
WithModrm(u) ==
  IF u.have_modrm THEN u
  ELSE LET v == inp_next(u) IN [v EXCEPT !.modrm = Returned(v), !.have_modrm = TRUE]

resolve_operand_size(u, osize) ==
  CASE osize = SZ_V -> u.opr_mode
    [] osize = SZ_Z -> IF u.opr_mode = 16 THEN 16 ELSE 32
    [] osize = SZ_Y -> IF u.opr_mode = 16 THEN 32 ELSE u.opr_mode
    [] osize = SZ_RDQ -> 64
    [] osize = SZ_X -> IF "vexl" \in ud_itab[u.itab_entry].prefix /\ vex_l(u) = 1 THEN SZ_QQ ELSE SZ_DQ
    [] OTHER -> osize

resolve_mnemonic(u) ==
  LET isReg(k, r) == u.operand[k].type = "reg" /\ u.operand[k].base = r
      isNop == u.mnemonic = "xchg" /\ \E bits \in {16, 32} : isReg(1, Gpr(bits, 0)) /\ isReg(2, Gpr(bits, 0))
      v == IF isNop
           THEN [u EXCEPT !.operand[1].type = "none", !.operand[2].type = "none", !.mnemonic = "nop"]
           ELSE u
  IN IF v.mnemonic = "nop" /\ v.pfx_repe # 0 THEN [v EXCEPT !.pfx_repe = 0, !.mnemonic = "pause"] ELSE v

---------------------------------------------------------------------------
(* Operands *)
decode_gpr(u, size, rm) ==
  IF size = 8 /\ u.pfx_rex = 0 /\ rm >= 4 THEN <<"high8", rm - 4>> ELSE Gpr(size, rm)

decode_reg(u, k, class, num, size) ==
  LET sz == resolve_operand_size(u, size)
      reg == CASE class = "gpr" -> decode_gpr(u, sz, num)
               [] class = "mmx" -> <<"mmx", num % 8>>
               [] class = "xmm" -> <<IF sz = SZ_QQ THEN "ymm" ELSE "xmm", num>>
               [] class = "seg" -> <<"sreg", num % 8>>
               [] class \in {"cr", "db"} -> <<class, num>>
  IN IF class = "seg" /\ num % 8 > 5
     THEN UDERR(u)
     ELSE [u EXCEPT !.operand[k].type = "reg", !.operand[k].base = reg, !.operand[k].size = sz]

decode_imm(u, k, size) ==
  LET sz == resolve_operand_size(u, size)
      v == inp_uint(u, sz)
  IN [v EXCEPT !.operand[k].type = "imm", !.operand[k].size = sz,
               !.operand[k].lval = [at |-> u.inp_ctr, bits |-> sz]]

decode_mem_disp(u, k, bits) ==
  [inp_uint(u, bits) EXCEPT !.operand[k].offset = bits, !.operand[k].lval = [at |-> u.inp_ctr, bits |-> bits]]

decode_modrm_reg(u, k, class, size) ==
  LET v == WithModrm(u) IN decode_reg(v, k, class, 8 * REX_R(v.rex) + MODRM_REG(v.modrm), size)

\* Mutant: r13 as a base is not an exception.
SibOnlyRbp(u, bits, b, mod, plain) ==
  LET base == 8 * REX_B(u.rex) + SIB_B(b)
      index == 8 * REX_X(u.rex) + SIB_I(b)
  IN [base   |-> IF base = 5 /\ mod = 0 THEN UD_NONE ELSE Gpr(bits, base),
      index  |-> IF index = 4 THEN UD_NONE ELSE Gpr(bits, index),
      scale  |-> IF index = 4 \/ SIB_S(b) = 0 THEN 0 ELSE 2^SIB_S(b),
      offset |-> IF base = 5 THEN (IF mod = 1 THEN 8 ELSE 32) ELSE plain]

(* The base and index of an addressing form, and how wide its displacement *)
(* is.  With 64-bit addresses the special forms are found by the low three *)
(* bits of the register, with 32-bit ones by the register.                 *)
Sib(u, bits, b, mod, plain) ==
  LET r == IF bits = 64 THEN u.rex ELSE u.pfx_rex
      base == 8 * REX_B(r) + SIB_B(b)
      index == 8 * REX_X(r) + SIB_I(b)
      noBase == base \in (IF bits = 64 THEN {5, 13} ELSE {5})
  IN [base   |-> IF noBase /\ mod = 0 THEN UD_NONE ELSE Gpr(bits, base),
      index  |-> IF index = 4 THEN UD_NONE ELSE Gpr(bits, index),
      scale  |-> IF index = 4 \/ SIB_S(b) = 0 THEN 0 ELSE 2^SIB_S(b),
      offset |-> IF noBase THEN (IF mod = 1 THEN 8 ELSE 32) ELSE plain]

NoSib(bits, rm, mod, plain) ==
  LET special == mod = 0 /\ (IF bits = 64 THEN rm % 8 = 5 ELSE rm = 5)
  IN [base   |-> IF special THEN (IF bits = 64 THEN UD_R_RIP ELSE UD_NONE) ELSE Gpr(bits, rm),
      index  |-> UD_NONE,
      scale  |-> 0,
      offset |-> IF special THEN 32 ELSE plain]

PlainDisp(mod) == CASE mod = 1 -> 8 [] mod = 2 -> 32 [] OTHER -> 0

(* w is v after the SIB byte, if there is one. *)
EffectiveAddress(v, w, mod, rm) ==
  IF rm % 8 = 4 THEN Sib(v, v.adr_mode, w.inp_curr, mod, PlainDisp(mod)) ELSE NoSib(v.adr_mode, rm, mod, PlainDisp(mod))

MemOperand(w, k, size, ea) ==
  LET x == [w EXCEPT !.operand[k].type = "mem", !.operand[k].size = size, !.operand[k].base = ea.base,
                     !.operand[k].index = ea.index, !.operand[k].scale = ea.scale, !.operand[k].offset = 0]
  IN IF ea.offset # 0 THEN decode_mem_disp(x, k, ea.offset) ELSE x

RegOrMem(v, k, class, size, mod, rm) ==
  LET w == IF rm % 8 = 4 THEN inp_next(v) ELSE v
  IN IF mod = 3 THEN decode_reg(v, k, class, rm, size)
     ELSE MemOperand(w, k, resolve_operand_size(v, size), EffectiveAddress(v, w, mod, rm))

decode_modrm_rm(u, k, class, size) ==
  LET v == WithModrm(u)
  IN RegOrMem(v, k, class, size, MODRM_MOD(v.modrm), 8 * REX_B(v.rex) + MODRM_RM(v.modrm))

\* Mutant: the index of an earlier instruction stays.
decode_moffsetKeepsIndex(u, k, size) ==
  decode_mem_disp([u EXCEPT !.operand[k].type = "mem", !.operand[k].base = UD_NONE,
                            !.operand[k].size = resolve_operand_size(u, size)], k, u.adr_mode)

decode_moffset(u, k, size) ==
  decode_mem_disp([u EXCEPT !.operand[k].type = "mem", !.operand[k].base = UD_NONE,
                            !.operand[k].index = UD_NONE, !.operand[k].scale = 0,
                            !.operand[k].size = resolve_operand_size(u, size)], k, u.adr_mode)

decode_vex_vvvv(u, k, size) ==
  decode_reg(u, k, "xmm", 15 - Field(IF u.vex_op = \hC4 THEN u.vex_b2 ELSE u.vex_b1, 3, 4), size)

decode_vex_immreg(u, k, size) ==
  LET v == inp_next(u) IN IF v.error THEN v ELSE decode_reg(v, k, "xmm", Field(v.inp_curr, 4, 4), size)

Mx_mem_size(size) == (size \div 256) % 256
Mx_reg_size(size) == size % 256

(* Operand codes that name a register, whatever the mod/rm byte. *)
FixedGpr == "AL" :> 0 @@ "rAX" :> 0 @@ "CL" :> 1
RegClass == "E" :> "gpr" @@ "F" :> "gpr" @@ "M" :> "gpr" @@ "R" :> "gpr" @@ "MR" :> "gpr" @@ "Q" :> "mmx"
            @@ "N" :> "mmx" @@ "W" :> "xmm" @@ "U" :> "xmm" @@ "MU" :> "xmm" @@ "G" :> "gpr" @@ "P" :> "mmx"
            @@ "V" :> "xmm" @@ "S" :> "seg" @@ "C" :> "cr" @@ "D" :> "db"

decode_operand(u, k, type, size) ==
  LET v == [u EXCEPT !.operand[k].type = "none"]
      m == WithModrm(v)
      isReg == MODRM_MOD(m.modrm) = 3
      checked == IF (type \in {"M", "F"} /\ isReg) \/ (type \in {"N", "U", "R"} /\ ~isReg) THEN UDERR(m) ELSE m
      far == IF type = "F" THEN [checked EXCEPT !.br_far = TRUE] ELSE checked
  IN CASE type \in {"E", "F", "M", "R", "Q", "N", "W", "U"} -> decode_modrm_rm(far, k, RegClass[type], size)
       [] type \in {"MR", "MU"} ->
            decode_modrm_rm(m, k, RegClass[type], IF isReg THEN Mx_reg_size(size) ELSE Mx_mem_size(size))
       [] type \in {"G", "P", "V", "S", "C", "D"} -> decode_modrm_reg(m, k, RegClass[type], size)
       [] type \in {"I", "sI"} -> decode_imm(v, k, size)
       [] type = "J" -> [decode_imm(v, k, size) EXCEPT !.operand[k].type = "jimm"]
       [] type = "H" -> decode_vex_vvvv(v, k, size)
       [] type = "L" -> decode_vex_immreg(v, k, size)
       [] type = "O" -> decode_moffset(v, k, size)
       [] type = "R0" -> decode_reg(v, k, "gpr", 8 * REX_B(v.rex), size)
       [] type \in DOMAIN FixedGpr -> decode_reg(v, k, "gpr", FixedGpr[type], size)
       [] type = "ST0" -> [v EXCEPT !.operand[k].type = "reg", !.operand[k].base = <<"st", 0>>, !.operand[k].size = 80]
       [] OTHER -> v

(* An operand is looked at only when the one before it is there. *)
OperandOf(row, k) == IF k <= Len(row.operands) THEN row.operands[k] ELSE O("NONE", SZ_NA)

RECURSIVE OperandsFrom(_, _)
OperandsAfter(u, k) == IF k < 4 /\ u.operand[k].type # "none" THEN OperandsFrom(u, k + 1) ELSE u
OperandsFrom(u, k) ==
  LET op == OperandOf(ud_itab[u.itab_entry], k)
  IN OperandsAfter(decode_operand(u, k, op[1], op[2]), k)

decode_operands(u) == OperandsFrom(u, 1)

---------------------------------------------------------------------------
(* From opcode to instruction *)
clear_insn(u) ==
  [u EXCEPT !.error = FALSE, !.pfx_seg = UD_NONE, !.pfx_opr = 0, !.pfx_adr = 0, !.pfx_lock = 0,
            !.pfx_repne = 0, !.pfx_rep = 0, !.pfx_repe = 0, !.pfx_rex = 0, !.pfx_str = 0,
            !.mnemonic = "none", !.itab_entry = 0, !.have_modrm = FALSE, !.br_far = FALSE,
            !.vex_op = 0, !.rex = 0,
            !.operand = [k \in 1 .. 4 |-> [@[k] EXCEPT !.type = "none"]]]

resolve_pfx_str(u) ==
  CASE u.pfx_str = \hF3 -> IF "str" \in ud_itab[u.itab_entry].prefix
                           THEN [u EXCEPT !.pfx_rep = \hF3] ELSE [u EXCEPT !.pfx_repe = \hF3]
    [] u.pfx_str = \hF2 -> [u EXCEPT !.pfx_repne = \hF3]
    [] OTHER -> u

REX_PFX_MASK(rex, prefix) ==
    (IF "rexw" \in prefix THEN 8 * REX_W(rex) ELSE 0) + (IF "rexr" \in prefix THEN 4 * REX_R(rex) ELSE 0)
  + (IF "rexx" \in prefix THEN 2 * REX_X(rex) ELSE 0) + (IF "rexb" \in prefix THEN REX_B(rex) ELSE 0)

(* VEX holds R, X and B inverted. *)
EffectiveRex(u) ==
  CASE u.vex_op = \hC4 -> (7 - Field(u.vex_b1, 5, 3)) + 8 * Field(u.vex_b2, 7, 1)
    [] u.vex_op = \hC5 -> 4 * (1 - Field(u.vex_b1, 7, 1))
    [] OTHER -> u.pfx_rex

resolve_mode(u) ==
  LET prefix == ud_itab[u.itab_entry].prefix
      rex == REX_PFX_MASK(EffectiveRex(u), prefix)
  IN IF u.error \/ "inv64" \in prefix
     THEN UDERR(u)
     ELSE [u EXCEPT !.rex = rex,
                    !.opr_mode = CASE REX_W(rex) = 1 -> 64
                                   [] REX_W(rex) = 0 /\ u.pfx_opr # 0 -> 16
                                   [] OTHER -> IF "def64" \in prefix THEN 64 ELSE 32,
                    !.adr_mode = IF u.pfx_adr # 0 THEN 32 ELSE 64]

decode_insn(u, ptr) ==
  LET v == resolve_mode(resolve_pfx_str([u EXCEPT !.itab_entry = ptr, !.mnemonic = ud_itab[ptr].mnemonic]))
  IN IF v.error THEN v ELSE resolve_mnemonic(decode_operands(v))

(* The operands are decoded with the row of pi2fw, then the suffix byte *)
(* gives the mnemonic.                                                  *)
Suffixed(u, table) == IF u.error THEN u ELSE [u EXCEPT !.mnemonic = ud_itab[table[u.inp_curr]].mnemonic]

decode_3dnow(u) ==
  LET table == ud_lookup_table_list[u.le].table
  IN Suffixed(inp_next(decode_insn(u, table[\h0C])), table)

eff_opr_mode(u) == IF REX_W(u.pfx_rex) = 1 THEN 64 ELSE IF u.pfx_opr # 0 THEN 16 ELSE 32
eff_adr_mode(u) == IF u.pfx_adr # 0 THEN 32 ELSE 64

(* F2 and F3 go before 66; a prefix the table has no entry for is ignored *)
(* and stays a prefix.                                                    *)
SseIndex(u) ==
  LET pfx == IF u.pfx_str # 0 THEN u.pfx_str ELSE u.pfx_opr
      idx == ((pfx % 16) + 1) \div 2
  IN IF ud_lookup_table_list[u.le].table[idx] = INVALID THEN 0 ELSE idx

ConsumePrefix(u) ==
  IF SseIndex(u) = 0 THEN u
  ELSE [u EXCEPT !.pfx_str = 0, !.pfx_opr = IF u.pfx_str = 0 THEN 0 ELSE @]

ReadVex(u) ==
  LET b1 == inp_next([u EXCEPT !.vex_op = u.inp_curr])
      v == [b1 EXCEPT !.vex_b1 = Returned(b1)]
      b2 == inp_next(v)
      w == [b2 EXCEPT !.vex_b2 = Returned(b2)]
  IN IF u.inp_curr = \hC5 THEN v
     ELSE IF ~w.error /\ Field(w.vex_b1, 0, 5) \notin 1 .. 3 THEN UDERR(w) ELSE w

VexIndex(u) == IF u.vex_op = \hC4 THEN 4 * Field(u.vex_b2, 0, 2) + Field(u.vex_b1, 0, 5)
               ELSE 4 * Field(u.vex_b1, 0, 2) + 1

(* The tables that are indexed by what is known or by the mod/rm byte. *)
ByModrm == {"MOD", "X87", "RM", "REG"}
Index(u, type) ==
  CASE type = "MOD" -> (MODRM_MOD(u.modrm) + 1) \div 4
    [] type = "MODE" -> 1
    [] type = "OSIZE" -> eff_opr_mode(u) \div 32
    [] type = "ASIZE" -> eff_adr_mode(u) \div 32
    [] type = "X87" -> u.modrm - \hC0
    [] type = "VENDOR" -> 0
    [] type = "RM" -> MODRM_RM(u.modrm)
    [] type = "REG" -> MODRM_REG(u.modrm)
    [] type = "VEX_W" -> vex_w(u)
    [] type = "VEX_L" -> vex_l(u)

RECURSIVE decode_ext(_, _)
decode_opcode(u) == IF u.error THEN u ELSE decode_ext(u, ud_lookup_table_list[u.le].table[u.inp_curr])

decode_ext(u, ptr) ==
  IF ptr < GROUP(0) THEN decode_insn(u, ptr)
  ELSE LET v == [u EXCEPT !.le = ptr - GROUP(0)]
           le == ud_lookup_table_list[v.le]
           m == IF le.type \in ByModrm THEN WithModrm(v) ELSE v
       IN CASE le.type = "3DNOW" -> decode_3dnow(v)
            [] le.type = "SSE" -> decode_ext(ConsumePrefix(v), le.table[SseIndex(v)])
            [] le.type = "VEX" -> LET w == ReadVex(v) IN IF w.error THEN w ELSE decode_ext(w, le.table[VexIndex(w)])
            [] le.type = "TABLE" -> decode_opcode(inp_next(v))
            [] OTHER -> decode_ext(m, le.table[Index(m, le.type)])

\* Mutant: the operands found so far stay.
OnErrorKeepsOperands(u) == IF u.error THEN [u EXCEPT !.mnemonic = "invalid"] ELSE u

(* A failed decode leaves an invalid instruction without operands. *)
OnError(u) == IF u.error THEN [clear_insn(u) EXCEPT !.mnemonic = "invalid"] ELSE u

(* A segment override is dropped when no operand that is looked at uses it. *)
DropSegment(u) ==
  IF "seg" \notin ud_itab[u.itab_entry].prefix /\ \A k \in 1 .. 2 : u.operand[k].type # "mem"
  THEN [u EXCEPT !.pfx_seg = UD_NONE] ELSE u

SetAccess(u) ==
  [u EXCEPT !.operand = [k \in 1 .. 4 |->
     [@[k] EXCEPT !.access = IF k <= 2 THEN ud_itab[u.itab_entry].access[k] ELSE READ]]]

ud_decode(u) ==
  SetAccess(DropSegment(OnError(decode_opcode(decode_prefixes([clear_insn(inp_start(u)) EXCEPT !.le = 0])))))

ud_disassemble(u) == IF u.inp_end THEN u ELSE ud_decode(u)
ud_insn_len(u) == u.inp_ctr
===========================================================================
