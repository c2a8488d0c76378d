-------------------------- MODULE DecodeSequence --------------------------
(***************************************************************************)
(* A thread's disassembler from one trap to the next: HandleTrap and       *)
(* StepFilter initialise it once, then for every instruction set a buffer  *)
(* of 16 bytes at the instruction pointer and disassemble one instruction. *)
(***************************************************************************)
EXTENDS Disassembler, InstructionSet

CONSTANTS Instructions,   \* instructions a thread executes
          Leading,        \* the ones it may execute before another
          BufferSize      \* bytes given to the decoder

VARIABLES ud,      \* the thread's ud_t
          insn,    \* the instruction that was decoded last
          ilen     \* what ud_disassemble returned

vars == <<ud, insn, ilen>>

NoInsn == [fam |-> "none"]

Buffer(i) == LET b == Encode(i) IN b \o Zeros(BufferSize - Len(b))

Init == ud = ud_init /\ insn = NoInsn /\ ilen = 0

Disassemble(i) ==
  /\ ud' = ud_disassemble(ud_set_input_buffer(ud, Buffer(i)))
  /\ ilen' = ud_insn_len(ud')
  /\ insn' = i

Next == /\ insn \in Leading \union {NoInsn}
        /\ \E i \in Instructions \union Leading : Disassemble(i)

Spec == Init /\ [][Next]_vars

---------------------------------------------------------------------------
(* Where the tables or the decoder of this repository read an instruction  *)
(* differently from the processor.                                         *)

(* The tables lack it: the F2 and 66 columns of the SSE tables and the     *)
(* 16-bit column of the OSIZE ones are empty.                              *)
EmptyColumn(i) == i.fam \in {"movs", "cmpxchg2"} /\ OperandBits(i) = 16
NotInTables(i) == i.fam \in {"movsd", "movdqa", "movntdq"} \/ EmptyColumn(i)
(* Rows with the wrong width: movss to memory, addss, 256-bit vunpcklps,   *)
(* the far pointer of a call, and none at all for fxsave and cmpxchg16b.   *)
WrongWidth(i) == i.fam \in {"storess", "addss", "callfar", "fxsave", "cmpxchg2"} \/ (i.fam = "vunpcklps" /\ i.wide)
(* Rows with the wrong access: a div is said to write its operand, an imul *)
(* to read and write it, a sbb of an immediate only to write it.           *)
WrongAccess(i) == i.fam \in {"div", "imul1", "sbbimm"}
(* With 32-bit addresses rip-relative is read as absolute, r13d is not     *)
(* known as "no base" and VEX's X and B are not looked at.                 *)
Addr32(i) == i.adr /\ HasModrm(i) /\ i.mod # 3
             /\ \/ i.mod = 0 /\ (i.rm = 5 \/ (i.rm = 4 /\ i.sibBase = 5 /\ Bit(Rex(i), 0) = 1))
                \/ FamilyOf(i).vex /\ i.rm = 4 /\ Rex(i) % 4 # 0
(* REX.W does not undo 66 for a call (the calls of __tls_get_addr). *)
TlsCall(i) == i.fam = "call" /\ i.opr
(* F3 makes a pause of a long nop. *)
PauseOfLongNop(i) == i.fam = "longnop" /\ i.str = \hF3
(* xchg eax, eax by its long form, which clears half of rax, is a nop. *)
NopOfXchg(i) == i.fam = "xchg" /\ i.mod = 3 /\ Rex(i) = 0
(* Segment overrides are dropped when only the third operand is in memory. *)
SegmentLost(i) == i.fam \in {"vunpcklps", "vblendvps"} /\ i.seg # "none"
(* An instruction whose 15th and last byte is its opcode is too long for it. *)
OpcodeLast(i) == Len(Prefixes(i)) = MAX_INSN_LENGTH - 1

Deviates(i) == NotInTables(i) \/ WrongWidth(i) \/ WrongAccess(i) \/ Addr32(i) \/ TlsCall(i) \/ PauseOfLongNop(i)
               \/ NopOfXchg(i) \/ SegmentLost(i) \/ OpcodeLast(i)

MemOperands == {k \in 1 .. 4 : ud.operand[k].type = "mem"}
AsMem(op) == [base |-> op.base, index |-> op.index, scale |-> IF op.scale = 0 THEN 1 ELSE op.scale,
              disp |-> IF op.offset = 0 THEN [at |-> 0, bits |-> 0] ELSE op.lval,
              bits |-> op.size, access |-> op.access]

(* The decoder gives every instruction the mnemonic, the memory operand    *)
(* (base, index, scale, place of the displacement, width, access) and the  *)
(* segment that the processor gives it, whatever was decoded before.       *)
DecodesWhatTheProcessorReads ==
  insn # NoInsn /\ ~Deviates(insn) =>
    /\ ud.mnemonic = ProcessorMnemonic(insn)
    /\ {AsMem(ud.operand[k]) : k \in MemOperands} = (IF HasMem(insn) THEN {ProcessorMem(insn)} ELSE {})
    /\ HasMem(insn) => ud.pfx_seg = (IF insn.seg = "none" THEN UD_NONE ELSE <<"seg", insn.seg>>)

(* The length, which says how many bytes of code the instruction fetch     *)
(* touches, is the processor's for every instruction of up to 15 bytes,    *)
(* but for the deviations that change it.                                  *)
LengthIsRight ==
  insn # NoInsn /\ ~Addr32(insn) /\ ~TlsCall(insn) /\ ~(EmptyColumn(insn) /\ HasModrm(insn)) => ilen = ProcessorLength(insn)

(* The loop of GenerateMemoryAccesses stops at the first operand without   *)
(* a type: no memory operand hides behind a gap, and an instruction that   *)
(* could not be decoded has none.                                          *)
OperandsAreContiguous ==
  /\ \A k \in 1 .. 3 : ud.operand[k].type = "none" => ud.operand[k + 1].type = "none"
  /\ ud.mnemonic = "invalid" => ud.operand[1].type = "none"
===========================================================================
