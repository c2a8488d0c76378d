------------------------------ MODULE Operands ------------------------------
(***************************************************************************)
(* Which memory an instruction uses, as GenerateMemoryAccesses, ComputeEa  *)
(* and ReadReg (CacheSimCommon.inl) find out from the disassembly and the  *)
(* registers, and, for comparison, as the processor defines it.            *)
(*                                                                         *)
(* An instruction is what udis86 reports of it together with the register  *)
(* values it is executed with: instructions of all sizes are one mnemonic  *)
(* with a size, space is the range of its addresses (HalfSpace with an     *)
(* address size prefix), rep that it is repeated, slot what the processor  *)
(* pushes or pops. A register of an address is a full one or its lower     *)
(* half: ReadReg's smaller ones are never part of an address in 64-bit     *)
(* mode. bt stands for bt with a bit offset in a register, its second      *)
(* operand, and other for all that use no memory but their operands in it. *)
(***************************************************************************)
EXTENDS Integers, Sequences, SequencesExt, Subsequences

CONSTANTS
  AddrSpace,      \* 2^64 in the code
  HalfSpace,      \* 2^32
  ByteSpace,      \* 2^8, the range of a short displacement
  kPrefetchSize,  \* 64
  kFxSize,        \* 512
  SegmentBase     \* SegmentBase[s]: what AdjustFsSegment and AdjustGsSegment
                  \*   add, 0 without a prefix

NoReg == [name |-> "none", space |-> AddrSpace]

\* A two's complement value of a smaller type as a uintptr_t.
SignExtended(v, space) == LET n == v % space
                          IN  IF 2 * n < space THEN n ELSE AddrSpace - space + n

\* Mutant: the upper half of the register is not left out.
ReadRegWhole(reg, regs) == regs[reg.name]

ReadReg(reg, regs) == SignExtended(regs[reg.name], reg.space)

RegValue(reg, regs) == IF reg.name = "none" THEN 0 ELSE ReadReg(reg, regs)

\* Mutant: an index without a scale is left out.
ComputeEaNoIndex(op, insn) ==
  (SignExtended(op.lval, op.offset) + RegValue(op.base, insn.regs)
    + op.scale * RegValue(op.index, insn.regs) + SegmentBase[insn.seg]) % AddrSpace

\* A scale of zero means none. op.offset is the range of the displacement.
ComputeEa(op, insn) ==
  (SignExtended(op.lval, op.offset) + RegValue(op.base, insn.regs)
    + (IF op.scale = 0 THEN 1 ELSE op.scale) * RegValue(op.index, insn.regs)
    + SegmentBase[insn.seg]) % AddrSpace

MemOp(ea, sz) == [ea |-> ea, sz |-> sz]

NoOps == [r |-> << >>, w |-> << >>, prefetch |-> << >>]
Reads(ops) == [NoOps EXCEPT !.r = ops]
Writes(ops) == [NoOps EXCEPT !.w = ops]

\* "Handle instructions with implicit memory operands."
ImplicitOps(insn) ==
  LET at(name, sz) == <<MemOp(insn.regs[name], sz)>>
  IN  CASE insn.mnemonic \in {"lods", "scas"} -> Reads(at("rsi", insn.size))
        [] insn.mnemonic = "stos" -> Writes(at("rdi", insn.size))
        [] insn.mnemonic = "movs" -> [Reads(at("rsi", insn.size)) EXCEPT !.w = at("rdi", insn.size)]
        [] insn.mnemonic \in {"push", "pop", "call"} -> Writes(at("rsp", insn.size))
        [] insn.mnemonic = "ret" -> Reads(at("rsp", insn.size))
        [] OTHER -> NoOps

Explicit(insn, access) ==
  LET ops == Selected(insn.operands, {i \in DOMAIN insn.operands :
                 insn.operands[i].mem /\ insn.operands[i].access = access})
  IN  [i \in DOMAIN ops |-> MemOp(ComputeEa(ops[i], insn), ops[i].size)]

\* "Handle special memory ops operands": an operand that is both read and
\* written is neither case of the switch.
SpecialOps(insn) ==
  LET first(sz) == <<MemOp(ComputeEa(insn.operands[1], insn), sz)>>
  IN  CASE insn.mnemonic \in {"lea", "nop", "pause"} -> NoOps
        [] insn.mnemonic = "prefetch" -> [NoOps EXCEPT !.prefetch = first(kPrefetchSize)]
        [] insn.mnemonic = "movnt" -> Writes(first(insn.size))
        [] insn.mnemonic = "fxsave" -> Writes(first(kFxSize))
        [] insn.mnemonic = "fxrstor" -> Reads(first(kFxSize))
        [] OTHER -> [NoOps EXCEPT !.r = Explicit(insn, {"read"}), !.w = Explicit(insn, {"write"})]

Found(insn) == [k \in {"r", "w", "prefetch"} |-> ImplicitOps(insn)[k] \o SpecialOps(insn)[k]]

Asserted(insn) == Range(Found(insn).r) \cup Range(Found(insn).w)

\* The assertions of data_r and of data_w: they end the program. That of ReadReg
\* is met by no instruction: udis86 knows movntdqa, whose first operand is a
\* register, by its mnemonic only, and its tables do not lead there.
Breaks(insn) ==
  \E op \in Asserted(insn) : op.sz = 0 \/ 2 * op.ea >= AddrSpace

\* Null addresses, of a missing segment base, are left out.
Kept(ops) == Selected(ops, {i \in DOMAIN ops : ops[i].ea # 0})
-----------------------------------------------------------------------------
(* The processor's definition, for the operands that udis86 reports: where *)
(* these are wrong is in DecodeSequence.                                   *)

\* RIP is the address of the next instruction.
ProcessorValue(reg, insn) ==
  CASE reg.name = "none" -> 0
    [] reg.name = "rip" -> insn.regs["rip"] + insn.ilen
    [] OTHER -> insn.regs[reg.name] % insn.space

ProcessorSum(op, insn) ==
  SignExtended(op.lval, op.offset) + ProcessorValue(op.base, insn)
    + (IF op.scale = 0 THEN 1 ELSE op.scale) * ProcessorValue(op.index, insn)

\* An offset in a segment as an address
Linear(offset, insn) == ((offset % insn.space) + SegmentBase[insn.seg]) % AddrSpace

ProcessorEa(op, insn) == Linear(ProcessorSum(op, insn), insn)

ProcessorOps(insn, access) ==
  {MemOp(ProcessorEa(insn.operands[i], insn), insn.operands[i].size) :
     i \in {i \in DOMAIN insn.operands : insn.operands[i].mem /\ access \in insn.operands[i].access}}

\* The bit offset of bt is signed and counts from the operand it is added to.
BitString(insn) ==
  LET op == insn.operands[1]
      bit == insn.regs[insn.operands[2].base.name]
      signed == IF 2 * bit < AddrSpace THEN bit ELSE bit - AddrSpace
  IN  MemOp(Linear(ProcessorSum(op, insn) + op.size * (signed \div (8 * op.size)), insn), op.size)

\* Where string instructions read and write, and the ends of the stack. The
\* source of a string may be in another segment.
Source(insn) == MemOp(Linear(insn.regs["rsi"], insn), insn.size)
Destination(insn) == MemOp(insn.regs["rdi"] % insn.space, insn.size)
Popped(insn) == MemOp(insn.regs["rsp"], insn.slot)
Pushed(insn) == MemOp((insn.regs["rsp"] + AddrSpace - insn.slot) % AddrSpace, insn.slot)

\* leave pops what RBP points at, retf and iret more than the first slot; xlat
\* reads a byte of the table at RBX.
ImplicitReads(insn) ==
  CASE insn.mnemonic \in {"lods", "movs", "outs"} -> {Source(insn)}
    [] insn.mnemonic = "scas" -> {Destination(insn)}
    [] insn.mnemonic = "cmps" -> {Source(insn), Destination(insn)}
    [] insn.mnemonic \in {"pop", "ret", "popf", "retf", "iret"} -> {Popped(insn)}
    [] insn.mnemonic = "leave" -> {MemOp(insn.regs["rbp"], insn.slot)}
    [] insn.mnemonic = "xlat" -> {MemOp(Linear(insn.regs["rbx"] + (insn.regs["rax"] % ByteSpace), insn), 1)}
    [] OTHER -> {}

\* enter is taken without nested frames; what maskmov writes may be overridden
\* to another segment, and is not masked here.
ImplicitWrites(insn) ==
  CASE insn.mnemonic \in {"stos", "movs", "ins"} -> {Destination(insn)}
    [] insn.mnemonic \in {"push", "call", "pushf", "enter"} -> {Pushed(insn)}
    [] insn.mnemonic = "maskmov" -> {MemOp(Linear(insn.regs["rdi"], insn), insn.size)}
    [] OTHER -> {}

\* A string instruction that is repeated no times does nothing.
Repeatable == {"lods", "scas", "stos", "movs", "cmps", "ins", "outs"}
Skipped(insn) ==
  insn.mnemonic \in Repeatable /\ insn.rep /\ insn.regs["rcx"] % insn.space = 0

ProcessorReads(insn) ==
  CASE Skipped(insn) \/ insn.mnemonic \in {"lea", "nop", "pause", "prefetch", "fxsave", "movnt"} -> {}
    [] insn.mnemonic = "fxrstor" -> {MemOp(ProcessorEa(insn.operands[1], insn), kFxSize)}
    [] insn.mnemonic = "bt" -> {BitString(insn)}
    [] OTHER -> ImplicitReads(insn) \cup ProcessorOps(insn, "read")

ProcessorWrites(insn) ==
  CASE Skipped(insn) \/ insn.mnemonic \in {"lea", "nop", "pause", "prefetch", "fxrstor"} -> {}
    [] insn.mnemonic = "fxsave" -> {MemOp(ProcessorEa(insn.operands[1], insn), kFxSize)}
    [] insn.mnemonic = "movnt" -> {MemOp(ProcessorEa(insn.operands[1], insn), insn.size)}
    [] OTHER -> ImplicitWrites(insn) \cup ProcessorOps(insn, "write")
=============================================================================
