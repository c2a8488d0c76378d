---------------------- MODULE MCGenerateMemoryAccesses ----------------------
(***************************************************************************)
(* An address space of four lines of eight bytes, with half registers of   *)
(* three bits and short displacements of two. Core 0 executes at least one *)
(* instruction of every kind, those included that the code has no case for *)
(* or gets wrong, and reads of several alignments, widths and sizes,       *)
(* and prefetches up to the end of the address space, which the recorder   *)
(* does not check; core 1, of the same module, and core 2, of the other    *)
(* one, write.                                                             *)
(***************************************************************************)
EXTENDS GenerateMemoryAccesses

MCLines == 0 .. 3
\* Instructions are at most a line long and not at the end of the address space.
MCRequests ==
  { q \in [core : 0 .. 3, addr : 0 .. 31, size : 1 .. 8, mode : AccessMode] :
      q.mode = "kCodeRead" => q.size <= 4 /\ q.addr + q.size < 32 }
MCSegmentBase == [s \in {"none", "fs"} |-> IF s = "fs" THEN 4 ELSE 0]

Reg(name) == [name |-> name, space |-> AddrSpace]
Half(name) == [name |-> name, space |-> HalfSpace]

Mem(access, size, base, index, scale, lval) ==
  [mem |-> TRUE, access |-> access, size |-> size, base |-> base, index |-> index,
   scale |-> scale, lval |-> lval, offset |-> ByteSpace]
AtRax(access, size) == Mem(access, size, Reg("rax"), NoReg, 0, 0)
Xmm == [Mem({"write"}, 4, Reg("xmm"), NoReg, 0, 0) EXCEPT !.mem = FALSE]

Insn(core, mnemonic, size, rax, operands) ==
  [core |-> core, mnemonic |-> mnemonic, size |-> size, slot |-> 2, rep |-> FALSE, space |-> AddrSpace,
   ilen |-> 2, seg |-> "none", operands |-> operands,
   regs |-> [rip |-> 5, rsp |-> 12, rbp |-> 16, rsi |-> 4, rdi |-> 7, rax |-> rax, rbx |-> 2, rcx |-> 1]]

\* With an address size prefix
Narrow(i) == [i EXCEPT !.space = HalfSpace]
HalfRead(rax, index, scale, lval) == Narrow(Insn(0, "other", 0, rax, <<Mem({"read"}, 2, Half("rax"), index, scale, lval)>>))

MCInstructions ==
  { Insn(0, "other", 0, a, <<AtRax({"read"}, s)>>) : a \in {4, 7}, s \in {0, 1, 4, 8} }
    \cup { Insn(0, "prefetch", 0, a, <<AtRax({"read"}, 0)>>) : a \in {4, 20, 29} }
    \cup { Insn(0, m, 2, 0, << >>) : m \in StringOps \cup StackOps \cup NoCaseOps \cup {"pause"} }
    \cup { Insn(0, m, 4, 8, <<AtRax({"write"}, 4)>>) : m \in {"lea", "nop", "movnt", "fxsave", "fxrstor"} }
    \cup { Insn(0, "other", 0, 8, <<AtRax({"read", "write"}, 2)>>),
           Insn(0, "other", 0, 8, <<Mem({"read"}, 2, Reg("rax"), Reg("rbx"), 2, 3), Xmm>>),
           Insn(0, "other", 0, 8, <<Mem({"write"}, 2, Reg("rax"), Reg("rbx"), 0, 1)>>),
           Insn(0, "other", 0, 30, <<Mem({"read"}, 2, Reg("rax"), Reg("rbx"), 2, 2)>>),
           Insn(0, "other", 0, 0, <<Mem({"read"}, 2, Reg("rip"), NoReg, 0, 3)>>),
           HalfRead(3, NoReg, 0, 1), HalfRead(10, NoReg, 0, 3), HalfRead(9, Half("rbx"), 2, 1),
           HalfRead(5, NoReg, 0, 0), HalfRead(5, NoReg, 0, 1), HalfRead(3, Half("rbx"), 4, 0),
           Insn(0, "bt", 0, 8, <<AtRax({"read"}, 1), [Xmm EXCEPT !.base = Reg("rsp")]>>),
           [Insn(0, "movs", 2, 0, << >>) EXCEPT !.rep = TRUE],
           [Insn(0, "movs", 2, 0, << >>) EXCEPT !.rep = TRUE, !.regs["rcx"] = 0],
           Narrow(Insn(0, "stos", 2, 0, << >>)), Narrow([Insn(0, "stos", 2, 0, << >>) EXCEPT !.regs["rdi"] = 12]),
           [Insn(0, "other", 0, 4, <<AtRax({"write"}, 2)>>) EXCEPT !.seg = "fs"],
           [Insn(0, "lods", 2, 0, << >>) EXCEPT !.seg = "fs"],
           [Insn(0, "pause", 0, 0, << >>) EXCEPT !.regs["rip"] = 7],
           Insn(1, "other", 0, 7, <<AtRax({"write"}, 2)>>),
           Insn(2, "other", 0, 8, <<AtRax({"write"}, 2)>>) }
=============================================================================
