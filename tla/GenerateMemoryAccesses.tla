----------------------- MODULE GenerateMemoryAccesses -----------------------
(***************************************************************************)
(* GenerateMemoryAccesses (CacheSimCommon.inl) on top of the simulator:    *)
(* one traced instruction after the other is decoded, and its code fetch,  *)
(* its prefetch, its reads and its writes become calls of                  *)
(* JaguarCacheSim::Access whose results are counted.                       *)
(*                                                                         *)
(* The commit holds g_Lock from the first call to the last, so that the    *)
(* instructions of all cores come one after the other; the loss of a       *)
(* capture that ended before is in CaptureRuntime. m_Stats is what the     *)
(* current instruction adds to its node.                                   *)
(***************************************************************************)
EXTENDS JaguarCacheSim, Sequences, SequencesExt

CONSTANTS
  HalfSpace, ByteSpace, kPrefetchSize, kFxSize, SegmentBase,  \* see Operands
  Instructions    \* what the threads execute, each with its core

INSTANCE Operands

ASSUME WordAssumption ==
  /\ {HalfSpace, ByteSpace} \subseteq Nat \ {0}
  /\ HalfSpace <= AddrSpace /\ ByteSpace <= AddrSpace
  /\ AddrSpace % HalfSpace = 0

\* What udis86 reports: a string instruction has no operand that is listed, nor
\* have the instructions that the code has no case for, ret at most a number,
\* and the special ones have their address in the first one.
StringOps == {"lods", "scas", "stos", "movs"}
StackOps == {"push", "pop", "call", "ret"}
NoCaseOps == {"cmps", "ins", "outs", "xlat", "maskmov", "leave", "enter", "pushf", "popf", "retf", "iret"}
AddressOps == {"prefetch", "movnt", "fxsave", "fxrstor"}
Mnemonics == StringOps \cup StackOps \cup NoCaseOps \cup AddressOps
               \cup {"lea", "nop", "pause", "bt", "other"}
Disassembled(i) ==
  /\ i.mnemonic \in Mnemonics
  /\ i.space \in {AddrSpace, HalfSpace}
  /\ i.operands \in Seq(Range(i.operands))
  /\ i.mnemonic \in StringOps \cup NoCaseOps \cup {"ret"} => \A n \in DOMAIN i.operands : ~i.operands[n].mem
  /\ i.mnemonic \in AddressOps => 1 \in DOMAIN i.operands /\ i.operands[1].mem
  /\ i.mnemonic = "ret" => i.size = i.slot
  /\ \A n \in DOMAIN i.operands :
       LET op == i.operands[n]
       IN  op.mem => /\ op.access \subseteq {"read", "write"}
                     /\ op.lval \in Int /\ op.offset \in Nat \ {0} /\ op.scale \in Nat
                     /\ op.base.name \in DOMAIN i.regs \cup {"none"}
                     /\ op.index.name \in (DOMAIN i.regs \cup {"none"}) \ {"rip"}
                     /\ op.base.name # "none" => op.base.space = i.space
                     /\ op.index.name # "none" => op.index.space = i.space

\* Instructions are what udis86 makes of them with the registers of a thread.
ASSUME InstructionsAssumption ==
  /\ Instructions # {}
  /\ \A i \in Instructions :
       /\ Disassembled(i)
       /\ {"rip", "rsp", "rbp", "rsi", "rdi", "rax", "rbx", "rcx"} \subseteq DOMAIN i.regs
       /\ \A reg \in DOMAIN i.regs : i.regs[reg] \in 0 .. AddrSpace - 1
       /\ SegmentBase[i.seg] \in 0 .. AddrSpace - 1

kPrefetchHitD1 == 5
kPrefetchHitL2 == 6
kInstructionsExecuted == 7
Counters == kD1Hit .. kInstructionsExecuted

VARIABLES
  insn,         \* the instruction
  todo,         \* the accesses still to be made, the current one first
  m_Stats,
  stopped       \* an assertion failed and ended the program

commitVars == <<insn, todo, m_Stats, stopped>>
allVars == <<vars, commitVars>>

Access(kind, mode, op) == [kind |-> kind, mode |-> mode, addr |-> op.ea, size |-> op.sz]
AccessesOf(kind, mode, ops) == [i \in DOMAIN ops |-> Access(kind, mode, ops[i])]

\* The calls of a commit in their order.
Commit(i) ==
  <<Access("code", "kCodeRead", MemOp(i.regs["rip"], i.ilen))>>
    \o AccessesOf("prefetch", "kRead", Kept(Found(i).prefetch))
    \o AccessesOf("data", "kRead", Kept(Found(i).r))
    \o AccessesOf("data", "kWrite", Kept(Found(i).w))

Request(i, a) == [core |-> i.core, addr |-> a.addr, size |-> a.size, mode |-> a.mode]

\* The calls that the commits make are calls that the program makes.
ASSUME CommitAssumption ==
  \A i \in Instructions : ~Breaks(i) => \A n \in DOMAIN Commit(i) : Request(i, Commit(i)[n]) \in Requests

CommitTypeOK ==
  /\ insn \in Instructions
  /\ \A n \in DOMAIN todo : Request(insn, todo[n]) \in Requests
  /\ m_Stats \in [Counters -> Nat]
  /\ stopped \in BOOLEAN

NothingCounted == [n \in Counters |-> 0]

\* Nothing has been traced: the values of insn and req do not matter.
CommitInit ==
  /\ req = CHOOSE q \in Requests : TRUE
  /\ Init
  /\ insn = CHOOSE i \in Instructions : TRUE
  /\ todo = << >>
  /\ m_Stats = NothingCounted
  /\ stopped = FALSE

Idle == ~stopped /\ todo = << >>

Decode(i) ==
  /\ Idle
  /\ insn' = i
  /\ stopped' = Breaks(i)
  /\ todo' = IF Breaks(i) THEN << >> ELSE Commit(i)
  /\ m_Stats' = [NothingCounted EXCEPT ![kInstructionsExecuted] = IF Breaks(i) THEN 0 ELSE 1]
  /\ UNCHANGED vars

Issue ==
  /\ ~stopped
  /\ todo # << >>
  /\ Call(Request(insn, Head(todo)))
  /\ UNCHANGED commitVars

Trip == LoopStep /\ UNCHANGED commitVars

\* Mutant: prefetches are counted as reads.
CounterOfAnyRead(kind) == {r}

\* The counter for the result of an access. A prefetch has two of its own, for
\* the results that mean that it was superfluous.
Counter(kind) ==
  IF kind # "prefetch" THEN {r}
  ELSE CASE r = kD1Hit -> {kPrefetchHitD1} [] r = kL2Hit -> {kPrefetchHitL2} [] OTHER -> {}

Count ==
  /\ Return
  /\ m_Stats' = [n \in Counters |-> m_Stats[n] + IF n \in Counter(Head(todo).kind) THEN 1 ELSE 0]
  /\ todo' = Tail(todo)
  /\ UNCHANGED <<insn, stopped>>

ResetUnderCommit == ~stopped /\ Reset /\ UNCHANGED commitVars

CommitNext ==
  \/ \E i \in Instructions : Decode(i)
  \/ Issue \/ Trip \/ Count
  \/ ResetUnderCommit

CommitSpec == CommitInit /\ [][CommitNext]_allVars

\* The thread that traps keeps running until its handler returns.
CommitFairSpec == CommitSpec /\ WF_allVars(Issue) /\ WF_allVars(Trip) /\ WF_allVars(Count)
-----------------------------------------------------------------------------
Committed == Idle /\ m_Stats[kInstructionsExecuted] = 1

OfKind(kind) == Cardinality({n \in DOMAIN Commit(insn) : Commit(insn)[n].kind = kind})

\* Every access of an instruction is counted once, and as what it is: its code
\* fetch as code, or as an L2 hit, its reads and writes as data, or as an L2
\* hit, its prefetch only in the counters of superfluous prefetches
\* (GenerateMemoryAccesses). A data access has a size and an address that is
\* not negative.
EveryAccessCounted ==
  Committed =>
    LET code == m_Stats[kI1Hit] + m_Stats[kL2IMiss]
        data == m_Stats[kD1Hit] + m_Stats[kL2DMiss]
    IN  /\ code <= 1
        /\ data <= OfKind("data")
        /\ code + data + m_Stats[kL2Hit] = 1 + OfKind("data")
        /\ m_Stats[kPrefetchHitD1] + m_Stats[kPrefetchHitL2] <= OfKind("prefetch")
        /\ \A a \in Range(Commit(insn)) : a.kind = "data" => a.size > 0 /\ 2 * a.addr < AddrSpace

\* The code has no case for the implicit operands of these, and an operand that
\* is read and written is no case of its loop.
Loses(i) ==
  \/ i.mnemonic \in NoCaseOps
  \/ \E n \in DOMAIN i.operands : i.operands[n].mem /\ i.operands[n].access = {"read", "write"}

\* RIP is taken without the length of the instruction. Half registers are
\* extended by their sign, and nothing is carried off above them.
Exact(op, i) ==
  /\ op.base.name # "rip"
  /\ i.space = AddrSpace \/ \A reg \in {op.base, op.index} : 2 * ProcessorValue(reg, i) < i.space
  /\ ProcessorSum(op, i) % AddrSpace < i.space

\* The code has the stack below RSP at it, takes a pop for a write, RSI for the
\* operand of scas, a repetition for at least one, and the registers of string
\* instructions whole and without a segment; it adds no bit offset.
Misplaces(i) ==
  \/ i.mnemonic \in {"push", "pop", "call", "scas", "bt"}
  \/ Skipped(i)
  \/ i.mnemonic \in {"lods", "movs"} /\ SegmentBase[i.seg] # 0
  \/ i.mnemonic \in StringOps /\ \E name \in {"rsi", "rdi"} : i.regs[name] >= i.space
  \/ \E n \in DOMAIN i.operands : i.operands[n].mem /\ ~Exact(i.operands[n], i)

DataOf(i, mode) == {MemOp(a.addr, a.size) : a \in {a \in Range(Commit(i)) : a.kind = "data" /\ a.mode = mode}}

NotNull(ops) == {op \in ops : op.ea # 0}

\* An instruction that commits data accesses makes none that the processor does
\* not make, at the processor's addresses, whatever displacement, base, scaled
\* index, half registers and segment they are made of, and none is lost
\* (GenerateMemoryAccesses, ComputeEa, ReadReg). What the code gets wrong is
\* excepted, case by case: Misplaces and Loses.
CommitsWhatTheProcessorDoes ==
  Committed /\ ~Misplaces(insn) =>
    /\ DataOf(insn, "kRead") \subseteq ProcessorReads(insn)
    /\ DataOf(insn, "kWrite") \subseteq ProcessorWrites(insn)
    /\ ~Loses(insn) => /\ NotNull(ProcessorReads(insn)) \subseteq DataOf(insn, "kRead")
                       /\ NotNull(ProcessorWrites(insn)) \subseteq DataOf(insn, "kWrite")
=============================================================================
