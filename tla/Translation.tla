----------------------------- MODULE Translation -----------------------------
(***************************************************************************)
(* The static engine's code for an instruction against the manual.         *)
(***************************************************************************)
EXTENDS StaticEngine

Manual == INSTANCE X86Manual

TypeOK ==
    /\ DOMAIN regs = DOMAIN case.regs
    /\ \A r \in DOMAIN regs : regs[r] \in Word(Len(case.regs[r]))
    /\ mem \in Word(Len(case.mem))
    /\ ip \in 0 .. Len(packet) + 1
    /\ ran \subseteq 1 .. Len(packet)

-----------------------------------------------------------------------------
(* Where the code is known not to do what the manual says: for a form of   *)
(* instruction, the registers that may be wrong, and "mem" for memory.     *)

insn == case.insn
Is(ics) == insn.ic \in ics
Form(k) == IF k < Len(insn.ops) THEN Op(insn, k).o ELSE None
OpWidth(k) == IF k < Len(insn.ops) THEN Op(insn, k).w ELSE 0
Destination == IF Form(0) = "mem" THEN {"mem"} ELSE IF insn.ops = << >> THEN {} ELSE {Op(insn, 0).r}
LowByte(r) == case.regs[r][1]
Immediate == IF insn.ops = << >> THEN 0 ELSE Op(insn, Len(insn.ops) - 1).d
Arithmetical == {"ZF", "CF", "OF", "SF"}
Flags == Arithmetical \cup {"PF"}
Subtrahend == Manual!Get(case, insn, Len(insn.ops) - 1, OpWidth(0) \div 8)
LeastNumber(y) == y = Negate(y) /\ ~IsZero(y)
If(c, locations) == IF c THEN locations ELSE {}
ByStackPointer(k) == Form(k) = "mem" /\ Op(insn, k).r = "RSP"

DeviatingFlags ==
    If(Is({"ADC", "SBB"}), Arithmetical)                          \* constant zeros
    \cup If(Is({"SUB", "CMP", "NEG"}) /\ LeastNumber(Subtrahend), {"OF"})
    \cup If(Is({"MUL", "IMUL"}), {"CF", "OF"})                    \* constant zeros
    \cup If(Is({"CMPXCHG_LOCK"}), {"CF", "OF", "SF"})             \* constant zeros
    \cup If(Is({"XADD_LOCK"}), Arithmetical)                      \* of an uninitialised value
    \cup If(Is({"SHL", "SHR", "SAR"}) /\ Form(1) = "imm", Arithmetical)

DeviatingIntegers ==
    If(Is({"MUL", "IMUL"}) /\ OpWidth(0) = 8, {"RAX"})            \* upper bytes cleared
    \cup If(Is({"IDIV"}), {"RAX", "RDX"})                         \* divides unsigned
    \cup If(Is({"DIV"}) /\ Negative(SubSeq(case.regs["RDX"], 1, 4)), {"RDX"})
    \cup If(Is({"CWD"}), {"RDX"})                                 \* upper bytes cleared
    \cup If(Is({"CMPXCHG_LOCK"}) /\ OpWidth(0) < 64, {"RAX"})     \* upper bytes cleared
    \cup If(Is({"MOVZX"}) /\ OpWidth(0) = 16, Destination)        \* upper bytes cleared
    \cup If(Is({"PEXTRW"}), Destination)                          \* upper bytes kept
    \cup If(Is({"MOV"}) /\ Form(0) = "mem" /\ OpWidth(1) < OpWidth(0) /\ Immediate < 0, {"mem"})
    \cup If(Form(0) = "high" \/ Form(1) = "high", Destination \cup Arithmetical)
    \cup If(Is({"ADD_LOCK", "AND_LOCK", "OR_LOCK"}) /\ OpWidth(1) < OpWidth(0),
            {"mem"} \cup Arithmetical)                            \* as wide as the immediate
    \cup If(Is({"INC_LOCK", "DEC_LOCK"}) /\ OpWidth(0) < 64, {"mem"} \cup Arithmetical)
    \cup If(Is({"BT", "BTS", "BTR"}) /\ ToNat(Manual!Get(case, insn, 1, 2)) >= OpWidth(0),
            Destination \cup {"CF"})
    \cup If(Is({"SHL", "SHR", "SAR", "ROL", "ROR"}) /\ Form(1) = "imm" /\ Immediate >= OpWidth(0),
            Destination \cup Arithmetical)
    \cup If(Is({"SHL", "SHR", "SAR"}) /\ Form(1) = "gpr" /\ LowByte("RCX") = 0, Destination)
    \cup If(Is({"SHLD", "SHRD"}), Destination \cup Arithmetical)

DeviatingStack ==
    If(Is({"PUSH"}) /\ Form(0) = "imm", {"mem"})                  \* as wide as the immediate
    \cup If(Is({"POP"}) /\ Form(0) = "gpr" /\ Op(insn, 0).r = "RSP", {"RSP"})
    \cup If(Is({"POP"}) /\ ByStackPointer(0), {"mem"})            \* addressed before RSP moves
    \cup If(Is({"CALL_NEAR"}) /\ ByStackPointer(0), {"PC"})       \* read after RSP moved
    \cup If(Is({"RET_NEAR"}) /\ Form(0) = "imm", {"RSP"})         \* pops nothing more
    \cup If(Is(NopClasses), {"PC"})                               \* never set
    \cup If(Is({"SYSCALL"}), {"RCX"})                             \* never set

DeviatingVectors ==
    If(Is({"MOVSS"}) /\ Form(0) = "xmm" /\ Form(1) = "xmm", Destination)
    \cup If(Is({"MOVHPS", "MOVHPD"}) /\ Form(0) = "mem", {"mem"})  \* the low half
    \cup If(Is({"PSRLW", "PSRLD", "PSRLQ"}) /\ Immediate >= 16, Destination)
    \cup If(Is({"PSLLD", "CMPSS", "CMPSD_XMM", "UNPCKHPD", "PACKUSWB", "SHUFPS", "SHUFPD",
                "VADDSS", "VADDSD", "VSUBSS", "VSUBSD"}), Destination)

\* The source of a conversion to an integer.
SourceNumbers(w) == Numbers(w, Manual!Get(case, insn, 1, w \div 8))

DeviatingConversions ==
    If(Is({"CVTSD2SI", "CVTSS2SD"}), Destination)                  \* a float, an integer
    \cup If(Is({"CVTSS2SI"}) /\ \E h \in SourceNumbers(32) : h % 2 = 1, Destination)  \* truncates
    \cup If(\/ Is({"CVTSS2SI", "CVTTSS2SI"}) /\ SourceNumbers(32) = {}
            \/ Is({"CVTTSD2SI"}) /\ SourceNumbers(64) = {}, Destination)

Deviating ==
    UNION {DeviatingConversions, DeviatingFlags, DeviatingIntegers, DeviatingStack, DeviatingVectors}

\* The forms for which no code comes out: the addition of vectors of floats is
\* that of integers, a vector in place of an integer does not extend to a
\* register, the engine has no constant of 128 bits, and a rotation by more than
\* the width inserts before the first bit; segments are not written.
Rejected ==
    \/ Is({"ADDPS", "ADDPD"})
    \/ Is({"CVTSD2SI"}) /\ OpWidth(0) = 32
    \/ Form(0) = "segment"
    \/ Is({"PSLLDQ", "PSRLDQ"}) /\ Immediate > 15
    \/ Is({"ROR", "ROL"}) /\ Immediate > OpWidth(0)

-----------------------------------------------------------------------------
(* What the constructors of a node and of its operands check, and the      *)
(* nodes of an action that code is generated for.                          *)

RECURSIVE WellTyped(_)
WellTyped(n) == Typed(n) /\ \A i \in 1 .. Len(n.a) : WellTyped(n.a[i])

FlagWrites == {k \in 1 .. Len(packet) : packet[k].k = "write_reg" /\ packet[k].op \in Flags}
ByRegister == Is({"SHLD", "SHRD"}) \/ (Is({"SHL", "SHR", "SAR"}) /\ Form(1) = "gpr")

Emitted(n) == {m \in Nodes(n) : m.k \notin {"constant", "read_pc"}}

-----------------------------------------------------------------------------
\* The code leaves registers and memory as the manual says, but for the flags
\* that it leaves undefined and the deviations above: across the translators'
\* choice of nodes (x86/translators), the memory of reads that the writes of the
\* same packet may overtake, and the widths at which the engine computes.
AgreesWith(m) ==
    /\ \A r \in DOMAIN regs \ (m.undef \cup Deviating) : regs[r] = m.regs[r]
    /\ "mem" \notin Deviating => mem = m.mem
ManualResult == Ended => AgreesWith(Manual!Outcome(case.regs, case.mem, insn))

\* Every form but those listed gets through the engine: no unsupported width,
\* no operands of different LLVM types (materialise_port, lower_node).
Translates == Failed => Rejected

\* A packet passes the checks of the nodes' constructors and jumps to each label
\* at most once (node.h), so that no translator throws.
WellFormed ==
    ip = 1 => LabelsUsedOnce(packet)
              /\ \A k \in 1 .. Len(packet) : WellTyped(packet[k]) \/ Rejected

\* An action that the code went around took no value with it: what later
\* actions use was lowered with an action that has run (the memo of lower_port).
ValuesDominateUses ==
    ip \in 1 .. Len(packet) =>
      \A j \in (1 .. ip - 1) \ ran :
        Emitted(action) \cap Emitted(packet[j]) \subseteq
          UNION {Emitted(packet[h]) : h \in 1 .. j - 1}

\* What the elimination of dead flag writes takes for granted (opt.h 114-146;
\* ReadsFirst and the order of actions in module DeadFlags): a packet writes its
\* flags whatever the operands are, and reads none after writing it.  Shifts by
\* a register do not: they write nothing for an amount of 0 (shifts.cpp 82).
SuitsElimination ==
    Ended /\ ~ByRegister =>
      /\ FlagWrites \subseteq ran
      /\ \A k \in FlagWrites, j \in 1 .. Len(packet) :
           k < j => \A n \in Nodes(packet[j]) :
             n.k = "read_reg" /\ n.op = packet[k].op => \E h \in 1 .. k : n \in Nodes(packet[h])
=============================================================================
