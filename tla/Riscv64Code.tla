---------------------------- MODULE Riscv64Code ----------------------------
(***************************************************************************)
(* The instructions that the riscv64 translation context collects in its   *)
(* InstructionBuilder before it allocates registers, and the questions the *)
(* register allocator asks of one.                                         *)
(*                                                                         *)
(* A register operand is a number: 0 to 31 a register of the machine, from *)
(* 32 a functional register (a guest register or flag that stays in one    *)
(* place for the whole block), from 64 a virtual register, 63 no register. *)
(* An instruction is a record; `insn' names what it computes, `imm' is its *)
(* immediate or the number of its label.                                   *)
(***************************************************************************)
EXTENDS Integers, Sequences

FUNCTIONAL_BASE == 32
VIRTUAL_BASE    == 64
none_reg        == VIRTUAL_BASE - 1

ZERO == 0
RA   == 1
FP   == 8
A0   == 10
A1   == 11

is_physical(r)   == r < FUNCTIONAL_BASE
is_functional(r) == r >= FUNCTIONAL_BASE /\ r < VIRTUAL_BASE
is_virtual(r)    == r >= VIRTUAL_BASE

-----------------------------------------------------------------------------
(***************************************************************************)
(* The instructions of the builder that the lowering uses.                 *)
(***************************************************************************)

Instruction(type, insn, rd, rs1, rs2, imm) ==
  [type |-> type, insn |-> insn, rd |-> rd, rs1 |-> rs1, rs2 |-> rs2, imm |-> imm]

(* All instructions; what they compute does not matter to the allocator. *)
Instructions ==
  [type : {"Label", "RdLabel", "Rs1Rs2Label", "RdImm", "RdImmKeepRs1", "RdAddr", "Rs2Addr",
           "RdRs1Imm", "RdRs1Rs2", "RdAddrOrder", "RdRs2AddrOrder", "RdRs1ImmKeepRs2",
           "Noop", "Dead"},
   insn : STRING, rd : Nat, rs1 : Nat, rs2 : Nat, imm : Int]

Bind(label)           == Instruction("Label", "label", none_reg, none_reg, none_reg, label)
jal(label)            == Instruction("RdLabel", "jal", ZERO, none_reg, none_reg, label)
jalr(rs1)             == Instruction("RdRs1Imm", "jalr", ZERO, rs1, none_reg, 0)
beqz(rs, label)       == Instruction("Rs1Rs2Label", "beq", none_reg, rs, ZERO, label)
bne(rs1, rs2, label)  == Instruction("Rs1Rs2Label", "bne", none_reg, rs1, rs2, label)
auipc(rd) == Instruction("RdImm", "auipc", rd, none_reg, none_reg, 0)
auipc_keep(rd) == Instruction("RdImmKeepRs1", "auipc", rd, rd, none_reg, 0)
ld(rd, base, imm)     == Instruction("RdAddr", "ld", rd, base, none_reg, imm)
sd(rs2, base, imm)    == Instruction("Rs2Addr", "sd", none_reg, base, rs2, imm)
Imm(insn, rd, rs1, imm)   == Instruction("RdRs1Imm", insn, rd, rs1, none_reg, imm)
Op(insn, rd, rs1, rs2)    == Instruction("RdRs1Rs2", insn, rd, rs1, rs2, 0)
lr(rd, base)              == Instruction("RdAddrOrder", "lr", rd, base, none_reg, 0)
sc(rd, rs2, base)         == Instruction("RdRs2AddrOrder", "sc", rd, base, rs2, 0)
amo(insn, rd, rs2, base)  == Instruction("RdRs2AddrOrder", insn, rd, base, rs2, 0)

li(rd, imm)   == Imm("addi", rd, ZERO, imm)
mv(rd, rs)    == Imm("addi", rd, rs, 0)
bnez(rs, label) == bne(rs, ZERO, label)
seqz(rd, rs)  == Imm("sltiu", rd, rs, 1)
snez(rd, rs)  == Op("sltu", rd, ZERO, rs)
sltz(rd, rs)  == Op("slt", rd, rs, ZERO)
sgtz(rd, rs)  == Op("slt", rd, ZERO, rs)
neg(rd, rs)   == Op("sub", rd, ZERO, rs)

(* A copy that may be skipped: what rd held before stays live. *)
mv_keep(rd, rs) == Instruction("RdRs1ImmKeepRs2", "addi", rd, rs, rd, 0)

(* No machine code: makes rs live wherever rd is. *)
mv_liveness(rd, rs) == Instruction("Noop", "noop", rd, rd, rs, 0)

-----------------------------------------------------------------------------
(***************************************************************************)
(* What the allocator asks of an instruction.                              *)
(***************************************************************************)

is_dead(i) == i.type = "Dead"
kill(i)    == [i EXCEPT !.type = "Dead"]

(* The instruction reads the register it writes. *)
is_rd_use(i) ==
  \/ /\ i.type \in {"RdRs1Imm", "RdAddr", "RdAddrOrder", "RdImmKeepRs1"}
     /\ i.rd = i.rs1
  \/ /\ i.type \in {"RdRs1Rs2", "RdRs2AddrOrder", "RdRs1ImmKeepRs2", "Noop"}
     /\ i.rd \in {i.rs1, i.rs2}

is_mv(i) ==
  \/ i.type \in {"RdRs1ImmKeepRs2", "RdRs1Imm"} /\ i.insn = "addi" /\ i.imm = 0
  \/ i.type = "RdRs1Rs2" /\ i.insn = "add" /\ ZERO \in {i.rs1, i.rs2}

JumpsOnly(i) == i.type \in {"RdLabel", "Rs1Rs2Label"}      \* mutant: a label is plain code
is_control_flow(i) == i.type \in {"Label", "RdLabel", "Rs1Rs2Label"}

(* The register a copy copies. *)
in_reg(i) ==
  IF i.rs1 # ZERO THEN i.rs1 ELSE IF i.rs2 # none_reg THEN i.rs2 ELSE i.rs1
=============================================================================
