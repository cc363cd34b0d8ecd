----------------------------- MODULE X86Operands -----------------------------
(***************************************************************************)
(* What every translator is made of (translator.cpp): reading and writing  *)
(* the operands of a decoded instruction, addresses, flags, conditions and *)
(* casts.  An instruction is a record: its class ic, the operands ops in   *)
(* XED's order, its length in bytes len, the condition cc of CMOVcc, Jcc   *)
(* and SETcc, and whether it is a VEX form.                                *)
(*                                                                         *)
(* An operand: o its kind (gpr, high for AH..BH, segment, xmm, imm, mem or *)
(* rel), r its register or base, w its width in bits; for memory the index *)
(* i with its scale s as a shift and the segment seg; d is an immediate or *)
(* a displacement, an integer; sg tells a signed immediate.                *)
(***************************************************************************)
EXTENDS IrNodes

None == "none"
Operand(o, r, w) ==
    [o |-> o, r |-> r, w |-> w, i |-> None, s |-> 0, seg |-> None, d |-> 0, sg |-> FALSE]
Gpr(r, w) == Operand("gpr", r, w)
High(r) == Operand("high", r, 8)
Xmm(r) == Operand("xmm", r, 128)
Imm(k, w) == [Operand("imm", None, w) EXCEPT !.d = k, !.sg = TRUE]
UImm(k, w) == [Imm(k, w) EXCEPT !.sg = FALSE]
Mem(base, w) == Operand("mem", base, w)
MemAt(base, d, w) == [Mem(base, w) EXCEPT !.d = d]
Rel(k) == [Operand("rel", None, 64) EXCEPT !.d = k]

Insn(ic, ops) == [ic |-> ic, cc |-> None, ops |-> ops, len |-> 4, vex |-> FALSE]

Op(insn, k) == insn.ops[k + 1]
IsMemory(insn, k) == Op(insn, k).o = "mem"
IsImmediate(insn, k) == Op(insn, k).o = "imm"
OperandWidth(insn, k) == Op(insn, k).w

-----------------------------------------------------------------------------
(* Addresses: base, shifted index and displacement, each where present,    *)
(* then the segment's base.                                                *)

Segment(o, addr) ==
    IF o.seg = None THEN addr ELSE Add(addr, ReadReg(U(64), o.seg))

Base(insn, o) ==
    CASE o.r = None  -> << >>
      [] o.r = "RIP" -> <<Add(ReadPc, ConstInt(U(64), insn.len))>>
      [] OTHER       -> <<ReadReg(U(64), o.r)>>
Index(o) ==
    CASE o.i = None -> << >>
      [] o.s = 0    -> <<ReadReg(U(64), o.i)>>
      [] OTHER      -> <<Shift("lsl", ReadReg(U(64), o.i), ConstInt(U(64), o.s))>>
Displacement(o) == IF o.d = 0 THEN << >> ELSE <<ConstInt(U(64), o.d)>>

SumOf(parts) ==
    CASE Len(parts) = 0 -> ConstInt(U(64), 0)
      [] Len(parts) = 1 -> parts[1]
      [] Len(parts) = 2 -> Add(parts[1], parts[2])
      [] OTHER          -> Add(Add(parts[1], parts[2]), parts[3])

AddressOf(insn, o) == Segment(o, SumOf(Base(insn, o) \o Index(o) \o Displacement(o)))

\* The address of the m-th memory operand, counted from 0.
ComputeAddress(insn, m) ==
    LET mems == SelectSeq(insn.ops, LAMBDA o : o.o = "mem")
    IN AddressOf(insn, mems[m + 1])

-----------------------------------------------------------------------------
(* Operands.  The four high byte registers are read at the offset of the   *)
(* whole register, hence as its low byte.                                  *)

TypeOfOperand(insn, k) ==
    LET o == Op(insn, k) IN IF o.o = "imm" THEN S(o.w) ELSE U(o.w)

ReadOperand(insn, k) ==
    LET o == Op(insn, k)
    IN CASE o.o \in {"gpr", "high", "xmm"} -> ReadReg(U(o.w), o.r)
         [] o.o = "imm" -> ConstInt(IF o.sg THEN S(o.w) ELSE U(o.w), o.d)
         [] o.o = "mem" -> ReadMem(IF o.w = 80 THEN F(80) ELSE U(o.w), AddressOf(insn, o))
         [] o.o = "rel" -> ConstInt(U(64), o.d)

\* As WriteGpr, with 32-bit values inserted like smaller ones.
WriteGprInserts(o, v) ==
    IF Width(v.t) = 64 THEN WriteReg(o.r, v)
    ELSE WriteReg(o.r, BitInsert(ReadReg(U(64), o.r), v, 0, Width(v.t)))

\* A 64-bit value replaces the register, a 32-bit one clears the upper half,
\* smaller ones are inserted into the old value.
WriteGpr(o, v) ==
    LET old == ReadReg(U(64), o.r)
        insert(at, len) == WriteReg(o.r, BitInsert(old, v, at, len))
    IN CASE Width(v.t) = 64 -> WriteReg(o.r, IF v.t.c = "s" THEN Bitcast(U(64), v) ELSE v)
         [] Width(v.t) = 32 -> WriteReg(o.r, Zx(U(64), v))
         [] Width(v.t) = 16 -> insert(0, 16)
         [] Width(v.t) = 8  -> insert(IF o.o = "high" THEN 8 ELSE 0, 8)
         [] OTHER           -> Throw

\* A VEX form clears the rest of the 512-bit register, a legacy one keeps it.
WriteXmm(insn, o, v) ==
    LET w == Width(v.t)
        lanes == Bitcast(Vector(U(w), 512 \div w), ReadReg(U(512), o.r))
    IN CASE w \notin {32, 64, 128} -> Throw
         [] insn.vex -> WriteReg(o.r, Zx(U(512), Bitcast(U(w), v)))
         [] OTHER    -> WriteReg(o.r, VectorInsert(lanes, 0, Bitcast(U(w), v)))

WriteOperand(insn, k, v) ==
    LET o == Op(insn, k)
    IN CASE o.o \in {"gpr", "high"} -> WriteGpr(o, v)
         [] o.o = "xmm" -> WriteXmm(insn, o, v)
         [] o.o = "mem" -> WriteMem(ComputeAddress(insn, 0), v)
         [] OTHER       -> Throw

-----------------------------------------------------------------------------
(* Flags are written in the order ZF, CF, OF, SF; each is left alone       *)
(* ("keep"), set to a constant, or updated from a port of the operation.   *)

FlagPort(flag) ==
    CASE flag = "ZF" -> "zero" [] flag = "CF" -> "carry"
      [] flag = "OF" -> "overflow" [] flag = "SF" -> "negative"

Computes(op, flag) ==
    \/ op.k \in {"binary", "ternary", "binary_atomic", "ternary_atomic"}
    \/ op.k \in {"unary", "shift"} /\ flag \in {"ZF", "SF"}

WriteFlag(op, flag, how) ==
    LET bit(b) == <<WriteReg(flag, ConstInt(U(1), b))>>
    IN CASE how = "keep" -> << >>
         [] how = "0" -> bit(0)
         [] how = "1" -> bit(1)
         [] op.k = "constant" /\ flag = "ZF" -> bit(IF IsZero(op.x) THEN 1 ELSE 0)
         [] op.k = "constant" /\ flag = "SF" -> bit(0)
         [] Computes(op, flag) -> <<WriteReg(flag, Port(op, FlagPort(flag)))>>
         [] OTHER -> <<Throw>>

WriteFlags(op, zf, cf, of, sf) ==
    WriteFlag(op, "ZF", zf) \o WriteFlag(op, "CF", cf)
      \o WriteFlag(op, "OF", of) \o WriteFlag(op, "SF", sf)

AllFlags(op) == WriteFlags(op, "update", "update", "update", "update")

-----------------------------------------------------------------------------
\* Conditions, named as in the mnemonics.

Conditions == {"NBE", "NB", "B", "BE", "Z", "NLE", "NL", "L", "LE", "NZ", "NO", "NP",
               "NS", "O", "P", "S"}

ComputeCond(cond) ==
    LET flag(f) == ReadReg(U(1), f)
        nope(f) == Not(flag(f))
        sameSign == Binary("cmpeq", flag("SF"), flag("OF"))
        signsDiffer == Binary("cmpne", flag("SF"), flag("OF"))
    IN CASE cond = "NBE" -> Binary("band", nope("CF"), nope("ZF"))
         [] cond = "NB"  -> nope("CF")
         [] cond = "B"   -> flag("CF")
         [] cond = "BE"  -> Binary("bor", flag("CF"), flag("ZF"))
         [] cond = "Z"   -> flag("ZF")
         [] cond = "NLE" -> Binary("band", nope("ZF"), sameSign)
         [] cond = "NL"  -> sameSign
         [] cond = "L"   -> signsDiffer
         [] cond = "LE"  -> Binary("bor", flag("ZF"), signsDiffer)
         [] cond = "NZ"  -> nope("ZF")
         [] cond \in {"NO", "NP", "NS"} -> nope(CASE cond = "NO" -> "OF"
                                                  [] cond = "NP" -> "PF"
                                                  [] cond = "NS" -> "SF")
         [] cond \in {"O", "P", "S"} -> flag(CASE cond = "O" -> "OF"
                                              [] cond = "P" -> "PF"
                                              [] cond = "S" -> "SF")

\* As AutoCast, without a change of width.
AutoCastClass(t, v) == IF t.c = v.t.c THEN v ELSE Bitcast(t, v)

\* A value cast to the width and the class of t: signed values extend with
\* their sign.
AutoCast(t, v) ==
    LET sized == CASE Width(t) < Width(v.t) -> Trunc(Type(v.t.c, Width(t)), v)
                   [] v.t.c = "s" -> Sx(S(Width(t)), v)
                   [] OTHER       -> Zx(U(Width(t)), v)
        r == IF Width(t) = Width(v.t) THEN v ELSE sized
    IN IF t.c = v.t.c THEN r ELSE Bitcast(t, r)
=============================================================================
