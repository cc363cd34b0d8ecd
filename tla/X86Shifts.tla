------------------------------ MODULE X86Shifts ------------------------------
(***************************************************************************)
(* The translators of shifts and rotations (shifts.cpp).                   *)
(***************************************************************************)
EXTENDS X86Operands

Top(v) == BitExtract(v, Width(v.t) - 1, 1)
XorBits(l, r) == Binary("bxor", l, r)
ZeroAndSign(v) == WriteFlags(v, "update", "keep", "keep", "update")

\* The amount keeps its low 5 bits, 6 for a 64-bit operand.
MaskedAmount(insn, x, k) ==
    LET amt == x[k]
    IN Binary("band", amt, ConstInt(amt.t, IF OperandWidth(insn, 0) = 64 THEN 63 ELSE 31))

ShiftOp(ic) == CASE ic = "SAR" -> "asr" [] ic = "SHR" -> "lsr" [] ic = "SHL" -> "lsl"

\* With the amount in CL, nothing is written for an amount of 0, and OF only
\* for an amount of 1.
UnlessZero(amt, body) ==
    <<CondBr(Binary("cmpeq", amt, ConstInt(amt.t, 0)), 1)>> \o body \o <<Label(1), Label(2)>>
UnlessOne(amt) == CondBr(Binary("cmpne", amt, ConstInt(amt.t, 1)), 2)

\* The bit that is shifted out last, by shifting once less.
LastBit(insn, left, src, amt) ==
    LET less == Sub(amt, ConstInt(amt.t, 1))
    IN IF left THEN Top(Shift("lsl", src, less)) ELSE BitExtract(Shift("lsr", src, less), 0, 1)

\* As ShiftByRegister, with the overflow flag written whatever the amount.
ShiftByRegisterLate(insn, x) ==
    LET src == x[0]
        amt == MaskedAmount(insn, x, 1)
        shift == Shift(ShiftOp(insn.ic), src, amt)
        last == LastBit(insn, insn.ic = "SHL", src, amt)
    IN UnlessZero(amt, <<WriteOperand(insn, 0, shift)>> \o ZeroAndSign(shift)
                         \o <<WriteReg("CF", last), UnlessOne(amt)>>)
         \o <<WriteReg("OF", XorBits(last, Top(shift)))>>

ShiftByRegister(insn, x) ==
    LET src == x[0]
        amt == MaskedAmount(insn, x, 1)
        shift == Shift(ShiftOp(insn.ic), src, amt)
        last == LastBit(insn, insn.ic = "SHL", src, amt)
        of == CASE insn.ic = "SHL" -> XorBits(last, Top(shift))
                [] insn.ic = "SAR" -> ConstInt(U(1), 0)
                [] insn.ic = "SHR" -> Top(src)
    IN UnlessZero(amt, <<WriteOperand(insn, 0, shift)>> \o ZeroAndSign(shift)
                         \o <<WriteReg("CF", last), UnlessOne(amt), WriteReg("OF", of)>>)

\* The flags are left alone when the masked amount is 0, as with CL.
ShiftByImmediateUnlessZero(insn, x) ==
    LET src == x[0]
        amt == MaskedAmount(insn, x, 1)
        shift == Shift(ShiftOp(insn.ic), src, amt)
    IN UnlessZero(amt, <<WriteOperand(insn, 0, shift)>> \o ZeroAndSign(shift))

\* SAR, SHR and SHL with an immediate.  The masked amount is an and-node, yet
\* it is cast to a constant node and its value is read: that memory holds the
\* kind of the node's zero port, the enumerator port_kinds::zero.  Every such
\* shift takes the code that depends on the amount for an amount of 2.
MisreadAmount == 2

ShiftByImmediate(insn, x) ==
    LET src == x[0]
        shift == Shift(ShiftOp(insn.ic), src, MaskedAmount(insn, x, 1))
        last == IF insn.ic = "SHL" THEN BitExtract(src, Width(src.t) - MisreadAmount, 1)
                ELSE BitExtract(src, MisreadAmount - 1, 1)
    IN <<WriteOperand(insn, 0, shift), WriteReg("CF", last)>> \o ZeroAndSign(shift)

ShiftInsn(insn, x) ==
    IF IsImmediate(insn, 1) THEN ShiftByImmediate(insn, x) ELSE ShiftByRegister(insn, x)

\* SHRD and SHLD: operand 1 is always a register, so that the amount, operand
\* 2, is treated like one in CL whatever it is.  ZF and SF would be taken from
\* the or-node.
DoubleShift(insn, x) ==
    LET src == x[0]
        in == x[1]
        amt == MaskedAmount(insn, x, 2)
        left == insn.ic = "SHLD"
        clear == Sub(ConstInt(in.t, Width(in.t)), amt)
        first == IF left THEN "lsl" ELSE "lsr"
        then == IF left THEN "lsr" ELSE "lsl"
        kept == Shift(then, Shift(first, in, clear), clear)
        shift == Binary("bor", Shift(first, src, amt), kept)
        last == LastBit(insn, left, src, amt)
        of == IF left THEN XorBits(last, Top(shift)) ELSE XorBits(Top(src), Top(shift))
    IN UnlessZero(amt, <<WriteOperand(insn, 0, shift)>> \o ZeroAndSign(shift)
                         \o <<WriteReg("CF", last), UnlessOne(amt), WriteReg("OF", of)>>)

\* ROR and ROL by an immediate, which is not masked.
Rotate(insn, x) ==
    LET value == x[0]
        w == Width(value.t)
        n == Op(insn, 1).d
        rot == x[1]
        res == IF insn.ic = "ROR"
               THEN BitInsert(Shift("lsr", value, rot), BitExtract(value, 0, n), w - n, n)
               ELSE BitInsert(Shift("lsl", value, rot), BitExtract(value, w - n, n), 0, n)
        low == BitExtract(res, 0, 1)
        cf == IF insn.ic = "ROR" THEN Top(res) ELSE low
        of == IF insn.ic = "ROR" THEN XorBits(Top(res), BitExtract(res, w - 2, 1))
              ELSE XorBits(Top(res), low)
    IN IF n = 0 THEN << >>
       ELSE <<WriteOperand(insn, 0, res), WriteReg("CF", cf)>>
              \o (IF n = 1 THEN <<WriteReg("OF", of)>> ELSE << >>)

\* Each lane is shifted by the whole amount operand.
ShiftLanes(insn, x) ==
    LET src == x[0]
        w == CASE insn.ic = "PSRLW" -> 16 [] insn.ic = "PSRLD" -> 32 [] insn.ic = "PSRLQ" -> 64
        n == Width(src.t) \div w
        step[i \in 0 .. n] ==
          IF i = 0 THEN Bitcast(Vector(U(w), n), src)
          ELSE VectorInsert(step[i - 1], i - 1,
                 Shift("lsr", VectorExtract(step[i - 1], i - 1), x[1]))
    IN <<WriteOperand(insn, 0, step[n])>>

ShiftBytes(insn, x) ==
    LET bytes == Op(insn, 1).d
        op == IF insn.ic = "PSLLDQ" THEN "lsl" ELSE "lsr"
    IN <<WriteOperand(insn, 0,
           IF bytes > 15 THEN ConstInt(U(128), 0)
           ELSE Shift(op, x[0], ConstInt(U(32), 8 * bytes)))>>

\* The shifted lanes of PSLLD are never written to the operand.
Pslld(insn) == << >>
=============================================================================
