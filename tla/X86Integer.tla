----------------------------- MODULE X86Integer ------------------------------
(***************************************************************************)
(* The translators of integer arithmetic: binary and unary operations, bit *)
(* tests and scans, multiplication and division, and the atomic forms.     *)
(* Each operator yields the actions of one instruction's packet, in order; *)
(* x[k] is the node that its operand k is read with.                       *)
(***************************************************************************)
EXTENDS X86Operands

-----------------------------------------------------------------------------
(* binop.cpp: the second operand is cast to the type of the first; the     *)
(* result is written, then the flags.                                      *)

LogicalOp(ic) ==
    CASE ic \in {"XOR", "PXOR"} -> "bxor"
      [] ic \in {"AND", "PAND", "TEST"} -> "band"
      [] ic \in {"OR", "POR"} -> "bor"

BinopResult(insn, x) ==
    LET op0 == x[0]
        op1 == AutoCast(op0.t, x[1])
        carry == AutoCast(op0.t, ReadReg(U(1), "CF"))
    IN CASE insn.ic = "ADD" -> Add(op0, op1)
         [] insn.ic \in {"SUB", "CMP"} -> Sub(op0, op1)
         [] insn.ic = "ADC" -> Ternary("adc", op0, op1, carry)
         [] insn.ic = "SBB" -> Ternary("sbb", op0, op1, carry)
         [] OTHER -> Binary(LogicalOp(insn.ic), op0, op1)

BinopWrites(insn, rslt) ==
    IF insn.ic \in {"CMP", "TEST"} THEN << >> ELSE <<WriteOperand(insn, 0, rslt)>>

BinopFlags(insn, rslt) ==
    CASE insn.ic \in {"XOR", "AND", "TEST", "OR"} ->
           WriteFlags(rslt, "update", "0", "0", "update")
      [] insn.ic \in {"ADD", "ADC", "SUB", "SBB", "CMP"} -> AllFlags(rslt)
      [] OTHER -> << >>

Binop(insn, x) ==
    LET rslt == BinopResult(insn, x) IN BinopWrites(insn, rslt) \o BinopFlags(insn, rslt)

Xadd(insn, x) ==
    LET dst == x[0]
        sum == Add(x[1], dst)
    IN AllFlags(sum) \o <<WriteOperand(insn, 1, dst), WriteOperand(insn, 0, sum)>>

\* The bit position is not reduced modulo the width.
BitTest(insn, x) ==
    LET src == x[0]
        pos == Bitcast(src.t, Zx(src.t, x[1]))
        bit == Shift("lsl", ConstInt(src.t, 1), pos)
        test == Trunc(U(1), Shift("lsr", Binary("band", src, bit), pos))
        changed == CASE insn.ic = "BT"  -> << >>
                     [] insn.ic = "BTS" -> <<Binary("bor", src, bit)>>
                     [] insn.ic = "BTR" -> <<Binary("band", src, Not(bit))>>
    IN <<WriteReg("CF", test)>>
         \o [i \in 1 .. Len(changed) |-> WriteOperand(insn, 0, changed[i])]

\* The scans unroll a selection for each bit; the last one that is set wins.
\* BSF's first mask is the C expression 1 << width - 1 on 32-bit integers: for
\* a 64-bit operand the shift count is taken modulo 32 and the result widened.
BsfMask(t) ==
    CASE Width(t) = 16 -> Constant(t, <<0, 128>>)
      [] Width(t) = 32 -> Constant(t, <<0, 0, 0, 128>>)
      [] Width(t) = 64 -> Constant(t, <<0, 0, 0, 128, 255, 255, 255, 255>>)

RECURSIVE Scan(_, _, _, _, _)
Scan(src, mask, idx, bits, shift) ==
    IF bits = << >> THEN idx
    ELSE LET set == Binary("cmpeq", Binary("band", src, mask), mask)
         IN Scan(src, Shift(shift, mask, ConstInt(src.t, 1)),
                 Csel(set, ConstInt(src.t, bits[1]), idx), Tail(bits), shift)

BitScan(insn, x) ==
    LET src == x[1]
        w == Width(src.t)
        idx == IF insn.ic = "BSR"
               THEN Scan(src, ConstInt(src.t, 1), ConstInt(src.t, 0),
                         [i \in 1 .. w |-> i - 1], "lsl")
               ELSE Scan(src, BsfMask(src.t), ConstInt(src.t, w - 1),
                         [i \in 1 .. w |-> w - i], "lsr")
    IN <<WriteReg("ZF", Binary("cmpeq", src, ConstInt(src.t, 0))), WriteOperand(insn, 0, idx)>>

-----------------------------------------------------------------------------
(* unop.cpp.                                                               *)

\* INC and DEC leave CF alone; NEG writes it before the result.
Unop(insn, x) ==
    LET op0 == x[0]
        one == ConstInt(op0.t, 1)
        zero == ConstInt(op0.t, 0)
        rslt == CASE insn.ic = "INC" -> Add(op0, one)
                  [] insn.ic = "DEC" -> Sub(op0, one)
                  [] insn.ic = "NOT" -> Not(op0)
                  [] insn.ic = "NEG" -> Sub(zero, op0)
        first == IF insn.ic = "NEG"
                 THEN <<WriteReg("CF", Trunc(U(1), Binary("cmpne", op0, zero)))>>
                 ELSE << >>
        flags == IF insn.ic = "NOT" THEN << >>
                 ELSE WriteFlags(rslt, "update", "keep", "update", "update")
    IN first \o <<WriteOperand(insn, 0, rslt)>> \o flags

\* Lane i of the new vector, for each i in turn.
InsertAll(v, n, lane(_)) ==
    LET from[i \in 0 .. n] ==
          IF i = 0 THEN v ELSE VectorInsert(from[i - 1], i - 1, lane(i - 1))
    IN from[n]

Bswap(insn, x) ==
    LET op0 == x[0]
        n == IF Width(op0.t) = 32 THEN 4 ELSE 8
        src == Bitcast(Vector(U(8), n), op0)
    IN <<WriteOperand(insn, 0,
           Bitcast(op0.t, InsertAll(src, n, LAMBDA i : VectorExtract(src, n - i - 1))))>>

Pmovmskb(insn, x) ==
    LET src == x[1]
        n == IF Width(src.t) = 64 THEN 8 ELSE 16
        from[i \in 0 .. n] ==
          IF i = 0 THEN ConstInt(U(n), 0)
          ELSE BitInsert(from[i - 1], BitExtract(src, 8 * i - 1, 1), i - 1, 1)
    IN <<WriteOperand(insn, 0, Zx(U(OperandWidth(insn, 0)), from[n]))>>

-----------------------------------------------------------------------------
(* muldiv.cpp: operands are extended to twice their width.  An 8-bit       *)
(* product is written to the whole accumulator.                            *)

Double(t) == Type(t.c, 2 * t.w)

HalvesOfProduct(insn, w, rslt) ==
    IF w = 8 THEN <<WriteReg("RAX", rslt)>>
    ELSE <<WriteOperand(insn, 1, BitExtract(rslt, 0, w)),
           WriteOperand(insn, 2, BitExtract(rslt, w, w))>>

ProductFlags(rslt) == WriteFlags(rslt, "keep", "update", "update", "keep")

Mul(insn, x) ==
    LET op0 == x[0]
        ax == x[1]
        wide == Double(ax.t)
        rslt == Binary("mul", Zx(wide, ax), Zx(wide, op0))
    IN HalvesOfProduct(insn, Width(op0.t), rslt) \o ProductFlags(rslt)

SignExtended(t, v) == Sx(t, Bitcast(Signed(v.t), v))

\* One operand (the accumulator and the register of the upper half follow),
\* two operands, or three with an immediate.
Imul(insn, x) ==
    LET op0 == x[0]
        op1 == x[1]
        three == Len(insn.ops) = 3 /\ IsImmediate(insn, 2)
        one == Len(insn.ops) = 3 /\ ~three
        wide == Double(Signed(IF three \/ one THEN op1.t ELSE op0.t))
        rslt == CASE one   -> Binary("mul", SignExtended(wide, op1), SignExtended(wide, op0))
                  [] three -> Binary("mul", SignExtended(wide, op1),
                                     SignExtended(wide, x[2]))
                  [] OTHER -> Binary("mul", SignExtended(wide, op0), SignExtended(wide, op1))
    IN (IF one THEN HalvesOfProduct(insn, Width(op0.t), rslt)
        ELSE <<WriteOperand(insn, 0, Bitcast(op0.t, Trunc(Signed(op0.t), rslt)))>>)
       \o ProductFlags(rslt)

\* DIV and IDIV: the two halves of the dividend, then quotient and remainder.
Divide(insn, x) ==
    LET w == Width(x[1].t)
        pair == BitInsert(Zx(U(2 * w), x[1]), x[2], w, w)
        signed == insn.ic = "IDIV"
        dividend == IF signed THEN Bitcast(S(2 * w), pair) ELSE pair
        divisor == IF signed THEN SignExtended(dividend.t, x[0]) ELSE Zx(U(2 * w), x[0])
        half(op) == Trunc(IF signed THEN Signed(x[0].t) ELSE x[1].t, Binary(op, dividend, divisor))
    IN <<WriteOperand(insn, 1, half("div")), WriteOperand(insn, 2, half("mod"))>>

Pmuludq(insn, x) ==
    LET dst == x[0]
        src == x[1]
        low(v) == Zx(U(64), BitExtract(v, 0, 32))
        lane(v, i) == Zx(U(64), VectorExtract(Bitcast(Vector(U(32), 4), v), i))
        product(i) == Binary("mul", lane(dst, i), lane(src, i))
    IN <<WriteOperand(insn, 0,
           IF Width(dst.t) = 64 THEN Binary("mul", low(dst), low(src))
           ELSE BitInsert(BitInsert(dst, product(0), 0, 64), product(2), 64, 64))>>

Pmullw(insn, x) ==
    LET lanes(k) == Bitcast(Vector(S(16), Width(x[k].t) \div 16),
                            x[k])
        elt(v, i) == Sx(S(32), VectorExtract(v, i))
        step[i \in 0 .. lanes(0).t.n] ==
          IF i = 0 THEN lanes(0)
          ELSE VectorInsert(step[i - 1], i - 1,
                 BitExtract(Binary("mul", elt(step[i - 1], i - 1), elt(lanes(1), i - 1)), 0, 16))
    IN <<WriteOperand(insn, 0, step[lanes(0).t.n])>>

-----------------------------------------------------------------------------
(* atomic.cpp: the second operand is used as it is decoded, without the    *)
(* cast of the other binary operations.                                    *)

LockedOp(ic) ==
    CASE ic \in {"ADD_LOCK", "INC_LOCK"} -> "add"
      [] ic = "DEC_LOCK" -> "sub"
      [] ic = "AND_LOCK" -> "band"
      [] ic = "OR_LOCK"  -> "bor"

\* INC and DEC take the type of the constant from the address.
LockedBinop(insn, x) ==
    LET addr == ComputeAddress(insn, 0)
        step == insn.ic \in {"INC_LOCK", "DEC_LOCK"}
        rhs == IF step THEN ConstInt(addr.t, 1) ELSE x[1]
        res == BinaryAtomic(LockedOp(insn.ic), addr, rhs)
    IN <<res>> \o CASE step -> WriteFlags(res, "update", "keep", "update", "update")
                    [] insn.ic = "ADD_LOCK" -> AllFlags(res)
                    [] OTHER -> WriteFlags(res, "update", "0", "0", "update")

LockedXadd(insn, x) ==
    LET res == BinaryAtomic("xadd", ComputeAddress(insn, 0), x[1])
    IN <<res, WriteOperand(insn, 1, res)>> \o AllFlags(res)

\* With a memory operand the exchange is atomic; registers go through a local.
Xchg(insn, x) ==
    LET swap(m, r) ==
          LET res == BinaryAtomic("xchg", AddressOf(insn, Op(insn, m)), x[r])
          IN <<res, WriteOperand(insn, r, res)>>
        op0 == x[0]
    IN CASE IsMemory(insn, 0) -> swap(0, 1)
         [] IsMemory(insn, 1) -> swap(1, 0)
         [] OTHER -> <<WriteLocal(1, op0), WriteOperand(insn, 0, x[1]),
                       WriteOperand(insn, 1, ReadLocal(op0.t, 1))>>

LockedCmpxchg(insn, x) ==
    LET res == CmpXchg(ComputeAddress(insn, 0), x[2], x[1])
    IN <<res>> \o AllFlags(res)
=============================================================================
