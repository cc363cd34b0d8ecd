------------------------------ MODULE X86Vector ------------------------------
(***************************************************************************)
(* The translators of vector instructions: lanes of the 128-bit registers  *)
(* (parts of binop.cpp), unpacking and packing (punpck.cpp), shuffles      *)
(* (shuffle.cpp) and scalar floating point (fpvec.cpp).                    *)
(***************************************************************************)
EXTENDS X86Operands

Lanes(t, v) == Bitcast(Vector(t, Width(v.t) \div t.w), v)

\* v with n lanes replaced, one after the other: lane at(i) by val(u, i), where
\* u is the vector so far.
Replace(v, n, at(_), val(_, _)) ==
    LET from[i \in 0 .. n] ==
          IF i = 0 THEN v ELSE VectorInsert(from[i - 1], at(i - 1), val(from[i - 1], i - 1))
    IN from[n]

-----------------------------------------------------------------------------
(* binop.cpp.                                                              *)

\* The element of PADDx, PSUBx, ADDPS, PCMPEQx and PCMPGTx.
LaneType(ic) ==
    CASE ic \in {"PADDB", "PSUBB", "PCMPEQB", "PCMPGTB"} -> U(8)
      [] ic \in {"PADDW", "PSUBW", "PCMPEQW", "PCMPGTW"} -> U(16)
      [] ic \in {"PADDD", "PSUBD", "PCMPEQD", "PCMPGTD"} -> U(32)
      [] ic \in {"PADDQ", "PSUBQ"} -> U(64)
      [] ic = "ADDPS" -> F(32)

LaneArith(insn, x) ==
    LET op == IF insn.ic \in {"PADDB", "PADDW", "PADDD", "PADDQ", "ADDPS"} THEN "add" ELSE "sub"
        lanes(k) == Lanes(LaneType(insn.ic), x[k])
    IN <<WriteOperand(insn, 0, Binary(op, lanes(0), lanes(1)))>>

LaneCompare(insn, x) ==
    LET t == LaneType(insn.ic)
        op == IF insn.ic \in {"PCMPEQB", "PCMPEQW", "PCMPEQD"} THEN "cmpeq" ELSE "cmpgt"
        lanes(k) == Lanes(t, x[k])
        holds(v, i) == Binary(op, VectorExtract(v, i), VectorExtract(lanes(1), i))
    IN <<WriteOperand(insn, 0,
           Replace(lanes(0), lanes(0).t.n, LAMBDA i : i,
                   LAMBDA v, i : Csel(holds(v, i), ConstInt(t, -1), ConstInt(t, 0))))>>

\* The bitwise operations on vectors of floats.
FloatLogical(insn, x) ==
    LET t == IF insn.ic \in {"ANDPS", "ANDNPS", "ORPS"} THEN F(32) ELSE F(64)
        op == IF insn.ic \in {"ORPS", "ORPD"} THEN "bor" ELSE "band"
        l == Lanes(t, x[0])
        not == insn.ic \in {"ANDNPS", "ANDNPD"}
    IN <<WriteOperand(insn, 0, Binary(op, IF not THEN Not(l) ELSE l,
                                      Lanes(t, x[1])))>>

\* The lowest float of an operand in a register or in memory.
Lowest(t, v) == IF Width(v.t) = 128 THEN VectorExtract(Lanes(t, v), 0) ELSE Bitcast(t, v)

FloatFlags(insn, x) ==
    LET t == IF insn.ic \in {"COMISS", "UCOMISS"} THEN F(32) ELSE F(64)
        l == Lowest(t, x[0])
        r == Lowest(t, x[1])
        set(flag, op) ==
          WriteReg(flag, Csel(Binary(op, l, r), ConstInt(U(1), 1), ConstInt(U(1), 0)))
    IN <<set("ZF", "cmpueq"), set("PF", "cmpu"), set("CF", "cmpult")>>
         \o WriteFlags(l, "keep", "keep", "0", "0")

\* The mask of a comparison that holds is the number 2^32 or 2^64, converted
\* from the integer constant, not a word of ones.
TrueMask(t) ==
    Constant(t, IF t.w = 32 THEN <<0, 0, 128, 79>> ELSE <<0, 0, 0, 0, 0, 0, 240, 67>>)

Predicate(k) ==
    <<"cmpoeq", "cmpolt", "cmpole", "cmpu", "cmpune", "cmpunlt", "cmpunle", "cmpo">>[k + 1]

FloatMask(insn, x) ==
    LET t == IF insn.ic = "CMPSS" THEN F(32) ELSE F(64)
        lanes(k) == Lanes(t, x[k])
        cond == Binary(Predicate(Op(insn, 2).d), VectorExtract(lanes(0), 0),
                       VectorExtract(lanes(1), 0))
    IN <<WriteOperand(insn, 0,
           VectorInsert(lanes(0), 0, Csel(cond, TrueMask(t), ConstInt(t, 0))))>>

-----------------------------------------------------------------------------
(* punpck.cpp.                                                             *)

UnpackedWidth(ic) ==
    CASE ic \in {"PUNPCKLBW", "PUNPCKHBW"} -> 8
      [] ic \in {"PUNPCKLWD", "PUNPCKHWD"} -> 16
      [] ic \in {"PUNPCKLDQ", "PUNPCKHDQ"} -> 32
      [] OTHER -> 64

\* The low, or the high, lanes of the two operands, interleaved.
Unpack(insn, x) ==
    LET w == UnpackedWidth(insn.ic)
        v(k) == Lanes(U(w), x[k])
        n == v(0).t.n
        high == insn.ic \in {"PUNPCKHBW", "PUNPCKHWD", "PUNPCKHDQ", "PUNPCKHQDQ"}
        from(i) == i \div 2 + (IF high THEN n \div 2 ELSE 0)
    IN <<WriteOperand(insn, 0,
           Replace(v(0), 2 * (n \div 2), LAMBDA i : i,
                   LAMBDA u, i : VectorExtract(v(i % 2), from(i))))>>

\* The case has no break: the low unpack follows and overwrites the result.
Unpckhpd(insn, x) ==
    LET v(k) == Lanes(F(64), x[k])
    IN <<WriteOperand(insn, 0, VectorInsert(VectorInsert(v(0), 0, VectorExtract(v(0), 1)),
                                            1, VectorExtract(v(1), 1)))>>
         \o Unpack(insn, x)

\* Word i of the two operands, seen as one vector of signed words.
PackedWord(insn, x, t, i) ==
    LET v(k) == Lanes(t, x[k])
    IN IF i < v(0).t.n THEN VectorExtract(v(0), i) ELSE VectorExtract(v(1), i - v(0).t.n)

\* The branches around the three insertions of a byte jump around nodes that
\* are no actions: the bytes are inserted one over the other, whatever the word.
Packuswb(insn, x) ==
    LET bytes == Lanes(S(8), x[0])
        word(i) == PackedWord(insn, x, S(16), i)
        negative(i) == Binary("cmpgt", ConstInt(S(16), 0), word(i))
        over(i) == Binary("cmpne", Binary("band", word(i), ConstInt(S(16), -256)),
                          ConstInt(S(16), 0))
        jumps(i) == <<CondBr(negative(i), 4 * i), CondBr(over(i), 4 * i + 1), Br(4 * i + 2),
                      Label(4 * i), Br(4 * i + 3), Label(4 * i + 1), Label(4 * i + 2),
                      Label(4 * i + 3)>>
        all[i \in 0 .. bytes.t.n] == IF i = 0 THEN << >> ELSE all[i - 1] \o jumps(i - 1)
        low(i) == Trunc(U(8), Bitcast(U(16), word(i)))
        inserted(u, i) ==
          VectorInsert(VectorInsert(VectorInsert(u, i, low(i)), i, ConstInt(U(8), 0)),
                       i, ConstInt(U(8), 255))
        from[i \in 0 .. bytes.t.n] == IF i = 0 THEN bytes ELSE inserted(from[i - 1], i - 1)
    IN all[bytes.t.n] \o <<WriteOperand(insn, 0, from[bytes.t.n])>>

PackSigned(insn, x) ==
    LET pre == IF insn.ic = "PACKSSDW" THEN S(32) ELSE S(16)
        pst == S(pre.w \div 2)
        max == 2 ^ (pst.w - 1) - 1
        clamp(v) ==
          Csel(Binary("cmpgt", v, ConstInt(pre, max)), ConstInt(pst, max),
               Csel(Binary("cmpgt", ConstInt(pre, -max - 1), v), ConstInt(pst, -max - 1),
                    Trunc(pst, v)))
        result == Lanes(pst, x[0])
    IN <<WriteOperand(insn, 0,
           Replace(result, result.t.n, LAMBDA i : i,
                   LAMBDA u, i : clamp(PackedWord(insn, x, pre, i))))>>

\* A 16-bit value goes to a 32-bit register operand.
Pextrw(insn, x) ==
    <<WriteOperand(insn, 0, VectorExtract(Lanes(U(16), x[1]), Op(insn, 2).d % 8))>>

-----------------------------------------------------------------------------
(* shuffle.cpp.  The third operand selects a source lane for each lane.    *)

Selector(insn, bits, i) == (Op(insn, 2).d \div 2 ^ (bits * i)) % 2 ^ bits

ShuffleWords(insn, x) ==
    LET high == insn.ic = "PSHUFHW"
        src == Lanes(U(16), x[1])
        first == IF high THEN 4 ELSE 0
        shuffled == Replace(Lanes(U(16), x[0]), 4, LAMBDA i : i + first,
                      LAMBDA u, i : VectorExtract(src, Selector(insn, 2, i) + first))
    IN <<WriteOperand(insn, 0, Replace(shuffled, 4, LAMBDA i : i + 4 - first,
                                       LAMBDA u, i : VectorExtract(src, i + 4 - first)))>>

Pshufd(insn, x) ==
    LET v(k) == Lanes(U(32), x[k])
    IN <<WriteOperand(insn, 0, Replace(v(0), 4, LAMBDA i : i,
                                 LAMBDA u, i : VectorExtract(v(1), Selector(insn, 2, i))))>>

\* The selected index, not the position of the lane, decides which operand a
\* lane comes from.  The lanes are inserted into the unsplit operand.
ShuffleFloats(insn, x) ==
    LET t == IF insn.ic = "SHUFPS" THEN Vector(F(32), 4) ELSE Vector(F(64), 2)
        bits == IF insn.ic = "SHUFPS" THEN 2 ELSE 1
        src(k) == AutoCast(t, x[k])
        pick(i) == LET idx == Selector(insn, bits, i)
                   IN VectorExtract(src(IF idx < t.n \div 2 THEN 0 ELSE 1), idx)
    IN <<WriteOperand(insn, 0, Replace(x[0], t.n, LAMBDA i : i,
                                       LAMBDA u, i : pick(i)))>>

-----------------------------------------------------------------------------
(* fpvec.cpp.  A two-operand form takes its destination as first source.   *)

FloatOp(ic) ==
    CASE ic \in {"ADDSS", "ADDSD", "VADDSS", "VADDSD", "ADDPD"} -> "add"
      [] ic \in {"SUBSS", "SUBSD", "VSUBSS", "VSUBSD", "SUBPD"} -> "sub"
      [] ic \in {"MULSS", "MULSD", "VMULSS", "VMULSD"} -> "mul"
      [] ic \in {"DIVSS", "DIVSD", "VDIVSS", "VDIVSD"} -> "div"

SingleFloat(ic) ==
    ic \in {"ADDSS", "SUBSS", "MULSS", "DIVSS", "VADDSS", "VSUBSS", "VMULSS", "VDIVSS"}

\* unop.cpp: the root is written over the low half.
Sqrtsd(insn, x) == <<WriteOperand(insn, 0, Unary("sqrt", Lowest(F(64), x[1])))>>

\* The other lanes of the result are the destination's, in VEX forms too.
FloatArith(insn, x) ==
    LET t == IF SingleFloat(insn.ic) THEN F(32) ELSE F(64)
        three == Len(insn.ops) = 3
        src1 == Lowest(t, x[IF three THEN 1 ELSE 0])
        src2 == Lowest(t, x[IF three THEN 2 ELSE 1])
    IN <<WriteOperand(insn, 0, VectorInsert(Lanes(t, x[0]), 0,
                                            Binary(FloatOp(insn.ic), src1, src2)))>>

\* Into a float: inserted below the rest of the destination.  A double goes to a
\* single even when an integer is asked for; a single goes to the type of the
\* destination, which is an integer for an XMM register too.
Conversion(insn, x) ==
    LET ic == insn.ic
        t == IF ic \in {"CVTSS2SD", "CVTSS2SI", "CVTTSS2SI"} THEN F(32) ELSE F(64)
        from(w) == BitInsert(x[0], Convert(F(w), x[1]), 0, w)
        single == VectorInsert(x[0], 0, Convert(F(32), Lowest(t, x[1])))
    IN <<WriteOperand(insn, 0, CASE ic = "CVTSI2SS" -> from(32)
                                 [] ic = "CVTSI2SD" -> from(64)
                                 [] ic \in {"CVTSD2SI", "CVTSD2SS"} -> single
                                 [] OTHER -> Convert(x[0].t, Lowest(t, x[1])))>>

\* The whole register at once.
FloatPacked(insn, x) ==
    LET src(k) == Bitcast(Lanes(F(64), x[k]).t, x[k])
    IN <<WriteOperand(insn, 0, Binary(FloatOp(insn.ic), src(0), src(1)))>>
=============================================================================
