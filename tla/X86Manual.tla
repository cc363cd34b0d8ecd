------------------------------ MODULE X86Manual ------------------------------
(***************************************************************************)
(* What the processor's manual says of the instructions: the reference     *)
(* that the translated code is compared with.  A state is a register file  *)
(* and a memory; an outcome also names the flags that are left undefined.  *)
(* Flags that the translators never write (AF, and PF but for the          *)
(* comparisons of floats) are not compared.                                *)
(***************************************************************************)
EXTENDS X86Operands, LlvmValues, TLC

CONSTANTS Address, MemoryBase

State(regs, mem) == [regs |-> regs, mem |-> mem, undef |-> {}]
Undefined(s, flags) == [s EXCEPT !.undef = flags]
Bit01(b) == <<IF b THEN 1 ELSE 0>>
IsSet(s, f) == s.regs[f] = <<1>>
SetReg(s, r, b) == [s EXCEPT !.regs[r] = b]
SetFlag(s, f, b) == SetReg(s, f, Bit01(b))
SetFlags(s, fs) ==
    [s EXCEPT !.regs = [r \in DOMAIN s.regs |->
                          IF r \in DOMAIN fs THEN Bit01(fs[r]) ELSE s.regs[r]]]

Sum3(x, y, z) == Plus(Plus(x, y), z)
Num(k) == FromInt(k, 8)
Next(insn) == Plus(Address, Num(insn.len))
Effective(s, insn, o) ==
    LET base == CASE o.r = None -> Num(0) [] o.r = "RIP" -> Next(insn) [] OTHER -> s.regs[o.r]
        index == IF o.i = None THEN Num(0) ELSE ShiftLeft(s.regs[o.i], o.s)
        segment == IF o.seg = None THEN Num(0) ELSE s.regs[o.seg]
    IN Plus(Sum3(base, index, Num(o.d)), segment)

Off(a) == ToNat(Minus(a, FromInt(MemoryBase, 8)))
Load(s, a, n) == SubSeq(s.mem, Off(a) + 1, Off(a) + n)
Store(s, a, b) ==
    [s EXCEPT !.mem = SubSeq(s.mem, 1, Off(a)) \o b \o SubSeq(s.mem, Off(a) + Len(b) + 1, Len(s.mem))]

SizeOf(insn, k) == Op(insn, k).w \div 8

\* Operand k as n bytes; an immediate is extended with its sign.
Get(s, insn, k, n) ==
    LET o == Op(insn, k)
    IN CASE o.o \in {"gpr", "xmm"} -> SubSeq(s.regs[o.r], 1, n)
         [] o.o = "high" -> <<s.regs[o.r][2]>>
         [] o.o \in {"imm", "rel"} -> SignExtend(FromInt(o.d, 4), n)
         [] o.o = "mem" -> Load(s, Effective(s, insn, o), n)
Source(s, insn, k) == Get(s, insn, k, SizeOf(insn, k))

Put(s, insn, k, b) ==
    LET o == Op(insn, k)
        merged(n) == SetReg(s, o.r, b \o SubSeq(s.regs[o.r], n + 1, Len(s.regs[o.r])))
    IN CASE o.o = "mem" -> Store(s, Effective(s, insn, o), b)
         [] o.o = "high" -> [s EXCEPT !.regs[o.r][2] = b[1]]
         [] o.o = "gpr" /\ Len(b) = 4 -> SetReg(s, o.r, ZeroExtend(b, 8))
         [] insn.vex -> SetReg(s, o.r, ZeroExtend(b, 64))
         [] OTHER -> merged(Len(b))

-----------------------------------------------------------------------------
(* Integer arithmetic.  A subtraction adds the complement; it borrows when *)
(* that addition does not carry.                                           *)

ZeroSign(b) == "ZF" :> IsZero(b) @@ "SF" :> Negative(b)

AddSub(x, y, c, subtract) ==
    LET z == IF subtract THEN Complement(y) ELSE y
        r == Ripple(x, z, IF subtract THEN 1 - c ELSE c)
        b == SubSeq(r, 1, Len(x))
        carry == r[Len(r)] = 1
    IN [b |-> b, flags |-> ZeroSign(b) @@ "CF" :> (carry /= subtract)
          @@ "OF" :> (Negative(x) = Negative(z) /\ Negative(b) /= Negative(x))]

KeepCarry(fs) == [f \in DOMAIN fs \ {"CF"} |-> fs[f]]
LogicFlags(b) == ZeroSign(b) @@ "CF" :> FALSE @@ "OF" :> FALSE

Arithmetic(s, insn) ==
    LET n == SizeOf(insn, 0)
        x == Get(s, insn, 0, n)
        y == Get(s, insn, 1, n)
        cf == s.regs["CF"][1]
        r == CASE insn.ic \in {"ADD", "ADD_LOCK"} -> AddSub(x, y, 0, FALSE)
               [] insn.ic = "ADC" -> AddSub(x, y, cf, FALSE)
               [] insn.ic \in {"SUB", "CMP"} -> AddSub(x, y, 0, TRUE)
               [] insn.ic = "SBB" -> AddSub(x, y, cf, TRUE)
    IN IF insn.ic = "CMP" THEN SetFlags(s, r.flags) ELSE SetFlags(Put(s, insn, 0, r.b), r.flags)

Step1(s, insn) ==
    LET x == Source(s, insn, 0)
        one == FromInt(1, Len(x))
        r == CASE insn.ic \in {"INC", "INC_LOCK"} -> AddSub(x, one, 0, FALSE)
               [] insn.ic \in {"DEC", "DEC_LOCK"} -> AddSub(x, one, 0, TRUE)
               [] insn.ic = "NEG" -> AddSub(Zeros(Len(x)), x, 0, TRUE)
    IN SetFlags(Put(s, insn, 0, r.b), IF insn.ic = "NEG" THEN r.flags ELSE KeepCarry(r.flags))

Logic(s, insn) ==
    LET n == SizeOf(insn, 0)
        x == Get(s, insn, 0, n)
        y == Get(s, insn, 1, n)
        b == CASE insn.ic \in {"AND", "TEST", "AND_LOCK"} -> And(x, y)
               [] insn.ic \in {"OR", "OR_LOCK"} -> Or(x, y)
               [] insn.ic = "XOR" -> Xor(x, y)
    IN SetFlags(IF insn.ic = "TEST" THEN s ELSE Put(s, insn, 0, b), LogicFlags(b))

Exchange(s, insn) ==
    LET x == Source(s, insn, 0)
        y == Source(s, insn, 1)
        r == AddSub(x, y, 0, FALSE)
    IN IF insn.ic = "XCHG" THEN Put(Put(s, insn, 0, y), insn, 1, x)
       ELSE SetFlags(Put(Put(s, insn, 1, x), insn, 0, r.b), r.flags)

\* Operands: the destination, the new value, the accumulator.
CompareAndExchange(s, insn) ==
    LET x == Source(s, insn, 0)
        acc == Source(s, insn, 2)
        after == SetFlags(s, AddSub(acc, x, 0, TRUE).flags)
    IN IF x = acc THEN Put(after, insn, 0, Source(s, insn, 1)) ELSE Put(after, insn, 2, x)

BitTests(s, insn) ==
    LET x == Source(s, insn, 0)
        i == ToNat(Get(s, insn, 1, 1)) % (8 * Len(x))
        one == ShiftLeft(FromInt(1, Len(x)), i)
        b == CASE insn.ic = "BT" -> x [] insn.ic = "BTS" -> Or(x, one)
               [] insn.ic = "BTR" -> And(x, Complement(one))
        t == IF insn.ic = "BT" THEN s ELSE Put(s, insn, 0, b)
    IN Undefined(SetFlag(t, "CF", BitOf(x, i) = 1), {"OF", "SF"})

Scans(s, insn) ==
    LET x == Source(s, insn, 1)
        set == {i \in 0 .. 8 * Len(x) - 1 : BitOf(x, i) = 1}
        found == IF insn.ic = "BSF" THEN CHOOSE i \in set : \A j \in set : i <= j
                 ELSE CHOOSE i \in set : \A j \in set : j <= i
        t == Undefined(SetFlag(s, "ZF", set = {}),
                       {"CF", "OF", "SF"} \cup (IF set = {} THEN {Op(insn, 0).r} ELSE {}))
    IN IF set = {} THEN t ELSE Put(t, insn, 0, FromInt(found, Len(x)))

Reversed(x) == [i \in 1 .. Len(x) |-> x[Len(x) + 1 - i]]

\* The product has twice the width; CF and OF tell that the upper half counts.
Multiply(s, insn) ==
    LET one == insn.ic = "MUL" \/ (Len(insn.ops) = 3 /\ Op(insn, 2).o = "gpr")
        n == SizeOf(insn, 0)
        wide(x) == IF insn.ic = "MUL" THEN ZeroExtend(x, 2 * n) ELSE SignExtend(x, 2 * n)
        first == IF one THEN 0 ELSE Len(insn.ops) - 2
        p == Product(wide(Get(s, insn, first, n)), wide(Get(s, insn, first + 1, n)))
        low == SubSeq(p, 1, n)
        t == CASE ~one -> Put(s, insn, 0, low)
               [] n = 1 -> SetReg(s, "RAX", p \o SubSeq(s.regs["RAX"], 3, 8))
               [] OTHER -> Put(Put(s, insn, 1, low), insn, 2, SubSeq(p, n + 1, 2 * n))
        over == p /= wide(low)
    IN Undefined(SetFlags(t, "CF" :> over @@ "OF" :> over), {"ZF", "SF"})

\* The quotient must fit; the cases where it does not are not run.
Division(s, insn) ==
    LET n == SizeOf(insn, 0)
        signed == insn.ic = "IDIV"
        x == Get(s, insn, 1, n) \o Get(s, insn, 2, n)
        y == IF signed THEN SignExtend(Source(s, insn, 0), 2 * n)
             ELSE ZeroExtend(Source(s, insn, 0), 2 * n)
        q == IF signed THEN SignedQuotient(x, y) ELSE Quotient(x, y)
        r == IF signed THEN SignedRemainder(x, y) ELSE Remainder(x, y)
    IN Undefined(Put(Put(s, insn, 1, SubSeq(q, 1, n)), insn, 2, SubSeq(r, 1, n)),
                 {"ZF", "CF", "OF", "SF"})

-----------------------------------------------------------------------------
(* Shifts and rotations: nothing happens for a masked count of 0, and OF   *)
(* is defined for 1.                                                       *)

Leftwards(ic) == ic \in {"SHL", "SHLD", "ROL"}
IsRotation(ic) == ic \in {"ROL", "ROR"}
IsDouble(ic) == ic \in {"SHLD", "SHRD"}

\* x moved by k bits, with what comes in from the other side.
Moved(ic, x, in, k) ==
    LET w == 8 * Len(x)
    IN CASE ic = "SAR" -> ShiftRightSigned(x, k)
         [] ic = "SHL" -> ShiftLeft(x, k)
         [] ic = "SHR" -> ShiftRight(x, k)
         [] Leftwards(ic) -> Or(ShiftLeft(x, k), ShiftRight(in, w - k))
         [] OTHER -> Or(ShiftRight(x, k), ShiftLeft(in, w - k))

\* The bit that leaves x last; in a rotation it is the one that comes in.
LastOut(ic, x, b, k) ==
    LET w == 8 * Len(x)
    IN CASE IsRotation(ic) -> IF Leftwards(ic) THEN b[1] % 2 ELSE BitOf(b, w - 1)
         [] k \notin 1 .. w -> 0
         [] OTHER -> BitOf(x, IF Leftwards(ic) THEN w - k ELSE k - 1)

OverflowOf(ic, x, b, cf) ==
    LET w == 8 * Len(x)
    IN CASE ic = "SAR" -> FALSE
         [] ic = "SHR" -> Negative(x)
         [] ic \in {"SHL", "ROL"} -> Negative(b) /= (cf = 1)
         [] ic = "ROR" -> BitOf(b, w - 1) /= BitOf(b, w - 2)
         [] OTHER -> Negative(b) /= Negative(x)

ShiftFlags(s, ic, x, b, cf) ==
    SetFlags(s, "CF" :> (cf = 1) @@ "OF" :> OverflowOf(ic, x, b, cf)
                  @@ (IF IsRotation(ic) THEN << >> ELSE ZeroSign(b)))

ShiftedBy(s, insn, x, c, k) ==
    LET in == IF IsDouble(insn.ic) THEN Source(s, insn, 1) ELSE x
        b == Moved(insn.ic, x, in, k)
    IN Undefined(ShiftFlags(Put(s, insn, 0, b), insn.ic, x, b, LastOut(insn.ic, x, b, k)),
                 (IF c = 1 THEN {} ELSE {"OF"}) \cup (IF k > 8 * Len(x) THEN {"CF"} ELSE {}))

Count(s, insn, w) ==
    ToNat(Get(s, insn, IF IsDouble(insn.ic) THEN 2 ELSE 1, 1)) % (IF w = 64 THEN 64 ELSE 32)

ShiftOrRotate(s, insn) ==
    LET x == Source(s, insn, 0)
        w == 8 * Len(x)
        c == Count(s, insn, w)
    IN IF c = 0 THEN Put(s, insn, 0, x)
       ELSE ShiftedBy(s, insn, x, c, IF IsRotation(insn.ic) THEN c % w ELSE c)

-----------------------------------------------------------------------------
\* Conditions, moves, the stack and branches.

Holds(s, cc) ==
    LET f(x) == IsSet(s, x)
    IN CASE cc = "NBE" -> ~f("CF") /\ ~f("ZF") [] cc = "NB" -> ~f("CF") [] cc = "B" -> f("CF")
         [] cc = "BE" -> f("CF") \/ f("ZF")    [] cc = "Z" -> f("ZF")   [] cc = "NZ" -> ~f("ZF")
         [] cc = "NLE" -> ~f("ZF") /\ f("SF") = f("OF") [] cc = "NL" -> f("SF") = f("OF")
         [] cc = "L" -> f("SF") /= f("OF")     [] cc = "LE" -> f("ZF") \/ f("SF") /= f("OF")
         [] cc = "NO" -> ~f("OF") [] cc = "O" -> f("OF") [] cc = "NP" -> ~f("PF")
         [] cc = "P" -> f("PF")   [] cc = "NS" -> ~f("SF") [] cc = "S" -> f("SF")

Moves(s, insn) ==
    LET ic == insn.ic
        n == SizeOf(insn, 0)
        acc(k) == SubSeq(s.regs["RAX"], 1, k)
        sign(k) == IF Negative(acc(k)) THEN Complement(Zeros(k)) ELSE Zeros(k)
    IN CASE ic = "MOV" -> Put(s, insn, 0, Get(s, insn, 1, n))
         [] ic = "LEA" -> Put(s, insn, 0, SubSeq(Effective(s, insn, Op(insn, 1)), 1, n))
         [] ic = "MOVZX" -> Put(s, insn, 0, ZeroExtend(Source(s, insn, 1), n))
         [] ic \in {"MOVSX", "MOVSXD"} -> Put(s, insn, 0, SignExtend(Source(s, insn, 1), n))
         [] ic = "CWD" -> SetReg(s, "RDX", sign(2) \o SubSeq(s.regs["RDX"], 3, 8))
         [] ic = "CDQ" -> SetReg(s, "RDX", ZeroExtend(sign(4), 8))
         [] ic = "CQO" -> SetReg(s, "RDX", sign(8))
         [] ic = "CDQE" -> SetReg(s, "RAX", SignExtend(acc(4), 8))
         [] ic = "CMOV" -> Put(s, insn, 0, Source(s, insn, IF Holds(s, insn.cc) THEN 1 ELSE 0))
         [] ic = "SETCC" -> Put(s, insn, 0, Bit01(Holds(s, insn.cc)))
         [] ic = "BSWAP" -> Put(s, insn, 0, Reversed(Source(s, insn, 0)))
         [] ic = "NOT" -> Put(s, insn, 0, Complement(Source(s, insn, 0)))
         [] ic \in {"STC", "CLC"} -> SetFlag(s, "CF", ic = "STC")
         [] ic \in {"STD", "CLD"} -> SetFlag(s, "DF", ic = "STD")

StackMoves(s, insn) ==
    LET rsp == s.regs["RSP"]
        below == Minus(rsp, Num(8))
        above == Plus(rsp, Num(8))
    IN CASE insn.ic = "PUSH" ->
              Store(SetReg(s, "RSP", below), below, Get(s, insn, 0, 8))
         [] insn.ic = "POP" -> Put(SetReg(s, "RSP", above), insn, 0, Load(s, rsp, 8))
         [] insn.ic = "LEAVE" ->
              LET rbp == s.regs["RBP"]
              IN SetReg(SetReg(s, "RSP", Plus(rbp, Num(8))), "RBP", Load(s, rbp, 8))

Branches(s, insn) ==
    LET rsp == s.regs["RSP"]
        below == Minus(rsp, Num(8))
        target == IF Op(insn, 0).o = "rel" THEN Plus(Next(insn), Num(Op(insn, 0).d))
                  ELSE Source(s, insn, 0)
        popped == IF insn.ops = << >> THEN 0 ELSE Op(insn, 0).d
    IN CASE insn.ic = "JMP" -> SetReg(s, "PC", target)
         [] insn.ic = "JCC" -> IF Holds(s, insn.cc) THEN SetReg(s, "PC", target) ELSE s
         [] insn.ic = "CALL_NEAR" ->
              SetReg(Store(SetReg(s, "RSP", below), below, Next(insn)), "PC", target)
         [] insn.ic = "RET_NEAR" ->
              SetReg(SetReg(s, "RSP", Plus(rsp, Num(8 + popped))), "PC", Load(s, rsp, 8))

\* One element, or as many as RCX says.
RECURSIVE Strings(_, _, _)
Strings(s, insn, times) ==
    LET n == SizeOf(insn, 0)
        step == Num(IF IsSet(s, "DF") THEN -n ELSE n)
        move == insn.ic \in {"MOVSB", "MOVSQ", "REP_MOVSB", "REP_MOVSQ"}
        b == IF move THEN Load(s, s.regs["RSI"], n) ELSE SubSeq(s.regs["RAX"], 1, n)
        stored == Store(s, s.regs["RDI"], b)
        moved == SetReg(stored, "RDI", Plus(s.regs["RDI"], step))
    IN IF times = 0 THEN s
       ELSE Strings(IF move THEN SetReg(moved, "RSI", Plus(s.regs["RSI"], step)) ELSE moved,
                    insn, times - 1)

RepStrings(s, insn) == SetReg(Strings(s, insn, ToNat(s.regs["RCX"])), "RCX", Num(0))

-----------------------------------------------------------------------------
(* Vector instructions, on sequences of lanes.                             *)

Split(b, n) == [i \in 1 .. Len(b) \div n |-> SubSeq(b, n * (i - 1) + 1, n * i)]
Joined(l) ==
    LET j[i \in 0 .. Len(l)] == IF i = 0 THEN << >> ELSE j[i - 1] \o l[i] IN j[Len(l)]
Lanewise(op(_, _), x, y, n) ==
    LET xs == Split(x, n)
        ys == Split(y, n)
    IN Joined([i \in 1 .. Len(xs) |-> op(xs[i], ys[i])])
Mask(b, n) == IF b THEN Complement(Zeros(n)) ELSE Zeros(n)

LaneSize(ic) ==
    CASE ic \in {"PADDB", "PSUBB", "PCMPEQB", "PCMPGTB", "PUNPCKLBW", "PUNPCKHBW"} -> 1
      [] ic \in {"PADDW", "PSUBW", "PCMPEQW", "PCMPGTW", "PUNPCKLWD", "PUNPCKHWD", "PSRLW",
                 "PACKSSWB", "PACKUSWB", "PMULLW"} -> 2
      [] ic \in {"PADDD", "PSUBD", "PCMPEQD", "PCMPGTD", "PUNPCKLDQ", "PUNPCKHDQ", "PSRLD",
                 "PSLLD", "PACKSSDW", "ADDPS", "ADDSS", "SUBSS", "MULSS", "DIVSS", "VADDSS",
                 "VSUBSS", "COMISS", "UCOMISS", "CMPSS", "MOVSS", "SHUFPS"} -> 4
      [] OTHER -> 8

\* Two operands of 16 bytes to a result of 16 bytes.
Packed(ic, x, y) ==
    LET n == LaneSize(ic)
        xs == Split(x, n)
        ys == Split(y, n)
        half == Len(xs) \div 2
        first == IF ic \in {"PUNPCKHBW", "PUNPCKHWD", "PUNPCKHDQ", "PUNPCKHQDQ", "UNPCKHPD"}
                 THEN half ELSE 0
        min(w) == FromInt(-(128 ^ w) * 2 ^ (w - 1), 2 * w)
        max(w) == FromInt(128 ^ w * 2 ^ (w - 1) - 1, 2 * w)
        clamp(v, lo, hi) == IF Less(v, lo) THEN lo ELSE IF Less(hi, v) THEN hi ELSE v
        narrow(v) == SubSeq(IF ic = "PACKUSWB" THEN clamp(v, Zeros(2), <<255, 0>>)
                            ELSE clamp(v, min(n \div 2), max(n \div 2)), 1, n \div 2)
    IN CASE ic \in {"PADDB", "PADDW", "PADDD", "PADDQ"} -> Lanewise(Plus, x, y, n)
         [] ic \in {"PSUBB", "PSUBW", "PSUBD", "PSUBQ"} -> Lanewise(Minus, x, y, n)
         [] ic = "ADDPD" -> Lanewise(LAMBDA p, q : FloatResult("add", 64, p, q), x, y, 8)
         [] ic = "SUBPD" -> Lanewise(LAMBDA p, q : FloatResult("sub", 64, p, q), x, y, 8)
         [] ic = "ADDPS" -> Lanewise(LAMBDA p, q : FloatResult("add", 32, p, q), x, y, 4)
         [] ic \in {"PCMPEQB", "PCMPEQW", "PCMPEQD"} ->
              Lanewise(LAMBDA p, q : Mask(p = q, n), x, y, n)
         [] ic \in {"PCMPGTB", "PCMPGTW", "PCMPGTD"} ->
              Lanewise(LAMBDA p, q : Mask(Less(q, p), n), x, y, n)
         [] ic \in {"PAND", "ANDPS", "ANDPD"} -> And(x, y)
         [] ic \in {"ANDNPS", "ANDNPD"} -> And(Complement(x), y)
         [] ic \in {"POR", "ORPS", "ORPD"} -> Or(x, y)
         [] ic = "PXOR" -> Xor(x, y)
         [] ic = "PMULUDQ" ->
              Lanewise(LAMBDA p, q : Product(ZeroExtend(SubSeq(p, 1, 4), 8), SubSeq(q, 1, 4)), x, y, 8)
         [] ic = "PMULLW" -> Lanewise(Product, x, y, 2)
         [] ic \in {"PACKSSWB", "PACKSSDW", "PACKUSWB"} ->
              Joined([i \in 1 .. 2 * Len(xs) |->
                        narrow(IF i <= Len(xs) THEN xs[i] ELSE ys[i - Len(xs)])])
         [] OTHER ->
              Joined([i \in 1 .. Len(xs) |->
                        LET at == first + ((i + 1) \div 2) IN IF i % 2 = 1 THEN xs[at] ELSE ys[at]])

\* The immediate chooses lanes.
Shuffled(ic, x, y, k) ==
    LET pick(bits, i) == ((k \div 2 ^ (bits * i)) % (2 ^ bits)) + 1
        xs(n) == Split(x, n)
        ys(n) == Split(y, n)
    IN CASE ic = "PSHUFD" -> Joined([i \in 1 .. 4 |-> ys(4)[pick(2, i - 1)]])
         [] ic = "PSHUFLW" ->
              Joined([i \in 1 .. 8 |-> ys(2)[IF i <= 4 THEN pick(2, i - 1) ELSE i]])
         [] ic = "PSHUFHW" ->
              Joined([i \in 1 .. 8 |-> ys(2)[IF i <= 4 THEN i ELSE pick(2, i - 5) + 4]])
         [] ic = "SHUFPS" ->
              Joined([i \in 1 .. 4 |-> (IF i <= 2 THEN xs(4) ELSE ys(4))[pick(2, i - 1)]])
         [] ic = "SHUFPD" -> xs(8)[pick(1, 0)] \o ys(8)[pick(1, 1)]

ShiftedLanes(ic, x, k) ==
    LET n == LaneSize(ic)
        w == 8 * n
        moved(v) == CASE k >= w -> Zeros(n) [] ic = "PSLLD" -> ShiftLeft(v, k)
                      [] OTHER -> ShiftRight(v, k)
    IN CASE ic = "PSLLDQ" -> IF k > 15 THEN Zeros(16) ELSE ShiftLeft(x, 8 * k)
         [] ic = "PSRLDQ" -> IF k > 15 THEN Zeros(16) ELSE ShiftRight(x, 8 * k)
         [] OTHER -> Joined([i \in 1 .. 16 \div n |-> moved(Split(x, n)[i])])

ScalarOp(ic) ==
    CASE ic \in {"ADDSS", "ADDSD", "VADDSS", "VADDSD"} -> "add"
      [] ic \in {"SUBSS", "SUBSD", "VSUBSS", "VSUBSD"} -> "sub"
      [] ic \in {"MULSS", "MULSD"} -> "mul"
      [] ic \in {"DIVSS", "DIVSD"} -> "div"
      [] ic = "SQRTSD" -> "sqrt"

\* To the nearest integer, of two the even one; what is not an integer of n
\* bytes becomes the least one.
Nearest(h) ==
    LET below == h \div 2 IN IF h % 2 = 1 /\ below % 2 = 1 THEN below + 1 ELSE below
ToInteger(round(_), w, b, n) ==
    LET whole == {round(h) : h \in Numbers(w, b)}
    IN IF whole = {} THEN [Zeros(n) EXCEPT ![n] = 128]
       ELSE FromInt(CHOOSE k \in whole : TRUE, n)

Converted(s, insn) ==
    LET ic == insn.ic
        single == ic \in {"CVTSS2SD", "CVTSS2SI", "CVTTSS2SI"}
        w == IF single THEN 32 ELSE 64
        src == Get(s, insn, 1, w \div 8)
        number == Source(s, insn, 1)
        n == SizeOf(insn, 0)
        new == CASE ic = "CVTSI2SS" -> FromInteger(32, number)
                 [] ic = "CVTSI2SD" -> FromInteger(64, number)
                 [] ic = "CVTSD2SS" -> Resized(64, 32, src)
                 [] ic = "CVTSS2SD" -> Resized(32, 64, src)
                 [] ic \in {"CVTTSS2SI", "CVTTSD2SI"} -> ToInteger(Truncated, w, src, n)
                 [] OTHER -> ToInteger(Nearest, w, src, n)
    IN Put(s, insn, 0, new)

Holding(k, w, p, q) ==
    FloatCompare(<<"cmpoeq", "cmpolt", "cmpole", "cmpu", "cmpune", "cmpunlt", "cmpunle", "cmpo">>[k + 1],
                 w, p, q)

VectorMoves(s, insn) ==
    LET ic == insn.ic
        mem(k) == Op(insn, k).o = "mem"
        src(n) == Get(s, insn, 1, n)
        dst == Get(s, insn, 0, 16)
        wide(b) == ZeroExtend(b, 16)
        scalar(n) ==
          CASE mem(0) -> src(n) [] mem(1) -> wide(src(n))
            [] OTHER -> src(n) \o SubSeq(dst, n + 1, 16)
        new == CASE ic \in {"MOVUPS", "MOVAPS", "MOVDQA", "MOVDQU", "MOVAPD"} -> src(16)
                 [] ic = "MOVSS" -> scalar(4)
                 [] ic = "MOVSD_XMM" -> scalar(8)
                 [] ic \in {"MOVD", "MOVQ"} ->
                      LET n == IF ic = "MOVD" THEN 4 ELSE 8
                      IN IF Op(insn, 0).o = "xmm" THEN wide(src(n)) ELSE src(n)
                 [] mem(0) -> IF ic \in {"MOVLPS", "MOVLPD"} THEN src(8) ELSE SubSeq(src(16), 9, 16)
                 [] ic \in {"MOVLPS", "MOVLPD"} -> src(8) \o SubSeq(dst, 9, 16)
                 [] ic \in {"MOVHPS", "MOVHPD"} -> SubSeq(dst, 1, 8) \o src(8)
    IN Put(s, insn, 0, new)

Vectors(s, insn) ==
    LET ic == insn.ic
        x == Get(s, insn, 0, 16)
        n == LaneSize(ic)
        k == Op(insn, Len(insn.ops) - 1).d
        three == Len(insn.ops) = 3 /\ insn.vex
        a == Get(s, insn, IF three THEN 1 ELSE 0, 16)
        lane(m) == Get(s, insn, m, n)
        low(m) == SubSeq(Get(s, insn, m, n), 1, n)
        right == low(IF three THEN 2 ELSE 1)
        put(b) == Put(s, insn, 0, b)
    IN CASE ic \in {"PSHUFD", "PSHUFLW", "PSHUFHW", "SHUFPS", "SHUFPD"} ->
              put(Shuffled(ic, x, Get(s, insn, 1, 16), k))
         [] ic \in {"PSRLW", "PSRLD", "PSRLQ", "PSLLD", "PSLLDQ", "PSRLDQ"} ->
              put(ShiftedLanes(ic, x, k))
         [] ic = "PEXTRW" -> put(Split(Get(s, insn, 1, 16), 2)[(k % 8) + 1] \o <<0, 0>>)
         [] ic = "PMOVMSKB" ->
              LET y == Get(s, insn, 1, 16)
                  bit(i) == BitOf(y, 8 * i - 1) * 2 ^ ((i - 1) % 8)
                  octet(f) == bit(f) + bit(f + 1) + bit(f + 2) + bit(f + 3)
                                + bit(f + 4) + bit(f + 5) + bit(f + 6) + bit(f + 7)
              IN put(<<octet(1), octet(9), 0, 0>>)
         [] ic \in {"COMISS", "COMISD", "UCOMISS", "UCOMISD"} ->
              LET c(op) == FloatCompare(op, 8 * n, low(0), right)
              IN SetFlags(s, "ZF" :> c("cmpueq") @@ "PF" :> c("cmpu") @@ "CF" :> c("cmpult")
                               @@ "OF" :> FALSE @@ "SF" :> FALSE)
         [] ic \in {"CMPSS", "CMPSD_XMM"} ->
              put(Mask(Holding(k, 8 * n, low(0), low(1)), n) \o SubSeq(x, n + 1, 16))
         [] ic \in {"ADDSS", "ADDSD", "VADDSS", "VADDSD", "SUBSS", "SUBSD", "VSUBSS", "VSUBSD",
                    "MULSS", "MULSD", "DIVSS", "DIVSD", "SQRTSD"} ->
              put(FloatResult(ScalarOp(ic), 8 * n, SubSeq(IF ic = "SQRTSD" THEN Get(s, insn, 1, n) ELSE a, 1, n), right)
                    \o SubSeq(a, n + 1, 16))
         [] OTHER -> put(Packed(ic, x, Get(s, insn, 1, 16)))

-----------------------------------------------------------------------------
(* The state after the instruction.                                        *)

VectorMoveClasses ==
    {"MOVUPS", "MOVAPS", "MOVDQA", "MOVDQU", "MOVAPD", "MOVSS", "MOVSD_XMM", "MOVD", "MOVQ",
     "MOVLPS", "MOVLPD", "MOVHPS", "MOVHPD"}

Outcome(regs, mem, insn) ==
    LET s == SetReg(State(regs, mem), "PC", Next(insn))
        ic == insn.ic
    IN CASE ic \in {"ADD", "ADD_LOCK", "ADC", "SUB", "SBB", "CMP"} -> Arithmetic(s, insn)
         [] ic \in {"AND", "OR", "XOR", "TEST", "AND_LOCK", "OR_LOCK"} -> Logic(s, insn)
         [] ic \in {"INC", "DEC", "NEG", "INC_LOCK", "DEC_LOCK"} -> Step1(s, insn)
         [] ic \in {"XADD", "XADD_LOCK", "XCHG"} -> Exchange(s, insn)
         [] ic = "CMPXCHG_LOCK" -> CompareAndExchange(s, insn)
         [] ic \in {"BT", "BTS", "BTR"} -> BitTests(s, insn)
         [] ic \in {"BSF", "BSR"} -> Scans(s, insn)
         [] ic \in {"MUL", "IMUL"} -> Multiply(s, insn)
         [] ic \in {"DIV", "IDIV"} -> Division(s, insn)
         [] ic \in {"SHL", "SHR", "SAR", "ROL", "ROR", "SHLD", "SHRD"} -> ShiftOrRotate(s, insn)
         [] ic \in {"PUSH", "POP", "LEAVE"} -> StackMoves(s, insn)
         [] ic \in {"JMP", "JCC", "CALL_NEAR", "RET_NEAR"} -> Branches(s, insn)
         [] ic \in {"MOVSB", "MOVSQ"} -> Strings(s, insn, 1)
         [] ic \in {"REP_MOVSB", "REP_MOVSQ", "REP_STOSB", "REP_STOSQ"} -> RepStrings(s, insn)
         [] ic \in VectorMoveClasses -> VectorMoves(s, insn)
         [] ic \in {"CVTSD2SI", "CVTSD2SS", "CVTSS2SD", "CVTSS2SI", "CVTSI2SS", "CVTSI2SD",
                    "CVTTSS2SI", "CVTTSD2SI"} -> Converted(s, insn)
         [] ic \in {"NOP", "PAUSE"} -> s
         [] ic = "SYSCALL" -> SetReg(s, "RCX", Next(insn))
         [] ic \in {"MOV", "LEA", "MOVZX", "MOVSX", "MOVSXD", "CWD", "CDQ", "CQO", "CDQE", "CMOV",
                    "SETCC", "BSWAP", "NOT", "STC", "CLC", "STD", "CLD"} -> Moves(s, insn)
         [] OTHER -> Vectors(s, insn)
=============================================================================
