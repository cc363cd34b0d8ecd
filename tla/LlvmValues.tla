------------------------------ MODULE LlvmValues ------------------------------
(***************************************************************************)
(* What the LLVM code that the static engine emits for a value node        *)
(* computes (materialise_port and the vector cases of lower_node).  A      *)
(* value has its LLVM type, which is not always the type of the node       *)
(* (comparisons yield one bit, one-bit constants and flags eight), its     *)
(* bytes, and whether it is poison.  Bad stands for an instruction that    *)
(* LLVM rejects or an exception of the engine.                             *)
(***************************************************************************)
EXTENDS IrNodes

\* LLVM knows no signs: integers, floats, and vectors of them.
LlvmType(t) ==
    LET c == IF t.c = "f" /\ t.w \in {32, 64, 80} THEN "f" ELSE "u" IN [t EXCEPT !.c = c]

Value(t, b) == [t |-> t, b |-> b, poison |-> FALSE]
Poison(t) == [t |-> t, b |-> Zeros(Bytes(t)), poison |-> TRUE]
Bad == Value(Void, << >>)
IsBad(v) == v.t = Void

IsInt(v) == v.t.c = "u" /\ v.t.n = 1
IsFloat(v) == v.t.c = "f" /\ v.t.n = 1
IsVector(v) == v.t.n > 1
Bool(b) == Value(U(1), <<IF b THEN 1 ELSE 0>>)
IsTrue(v) == v.b[1] % 2 = 1
Flag(b) == Value(U(8), <<IF b THEN 1 ELSE 0>>)

\* Width changes of integers.  The width need not be a multiple of 8.
SignBit(v) == BitOf(v.b, Width(v.t) - 1) = 1
ToWidth(v, w) == Value(U(w), LowBits(ZeroExtend(v.b, Bytes(U(w))), w))
ExtendSigned(v, w) ==
    LET ones == ShiftLeft(SignExtend(<<255>>, Bytes(U(w))), Width(v.t))
        wide == ZeroExtend(v.b, Bytes(U(w)))
    IN Value(U(w), LowBits(IF SignBit(v) THEN Or(wide, ones) ELSE wide, w))
\* The same number in whole bytes, to compare as signed.
Whole(v) == ExtendSigned(v, 8 * Bytes(v.t)).b

SameBits(v, t) == Value(LlvmType(t), v.b)
AsInts(v) == IF v.t.c = "f" THEN SameBits(v, Unsigned(v.t)) ELSE v

\* Element i of a vector, from 0, and an operation on each element.
ElementBytes(v, i) == LET n == v.t.w \div 8 IN SubSeq(v.b, n * i + 1, n * i + n)
Elementwise(op(_, _), l, r) ==
    LET join[i \in 0 .. l.t.n] ==
          IF i = 0 THEN << >>
          ELSE join[i - 1] \o op(ElementBytes(l, i - 1), ElementBytes(r, i - 1))
    IN Value(l.t, join[l.t.n])

-----------------------------------------------------------------------------
(* Floating point, on the multiples of a half from -FloatBound to          *)
(* FloatBound, each given as the number of its halves: any other bit       *)
(* pattern and any other result counts as not a number.                    *)

FloatBound == 4
Halves == -2 * FloatBound .. 2 * FloatBound
FloatBytes(w, h) ==
    LET m == IF h < 0 THEN -h ELSE h
        top == IF w = 32
               THEN <<<<0, 0>>, <<0, 63>>, <<128, 63>>, <<192, 63>>, <<0, 64>>, <<32, 64>>,
                      <<64, 64>>, <<96, 64>>, <<128, 64>>>>
               ELSE <<<<0, 0>>, <<224, 63>>, <<240, 63>>, <<248, 63>>, <<0, 64>>, <<4, 64>>,
                      <<8, 64>>, <<12, 64>>, <<16, 64>>>>
    IN Zeros(w \div 8 - 2) \o <<top[m + 1][1], top[m + 1][2] + (IF h < 0 THEN 128 ELSE 0)>>
NotANumber(w) ==
    Zeros(w \div 8 - 2) \o (IF w = 32 THEN <<192, 127>> ELSE <<248, 127>>)

Numbers(w, b) == {h \in Halves : FloatBytes(w, h) = b}
FromFloat(w, hs) ==
    IF hs = {} THEN NotANumber(w) ELSE FloatBytes(w, CHOOSE h \in hs : TRUE)
FloatResult(op, w, x, y) ==
    LET result(p, q) ==
          CASE op = "add" -> {p + q} \cap Halves
            [] op = "sub" -> {p - q} \cap Halves
            [] op = "mul" -> {h \in Halves : 2 * h = p * q}
            [] op = "div" -> {h \in Halves : q /= 0 /\ h * q = 2 * p}
            [] op = "sqrt" -> {h \in Halves : h >= 0 /\ h * h = 2 * p}
    IN FromFloat(w, UNION {result(p, q) : p \in Numbers(w, x), q \in Numbers(w, y)})

\* Between the sizes of floats, from a signed integer, and towards zero.
Resized(from, to, b) == FromFloat(to, Numbers(from, b))
FromInteger(w, b) == FromFloat(w, {h \in Halves : h % 2 = 0 /\ FromInt(h \div 2, Len(b)) = b})
Truncated(h) == IF h < 0 THEN -((-h) \div 2) ELSE h \div 2

\* An ordered comparison is false, an unordered one true, of no numbers.
Relation(op, unordered, eq, lt) ==
    CASE op \in {"cmpeq", "cmpoeq"} -> eq
      [] op = "cmpne"   -> ~unordered /\ ~eq
      [] op = "cmpolt"  -> lt
      [] op = "cmpole"  -> lt \/ eq
      [] op = "cmpgt"   -> ~unordered /\ ~lt /\ ~eq
      [] op = "cmpueq"  -> unordered \/ eq
      [] op = "cmpult"  -> unordered \/ lt
      [] op = "cmpune"  -> unordered \/ ~eq
      [] op = "cmpunlt" -> unordered \/ ~lt
      [] op = "cmpunle" -> unordered \/ ~(lt \/ eq)
      [] op = "cmpo"    -> ~unordered
      [] op = "cmpu"    -> unordered
FloatCompare(op, w, x, y) ==
    LET ps == Numbers(w, x)
        qs == Numbers(w, y)
    IN Relation(op, ps = {} \/ qs = {}, \E p \in ps, q \in qs : p = q,
                \E p \in ps, q \in qs : p < q)

-----------------------------------------------------------------------------
\* Constants and casts.

LowerConstant(n) ==
    LET t == LlvmType(n.t)
    IN CASE Width(t) \in {1, 3, 8} -> Value(U(8), n.x)
         [] Width(t) \in {16, 32, 64, 80} -> Value(t, n.x)
         [] OTHER -> Bad

\* An integer is signed, whatever its type says.  A float becomes an integer by
\* truncation, whatever rounding the node asks for; one that is out of range
\* becomes poison.
LowerConvert(t, v) ==
    LET w == Width(t)
        whole == {Truncated(h) : h \in Numbers(Width(v.t), v.b)}
    IN CASE t.c = "f" /\ IsInt(v) -> Value(F(w), FromInteger(w, v.b))
         [] t.c = "f" -> IF w = Width(v.t) THEN Bad ELSE Value(F(w), Resized(Width(v.t), w, v.b))
         [] IsInt(v) -> Bad
         [] whole = {} -> Poison(U(w))
         [] OTHER -> Value(U(w), FromInt(CHOOSE k \in whole : TRUE, Bytes(t)))

LowerCast(c, v) ==
    LET w == Width(c.t)
        sized == w = Width(v.t)
        scalar == {1, 8, 16, 32, 64, 80, 128, 256, 512}
    IN CASE c.op = "zx" ->
              IF w \in scalar \ {1} /\ IsInt(v) THEN ToWidth(v, w) ELSE Bad
         [] c.op = "sx" ->
              IF w \in {16, 32, 64, 128} /\ IsInt(v) /\ w >= Width(v.t)
              THEN ExtendSigned(v, w) ELSE Bad
         [] c.op = "trunc" ->
              IF w \in {1, 8, 16, 32, 64} /\ IsInt(v) /\ w <= Width(v.t)
              THEN ToWidth(v, w) ELSE Bad
         [] c.op = "bitcast" ->
              IF sized /\ (IF c.t.n > 1 THEN c.t.w \in {1, 8, 16, 32, 64, 128} ELSE w \in scalar)
              THEN SameBits(v, c.t) ELSE Bad
         [] c.op = "convert" -> IF IsVector(v) THEN Bad ELSE LowerConvert(c.t, v)
         [] OTHER -> Bad

-----------------------------------------------------------------------------
(* Arithmetic.  The narrower of two integers is extended with its sign.    *)

IntArith(op, l, r) ==
    CASE op = "add" -> Plus(l, r)
      [] op = "sub" -> Minus(l, r)
      [] op = "mul" -> Product(l, r)
      [] op = "div" -> Quotient(l, r)
      [] op = "mod" -> SignedRemainder(l, r)

IntCompare(op, l, r) ==
    CASE op = "cmpeq" -> l.b = r.b
      [] op = "cmpne" -> l.b /= r.b
      [] op = "cmpgt" -> Less(Whole(r), Whole(l))

Bitwise2(op, x, y) ==
    CASE op = "band" -> And(x, y) [] op = "bor" -> Or(x, y) [] op = "bxor" -> Xor(x, y)

\* As Widened, without the extension.
WidenedNot(l, r) == l

Widened(l, r) == IF IsInt(l) /\ IsInt(r) /\ Width(l.t) < Width(r.t)
                 THEN ExtendSigned(l, Width(r.t)) ELSE l

\* Division by zero traps in the host; like an overflow of shift amounts it
\* counts as poison here.
Elements(op, l, r) ==
    IF l.t.c = "f" THEN Elementwise(LAMBDA x, y : FloatResult(op, l.t.w, x, y), l, r)
    ELSE Elementwise(LAMBDA x, y : IntArith(op, x, y), l, r)
BitwiseOf(op, l, r) == IF l.t = r.t THEN Value(l.t, Bitwise2(op, l.b, r.b)) ELSE Bad
\* Where the right operand is a float, and no vector, the left one is cast in its place.
RightBits(l, r) ==
    CASE ~IsFloat(r)               -> AsInts(r)
      [] Width(l.t) = Width(r.t)   -> SameBits(l, U(Width(r.t)))
      [] OTHER                     -> Bad
OnFloats(op, l, r) ==
    IF IsComparison(op) THEN Bool(FloatCompare(op, l.t.w, l.b, r.b))
    ELSE Value(l.t, FloatResult(op, l.t.w, l.b, r.b))
OnWidened(op, l, r) ==
    CASE op \in {"band", "bor", "bxor"} -> BitwiseOf(op, AsInts(l), RightBits(l, r))
      [] l.t /= r.t -> Bad
      [] IsFloat(l) -> OnFloats(op, l, r)
      [] op \in {"cmpeq", "cmpne", "cmpgt"} -> IF IsInt(l) THEN Bool(IntCompare(op, l, r)) ELSE Bad
      [] IsComparison(op) -> Bad
      [] op \in {"div", "mod"} /\ IsZero(r.b) -> Poison(l.t)
      [] IsVector(l) -> IF l.t.c = "f" /\ op = "add" THEN Bad ELSE Elements(op, l, r)
      [] OTHER -> Value(l.t, LowBits(IntArith(op, l.b, r.b), Width(l.t)))
LowerBinary(n, lhs, rhs) == OnWidened(n.op, Widened(lhs, rhs), Widened(rhs, lhs))

LowerTernary(n, l, r, top) ==
    LET c == Plus(r.b, top.b)
    IN IF l.t = r.t /\ r.t = top.t
       THEN Value(l.t, IF n.op = "adc" THEN Plus(l.b, c) ELSE Minus(l.b, c)) ELSE Bad

LowerUnary(n, v) ==
    IF n.op = "sqrt"
    THEN IF IsFloat(v) THEN Value(v.t, FloatResult("sqrt", v.t.w, v.b, v.b)) ELSE Bad
    ELSE Value(AsInts(v).t, LowBits(Complement(v.b), Width(v.t)))

\* An amount that is not less than the width makes the result poison.
LowerShift(n, v, amount) ==
    LET k == ToWidth(amount, Width(v.t)).b
        by == ToNat(k)
    IN CASE ~IsInt(v) -> Bad
         [] ~Below(ZeroExtend(k, 8), FromInt(Width(v.t), 8)) -> Poison(v.t)
         [] n.op = "lsl" -> Value(v.t, ShiftLeft(v.b, by))
         [] n.op = "lsr" -> Value(v.t, ShiftRight(v.b, by))
         [] n.op = "asr" -> Value(v.t, ShiftRightSigned(v.b, by))

LowerSelect(c, yes, no) ==
    IF c.t = U(1) /\ yes.t = no.t
    THEN IF c.poison THEN Poison(yes.t) ELSE IF IsTrue(c) THEN yes ELSE no
    ELSE Bad

-----------------------------------------------------------------------------
\* Parts of words and vectors.

LowerExtract(n, v) ==
    LET from == n.x[1]
        len == n.x[2]
        w == Width(v.t)
        moved == ShiftRight(v.b, from)
    IN CASE ~IsInt(v) \/ from + len > w -> Bad
         [] from < 0 \/ len = 0 -> Poison(U(len))
         [] OTHER -> ToWidth(Value(v.t, moved), len)

\* The mask is built by a shift of one by the length.
LowerInsert(n, v, bits) ==
    LET to == n.x[1]
        len == n.x[2]
        w == Width(v.t)
        mask == ShiftLeft(LowBits(SignExtend(<<255>>, Len(v.b)), len), to)
        moved == ShiftLeft(ToWidth(AsInts(bits), w).b, to)
    IN CASE IsVector(v) \/ IsVector(bits) -> Bad
         [] len >= w \/ to >= w -> Poison(v.t)
         [] OTHER -> Value(v.t, Or(And(v.b, Complement(mask)), And(moved, mask)))

\* A scalar becomes a vector of the inserted value's type.
LowerVectorInsert(n, source, e) ==
    LET v == IF IsVector(source) THEN source
             ELSE SameBits(source, Vector(e.t, Width(source.t) \div Width(e.t)))
        val == IF v.t.c = "f" /\ IsInt(e) /\ Width(e.t) = v.t.w THEN SameBits(e, F(v.t.w)) ELSE e
        at == n.x[1] * Len(val.b)
    IN IF val.t /= Element(v.t) \/ n.x[1] >= v.t.n THEN Bad
       ELSE Value(v.t, SubSeq(v.b, 1, at) \o val.b \o SubSeq(v.b, at + Len(val.b) + 1, Len(v.b)))

LowerVectorExtract(n, v) ==
    IF IsVector(v) /\ n.x[1] < v.t.n THEN Value(Element(v.t), ElementBytes(v, n.x[1])) ELSE Bad

-----------------------------------------------------------------------------
(* Flags.  The value of the operation is v, its operands l and r.  The     *)
(* operands of carry and overflow are compared as they are.                *)

IsNegative(v) == SignBit(v)
SameSignsOtherResult(l, r, v, zeroIsPositive) ==
    LET positive(x) == ~SignBit(x) /\ (zeroIsPositive \/ ~IsZero(x.b))
    IN \/ positive(l) /\ positive(r) /\ SignBit(v)
       \/ SignBit(l) /\ SignBit(r) /\ ~SignBit(v)

Carry(op, l, r, v) ==
    CASE op = "sub" -> Below(l.b, r.b)
      [] op \in {"add", "xadd"} -> Below(v.b, l.b)
      [] OTHER -> FALSE

Negated(v) == Value(v.t, Negate(v.b))

BinaryOverflow(op, l, r, v) ==
    CASE op = "sub" -> SameSignsOtherResult(l, Negated(r), v, TRUE)
      [] op = "add" -> SameSignsOtherResult(l, r, v, FALSE)
      [] OTHER -> FALSE

LowerBinaryFlag(n, flag, l, r, v) ==
    CASE flag = "zero" ->
           IF n.op \in {"band", "bor", "bxor", "mod", "sub", "add"} /\ IsInt(v)
           THEN Flag(IsZero(v.b))
           ELSE IF n.op = "cmpeq" THEN Flag(IsTrue(v)) ELSE Bad
      [] flag = "negative" -> IF IsInt(v) THEN Flag(IsNegative(v)) ELSE Bad
      [] n.op \notin {"add", "sub"} -> Flag(FALSE)
      [] ~IsInt(v) \/ l.t /= r.t -> Bad
      [] flag = "carry" -> Flag(Carry(n.op, l, r, v))
      [] flag = "overflow" -> Flag(BinaryOverflow(n.op, l, r, v))

\* A unary operation's flags are those of its operand, as these two of a shift are
\* of its value.
LowerValueFlag(flag, v) ==
    CASE ~IsInt(v) -> Bad
      [] flag = "zero" -> Flag(IsZero(v.b))
      [] flag = "negative" -> Flag(IsNegative(v))
      [] OTHER -> Flag(FALSE)

\* Carry and overflow of a shift are to be bits of the input, taken by vector.extract as
\* an i1 at a computed place: LLVM extracts vectors at constant places, so that
\* verifyFunction rejects the code.
LowerShiftFlag(flag, v) ==
    IF flag \in {"carry", "overflow"} THEN Bad ELSE LowerValueFlag(flag, v)

\* The atomic subtraction's overflow is the addition's, on the operand itself.
LowerAtomicFlag(n, flag, old, rhs, v) ==
    CASE flag = "zero" -> Flag(IsZero(v.b))
      [] flag = "negative" -> Flag(IsNegative(v))
      [] flag = "carry" -> Flag(Carry(n.op, old, rhs, v))
      [] n.op \in {"add", "xadd", "sub"} -> Flag(SameSignsOtherResult(old, rhs, v, FALSE))
      [] OTHER -> Flag(FALSE)

-----------------------------------------------------------------------------
\* The value of a node that is no read and no action, given its operands.

Apply(n, a) ==
    CASE n.k = "binary"         -> LowerBinary(n, a[1], a[2])
      [] n.k = "ternary"        -> LowerTernary(n, a[1], a[2], a[3])
      [] n.k = "unary"          -> LowerUnary(n, a[1])
      [] n.k = "shift"          -> LowerShift(n, a[1], a[2])
      [] n.k = "cast"           -> LowerCast(n, a[1])
      [] n.k = "bit_extract"    -> LowerExtract(n, a[1])
      [] n.k = "bit_insert"     -> LowerInsert(n, a[1], a[2])
      [] n.k = "vector_insert"  -> LowerVectorInsert(n, a[1], a[2])
      [] n.k = "vector_extract" -> LowerVectorExtract(n, a[1])
      [] n.k = "csel"           -> LowerSelect(a[1], a[2], a[3])

\* Poison spreads to whatever uses it; a selection takes one of its values.
Spread(v, n, a) ==
    IF n.k /= "csel" /\ ~IsBad(v) /\ \E i \in 1 .. Len(a) : a[i].poison THEN Poison(v.t) ELSE v
Lowered(n, a) ==
    IF \E i \in 1 .. Len(a) : IsBad(a[i]) THEN Bad ELSE Spread(Apply(n, a), n, a)
=============================================================================
