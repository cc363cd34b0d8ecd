-------------------------------- MODULE Words --------------------------------
(***************************************************************************)
(* Machine words as little-endian sequences of bytes.  TLC's integers have *)
(* 32 bits, guest registers have 64 and vector registers 128 or more, so   *)
(* the models of the translators and of the output engines compute on      *)
(* these sequences, at the widths of the code.                             *)
(***************************************************************************)
EXTENDS Integers, Sequences

Byte == 0 .. 255
Word(n) == [1 .. n -> Byte]

\* The n-byte word with byte b(i) at i.  The concatenation makes TLC compute
\* the bytes once, where it would evaluate a function at each application.
Make(n, b(_)) == [i \in 1 .. n |-> b(i)] \o << >>

Zeros(n) == Make(n, LAMBDA i : 0)
Complement(x) == Make(Len(x), LAMBDA i : 255 - x[i])

\* The n-byte representation of the integer k, |k| < 2^31.
FromInt(k, n) ==
    Make(n, LAMBDA i : IF i <= 4 THEN (k \div 256 ^ (i - 1)) % 256 ELSE IF k < 0 THEN 255 ELSE 0)

\* The value of a word below 2^31, or of the low 31 bits of a larger one.
ToNat(x) ==
    LET byte(i) == IF i > Len(x) THEN 0 ELSE x[i]
    IN byte(1) + 256 * byte(2) + 65536 * byte(3) + 16777216 * (byte(4) % 128)

IsZero(x) == \A i \in 1 .. Len(x) : x[i] = 0
Negative(x) == x[Len(x)] >= 128

\* Truncation to n bytes, or extension with zeros or with the sign.
Extend(x, n, fill) == Make(n, LAMBDA i : IF i <= Len(x) THEN x[i] ELSE fill)
ZeroExtend(x, n) == Extend(x, n, 0)
SignExtend(x, n) == Extend(x, n, IF Negative(x) THEN 255 ELSE 0)

Nibbles == 0 .. 15
Bit(k, i) == (k \div 2 ^ i) % 2
BitTable(op(_, _)) ==
    [p \in Nibbles \X Nibbles |->
       LET b(i) == op(Bit(p[1], i), Bit(p[2], i)) * 2 ^ i IN b(0) + b(1) + b(2) + b(3)]
AndTable == BitTable(LAMBDA a, b : a * b)
OrTable == BitTable(LAMBDA a, b : a + b - a * b)
XorTable == BitTable(LAMBDA a, b : (a + b) % 2)

Bytewise(table, x, y) ==
    Make(Len(x), LAMBDA i :
       16 * table[<<x[i] \div 16, y[i] \div 16>>] + table[<<x[i] % 16, y[i] % 16>>])
And(x, y) == Bytewise(AndTable, x, y)
Or(x, y) == Bytewise(OrTable, x, y)
Xor(x, y) == Bytewise(XorTable, x, y)

\* Addition of words of one length with a carry in; the last byte of the
\* result is the carry out.
RECURSIVE Ripple(_, _, _)
Ripple(x, y, c) ==
    IF x = << >> THEN <<c>>
    ELSE LET s == x[1] + y[1] + c
         IN <<s % 256>> \o Ripple(Tail(x), Tail(y), s \div 256)

Plus(x, y) == SubSeq(Ripple(x, y, 0), 1, Len(x))
Minus(x, y) == SubSeq(Ripple(x, Complement(y), 1), 1, Len(x))
Negate(x) == Minus(Zeros(Len(x)), x)

\* x < y, as unsigned and as signed numbers.
Below(x, y) ==
    \E i \in 1 .. Len(x) : x[i] < y[i] /\ \A j \in i + 1 .. Len(x) : x[j] = y[j]
Less(x, y) ==
    IF Negative(x) = Negative(y) THEN Below(x, y) ELSE Negative(x)

\* Shifts by k >= 0 bits; a right shift brings in copies of the byte f.
ShiftLeft(x, k) ==
    LET q == k \div 8
        r == 2 ^ (k % 8)
        at(i) == IF i >= 1 THEN x[i] ELSE 0
    IN Make(Len(x), LAMBDA i : (at(i - q) * r + (at(i - q - 1) * r) \div 256) % 256)
ShiftRightFill(x, k, f) ==
    LET q == k \div 8
        r == 2 ^ (8 - (k % 8))
        at(i) == IF i <= Len(x) THEN x[i] ELSE f
    IN Make(Len(x), LAMBDA i : ((at(i + q) * r) \div 256 + at(i + q + 1) * r) % 256)
ShiftRight(x, k) == ShiftRightFill(x, k, 0)
ShiftRightSigned(x, k) == ShiftRightFill(x, k, IF Negative(x) THEN 255 ELSE 0)

\* Bit i of a word, counted from 0.
BitOf(x, i) == Bit(x[i \div 8 + 1], i % 8)

\* The low n bits of x, the others zero.
LowBits(x, n) ==
    Make(Len(x), LAMBDA i : IF 8 * i <= n THEN x[i]
                            ELSE IF 8 * (i - 1) >= n THEN 0 ELSE x[i] % 2 ^ (n % 8))

\* The product of two words, in as many bytes as x has.
RECURSIVE Product(_, _)
Product(x, y) ==
    IF y = << >> THEN Zeros(Len(x))
    ELSE LET low == Make(Len(x), LAMBDA i : (x[i] * y[1]) % 256)
             high == Make(Len(x), LAMBDA i : IF i = 1 THEN 0 ELSE (x[i - 1] * y[1]) \div 256)
         IN Plus(Plus(low, high),
                 <<0>> \o SubSeq(Product(x, Tail(y)), 1, Len(x) - 1))

\* Unsigned division by restoring subtraction, from the top bit down: the
\* quotient and the remainder.  The divisor is not zero.
Subtracted(q, r, y, over) ==
    IF over \/ ~Below(r, y) THEN <<Plus(q, FromInt(1, Len(q))), Minus(r, y)>> ELSE <<q, r>>
DivMod(x, y) ==
    LET from[i \in 0 .. 8 * Len(x)] ==
          IF i = 8 * Len(x) THEN <<Zeros(Len(x)), Zeros(Len(x))>>
          ELSE LET p == from[i + 1]
               IN Subtracted(ShiftLeft(p[1], 1),
                             Plus(ShiftLeft(p[2], 1), FromInt(BitOf(x, i), Len(x))),
                             y, Negative(p[2]))
    IN from[0]
Quotient(x, y) == DivMod(x, y)[1]
Remainder(x, y) == DivMod(x, y)[2]

\* Signed division truncates towards zero; the remainder has the sign of x.
NegateIf(b, x) == IF b THEN Negate(x) ELSE x
Abs(x) == NegateIf(Negative(x), x)
SignedQuotient(x, y) == NegateIf(Negative(x) /= Negative(y), Quotient(Abs(x), Abs(y)))
SignedRemainder(x, y) == NegateIf(Negative(x), Remainder(Abs(x), Abs(y)))
=============================================================================
