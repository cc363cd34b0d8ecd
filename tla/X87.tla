-------------------------------- MODULE X87 --------------------------------
(* The x87 unit as the translator builds it (fpu.cpp, and the fpu_ functions *)
(* of translator.cpp): doubles in memory, addressed relative to TOP, with a  *)
(* tag word.  A translated instruction is a list of actions; the nodes that  *)
(* compute values are evaluated when the first action needs them, and not    *)
(* again (lower_port, materialise).  A value may therefore be read after a   *)
(* register or TOP has changed: each definition below reads the state that   *)
(* is current at that moment.  Of a tag only "empty or not" is kept, as no   *)
(* instruction asks for more.                                                *)
EXTENDS Naturals

CONSTANTS N, Numbers, Zero, Indefinite, Empty, Negative, Less(_, _), Unary, Binary,
          LogExact

Values == Numbers \cup {Indefinite}
Idx == 0 .. N - 1

ASSUME X87Assumption ==
    /\ N \in Nat /\ N >= 2
    /\ Zero \in Numbers /\ Indefinite \notin Numbers /\ Empty \notin Values
    /\ Unary \subseteq [Values -> Values]
    /\ Binary \subseteq [Values \X Values -> Values]
    /\ \A a, b \in Values : Less(a, b) \in BOOLEAN

VARIABLES
    insn,    \* the instruction translated and executed last
    x,       \* TOP, the tags (which registers are in use), the doubles
    c1, cc,  \* the condition bits of the status word
    out      \* what was written last to memory, or to ZF, PF and CF

vars == <<insn, x, c1, cc, out>>

Codes == [c0 : BOOLEAN, c2 : BOOLEAN, c3 : BOOLEAN]
Code(a, b, c) == [c0 |-> a, c2 |-> b, c3 |-> c]
Clear == Code(FALSE, FALSE, FALSE)

\* Two indices are added modulo the number of registers.
Wrap(k) == IF k >= N THEN k - N ELSE k
Reg(s, i) == Wrap(s.top + i)

Get(s, i) == s.slot[Reg(s, i)]
Set(s, i, v) == [s EXCEPT !.slot[Reg(s, i)] = v]
Tag(s, i) == s.used[Reg(s, i)]
SetTag(s, i, u) == [s EXCEPT !.used[Reg(s, i)] = u]
\* Mutant: the sum is not cut to three bits.
MoveUncut(s, d) == [s EXCEPT !.top = s.top + d]
Move(s, d) == [s EXCEPT !.top = Wrap(s.top + d)]

\* A push looks at the tag of ST(7), fills that register, and moves TOP last.
Overflow(s) == Tag(s, N - 1)
Push(s, v) ==
    Move(Set(SetTag(s, N - 1, TRUE), N - 1, IF Overflow(s) THEN Indefinite ELSE v), N - 1)
Pop(s) == Move(SetTag(s, 0, FALSE), 1)
PopIf(s, pop) == IF pop THEN Pop(s) ELSE s

\* The CPU state is malloc'ed and the status word not initialised: TOP and the
\* condition bits are arbitrary.  The registers are fresh pages.
Init == /\ insn = <<"fninit">>
        /\ \E t \in Idx : x = [top |-> t, used |-> [r \in Idx |-> FALSE],
                             slot |-> [r \in Idx |-> Zero]]
        /\ c1 \in BOOLEAN /\ cc \in Codes /\ out = Zero

Is(i) == insn' = i
Keep == UNCHANGED <<cc, out>>

\* The guest does not read empty registers, which the code does not detect; and
\* it stores into occupied ones, as FST ST(i) leaves the tag of ST(i) alone.
Reads(I) == \A i \in I : Tag(x, i)

\* FLD m, FILD, and the constants; the value is computed by the push.
Load(v) == /\ x' = Push(x, v) /\ c1' = Overflow(x) /\ Keep
Fld == \E v \in Values : Is(<<"fld", v>>) /\ Load(v)
FldReg == \E i \in Idx : Is(<<"fld st", i>>) /\ Reads({i}) /\ Load(Get(x, i))

\* FST, FSTP, FIST and FISTP to memory, with a conversion; the integer ones
\* also clear C1.
Fst == \E pop \in BOOLEAN, f \in Unary :
          /\ Is(<<"fst", pop, f>>) /\ Reads({0})
          /\ out' = f[Get(x, 0)] /\ x' = PopIf(x, pop)
          /\ c1' \in {c1, FALSE} /\ cc' = cc
\* The operand is a register, not an immediate: the branch that would copy the
\* tag is dead.
FstReg == \E pop \in BOOLEAN, i \in Idx :
             /\ Is(<<"fst st", pop, i>>) /\ Reads({0, i})
             /\ x' = PopIf(Set(x, i, Get(x, 0)), pop)
             /\ c1' = c1 /\ Keep

\* ST(0) and its tag are kept in local variables.
Fxch == \E i \in Idx :
           LET values == Set(Set(x, 0, Get(x, i)), i, Get(x, 0))
           IN  /\ Is(<<"fxch", i>>) /\ Reads({0, i})
               /\ x' = SetTag(SetTag(values, 0, Tag(x, i)), i, Tag(x, 0))
               /\ c1' = FALSE /\ Keep

Fcmov == \E i \in Idx, cond \in BOOLEAN :
            LET moved == Set(x, 0, IF cond THEN Get(x, i) ELSE Get(x, 0))
            IN  /\ Is(<<"fcmov", i, cond>>) /\ Reads({0, i})
                /\ x' = SetTag(moved, 0, IF cond THEN Tag(moved, i) ELSE Tag(moved, 0))
                /\ c1' = c1 /\ Keep

\* FADD and its kin: the second operand is converted memory or a register.
Computed(i, v) == SetTag(Set(x, i, v), i, TRUE)
Arith == \E f \in Binary, v \in Values :
            /\ Is(<<"arith", f, v>>) /\ Reads({0})
            /\ x' = Computed(0, f[<<Get(x, 0), v>>]) /\ c1' = c1 /\ Keep
ArithReg == \E f \in Binary, i, j \in Idx, pop \in BOOLEAN :
               /\ Is(<<"arith st", f, i, j, pop>>) /\ 0 \in {i, j} /\ Reads({i, j})
               /\ x' = PopIf(Computed(i, f[<<Get(x, i), Get(x, j)>>]), pop)
               /\ c1' = c1 /\ Keep
\* FABS and FCHS clear C1; FRNDINT and FSQRT leave it alone.
Fun1 == \E f \in Unary : /\ Is(<<"fun1", f>>) /\ Reads({0})
                         /\ x' = Set(x, 0, f[Get(x, 0)])
                         /\ c1' \in {c1, FALSE} /\ Keep
\* FPREM, FPREM1, FSCALE
Fun2 == \E f \in Binary : /\ Is(<<"fun2", f>>) /\ Reads({0, 1})
                          /\ x' = Set(x, 0, f[<<Get(x, 0), Get(x, 1)>>])
                          /\ c1' = c1 /\ Keep
\* The exponent needs ST(0) before it is overwritten, and the significand reuses it.
Fxtract == \E f, g \in Unary :
              LET s == Set(x, 0, f[Get(x, 0)])
              IN  /\ Is(<<"fxtract", f, g>>) /\ Reads({0})
                  /\ x' = Push(s, g[Get(x, 0)]) /\ c1' = Overflow(s) /\ Keep

\* Comparisons with a NaN find neither less nor equal.
Ordered(a, b) == Indefinite \notin {a, b}
Greater(a, b) == Ordered(a, b) /\ Less(b, a)
Equal(a, b) == Ordered(a, b) /\ a = b
Compared(a, b) == Code(Greater(b, a), FALSE, Equal(b, a))

Fcom == \E v \in Values, pop \in BOOLEAN :
           /\ Is(<<"fcom", v, pop>>) /\ Reads({0})
           /\ cc' = Compared(Get(x, 0), v) /\ c1' = FALSE
           /\ x' = PopIf(x, pop) /\ out' = out
FcomReg == \E i \in Idx, pops \in 0 .. 2 :
              /\ Is(<<"fcom st", i, pops>>) /\ Reads({0, i})
              /\ cc' = Compared(Get(x, 0), Get(x, i)) /\ c1' = FALSE
              /\ x' = PopIf(PopIf(x, pops >= 1), pops = 2) /\ out' = out
\* Carry, parity and zero flag take the places of C0, C2 and C3.
Fcomi == \E i \in Idx, pop \in BOOLEAN :
            /\ Is(<<"fcomi", i, pop>>) /\ Reads({0, i})
            /\ out' = Compared(Get(x, 0), Get(x, i))
            /\ x' = PopIf(x, pop) /\ c1' = c1 /\ cc' = cc
\* The sign is that of the register's contents, empty or not.
Fxam == /\ Is(<<"fxam">>)
        /\ LET v == Get(x, 0)
               number == IF v = Zero THEN Code(FALSE, FALSE, TRUE) ELSE Code(FALSE, TRUE, FALSE)
               nan == IF v = Indefinite THEN Code(TRUE, FALSE, FALSE) ELSE number
           IN  /\ cc' = IF Tag(x, 0) THEN nan ELSE Code(TRUE, FALSE, TRUE)
               /\ c1' = (v \in Negative)
        /\ UNCHANGED <<x, out>>

\* The call is an action: it has its operand before the pop.
ClearC2 == cc' = [cc EXCEPT !.c2 = FALSE]
Fsin == \E f \in Unary :
           LET res == f[Get(x, 0)]
               s == Pop(x)
           IN  /\ Is(<<"fsin", f>>) /\ Reads({0})
               /\ x' = Push(s, res) /\ c1' = Overflow(s) /\ ClearC2 /\ out' = out
\* FSINCOS, and FPTAN, whose second result is always one.
Fsincos == \E f, g \in Unary :
              LET s == Pop(x)
                  t == Push(s, f[Get(x, 0)])
              IN  /\ Is(<<"fsincos", f, g>>) /\ Reads({0})
                  /\ x' = Push(t, g[Get(x, 0)]) /\ c1' = Overflow(t)
                  /\ ClearC2 /\ out' = out
F2xm1 == \E f \in Unary :
            LET res == f[Get(x, 0)]
                s == Pop(x)
            IN  /\ Is(<<"f2xm1", f>>) /\ Reads({0})
                /\ x' = Push(s, res) /\ c1' = Overflow(s) /\ Keep
\* Mutant: both pops come before the operands are read.
FpatanLate == \E f \in Binary :
                 LET s == Pop(Pop(x))
                     res == f[<<Get(s, 0), Get(s, N - 1)>>]
                 IN  /\ Is(<<"fpatan", f>>) /\ Reads({0, 1})
                     /\ x' = Push(s, res) /\ c1' = Overflow(s) /\ Keep
\* ST(0) is popped first and read as ST(7); the quotient is the call's operand.
Fpatan == \E f \in Binary :
             LET s == Pop(x)
                 res == f[<<Get(s, 0), Get(s, N - 1)>>]
                 t == Pop(s)
             IN  /\ Is(<<"fpatan", f>>) /\ Reads({0, 1})
                 /\ x' = Push(t, res) /\ c1' = Overflow(t) /\ Keep
\* The logarithm is a call, made before the second pop; the product is a value,
\* and its other operand is read when the push needs it, after that pop.
Fyl2x == \E f \in Binary :
            LET s == Pop(x)
                t == Pop(s)
                log == Get(s, N - 1)
                res == f[<<Get(t, 0), log>>]
            IN  /\ Is(<<"fyl2x", f>>) /\ Reads({0, 1})
                /\ x' = Push(t, res) /\ c1' = Overflow(t) /\ Keep

Fincstp == Is(<<"fincstp">>) /\ x' = Move(x, 1) /\ c1' = FALSE /\ Keep
Fdecstp == Is(<<"fdecstp">>) /\ x' = Move(x, N - 1) /\ c1' = FALSE /\ Keep
Ffree == \E i \in Idx : Is(<<"ffree", i>>) /\ x' = SetTag(x, i, FALSE) /\ c1' = c1 /\ Keep
Fninit == /\ Is(<<"fninit">>)
          /\ x' = [x EXCEPT !.top = 0, !.used = [r \in Idx |-> FALSE]]
          /\ c1' = FALSE /\ cc' = Clear /\ out' = out

Next == \/ Fld \/ FldReg \/ Fst \/ FstReg \/ Fxch \/ Fcmov
        \/ Arith \/ ArithReg \/ Fun1 \/ Fun2 \/ Fxtract
        \/ Fcom \/ FcomReg \/ Fcomi \/ Fxam
        \/ Fsin \/ Fsincos \/ F2xm1 \/ Fpatan \/ Fyl2x
        \/ Fincstp \/ Fdecstp \/ Ffree \/ Fninit

Spec == Init /\ [][Next]_vars

----------------------------------------------------------------------------

\* The registers as the guest sees them.
Seen(s) == [i \in Idx |-> IF Tag(s, i) THEN Get(s, i) ELSE Empty]
st == Seen(x)

Promised == INSTANCE FpuStack

\* Every instruction does to the registers, the condition bits and what it
\* stores what the manual's stack says, wherever TOP is and in whatever order
\* the translated instruction reads and writes (fpu_push, fpu_pop, fpu.cpp).
StackRefined == Promised!Spec

States == [top : Idx, used : [Idx -> BOOLEAN], slot : [Idx -> Values]]

\* TypeOK: no instruction moves TOP or writes outside the eight registers, and
\* every register holds a number (fpu_stack_index_move, fpu_compute_stack_index).
TypeOK == /\ x \in States
          /\ c1 \in BOOLEAN /\ cc \in Codes
          /\ out \in Values \cup Codes
=============================================================================
