----------------------------- MODULE FpuStack ------------------------------
(* What an x87 unit promises: registers named from the top of a stack, where *)
(* an instruction reads all its operands before it changes anything.  The    *)
(* unit's own notions (TOP, the tag word, the place of a register) do not    *)
(* occur.  Floating-point numbers are the members of an arbitrary set.       *)
EXTENDS Naturals

CONSTANTS
    N,            \* the number of registers
    Numbers,      \* the numbers
    Zero,         \* one of them
    Indefinite,   \* the quiet NaN that answers an overflow of the stack
    Empty,        \* what a register holds that nothing was pushed into
    Negative,     \* the values with a sign
    Less(_, _),   \* the order of numbers
    Unary,        \* functions of one value that instructions compute
    Binary,       \* and of two
    LogExact      \* whether FYL2X has to compute with its own operands

Values == Numbers \cup {Indefinite}
Idx == 0 .. N - 1

VARIABLES
    insn,   \* the instruction executed last, with its operands
    st,     \* ST(0), ST(1), ...
    c1,     \* condition bits: C1, and the others, which comparisons set
    cc,
    out     \* what the guest was answered last, in memory or in its flags

vars == <<insn, st, c1, cc, out>>

Codes == [c0 : BOOLEAN, c2 : BOOLEAN, c3 : BOOLEAN]
Code(c0, c2, c3) == [c0 |-> c0, c2 |-> c2, c3 |-> c3]
Clear == Code(FALSE, FALSE, FALSE)

Full(i) == st[i] # Empty

\* A push moves every register down; on a full stack it destroys the deepest.
Overflow(s) == s[N - 1] # Empty
Push(s, v) == [i \in Idx |-> IF i # 0 THEN s[i - 1] ELSE IF Overflow(s) THEN Indefinite ELSE v]
Pop(s) == [i \in Idx |-> IF i = N - 1 THEN Empty ELSE s[i + 1]]
PopIf(s, pop) == IF pop THEN Pop(s) ELSE s

Init == /\ insn = <<"fninit">>
        /\ st = [i \in Idx |-> Empty]
        /\ c1 \in BOOLEAN /\ cc \in Codes /\ out = Zero

Is(i) == insn' = i
Keep == UNCHANGED <<cc, out>>

\* 5.2.1: loads, stores, exchange, conditional move
Load(v) == /\ st' = Push(st, v) /\ c1' = Overflow(st) /\ Keep

Fld == \E v \in Values : Is(<<"fld", v>>) /\ Load(v)
FldReg == \E i \in Idx : Is(<<"fld st", i>>) /\ Full(i) /\ Load(st[i])

Fst == \E pop \in BOOLEAN, f \in Unary :
          /\ Is(<<"fst", pop, f>>) /\ Full(0)
          /\ out' = f[st[0]] /\ st' = PopIf(st, pop) /\ c1' \in BOOLEAN /\ cc' = cc
FstReg == \E pop \in BOOLEAN, i \in Idx :
             /\ Is(<<"fst st", pop, i>>) /\ Full(0) /\ Full(i)
             /\ st' = PopIf([st EXCEPT ![i] = st[0]], pop)
             /\ c1' \in BOOLEAN /\ Keep
Fxch == \E i \in Idx : /\ Is(<<"fxch", i>>) /\ Full(0) /\ Full(i)
                       /\ st' = [st EXCEPT ![0] = st[i], ![i] = st[0]]
                       /\ c1' = FALSE /\ Keep
Fcmov == \E i \in Idx, cond \in BOOLEAN :
            /\ Is(<<"fcmov", i, cond>>) /\ Full(0) /\ Full(i)
            /\ st' = [st EXCEPT ![0] = IF cond THEN st[i] ELSE st[0]]
            /\ c1' \in BOOLEAN /\ Keep

\* 5.2.2: arithmetic, with a value from memory or between ST(0) and ST(i)
Arith == \E f \in Binary, v \in Values :
            /\ Is(<<"arith", f, v>>) /\ Full(0)
            /\ st' = [st EXCEPT ![0] = f[<<st[0], v>>]] /\ c1' \in BOOLEAN /\ Keep
ArithReg == \E f \in Binary, i, j \in Idx, pop \in BOOLEAN :
               /\ Is(<<"arith st", f, i, j, pop>>) /\ 0 \in {i, j} /\ Full(i) /\ Full(j)
               /\ st' = PopIf([st EXCEPT ![i] = f[<<st[i], st[j]>>]], pop)
               /\ c1' \in BOOLEAN /\ Keep
Fun1 == \E f \in Unary : /\ Is(<<"fun1", f>>) /\ Full(0)
                         /\ st' = [st EXCEPT ![0] = f[st[0]]]
                         /\ c1' \in BOOLEAN /\ Keep
Fun2 == \E f \in Binary : /\ Is(<<"fun2", f>>) /\ Full(0) /\ Full(1)
                          /\ st' = [st EXCEPT ![0] = f[<<st[0], st[1]>>]]
                          /\ c1' \in BOOLEAN /\ Keep
Fxtract == \E f, g \in Unary :
              /\ Is(<<"fxtract", f, g>>) /\ Full(0)
              /\ st' = Push([st EXCEPT ![0] = f[st[0]]], g[st[0]])
              /\ c1' = Overflow(st) /\ Keep

\* 5.2.3: comparisons; one with a NaN may answer anything
Compared(a, b, yes) == Indefinite \in {a, b} \/ yes = Code(Less(a, b), FALSE, a = b)

Fcom == \E v \in Values, pop \in BOOLEAN :
           /\ Is(<<"fcom", v, pop>>) /\ Full(0)
           /\ cc' \in Codes /\ Compared(st[0], v, cc')
           /\ st' = PopIf(st, pop) /\ c1' = FALSE /\ out' = out
FcomReg == \E i \in Idx, pops \in 0 .. 2 :
              /\ Is(<<"fcom st", i, pops>>) /\ Full(0) /\ Full(i)
              /\ cc' \in Codes /\ Compared(st[0], st[i], cc')
              /\ st' = PopIf(PopIf(st, pops >= 1), pops = 2)
              /\ c1' = FALSE /\ out' = out
Fcomi == \E i \in Idx, pop \in BOOLEAN :
            /\ Is(<<"fcomi", i, pop>>) /\ Full(0) /\ Full(i)
            /\ out' \in Codes /\ Compared(st[0], st[i], out')
            /\ st' = PopIf(st, pop) /\ c1' \in BOOLEAN /\ cc' = cc
Fxam == /\ Is(<<"fxam">>)
        /\ cc' = CASE st[0] = Empty -> Code(TRUE, FALSE, TRUE)
                   [] st[0] = Indefinite -> Code(TRUE, FALSE, FALSE)
                   [] st[0] = Zero -> Code(FALSE, FALSE, TRUE)
                   [] OTHER -> Code(FALSE, TRUE, FALSE)
        /\ Full(0) => c1' = (st[0] \in Negative)
        /\ c1' \in BOOLEAN /\ UNCHANGED <<st, out>>

\* 5.2.4: transcendental functions
Fsin == \E f \in Unary :
           /\ Is(<<"fsin", f>>) /\ Full(0)
           /\ st' = [st EXCEPT ![0] = f[st[0]]]
           /\ c1' = FALSE /\ cc' = [cc EXCEPT !.c2 = FALSE] /\ out' = out
Fsincos == \E f, g \in Unary :
              /\ Is(<<"fsincos", f, g>>) /\ Full(0)
              /\ st' = Push([st EXCEPT ![0] = f[st[0]]], g[st[0]])
              /\ c1' = Overflow(st) /\ cc' = [cc EXCEPT !.c2 = FALSE] /\ out' = out
F2xm1 == \E f \in Unary :
            /\ Is(<<"f2xm1", f>>) /\ Full(0)
            /\ st' = [st EXCEPT ![0] = f[st[0]]] /\ c1' = FALSE /\ Keep
Fpatan == \E f \in Binary :
             /\ Is(<<"fpatan", f>>) /\ Full(0) /\ Full(1)
             /\ st' = [Pop(st) EXCEPT ![0] = f[<<st[1], st[0]>>]]
             /\ c1' = FALSE /\ Keep
Fyl2x == \E f \in Binary, v \in Values :
            /\ Is(<<"fyl2x", f>>) /\ Full(0) /\ Full(1)
            /\ LogExact => v = f[<<st[1], st[0]>>]
            /\ st' = [Pop(st) EXCEPT ![0] = v]
            /\ c1' = FALSE /\ Keep

\* 5.2.6: control
Fincstp == /\ Is(<<"fincstp">>) /\ c1' = FALSE /\ Keep
           /\ st' = [i \in Idx |-> IF i = N - 1 THEN st[0] ELSE st[i + 1]]
Fdecstp == /\ Is(<<"fdecstp">>) /\ c1' = FALSE /\ Keep
           /\ st' = [i \in Idx |-> IF i = 0 THEN st[N - 1] ELSE st[i - 1]]
Ffree == \E i \in Idx : /\ Is(<<"ffree", i>>)
                        /\ st' = [st EXCEPT ![i] = Empty] /\ c1' \in BOOLEAN /\ Keep
Fninit == /\ Is(<<"fninit">>)
          /\ st' = [i \in Idx |-> Empty]
          /\ c1' = FALSE /\ cc' = Clear /\ out' = out

Next == \/ Fld \/ FldReg \/ Fst \/ FstReg \/ Fxch \/ Fcmov
        \/ Arith \/ ArithReg \/ Fun1 \/ Fun2 \/ Fxtract
        \/ Fcom \/ FcomReg \/ Fcomi \/ Fxam
        \/ Fsin \/ Fsincos \/ F2xm1 \/ Fpatan \/ Fyl2x
        \/ Fincstp \/ Fdecstp \/ Ffree \/ Fninit

Spec == Init /\ [][Next]_vars
=============================================================================
