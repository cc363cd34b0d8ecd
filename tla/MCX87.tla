------------------------------- MODULE MCX87 -------------------------------
EXTENDS X87, TLC

CONSTANTS zero, one, qnan

LessMC(a, b) == a = zero /\ b = one

\* A function that is not the identity, and the constant one (of FPTAN).
UnaryMC == {(zero :> one) @@ (one :> zero) @@ (qnan :> qnan), [v \in Values |-> one]}

\* Not commutative: the wrong operand or the wrong order shows.
BinaryMC == {[p \in Values \X Values |->
                 IF qnan \in {p[1], p[2]} THEN qnan
                 ELSE IF p = <<one, zero>> THEN one ELSE zero]}

\* The instruction and its answers do not decide what comes next.
View == x
=============================================================================
