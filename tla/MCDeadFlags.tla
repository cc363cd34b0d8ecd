----------------------------- MODULE MCDeadFlags ------------------------------
(***************************************************************************)
(* Every chunk of up to three packets of up to two actions over one flag,  *)
(* of up to two packets of up to three actions over one flag, and of up to *)
(* three packets of one action over two flags.                             *)
(***************************************************************************)
EXTENDS DeadFlags

UpTo(S, n) == UNION {[1 .. k -> S] : k \in 0 .. n}
Over(F) == [w : F \cup {None}, r : SUBSET F]

OverOne(n) == {p \in UpTo(Over({"ZF"}), n) : ReadsFirst(p)}

MCChunks ==
    UpTo(OverOne(2), 3)
      \cup UpTo(OverOne(3), 2)
      \cup UpTo(UpTo(Over({"ZF", "CF"}), 1), 3)

NoTargets(c, k) == {}

\* cmp; je L; cmp; L: jb  -  the flag that jb reads is that of the first
\* comparison when je is taken, and of the second one otherwise.
A(w, r) == [w |-> w, r |-> r]
Compare == <<A("ZF", {}), A("CF", {})>>
Skipping == {<<Compare, <<A(None, {"ZF"})>>, Compare, <<A(None, {"CF"})>>>>,
             <<Compare, <<A(None, {"CF"})>>, Compare, <<A(None, {"CF"})>>>>}
\* The second instruction jumps over the third.
OverTheThird(c, k) == IF k = 2 /\ Len(c) > 2 THEN {4} ELSE {}

===============================================================================
