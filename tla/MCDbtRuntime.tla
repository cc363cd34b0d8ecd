---------------------------- MODULE MCDbtRuntime ----------------------------
(* Guest programs for TLC.  A program is a list of blocks                    *)
(*   <<kind, taken, next, indirect targets>>                                 *)
(* whose addresses are their positions in the list.                          *)
EXTENDS DbtRuntime, TLC

Kinds_(prog)  == [p \in DOMAIN prog |-> prog[p][1]]
Takens_(prog) == [p \in DOMAIN prog |-> prog[p][2]]
Nexts_(prog)  == [p \in DOMAIN prog |-> prog[p][3]]
Dyns_(prog)   == [p \in DOMAIN prog |-> prog[p][4]]

(* Block 15, where the program starts, is a static function that jumps to    *)
(* one of two parts.                                                         *)
(* 1 .. 14: two threads in and out of static functions, which chain the same *)
(* unconditional jumps.  The function at 1 starts the second thread, which   *)
(* goes on in translated code; the one at 5 is called from translated code   *)
(* and jumps back into it, the one at 7 is called directly, makes a system   *)
(* call and calls translated code.                                           *)
(* 16 .. 29: chaining in one thread: loops and conditional exits that get    *)
(* patched one side after the other, a static function between translated    *)
(* ones, and an arena that is too small for all blocks and too large for all *)
(* jumps.                                                                    *)
Hybrid ==
    << <<"clone", 1, 14, {}>>,        \* 1: static; the child goes on at 14
       <<"ijmp", 2, 2, {5, 3, 11}>>,  \* 2: also a tail jump into static code
       <<"icall", 3, 4, {5, 9}>>,     \* 3
       <<"sys", 4, 10, {}>>,          \* 4
       <<"csel", 6, 11, {}>>,         \* 5: static; 11 is another function's
       <<"call", 7, 12, {}>>,         \* 6
       <<"sys", 7, 8, {}>>,           \* 7: static
       <<"icall", 8, 13, {9}>>,       \* 8
       <<"ret", 9, 9, {}>>,           \* 9: translated leaf
       <<"exit", 10, 10, {}>>,        \* 10
       <<"br", 9, 11, {}>>,           \* 11: translated
       <<"ret", 12, 12, {}>>,         \* 12: end of 5
       <<"ret", 13, 13, {}>>,         \* 13: end of 7
       <<"br", 2, 14, {}>>,           \* 14: end of 1, and translated
       <<"csel", 1, 16, {}>>,         \* 15: static
       <<"csel", 17, 18, {}>>,        \* 16
       <<"br", 16, 17, {}>>,          \* 17
       <<"call", 21, 19, {}>>,        \* 18
       <<"csel", 16, 20, {}>>,        \* 19
       <<"ijmp", 20, 20, {16, 26, 27, 29}>>, \* 20
       <<"icall", 21, 22, {23}>>,     \* 21: static
       <<"ret", 22, 22, {}>>,         \* 22: end of 21
       <<"csel", 24, 25, {}>>,        \* 23
       <<"br", 25, 24, {}>>,          \* 24
       <<"ret", 25, 25, {}>>,         \* 25
       <<"unsup", 26, 26, {}>>,       \* 26
       <<"call", 28, 27, {}>>,        \* 27
       <<"poison", 28, 28, {}>>,      \* 28: static
       <<"exitgroup", 29, 29, {}>> >> \* 29
HybridPCs == DOMAIN Hybrid
HybridKind == Kinds_(Hybrid)
HybridTaken == Takens_(Hybrid)
HybridNext == Nexts_(Hybrid)
HybridDyn == Dyns_(Hybrid)
HybridStatic == {1, 5, 7, 15, 21, 28}
HybridChunk == (1 :> {1, 14}) @@ (5 :> {5, 6, 12}) @@ (7 :> {7, 8, 13})
               @@ (15 :> {15}) @@ (21 :> {21, 22}) @@ (28 :> {28})

(* A translated function, 2, that ends in a jump into a static one, 3, which *)
(* returns to the continuation, 4, of the call in 1.                         *)
TailJump ==
    << <<"call", 2, 4, {}>>,          \* 1
       <<"br", 3, 2, {}>>,            \* 2
       <<"ret", 3, 3, {}>>,           \* 3: static
       <<"exit", 4, 4, {}>> >>        \* 4
TailJumpPCs == DOMAIN TailJump
TailJumpKind == Kinds_(TailJump)
TailJumpTaken == Takens_(TailJump)
TailJumpNext == Nexts_(TailJump)
TailJumpDyn == Dyns_(TailJump)
TailJumpStatic == {3}
TailJumpChunk == 3 :> {3}

(* Two threads that leave the same conditional exit on its first execution.  *)
Race ==
    << <<"clone", 1, 2, {}>>,         \* 1
       <<"csel", 3, 4, {}>>,          \* 2
       <<"exit", 3, 3, {}>>,          \* 3
       <<"exit", 4, 4, {}>> >>        \* 4
RacePCs == DOMAIN Race
RaceKind == Kinds_(Race)
RaceTaken == Takens_(Race)
RaceNext == Nexts_(Race)
RaceDyn == Dyns_(Race)

(* Translations are laid out in the order of their numbers; jumps reach all  *)
(* of them, or only those less than a distance away.                         *)
Far(d) == {p \in Tx \X Tx : p[1] - p[2] >= d \/ p[2] - p[1] >= d}
Near == {}
FarSeven == Far(7)

NoStatic == {}
NoChunk == [f \in {} |-> {}]
=============================================================================
