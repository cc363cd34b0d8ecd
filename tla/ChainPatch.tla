----------------------------- MODULE ChainPatch -----------------------------
(* How riscv64_translation_context::chain() rewrites the exit of a translated *)
(* block.  The exit emitted by materialise_write_pc for a jump to constant   *)
(* addresses is modelled half-word by half-word, since chain() decodes, over- *)
(* writes and moves compressed (one half-word) and full-size (two half-words) *)
(* instructions in place.  One thread executes the exit, an instruction at a *)
(* time, and leaves it by either side in any order; each time it returns to  *)
(* the dispatcher, chain() is given the address found in A1.                 *)
(*                                                                           *)
(* All offsets are in half-words, relative to the first AUIPC of the exit.   *)
EXTENDS Integers

CONSTANTS
    Loads,          \* for each side, how the load of its address may be encoded
    Distances,      \* for each side, where the block it leads to may lie
    DistancesBig    \* ... that of the false side, after a full-size branch

\* The sides are named for the operands of the conditional value (csel_node).
Side == {"trueval", "falseval"}

\* gen_constant emits up to eight instructions, and at least one: no block
\* lies at address 0.  A load has a length in half-words, some of which are the
\* second ones of full-size instructions.
LoadAssumption ==
    /\ DOMAIN Loads = Side
    /\ \A s \in Side : \A h \in Loads[s] :
          /\ h = [len |-> h.len, seconds |-> h.seconds]
          /\ h.len \in 1 .. 16 /\ h.seconds \subseteq 2 .. h.len
          /\ \A i \in h.seconds : i + 1 \notin h.seconds

DistanceAssumption ==
    /\ DOMAIN Distances = Side
    /\ \A s \in Side : Distances[s] \subseteq Int
    /\ DistancesBig \subseteq Int

ASSUME ChainAssumption == LoadAssumption /\ DistanceAssumption

VARIABLES
    code,     \* half-words of the exit and around it
    layout,   \* how it was emitted, and where the blocks it leads to are
    failed,   \* chain() has thrown
    chained,  \* the sides that chain() has patched
    at, side, a1, reg, pc   \* the thread: its position, the value of the
              \* condition, A1, the register an address is loaded to (what has
              \* been loaded of which side's), and the guest's PC

patched == <<code, failed, chained>>
vars == <<patched, layout, at, side, a1, reg, pc>>

-----------------------------------------------------------------------------
(* Instructions (the riscv64 Assembler) *)

\* What the assembler accepts as offsets: half of what the instructions encode.
IsCBImm(off) == -64 <= off /\ off < 64
IsCJImm(off) == -512 <= off /\ off < 512
IsBTypeImm(off) == -1024 <= off /\ off < 1024
IsJTypeImm(off) == -262144 <= off /\ off < 262144

Ins(op, arg, size) == [op |-> op, arg |-> arg, size |-> size]

\* A half-word of the code: the first or the second one of an instruction.
Half(i, part) == [ins |-> i, part |-> part]

\* EncodeJTypeImm keeps 21 bits of the byte offset, EncodeITypeImm 12.
JBits(off) == ((off + 524288) % 1048576) - 524288
IBits(off) == ((off + 1024) % 2048) - 1024

\* Of one half-word if they can be compressed, which for a branch also depends
\* on its register (least: the size of a branch on it that goes nowhere far).
Jump(off) == Ins("j", JBits(off), IF IsCJImm(off) THEN 1 ELSE 2)
JumpReg(off) == Ins("jr", IBits(off), IF off = 0 THEN 1 ELSE 2)
Branch(op, off, least) == Ins(op, off, IF IsCBImm(off) THEN least ELSE 2)
Auipc(off) == Ins("auipc", off, 2)
Nop(size) == Ins("nop", 0, size)

\* (mutant) the branch is not inverted
InverseSame(op) == op

Inverse(op) == IF op = "beqz" THEN "bnez" ELSE "beqz"

Put(m, p, i) ==
    [q \in DOMAIN m |-> IF q = p THEN Half(i, 1)
                        ELSE IF i.size = 2 /\ q = p + 1 THEN Half(i, 2)
                        ELSE m[q]]

\* An assembler: the code and the position it writes next.
Assembler(m, p) == [m |-> m, p |-> p]
Emit(ass, i) == Assembler(Put(ass.m, ass.p, i), ass.p + i.size)

\* Align(4): a compressed NOP if the position is not a multiple of 4 bytes.
Align(ass, odd) == IF (ass.p + odd) % 2 = 1 THEN Emit(ass, Nop(1)) ELSE ass

\* AUIPC + JR; the low part of the offset is sign-extended.
Lo(off) == ((off + 1024) % 2048) - 1024
LongJump(ass, off) == Emit(Emit(ass, Auipc(off - Lo(off))), JumpReg(Lo(off)))

-----------------------------------------------------------------------------
(* The exit as emitted *)

Sides(l) == IF l.cond THEN Side ELSE {"trueval"}

\* The next multiple of 4 bytes, where labels are bound.
Up(l, p) == p + ((p + l.odd) % 2)

\* Where the true side starts, with its AUIPC, and where its store ends; where
\* the false side starts and ends, and the end of the block.
TrueAt(l) == IF l.cond THEN Up(l, 2 + l.branch) ELSE 0
TrueEnd(l) == TrueAt(l) + 2 + l.load.trueval.len + l.sd.trueval
FalseAt(l) == Up(l, TrueEnd(l) + 1)
FalseEnd(l) == FalseAt(l) + l.load.falseval.len + l.sd.falseval
End(l) == IF l.cond THEN Up(l, FalseEnd(l)) ELSE TrueEnd(l)

\* Two half-words of the code around the exit are in the picture.
First == -2
Last(l) == End(l) + 1

SideNumber(s) == IF s = "trueval" THEN 1 ELSE 0

\* Half-word k of the code that stores the address of side s to the PC.
StorePc(l, s, k) ==
    LET h == l.load[s] IN
    IF k <= h.len
      THEN Half(Ins("li", SideNumber(s),
                    IF k \in h.seconds \/ k + 1 \in h.seconds THEN 2 ELSE 1),
                IF k \in h.seconds THEN 2 ELSE 1)
      ELSE Half(Ins("sd", 0, l.sd[s]), k - h.len)

Emitted(l) ==
    [p \in First .. Last(l) |->
        CASE p < 0       -> Half(Ins("sd", 0, 2), p - First + 1)
          [] p \in {0, 1} -> Half(Auipc(0), p + 1)
          [] p >= End(l) -> Half(Ins("rest", 0, 1), 1)
          [] p \in TrueAt(l) + 2 .. TrueEnd(l) - 1 ->
                StorePc(l, "trueval", p - TrueAt(l) - 1)
          [] l.cond /\ p \in 2 .. 1 + l.branch ->
                Half(Ins("beqz", FalseAt(l) - 2, l.branch), p - 1)
          [] l.cond /\ p \in {TrueAt(l), TrueAt(l) + 1} ->
                Half(Auipc(0), p - TrueAt(l) + 1)
          [] l.cond /\ p = TrueEnd(l) -> Half(Ins("j", End(l) - p, 1), 1)
          [] l.cond /\ p \in FalseAt(l) .. FalseEnd(l) - 1 ->
                StorePc(l, "falseval", p - FalseAt(l) + 1)
          [] OTHER       -> Half(Nop(1), 1)]

-----------------------------------------------------------------------------
(* chain() *)

\* (mutant) a moved jump keeps its offset
ReemitUnadjusted(u) == IF u.op = "j" THEN Jump(u.arg) ELSE JumpReg(u.arg)

\* A jump that has been moved by two half-words.
Reemit(u) == IF u.op = "j" THEN Jump(u.arg - 2) ELSE JumpReg(u.arg - 2)

Terminates(u) == u.part = 1 /\ u.ins.op \in {"j", "jr"}

\* The first jump from src on.
Terminator(m, src) ==
    CHOOSE t \in DOMAIN m : /\ t >= src /\ Terminates(m[t])
                            /\ \A q \in src .. t - 1 : ~Terminates(m[q])

\* Moves words (two half-words) from src on by one word, up to the word with the
\* jump, which is emitted again.
Move(m, src) ==
    LET t == Terminator(m, src)
        top == t + 2 + (IF (t - src) % 2 = 0 THEN 1 ELSE 0)
    IN  Put([q \in DOMAIN m |-> IF q \in src + 2 .. top THEN m[q - 2] ELSE m[q]],
            t + 2, Reemit(m[t].ins))

\* The instruction after the AUIPC is a branch: the not-taken side.
PatchBranch(m, odd, p, to) ==
    LET f == m[p + 2].ins
        off == to - (p + f.size)
        long == f.size = 1 /\ ~IsJTypeImm(off)
        body == IF ~long THEN Emit(Assembler(m, p + f.size), Jump(off))
                ELSE LET jr == LongJump(Assembler(Move(m, p + 3), p + f.size), off)
                     IN  IF Lo(off) = 0 THEN Emit(jr, Nop(1)) ELSE jr
        end == Align(body, odd)
        near == Branch(f.op, to - p, f.size)
        nop == Nop(IF f.size = 1 /\ ~IsCBImm(to - p) THEN 1 ELSE 2)
    IN  IF IsBTypeImm(to - p)
          THEN Emit(Emit(Assembler(m, p), near), nop).m
          ELSE Put(end.m, p, Ins(Inverse(f.op), end.p - p, f.size))

\* (mutant) the word before is overwritten whatever it is
JumpAtBefore(m, p) == p - 2

\* It is not: a plain jump, in place of a NOP before the AUIPC if there is one.
JumpAt(m, p) == IF m[p - 2] = Half(Nop(2), 1) THEN p - 2 ELSE p

PatchJump(m, p, to) ==
    LET ass == Assembler(m, JumpAt(m, p))
        off == to - ass.p
    IN  IF IsJTypeImm(off) THEN Emit(ass, Jump(off)).m ELSE LongJump(ass, off).m

IsBranch(m, p) == m[p + 2].ins.op \in {"beqz", "bnez"}

Throws(m, p, to) == /\ ~IsBranch(m, p) /\ m[p + 2].ins.size = 1
                    /\ ~IsJTypeImm(to - JumpAt(m, p))

-----------------------------------------------------------------------------
(* The thread *)

Nothing == [side |-> 0, n |-> 0]

\* The instruction at the thread's position is op.
Decodes(m, p) ==
    /\ m[p].part = 1
    /\ m[p].ins.size = 2 => m[p + 1] = Half(m[p].ins, 2)

Fetch(ops) == /\ ~failed
              /\ at \in DOMAIN code /\ Decodes(code, at)
              /\ code[at].ins.op \in ops

ins == code[at].ins
after == at + ins.size

ExecAuipc == /\ Fetch({"auipc"})
             /\ a1' = at + ins.arg /\ at' = after
             /\ UNCHANGED <<patched, layout, side, reg, pc>>

ExecLoad == /\ Fetch({"li"})
            /\ reg' = [side |-> ins.arg,
                       n |-> (IF reg.side = ins.arg THEN reg.n ELSE 0) + ins.size]
            /\ at' = after
            /\ UNCHANGED <<patched, layout, side, a1, pc>>

ExecStore == /\ Fetch({"sd"})
             /\ pc' = reg /\ at' = after
             /\ UNCHANGED <<patched, layout, side, a1, reg>>

ExecNop == /\ Fetch({"nop"})
           /\ at' = after
           /\ UNCHANGED <<patched, layout, side, a1, reg, pc>>

ExecJump == /\ Fetch({"j", "jr"})
            /\ at' = (IF ins.op = "j" THEN at ELSE a1) + ins.arg
            /\ UNCHANGED <<patched, layout, side, a1, reg, pc>>

ExecBranch == /\ Fetch({"beqz", "bnez"})
              /\ at' = (IF (side = "trueval") = (ins.op = "bnez") THEN at + ins.arg ELSE after)
              /\ UNCHANGED <<patched, layout, side, a1, reg, pc>>

\* The block ends.  The dispatcher has the exit chained and continues with the
\* next block.
Chain == /\ Fetch({"rest"})
         /\ LET to == layout.to[side] IN
            IF Throws(code, a1, to)
              THEN failed' = TRUE /\ UNCHANGED <<code, chained, at>>
              ELSE /\ code' = IF IsBranch(code, a1)
                                THEN PatchBranch(code, layout.odd, a1, to)
                                ELSE PatchJump(code, a1, to)
                   /\ chained' = chained \cup {side} /\ at' = to
                   /\ UNCHANGED failed
         /\ UNCHANGED <<layout, side, a1, reg, pc>>

\* The thread, in another block, comes back to this one.
Enter == /\ ~failed /\ at \notin DOMAIN code
         /\ at' = 0 /\ side' \in Sides(layout)
         /\ a1' = First /\ reg' = Nothing /\ pc' = Nothing
         /\ UNCHANGED <<patched, layout>>

Done == failed /\ UNCHANGED vars

-----------------------------------------------------------------------------
\* What an unconditional exit has no use for is that of its only side.
Layouts ==
    {l \in [cond : BOOLEAN, odd : {0, 1}, branch : {1, 2},
            load : [Side -> Loads.trueval \cup Loads.falseval],
            sd : [Side -> {1, 2}],
            to : [Side -> Distances.trueval \cup Distances.falseval \cup DistancesBig]] :
        /\ l.load.trueval \in Loads.trueval /\ l.to.trueval \in Distances.trueval
        /\ IF l.cond
             THEN /\ l.load.falseval \in Loads.falseval
                  /\ l.to.falseval \in IF l.branch = 1 THEN Distances.falseval ELSE DistancesBig
             ELSE /\ l.branch = 1
                  /\ l.load.falseval = l.load.trueval /\ l.sd.falseval = l.sd.trueval
                  /\ l.to.falseval = l.to.trueval
        \* other blocks lie elsewhere
        /\ \A s \in Side : l.to[s] \notin First .. Last(l)}

Init == /\ layout \in Layouts
        /\ code = Emitted(layout)
        /\ failed = FALSE /\ chained = {}
        /\ at = 0 /\ side \in Sides(layout)
        /\ a1 = First /\ reg = Nothing /\ pc = Nothing

Next == \/ ExecAuipc \/ ExecLoad \/ ExecStore \/ ExecNop \/ ExecJump \/ ExecBranch
        \/ Chain \/ Enter \/ Done

Spec == Init /\ [][Next]_vars

-----------------------------------------------------------------------------
AddressOf(s) == [side |-> SideNumber(s), n |-> layout.load[s].len]

\* Whatever has been patched so far, in either order, a thread in the exit is
\* always at an instruction, and leaves for its side's own block, directly or
\* after storing its whole address in the PC, with A1 at the AUIPC of its side
\* for chain() to patch.
ExitCorrect ==
    IF at \in DOMAIN code
      THEN /\ Decodes(code, at)
           /\ ins.op = "rest" => /\ pc = AddressOf(side)
                                 /\ a1 \in 0 .. Last(layout)
                                 /\ code[a1] = Half(Auipc(0), 1)
      ELSE at = layout.to[side]

\* A side that has been patched does not come back to the dispatcher, and the
\* other one has not been patched with it.
ChainEffective ==
    IF at \in DOMAIN code THEN ins.op = "rest" => side \notin chained
                          ELSE side \in chained

\* Moving and overwriting never reaches the code around the exit: neither the
\* write-back of registers before it nor the end of the block after it.
SurroundingsIntact ==
    \A p \in First .. Last(layout) :
        p < 0 \/ p >= End(layout) => code[p] = Emitted(layout)[p]

-----------------------------------------------------------------------------
(* What chain() relies on without testing it: the hypotheses under which the *)
(* properties above are theorems.                                            *)

\* The false side's block is within reach of a J when its branch is of full
\* size (chain() tests the offset of the jump only behind a compressed one).
InReach == \A d \in DistancesBig : IsJTypeImm(d - 2)

\* Moving the true side by one word overwrites no more than what loads the false
\* side's address: two half-words or more.
RoomToMove == \A h \in Loads.falseval : h.len >= 2

\* When the JR of a long jump has been moved by one word, its adjusted offset
\* still fits.
LowMovable == \A d \in Distances.trueval, p \in {3, 4} : Lo(d - p) >= -1022
=============================================================================
