-------------------------- MODULE MachineCodeProofs --------------------------
(* Theorems about the machine code that translations share: finished code is *)
(* never overwritten by new code (CodeArena), and chain() keeps the exits it *)
(* rewrites working (ChainPatch).  The former hold for every size of the     *)
(* arena, of blocks and of what the output engines emit at a time; the latter *)
(* for every encoding of the addresses and every distance of the blocks that *)
(* chain() can handle, see InReach, RoomToMove and LowMovable.               *)
EXTENDS CodeArena, ChainPatch, TLAPS

-----------------------------------------------------------------------------
(* The arena                                                                 *)


\* What a piece of n bytes takes up.
LEMMA AlignUpFacts == \A n \in Nat : AlignUp(n) \in Nat /\ n <= AlignUp(n)
  BY DEF AlignUp

\* The arena is empty at first.
LEMMA ArenaStarts == ArenaInit => ArenaInv
  BY AlignUpFacts DEF ArenaInit, ArenaInv, TypeOK, WriterInv, BehindFrontier, CodeDisjoint, Null

\* What a successful allocate() does: the piece it returns starts where all
\* finished code ends.
LEMMA AllocateFacts ==
    ASSUME ArenaInv, error = "none", NEW size \in Nat, Allocate(size)
    PROVE  /\ next' \in Nat /\ next' = Frontier
           /\ current' = next' /\ currentSize' = size
<1>1. CASE codePtr = Null
  <2>1. AlignUp(currentSize) \in Nat /\ next \in Nat
    BY AlignUpFacts DEF ArenaInv, TypeOK
  <2> QED  BY <1>1, <2>1 DEF Allocate, NewPiece, Frontier
<1>2. CASE codePtr # Null
  BY <1>2 DEF Allocate, Resize, Frontier, ArenaInv, TypeOK, WriterInv
<1> QED  BY <1>1, <1>2

\* Code that is copied in fits, or goes to the piece that has been made for it.
LEMMA ArenaCopyIn ==
    ASSUME ArenaInv, NEW n \in Emits, CopyIn(n)
    PROVE  ArenaInv'
<1>1. /\ next \in Nat /\ currentSize \in Nat /\ codeSize \in Nat /\ allocSize \in Nat
      /\ n \in Nat
  BY ArenaAssumption DEF ArenaInv, TypeOK
<1>2. Grown \in Nat /\ codeSize' = codeSize + n /\ UNCHANGED <<txs, error>>
  BY <1>1 DEF Grown, CopyIn
<1>3. codeSize' \in Nat
  BY <1>1, <1>2
<1>4. CASE Fits(n) /\ UNCHANGED <<allocator, codePtr, allocSize>>
  <2>1. UNCHANGED <<next, current, currentSize, codePtr, allocSize, txs, error>>
    BY <1>2, <1>4 DEF allocator
  <2>2. codeSize + n <= allocSize
    BY <1>4 DEF Fits
  <2>3. codePtr = Null => codeSize = 0 /\ allocSize = 0
    BY DEF ArenaInv, WriterInv, CopyIn
  <2>4. codePtr = Null => codeSize' = 0
    BY <1>1, <1>2, <2>2, <2>3
  <2>5. WriterInv'
    BY <2>1, <2>3, <2>4 DEF ArenaInv, WriterInv
  <2>6. Frontier' = Frontier
    BY <2>1 DEF Frontier, AlignUp
  <2>7. BehindFrontier' /\ CodeDisjoint'
    BY <2>1, <2>6 DEF ArenaInv, BehindFrontier, CodeDisjoint
  <2>8. TypeOK'
    BY <1>3, <2>1 DEF ArenaInv, TypeOK
  <2> QED  BY <2>5, <2>7, <2>8 DEF ArenaInv
<1>5. CASE ~Fits(n) /\ Allocate(Grown) /\ codePtr' = current' /\ allocSize' = Grown
  <2>1. next' \in Nat /\ next' = Frontier /\ current' = next' /\ currentSize' = Grown
    BY <1>2, <1>5, AllocateFacts DEF CopyIn
  <2>2. codePtr' = next'
    BY <1>5, <2>1
  <2>3. codePtr' # Null
    BY <2>1, <2>2 DEF Null
  <2>4. Frontier' = Frontier
    BY <2>1, <2>3 DEF Frontier
  <2>5. WriterInv'
    BY <2>1, <2>2, <2>3 DEF WriterInv
  <2>6. BehindFrontier' /\ CodeDisjoint'
    BY <1>2, <2>4 DEF ArenaInv, BehindFrontier, CodeDisjoint
  <2>7. /\ next' \in Nat /\ currentSize' \in Nat /\ allocSize' \in Nat
        /\ current' \in Nat \cup {Null} /\ codePtr' \in Nat \cup {Null}
    BY <1>2, <1>5, <2>1, <2>2
  <2>8. TypeOK'
    BY <1>2, <1>3, <2>7 DEF ArenaInv, TypeOK
  <2> QED  BY <2>5, <2>6, <2>8 DEF ArenaInv
<1> QED  BY <1>4, <1>5 DEF CopyIn

\* A finished translation lies behind all others.
LEMMA ArenaFinalise == ASSUME ArenaInv, Finalise PROVE ArenaInv'
<1> DEFINE new == [ptr |-> current', size |-> codeSize]
<1>0. codeSize \in Nat /\ txs \subseteq [ptr : Nat, size : Nat]
  BY DEF ArenaInv, TypeOK
<1>1. next' \in Nat /\ next' = Frontier /\ current' = next' /\ currentSize' = codeSize
  BY <1>0, AllocateFacts DEF Finalise
<1>2. /\ codePtr' = Null /\ codeSize' = 0 /\ allocSize' = 0 /\ error' = error
      /\ txs' = txs \cup {new}
  BY DEF Finalise
<1>3. new \in [ptr : Nat, size : Nat] /\ new.ptr = Frontier /\ new.size = codeSize
  BY <1>0, <1>1
<1> HIDE DEF new
<1>4. AlignUp(codeSize) \in Nat /\ codeSize <= AlignUp(codeSize) /\ Frontier \in Nat
  BY <1>0, <1>1, AlignUpFacts
<1>5. Frontier' = Frontier + AlignUp(codeSize)
  BY <1>1, <1>2 DEF Frontier, AlignUp, Finalise
<1>6. \A x \in txs : x.ptr \in Nat /\ x.size \in Nat /\ x.ptr + x.size <= Frontier
  BY <1>0 DEF ArenaInv, BehindFrontier
<1> DEFINE a == AlignUp(codeSize)
           f == Frontier
<1>7. BehindFrontier'
  <2>1. \A x \in txs' : x.ptr + x.size <= f + a
    <3>1. a \in Nat /\ f \in Nat /\ codeSize <= a
      BY <1>4
    <3> HIDE DEF a, f
    <3>2. \A x \in txs : x.ptr \in Nat /\ x.size \in Nat /\ x.ptr + x.size <= f
      BY <1>6 DEF f
    <3>3. new.ptr = f /\ new.size = codeSize
      BY <1>3 DEF f
    <3>4. ASSUME NEW x \in txs PROVE x.ptr + x.size <= f + a
      BY <3>1, <3>2
    <3>5. new.ptr + new.size <= f + a
      BY <1>0, <3>1, <3>3
    <3> QED  BY <1>2, <3>4, <3>5
  <2> QED  BY <1>5, <2>1 DEF BehindFrontier
<1>8. CodeDisjoint'
  BY <1>2, <1>3, <1>4, <1>6 DEF ArenaInv, CodeDisjoint, Disjoint
<1>9. WriterInv'
  BY <1>2 DEF WriterInv
<1>10. TypeOK'
  BY <1>0, <1>1, <1>2, <1>3 DEF ArenaInv, TypeOK
<1> QED  BY <1>7, <1>8, <1>9, <1>10 DEF ArenaInv

\* An exception leaves everything finished as it is.
LEMMA ArenaThrow == ASSUME ArenaInv, Throw PROVE ArenaInv'
<1>1. /\ next \in Nat /\ currentSize \in Nat /\ allocSize \in Nat
      /\ txs \subseteq [ptr : Nat, size : Nat]
  BY DEF ArenaInv, TypeOK
<1>2. /\ error = "none" /\ UNCHANGED <<current, currentSize, codePtr, codeSize, txs>>
      /\ error' \in {"out of memory", "multiple allocations"}
  BY DEF Throw, AllocateError
<1>3. AlignUp(currentSize) \in Nat /\ Grown \in Nat
  BY <1>1, AlignUpFacts DEF Grown
<1>4. next' = Frontier /\ next' \in Nat /\ allocSize' \in Nat
  <2>1. next' = Frontier
    BY <1>2 DEF Throw, Frontier
  <2>2. Frontier \in Nat
    BY <1>1, <1>3 DEF Frontier
  <2>3. allocSize' \in Nat
    BY <1>1, <1>3 DEF Throw
  <2> QED  BY <2>1, <2>2, <2>3
<1>5. Frontier' = Frontier
  BY <1>2, <1>4 DEF Frontier
<1>6. BehindFrontier' /\ CodeDisjoint'
  BY <1>2, <1>5 DEF ArenaInv, BehindFrontier, CodeDisjoint
<1>7. WriterInv'
  BY <1>2, <1>4 DEF ArenaInv, WriterInv, Frontier
<1>8. TypeOK'
  BY <1>2, <1>4 DEF ArenaInv, TypeOK
<1> QED  BY <1>6, <1>7, <1>8 DEF ArenaInv

\* The invariant is inductive.
LEMMA ArenaSteps == ArenaInv /\ [ArenaNext]_arenaVars => ArenaInv'
<1> SUFFICES ASSUME ArenaInv, [ArenaNext]_arenaVars PROVE ArenaInv'
  OBVIOUS
<1>1. CASE Over \/ UNCHANGED arenaVars
  BY <1>1 DEF Over, arenaVars, ArenaInv, TypeOK, WriterInv, BehindFrontier, Frontier,
              CodeDisjoint, AlignUp, Disjoint
<1>2. CASE \E n \in Emits : CopyIn(n)
  BY <1>2, ArenaCopyIn
<1>3. CASE Finalise
  BY <1>3, ArenaFinalise
<1>4. CASE Throw
  BY <1>4, ArenaThrow
<1> QED  BY <1>1, <1>2, <1>3, <1>4 DEF ArenaNext

\* No two translations ever share a byte of the arena (allocate, finalise).
THEOREM TranslationsDisjoint == ArenaSpec => []CodeDisjoint
<1>1. ArenaInv => CodeDisjoint
  BY DEF ArenaInv
<1> QED  BY <1>1, ArenaStarts, ArenaSteps, PTL DEF ArenaSpec

\* Code that is being written never reaches a finished translation (copy_in).
THEOREM FinishedCodeKept == ArenaSpec => []FinishedCodeIntact
<1>1. ArenaInv => FinishedCodeIntact
  BY DEF ArenaInv, TypeOK, WriterInv, BehindFrontier, Frontier, FinishedCodeIntact, Disjoint
<1> QED  BY <1>1, ArenaStarts, ArenaSteps, PTL DEF ArenaSpec

-----------------------------------------------------------------------------
(* What the exit m of layout l looks like when the sides ch have been patched: *)
(* an inductive invariant.                                                   *)

HasIns(m, p, i) == m[p] = Half(i, 1) /\ (i.size = 2 => m[p + 1] = Half(i, 2))

\* A jump to d at position p: a J, or an AUIPC and a JR.
IsJump(m, p, d) == \E size \in {1, 2} : HasIns(m, p, Ins("j", d - p, size))
IsJumpReg(m, p, off) == \E size \in {1, 2} : HasIns(m, p, Ins("jr", off, size))
IsLongJump(m, p, d) == \E off \in Int : /\ HasIns(m, p, Auipc(off))
                                        /\ IsJumpReg(m, p + 2, d - (p + off))
Direct(m, p, d) == IsJump(m, p, d) \/ IsLongJump(m, p, d)

\* The false side has been patched with a branch to its block, or with a jump
\* that the inverted branch skips.
Skipped(m, ch) == "falseval" \in ch /\ m[0].ins.op = "bnez"
Branches(m, ch) == "falseval" \in ch /\ m[0].ins.op # "bnez"

\* By how much the true side has been moved, and where it starts.
Moved(m, l, ch) == IF Skipped(m, ch) THEN m[0].ins.arg - TrueAt(l) ELSE 0
TrueNow(m, l, ch) == TrueAt(l) + Moved(m, l, ch)

\* Where it jumps when it has been patched.
TrueJump(m, l, ch) ==
    IF Branches(m, ch) /\ m[TrueAt(l) - 2].ins.op \in {"j", "auipc"}
      THEN TrueAt(l) - 2 ELSE TrueNow(m, l, ch)

FalseAsEmitted(m, l) ==
    \A q \in DOMAIN m :
        (0 <= q /\ q < TrueAt(l)) \/ FalseAt(l) <= q => m[q] = Emitted(l)[q]

FalseSkipped(m, l, ch) ==
    /\ Moved(m, l, ch) = 0 \/ (l.branch = 1 /\ Moved(m, l, ch) = 2)
    /\ HasIns(m, 0, Ins("bnez", TrueNow(m, l, ch), l.branch))
    /\ IF Moved(m, l, ch) = 0 THEN IsJump(m, l.branch, l.to.falseval)
                              ELSE IsLongJump(m, l.branch, l.to.falseval)
    /\ m[TrueNow(m, l, ch) - 2] # Half(Nop(2), 1)

\* The branch that goes to the false side's block, and the NOP behind it.
Near(l) == Branch("beqz", l.to.falseval, l.branch)
NearNop(l) == Nop(IF l.branch = 1 /\ ~IsCBImm(l.to.falseval) THEN 1 ELSE 2)
Pad(l) == Near(l).size + NearNop(l).size

FalseBranches(m, l, ch) ==
    /\ HasIns(m, 0, Near(l))
    /\ IF TrueJump(m, l, ch) = TrueAt(l)
         THEN HasIns(m, Near(l).size, NearNop(l))
         ELSE TrueJump(m, l, ch) = Near(l).size
    /\ TrueAt(l) = Pad(l) \/ (TrueAt(l) = Pad(l) + 1 /\ HasIns(m, Pad(l), Nop(1)))

FalseInv(m, l, ch) ==
    /\ "falseval" \notin ch => FalseAsEmitted(m, l)
    /\ Skipped(m, ch) => FalseSkipped(m, l, ch)
    /\ Branches(m, ch) => FalseBranches(m, l, ch)

TrueAsEmitted(m, l, by) ==
    /\ \A q \in TrueAt(l) .. TrueEnd(l) - 1 : m[q + by] = Emitted(l)[q]
    /\ l.cond => HasIns(m, TrueEnd(l) + by, Ins("j", End(l) - TrueEnd(l) - by, 1))

\* The jump that has replaced the true side can still be moved.
Movable(m, p, d) ==
    \/ IsJump(m, p, d) /\ IsJTypeImm(d - p)
    \/ \E off \in Int : /\ HasIns(m, p, Auipc(off))
                        /\ IsJumpReg(m, p + 2, d - (p + off))
                        /\ -1022 <= d - (p + off) /\ d - (p + off) < 1024

TrueInv(m, l, ch) ==
    IF "trueval" \notin ch
      THEN /\ TrueAsEmitted(m, l, Moved(m, l, ch))
           /\ TrueJump(m, l, ch) = TrueNow(m, l, ch)
      ELSE /\ Direct(m, TrueJump(m, l, ch), l.to.trueval)
           /\ l.cond /\ l.branch = 1 /\ "falseval" \notin ch =>
                 Movable(m, TrueAt(l), l.to.trueval)

Surroundings(m, l) ==
    \A p \in DOMAIN m : p < 0 \/ p >= End(l) => m[p] = Emitted(l)[p]

CodeInv(m, l, ch) ==
    /\ DOMAIN m = First .. Last(l)
    /\ ch \in SUBSET Sides(l)
    /\ Surroundings(m, l)
    /\ l.cond => FalseInv(m, l, ch)
    /\ TrueInv(m, l, ch)

\* Where the thread may be: in the common part, at the start of the true side,
\* in the code that loads and stores an address, or behind it; at the block it
\* leaves for, or on the way to it.
Loading(s, start) ==
    LET k == at - start
        h == layout.load[s]
    IN  /\ at \in Int /\ 0 <= k /\ k <= h.len
        /\ k + 1 \notin h.seconds
        /\ reg = IF k = 0 THEN Nothing ELSE [side |-> SideNumber(s), n |-> k]

AtExit == at = 0 /\ reg = Nothing

InCommon ==
    /\ layout.cond /\ reg = Nothing /\ "falseval" \notin chained
    /\ \/ at = 2 /\ a1 = 0
       \/ /\ at \in Int /\ 2 + layout.branch <= at /\ at < TrueAt(layout)
          /\ side = "trueval"

BehindBranch ==
    /\ layout.cond /\ reg = Nothing /\ Branches(code, chained)
    /\ side = "trueval" /\ TrueJump(code, layout, chained) = TrueAt(layout)
    /\ \/ at = Near(layout).size
       \/ at = Pad(layout) /\ TrueAt(layout) = Pad(layout) + 1

AtTrue == /\ side = "trueval" /\ at = TrueNow(code, layout, chained) /\ reg = Nothing
          /\ TrueJump(code, layout, chained) = TrueNow(code, layout, chained)

InTrue ==
    /\ side = "trueval" /\ "trueval" \notin chained
    /\ a1 = TrueNow(code, layout, chained)
    /\ \/ Loading("trueval", TrueNow(code, layout, chained) + 2)
       \/ /\ layout.cond /\ pc = AddressOf("trueval")
          /\ at = TrueEnd(layout) + Moved(code, layout, chained)
       \/ at = End(layout) /\ pc = AddressOf("trueval")

InFalse ==
    /\ layout.cond /\ side = "falseval" /\ "falseval" \notin chained
    /\ a1 = 0
    /\ \/ Loading("falseval", FalseAt(layout))
       \/ /\ at \in Int /\ FalseEnd(layout) <= at /\ at <= End(layout)
          /\ pc = AddressOf("falseval")

Leaving ==
    /\ side \in chained
    /\ \/ at = layout.to[side]
       \/ /\ at \in Int /\ 0 <= at /\ at <= End(layout) - 2
          /\ Direct(code, at, layout.to[side])
       \/ /\ at \in Int /\ 0 <= at /\ at <= End(layout)
          /\ a1 \in Int /\ IsJumpReg(code, at, layout.to[side] - a1)

Where == AtExit \/ InCommon \/ BehindBranch \/ AtTrue \/ InTrue \/ InFalse \/ Leaving

-----------------------------------------------------------------------------
(* The exit as it is emitted                                                 *)

\* What an exit has been emitted for.
LEMMA LayoutMembers ==
    ASSUME NEW l \in Layouts
    PROVE  /\ l.load.trueval \in Loads.trueval
           /\ l.load.falseval \in Loads.trueval \cup Loads.falseval
           /\ l.to.trueval \in Distances.trueval
           /\ l.to.falseval \in Distances.trueval \cup Distances.falseval \cup DistancesBig
           /\ l.cond => l.load.falseval \in Loads.falseval
           /\ l.cond /\ l.branch = 2 => l.to.falseval \in DistancesBig
           /\ ~l.cond => l.branch = 1
  BY DEF Layouts, Side

\* The numbers of a layout.
LEMMA LayoutNumbers ==
    ASSUME NEW l \in Layouts
    PROVE  /\ l.cond \in BOOLEAN /\ l.odd \in {0, 1} /\ l.branch \in {1, 2}
           /\ l.sd.trueval \in {1, 2} /\ l.sd.falseval \in {1, 2}
  BY DEF Layouts, Side

\* The shape of a load (ChainAssumption), in the form the provers need.
LEMMA LoadFields ==
    ASSUME NEW s \in Side, NEW h \in Loads[s]
    PROVE  /\ h.len \in Int /\ 0 < h.len /\ h.len < 17
           /\ \A i \in h.seconds : i \in Int /\ 2 <= i /\ i <= h.len /\ i + 1 \notin h.seconds
  BY ChainAssumption DEF LoadAssumption

\* The same of the load of either side of a layout.
LEMMA LoadShape ==
    ASSUME NEW l \in Layouts, NEW s \in Side
    PROVE  /\ l.load[s].len \in Int /\ 0 < l.load[s].len /\ l.load[s].len < 17
           /\ \A i \in l.load[s].seconds : /\ i \in Int /\ 2 <= i /\ i <= l.load[s].len
                                           /\ i + 1 \notin l.load[s].seconds
<1>1. l.load[s] \in Loads["trueval"] \cup Loads["falseval"]
  BY LayoutMembers DEF Side
<1> QED  BY <1>1, LoadFields DEF Side

\* The same of each side by its name.
LEMMA SideFields ==
    ASSUME NEW l \in Layouts
    PROVE  /\ l.load.trueval.len \in Int /\ 0 < l.load.trueval.len /\ l.load.trueval.len < 17
           /\ l.load.falseval.len \in Int /\ 0 < l.load.falseval.len /\ l.load.falseval.len < 17
           /\ l.sd.trueval \in {1, 2} /\ l.sd.falseval \in {1, 2}
           /\ l.to.trueval \in Int /\ l.to.falseval \in Int
           /\ l.odd \in {0, 1} /\ l.cond \in BOOLEAN /\ l.branch \in {1, 2}
<1>2. l.to.trueval \in Int /\ l.to.falseval \in Int
  BY LayoutMembers, ChainAssumption DEF DistanceAssumption, Side
<1> QED  BY <1>2, LoadShape, LayoutNumbers DEF Side

\* A label is bound where the code has come to, or a half-word behind it.
LEMMA UpFacts ==
    ASSUME NEW l \in Layouts, NEW p \in Int
    PROVE  Up(l, p) = p \/ Up(l, p) = p + 1
  BY LayoutNumbers DEF Up

\* Where the parts of an exit lie, in order.
LEMMA Places ==
    ASSUME NEW l \in Layouts
    PROVE  /\ TrueAt(l) \in Int /\ TrueEnd(l) \in Int /\ FalseAt(l) \in Int
           /\ FalseEnd(l) \in Int /\ End(l) \in Int
           /\ TrueEnd(l) = TrueAt(l) + 2 + l.load.trueval.len + l.sd.trueval
           /\ FalseAt(l) = TrueEnd(l) + 1 \/ FalseAt(l) = TrueEnd(l) + 2
           /\ FalseEnd(l) = FalseAt(l) + l.load.falseval.len + l.sd.falseval
           /\ ~l.cond => TrueAt(l) = 0 /\ End(l) = TrueEnd(l)
           /\ l.cond => /\ End(l) = FalseEnd(l) \/ End(l) = FalseEnd(l) + 1
                        /\ l.branch = 1 => TrueAt(l) = 4 - l.odd
                        /\ l.branch = 2 => TrueAt(l) = 4 + l.odd
           /\ End(l) < 60 /\ TrueEnd(l) >= TrueAt(l) + 4
           /\ TrueAt(l) >= 0 /\ TrueAt(l) < 6 /\ End(l) >= TrueEnd(l)
<1>1. /\ ~l.cond => TrueAt(l) = 0
      /\ l.cond /\ l.branch = 1 => TrueAt(l) = 4 - l.odd
      /\ l.cond /\ l.branch = 2 => TrueAt(l) = 4 + l.odd
  BY SideFields DEF TrueAt, Up
<1>2. TrueEnd(l) = TrueAt(l) + 2 + l.load.trueval.len + l.sd.trueval
  BY DEF TrueEnd
<1>11. TrueAt(l) \in Int /\ TrueAt(l) < 6 /\ TrueAt(l) >= 0
  BY <1>1, SideFields
<1>12. TrueEnd(l) \in Int /\ TrueEnd(l) < 28 /\ TrueEnd(l) >= TrueAt(l) + 4
  BY <1>2, <1>11, SideFields
<1>3. TrueEnd(l) \in Int /\ TrueAt(l) \in Int
  BY <1>11, <1>12
<1>4. FalseAt(l) = Up(l, TrueEnd(l) + 1)
  BY DEF FalseAt
<1>5. FalseEnd(l) = FalseAt(l) + l.load.falseval.len + l.sd.falseval
  BY DEF FalseEnd
<1>6. End(l) = IF l.cond THEN Up(l, FalseEnd(l)) ELSE TrueEnd(l)
  BY DEF End
<1>7. FalseAt(l) = TrueEnd(l) + 1 \/ FalseAt(l) = TrueEnd(l) + 2
  BY <1>3, <1>4, UpFacts
<1>8. FalseEnd(l) \in Int /\ FalseEnd(l) < 50 /\ FalseEnd(l) > TrueEnd(l)
  BY <1>12, <1>5, <1>7, SideFields
<1>9. l.cond => End(l) = FalseEnd(l) \/ End(l) = FalseEnd(l) + 1
  BY <1>6, <1>8, UpFacts
<1>10. End(l) \in Int /\ End(l) < 60 /\ End(l) >= TrueEnd(l)
  BY <1>12, <1>6, <1>8, <1>9, SideFields
<1> QED  BY <1>1, <1>2, <1>11, <1>12, <1>5, <1>6, <1>7, <1>8, <1>9, <1>10, SideFields

\* The blocks an exit leads to lie elsewhere.
LEMMA Elsewhere ==
    ASSUME NEW l \in Layouts, NEW s \in Side
    PROVE  /\ l.to[s] \in Int
           /\ l.to[s] < -2 \/ End(l) + 1 < l.to[s]
<1>1. l.to[s] \notin First .. Last(l)
  BY DEF Layouts
<1>2. First = -2 /\ Last(l) = End(l) + 1 /\ End(l) \in Int
  BY Places DEF First, Last
<1> QED  BY <1>1, <1>2, SideFields DEF Side

\* The exit and two half-words on either side of it.
LEMMA EmittedDomain ==
    ASSUME NEW l \in Layouts
    PROVE  /\ DOMAIN Emitted(l) = First .. Last(l)
           /\ \A q : q \in First .. Last(l) <=> q \in Int /\ -2 <= q /\ q <= End(l) + 1
<1>1. First = -2 /\ Last(l) = End(l) + 1 /\ End(l) \in Int
  BY Places DEF First, Last
<1> QED  BY <1>1 DEF Emitted

\* The half-words of the exit, place by place.
LEMMA EmittedParts ==
    ASSUME NEW l \in Layouts, NEW p \in Int, -2 <= p, p <= End(l) + 1
    PROVE  /\ p = 0 => Emitted(l)[p] = Half(Auipc(0), 1)
           /\ p = 1 => Emitted(l)[p] = Half(Auipc(0), 2)
           /\ p >= End(l) => Emitted(l)[p] = Half(Ins("rest", 0, 1), 1)
           /\ TrueAt(l) + 2 <= p /\ p < TrueEnd(l) =>
                 Emitted(l)[p] = StorePc(l, "trueval", p - TrueAt(l) - 1)
           /\ l.cond =>
              /\ 2 <= p /\ p < 2 + l.branch =>
                    Emitted(l)[p] = Half(Ins("beqz", FalseAt(l) - 2, l.branch), p - 1)
              /\ p = TrueAt(l) => Emitted(l)[p] = Half(Auipc(0), 1)
              /\ p = TrueAt(l) + 1 => Emitted(l)[p] = Half(Auipc(0), 2)
              /\ p = TrueEnd(l) => Emitted(l)[p] = Half(Ins("j", End(l) - p, 1), 1)
              /\ FalseAt(l) <= p /\ p < FalseEnd(l) =>
                    Emitted(l)[p] = StorePc(l, "falseval", p - FalseAt(l) + 1)
              /\ (\/ 2 + l.branch <= p /\ p < TrueAt(l)
                  \/ TrueEnd(l) < p /\ p < FalseAt(l)
                  \/ FalseEnd(l) <= p /\ p < End(l)) => Emitted(l)[p] = Half(Nop(1), 1)
           /\ p = -2 => Emitted(l)[p] = Half(Ins("sd", 0, 2), 1)
           /\ p = -1 => Emitted(l)[p] = Half(Ins("sd", 0, 2), 2)
<1>1. p \in First .. Last(l)
  BY EmittedDomain
<1> DEFINE Parts ==
        CASE p < 0       -> Half(Ins("sd", 0, 2), p - First + 1)
          [] p \in {0, 1} -> Half(Auipc(0), p + 1)
          [] p >= End(l) -> Half(Ins("rest", 0, 1), 1)
          [] p \in TrueAt(l) + 2 .. TrueEnd(l) - 1 ->
                StorePc(l, "trueval", p - TrueAt(l) - 1)
          [] l.cond /\ p \in 2 .. 1 + l.branch ->
                Half(Ins("beqz", FalseAt(l) - 2, l.branch), p - 1)
          [] l.cond /\ p \in {TrueAt(l), TrueAt(l) + 1} ->
                Half(Auipc(0), p - TrueAt(l) + 1)
          [] l.cond /\ p = TrueEnd(l) -> Half(Ins("j", End(l) - p, 1), 1)
          [] l.cond /\ p \in FalseAt(l) .. FalseEnd(l) - 1 ->
                StorePc(l, "falseval", p - FalseAt(l) + 1)
          [] OTHER       -> Half(Nop(1), 1)
<1>2. Emitted(l)[p] = Parts
  BY <1>1 DEF Emitted
<1> HIDE DEF Parts
<1>0. /\ TrueAt(l) \in Int /\ TrueEnd(l) \in Int /\ End(l) \in Int /\ First = -2
      /\ 0 <= TrueAt(l) /\ TrueAt(l) + 4 <= TrueEnd(l) /\ TrueEnd(l) <= End(l)
      /\ l.cond \in BOOLEAN /\ l.branch \in Int /\ 0 < l.branch
      /\ FalseAt(l) \in Int /\ FalseEnd(l) \in Int
      /\ TrueEnd(l) < FalseAt(l) /\ FalseAt(l) < FalseEnd(l)
      /\ l.cond => FalseEnd(l) <= End(l) /\ l.branch + 2 <= TrueAt(l)
  BY Places, SideFields DEF First
<1>3. p = 0 => Parts = Half(Auipc(0), 1)
  BY <1>0 DEF Parts, Half
<1>4. p = 1 => Parts = Half(Auipc(0), 2)
  BY <1>0 DEF Parts, Half
<1>5. p >= End(l) => Parts = Half(Ins("rest", 0, 1), 1)
  BY <1>0 DEF Parts
<1>6. TrueAt(l) + 2 <= p /\ p < TrueEnd(l) => Parts = StorePc(l, "trueval", p - TrueAt(l) - 1)
  BY <1>0 DEF Parts
<1>7. ASSUME l.cond PROVE
      /\ 2 <= p /\ p < 2 + l.branch =>
            Parts = Half(Ins("beqz", FalseAt(l) - 2, l.branch), p - 1)
      /\ p = TrueAt(l) => Parts = Half(Auipc(0), 1)
      /\ p = TrueAt(l) + 1 => Parts = Half(Auipc(0), 2)
      /\ p = TrueEnd(l) => Parts = Half(Ins("j", End(l) - p, 1), 1)
  BY <1>7, Places, SideFields DEF Parts
<1>8. ASSUME l.cond PROVE
      /\ FalseAt(l) <= p /\ p < FalseEnd(l) => Parts = StorePc(l, "falseval", p - FalseAt(l) + 1)
      /\ (\/ 2 + l.branch <= p /\ p < TrueAt(l)
          \/ TrueEnd(l) < p /\ p < FalseAt(l)
          \/ FalseEnd(l) <= p /\ p < End(l)) => Parts = Half(Nop(1), 1)
  BY <1>8, Places, SideFields DEF Parts
<1>9. /\ p = -2 => Parts = Half(Ins("sd", 0, 2), 1)
      /\ p = -1 => Parts = Half(Ins("sd", 0, 2), 2)
  BY <1>0 DEF Parts, Half
<1> QED  BY <1>2, <1>3, <1>4, <1>5, <1>6, <1>7, <1>8, <1>9

\* The same in the form in which it is used.
LEMMA EmittedAuipc ==
    ASSUME NEW l \in Layouts
    PROVE  /\ Emitted(l)[0] = Half(Auipc(0), 1) /\ Emitted(l)[1] = Half(Auipc(0), 2)
           /\ Emitted(l)[TrueAt(l)] = Half(Auipc(0), 1)
           /\ Emitted(l)[TrueAt(l) + 1] = Half(Auipc(0), 2)
<1>0. /\ TrueAt(l) \in Int /\ End(l) \in Int /\ 0 <= TrueAt(l) /\ TrueAt(l) + 4 <= End(l)
      /\ l.cond \in BOOLEAN /\ (~l.cond => TrueAt(l) = 0)
  BY Places, SideFields
<1>1. Emitted(l)[0] = Half(Auipc(0), 1) /\ Emitted(l)[1] = Half(Auipc(0), 2)
  BY <1>0, EmittedParts
<1>2. ASSUME l.cond, NEW p \in Int, p = TrueAt(l) PROVE Emitted(l)[p] = Half(Auipc(0), 1)
  BY <1>0, <1>2, EmittedParts
<1>3. ASSUME l.cond, NEW p \in Int, p = TrueAt(l) + 1 PROVE Emitted(l)[p] = Half(Auipc(0), 2)
  BY <1>0, <1>3, EmittedParts
<1>4. CASE l.cond
  BY <1>0, <1>1, <1>2, <1>3, <1>4
<1>5. CASE ~l.cond
  <2>1. TrueAt(l) = 0 /\ TrueAt(l) + 1 = 1
    BY <1>0, <1>5
  <2> QED  BY <2>1, <1>1
<1> QED  BY <1>4, <1>5

\* The branch to the false side.
LEMMA EmittedBranch ==
    ASSUME NEW l \in Layouts, l.cond
    PROVE  HasIns(Emitted(l), 2, Ins("beqz", FalseAt(l) - 2, l.branch))
<1>0. End(l) \in Int /\ End(l) >= 4 /\ l.branch \in {1, 2}
  BY Places, SideFields
<1>1. Emitted(l)[2] = Half(Ins("beqz", FalseAt(l) - 2, l.branch), 1)
  BY <1>0, EmittedParts
<1>2. l.branch = 2 => Emitted(l)[3] = Half(Ins("beqz", FalseAt(l) - 2, l.branch), 2)
  BY <1>0, EmittedParts
<1> QED  BY <1>1, <1>2 DEF HasIns, Ins

\* What labels are aligned with.
LEMMA EmittedNop ==
    ASSUME NEW l \in Layouts, l.cond, NEW p \in Int,
           (2 + l.branch <= p /\ p < TrueAt(l)) \/ (FalseEnd(l) <= p /\ p < End(l))
    PROVE  Emitted(l)[p] = Half(Nop(1), 1)
<1>0. /\ TrueAt(l) \in Int /\ FalseEnd(l) \in Int /\ End(l) \in Int
      /\ 4 <= FalseEnd(l) /\ TrueAt(l) <= End(l) /\ l.branch \in {1, 2}
  BY Places, SideFields
<1>1. -2 <= p /\ p <= End(l) + 1
  BY <1>0
<1>2. CASE 2 + l.branch <= p /\ p < TrueAt(l)
  BY <1>1, <1>2, EmittedParts
<1>3. CASE FalseEnd(l) <= p /\ p < End(l)
  BY <1>1, <1>3, EmittedParts
<1> QED  BY <1>2, <1>3

\* The jump over the false side.
LEMMA EmittedJump ==
    ASSUME NEW l \in Layouts, l.cond
    PROVE  Emitted(l)[TrueEnd(l)] = Half(Ins("j", End(l) - TrueEnd(l), 1), 1)
<1>0. /\ TrueEnd(l) \in Int /\ End(l) \in Int /\ 4 <= TrueEnd(l) /\ TrueEnd(l) <= End(l)
  BY Places
<1>1. ASSUME NEW p \in Int, p = TrueEnd(l)
      PROVE  Emitted(l)[p] = Half(Ins("j", End(l) - p, 1), 1)
  BY <1>0, <1>1, EmittedParts
<1> QED  BY <1>0, <1>1

\* The store of the true side.
LEMMA EmittedTrue ==
    ASSUME NEW l \in Layouts, NEW k \in Int, 1 <= k, k <= l.load.trueval.len + l.sd.trueval
    PROVE  Emitted(l)[TrueAt(l) + 1 + k] = StorePc(l, "trueval", k)
<1>0. /\ TrueAt(l) \in Int /\ TrueEnd(l) \in Int /\ End(l) \in Int /\ 0 <= TrueAt(l)
      /\ TrueEnd(l) <= End(l)
      /\ TrueEnd(l) = TrueAt(l) + 2 + l.load.trueval.len + l.sd.trueval
      /\ l.load.trueval.len \in Int /\ l.sd.trueval \in Int
  BY Places, SideFields
<1>1. ASSUME NEW p \in Int, p = TrueAt(l) + 1 + k
      PROVE  Emitted(l)[p] = StorePc(l, "trueval", k)
  <2>1. -2 <= p /\ p <= End(l) + 1 /\ TrueAt(l) + 2 <= p /\ p < TrueEnd(l)
        /\ p - TrueAt(l) - 1 = k
    BY <1>0, <1>1
  <2> QED  BY <2>1, EmittedParts
<1> QED  BY <1>0, <1>1

\* The store of the false side.
LEMMA EmittedFalse ==
    ASSUME NEW l \in Layouts, l.cond,
           NEW k \in Int, 1 <= k, k <= l.load.falseval.len + l.sd.falseval
    PROVE  Emitted(l)[FalseAt(l) + k - 1] = StorePc(l, "falseval", k)
<1>0. /\ FalseAt(l) \in Int /\ FalseEnd(l) \in Int /\ End(l) \in Int /\ 4 <= FalseAt(l)
      /\ FalseEnd(l) <= End(l)
      /\ FalseEnd(l) = FalseAt(l) + l.load.falseval.len + l.sd.falseval
      /\ l.load.falseval.len \in Int /\ l.sd.falseval \in Int
  BY Places, SideFields
<1>1. ASSUME NEW p \in Int, p = FalseAt(l) + k - 1
      PROVE  Emitted(l)[p] = StorePc(l, "falseval", k)
  <2>1. -2 <= p /\ p <= End(l) + 1 /\ FalseAt(l) <= p /\ p < FalseEnd(l)
        /\ p - FalseAt(l) + 1 = k
    BY <1>0, <1>1
  <2> QED  BY <2>1, EmittedParts
<1> QED  BY <1>0, <1>1

\* The code around the exit.
LEMMA EmittedRest ==
    ASSUME NEW l \in Layouts
    PROVE  /\ Emitted(l)[End(l)] = Half(Ins("rest", 0, 1), 1)
           /\ Emitted(l)[End(l) + 1] = Half(Ins("rest", 0, 1), 1)
           /\ Emitted(l)[-2] = Half(Ins("sd", 0, 2), 1)
           /\ Emitted(l)[-1] = Half(Ins("sd", 0, 2), 2)
<1>0. End(l) \in Int /\ 4 <= End(l)
  BY Places
<1>1. ASSUME NEW p \in Int, p = End(l) \/ p = End(l) + 1
      PROVE  Emitted(l)[p] = Half(Ins("rest", 0, 1), 1)
  BY <1>0, <1>1, EmittedParts
<1>2. ASSUME NEW p \in Int, p = -2
      PROVE  Emitted(l)[p] = Half(Ins("sd", 0, 2), 1)
  BY <1>0, <1>2, EmittedParts
<1>3. ASSUME NEW p \in Int, p = -1
      PROVE  Emitted(l)[p] = Half(Ins("sd", 0, 2), 2)
  BY <1>0, <1>3, EmittedParts
<1> QED  BY <1>0, <1>1, <1>2, <1>3

-----------------------------------------------------------------------------
(* The exit when some of its sides have been patched                         *)

\* The code that loads and stores the address of side s is at start.
StoresPc(m, l, s, start) ==
    \A k \in Int : 1 <= k /\ k <= l.load[s].len + l.sd[s] => m[start + k - 1] = StorePc(l, s, k)

\* What a thread finds in it: a load instruction at a time, then the store.
LEMMA StoresPcParts ==
    ASSUME NEW l \in Layouts, NEW s \in Side, NEW m, NEW start \in Int,
           StoresPc(m, l, s, start)
    PROVE  /\ HasIns(m, start + l.load[s].len, Ins("sd", 0, l.sd[s]))
           /\ \A k \in Int :
                 0 <= k /\ k < l.load[s].len /\ k + 1 \notin l.load[s].seconds =>
                    \E size \in {1, 2} :
                       /\ HasIns(m, start + k, Ins("li", SideNumber(s), size))
                       /\ k + size <= l.load[s].len
                       /\ k + size + 1 \notin l.load[s].seconds
<1> DEFINE n == l.load[s].len
           seconds == l.load[s].seconds
           sd == l.sd[s]
<1>1. /\ n \in Int /\ 0 < n
      /\ \A i \in seconds : i \in Int /\ 2 <= i /\ i <= n /\ i + 1 \notin seconds
  BY LoadShape
<1>2. sd \in {1, 2}
  BY SideFields DEF Side
<1>3. \A k \in Int : 1 <= k /\ k <= n + sd => m[start + k - 1] = StorePc(l, s, k)
  BY DEF StoresPc
<1>4. HasIns(m, start + n, Ins("sd", 0, sd))
  <2>1. m[start + n] = Half(Ins("sd", 0, sd), 1)
    <3>1. m[start + (n + 1) - 1] = StorePc(l, s, n + 1)
      BY <1>1, <1>2, <1>3
    <3>2. StorePc(l, s, n + 1) = Half(Ins("sd", 0, sd), 1)
      BY <1>1 DEF StorePc
    <3> QED  BY <1>1, <3>1, <3>2
  <2>2. sd = 2 => m[start + n + 1] = Half(Ins("sd", 0, sd), 2)
    <3>1. sd = 2 => m[start + (n + 2) - 1] = StorePc(l, s, n + 2)
      BY <1>1, <1>2, <1>3
    <3>2. StorePc(l, s, n + 2) = Half(Ins("sd", 0, sd), 2)
      BY <1>1 DEF StorePc
    <3> QED  BY <1>1, <3>1, <3>2
  <2> QED  BY <2>1, <2>2 DEF HasIns, Ins
<1>5. ASSUME NEW k \in Int, 0 <= k, k < n, k + 1 \notin seconds
      PROVE  \E size \in {1, 2} : /\ HasIns(m, start + k, Ins("li", SideNumber(s), size))
                                  /\ k + size <= n /\ k + size + 1 \notin seconds
  <2> DEFINE size == IF k + 2 \in seconds THEN 2 ELSE 1
  <2>1. m[start + k] = Half(Ins("li", SideNumber(s), size), 1)
    <3>1. m[start + (k + 1) - 1] = StorePc(l, s, k + 1)
      BY <1>1, <1>2, <1>3, <1>5
    <3>2. StorePc(l, s, k + 1) = Half(Ins("li", SideNumber(s), size), 1)
      BY <1>1, <1>5 DEF StorePc
    <3> QED  BY <3>1, <3>2
  <2>2. size = 2 => m[start + k + 1] = Half(Ins("li", SideNumber(s), size), 2)
    <3>1. size = 2 => m[start + (k + 2) - 1] = StorePc(l, s, k + 2)
      BY <1>1, <1>2, <1>3, <1>5
    <3>2. size = 2 => StorePc(l, s, k + 2) = Half(Ins("li", SideNumber(s), size), 2)
      BY <1>1, <1>5 DEF StorePc
    <3> QED  BY <3>1, <3>2
  <2>3. k + size <= n /\ k + size + 1 \notin seconds
    BY <1>1, <1>5
  <2>4. HasIns(m, start + k, Ins("li", SideNumber(s), size))
    BY <2>1, <2>2 DEF HasIns, Ins
  <2> QED  BY <2>3, <2>4
<1> QED  BY <1>4, <1>5

-----------------------------------------------------------------------------
LEMMA Ranges ==
    ASSUME NEW m, NEW l \in Layouts, NEW ch, CodeInv(m, l, ch)
    PROVE  \A q \in Int : q \in DOMAIN m <=> -2 <= q /\ q <= End(l) + 1
  BY EmittedDomain DEF CodeInv

\* The true side has been moved by no more than one word.
LEMMA MovedFacts ==
    ASSUME NEW m, NEW l \in Layouts, NEW ch, CodeInv(m, l, ch)
    PROVE  /\ Moved(m, l, ch) = 0 \/ Moved(m, l, ch) = 2
           /\ Moved(m, l, ch) # 0 => l.cond /\ Skipped(m, ch) /\ l.branch = 1
           /\ TrueNow(m, l, ch) \in Int
           /\ TrueNow(m, l, ch) = TrueAt(l) + Moved(m, l, ch)
<1>1. "falseval" \in ch => l.cond
  BY DEF CodeInv, Sides, Side
<1>2. Skipped(m, ch) => "falseval" \in ch
  BY DEF Skipped
<1>3. Skipped(m, ch) => Moved(m, l, ch) = 0 \/ (l.branch = 1 /\ Moved(m, l, ch) = 2)
  BY <1>1, <1>2 DEF CodeInv, FalseInv, FalseSkipped
<1>4. ~Skipped(m, ch) => Moved(m, l, ch) = 0
  BY DEF Moved
<1> QED  BY <1>1, <1>2, <1>3, <1>4, Places DEF TrueNow

\* The code behind the exit.
LEMMA RestParts ==
    ASSUME NEW m, NEW l \in Layouts, NEW ch, CodeInv(m, l, ch),
           NEW p \in Int, p = End(l) \/ p = End(l) + 1
    PROVE  HasIns(m, p, Ins("rest", 0, 1))
<1>1. End(l) \in Int /\ End(l) >= 4
  BY Places
<1>2. p \in DOMAIN m
  BY <1>1, Ranges
<1>3. m[p] = Emitted(l)[p]
  BY <1>1, <1>2 DEF CodeInv, Surroundings
<1>4. Emitted(l)[p] = Half(Ins("rest", 0, 1), 1)
  BY <1>1, EmittedParts
<1> QED  BY <1>3, <1>4 DEF HasIns, Ins

\* The common part and the false side, until the latter is patched.
LEMMA FalseParts ==
    ASSUME NEW m, NEW l \in Layouts, NEW ch, CodeInv(m, l, ch), l.cond, "falseval" \notin ch
    PROVE  /\ HasIns(m, 0, Auipc(0))
           /\ HasIns(m, 2, Ins("beqz", FalseAt(l) - 2, l.branch))
           /\ \A p \in Int :
                 (2 + l.branch <= p /\ p < TrueAt(l)) \/ (FalseEnd(l) <= p /\ p < End(l))
                    => HasIns(m, p, Nop(1))
           /\ StoresPc(m, l, "falseval", FalseAt(l))
<1>1. /\ TrueAt(l) \in Int /\ FalseAt(l) \in Int /\ FalseEnd(l) \in Int /\ End(l) \in Int
      /\ 2 + l.branch <= TrueAt(l) /\ TrueAt(l) < FalseAt(l) /\ FalseAt(l) < FalseEnd(l)
      /\ FalseEnd(l) <= End(l) /\ l.branch \in {1, 2}
      /\ FalseEnd(l) = FalseAt(l) + l.load.falseval.len + l.sd.falseval
      /\ l.load.falseval.len \in Int /\ l.sd.falseval \in Int
  BY Places, SideFields
<1>2. \A q \in Int : -2 <= q /\ q <= End(l) + 1 /\ (q < TrueAt(l) \/ FalseAt(l) <= q) /\ 0 <= q
                     => m[q] = Emitted(l)[q]
  BY Ranges DEF CodeInv, FalseInv, FalseAsEmitted
<1>3. HasIns(m, 0, Auipc(0))
  BY <1>1, <1>2, EmittedAuipc DEF HasIns
<1>4. HasIns(m, 2, Ins("beqz", FalseAt(l) - 2, l.branch))
  BY <1>1, <1>2, EmittedBranch DEF HasIns, Ins
<1>5. ASSUME NEW p \in Int,
             (2 + l.branch <= p /\ p < TrueAt(l)) \/ (FalseEnd(l) <= p /\ p < End(l))
      PROVE  HasIns(m, p, Nop(1))
  <2>1. m[p] = Emitted(l)[p]
    BY <1>1, <1>2, <1>5
  <2> QED  BY <1>5, <2>1, EmittedNop DEF HasIns, Nop, Ins
<1>6. ASSUME NEW k \in Int, 1 <= k, k <= l.load.falseval.len + l.sd.falseval
      PROVE  m[FalseAt(l) + k - 1] = StorePc(l, "falseval", k)
  <2>1. m[FalseAt(l) + k - 1] = Emitted(l)[FalseAt(l) + k - 1]
    BY <1>1, <1>2, <1>6
  <2> QED  BY <1>6, <2>1, EmittedFalse
<1> QED  BY <1>3, <1>4, <1>5, <1>6 DEF StoresPc

\* The true side, until it is patched.
LEMMA TrueParts ==
    ASSUME NEW m, NEW l \in Layouts, NEW ch, CodeInv(m, l, ch), "trueval" \notin ch
    PROVE  /\ HasIns(m, TrueNow(m, l, ch), Auipc(0))
           /\ StoresPc(m, l, "trueval", TrueNow(m, l, ch) + 2)
           /\ l.cond => HasIns(m, TrueEnd(l) + Moved(m, l, ch),
                               Ins("j", End(l) - TrueEnd(l) - Moved(m, l, ch), 1))
<1> DEFINE by == Moved(m, l, ch)
<1>1. /\ TrueAt(l) \in Int /\ TrueEnd(l) \in Int /\ End(l) \in Int /\ 0 <= TrueAt(l)
      /\ TrueAt(l) + 4 <= TrueEnd(l) /\ TrueEnd(l) <= End(l) /\ by \in Int
      /\ TrueEnd(l) = TrueAt(l) + 2 + l.load.trueval.len + l.sd.trueval
      /\ TrueNow(m, l, ch) = TrueAt(l) + by
      /\ l.load.trueval.len \in Int /\ l.sd.trueval \in Int
  BY Places, SideFields, MovedFacts
<1>2. /\ \A q \in Int : TrueAt(l) <= q /\ q < TrueEnd(l) => m[q + by] = Emitted(l)[q]
      /\ l.cond => HasIns(m, TrueEnd(l) + by, Ins("j", End(l) - TrueEnd(l) - by, 1))
  BY <1>1 DEF CodeInv, TrueInv, TrueAsEmitted
<1> HIDE DEF by
<1>3. HasIns(m, TrueAt(l) + by, Auipc(0))
  <2>2. m[TrueAt(l) + by] = Half(Auipc(0), 1)
    BY <1>1, <1>2, EmittedAuipc
  <2>3. m[TrueAt(l) + 1 + by] = Half(Auipc(0), 2)
    BY <1>1, <1>2, EmittedAuipc
  <2>4. TrueAt(l) + 1 + by = TrueAt(l) + by + 1
    BY <1>1
  <2> QED  BY <2>2, <2>3, <2>4 DEF HasIns
<1>4. ASSUME NEW k \in Int, 1 <= k, k <= l.load.trueval.len + l.sd.trueval
      PROVE  m[TrueAt(l) + by + 2 + k - 1] = StorePc(l, "trueval", k)
  <2>1. m[TrueAt(l) + 1 + k + by] = Emitted(l)[TrueAt(l) + 1 + k]
    BY <1>1, <1>2, <1>4
  <2>2. TrueAt(l) + 1 + k + by = TrueAt(l) + by + 2 + k - 1
    BY <1>1
  <2> QED  BY <1>4, <2>1, <2>2, EmittedTrue
<1>5. StoresPc(m, l, "trueval", TrueAt(l) + by + 2)
  BY <1>4 DEF StoresPc
<1> QED  BY <1>1, <1>2, <1>3, <1>5 DEF by

-----------------------------------------------------------------------------
(* The thread executes an instruction                                        *)

\* The thread executes an instruction.
Exec == ExecAuipc \/ ExecLoad \/ ExecStore \/ ExecNop \/ ExecJump \/ ExecBranch

\* The instruction at the thread's position.
LEMMA Executed ==
    ASSUME NEW op, NEW arg, NEW size, HasIns(code, at, Ins(op, arg, size))
    PROVE  /\ code[at].ins = Ins(op, arg, size)
           /\ code[at].ins.op = op /\ code[at].ins.arg = arg /\ code[at].ins.size = size
           /\ Decodes(code, at)
           /\ ins.op = op /\ ins.arg = arg /\ ins.size = size
  BY DEF HasIns, Half, Ins, Decodes, ins

\* Executing an instruction changes no code.
LEMMA ExecFrame ==
    ASSUME Exec
    PROVE  UNCHANGED <<code, failed, chained, layout, side>>
  BY DEF Exec, ExecAuipc, ExecLoad, ExecStore, ExecNop, ExecJump, ExecBranch, patched

\* What each instruction does to the thread that executes it (AUIPC)
LEMMA AtAuipc ==
    ASSUME NEW off, HasIns(code, at, Auipc(off)), Exec
    PROVE  a1' = at + off /\ at' = at + 2 /\ UNCHANGED <<reg, pc>>
  BY Executed DEF Auipc, Exec, ExecAuipc, ExecLoad, ExecStore, ExecNop, ExecJump, ExecBranch,
                 Fetch, after

\* (loads, which leave part of an address in a register)
LEMMA AtLoad ==
    ASSUME NEW arg, NEW size, HasIns(code, at, Ins("li", arg, size)), Exec
    PROVE  /\ at' = at + size /\ UNCHANGED <<a1, pc>>
           /\ reg' = [side |-> arg, n |-> (IF reg.side = arg THEN reg.n ELSE 0) + size]
  BY Executed DEF Exec, ExecAuipc, ExecLoad, ExecStore, ExecNop, ExecJump, ExecBranch,
                 Fetch, after

\* (stores to the PC)
LEMMA AtStore ==
    ASSUME NEW arg, NEW size, HasIns(code, at, Ins("sd", arg, size)), Exec
    PROVE  pc' = reg /\ at' = at + size /\ UNCHANGED <<a1, reg>>
  BY Executed DEF Exec, ExecAuipc, ExecLoad, ExecStore, ExecNop, ExecJump, ExecBranch,
                 Fetch, after

\* (NOPs)
LEMMA AtNop ==
    ASSUME NEW size, HasIns(code, at, Nop(size)), Exec
    PROVE  at' = at + size /\ UNCHANGED <<a1, reg, pc>>
  BY Executed DEF Nop, Exec, ExecAuipc, ExecLoad, ExecStore, ExecNop, ExecJump, ExecBranch,
                 Fetch, after

\* (jumps to a fixed place)
LEMMA AtJump ==
    ASSUME NEW off, NEW size, HasIns(code, at, Ins("j", off, size)), Exec
    PROVE  at' = at + off /\ UNCHANGED <<a1, reg, pc>>
  BY Executed DEF Exec, ExecAuipc, ExecLoad, ExecStore, ExecNop, ExecJump, ExecBranch,
                 Fetch, after

\* (jumps to a place relative to A1)
LEMMA AtJumpReg ==
    ASSUME NEW off, NEW size, HasIns(code, at, Ins("jr", off, size)), Exec
    PROVE  at' = a1 + off /\ UNCHANGED <<a1, reg, pc>>
  BY Executed DEF Exec, ExecAuipc, ExecLoad, ExecStore, ExecNop, ExecJump, ExecBranch,
                 Fetch, after

\* (branches)
LEMMA AtBranch ==
    ASSUME NEW op \in {"beqz", "bnez"}, NEW off, NEW size,
           HasIns(code, at, Ins(op, off, size)), Exec
    PROVE  /\ UNCHANGED <<a1, reg, pc>>
           /\ at' = IF (side = "trueval") = (op = "bnez") THEN at + off ELSE at + size
  BY Executed DEF Exec, ExecAuipc, ExecLoad, ExecStore, ExecNop, ExecJump, ExecBranch,
                 Fetch, after

\* (and the end of the block, which Chain executes)
LEMMA AtRest ==
    ASSUME HasIns(code, at, Ins("rest", 0, 1))
    PROVE  ~Exec
  BY Executed DEF Exec, ExecAuipc, ExecLoad, ExecStore, ExecNop, ExecJump, ExecBranch,
                 Fetch, after

\* What holds of the code.
Code == /\ layout \in Layouts /\ side \in Sides(layout)
        /\ CodeInv(code, layout, chained) /\ at \in Int

\* An unconditional exit has no side to move.
LEMMA Uncond ==
    ASSUME NEW m, NEW l \in Layouts, NEW ch, CodeInv(m, l, ch), ~l.cond
    PROVE  /\ "falseval" \notin ch /\ Moved(m, l, ch) = 0 /\ TrueNow(m, l, ch) = 0
           /\ TrueJump(m, l, ch) = 0
<1>1. "falseval" \notin ch
  BY DEF CodeInv, Sides, Side
<1> QED  BY <1>1, Places DEF Moved, Skipped, Branches, TrueNow, TrueJump

\* Only a conditional exit has a false side.
LEMMA SideFacts ==
    ASSUME NEW l \in Layouts, NEW s \in Sides(l)
    PROVE  s \in Side /\ (s = "trueval" \/ (s = "falseval" /\ l.cond))
  BY DEF Sides, Side

\* A thread on its way to the block of its side arrives.
LEMMA LeavingStep ==
    ASSUME Code, Leaving, Exec
    PROVE  Leaving'
<1> DEFINE to == layout.to[side]
<1>0. /\ side \in Side /\ to \in Int /\ (to < -2 \/ End(layout) + 1 < to)
      /\ End(layout) \in Int /\ at \in Int
  BY SideFacts, Elsewhere, Places DEF Code
<1>1. side' = side /\ chained' = chained /\ layout' = layout /\ code' = code
  BY ExecFrame
<1>2. at # to
  <2>1. at \in DOMAIN code
    BY DEF Exec, ExecAuipc, ExecLoad, ExecStore, ExecNop, ExecJump, ExecBranch, Fetch
  <2> QED  BY <2>1, <1>0, Ranges DEF Code
<1> HIDE DEF to
<1>3. ASSUME IsJump(code, at, to) PROVE at' = to
  <2>1. PICK size \in {1, 2} : HasIns(code, at, Ins("j", to - at, size))
    BY <1>3 DEF IsJump
  <2>2. at' = at + (to - at)
    BY <2>1, AtJump
  <2> QED  BY <2>2, <1>0
<1>4. ASSUME IsLongJump(code, at, to)
      PROVE  at' = at + 2 /\ at' \in Int /\ a1' \in Int /\ IsJumpReg(code, at', to - a1')
  <2>1. PICK off \in Int : /\ HasIns(code, at, Auipc(off))
                           /\ IsJumpReg(code, at + 2, to - (at + off))
    BY <1>4 DEF IsLongJump
  <2>2. a1' = at + off /\ at' = at + 2
    BY <2>1, AtAuipc
  <2> QED  BY <1>0, <2>1, <2>2
<1>5. ASSUME a1 \in Int, IsJumpReg(code, at, to - a1) PROVE at' = to
  <2>1. PICK size \in {1, 2} : HasIns(code, at, Ins("jr", to - a1, size))
    BY <1>5 DEF IsJumpReg
  <2>2. at' = a1 + (to - a1)
    BY <2>1, AtJumpReg
  <2> QED  BY <1>0, <1>5, <2>2
<1>6. at' = to => Leaving'
  BY <1>1 DEF Leaving, to
<1>7. CASE IsJump(code, at, to)
  BY <1>3, <1>6, <1>7
<1>8. CASE 0 <= at /\ at <= End(layout) - 2 /\ IsLongJump(code, at, to)
  <2>1. at' \in Int /\ 0 <= at' /\ at' <= End(layout)
    BY <1>0, <1>4, <1>8
  <2> QED  BY <1>1, <1>4, <1>8, <2>1 DEF Leaving, to
<1>9. CASE a1 \in Int /\ IsJumpReg(code, at, to - a1)
  BY <1>5, <1>6, <1>9
<1> QED  BY <1>2, <1>7, <1>8, <1>9 DEF Leaving, Direct, to

\* A thread in the code that loads and stores an address.
LEMMA LoadingStep ==
    ASSUME Code, NEW s \in Side, NEW start \in Int, StoresPc(code, layout, s, start),
           Loading(s, start), Exec
    PROVE  /\ a1' = a1
           /\ \/ Loading(s, start)'
              \/ /\ at' = start + layout.load[s].len + layout.sd[s]
                 /\ pc' = AddressOf(s)'
<1> DEFINE h == layout.load[s]
           k == at - start
<1>0. /\ side' = side /\ chained' = chained /\ layout' = layout /\ code' = code
      /\ layout \in Layouts /\ at \in Int
  BY ExecFrame DEF Code
<1>1. /\ h.len \in Int /\ 0 < h.len /\ layout.sd[s] \in Int
      /\ \A i \in h.seconds : i \in Int /\ 2 <= i /\ i <= h.len
  BY <1>0, LoadShape, SideFields DEF Side
<1>2. /\ k \in Int /\ 0 <= k /\ k <= h.len /\ k + 1 \notin h.seconds /\ at = start + k
      /\ reg = IF k = 0 THEN Nothing ELSE [side |-> SideNumber(s), n |-> k]
  BY <1>0 DEF Loading
<1> HIDE DEF k
<1>3. CASE k < h.len
  <2>1. PICK size \in {1, 2} : /\ HasIns(code, at, Ins("li", SideNumber(s), size))
                               /\ k + size <= h.len /\ k + size + 1 \notin h.seconds
    BY <1>0, <1>2, <1>3, StoresPcParts
  <2>2. /\ at' = at + size /\ a1' = a1
        /\ reg' = [side |-> SideNumber(s),
                   n |-> (IF reg.side = SideNumber(s) THEN reg.n ELSE 0) + size]
    BY <2>1, AtLoad
  <2>3. (IF reg.side = SideNumber(s) THEN reg.n ELSE 0) = k
    BY <1>2 DEF Nothing
  <2>4. reg' = [side |-> SideNumber(s), n |-> k + size]
    BY <2>2, <2>3
  <2>5. at' - start = k + size /\ k + size # 0 /\ at' \in Int
    BY <1>0, <1>2, <2>2
  <2>6. Loading(s, start)'
    <3>1. /\ 0 <= k + size /\ k + size <= h.len
          /\ layout'.load[s] = h
      BY <1>0, <1>2, <2>1
    <3> QED  BY <2>1, <2>4, <2>5, <3>1 DEF Loading
  <2> QED  BY <2>2, <2>6
<1>4. CASE k = h.len
  <2>1. HasIns(code, at, Ins("sd", 0, layout.sd[s]))
    BY <1>0, <1>2, <1>4, StoresPcParts
  <2>2. pc' = reg /\ at' = at + layout.sd[s] /\ a1' = a1
    BY <2>1, AtStore
  <2>3. reg = [side |-> SideNumber(s), n |-> h.len]
    BY <1>1, <1>2, <1>4
  <2>4. at' = start + h.len + layout.sd[s]
    BY <1>1, <1>2, <1>4, <2>2
  <2> QED  BY <1>0, <2>2, <2>3, <2>4 DEF AddressOf
<1> QED  BY <1>1, <1>2, <1>3, <1>4

\* A thread in the true side, which has not been patched.
LEMMA InTrueStep ==
    ASSUME Code, InTrue, Exec
    PROVE  InTrue'
<1> DEFINE N == TrueNow(code, layout, chained)
           by == Moved(code, layout, chained)
<1>0. /\ side' = side /\ chained' = chained /\ layout' = layout /\ code' = code
      /\ layout \in Layouts /\ CodeInv(code, layout, chained)
  BY ExecFrame DEF Code
<1>1. /\ side = "trueval" /\ "trueval" \notin chained /\ a1 = N
      /\ \/ Loading("trueval", N + 2)
         \/ layout.cond /\ pc = AddressOf("trueval") /\ at = TrueEnd(layout) + by
         \/ at = End(layout) /\ pc = AddressOf("trueval")
  BY DEF InTrue
<1>2. /\ N \in Int /\ by \in Int /\ N = TrueAt(layout) + by /\ End(layout) \in Int
      /\ TrueEnd(layout) = TrueAt(layout) + 2 + layout.load.trueval.len + layout.sd.trueval
      /\ TrueAt(layout) \in Int /\ layout.load.trueval.len \in Int /\ layout.sd.trueval \in Int
      /\ (~layout.cond => by = 0 /\ End(layout) = TrueEnd(layout))
  BY <1>0, MovedFacts, Places, SideFields, Uncond
<1>3. N' = N /\ by' = by /\ AddressOf("trueval")' = AddressOf("trueval")
  BY <1>0 DEF AddressOf
<1> HIDE DEF N, by
<1>4. ASSUME NEW start, start = N + 2, Loading("trueval", start) PROVE InTrue'
  <2>1. /\ a1' = a1
        /\ \/ Loading("trueval", start)'
           \/ /\ at' = N + 2 + layout.load.trueval.len + layout.sd.trueval
              /\ pc' = AddressOf("trueval")'
    <3>1. StoresPc(code, layout, "trueval", start) /\ start \in Int
      BY <1>0, <1>1, <1>2, <1>4, TrueParts DEF N
    <3> QED  BY <1>4, <3>1, LoadingStep DEF Side
  <2>2. CASE Loading("trueval", start)'
    <3>1. start = TrueNow(code', layout', chained') + 2
      BY <1>3, <1>4 DEF N
    <3>2. Loading("trueval", TrueNow(code, layout, chained) + 2)'
      BY <2>2, <3>1 DEF Loading
    <3> QED  BY <1>0, <1>1, <1>3, <2>1, <3>2 DEF InTrue, N
  <2>3. CASE /\ at' = N + 2 + layout.load.trueval.len + layout.sd.trueval
             /\ pc' = AddressOf("trueval")'
    <3>1. at' = TrueEnd(layout) + by
      BY <1>2, <2>3
    <3>2. ~layout.cond => at' = End(layout)
      BY <1>2, <3>1
    <3> QED  BY <1>0, <1>1, <1>3, <2>1, <2>3, <3>1, <3>2 DEF InTrue, N, by
  <2> QED  BY <2>1, <2>2, <2>3
<1>5. CASE layout.cond /\ pc = AddressOf("trueval") /\ at = TrueEnd(layout) + by
  <2>1. HasIns(code, at, Ins("j", End(layout) - TrueEnd(layout) - by, 1))
    BY <1>0, <1>1, <1>5, TrueParts DEF by
  <2>2. /\ at' = at + (End(layout) - TrueEnd(layout) - by)
        /\ a1' = a1 /\ pc' = pc
    BY <2>1, AtJump
  <2>3. at' = End(layout)
    BY <1>2, <1>5, <2>2, Places, <1>0
  <2> QED  BY <1>0, <1>1, <1>3, <1>5, <2>2, <2>3 DEF InTrue, N
<1>6. CASE at = End(layout)
  BY <1>0, <1>2, <1>6, RestParts, AtRest
<1> QED  BY <1>1, <1>4, <1>5, <1>6

\* A thread in the false side, which has not been patched.
LEMMA InFalseStep ==
    ASSUME Code, InFalse, Exec
    PROVE  InFalse'
<1>0. /\ side' = side /\ chained' = chained /\ layout' = layout /\ code' = code
      /\ layout \in Layouts /\ CodeInv(code, layout, chained)
  BY ExecFrame DEF Code
<1>1. /\ layout.cond /\ side = "falseval" /\ "falseval" \notin chained /\ a1 = 0
      /\ \/ Loading("falseval", FalseAt(layout))
         \/ FalseEnd(layout) <= at /\ at <= End(layout) /\ pc = AddressOf("falseval")
  BY DEF InFalse
<1>2. /\ FalseAt(layout) \in Int /\ FalseEnd(layout) \in Int /\ End(layout) \in Int
      /\ FalseEnd(layout) = FalseAt(layout) + layout.load.falseval.len + layout.sd.falseval
      /\ layout.cond => FalseEnd(layout) <= End(layout)
  BY <1>0, Places
<1>3. AddressOf("falseval")' = AddressOf("falseval")
  BY <1>0 DEF AddressOf
<1>4. CASE Loading("falseval", FalseAt(layout))
  <2>1. /\ a1' = a1
        /\ \/ Loading("falseval", FalseAt(layout))'
           \/ /\ at' = FalseAt(layout) + layout.load.falseval.len + layout.sd.falseval
              /\ pc' = AddressOf("falseval")'
    <3>1. StoresPc(code, layout, "falseval", FalseAt(layout))
      BY <1>0, <1>1, FalseParts
    <3> QED  BY <1>2, <1>4, <3>1, <1>0, LoadingStep DEF Side
  <2>2. CASE Loading("falseval", FalseAt(layout))'
    BY <1>0, <1>1, <2>1, <2>2 DEF InFalse
  <2>3. CASE /\ at' = FalseAt(layout) + layout.load.falseval.len + layout.sd.falseval
             /\ pc' = AddressOf("falseval")'
    <3>1. /\ at' = FalseEnd(layout) /\ FalseEnd(layout) <= FalseEnd(layout)
          /\ FalseEnd(layout) <= End(layout)
      BY <1>1, <1>2, <2>3
    <3> QED  BY <1>0, <1>1, <2>1, <2>3, <3>1 DEF InFalse
  <2> QED  BY <2>1, <2>2, <2>3
<1>5. CASE FalseEnd(layout) <= at /\ at < End(layout) /\ pc = AddressOf("falseval")
  <2>0. at \in Int
    BY DEF Code
  <2>1. HasIns(code, at, Nop(1))
    BY <1>0, <1>1, <1>5, <2>0, FalseParts
  <2>2. at' = at + 1 /\ a1' = a1 /\ pc' = pc
    BY <2>1, AtNop
  <2>3. FalseEnd(layout) <= at' /\ at' <= End(layout)
    BY <1>2, <1>5, <2>0, <2>2
  <2> QED  BY <1>0, <1>1, <1>3, <1>5, <2>2, <2>3 DEF InFalse
<1>6. CASE at = End(layout)
  BY <1>0, <1>2, <1>6, RestParts, AtRest
<1>7. at \in Int
  BY DEF Code
<1> QED  BY <1>1, <1>2, <1>4, <1>5, <1>6, <1>7

\* A branch that has not been inverted skips nothing,
LEMMA NotSkipped ==
    ASSUME NEW m, NEW l \in Layouts, NEW ch, ~Skipped(m, ch)
    PROVE  Moved(m, l, ch) = 0 /\ TrueNow(m, l, ch) = TrueAt(l)
  BY Places DEF Moved, TrueNow

\* and one that has been inverted does not go to a block.
LEMMA NotBranches ==
    ASSUME NEW m, NEW l \in Layouts, NEW ch, ~Branches(m, ch)
    PROVE  TrueJump(m, l, ch) = TrueNow(m, l, ch)
  BY DEF TrueJump

\* The branch to the block of the false side, and its NOP.
LEMMA NearFacts ==
    ASSUME NEW l \in Layouts
    PROVE  /\ Near(l) = Ins("beqz", l.to.falseval, Near(l).size)
           /\ NearNop(l) = Nop(NearNop(l).size)
           /\ Near(l).size \in {1, 2} /\ NearNop(l).size \in {1, 2}
           /\ Pad(l) = Near(l).size + NearNop(l).size
           /\ l.branch = 1 => Pad(l) = 3
           /\ l.branch = 2 => Pad(l) = 4 /\ Near(l).size = 2
           /\ Near(l).size = 1 => NearNop(l).size = 2
<1>1. l.branch \in {1, 2}
  BY SideFields
<1> QED  BY <1>1 DEF Near, NearNop, Pad, Branch, Nop, Ins

\* The code, as it is after an instruction has been executed.
LEMMA Frame ==
    ASSUME Code, Exec
    PROVE  /\ side' = side /\ chained' = chained /\ layout' = layout /\ code' = code
           /\ layout \in Layouts /\ side \in Sides(layout) /\ CodeInv(code, layout, chained)
           /\ at \in Int
  BY ExecFrame DEF Code

\* The true side is entered at its AUIPC, or left by the jump that replaced it.
LEMMA AtTrueStep ==
    ASSUME Code, AtTrue, Exec
    PROVE  InTrue' \/ Leaving'
<1> DEFINE N == TrueNow(code, layout, chained)
<1>1. /\ side' = side /\ chained' = chained /\ layout' = layout /\ code' = code
      /\ layout \in Layouts /\ CodeInv(code, layout, chained)
  BY Frame
<1>2. /\ side = "trueval" /\ at = N /\ reg = Nothing
      /\ TrueJump(code, layout, chained) = N
  BY DEF AtTrue
<1>3. N \in Int /\ 0 <= N /\ N <= End(layout) - 2
  BY <1>1, MovedFacts, Places
<1>4. CASE "trueval" \in chained
  <2>1. Direct(code, N, layout.to.trueval)
    BY <1>1, <1>2, <1>4 DEF CodeInv, TrueInv
  <2>2. Leaving
    BY <1>2, <1>3, <1>4, <2>1 DEF Leaving
  <2> QED  BY <2>2, LeavingStep
<1>5. CASE "trueval" \notin chained
  <2>1. HasIns(code, at, Auipc(0))
    BY <1>1, <1>2, <1>5, TrueParts
  <2>2. a1' = at + 0 /\ at' = at + 2 /\ reg' = reg
    BY <2>1, AtAuipc
  <2>3. /\ at' \in Int /\ a1' = TrueNow(code', layout', chained')
        /\ at' - (TrueNow(code', layout', chained') + 2) = 0
    BY <1>1, <1>2, <1>3, <2>2
  <2>4. 0 < layout.load.trueval.len /\ 1 \notin layout.load.trueval.seconds
    BY <1>1, LoadShape DEF Side
  <2>5. Loading("trueval", TrueNow(code, layout, chained) + 2)'
    <3>1. /\ reg' = Nothing /\ layout'.load["trueval"] = layout.load["trueval"]
          /\ 0 <= layout.load["trueval"].len /\ 0 + 1 \notin layout.load["trueval"].seconds
      BY <1>1, <1>2, <2>2, <2>4, LoadShape DEF Side
    <3> QED  BY <2>3, <3>1 DEF Loading
  <2> QED  BY <1>1, <1>2, <1>5, <2>3, <2>5 DEF InTrue
<1> QED  BY <1>4, <1>5

\* A thread that enters the exit.
LEMMA AtExitStep ==
    ASSUME Code, AtExit, Exec
    PROVE  Where'
<1>1. /\ side' = side /\ chained' = chained /\ layout' = layout /\ code' = code
      /\ layout \in Layouts /\ CodeInv(code, layout, chained)
      /\ layout.cond \in BOOLEAN
      /\ side = "trueval" \/ (side = "falseval" /\ layout.cond)
  BY Frame, SideFacts, SideFields
<1>2. at = 0 /\ reg = Nothing
  BY DEF AtExit
<1>3. End(layout) \in Int /\ End(layout) >= 4 /\ layout.branch \in {1, 2}
      /\ layout.to.falseval \in Int /\ layout.to.trueval \in Int
  BY <1>1, Places, SideFields
<1>4. CASE ~layout.cond
  <2>1. AtTrue
    BY <1>1, <1>2, <1>4, Uncond DEF AtTrue
  <2> QED  BY <2>1, AtTrueStep DEF Where
<1>5. CASE layout.cond /\ "falseval" \notin chained
  <2>1. HasIns(code, at, Auipc(0))
    BY <1>1, <1>2, <1>5, FalseParts
  <2>2. a1' = 0 /\ at' = 2 /\ reg' = reg
    BY <1>2, <2>1, AtAuipc
  <2> QED  BY <1>1, <1>2, <1>5, <2>2 DEF InCommon, Where
<1>6. CASE layout.cond /\ Skipped(code, chained)
  <2> DEFINE N == TrueNow(code, layout, chained)
  <2>1. /\ HasIns(code, 0, Ins("bnez", N, layout.branch))
        /\ Direct(code, layout.branch, layout.to.falseval)
        /\ "falseval" \in chained
    BY <1>1, <1>6 DEF CodeInv, FalseInv, FalseSkipped, Skipped, Direct
  <2>2. TrueJump(code, layout, chained) = N /\ N \in Int
    BY <1>1, <1>6, MovedFacts DEF TrueJump, Branches, Skipped
  <2>3. /\ reg' = reg
        /\ at' = IF side = "trueval" THEN 0 + N ELSE 0 + layout.branch
    BY <1>1, <1>2, <2>1, AtBranch
  <2>4. CASE side = "trueval"
    <3>1. at' = TrueNow(code', layout', chained')
      BY <1>1, <2>2, <2>3, <2>4
    <3>2. AtTrue'
      BY <1>1, <1>2, <2>2, <2>3, <2>4, <3>1 DEF AtTrue
    <3> QED  BY <3>2 DEF Where
  <2>5. CASE side = "falseval"
    <3>1. /\ at' \in Int /\ at' = layout.branch
          /\ 0 <= layout.branch /\ layout.branch <= End(layout) - 2
      BY <1>3, <2>3, <2>5
    <3>2. Leaving'
      BY <1>1, <2>1, <2>5, <3>1 DEF Leaving
    <3> QED  BY <3>2 DEF Where
  <2> QED  BY <1>1, <2>4, <2>5
<1>7. CASE layout.cond /\ Branches(code, chained)
  <2> DEFINE size == Near(layout).size
  <2>1. /\ HasIns(code, 0, Near(layout)) /\ "falseval" \in chained
        /\ TrueJump(code, layout, chained) # TrueAt(layout) =>
              TrueJump(code, layout, chained) = size
    BY <1>1, <1>7 DEF CodeInv, FalseInv, FalseBranches, Branches
  <2>2. Near(layout) = Ins("beqz", layout.to.falseval, size) /\ size \in {1, 2}
    BY <1>1, NearFacts
  <2> HIDE DEF size
  <2>3. /\ reg' = reg
        /\ at' = IF side = "trueval" THEN 0 + size ELSE 0 + layout.to.falseval
    BY <1>1, <1>2, <2>1, <2>2, AtBranch
  <2>4. CASE side = "falseval"
    <3>1. at' = layout.to.falseval
      BY <1>3, <2>3, <2>4
    <3>2. Leaving'
      BY <1>1, <2>1, <2>4, <3>1 DEF Leaving
    <3> QED  BY <3>2 DEF Where
  <2>5. CASE side = "trueval" /\ TrueJump(code, layout, chained) = TrueAt(layout)
    <3>1. at' = Near(layout).size
      BY <2>2, <2>3, <2>5 DEF size
    <3>2. BehindBranch'
      BY <1>1, <1>2, <1>7, <2>3, <2>5, <3>1 DEF BehindBranch
    <3> QED  BY <3>2 DEF Where
  <2>6. CASE side = "trueval" /\ TrueJump(code, layout, chained) # TrueAt(layout)
    <3>1. ~Skipped(code, chained)
      BY <1>7 DEF Skipped, Branches
    <3>2. "trueval" \in chained /\ Direct(code, size, layout.to.trueval)
      BY <1>1, <2>1, <2>6, <3>1, NotSkipped DEF CodeInv, TrueInv
    <3>3. at' \in Int /\ at' = size /\ 0 <= size /\ size <= End(layout) - 2
      BY <1>3, <2>2, <2>3, <2>6
    <3>4. Leaving'
      BY <1>1, <2>6, <3>2, <3>3 DEF Leaving
    <3> QED  BY <3>4 DEF Where
  <2> QED  BY <1>1, <2>4, <2>5, <2>6
<1> QED  BY <1>1, <1>4, <1>5, <1>6, <1>7 DEF Skipped, Branches

\* A thread at the branch or behind it.
LEMMA InCommonStep ==
    ASSUME Code, InCommon, Exec
    PROVE  Where'
<1>1. /\ side' = side /\ chained' = chained /\ layout' = layout /\ code' = code
      /\ layout \in Layouts /\ CodeInv(code, layout, chained)
      /\ side = "trueval" \/ (side = "falseval" /\ layout.cond)
      /\ at \in Int
  BY Frame, SideFacts
<1>2. /\ layout.cond /\ reg = Nothing /\ "falseval" \notin chained
      /\ \/ at = 2 /\ a1 = 0
         \/ 2 + layout.branch <= at /\ at < TrueAt(layout) /\ side = "trueval"
  BY DEF InCommon
<1>3. /\ TrueAt(layout) \in Int /\ layout.branch \in {1, 2} /\ 2 + layout.branch <= TrueAt(layout)
      /\ FalseAt(layout) \in Int
  BY <1>1, <1>2, Places, SideFields
<1>4. /\ TrueNow(code, layout, chained) = TrueAt(layout)
      /\ TrueJump(code, layout, chained) = TrueAt(layout)
  BY <1>1, <1>2, NotSkipped, NotBranches DEF Skipped, Branches
<1>5. ASSUME reg' = reg, side = "trueval", at' \in Int,
             2 + layout.branch <= at', at' <= TrueAt(layout)
      PROVE  Where'
  <2>1. CASE at' = TrueAt(layout)
    <3>1. AtTrue'
      BY <1>1, <1>2, <1>4, <1>5, <2>1 DEF AtTrue
    <3> QED  BY <3>1 DEF Where
  <2>2. CASE at' < TrueAt(layout)
    <3>1. InCommon'
      BY <1>1, <1>2, <1>5, <2>2 DEF InCommon
    <3> QED  BY <3>1 DEF Where
  <2> QED  BY <1>3, <1>5, <2>1, <2>2
<1>6. CASE at = 2 /\ a1 = 0
  <2>1. HasIns(code, at, Ins("beqz", FalseAt(layout) - 2, layout.branch))
    BY <1>1, <1>2, <1>6, FalseParts
  <2>2. /\ reg' = reg /\ a1' = a1
        /\ at' = IF side = "trueval" THEN at + layout.branch ELSE at + (FalseAt(layout) - 2)
    BY <1>1, <2>1, AtBranch
  <2>3. CASE side = "trueval"
    <3>1. at' \in Int /\ 2 + layout.branch <= at' /\ at' <= TrueAt(layout)
      BY <1>3, <1>6, <2>2, <2>3
    <3> QED  BY <1>5, <2>2, <2>3, <3>1
  <2>4. CASE side = "falseval"
    <3>1. at' \in Int /\ at' - FalseAt(layout) = 0
      BY <1>3, <1>6, <2>2, <2>4
    <3>2. /\ reg' = Nothing /\ layout'.load["falseval"] = layout.load["falseval"]
          /\ 0 <= layout.load["falseval"].len /\ 0 + 1 \notin layout.load["falseval"].seconds
      BY <1>1, <1>2, <2>2, LoadShape DEF Side
    <3>3. Loading("falseval", FalseAt(layout))'
      BY <1>1, <3>1, <3>2 DEF Loading
    <3>4. InFalse'
      BY <1>1, <1>2, <1>6, <2>2, <2>4, <3>3 DEF InFalse
    <3> QED  BY <3>4 DEF Where
  <2> QED  BY <1>1, <2>3, <2>4
<1>7. CASE 2 + layout.branch <= at /\ at < TrueAt(layout) /\ side = "trueval"
  <2>0. at \in Int
    BY DEF Code
  <2>1. HasIns(code, at, Nop(1))
    BY <1>1, <1>2, <1>7, <2>0, FalseParts
  <2>2. at' = at + 1 /\ reg' = reg
    BY <2>1, AtNop
  <2>3. at' \in Int /\ 2 + layout.branch <= at' /\ at' <= TrueAt(layout)
    BY <1>3, <1>7, <2>0, <2>2
  <2> QED  BY <1>5, <1>7, <2>2, <2>3
<1> QED  BY <1>2, <1>6, <1>7

\* A thread behind the branch to the block of the false side.
LEMMA BehindBranchStep ==
    ASSUME Code, BehindBranch, Exec
    PROVE  Where'
<1>1. /\ side' = side /\ chained' = chained /\ layout' = layout /\ code' = code
      /\ layout \in Layouts /\ CodeInv(code, layout, chained)
  BY Frame
<1>2. /\ layout.cond /\ reg = Nothing /\ Branches(code, chained)
      /\ side = "trueval" /\ TrueJump(code, layout, chained) = TrueAt(layout)
      /\ \/ at = Near(layout).size
         \/ at = Pad(layout) /\ TrueAt(layout) = Pad(layout) + 1
  BY DEF BehindBranch
<1>3. /\ HasIns(code, Near(layout).size, NearNop(layout))
      /\ TrueAt(layout) = Pad(layout)
            \/ (TrueAt(layout) = Pad(layout) + 1 /\ HasIns(code, Pad(layout), Nop(1)))
  BY <1>1, <1>2 DEF CodeInv, FalseInv, FalseBranches
<1>4. /\ NearNop(layout) = Nop(NearNop(layout).size)
      /\ Pad(layout) = Near(layout).size + NearNop(layout).size
      /\ TrueAt(layout) \in Int /\ Near(layout).size \in Int /\ NearNop(layout).size \in Int
      /\ Pad(layout) \in Int
  BY <1>1, NearFacts, Places
<1>5. TrueNow(code, layout, chained) = TrueAt(layout)
  BY <1>1, <1>2, NotSkipped DEF Skipped, Branches
<1>6. ASSUME at' = TrueAt(layout), reg' = reg PROVE Where'
  <2>1. AtTrue'
    BY <1>1, <1>2, <1>5, <1>6 DEF AtTrue
  <2> QED  BY <2>1 DEF Where
<1>7. CASE at = Near(layout).size
  <2>1. at' = Pad(layout) /\ reg' = reg
    BY <1>3, <1>4, <1>7, AtNop
  <2>2. CASE TrueAt(layout) = Pad(layout)
    BY <1>6, <2>1, <2>2
  <2>3. CASE TrueAt(layout) = Pad(layout) + 1
    <3>1. BehindBranch'
      BY <1>1, <1>2, <2>1, <2>3 DEF BehindBranch
    <3> QED  BY <3>1 DEF Where
  <2> QED  BY <1>3, <2>2, <2>3
<1>8. CASE at = Pad(layout) /\ TrueAt(layout) = Pad(layout) + 1
  <2>1. HasIns(code, at, Nop(1))
    BY <1>3, <1>4, <1>8
  <2>2. at' = Pad(layout) + 1 /\ reg' = reg
    BY <1>8, <2>1, AtNop
  <2> QED  BY <1>6, <1>8, <2>2
<1> QED  BY <1>2, <1>7, <1>8

\* Every instruction leaves the thread somewhere it may be.
LEMMA ExecStep ==
    ASSUME Code, Where, Exec
    PROVE  Where'
  BY AtExitStep, InCommonStep, BehindBranchStep, AtTrueStep, InTrueStep, InFalseStep, LeavingStep
     DEF Where

-----------------------------------------------------------------------------
(* The invariant implies the properties                                      *)

\* The thread is at an instruction of the exit, which does not end the block;
\* or it is at the end of the block.
Runs == \E op, arg, size : op # "rest" /\ HasIns(code, at, Ins(op, arg, size))

AtEnd == /\ at = End(layout) /\ pc = AddressOf(side) /\ side \notin chained
         /\ a1 = IF side = "trueval" THEN TrueNow(code, layout, chained) ELSE 0

Inside == 0 <= at /\ at <= End(layout) /\ (Runs \/ AtEnd)

\* The instructions that do not end the block.
LEMMA RunsHas ==
    ASSUME NEW op, NEW arg, NEW size, HasIns(code, at, Ins(op, arg, size)), op # "rest"
    PROVE  Runs
  BY DEF Runs

\* The jumps among them.
LEMMA DirectRuns ==
    ASSUME NEW d, Direct(code, at, d)
    PROVE  Runs
<1>1. CASE IsJump(code, at, d)
  BY <1>1, RunsHas DEF IsJump
<1>2. CASE IsLongJump(code, at, d)
  BY <1>2, RunsHas DEF IsLongJump, Auipc
<1> QED  BY <1>1, <1>2 DEF Direct

\* Those that load and store an address.
LEMMA LoadingRuns ==
    ASSUME Code, NEW s \in Side, NEW start \in Int, StoresPc(code, layout, s, start),
           Loading(s, start)
    PROVE  Runs /\ start <= at /\ at <= start + layout.load[s].len
<1> DEFINE h == layout.load[s]
           k == at - start
<1>0. layout \in Layouts /\ at \in Int
  BY DEF Code
<1>1. h.len \in Int /\ 0 < h.len
  BY <1>0, LoadShape
<1>2. /\ k \in Int /\ 0 <= k /\ k <= h.len /\ k + 1 \notin h.seconds /\ at = start + k
  BY <1>0 DEF Loading
<1> HIDE DEF k
<1>3. CASE k < h.len
  <2>1. PICK size \in {1, 2} : HasIns(code, at, Ins("li", SideNumber(s), size))
    BY <1>0, <1>2, <1>3, StoresPcParts
  <2> QED  BY <1>1, <1>2, <2>1, RunsHas
<1>4. CASE k = h.len
  <2>1. HasIns(code, at, Ins("sd", 0, layout.sd[s]))
    BY <1>0, <1>2, <1>4, StoresPcParts
  <2> QED  BY <1>1, <1>2, <1>4, <2>1, RunsHas
<1> QED  BY <1>1, <1>2, <1>3, <1>4

\* Wherever the thread may be, there is an instruction for it.
LEMMA Somewhere ==
    ASSUME Code, Where
    PROVE  Inside \/ (side \in chained /\ at = layout.to[side])
<1> DEFINE N == TrueNow(code, layout, chained)
<1>0. /\ layout \in Layouts /\ CodeInv(code, layout, chained) /\ at \in Int
      /\ side = "trueval" \/ (side = "falseval" /\ layout.cond)
      /\ layout.cond \in BOOLEAN /\ layout.branch \in {1, 2}
  BY SideFacts, SideFields DEF Code
<1>1. /\ TrueAt(layout) \in Int /\ TrueEnd(layout) \in Int /\ End(layout) \in Int
      /\ N \in Int /\ 0 <= N /\ N <= End(layout) - 2 /\ End(layout) >= 4
      /\ TrueAt(layout) <= End(layout)
  BY <1>0, Places, MovedFacts
<1>2. CASE AtTrue
  <2>1. CASE "trueval" \in chained
    <3>1. Direct(code, at, layout.to.trueval)
      BY <1>0, <1>2, <2>1 DEF CodeInv, TrueInv, AtTrue
    <3> QED  BY <1>1, <1>2, <3>1, DirectRuns DEF AtTrue, Inside
  <2>2. CASE "trueval" \notin chained
    <3>1. HasIns(code, at, Auipc(0))
      BY <1>0, <1>2, <2>2, TrueParts DEF AtTrue
    <3> QED  BY <1>1, <1>2, <3>1, RunsHas DEF AtTrue, Inside, Auipc
  <2> QED  BY <2>1, <2>2
<1>3. CASE AtExit
  <2>1. 0 <= at /\ at <= End(layout)
    BY <1>1, <1>3 DEF AtExit
  <2>2. CASE ~layout.cond
    <3>1. AtTrue
      BY <1>0, <1>3, <2>2, Uncond DEF AtTrue, AtExit
    <3> QED  BY <1>2, <3>1
  <2>3. CASE layout.cond /\ "falseval" \notin chained
    <3>1. HasIns(code, at, Auipc(0))
      BY <1>0, <1>3, <2>3, FalseParts DEF AtExit
    <3> QED  BY <2>1, <3>1, RunsHas DEF Inside, Auipc
  <2>4. CASE layout.cond /\ Skipped(code, chained)
    <3>1. HasIns(code, at, Ins("bnez", N, layout.branch))
      BY <1>0, <1>3, <2>4 DEF AtExit, CodeInv, FalseInv, FalseSkipped
    <3> QED  BY <2>1, <3>1, RunsHas DEF Inside
  <2>5. CASE layout.cond /\ Branches(code, chained)
    <3>1. HasIns(code, at, Near(layout))
      BY <1>0, <1>3, <2>5 DEF AtExit, CodeInv, FalseInv, FalseBranches
    <3>2. Near(layout) = Ins("beqz", layout.to.falseval, Near(layout).size)
      BY <1>0, NearFacts
    <3>3. HasIns(code, at, Ins("beqz", layout.to.falseval, Near(layout).size))
      BY <3>1, <3>2
    <3>4. Runs
      BY <3>3, RunsHas
    <3> QED  BY <2>1, <3>4 DEF Inside
  <2> QED  BY <1>0, <2>2, <2>3, <2>4, <2>5 DEF Skipped, Branches
<1>4. CASE InCommon
  <2>1. layout.cond /\ "falseval" \notin chained
    BY <1>4 DEF InCommon
  <2>2. CASE at = 2
    <3>1. HasIns(code, at, Ins("beqz", FalseAt(layout) - 2, layout.branch))
      BY <1>0, <2>1, <2>2, FalseParts
    <3> QED  BY <1>1, <2>2, <3>1, RunsHas DEF Inside
  <2>3. CASE 2 + layout.branch <= at /\ at < TrueAt(layout)
    <3>1. HasIns(code, at, Nop(1))
      BY <1>0, <2>1, <2>3, FalseParts
    <3>2. 0 <= at /\ at <= End(layout)
      BY <1>0, <1>1, <2>3
    <3> QED  BY <3>1, <3>2, RunsHas DEF Inside, Nop
  <2> QED  BY <1>4, <2>2, <2>3 DEF InCommon
<1>5. CASE BehindBranch
  <2>1. /\ HasIns(code, Near(layout).size, NearNop(layout))
        /\ TrueAt(layout) = Pad(layout) + 1 => HasIns(code, Pad(layout), Nop(1))
    BY <1>0, <1>1, <1>5 DEF BehindBranch, CodeInv, FalseInv, FalseBranches
  <2>2. /\ NearNop(layout) = Nop(NearNop(layout).size) /\ Near(layout).size \in {1, 2}
        /\ NearNop(layout).size \in {1, 2}
        /\ Pad(layout) = Near(layout).size + NearNop(layout).size
    BY <1>0, NearFacts
  <2>3. \E size : HasIns(code, at, Nop(size))
    BY <1>5, <2>1, <2>2 DEF BehindBranch
  <2>4. 0 <= at /\ at <= End(layout)
    BY <1>1, <1>5, <2>2 DEF BehindBranch
  <2> QED  BY <2>3, <2>4, RunsHas DEF Inside, Nop
<1>6. CASE InTrue
  <2>1. /\ side = "trueval" /\ "trueval" \notin chained /\ a1 = N
        /\ \/ Loading("trueval", N + 2)
           \/ layout.cond /\ at = TrueEnd(layout) + Moved(code, layout, chained)
           \/ at = End(layout) /\ pc = AddressOf("trueval")
    BY <1>6 DEF InTrue
  <2>2. CASE Loading("trueval", N + 2)
    <3>1. StoresPc(code, layout, "trueval", N + 2) /\ N + 2 \in Int
      BY <1>0, <1>1, <2>1, TrueParts
    <3>2. Runs /\ N + 2 <= at /\ at <= N + 2 + layout.load["trueval"].len
      BY <2>2, <3>1, LoadingRuns DEF Side
    <3>3. N + 2 + layout.load["trueval"].len <= End(layout)
      <4>1. CASE ~layout.cond
        BY <4>1, <1>0, Places, Uncond, SideFields
      <4>2. CASE layout.cond
        BY <4>2, <1>0, Places, MovedFacts, SideFields
      <4> QED  BY <4>1, <4>2
    <3>4. layout.load["trueval"].len \in Int
      BY <1>0, SideFields
    <3> QED  BY <1>0, <1>1, <3>2, <3>3, <3>4 DEF Inside
  <2>3. CASE layout.cond /\ at = TrueEnd(layout) + Moved(code, layout, chained)
    <3>1. \E off : HasIns(code, at, Ins("j", off, 1))
      BY <1>0, <2>1, <2>3, TrueParts
    <3>2. 0 <= at /\ at <= End(layout)
      BY <2>3, <1>0, Places, MovedFacts, SideFields
    <3> QED  BY <3>1, <3>2, RunsHas DEF Inside
  <2>4. CASE at = End(layout) /\ pc = AddressOf("trueval")
    BY <1>1, <2>1, <2>4 DEF Inside, AtEnd
  <2> QED  BY <2>1, <2>2, <2>3, <2>4
<1>7. CASE InFalse
  <2>1. /\ layout.cond /\ side = "falseval" /\ "falseval" \notin chained /\ a1 = 0
        /\ \/ Loading("falseval", FalseAt(layout))
           \/ FalseEnd(layout) <= at /\ at <= End(layout) /\ pc = AddressOf("falseval")
    BY <1>7 DEF InFalse
  <2>0. /\ FalseAt(layout) \in Int /\ FalseEnd(layout) \in Int /\ 0 <= FalseAt(layout)
        /\ FalseEnd(layout) = FalseAt(layout) + layout.load.falseval.len + layout.sd.falseval
        /\ FalseEnd(layout) <= End(layout)
        /\ layout.load["falseval"].len \in Int /\ 0 < layout.load["falseval"].len
        /\ layout.sd.falseval \in {1, 2}
    BY <1>0, <2>1, Places, SideFields
  <2>2. CASE Loading("falseval", FalseAt(layout))
    <3>1. StoresPc(code, layout, "falseval", FalseAt(layout))
      BY <1>0, <2>1, FalseParts
    <3>2. Runs /\ FalseAt(layout) <= at /\ at <= FalseAt(layout) + layout.load["falseval"].len
      BY <2>0, <2>2, <3>1, LoadingRuns DEF Side
    <3> QED  BY <1>0, <1>1, <2>0, <3>2 DEF Inside
  <2>3. CASE FalseEnd(layout) <= at /\ at < End(layout)
    <3>1. HasIns(code, at, Nop(1))
      BY <1>0, <2>1, <2>3, FalseParts
    <3> QED  BY <1>0, <1>1, <2>0, <2>3, <3>1, RunsHas DEF Inside, Nop
  <2>4. CASE at = End(layout) /\ pc = AddressOf("falseval")
    BY <1>1, <2>1, <2>4 DEF Inside, AtEnd
  <2> QED  BY <1>0, <1>1, <2>0, <2>1, <2>2, <2>3, <2>4
<1>8. CASE Leaving
  <2>1. CASE at = layout.to[side]
    BY <1>8, <2>1 DEF Leaving
  <2>2. CASE 0 <= at /\ at <= End(layout) - 2 /\ Direct(code, at, layout.to[side])
    BY <1>0, <1>1, <2>2, DirectRuns DEF Inside
  <2>3. CASE 0 <= at /\ at <= End(layout) /\ IsJumpReg(code, at, layout.to[side] - a1)
    BY <2>3, RunsHas DEF Inside, IsJumpReg
  <2> QED  BY <1>8, <2>1, <2>2, <2>3 DEF Leaving
<1> QED  BY <1>2, <1>3, <1>4, <1>5, <1>6, <1>7, <1>8 DEF Where

\* What the thread finds at the end of the block.
LEMMA AtEndFacts ==
    ASSUME Code, AtEnd
    PROVE  /\ HasIns(code, at, Ins("rest", 0, 1))
           /\ a1 \in Int /\ 0 <= a1 /\ a1 <= 7 /\ a1 + 4 <= End(layout)
           /\ side = "falseval" => layout.cond /\ a1 = 0 /\ HasIns(code, 0, Auipc(0))
           /\ side = "trueval" => HasIns(code, a1, Auipc(0))
<1>0. /\ layout \in Layouts /\ CodeInv(code, layout, chained) /\ at \in Int
      /\ side = "trueval" \/ (side = "falseval" /\ layout.cond)
      /\ at = End(layout) /\ side \notin chained
      /\ a1 = IF side = "trueval" THEN TrueNow(code, layout, chained) ELSE 0
  BY SideFacts DEF Code, AtEnd
<1>1. HasIns(code, at, Ins("rest", 0, 1))
  BY <1>0, RestParts
<1>2. CASE side = "trueval"
  <2>1. HasIns(code, a1, Auipc(0))
    BY <1>0, <1>2, TrueParts
  <2>2. /\ TrueAt(layout) \in Int /\ 0 <= TrueAt(layout) /\ TrueAt(layout) < 6
        /\ a1 = TrueAt(layout) + Moved(code, layout, chained)
        /\ Moved(code, layout, chained) = 0 \/ (Moved(code, layout, chained) = 2 /\ layout.cond)
    BY <1>0, <1>2, Places, MovedFacts
  <2>4. layout.cond => TrueAt(layout) + 6 <= End(layout)
    BY <1>0, Places, SideFields
  <2>5. ~layout.cond => TrueAt(layout) = 0 /\ 4 <= End(layout)
    BY <1>0, Places, SideFields
  <2>6. layout.cond \in BOOLEAN /\ End(layout) \in Int
    BY <1>0, SideFields, Places
  <2> QED  BY <1>1, <1>2, <2>1, <2>2, <2>4, <2>5, <2>6
<1>3. CASE side = "falseval"
  <2>1. HasIns(code, 0, Auipc(0))
    BY <1>0, <1>3, FalseParts
  <2>2. End(layout) \in Int /\ 4 <= End(layout)
    BY <1>0, Places
  <2> QED  BY <1>0, <1>1, <1>3, <2>1, <2>2
<1> QED  BY <1>0, <1>2, <1>3

\* The invariant implies what is promised of the exit,
LEMMA InvExit ==
    ASSUME Code, Where
    PROVE  ExitCorrect /\ ChainEffective
<1>0. /\ layout \in Layouts /\ CodeInv(code, layout, chained) /\ at \in Int
      /\ side \in Side /\ End(layout) \in Int
  BY SideFacts, Places DEF Code
<1>1. CASE Inside /\ Runs
  <2>1. PICK op, arg, size : op # "rest" /\ HasIns(code, at, Ins(op, arg, size))
    BY <1>1 DEF Runs
  <2>2. Decodes(code, at) /\ ins.op # "rest"
    BY <2>1, Executed
  <2>3. at \in DOMAIN code
    BY <1>0, <1>1, Ranges DEF Inside
  <2> QED  BY <2>2, <2>3 DEF ExitCorrect, ChainEffective
<1>2. CASE Inside /\ AtEnd
  <2>1. /\ HasIns(code, at, Ins("rest", 0, 1)) /\ a1 \in Int /\ 0 <= a1 /\ a1 + 4 <= End(layout)
        /\ HasIns(code, a1, Auipc(0))
    BY <1>0, <1>2, AtEndFacts DEF Side
  <2>2. Decodes(code, at)
    BY <2>1, Executed
  <2>3. at \in DOMAIN code
    BY <1>0, <1>2, Ranges DEF Inside
  <2>4. Last(layout) = End(layout) + 1
    BY DEF Last
  <2>5. a1 \in 0 .. Last(layout) /\ code[a1] = Half(Auipc(0), 1)
    BY <1>0, <2>1, <2>4 DEF HasIns
  <2> QED  BY <1>2, <2>2, <2>3, <2>5 DEF ExitCorrect, ChainEffective, AtEnd
<1>3. CASE side \in chained /\ at = layout.to[side]
  <2>1. at \notin DOMAIN code
    BY <1>0, <1>3, Elsewhere, Ranges
  <2> QED  BY <1>3, <2>1 DEF ExitCorrect, ChainEffective
<1> QED  BY <1>1, <1>2, <1>3, Somewhere DEF Inside

\* and of the code around it.
LEMMA InvSurroundings ==
    ASSUME Code
    PROVE  SurroundingsIntact
  BY EmittedDomain DEF Code, CodeInv, Surroundings, SurroundingsIntact

-----------------------------------------------------------------------------
(* What the assembler writes                                                 *)

\* What an instruction that is written leaves in the code.
LEMMA PutFacts ==
    ASSUME NEW m, NEW p \in Int, NEW i, i.size \in {1, 2}
    PROVE  /\ DOMAIN Put(m, p, i) = DOMAIN m
           /\ p \in DOMAIN m => Put(m, p, i)[p] = Half(i, 1)
           /\ i.size = 2 /\ p + 1 \in DOMAIN m => Put(m, p, i)[p + 1] = Half(i, 2)
           /\ \A q \in DOMAIN m : q \in Int /\ (q < p \/ p + i.size <= q) => Put(m, p, i)[q] = m[q]
  BY DEF Put

\* It is there in full.
LEMMA PutHas ==
    ASSUME NEW m, NEW p \in Int, NEW i, i.size \in {1, 2}, p \in DOMAIN m, p + 1 \in DOMAIN m
    PROVE  HasIns(Put(m, p, i), p, i)
<1>1. Put(m, p, i)[p] = Half(i, 1)
  BY PutFacts
<1>2. i.size = 2 => Put(m, p, i)[p + 1] = Half(i, 2)
  BY PutFacts
<1> QED  BY <1>1, <1>2 DEF HasIns

\* Offsets that fit are encoded as they are.
LEMMA JumpFacts ==
    ASSUME NEW off \in Int, -524288 <= off, off < 524288
    PROVE  \E size \in {1, 2} : /\ Jump(off) = Ins("j", off, size) /\ Jump(off).size = size
                                /\ IsCJImm(off) <=> size = 1
<1>1. JBits(off) = off
  BY DEF JBits
<1> QED  BY <1>1 DEF Jump, Ins

\* The low part of an offset, and what is left of the offset without it.
LEMMA LoFacts ==
    ASSUME NEW off \in Int
    PROVE  Lo(off) \in Int /\ -1024 <= Lo(off) /\ Lo(off) < 1024
  BY DEF Lo

\* An offset that fits into a JR.
LEMMA JumpRegFacts ==
    ASSUME NEW off \in Int, -1024 <= off, off < 1024
    PROVE  \E size \in {1, 2} : /\ JumpReg(off) = Ins("jr", off, size) /\ JumpReg(off).size = size
                                /\ off = 0 <=> size = 1
<1>1. IBits(off) = off
  BY DEF IBits
<1> QED  BY <1>1 DEF JumpReg, Ins

\* What the assembler has written, and where it writes next.
LEMMA EmitFacts ==
    ASSUME NEW m, NEW p, NEW i
    PROVE  /\ Assembler(m, p).m = m /\ Assembler(m, p).p = p
           /\ Emit(Assembler(m, p), i).m = Put(m, p, i)
           /\ Emit(Assembler(m, p), i).p = p + i.size
           /\ Emit(Assembler(m, p), i) = Assembler(Put(m, p, i), p + i.size)
  BY DEF Emit, Assembler

\* A J that is written at p.
LEMMA PutJump ==
    ASSUME NEW m, NEW p \in Int, NEW d \in Int, IsJTypeImm(d - p),
           p \in DOMAIN m, p + 1 \in DOMAIN m,
           NEW m2, m2 = Put(m, p, Jump(d - p))
    PROVE  /\ DOMAIN m2 = DOMAIN m /\ IsJump(m2, p, d)
           /\ m2[p].ins.op = "j"
           /\ ~IsCJImm(d - p) => m2[p + 1].part = 2
           /\ \A q \in DOMAIN m : q \in Int /\ (q < p \/ p + 2 <= q) => m2[q] = m[q]
<1>1. d - p \in Int /\ -524288 <= d - p /\ d - p < 524288
  BY DEF IsJTypeImm
<1>2. PICK size \in {1, 2} : /\ Jump(d - p) = Ins("j", d - p, size) /\ Jump(d - p).size = size
                             /\ IsCJImm(d - p) <=> size = 1
  BY <1>1, JumpFacts
<1>3. HasIns(m2, p, Ins("j", d - p, size))
  BY <1>2, PutHas
<1>4. IsJump(m2, p, d)
  BY <1>3 DEF IsJump
<1>5. m2[p].ins.op = "j"
  BY <1>3 DEF HasIns, Half, Ins
<1>6. /\ DOMAIN m2 = DOMAIN m
      /\ \A q \in DOMAIN m : q \in Int /\ (q < p \/ p + size <= q) => m2[q] = m[q]
  <2> DEFINE i == Jump(d - p)
  <2>1. m2 = Put(m, p, i) /\ i.size = size
    BY <1>2
  <2> HIDE DEF i
  <2> QED  BY <2>1, PutFacts
<1>7. ~IsCJImm(d - p) => m2[p + 1].part = 2
  BY <1>2, <1>3 DEF HasIns, Half, Ins
<1> QED  BY <1>4, <1>5, <1>6, <1>7

\* What is left by an AUIPC and a JR that are written at p: the code and the
\* position behind them.
LongAt(m, ass, p, off) ==
    \E lo \in Int :
       /\ lo = Lo(off) /\ -1024 <= lo /\ lo < 1024
       /\ DOMAIN ass.m = DOMAIN m
       /\ HasIns(ass.m, p, Auipc(off - lo)) /\ IsJumpReg(ass.m, p + 2, lo)
       /\ ass.m[p].ins.op = "auipc" /\ ass.m[p + 2].ins.op = "jr"
       /\ ass.m[p + 1] = Half(Auipc(off - lo), 2)
       /\ ass = Assembler(ass.m, ass.p)
       /\ lo = 0 => ass.p = p + 3 /\ HasIns(ass.m, p + 2, Ins("jr", 0, 1))
       /\ lo # 0 => ass.p = p + 4 /\ ass.m[p + 3].part = 2
       /\ \A q \in DOMAIN m : q \in Int /\ (q < p \/ p + 4 <= q) => ass.m[q] = m[q]

\* An AUIPC and a JR that are written at p.
LEMMA PutLong ==
    ASSUME NEW m, NEW p \in Int, NEW off \in Int,
           p \in DOMAIN m, p + 1 \in DOMAIN m, p + 2 \in DOMAIN m, p + 3 \in DOMAIN m
    PROVE  LongAt(m, LongJump(Assembler(m, p), off), p, off)
<1> PICK ass : ass = LongJump(Assembler(m, p), off)
  OBVIOUS
<1>1. PICK lo \in Int : lo = Lo(off) /\ -1024 <= lo /\ lo < 1024
  BY LoFacts
<1>2. PICK size \in {1, 2} : /\ JumpReg(lo) = Ins("jr", lo, size) /\ JumpReg(lo).size = size
                             /\ lo = 0 <=> size = 1
  BY <1>1, JumpRegFacts
<1> DEFINE hi == Auipc(off - lo)
           m1 == Put(m, p, hi)
           m2 == Put(m1, p + 2, JumpReg(lo))
<1>3. hi.size = 2
  BY DEF Auipc, Ins
<1> HIDE DEF hi
<1>4. /\ DOMAIN m1 = DOMAIN m /\ m1[p] = Half(hi, 1) /\ m1[p + 1] = Half(hi, 2)
      /\ \A q \in DOMAIN m : q \in Int /\ (q < p \/ p + 2 <= q) => m1[q] = m[q]
  <2>1. /\ DOMAIN m1 = DOMAIN m
        /\ p \in DOMAIN m => m1[p] = Half(hi, 1)
        /\ hi.size = 2 /\ p + 1 \in DOMAIN m => m1[p + 1] = Half(hi, 2)
        /\ \A q \in DOMAIN m : q \in Int /\ (q < p \/ p + hi.size <= q) => m1[q] = m[q]
    BY <1>3, PutFacts
  <2> QED  BY <1>3, <2>1
<1>5. ass = Assembler(m2, p + 2 + size)
  <2>1. ass = Emit(Emit(Assembler(m, p), hi), JumpReg(lo))
    BY <1>1 DEF LongJump, hi
  <2> QED  BY <1>2, <1>3, <2>1, EmitFacts
<1> HIDE DEF m1
<1>7. /\ DOMAIN m2 = DOMAIN m
      /\ \A q \in DOMAIN m : q \in Int /\ (q < p + 2 \/ p + 2 + size <= q) => m2[q] = m1[q]
  BY <1>2, <1>4, PutFacts
<1>8. HasIns(m2, p + 2, Ins("jr", lo, size))
  <2>1. p + 2 \in DOMAIN m1 /\ p + 2 + 1 \in DOMAIN m1 /\ p + 2 \in Int
    BY <1>4
  <2> QED  BY <1>2, <2>1, PutHas
<1> HIDE DEF m2
<1>6. ass.m = m2 /\ ass.p = p + 2 + size
  <2>1. Assembler(m2, p + 2 + size).m = m2 /\ Assembler(m2, p + 2 + size).p = p + 2 + size
    BY EmitFacts
  <2> QED  BY <1>5, <2>1
<1>9. m2[p] = Half(hi, 1) /\ m2[p + 1] = Half(hi, 2)
  BY <1>4, <1>7
<1>10. HasIns(m2, p, hi) /\ m2[p].ins.op = "auipc"
  BY <1>9 DEF HasIns, Half, Auipc, Ins, hi
<1>11. /\ IsJumpReg(m2, p + 2, lo) /\ m2[p + 2].ins.op = "jr"
  BY <1>8 DEF IsJumpReg, HasIns, Half, Ins
<1>12. /\ lo # 0 => m2[p + 3].part = 2
       /\ lo = 0 => HasIns(m2, p + 2, Ins("jr", 0, 1))
  <2>1. p + 2 + 1 = p + 3
    OBVIOUS
  <2> QED  BY <1>2, <1>8, <2>1 DEF HasIns, Half, Ins
<1>13. \A q \in DOMAIN m : q \in Int /\ (q < p \/ p + 4 <= q) => m2[q] = m[q]
  BY <1>4, <1>7
<1>14. /\ lo = 0 => ass.p = p + 3
       /\ lo # 0 => ass.p = p + 4
  BY <1>2, <1>6
<1>15. ass = Assembler(ass.m, ass.p)
  BY <1>5, <1>6
<1>16. /\ HasIns(m2, p, Auipc(off - lo))
       /\ m2[p + 1] = Half(Auipc(off - lo), 2)
  BY <1>9, <1>10 DEF hi
<1>17. DOMAIN m2 = DOMAIN m
  BY <1>7
<1> HIDE DEF hi
<1>18. LongAt(m, ass, p, off)
  BY <1>1, <1>6, <1>17, <1>10, <1>11, <1>12, <1>13, <1>14, <1>15, <1>16 DEF LongAt
<1> QED  BY <1>18

\* They are a long jump.
LEMMA LongIsLong ==
    ASSUME NEW m, NEW p \in Int, NEW d \in Int, NEW lo \in Int,
           HasIns(m, p, Auipc(d - p - lo)), IsJumpReg(m, p + 2, lo)
    PROVE  IsLongJump(m, p, d)
<1>1. d - p - lo \in Int /\ lo = d - (p + (d - p - lo))
  OBVIOUS
<1> QED  BY <1>1 DEF IsLongJump

\* A jump is still there when other half-words have been changed.
LEMMA JumpFrame ==
    ASSUME NEW m, NEW m2, NEW p \in Int, NEW d, IsJump(m, p, d),
           m2[p] = m[p], m2[p + 1] = m[p + 1]
    PROVE  IsJump(m2, p, d)
  BY DEF IsJump, HasIns

\* So is a JR,
LEMMA JumpRegFrame ==
    ASSUME NEW m, NEW m2, NEW p \in Int, NEW d, IsJumpReg(m, p, d),
           m2[p] = m[p], m2[p + 1] = m[p + 1]
    PROVE  IsJumpReg(m2, p, d)
  BY DEF IsJumpReg, HasIns

\* so is a long jump,
LEMMA LongFrame ==
    ASSUME NEW m, NEW m2, NEW p \in Int, NEW d, IsLongJump(m, p, d),
           \A q \in Int : p <= q /\ q <= p + 3 => m2[q] = m[q]
    PROVE  IsLongJump(m2, p, d)
<1>1. PICK off \in Int : /\ HasIns(m, p, Auipc(off))
                         /\ IsJumpReg(m, p + 2, d - (p + off))
  BY DEF IsLongJump
<1>2. m2[p] = m[p] /\ m2[p + 1] = m[p + 1]
  OBVIOUS
<1>3. m2[p + 2] = m[p + 2] /\ m2[p + 2 + 1] = m[p + 2 + 1]
  OBVIOUS
<1>4. HasIns(m2, p, Auipc(off))
  BY <1>1, <1>2 DEF HasIns
<1>5. IsJumpReg(m2, p + 2, d - (p + off))
  BY <1>1, <1>3, JumpRegFrame
<1> QED  BY <1>4, <1>5 DEF IsLongJump

\* and so is either of them.
LEMMA DirectFrame ==
    ASSUME NEW m, NEW m2, NEW p \in Int, NEW d, Direct(m, p, d),
           \A q \in Int : p <= q /\ q <= p + 3 => m2[q] = m[q]
    PROVE  Direct(m2, p, d)
<1>1. m2[p] = m[p] /\ m2[p + 1] = m[p + 1]
  OBVIOUS
<1> QED  BY <1>1, JumpFrame, LongFrame DEF Direct

\* So is any instruction.
LEMMA HasFrame ==
    ASSUME NEW m, NEW m2, NEW p \in Int, NEW i, HasIns(m, p, i),
           m2[p] = m[p], i.size = 2 => m2[p + 1] = m[p + 1]
    PROVE  HasIns(m2, p, i)
  BY DEF HasIns

\* The places again, as the patches need them.
LEMMA Rooms ==
    ASSUME NEW m, NEW l \in Layouts, NEW ch, CodeInv(m, l, ch)
    PROVE  /\ TrueAt(l) \in Int /\ TrueEnd(l) \in Int /\ FalseAt(l) \in Int /\ End(l) \in Int
           /\ Moved(m, l, ch) \in {0, 2} /\ TrueNow(m, l, ch) = TrueAt(l) + Moved(m, l, ch)
           /\ TrueEnd(l) < FalseAt(l)
           /\ TrueEnd(l) = TrueAt(l) + 2 + l.load.trueval.len + l.sd.trueval
           /\ TrueEnd(l) + Moved(m, l, ch) <= End(l)
           /\ l.load.trueval.len \in Int /\ l.load.trueval.len > 0
           /\ l.sd.trueval \in {1, 2} /\ l.branch \in {1, 2} /\ l.cond \in BOOLEAN
           /\ l.to.trueval \in Int /\ l.to.falseval \in Int
           /\ ~l.cond => TrueAt(l) = 0 /\ Moved(m, l, ch) = 0
           /\ l.cond => /\ 2 + l.branch <= TrueAt(l) /\ TrueAt(l) <= 3 + l.branch
                        /\ TrueEnd(l) + Moved(m, l, ch) < End(l)
                        /\ FalseAt(l) < End(l)
<1>1. /\ TrueAt(l) \in Int /\ TrueEnd(l) \in Int /\ FalseAt(l) \in Int /\ End(l) \in Int
      /\ TrueEnd(l) < FalseAt(l)
      /\ TrueEnd(l) = TrueAt(l) + 2 + l.load.trueval.len + l.sd.trueval
      /\ ~l.cond => TrueAt(l) = 0 /\ End(l) = TrueEnd(l)
  BY Places, SideFields
<1>2. l.cond => /\ 2 + l.branch <= TrueAt(l) /\ TrueAt(l) <= 3 + l.branch
                /\ TrueEnd(l) + 2 < End(l)
                /\ FalseAt(l) < End(l)
  BY Places, SideFields
<1>3. /\ Moved(m, l, ch) \in {0, 2} /\ TrueNow(m, l, ch) = TrueAt(l) + Moved(m, l, ch)
      /\ ~l.cond => Moved(m, l, ch) = 0
  BY MovedFacts
<1> QED  BY <1>1, <1>2, <1>3, SideFields

-----------------------------------------------------------------------------
(* The true side is patched                                                  *)

\* The true side's AUIPC is not followed by a branch; if its address is loaded by
\* a full-size instruction first, there is room for an AUIPC and a JR.
LEMMA TrueStart ==
    ASSUME NEW m, NEW l \in Layouts, NEW ch, CodeInv(m, l, ch), "trueval" \notin ch,
           NEW N, N = TrueNow(m, l, ch)
    PROVE  /\ ~IsBranch(m, N)
           /\ m[N + 2].ins.size = 1 \/ N + 5 <= TrueEnd(l) + Moved(m, l, ch)
<1>1. /\ N \in Int /\ N = TrueAt(l) + Moved(m, l, ch) /\ TrueAt(l) \in Int
      /\ TrueEnd(l) = TrueAt(l) + 2 + l.load.trueval.len + l.sd.trueval
      /\ Moved(m, l, ch) \in Int /\ l.load.trueval.len \in Int /\ l.sd.trueval \in {1, 2}
  BY Rooms
<1>2. StoresPc(m, l, "trueval", N + 2)
  BY TrueParts
<1>3. /\ 0 < l.load["trueval"].len /\ 0 + 1 \notin l.load["trueval"].seconds
  BY LoadShape DEF Side
<1>4. PICK size \in {1, 2} : /\ HasIns(m, N + 2 + 0, Ins("li", SideNumber("trueval"), size))
                             /\ 0 + size <= l.load["trueval"].len
  BY <1>1, <1>2, <1>3, StoresPcParts DEF Side
<1>5. m[N + 2] = Half(Ins("li", SideNumber("trueval"), size), 1)
  BY <1>1, <1>4 DEF HasIns
<1>6. m[N + 2].ins.op = "li" /\ m[N + 2].ins.size = size
  BY <1>5 DEF Half, Ins
<1>7. size = 1 \/ N + 5 <= TrueEnd(l) + Moved(m, l, ch)
  BY <1>1, <1>4
<1> QED  BY <1>6, <1>7 DEF IsBranch

\* A NOP in front of the true side is that of a branch to the false side's block.
LEMMA JumpAtFacts ==
    ASSUME NEW m, NEW l \in Layouts, NEW ch, CodeInv(m, l, ch), "trueval" \notin ch,
           NEW N, N = TrueNow(m, l, ch), NEW p, p = JumpAt(m, N)
    PROVE  \/ p = N
           \/ /\ p = N - 2 /\ l.cond /\ Branches(m, ch) /\ N = TrueAt(l)
              /\ N = Pad(l) /\ p = Near(l).size
<1> DEFINE nop == Half(Nop(2), 1)
<1>1. /\ N \in Int /\ N = TrueAt(l) + Moved(m, l, ch) /\ TrueAt(l) \in Int
      /\ l.cond \in BOOLEAN /\ l.branch \in {1, 2}
      /\ ~l.cond => N = 0
      /\ l.cond => 2 + l.branch <= TrueAt(l) /\ TrueAt(l) <= 3 + l.branch /\ TrueAt(l) < End(l)
      /\ End(l) \in Int
      /\ Moved(m, l, ch) \in {0, 2}
  BY Rooms
<1>2. CASE ~l.cond
  <2>1. m[-2] = Half(Ins("sd", 0, 2), 1)
    <3>1. -2 \in DOMAIN m
      BY <1>1, Ranges, Places
    <3> QED  BY <3>1, EmittedRest DEF CodeInv, Surroundings
  <2>2. m[N - 2] # nop
    BY <1>1, <1>2, <2>1 DEF Half, Nop, Ins
  <2> QED  BY <2>2 DEF JumpAt
<1>3. CASE l.cond /\ "falseval" \notin ch
  <2>1. Moved(m, l, ch) = 0
    BY <1>3 DEF Moved, Skipped
  <2>2. HasIns(m, 0, Auipc(0)) /\ HasIns(m, 2, Ins("beqz", FalseAt(l) - 2, l.branch))
    BY <1>3, FalseParts
  <2>3. /\ m[1] = Half(Auipc(0), 2) /\ m[2] = Half(Ins("beqz", FalseAt(l) - 2, l.branch), 1)
        /\ l.branch = 2 => m[3] = Half(Ins("beqz", FalseAt(l) - 2, l.branch), 2)
    BY <2>2 DEF HasIns, Auipc, Ins
  <2>4. N - 2 = 1 \/ N - 2 = 2 \/ (N - 2 = 3 /\ l.branch = 2)
    BY <1>1, <1>3, <2>1
  <2>5. m[N - 2] # nop
    BY <2>3, <2>4 DEF Half, Nop, Ins, Auipc
  <2> QED  BY <2>5 DEF JumpAt
<1>4. CASE l.cond /\ Skipped(m, ch)
  <2>1. m[N - 2] # nop
    BY <1>4 DEF CodeInv, FalseInv, FalseSkipped
  <2> QED  BY <2>1 DEF JumpAt
<1>5. CASE l.cond /\ Branches(m, ch) /\ m[N - 2] = nop
  <2>1. Moved(m, l, ch) = 0
    BY <1>5 DEF Moved, Skipped, Branches
  <2>2. TrueJump(m, l, ch) = TrueAt(l)
    BY <1>1, <2>1 DEF CodeInv, TrueInv
  <2>3. /\ HasIns(m, 0, Near(l)) /\ HasIns(m, Near(l).size, NearNop(l))
        /\ TrueAt(l) = Pad(l) \/ TrueAt(l) = Pad(l) + 1
    BY <1>5, <2>2 DEF CodeInv, FalseInv, FalseBranches
  <2>4. /\ Near(l) = Ins("beqz", l.to.falseval, Near(l).size)
        /\ NearNop(l) = Nop(NearNop(l).size)
        /\ Near(l).size \in {1, 2} /\ NearNop(l).size \in {1, 2}
        /\ Pad(l) = Near(l).size + NearNop(l).size
        /\ Near(l).size = 1 => NearNop(l).size = 2
    BY NearFacts
  <2>5. /\ Near(l).size = 2 => m[1] = Half(Near(l), 2)
        /\ m[Near(l).size] = Half(NearNop(l), 1)
        /\ NearNop(l).size = 2 => m[Near(l).size + 1] = Half(NearNop(l), 2)
    BY <2>3, <2>4 DEF HasIns
  <2>6. Half(NearNop(l), 2) # nop /\ Half(Near(l), 2) # nop
    BY DEF Half
  <2>7. NearNop(l).size = 1 => Half(NearNop(l), 1) # nop
    BY <2>4 DEF Half, Nop, Ins
  <2>8. N = TrueAt(l)
    BY <1>1, <2>1
  <2>9. CASE TrueAt(l) = Pad(l) + 1
    <3>1. CASE NearNop(l).size = 2
      <4>1. N - 2 = Near(l).size + 1
        BY <2>4, <2>8, <2>9, <3>1
      <4> QED  BY <1>5, <2>5, <2>6, <3>1, <4>1
    <3>2. CASE NearNop(l).size = 1
      <4>1. N - 2 = Near(l).size
        BY <2>4, <2>8, <2>9, <3>2
      <4> QED  BY <1>5, <2>5, <2>7, <3>2, <4>1
    <3> QED  BY <2>4, <3>1, <3>2
  <2>10. CASE TrueAt(l) = Pad(l)
    <3>1. CASE NearNop(l).size = 2
      <4>1. N - 2 = Near(l).size
        BY <2>4, <2>8, <2>10, <3>1
      <4>2. p = N - 2
        BY <1>5 DEF JumpAt
      <4> QED  BY <1>5, <2>8, <2>10, <4>1, <4>2
    <3>2. CASE NearNop(l).size = 1
      <4>1. N - 2 = 1 /\ Near(l).size = 2
        BY <2>4, <2>8, <2>10, <3>2
      <4> QED  BY <1>5, <2>5, <2>6, <4>1
    <3> QED  BY <2>4, <3>1, <3>2
  <2> QED  BY <2>3, <2>9, <2>10
<1>6. CASE m[N - 2] # nop
  BY <1>6 DEF JumpAt
<1> QED  BY <1>1, <1>2, <1>3, <1>4, <1>5, <1>6 DEF Skipped, Branches

\* The true side is patched: a jump in place of its AUIPC, or of a NOP before it.
LEMMA PatchJumpInv ==
    ASSUME LowMovable,
           NEW m, NEW l \in Layouts, NEW ch, CodeInv(m, l, ch), "trueval" \notin ch,
           NEW N, N = TrueNow(m, l, ch), NEW to, to = l.to.trueval, ~Throws(m, N, to),
           NEW m2, m2 = PatchJump(m, N, to), NEW ch2, ch2 = ch \cup {"trueval"}
    PROVE  CodeInv(m2, l, ch2)
<1> DEFINE p == JumpAt(m, N)
           by == Moved(m, l, ch)
           top == IF IsJTypeImm(to - p) THEN p + 2 ELSE p + 4
<1>1. /\ N \in Int /\ N = TrueAt(l) + by /\ TrueAt(l) \in Int /\ TrueEnd(l) \in Int
      /\ by \in {0, 2} /\ End(l) \in Int /\ FalseAt(l) \in Int /\ to \in Int
      /\ TrueEnd(l) >= TrueAt(l) + 4 /\ TrueEnd(l) + by <= End(l) /\ TrueEnd(l) < FalseAt(l)
      /\ l.cond \in BOOLEAN /\ l.branch \in {1, 2}
  BY Rooms
<1>2. /\ ~l.cond => N = 0 /\ by = 0 /\ "falseval" \notin ch
      /\ l.cond => 2 + l.branch <= TrueAt(l) /\ TrueAt(l) <= 3 + l.branch
  BY <1>1, Rooms, Uncond
<1>3. m[N + 2].ins.size = 1 \/ N + 5 <= TrueEnd(l) + by
  BY TrueStart
<1>4. \/ p = N
      \/ /\ p = N - 2 /\ l.cond /\ Branches(m, ch) /\ N = TrueAt(l)
         /\ N = Pad(l) /\ p = Near(l).size
  BY JumpAtFacts
<1>5. \/ IsJTypeImm(to - p) /\ m2 = Put(m, p, Jump(to - p))
      \/ /\ ~IsJTypeImm(to - p) /\ m2 = LongJump(Assembler(m, p), to - p).m
         /\ m[N + 2].ins.size # 1
  <2>1. Assembler(m, p).p = p
    BY EmitFacts
  <2>2. m2 = IF IsJTypeImm(to - p) THEN Emit(Assembler(m, p), Jump(to - p)).m
                                   ELSE LongJump(Assembler(m, p), to - p).m
    BY <2>1 DEF PatchJump
  <2>3. IsJTypeImm(to - p) \/ m[N + 2].ins.size # 1
    BY TrueStart DEF Throws
  <2> QED  BY <2>2, <2>3, EmitFacts
<1>6. p \in Int /\ 0 <= p /\ p <= N
  BY <1>1, <1>2, <1>4
<1> HIDE DEF p
<1>7. /\ top \in Int /\ p < top /\ top <= TrueEnd(l) + by
      /\ p + 2 <= top
  BY <1>1, <1>3, <1>5, <1>6
<1>8. \A q \in Int : -2 <= q /\ q <= End(l) + 1 => q \in DOMAIN m
  BY Ranges
<1>9. /\ p \in DOMAIN m /\ p + 1 \in DOMAIN m
      /\ ~IsJTypeImm(to - p) => p + 2 \in DOMAIN m /\ p + 3 \in DOMAIN m
  BY <1>1, <1>6, <1>7, <1>8
<1>24. PICK off \in Int : off = to - p
  BY <1>1, <1>6
<1>25. ASSUME ~IsJTypeImm(to - p)
       PROVE  \E lo \in Int :
                 /\ lo = Lo(to - p) /\ -1024 <= lo /\ lo < 1024 /\ DOMAIN m2 = DOMAIN m
                 /\ HasIns(m2, p, Auipc(off - lo)) /\ IsJumpReg(m2, p + 2, lo)
                 /\ m2[p].ins.op = "auipc"
                 /\ \A q \in DOMAIN m : q \in Int /\ (q < p \/ p + 4 <= q) => m2[q] = m[q]
  <2>1. PICK ass : ass = LongJump(Assembler(m, p), off)
    OBVIOUS
  <2>2. m2 = ass.m
    BY <1>5, <1>24, <1>25, <2>1
  <2>3. p \in DOMAIN m /\ p + 1 \in DOMAIN m /\ p + 2 \in DOMAIN m /\ p + 3 \in DOMAIN m
    BY <1>9, <1>25
  <2>4. LongAt(m, ass, p, off)
    BY <1>6, <2>1, <2>3, PutLong
  <2> QED  BY <1>24, <2>2, <2>4 DEF LongAt
<1>10. /\ DOMAIN m2 = DOMAIN m /\ Direct(m2, p, to) /\ m2[p].ins.op \in {"j", "auipc"}
       /\ \A q \in DOMAIN m : q \in Int /\ (q < p \/ top <= q) => m2[q] = m[q]
  <2>1. CASE IsJTypeImm(to - p)
    BY <1>1, <1>5, <1>6, <1>9, <2>1, PutJump DEF Direct
  <2>2. CASE ~IsJTypeImm(to - p)
    <3>1. PICK lo \in Int :
                 /\ DOMAIN m2 = DOMAIN m
                 /\ HasIns(m2, p, Auipc(to - p - lo)) /\ IsJumpReg(m2, p + 2, lo)
                 /\ m2[p].ins.op = "auipc"
                 /\ \A q \in DOMAIN m : q \in Int /\ (q < p \/ p + 4 <= q) => m2[q] = m[q]
      BY <1>24, <1>25, <2>2
    <3> QED  BY <1>1, <1>6, <2>2, <3>1, LongIsLong DEF Direct
  <2> QED  BY <2>1, <2>2
<1>11. \A q \in Int : -2 <= q /\ q <= End(l) + 1 /\ (q < p \/ top <= q) => m2[q] = m[q]
  BY <1>8, <1>10
<1> HIDE DEF top
<1>12. Surroundings(m2, l)
  <2>1. ASSUME NEW q \in DOMAIN m2, q < 0 \/ q >= End(l) PROVE m2[q] = Emitted(l)[q]
    <3>1. q \in DOMAIN m /\ q \in Int
      BY <1>10, <2>1, EmittedDomain DEF CodeInv
    <3>2. m2[q] = m[q]
      BY <1>1, <1>6, <1>7, <1>10, <2>1, <3>1
    <3> QED  BY <2>1, <3>1, <3>2 DEF CodeInv, Surroundings
  <2> QED  BY <2>1 DEF Surroundings
<1>13. /\ "falseval" \in ch2 <=> "falseval" \in ch
       /\ "trueval" \in ch2
  OBVIOUS
<1>14. l.cond => p > 0 /\ m2[0] = m[0]
  <2>1. l.cond => p > 0
    BY <1>1, <1>2, <1>4, NearFacts
  <2> QED  BY <1>1, <1>11, <2>1, Places
<1>15. /\ Skipped(m2, ch2) <=> Skipped(m, ch)
       /\ Branches(m2, ch2) <=> Branches(m, ch)
       /\ Moved(m2, l, ch2) = by /\ TrueNow(m2, l, ch2) = N
  <2>1. CASE l.cond
    BY <1>13, <1>14, <2>1 DEF Skipped, Branches, Moved, TrueNow
  <2>2. CASE ~l.cond
    BY <1>2, <1>13, <2>2 DEF Skipped, Branches, Moved, TrueNow
  <2> QED  BY <1>1, <2>1, <2>2
<1>16. TrueJump(m2, l, ch2) = p
  <2>1. CASE p = N - 2 /\ N = TrueAt(l) /\ Branches(m, ch)
    BY <1>10, <1>15, <2>1 DEF TrueJump
  <2>2. CASE p = N /\ Branches(m, ch)
    <3>1. by = 0
      BY <2>2 DEF Moved, Skipped, Branches
    <3>2. l.cond
      BY <1>2, <1>1, <2>2 DEF Branches
    <3>3. m2[N - 2] = m[N - 2]
      BY <1>1, <1>2, <1>11, <2>2, <3>2
    <3>4. TrueJump(m, l, ch) = N
      BY DEF CodeInv, TrueInv
    <3>5. m[N - 2].ins.op \notin {"j", "auipc"}
      BY <1>1, <2>2, <3>1, <3>4 DEF TrueJump
    <3> QED  BY <1>1, <1>15, <2>2, <3>1, <3>3, <3>5 DEF TrueJump
  <2>3. CASE p = N /\ ~Branches(m, ch)
    BY <1>15, <2>3 DEF TrueJump
  <2> QED  BY <1>4, <2>1, <2>2, <2>3
<1>17. ASSUME l.cond, l.branch = 1, "falseval" \notin ch
       PROVE  Movable(m2, TrueAt(l), to)
  <2>1. p = TrueAt(l)
    BY <1>1, <1>4, <1>17 DEF Branches, Moved, Skipped
  <2>2. CASE IsJTypeImm(to - p)
    BY <1>1, <1>5, <1>6, <1>9, <2>1, <2>2, PutJump DEF Movable
  <2>3. CASE ~IsJTypeImm(to - p)
    <3>1. PICK lo \in Int :
                 /\ lo = Lo(to - p) /\ lo < 1024
                 /\ HasIns(m2, p, Auipc(to - p - lo)) /\ IsJumpReg(m2, p + 2, lo)
      BY <1>24, <1>25, <2>3
    <3>2. -1022 <= lo
      <4>1. p \in {3, 4}
        BY <1>1, <1>2, <1>17, <2>1
      <4>2. to \in Distances.trueval
        BY LayoutMembers
      <4>3. Lo(to - p) >= -1022
        BY <4>1, <4>2 DEF LowMovable
      <4> QED  BY <3>1, <4>3
    <3>3. to - p - lo \in Int /\ lo = to - (p + (to - p - lo))
      BY <1>1, <1>6, <3>1
    <3> QED  BY <2>1, <3>1, <3>2, <3>3 DEF Movable
  <2> QED  BY <2>2, <2>3
<1>18. TrueInv(m2, l, ch2)
  BY <1>10, <1>13, <1>16, <1>17 DEF TrueInv
<1>19. ASSUME l.cond, "falseval" \notin ch
       PROVE  FalseAsEmitted(m2, l)
  <2>0. p = N /\ by = 0
    BY <1>4, <1>19 DEF Branches, Moved, Skipped
  <2>1. ASSUME NEW q \in DOMAIN m2, (0 <= q /\ q < TrueAt(l)) \/ FalseAt(l) <= q
        PROVE  m2[q] = Emitted(l)[q]
    <3>1. q \in DOMAIN m /\ q \in Int
      BY <1>10, <2>1, EmittedDomain DEF CodeInv
    <3>2. m2[q] = m[q]
      BY <1>1, <1>6, <1>7, <1>10, <2>0, <2>1, <3>1
    <3> QED  BY <1>19, <2>1, <3>1, <3>2 DEF CodeInv, FalseInv, FalseAsEmitted
  <2> QED  BY <2>1 DEF FalseAsEmitted
<1>20. ASSUME l.cond, Skipped(m, ch)
       PROVE  FalseSkipped(m2, l, ch2)
  <2>0. p = N
    BY <1>4, <1>20 DEF Branches, Skipped
  <2>1. /\ by = 0 \/ (l.branch = 1 /\ by = 2)
        /\ HasIns(m, 0, Ins("bnez", N, l.branch))
        /\ IF by = 0 THEN IsJump(m, l.branch, l.to.falseval)
                     ELSE IsLongJump(m, l.branch, l.to.falseval)
        /\ m[N - 2] # Half(Nop(2), 1)
    BY <1>20 DEF CodeInv, FalseInv, FalseSkipped
  <2>2. \A q \in Int : -2 <= q /\ q < N => m2[q] = m[q]
    BY <1>1, <1>11, <2>0
  <2>3. /\ 2 + l.branch + by <= N /\ m2[0] = m[0] /\ m2[1] = m[1] /\ m2[N - 2] = m[N - 2]
    BY <1>1, <1>2, <1>20, <2>2
  <2>4. HasIns(m2, 0, Ins("bnez", N, l.branch))
    BY <2>1, <2>3, HasFrame
  <2>5. CASE by = 0
    <3>1. m2[l.branch] = m[l.branch] /\ m2[l.branch + 1] = m[l.branch + 1]
      BY <1>1, <2>2, <2>3, <2>5
    <3>2. IsJump(m2, l.branch, l.to.falseval)
      BY <1>1, <2>1, <2>5, <3>1, JumpFrame
    <3> QED  BY <1>15, <2>1, <2>3, <2>4, <2>5, <3>2 DEF FalseSkipped
  <2>6. CASE by = 2
    <3>1. \A q \in Int : l.branch <= q /\ q <= l.branch + 3 => m2[q] = m[q]
      BY <1>1, <2>2, <2>3, <2>6
    <3>2. IsLongJump(m2, l.branch, l.to.falseval)
      BY <1>1, <2>1, <2>6, <3>1, LongFrame
    <3> QED  BY <1>15, <2>1, <2>3, <2>4, <2>6, <3>2 DEF FalseSkipped
  <2> QED  BY <1>1, <2>5, <2>6
<1>21. ASSUME l.cond, Branches(m, ch)
       PROVE  FalseBranches(m2, l, ch2)
  <2>0. by = 0 /\ N = TrueAt(l)
    BY <1>1, <1>21 DEF Moved, Skipped, Branches
  <2>1. TrueJump(m, l, ch) = TrueAt(l)
    BY <2>0 DEF CodeInv, TrueInv
  <2>2. /\ HasIns(m, 0, Near(l)) /\ HasIns(m, Near(l).size, NearNop(l))
        /\ TrueAt(l) = Pad(l) \/ (TrueAt(l) = Pad(l) + 1 /\ HasIns(m, Pad(l), Nop(1)))
    BY <1>21, <2>1 DEF CodeInv, FalseInv, FalseBranches
  <2>3. /\ Near(l).size \in {1, 2} /\ NearNop(l).size \in {1, 2}
        /\ Pad(l) = Near(l).size + NearNop(l).size
    BY NearFacts
  <2>4. \A q \in Int : -2 <= q /\ q < p => m2[q] = m[q]
    BY <1>1, <1>6, <1>11
  <2>5. Near(l).size <= p
    BY <1>1, <1>4, <2>0, <2>2, <2>3
  <2>6. m2[0] = m[0] /\ (Near(l).size = 2 => m2[1] = m[1])
    BY <1>6, <2>3, <2>4, <2>5
  <2>7. HasIns(m2, 0, Near(l))
    BY <2>2, <2>6, HasFrame
  <2>8. CASE p = N
    <3>1. /\ m2[Near(l).size] = m[Near(l).size]
          /\ NearNop(l).size = 2 => m2[Near(l).size + 1] = m[Near(l).size + 1]
      BY <1>1, <2>0, <2>2, <2>3, <2>4, <2>8
    <3>2. HasIns(m2, Near(l).size, NearNop(l))
      BY <2>2, <2>3, <3>1, HasFrame
    <3>3. TrueAt(l) = Pad(l) + 1 => m2[Pad(l)] = m[Pad(l)]
      BY <1>1, <2>0, <2>3, <2>4, <2>8
    <3>4. TrueAt(l) = Pad(l) + 1 => HasIns(m2, Pad(l), Nop(1))
      BY <2>2, <3>3, <1>1 DEF HasIns, Nop, Ins
    <3> QED  BY <1>16, <2>0, <2>2, <2>7, <2>8, <3>2, <3>4 DEF FalseBranches
  <2>9. CASE p = N - 2 /\ N = Pad(l) /\ p = Near(l).size
    <3>1. p # TrueAt(l)
      BY <1>1, <2>0, <2>9
    <3> QED  BY <1>16, <2>0, <2>7, <2>9, <3>1 DEF FalseBranches
  <2> QED  BY <1>4, <2>8, <2>9
<1>22. l.cond => FalseInv(m2, l, ch2)
  BY <1>13, <1>15, <1>19, <1>20, <1>21 DEF FalseInv
<1>23. DOMAIN m2 = First .. Last(l) /\ ch2 \in SUBSET Sides(l)
  BY <1>10 DEF CodeInv, Sides, Side
<1> QED  BY <1>12, <1>18, <1>22, <1>23 DEF CodeInv

-----------------------------------------------------------------------------
(* The false side is patched                                                 *)

\* Align() fills up to the start of the true side.
LEMMA AlignFacts ==
    ASSUME NEW l \in Layouts, l.cond, NEW m, NEW p \in Int, NEW by \in {0, 2},
           p = 2 + l.branch + by, by = 2 => l.branch = 1
    PROVE  \/ Align(Assembler(m, p), l.odd) = Assembler(m, p) /\ TrueAt(l) + by = p
           \/ /\ Align(Assembler(m, p), l.odd) = Assembler(Put(m, p, Nop(1)), p + 1)
              /\ TrueAt(l) + by = p + 1
<1>1. /\ l.odd \in {0, 1} /\ l.branch \in {1, 2}
      /\ l.branch = 1 => TrueAt(l) = 4 - l.odd
      /\ l.branch = 2 => TrueAt(l) = 4 + l.odd
  BY Places, SideFields
<1>2. Assembler(m, p).p = p
  BY DEF Assembler
<1>3. Nop(1).size = 1
  BY DEF Nop, Ins
<1>4. Align(Assembler(m, p), l.odd) =
         IF (p + l.odd) % 2 = 1 THEN Assembler(Put(m, p, Nop(1)), p + 1) ELSE Assembler(m, p)
  BY <1>2, <1>3, EmitFacts DEF Align
<1>5. CASE by = 0 /\ l.branch = 1 /\ l.odd = 0
  <2>1. (p + l.odd) % 2 = 1
    BY <1>5
  <2> QED  BY <1>1, <1>4, <1>5, <2>1
<1>6. CASE by = 0 /\ l.branch = 1 /\ l.odd = 1
  <2>1. (p + l.odd) % 2 = 0
    BY <1>6
  <2> QED  BY <1>1, <1>4, <1>6, <2>1
<1>7. CASE by = 0 /\ l.branch = 2 /\ l.odd = 0
  <2>1. (p + l.odd) % 2 = 0
    BY <1>7
  <2> QED  BY <1>1, <1>4, <1>7, <2>1
<1>8. CASE by = 0 /\ l.branch = 2 /\ l.odd = 1
  <2>1. (p + l.odd) % 2 = 1
    BY <1>8
  <2> QED  BY <1>1, <1>4, <1>8, <2>1
<1>9. CASE by = 2 /\ l.branch = 1 /\ l.odd = 0
  <2>1. (p + l.odd) % 2 = 1
    BY <1>9
  <2> QED  BY <1>1, <1>4, <1>9, <2>1
<1>10. CASE by = 2 /\ l.branch = 1 /\ l.odd = 1
  <2>1. (p + l.odd) % 2 = 0
    BY <1>10
  <2> QED  BY <1>1, <1>4, <1>10, <2>1
<1> QED  BY <1>1, <1>5, <1>6, <1>7, <1>8, <1>9, <1>10

\* What is at the branch of an exit whose false side has not been patched.
LEMMA BranchFacts ==
    ASSUME NEW m, NEW l \in Layouts, NEW ch, CodeInv(m, l, ch), l.cond, "falseval" \notin ch
    PROVE  /\ IsBranch(m, 0)
           /\ m[2].ins.op = "beqz" /\ m[2].ins.size = l.branch
           /\ Moved(m, l, ch) = 0 /\ TrueNow(m, l, ch) = TrueAt(l)
           /\ TrueJump(m, l, ch) = TrueAt(l)
<1>1. HasIns(m, 2, Ins("beqz", FalseAt(l) - 2, l.branch))
  BY FalseParts
<1>2. m[2].ins.op = "beqz" /\ m[2].ins.size = l.branch
  BY <1>1 DEF HasIns, Half, Ins
<1>3. ~Skipped(m, ch) /\ ~Branches(m, ch)
  BY DEF Skipped, Branches
<1>4. IsBranch(m, 0)
  BY <1>2 DEF IsBranch
<1> QED  BY <1>2, <1>3, <1>4, NotSkipped, NotBranches

\* The false side has been patched and the true side is where it was.
LEMMA TrueSame ==
    ASSUME NEW m, NEW l \in Layouts, NEW ch, CodeInv(m, l, ch), l.cond, "falseval" \notin ch,
           NEW m2, DOMAIN m2 = DOMAIN m,
           \A q \in Int : q \in DOMAIN m /\ (q < 0 \/ TrueAt(l) <= q) => m2[q] = m[q],
           NEW ch2, ch2 = ch \cup {"falseval"},
           Moved(m2, l, ch2) = 0, TrueJump(m2, l, ch2) = TrueAt(l), FalseInv(m2, l, ch2)
    PROVE  CodeInv(m2, l, ch2)
<1>1. /\ TrueAt(l) \in Int /\ TrueEnd(l) \in Int /\ End(l) \in Int
      /\ 0 <= TrueAt(l) /\ TrueAt(l) + 4 <= TrueEnd(l) /\ TrueEnd(l) < End(l)
  BY Rooms, Places, BranchFacts
<1>2. \A q \in Int : -2 <= q /\ q <= End(l) + 1 => q \in DOMAIN m
  BY Ranges
<1>3. \A q \in Int : TrueAt(l) <= q /\ q <= End(l) + 1 => m2[q] = m[q]
  BY <1>1, <1>2
<1>4. Surroundings(m2, l)
  <2>1. ASSUME NEW q \in DOMAIN m2, q < 0 \/ q >= End(l) PROVE m2[q] = Emitted(l)[q]
    <3>1. q \in DOMAIN m /\ q \in Int
      BY <2>1, EmittedDomain DEF CodeInv
    <3>2. m2[q] = m[q]
      BY <1>1, <2>1, <3>1
    <3> QED  BY <2>1, <3>1, <3>2 DEF CodeInv, Surroundings
  <2> QED  BY <2>1 DEF Surroundings
<1>5. TrueNow(m2, l, ch2) = TrueAt(l)
  BY <1>1 DEF TrueNow
<1>6. "trueval" \in ch2 <=> "trueval" \in ch
  OBVIOUS
<1>7. CASE "trueval" \notin ch
  <2>1. TrueAsEmitted(m, l, 0)
    BY <1>7, BranchFacts DEF CodeInv, TrueInv
  <2>2. \A q \in TrueAt(l) .. TrueEnd(l) - 1 : m2[q + 0] = Emitted(l)[q]
    BY <1>1, <1>3, <2>1 DEF TrueAsEmitted
  <2>3. HasIns(m2, TrueEnd(l) + 0, Ins("j", End(l) - TrueEnd(l) - 0, 1))
    <3>1. HasIns(m, TrueEnd(l) + 0, Ins("j", End(l) - TrueEnd(l) - 0, 1))
      BY <2>1 DEF TrueAsEmitted
    <3>2. m2[TrueEnd(l) + 0] = m[TrueEnd(l) + 0]
      BY <1>1, <1>3
    <3> QED  BY <3>1, <3>2 DEF HasIns, Ins
  <2>4. TrueAsEmitted(m2, l, 0)
    BY <2>2, <2>3 DEF TrueAsEmitted
  <2>5. TrueInv(m2, l, ch2)
    BY <1>5, <1>6, <1>7, <2>4 DEF TrueInv
  <2> QED  BY <1>4, <2>5 DEF CodeInv, Sides, Side
<1>8. CASE "trueval" \in ch
  <2>1. Direct(m, TrueAt(l), l.to.trueval)
    BY <1>8, BranchFacts DEF CodeInv, TrueInv
  <2>2. \A q \in Int : TrueAt(l) <= q /\ q <= TrueAt(l) + 3 => m2[q] = m[q]
    BY <1>1, <1>3
  <2>3. Direct(m2, TrueAt(l), l.to.trueval)
    BY <1>1, <2>1, <2>2, DirectFrame
  <2>4. TrueInv(m2, l, ch2)
    BY <1>6, <1>8, <2>3 DEF TrueInv
  <2> QED  BY <1>4, <2>4 DEF CodeInv, Sides, Side
<1> QED  BY <1>7, <1>8

\* The false side is a jump that the inverted branch skips.
LEMMA SkipInv ==
    ASSUME NEW l \in Layouts, l.cond, NEW m2, NEW by \in {0, 2}, by = 2 => l.branch = 1,
           HasIns(m2, 0, Ins("bnez", TrueAt(l) + by, l.branch)),
           by = 0 => IsJump(m2, l.branch, l.to.falseval),
           by = 2 => IsLongJump(m2, l.branch, l.to.falseval),
           m2[TrueAt(l) + by - 2] # Half(Nop(2), 1),
           NEW ch2, "falseval" \in ch2
    PROVE  /\ FalseInv(m2, l, ch2) /\ Moved(m2, l, ch2) = by
           /\ TrueNow(m2, l, ch2) = TrueAt(l) + by
           /\ TrueJump(m2, l, ch2) = TrueAt(l) + by
<1>1. TrueAt(l) \in Int
  BY Places
<1>2. m2[0].ins.op = "bnez" /\ m2[0].ins.arg = TrueAt(l) + by
  BY DEF HasIns, Half, Ins
<1>3. Skipped(m2, ch2) /\ ~Branches(m2, ch2)
  BY <1>2 DEF Skipped, Branches
<1>4. Moved(m2, l, ch2) = by
  BY <1>1, <1>2, <1>3 DEF Moved
<1>5. TrueNow(m2, l, ch2) = TrueAt(l) + by
  BY <1>4 DEF TrueNow
<1>6. TrueJump(m2, l, ch2) = TrueAt(l) + by
  BY <1>3, <1>5, NotBranches
<1>7. FalseSkipped(m2, l, ch2)
  <2>1. m2[TrueNow(m2, l, ch2) - 2] # Half(Nop(2), 1)
    <3>1. TrueNow(m2, l, ch2) - 2 = TrueAt(l) + by - 2
      BY <1>1, <1>5
    <3> QED  BY <3>1, Zenon
  <2>2. HasIns(m2, 0, Ins("bnez", TrueNow(m2, l, ch2), l.branch))
    BY <1>5
  <2>3. CASE by = 0
    BY <1>4, <2>1, <2>2, <2>3 DEF FalseSkipped
  <2>4. CASE by = 2
    BY <1>4, <2>1, <2>2, <2>4 DEF FalseSkipped
  <2> QED  BY <2>3, <2>4
<1> QED  BY <1>3, <1>4, <1>5, <1>6, <1>7 DEF FalseInv

\* The block of the false side is near: the branch goes to it directly.
LEMMA PatchNear ==
    ASSUME NEW m, NEW l \in Layouts, NEW ch, CodeInv(m, l, ch), l.cond, "falseval" \notin ch,
           NEW to, to = l.to.falseval, IsBTypeImm(to - 0),
           NEW m2, m2 = PatchBranch(m, l.odd, 0, to), NEW ch2, ch2 = ch \cup {"falseval"}
    PROVE  CodeInv(m2, l, ch2)
<1>1. m[0 + 2].ins.op = "beqz" /\ m[0 + 2].ins.size = l.branch
  BY BranchFacts
<1>2. /\ to \in Int /\ l.branch \in {1, 2} /\ TrueAt(l) \in Int /\ End(l) \in Int
      /\ TrueAt(l) = 2 + l.branch \/ TrueAt(l) = 3 + l.branch
      /\ TrueAt(l) < End(l)
  BY Rooms
<1>3. /\ Near(l) = Ins("beqz", l.to.falseval, Near(l).size)
      /\ NearNop(l) = Nop(NearNop(l).size)
      /\ Near(l).size \in {1, 2} /\ NearNop(l).size \in {1, 2}
      /\ Pad(l) = Near(l).size + NearNop(l).size
      /\ Pad(l) = 2 + l.branch
      /\ Near(l).size = 1 => NearNop(l).size = 2
  BY NearFacts, SideFields
<1>4. \A q \in Int : -2 <= q /\ q <= End(l) + 1 => q \in DOMAIN m
  BY Ranges
<1>5. m2 = Put(Put(m, 0, Near(l)), 0 + Near(l).size, NearNop(l))
  <2>1. to - 0 = to
    BY <1>2
  <2>2. /\ Branch(m[0 + 2].ins.op, to - 0, m[0 + 2].ins.size) = Near(l)
        /\ Nop(IF m[0 + 2].ins.size = 1 /\ ~IsCBImm(to - 0) THEN 1 ELSE 2) = NearNop(l)
    BY <1>1, <2>1 DEF Near, NearNop
  <2>3. m2 = Emit(Emit(Assembler(m, 0), Near(l)), NearNop(l)).m
    BY <2>2 DEF PatchBranch
  <2> QED  BY <2>3 DEF Emit, Assembler
<1> DEFINE m1 == Put(m, 0, Near(l))
           n == Near(l).size
<1>6. /\ DOMAIN m1 = DOMAIN m /\ HasIns(m1, 0, Near(l))
      /\ \A q \in DOMAIN m : q \in Int /\ (q < 0 \/ n <= q) => m1[q] = m[q]
  <2>1. 0 \in DOMAIN m /\ 0 + 1 \in DOMAIN m
    BY <1>2, <1>4
  <2>2. HasIns(m1, 0, Near(l))
    BY <1>3, <2>1, PutHas
  <2>3. /\ DOMAIN m1 = DOMAIN m
        /\ \A q \in DOMAIN m : q \in Int /\ (q < 0 \/ 0 + Near(l).size <= q) => m1[q] = m[q]
    BY <1>3, PutFacts
  <2> QED  BY <1>3, <2>2, <2>3
<1> HIDE DEF m1
<1>7. /\ DOMAIN m2 = DOMAIN m /\ HasIns(m2, n, NearNop(l))
      /\ \A q \in DOMAIN m : q \in Int /\ (q < n \/ Pad(l) <= q) => m2[q] = m1[q]
  <2>0. 0 + n = n /\ n \in Int /\ m2 = Put(m1, n, NearNop(l))
    BY <1>3, <1>5 DEF m1
  <2>1. n \in DOMAIN m1 /\ n + 1 \in DOMAIN m1
    BY <1>2, <1>3, <1>4, <1>6
  <2>2. HasIns(m2, n, NearNop(l))
    BY <1>3, <2>0, <2>1, PutHas
  <2>3. /\ DOMAIN m2 = DOMAIN m1
        /\ \A q \in DOMAIN m1 : q \in Int /\ (q < n \/ n + NearNop(l).size <= q) => m2[q] = m1[q]
    BY <1>3, <2>0, PutFacts
  <2> QED  BY <1>3, <1>6, <2>2, <2>3
<1>8. /\ m2[0] = m1[0] /\ (n = 2 => m2[1] = m1[1])
  BY <1>2, <1>3, <1>4, <1>6, <1>7
<1>9. HasIns(m2, 0, Near(l))
  BY <1>6, <1>8, HasFrame
<1>10. \A q \in Int : q \in DOMAIN m /\ (q < 0 \/ Pad(l) <= q) => m2[q] = m[q]
  BY <1>3, <1>6, <1>7
<1>11. m2[0].ins.op = "beqz" /\ Skipped(m2, ch2) = FALSE /\ Branches(m2, ch2)
  <2>1. m2[0] = Half(Ins("beqz", l.to.falseval, n), 1)
    BY <1>3, <1>9 DEF HasIns
  <2>2. m2[0].ins.op = "beqz"
    BY <2>1 DEF Half, Ins
  <2> QED  BY <2>2 DEF Skipped, Branches
<1>12. Moved(m2, l, ch2) = 0 /\ TrueNow(m2, l, ch2) = TrueAt(l)
  BY <1>11, NotSkipped
<1>13. m2[TrueAt(l) - 2].ins.op \notin {"j", "auipc"}
  <2>1. TrueAt(l) - 2 = n - 1 \/ TrueAt(l) - 2 = n \/ TrueAt(l) - 2 = n + 1
    BY <1>2, <1>3
  <2>2. /\ n = 2 => m2[n - 1] = Half(Near(l), 2)
        /\ n = 1 => m2[n - 1] = Half(Near(l), 1)
    BY <1>3, <1>9 DEF HasIns
  <2>3. Half(Near(l), 1).ins.op = "beqz" /\ Half(Near(l), 2).ins.op = "beqz"
    BY <1>3 DEF Half, Ins
  <2>4. /\ m2[n] = Half(NearNop(l), 1)
        /\ NearNop(l).size = 2 => m2[n + 1] = Half(NearNop(l), 2)
    BY <1>7 DEF HasIns
  <2>5. Half(NearNop(l), 1).ins.op = "nop" /\ Half(NearNop(l), 2).ins.op = "nop"
    BY <1>3 DEF Half, Nop, Ins
  <2>6. TrueAt(l) - 2 = n + 1 => NearNop(l).size = 2
    BY <1>2, <1>3
  <2>7. CASE TrueAt(l) - 2 = n - 1
    BY <1>3, <2>2, <2>3, <2>7
  <2>8. CASE TrueAt(l) - 2 = n
    BY <2>4, <2>5, <2>8
  <2>9. CASE TrueAt(l) - 2 = n + 1
    BY <2>4, <2>5, <2>6, <2>9
  <2> QED  BY <2>1, <2>7, <2>8, <2>9
<1>14. TrueJump(m2, l, ch2) = TrueAt(l)
  BY <1>12, <1>13 DEF TrueJump
<1>15. TrueAt(l) = Pad(l) \/ (TrueAt(l) = Pad(l) + 1 /\ HasIns(m2, Pad(l), Nop(1)))
  <2>1. CASE TrueAt(l) = Pad(l) + 1
    <3>1. Pad(l) \in Int /\ 2 + l.branch <= Pad(l) /\ Pad(l) < TrueAt(l)
      BY <1>2, <1>3, <2>1
    <3>2. HasIns(m, Pad(l), Nop(1))
      BY <3>1, FalseParts
    <3>3. m2[Pad(l)] = m[Pad(l)]
      BY <1>2, <1>4, <1>10, <3>1
    <3> QED  BY <2>1, <3>2, <3>3 DEF HasIns, Nop, Ins
  <2> QED  BY <1>2, <1>3, <2>1
<1>16. FalseInv(m2, l, ch2)
  <2>1. FalseBranches(m2, l, ch2)
    BY <1>7, <1>9, <1>14, <1>15 DEF FalseBranches
  <2>2. "falseval" \in ch2
    OBVIOUS
  <2> QED  BY <1>11, <2>1, <2>2 DEF FalseInv
<1>17. \A q \in Int : q \in DOMAIN m /\ (q < 0 \/ TrueAt(l) <= q) => m2[q] = m[q]
  BY <1>2, <1>3, <1>10
<1>18. DOMAIN m2 = DOMAIN m
  BY <1>7
<1> QED  BY <1>12, <1>14, <1>16, <1>17, <1>18, TrueSame

\* The assembler has written the code behind the branch: it is aligned, and the
\* inverted branch that skips it is written.
LEMMA Inverted ==
    ASSUME NEW l \in Layouts, l.cond, NEW m, NEW by \in {0, 2}, by = 2 => l.branch = 1,
           \A q \in Int : -2 <= q /\ q <= TrueAt(l) + by => q \in DOMAIN m,
           NEW p \in Int, p = 2 + l.branch + by,
           NEW m2, m2 = Put(Align(Assembler(m, p), l.odd).m, 0,
                            Ins("bnez", Align(Assembler(m, p), l.odd).p, l.branch))
    PROVE  /\ DOMAIN m2 = DOMAIN m
           /\ HasIns(m2, 0, Ins("bnez", TrueAt(l) + by, l.branch))
           /\ \A q \in DOMAIN m :
                 q \in Int /\ ((l.branch <= q /\ q < p) \/ q < 0 \/ TrueAt(l) + by <= q)
                 => m2[q] = m[q]
<1> DEFINE E == TrueAt(l) + by
           ass == Align(Assembler(m, p), l.odd)
<1>1. /\ TrueAt(l) \in Int /\ l.branch \in {1, 2}
      /\ TrueAt(l) = 2 + l.branch \/ TrueAt(l) = 3 + l.branch
  BY Rooms, Places, SideFields
<1>2. /\ ass.p = E /\ DOMAIN ass.m = DOMAIN m
      /\ \A q \in DOMAIN m : q \in Int /\ (q < p \/ E <= q) => ass.m[q] = m[q]
  <2>1. CASE ass = Assembler(m, p) /\ E = p
    BY <2>1, EmitFacts DEF Assembler
  <2>2. CASE ass = Assembler(Put(m, p, Nop(1)), p + 1) /\ E = p + 1
    <3>1. ass.p = E /\ ass.m = Put(m, p, Nop(1))
      BY <2>2 DEF Assembler
    <3>2. Nop(1).size = 1
      BY DEF Nop, Ins
    <3>3. /\ DOMAIN Put(m, p, Nop(1)) = DOMAIN m
          /\ \A q \in DOMAIN m : q \in Int /\ (q < p \/ p + Nop(1).size <= q) =>
                Put(m, p, Nop(1))[q] = m[q]
      BY <3>2, PutFacts
    <3> QED  BY <2>2, <3>1, <3>2, <3>3
  <2> QED  BY <2>1, <2>2, AlignFacts
<1> HIDE DEF ass
<1> DEFINE i == Ins("bnez", E, l.branch)
<1>3. m2 = Put(ass.m, 0, i)
  BY <1>2 DEF ass
<1>4. i.size = l.branch
  BY DEF Ins
<1>5. 0 \in DOMAIN ass.m /\ 0 + 1 \in DOMAIN ass.m
  BY <1>1, <1>2
<1> HIDE DEF i, E
<1>6. HasIns(m2, 0, i)
  BY <1>1, <1>3, <1>4, <1>5, PutHas
<1>7. /\ DOMAIN m2 = DOMAIN ass.m
      /\ \A q \in DOMAIN ass.m : q \in Int /\ (q < 0 \/ 0 + i.size <= q) => m2[q] = ass.m[q]
  BY <1>1, <1>3, <1>4, PutFacts
<1>8. E \in Int /\ E = TrueAt(l) + by /\ p <= E /\ l.branch < E
  BY <1>1 DEF E
<1>9. \A q \in DOMAIN m : q \in Int /\ ((l.branch <= q /\ q < p) \/ q < 0 \/ E <= q) => m2[q] = m[q]
  BY <1>1, <1>2, <1>4, <1>7, <1>8
<1> QED  BY <1>2, <1>6, <1>7, <1>9 DEF i, E

\* The block of the false side is out of the branch's reach: a jump behind the
\* inverted branch goes to it.
LEMMA PatchSkip ==
    ASSUME InReach,
           NEW m, NEW l \in Layouts, NEW ch, CodeInv(m, l, ch), l.cond, "falseval" \notin ch,
           NEW to, to = l.to.falseval, ~IsBTypeImm(to - 0),
           l.branch = 2 \/ IsJTypeImm(to - 1),
           NEW m2, m2 = PatchBranch(m, l.odd, 0, to), NEW ch2, ch2 = ch \cup {"falseval"}
    PROVE  CodeInv(m2, l, ch2)
<1> DEFINE b == l.branch
<1>1. m[0 + 2].ins.op = "beqz" /\ m[0 + 2].ins.size = b
  BY BranchFacts
<1>2. /\ to \in Int /\ b \in {1, 2} /\ TrueAt(l) \in Int /\ End(l) \in Int
      /\ TrueAt(l) = 2 + b \/ TrueAt(l) = 3 + b
      /\ TrueAt(l) < End(l)
  BY Rooms
<1>3. IsJTypeImm(to - b)
  <2>1. CASE b = 2
    <3>1. to \in DistancesBig
      BY <2>1, LayoutMembers
    <3> QED  BY <2>1, <3>1 DEF InReach
  <2>2. CASE b = 1
    BY <2>2
  <2> QED  BY <1>2, <2>1, <2>2
<1>4. \A q \in Int : -2 <= q /\ q <= End(l) + 1 => q \in DOMAIN m
  BY Ranges
<1>5. ~IsCJImm(to - b)
  BY <1>2 DEF IsCJImm, IsBTypeImm
<1> DEFINE m1 == Put(m, b, Jump(to - b))
           p == b + 2
<1>6. m2 = Put(Align(Assembler(m1, p), l.odd).m, 0,
               Ins("bnez", Align(Assembler(m1, p), l.odd).p, b))
  <2>1. /\ 0 + b = b /\ ~(b = 1 /\ ~IsJTypeImm(to - b))
    BY <1>2, <1>3
  <2>2. Jump(to - b).size = 2
    <3>1. to - b \in Int /\ -524288 <= to - b /\ to - b < 524288
      BY <1>2, <1>3 DEF IsJTypeImm
    <3> QED  BY <1>5, <3>1, JumpFacts
  <2>3. Emit(Assembler(m, 0 + b), Jump(to - (0 + b))) = Assembler(m1, p)
    BY <2>1, <2>2 DEF Emit, Assembler
  <2>4. m2 = Put(Align(Assembler(m1, p), l.odd).m, 0,
                 Ins("bnez", Align(Assembler(m1, p), l.odd).p - 0, b))
    BY <1>1, <2>1, <2>3 DEF PatchBranch, Inverse
  <2>5. Align(Assembler(m1, p), l.odd).p \in Int
    <3>1. p = 2 + l.branch + 0 /\ p \in Int
      BY <1>2
    <3> HIDE DEF m1
    <3>2. \/ Align(Assembler(m1, p), l.odd) = Assembler(m1, p) /\ TrueAt(l) + 0 = p
          \/ /\ Align(Assembler(m1, p), l.odd) = Assembler(Put(m1, p, Nop(1)), p + 1)
             /\ TrueAt(l) + 0 = p + 1
      BY <3>1, AlignFacts
    <3>3. Align(Assembler(m1, p), l.odd).p = TrueAt(l) + 0
      BY <3>2 DEF Assembler
    <3> QED  BY <1>2, <3>3
  <2> QED  BY <2>4, <2>5
<1>7. /\ DOMAIN m1 = DOMAIN m /\ IsJump(m1, b, to) /\ m1[b].ins.op = "j" /\ m1[b + 1].part = 2
      /\ \A q \in DOMAIN m : q \in Int /\ (q < b \/ b + 2 <= q) => m1[q] = m[q]
  <2>1. b \in DOMAIN m /\ b + 1 \in DOMAIN m
    BY <1>2, <1>4
  <2> QED  BY <1>2, <1>3, <1>5, <2>1, PutJump
<1> HIDE DEF m1
<1>8. /\ DOMAIN m2 = DOMAIN m1
      /\ HasIns(m2, 0, Ins("bnez", TrueAt(l) + 0, l.branch))
      /\ \A q \in DOMAIN m1 : q \in Int /\ ((l.branch <= q /\ q < p) \/ q < 0 \/ TrueAt(l) + 0 <= q)
                 => m2[q] = m1[q]
  <2>1. \A q \in Int : -2 <= q /\ q <= TrueAt(l) + 0 => q \in DOMAIN m1
    BY <1>2, <1>4, <1>7
  <2>2. p = 2 + l.branch + 0 /\ p \in Int
    BY <1>2
  <2> QED  BY <1>6, <2>1, <2>2, Inverted
<1>9. m2[b] = m1[b] /\ m2[b + 1] = m1[b + 1]
  BY <1>2, <1>4, <1>7, <1>8
<1>10. IsJump(m2, l.branch, l.to.falseval)
  BY <1>2, <1>7, <1>9, JumpFrame
<1>11. m2[TrueAt(l) + 0 - 2] # Half(Nop(2), 1)
  <2>1. TrueAt(l) + 0 - 2 = b \/ TrueAt(l) + 0 - 2 = b + 1
    BY <1>2
  <2>2. m2[b] # Half(Nop(2), 1) /\ m2[b + 1] # Half(Nop(2), 1)
    BY <1>7, <1>9 DEF Half, Nop, Ins
  <2>3. CASE TrueAt(l) + 0 - 2 = b
    BY <2>2, <2>3
  <2>4. CASE TrueAt(l) + 0 - 2 = b + 1
    BY <2>2, <2>4
  <2> QED  BY <2>1, <2>3, <2>4
<1>12. /\ FalseInv(m2, l, ch2) /\ Moved(m2, l, ch2) = 0 /\ TrueJump(m2, l, ch2) = TrueAt(l) + 0
  <2>1. "falseval" \in ch2 /\ 0 \in {0, 2} /\ 0 # 2
    OBVIOUS
  <2> QED  BY <1>8, <1>10, <1>11, <2>1, SkipInv
<1>13. TrueJump(m2, l, ch2) = TrueAt(l)
  BY <1>2, <1>12
<1>14. \A q \in Int : q \in DOMAIN m /\ (q < 0 \/ TrueAt(l) <= q) => m2[q] = m[q]
  BY <1>2, <1>7, <1>8
<1>15. DOMAIN m2 = DOMAIN m
  BY <1>7, <1>8
<1> QED  BY <1>12, <1>13, <1>14, <1>15, TrueSame

\* Where the first jump is.
LEMMA TerminatorIs ==
    ASSUME NEW m, DOMAIN m \subseteq Int, NEW src \in Int, NEW t \in Int, src <= t,
           t \in DOMAIN m, Terminates(m[t]),
           \A q \in Int : src <= q /\ q < t => q \in DOMAIN m /\ ~Terminates(m[q])
    PROVE  Terminator(m, src) = t
<1> DEFINE P(x) == /\ x >= src /\ Terminates(m[x])
                   /\ \A q \in src .. x - 1 : ~Terminates(m[q])
<1>1. P(t)
  OBVIOUS
<1>2. ASSUME NEW x \in DOMAIN m, P(x) PROVE x = t
  <2>1. x \in Int /\ src <= x
    BY <1>2
  <2>2. ~(x < t)
    BY <1>2, <2>1
  <2>3. ~(t < x)
    <3>1. ASSUME t < x PROVE FALSE
      <4>1. t \in src .. x - 1
        BY <2>1, <3>1
      <4> QED  BY <1>2, <4>1
    <3> QED  BY <3>1
  <2> QED  BY <2>1, <2>2, <2>3
<1>3. Terminator(m, src) = CHOOSE x \in DOMAIN m : P(x)
  BY DEF Terminator
<1> HIDE DEF P
<1>4. (CHOOSE x \in DOMAIN m : P(x)) \in DOMAIN m /\ P(CHOOSE x \in DOMAIN m : P(x))
  BY <1>1
<1> QED  BY <1>2, <1>3, <1>4

\* What has been moved by a word.
LEMMA MoveFacts ==
    ASSUME NEW m, DOMAIN m \subseteq Int, NEW t \in Int, 3 <= t,
           \A q \in Int : 3 <= q /\ q <= t + 3 => q \in DOMAIN m,
           Terminates(m[t]),
           \A q \in Int : 3 <= q /\ q < t => ~Terminates(m[q]),
           NEW i, i = Reemit(m[t].ins), i.size \in {1, 2}, NEW m2, m2 = Move(m, 3)
    PROVE  /\ DOMAIN m2 = DOMAIN m /\ HasIns(m2, t + 2, i)
           /\ \A q \in Int : 3 <= q /\ q < t => m2[q + 2] = m[q]
           /\ \A q \in DOMAIN m : q \in Int /\ (q < 5 \/ t + 3 < q) => m2[q] = m[q]
<1>1. Terminator(m, 3) = t
  BY TerminatorIs
<1> DEFINE top == t + 2 + (IF (t - 3) % 2 = 0 THEN 1 ELSE 0)
           m1 == [q \in DOMAIN m |-> IF q \in 3 + 2 .. top THEN m[q - 2] ELSE m[q]]
<1>2. m2 = Put(m1, t + 2, i)
  BY <1>1 DEF Move
<1>3. top \in Int /\ (top = t + 2 \/ top = t + 3)
  OBVIOUS
<1> HIDE DEF top
<1>4. /\ DOMAIN m1 = DOMAIN m
      /\ \A q \in DOMAIN m : q \in Int => m1[q] = IF 5 <= q /\ q <= top THEN m[q - 2] ELSE m[q]
  <2>1. \A q \in Int : q \in 3 + 2 .. top <=> 5 <= q /\ q <= top
    BY <1>3
  <2> QED  BY <2>1
<1> HIDE DEF m1
<1>5. t + 2 \in Int /\ t + 2 \in DOMAIN m1 /\ t + 2 + 1 \in DOMAIN m1
  BY <1>4
<1>6. HasIns(m2, t + 2, i)
  BY <1>2, <1>5, PutHas
<1>7. /\ DOMAIN m2 = DOMAIN m1
      /\ \A q \in DOMAIN m1 : q \in Int /\ (q < t + 2 \/ t + 2 + i.size <= q) => m2[q] = m1[q]
  BY <1>2, <1>5, PutFacts
<1>8. ASSUME NEW q \in Int, 3 <= q, q < t PROVE m2[q + 2] = m[q]
  <2>1. q + 2 \in DOMAIN m /\ q + 2 \in Int /\ q + 2 < t + 2 /\ 5 <= q + 2 /\ q + 2 <= top
    BY <1>3, <1>8
  <2>2. m2[q + 2] = m1[q + 2]
    BY <1>4, <1>7, <2>1
  <2>3. m1[q + 2] = m[q + 2 - 2]
    BY <1>4, <2>1
  <2>4. q + 2 - 2 = q
    BY <1>8
  <2> QED  BY <2>2, <2>3, <2>4
<1>9. ASSUME NEW q \in DOMAIN m, q \in Int, q < 5 \/ t + 3 < q PROVE m2[q] = m[q]
  <2>1. m1[q] = m[q]
    BY <1>3, <1>4, <1>9
  <2>2. m2[q] = m1[q]
    BY <1>4, <1>7, <1>9
  <2> QED  BY <2>1, <2>2
<1> QED  BY <1>4, <1>6, <1>7, <1>8, <1>9

\* The jumps that are emitted again.
LEMMA ReemitFacts ==
    ASSUME NEW off \in Int, NEW size
    PROVE  /\ IsJTypeImm(off) => \E n \in {1, 2} :
                                  /\ Reemit(Ins("j", off, size)) = Ins("j", off - 2, n)
                                  /\ Reemit(Ins("j", off, size)).size = n
                                  /\ IsCJImm(off - 2) <=> n = 1
           /\ -1022 <= off /\ off < 1024 =>
                 \E n \in {1, 2} : /\ Reemit(Ins("jr", off, size)) = Ins("jr", off - 2, n)
                                   /\ Reemit(Ins("jr", off, size)).size = n
<1>1. /\ Reemit(Ins("j", off, size)) = Jump(off - 2)
      /\ Reemit(Ins("jr", off, size)) = JumpReg(off - 2)
  BY DEF Reemit, Ins
<1>2. off - 2 \in Int /\ (IsJTypeImm(off) => -524288 <= off - 2 /\ off - 2 < 524288)
  BY DEF IsJTypeImm
<1>3. IsJTypeImm(off) => \E n \in {1, 2} : /\ Jump(off - 2) = Ins("j", off - 2, n)
                                           /\ Jump(off - 2).size = n
                                           /\ IsCJImm(off - 2) <=> n = 1
  BY <1>2, JumpFacts
<1>4. -1022 <= off /\ off < 1024 =>
         \E n \in {1, 2} : JumpReg(off - 2) = Ins("jr", off - 2, n) /\ JumpReg(off - 2).size = n
  BY <1>2, JumpRegFacts
<1> QED  BY <1>1, <1>3, <1>4

\* There is no jump in what stores an address.
LEMMA StorePcOp ==
    ASSUME NEW l, NEW s, NEW k
    PROVE  StorePc(l, s, k).ins.op \in {"li", "sd"}
  BY DEF StorePc, Half, Ins

\* There is room to move the true side by a word.
LEMMA RoomFacts ==
    ASSUME RoomToMove, NEW l \in Layouts, l.cond
    PROVE  TrueEnd(l) + 4 <= End(l) /\ End(l) - TrueEnd(l) < 60
<1>1. l.load.falseval \in Loads.falseval
  BY LayoutMembers
<1>2. l.load.falseval.len >= 2
  BY <1>1 DEF RoomToMove
<1> QED  BY <1>2, Places, SideFields

\* The true side, not patched, has been moved.
LEMMA MovedEmitted ==
    ASSUME RoomToMove, NEW m, NEW l \in Layouts, NEW ch, CodeInv(m, l, ch), l.cond,
           l.branch = 1, "falseval" \notin ch, "trueval" \notin ch, NEW m1, m1 = Move(m, 3)
    PROVE  /\ DOMAIN m1 = DOMAIN m
           /\ \A q \in DOMAIN m : q \in Int /\ (q < 5 \/ End(l) <= q) => m1[q] = m[q]
           /\ TrueAsEmitted(m1, l, 2)
<1> DEFINE t == TrueEnd(l)
<1>1. /\ TrueAt(l) \in Int /\ t \in Int /\ End(l) \in Int
      /\ TrueAt(l) = 3 \/ TrueAt(l) = 4
      /\ TrueAt(l) + 4 <= t /\ t + 4 <= End(l) /\ End(l) - t < 60
      /\ t = TrueAt(l) + 2 + l.load.trueval.len + l.sd.trueval
  BY Rooms, Places, RoomFacts, SideFields
<1>2. \A q \in Int : -2 <= q /\ q <= End(l) + 1 => q \in DOMAIN m
  BY Ranges
<1>3. DOMAIN m \subseteq Int
  BY EmittedDomain DEF CodeInv
<1>4. TrueAsEmitted(m, l, 0)
  BY BranchFacts DEF CodeInv, TrueInv
<1>5. \A q \in Int : TrueAt(l) <= q /\ q < t => m[q] = Emitted(l)[q]
  BY <1>1, <1>4 DEF TrueAsEmitted
<1>6. m[t] = Half(Ins("j", End(l) - t, 1), 1)
  <2>1. HasIns(m, t + 0, Ins("j", End(l) - t - 0, 1))
    BY <1>4 DEF TrueAsEmitted
  <2>2. t + 0 = t /\ End(l) - t - 0 = End(l) - t
    BY <1>1
  <2> QED  BY <2>1, <2>2 DEF HasIns
<1>7. Terminates(m[t]) /\ m[t].ins = Ins("j", End(l) - t, 1)
  BY <1>6 DEF Terminates, Half, Ins
<1>8. ASSUME NEW q \in Int, 3 <= q, q < t PROVE ~Terminates(m[q])
  <2>1. CASE q < TrueAt(l)
    <3>0. 2 + l.branch <= q /\ q < TrueAt(l)
      BY <1>8, <2>1
    <3>1. HasIns(m, q, Nop(1))
      BY <3>0, FalseParts
    <3> QED  BY <3>1 DEF HasIns, Nop, Ins, Half, Terminates
  <2>2. CASE q = TrueAt(l) \/ q = TrueAt(l) + 1
    <3>1. m[q] = Half(Auipc(0), 1) \/ m[q] = Half(Auipc(0), 2)
      BY <1>1, <1>5, <2>2, EmittedAuipc
    <3> QED  BY <3>1 DEF Auipc, Ins, Half, Terminates
  <2>3. CASE TrueAt(l) + 2 <= q
    <3>1. m[q] = Emitted(l)[q]
      BY <1>1, <1>5, <1>8, <2>3
    <3>2. PICK k \in Int : k = q - TrueAt(l) - 1
      BY <1>1
    <3>3. 1 <= k /\ k <= l.load.trueval.len + l.sd.trueval /\ q = TrueAt(l) + 1 + k
      BY <1>1, <1>8, <2>3, <3>2, SideFields
    <3>4. m[q] = StorePc(l, "trueval", k)
      BY <3>1, <3>3, EmittedTrue
    <3> QED  BY <3>4, StorePcOp DEF Terminates
  <2> QED  BY <1>1, <1>8, <2>1, <2>2, <2>3
<1>9. PICK n \in {1, 2} : /\ Reemit(m[t].ins) = Ins("j", End(l) - t - 2, n)
                          /\ Reemit(m[t].ins).size = n
                          /\ IsCJImm(End(l) - t - 2) <=> n = 1
  <2>1. PICK off \in Int : off = End(l) - t
    BY <1>1
  <2>2. IsJTypeImm(off)
    BY <1>1, <2>1 DEF IsJTypeImm
  <2>3. m[t].ins = Ins("j", off, 1)
    BY <1>7, <2>1
  <2> QED  BY <2>1, <2>2, <2>3, ReemitFacts
<1>10. n = 1
  <2>1. IsCJImm(End(l) - t - 2)
    BY <1>1 DEF IsCJImm
  <2> QED  BY <1>9, <2>1
<1> HIDE DEF t
<1>11. /\ DOMAIN m1 = DOMAIN m /\ HasIns(m1, t + 2, Reemit(m[t].ins))
       /\ \A q \in Int : 3 <= q /\ q < t => m1[q + 2] = m[q]
       /\ \A q \in DOMAIN m : q \in Int /\ (q < 5 \/ t + 3 < q) => m1[q] = m[q]
  <2>1. \A q \in Int : 3 <= q /\ q <= t + 3 => q \in DOMAIN m
    BY <1>1, <1>2
  <2>2. 3 <= t
    BY <1>1
  <2> QED  BY <1>1, <1>3, <1>7, <1>8, <1>9, <2>1, <2>2, MoveFacts
<1>12. \A q \in DOMAIN m : q \in Int /\ (q < 5 \/ End(l) <= q) => m1[q] = m[q]
  BY <1>1, <1>11
<1>13. TrueAsEmitted(m1, l, 2)
  <2>1. ASSUME NEW q \in Int, TrueAt(l) <= q, q < t PROVE m1[q + 2] = Emitted(l)[q]
    BY <1>1, <1>5, <1>11, <2>1
  <2>2. HasIns(m1, t + 2, Ins("j", End(l) - t - 2, 1))
    BY <1>9, <1>10, <1>11
  <2> QED  BY <1>1, <2>1, <2>2 DEF TrueAsEmitted, t
<1> QED  BY <1>11, <1>12, <1>13

\* The jump that has replaced the true side has been moved.
LEMMA MovedDirect ==
    ASSUME RoomToMove, NEW m, NEW l \in Layouts, NEW ch, CodeInv(m, l, ch), l.cond,
           l.branch = 1, "falseval" \notin ch, "trueval" \in ch, NEW m1, m1 = Move(m, 3)
    PROVE  /\ DOMAIN m1 = DOMAIN m
           /\ \A q \in DOMAIN m : q \in Int /\ (q < 5 \/ End(l) <= q) => m1[q] = m[q]
           /\ Direct(m1, TrueAt(l) + 2, l.to.trueval)
<1> DEFINE T == TrueAt(l)
           d == l.to.trueval
<1>1. /\ T \in Int /\ TrueEnd(l) \in Int /\ End(l) \in Int /\ d \in Int
      /\ T = 3 \/ T = 4
      /\ T + 4 <= TrueEnd(l) /\ TrueEnd(l) + 4 <= End(l)
  BY Rooms, Places, RoomFacts, SideFields
<1>2. \A q \in Int : -2 <= q /\ q <= End(l) + 1 => q \in DOMAIN m
  BY Ranges
<1>3. DOMAIN m \subseteq Int
  BY EmittedDomain DEF CodeInv
<1>4. Movable(m, T, d)
  BY DEF CodeInv, TrueInv
<1>5. ASSUME NEW q \in Int, 3 <= q, q < T PROVE ~Terminates(m[q])
  <2>0. 2 + l.branch <= q /\ q < TrueAt(l)
    BY <1>5
  <2>1. HasIns(m, q, Nop(1))
    BY <2>0, FalseParts
  <2> QED  BY <2>1 DEF HasIns, Nop, Ins, Half, Terminates
<1> HIDE DEF T, d
<1>6. CASE IsJump(m, T, d) /\ IsJTypeImm(d - T)
  <2>1. PICK size \in {1, 2} : HasIns(m, T, Ins("j", d - T, size))
    BY <1>6 DEF IsJump
  <2>2. Terminates(m[T]) /\ m[T].ins = Ins("j", d - T, size)
    BY <2>1 DEF HasIns, Terminates, Half, Ins
  <2>3. PICK n \in {1, 2} : /\ Reemit(m[T].ins) = Ins("j", d - T - 2, n)
                            /\ Reemit(m[T].ins).size = n
    <3>1. PICK off \in Int : off = d - T
      BY <1>1
    <3>2. IsJTypeImm(off) /\ m[T].ins = Ins("j", off, size)
      BY <1>6, <2>2, <3>1
    <3> QED  BY <3>1, <3>2, ReemitFacts
  <2>4. /\ DOMAIN m1 = DOMAIN m /\ HasIns(m1, T + 2, Reemit(m[T].ins))
        /\ \A q \in DOMAIN m : q \in Int /\ (q < 5 \/ T + 3 < q) => m1[q] = m[q]
    <3>1. \A q \in Int : 3 <= q /\ q <= T + 3 => q \in DOMAIN m
      BY <1>1, <1>2
    <3>2. 3 <= T
      BY <1>1
    <3> QED  BY <1>1, <1>3, <1>5, <2>2, <2>3, <3>1, <3>2, MoveFacts
  <2>5. d - T - 2 = d - (T + 2)
    BY <1>1
  <2>6. IsJump(m1, T + 2, d)
    BY <2>3, <2>4, <2>5 DEF IsJump
  <2>7. \A q \in DOMAIN m : q \in Int /\ (q < 5 \/ End(l) <= q) => m1[q] = m[q]
    BY <1>1, <2>4
  <2> QED  BY <2>4, <2>6, <2>7 DEF Direct, T, d
<1>7. ASSUME NEW off \in Int, HasIns(m, T, Auipc(off)), IsJumpReg(m, T + 2, d - (T + off)),
             -1022 <= d - (T + off), d - (T + off) < 1024
      PROVE  /\ DOMAIN m1 = DOMAIN m
             /\ \A q \in DOMAIN m : q \in Int /\ (q < 5 \/ End(l) <= q) => m1[q] = m[q]
             /\ Direct(m1, T + 2, d)
  <2>1. PICK lo \in Int : lo = d - (T + off)
    BY <1>1
  <2>2. PICK size \in {1, 2} : HasIns(m, T + 2, Ins("jr", lo, size))
    BY <1>7, <2>1 DEF IsJumpReg
  <2>3. Terminates(m[T + 2]) /\ m[T + 2].ins = Ins("jr", lo, size)
    BY <2>2 DEF HasIns, Terminates, Half, Ins
  <2>4. m[T] = Half(Auipc(off), 1) /\ m[T + 1] = Half(Auipc(off), 2)
    BY <1>7 DEF HasIns, Auipc, Ins
  <2>5. ASSUME NEW q \in Int, 3 <= q, q < T + 2 PROVE ~Terminates(m[q])
    <3>1. q < T \/ q = T \/ q = T + 1
      BY <1>1, <2>5
    <3>2. ~Terminates(m[T]) /\ ~Terminates(m[T + 1])
      BY <2>4 DEF Terminates, Half, Auipc, Ins
    <3> QED  BY <1>5, <2>5, <3>1, <3>2
  <2>6. PICK n \in {1, 2} : /\ Reemit(m[T + 2].ins) = Ins("jr", lo - 2, n)
                            /\ Reemit(m[T + 2].ins).size = n
    <3>1. -1022 <= lo /\ lo < 1024
      BY <1>7, <2>1
    <3> QED  BY <2>3, <3>1, ReemitFacts
  <2>7. PICK t \in Int : t = T + 2
    BY <1>1
  <2>8. /\ DOMAIN m1 = DOMAIN m /\ HasIns(m1, t + 2, Reemit(m[t].ins))
        /\ \A q \in Int : 3 <= q /\ q < t => m1[q + 2] = m[q]
        /\ \A q \in DOMAIN m : q \in Int /\ (q < 5 \/ t + 3 < q) => m1[q] = m[q]
    <3>1. \A q \in Int : 3 <= q /\ q <= t + 3 => q \in DOMAIN m
      BY <1>1, <1>2, <2>7
    <3>2. 3 <= t
      BY <1>1, <2>7
    <3>3. Terminates(m[t]) /\ Reemit(m[t].ins).size \in {1, 2}
      BY <2>3, <2>6, <2>7
    <3>4. \A q \in Int : 3 <= q /\ q < t => ~Terminates(m[q])
      BY <2>5, <2>7
    <3> QED  BY <1>3, <3>1, <3>2, <3>3, <3>4, MoveFacts
  <2>9. \A q \in DOMAIN m : q \in Int /\ (q < 5 \/ End(l) <= q) => m1[q] = m[q]
    BY <1>1, <2>7, <2>8
  <2>10. m1[T + 2] = m[T] /\ m1[T + 3] = m[T + 1]
    <3>1. m1[T + 2] = m[T]
      BY <1>1, <2>7, <2>8
    <3>2. T + 1 \in Int /\ 3 <= T + 1 /\ T + 1 < t /\ T + 1 + 2 = T + 3
      BY <1>1, <2>7
    <3> QED  BY <2>8, <3>1, <3>2
  <2>11. HasIns(m1, T + 2, Auipc(off))
    <3>1. T + 2 + 1 = T + 3
      BY <1>1
    <3> QED  BY <2>4, <2>10, <3>1 DEF HasIns
  <2>12. IsJumpReg(m1, T + 2 + 2, d - (T + 2 + off))
    <3>1. lo - 2 = d - (T + 2 + off) /\ T + 2 + 2 = t + 2
      BY <1>1, <2>1, <2>7
    <3>2. HasIns(m1, t + 2, Ins("jr", lo - 2, n))
      BY <2>6, <2>7, <2>8
    <3> QED  BY <3>1, <3>2 DEF IsJumpReg
  <2>13. IsLongJump(m1, T + 2, d)
    BY <2>11, <2>12 DEF IsLongJump
  <2> QED  BY <2>8, <2>9, <2>13 DEF Direct
<1> QED  BY <1>4, <1>6, <1>7 DEF Movable, T, d

\* The AUIPC and the JR behind the branch, filled up with a NOP to two words.
LEMMA Filled ==
    ASSUME NEW m, NEW d \in Int,
           \A q \in Int : 1 <= q /\ q <= 4 => q \in DOMAIN m,
           NEW jr, jr = LongJump(Assembler(m, 1), d - 1),
           NEW body, body = IF Lo(d - 1) = 0 THEN Emit(jr, Nop(1)) ELSE jr
    PROVE  /\ body = Assembler(body.m, 5) /\ DOMAIN body.m = DOMAIN m
           /\ IsLongJump(body.m, 1, d)
           /\ body.m[3] # Half(Nop(2), 1) /\ body.m[4] # Half(Nop(2), 1)
           /\ \A q \in DOMAIN m : q \in Int /\ (q < 1 \/ 5 <= q) => body.m[q] = m[q]
<1>1. PICK off \in Int : off = d - 1
  OBVIOUS
<1>2. LongAt(m, jr, 1, off)
  <2>1. 1 \in DOMAIN m /\ 1 + 1 \in DOMAIN m /\ 1 + 2 \in DOMAIN m /\ 1 + 3 \in DOMAIN m
    OBVIOUS
  <2> QED  BY <1>1, <2>1, PutLong
<1>3. PICK lo \in Int :
              /\ lo = Lo(off) /\ DOMAIN jr.m = DOMAIN m
              /\ HasIns(jr.m, 1, Auipc(off - lo)) /\ IsJumpReg(jr.m, 1 + 2, lo)
              /\ jr.m[1 + 2].ins.op = "jr"
              /\ jr = Assembler(jr.m, jr.p)
              /\ lo = 0 => jr.p = 1 + 3 /\ HasIns(jr.m, 1 + 2, Ins("jr", 0, 1))
              /\ lo # 0 => jr.p = 1 + 4 /\ jr.m[1 + 3].part = 2
              /\ \A q \in DOMAIN m : q \in Int /\ (q < 1 \/ 1 + 4 <= q) => jr.m[q] = m[q]
  BY <1>2 DEF LongAt
<1>4. jr.m[3] # Half(Nop(2), 1)
  BY <1>3 DEF Half, Nop, Ins
<1>5. CASE lo # 0
  <2>1. body = jr
    BY <1>1, <1>3, <1>5
  <2>2. jr.m[4] # Half(Nop(2), 1)
    BY <1>3, <1>5 DEF Half, Nop, Ins
  <2>3. IsLongJump(jr.m, 1, d)
    <3>1. off - lo = d - 1 - lo
      BY <1>1
    <3> QED  BY <1>3, <3>1, LongIsLong
  <2>4. jr.p = 5 /\ 1 + 4 = 5
    BY <1>3, <1>5
  <2>5. \A q \in DOMAIN m : q \in Int /\ (q < 1 \/ 5 <= q) => jr.m[q] = m[q]
    BY <1>3
  <2>6. jr = Assembler(jr.m, 5)
    BY <1>3, <2>4
  <2> QED  BY <1>3, <1>4, <2>1, <2>2, <2>3, <2>5, <2>6
<1>6. CASE lo = 0
  <2>1. jr.p = 4 /\ jr = Assembler(jr.m, 4)
    BY <1>3, <1>6
  <2>2. Nop(1).size = 1
    BY DEF Nop, Ins
  <2> DEFINE m2 == Put(jr.m, 4, Nop(1))
  <2>3. body = Assembler(m2, 5)
    <3>1. body = Emit(jr, Nop(1))
      BY <1>1, <1>3, <1>6
    <3> QED  BY <2>1, <2>2, <3>1 DEF Emit
  <2>4. /\ DOMAIN m2 = DOMAIN m /\ m2[4] = Half(Nop(1), 1)
        /\ \A q \in DOMAIN m : q \in Int /\ (q < 4 \/ 5 <= q) => m2[q] = jr.m[q]
    <3>1. 4 \in DOMAIN jr.m
      BY <1>3
    <3>2. /\ DOMAIN m2 = DOMAIN jr.m
          /\ 4 \in DOMAIN jr.m => m2[4] = Half(Nop(1), 1)
          /\ \A q \in DOMAIN jr.m : q \in Int /\ (q < 4 \/ 4 + Nop(1).size <= q) => m2[q] = jr.m[q]
      BY <2>2, PutFacts
    <3> QED  BY <1>3, <2>2, <3>1, <3>2
  <2> HIDE DEF m2
  <2>5. m2[1] = jr.m[1] /\ m2[2] = jr.m[2] /\ m2[3] = jr.m[3]
    BY <2>4
  <2>6. HasIns(m2, 1, Auipc(off - lo))
    <3>1. m2[1 + 1] = jr.m[1 + 1]
      BY <2>5
    <3> QED  BY <1>3, <2>5, <3>1, HasFrame
  <2>7. IsJumpReg(m2, 1 + 2, lo)
    <3>1. m2[3] = Half(Ins("jr", 0, 1), 1)
      BY <1>3, <1>6, <2>5 DEF HasIns
    <3>2. HasIns(m2, 1 + 2, Ins("jr", lo, 1))
      BY <1>6, <3>1 DEF HasIns, Ins
    <3> QED  BY <3>2 DEF IsJumpReg
  <2>8. IsLongJump(m2, 1, d)
    <3>1. off - lo = d - 1 - lo
      BY <1>1
    <3> QED  BY <2>6, <2>7, <3>1, LongIsLong
  <2>9. m2[4] # Half(Nop(2), 1) /\ m2[3] # Half(Nop(2), 1)
    BY <1>4, <2>4, <2>5 DEF Half, Nop, Ins
  <2>10. \A q \in DOMAIN m : q \in Int /\ (q < 1 \/ 5 <= q) => m2[q] = m[q]
    BY <1>3, <2>4
  <2>11. body.m = m2
    BY <2>3 DEF Assembler
  <2> QED  BY <2>3, <2>4, <2>8, <2>9, <2>10, <2>11
<1> QED  BY <1>5, <1>6

\* The block of the false side is out of a jump's reach too: the true side is moved
\* for an AUIPC and a JR behind the inverted branch.
LEMMA PatchFar ==
    ASSUME RoomToMove,
           NEW m, NEW l \in Layouts, NEW ch, CodeInv(m, l, ch), l.cond, "falseval" \notin ch,
           NEW to, to = l.to.falseval, ~IsBTypeImm(to - 0),
           l.branch = 1, ~IsJTypeImm(to - 1),
           NEW m2, m2 = PatchBranch(m, l.odd, 0, to), NEW ch2, ch2 = ch \cup {"falseval"}
    PROVE  CodeInv(m2, l, ch2)
<1> DEFINE T == TrueAt(l)
           m1 == Move(m, 3)
           jr == LongJump(Assembler(m1, 1), to - 1)
           body == IF Lo(to - 1) = 0 THEN Emit(jr, Nop(1)) ELSE jr
<1>1. m[0 + 2].ins.op = "beqz" /\ m[0 + 2].ins.size = 1
  BY BranchFacts
<1>2. /\ to \in Int /\ T \in Int /\ TrueEnd(l) \in Int /\ End(l) \in Int
      /\ T = 3 \/ T = 4
      /\ T + 4 <= TrueEnd(l) /\ TrueEnd(l) + 4 <= End(l)
  BY Rooms, RoomFacts, Places, SideFields
<1>3. \A q \in Int : -2 <= q /\ q <= End(l) + 1 => q \in DOMAIN m
  BY Ranges
<1>4. /\ DOMAIN m1 = DOMAIN m
      /\ \A q \in DOMAIN m : q \in Int /\ (q < 5 \/ End(l) <= q) => m1[q] = m[q]
      /\ "trueval" \notin ch => TrueAsEmitted(m1, l, 2)
      /\ "trueval" \in ch => Direct(m1, T + 2, l.to.trueval)
  <2>1. CASE "trueval" \notin ch
    BY <2>1, MovedEmitted
  <2>2. CASE "trueval" \in ch
    BY <2>2, MovedDirect
  <2> QED  BY <2>1, <2>2
<1>5. m2 = Put(Align(body, l.odd).m, 0, Ins("bnez", Align(body, l.odd).p - 0, 1))
  <2>1. /\ Move(m, 0 + 3) = m1 /\ 0 + 1 = 1
    OBVIOUS
  <2> QED  BY <1>1, <2>1 DEF PatchBranch, Inverse
<1> HIDE DEF m1
<1>6. /\ body = Assembler(body.m, 5) /\ DOMAIN body.m = DOMAIN m1
      /\ IsLongJump(body.m, 1, to)
      /\ body.m[3] # Half(Nop(2), 1) /\ body.m[4] # Half(Nop(2), 1)
      /\ \A q \in DOMAIN m1 : q \in Int /\ (q < 1 \/ 5 <= q) => body.m[q] = m1[q]
  <2>1. \A q \in Int : 1 <= q /\ q <= 4 => q \in DOMAIN m1
    BY <1>2, <1>3, <1>4
  <2> QED  BY <1>2, <2>1, Filled
<1> HIDE DEF body, jr
<1> DEFINE mb == body.m
<1>7. /\ DOMAIN m2 = DOMAIN mb
      /\ HasIns(m2, 0, Ins("bnez", T + 2, l.branch))
      /\ \A q \in DOMAIN mb : q \in Int /\ ((l.branch <= q /\ q < 5) \/ q < 0 \/ T + 2 <= q)
            => m2[q] = mb[q]
  <2>1. body = Assembler(mb, 5)
    BY <1>6
  <2> HIDE DEF mb
  <2>2. \A q \in Int : -2 <= q /\ q <= T + 2 => q \in DOMAIN mb
    BY <1>2, <1>3, <1>4, <1>6 DEF mb
  <2>3. 5 = 2 + l.branch + 2 /\ 5 \in Int /\ 2 \in {0, 2}
    OBVIOUS
  <2>4. \/ Align(Assembler(mb, 5), l.odd) = Assembler(mb, 5) /\ TrueAt(l) + 2 = 5
        \/ /\ Align(Assembler(mb, 5), l.odd) = Assembler(Put(mb, 5, Nop(1)), 5 + 1)
           /\ TrueAt(l) + 2 = 5 + 1
    BY <2>3, AlignFacts
  <2>5. Align(Assembler(mb, 5), l.odd).p = T + 2
    BY <2>4 DEF Assembler
  <2>6. Align(Assembler(mb, 5), l.odd).p - 0 = Align(Assembler(mb, 5), l.odd).p
    BY <1>2, <2>5
  <2>7. m2 = Put(Align(Assembler(mb, 5), l.odd).m, 0,
                 Ins("bnez", Align(Assembler(mb, 5), l.odd).p, l.branch))
    BY <1>5, <2>1, <2>6
  <2> QED  BY <2>2, <2>3, <2>7, Inverted
<1> HIDE DEF mb
<1>8. DOMAIN m2 = DOMAIN m /\ DOMAIN mb = DOMAIN m
  BY <1>4, <1>6, <1>7 DEF mb
<1>9. \A q \in Int : 1 <= q /\ q < 5 => m2[q] = mb[q]
  BY <1>2, <1>3, <1>7, <1>8
<1>10. \A q \in Int : q \in DOMAIN m /\ T + 2 <= q => m2[q] = m1[q]
  BY <1>2, <1>4, <1>6, <1>7, <1>8 DEF mb
<1>11. \A q \in Int : q \in DOMAIN m /\ (q < 0 \/ End(l) <= q) => m2[q] = m[q]
  BY <1>2, <1>4, <1>6, <1>7, <1>8 DEF mb
<1>12. IsLongJump(m2, l.branch, l.to.falseval)
  <2>1. \A q \in Int : 1 <= q /\ q <= 1 + 3 => m2[q] = mb[q]
    BY <1>9
  <2>2. IsLongJump(m2, 1, to)
    BY <1>2, <1>6, <2>1, LongFrame DEF mb
  <2> QED  BY <2>2
<1>13. m2[T + 2 - 2] # Half(Nop(2), 1)
  <2>1. T + 2 - 2 = 3 \/ T + 2 - 2 = 4
    BY <1>2
  <2>2. m2[3] # Half(Nop(2), 1) /\ m2[4] # Half(Nop(2), 1)
    BY <1>6, <1>9 DEF mb
  <2>3. CASE T + 2 - 2 = 3
    BY <2>2, <2>3
  <2>4. CASE T + 2 - 2 = 4
    BY <2>2, <2>4
  <2> QED  BY <2>1, <2>3, <2>4
<1>14. /\ FalseInv(m2, l, ch2) /\ Moved(m2, l, ch2) = 2
       /\ TrueNow(m2, l, ch2) = T + 2 /\ TrueJump(m2, l, ch2) = T + 2
  <2>1. "falseval" \in ch2 /\ 2 \in {0, 2} /\ 2 # 0
    OBVIOUS
  <2> QED  BY <1>7, <1>12, <1>13, <2>1, SkipInv
<1>15. Surroundings(m2, l)
  <2>1. ASSUME NEW q \in DOMAIN m2, q < 0 \/ q >= End(l) PROVE m2[q] = Emitted(l)[q]
    <3>1. q \in DOMAIN m /\ q \in Int
      BY <1>8, <2>1, EmittedDomain DEF CodeInv
    <3>2. m2[q] = m[q]
      BY <1>2, <1>11, <2>1, <3>1
    <3> QED  BY <2>1, <3>1, <3>2 DEF CodeInv, Surroundings
  <2> QED  BY <2>1 DEF Surroundings
<1>16. "trueval" \in ch2 <=> "trueval" \in ch
  OBVIOUS
<1>17. TrueInv(m2, l, ch2)
  <2>1. CASE "trueval" \notin ch
    <3>1. TrueAsEmitted(m1, l, 2)
      BY <1>4, <2>1
    <3>2. ASSUME NEW q \in TrueAt(l) .. TrueEnd(l) - 1 PROVE m2[q + 2] = Emitted(l)[q]
      <4>1. m1[q + 2] = Emitted(l)[q]
        BY <3>1 DEF TrueAsEmitted
      <4>2. q + 2 \in Int /\ q + 2 \in DOMAIN m /\ T + 2 <= q + 2
        BY <1>2, <1>3
      <4> QED  BY <1>10, <4>1, <4>2
    <3>3. HasIns(m2, TrueEnd(l) + 2, Ins("j", End(l) - TrueEnd(l) - 2, 1))
      <4>1. HasIns(m1, TrueEnd(l) + 2, Ins("j", End(l) - TrueEnd(l) - 2, 1))
        BY <3>1 DEF TrueAsEmitted
      <4>2. m2[TrueEnd(l) + 2] = m1[TrueEnd(l) + 2]
        BY <1>2, <1>3, <1>10
      <4> QED  BY <4>1, <4>2 DEF HasIns, Ins
    <3>4. TrueAsEmitted(m2, l, 2)
      BY <3>2, <3>3 DEF TrueAsEmitted
    <3> QED  BY <1>14, <1>16, <2>1, <3>4 DEF TrueInv
  <2>2. CASE "trueval" \in ch
    <3>1. Direct(m1, T + 2, l.to.trueval)
      BY <1>4, <2>2
    <3>2. \A q \in Int : T + 2 <= q /\ q <= T + 2 + 3 => m2[q] = m1[q]
      BY <1>2, <1>3, <1>10
    <3>3. Direct(m2, T + 2, l.to.trueval)
      BY <1>2, <3>1, <3>2, DirectFrame
    <3>4. "falseval" \in ch2
      OBVIOUS
    <3> QED  BY <1>14, <1>16, <2>2, <3>3, <3>4 DEF TrueInv
  <2> QED  BY <2>1, <2>2
<1> QED  BY <1>8, <1>14, <1>15, <1>17 DEF CodeInv, Sides, Side

\* The false side is patched.
LEMMA PatchBranchInv ==
    ASSUME InReach, RoomToMove,
           NEW m, NEW l \in Layouts, NEW ch, CodeInv(m, l, ch), l.cond, "falseval" \notin ch,
           NEW to, to = l.to.falseval,
           NEW m2, m2 = PatchBranch(m, l.odd, 0, to), NEW ch2, ch2 = ch \cup {"falseval"}
    PROVE  CodeInv(m2, l, ch2)
<1>1. l.branch \in {1, 2}
  BY SideFields
<1>2. CASE IsBTypeImm(to - 0)
  BY <1>2, PatchNear
<1>3. CASE ~IsBTypeImm(to - 0) /\ (l.branch = 2 \/ IsJTypeImm(to - 1))
  BY <1>3, PatchSkip
<1>4. CASE ~IsBTypeImm(to - 0) /\ l.branch = 1 /\ ~IsJTypeImm(to - 1)
  BY <1>4, PatchFar
<1> QED  BY <1>1, <1>2, <1>3, <1>4

-----------------------------------------------------------------------------
(* The steps of the specification                                            *)

\* Nothing that matters here changes.
LEMMA SameStep ==
    ASSUME Code, Where, UNCHANGED <<code, chained, layout, at, side, a1, reg, pc>>
    PROVE  Code' /\ Where'
<1>1. Code'
  BY DEF Code
<1>2. CASE AtExit
  BY <1>1, <1>2 DEF AtExit, Where
<1>3. CASE InCommon
  BY <1>1, <1>3 DEF InCommon, Where
<1>4. CASE BehindBranch
  BY <1>1, <1>4 DEF BehindBranch, Where
<1>5. CASE AtTrue
  BY <1>1, <1>5 DEF AtTrue, Where
<1>6. CASE InTrue
  BY <1>1, <1>6 DEF InTrue, Loading, AddressOf, Where
<1>7. CASE InFalse
  BY <1>1, <1>7 DEF InFalse, Loading, AddressOf, Where
<1>8. CASE Leaving
  BY <1>1, <1>8 DEF Leaving, Where
<1> QED  BY <1>1, <1>2, <1>3, <1>4, <1>5, <1>6, <1>7, <1>8 DEF Where

\* chain() patches the side by which the thread has left.
LEMMA ChainStep ==
    ASSUME InReach, RoomToMove, LowMovable, Code, Where, Chain
    PROVE  Code' /\ Where'
<1>0. /\ layout \in Layouts /\ CodeInv(code, layout, chained) /\ at \in Int
      /\ side \in Side /\ (side = "trueval" \/ (side = "falseval" /\ layout.cond))
      /\ side \in Sides(layout) /\ End(layout) \in Int
  BY SideFacts, Places DEF Code
<1>1. at \in DOMAIN code /\ ins.op = "rest"
  BY DEF Chain, Fetch, ins
<1>2. AtEnd
  <2>1. CASE Inside /\ Runs
    <3>1. PICK op, arg, size : op # "rest" /\ HasIns(code, at, Ins(op, arg, size))
      BY <2>1 DEF Runs
    <3>2. ins.op # "rest"
      BY <3>1, Executed
    <3> QED  BY <1>1, <3>2
  <2>2. CASE at = layout.to[side]
    <3>1. at \notin DOMAIN code
      BY <1>0, <2>2, Elsewhere, Ranges
    <3> QED  BY <1>1, <3>1
  <2> QED  BY <2>1, <2>2, Somewhere DEF Inside
<1>3. /\ side \notin chained
      /\ a1 = IF side = "trueval" THEN TrueNow(code, layout, chained) ELSE 0
  BY <1>2 DEF AtEnd
<1> DEFINE to == layout.to[side]
<1>4. CASE Throws(code, a1, to)
  <2>1. UNCHANGED <<code, chained, layout, at, side, a1, reg, pc>>
    BY <1>4 DEF Chain
  <2> QED  BY <2>1, SameStep
<1>5. ASSUME ~Throws(code, a1, to), CodeInv(code', layout, chained \cup {side})
      PROVE  Code' /\ Where'
  <2>1. /\ chained' = chained \cup {side} /\ at' = to /\ layout' = layout /\ side' = side
    BY <1>5 DEF Chain
  <2>2. to \in Int
    BY <1>0, Elsewhere
  <2>3. Code'
    BY <1>0, <1>5, <2>1, <2>2 DEF Code
  <2>4. Leaving'
    BY <2>1 DEF Leaving
  <2> QED  BY <2>3, <2>4 DEF Where
<1>6. CASE side = "trueval" /\ ~Throws(code, a1, to)
  <2>1. a1 = TrueNow(code, layout, chained) /\ "trueval" \notin chained
    BY <1>3, <1>6
  <2>2. ~IsBranch(code, a1)
    BY <1>0, <2>1, TrueStart
  <2>3. code' = PatchJump(code, a1, to)
    BY <1>6, <2>2 DEF Chain
  <2>4. to = layout.to.trueval
    BY <1>6
  <2> HIDE DEF to
  <2>5. CodeInv(code', layout, chained \cup {"trueval"})
    <3>1. ASSUME NEW m, m = code, NEW m2, m2 = code', NEW ch, ch = chained
          PROVE  CodeInv(m2, layout, ch \cup {"trueval"})
      <4>1. PICK N : N = a1
        OBVIOUS
      <4>2. m2 = PatchJump(m, N, to) /\ N = TrueNow(m, layout, ch) /\ ~Throws(m, N, to)
            /\ CodeInv(m, layout, ch) /\ "trueval" \notin ch
        BY <1>0, <1>6, <2>1, <2>3, <3>1, <4>1
      <4> QED  BY <1>0, <2>4, <4>2, PatchJumpInv
    <3> QED  BY <3>1
  <2> QED  BY <1>5, <1>6, <2>5
<1>7. CASE side = "falseval" /\ ~Throws(code, a1, to)
  <2>1. a1 = 0 /\ "falseval" \notin chained /\ layout.cond
    BY <1>0, <1>3, <1>7
  <2>2. IsBranch(code, a1)
    BY <1>0, <2>1, BranchFacts
  <2>3. code' = PatchBranch(code, layout.odd, a1, to)
    BY <1>7, <2>2 DEF Chain
  <2>4. to = layout.to.falseval
    BY <1>7
  <2> HIDE DEF to
  <2>5. CodeInv(code', layout, chained \cup {"falseval"})
    BY <1>0, <2>1, <2>3, <2>4, PatchBranchInv
  <2> QED  BY <1>5, <1>7, <2>5
<1> QED  BY <1>0, <1>4, <1>6, <1>7

\* The thread comes back to the exit.
LEMMA EnterStep ==
    ASSUME Code, Where, Enter
    PROVE  Code' /\ Where'
<1>1. /\ at' = 0 /\ side' \in Sides(layout) /\ layout' = layout /\ reg' = Nothing
      /\ code' = code /\ chained' = chained
  BY DEF Enter, patched
<1>2. Code'
  BY <1>1 DEF Code
<1>3. AtExit'
  BY <1>1 DEF AtExit, Nothing
<1> QED  BY <1>2, <1>3 DEF Where

\* The exit as it is emitted.
LEMMA InitCode ==
    ASSUME NEW l \in Layouts
    PROVE  CodeInv(Emitted(l), l, {})
<1> DEFINE m == Emitted(l)
<1>1. DOMAIN m = First .. Last(l)
  BY EmittedDomain
<1>2. ~Skipped(m, {}) /\ ~Branches(m, {})
  BY DEF Skipped, Branches
<1>3. Moved(m, l, {}) = 0 /\ TrueJump(m, l, {}) = TrueNow(m, l, {})
  BY <1>2, NotSkipped, NotBranches
<1>4. Surroundings(m, l)
  BY DEF Surroundings
<1>5. FalseInv(m, l, {})
  BY <1>2 DEF FalseInv, FalseAsEmitted
<1>6. TrueAsEmitted(m, l, 0)
  <2>1. TrueAt(l) \in Int /\ TrueEnd(l) \in Int /\ End(l) \in Int
    BY Places
  <2>2. \A q \in TrueAt(l) .. TrueEnd(l) - 1 : m[q + 0] = Emitted(l)[q]
    BY <2>1
  <2>3. l.cond => HasIns(m, TrueEnd(l) + 0, Ins("j", End(l) - TrueEnd(l) - 0, 1))
    BY <2>1, EmittedJump DEF HasIns, Ins
  <2> QED  BY <2>2, <2>3 DEF TrueAsEmitted
<1>7. TrueInv(m, l, {})
  BY <1>3, <1>6 DEF TrueInv
<1> QED  BY <1>1, <1>4, <1>5, <1>7 DEF CodeInv

\* The invariant holds of the exit as emitted.
LEMMA InitInv == Init => Code /\ Where
<1> SUFFICES ASSUME Init PROVE Code /\ Where
  OBVIOUS
<1>1. Code
  BY InitCode DEF Init, Code
<1>2. AtExit
  BY DEF Init, AtExit
<1> QED  BY <1>1, <1>2 DEF Where

\* The invariant is inductive.
LEMMA NextInv ==
    ASSUME InReach, RoomToMove, LowMovable
    PROVE  Code /\ Where /\ [Next]_vars => Code' /\ Where'
<1> SUFFICES ASSUME Code, Where, [Next]_vars
             PROVE  Code' /\ Where'
  OBVIOUS
<1>1. CASE Exec
  <2>1. Where'
    BY <1>1, ExecStep
  <2>2. /\ side' = side /\ chained' = chained /\ layout' = layout /\ code' = code
    BY <1>1, ExecFrame
  <2>3. at' \in Int
    <3>1. /\ layout \in Layouts
          /\ \A s \in Sides(layout) : layout.to[s] \in Int
          /\ side \in Sides(layout)
      BY Elsewhere, SideFacts DEF Code
    <3>2. /\ Near(layout).size \in Int /\ Pad(layout) \in Int
          /\ TrueNow(code, layout, chained) \in Int /\ TrueEnd(layout) \in Int
          /\ Moved(code, layout, chained) \in Int /\ End(layout) \in Int
      BY <3>1, NearFacts, MovedFacts, Places DEF Code
    <3>3. CASE AtExit'
      BY <3>3 DEF AtExit
    <3>4. CASE InCommon'
      BY <3>4 DEF InCommon
    <3>5. CASE BehindBranch'
      BY <2>2, <3>2, <3>5 DEF BehindBranch
    <3>6. CASE AtTrue'
      BY <2>2, <3>2, <3>6 DEF AtTrue
    <3>7. CASE InTrue'
      BY <2>2, <3>2, <3>7 DEF InTrue, Loading
    <3>8. CASE InFalse'
      BY <3>8 DEF InFalse, Loading
    <3>9. CASE Leaving'
      BY <2>2, <3>1, <3>9 DEF Leaving
    <3> QED  BY <2>1, <3>3, <3>4, <3>5, <3>6, <3>7, <3>8, <3>9 DEF Where
  <2> QED  BY <2>1, <2>2, <2>3 DEF Code
<1>2. CASE Chain
  BY <1>2, ChainStep
<1>3. CASE Enter
  BY <1>3, EnterStep
<1>4. CASE UNCHANGED vars
  <2>1. UNCHANGED <<code, chained, layout, at, side, a1, reg, pc>>
    BY <1>4 DEF vars, patched
  <2> QED  BY <2>1, SameStep
<1> QED  BY <1>1, <1>2, <1>3, <1>4 DEF Next, Exec, Done

\* In whatever order the sides of an exit are patched, a thread in it decodes
\* whole instructions, stores the address of its side, and leaves A1 at an AUIPC
\* that chain() may patch; or it leaves for the block of its side (chain, Jump,
\* C.J, AUIPC + JR, moved and emitted again).
THEOREM ExitIsCorrect ==
    ASSUME InReach, RoomToMove, LowMovable
    PROVE  Spec => []ExitCorrect
<1>1. Code /\ Where /\ [Next]_vars => (Code /\ Where)'
  BY NextInv
<1>2. Code /\ Where => ExitCorrect
  BY InvExit
<1> QED  BY InitInv, <1>1, <1>2, PTL DEF Spec

\* A side that chain() has patched never returns to the dispatcher again, and
\* patching one side does not divert the other.
THEOREM ChainIsEffective ==
    ASSUME InReach, RoomToMove, LowMovable
    PROVE  Spec => []ChainEffective
<1>1. Code /\ Where /\ [Next]_vars => (Code /\ Where)'
  BY NextInv
<1>2. Code /\ Where => ChainEffective
  BY InvExit
<1> QED  BY InitInv, <1>1, <1>2, PTL DEF Spec

\* chain() never writes outside the exit, neither before its first AUIPC nor
\* behind its end, although it overwrites and moves instructions in place.
THEOREM SurroundingsStay ==
    ASSUME InReach, RoomToMove, LowMovable
    PROVE  Spec => []SurroundingsIntact
<1>1. Code /\ Where /\ [Next]_vars => (Code /\ Where)'
  BY NextInv
<1>2. Code => SurroundingsIntact
  BY InvSurroundings
<1> QED  BY InitInv, <1>1, <1>2, PTL DEF Spec
=============================================================================
