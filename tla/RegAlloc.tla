------------------------------ MODULE RegAlloc ------------------------------
(***************************************************************************)
(* InstructionBuilder::allocate: a linear scan, from the last instruction  *)
(* of a block to the first, that gives every functional and virtual        *)
(* register of the instructions a register of the machine.  An instruction *)
(* whose result nothing later reads is killed.  A copy out of a virtual    *)
(* register that nothing later reads waits (the linked instruction): when  *)
(* the scan reaches the instruction that produces the value without a      *)
(* conflict in between, that instruction writes the target of the copy and *)
(* the copy is killed.                                                     *)
(***************************************************************************)
EXTENDS Riscv64Code, FiniteSets, FiniteSetsExt

CONSTANTS Codes        \* the instruction sequences that may be given to it

(* The functional registers that live in a machine register all the time. *)
Mapped == FUNCTIONAL_BASE .. FUNCTIONAL_BASE + 7
Home(f) == f - FUNCTIONAL_BASE + 16

(* 0xFF00F2E8: not the stack pointer, the pointer to the guest's registers,
   zero, the return address, x16 to x23 and the thread pointer; A0 and A1
   only once the scan has passed the instruction that sets them. *)
Available == {3, 5, 6, 7, 9, 12, 13, 14, 15} \cup 24 .. 31

(* What the allocator relies on: A0 and A1 are set at most once each by an
   instruction that does not read them, since it makes them free for what
   comes before. *)
Sets(i, r) == i.rd = r /\ ~ is_rd_use(i)

Allocatable(c) ==
  /\ c \in Seq(Instructions)
  /\ \A i, j \in DOMAIN c, r \in {A0, A1} : Sets(c[i], r) /\ Sets(c[j], r) => i = j

CodeAssumption == \A c \in Codes : Allocatable(c)
ASSUME CodeAssumption

VARIABLES
  code,     \* instructions_: those the scan has passed name machine registers
  pos,      \* the instruction that the scan reaches next, 0 at the end
  avail,    \* avail_physregs
  map,      \* vreg_to_preg
  linked,   \* linked_instruction, 0 for none
  link,     \* link_reg
  thrown,   \* an exception has ended the translation
  source,   \* history: the instructions as they were before the scan
  places    \* history: where the values are that are alive behind each
            \* instruction that the scan has passed

vars == <<code, pos, avail, map, linked, link, thrown, source, places>>

-----------------------------------------------------------------------------
(***************************************************************************)
(* One instruction.  The operators take and return the allocator's state   *)
(* as a record.                                                            *)
(***************************************************************************)

State == [code |-> code, avail |-> avail, map |-> map,
          linked |-> linked, link |-> link, thrown |-> thrown]

Allocated(a, v) == v \in DOMAIN a.map
EraseNothing(m, v) == m      \* mutant: what is freed stays allocated
Erase(m, v) == [u \in DOMAIN m \ {v} |-> m[u]]
Extended(m, v, p) == [u \in DOMAIN m \cup {v} |-> IF u = v THEN p ELSE m[u]]

(* allocate: the register of the destination if it is free, else one of x8
   to x31, else any.  There is no spilling: flipping a bit that the set does
   not have throws. *)
Choice(free, preference) ==
  IF preference \in free THEN preference
  ELSE IF \E p \in free : p > 7 THEN Min({p \in free : p > 7})
  ELSE Min(free)

allocate(a, v, preference) ==
  IF a.avail = {} THEN [a EXCEPT !.thrown = TRUE]
  ELSE LET p == Choice(a.avail, preference)
       IN  [a EXCEPT !.avail = @ \ {p}, !.map = Extended(@, v, p)]

(* The definition of a register that is not the machine's.  Functional
   registers stay active, and so does one that the instruction also reads. *)
Define(a, i) ==
  LET rd == a.code[i].rd
  IN  IF ~ Allocated(a, rd) THEN [a EXCEPT !.code[i] = kill(@)]
      ELSE IF is_rd_use(a.code[i]) \/ is_functional(rd)
           THEN [a EXCEPT !.code[i].rd = a.map[rd]]
           ELSE [a EXCEPT !.code[i].rd = a.map[rd],
                          !.avail      = @ \cup {a.map[rd]},
                          !.map        = Erase(@, rd)]

(* A use of a register: rs1 or rs2. *)
Use(a, i, f) ==
  LET insn == a.code[i]
      v    == insn[f]
      b    == IF Allocated(a, v) THEN a
              ELSE allocate(a, v, IF is_physical(insn.rd) THEN insn.rd ELSE none_reg)
  IN  IF b.thrown THEN b ELSE [b EXCEPT !.code[i][f] = b.map[v]]

IsUse(a, i, f) ==
  /\ ~ a.thrown /\ ~ is_dead(a.code[i])
  /\ a.code[i][f] # none_reg /\ ~ is_physical(a.code[i][f])

(* A copy onto itself, or into the zero register, is no code. *)
KillCopy(a, i) ==
  LET insn == a.code[i]
  IN  IF /\ is_mv(insn)
         /\ is_physical(insn.rd) /\ is_physical(in_reg(insn))
         /\ insn.rd \in {in_reg(insn), ZERO}
      THEN [a EXCEPT !.code[i] = kill(@)]
      ELSE a

(* The linked copy after a conflict: a plain instruction (set_linked is
   false and no copy is linked). *)
AllocateLinked(a) ==
  IF a.linked = 0 \/ a.thrown THEN a
  ELSE LET i == a.linked
           b == Define([a EXCEPT !.linked = 0], i)
           c == IF IsUse(b, i, "rs1") THEN Use(b, i, "rs1") ELSE b
           d == IF IsUse(c, i, "rs2") THEN Use(c, i, "rs2") ELSE c
       IN  KillCopy(d, i)

InlineLeaks(a, i) ==      \* mutant: the copied register stays allocated
  IF a.linked = 0 \/ a.link # a.code[i].rd THEN a
  ELSE [a EXCEPT !.code = [@ EXCEPT ![i].rd = a.code[a.linked].rd,
                                    ![a.linked] = kill(a.code[a.linked])],
                 !.linked = 0]

(* The result of the instruction is what the linked copy copies: it goes to
   the target of the copy at once. *)
Inline(a, i) ==
  IF a.linked = 0 \/ a.link # a.code[i].rd THEN a
  ELSE [a EXCEPT !.avail  = IF Allocated(a, a.link) THEN @ \cup {a.map[a.link]} ELSE @,
                 !.map    = Erase(@, a.link),
                 !.code   = [@ EXCEPT ![i].rd = a.code[a.linked].rd,
                                      ![a.linked] = kill(a.code[a.linked])],
                 !.linked = 0]

LinksAny(a, i) ==      \* mutant: a copy out of any register
  LET insn == a.code[i]
  IN  is_mv(insn) /\ ~ Allocated(a, in_reg(insn))
Links(a, i) ==
  LET insn == a.code[i]
  IN  /\ is_mv(insn)
      /\ is_virtual(in_reg(insn))
      /\ ~ Allocated(a, in_reg(insn))

(* The destination: a copy may be linked, any other instruction gives its
   register back; one that nothing reads is killed. *)
Destination(a, i) ==
  LET rd == a.code[i].rd
      b  == Inline(a, i)
  IN  IF rd = none_reg \/ a.thrown THEN a
      ELSE IF is_physical(rd)
           THEN IF rd \in {A0, A1} /\ ~ is_rd_use(a.code[i])
                THEN [a EXCEPT !.avail = @ \cup {rd}]
                ELSE a
      ELSE IF Links(b, i)
           THEN [AllocateLinked(b) EXCEPT !.link = in_reg(b.code[i]), !.linked = i]
      ELSE IF b.linked # 0 /\ b.code[i].rd = b.code[b.linked].rd
           THEN Define(AllocateLinked(b), i)
           ELSE Define(b, i)

OperandUnminded(a, i, f) ==      \* mutant: a read is no conflict
  IF IsUse(a, i, f) THEN Use(a, i, f) ELSE a

(* A read of the copied register, or of the copy's target, is a conflict. *)
Operand(a, i, f) ==
  IF ~ IsUse(a, i, f) THEN a
  ELSE IF /\ a.linked \notin {0, i}
          /\ a.code[i][f] \in {a.link, a.code[a.linked].rd}
       THEN LET b == AllocateLinked(a) IN IF b.thrown THEN b ELSE Use(b, i, f)
       ELSE Use(a, i, f)

allocate_instruction(a, i) ==
  LET b == IF is_control_flow(a.code[i]) THEN AllocateLinked(a) ELSE a
  IN  KillCopy(Operand(Operand(Destination(b, i), i, "rs1"), i, "rs2"), i)

-----------------------------------------------------------------------------

Init ==
  /\ code = <<>>
  /\ pos = 0
  /\ avail = Available
  /\ map = [f \in Mapped |-> Home(f)]
  /\ linked = 0
  /\ link = none_reg
  /\ thrown = FALSE
  /\ source = <<>>
  /\ places = [q \in {0} |-> map]

(* The code of a block: nothing is left of the one before. *)
Begin(c) ==
  /\ code' = c
  /\ pos' = Len(c)
  /\ avail' = Available
  /\ map' = [f \in Mapped |-> Home(f)]
  /\ linked' = 0
  /\ link' = none_reg
  /\ thrown' = FALSE
  /\ source' = c
  /\ places' = [q \in 0 .. Len(c) |-> map']

(* What becomes of the places between here and the copy that waited, once it
   has been decided (b): its target is not alive there.  The copy has been
   written out, or its target has taken the place of what it copies, or what
   it copies is not needed as nothing reads the target. *)
Settled(m, a, b, s, after) ==
  LET x    == a.code[a.linked].rd
      rest == Erase(m, x)
  IN  IF is_physical(b.code[a.linked].rd) THEN rest
      ELSE IF s.rd \in DOMAIN after THEN Extended(rest, a.link, a.map[x])
      ELSE Erase(rest, a.link)

Remembered(a, b) ==
  [q \in DOMAIN places |->
     IF q = pos - 1 THEN b.map
     ELSE IF a.linked \notin {0, b.linked} /\ q \in pos .. a.linked - 1
          THEN Settled(places[q], a, b, source[a.linked], places[a.linked])
          ELSE places[q]]

AllocateInstruction ==
  /\ pos > 0
  /\ ~ thrown
  /\ LET a == allocate_instruction(State, pos)
     IN  /\ code' = a.code
         /\ avail' = a.avail
         /\ map' = a.map
         /\ linked' = a.linked
         /\ link' = a.link
         /\ thrown' = a.thrown
         /\ places' = Remembered(State, a)
  /\ pos' = pos - 1
  /\ source' = source

NextBlock == (pos = 0 \/ thrown) /\ \E c \in Codes : Begin(c)

Next == AllocateInstruction \/ NextBlock

Spec == Init /\ [][Next]_vars

-----------------------------------------------------------------------------
(***************************************************************************)
(* Properties.                                                             *)
(***************************************************************************)

(* The allocator hands out only the registers it may use, and the linked
   instruction is a live copy that the scan has passed. *)
TypeOK ==
  /\ pos \in 0 .. Len(code)
  /\ avail \subseteq Available \cup {A0, A1}
  /\ \A v \in DOMAIN map : ~ is_physical(v) /\ map[v] \in 3 .. 31
  /\ Mapped \subseteq DOMAIN map
  /\ linked \in 0 .. Len(code)
  /\ thrown \in BOOLEAN
  /\ linked # 0 => /\ linked > pos
                   /\ is_mv(code[linked])
                   /\ ~ is_dead(code[linked])
                   /\ ~ is_physical(code[linked].rd)
                   /\ is_virtual(link)

(* Two values that are alive at the same time are in different registers, and
   no register that holds one is free: whatever copies are linked and killed,
   registers kept for a definition that may be skipped and return registers
   that become free (vreg_to_preg, avail_physregs). *)
RegistersDistinct ==
  /\ \A u, v \in DOMAIN map : u # v => map[u] # map[v]
  /\ \A v \in DOMAIN map : map[v] \notin avail

(* The register a copy really copies. *)
Copied(i) == IF i.type = "RdRs1Rs2" THEN in_reg(i) ELSE i.rs1

(* Code in whose allocation nothing goes wrong: nothing in it is dead yet; it
   writes no register that values are given; A0 and A1 are only read and
   written again once they have been set; in_reg names what a copy copies,
   which is not its target; the rs2 of an instruction with an immediate is not
   in use, or, as in auipc_keep and mv_keep, is its rd.  A copy that keeps its
   rd and may wait would not keep it any longer when the wait ends (its rs2 is
   a register of the machine by then, is_rd_use), so what it copies must not
   be virtual and a branch must follow. *)
Orderly(c) ==
  \A i \in DOMAIN c :
     /\ ~ is_dead(c[i])
     /\ is_physical(c[i].rd) => c[i].rd \notin Available \cup {Home(f) : f \in Mapped}
     /\ c[i].rd \in {A0, A1} => \E j \in 1 .. i : Sets(c[j], c[i].rd)
     /\ is_mv(c[i]) => in_reg(c[i]) = Copied(c[i]) /\ Copied(c[i]) # c[i].rd
     /\ c[i].type = "RdRs1Imm" => c[i].rs2 = none_reg
     /\ c[i].type = "RdRs1ImmKeepRs2" =>
          /\ c[i].rs2 = c[i].rd /\ ~ is_virtual(c[i].rs1)
          /\ i + 1 \in DOMAIN c /\ is_control_flow(c[i + 1])

(* With the values in the places m, register p of the machine holds what an
   instruction reads in r. *)
InPlace(m, r, p) ==
  IF is_physical(r) \/ r = none_reg THEN p = r ELSE r \in DOMAIN m /\ m[r] = p

(* An instruction that should write r may write p: if the value is alive
   behind the instruction, that is its place there. *)
Lands(m, r, p) ==
  IF is_physical(r) \/ r = none_reg THEN p = r ELSE is_physical(p) /\ (r \in DOMAIN m => m[r] = p)

(* Nothing behind the instruction needs what it writes. *)
Unread(s, after) == ~ is_physical(s.rd) /\ s.rd # none_reg /\ s.rd \notin DOMAIN after

Overwrites(s, v) == s.rd = v /\ s.type # "RdRs1ImmKeepRs2"

(* What instruction s does not write, or may leave as it is, is in the same
   place before it and behind it. *)
Keeps(s, before, after) ==
  \A v \in DOMAIN after : ~ Overwrites(s, v) => v \in DOMAIN before /\ before[v] = after[v]

(* Instruction c of the machine does to the places what s does to the values.
   It reads each operand in its place and writes into the place of the result
   and into no other.  It is dead only if nothing needs the result, or if s is
   a copy whose result has the very place of what is copied. *)
Computes(s, c, before, after) ==
  IF is_dead(c)
  THEN \/ Unread(s, after)
       \/ /\ is_mv(s)
          /\ \E p \in 0 .. 31 : /\ InPlace(before, Copied(s), p)
                                /\ s.rd = ZERO \/ InPlace(after, s.rd, p)
  ELSE /\ c.type = s.type /\ c.insn = s.insn /\ c.imm = s.imm
       /\ InPlace(before, s.rs1, c.rs1)
       /\ InPlace(before, s.rs2, c.rs2)
       /\ Lands(after, s.rd, c.rd)
       /\ \A v \in DOMAIN after \ {s.rd} : after[v] # c.rd

(* Behind instruction q, r is not free for values: it has been set. *)
Reserved(q, r) == r \in {A0, A1} /\ \E j \in 1 .. q : Sets(source[j], r)

(* The code that the scan has passed does what it was before: between every
   two instructions each value that is still needed has a place, each
   instruction finds its operands there and puts its result there, none
   overwrites the place of another value, and none that is needed is killed.
   Registers that change hands many instructions apart, copies that wait and
   are then killed or written out, and A0 and A1, values' places before they
   are set, must all fit together (allocate). *)
CodeFollows ==
  ~ thrown =>
    /\ \A j \in pos + 1 .. Len(code) :
         /\ Keeps(source[j], places[j - 1], places[j])
         /\ j # linked => Computes(source[j], code[j], places[j - 1], places[j])
    /\ \A q \in pos .. Len(code) : \A v \in DOMAIN places[q] : ~ Reserved(q, places[q][v])

JumpsTo(s, t) == s.type \in {"RdLabel", "Rs1Rs2Label"} /\ t.type = "Label" /\ s.imm = t.imm

(* The instruction reads v, for a result that something needs. *)
Needs(s, after, v) ==
  v \in {s.rs1, s.rs2} /\ ~ is_physical(v) /\ v # none_reg /\ ~ Unread(s, after)

(* None of the instructions j to k overwrites v. *)
Stays(v, j, k) == \A d \in j .. k : ~ Overwrites(source[d], v)

(* The scan follows the order of the code, not its jumps: it takes the places
   at a branch from the instruction that follows.  Still a jump finds the
   values where its label expects them: the guest registers that always have
   a register; behind a forward jump, every value that the skipped
   instructions leave alone; behind a backward jump, every value that is
   needed at the jump or later and that the loop does not write before.  The
   places of the values must not change in between, nor may a copy wait across
   the label or the jump (is_control_flow). *)
JumpsMeet ==
  ~ thrown =>
    \A j, l \in pos + 1 .. Len(code) : JumpsTo(source[j], source[l]) =>
      \A v \in DOMAIN places[l] :
        \/ v \in Mapped
        \/ j < l /\ Stays(v, j, l)
        \/ l < j /\ \E m \in j .. Len(code) : /\ m # linked
                                              /\ Needs(source[m], places[m], v)
                                              /\ Stays(v, l + 1, m - 1)
        => v \in DOMAIN places[j - 1] /\ places[j - 1][v] = places[l][v]

(* Each virtual register that an instruction reads has been written before. *)
ReadsDefined(c) ==
  \A j \in DOMAIN c : \A r \in {c[j].rs1, c[j].rs2} :
    is_virtual(r) => \E d \in 1 .. j - 1 : c[d].rd = r /\ ~ is_rd_use(c[d])

(* When the scan is through, only guest registers have registers and no copy
   waits: the definition of every virtual register has given its register
   back, the copies that wait with it, and no definition has been left out or
   has revived a register that is freed already (map.erase, link_reg). *)
NothingLeftOver ==
  pos = 0 /\ ~ thrown /\ ReadsDefined(source) =>
    linked = 0 /\ \A v \in DOMAIN map : is_functional(v)
=============================================================================
