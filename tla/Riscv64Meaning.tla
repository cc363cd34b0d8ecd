--------------------------- MODULE Riscv64Meaning ---------------------------
(***************************************************************************)
(* What a block means, and what the machine code of a block does, for      *)
(* words of a few bits.                                                    *)
(*                                                                         *)
(* The meaning evaluates each node where it stands in its packet.  The     *)
(* machine executes the instructions that are left after the allocation of *)
(* registers, from any contents of the registers that hold nothing; a      *)
(* store-conditional may fail a number of times.                           *)
(***************************************************************************)
EXTENDS Riscv64Lowering, Bitwise

CONSTANT Width
ASSUME WidthAssumption == Width \in Nat \ {0}

Word      == 0 .. 2 ^ Width - 1
Cut(n)    == n % 2 ^ Width
Signed(w) == IF w < 2 ^ (Width - 1) THEN w ELSE w - 2 ^ Width
Bit(cond) == IF cond THEN 1 ELSE 0

Calculate(op, v, w) ==
  CASE op \in {"add", "xadd"} -> Cut(v + w)
    [] op = "sub"   -> Cut(v - w)
    [] op = "and"   -> v & w
    [] op = "or"    -> v | w
    [] op = "xor"   -> v ^^ w
    [] op = "xchg"  -> w
    [] op = "cmpeq" -> Bit(v = w)
    [] op = "cmpne" -> Bit(v # w)
    [] op = "slt"   -> Bit(Signed(v) < Signed(w))
    [] op = "sltu"  -> Bit(v < w)

-----------------------------------------------------------------------------
(***************************************************************************)
(* The meaning.  A guest is its registers, by reg_idx (PC is 0), its       *)
(* memory, the kind of exit its block ends with and the number of the exit *)
(* that can be chained, 0 for none.                                        *)
(***************************************************************************)

FlagValues(op, v, w) ==
  LET r == Calculate(op, v, w)
      Fits(n) == Signed(r) = n
  IN  [val |-> r, zero |-> Bit(r = 0), negative |-> Bit(Signed(r) < 0),
       carry    |-> CASE op = "add" -> Bit(v + w # r)
                      [] op = "sub" -> Bit(v < w)
                      [] OTHER      -> 0,
       overflow |-> CASE op = "add" -> Bit(~ Fits(Signed(v) + Signed(w)))
                      [] op = "sub" -> Bit(~ Fits(Signed(v) - Signed(w)))
                      [] OTHER      -> 0]

Only(v) == [val |-> v]

Exit(b, n, v) ==
  LET target == b[b[n].x[1]]
  IN  CASE b[n].arg \in {"call", "ret"} -> 0
        [] target.kind = "constant"     -> 1
        [] target.kind = "csel"         -> IF v = 0 THEN 1 ELSE 2
        [] OTHER                        -> 0

(* The guest and the packet's values after node n. *)
Evaluate(b, n, s) ==
  LET node  == b[n]
      Of(v) == s.val[v[1]][v[2]]
      x     == Of(node.x)
      y     == Of(node.y)
      z     == Of(node.z)
      g     == s.guest
      Val(r) == [s EXCEPT !.val = Bound(@, n, r), !.at = n + 1]
      Now(h) == [s EXCEPT !.guest = h, !.at = n + 1]
      Memory(a, v, r) == [Val(r) EXCEPT !.guest.mem[a] = v]
  IN  CASE node.kind = "constant"      -> Val(Only(Cut(node.arg)))
        [] node.kind = "read_reg"      -> Val(Only(g.reg[node.arg]))
        [] node.kind = "write_reg"     -> Now([g EXCEPT !.reg[node.arg] = x])
        [] node.kind = "read_mem"      -> Val(Only(g.mem[x]))
        [] node.kind = "write_mem"     -> Now([g EXCEPT !.mem[x] = y])
        [] node.kind = "read_local"    -> Val(Only(s.local[node.arg]))
        [] node.kind = "write_local"   ->
             [Now(g) EXCEPT !.local = Bound(@, node.arg, x)]
        [] node.kind = "binary_arith"  -> Val(FlagValues(node.arg, x, y))
        [] node.kind = "unary_arith"   -> Val(Only(1 - x))
        [] node.kind = "csel"          -> Val(Only(IF x # 0 THEN y ELSE z))
        [] node.kind = "atomic"        ->
             Memory(x, Calculate(node.arg, g.mem[x], y), Only(g.mem[x]))
        [] node.kind = "cmpxchg"       ->
             IF g.mem[x] = y
             THEN Memory(x, z, FlagValues("sub", y, y))
             ELSE [Val(FlagValues("sub", y, g.mem[x])) EXCEPT
                     !.guest.reg[b[node.y[1]].arg] = g.mem[x]]
        [] node.kind = "label"         -> Now(g)
        [] node.kind = "br"            -> [s EXCEPT !.at = node.arg]
        [] node.kind = "cond_br"       ->
             [s EXCEPT !.at = IF x # 0 THEN node.arg ELSE n + 1]
        [] node.kind = "internal_call" ->
             Now([g EXCEPT !.kind = IF node.arg = "handle_syscall" THEN 1 ELSE 2])
        [] node.kind = "write_pc"      ->
             Now([g EXCEPT
                    !.reg[PC] = x,
                    !.kind = CASE node.arg = "call" -> 3 [] node.arg = "ret" -> 4
                               [] OTHER -> @,
                    !.exit = Exit(b, n, IF b[node.x[1]].kind = "csel"
                                        THEN Of(b[node.x[1]].x) ELSE 0)])

RECURSIVE EvaluateFrom(_, _)
EvaluateFrom(b, s) ==
  IF s.at > Len(b) THEN s.guest ELSE EvaluateFrom(b, Evaluate(b, s.at, s))

Meaning(b, guest) ==
  FoldLeft(LAMBDA g, packet :
             EvaluateFrom(packet, [guest |-> g, val |-> <<>>, local |-> <<>>, at |-> 1]),
           guest, b)

-----------------------------------------------------------------------------
(***************************************************************************)
(* The machine.                                                            *)
(***************************************************************************)

(* The resident guest registers are in x16 to x23 and the file's copies of
   them are out of date; `given' are the contents of A1. *)
Machine(guest, junk, given, failures) ==
  [x    |-> [r \in 0 .. 31 |-> CASE r = ZERO -> 0
                                 [] r = A1 -> given
                                 [] r - 15 \in Resident -> guest.reg[r - 15]
                                 [] OTHER -> junk],
   file |-> [idx \in DOMAIN guest.reg |->
               IF idx \in Resident THEN junk ELSE guest.reg[idx]],
   mem  |-> guest.mem,
   failures |-> failures,
   at   |-> 1]

Put(m, r, v) == IF r = ZERO THEN m ELSE [m EXCEPT !.x[r] = v]

ImmediateOp == [addi |-> "add", andi |-> "and", ori |-> "or", xori |-> "xor",
                sltiu |-> "sltu"]
AmoOp == [amoadd |-> "add", amoand |-> "and", amoor |-> "or", amoxor |-> "xor",
          amoswap |-> "xchg"]

(* One instruction other than a jump.  The address that auipc yields is the
   number of the instruction, above all words. *)
Execute(m, i) ==
  LET a == m.x[i.rs1]
      c == m.x[i.rs2]
      cell == Cut(a + i.imm)
      file == i.rs1 = FP
      insn == i.insn
  IN  CASE insn \in {"noop", "label"} -> m
        [] insn = "ld" /\ file   -> Put(m, i.rd, m.file[i.imm])
        [] insn = "ld" /\ ~ file -> Put(m, i.rd, m.mem[cell])
        [] insn = "sd" /\ file   -> [m EXCEPT !.file[i.imm] = c]
        [] insn = "sd" /\ ~ file -> [m EXCEPT !.mem[cell] = c]
        [] insn = "lr" -> Put(m, i.rd, m.mem[a])
        [] insn = "sc" -> IF m.failures > 0
                          THEN [Put(m, i.rd, 1) EXCEPT !.failures = @ - 1]
                          ELSE [Put(m, i.rd, 0) EXCEPT !.mem[a] = c]
        [] insn = "auipc" -> Put(m, i.rd, 2 ^ Width + m.at)
        [] insn \in DOMAIN AmoOp ->
             [Put(m, i.rd, m.mem[a]) EXCEPT !.mem[a] = Calculate(AmoOp[insn], @, c)]
        [] insn \in DOMAIN ImmediateOp ->
             Put(m, i.rd, Calculate(ImmediateOp[insn], a, Cut(i.imm)))
        [] insn \in {"add", "sub", "and", "or", "xor", "slt", "sltu"} ->
             Put(m, i.rd, Calculate(insn, a, c))

Jumps(m, i) ==
  \/ i.insn = "jal"
  \/ i.insn = "beq" /\ m.x[i.rs1] = m.x[i.rs2]
  \/ i.insn = "bne" /\ m.x[i.rs1] # m.x[i.rs2]

Target(code, label) == CHOOSE k \in DOMAIN code : code[k] = Bind(label)

(* Up to the return; a machine that has not returned after `fuel'
   instructions goes on for ever. *)
RECURSIVE Run(_, _, _)
Run(code, m, fuel) ==
  LET i == code[m.at]
  IN  IF i.insn = "jalr" \/ fuel = 0 THEN m
      ELSE IF is_dead(i) THEN Run(code, [m EXCEPT !.at = @ + 1], fuel)
      ELSE IF Jumps(m, i) THEN Run(code, [m EXCEPT !.at = Target(code, i.imm)], fuel - 1)
      ELSE IF i.insn \in {"beq", "bne"} THEN Run(code, [m EXCEPT !.at = @ + 1], fuel - 1)
      ELSE Run(code, [Execute(m, i) EXCEPT !.at = @ + 1], fuel - 1)

(* The exit whose auipc left its address in A1. *)
ExitOf(code, m) ==
  IF m.x[A1] = 0 THEN 0
  ELSE Cardinality({k \in DOMAIN code : /\ ~ is_dead(code[k]) /\ code[k].insn = "auipc"
                                        /\ k + 2 ^ Width <= m.x[A1]})

Calls(b) == \E p \in DOMAIN b : \E n \in DOMAIN b[p] : b[p][n].kind = "internal_call"

(* The machine code of block b does to the guest what b means. *)
Agrees(b, code, guest, junk, failures) ==
  LET m    == Run(code, Machine(guest, junk, IF Calls(b) THEN 0 ELSE junk, failures), 500)
      then == Meaning(b, guest)
  IN  /\ \A idx \in DOMAIN guest.reg :
           then.reg[idx] = IF idx \in Resident THEN m.x[idx + 15] ELSE m.file[idx]
      /\ then.mem = m.mem
      /\ then.kind = m.x[A0]
      /\ then.exit = ExitOf(code, m)
=============================================================================
