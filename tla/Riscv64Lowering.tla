-------------------------- MODULE Riscv64Lowering --------------------------
(***************************************************************************)
(* riscv64_translation_context: how the nodes of a guest block become the  *)
(* instructions that RegAlloc allocates registers for.  Modelled are the   *)
(* 64-bit integer nodes and the flags.                                     *)
(*                                                                         *)
(* A packet is the sequence of the nodes of one guest instruction, in the  *)
(* order of their insertion; a value is a pair of a node's index and the   *)
(* name of its port.  Only the action nodes are lowered in this order      *)
(* (end_instruction); a value node is lowered at its first use, and its    *)
(* register is then used again.  A guest register or flag is named by its  *)
(* reg_idx.                                                                *)
(***************************************************************************)
EXTENDS Riscv64Code, FiniteSets, SequencesExt

RAX == 1
R8  == 9
R15 == 16
ZF  == 17
CF  == 18
OF  == 19
SF  == 20
Flags == 17 .. 24

(* FUNCTIONAL_BASE + i for register i + 1, FUNCTIONAL_BASE + 16 + i for flag
   i: one formula, since the flags follow R15. *)
Functional(idx) == FUNCTIONAL_BASE + idx - 1

(* The part of the register file that a block keeps in machine registers
   between blocks is not loaded, and not written back. *)
Resident == RAX .. R8 - 1

-----------------------------------------------------------------------------
(***************************************************************************)
(* Nodes.                                                                  *)
(***************************************************************************)

NoValue == <<0, "none">>

Node(kind, x, y, z, arg) == [kind |-> kind, x |-> x, y |-> y, z |-> z, arg |-> arg]

Actions == {"write_reg", "write_mem", "write_local", "write_pc", "label", "br",
            "cond_br", "atomic", "cmpxchg", "internal_call"}

is_flag_port(v) == v[2] \in {"zero", "carry", "overflow", "negative"}

(* The nodes that use a value, and what a node reads, through whatever
   nodes. *)
targets(b, v) == Cardinality({n \in DOMAIN b : v \in {b[n].x, b[n].y, b[n].z}})

RECURSIVE Reads(_, _)
Reads(b, n) ==
  IF b[n].kind = "read_reg" THEN {b[n].arg}
  ELSE UNION {Reads(b, v[1]) : v \in {b[n].x, b[n].y, b[n].z} \ {NoValue}}

(* The registers that the actions of a packet read (register_used_visitor). *)
used(b) == UNION {Reads(b, n) : n \in {m \in DOMAIN b : b[m].kind \in Actions}}

-----------------------------------------------------------------------------
(***************************************************************************)
(* The state of the translation context.  `out' is the register that the   *)
(* last materialise has returned, `fresh' whether it is a new one.         *)
(***************************************************************************)

Context == [
  code    |-> <<>>,          \* the builder's instructions
  reg     |-> VIRTUAL_BASE,  \* its next register
  label   |-> 0,             \* labels allocated so far
  loaded  |-> Resident,      \* reg_loaded_, flag_loaded_
  written |-> {},            \* reg_written_, flag_written_
  ports   |-> <<>>,          \* treg_for_port_
  locals  |-> <<>>,          \* locals_
  labels  |-> <<>>,          \* labels_
  idxs    |-> <<>>,          \* idxs_, the open backward labels
  live    |-> <<>>,          \* live_across_iteration_
  ret_val |-> 0,
  out     |-> none_reg,
  fresh   |-> FALSE]

Emit(s, insns)   == [s EXCEPT !.code = @ \o insns]
Return(s, r)     == [s EXCEPT !.out = r, !.fresh = FALSE]
next_register(s) == [s EXCEPT !.reg = @ + 1, !.out = s.reg, !.fresh = TRUE]
alloc_label(s)   == [s EXCEPT !.label = @ + 1]
Bound(f, k, v)   == (k :> v) @@ f

KeepAcross(s, r) == IF s.idxs = <<>> THEN s ELSE [s EXCEPT !.live = <<r>> \o @]

(* allocate_register of a port: the register it has (kept alive across the
   loop when it is older than the loop), else the given or a new one. *)
allocate_register(s, p, given) ==
  IF p \in DOMAIN s.ports
  THEN LET r == s.ports[p]
       IN  Return(IF s.idxs # <<>> /\ r < Last(s.idxs) THEN KeepAcross(s, r) ELSE s, r)
  ELSE LET t == IF given = none_reg THEN next_register(s)
                ELSE [Return(s, given) EXCEPT !.fresh = TRUE]
       IN  [t EXCEPT !.ports = Bound(@, p, t.out)]

(* A port that is not used gets a register all the same, and none_reg stands
   for it: so the flags of a result are in the registers that follow it. *)
allocate_in_order(s, n) ==
  FoldLeft(LAMBDA t, port : allocate_register(t, <<n, port>>, none_reg),
           s, <<"zero", "overflow", "carry", "negative">>)

(* The register an operation writes a flag to, and the one a later use of
   the flag reads (TypedRegister::flag). *)
FlagRegister(s, b, n, idx) ==
  LET used_port == CASE idx = ZF -> "zero"     [] idx = CF -> "carry"
                     [] idx = OF -> "overflow" [] idx = SF -> "negative"
      place == CASE idx = ZF -> "zero"  [] idx = CF -> "overflow"
                 [] idx = OF -> "carry" [] idx = SF -> "negative"
  IN  IF targets(b, <<n, used_port>>) = 0 THEN none_reg ELSE s.ports[<<n, place>>]

flag(r, idx) == r + (idx - ZF) + 1

get_or_assign_mapped_register(s, idx) ==
  KeepAcross([Return(s, Functional(idx)) EXCEPT !.loaded  = @ \cup {idx},
                                                !.written = @ \cup {idx}],
             Functional(idx))

get_or_load_mapped_register(s, idx) ==
  LET t == IF idx \in s.loaded THEN s
           ELSE Emit([s EXCEPT !.loaded = @ \cup {idx}],
                     <<ld(Functional(idx), FP, idx)>>)
  IN  KeepAcross(Return(t, Functional(idx)), Functional(idx))

InOrder(idxs) == SelectSeq([idx \in 1 .. 24 |-> idx], LAMBDA idx : idx \in idxs)

write_back_registers(s) ==
  LET idxs == InOrder(s.written \ Resident)
  IN  Emit(s, [k \in DOMAIN idxs |-> sd(Functional(idxs[k]), FP, idxs[k])])

-----------------------------------------------------------------------------
(***************************************************************************)
(* The flags of a result, in the order the code computes them.  Registers  *)
(* of flags that nothing uses are none_reg.                                *)
(***************************************************************************)

Unless(cond, insns) == IF cond THEN <<>> ELSE insns

zero_sign_flag(out, zf, sf) ==
  Unless(zf = none_reg, <<seqz(zf, out)>>) \o Unless(sf = none_reg, <<sltz(sf, out)>>)

AnyFlag(f) == {f.zf, f.of, f.cf, f.sf} # {none_reg}

(* add_flags, sub_flags: the overflow flag needs a new register. *)
add_flags(s, out, lhs, rhs, f) ==
  LET t == IF f.of = none_reg THEN s ELSE next_register(s)
  IN  Emit(t, Unless(f.of = none_reg, <<sltz(t.out, lhs), Op("slt", f.of, out, rhs),
                                       Op("xor", f.of, f.of, t.out)>>)
              \o Unless(f.cf = none_reg, <<Op("sltu", f.cf, out, rhs)>>)
              \o zero_sign_flag(out, f.zf, f.sf))

sub_flags(s, out, lhs, rhs, f) ==
  LET t == IF f.of = none_reg THEN s ELSE next_register(s)
  IN  Emit(t, Unless(f.of = none_reg, <<sgtz(t.out, rhs), Op("slt", f.of, out, lhs),
                                       Op("xor", f.of, f.of, t.out)>>)
              \o Unless(f.cf = none_reg, <<Op("sltu", f.cf, lhs, out)>>)
              \o zero_sign_flag(out, f.zf, f.sf))

(* addi_flags, subi_flags: the sign of the immediate decides. *)
addi_flags(out, lhs, imm, f) ==
  Unless(f.of = none_reg, <<Op("slt", f.of, out, lhs)>>
                          \o Unless(imm >= 0, <<Imm("xori", f.of, f.of, 1)>>))
  \o Unless(f.cf = none_reg, <<Op("sltu", f.cf, out, lhs)>>)
  \o zero_sign_flag(out, f.zf, f.sf)

subi_flags(out, lhs, imm, f) ==
  Unless(f.of = none_reg, <<Op("slt", f.of, out, lhs)>>
                          \o Unless(imm <= 0, <<Imm("xori", f.of, f.of, 1)>>))
  \o Unless(f.cf = none_reg, <<Op("sltu", f.cf, lhs, out)>>)
  \o zero_sign_flag(out, f.zf, f.sf)

FlagsOf(s, b, n) ==
  [zf |-> FlagRegister(s, b, n, ZF), of |-> FlagRegister(s, b, n, OF),
   cf |-> FlagRegister(s, b, n, CF), sf |-> FlagRegister(s, b, n, SF)]

-----------------------------------------------------------------------------
(***************************************************************************)
(* materialise.                                                            *)
(***************************************************************************)

materialise_constant(s, imm) ==
  IF imm = 0 THEN Return(s, ZERO)
  ELSE LET t == next_register(s) IN Emit(t, <<li(t.out, imm)>>)

(* A value used once is the functional register itself, else a copy. *)
materialise_read_reg(b, n, s) ==
  LET idx == b[n].arg
  IN  IF targets(b, <<n, "val">>) = 1
      THEN LET t == get_or_load_mapped_register(s, idx)
           IN  allocate_register(t, <<n, "val">>, t.out)
      ELSE LET t == allocate_register(s, <<n, "val">>, none_reg)
               u == get_or_load_mapped_register(t, idx)
           IN  IF ~ t.fresh THEN t ELSE Return(Emit(u, <<mv(t.out, u.out)>>), t.out)

RECURSIVE materialise(_, _, _)

Operand1(b, n, s) == materialise(b, b[n].x[1], s)
Operand2(b, n, s) == materialise(b, b[n].y[1], s)
Operand3(b, n, s) == materialise(b, b[n].z[1], s)

materialise_read_mem(b, n, s) ==
  LET t == allocate_register(s, <<n, "val">>, none_reg)
      a == Operand1(b, n, t)
  IN  IF ~ t.fresh THEN t ELSE Return(Emit(a, <<ld(t.out, a.out, 0)>>), t.out)

materialise_write_mem(b, n, s) ==
  LET v == Operand2(b, n, s)
      a == Operand1(b, n, v)
  IN  Emit(a, <<sd(v.out, a.out, 0)>>)

materialise_unary_arith(b, n, s) ==
  LET t == allocate_register(s, <<n, "val">>, none_reg)
      u == Operand1(b, n, t)
  IN  IF ~ t.fresh THEN t
      ELSE Return(Emit(u, <<Imm("xori", t.out, u.out, 1)>>), t.out)

(* An immediate other than 0 needs no register; cmpeq and cmpne have no
   flags. *)
materialise_binary_arith(b, n, s) ==
  LET t   == allocate_register(s, <<n, "val">>, none_reg)
      out == t.out
      w   == allocate_in_order(t, n)
      f   == FlagsOf(w, b, n)
      l   == Operand1(b, n, w)
      rhs == b[b[n].y[1]]
      imm == rhs.arg
      op  == b[n].arg
      r   == Operand2(b, n, l)
      first == IF r.out # ZERO THEN out ELSE l.out
  IN  IF ~ t.fresh THEN t
      ELSE IF rhs.kind = "constant" /\ imm # 0 /\ op \in {"add", "sub", "and", "or", "xor"}
      THEN Return(
             CASE op = "add" -> Emit(l, <<Imm("addi", out, l.out, imm)>>
                                        \o addi_flags(out, l.out, imm, f))
               [] op = "sub" -> Emit(l, <<Imm("addi", out, l.out, -imm)>>
                                        \o subi_flags(out, l.out, imm, f))
               [] OTHER      -> Emit(l, <<Imm(op \o "i", out, l.out, imm)>>
                                        \o zero_sign_flag(out, f.zf, f.sf)),
             out)
      ELSE Return(
             CASE op = "add" -> add_flags(Emit(r, <<Op("add", out, l.out, r.out)>>),
                                          out, l.out, r.out, f)
               [] op = "sub" -> sub_flags(Emit(r, <<Op("sub", out, l.out, r.out)>>),
                                          out, l.out, r.out, f)
               [] op \in {"cmpeq", "cmpne"} ->
                    Emit(r, Unless(r.out = ZERO, <<Op("xor", out, l.out, r.out)>>)
                            \o <<IF op = "cmpeq" THEN seqz(out, first) ELSE snez(out, first)>>)
               [] OTHER      -> Emit(r, <<Op(op, out, l.out, r.out)>>
                                        \o zero_sign_flag(out, f.zf, f.sf)),
             out)

(* One of two values, by a branch: the second copy keeps the first alive. *)
materialise_csel(b, n, s) ==
  LET t == allocate_register(s, <<n, "val">>, none_reg)
      c == Operand1(b, n, alloc_label(alloc_label(t)))
      x == Operand2(b, n, c)
      y == Operand3(b, n, x)
      false_calc == t.label + 1
      end        == t.label + 2
  IN  IF ~ t.fresh THEN t
      ELSE Return(Emit(y, <<beqz(c.out, false_calc), mv(t.out, x.out), jal(end),
                            Bind(false_calc), mv_keep(t.out, y.out), Bind(end)>>), t.out)

(* The operation on memory returns the old value, the flags are those of the
   new one, in the register allocated in between (operation_value).  The copy
   into the zero register keeps the operation itself alive. *)
materialise_binary_atomic(b, n, s) ==
  LET a   == Operand1(b, n, s)
      v   == Operand2(b, n, a)
      t   == allocate_register(v, <<n, "val">>, none_reg)
      u   == allocate_register(t, <<n, "operation_value">>, none_reg)
      w   == allocate_in_order(u, n)
      f   == FlagsOf(w, b, n)
      out == t.out
      src == v.out
      val == u.out
      op  == b[n].arg
      Amo(insn) == amo(insn, out, src, a.out)
      needed    == AnyFlag(f)
      done ==
        CASE op \in {"add", "xadd"} ->
               LET e == Emit(w, <<Amo("amoadd")>>)
               IN  IF needed
                   THEN add_flags(Emit(e, <<Op("add", val, out, src)>>), val, out, src, f)
                   ELSE e
          [] op = "sub" ->
               LET e == Emit(w, <<neg(out, src), amo("amoadd", out, out, a.out)>>)
               IN  IF needed
                   THEN sub_flags(Emit(e, <<Op("sub", val, out, src)>>), val, out, src, f)
                   ELSE e
          [] op = "xchg" -> Emit(w, <<mv(val, src), Amo("amoswap")>>)
          [] OTHER ->
               Emit(w, <<Amo("amo" \o op)>>
                       \o Unless(~ needed, <<Op(op, val, out, src)>>)
                       \o zero_sign_flag(val, f.zf, f.sf))
  IN  IF ~ t.fresh THEN t ELSE Return(Emit(done, <<mv(ZERO, out)>>), out)

(* cmpxchg: a loop until the store succeeds.  The flags are set on both
   ways; mv_liveness ties the registers of the one to those of the other. *)
materialise_ternary_atomic(b, n, s) ==
  LET a    == Operand1(b, n, s)
      c    == Operand2(b, n, a)
      v    == Operand3(b, n, c)
      t    == allocate_register(v, <<n, "val">>, none_reg)
      w    == allocate_in_order(t, n)
      f    == FlagsOf(w, b, n)
      out  == t.out
      fail  == w.label + 1
      retry == w.label + 2
      end   == w.label + 3
      temp  == next_register([w EXCEPT !.label = @ + 3])
      lzf   == temp.reg
      lcf   == temp.reg + 1
      lof   == temp.reg + 2
      lsf   == temp.reg + 3
      Equal(reg, val, liveness) ==
        Unless(reg = none_reg, <<li(reg, val), mv_liveness(liveness, reg)>>)
      loop == Emit([temp EXCEPT !.reg = @ + 4],
                <<Bind(retry), lr(out, a.out), bne(out, c.out, fail),
                  sc(temp.out, v.out, a.out), bnez(temp.out, retry),
                  mv(ZERO, v.out), mv(ZERO, a.out), mv(ZERO, c.out)>>
                \o Equal(f.zf, 1, lzf) \o Equal(f.cf, 0, lcf)
                \o Equal(f.of, 0, lof) \o Equal(f.sf, 0, lsf)
                \o <<jal(end), Bind(fail)>>)
      d    == next_register(loop)
      differ == IF ~ AnyFlag(f) THEN loop
                ELSE Emit(sub_flags(Emit(d, <<Op("sub", d.out, c.out, out)>>),
                                    d.out, c.out, out, f),
                          <<mv_liveness(f.zf, lzf), mv_liveness(f.of, lof),
                            mv_liveness(f.cf, lcf), mv_liveness(f.sf, lsf)>>)
      acc  == get_or_assign_mapped_register(differ, b[b[n].y[1]].arg)
  IN  IF ~ t.fresh THEN t
      ELSE Return(Emit(acc, <<mv(acc.out, out), Bind(end)>>), out)

-----------------------------------------------------------------------------
(***************************************************************************)
(* Labels and branches inside the packet.                                  *)
(***************************************************************************)

(* The first use of a label: by its own node (backward), or by a branch. *)
LabelFor(s, n, bw) ==
  IF n \in DOMAIN s.labels THEN s
  ELSE [alloc_label(s) EXCEPT !.labels = Bound(@, n, [id |-> s.label + 1, bw |-> bw])]

materialise_label(n, s) ==
  LET t == LabelFor(s, n, TRUE)
      u == IF n \in DOMAIN s.labels
           THEN [t EXCEPT !.labels[n].bw = TRUE]
           ELSE [next_register(t) EXCEPT !.idxs = Append(@, t.reg)]
  IN  Emit(u, <<Bind(t.labels[n].id)>>)

(* After a branch backwards, everything that the loop uses and that is older
   than the loop is used once more, so that it lives through the loop. *)
bw_branch_vreg_helper(s, bw) ==
  IF ~ bw THEN s
  ELSE LET open == Front(s.idxs)
           Keep(r) == open # <<>> /\ ~ (is_virtual(r) /\ Last(open) < r)
       IN  [Emit(s, [k \in DOMAIN s.live |-> mv(ZERO, s.live[k])])
              EXCEPT !.idxs = open, !.live = SelectSeq(@, Keep)]

materialise_br(b, n, s) ==
  LET t == LabelFor(s, b[n].arg, FALSE)
      l == t.labels[b[n].arg]
  IN  bw_branch_vreg_helper(Emit(t, <<jal(l.id)>>), l.bw)

materialise_cond_br(b, n, s) ==
  LET c == Operand1(b, n, s)
      t == LabelFor(c, b[n].arg, FALSE)
      l == t.labels[b[n].arg]
  IN  bw_branch_vreg_helper(Emit(t, <<bnez(c.out, l.id)>>), l.bw)

-----------------------------------------------------------------------------
(***************************************************************************)
(* Writes.                                                                 *)
(***************************************************************************)

materialise_write_reg(b, n, s) ==
  LET v   == Operand1(b, n, s)
      idx == b[n].arg
      t   == get_or_assign_mapped_register(v, idx)
      reg == IF is_flag_port(b[n].x) THEN flag(v.out, idx) ELSE v.out
  IN  IF idx \in Flags \cup RAX .. R15 THEN Emit(t, <<mv(t.out, reg)>>)
      ELSE Emit(v, <<sd(v.out, FP, idx)>>)

(* The first write to a local frees its register before it, a later one
   keeps it. *)
AlwaysKept(s, l, rd, rs) == mv_keep(rd, rs)      \* mutant: the first one, too
LocalCopy(s, l, rd, rs) ==
  IF l \in DOMAIN s.locals THEN mv_keep(rd, rs) ELSE mv(rd, rs)

materialise_write_local(b, n, s) ==
  LET v == Operand1(b, n, s)
      l == b[n].arg
      t == IF l \in DOMAIN v.locals THEN v ELSE next_register(v)
      r == IF l \in DOMAIN v.locals THEN v.locals[l] ELSE t.out
  IN  Emit([t EXCEPT !.locals = Bound(@, l, r)], <<LocalCopy(v, l, r, v.out)>>)

(* The exit of a block that can be chained leaves the address of the
   instruction to patch in A1; otherwise A1 is 0. *)
PC == 0

materialise_write_pc(b, n, s) ==
  LET ret == CASE b[n].arg = "call" -> 3 [] b[n].arg = "ret" -> 4 [] OTHER -> s.ret_val
      r   == [s EXCEPT !.ret_val = ret]
      v   == b[b[n].x[1]]
      out == write_back_registers(r)
      const == materialise_constant(Emit(out, <<auipc(A1)>>), v.arg)
      cond  == materialise(b, v.x[1], r)
      taken == b[v.y[1]]
      not_taken == b[v.z[1]]
      head  == Emit(alloc_label(alloc_label(write_back_registers(cond))),
                    <<auipc(A1), beqz(cond.out, cond.label + 1), auipc_keep(A1)>>)
      true  == materialise_constant(head, taken.arg)
      false == materialise_constant(
                 Emit(true, <<sd(true.out, FP, PC), jal(cond.label + 2),
                              Bind(cond.label + 1)>>), not_taken.arg)
      other == Operand1(b, n, r)
  IN  IF ret = 0 /\ v.kind = "constant" THEN Emit(const, <<sd(const.out, FP, PC)>>)
      ELSE IF /\ ret = 0 /\ v.kind = "csel"
              /\ taken.kind = "constant" /\ not_taken.kind = "constant"
      THEN Emit(false, <<sd(false.out, FP, PC), Bind(cond.label + 2)>>)
      ELSE Emit(write_back_registers(Emit(other, <<sd(other.out, FP, PC)>>)), <<li(A1, 0)>>)

(* A1 is cleared by the assembler, ahead of the code that is still in the
   builder. *)
materialise_internal_call(b, n, s) ==
  [write_back_registers(s) EXCEPT
     !.ret_val = IF b[n].arg = "handle_syscall" THEN 1 ELSE 2]

materialise(b, n, s) ==
  LET kind == b[n].kind
  IN  CASE kind = "constant"      -> materialise_constant(s, b[n].arg)
        [] kind = "read_reg"      -> materialise_read_reg(b, n, s)
        [] kind = "write_reg"     -> materialise_write_reg(b, n, s)
        [] kind = "read_mem"      -> materialise_read_mem(b, n, s)
        [] kind = "write_mem"     -> materialise_write_mem(b, n, s)
        [] kind = "write_pc"      -> materialise_write_pc(b, n, s)
        [] kind = "label"         -> materialise_label(n, s)
        [] kind = "br"            -> materialise_br(b, n, s)
        [] kind = "cond_br"       -> materialise_cond_br(b, n, s)
        [] kind = "binary_arith"  -> materialise_binary_arith(b, n, s)
        [] kind = "unary_arith"   -> materialise_unary_arith(b, n, s)
        [] kind = "atomic"        -> materialise_binary_atomic(b, n, s)
        [] kind = "cmpxchg"       -> materialise_ternary_atomic(b, n, s)
        [] kind = "csel"          -> materialise_csel(b, n, s)
        [] kind = "internal_call" -> materialise_internal_call(b, n, s)
        [] kind = "read_local"    -> Return(s, s.locals[b[n].arg])
        [] kind = "write_local"   -> materialise_write_local(b, n, s)

-----------------------------------------------------------------------------
(***************************************************************************)
(* begin_instruction to end_instruction, and the end of a block.           *)
(***************************************************************************)

(* All registers that the packet reads are loaded first. *)
begin_instruction(b, s) ==
  FoldLeft(get_or_load_mapped_register,
           [s EXCEPT !.ports = <<>>, !.locals = <<>>, !.labels = <<>>, !.ret_val = 0],
           InOrder(used(b)))

(* The actions follow in their order. *)
ActionsOf(b) == SelectSeq([n \in DOMAIN b |-> n], LAMBDA n : b[n].kind \in Actions)

(* Every local is used once more. *)
end_instruction(s) == Emit(s, SetToSeq({mv(ZERO, s.locals[l]) : l \in DOMAIN s.locals}))

(* The kind of exit goes to A0. *)
end_block(s) == Emit(s, <<li(A0, s.ret_val), jalr(RA)>>)
=============================================================================
