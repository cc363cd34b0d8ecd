----------------------------- MODULE MCRegAlloc -----------------------------
(***************************************************************************)
(* Blocks of guest instructions, as their translators build them, for the  *)
(* lowering and for the register allocator.                                *)
(***************************************************************************)
EXTENDS BlockTranslation

RCX == 2
RBX == 4
RSP == 5
RBP == 6
RDI == 8
DF  == 22

-----------------------------------------------------------------------------
(***************************************************************************)
(* Guest instructions.  V(n) is the value of the packet's node n.          *)
(***************************************************************************)

V(n) == <<n, "val">>

Const(k)        == Node("constant", NoValue, NoValue, NoValue, k)
Read(r)         == Node("read_reg", NoValue, NoValue, NoValue, r)
Write(r, v)     == Node("write_reg", v, NoValue, NoValue, r)
Load(a)         == Node("read_mem", a, NoValue, NoValue, 0)
Store(a, v)     == Node("write_mem", a, v, NoValue, 0)
Arith(op, v, w) == Node("binary_arith", v, w, NoValue, op)
Negated(v)          == Node("unary_arith", v, NoValue, NoValue, "not")
Select(c, v, w) == Node("csel", c, v, w, 0)
Atomic(op, a, v)     == Node("atomic", a, v, NoValue, op)
Compare(a, acc, v)   == Node("cmpxchg", a, acc, v, 0)
Local(v)        == Node("write_local", v, NoValue, NoValue, "tmp")
ReadLocal       == Node("read_local", NoValue, NoValue, NoValue, "tmp")
Label           == Node("label", NoValue, NoValue, NoValue, 0)
Br(n)           == Node("br", NoValue, NoValue, NoValue, n)
CondBr(c, n)    == Node("cond_br", c, NoValue, NoValue, n)
WritePc(v, how) == Node("write_pc", v, NoValue, NoValue, how)
Call(f)         == Node("internal_call", NoValue, NoValue, NoValue, f)

(* write_flags with every flag updated by node n. *)
WriteFlags(n) ==
  <<Write(ZF, <<n, "zero">>), Write(CF, <<n, "carry">>),
    Write(OF, <<n, "overflow">>), Write(SF, <<n, "negative">>)>>

Add(r, s)    == <<Read(r), Read(s), Arith("add", V(1), V(2)), Write(r, V(3))>>
AddImm(r, k) == <<Read(r), Const(k), Arith("add", V(1), V(2)), Write(r, V(3))>>
Sub(r, s)    == <<Read(r), Read(s), Arith("sub", V(1), V(2)), Write(r, V(3))>>
CmpImm(r, k) == <<Read(r), Const(k), Arith("sub", V(1), V(2))>> \o WriteFlags(3)
Cmp(r, s)    == <<Read(r), Read(s), Arith("sub", V(1), V(2))>> \o WriteFlags(3)
Logic(op, r, s) ==
  <<Read(r), Read(s), Arith(op, V(1), V(2)), Write(r, V(3)), Write(ZF, <<3, "zero">>),
    Const(0), Write(CF, V(6)), Const(0), Write(OF, V(8)),
    Write(SF, <<3, "negative">>)>>
Mov(r, s)    == <<Read(s), Write(r, V(1))>>
MovImm(r, k) == <<Const(k), Write(r, V(1))>>
MovLoad(r, s)  == <<Read(s), Const(1), Arith("add", V(1), V(2)), Load(V(3)), Write(r, V(4))>>
MovStore(r, s) == <<Read(r), Read(s), Store(V(1), V(2))>>
Push(r) == <<Read(RSP), Const(8), Arith("sub", V(1), V(2)), Read(r), Store(V(3), V(4)),
             Write(RSP, V(3))>>
Pop(r)  == <<Read(RSP), Load(V(1)), Write(r, V(2)), Const(8), Arith("add", V(1), V(4)),
             Write(RSP, V(5))>>
Leave   == <<Read(RBP), Write(RSP, V(1)), Read(RSP), Load(V(3)), Write(RBP, V(4)),
             Const(8), Arith("add", V(3), V(6)), Write(RSP, V(7))>>
Xadd(r, s)  == <<Read(r), Read(s), Arith("add", V(2), V(1))>> \o WriteFlags(3)
               \o <<Write(s, V(1)), Write(r, V(3))>>
Xchg(r, s)  == <<Read(r), Local(V(1)), Read(s), Write(r, V(3)), ReadLocal, Write(s, V(5))>>
Cmovz(r, s) == <<Read(ZF), Read(s), Read(r), Select(V(1), V(2), V(3)), Write(r, V(4))>>
Cmovle(r, s) ==
  <<Read(ZF), Read(SF), Read(OF), Arith("cmpne", V(2), V(3)),
    Arith("or", V(1), V(4)), Read(s), Read(r), Select(V(5), V(6), V(7)), Write(r, V(8))>>

(* Locked operations; those but cmpxchg only with flags that nothing reads. *)
LockXadd(a, s) == <<Read(a), Read(s), Atomic("xadd", V(1), V(2)), Write(s, V(3))>>
LockXchg(a, s) == <<Read(a), Read(s), Atomic("xchg", V(1), V(2)), Write(s, V(3))>>
LockOp(op, a)  == <<Read(a), Const(1), Atomic(op, V(1), V(2))>>
Cmpxchg(a, s)  == <<Read(a), Read(RAX), Read(s), Compare(V(1), V(2), V(3))>>

RepStos ==
  <<Const(0), Const(1), Const(1), Label, Read(RCX), Arith("cmpeq", V(5), V(1)),
    CondBr(V(6), 25), Read(RAX), Read(RDI), Store(V(9), V(8)), Read(DF), Const(0),
    Arith("cmpne", V(11), V(12)), CondBr(V(13), 18), Arith("add", V(9), V(3)),
    Write(RDI, V(15)), Br(21), Label, Arith("sub", V(9), V(3)), Write(RDI, V(19)),
    Label, Arith("sub", V(5), V(2)), Write(RCX, V(22)), Br(4), Label>>

-----------------------------------------------------------------------------
(***************************************************************************)
(* The instructions that end a block.                                      *)
(***************************************************************************)

Jmp    == <<Const(3), WritePc(V(1), "br")>>
JmpReg(r) == <<Read(r), WritePc(V(1), "br")>>
Jz     == <<Read(ZF), Const(3), Const(5), Select(V(1), V(2), V(3)), WritePc(V(4), "csel")>>
Jnz    == <<Read(ZF), Negated(V(1)), Const(3), Const(5), Select(V(2), V(3), V(4)),
            WritePc(V(5), "csel")>>
Jnl    == <<Read(SF), Read(OF), Arith("cmpeq", V(1), V(2)), Const(0), Const(5),
            Select(V(3), V(4), V(5)), WritePc(V(6), "csel")>>
CallNear == <<Read(RSP), Const(8), Arith("sub", V(1), V(2)), Write(RSP, V(3)), Const(5),
              Store(V(3), V(5)), Const(3), WritePc(V(7), "call")>>
Ret    == <<Read(RSP), Load(V(1)), Const(8), Arith("add", V(1), V(3)), Write(RSP, V(4)),
            WritePc(V(2), "ret")>>
Syscall == <<Const(5), Write(PC, V(1)), Call("handle_syscall")>>

-----------------------------------------------------------------------------
(***************************************************************************)
(* Instances.                                                              *)
(***************************************************************************)

(* Instructions with and without the writes of flags that nothing needs. *)
Bodies == <<
  Add(RAX, RBX), Add(RAX, RBX) \o WriteFlags(3), AddImm(RAX, 1) \o WriteFlags(3),
  Sub(R8, RAX) \o WriteFlags(3), CmpImm(RAX, 1), Cmp(RBX, R8),
  Logic("and", RAX, R8), Logic("xor", RAX, RAX),
  Mov(R8, RAX), MovImm(RBX, 2), MovLoad(RAX, RAX), MovStore(RBX, R8), Push(RBX), Pop(R8),
  Leave, Xadd(RAX, RBX), Xchg(RAX, R8), Cmovz(RAX, RBX), Cmovle(R8, RAX),
  LockXadd(RBX, R8), LockXchg(RBX, RAX), LockOp("sub", RBX), LockOp("and", RBX),
  Cmpxchg(RBX, R8), Cmpxchg(RBX, R8) \o WriteFlags(4), RepStos>>

Ends == <<Jmp, JmpReg(RBX), Jz, Jnz, Jnl, CallNear, Ret, Syscall>>

(* A block that needs more registers than there are. *)
Full == [k \in 1 .. 8 |-> Mov(R8 + k - 1, RAX)]

SomeBlocks ==
  LET Elements(q) == {q[k] : k \in DOMAIN q}
  IN  {<<a, e>> : a \in Elements(Bodies), e \in Elements(Ends)}
      \cup {<<a, b, Jz>> : a, b \in Elements(Bodies)}
      \cup {Full \o <<a, Jz>> : a \in Elements(Bodies)}
NoCodes == {}

(* Guests: with registers of their own, all equal, and about to overflow. *)
G(a, c, b, r, f) ==
  [reg  |-> [idx \in 0 .. 24 |->
               CASE idx = RAX -> a [] idx = RCX -> c [] idx = RBX -> b [] idx = R8 -> r
                 [] idx = RSP -> 12 [] idx = RBP -> 6 [] idx = RDI -> 9
                 [] idx \in Flags -> f [] OTHER -> 0],
   mem  |-> [cell \in Word |-> Cut(cell + 5)],
   kind |-> 0, exit |-> 0]

SomeGuests == {G(1, 0, 2, 9, 0), G(7, 2, 2, 8, 1), G(0, 1, 0, 0, 0), G(15, 1, 1, 1, 1)}
=============================================================================
