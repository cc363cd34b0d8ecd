------------------------------- MODULE IrNodes -------------------------------
(***************************************************************************)
(* The intermediate representation between the x86 front end and the       *)
(* output engines.  A value is a tree of nodes: the operands of a node are *)
(* the nodes its ports belong to, and two equal trees are one node object. *)
(* Where the source creates a second object that a packet can tell from    *)
(* the first (a register read again after it was written), the second one  *)
(* carries another tag.  A packet is the sequence of the actions of one    *)
(* guest instruction.                                                      *)
(*                                                                         *)
(* A node: k its kind, t its type, op its operation or register, a its     *)
(* operands, x its numbers (a constant's bytes, a bit range, an index).    *)
(***************************************************************************)
EXTENDS Words

-----------------------------------------------------------------------------
\* Value types: class, width of an element in bits, number of elements.

Type(c, w) == [c |-> c, w |-> w, n |-> 1]
Void == [c |-> "none", w |-> 0, n |-> 0]
U(w) == Type("u", w)
S(w) == Type("s", w)
F(w) == Type("f", w)
Vector(t, n) == [t EXCEPT !.n = n]
Width(t) == t.w * t.n
Bytes(t) == (Width(t) + 7) \div 8
Element(t) == [t EXCEPT !.n = 1]
Signed(t) == [t EXCEPT !.c = "s"]
Unsigned(t) == [t EXCEPT !.c = "u"]

-----------------------------------------------------------------------------
\* Values.

Node(k, t, op, a, x) == [k |-> k, t |-> t, op |-> op, a |-> a, x |-> x]

\* A second object for the same value.
Again(node) == [node EXCEPT !.x = Append(node.x, 1)]

Constant(t, word) == Node("constant", t, "", << >>, ZeroExtend(word, Bytes(t)))
ConstInt(t, i) == Node("constant", t, "", << >>, FromInt(i, Bytes(t)))
ReadReg(t, reg) == Node("read_reg", t, reg, << >>, << >>)
ReadMem(t, addr) == Node("read_mem", t, "", <<addr>>, << >>)
ReadPc == Node("read_pc", U(64), "", << >>, << >>)
ReadLocal(t, l) == Node("read_local", t, "", << >>, <<l>>)
Unary(op, v) == Node("unary", v.t, op, <<v>>, << >>)
IsComparison(op) ==
    op \in {"cmpeq", "cmpne", "cmpgt", "cmpoeq", "cmpolt", "cmpole", "cmpueq", "cmpult",
            "cmpune", "cmpunlt", "cmpunle", "cmpo", "cmpu"}
Binary(op, l, r) == Node("binary", l.t, op, <<l, r>>, << >>)
Ternary(op, l, r, top) == Node("ternary", l.t, op, <<l, r, top>>, << >>)
Shift(op, v, amount) == Node("shift", v.t, op, <<v, amount>>, << >>)
Cast(op, t, v) == Node("cast", t, op, <<v>>, << >>)
Csel(cond, yes, no) == Node("csel", yes.t, "", <<cond, yes, no>>, << >>)
BitExtract(v, from, len) == Node("bit_extract", U(len), "", <<v>>, <<from, len>>)
BitInsert(v, bits, to, len) == Node("bit_insert", v.t, "", <<v, bits>>, <<to, len>>)
VectorExtract(v, i) == Node("vector_extract", Element(v.t), "", <<v>>, <<i>>)
VectorInsert(v, i, e) == Node("vector_insert", v.t, "", <<v, e>>, <<i>>)

\* A flag that a node yields beside its value: zero, negative, carry, overflow.
Port(node, flag) == Node("port", U(1), flag, <<node>>, << >>)

\* The builder's extensions give the operand back when the width is the same.
Zx(t, v) == IF Width(t) = Width(v.t) THEN v ELSE Cast("zx", t, v)
Sx(t, v) == IF Width(t) = Width(v.t) THEN v ELSE Cast("sx", t, v)
Trunc(t, v) == Cast("trunc", t, v)
Bitcast(t, v) == Cast("bitcast", t, v)
Convert(t, v) == Cast("convert", t, v)
Add(l, r) == Binary("add", l, r)
Sub(l, r) == Binary("sub", l, r)
Not(v) == Unary("bnot", v)

-----------------------------------------------------------------------------
\* Actions.

WriteReg(reg, v) == Node("write_reg", Void, reg, <<v>>, << >>)
WriteMem(addr, v) == Node("write_mem", Void, "", <<addr, v>>, << >>)
\* The kind of the branch is recorded for the engines: br, call, csel, ret, sys.
WritePc(v, kind) == Node("write_pc", Void, kind, <<v>>, << >>)
WriteLocal(l, v) == Node("write_local", Void, "", <<v>>, <<l>>)
Label(l) == Node("label", Void, "", << >>, <<l>>)
Br(l) == Node("br", Void, "", << >>, <<l>>)
CondBr(cond, l) == Node("cond_br", Void, "", <<cond>>, <<l>>)
InternalCall(fn) == Node("internal_call", Void, fn, << >>, << >>)
\* Atomic operations are actions whose old value and flags others may use.
BinaryAtomic(op, addr, v) == Node("binary_atomic", v.t, op, <<addr, v>>, << >>)
CmpXchg(addr, acc, v) == Node("ternary_atomic", v.t, "cmpxchg", <<addr, acc, v>>, << >>)
\* The translator gives up with an exception.
Throw == Node("throw", Void, "", << >>, << >>)

\* What ends a block: the packet updates the program counter.
EndOfBlock(packet) ==
    \E i \in 1 .. Len(packet) : packet[i].k = "write_pc"

-----------------------------------------------------------------------------
\* The checks of the nodes' constructors, which throw where one fails.

CastTyped(c, v) ==
    CASE c.op = "bitcast" -> Width(c.t) = Width(v.t)
      [] c.op = "convert" -> c.t.c = "f" \/ v.t.c = "f" \/ c.t.c /= v.t.c
      [] c.op = "zx"      -> TRUE
      [] OTHER            -> c.t.c = v.t.c

BinaryTyped(b) ==
    b.op \in {"band", "bor", "bxor"} => Width(b.a[1].t) = Width(b.a[2].t)

\* The position of the last bit is computed without a sign.
ExtractTyped(e) == e.x[1] + e.x[2] \in 1 .. Width(e.a[1].t)

InsertTyped(n) ==
    /\ Width(n.a[2].t) <= Width(n.t)
    /\ n.x[2] <= Width(n.t)
    /\ n.x[1] + n.x[2] \in 1 .. Width(n.t)

Typed(node) ==
    CASE node.k = "cast"        -> CastTyped(node, node.a[1])
      [] node.k = "binary"      -> BinaryTyped(node)
      [] node.k = "bit_extract" -> ExtractTyped(node)
      [] node.k = "bit_insert"  -> InsertTyped(node)
      [] OTHER                  -> TRUE

\* A label accepts one jump.
LabelsUsedOnce(packet) ==
    \A i, j \in 1 .. Len(packet) :
      (/\ packet[i].k \in {"br", "cond_br"}
       /\ packet[j].k \in {"br", "cond_br"}
       /\ packet[i].x = packet[j].x) => i = j

RECURSIVE Nodes(_)
Nodes(node) == {node} \cup UNION {Nodes(node.a[i]) : i \in 1 .. Len(node.a)}
=============================================================================
