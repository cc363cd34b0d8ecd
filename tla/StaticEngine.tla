----------------------------- MODULE StaticEngine -----------------------------
(***************************************************************************)
(* The static engine on one guest instruction: the packet that the         *)
(* translators make of it is lowered action by action, and the code runs.  *)
(* A node is lowered once, where the first action in the packet's order    *)
(* needs it, and its value is used by every later action; a packet may     *)
(* branch, so that the first user need not have run.                       *)
(***************************************************************************)
EXTENDS X86Translators, LlvmValues, FiniteSets, TLC

CONSTANTS
    Cases,        \* the instructions and the states they start in: [insn, regs, mem]
    Address,      \* the address of the instruction, a word of 8 bytes
    MemoryBase    \* the address of the first byte of the memory that exists

VARIABLES
    case,      \* the case that runs
    packet,    \* the actions of its instruction
    regs,      \* the CPU state: register -> bytes
    mem,       \* guest memory: a sequence of bytes
    values,    \* the values of the reads and of the atomic actions so far
    locals,    \* local variables
    ip,        \* the action that runs next; 0 once lowering has failed
    ran        \* the actions that have run

vars == <<case, packet, regs, mem, values, locals, ip, ran>>

\* The nodes whose value depends on when they are lowered: reads, and the zero
\* flag of a compare-and-exchange, which is read back.
IsRead(n) ==
    \/ n.k \in {"read_reg", "read_mem", "read_local"}
    \/ n.k = "port" /\ n.a[1].k = "ternary_atomic"
IsAtomic(n) == n.k \in {"binary_atomic", "ternary_atomic"}

RECURSIVE Reads(_)
Reads(n) ==
    {m \in {n} : IsRead(m)} \cup UNION {Reads(n.a[i]) : i \in 1 .. Len(n.a)}

action == packet[ip]

\* The reads that are lowered with this action: those of no action before it.
own == Reads(action) \ UNION {Reads(packet[j]) : j \in 1 .. ip - 1}

-----------------------------------------------------------------------------
(* Registers and memory.  A register is loaded at the width of the node    *)
(* and stored at its own.                                                  *)

LoadWidths == {1, 8, 16, 32, 64, 128, 256, 512}
LoadReg(t, r) ==
    IF Width(t) \in LoadWidths
    THEN Value(U(Width(t)), LowBits(SubSeq(regs[r], 1, Bytes(t)), Width(t))) ELSE Bad

Offset(addr) == ToNat(Minus(addr, FromInt(MemoryBase, 8)))
Mapped(addr, n) ==
    LET o == Minus(addr, FromInt(MemoryBase, 8))
    IN IsZero(SubSeq(o, 5, 8)) /\ ~Negative(SubSeq(o, 1, 4)) /\ ToNat(o) + n <= Len(mem)
LoadBytes(addr, n) == SubSeq(mem, Offset(addr) + 1, Offset(addr) + n)
Stored(addr, b) ==
    SubSeq(mem, 1, Offset(addr)) \o b \o SubSeq(mem, Offset(addr) + Len(b) + 1, Len(mem))

LoadMem(t, addr) ==
    CASE Width(t) \notin {8, 16, 32, 64, 80, 128} \/ IsBad(addr) -> Bad
      [] ~Mapped(addr.b, Bytes(t)) -> Poison(U(Width(t)))
      [] OTHER -> Value(IF Width(t) = 80 THEN F(80) ELSE U(Width(t)), LoadBytes(addr.b, Bytes(t)))

\* An address is an integer of 64 bits and lies in memory.
GoodAddress(addr, n) == addr.t = U(64) /\ ~addr.poison /\ Mapped(addr.b, n)

-----------------------------------------------------------------------------
(* The value of a node for the action at ip.                               *)

\* The value of the operation of an atomic action, beside the old value.
Operation(n) == Port(n, "operation")

RECURSIVE Eval(_, _)
Eval(n, mine) ==
    LET a == [i \in 1 .. Len(n.a) |-> Eval(n.a[i], mine)]
    IN CASE IsAtomic(n) \/ (IsRead(n) /\ n \notin mine) ->
              IF n \in DOMAIN values THEN values[n] ELSE Bad
         [] n.k = "constant"   -> LowerConstant(n)
         [] n.k = "read_pc"    -> Value(U(64), Address)
         [] n.k = "read_reg"   -> LoadReg(n.t, n.op)
         [] n.k = "read_mem"   -> LoadMem(n.t, a[1])
         [] n.k = "read_local" -> IF n.x[1] \in DOMAIN locals THEN locals[n.x[1]] ELSE Bad
         [] n.k = "port" ->
              LET of == n.a[1]
                  operand(i) == Eval(of.a[i], mine)
                  bad == IsBad(a[1]) \/ \E i \in 1 .. Len(of.a) : IsBad(operand(i))
                  flag == CASE bad -> Bad
                            [] of.k = "binary"  -> LowerBinaryFlag(of, n.op, operand(1), operand(2), a[1])
                            [] of.k = "ternary" -> Flag(FALSE)
                            [] of.k = "unary"   -> LowerValueFlag(n.op, operand(1))
                            [] of.k = "shift"   -> LowerShiftFlag(n.op, a[1])
                            [] of.k = "binary_atomic" ->
                                 LowerAtomicFlag(of, n.op, a[1], operand(2), values[Operation(of)])
                            [] of.k = "ternary_atomic" ->
                                 IF n.op = "zero" THEN LoadReg(U(8), "ZF") ELSE Flag(FALSE)
                  poison == CASE of.k \in {"binary", "shift", "unary"} -> a[1].poison
                              [] of.k = "binary_atomic" -> values[Operation(of)].poison
                              [] OTHER -> FALSE
              IN IF ~IsBad(flag) /\ poison THEN Poison(U(8)) ELSE flag
         [] OTHER -> Lowered(n, a)

\* Poison is stored as some word.
Stores(v) == IF v.poison THEN {v.b, Complement(v.b)} ELSE {v.b}

ValueOf(n) == Eval(n, own)
Fetched == LET mine == own IN [n \in mine |-> Eval(n, mine)]

-----------------------------------------------------------------------------
(* The actions.  Whatever cannot be lowered stops the translation.         *)

At(kind) == ip \in 1 .. Len(packet) /\ action.k = kind

Fails == ip' = 0 /\ UNCHANGED <<case, packet, regs, mem, values, locals, ran>>

Continue(next) ==
    /\ ip' = next
    /\ ran' = ran \cup {ip}
    /\ UNCHANGED <<case, packet>>

Goes == Continue(ip + 1) /\ values' = Fetched @@ values

\* A vector becomes one integer; an integer is extended to the register.
Fits(r, v) == ~IsBad(v) /\ Bytes(v.t) <= Len(regs[r])
              /\ (v.t.c = "f" /\ v.t.n = 1 => Bytes(v.t) = Len(regs[r]))

\* As StoreRegister, without the extension to the register.
StoreRegisterNarrow(r, v) ==
    IF Fits(r, v)
    THEN /\ \E b \in Stores(v) : regs' = [regs EXCEPT ![r] = b]
         /\ Goes
         /\ UNCHANGED <<mem, locals>>
    ELSE Fails

StoreRegister(r, v) ==
    IF Fits(r, v)
    THEN /\ \E b \in Stores(v) :
              regs' = [regs EXCEPT ![r] = ZeroExtend(LowBits(b, Width(v.t)), Len(regs[r]))]
         /\ Goes
         /\ UNCHANGED <<mem, locals>>
    ELSE Fails
WriteRegister == At("write_reg") /\ StoreRegister(action.op, ValueOf(action.a[1]))

StoreMemory(addr, v) ==
    IF ~IsBad(v) /\ GoodAddress(addr, Bytes(v.t))
    THEN /\ \E b \in Stores(v) : mem' = Stored(addr.b, b)
         /\ Goes
         /\ UNCHANGED <<regs, locals>>
    ELSE Fails
WriteMemory == At("write_mem") /\ StoreMemory(ValueOf(action.a[1]), ValueOf(action.a[2]))

WriteCounter ==
    /\ At("write_pc")
    /\ LET v == ValueOf(action.a[1])
       IN IF v.t = U(64)
          THEN /\ \E b \in Stores(v) : regs' = [regs EXCEPT !["PC"] = b]
               /\ Goes
               /\ UNCHANGED <<mem, locals>>
          ELSE Fails

LocalWidths == {8, 16, 32, 64, 80}
WriteLocalVariable ==
    /\ At("write_local")
    /\ LET v == ValueOf(action.a[1])
       IN IF Width(v.t) \in LocalWidths
          THEN /\ locals' = (action.x[1] :> v) @@ locals
               /\ Goes
               /\ UNCHANGED <<regs, mem>>
          ELSE Fails

PassLabel == At("label") /\ Goes /\ UNCHANGED <<regs, mem, locals>>

LabelAt(l) ==
    CHOOSE i \in 1 .. Len(packet) : packet[i].k = "label" /\ packet[i].x[1] = l

Jump ==
    /\ At("br")
    /\ Continue(LabelAt(action.x[1]))
    /\ UNCHANGED <<regs, mem, values, locals>>

Branch ==
    /\ At("cond_br")
    /\ LET c == ValueOf(action.a[1])
       IN IF c.t = U(1)
          THEN /\ \E b \in Stores(c) :
                    Continue(IF b[1] % 2 = 1 THEN LabelAt(action.x[1]) ELSE ip + 1)
               /\ values' = Fetched @@ values
               /\ UNCHANGED <<regs, mem, locals>>
          ELSE Fails

-----------------------------------------------------------------------------
(* Atomic operations: one step on memory, at the width of the operand.     *)

\* What is stored, which is also the value of the operation.
Result(op, old, rhs) ==
    CASE op \in {"add", "xadd"} -> Plus(old, rhs)
      [] op = "sub"  -> Minus(old, rhs)
      [] op = "band" -> And(old, rhs)
      [] op = "bor"  -> Or(old, rhs)
      [] op = "xchg" -> rhs

\* The two exchanges store the old value in the register that the operand was
\* read from, at the operand's width.
RegistersAfter(op, n, old) ==
    IF op \in {"xadd", "xchg"} /\ n.k = "read_reg"
    THEN [regs EXCEPT ![n.op] = old \o SubSeq(regs[n.op], Len(old) + 1, Len(regs[n.op]))]
    ELSE regs

\* The exchange-and-add leaves its operation uninitialised.
Exchanged(n, addr, rhs, old, new) ==
    /\ mem' = Stored(addr.b, new)
    /\ regs' = RegistersAfter(n.op, n.a[2], old)
    /\ values' = (n :> Value(rhs.t, old))
                   @@ (Operation(n) :> IF n.op = "xadd" THEN Poison(rhs.t) ELSE Value(rhs.t, new))
                   @@ Fetched @@ values
    /\ Continue(ip + 1)
    /\ UNCHANGED locals
Update(n, addr, rhs) ==
    IF IsInt(rhs) /\ ~rhs.poison /\ GoodAddress(addr, Bytes(rhs.t))
    THEN LET old == LoadBytes(addr.b, Bytes(rhs.t))
         IN Exchanged(n, addr, rhs, old, Result(n.op, old, rhs.b))
    ELSE Fails
AtomicUpdate ==
    At("binary_atomic") /\ Update(action, ValueOf(action.a[1]), ValueOf(action.a[2]))

\* RAX takes the old value, extended, whether or not it was exchanged.
Swapped(n, addr, acc, new, old) ==
    /\ mem' = IF old = acc.b THEN Stored(addr.b, new.b) ELSE mem
    /\ regs' = [regs EXCEPT !["RAX"] = ZeroExtend(old, 8),
                            !["ZF"] = <<IF old = acc.b THEN 1 ELSE 0>>]
    /\ values' = (n :> Value(acc.t, old)) @@ Fetched @@ values
    /\ Continue(ip + 1)
    /\ UNCHANGED locals
Swap(n, addr, acc, new) ==
    IF acc.t = new.t /\ IsInt(acc) /\ GoodAddress(addr, Bytes(acc.t))
    THEN Swapped(n, addr, acc, new, LoadBytes(addr.b, Bytes(acc.t))) ELSE Fails
CompareExchange ==
    /\ At("ternary_atomic")
    /\ Swap(action, ValueOf(action.a[1]), ValueOf(action.a[2]), ValueOf(action.a[3]))

\* The program leaves the code of the instruction: the runtime takes over.
CallInternal ==
    /\ At("internal_call")
    /\ Continue(ip + 1)
    /\ UNCHANGED <<regs, mem, values, locals>>

GiveUp == At("throw") /\ Fails

-----------------------------------------------------------------------------
Init ==
    /\ case \in Cases
    /\ packet = Chunk(case.insn, Address)
    /\ regs = case.regs
    /\ mem = case.mem
    /\ values = << >>
    /\ locals = << >>
    /\ ip = 1
    /\ ran = {}

Next ==
    \/ WriteRegister \/ WriteMemory \/ WriteCounter \/ WriteLocalVariable
    \/ PassLabel \/ Jump \/ Branch
    \/ AtomicUpdate \/ CompareExchange \/ CallInternal \/ GiveUp

Spec == Init /\ [][Next]_vars

Ended == ip = Len(packet) + 1
Failed == ip = 0
=============================================================================
