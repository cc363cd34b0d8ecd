------------------------------ MODULE X86Moves -------------------------------
(***************************************************************************)
(* The translators of moves, conditional moves and sets, the stack, string *)
(* operations, branches, flag control and interrupts.                      *)
(***************************************************************************)
EXTENDS X86Operands

-----------------------------------------------------------------------------
(* mov.cpp.                                                                *)

Lea(insn) == <<WriteOperand(insn, 0, ComputeAddress(insn, 0))>>

\* A narrower immediate is widened to 64 bits: for a register it has already
\* been cast to the register's width, for memory it has not.
Mov(insn, x) ==
    LET t == TypeOfOperand(insn, IF IsMemory(insn, 0) THEN 1 ELSE 0)
        v == AutoCast(t, x[1])
        narrow == IsImmediate(insn, 1) /\ OperandWidth(insn, 1) < OperandWidth(insn, 0)
    IN <<WriteOperand(insn, 0, IF narrow THEN Zx(U(64), v) ELSE v)>>

\* The sign of the accumulator in DX, EDX or RDX.
SignOfAccumulator(insn, x) ==
    LET high(t, v) == BitExtract(Sx(Type("s", 2 * t.w), v), t.w, t.w)
        eax == Bitcast(S(32), x[1])
    IN CASE insn.ic = "CWD" -> <<WriteReg("RDX", high(S(16), ReadReg(S(16), "RAX")))>>
         [] insn.ic = "CQO" -> <<WriteReg("RDX", high(S(64), ReadReg(S(64), "RAX")))>>
         [] insn.ic = "CDQ" -> <<WriteOperand(insn, 0, high(S(32), eax))>>
         [] insn.ic = "CDQE" -> <<WriteOperand(insn, 0, Sx(S(64), eax))>>

\* Sign extension goes to 64 bits, or to the destination's width on its
\* unsigned type; zero extension always goes to 64 bits.
MovExtend(insn, x) ==
    LET input == x[1]
    IN <<WriteOperand(insn, 0,
           CASE insn.ic = "MOVSXD" -> Sx(S(64), Bitcast(Signed(input.t), input))
             [] insn.ic = "MOVZX" -> Zx(U(64), input)
             [] insn.ic = "MOVSX" -> Sx(x[0].t, input))>>

MovQuad(insn, x) ==
    LET src == x[1]
        low == IF Width(src.t) = 128 THEN BitExtract(src, 0, 64) ELSE src
    IN <<WriteOperand(insn, 0, IF OperandWidth(insn, 0) = 128 THEN Zx(U(128), low) ELSE low)>>

MovDouble(insn, x) ==
    LET src == x[1]
    IN <<WriteOperand(insn, 0,
           CASE OperandWidth(insn, 0) = 32 -> BitExtract(src, 0, 32)
             [] Width(src.t) = 32 -> Zx(U(128), src)
             [] OTHER -> src)>>

\* Between registers only the low half of the source is written.
MovsdXmm(insn, x) ==
    LET src == x[1]
    IN <<WriteOperand(insn, 0, IF OperandWidth(insn, 0) /= 64 /\ Width(src.t) = 64
                               THEN Zx(U(128), src) ELSE BitExtract(src, 0, 64))>>

MovVector(insn, x) == <<WriteOperand(insn, 0, x[1])>>

\* MOVLPS and MOVHPS move half a register to or from its low or high half.
\* Of a register source the low half is taken in both.
MovHalf(insn, x) ==
    LET src == x[1]
        half == IF Width(src.t) = 128 THEN BitExtract(src, 0, 64) ELSE src
        at == IF insn.ic \in {"MOVLPS", "MOVLPD"} THEN 0 ELSE 64
    IN <<WriteOperand(insn, 0, IF OperandWidth(insn, 0) = 64 THEN half
                               ELSE BitInsert(x[0], half, at, 64))>>

\* The test for a source in memory looks at the element width, which is 32
\* for a register too once it is seen as a vector of floats.
Movss(insn, x) ==
    LET read == x[1]
        floats(v) == Bitcast(Vector(F(32), 4), v)
        src == IF Width(read.t) = 128 THEN floats(read) ELSE Bitcast(F(32), read)
        val == IF Width(read.t) = 128 THEN VectorExtract(src, 0) ELSE src
        zero == ConstInt(F(32), 0)
        dst == floats(x[0])
        cleared == VectorInsert(VectorInsert(VectorInsert(dst, 1, zero), 2, zero), 3, zero)
        kept == IF src.t.w = 32 THEN cleared ELSE dst
    IN <<WriteOperand(insn, 0, IF OperandWidth(insn, 0) = 128
                               THEN VectorInsert(kept, 0, val) ELSE val)>>

-----------------------------------------------------------------------------
(* String operations (mov.cpp, rep.cpp); the width of the first operand is *)
(* that of an element.                                                     *)

Step(insn) == ConstInt(U(64), OperandWidth(insn, 0) \div 8)
Rsi == ReadReg(U(64), "RSI")
Rdi == ReadReg(U(64), "RDI")
Rcx == ReadReg(U(64), "RCX")
Backward == Binary("cmpne", ReadReg(U(1), "DF"), ConstInt(U(1), 0))

Movs(insn) ==
    LET advance(op) == <<WriteReg("RDI", Binary(op, Rdi, Step(insn))),
                         WriteReg("RSI", Binary(op, Rsi, Step(insn)))>>
    IN <<WriteMem(Rdi, ReadMem(U(OperandWidth(insn, 0)), Rsi)), CondBr(Backward, 1)>>
         \o advance("add") \o <<Br(2), Label(1)>> \o advance("sub") \o <<Label(2)>>

RepStos(insn, x) ==
    <<Label(0), CondBr(Binary("cmpeq", Rcx, ConstInt(U(64), 0)), 3),
      WriteMem(Rdi, x[2]),
      CondBr(Backward, 1), WriteReg("RDI", Add(Rdi, Step(insn))), Br(2),
      Label(1), WriteReg("RDI", Sub(Rdi, Step(insn))), Label(2),
      WriteReg("RCX", Sub(Rcx, ConstInt(U(64), 1))), Br(0), Label(3)>>

RepMovs(insn) ==
    LET moved(p) == Csel(Backward, Sub(p, Step(insn)), Add(p, Step(insn)))
    IN <<Label(0), CondBr(Binary("cmpeq", Rcx, ConstInt(U(64), 0)), 3),
         WriteMem(Rdi, ReadMem(U(OperandWidth(insn, 0)), Rsi)),
         WriteReg("RDI", moved(Rdi)), WriteReg("RSI", moved(Rsi)),
         WriteReg("RCX", Sub(Rcx, ConstInt(U(64), 1))), Br(0), Label(3)>>

\* Compares before it tests the count, takes 8 from it, and moves no pointer.
RepeCmpsb(insn) ==
    LET rslt == Sub(ReadMem(U(8), Rsi), ReadMem(U(8), Rdi))
        ecx == Sub(ReadReg(U(32), "RCX"), ConstInt(U(32), 8))
        over == Trunc(U(1), Binary("cmpeq", ecx, ConstInt(U(32), 0)))
        stop == Binary("bor", over, Not(ReadReg(U(1), "ZF")))
    IN <<Label(0)>> \o AllFlags(rslt)
         \o <<WriteReg("RCX", Zx(U(64), ecx)), CondBr(Not(stop), 0)>>

-----------------------------------------------------------------------------
(* cmov.cpp and setcc.cpp.                                                 *)

Cmov(insn, x) ==
    <<WriteOperand(insn, 0, Csel(ComputeCond(insn.cc), x[1], x[0]))>>

Setcc(insn) == <<WriteOperand(insn, 0, Zx(U(8), ComputeCond(insn.cc)))>>

-----------------------------------------------------------------------------
(* stack.cpp.                                                              *)

Rsp == ReadReg(U(64), "RSP")
Above(p) == Add(p, ConstInt(U(64), 8))
Below8(p) == Sub(p, ConstInt(U(64), 8))

\* As many bytes are pushed as the operand has.
Push(insn, x) == <<WriteMem(Below8(Rsp), x[0]), WriteReg("RSP", Below8(Rsp))>>

Pop(insn) == <<WriteOperand(insn, 0, ReadMem(U(64), Rsp)), WriteReg("RSP", Above(Rsp))>>

Leave(insn) ==
    <<WriteReg("RSP", ReadReg(U(64), "RBP")), WriteReg("RBP", ReadMem(U(64), Rsp)),
      WriteReg("RSP", Above(Rsp))>>

-----------------------------------------------------------------------------
(* branch.cpp and jcc.cpp.  A constant target is relative to the next      *)
(* instruction.                                                            *)

NextPc(insn) == Add(ReadPc, ConstInt(U(64), insn.len))

Target(insn, x) ==
    LET t == x[0]
    IN IF t.k = "constant" THEN Add(ReadPc, Add(t, ConstInt(U(64), insn.len))) ELSE t

\* RSP is read before it is written and the operand after it, by other nodes.
Call(insn, x) ==
    LET rsp == Below8(Again(Rsp))
    IN <<WriteReg("RSP", rsp), WriteMem(rsp, NextPc(insn)), WritePc(Target(insn, x), "call")>>

Ret(insn) == <<WriteReg("RSP", Above(Rsp)), WritePc(ReadMem(U(64), Rsp), "ret")>>

Jmp(insn, x) == <<WritePc(Target(insn, x), "br")>>

Jcc(insn) ==
    LET taken == Add(ReadPc, ConstInt(U(64), Op(insn, 0).d + insn.len))
    IN <<WritePc(Csel(ComputeCond(insn.cc), taken, NextPc(insn)), "csel")>>

-----------------------------------------------------------------------------
(* control.cpp and interrupt.cpp.                                          *)

Control(insn) ==
    LET xcr0 == ReadReg(U(64), "XCR0")
        flag(f, b) == <<WriteReg(f, ConstInt(U(1), b))>>
    IN CASE insn.ic = "STD" -> flag("DF", 1)
         [] insn.ic = "CLD" -> flag("DF", 0)
         [] insn.ic = "STC" -> flag("CF", 1)
         [] insn.ic = "CLC" -> flag("CF", 0)
         [] insn.ic = "XGETBV" -> <<WriteOperand(insn, 1, BitExtract(xcr0, 32, 32)),
                                    WriteOperand(insn, 2, BitExtract(xcr0, 0, 32))>>

\* The call's instruction is two bytes long; the handler runs after PC moved.
Interrupt(insn) ==
    CASE insn.ic = "SYSCALL" ->
           <<WriteReg("PC", Add(ReadPc, ConstInt(U(64), 2))), InternalCall("handle_syscall")>>
      [] insn.ic = "HLT" -> <<InternalCall("hlt")>>
      [] OTHER -> <<InternalCall("handle_int")>>

\* Anything without a translator stops the program when it is reached.
Unimplemented(insn) == <<InternalCall("handle_poison")>>
=============================================================================
