--------------------------- MODULE X86Translators ----------------------------
(***************************************************************************)
(* From a decoded instruction to the packet of its actions: the factory    *)
(* that picks the translator for an instruction class, the switch of each  *)
(* translator, and the chunk around one instruction (x86-input-arch.cpp).  *)
(***************************************************************************)
EXTENDS X86Integer, X86Moves

Shifts == INSTANCE X86Shifts
Vec == INSTANCE X86Vector

-----------------------------------------------------------------------------
\* The classes that get_translator gives to each translator.

MovClasses ==
    {"MOV", "LEA", "MOVQ", "MOVD", "MOVSX", "MOVSXD", "MOVSD_XMM", "MOVSB", "MOVSW", "MOVSD",
     "MOVSQ", "MOVZX", "MOVHPS", "MOVUPS", "MOVAPS", "MOVDQA", "MOVAPD", "MOVLPS", "MOVLPD",
     "MOVHPD", "MOVSS", "MOVDQU", "CQO", "CWD", "CDQ", "CDQE"}
NopClasses == {"NOP", "CPUID", "PREFETCHNTA", "PAUSE"}
BinopClasses ==
    {"XOR", "PXOR", "AND", "PAND", "ANDPS", "ANDPD", "ANDNPS", "ANDNPD", "OR", "POR", "ORPS",
     "ORPD", "ADD", "ADDPS", "ADC", "SUB", "SBB", "CMP", "TEST", "XADD", "BT", "BTS", "BTR",
     "BSR", "BSF", "COMISS", "COMISD", "UCOMISS", "UCOMISD", "PADDQ", "PADDD", "PADDW",
     "PADDB", "PSUBQ", "PSUBD", "PSUBW", "PSUBB", "PCMPEQB", "PCMPEQW", "PCMPEQD", "PCMPGTB",
     "PCMPGTW", "PCMPGTD", "CMPSS", "CMPSD_XMM"}
StackClasses == {"PUSH", "POP", "LEAVE"}
BranchClasses == {"CALL_FAR", "CALL_NEAR", "RET_FAR", "RET_NEAR", "JMP"}
ShiftClasses ==
    {"SAR", "SHR", "SHL", "SHRD", "SHLD", "ROR", "ROL", "PSRLW", "PSRLD", "PSRLQ", "PSLLDQ",
     "PSRLDQ", "PSLLD"}
UnopClasses == {"INC", "DEC", "NOT", "NEG", "BSWAP", "PMOVMSKB", "SQRTSD"}
MuldivClasses == {"MUL", "IMUL", "DIV", "IDIV", "PMULUDQ", "PMULLW"}
RepClasses ==
    {"REPE_CMPSB", "REP_STOSB", "REP_STOSD", "REP_STOSW", "REP_STOSQ", "REP_MOVSB",
     "REP_MOVSD", "REP_MOVSW", "REP_MOVSQ"}
PunpckClasses ==
    {"UNPCKHPD", "PUNPCKLBW", "PUNPCKLWD", "PUNPCKLDQ", "PUNPCKLQDQ", "PUNPCKHBW",
     "PUNPCKHWD", "PUNPCKHDQ", "PUNPCKHQDQ", "PACKUSWB", "PACKSSWB", "PACKSSDW", "PEXTRW"}
FpvecClasses ==
    {"VADDSS", "ADDSS", "VSUBSS", "SUBSS", "VDIVSS", "DIVSS", "VMULSS", "MULSS", "VADDSD",
     "ADDSD", "VSUBSD", "SUBSD", "VDIVSD", "DIVSD", "VMULSD", "MULSD"}
ConversionClasses ==
    {"CVTSD2SI", "CVTSD2SS", "CVTSS2SD", "CVTSS2SI", "CVTSI2SS", "CVTSI2SD", "CVTTSS2SI",
     "CVTTSD2SI"}
ShuffleClasses == {"PSHUFD", "SHUFPS", "SHUFPD", "PSHUFLW", "PSHUFHW"}
AtomicClasses ==
    {"XADD_LOCK", "XCHG", "CMPXCHG_LOCK", "ADD_LOCK", "AND_LOCK", "OR_LOCK", "INC_LOCK",
     "DEC_LOCK"}
ControlClasses == {"XGETBV", "STD", "CLD", "STC", "CLC"}
InterruptClasses == {"HLT", "INT", "INT3", "SYSCALL", "UD0", "UD1", "UD2"}

-----------------------------------------------------------------------------
\* do_translate of each translator.

MovTranslator(insn, x) ==
    LET ic == insn.ic
    IN CASE ic = "LEA" -> Lea(insn)
         [] ic = "MOV" -> Mov(insn, x)
         [] ic \in {"CWD", "CQO", "CDQ", "CDQE"} -> SignOfAccumulator(insn, x)
         [] ic = "MOVQ" -> MovQuad(insn, x)
         [] ic \in {"MOVSXD", "MOVZX", "MOVSX"} -> MovExtend(insn, x)
         [] ic = "MOVD" -> MovDouble(insn, x)
         [] ic = "MOVSD_XMM" -> MovsdXmm(insn, x)
         [] ic \in {"MOVSB", "MOVSW", "MOVSD", "MOVSQ"} -> Movs(insn)
         [] ic \in {"MOVLPS", "MOVLPD", "MOVHPS", "MOVHPD"} -> MovHalf(insn, x)
         [] ic = "MOVSS" -> Movss(insn, x)
         [] OTHER -> MovVector(insn, x)

BinopTranslator(insn, x) ==
    LET ic == insn.ic
    IN CASE ic = "XADD" -> Xadd(insn, x)
         [] ic \in {"BT", "BTS", "BTR"} -> BitTest(insn, x)
         [] ic \in {"BSR", "BSF"} -> BitScan(insn, x)
         [] ic \in {"COMISS", "COMISD", "UCOMISS", "UCOMISD"} -> Vec!FloatFlags(insn, x)
         [] ic \in {"CMPSS", "CMPSD_XMM"} -> Vec!FloatMask(insn, x)
         [] ic \in {"PADDQ", "PADDD", "PADDW", "PADDB", "PSUBQ", "PSUBD", "PSUBW", "PSUBB",
                   "ADDPS"} -> Vec!LaneArith(insn, x)
         [] ic \in {"PCMPEQB", "PCMPEQW", "PCMPEQD", "PCMPGTB", "PCMPGTW", "PCMPGTD"} ->
              Vec!LaneCompare(insn, x)
         [] ic \in {"ANDPS", "ANDPD", "ANDNPS", "ANDNPD", "ORPS", "ORPD"} ->
              Vec!FloatLogical(insn, x)
         [] OTHER -> Binop(insn, x)

StackTranslator(insn, x) ==
    CASE insn.ic = "PUSH" -> Push(insn, x) [] insn.ic = "POP" -> Pop(insn)
      [] insn.ic = "LEAVE" -> Leave(insn)

BranchTranslator(insn, x) ==
    CASE insn.ic \in {"CALL_NEAR", "CALL_FAR"} -> Call(insn, x)
      [] insn.ic \in {"RET_NEAR", "RET_FAR"} -> Ret(insn)
      [] insn.ic = "JMP" -> Jmp(insn, x)

ShiftsTranslator(insn, x) ==
    LET ic == insn.ic
    IN CASE ic \in {"SAR", "SHR", "SHL"} -> Shifts!ShiftInsn(insn, x)
         [] ic \in {"SHRD", "SHLD"} -> Shifts!DoubleShift(insn, x)
         [] ic \in {"ROR", "ROL"} -> Shifts!Rotate(insn, x)
         [] ic \in {"PSRLW", "PSRLD", "PSRLQ"} -> Shifts!ShiftLanes(insn, x)
         [] ic \in {"PSLLDQ", "PSRLDQ"} -> Shifts!ShiftBytes(insn, x)
         [] ic = "PSLLD" -> Shifts!Pslld(insn)

UnopTranslator(insn, x) ==
    CASE insn.ic = "BSWAP" -> Bswap(insn, x)
      [] insn.ic = "PMOVMSKB" -> Pmovmskb(insn, x)
      [] insn.ic = "SQRTSD" -> Vec!Sqrtsd(insn, x)
      [] OTHER -> Unop(insn, x)

MuldivTranslator(insn, x) ==
    LET ic == insn.ic
    IN CASE ic = "MUL" -> Mul(insn, x)
         [] ic = "IMUL" -> Imul(insn, x)
         [] ic \in {"DIV", "IDIV"} -> Divide(insn, x)
         [] ic = "PMULUDQ" -> Pmuludq(insn, x)
         [] ic = "PMULLW" -> Pmullw(insn, x)

RepTranslator(insn, x) ==
    LET ic == insn.ic
    IN CASE ic = "REPE_CMPSB" -> RepeCmpsb(insn)
         [] ic \in {"REP_STOSB", "REP_STOSW", "REP_STOSD", "REP_STOSQ"} -> RepStos(insn, x)
         [] OTHER -> RepMovs(insn)

PunpckTranslator(insn, x) ==
    LET ic == insn.ic
    IN CASE ic = "UNPCKHPD" -> Vec!Unpckhpd(insn, x)
         [] ic = "PACKUSWB" -> Vec!Packuswb(insn, x)
         [] ic \in {"PACKSSWB", "PACKSSDW"} -> Vec!PackSigned(insn, x)
         [] ic = "PEXTRW" -> Vec!Pextrw(insn, x)
         [] OTHER -> Vec!Unpack(insn, x)

ShuffleTranslator(insn, x) ==
    CASE insn.ic = "PSHUFD" -> Vec!Pshufd(insn, x)
      [] insn.ic \in {"PSHUFLW", "PSHUFHW"} -> Vec!ShuffleWords(insn, x)
      [] OTHER -> Vec!ShuffleFloats(insn, x)

AtomicTranslator(insn, x) ==
    CASE insn.ic = "XADD_LOCK" -> LockedXadd(insn, x)
      [] insn.ic = "XCHG" -> Xchg(insn, x)
      [] insn.ic = "CMPXCHG_LOCK" -> LockedCmpxchg(insn, x)
      [] OTHER -> LockedBinop(insn, x)

-----------------------------------------------------------------------------
\* CMOVcc, Jcc and SETcc are one class each here, with the condition in cc; x
\* are the nodes that the operands are read with.

PacketOf(insn, x) ==
    LET ic == insn.ic
    IN CASE ic \in MovClasses -> MovTranslator(insn, x)
         [] ic = "SETCC" -> Setcc(insn)
         [] ic = "JCC" -> Jcc(insn)
         [] ic = "CMOV" -> Cmov(insn, x)
         [] ic \in NopClasses -> << >>
         [] ic \in BinopClasses -> BinopTranslator(insn, x)
         [] ic \in StackClasses -> StackTranslator(insn, x)
         [] ic \in BranchClasses -> BranchTranslator(insn, x)
         [] ic \in ShiftClasses -> ShiftsTranslator(insn, x)
         [] ic \in UnopClasses -> UnopTranslator(insn, x)
         [] ic \in MuldivClasses -> MuldivTranslator(insn, x)
         [] ic \in RepClasses -> RepTranslator(insn, x)
         [] ic \in PunpckClasses -> PunpckTranslator(insn, x)
         [] ic \in FpvecClasses -> Vec!FloatArith(insn, x)
         [] ic \in {"ADDPD", "SUBPD"} -> Vec!FloatPacked(insn, x)
         [] ic \in ConversionClasses -> Vec!Conversion(insn, x)
         [] ic \in ShuffleClasses -> ShuffleTranslator(insn, x)
         [] ic \in AtomicClasses -> AtomicTranslator(insn, x)
         [] ic \in ControlClasses -> Control(insn)
         [] ic \in InterruptClasses -> Interrupt(insn)
         [] OTHER -> Unimplemented(insn)

Packet(insn) ==
    PacketOf(insn, [k \in 0 .. Len(insn.ops) - 1 |-> ReadOperand(insn, k)])

\* What translate tells its caller: a packet that updates the program counter
\* ends the block; the instructions without effect yield no normal packet.
Outcome(insn, packet) ==
    CASE EndOfBlock(packet) -> "end_of_block"
      [] insn.ic \in NopClasses -> "noop"
      [] OTHER -> "normal"

\* The chunk of the one instruction at addr.  Unless the last result was not
\* "normal", a packet that sets the program counter to what follows is added.
Finished(packet, insn, addr) ==
    IF Outcome(insn, packet) = "normal"
    THEN Append(packet, WritePc(Constant(U(64), Plus(addr, FromInt(insn.len, 8))), "br"))
    ELSE packet

Chunk(insn, addr) == Finished(Packet(insn), insn, addr)
=============================================================================
