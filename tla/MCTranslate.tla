----------------------------- MODULE MCTranslate ------------------------------
(***************************************************************************)
(* Instructions of every class, each with the operands that reach the      *)
(* limits of its width.                                                    *)
(***************************************************************************)
EXTENDS Translation

MCBase == 4096
MCAddress == <<1, 2, 64, 0, 0, 0, 0, 0>>

\* 0, 1, -1 and the least and the greatest signed number of n bytes, below
\* bytes that must not matter.
Extremes(n) ==
    LET junk(b) == b \o SubSeq(<<85, 86, 87, 88, 89, 90, 91, 92>>, n + 1, 8)
        ones == Complement(Zeros(n))
    IN {junk(b) : b \in {Zeros(n), FromInt(1, n), ones, [ones EXCEPT ![n] = 127],
                         [Zeros(n) EXCEPT ![n] = 128]}}
Pattern == <<18, 52, 86, 120, 154, 188, 222, 240>>
Small(k) == FromInt(k, 8)
Place(offset) == FromInt(MCBase + offset, 8)

FlagNames == {"ZF", "CF", "OF", "SF", "PF", "DF"}
NoFlags == [f \in FlagNames |-> <<0>>]
With(on) == [f \in FlagNames |-> IF f \in on THEN <<1>> ELSE <<0>>]

Garbage(v) == v \o [i \in 1 .. 48 |-> 17]
Upward(from) == [i \in 1 .. 16 |-> (from + 29 * i) % 256]

Registers(x, y, flags, u, v) ==
    flags @@ "RAX" :> x @@ "RCX" :> y @@ "RDX" :> x @@ "RBX" :> Place(16) @@ "RSP" :> Place(48)
      @@ "RBP" :> Place(40) @@ "RSI" :> Place(8) @@ "RDI" :> Place(24) @@ "R8" :> Small(2)
      @@ "FS" :> Small(8) @@ "PC" :> MCAddress @@ "XMM0" :> Garbage(u) @@ "XMM1" :> Garbage(v)

Memory(d) == [i \in 1 .. 64 |-> IF i \in 17 .. 32 THEN d[i - 16] ELSE (7 * i) % 256]

Scalar(insns, xs, ys, flags) ==
    {[insn |-> i, regs |-> Registers(x, y, f, Upward(0), Upward(100)),
      mem |-> Memory(y \o x)] :
       i \in insns, x \in xs, y \in ys, f \in flags}

Packed(insns, us, vs) ==
    {[insn |-> i, regs |-> Registers(Pattern, Pattern, With({"SF", "OF"}), u, v),
      mem |-> Memory(v)] :
       i \in insns, u \in us, v \in vs}

Binops == {"ADD", "SUB", "CMP", "AND", "OR", "XOR", "TEST", "ADC", "SBB"}
Rax(w) == Gpr("RAX", w)
RcxR(w) == Gpr("RCX", w)
RdxR(w) == Gpr("RDX", w)
At16(w) == Mem("RBX", w)
Cc(ic, cc, ops) == [Insn(ic, ops) EXCEPT !.cc = cc]
Vex(i) == [i EXCEPT !.vex = TRUE]

Arith(n) ==
    Scalar({Insn(op, <<Rax(8 * n), RcxR(8 * n)>>) : op \in Binops}
             \cup {Insn(op, <<At16(8 * n), RcxR(8 * n)>>) : op \in {"XADD", "ADD_LOCK",
                 "AND_LOCK", "OR_LOCK", "XADD_LOCK", "XCHG"}}
             \cup {Insn("XADD", <<Rax(8 * n), RcxR(8 * n)>>),
                   Insn("XCHG", <<Rax(8 * n), RcxR(8 * n)>>),
                   Insn("CMPXCHG_LOCK", <<At16(8 * n), RdxR(8 * n), Rax(8 * n)>>)},
           Extremes(n), Extremes(n), {With({"CF"})})

UnaryCases(n) ==
    Scalar({Insn(op, <<Rax(8 * n)>>) : op \in {"INC", "DEC", "NEG", "NOT"}}
             \cup {Insn(op, <<At16(8 * n)>>) : op \in {"INC_LOCK", "DEC_LOCK"}},
           Extremes(n), {Pattern}, {NoFlags, With({"CF"})})

Forms ==
    Scalar({Insn("ADD", <<High("RAX"), RcxR(8)>>), Insn("MOV", <<High("RAX"), RcxR(8)>>),
            Insn("MOV", <<RcxR(8), High("RAX")>>),
            Insn("SUB", <<Rax(64), Imm(-1, 32)>>), Insn("AND", <<Rax(64), Imm(-16, 8)>>),
            Insn("ADD", <<Rax(32), Imm(-1, 8)>>),
            Insn("ADD_LOCK", <<At16(32), Imm(1, 8)>>),
            Insn("ADD_LOCK", <<At16(64), Imm(-1, 32)>>),
            Insn("ADD", <<At16(16), RcxR(16)>>),
            Insn("ADD", <<Rax(64), MemAt("RBX", -8, 64)>>),
            Insn("ADD", <<Rax(32), [MemAt("RBX", 4, 32) EXCEPT !.i = "R8", !.s = 1]>>),
            Insn("AND", <<Rax(64), [Mem("RBX", 64) EXCEPT !.seg = "FS"]>>),
            Insn("MOV", <<Rax(64), RcxR(64)>>), Insn("MOV", <<Rax(32), RcxR(32)>>),
            Insn("MOV", <<Rax(16), RcxR(16)>>), Insn("MOV", <<Rax(8), RcxR(8)>>),
            Insn("MOV", <<Rax(64), Imm(-5, 32)>>), Insn("MOV", <<At16(64), Imm(-5, 32)>>),
            Insn("MOV", <<At16(64), Imm(5, 32)>>), Insn("MOV", <<At16(32), RcxR(32)>>),
            Insn("MOV", <<At16(16), Imm(-5, 16)>>), Insn("MOV", <<Rax(64), At16(64)>>),
            Insn("LEA", <<Rax(64), [MemAt("RBX", -12, 64) EXCEPT !.i = "R8", !.s = 3]>>),
            Insn("LEA", <<Rax(32), MemAt("RIP", 100, 64)>>),
            Insn("MOVZX", <<Rax(32), RcxR(8)>>), Insn("MOVZX", <<Rax(16), RcxR(8)>>),
            Insn("MOVZX", <<Rax(64), At16(16)>>),
            Insn("MOVSX", <<Rax(32), RcxR(8)>>), Insn("MOVSX", <<Rax(16), RcxR(8)>>),
            Insn("MOVSX", <<Rax(64), At16(16)>>),
            Insn("MOVSXD", <<Rax(64), RcxR(32)>>),
            Insn("CWD", <<RdxR(16), Rax(16)>>), Insn("CDQ", <<RdxR(32), Rax(32)>>),
            Insn("CQO", <<RdxR(64), Rax(64)>>), Insn("CDQE", <<Rax(64), Rax(32)>>),
            Insn("BSWAP", <<Rax(32)>>), Insn("BSWAP", <<Rax(64)>>),
            Insn("STC", << >>), Insn("CLC", << >>), Insn("STD", << >>), Insn("CLD", << >>),
            Insn("NOP", << >>), Insn("PAUSE", << >>),
            Insn("PUSH", <<Rax(64)>>), Insn("PUSH", <<Imm(-1, 8)>>),
            Insn("PUSH", <<Imm(-1, 32)>>), Insn("PUSH", <<Gpr("RSP", 64)>>),
            Insn("PUSH", <<MemAt("RSP", 8, 64)>>),
            Insn("POP", <<Rax(64)>>), Insn("POP", <<Gpr("RSP", 64)>>),
            Insn("POP", <<At16(64)>>), Insn("POP", <<MemAt("RSP", -16, 64)>>),
            Insn("LEAVE", << >>),
            Insn("CALL_NEAR", <<Rel(-64)>>), Insn("CALL_NEAR", <<Rax(64)>>),
            Insn("CALL_NEAR", <<At16(64)>>), Insn("CALL_NEAR", <<MemAt("RSP", 8, 64)>>),
            Insn("RET_NEAR", << >>), Insn("RET_NEAR", <<UImm(16, 16)>>),
            Insn("JMP", <<Rel(1000)>>), Insn("JMP", <<Rax(64)>>), Insn("JMP", <<At16(64)>>),
            [Insn("SYSCALL", << >>) EXCEPT !.len = 2],
            Insn("POP", <<Operand("segment", "FS", 64)>>),
            Insn("MOVSB", <<Mem("RDI", 8), Mem("RSI", 8)>>),
            Insn("MOVSQ", <<Mem("RDI", 64), Mem("RSI", 64)>>)},
           {Pattern, Complement(Pattern)}, {Complement(Pattern), Pattern},
           {NoFlags, With({"DF", "CF"})})

Conditional ==
    Scalar(UNION {{Cc("CMOV", cc, <<Rax(32), RcxR(32)>>), Cc("SETCC", cc, <<Rax(8)>>),
                   Cc("JCC", cc, <<Rel(-20)>>)} : cc \in Conditions},
           {Pattern}, {Complement(Pattern)},
           {With(on) : on \in SUBSET {"ZF", "CF", "SF", "OF"}} \cup {With({"PF"})})

Counted ==
    Scalar({Insn("REP_MOVSQ", <<Mem("RDI", 64), Mem("RSI", 64)>>),
            Insn("REP_MOVSB", <<Mem("RDI", 8), Mem("RSI", 8)>>),
            Insn("REP_STOSQ", <<Mem("RDI", 64), RcxR(64), Rax(64)>>),
            Insn("REP_STOSB", <<Mem("RDI", 8), RcxR(64), Rax(8)>>)},
           {Pattern}, {Small(0), Small(1), Small(2)}, {NoFlags, With({"DF"})})

ShiftsC ==
    Scalar({Insn(op, <<Rax(w), RcxR(8)>>) : op \in {"SHL", "SHR", "SAR"}, w \in {8, 32, 64}}
             \cup {Insn(op, <<Rax(w), RdxR(w), RcxR(8)>>) : op \in {"SHLD", "SHRD"},
                   w \in {32}}
             \cup {Insn(op, <<Rax(w), RcxR(w)>>) : op \in {"BT", "BTS", "BTR"},
                   w \in {16, 64}},
           {Pattern, Complement(Pattern)}, {Small(0), Small(1), Small(2), Small(7),
                                            Small(33)}, {With({"OF", "CF"})})
    \cup
    Scalar({Insn(op, <<Rax(w), UImm(k, 8)>>) : op \in {"SHL", "SHR", "SAR", "ROL", "ROR"},
            w \in {8, 64}, k \in {0, 1, 2, 5, 9}}
             \cup {Insn(op, <<Rax(w), UImm(3, 8)>>) : op \in {"BT", "BTS", "BTR"}, w \in {32}}
             \cup {Insn(op, <<Rax(16), RcxR(16)>>) : op \in {"BSF", "BSR"}},
           {Pattern, Complement(Pattern)}, {Pattern, Complement(Pattern), Zeros(8),
                                            Small(64)}, {With({"OF", "CF"})})

MulDiv ==
    UNION {Scalar({Insn("IMUL", <<Rax(8 * n), RcxR(8 * n)>>),
                   Insn("IMUL", <<Rax(8 * n), RcxR(8 * n), Imm(-3, 8)>>)}
             \cup {Insn(op, <<RcxR(8 * n), Rax(8 * n), RdxR(8 * n)>>) : op \in {"MUL",
                 "IMUL"}},
           Extremes(n), Extremes(n), {NoFlags}) : n \in {2, 4, 8}}
    \cup Scalar({Insn(op, <<RcxR(8), Rax(8), Rax(16)>>) : op \in {"MUL", "IMUL"}},
                Extremes(1), Extremes(1), {NoFlags})
    \cup {[insn |-> Insn(op, <<RcxR(32), Rax(32), RdxR(32)>>), mem |-> Memory(Upward(0)),
           regs |-> ("RDX" :> (IF op = "IDIV" /\ Negative(SubSeq(x, 1,
               4)) THEN Complement(Zeros(8)) ELSE Zeros(8)))
                      @@ Registers(x, y, NoFlags, Upward(0), Upward(0))] :
             op \in {"DIV", "IDIV"}, x \in {Small(7), Small(100), Small(-7), Pattern},
             y \in {Small(7), Small(-7), Small(3)}}
    \cup {[insn |-> Insn("DIV", <<RcxR(32), Rax(32), RdxR(32)>>), mem |-> Memory(Upward(0)),
           regs |-> ("RDX" :> <<0, 0, 0, 128, 0, 0, 0, 0>>)
                      @@ Registers(x, Small(-1), NoFlags, Upward(0), Upward(0))] :
             x \in {Small(7), Pattern}}

F32(a, b, c, d) ==
    FloatBytes(32, 2 * a) \o FloatBytes(32, 2 * b) \o FloatBytes(32, 2 * c) \o FloatBytes(32,
        2 * d)
F64(a, b) == FloatBytes(64, 2 * a) \o FloatBytes(64, 2 * b)
Xmm01 == <<Xmm("XMM0"), Xmm("XMM1")>>
Mem0(w) == <<Xmm("XMM0"), At16(w)>>

Packs ==
    Packed({Insn(op, Xmm01) : op \in {"PADDB", "PADDW", "PADDD", "PADDQ", "PSUBB", "PSUBW",
                                      "PSUBD", "PSUBQ",
              "PCMPEQW", "PCMPEQD", "PCMPGTW", "PCMPGTD", "PAND", "ANDPS", "ANDNPD", "POR",
              "ORPD", "PXOR",
              "PUNPCKLBW", "PUNPCKLWD", "PUNPCKLDQ", "PUNPCKLQDQ", "PUNPCKHBW", "PUNPCKHWD",
              "PUNPCKHDQ", "PUNPCKHQDQ", "UNPCKHPD",
              "PACKSSWB", "PACKSSDW", "PACKUSWB", "PMULUDQ", "PMULLW",
              "MOVUPS", "MOVQ", "MOVSS", "MOVSD_XMM", "MOVHPS"}}
       \cup {Insn(op, Mem0(128)) : op \in {"MOVDQU", "PADDW"}}
       \cup {Insn("MOVUPS", <<At16(128), Xmm("XMM0")>>), Insn("MOVSS", Mem0(32)),
             Insn("MOVSD_XMM", Mem0(64)), Insn("MOVQ", Mem0(64)),
             Insn("MOVSS", <<At16(32), Xmm("XMM0")>>),
             Insn("MOVSD_XMM", <<At16(64), Xmm("XMM0")>>),
             Insn("MOVD", <<Xmm("XMM0"), RcxR(32)>>), Insn("MOVD", <<Rax(32), Xmm("XMM0")>>),
             Insn("MOVQ", <<Rax(64), Xmm("XMM0")>>),
             Insn("MOVLPS", Mem0(64)), Insn("MOVHPS", Mem0(64)),
             Insn("MOVLPS", <<At16(64), Xmm("XMM0")>>),
             Insn("MOVHPS", <<At16(64), Xmm("XMM0")>>),
             Insn("PEXTRW", <<Rax(32), Xmm("XMM1"), UImm(5, 8)>>),
             Insn("PMOVMSKB", <<Rax(32), Xmm("XMM1")>>)}
       \cup {Insn(op, <<Xmm("XMM0"), Xmm("XMM1"), UImm(k, 8)>>) : op \in {"PSHUFD", "PSHUFLW",
           "PSHUFHW", "SHUFPS", "SHUFPD"}, k \in {27, 177}}
       \cup {Insn(op, <<Xmm("XMM0"), UImm(k, 8)>>) : op \in {"PSRLW", "PSRLD", "PSRLQ",
           "PSLLD", "PSLLDQ", "PSRLDQ"}, k \in {3, 16}},
       {Upward(0), [i \in 1 .. 16 |-> IF i % 4 \in {0, 1} THEN 255 ELSE 128]},
       {Upward(100), Upward(0)})

Floats ==
    Packed({Insn(op, Xmm01) : op \in {"ADDSS", "SUBSS", "MULSS", "DIVSS", "COMISS", "UCOMISS",
                                      "ADDPS"}}
           \cup {Vex(Insn("VADDSS", <<Xmm("XMM0"), Xmm("XMM1"), At16(32)>>)),
                 Insn("ADDSS", Mem0(32))}
           \cup {Insn("CMPSS", <<Xmm("XMM0"), Xmm("XMM1"), UImm(k, 8)>>) : k \in 0 .. 7},
      {F32(1, 2, 3, 4), F32(2, 0, 0, 0), Upward(0)},
      {F32(2, 1, 1, 1), F32(1, 1, 1, 1), Upward(100)})
    \cup
    Packed({Insn(op, Xmm01) : op \in {"ADDSD", "SUBSD", "MULSD", "DIVSD", "COMISD", "UCOMISD",
                                      "SQRTSD"}}
           \cup {Vex(Insn("VADDSD", <<Xmm("XMM0"), Xmm("XMM1"), At16(64)>>))}
           \cup {Insn("CMPSD_XMM", <<Xmm("XMM0"), Xmm("XMM1"), UImm(k, 8)>>) : k \in 0 .. 7},
      {F64(1, 2), F64(2, 0), Upward(0)}, {F64(4, 1), F64(1, 1), Upward(100)})

Conversions ==
    Packed({Insn(op, <<Xmm("XMM0"), Xmm("XMM1")>>) : op \in {"CVTSS2SD", "CVTSD2SS", "ADDPD",
        "SUBPD"}}
           \cup {Insn(op, <<Rax(w), Xmm("XMM1")>>) : op \in {"CVTSS2SI", "CVTTSS2SI",
               "CVTSD2SI", "CVTTSD2SI"}, w \in {32, 64}}
           \cup {Insn("CVTTSD2SI", <<Rax(32), At16(64)>>),
                 Insn("CVTTSS2SI", <<Rax(64), At16(32)>>)},
      {Upward(0), F64(1, 2)},
      {FloatBytes(w, h) \o SubSeq(Upward(0), w \div 8 + 1, 16) : w \in {32, 64},
       h \in {0, 2, 3, 5, -1, -3, -8}}
        \cup {NotANumber(64) \o FloatBytes(64, 2), F64(3, -1)})
    \cup
    Scalar({Insn(op, <<Xmm("XMM0"), RcxR(w)>>) : op \in {"CVTSI2SS", "CVTSI2SD"},
            w \in {32, 64}}
           \cup {Insn(op, <<Xmm("XMM0"), At16(w)>>) : op \in {"CVTSI2SS", "CVTSI2SD"},
                 w \in {32, 64}},
           {Pattern}, {Small(k) : k \in {0, 1, -1, 3, -4}} \cup {Pattern}, {NoFlags})
MCCases == UNION {Arith(n) \cup UnaryCases(n) : n \in {1, 2, 4, 8}}
             \cup Forms \cup Conditional \cup Counted \cup ShiftsC
             \cup MulDiv \cup Packs \cup Floats \cup Conversions
=============================================================================
