------------------------------ MODULE MCEEJit ------------------------------
(* Instructions and states for the run of EEJit: every instruction the model *)
(* knows, once, from many register contents; and short runs of a few that    *)
(* branch, fault, miss and fill the cache.                                   *)
EXTENDS EEJit

Instr(op, rs, rt, rd, sa, imm, w, cond) ==
    [op |-> op, rs |-> rs, rt |-> rt, rd |-> rd, sa |-> sa, imm |-> imm, w |-> w, cond |-> cond]

\* All pairs of an operation and its operands, as a sequence.
Times(ops, args, F(_, _)) ==
    [k \in 1 .. Len(ops) * Len(args) |-> F(ops[(k - 1) \div Len(args) + 1], args[((k - 1) % Len(args)) + 1])]

RegOps3 == <<"ADDU", "SUBU", "DADDU", "DSUBU", "AND", "OR", "XOR", "NOR", "SLT", "SLTU", "SLL", "SRL", "SRA", "SLLV",
             "SRLV", "SRAV", "DSLL", "DSRL", "DSRA", "DSLL32", "DSRL32", "DSRA32", "MOVZ", "MOVN",
             "MULT", "MULTU", "DIV", "DIVU", "MULT1", "MULTU1", "DIV1", "DIVU1",
             "MFHI", "MFLO", "MTHI", "MTLO", "MFHI1", "MFLO1", "MTHI1", "MTLO1", "JR", "JALR",
             "PAND", "PXOR", "POR", "PNOR", "PCPYLD", "PCPYUD", "PCPYH", "PROT3W", "PMULTW", "PMULTH", "PDIVW", "PDIVBW",
             "PMFHI", "PMFLO", "PMTHI", "PMTLO", "PMTHL", "PMFHL.LW", "PMFHL.UW", "PMFHL.LH", "PMFHL.SH", "PMFHL.SLW">>
LaneOps == Times(<<"PADD", "PSUB", "PPAC", "PEXTL", "PEXTU">>, <<BYTE, HALF, WORD>>, LAMBDA o, w : <<o, w>>)
           \o Times(<<"PSLL", "PSRL", "PSRA">>, <<HALF, WORD>>, LAMBDA o, w : <<o, w>>)

\* rs, rt, rd and sa: apart, the destination also a source, all one, none.
RegArgs == << <<1, 2, 3, 1>>, <<1, 2, 1, 7>>, <<1, 2, 2, 3>>, <<1, 1, 1, 0>>, <<2, 1, 0, 2>> >>

MemOps == <<"ADDIU", "SLTI", "SLTIU", "ANDI", "ORI", "XORI", "LUI", "LB", "LBU", "LH", "LHU", "LW", "LWU", "LD",
            "SB", "SH", "SW", "SD", "LWL", "LWR", "SWL", "SWR">>
MemArgs == << <<1, 2, -1>>, <<1, 1, 5>>, <<1, 2, 2>>, <<1, 0, 3>>, <<0, 2, -8>> >>
QuadArgs == << <<1, 2, 0>>, <<1, 2, 7>>, <<1, 0, -8>> >>  \* not LQ over its own base

Conds == <<"EQ", "NE", "LEZ", "GTZ", "LTZ", "GEZ">>

FlowProgram == <<
    Instr("ADDIU", 1, 1, 0, 0, 4, WORD, "EQ"),
    Instr("B", 1, 2, 0, 0, 2, WORD, "EQ"),
    Instr("BL", 1, 2, 0, 0, -3, WORD, "NE"),
    Instr("LW", 2, 3, 0, 0, 0, WORD, "EQ"),
    Instr("JR", 3, 0, 0, 0, 0, WORD, "EQ"),
    Instr("SD", 1, 2, 0, 0, 0, WORD, "EQ"),
    Instr("MULT1", 1, 2, 3, 0, 0, WORD, "EQ"),
    Instr("DSLL32", 0, 1, 1, 1, 0, WORD, "EQ")>>

WideProgram ==
    Times(RegOps3, RegArgs, LAMBDA o, a : Instr(o, a[1], a[2], a[3], a[4], 0, WORD, "EQ"))
    \o Times(LaneOps, RegArgs, LAMBDA o, a : Instr(o[1], a[1], a[2], a[3], a[4], 0, o[2], "EQ"))
    \o Times(MemOps, MemArgs, LAMBDA o, a : Instr(o, a[1], a[2], 0, 0, a[3], WORD, "EQ"))
    \o Times(<<"LQ", "SQ">>, QuadArgs, LAMBDA o, a : Instr(o, a[1], a[2], 0, 0, a[3], WORD, "EQ"))
    \o Times(<<"B", "BL">>, Conds, LAMBDA o, c : Instr(o, 1, 2, 0, 0, -3, WORD, c))
    \o Times(<<"B", "BL">>, Conds, LAMBDA o, c : Instr(o, 1, 1, 0, 0, 2, WORD, c))
    \o Times(<<"J", "JAL">>, <<0, 3>>, LAMBDA o, n : Instr(o, 0, 0, 0, 0, n, WORD, "EQ"))

\* rt, rd and sa of COP1 and COP2: apart, one a source and the destination,
\* register 0 and the control register 31.
CopOps == <<"MFC1", "CFC1", "MTC1", "CTC1", "ABS.S", "MOV.S", "NEG.S", "MAX.S", "MIN.S", "MFC2", "CFC2", "MTC2", "CTC2",
            "QMFC2", "QMTC2", "VIADD", "VISUB", "VIAND", "VIOR", "VIADDI", "VABS", "VMOVE", "VMR32">>
CopArgs == << <<2, 1, 3, 7>>, <<1, 2, 1, -8>>, <<2, 2, 2, 13>>, <<0, 1, 0, 15>>, <<1, 0, 31, 6>>, <<2, 31, 1, -1>> >>

\* A destination mask has four bits, and so does an immediate of VIADDI here.
CopProgram ==
    Times(CopOps, CopArgs, LAMBDA o, a : Instr(o, 0, a[1], a[2], a[3],
        IF o \in VectorMoves THEN a[4] % 16 ELSE Signed(HALF, a[4] % 2 ^ HALF), WORD, "EQ"))
    \o Times(<<"B", "BL">>, <<"FpT", "FpF">>, LAMBDA o, c : Instr(o, 0, 0, 0, 0, 2, WORD, c))

MCProgram == FlowProgram \o WideProgram \o CopProgram
MCInstrs == 1 .. Len(MCProgram)

\* A quadword loaded over its own base register.
LqProgram == <<Instr("LQ", 1, 1, 0, 0, 0, WORD, "EQ")>>
LqInstrs == {1}

\* A state in the middle of a program: $1, $2, HI and LO hold a and b, and the
\* registers of COP1 and COP2 the words of a and b.  ResetEE() has initialised
\* VU0.
Start(a, b, slot, exl) ==
    [reg |-> [r \in Slots |-> CASE r = 0 -> [ud0 |-> 0, ud1 |-> 0]
                                [] r = 1 -> [ud0 |-> a, ud1 |-> b]
                                [] r = 2 -> [ud0 |-> b, ud1 |-> a]
                                [] r = HI_IDX -> [ud0 |-> a, ud1 |-> b]
                                [] r = LO_IDX -> [ud0 |-> b, ud1 |-> 2 ^ DOUBLE - 1 - a]
                                [] OTHER -> [ud0 |-> 24, ud1 |-> b]],
     fpr |-> [r \in Gprs |-> IF r = 1 THEN Low(a) ELSE IF r = 2 THEN Low(b) ELSE High(a)],
     fcr31 |-> Low(a),
     cop2_ctrl |-> [r \in Gprs |-> IF r = 0 THEN 0 ELSE IF r = 1 THEN Low(a) ELSE Low(b)],
     vu0_vf |-> [r \in Gprs |-> IF r = 0 THEN VF00 ELSE [l \in 0 .. 3 |-> <<Low(a), High(a), Low(b), 24 * r>>[l + 1] % 2 ^ WORD]],
     pc |-> 12, next_pc |-> IF slot = 1 THEN 4 ELSE 16, exc_this_pc |-> 8,
     branch_pending |-> slot, exc_in_delay_slot |-> 0, exc_raised |-> 0,
     exl |-> exl, bd |-> 0, code |-> "none", epc |-> 0, badvaddr |-> 0,
     mem |-> [k \in 0 .. RamSize - 1 |-> (k * k + k \div 3) % 2 ^ BYTE]]

\* Zero, the ends of a word and a doubleword, and addresses:
\* in RAM (20), in RAM through KSEG0 (150) and unmapped (60).
Contents == {0, 20, 60, 128, 150, 255, 32767, 32768, 65535}

MCTexts == {
    [instrs |-> Len(FlowProgram \o WideProgram) + 1 .. Len(MCProgram), steps |-> 1,
     starts |-> {Start(a, b, 0, 0) : a \in {0, 60, 150, 255, 32768}, b \in {0, 60, 128, 150, 65535}}],
    [instrs |-> Len(FlowProgram) + 1 .. Len(FlowProgram \o WideProgram), steps |-> 1,
     starts |-> {Start(a, b, 0, 0) : a \in Contents, b \in {0, 60, 128, 65535}}
                \cup {Start(a, 60, 1, e) : a \in {0, 20, 60, 32768}, e \in {0, 1}}],
    [instrs |-> 1 .. Len(FlowProgram), steps |-> 4,
     starts |-> {Start(20, 20, 0, 0), Start(20, 60, 0, 0)}]}

LqTexts == {[instrs |-> LqInstrs, steps |-> 1, starts |-> {Start(20, 0, 0, 0)}]}
=============================================================================
