----------------------------- MODULE PPCDynarec -----------------------------
(* ppc_dynarec_translate_one(): the block of PowerPC instructions for one EE *)
(* instruction, without floating-point arithmetic.  The width                *)
(* constants of the code are scaled as in EEWord (31 is WORD - 1, 24 is      *)
(* 3 * BYTE, the shift by 3 that turns bytes into bits is LogByte); byte     *)
(* counts, addresses and offsets are the code's own.                         *)
EXTENDS PPC, SequencesExt

CTX_REG == 3

\* SCRATCH_A to SCRATCH_H
SA == 4
SB == 5
SC == 6
SD == 7
SE == 8
SF == 9
SG == 10
SH == 11

\* enc_lwz() and its like on the EE context.
Lwz(r, off) == <<"lwz", r, CTX_REG, off>>
Stw(r, off) == <<"stw", r, CTX_REG, off>>
Li(r, v) == <<"addi", r, 0, v>>

Top == WORD - 1

\* emit_load_const32()
LoadConst32(r, v) == <<<<"addis", r, 0, Signed(HALF, v \div 2 ^ HALF)>>, <<"ori", r, r, v % 2 ^ HALF>>>>

\* The low word in register r goes to an EE register, sign-extended through t.
StoreSext(r, t, reg) == <<Stw(r, REG_LO(reg)), <<"srawi", t, r, Top>>, Stw(t, REG_HI(reg))>>

\* Both words of two EE registers.
LoadBoth(i) == <<Lwz(SA, REG_LO(i.rs)), Lwz(SB, REG_LO(i.rt)), Lwz(SC, REG_HI(i.rs)), Lwz(SD, REG_HI(i.rt))>>
LoadLow(i) == <<Lwz(SA, REG_LO(i.rs)), Lwz(SB, REG_LO(i.rt))>>

Nothing == <<>>
Unless(r, code) == IF r = 0 THEN Nothing ELSE code

-----------------------------------------------------------------------------
(* Arithmetic, logic and shifts.                                             *)

TrADDIU(i) == Unless(i.rt, <<Lwz(SA, REG_LO(i.rs)), <<"addi", SA, SA, i.imm>>>> \o StoreSext(SA, SB, i.rt))

TrLogicImm(i) ==
    Unless(i.rt,
        <<Lwz(SA, REG_LO(i.rs))>>
        \o (IF i.op = "ANDI" THEN <<<<"andi.", SA, SA, Uimm(i)>>, Li(SB, 0)>>
            ELSE <<Lwz(SB, REG_HI(i.rs)), <<IF i.op = "ORI" THEN "ori" ELSE "xori", SA, SA, Uimm(i)>>>>)
        \o <<Stw(SA, REG_LO(i.rt)), Stw(SB, REG_HI(i.rt))>>)

TrLUI(i) == Unless(i.rt, <<<<"addis", SA, 0, i.imm>>>> \o StoreSext(SA, SB, i.rt))

TrLogic(i) ==
    LET op == CASE i.op = "OR" -> "or" [] i.op = "AND" -> "and" [] i.op = "XOR" -> "xor" [] i.op = "NOR" -> "nor"
    IN  Unless(i.rd, LoadBoth(i) \o <<<<op, SA, SA, SB>>, <<op, SC, SC, SD>>,
                                      Stw(SA, REG_LO(i.rd)), Stw(SC, REG_HI(i.rd))>>)

TrADDU(i) ==
    Unless(i.rd, LoadLow(i)
                 \o <<IF i.op = "ADDU" THEN <<"add", SA, SA, SB>> ELSE <<"subf", SA, SB, SA>>>>
                 \o StoreSext(SA, SC, i.rd))

\* Mutant: the high words are added without the carry.
TrDADDUNoCarry(i) ==
    Unless(i.rd, LoadBoth(i) \o <<<<"add", SA, SA, SB>>, <<"add", SC, SC, SD>>, Stw(SA, REG_LO(i.rd)), Stw(SC, REG_HI(i.rd))>>)

TrDADDU(i) ==
    Unless(i.rd, LoadBoth(i)
                 \o (IF i.op = "DADDU" THEN <<<<"addc", SA, SA, SB>>, <<"adde", SC, SC, SD>>>>
                     ELSE <<<<"subfc", SA, SB, SA>>, <<"subfe", SC, SD, SC>>>>)
                 \o <<Stw(SA, REG_LO(i.rd)), Stw(SC, REG_HI(i.rd))>>)

\* emit_slt_core(): A:C below B:D, from the borrow of a subtraction; signs are
\* flipped first for a signed comparison.
SltCore(signed) ==
    (IF signed THEN <<<<"xoris", SC, SC, 2 ^ (HALF - 1)>>, <<"xoris", SD, SD, 2 ^ (HALF - 1)>>>> ELSE Nothing)
    \o <<<<"subfc", SA, SB, SA>>, <<"subfe", SC, SD, SC>>, <<"subfe", SA, SA, SA>>, <<"andi.", SA, SA, 1>>>>

StoreFlag(r) == <<Stw(SA, REG_LO(r)), Li(SB, 0), Stw(SB, REG_HI(r))>>

TrSLT(i) == Unless(i.rd, LoadBoth(i) \o SltCore(i.op = "SLT") \o StoreFlag(i.rd))

TrSLTI(i) ==
    Unless(i.rt, <<Lwz(SA, REG_LO(i.rs)), Li(SB, i.imm), Lwz(SC, REG_HI(i.rs)), <<"srawi", SD, SB, Top>>>>
                 \o SltCore(i.op = "SLTI") \o StoreFlag(i.rt))

ShiftOp(op) == CASE op \in {"SLL", "SLLV"} -> "slw" [] op \in {"SRL", "SRLV"} -> "srw" [] op \in {"SRA", "SRAV"} -> "sraw"

TrShift(i) == Unless(i.rd, <<Lwz(SA, REG_LO(i.rt)), Li(SB, i.sa), <<ShiftOp(i.op), SA, SA, SB>>>> \o StoreSext(SA, SC, i.rd))

TrShiftV(i) ==
    Unless(i.rd, <<Lwz(SA, REG_LO(i.rt)), Lwz(SB, REG_LO(i.rs)), <<"andi.", SB, SB, WORD - 1>>, <<ShiftOp(i.op), SA, SA, SB>>>>
                 \o StoreSext(SA, SC, i.rd))

TrDShift(i) ==
    Unless(i.rd,
        <<Lwz(SA, REG_HI(i.rt)), Lwz(SB, REG_LO(i.rt)), Li(SC, i.sa), Li(SD, WORD - i.sa)>>
        \o (IF i.op = "DSLL"
            THEN <<<<"slw", SE, SB, SC>>, <<"slw", SF, SA, SC>>, <<"srw", SA, SB, SD>>, <<"or", SF, SF, SA>>,
                   Stw(SE, REG_LO(i.rd)), Stw(SF, REG_HI(i.rd))>>
            ELSE <<<<IF i.op = "DSRL" THEN "srw" ELSE "sraw", SE, SA, SC>>, <<"srw", SF, SB, SC>>, <<"slw", SB, SA, SD>>,
                   <<"or", SF, SF, SB>>, Stw(SF, REG_LO(i.rd)), Stw(SE, REG_HI(i.rd))>>))

\* All ones in register d when register r is zero, zero otherwise; one is SB.
ZeroMask(d, r, spare) == <<Li(SB, 1), <<"subfc", spare, SB, r>>, <<"subfe", d, SB, SB>>>>
Invert(r) == <<"nor", r, r, r>>

TrMOVZ(i) ==
    Unless(i.rd,
        <<Lwz(SA, REG_LO(i.rt)), Lwz(SB, REG_HI(i.rt)), <<"or", SA, SA, SB>>>> \o ZeroMask(SA, SA, SD)
        \o (IF i.op = "MOVN" THEN <<Invert(SA)>> ELSE Nothing)
        \o <<Lwz(SB, REG_LO(i.rs)), Lwz(SC, REG_LO(i.rd)), <<"and", SD, SB, SA>>, <<"nor", SB, SA, SA>>,
             <<"and", SC, SC, SB>>, <<"or", SD, SD, SC>>, Stw(SD, REG_LO(i.rd)),
             Lwz(SD, REG_HI(i.rs)), Lwz(SC, REG_HI(i.rd)), <<"and", SD, SD, SA>>,
             <<"and", SC, SC, SB>>, <<"or", SD, SD, SC>>, Stw(SD, REG_HI(i.rd))>>)

-----------------------------------------------------------------------------
(* HI and LO.                                                                *)

TrHiLoMove(i) ==
    LET M(from, up, to, up2) ==
            <<Lwz(SA, REG_HI(from) + up), Lwz(SB, REG_LO(from) + up), Stw(SA, REG_HI(to) + up2), Stw(SB, REG_LO(to) + up2)>>
    IN  CASE i.op = "MFHI" -> Unless(i.rd, M(HI_IDX, 0, i.rd, 0))
          [] i.op = "MFLO" -> Unless(i.rd, M(LO_IDX, 0, i.rd, 0))
          [] i.op = "MTHI" -> M(i.rs, 0, HI_IDX, 0)
          [] i.op = "MTLO" -> M(i.rs, 0, LO_IDX, 0)
          [] i.op = "MFHI1" -> Unless(i.rd, M(HI_IDX, 8, i.rd, 0))
          [] i.op = "MFLO1" -> Unless(i.rd, M(LO_IDX, 8, i.rd, 0))
          [] i.op = "MTHI1" -> M(i.rs, 0, HI_IDX, 8)
          [] i.op = "MTLO1" -> M(i.rs, 0, LO_IDX, 8)

TrMULT(i) ==
    LoadLow(i)
    \o <<<<"mullw", SC, SA, SB>>, <<IF i.op = "MULT" THEN "mulhw" ELSE "mulhwu", SD, SA, SB>>,
         <<"srawi", SE, SC, Top>>, Stw(SE, REG_HI(LO_IDX)), Stw(SC, REG_LO(LO_IDX)),
         <<"srawi", SF, SD, Top>>, Stw(SF, REG_HI(HI_IDX)), Stw(SD, REG_LO(HI_IDX))>>
    \o Unless(i.rd, <<Stw(SE, REG_HI(i.rd)), Stw(SC, REG_LO(i.rd))>>)

\* Quotient and remainder are blended with the old LO and HI under the mask G,
\* all ones unless the divisor is zero, and its complement F.
TrDIV(i) ==
    LET Blend(new, old, off) == <<<<"and", SD, new, SG>>, <<"and", old, old, SF>>, <<"or", SD, SD, old>>, Stw(SD, off)>>
        Both(idx, v) == <<<<"srawi", SH, v, Top>>, Lwz(SA, REG_HI(idx)), Lwz(SB, REG_LO(idx))>>
                        \o Blend(SH, SA, REG_HI(idx)) \o Blend(v, SB, REG_LO(idx))
    IN  LoadLow(i)
        \o <<<<IF i.op = "DIV" THEN "divw" ELSE "divwu", SC, SA, SB>>, <<"mullw", SD, SC, SB>>, <<"subf", SE, SD, SA>>,
             Li(SF, 1), <<"subfc", SA, SF, SB>>, <<"subfe", SF, SF, SF>>, <<"nor", SG, SF, SF>>>>
        \o Both(LO_IDX, SC) \o Both(HI_IDX, SE)

-----------------------------------------------------------------------------
(* Loads and stores call ee_mem_*().  r14 keeps the link register and r15    *)
(* the context pointer across the call.                                      *)

Ld15(r, off) == <<"lwz", r, 15, off>>
St15(r, off) == <<"stw", r, 15, off>>

EnterKeeping == <<<<"addi", 1, 1, -32>>, <<"stw", 14, 1, 8>>, <<"stw", 15, 1, 12>>, <<"or", 15, 3, 3>>, <<"mflr", 14>>>>
LeaveKeeping == <<<<"lwz", 14, 1, 8>>, <<"lwz", 15, 1, 12>>, <<"addi", 1, 1, 32>>>>
Enter == <<<<"addi", 1, 1, -32>>, <<"stw", 14, 1, 8>>, <<"mflr", 14>>>>
Leave == <<<<"lwz", 14, 1, 8>>, <<"addi", 1, 1, 32>>>>

\* Mutant: the return address is not restored.
CallFnUnlinked(f) == LoadConst32(12, FnAddress(f)) \o <<<<"mtctr", 12>>, <<"bctrl", 0>>>>

CallFn(f) == LoadConst32(12, FnAddress(f)) \o <<<<"mtctr", 12>>, <<"bctrl", 0>>, <<"mtlr", 14>>>>

\* The address in SA, from the context in register base.
Address32(i, base) == <<<<"lwz", SA, base, REG_LO(i.rs)>>, <<"addi", SA, SA, i.imm>>>>
Align(n) == <<<<"rlwinm", SA, SA, 0, 0, WORD - 1 - n>>>>

Reader(n) == CASE n = 1 -> "read8" [] n = 2 -> "read16" [] n = 4 -> "read32" [] n = 8 -> "read64"
Writer(n) == CASE n = 1 -> "write8" [] n = 2 -> "write16" [] n = 4 -> "write32" [] n = 8 -> "write64"

TrLoad(i) ==
    LET n == Bytes(i.op)
        narrow == CASE i.op = "LB" -> <<<<"extsb", 3, 3>>>>
                    [] i.op = "LBU" -> <<<<"andi.", 3, 3, 2 ^ BYTE - 1>>>>
                    [] i.op = "LH" -> <<<<"extsh", 3, 3>>>>
                    [] i.op = "LHU" -> <<<<"andi.", 3, 3, 2 ^ HALF - 1>>>>
                    [] OTHER -> Nothing
        put == CASE n = 8 -> <<St15(3, REG_HI(i.rt)), St15(4, REG_LO(i.rt))>>
                 [] i.op = "LWU" -> <<St15(3, REG_LO(i.rt)), Li(SA, 0), St15(SA, REG_HI(i.rt))>>
                 [] OTHER -> <<St15(3, REG_LO(i.rt)), <<"srawi", SA, 3, Top>>, St15(SA, REG_HI(i.rt))>>
    IN  EnterKeeping \o Address32(i, CTX_REG) \o CallFn(Reader(n)) \o narrow \o Unless(i.rt, put) \o LeaveKeeping

TrStore(i) ==
    LET args == IF i.op = "SD" THEN <<Lwz(SB, REG_HI(i.rt)), Lwz(SC, REG_LO(i.rt))>> \o Address32(i, CTX_REG)
                ELSE LoadLow(i) \o <<<<"addi", SA, SA, i.imm>>>>
    IN  Enter \o args \o CallFn(Writer(Bytes(i.op))) \o Leave

\* SD: the byte offset; SE: the same in bits.
ByteOffset(i) == Address32(i, 15) \o <<<<"andi.", SD, SA, 3>>, Li(SE, LogByte), <<"slw", SE, SD, SE>>>>

TrLWL(i) ==
    LET merge ==
          IF i.op = "LWL"
          THEN <<Li(SF, 3 * BYTE), <<"subf", SF, SE, SF>>, <<"slw", SG, 3, SF>>, Li(SH, BYTE), <<"add", SE, SE, SH>>,
                 Li(SH, -1), <<"srw", SH, SH, SE>>, Ld15(SC, REG_LO(i.rt)), <<"and", SC, SC, SH>>, <<"or", SC, SC, SG>>,
                 St15(SC, REG_LO(i.rt)), <<"srawi", SA, SC, Top>>, St15(SA, REG_HI(i.rt))>>
          ELSE <<<<"srw", SG, 3, SE>>, Li(SH, -1), <<"srw", SH, SH, SE>>, Invert(SH), Ld15(SC, REG_LO(i.rt)),
                 <<"and", SC, SC, SH>>, <<"or", SC, SC, SG>>, St15(SC, REG_LO(i.rt)),
                 Li(SA, 1), <<"subfc", SB, SA, SD>>, <<"subfe", SB, SA, SA>>, <<"srawi", SG, SC, Top>>,
                 Ld15(SH, REG_HI(i.rt)), <<"and", SG, SG, SB>>, Invert(SB), <<"and", SH, SH, SB>>,
                 <<"or", SG, SG, SH>>, St15(SG, REG_HI(i.rt))>>
    IN  EnterKeeping \o Address32(i, CTX_REG) \o Align(2) \o CallFn("read32")
        \o Unless(i.rt, ByteOffset(i) \o merge) \o LeaveKeeping

TrSWL(i) ==
    LET merge ==
          IF i.op = "SWL"
          THEN <<Li(SF, 3 * BYTE), <<"subf", SF, SE, SF>>, <<"srw", SB, SG, SF>>, Li(SH, BYTE), <<"add", SE, SE, SH>>,
                 Li(SH, -1), <<"slw", SH, SH, SE>>>>
          ELSE <<<<"slw", SB, SG, SE>>, Li(SF, WORD), <<"subf", SF, SE, SF>>, Li(SH, -1), <<"srw", SH, SH, SF>>>>
    IN  EnterKeeping \o Address32(i, CTX_REG) \o Align(2) \o CallFn("read32")
        \o <<<<"or", SC, 3, 3>>>> \o ByteOffset(i) \o <<Ld15(SG, REG_LO(i.rt))>> \o merge
        \o <<<<"and", SC, SC, SH>>, <<"or", SB, SB, SC>>>> \o Align(2) \o <<<<"or", 3, 15, 15>>>>
        \o CallFn("write32") \o LeaveKeeping

\* The second half computes the address again, from the register as the first
\* half left it.
TrLQ(i) ==
    Unless(i.rt,
        EnterKeeping \o Address32(i, CTX_REG) \o Align(4) \o CallFn("read64")
        \o <<St15(3, REG_HI(i.rt)), St15(4, REG_LO(i.rt)), <<"or", 3, 15, 15>>>>
        \o Address32(i, 15) \o Align(4) \o <<<<"addi", SA, SA, 8>>>> \o CallFn("read64")
        \o <<St15(3, REG_HI1(i.rt)), St15(4, REG_LO1(i.rt))>> \o LeaveKeeping)

TrSQ(i) ==
    EnterKeeping
    \o <<Ld15(SB, REG_HI(i.rt)), Ld15(SC, REG_LO(i.rt))>> \o Address32(i, 15) \o Align(4) \o CallFn("write64")
    \o <<<<"or", 3, 15, 15>>, Ld15(SB, REG_HI1(i.rt)), Ld15(SC, REG_LO1(i.rt))>>
    \o Address32(i, 15) \o Align(4) \o <<<<"addi", SA, SA, 8>>>> \o CallFn("write64") \o LeaveKeeping

-----------------------------------------------------------------------------
(* Jumps and branches.  A condition becomes a mask in SE and the outcome is  *)
(* blended in, so that a block never jumps.                                  *)

SetPending == <<Li(SB, 1), <<"stb", SB, CTX_REG, BRANCH_PENDING_OFFSET>>>>

Absolute32(i) ==
    <<Lwz(SA, EXC_THIS_PC_OFFSET), <<"rlwinm", SA, SA, 0, 0, 3>>>> \o LoadConst32(SB, i.imm * 4)
    \o <<<<"or", SA, SA, SB>>, Stw(SA, NEXT_PC_OFFSET)>>

LinkTo(r, v, z) == <<Lwz(v, EXC_THIS_PC_OFFSET), <<"addi", v, v, 8>>, Stw(v, REG_LO(r)), Li(z, 0), Stw(z, REG_HI(r))>>

TrJump(i) ==
    CASE i.op = "J" -> Absolute32(i) \o SetPending
      [] i.op = "JAL" -> LinkTo(31, SA, SB) \o Absolute32(i) \o SetPending
      [] i.op = "JR" -> <<Lwz(SA, REG_LO(i.rs)), Stw(SA, NEXT_PC_OFFSET)>> \o SetPending
      [] i.op = "JALR" -> <<Lwz(SA, REG_LO(i.rs))>> \o Unless(i.rd, LinkTo(i.rd, SB, SC))
                          \o <<Stw(SA, NEXT_PC_OFFSET)>> \o SetPending

Condition(i) ==
    (CASE i.cond \in {"EQ", "NE"} ->
            <<Lwz(SC, REG_HI(i.rs)), Lwz(SD, REG_HI(i.rt)), <<"xor", SC, SC, SD>>,
              Lwz(SA, REG_LO(i.rs)), Lwz(SB, REG_LO(i.rt)), <<"xor", SA, SA, SB>>, <<"or", SA, SA, SC>>>>
            \o ZeroMask(SE, SA, SD)
       [] i.cond \in {"LEZ", "GTZ"} ->
            <<Lwz(SC, REG_HI(i.rs)), <<"srawi", SE, SC, Top>>, Lwz(SA, REG_LO(i.rs)), <<"or", SA, SA, SC>>>>
            \o ZeroMask(SD, SA, SD) \o <<<<"or", SE, SE, SD>>>>
       [] i.cond \in {"LTZ", "GEZ"} -> <<Lwz(SC, REG_HI(i.rs)), <<"srawi", SE, SC, Top>>>>
       [] i.cond \in {"FpT", "FpF"} ->
            <<Lwz(SA, FCR31_OFFSET), <<"rlwinm", SB, SA, BYTE, 0, Top - BYTE>>, <<"srawi", SE, SB, Top>>>>)
    \o (IF i.cond \in {"NE", "GTZ", "GEZ", "FpF"} THEN <<Invert(SE)>> ELSE Nothing)

Displacement(i) == Wrap(WORD, 4 + i.imm * 4)

\* x where the mask SE is set and y where SF is, left in x.
Blend(x, y) == <<<<"and", x, x, SE>>, <<"and", y, y, SF>>, <<"or", x, x, y>>>>

BlendPending == <<<<"lbz", SH, CTX_REG, BRANCH_PENDING_OFFSET>>, Li(SA, 1)>> \o Blend(SA, SH)
                \o <<<<"stb", SA, CTX_REG, BRANCH_PENDING_OFFSET>>>>

\* emit_branch_blend()
TrBranch(i) ==
    Condition(i) \o <<Lwz(SG, EXC_THIS_PC_OFFSET)>> \o LoadConst32(SA, Displacement(i))
    \o <<<<"add", SG, SG, SA>>, <<"nor", SF, SE, SE>>, Lwz(SH, NEXT_PC_OFFSET)>>
    \o Blend(SG, SH) \o <<Stw(SG, NEXT_PC_OFFSET)>> \o BlendPending

\* emit_branch_blend_likely()
TrBranchLikely(i) ==
    Condition(i)
    \o <<Lwz(SG, EXC_THIS_PC_OFFSET), <<"addi", SH, SG, 8>>, <<"addi", SA, SG, 12>>>> \o LoadConst32(SB, Displacement(i))
    \o <<<<"add", SG, SG, SB>>, <<"nor", SF, SE, SE>>, Lwz(SB, PC_OFFSET)>>
    \o Blend(SB, SH) \o <<Stw(SB, PC_OFFSET)>> \o Blend(SG, SA) \o <<Stw(SG, NEXT_PC_OFFSET)>> \o BlendPending

-----------------------------------------------------------------------------
(* Multimedia instructions, lane by lane.  mmi_w_off(), mmi_h_off() and      *)
(* mmi_b_off(): where a lane is in a register's slot.                        *)

WordOff(reg, n) == <<REG_LO(reg), REG_HI(reg), REG_LO1(reg), REG_HI1(reg)>>[n + 1]

LaneOff(w, reg, n) ==
    CASE w = WORD -> WordOff(reg, n)
      [] w = HALF -> WordOff(reg, n \div 2) + (IF n % 2 = 0 THEN 2 ELSE 0)
      [] w = BYTE -> WordOff(reg, n \div 4) + (3 - (n % 4))

LaneLoad(w) == CASE w = WORD -> "lwz" [] w = HALF -> "lhz" [] w = BYTE -> "lbz"
LaneStore(w) == CASE w = WORD -> "stw" [] w = HALF -> "sth" [] w = BYTE -> "stb"
GetLane(w, r, reg, n) == <<LaneLoad(w), r, CTX_REG, LaneOff(w, reg, n)>>
PutLane(w, r, reg, n) == <<LaneStore(w), r, CTX_REG, LaneOff(w, reg, n)>>

\* The code for 0, 1, 2 and so on in turn.
ForEach(code) == FlattenSeq([k \in 1 .. Cardinality(DOMAIN code) |-> code[k - 1]])

\* PADD and PSUB for each width; PAND, PXOR, POR and PNOR.
TrLanes(i, op) ==
    ForEach([n \in LaneNumbers(i.w) |->
        <<GetLane(i.w, SA, i.rs, n), GetLane(i.w, SB, i.rt, n),
          IF op = "subf" THEN <<op, SA, SB, SA>> ELSE <<op, SA, SA, SB>>>>
        \o Unless(i.rd, <<PutLane(i.w, SA, i.rd, n)>>)])

\* The offsets of a register's words in memory order.
Slot4(reg) == <<REG_HI(reg), REG_LO(reg), REG_HI1(reg), REG_LO1(reg)>>

TrQuadLogic(i) ==
    LET op == CASE i.op = "PAND" -> "and" [] i.op = "PXOR" -> "xor" [] i.op = "POR" -> "or" [] i.op = "PNOR" -> "nor"
    IN  ForEach([n \in 0 .. 3 |->
            <<Lwz(SA, Slot4(i.rs)[n + 1]), Lwz(SB, Slot4(i.rt)[n + 1]), <<op, SA, SA, SB>>>>
            \o Unless(i.rd, <<Stw(SA, Slot4(i.rd)[n + 1])>>)])

\* A permutation of lanes: src[n] is the <<register, lane>> that lane n of rd
\* gets.  All are read before any is written, through the scratch registers
\* or, for bytes, through the stack.
TrPermute(i, src) ==
    IF i.w # BYTE
    THEN ForEach([n \in LaneNumbers(i.w) |-> <<GetLane(i.w, SA + n, src[n][1], src[n][2])>>])
         \o Unless(i.rd, ForEach([n \in LaneNumbers(i.w) |-> <<PutLane(i.w, SA + n, i.rd, n)>>]))
    ELSE <<<<"addi", 1, 1, -16>>>>
         \o ForEach([n \in LaneNumbers(i.w) |-> <<GetLane(i.w, SA, src[n][1], src[n][2]), <<"stb", SA, 1, n>>>>])
         \o Unless(i.rd, ForEach([n \in LaneNumbers(i.w) |-> <<<<"lbz", SA, 1, n>>, PutLane(i.w, SA, i.rd, n)>>]))
         \o <<<<"addi", 1, 1, 16>>>>

TrPack(i) ==
    LET half == Lanes(i.w) \div 2
    IN  TrPermute(i, [n \in LaneNumbers(i.w) |-> IF n < half THEN <<i.rt, 2 * n>> ELSE <<i.rs, 2 * (n - half)>>])

TrExtend(i, from) == TrPermute(i, [n \in LaneNumbers(i.w) |-> <<IF n % 2 = 0 THEN i.rt ELSE i.rs, from + n \div 2>>])

\* PCPYLD, PCPYUD, PROT3W and PCPYH.
TrCopy(i) ==
    LET Four(offs, to) == <<Lwz(SA, offs[1]), Lwz(SB, offs[2]), Lwz(SC, offs[3]), Lwz(SD, offs[4])>>
                          \o Unless(i.rd, <<Stw(SA, to[1]), Stw(SB, to[2]), Stw(SC, to[3]), Stw(SD, to[4])>>)
    IN  CASE i.op = "PCPYLD" -> Four(<<REG_HI(i.rs), REG_LO(i.rs), REG_HI(i.rt), REG_LO(i.rt)>>,
                                     <<REG_HI1(i.rd), REG_LO1(i.rd), REG_HI(i.rd), REG_LO(i.rd)>>)
          [] i.op = "PCPYUD" -> Four(<<REG_HI1(i.rs), REG_LO1(i.rs), REG_HI1(i.rt), REG_LO1(i.rt)>>, Slot4(i.rd))
          [] i.op = "PROT3W" -> Four(<<WordOff(i.rt, 1), WordOff(i.rt, 2), WordOff(i.rt, 0), WordOff(i.rt, 3)>>,
                                     <<WordOff(i.rd, 0), WordOff(i.rd, 1), WordOff(i.rd, 2), WordOff(i.rd, 3)>>)
          [] i.op = "PCPYH" -> <<GetLane(HALF, SA, i.rt, 0), GetLane(HALF, SB, i.rt, 4)>>
                               \o Unless(i.rd, ForEach([n \in 0 .. 7 |-> <<PutLane(HALF, IF n < 4 THEN SA ELSE SB, i.rd, n)>>]))

\* PSLL, PSRL and PSRA: rotate and mask, or shift with the sign.  The two
\* halfwords of a word are taken apart (B low, C high), shifted and joined.
TrParallelShift(i) ==
    LET k == i.sa % i.w
        word == CASE i.op = "PSLL" -> <<<<"rlwinm", SA, SA, k, 0, Top - k>>>>
                  [] i.op = "PSRL" -> <<<<"rlwinm", SA, SA, (WORD - k) % WORD, k, Top>>>>
                  [] i.op = "PSRA" -> <<<<"srawi", SA, SA, k>>>>
        half(r) == CASE i.op = "PSLL" -> <<<<"rlwinm", r, r, k, HALF, Top>>>>
                     [] i.op = "PSRL" -> <<<<"rlwinm", r, r, (WORD - k) % WORD, k, Top>>>>
                     [] i.op = "PSRA" -> <<<<"rlwinm", r, r, HALF, 0, HALF - 1>>, <<"srawi", r, r, HALF + k>>,
                                           <<"rlwinm", r, r, 0, HALF, Top>>>>
        halves == <<<<"rlwinm", SB, SA, 0, HALF, Top>>, <<"rlwinm", SC, SA, HALF, HALF, Top>>>>
                  \o half(SB) \o half(SC) \o <<<<"rlwinm", SC, SC, HALF, 0, HALF - 1>>, <<"or", SA, SC, SB>>>>
    IN  ForEach([n \in 0 .. 3 |-> <<Lwz(SA, Slot4(i.rt)[n + 1])>> \o (IF i.w = WORD THEN word ELSE halves)
                              \o Unless(i.rd, <<Stw(SA, Slot4(i.rd)[n + 1])>>)])

\* Whole-register and word moves between the registers and HI and LO.
Copy(from, to) == ForEach([n \in 0 .. Len(from) - 1 |-> <<Lwz(SA, from[n + 1]), Stw(SA, to[n + 1])>>])
Words4Of(reg) == <<WordOff(reg, 0), WordOff(reg, 1), WordOff(reg, 2), WordOff(reg, 3)>>
LowWords == <<REG_LO(LO_IDX), REG_LO(HI_IDX), REG_LO1(LO_IDX), REG_LO1(HI_IDX)>>
HighWords == <<REG_HI(LO_IDX), REG_HI(HI_IDX), REG_HI1(LO_IDX), REG_HI1(HI_IDX)>>
AllWords == <<REG_LO(LO_IDX), REG_HI(LO_IDX), REG_LO(HI_IDX), REG_HI(HI_IDX),
              REG_LO1(LO_IDX), REG_HI1(LO_IDX), REG_LO1(HI_IDX), REG_HI1(HI_IDX)>>

Helper(f, args) == Enter \o args \o CallFn(f) \o Leave
Helper3(f, i) == Helper(f, <<Li(SA, i.rs), Li(SB, i.rt), Li(SC, i.rd)>>)

TrQuadMove(i) ==
    CASE i.op = "PMFHI" -> Unless(i.rd, Copy(Slot4(HI_IDX), Slot4(i.rd)))
      [] i.op = "PMFLO" -> Unless(i.rd, Copy(Slot4(LO_IDX), Slot4(i.rd)))
      [] i.op = "PMTHI" -> Copy(Slot4(i.rs), Slot4(HI_IDX))
      [] i.op = "PMTLO" -> Copy(Slot4(i.rs), Slot4(LO_IDX))
      [] i.op = "PMFHL.LW" -> Unless(i.rd, Copy(LowWords, Words4Of(i.rd)))
      [] i.op = "PMFHL.UW" -> Unless(i.rd, Copy(HighWords, Words4Of(i.rd)))
      [] i.op = "PMFHL.LH" -> Unless(i.rd, ForEach([n \in 0 .. 7 |-> <<Lwz(SA, AllWords[n + 1]), PutLane(HALF, SA, i.rd, n)>>]))
      [] i.op = "PMFHL.SLW" -> Helper("pmfhl_slw", <<Li(SA, i.rd)>>)
      [] i.op = "PMFHL.SH" -> Helper("pmfhl_sh", <<Li(SA, i.rd)>>)
      [] i.op = "PMTHL" -> Copy(Words4Of(i.rs), LowWords)

-----------------------------------------------------------------------------
(* COP1 and COP2.  The branches on the condition bit are above.              *)

\* Of the operands A and B: F becomes the lesser and G the greater as signed
\* words, chosen by the masks D and E; C is the mask of two negative operands.
TrMAX(i) ==
    LET Below32(d, x, y) == <<<<"subfc", SH, x, y>>, <<"subfe", d, SH, SH>>>>
        Choose(d, mask) == <<<<"nor", SH, mask, mask>>, <<"and", d, SA, mask>>, <<"and", SH, SB, SH>>, <<"or", d, d, SH>>>>
    IN  <<Lwz(SA, REG_FPR(i.rd)), Lwz(SB, REG_FPR(i.rt)),
          <<"srawi", SF, SA, Top>>, <<"srawi", SG, SB, Top>>, <<"and", SC, SF, SG>>,
          <<"xoris", SF, SA, 2 ^ (HALF - 1)>>, <<"xoris", SG, SB, 2 ^ (HALF - 1)>>>>
        \o Below32(SD, SG, SF) \o Below32(SE, SF, SG) \o Choose(SF, SD) \o Choose(SG, SE)
        \o <<<<"nor", SH, SC, SC>>>>
        \o (IF i.op = "MAX.S" THEN <<<<"and", SF, SF, SC>>, <<"and", SG, SG, SH>>>>
            ELSE <<<<"and", SG, SG, SC>>, <<"and", SF, SF, SH>>>>)
        \o <<<<"or", SF, SF, SG>>, Stw(SF, REG_FPR(i.sa))>>

TrTransfer1(i) ==
    CASE i.op = "MFC1" -> Unless(i.rt, <<Lwz(SA, REG_FPR(i.rd))>> \o StoreSext(SA, SB, i.rt))
      [] i.op = "MTC1" -> <<Lwz(SA, REG_LO(i.rt)), Stw(SA, REG_FPR(i.rd))>>
      [] i.op = "CFC1" -> Unless(i.rt,
            CASE i.rd = 31 -> <<Lwz(SA, FCR31_OFFSET)>> \o StoreSext(SA, SB, i.rt)
              [] i.rd = 0 -> <<Li(SA, FCR0)>> \o StoreFlag(i.rt)
              [] OTHER -> <<Li(SA, 0), Stw(SA, REG_LO(i.rt)), Stw(SA, REG_HI(i.rt))>>)
      [] i.op = "CTC1" -> IF i.rd # 31 THEN Nothing ELSE <<Lwz(SA, REG_LO(i.rt)), Stw(SA, FCR31_OFFSET)>>

TrFloatBits(i) ==
    <<Lwz(SA, REG_FPR(i.rd))>>
    \o (CASE i.op = "MOV.S" -> Nothing
          [] i.op = "ABS.S" -> <<<<"rlwinm", SA, SA, 0, 1, Top>>>>
          [] i.op = "NEG.S" -> <<<<"xoris", SA, SA, 2 ^ (HALF - 1)>>>>)
    \o <<Stw(SA, REG_FPR(i.sa))>>

\* The lanes of a vector register and the words of a general one they move to.
VfWords(reg) == [n \in 1 .. 4 |-> VU0_VF_OFF(reg, n - 1)]
Move4(from, to) == ForEach([n \in 0 .. 3 |-> <<Lwz(SA + n, from[n + 1]), Stw(SA + n, to[n + 1])>>])

TrTransfer2(i) ==
    CASE i.op \in {"MFC2", "CFC2"} ->
            Unless(i.rt, (IF i.rd = 0 THEN LoadConst32(SA, 0) ELSE <<Lwz(SA, COP2_CTRL_OFF(i.rd))>>) \o StoreSext(SA, SB, i.rt))
      [] i.op \in {"MTC2", "CTC2"} -> Unless(i.rd, <<Lwz(SA, REG_LO(i.rt)), Stw(SA, COP2_CTRL_OFF(i.rd))>>)
      [] i.op = "QMFC2" -> Unless(i.rt, Move4(VfWords(i.rd), Words4Of(i.rt)))
      [] i.op = "QMTC2" -> Unless(i.rd, Move4(Words4Of(i.rt), VfWords(i.rd)))

TrVIADD(i) ==
    LET low == <<"rlwinm", SC, SC, 0, HALF, Top>>
    IN  <<Lwz(SA, COP2_CTRL_OFF(i.rd)), Lwz(SB, COP2_CTRL_OFF(i.rt))>>
        \o (CASE i.op = "VIADD" -> <<<<"add", SC, SA, SB>>, low>>
              [] i.op = "VISUB" -> <<<<"subfc", SC, SB, SA>>, low>>
              [] i.op = "VIAND" -> <<<<"and", SC, SA, SB>>>>
              [] i.op = "VIOR" -> <<<<"or", SC, SA, SB>>>>)
        \o Unless(i.sa, <<Stw(SC, COP2_CTRL_OFF(i.sa))>>)

TrVIADDI(i) ==
    Unless(i.rt, <<Lwz(SA, COP2_CTRL_OFF(i.rd)), <<"addi", SA, SA, Signed(HALF, Uimm(i))>>,
                   <<"rlwinm", SA, SA, 0, HALF, Top>>, Stw(SA, COP2_CTRL_OFF(i.rt))>>)

\* VABS and VMOVE go lane by lane; VMR32 reads all lanes before it writes one.
InLanes(i, code) == ForEach([n \in 0 .. 3 |-> IF InMask(i.imm, n) THEN code[n] ELSE Nothing])

TrVABS(i) ==
    Unless(i.rt, InLanes(i, [n \in 0 .. 3 |->
        <<Lwz(SA, VU0_VF_OFF(i.rd, n)), <<"rlwinm", SA, SA, 0, 1, Top>>, Stw(SA, VU0_VF_OFF(i.rt, n))>>]))

TrVMOVE(i) ==
    Unless(i.rt, InLanes(i, [n \in 0 .. 3 |-> <<Lwz(SA, VU0_VF_OFF(i.rd, n)), Stw(SA, VU0_VF_OFF(i.rt, n))>>]))

TrVMR32(i) ==
    Unless(i.rt, ForEach([n \in 0 .. 3 |-> <<Lwz(SA + n, VU0_VF_OFF(i.rd, n))>>])
                 \o InLanes(i, [n \in 0 .. 3 |-> <<Stw(SA + ((n + 1) % 4), VU0_VF_OFF(i.rt, n))>>]))

-----------------------------------------------------------------------------
(* The dispatch, which ends in -1 (Untranslated) for what no case takes.     *)

Untranslated == <<"unsupported">>

Translate(i) ==
    CASE i.op = "ADDIU" -> TrADDIU(i)
      [] i.op \in {"ANDI", "ORI", "XORI"} -> TrLogicImm(i)
      [] i.op = "LUI" -> TrLUI(i)
      [] i.op \in {"AND", "OR", "XOR", "NOR"} -> TrLogic(i)
      [] i.op \in {"ADDU", "SUBU"} -> TrADDU(i)
      [] i.op \in {"DADDU", "DSUBU"} -> TrDADDU(i)
      [] i.op \in {"SLT", "SLTU"} -> TrSLT(i)
      [] i.op \in {"SLTI", "SLTIU"} -> TrSLTI(i)
      [] i.op \in {"SLL", "SRL", "SRA"} -> TrShift(i)
      [] i.op \in {"DSLL", "DSRL", "DSRA"} -> TrDShift(i)
      [] i.op \in {"SLLV", "SRLV", "SRAV"} -> TrShiftV(i)
      [] i.op \in {"MOVZ", "MOVN"} -> TrMOVZ(i)
      [] i.op \in {"MFHI", "MFLO", "MTHI", "MTLO", "MFHI1", "MFLO1", "MTHI1", "MTLO1"} -> TrHiLoMove(i)
      [] i.op \in {"MULT", "MULTU"} -> TrMULT(i)
      [] i.op \in {"DIV", "DIVU"} -> TrDIV(i)
      [] i.op \in {"LB", "LBU", "LH", "LHU", "LW", "LWU", "LD"} -> TrLoad(i)
      [] i.op \in {"SB", "SH", "SW", "SD"} -> TrStore(i)
      [] i.op \in {"LWL", "LWR"} -> TrLWL(i)
      [] i.op \in {"SWL", "SWR"} -> TrSWL(i)
      [] i.op = "LQ" -> TrLQ(i)
      [] i.op = "SQ" -> TrSQ(i)
      [] i.op \in {"J", "JAL", "JR", "JALR"} -> TrJump(i)
      [] i.op = "B" -> TrBranch(i)
      [] i.op = "BL" -> TrBranchLikely(i)
      [] i.op = "PADD" -> TrLanes(i, "add")
      [] i.op = "PSUB" -> TrLanes(i, "subf")
      [] i.op = "PPAC" -> TrPack(i)
      [] i.op = "PEXTL" -> TrExtend(i, 0)
      [] i.op = "PEXTU" -> TrExtend(i, Lanes(i.w) \div 2)
      [] i.op \in {"PAND", "PXOR", "POR", "PNOR"} -> TrQuadLogic(i)
      [] i.op \in {"PCPYLD", "PCPYUD", "PROT3W", "PCPYH"} -> TrCopy(i)
      [] i.op \in {"PSLL", "PSRL", "PSRA"} -> TrParallelShift(i)
      [] i.op \in {"PMFHI", "PMFLO", "PMTHI", "PMTLO", "PMFHL.LW", "PMFHL.UW", "PMFHL.LH", "PMFHL.SLW", "PMFHL.SH", "PMTHL"} ->
            TrQuadMove(i)
      [] i.op = "PMULTW" -> Helper3("pmultw", i)
      [] i.op = "PDIVW" -> Helper3("pdivw", i)
      [] i.op = "PMULTH" -> Helper3("pmulth", i)
      [] i.op = "PDIVBW" -> Helper3("pdivbw", i)
      [] i.op \in Cop1Transfers -> TrTransfer1(i)
      [] i.op \in {"ABS.S", "MOV.S", "NEG.S"} -> TrFloatBits(i)
      [] i.op \in {"MAX.S", "MIN.S"} -> TrMAX(i)
      [] i.op \in Cop2Transfers -> TrTransfer2(i)
      [] i.op \in ViAluOps -> TrVIADD(i)
      [] i.op = "VIADDI" -> TrVIADDI(i)
      [] i.op = "VABS" -> TrVABS(i)
      [] i.op = "VMOVE" -> TrVMOVE(i)
      [] i.op = "VMR32" -> TrVMR32(i)
      [] OTHER -> Untranslated

\* ppc_dynarec_init() sizes the buffer of one block: 128 words and the blr.
BlockWords == 128
=============================================================================
