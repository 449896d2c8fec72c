----------------------------- MODULE EEInterp -----------------------------
(* ee_step()'s integer, load/store, branch and multimedia instructions, and *)
(* those of COP1 and COP2 that do no floating-point arithmetic: the ones    *)
(* the recompiler translates.  An instruction is a record of its mnemonic   *)
(* and fields; w is the lane width of a multimedia instruction, imm the     *)
(* sign-extended immediate (the 26-bit index of a jump, the destination     *)
(* mask of a vector move).                                                  *)
EXTENDS EEState

Gpr(st, r) == st.reg[r].ud0
SetQuad(st, r, q) == IF r = 0 THEN st ELSE [st EXCEPT !.reg[r] = q]
SetGpr(st, r, v) == SetQuad(st, r, [st.reg[r] EXCEPT !.ud0 = v])

Uimm(i) == Wrap(HALF, i.imm)

-----------------------------------------------------------------------------
(* Results written to one register: a is GPR(rs), b GPR(rt) or the          *)
(* extended immediate.                                                      *)

Alu3(op, a, b, sa) ==
    LET a32 == Low(a)  b32 == Low(b)  s == a % WORD
        SA(v) == Signed(DOUBLE, v)
        Bool(c) == IF c THEN 1 ELSE 0
    IN  CASE op = "ADDU"  -> Sext32(Wrap(WORD, a32 + b32))
          [] op = "SUBU"  -> Sext32(Wrap(WORD, a32 - b32))
          [] op = "DADDU" -> Wrap(DOUBLE, a + b)
          [] op = "DSUBU" -> Wrap(DOUBLE, a - b)
          [] op = "AND"   -> And64(a, b)
          [] op = "OR"    -> Or64(a, b)
          [] op = "XOR"   -> Xor64(a, b)
          [] op = "NOR"   -> Complement(DOUBLE, Or64(a, b))
          [] op = "SLT"   -> Bool(SA(a) < SA(b))
          [] op = "SLTU"  -> Bool(a < b)
          [] op = "SLL"   -> Sext32(ShiftLeft(WORD, b32, sa))
          [] op = "SRL"   -> Sext32(ShiftRight(b32, sa))
          [] op = "SRA"   -> Sext32(ShiftArith(WORD, b32, sa))
          [] op = "SLLV"  -> Sext32(ShiftLeft(WORD, b32, s))
          [] op = "SRLV"  -> Sext32(ShiftRight(b32, s))
          [] op = "SRAV"  -> Sext32(ShiftArith(WORD, b32, s))
          [] op = "DSLL"  -> ShiftLeft(DOUBLE, b, sa)
          [] op = "DSRL"  -> ShiftRight(b, sa)
          [] op = "DSRA"  -> ShiftArith(DOUBLE, b, sa)
          [] op = "DSLL32" -> ShiftLeft(DOUBLE, b, sa + WORD)
          [] op = "DSRL32" -> ShiftRight(b, sa + WORD)
          [] op = "DSRA32" -> ShiftArith(DOUBLE, b, sa + WORD)

Alu3Ops == {"ADDU", "SUBU", "DADDU", "DSUBU", "AND", "OR", "XOR", "NOR", "SLT", "SLTU",
            "SLL", "SRL", "SRA", "SLLV", "SRLV", "SRAV", "DSLL", "DSRL", "DSRA",
            "DSLL32", "DSRL32", "DSRA32"}

\* The immediate forms: the operation, and whether the immediate is signed.
Imm(op) ==
    CASE op = "ADDIU" -> <<"ADDU", TRUE>>  [] op = "SLTI" -> <<"SLT", TRUE>>
      [] op = "SLTIU" -> <<"SLTU", TRUE>>  [] op = "ANDI" -> <<"AND", FALSE>>
      [] op = "ORI"   -> <<"OR", FALSE>>   [] op = "XORI" -> <<"XOR", FALSE>>

ImmOps == {"ADDIU", "SLTI", "SLTIU", "ANDI", "ORI", "XORI"}

-----------------------------------------------------------------------------
(* HI and LO.  A product or a quotient goes to both, each half sign-extended. *)

\* MULT1 and DIV1 use the upper halves of HI and LO.
SetHiLo(st, i, hi, lo) ==
    IF i.op \in {"MULT1", "MULTU1", "DIV1", "DIVU1"}
    THEN [st EXCEPT !.reg[HI_IDX].ud1 = Sext32(hi), !.reg[LO_IDX].ud1 = Sext32(lo)]
    ELSE [st EXCEPT !.reg[HI_IDX].ud0 = Sext32(hi), !.reg[LO_IDX].ud0 = Sext32(lo)]

Mult(st, i, product) ==
    SetGpr(SetHiLo(st, i, High(product), Low(product)), i.rd, Sext32(Low(product)))

\* The build divides with divw, whose quotient is some word when the true one
\* does not fit; the remainder is computed from the quotient.
CONSTANT Junk
ASSUME JunkAssumption == Junk \in Words

DivW(a, b) ==
    LET sa == Signed(WORD, a)  sb == Signed(WORD, b)
    IN  IF b = 0 \/ (a = 2 ^ (WORD - 1) /\ sb = -1) THEN Junk
        ELSE Wrap(WORD, Quotient(sa, sb))
DivWU(a, b) == IF b = 0 THEN Junk ELSE a \div b

Div(st, i) ==
    LET a == Low(Gpr(st, i.rs))  b == Low(Gpr(st, i.rt))
        q == IF i.op \in {"DIV", "DIV1"} THEN DivW(a, b) ELSE DivWU(a, b)
    IN  IF b = 0 THEN st ELSE SetHiLo(st, i, Wrap(WORD, a - q * b), q)

-----------------------------------------------------------------------------
(* Jumps and branches; st.pc and st.next_pc are already past the branch.    *)

BranchTo(st, target) == [st EXCEPT !.next_pc = target, !.branch_pending = 1]
Link(st, r) == SetGpr(st, r, Wrap(WORD, st.exc_this_pc + 8))
Relative(st, i) == Wrap(WORD, st.exc_this_pc + 4 + i.imm * 4)
Absolute(st, i) == (st.exc_this_pc \div 2 ^ (WORD - 4)) * 2 ^ (WORD - 4) + i.imm * 4

\* A likely branch not taken skips the delay slot.
Annul(st) == [st EXCEPT !.pc = Wrap(WORD, @ + 4), !.next_pc = Wrap(WORD, st.pc + 8)]

Taken(cond, a, b) ==
    CASE cond = "EQ" -> a = b              [] cond = "NE" -> a # b
      [] cond = "LEZ" -> Signed(DOUBLE, a) <= 0  [] cond = "GTZ" -> Signed(DOUBLE, a) > 0
      [] cond = "LTZ" -> Signed(DOUBLE, a) < 0   [] cond = "GEZ" -> Signed(DOUBLE, a) >= 0

\* BC1F and BC1T test the condition bit of fcr31, bit 23.
FpCondition(st) == (st.fcr31 \div 2 ^ (WORD - 1 - BYTE)) % 2 = 1

BranchTaken(st, i) ==
    CASE i.cond = "FpT" -> FpCondition(st)
      [] i.cond = "FpF" -> ~FpCondition(st)
      [] OTHER -> Taken(i.cond, Gpr(st, i.rs), Gpr(st, i.rt))

Branch(st, i) ==
    IF BranchTaken(st, i) THEN BranchTo(st, Relative(st, i))
    ELSE [st EXCEPT !.branch_pending = 1]

BranchLikely(st, i) ==
    IF BranchTaken(st, i) THEN BranchTo(st, Relative(st, i)) ELSE Annul(st)

Jump(st, i) ==
    CASE i.op = "J" -> BranchTo(st, Absolute(st, i))
      [] i.op = "JAL" -> BranchTo(Link(st, 31), Absolute(st, i))
      [] i.op = "JR" -> BranchTo(st, Low(Gpr(st, i.rs)))
      [] i.op = "JALR" -> BranchTo(Link(st, i.rd), Low(Gpr(st, i.rs)))

-----------------------------------------------------------------------------
(* Loads and stores.  A load that misses still writes its register: the     *)
(* access read zero.                                                        *)

Bytes(op) == CASE op \in {"LB", "LBU", "SB"} -> 1  [] op \in {"LH", "LHU", "SH"} -> 2
               [] op \in {"LW", "LWU", "SW"} -> 4  [] op \in {"LD", "SD"} -> 8

Addr(st, i) == Wrap(WORD, Low(Gpr(st, i.rs)) + i.imm)
Aligned(n, addr) == addr - (addr % n)

Load(st, i) ==
    LET n == Bytes(i.op)
        m == MemRead(st, Addr(st, i), n)
    IN  SetGpr(m.st, i.rt, IF i.op \in {"LB", "LH", "LW"} THEN Sext(n * BYTE, DOUBLE, m.v) ELSE m.v)

Store(st, i) ==
    LET n == Bytes(i.op) IN MemWrite(st, Addr(st, i), n, Wrap(n * BYTE, Gpr(st, i.rt)))

\* LWL, LWR, SWL and SWR move the bytes of a word up to, or from, the address.
LoadPart(st, i) ==
    LET addr == Addr(st, i)  k == addr % 4
        m == MemRead(st, Aligned(4, addr), 4)
        old == Low(Gpr(st, i.rt))
        up == BYTE * (3 - k)  down == BYTE * k
        left == Wrap(up, old) + ShiftLeft(WORD, m.v, up)
        right == (old - Wrap(WORD - down, old)) + ShiftRight(m.v, down)
    IN  SetGpr(m.st, i.rt, CASE i.op = "LWL" -> Sext32(left)
                             [] i.op = "LWR" /\ k = 0 -> Sext32(right)
                             [] i.op = "LWR" /\ k # 0 -> Pair(High(Gpr(st, i.rt)), right))

StorePart(st, i) ==
    LET addr == Addr(st, i)  k == addr % 4
        m == MemRead(st, Aligned(4, addr), 4)
        new == Low(Gpr(st, i.rt))
        kept == BYTE * (k + 1)
    IN  MemWrite(m.st, Aligned(4, addr), 4,
            IF i.op = "SWL" THEN ShiftRight(new, BYTE * (3 - k)) + (m.v - Wrap(kept, m.v))
            ELSE ShiftLeft(WORD, new, BYTE * k) + Wrap(BYTE * k, m.v))

LoadQuad(st, i) ==
    LET addr == Aligned(16, Addr(st, i))
        a == MemRead(st, addr, 8)
        b == MemRead(a.st, addr + 8, 8)
    IN  IF i.rt = 0 THEN st ELSE SetQuad(b.st, i.rt, [ud0 |-> a.v, ud1 |-> b.v])

StoreQuad(st, i) ==
    LET addr == Aligned(16, Addr(st, i))
    IN  MemWrite(MemWrite(st, addr, 8, st.reg[i.rt].ud0), addr + 8, 8, st.reg[i.rt].ud1)

-----------------------------------------------------------------------------
(* Multimedia instructions: s and t are the quadwords of rs and rt.         *)

Lanes(w) == 2 * PerDouble(w)

MmiQuad(st, i) ==
    LET s == st.reg[i.rs]  t == st.reg[i.rt]
        hi == st.reg[HI_IDX]  lo == st.reg[LO_IDX]
        w == i.w
        half == Lanes(w) \div 2
        S(n) == Lane(s, w, n)  T(n) == Lane(t, w, n)
        Each(F(_, _)) == [ud0 |-> F(s.ud0, t.ud0), ud1 |-> F(s.ud1, t.ud1)]
        Interleave(from) == FromLanes(w, [n \in LaneNumbers(w) |-> IF n % 2 = 0 THEN T(from + n \div 2) ELSE S(from + n \div 2)])
        hs == i.sa % w   \* a halfword shift takes the low bits of sa
        Clamp(n, v) == CASE v > 2 ^ (n - 1) - 1 -> 2 ^ (n - 1) - 1
                         [] v < -(2 ^ (n - 1)) -> 2 ^ (n - 1)
                         [] OTHER -> Wrap(n, v)
        HiLo(n) == Lane(IF (n \div 2) % 2 = 0 THEN lo ELSE hi, WORD, 2 * (n \div 4) + (n % 2))
        Acc(h, l) == Signed(DOUBLE, Pair(Low(h), Low(l)))
        Slw(h, l) == CASE Acc(h, l) >= 2 ^ (WORD - 1) - 1 -> 2 ^ (WORD - 1) - 1
                       [] Acc(h, l) <= -(2 ^ (WORD - 1)) -> Sext32(2 ^ (WORD - 1))
                       [] OTHER -> Sext32(Low(l))
        rot3 == <<1, 2, 0, 3>>
    IN  CASE i.op = "PADD" -> FromLanes(w, [n \in LaneNumbers(w) |-> Wrap(w, S(n) + T(n))])
          [] i.op = "PSUB" -> FromLanes(w, [n \in LaneNumbers(w) |-> Wrap(w, S(n) - T(n))])
          [] i.op = "PPAC" -> FromLanes(w, [n \in LaneNumbers(w) |-> IF n < half THEN T(2 * n) ELSE S(2 * (n - half))])
          [] i.op = "PEXTL" -> Interleave(0)
          [] i.op = "PEXTU" -> Interleave(half)
          [] i.op = "PAND" -> Each(And64)
          [] i.op = "PXOR" -> Each(Xor64)
          [] i.op = "POR" -> Each(Or64)
          [] i.op = "PNOR" -> Each(LAMBDA a, b : Complement(DOUBLE, Or64(a, b)))
          [] i.op = "PCPYLD" -> [ud0 |-> t.ud0, ud1 |-> s.ud0]
          [] i.op = "PCPYUD" -> [ud0 |-> s.ud1, ud1 |-> t.ud1]
          [] i.op = "PCPYH" -> FromLanes(HALF, [n \in LaneNumbers(HALF) |-> Lane(t, HALF, 4 * (n \div 4))])
          [] i.op = "PROT3W" -> FromLanes(WORD, [n \in LaneNumbers(WORD) |-> Lane(t, WORD, rot3[n + 1])])
          [] i.op = "PSLL" -> FromLanes(w, [n \in LaneNumbers(w) |-> ShiftLeft(w, T(n), hs)])
          [] i.op = "PSRL" -> FromLanes(w, [n \in LaneNumbers(w) |-> ShiftRight(T(n), hs)])
          [] i.op = "PSRA" -> FromLanes(w, [n \in LaneNumbers(w) |-> ShiftArith(w, T(n), hs)])
          [] i.op = "PMFHI" -> hi
          [] i.op = "PMFLO" -> lo
          [] i.op = "PMFHL.LW" -> FromLanes(WORD, [n \in LaneNumbers(WORD) |-> HiLo(2 * n)])
          [] i.op = "PMFHL.UW" -> FromLanes(WORD, [n \in LaneNumbers(WORD) |-> HiLo(2 * n + 1)])
          [] i.op = "PMFHL.LH" -> FromLanes(HALF, [n \in LaneNumbers(HALF) |-> Wrap(HALF, HiLo(n))])
          [] i.op = "PMFHL.SH" -> FromLanes(HALF, [n \in LaneNumbers(HALF) |-> Clamp(HALF, Signed(WORD, HiLo(n)))])
          [] i.op = "PMFHL.SLW" -> [ud0 |-> Slw(hi.ud0, lo.ud0), ud1 |-> Slw(hi.ud1, lo.ud1)]

MmiQuadOps == {"PADD", "PSUB", "PPAC", "PEXTL", "PEXTU", "PAND", "PXOR", "POR", "PNOR", "PCPYLD", "PCPYUD",
               "PCPYH", "PROT3W", "PSLL", "PSRL", "PSRA", "PMFHI", "PMFLO",
               "PMFHL.LW", "PMFHL.UW", "PMFHL.LH", "PMFHL.SH", "PMFHL.SLW"}

\* Multimedia instructions that write HI and LO: f gives the words of each.
SetHiLoQuads(st, hi, lo) == [st EXCEPT !.reg[HI_IDX] = hi, !.reg[LO_IDX] = lo]

\* Quotient and remainder, as PDIVW and PDIVBW define them for every divisor.
SafeDiv(a, b) ==
    CASE a = -(2 ^ (WORD - 1)) /\ b = -1 -> [q |-> a, r |-> 0]
      [] b = 0 -> [q |-> IF a < 0 THEN 1 ELSE -1, r |-> a]
      [] OTHER -> [q |-> Quotient(a, b), r |-> Remainder(a, b)]

PMULTW(st, rs, rt, rd) ==
    LET t(n) == Wrap(DOUBLE, Signed(WORD, Lane(st.reg[rs], WORD, n)) * Signed(WORD, Lane(st.reg[rt], WORD, n)))
    IN  SetQuad(SetHiLoQuads(st, [ud0 |-> Sext32(High(t(0))), ud1 |-> Sext32(High(t(2)))],
                                 [ud0 |-> Sext32(Low(t(0))), ud1 |-> Sext32(Low(t(2)))]),
                rd, [ud0 |-> t(0), ud1 |-> t(2)])

PMULTH(st, rs, rt, rd) ==
    LET r(n) == Wrap(WORD, Signed(HALF, Lane(st.reg[rs], HALF, n)) * Signed(HALF, Lane(st.reg[rt], HALF, n)))
        Words4(a, b, c, d) == [ud0 |-> Pair(r(b), r(a)), ud1 |-> Pair(r(d), r(c))]
    IN  SetQuad(SetHiLoQuads(st, Words4(2, 3, 6, 7), Words4(0, 1, 4, 5)), rd, Words4(0, 2, 4, 6))

PDIVW(st, rs, rt) ==
    LET d(n) == SafeDiv(Signed(WORD, Lane(st.reg[rs], WORD, n)), Signed(WORD, Lane(st.reg[rt], WORD, n)))
        X(v) == Wrap(DOUBLE, v)
    IN  SetHiLoQuads(st, [ud0 |-> X(d(0).r), ud1 |-> X(d(2).r)], [ud0 |-> X(d(0).q), ud1 |-> X(d(2).q)])

PDIVBW(st, rs, rt) ==
    LET d(n) == SafeDiv(Signed(WORD, Lane(st.reg[rs], WORD, n)), Signed(HALF, Lane(st.reg[rt], HALF, 0)))
    IN  SetHiLoQuads(st, FromLanes(WORD, [n \in LaneNumbers(WORD) |-> Wrap(WORD, d(n).r)]),
                         FromLanes(WORD, [n \in LaneNumbers(WORD) |-> Wrap(WORD, d(n).q)]))

PMTHL(st, rs) ==
    LET Put(q, n) == [ud0 |-> Pair(High(q.ud0), Lane(st.reg[rs], WORD, n)),
                      ud1 |-> Pair(High(q.ud1), Lane(st.reg[rs], WORD, n + 2))]
    IN  SetHiLoQuads(st, Put(st.reg[HI_IDX], 1), Put(st.reg[LO_IDX], 0))

HiLoMove(st, i) ==
    LET hi == st.reg[HI_IDX]  lo == st.reg[LO_IDX]  a == Gpr(st, i.rs)
    IN  CASE i.op = "MFHI" -> SetGpr(st, i.rd, hi.ud0)
          [] i.op = "MFLO" -> SetGpr(st, i.rd, lo.ud0)
          [] i.op = "MFHI1" -> SetGpr(st, i.rd, hi.ud1)
          [] i.op = "MFLO1" -> SetGpr(st, i.rd, lo.ud1)
          [] i.op = "MTHI" -> [st EXCEPT !.reg[HI_IDX].ud0 = a]
          [] i.op = "MTLO" -> [st EXCEPT !.reg[LO_IDX].ud0 = a]
          [] i.op = "MTHI1" -> [st EXCEPT !.reg[HI_IDX].ud1 = a]
          [] i.op = "MTLO1" -> [st EXCEPT !.reg[LO_IDX].ud1 = a]
          [] i.op = "PMTHI" -> [st EXCEPT !.reg[HI_IDX] = st.reg[i.rs]]
          [] i.op = "PMTLO" -> [st EXCEPT !.reg[LO_IDX] = st.reg[i.rs]]

-----------------------------------------------------------------------------
(* COP1: moves and the operations on the bits of a float.  fs is rd, ft is  *)
(* rt and fd is sa.                                                         *)

SignBit == 2 ^ (WORD - 1)
FpOne == 2 ^ (WORD - 2) - 2 ^ (WORD - 1 - BYTE)   \* 1.0, 0x3F800000
FCR0 == (23 * 2 ^ HALF) \div 128                   \* 0x2E00

\* fp_max() and fp_min(): floats of the same sign compare as their bits do.
FpLeast(a, b) == IF Signed(WORD, a) < Signed(WORD, b) THEN a ELSE b
FpMost(a, b) == IF Signed(WORD, a) > Signed(WORD, b) THEN a ELSE b
BothNegative(a, b) == a >= SignBit /\ b >= SignBit
FpMax(a, b) == IF BothNegative(a, b) THEN FpLeast(a, b) ELSE FpMost(a, b)
FpMin(a, b) == IF BothNegative(a, b) THEN FpMost(a, b) ELSE FpLeast(a, b)

Cop1Transfer(st, i) ==
    LET t == Low(Gpr(st, i.rt))
    IN  CASE i.op = "MFC1" -> SetGpr(st, i.rt, Sext32(st.fpr[i.rd]))
          [] i.op = "CFC1" -> SetGpr(st, i.rt, CASE i.rd = 31 -> Sext32(st.fcr31) [] i.rd = 0 -> FCR0 [] OTHER -> 0)
          [] i.op = "MTC1" -> [st EXCEPT !.fpr[i.rd] = t]
          [] i.op = "CTC1" -> IF i.rd = 31 THEN [st EXCEPT !.fcr31 = t] ELSE st

FloatBits(op, fs, ft) ==
    CASE op = "ABS.S" -> Wrap(WORD - 1, fs)
      [] op = "MOV.S" -> fs
      [] op = "NEG.S" -> XorW(fs, SignBit)
      [] op = "MAX.S" -> FpMax(fs, ft)
      [] op = "MIN.S" -> FpMin(fs, ft)

Cop1Transfers == {"MFC1", "CFC1", "MTC1", "CTC1"}
FloatBitOps == {"ABS.S", "MOV.S", "NEG.S", "MAX.S", "MIN.S"}

-----------------------------------------------------------------------------
(* COP2: transfers, the integer registers and the vector moves.  VI0 reads  *)
(* as zero and VF00 as (0, 0, 0, 1.0); writes to them are discarded.        *)

VF00 == [l \in 0 .. 3 |-> IF l = 3 THEN FpOne ELSE 0]
Vi(st, r) == IF r = 0 THEN 0 ELSE st.cop2_ctrl[r]
Vf(st, r) == IF r = 0 THEN VF00 ELSE st.vu0_vf[r]
SetVi(st, r, v) == IF r = 0 THEN st ELSE [st EXCEPT !.cop2_ctrl[r] = v]

\* Lane 0 is x, the most significant bit of the destination mask.
InMask(destmask, l) == (destmask \div 2 ^ (3 - l)) % 2 = 1
SetVf(st, r, destmask, v) ==
    IF r = 0 THEN st
    ELSE [st EXCEPT !.vu0_vf[r] = [l \in 0 .. 3 |-> IF InMask(destmask, l) THEN v[l] ELSE @[l]]]

Cop2Transfer(st, i) ==
    LET v == Vf(st, i.rd)
    IN  CASE i.op \in {"MFC2", "CFC2"} -> SetGpr(st, i.rt, Sext32(Vi(st, i.rd)))
          [] i.op \in {"MTC2", "CTC2"} -> SetVi(st, i.rd, Low(Gpr(st, i.rt)))
          [] i.op = "QMFC2" -> SetQuad(st, i.rt, [ud0 |-> Pair(v[1], v[0]), ud1 |-> Pair(v[3], v[2])])
          [] i.op = "QMTC2" -> SetVf(st, i.rd, 15, [l \in 0 .. 3 |-> Lane(st.reg[i.rt], WORD, l)])

ViAlu(op, a, b) ==
    CASE op = "VIADD" -> Wrap(HALF, a + b)
      [] op = "VISUB" -> Wrap(HALF, a - b)
      [] op = "VIAND" -> AndW(a, b)
      [] op = "VIOR" -> OrW(a, b)

VIADDI(st, i) == SetVi(st, i.rt, Wrap(HALF, Vi(st, i.rd) + Uimm(i)))

\* What VABS, VMOVE and VMR32 make of a vector.
VectorMove(op, v) ==
    CASE op = "VABS" -> [l \in 0 .. 3 |-> Wrap(WORD - 1, v[l])]
      [] op = "VMOVE" -> v
      [] op = "VMR32" -> [l \in 0 .. 3 |-> v[(l + 1) % 4]]

Cop2Transfers == {"MFC2", "CFC2", "MTC2", "CTC2", "QMFC2", "QMTC2"}
ViAluOps == {"VIADD", "VISUB", "VIAND", "VIOR"}
VectorMoves == {"VABS", "VMOVE", "VMR32"}

-----------------------------------------------------------------------------
(* The switch of ee_step().                                                 *)

Interpret(st, i) ==
    LET a == Gpr(st, i.rs)  b == Gpr(st, i.rt)
    IN  CASE i.op \in Alu3Ops -> SetGpr(st, i.rd, Alu3(i.op, a, b, i.sa))
          [] i.op \in ImmOps -> LET k == Imm(i.op)
                                IN  SetGpr(st, i.rt, Alu3(k[1], a, IF k[2] THEN Wrap(DOUBLE, i.imm) ELSE Uimm(i), 0))
          [] i.op = "LUI" -> SetGpr(st, i.rt, Sext32(Uimm(i) * 2 ^ HALF))
          [] i.op = "MOVZ" -> IF b = 0 THEN SetGpr(st, i.rd, a) ELSE st
          [] i.op = "MOVN" -> IF b # 0 THEN SetGpr(st, i.rd, a) ELSE st
          [] i.op \in {"MULT", "MULT1"} -> Mult(st, i, Wrap(DOUBLE, Signed(WORD, Low(a)) * Signed(WORD, Low(b))))
          [] i.op \in {"MULTU", "MULTU1"} -> Mult(st, i, Low(a) * Low(b))
          [] i.op \in {"DIV", "DIV1", "DIVU", "DIVU1"} -> Div(st, i)
          [] i.op \in {"MFHI", "MFLO", "MFHI1", "MFLO1", "MTHI", "MTLO", "MTHI1", "MTLO1", "PMTHI", "PMTLO"} ->
                HiLoMove(st, i)
          [] i.op \in {"J", "JAL", "JR", "JALR"} -> Jump(st, i)
          [] i.op = "B" -> Branch(st, i)
          [] i.op = "BL" -> BranchLikely(st, i)
          [] i.op \in {"LB", "LBU", "LH", "LHU", "LW", "LWU", "LD"} -> Load(st, i)
          [] i.op \in {"SB", "SH", "SW", "SD"} -> Store(st, i)
          [] i.op \in {"LWL", "LWR"} -> LoadPart(st, i)
          [] i.op \in {"SWL", "SWR"} -> StorePart(st, i)
          [] i.op = "LQ" -> LoadQuad(st, i)
          [] i.op = "SQ" -> StoreQuad(st, i)
          [] i.op \in MmiQuadOps -> SetQuad(st, i.rd, MmiQuad(st, i))
          [] i.op = "PMULTW" -> PMULTW(st, i.rs, i.rt, i.rd)
          [] i.op = "PMULTH" -> PMULTH(st, i.rs, i.rt, i.rd)
          [] i.op = "PDIVW" -> PDIVW(st, i.rs, i.rt)
          [] i.op = "PDIVBW" -> PDIVBW(st, i.rs, i.rt)
          [] i.op = "PMTHL" -> PMTHL(st, i.rs)
          [] i.op \in Cop1Transfers -> Cop1Transfer(st, i)
          [] i.op \in FloatBitOps -> [st EXCEPT !.fpr[i.sa] = FloatBits(i.op, st.fpr[i.rd], st.fpr[i.rt])]
          [] i.op \in Cop2Transfers -> Cop2Transfer(st, i)
          [] i.op \in ViAluOps -> SetVi(st, i.sa, ViAlu(i.op, Vi(st, i.rd), Vi(st, i.rt)))
          [] i.op = "VIADDI" -> VIADDI(st, i)
          [] i.op \in VectorMoves -> SetVf(st, i.rt, i.imm, VectorMove(i.op, Vf(st, i.rd)))
=============================================================================
