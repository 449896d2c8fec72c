-------------------------------- MODULE PPC --------------------------------
(* The PowerPC a translated block runs on, for the instructions the          *)
(* recompiler emits.  An instruction is a tuple <<mnemonic, destination,     *)
(* operands>>.  Registers hold words, except that r3, r14, r15 and the link  *)
(* register may hold values a block can only move: the address of the EE     *)
(* context and what the caller left there.                                   *)
EXTENDS EEInterp, Sequences

CtxPtr == -1     \* in r3 on entry: the address of gpr[0] in ee_state_t
CallerR14 == -2
CallerR15 == -3
CallerLR == -4
BlockLR == -5    \* set by a call, the address after it
FrameTop == 40   \* r1 on entry, above the deepest frame

Machine(st) ==
    [r |-> [k \in 0 .. 15 |-> CASE k = 1 -> FrameTop [] k = 3 -> CtxPtr
                                [] k = 14 -> CallerR14 [] k = 15 -> CallerR15 [] OTHER -> Junk],
     ca |-> 1, lr |-> CallerLR, ctr |-> Junk, ee |-> st,
     stack |-> [k \in 0 .. FrameTop |-> Junk]]

\* What the ABI lets the caller of a block find unchanged: the stack pointer,
\* the registers a function saves, and the return address.
Frame(m) == <<m.r[1], m.r[14], m.r[15], m.lr>>
CallerFrame == <<FrameTop, CallerR14, CallerR15, CallerLR>>

-----------------------------------------------------------------------------
(* ee_state_t as a big-endian structure: register slots of 16 bytes, the     *)
(* high word of a doubleword first, and the fields at the recompiler's       *)
(* offsets.                                                                  *)

REG_SLOT(r) == r * 16
REG_HI(r) == REG_SLOT(r) + 0
REG_LO(r) == REG_SLOT(r) + 4
REG_HI1(r) == REG_SLOT(r) + 8
REG_LO1(r) == REG_SLOT(r) + 12
PC_OFFSET == 544
NEXT_PC_OFFSET == 548
BRANCH_PENDING_OFFSET == 684
EXC_THIS_PC_OFFSET == 1456
REG_FPR(f) == 1464 + f * 4
FCR31_OFFSET == 1592
COP2_CTRL_OFF(idx) == 1600 + idx * 4
VU0_VF_OFF(reg, lane) == 1728 + reg * 16 + lane * 4

SlotWord(q, k) == CASE k = 0 -> High(q.ud0) [] k = 1 -> Low(q.ud0) [] k = 2 -> High(q.ud1) [] k = 3 -> Low(q.ud1)

CtxWord(st, off) ==
    CASE off < PC_OFFSET -> SlotWord(st.reg[off \div 16], (off % 16) \div 4)
      [] off = PC_OFFSET -> st.pc
      [] off = NEXT_PC_OFFSET -> st.next_pc
      [] off = EXC_THIS_PC_OFFSET -> st.exc_this_pc
      [] off >= REG_FPR(0) /\ off < FCR31_OFFSET -> st.fpr[(off - REG_FPR(0)) \div 4]
      [] off = FCR31_OFFSET -> st.fcr31
      [] off >= COP2_CTRL_OFF(0) /\ off < VU0_VF_OFF(0, 0) -> st.cop2_ctrl[(off - COP2_CTRL_OFF(0)) \div 4]
      [] off >= VU0_VF_OFF(0, 0) -> LET k == (off - VU0_VF_OFF(0, 0)) \div 4 IN st.vu0_vf[k \div 4][k % 4]

SetCtxWord(st, off, v) ==
    LET k == (off % 16) \div 4
        PutHigh(d) == Pair(v, Low(d))
        PutLow(d) == Pair(High(d), v)
    IN  CASE off < PC_OFFSET -> [st EXCEPT !.reg[off \div 16] =
                CASE k = 0 -> [@ EXCEPT !.ud0 = PutHigh(@)] [] k = 1 -> [@ EXCEPT !.ud0 = PutLow(@)]
                  [] k = 2 -> [@ EXCEPT !.ud1 = PutHigh(@)] [] k = 3 -> [@ EXCEPT !.ud1 = PutLow(@)]]
          [] off = PC_OFFSET -> [st EXCEPT !.pc = v]
          [] off = NEXT_PC_OFFSET -> [st EXCEPT !.next_pc = v]
          [] off >= REG_FPR(0) /\ off < FCR31_OFFSET -> [st EXCEPT !.fpr[(off - REG_FPR(0)) \div 4] = v]
          [] off = FCR31_OFFSET -> [st EXCEPT !.fcr31 = v]
          [] off >= COP2_CTRL_OFF(0) /\ off < VU0_VF_OFF(0, 0) -> [st EXCEPT !.cop2_ctrl[(off - COP2_CTRL_OFF(0)) \div 4] = v]
          [] off >= VU0_VF_OFF(0, 0) -> [st EXCEPT !.vu0_vf[(off - VU0_VF_OFF(0, 0)) \div 16][k] = v]

\* n bytes at an offset: the part of the word below its bit hi.
Below(off, n) == BYTE * (4 - ((off % 4) + n))

CtxLoad(st, n, off) ==
    IF off = BRANCH_PENDING_OFFSET THEN st.branch_pending
    ELSE Wrap(n * BYTE, ShiftRight(CtxWord(st, off - (off % 4)), Below(off, n)))

CtxStore(st, n, off, v) ==
    IF off = BRANCH_PENDING_OFFSET THEN [st EXCEPT !.branch_pending = v % 2 ^ BYTE]
    ELSE LET at == off - (off % 4)
             old == CtxLoad(st, n, off)
         IN  SetCtxWord(st, at, CtxWord(st, at) + (Wrap(n * BYTE, v) - old) * 2 ^ Below(off, n))

\* The stack is word and byte cells; no block mixes the two at one place.
PLoad(m, n, base, off) ==
    IF m.r[base] = CtxPtr THEN CtxLoad(m.ee, n, off) ELSE m.stack[m.r[base] + off]

PStore(m, n, base, off, v) ==
    IF m.r[base] = CtxPtr THEN [m EXCEPT !.ee = CtxStore(@, n, off, v)] ELSE [m EXCEPT !.stack[m.r[base] + off] = v]

-----------------------------------------------------------------------------
(* Arithmetic.  A word's bit 0 is its most significant one.                  *)

RotateLeft(v, k) == ShiftLeft(WORD, v, k) + ShiftRight(v, WORD - k)
MaskBits(v, mb, me) == Wrap(WORD - mb, v) - Wrap(WORD - 1 - me, v)

\* slw, srw and sraw take one bit more of the count than a word has positions.
Reg(op, a, b) ==
    LET k == b % (2 * WORD)
    IN  CASE op = "add" -> Wrap(WORD, a + b)
          [] op = "subf" -> Wrap(WORD, b - a)
          [] op = "and" -> AndW(a, b)
          [] op = "or" -> IF a = b THEN a ELSE OrW(a, b)
          [] op = "xor" -> XorW(a, b)
          [] op = "nor" -> Complement(WORD, OrW(a, b))
          [] op = "slw" -> ShiftLeft(WORD, a, k)
          [] op = "srw" -> ShiftRight(a, k)
          [] op = "sraw" -> ShiftArith(WORD, a, k)
          [] op = "mullw" -> Wrap(WORD, a * b)
          [] op = "mulhw" -> High(Wrap(DOUBLE, Signed(WORD, a) * Signed(WORD, b)))
          [] op = "mulhwu" -> High(a * b)
          [] op = "divw" -> DivW(a, b)
          [] op = "divwu" -> DivWU(a, b)

RegOps == {"add", "subf", "and", "or", "xor", "nor", "slw", "srw", "sraw", "mullw", "mulhw", "mulhwu", "divw", "divwu"}

\* The carrying forms: subfc and subfe add the complement of their first operand.
CarryOps == {"addc", "adde", "subfc", "subfe"}
Carry(op, a, b, ca) ==
    CASE op = "addc" -> Carrying(a, b, 0)
      [] op = "adde" -> Carrying(a, b, ca)
      [] op = "subfc" -> Carrying(Complement(WORD, a), b, 1)
      [] op = "subfe" -> Carrying(Complement(WORD, a), b, ca)

\* The sign bits a right shift drops.
ShiftCarry(a, k) == IF a >= 2 ^ (WORD - 1) /\ Wrap(k, a) # 0 THEN 1 ELSE 0

ImmediateOps == {"addi", "addis", "ori", "xori", "xoris", "andi."}
Immediate(op, a, v) ==
    CASE op = "addi" -> Wrap(WORD, a + v)
      [] op = "addis" -> Wrap(WORD, a + v * 2 ^ HALF)
      [] op = "ori" -> OrW(a, v)
      [] op = "xori" -> XorW(a, v)
      [] op = "xoris" -> XorW(a, v * 2 ^ HALF)
      [] op = "andi." -> AndW(a, v)

-----------------------------------------------------------------------------
(* Calls.  The callee may leave anything in the volatile registers, in the   *)
(* bits of r3 above a narrow result and in the frame's word for its own link *)
(* register.                                                                 *)

Callees == <<"read8", "read16", "read32", "read64", "write8", "write16", "write32", "write64",
             "pmultw", "pdivw", "pmulth", "pdivbw", "pmfhl_slw", "pmfhl_sh">>
Address(k) == 100 + 7 * k   \* words with both halves in use
FnAddress(f) == CHOOSE a \in {Address(k) : k \in DOMAIN Callees} : \E k \in DOMAIN Callees : Callees[k] = f /\ a = Address(k)

Returned(m, st, r3, r4) ==
    [m EXCEPT !.ee = st, !.lr = BlockLR, !.ctr = Junk, !.ca = 0,
              !.stack[m.r[1] + 4] = BlockLR,
              !.r = [k \in DOMAIN @ |-> CASE k = 3 -> r3 [] k = 4 -> r4 [] k \in {0} \cup 5 .. 12 -> Junk [] OTHER -> @[k]]]

ReadCall(m, n) ==
    LET a == MemRead(m.ee, m.r[4], n)
    IN  IF n = 8 THEN Returned(m, a.st, High(a.v), Low(a.v))
        ELSE Returned(m, a.st, a.v + (Junk - Wrap(n * BYTE, Junk)), Junk)

WriteCall(m, n) ==
    LET v == IF n = 8 THEN Pair(m.r[5], m.r[6]) ELSE Wrap(n * BYTE, m.r[5])
    IN  Returned(m, MemWrite(m.ee, m.r[4], n, v), Junk, Junk)

PmfhlCall(m, op) ==
    LET i == [op |-> op, rs |-> 0, rt |-> 0, rd |-> m.r[4], sa |-> 0, w |-> WORD]
    IN  Returned(m, SetQuad(m.ee, m.r[4], MmiQuad(m.ee, i)), Junk, Junk)

Call(m) ==
    LET f == Callees[(m.ctr - 100) \div 7]
    IN  CASE f = "read8" -> ReadCall(m, 1) [] f = "read16" -> ReadCall(m, 2)
          [] f = "read32" -> ReadCall(m, 4) [] f = "read64" -> ReadCall(m, 8)
          [] f = "write8" -> WriteCall(m, 1) [] f = "write16" -> WriteCall(m, 2)
          [] f = "write32" -> WriteCall(m, 4) [] f = "write64" -> WriteCall(m, 8)
          [] f = "pmultw" -> Returned(m, PMULTW(m.ee, m.r[4], m.r[5], m.r[6]), Junk, Junk)
          [] f = "pmulth" -> Returned(m, PMULTH(m.ee, m.r[4], m.r[5], m.r[6]), Junk, Junk)
          [] f = "pdivw" -> Returned(m, PDIVW(m.ee, m.r[4], m.r[5]), Junk, Junk)
          [] f = "pdivbw" -> Returned(m, PDIVBW(m.ee, m.r[4], m.r[5]), Junk, Junk)
          [] f = "pmfhl_slw" -> PmfhlCall(m, "PMFHL.SLW")
          [] f = "pmfhl_sh" -> PmfhlCall(m, "PMFHL.SH")

-----------------------------------------------------------------------------
(* One instruction, and a block.                                             *)

Width(op) == CASE op \in {"lwz", "stw"} -> 4 [] op \in {"lhz", "sth"} -> 2 [] op \in {"lbz", "stb"} -> 1

Exec(m, c) ==
    LET op == c[1]  d == c[2]
        Set(v) == [m EXCEPT !.r[d] = v]
        R(k) == m.r[c[k]]
    IN  CASE op \in {"lwz", "lhz", "lbz"} -> Set(PLoad(m, Width(op), c[3], c[4]))
          [] op \in {"stw", "sth", "stb"} -> PStore(m, Width(op), c[3], c[4], m.r[d])
          [] op = "sraw" -> [Set(Reg(op, R(3), R(4))) EXCEPT !.ca = ShiftCarry(R(3), R(4) % (2 * WORD))]
          [] op \in RegOps \ {"sraw"} -> Set(Reg(op, R(3), R(4)))
          [] op \in ImmediateOps -> Set(Immediate(op, IF c[3] = 0 /\ op \in {"addi", "addis"} THEN 0 ELSE R(3), c[4]))
          [] op \in CarryOps -> LET x == Carry(op, R(3), R(4), m.ca) IN [Set(x.v) EXCEPT !.ca = x.ca]
          [] op = "srawi" -> [Set(ShiftArith(WORD, R(3), c[4])) EXCEPT !.ca = ShiftCarry(R(3), c[4])]
          [] op = "rlwinm" -> Set(MaskBits(RotateLeft(R(3), c[4]), c[5], c[6]))
          [] op = "extsb" -> Set(Sext(BYTE, WORD, Wrap(BYTE, R(3))))
          [] op = "extsh" -> Set(Sext(HALF, WORD, Wrap(HALF, R(3))))
          [] op = "mflr" -> Set(m.lr)
          [] op = "mtlr" -> [m EXCEPT !.lr = m.r[d]]
          [] op = "mtctr" -> [m EXCEPT !.ctr = m.r[d]]
          [] op = "bctrl" -> Call(m)

\* A block whose stack pointer leaves its frame is not followed further.
Lost(m) == m.r[1] \notin 0 .. FrameTop

RECURSIVE RunFrom(_, _, _)
RunFrom(m, code, k) == IF Lost(m) \/ k > Len(code) THEN m ELSE RunFrom(Exec(m, code[k]), code, k + 1)

Run(m, code) == RunFrom(m, code, 1)
=============================================================================
