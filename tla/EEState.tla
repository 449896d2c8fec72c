------------------------------ MODULE EEState ------------------------------
(* The part of ee_state_t an instruction works on: registers, control flow,  *)
(* exception state and memory, with ee_mem_*() and ee_raise_exception().     *)
(* The TLB maps the RAM one to one and nothing else; devices are left out.   *)
EXTENDS EEBits, FiniteSetsExt

CONSTANT Gprs  \* the register numbers programs use, in every register file

ASSUME GprsAssumption == Gprs \subseteq 0 .. 31 /\ {0, 31} \subseteq Gprs

HI_IDX == 32   \* hi and lo follow gpr[31] in ee_state_t
LO_IDX == 33
Slots == Gprs \cup {HI_IDX, LO_IDX}

RamSize == 2 ^ (WORD - 3)

Quads == [ud0 : Doubles, ud1 : Doubles]

EEStates == [reg : [Slots -> Quads],
             fpr : [Gprs -> Words], fcr31 : Words, cop2_ctrl : [Gprs -> Words], vu0_vf : [Gprs -> [0 .. 3 -> Words]],
             pc : Words, next_pc : Words, exc_this_pc : Words,
             branch_pending : {0, 1}, exc_in_delay_slot : {0, 1}, exc_raised : {0, 1},
             exl : {0, 1}, bd : {0, 1}, code : {"none", "TLBL", "TLBS"}, epc : Words, badvaddr : Words,
             mem : [0 .. RamSize - 1 -> 0 .. 2 ^ BYTE - 1]]

-----------------------------------------------------------------------------
(* ee_raise_exception(), with the vector offsets 0x000 and 0x180 scaled.     *)

Vector(offset) == 2 ^ (WORD - 1) + offset

RaiseTlb(st, code, vaddr) ==
    IF st.exc_raised = 1 THEN st
    ELSE LET at == IF st.exl = 1 THEN Vector(BYTE) ELSE Vector(0)
             delayed == st.exl = 0 /\ st.exc_in_delay_slot = 1
         IN  [st EXCEPT !.exc_raised = 1, !.badvaddr = vaddr, !.code = code,
                        !.bd = IF delayed THEN 1 ELSE 0,
                        !.epc = CASE st.exl = 1 -> @
                                  [] delayed -> Wrap(WORD, st.exc_this_pc - 4)
                                  [] OTHER -> st.exc_this_pc,
                        !.exl = 1,
                        !.pc = at, !.next_pc = at + 4]

-----------------------------------------------------------------------------
(* ee_mem_ptr() and the accesses, n bytes wide, little-endian.               *)

Direct(addr) == addr \div 2 ^ (WORD - 2) = 2   \* KSEG0 and KSEG1
Misses(addr) == ~Direct(addr) /\ addr >= RamSize
Phys(addr) == IF Direct(addr) THEN addr % RamSize ELSE addr
Backed(addr, n) == ~Misses(addr) /\ Phys(addr) + n <= RamSize

MemRead(st, addr, n) ==
    [st |-> IF Misses(addr) THEN RaiseTlb(st, "TLBL", addr) ELSE st,
     v |-> IF Backed(addr, n)
           THEN MapThenSumSet(LAMBDA k : st.mem[Phys(addr) + k] * 2 ^ (BYTE * k), 0 .. n - 1)
           ELSE 0]

MemWrite(st, addr, n, v) ==
    IF Misses(addr) THEN RaiseTlb(st, "TLBS", addr)
    ELSE IF ~Backed(addr, n) THEN st
    ELSE [st EXCEPT !.mem = [a \in DOMAIN st.mem |->
            IF a - Phys(addr) \in 0 .. n - 1 THEN (v \div 2 ^ (BYTE * (a - Phys(addr)))) % 2 ^ BYTE ELSE @[a]]]

-----------------------------------------------------------------------------
(* Lanes of a register, numbered from the least significant one, w bits each. *)

PerDouble(w) == DOUBLE \div w

Lane(q, w, n) ==
    ((IF n < PerDouble(w) THEN q.ud0 ELSE q.ud1) \div 2 ^ (w * (n % PerDouble(w)))) % 2 ^ w

LaneNumbers(w) == 0 .. 2 * PerDouble(w) - 1

FromLanes(w, f) ==
    LET ud(from) == MapThenSumSet(LAMBDA n : f[from + n] * 2 ^ (w * n), 0 .. PerDouble(w) - 1)
    IN  [ud0 |-> ud(0), ud1 |-> ud(PerDouble(w))]
=============================================================================
