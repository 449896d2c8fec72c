------------------------------- MODULE EECore -------------------------------
(* ee_step() by the interpreter alone: what a step of the EE promises,      *)
(* however the instruction is carried out.  The words the program counter   *)
(* meets are any of Program.  The devices, counters and interrupts of       *)
(* ee_step()'s tail, the same with and without the recompiler, are left     *)
(* out, and so is the thread that ends when it returns to address 0.        *)
EXTENDS EEInterp

CONSTANT Program  \* the instructions in memory, numbered

VARIABLES
    ee,   \* the ee_state_t
    ran   \* the instruction the last step executed, 0 if it fetched none

NullJump == ee.pc = 0 /\ ee.exl = 0

\* A jump through a null pointer returns to the caller.
NullGuard ==
    LET ra == Low(ee.reg[31].ud0)
    IN  /\ NullJump /\ ra # 0
        /\ ee' = [ee EXCEPT !.pc = ra, !.next_pc = Wrap(WORD, ra + 4), !.branch_pending = 0]
        /\ ran' = 0

Begun(st) == [st EXCEPT !.branch_pending = 0, !.exc_this_pc = st.pc,
                        !.exc_in_delay_slot = st.branch_pending, !.exc_raised = 0]

FetchMiss ==
    /\ ~NullJump /\ Misses(ee.pc)
    /\ ee' = RaiseTlb(Begun(ee), "TLBL", ee.pc)
    /\ ran' = 0

Fetched(st) == [Begun(st) EXCEPT !.pc = st.next_pc, !.next_pc = Wrap(WORD, st.next_pc + 4)]

\* ee_jit_done: $zero is cleared.
Finished(st) == [st EXCEPT !.reg[0] = [ud0 |-> 0, ud1 |-> 0]]

\* A program has no branch in a delay slot.
IsBranch(i) == i.op \in {"J", "JAL", "JR", "JALR", "B", "BL"}
InSlot == ee.branch_pending = 1 \/ (ran # 0 /\ IsBranch(Program[ran]))
Fetches(k) == ~NullJump /\ ~Misses(ee.pc) /\ (IsBranch(Program[k]) => ~InSlot)

\* The interpreter marks the slot of a branch it does not take and a block
\* leaves it unmarked; a step may do either.
Untaken(st, i) == i.op = "B" /\ ~BranchTaken(st, i)
Effects(st, i) ==
    {[Interpret(st, i) EXCEPT !.branch_pending = m] : m \in IF Untaken(st, i) THEN {0, 1} ELSE {Interpret(st, i).branch_pending}}

Execute(k) ==
    /\ Fetches(k)
    /\ ran' = k
    /\ ee' \in {Finished(st) : st \in Effects(Fetched(ee), Program[k])}

Next == NullGuard \/ FetchMiss \/ \E k \in DOMAIN Program : Execute(k)

Spec == ee \in EEStates /\ ran = 0 /\ [][Next]_<<ee, ran>>
=============================================================================
