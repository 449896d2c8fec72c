------------------------------- MODULE EEIrq -------------------------------
(* The EE's exceptions and interrupts: Count and Compare, INTC, the DMA     *)
(* controller's line, timer 0, the vertical blank, the end of ee_step()     *)
(* where all of them are looked at, and the park tick of an idle core.      *)
(*                                                                          *)
(* Addresses are in words.  The program lies at 0 .. 99 and gives every     *)
(* address the set of operations it may hold; the kernel's handlers are a   *)
(* step of work and an ERET.                                                *)
EXTENDS Integers, FiniteSetsExt

CONSTANTS EePrograms,  \* what the EE may execute (MCMachine describes the records)
          CountMax,    \* values of Count
          EeFrame,     \* EE_CYCLES_PER_FRAME_NTSC
          EeBlank,     \* EE_CYCLES_VBLANK_DURATION
          EeTimerMax   \* EE_TIMER_MAX_COUNT

ASSUME EeAssumption == /\ CountMax \in Nat \ {0} /\ EeFrame \in Nat /\ EeBlank \in 1..EeFrame - 1
                       /\ EeTimerMax \in Nat \ {0}

VARIABLE ee

IntVector == 100
GeneralVector == 110
TlbVector == 120

\* Lines of INTC and channels of D_STAT.
SBUS == 1
VBLANK_START == 2
VBLANK_END == 3
TIMER0 == 9
SIF0 == 5
SIF2 == 7

\* The interrupt lines of Cause and Status.
IP2 == 2
IP3 == 3
IP7 == 7

EeNoDebt == [due |-> FALSE, pc |-> 0]

\* Program p, with Count and with it the vertical blank at a phase.
EeStart(p, count) ==
  [prog |-> p, halted |-> EePrograms[p].halted, pc |-> 0, npc |-> 1, bp |-> FALSE,
   ie |-> TRUE, eie |-> TRUE, exl |-> FALSE, im |-> {}, ip7 |-> FALSE,
   count |-> count, compare |-> 0, epc |-> 0, idle |-> FALSE, mapped |-> FALSE,
   stat |-> {}, mask |-> {}, dstat |-> {}, dmask |-> {}, dmae |-> FALSE,
   timer |-> [cue |-> FALSE, zero |-> FALSE, cmpe |-> FALSE, ovfe |-> FALSE,
              equf |-> FALSE, ovff |-> FALSE, count |-> 0, comp |-> 0],
   debt |-> EeNoDebt]

----------------------------------------------------------------------------
(* Exceptions.                                                              *)

EeGoto(e, pc) == [e EXCEPT !.pc = pc, !.npc = pc + 1]

\* ee_raise_exception(): an exception inside another one keeps EPC.  The program
\* is owed the instruction at owed (history, which the core does not have).
RaiseException(e, cause, this, slot, owed) ==
  LET base == CASE e.exl -> GeneralVector
                [] cause = "tlb" -> TlbVector
                [] cause = "int" -> IntVector
                [] OTHER -> GeneralVector
  IN EeGoto(IF e.exl THEN e
            ELSE [e EXCEPT !.exl = TRUE, !.epc = IF slot THEN this - 1 ELSE this,
                           !.debt = [due |-> TRUE, pc |-> owed]], base)

----------------------------------------------------------------------------
(* The devices, which count the instructions.                               *)

IntcRaise(e, line) == [e EXCEPT !.stat = @ \cup {line}]

LatchTimer(e) == IF e.count >= e.compare THEN [e EXCEPT !.ip7 = TRUE] ELSE e

EeVblank(e) ==
  CASE e.count % EeFrame = 0 -> IntcRaise(e, VBLANK_START)
    [] e.count % EeFrame = EeBlank -> IntcRaise(e, VBLANK_END)
    [] OTHER -> e

\* A match raises the line once, until EQUF is cleared.
TimerMatch(e) ==
  LET raised == IF e.timer.cmpe /\ ~e.timer.equf
                THEN [IntcRaise(e, TIMER0) EXCEPT !.timer.equf = TRUE] ELSE e
  IN IF e.timer.count # e.timer.comp THEN e
     ELSE IF e.timer.zero THEN [raised EXCEPT !.timer.count = 0] ELSE raised

TimerWrap(e) ==
  LET raised == IF e.timer.ovfe /\ ~e.timer.ovff
                THEN [IntcRaise(e, TIMER0) EXCEPT !.timer.ovff = TRUE] ELSE e
  IN IF e.timer.count <= EeTimerMax THEN e
     ELSE [raised EXCEPT !.timer.count = @ - (EeTimerMax + 1)]

EeTimerTick(e) ==
  IF ~e.timer.cue THEN e ELSE TimerWrap(TimerMatch([e EXCEPT !.timer.count = @ + 1]))

EeDevices(e) == EeTimerTick(EeVblank(LatchTimer([e EXCEPT !.count = (@ + 1) % CountMax])))

----------------------------------------------------------------------------
(* The end of a step.                                                       *)

\* The lines of Cause that are up.
Lines(e) == {l \in {IP2, IP3, IP7} :
               CASE l = IP2 -> e.stat \cap e.mask # {}
                 [] l = IP3 -> e.dmae /\ e.dstat \cap e.dmask # {}
                 [] l = IP7 -> e.ip7}

\* ee_check_timer_interrupt(), ee_check_intc_interrupt() and
\* ee_check_dmac_interrupt(): the three differ in the line alone.
CheckInterrupts(e, owed) ==
  IF e.ie /\ e.eie /\ ~e.exl /\ Lines(e) \cap e.im # {}
  THEN RaiseException(e, "int", e.pc, FALSE, owed) ELSE e

\* No interrupt between a branch and its delay slot, none after an exception of
\* the step's own (EXL is set then).
Checked(e, owed) == IF e.bp THEN e ELSE CheckInterrupts(e, owed)
EeTail(done, owed) == Checked(EeDevices(done), owed)

----------------------------------------------------------------------------
(* Instructions.                                                            *)

EeRunning == ~ee.halted /\ ~ee.idle
Paged == ee.pc \in EePrograms[ee.prog].paged /\ ~ee.mapped
EeFetched(k) == {op \in IF EeRunning /\ ee.pc < IntVector /\ ~Paged
                        THEN EePrograms[ee.prog].code[ee.pc + 1] ELSE {} : op.k = k}

EeFollowing(e) == [e EXCEPT !.pc = e.npc, !.npc = e.npc + 1, !.bp = FALSE]
EePlain(done) == ee' = EeTail(EeFollowing(done), ee.npc)

EeNop == EeFetched("nop") # {} /\ EePlain(ee)

\* A branch that is not taken goes to the instruction behind its delay slot.
EeBranch == \E op \in EeFetched("branch") :
              ee' = EeTail([EeFollowing(ee) EXCEPT !.npc = op.n, !.bp = TRUE], ee.pc)

\* A likely branch that is not taken skips its delay slot.
EeLikely == EeFetched("likely") # {} /\ ee' = EeTail(EeGoto(ee, ee.npc + 1), ee.npc + 1)

EeEI == EeFetched("EI") # {} /\ EePlain([ee EXCEPT !.eie = TRUE])
EeDI == EeFetched("DI") # {} /\ EePlain([ee EXCEPT !.eie = FALSE])

\* MTC0 to Compare, at n from Count, and to IE and the mask of Status; the stores
\* to the masks of INTC and D_STAT, to D_CTRL, and to the timer's MODE, COUNT and COMP.
SetCompare(e, n) == [e EXCEPT !.compare = (e.count + n) % CountMax, !.ip7 = FALSE]
Toggled(S, x) == IF x \in S THEN S \ {x} ELSE S \cup {x}
EeMtc0Compare == \E op \in EeFetched("compare") : EePlain(SetCompare(ee, op.n))
EeMtc0Status == \E op \in EeFetched("status") : EePlain([ee EXCEPT !.ie = op.n = 1, !.im = op.s])
EeStoreMask == \E op \in EeFetched("imask") : EePlain([ee EXCEPT !.mask = Toggled(@, op.n)])
EeStoreDCtrl == \E op \in EeFetched("dctrl") : EePlain([ee EXCEPT !.dmae = op.n = 1])
EeStoreDStat == \E op \in EeFetched("dmask") : EePlain([ee EXCEPT !.dmask = Toggled(@, op.n)])

Mode(t) == {b \in {"cue", "zero", "cmp", "ovf", "equf", "ovff"} :
              CASE b = "cue" -> t.cue [] b = "zero" -> t.zero [] b = "cmp" -> t.cmpe
                [] b = "ovf" -> t.ovfe [] b = "equf" -> t.equf [] b = "ovff" -> t.ovff}
\* A one written to EQUF or OVFF clears it.
WriteMode(t, s) == [t EXCEPT !.cue = "cue" \in s, !.zero = "zero" \in s,
                             !.cmpe = "cmp" \in s, !.ovfe = "ovf" \in s,
                             !.equf = @ /\ "equf" \notin s, !.ovff = @ /\ "ovff" \notin s]
EeStoreMode == \E op \in EeFetched("mode") : EePlain([ee EXCEPT !.timer = WriteMode(@, op.s)])
EeStoreCount == \E op \in EeFetched("count") : EePlain([ee EXCEPT !.timer.count = op.n])
EeStoreComp == \E op \in EeFetched("comp") : EePlain([ee EXCEPT !.timer.comp = op.n])

\* A system call the kernel serves.
EeSyscall == /\ EeFetched("syscall") # {}
             /\ ee' = EeTail([RaiseException(ee, "syscall", ee.pc, ee.bp, ee.pc + 1)
                                EXCEPT !.bp = FALSE], 0)

\* A load from a page that may have to be mapped first: by the refill handler,
\* after which the load (or the branch it is in the slot of) is done again.
EeLoad ==
  /\ EeFetched("load") # {}
  /\ IF ee.mapped THEN EePlain(ee)
     ELSE ee' = EeTail([RaiseException(ee, "tlb", ee.pc, ee.bp, IF ee.bp THEN ee.pc - 1 ELSE ee.pc)
                          EXCEPT !.bp = FALSE], 0)
\* The same for the instruction itself, which ends the step at once.
EeFetchFault ==
  /\ EeRunning /\ Paged
  /\ ee' = [RaiseException(ee, "tlb", ee.pc, ee.bp, IF ee.bp THEN ee.pc - 1 ELSE ee.pc)
              EXCEPT !.bp = FALSE]
EeUnmap == EeFetched("unmap") # {} /\ EePlain([ee EXCEPT !.mapped = FALSE])

\* A system call that is emulated returns without the end of the step; this one
\* leaves no thread to run.
EeSleep == EeFetched("sleep") # {} /\ ee' = EeGoto([ee EXCEPT !.idle = TRUE, !.bp = FALSE], ee.pc + 1)

----------------------------------------------------------------------------
(* The kernel.                                                              *)

\* The interrupt handler serves one line, and rearms its source: it writes the
\* timer's MODE back as it reads it.
ServeIntc(e, line) ==
  [e EXCEPT !.stat = @ \ {line}, !.timer = IF line = TIMER0 THEN WriteMode(@, Mode(@)) ELSE @]
Serve(e, lines) ==
  CASE IP2 \in lines -> ServeIntc(e, Min(e.stat \cap e.mask))
    [] IP3 \in lines -> [e EXCEPT !.dstat = @ \ {Min(e.dstat \cap e.dmask)}]
    [] IP7 \in lines -> SetCompare(e, EePrograms[e.prog].period)
    [] OTHER -> e

EeIntHandler == EeRunning /\ ee.pc = IntVector /\ EePlain(Serve(ee, Lines(ee) \cap ee.im))
EeSyscallHandler == EeRunning /\ ee.pc = GeneralVector /\ EePlain([ee EXCEPT !.epc = @ + 1])
EeRefillHandler == EeRunning /\ ee.pc = TlbVector /\ EePlain([ee EXCEPT !.mapped = TRUE])

EeEret == /\ EeRunning /\ ee.pc \in {IntVector + 1, GeneralVector + 1, TlbVector + 1}
          /\ ee' = EeTail(EeGoto([ee EXCEPT !.exl = FALSE, !.debt = EeNoDebt], ee.epc), ee.epc)

\* ee_core_park_tick(): an idle core looks for interrupts as if IE were set, and
\* runs on when it takes one.
EeParkTick ==
  /\ ~ee.halted /\ ee.idle
  /\ LET d == EeDevices(ee)
         e == CheckInterrupts([d EXCEPT !.ie = TRUE], d.pc)
     IN ee' = IF e.exl THEN [e EXCEPT !.idle = FALSE] ELSE d

EeNext == \/ EeNop \/ EeBranch \/ EeLikely \/ EeEI \/ EeDI \/ EeMtc0Compare \/ EeMtc0Status
          \/ EeStoreMask \/ EeStoreDCtrl \/ EeStoreDStat \/ EeStoreMode \/ EeStoreCount \/ EeStoreComp
          \/ EeSyscall \/ EeLoad \/ EeFetchFault \/ EeUnmap \/ EeSleep
          \/ EeIntHandler \/ EeSyscallHandler \/ EeRefillHandler \/ EeEret \/ EeParkTick

=============================================================================
