------------------------------ MODULE Machine ------------------------------
(* The two cores as system_run_interleaved() steps them, and what one does  *)
(* to the other's interrupts: the system call sceSifSetDma, the IOP's DMA   *)
(* channels and its store to ICFG.                                          *)
EXTENDS EEIrq, IOPIntr, Sequences

CONSTANT Ratio  \* EE_IOP_STEP_RATIO

ASSUME RatioAssumption == Ratio \in Nat \ {0}

VARIABLE turn   \* steps of the EE in this slice

machineVars == <<ee, iop, turn>>

MachineInit ==
  /\ \E p \in DOMAIN EePrograms :
       /\ \E count \in EePrograms[p].phases : ee = EeStart(p, count)
       /\ \E phase \in IopPrograms[p].phases : iop = IopStart(p, phase)
  /\ turn = 0

\* dma_channel_signal_done() on the EE's side.
EeChannelDone(e, ch) == [e EXCEPT !.dstat = @ \cup {ch}]

\* sceSifSetDma, which is emulated: both ends of the transfer are done at once.
SifSetDma ==
  /\ EeFetched("setdma") # {}
  /\ ee' = EeGoto([EeChannelDone(ee, SIF0) EXCEPT !.bp = FALSE], ee.pc + 1)
  /\ iop' = SignalDone(iop, Sif0)

\* The IOP starts a channel, whose transfer ends with the store.  One out of memory
\* ("bad") has no completion; one that the EE's memory refuses has none there.
EePeer == [ch \in {Sif0, Sif2} |-> IF ch = Sif0 THEN SIF0 ELSE SIF2]
StoreChcr ==
  \E op \in Fetched("chcr") :
    /\ ee' = IF op.f = "" /\ op.n \in DOMAIN EePeer THEN EeChannelDone(ee, EePeer[op.n]) ELSE ee
    /\ Plain(IF op.f = "bad" THEN Ticked ELSE SignalDone(Ticked, op.n))

\* Bit 1 of ICFG is the SBUS interrupt of the EE.
StoreIcfg ==
  /\ Fetched("icfg") # {}
  /\ ee' = IntcRaise(ee, SBUS)
  /\ Plain(Ticked)

\* A slice: Ratio steps of the EE and one of the IOP, without those of a core that
\* is halted.
EeTurn == /\ turn < Ratio
          /\ \/ EeNext /\ turn' = turn + 1 /\ UNCHANGED iop
             \/ SifSetDma /\ turn' = turn + 1
             \/ ee.halted /\ turn' = Ratio /\ UNCHANGED <<ee, iop>>

IopTurn == /\ turn = Ratio /\ turn' = 0
           /\ \/ IopNext /\ UNCHANGED ee
              \/ StoreChcr
              \/ StoreIcfg
              \/ iop.halted /\ UNCHANGED <<ee, iop>>

MachineNext == EeTurn \/ IopTurn

\* The loop of system_run_interleaved() goes round for ever; every step of it is a
\* step of turn.
Steps == turn' \in 0..Ratio
MachineSpec == MachineInit /\ [][MachineNext]_machineVars /\ WF_turn(Steps)

----------------------------------------------------------------------------
(* Properties.                                                              *)

\* An interrupt or exception of the EE goes back, at its ERET, to the instruction
\* after the last one that took effect, and to a branch again when its delay slot
\* was left out.
EePrecise ==
  ee.debt.due /\ ee'.debt # ee.debt => ~ee'.debt.due /\ ee'.pc = ee.debt.pc

\* The same on the IOP, with interrupts enabled as they were; a program that a
\* registered handler interrupted has its own registers back as well.
IopPrecise ==
  iop.debt.due /\ iop'.debt # iop.debt
    => /\ ~iop'.debt.due /\ iop'.pc = iop.debt.pc
       /\ iop'.ie[1] = iop.debt.ie[1] /\ iop'.ie[2] = iop.debt.ie[2]
       /\ iop.pc = HandlerReturn => iop'.ra = iop.debt.ra /\ iop'.own

\* Interrupts and exceptions are precise on both cores (ee_raise_exception() and ERET;
\* iop_check_hw_interrupt(), the trampolines, the stub and RFE).
Precise == [][EePrecise /\ IopPrecise]_machineVars

\* An interrupt that a module has a handler for is acknowledged by the return of
\* that handler, or by the guest; neither the stub nor another line's dispatch
\* takes it away.
HandledKept ==
  [][\A line \in iop.reg : line \in (iop.stat \cup iop.hi) \ (iop'.stat \cup iop'.hi)
       => \/ iop.pc = HandlerReturn /\ iop.disp.irq = line
          \/ iop.pc < Vector \/ iop.pc = BootVector]_machineVars

\* Every line that is raised and unmasked, on either core, is served: none waits for
\* ever behind another one, an idle core, a masked stretch or a lost flag.
LinesDrain ==
  /\ \A line \in {VblankStart, DmaLine, TimerLine, VblankEnd} :
       line \in Pending(iop) ~> line \notin Pending(iop)
  /\ \A ch \in {Sif0, Sif2, Spu2} :
       SoftLine(ch) \in SoftPending(iop) ~> SoftLine(ch) \notin SoftPending(iop)
  /\ \A line \in {SBUS, VBLANK_START, VBLANK_END, TIMER0} :
       line \in ee.stat \cap ee.mask /\ IP2 \in ee.im ~> line \notin ee.stat \cap ee.mask
  /\ (IP3 \in Lines(ee) \cap ee.im) ~> (IP3 \notin Lines(ee))
  /\ (IP7 \in Lines(ee) \cap ee.im) ~> (IP7 \notin Lines(ee))

\* A timer that is set to interrupt at its target does so, again after each time its
\* interrupt is served, whether it returns to zero at the target or counts on.
EeArmed == ee.timer.cue /\ ee.timer.cmpe /\ ee.timer.comp \in 1..EeTimerMax
IopArmed == iop.timer.tint /\ iop.timer.ien /\ iop.timer.repeat /\ iop.timer.target \in 1..TimerMax
TimersFire ==
  /\ EeArmed ~> (TIMER0 \in ee.stat \/ ~EeArmed)
  /\ (IopArmed /\ ~iop.halted) ~> (TimerLine \in iop.stat \/ ~IopArmed)

=============================================================================
