------------------------------ MODULE IOPIntr ------------------------------
(* The IOP's interrupts: I_STAT and I_MASK with the soft lines of the DMA   *)
(* channels, timer 0, the vertical blank, the check that ends every         *)
(* instruction, the handlers that modules register (iop_hle_intr.c), the    *)
(* chains of handlers of the PS1 kernel (iop_excb.c) and the stub that      *)
(* answers for both at the general vector.                                  *)
(*                                                                          *)
(* Addresses are in words.  The interrupted program lies at 0 .. 99; a call *)
(* made at address a goes to the import stub at Import + a.  A program gives *)
(* every address the set of operations it may hold; handlers, the functions *)
(* of the chains and the boot ROM are a step or two of work and a return.   *)
EXTENDS Integers, FiniteSetsExt

CONSTANTS IopPrograms, \* what the IOP may execute (MCMachine describes the records)
          Frame,       \* IOP_CYCLES_PER_FRAME_NTSC
          Blank,       \* IOP_CYCLES_VBLANK_DURATION
          TimerMax,    \* the largest count of a 16-bit timer
          Wide         \* timer 0 has 32 bits, as timers 3 to 5 have

ASSUME IopAssumption == /\ Frame \in Nat /\ Blank \in 1..Frame - 1
                        /\ TimerMax \in Nat \ {0} /\ Wide \in BOOLEAN

VARIABLE iop

Vector == 100
BootVector == 110
HandlerReturn == 120
ExcbReturn == 130
Handler == 140
Function(node, second) == 150 + 10 * node + (IF second THEN 5 ELSE 0)
Import == 200

VblankStart == 0
DmaLine == 3
TimerLine == 4
VblankEnd == 11
Sif2 == 2
Spu2 == 7
Sif0 == 9
\* The soft lines 32 to 38 and 40 to 45 belong to the DMA channels.
SoftLine(ch) == IF ch <= 6 THEN 32 + ch ELSE 33 + ch
Soft(line) == line >= 32

Prios == 0..3

NoDebt == [due |-> FALSE, pc |-> 0, ie |-> <<FALSE, FALSE, FALSE>>, ra |-> 0]

\* Program p, with the vertical blank at a phase.
IopStart(p, phase) ==
  [prog |-> p, halted |-> IopPrograms[p].halted, pc |-> 0, npc |-> 1, ra |-> 0, own |-> TRUE,
   ie |-> <<TRUE, FALSE, FALSE>>, im2 |-> TRUE, bev |-> IopPrograms[p].bev,
   cause |-> "int", epc |-> 0, pend |-> FALSE, idle |-> FALSE, r2 |-> 0,
   stat |-> {}, mask |-> {}, hi |-> {}, mhi |-> {}, reg |-> {},
   disp |-> [on |-> FALSE, irq |-> 0, epc |-> 0, ra |-> 0, own |-> TRUE],
   head |-> [q \in Prios |-> 0], next |-> [n \in DOMAIN IopPrograms[p].nodes |-> 0],
   chain |-> [on |-> FALSE, prio |-> 0, node |-> 0, second |-> FALSE, irq |-> 0, epc |-> 0],
   spurious |-> {}, spuriousHi |-> {}, enabled |-> {}, master |-> FALSE,
   timer |-> [count |-> 0, target |-> 0, zero |-> FALSE, tint |-> FALSE, oint |-> FALSE,
              repeat |-> FALSE, ien |-> FALSE, reached |-> FALSE],
   phase |-> phase, debt |-> NoDebt]

----------------------------------------------------------------------------
(* Devices: they tick before every step of the core.                        *)

Raise(i, line) == [i EXCEPT !.stat = @ \cup {line}]

\* iop_dma_signal_channel_done(): the master line and the channel's soft line.
SignalDone(i, ch) ==
  IF i.master /\ ch \in i.enabled
  THEN [Raise(i, DmaLine) EXCEPT !.hi = @ \cup {SoftLine(ch)}]
  ELSE i

\* A timer that raises its line keeps its enable only when it repeats.
TimerRaise(i) == [Raise(i, TimerLine) EXCEPT !.timer.ien = i.timer.repeat]

\* The comparison with the target ...
TimerTarget(i) ==
  LET t == i.timer
      raised == IF t.tint /\ t.ien THEN TimerRaise(i) ELSE i
  IN IF t.reached \/ t.count < t.target THEN i
     ELSE IF t.zero
     THEN [raised EXCEPT !.timer.count = IF t.target # 0 THEN @ - t.target ELSE 0]
     ELSE [raised EXCEPT !.timer.reached = TRUE]

\* Mutant: the end of the count leaves the target marked as reached.
TimerOverflowReached(i) ==
  LET raised == IF i.timer.oint /\ i.timer.ien THEN TimerRaise(i) ELSE i
  IN IF i.timer.count <= TimerMax THEN i ELSE [raised EXCEPT !.timer.count = @ - (TimerMax + 1)]
\* ... and the one with the end of the count, which a 32-bit count cannot pass.
TimerOverflow(i) ==
  LET raised == IF i.timer.oint /\ i.timer.ien THEN TimerRaise(i) ELSE i
  IN IF i.timer.count <= TimerMax THEN i
     ELSE [raised EXCEPT !.timer.count = @ - (TimerMax + 1), !.timer.reached = FALSE]

\* STOPPED is never set: a store to MODE drops it.
TimerTick(i) ==
  TimerOverflow(TimerTarget(
    [i EXCEPT !.timer.count = IF Wide THEN (@ + 1) % (TimerMax + 1) ELSE @ + 1]))

CheckVblank(i) ==
  CASE i.phase = 0 -> Raise(i, VblankStart)
    [] i.phase = Blank -> Raise(i, VblankEnd)
    [] OTHER -> i

\* The prelude of iop_core_step().
Devices(i) == CheckVblank(TimerTick([i EXCEPT !.phase = (@ + 1) % Frame]))

----------------------------------------------------------------------------
(* Exceptions and the dispatch of interrupts.                               *)

Push(ie) == <<FALSE, ie[1], ie[2]>>
Pop(ie) == <<ie[2], ie[3], ie[3]>>

Goto(i, pc) == [i EXCEPT !.pc = pc, !.npc = pc + 1]
Vectored(i) == Goto(i, IF i.bev THEN BootVector ELSE Vector)

\* What the interrupted program is owed: to go on at pc with its own Status and
\* registers (history, which the core does not have).
Owed(i, pc) == [due |-> TRUE, pc |-> pc, ie |-> i.ie, ra |-> i.ra]

\* The end of an exception, at pc.
Resumed(i, pc) == Goto([i EXCEPT !.ie = Pop(@), !.debt = NoDebt], pc)

Entered(i, cause, epc, owed) ==
  [i EXCEPT !.cause = cause, !.epc = epc, !.ie = Push(@), !.pend = TRUE, !.debt = owed]

\* iop_hle_intr_dispatch_interrupt()
HandlerDispatch(i, line) ==
  Goto([i EXCEPT !.disp = [on |-> TRUE, irq |-> line, epc |-> i.epc, ra |-> i.ra, own |-> i.own],
                 !.ra = HandlerReturn], Handler)

EnterNode(i, node, second) ==
  Goto([i EXCEPT !.chain.node = node, !.chain.second = second, !.ra = ExcbReturn],
       Function(node, second))

\* The priorities from p on that have a chain.
Chains(i, p) == {q \in Prios : q >= p /\ i.head[q] # 0}

\* iop_excb_dispatch_interrupt()
ChainDispatch(i, line) ==
  LET p == Min(Chains(i, 0))
      c == [i.chain EXCEPT !.on = TRUE, !.prio = p, !.irq = line, !.epc = i.epc]
  IN EnterNode([i EXCEPT !.chain = c], i.head[p], FALSE)

Dispatch(i, line) == IF line \in i.reg THEN HandlerDispatch(i, line) ELSE ChainDispatch(i, line)
Taken(i, line) == line \in i.reg \/ Chains(i, 0) # {}

Pending(i) == i.stat \cap i.mask
SoftPending(i) == i.hi \cap i.mhi
FirstSoft(i) == {l \in SoftPending(i) : \A k \in SoftPending(i) : l <= k}

\* Mutant: only the first of the low lines is tried.
CandidatesFirst(i) == {l \in Pending(i) : l = Min(Pending(i)) /\ Taken(i, l)}
\* Every low line is tried in order, then the first of the soft ones.
Candidates(i) ==
  LET low == {l \in Pending(i) : Taken(i, l)}
  IN IF low # {} THEN low ELSE {l \in FirstSoft(i) : Taken(i, l)}

\* iop_check_hw_interrupt(); the program is owed the instruction at pc.
CheckHwInterrupt(i, epc, pc) ==
  LET e == Entered(i, "int", epc, Owed(i, pc))
  IN IF Pending(i) \cup SoftPending(i) = {} \/ ~i.im2 \/ ~i.ie[1] THEN i
     ELSE IF Candidates(i) # {} THEN Dispatch(e, Min(Candidates(i)))
     ELSE Vectored([e EXCEPT !.spurious = Pending(i), !.spuriousHi = FirstSoft(i)])

\* Mutant: EPC is the delay slot behind a taken branch.
EndStepAtPc(i, done, taken) ==
  CheckHwInterrupt(done, done.pc, IF taken THEN i.pc ELSE done.pc)
\* The end of iop_step(), after the instruction at i.pc has made done of i.  A
\* taken branch shows in next_pc, and is done again after the interrupt.
EndStep(i, done, taken) ==
  CheckHwInterrupt(done, IF done.npc # i.npc + 1 THEN i.pc ELSE done.pc,
                         IF taken THEN i.pc ELSE done.pc)

----------------------------------------------------------------------------
(* The steps of the core.                                                   *)

Ticked == Devices(iop)
Running == ~iop.halted /\ ~iop.idle

\* The operations of kind k that the address of pc may hold.
Fetched(k) == {op \in IF Running /\ iop.pc < Vector THEN IopPrograms[iop.prog].code[iop.pc + 1]
                      ELSE {} : op.k = k}
\* The call that led to this import stub.
Imported(k) == {op \in IF Running /\ iop.pc >= Import
                       THEN IopPrograms[iop.prog].code[iop.pc - Import + 1] ELSE {} :
                op.k = "call" /\ op.f = k}

Following(i) == [i EXCEPT !.pc = i.npc, !.npc = i.npc + 1]

\* An instruction that does not branch: done is its effect.
Plain(done) == iop' = EndStep(Ticked, Following(done), FALSE)

Nop == Fetched("nop") # {} /\ Plain(Ticked)

Branch == \E op \in Fetched("branch") :
            iop' = EndStep(Ticked, [Following(Ticked) EXCEPT !.npc = op.n], TRUE)

Jal == \E op \in Fetched("call") :
         iop' = EndStep(Ticked, [Following(Ticked) EXCEPT !.npc = Import + iop.pc,
                                                       !.ra = iop.pc + 2], TRUE)

\* SYSCALL 8, CpuEnableIntr(), is served without an exception; 0x10 and 0x14,
\* CpuSuspendIntr() and CpuResumeIntr(), are served and do nothing.
CpuEnableIntr == /\ Fetched("CpuEnableIntr") # {}
                 /\ iop' = EndStep(Ticked, Goto([Ticked EXCEPT !.ie[1] = TRUE, !.im2 = TRUE],
                                             iop.pc + 1), FALSE)
CpuSuspendIntr == /\ Fetched("CpuSuspendIntr") # {}
                  /\ iop' = EndStep(Ticked, Goto(Ticked, iop.pc + 1), FALSE)

\* Any other SYSCALL, BREAK, a trap or a reserved instruction.
Exception(i, cause) ==
  Vectored(Entered(i, cause, i.pc, IF i.debt.due THEN i.debt ELSE Owed(i, i.pc + 1)))
Trap == \E op \in Fetched("trap") : iop' = EndStep(Ticked, Exception(Ticked, op.f), FALSE)

\* MTC0 to Status, and the stores to I_STAT and I_MASK, to the enables of DICR and
\* DICR2 and to the timer; the store to a channel's CHCR is in Machine.
Mtc0 == \E op \in Fetched("mtc0") : Plain([Ticked EXCEPT !.ie[1] = op.n = 1])
StoreStat == \E op \in Fetched("stat") : Plain([Ticked EXCEPT !.stat = @ \ {op.n}])
StoreMask == \E op \in Fetched("mask") : Plain([Ticked EXCEPT !.mask = op.s])
StoreDicr == \E op \in Fetched("dicr") :
               Plain([Ticked EXCEPT !.master = op.n = 1, !.enabled = (@ \ 0..6) \cup op.s])
StoreDicr2 == \E op \in Fetched("dicr2") :
                Plain([Ticked EXCEPT !.enabled = (@ \ 7..12) \cup op.s])
StoreCount == \E op \in Fetched("count") : Plain([Ticked EXCEPT !.timer.count = op.n])
StoreTarget == \E op \in Fetched("target") : Plain([Ticked EXCEPT !.timer.target = op.n])
StoreMode ==
  \E op \in Fetched("mode") :
    Plain([Ticked EXCEPT !.timer = [@ EXCEPT !.count = 0, !.ien = TRUE, !.reached = FALSE,
                                             !.zero = "zero" \in op.s, !.tint = "target" \in op.s,
                                             !.oint = "overflow" \in op.s,
                                             !.repeat = "repeat" \in op.s]])

\* A call through an import stub returns without looking for interrupts.
Served(done) == iop' = Goto(done, iop.ra)

RegisterIntrHandler == \E op \in Imported("RegisterIntrHandler") :
                         Served([Ticked EXCEPT !.reg = @ \cup {op.n}])
ReleaseIntrHandler == \E op \in Imported("ReleaseIntrHandler") :
                        Served([Ticked EXCEPT !.reg = @ \ {op.n}])
\* For the line of a DMA channel, the channel and DICR's master enable as well.
EnableIntr ==
  \E op \in Imported("EnableIntr") :
    Served(IF Soft(op.n)
           THEN [Ticked EXCEPT !.mhi = @ \cup {op.n}, !.mask = @ \cup {DmaLine}, !.master = TRUE,
                               !.enabled = @ \cup {ch \in 0..12 : SoftLine(ch) = op.n}]
           ELSE [Ticked EXCEPT !.mask = @ \cup {op.n}])
DisableIntr ==
  \E op \in Imported("DisableIntr") :
    LET channels == {ch \in iop.enabled : SoftLine(ch) = op.n}
    IN Served(IF Soft(op.n)
              THEN [Ticked EXCEPT !.mhi = @ \ {SoftLine(ch) : ch \in channels},
                                  !.enabled = @ \ channels]
              ELSE [Ticked EXCEPT !.mask = @ \ {op.n}])
SysEnqIntRP == \E op \in Imported("SysEnqIntRP") :
                 Served([Ticked EXCEPT !.next[op.n] = iop.head[op.p], !.head[op.p] = op.n])
\* Only the first node of a chain can be taken out.
SysDeqIntRP == \E op \in Imported("SysDeqIntRP") :
                 Served(IF iop.head[op.p] = op.n
                        THEN [Ticked EXCEPT !.head[op.p] = iop.next[op.n]] ELSE Ticked)
\* A call that leaves no thread to run.
SleepThread == Imported("SleepThread") # {} /\ Served([Ticked EXCEPT !.idle = TRUE])

\* A handler uses the registers and returns.
HandlerWork == /\ Running /\ iop.pc = Handler
               /\ iop' = Goto([Ticked EXCEPT !.own = FALSE], Handler + 1)
HandlerReturns == /\ Running /\ iop.pc \in {Handler, Handler + 1}
                  /\ iop' = Goto(Ticked, iop.ra)

\* Mutant: the trampoline leaves exception_pending set.
TrampolinePending ==
  /\ Running /\ iop.pc = HandlerReturn
  /\ iop' = IF iop.disp.on
            THEN [Resumed(Ticked, iop.disp.epc) EXCEPT !.stat = @ \ {iop.disp.irq},
                     !.hi = @ \ {iop.disp.irq}, !.ra = iop.disp.ra, !.own = iop.disp.own,
                     !.disp.on = FALSE]
            ELSE Ticked

\* The trampoline it returns to.
Trampoline ==
  /\ Running /\ iop.pc = HandlerReturn
  /\ iop' = IF iop.disp.on
            THEN [Resumed(Ticked, iop.disp.epc) EXCEPT !.stat = @ \ {iop.disp.irq},
                     !.hi = @ \ {iop.disp.irq}, !.ra = iop.disp.ra, !.own = iop.disp.own,
                     !.disp.on = FALSE, !.pend = FALSE]
            ELSE Ticked

\* A function of a chain claims the interrupt, with $v0 = 0, or declines it.
NodeReturns ==
  /\ Running
  /\ \E n \in DOMAIN iop.next, second \in BOOLEAN :
       /\ iop.pc = Function(n, second)
       /\ \E r2 \in IopPrograms[iop.prog].nodes[n].answers :
            iop' = Goto([Ticked EXCEPT !.r2 = r2], iop.ra)

\* The function after the one that declined: the node's second, the next
\* node's, or that of the next chain.
Advance(i) ==
  LET c == i.chain
      later == Chains(i, c.prio + 1)
  IN IF ~c.second /\ IopPrograms[i.prog].nodes[c.node].second THEN EnterNode(i, c.node, TRUE)
     ELSE IF i.next[c.node] # 0 THEN EnterNode(i, i.next[c.node], FALSE)
     ELSE IF later # {}
     THEN EnterNode([i EXCEPT !.chain.prio = Min(later)], i.head[Min(later)], FALSE)
     ELSE Vectored([i EXCEPT !.chain.on = FALSE])

\* iop_excb_try_handle(): exception_pending stays set.
ChainReturn ==
  /\ Running /\ iop.pc = ExcbReturn /\ iop.chain.on
  /\ iop' = IF iop.r2 = 0
            THEN [Resumed(Ticked, iop.chain.epc) EXCEPT !.stat = @ \ {iop.chain.irq},
                     !.hi = @ \ {iop.chain.irq}, !.chain.on = FALSE]
            ELSE Advance(Ticked)

\* The stub at the vector: a trap goes on behind its instruction, an interrupt
\* that nobody took is acknowledged.
Stub ==
  /\ Running /\ iop.pc = Vector /\ iop.pend
  /\ iop' = IF iop.cause # "int"
            THEN [Resumed(Ticked, iop.epc + 1) EXCEPT !.pend = FALSE]
            ELSE [Resumed(Ticked, iop.epc) EXCEPT !.pend = FALSE,
                     !.stat = @ \ iop.spurious, !.hi = @ \ iop.spuriousHi,
                     !.spurious = {}, !.spuriousHi = {}]

\* With BEV the vector is in the boot ROM, which masks what it does not know
\* and returns by JR and RFE.
BootWork == /\ Running /\ iop.pc = BootVector /\ ~IopPrograms[iop.prog].breaks
            /\ iop' = Goto([Ticked EXCEPT !.stat = @ \ Pending(iop), !.mhi = @ \ SoftPending(iop)],
                           BootVector + 1)
Rfe == /\ Running /\ iop.pc = BootVector + 1
       /\ LET back == IF iop.cause = "int" THEN iop.epc ELSE iop.epc + 1
          IN iop' = CheckHwInterrupt([Resumed(Ticked, back) EXCEPT !.pend = FALSE], back, back)

\* BREAK in that ROM: the end of a SYSCALL that is not yet handled, and else an
\* exception of its own.
BootBreak ==
  /\ Running /\ iop.pc = BootVector /\ IopPrograms[iop.prog].breaks
  /\ iop' = EndStep(Ticked, IF iop.pend /\ iop.cause = "syscall"
                            THEN [Resumed(Ticked, iop.epc + 1) EXCEPT !.pend = FALSE]
                            ELSE Exception(Ticked, "break"), FALSE)

\* The core sleeps until an interrupt sets exception_pending.
IdleTick ==
  /\ ~iop.halted /\ iop.idle
  /\ LET i == CheckHwInterrupt(Ticked, iop.pc, iop.pc)
     IN iop' = [i EXCEPT !.idle = iop.pend \/ ~i.pend]

IopNext == \/ Nop \/ Branch \/ Jal \/ CpuEnableIntr \/ CpuSuspendIntr \/ Trap
           \/ Mtc0 \/ StoreStat \/ StoreMask \/ StoreDicr \/ StoreDicr2
           \/ StoreCount \/ StoreTarget \/ StoreMode
           \/ RegisterIntrHandler \/ ReleaseIntrHandler \/ EnableIntr \/ DisableIntr
           \/ SysEnqIntRP \/ SysDeqIntRP \/ SleepThread
           \/ HandlerWork \/ HandlerReturns \/ Trampoline
           \/ NodeReturns \/ ChainReturn \/ Stub \/ BootWork \/ Rfe \/ BootBreak \/ IdleTick

=============================================================================
