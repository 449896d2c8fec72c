----------------------------- MODULE MCMachine -----------------------------
(* Small programs for Machine.  A program gives every address the set of    *)
(* operations it may hold: k names the operation, n is its operand (a line, *)
(* an address, a value), f the function a call imports or the cause of a    *)
(* trap, p a priority and s a set of mode bits or lines.  A core without a  *)
(* program of its own is halted.  On the IOP, bev says where exceptions go, *)
(* nodes are the exception chain's functions, and breaks says that the boot *)
(* ROM ends a system call with BREAK; on the EE, paged is the pages that    *)
(* have to be mapped and period the distance the kernel moves Compare by.   *)
(* The phases are those of the vertical blank the program may start at.     *)
EXTENDS Machine

Op(k, n, f, p, s) == {[k |-> k, n |-> n, f |-> f, p |-> p, s |-> s]}
K(k) == Op(k, 0, "", 0, {})
KN(k, n) == Op(k, n, "", 0, {})
KS(k, n, s) == Op(k, n, "", 0, s)
N == K("nop")
\* A call and its delay slot.
Call(f, n) == <<Op("call", n, f, 0, {}), N>>
CallP(f, n, p) == <<Op("call", n, f, p, {}), N>>
\* A loop of a body over and over, after a prologue.
Loop(pre, body) == pre \o body \o <<KN("branch", Len(pre)), N>>

\* No instruction of the IOP's loops branches to the second instruction behind it:
\* next_pc cannot tell that branch from none, and its outcome is the same.
Iop(code) == [code |-> code, halted |-> FALSE, bev |-> FALSE, breaks |-> FALSE, nodes |-> <<>>,
              phases |-> {0, 4, 9}]
Boot(code, breaks) == [Iop(code) EXCEPT !.bev = TRUE, !.breaks = breaks]
IopHalted == [Iop(<<N>>) EXCEPT !.halted = TRUE, !.phases = {0}]

\* Handlers for the vertical blank and the timer, none for its end; the loop runs
\* with interrupts disabled for a while.
IopHandlers ==
  Iop(Loop(Call("RegisterIntrHandler", 0) \o Call("EnableIntr", 0) \o Call("EnableIntr", 11)
           \o <<KN("target", 9)>> \o Call("RegisterIntrHandler", 4) \o Call("EnableIntr", 4)
           \o <<KS("mode", 0, {"target", "repeat"}) \cup KS("mode", 0, {"target", "repeat", "zero"})
                \cup KS("mode", 0, {"overflow", "repeat"}) \cup KS("mode", 0, {"target"}),
                N \cup KN("count", 7)>>,
           <<N \cup KN("mtc0", 0), K("CpuSuspendIntr"), N \cup KN("stat", 4), KN("mtc0", 1) \cup K("CpuEnableIntr")>>))

\* Two DMA channels with handlers, their enables stored in between; a handler is
\* released and a channel disabled.
IopDma ==
  Iop(Loop(Call("RegisterIntrHandler", SoftLine(Sif2)) \o Call("RegisterIntrHandler", SoftLine(Spu2)),
           Call("EnableIntr", SoftLine(Sif2)) \o Call("EnableIntr", SoftLine(Spu2))
           \o <<KN("mtc0", 0) \cup N, KN("chcr", Sif2), KN("chcr", Spu2) \cup Op("chcr", Sif2, "bad", 0, {}),
                KN("mtc0", 1), KS("dicr", 1, {Sif2}) \cup KS("dicr", 0, {}) \cup KS("dicr2", 0, {}), N>>
           \o Call("DisableIntr", SoftLine(Spu2))))
IopReleased ==
  Iop(Loop(Call("RegisterIntrHandler", 0) \o Call("RegisterIntrHandler", 11)
           \o Call("EnableIntr", 0) \o Call("EnableIntr", 11),
           Call("ReleaseIntrHandler", 0) \o <<N>> \o Call("DisableIntr", 11) \o <<N, N>>
           \o Call("RegisterIntrHandler", 0) \o Call("EnableIntr", 11)))

\* The chains of two priorities: the first node declines, in both its functions.
\* The calls are made with interrupts disabled, because a chain does not keep $ra.
IopChains ==
  [Iop(Loop(<<KN("mtc0", 0)>> \o CallP("SysEnqIntRP", 2, 2) \o Call("RegisterIntrHandler", 11)
            \o Call("EnableIntr", 11) \o Call("EnableIntr", 0),
            CallP("SysEnqIntRP", 1, 1) \o CallP("SysEnqIntRP", 3, 2) \o <<KN("mtc0", 1), N, KN("mtc0", 0)>>
            \o CallP("SysDeqIntRP", 1, 1) \o CallP("SysDeqIntRP", 2, 2) \o CallP("SysDeqIntRP", 3, 2)
            \o <<KN("mtc0", 1), N, KN("mtc0", 0)>>))
     EXCEPT !.nodes = <<[second |-> TRUE, answers |-> {1}], [second |-> FALSE, answers |-> {0}],
                        [second |-> FALSE, answers |-> {0, 1}]>>]

\* A thread that sleeps until the next interrupt, and traps.
IopSleeper ==
  Iop(Loop(Call("RegisterIntrHandler", 0) \o <<KS("mask", 0, {0}) \cup KS("mask", 0, {0, 11})>>,
           Call("SleepThread", 0) \o <<Op("trap", 0, "syscall", 0, {}) \cup N, N,
                                       Op("trap", 0, "break", 0, {}) \cup N, N>>))

\* The boot ROM's vector, with and without interrupts.
IopBoot == Boot(Loop(Call("RegisterIntrHandler", 0) \o <<KS("mask", 0, {0, 11})>>,
                     <<Op("trap", 0, "syscall", 0, {}), N, N>>), FALSE)
IopBootBreaks == Boot(Loop(<<>>, <<Op("trap", 0, "syscall", 0, {}), N>>), TRUE)

\* What the EE sends, and what it is sent.
IopSender ==
  [Iop(Loop(Call("RegisterIntrHandler", 42) \o Call("EnableIntr", 42),
            <<K("icfg"), N, KN("chcr", Sif0) \cup Op("chcr", Sif0, "refused", 0, {})>>))
     EXCEPT !.phases = {0}]

----------------------------------------------------------------------------

Ee(code) == [code |-> code, halted |-> FALSE, paged |-> {}, period |-> 9,
             phases |-> {0, 3, 5, 8, 10, 13}]
EeHalted == [Ee(<<N>>) EXCEPT !.halted = TRUE, !.phases = {0}]

\* Every source unmasked; the loop disables interrupts for a while.
EeBusy ==
  Ee(Loop(<<KN("compare", 5), KN("imask", VBLANK_START), KN("imask", VBLANK_END), KN("imask", TIMER0),
            KN("comp", 5),
            KS("mode", 0, {"cue", "cmp"}) \cup KS("mode", 0, {"cue", "cmp", "zero"})
              \cup KS("mode", 0, {"cue", "ovf"}),
            N \cup KN("count", 7), KS("status", 1, {IP2, IP7})>>,
          <<K("DI") \cup N, N, K("likely"), K("EI"), K("EI")>>))

\* Faults, in and out of delay slots, in a program that interrupts reach too.
EeFaults ==
  [Ee(Loop(<<KN("imask", VBLANK_START), KS("status", 1, {IP2})>>,
           <<K("syscall"), K("load"), K("unmap"), KN("branch", 8), K("load"), N, K("unmap"), K("unmap")>>))
     EXCEPT !.paged = {9, 11}]

\* A core that sleeps, with IE set or clear.
EeSleeper ==
  Ee(Loop(<<KN("compare", 5), KN("imask", VBLANK_START), KS("status", 1, {IP2, IP7})>>,
          <<KS("status", 0, {IP2, IP7}) \cup N, K("sleep"), N>>))

\* The other side of IopSender: it sends, and sleeps until the IOP's store to ICFG.
EeSender ==
  [Ee(Loop(<<KN("dctrl", 1), KN("dmask", SIF0), KN("imask", SBUS)>>,
           <<KS("status", 1, {IP2, IP3}), K("setdma"), N, KS("status", 1, {IP2}), K("sleep"), K("DI"), K("EI")>>))
     EXCEPT !.phases = {0}]

MCEePrograms == <<EeHalted, EeHalted, EeHalted, EeHalted, EeHalted, EeHalted, EeHalted,
                  EeBusy, EeFaults, EeSleeper, EeSender>>
MCIopPrograms == <<IopHandlers, IopDma, IopReleased, IopChains, IopSleeper, IopBoot, IopBootBreaks,
                   IopHalted, IopHalted, IopHalted, IopSender>>

=============================================================================
