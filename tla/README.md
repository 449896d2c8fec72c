# PCSX2-Wii: a TLA+ verification project

PCSX2-Wii is a PlayStation 2 emulator in C for the Wii. It interprets (and, on the
Wii's PowerPC, translates) the code of the main CPU (EE), interprets the I/O
processor (IOP), and emulates in high level (HLE) the kernels of both: the
guest's threads and semaphores live in tables of the emulator. This directory
models the parts of it whose correctness depends on orders of events, and the
compiled code against the interpreter it replaces, checks them with TLC on small
instances, and proves the most important results with TLAPS for every size. `PROJECT.json` is the machine-readable index: which
definition models which lines, which run checks which property, which mutation of
the model each property catches.

## 1. The system

| part | sources | state | operations |
|---|---|---|---|
| EE HLE scheduler | `core/ee/ee_hle_thread.c` | TCBs, semaphores, current thread | 22 system calls, `reschedule()`, `check_preempt()` at ERET |
| EE core | `core/ee/ee_core.c` | registers, COP0, idle flag, pc/next_pc/branch_pending | `ee_step()`, exceptions, interrupts, HLE of SIF and file services |
| EE JIT | `core/recompiler/*.c` | cache of translated instructions | translate, look up, execute |
| IOP HLE scheduler | `hw/iop_hle_thread.c` | TCBs, semaphores, event flags, delays, alarms | about 40 calls, `iop_hle_thread_tick()` |
| IOP core, interrupts | `core/iop/iop_core.c`, `hw/iop_intc.c`, `iop_hle_intr.c`, `iop_excb.c` | registers, idle flag, I_STAT and I_MASK, handlers and chains, saved context | `iop_core_step()`, dispatch, return trampolines |
| IOP heap (SYSMEM) | `hw/iop_heap.c` | chained tables of block descriptors | allocate, free, queries, checkpoint |
| SIF | `hw/sif.c`, parts of `ee_core.c` | mailbox registers, bind table, FIFO of answers | register access, `sif_ee_tick()`, RPC bind and call |
| CDVD | `hw/iop_cdvd.c` | registers, command state | N and S commands, completion interrupt |
| EE DMA, VIF, VU, GIF | `hw/dma.c`, `vif.c`, `vu.c`, `gif.c` | channel registers, VIF and VU state, GS registers, vertex queues | transfers and chains, VIFcodes, microprograms, GS packets |
| INTC, timers | `hw/ee_intc.c`, `ee_timers.c`, `iop_*.c` | status, masks, counters | register access, ticks |
| SIO2, SPU2, IPU | `hw/*.c` | device registers | data paths |
| IOP module loader | `hw/iop_module_loader.c` | loaded modules, exports, start queue | load, link, start |
| checkpoint, front end | `checkpoint.c`, `main.c`, `system.c` | files, pads, video | save, restore, machine loop |

How they interact: `system.c` steps the EE and the IOP in turn. Each step of a
core executes one instruction, ticks the devices, and takes an interrupt if one is
pending and enabled. A system call of the guest kernel is caught by the core and
carried out on the HLE tables, which may exchange the live register file for
another thread's. The two CPUs see each other only through SIF. There are no host
threads: what is concurrent is the guest, its interrupt handlers and the two cores,
and the hard behaviours are

* a call, made from a thread or from a handler, that makes another thread better;
* an interrupt that arrives while a CPU idles because nothing can run;
* calls that are retried (`WaitSema`) after the world has changed;
* delays, alarms and deliveries counted in instructions;
* flags that both CPUs write, and answers whose buffer may not have been read;
* tables that are full, reused, or restored from a checkpoint;
* streams that a DMA transfer cuts in the middle of a command, a microprogram or an
  image, and three paths that share one GS;
* an instruction that is carried out in two ways, by the interpreter and by a block
  of PowerPC code, which have to agree in every state they can be mixed in.

`components` in `PROJECT.json` says of each part what is modelled; `hazards` lists the
lines where these behaviours bite and the properties that guard them.

## 2. The modules

| module | models | lines of C it stands for |
|---|---|---|
| `EEThread` | EE scheduler with interrupt entry, ERET and the idle branch | `ee_hle_thread.c`, 3 places of `ee_core.c` |
| `IOPThread` | IOP scheduler with tick, interrupt dispatch, return trampoline | `iop_hle_thread.c`, `iop_hle_intr.c`, `iop_core_step()` |
| `HeapArena`, `SysMem` | what the IOP heap promises | the contract of `iop_heap.h` |
| `IOPHeap` | the heap's chained descriptor tables | `iop_heap.c` |
| `Sif` | SMFLAG, F260 and the delayed BOOTEND | `sif.c` |
| `SifRpc` | INIT_CMD, bind, call, answer, CDVD completion | parts of `ee_core.c`, `sif.c`, `iop_cdvd.c`, `iop_hle_intr.c` |
| `EEWord`, `EEBits`, `EEState` | machine words, registers, memory and exceptions of the EE | `ee_core.h`, `ee_mem_*()`, `ee_raise_exception()` |
| `EEInterp`, `EECore` | the instructions, and `ee_step()` by the interpreter alone | the `switch` of `ee_step()`, its prelude |
| `PPC` | the PowerPC that blocks run on | the encoders of `ppc_dynarec.c`; the processor itself is external |
| `PPCDynarec` | the block for each instruction | `ppc_dynarec_translate_one()` |
| `EEJitCache`, `EEJit` | the block cache; `ee_step()` with the recompiler | `ee_jit.c` |
| `Dmac`, `Vif`, `Vu`, `Gif` | the units of the graphics path, as operators on their state | `dma.c`, `vif.c`, `vu.c`, `gif.c` |
| `EEGfx` | an EE program that feeds them, and what it may rely on | the program is external |
| `IOPIntr` | the IOP's interrupts, exceptions, timer and handlers | parts of `iop_core.c`, `iop_intc.c`, `iop_timers.c`, `iop_dma.c`, `iop_hle_intr.c`, `iop_excb.c` |
| `EEIrq` | the EE's interrupts, exceptions and timer | the end of `ee_step()`, `ee_core_park_tick()`, `ee_intc.c`, `ee_timers.c` |
| `Machine` | both cores in turn, and what one raises at the other | `system_run_interleaved()`, parts of `iop_dma.c`, `dma.c`, `iop_icfg.c` |
| `MCEEThread`, `MCIOPThread`, `MCSifRpc`, `MCEEJit`, `MCEEGfx`, `MCMachine` | instances for TLC | |
| `EEThreadProofs`, `SysMemProofs`, `SifProofs`, `SifRpcProofs`, `EEJitCacheProofs` | theorems | |

### EEThread

`thr` is the TCB table, `current` is `current_thread_id`, `sema` the semaphores,
`live` the one register file, `epc` what ERET will resume, `mode` tells thread
context, idle and handler apart. A register file is reduced to what the properties
tell apart: whose program it holds, how far that program is (a parity), and whether
its pc stands on a WaitSema that must be retried. The `ready_seq` stamps are only
ever compared, so `older` keeps their order instead of unbounded numbers. The
history variable `prog` is how far each program really is; comparing a saved context
with it shows a stale one.

Each system call is one action with its whole effect: `Reschedule` is
`reschedule()` with its early returns (nothing ready: idle; a handler: no switch),
`Dispatch` picks the thread and exchanges the registers, `Signalled` is what
follows a signal in thread and in handler context. `Interrupt` enters a handler,
`Eret(region)` leaves it and runs `check_preempt()`, which refuses when EPC is in
the kernel's trampoline; `IdleTick` is `ee_step()` while `st->idle` is set. Inputs
that fail a check return an error and advance the caller.

### IOPThread

The same abstraction, with what is different in the code: status is a set of bits
(a waiting thread may also be suspended), `current` is 0 while nothing runs,
`reschedule()` does not look at the CPU's mode, and time exists: `delay` and
`alarm[a].left` count instructions down to `iop_hle_thread_tick()`, modelled as
`Tick`, which precedes the fetch (`Fetches`). `Interrupt` and `HandlerReturns` are
the dispatch and the return trampoline of `iop_hle_intr.c`; `AlarmReturns` is the
alarm trampoline. `SetEventFlag` folds `WakeEvf` over the slots in order, as
`wake_evf_waiters()` does, so that a waiter with WEF_CLEAR takes the bits from the
ones behind it.

### SysMem and IOPHeap

`SysMem` is the promise: disjoint blocks in an arena; ALLOC_FIRST takes the lowest
place that fits, ALLOC_LAST the highest, ALLOC_LATER the place that is named; an
allocation fails only where nothing fits. `IOPHeap` is the code: tables of
descriptors, each block described by one. The tables are host memory and chained;
`do_maintain()` adds one when the check slot of the last is in use and drops the
last one when that slot of the one before it is not. `ImplementsSysMem` is the
refinement: the blocks of `SysMem` are the allocated descriptors. A failing
`malloc()` of the host is not modelled.

### Sif

The IOP stores to SMFLAG, the EE clears bits by writing ones, and once the IOP has
booted a cleared BOOTEND is put back `Delay` instructions later by `sif_ee_tick()`.
The EE's program is external; it is reduced to the two loops the comments of
`sif.c` describe, with at most `Recheck` instructions between two accesses.

### SifRpc

The system call `SifSetDma` looks at what the EE sends. A bind is entered in the
table of services, answered through a FIFO and a countdown; a call is answered the same
way, except that a CDVD N command waits until the IOP's handler of interrupt 2 has
counted a completion. The answer is written to the EE's single receive buffer,
raises SIF0's interrupt, and signals the client's semaphore. The EE's clients and
its SIF0 handler are external.

### EECore, PPCDynarec and EEJit

`EECore` is what a step of the EE promises: the null-pointer guard, the fetch with its TLB
miss, or an instruction carried out by `Interpret`, with delay slots, annulled slots of
likely branches and the exception state that a fault inside a delay slot needs.
`EEJit` is what the Wii does: `CachedStep`, `CompileStep`, `DeclineStep` and
`UnsupportedStep` are the ways through `ee_jit_try_execute_one()`, and the first two
run the block that `Translate` builds on the machine of `PPC`. `Translate` follows
`ppc_dynarec_translate_one()` instruction by instruction: which PowerPC instruction,
which scratch register, which offset. `PPC` loads and stores the EE context as the
big-endian structure it is, keeps the carry bit, and lets a called C function
destroy every volatile register. The property is `InterpreterKept`, which says that
`EEJit` implements `EECore`. Of COP1 and COP2, the transfers, the operations on the bits of a float,
the integer registers of VU0, its vector moves and the branches on the condition bit are included;
`Start` is a state after ResetEE has initialised VU0.

Widths are parameters: a byte has `2^LogByte` bits, a word four bytes, and every
constant of the code that stands for a width (31, 24, 0x8000, the shift by 3) is
written with them; byte counts and the offsets of fields are the code's own, the
address space is scaled with the word. Undefined results (`divw` by zero and of the
smallest number by -1, the upper bits of a narrow C result, volatile registers after a
call) are `Junk`: one value that the run fixes (165), not all values. `EECore` allows one difference, described in section 5: the mark
of the slot behind a branch that is not taken. It also leaves out branches in
delay slots, which MIPS leaves undefined, so nothing is said of those.

### Dmac, Vif, Vu, Gif and EEGfx

All of the graphics path acts inside the store to CHCR that starts a transfer: the
DMA controller hands block after block to the VIF or the GIF, the VIF executes its
codes, MSCAL runs a microprogram to its end, XGKICK and DIRECT send packets to the
GIF, and the GIF draws. So each unit is an operator on a record of its state
(`dma_channel_kick`, `VifProcess`, `RunMicro`, `GifProcess`), and one action of
`EEGfx` is one such store with all it causes. What is nondeterministic is the program: how it cuts its two streams
into normal transfers and chains (REF, CNT, NEXT, with good and bad ends), and in which
order it serves the channels.

A word is a number, a VIFcode, half of an instruction pair or a quarter of a GIF quadword; a
GS register is a name, a context and one value; a rasterizer is the log of what it was
called with. Kept are the things that are hard to get right across a cut: the
cursors of UNPACK under STCYCL, mask and mode, what MPG and UNPACK still lack,
the pixels an image is owed, the vertex queues, the delay slots of branches and of the
E bit, and the two contexts with the active copy.

The program keeps a discipline, which the code relies on and nothing checks: `CutAllowed` (STMASK,
STROW, STCOL and DIRECT data, and the rows of a PACKED or REGLIST packet, come in
one block) and `Exclusive` (no VIF transfer while the GIF is owed pixels).

### IOPIntr, EEIrq and Machine

Each core is one record: pc and next_pc, the part of COP0 that interrupts use, the status and mask
registers, a timer and the phase of the vertical blank. A step of a core is an action with everything
`iop_core_step()` or `ee_step()` does: on the IOP the devices tick (`Devices`), the instruction
executes, and `EndStep` looks for an interrupt; on the EE the instruction comes first
and `EeTail` ticks the devices and makes the three checks. `CheckHwInterrupt` keeps the order of the
code: every low line that has a handler or a chain, then the first soft line, then the
stub at the vector, which may acknowledge only what was pending when it was entered.
`Machine` alternates `Ratio` steps of the EE with one of the IOP and adds the three actions that touch both
cores: `SifSetDma`, `StoreChcr` and `StoreIcfg`.

A program gives each address the set of operations it may hold, so that the guest is
nondeterministic where it matters (which mode a timer has, whether interrupts are disabled here) and has a
pc that delay slots, EPC and the trampolines are about. The guest's handlers, the
EE's kernel and the boot ROM are external: a step or two of work and a return. The EE's handler serves one
line at a time and rearms the timer by writing MODE back. `debt` is history: where, and with
which interrupt enable and registers, the interrupted program has to go on. The dispatch of threads in these
same handlers is the subject of `EEThread` and `IOPThread`.

## 3. The runs

| run | instance | shows |
|---|---|---|
| `ee_all` | 2 threads, 1 semaphore, every call, interrupts in thread and idle | one RUN thread, no mixed registers |
| `ee_threads` | 3 threads, 2 priorities, a semaphore, handlers that signal and wake | every resume is exact, no blocked thread executes, no lost signal, exact `wait_threads`; a best READY thread is dispatched |
| `ee_idle_irq` | 2 threads, interrupts also while idle | **violated**: the blocked thread executes after ERET |
| `iop_threads` | 3 threads; scheduling calls (two sets), or 1 semaphore and 1 alarm, or 1 flag of 2 bits with AND and OR\|CLEAR | the same for the IOP, with suspend and resume; the best thread runs where no handler interferes; signals handed over and counted exactly; no satisfied waiter stays blocked |
| `iop_time` | 2 threads; delays, with or without a semaphore that is deleted, or 2 alarms; interrupts also while idle | never idle over a runnable thread, dispatches do not nest, every due alarm is served |
| `iop_heap` | 4 units, tables of 4 descriptors | the chain tiles the arena, exact queries, refinement |
| `sif` | Delay 5, Recheck 3, 2 stores of the IOP | BOOTEND comes back, not too early, both loops end |
| `sifrpc` | 3 clients, queue and table of 3 | every answer given once, none overwritten, every request returns |
| `jit` | 719 instructions, bytes of 2 bits, a cache of 2 | compiled code is the interpreter, blocks keep their caller's frame, the cache loses nothing |
| `gfx` | 472 programs: every UNPACK format, cycle and mode, every primitive in both contexts, microprograms, an image | nothing depends on the cuts; UNPACK, images, microprograms and primitives are what references without cursors and queues say; a channel in error says so |
| `machine` | 11 pairs of programs for the two cores: handlers, DMA, chains, traps, the boot ROM's vector, page faults, sleeping cores, a transfer from core to core | every interrupt and exception goes back exactly where it has to; no line with a handler is acknowledged for it; every unmasked line is served; timers fire again and again |
| `jit_lq` | LQ into its own base register | **violated**: the second half is read at another address |

Why the bounds are enough. Two threads give every pair of a caller and a target;
three are needed for an order among two waiters while a third calls. Two
priorities give better, equal and worse. A count to 1 gives a semaphore that is
empty and full. Contexts carry a parity, so the state space
does not grow with the programs' length. The heap's four units with tables of four
descriptors make tables appear, fill, merge and disappear. Queue and table sizes equal
to the number of clients are the boundary the code relies on (8 and 16 in the code).
`Calls` (on the IOP, the repertoires of `Programs`, one of which is chosen at the
start) limits a run, so that each question gets as many threads as it needs.
The EE's runs contain every call. On the IOP three variants are in no passing run: a thread that suspends itself and
its handler form (section 5), and iChangeThreadPriority. Called from an alarm's callback
that one may switch the callback's thread out, and no other alarm is dispatched
while better threads run: `AlarmServed` fails for AlarmCalls with it.
The semaphore and flag programs of `iop_threads` identify states by `SyncView`, which leaves out the
parities `at` and `prog` and the mark `clob` (`ThreadView`; the scheduling programs keep
the full state). They are written and never read by an action; of the run's invariants
only `ContextFresh` mentions them, which is therefore claimed for the scheduling programs alone.
Wakeups, waits and counts have bounds that are guards of the actions and constants
with comments.

For the recompiler, a byte of two bits gives words of 8 and doublewords of 16 bits, in
which carries, signs, shift counts of zero and of a whole word, and the two
halves of a register are as distinct as in the code. Every instruction
of 569 runs for one step from 44 states that put zero, the ends of the ranges and mapped,
mirrored and unmapped addresses in its operands, also in a delay slot and inside a
handler, with operands that coincide and with `$zero`; the 142 instructions of COP1 and COP2 run for
one step from 25 states of their own. In one step a block is always
newly built. Runs of four steps over eight other instructions mix built, cached
and interpreted steps, branches, faults and a cache that fills up; only these reach a
block that is found in the cache.

For the machine, a frame is 24 steps of the IOP and 16 of the EE, a timer counts to 11 and to 7, and Count to 48:
the periods do not divide each other and each program starts at several phases, so that
interrupts meet every instruction, delay slots and import stubs among them. They are
longer than the handlers take, as they are in the code; a source that comes
faster than it can be served starves the lines behind it and says nothing about the code. The ratio is 2 in
the run (8 in the code): between two steps of the IOP the EE takes more than one. Programs for one
core alone halt the other one, which the loop then skips.

Deadlock is not checked for the IOP scheduler's runs, because without interrupts a guest
may block all of its threads for ever, and for the recompiler's, whose steps are
counted down.

### Fairness

* `EEThread.FairSpec`: VBLANK and the timers interrupt again and again (weak fairness of
  `Interrupt`), every handler ends, and the program does not only stand in the
  four-instruction trampoline when it is interrupted (strong fairness of `Eret` for
  each region). No call or instruction of the program is assumed to come.
* `IOPThread.FairSpec`: `system.c` steps the core for ever (strong fairness of a program's
  `Step`, weak fairness of `Tick` and `IdlePoll`), handlers and callbacks end (strong
  fairness, because a switch or a tick may come in between), and where
  interrupts are enabled they keep coming.
* `Sif.FairSpec`: the EE executes its loop; its gap between accesses is bounded. The IOP
  need not do anything.
* `SifRpc.FairSpec`: EE instructions pass, the EE's SIF0 handler runs, the IOP takes
  interrupt 2 and its handler returns (weak fairness); a client that is
  signalled infinitely often returns (strong fairness of `Returns`: its wait is
  disabled while the semaphore is momentarily empty).
* `Machine.MachineSpec`: `system_run_interleaved()` goes round for ever (weak fairness of `Steps`, any step
  of the loop). Nothing is assumed of a guest beyond that its next instruction executes.

## 4. The theorems

All for every value of the constants that satisfies the named assumptions.

* **EEThreadProofs** (any number of threads and semaphores, any repertoire of calls).
  `TypeCorrect`, `OnlyCurrentRuns` (`RunIsCurrent`) and `RegistersNotMixed`
  (`OwnRegisters`). `OwnRegisters` alone is not inductive: whether the registers
  saved by a switch are the current thread's depends on the mode. `IInv` adds that
  in thread and idle mode the live registers are the current thread's, that in a
  handler EPC's are, and that each READY or waiting TCB holds its own.
  `SoundTable` is stated for a table and a current thread so that
  the lemmas about `SwitchOut`, `Dispatch` and `Reschedule` are used by every
  action.
* **SysMemProofs**: `HeapNoOverlap`: two callers never own the same memory, for every
  arena; together with the checked refinement this is about the code's heap.
* **SifProofs**: `BootendComesBack` (a BOOTEND that is missing after the boot is
  scheduled) and `RecheckSeesNothing` (it is not back before the kernel's
  recheck), from `Recheck + 2 <= Delay`. The inductive invariant relates the
  loop's `gap` to the ticks that are left.
* **EEJitCacheProofs**: `CacheNeverLosesABlock` (`CachedFound`): for every number of slots and
  every set of instructions, an entry is what the lookup of its instruction finds. The
  inductive invariant says of each entry how it is reached: some probe of its
  instruction leads to it, and all earlier probes lead to entries of other instructions;
  that is kept because an insert fills the first free probe and entries are only dropped all
  together.
* **SifRpcProofs**: `NoAnswerLost`, `NoPacketOverwritten`, `CallsGoWhereBound`,
  `CdvdCompletes`, for any finite set of clients not larger than queue and table,
  and `Latency <= Delay + 1`. `IInv` is the conjunction of types, where each
  outstanding answer is (`OnTheWay`), the state of the receive buffer against SIF0
  (`Handshake`), the countdowns (`Timing`), CDVD completion, and the table. That
  the FIFO cannot overflow is a pigeonhole argument: its entries are distinct
  clients.

Only model-checked: that blocks implement the interpreter (bitwise arithmetic and a recursive
run of a block); all liveness (`BestReadyRuns`, `AlarmServed`, `LoopsEnd`,
`RequestsReturn`, `LinesDrain`, `TimersFire`), which is beyond the prover; precision of
exceptions (`Precise`, `HandledKept`); the IOP scheduler; and that `IOPHeap`
implements `SysMem`, whose block tables need induction over sequences.

## 5. Where the code and its comments disagree

Two disagreements are runs. `jit_lq`: the block for `LQ rt, imm(rs)` stores the first half
and then computes the address of the second from `rs` (`ppc_dynarec.c:2385`), which
for `rt = rs` holds loaded data by then. `ee_idle_irq`: an interrupt taken while the EE idles
returns to the blocked thread's pc with `idle` cleared, so that a WAIT thread
executes (`ee_core.c:3757`). The following were met in the same way; each can
be reproduced with the property and the constants named. On the IOP, `Programs` is
`{Runs(calls, irqs)}` with the calls and the interrupts given (none if none are
named), 2 threads, 2 priorities, 1 semaphore, 1 flag of 2 bits, 1 alarm, MaxWaits 1
and Durations {1} unless the row says otherwise; `SemaCalls` and `EvfCalls` are those of
`MCIOPThread`. The EE's rows use `EEThread_threads.cfg`, SIF's `Sif.cfg` and the
recompiler's `EEJit.cfg`, the graphics path's `EEGfx.cfg`, the machine's `Machine.cfg` with
the EE halted and the IOP's program described.

| place | what happens | property, repertoire |
|---|---|---|
| `iop_core.c:2168` | the same on the IOP; `iop_core.h:67` says an idle core executes nothing | `BlockedNeverExecutes`, {CreateSema, WaitSema}, irqs {idle} |
| `iop_hle_thread.c:895` | DelayThread saves the context before it moves pc to `$ra`: the thread delays again | `ContextFresh`, {DelayThread} |
| `iop_hle_thread.c:885` | a delay counts instructions, which stand still while the core idles | `DelayEnds` under FairSpec, {DelayThread}, Durations {2} |
| `iop_hle_thread.c:851` | a thread that suspends itself loses its registers | `ContextFresh`, {CreateThread, StartThread, SuspendSelf, ResumeThread} |
| `iop_hle_thread.c:384` | a waiter that is also suspended misses SetEventFlag | `EvfNoMissedWake`, EvfCalls with SuspendThread, ResumeThread, irqs {thread} |
| `iop_hle_thread.c:721` | ReleaseWaitThread keeps an event flag's waiter count | `WaitsExact`, EvfCalls with ReleaseWaitThread, irqs {thread} |
| `iop_hle_thread.c:958` | DeleteSema leaves its waiters blocked | `NoOrphanWaiter`, SemaCalls with DeleteSema |
| `iop_hle_thread.c:1364` | an alarm dispatched while idle is not executed and blocks the others | `AlarmServed` under FairSpec, {SetAlarm, SleepThread}, 2 alarms and callbacks, Durations {2, 3} |
| `iop_hle_thread.c:515` | the alarm trampoline frees a new alarm in the old one's slot | `AlarmReturnsToItsOwn`, {SetAlarm, iSetAlarm, iCancelAlarm} |
| `iop_hle_thread.c:1368` | a dispatch overwrites `$a0` and `$ra` of what it interrupts | `AlarmTransparent`, {SetAlarm} |
| `iop_hle_thread.c:979` | a thread made READY in a handler waits for the next call | `BestReadyRuns` under FairSpec, SemaCalls, irqs {thread} |
| `iop_module_loader.c:1589` | the loader's trampoline idles over a READY thread | `NeverIdlesOverReady`, SemaCalls with ModulesDone, irqs {thread, idle} |
| `iop_hle_thread.c:302` | a switch in a handler that interrupted the idle core loses the handler | `HandlerNotLost`, {CreateThread, StartThread, SleepThread, iWakeupThread, ModulesDone}, irqs {idle} |
| `ee_hle_thread.c:992` | SignalSema raises the count as well as waking (comment at 542: "transfers") | `SignalTransferred`, ThreadCalls |
| `ee_hle_thread.c:757` | TerminateThread keeps `wait_threads`: DeleteSema fails for ever | `DeleteRefusedOnlyForWaiters`, TerminateCalls |
| `sif.c:181` | a clear of other bits while BOOTEND is pending does not restart the delay, so that the recheck may see BOOTEND (comment at 77) | `ClearWindow` |
| `sif.c:288` | a sentinel in F260 from before the boot stays | `F260Published` |
| `ppc_dynarec.c:1015` | the block of a branch not taken leaves `branch_pending` 0 (`ee_core.h:64`: "any taken-or-not regular branch"): a fault in the slot has EPC in the slot and BD clear | `InterpreterKept` with `Untaken` of `EECore` false |
| `ppc_dynarec.c:4307` | blocks read VF00 from its slot, which the comment at 4273 calls "kept correctly hardwired", with a "reset-time" store: `ee_core_init()` clears it, and only ResetEE with INIT_VU0 (`ee_core.c:4250`) stores the 1.0 that the interpreter always reads | `InterpreterKept`, `vu0_vf[0]` all zero in `Start` |
| `ee_jit.c:375` | a full cache compiles an instruction at every execution and never frees the block (comment: "not leaked here") | `BlocksOwned` without its premise |
| `ee_jit.c:435` | the failure of a translation "should be unreachable", while the comment at 319 lets MULT1 and others pass the filter and fail: they are tried again at each execution | `DeclineStep` of the `jit` run (instruction 7), no property |
| `vif.c:216` | a three-component UNPACK is read as four components, and the word behind its data is taken for data (`vif.c:75`: "bytes of data in the source stream needed for each vector") | `VifExact`, Programs <- V3Programs |
| `gif.c:2593` | pixels owed to an image are taken from the buffer of another path (comment at 2589: "no path left where a stale non-zero counter can keep swallowing future calls' data") | `ImageExact`, Programs <- CarryPrograms, Exclusive = FALSE |
| `iop_excb.c:246` | a chain that claims an interrupt leaves `exception_pending` set (`iop_hle_intr.c:422` calls its own trampoline "the one remaining place that dispatches through exception_pending without ever clearing it"): a core that idles later never wakes | `LinesDrain`; one node that claims line 0, then SleepThread in a loop, calls made with interrupts disabled |
| `iop_excb.c:154` | a chain's dispatch overwrites `$ra` and the claim does not restore it: between a call's delay slot and its import stub, the call returns into the trampoline with no dispatch active | deadlock; one node that claims line 0, a loop with a call and interrupts enabled, phases 0..23 |
| `iop_excb.c:265` | an interrupt that every node declines goes to the stub, which acknowledges only what was noted when no chain existed: it is raised again for ever | `LinesDrain`; one node that declines line 0 |
| `iop_core.c:1680` | BREAK ending a SYSCALL moves pc, which the check at the end of the step takes for a branch: an interrupt then has the BREAK as its EPC | `LinesDrain`; BEV, `breaks`, line 0 unmasked, SYSCALL in a loop, phases 0..23 |
| `iop_timers.c:165` | the target of a 32-bit timer that does not return to zero is reached once: the mark is "cleared only on overflow" (159) and a 32-bit count is never above 0xFFFFFFFF | `TimersFire`, Wide = TRUE, target 9 with repeat |

Seen in the sources of the graphics path, without a property: a chain whose data lies
outside memory returns with STR set (`dma.c:239`), while the comment at `dma.c:298`
gives "rather than leaving STR set forever" as the reason to clear it on other errors; `vif.c:369` says that
`vif_process` stops at an unsupported command, its default arm goes on; a vertex is offset by the
active XYOFFSET, which is the last one drawn with or written to context 1, not the one PRIM selects
(`gif.c:1296`, `include/core/hw/gif.h:153`); `include/core/hw/gif.h:14` calls REGLIST and IMAGE "not implemented".

The passing runs keep to repertoires and instances without these. Three more were seen and are
outside the models: a CDVD reply reads an ERROR register that the IOP's handler may have
cleared (`ee_core.c:3149`); a read sent while one is in flight is answered 0
without reading (`ee_core.c:3071`); a LOADFILE call whose module is missing is
not answered (`ee_core.c:5870`; in `SifRpc` the client is then stuck).

## 6. Not modelled, and the plan

* `EECore` grows by the TLB writes of COP0 and by the instructions that have no block, the
  doubleword unaligned accesses first. Interrupts, ERET and SYSCALL are in `EEIrq`, over
  programs of its own instead of `EECore`'s instructions.
* `PPCDynarec`: the blocks of COP1 and COP2 that do floating-point arithmetic, as far as which
  operands and which destination they take.
* The instructions of the R3000, and IOP programs whose handlers run the scheduler of `IOPThread`
  inside `IOPIntr`.
* `CDVD`: register file, commands, the ERROR register and the reply's contents.
* `SIO2`, `ModuleLoader`, `Checkpoint`; the timers' clock dividers.
* Out of reach or not worth a model: floating point of FPU and VU, pixels of the
  GS, samples of SPU2, file formats, libogc.

What is mapped is a small part of the repository, because most of that is not the emulator:
`docs/reference/` keeps sources of PCSX2 for reference, and `tools/` and `tests/` together are as
large as `source/`. More than half of `ee_core.c` is comments; much of the rest of it patches or
diagnoses particular BIOS addresses, and `gif.c` is mostly rasterization.

Next theorems: that `IOPThread` keeps registers apart (the argument of
`EEThreadProofs`), and the initial step and the frame of the heap's refinement.
