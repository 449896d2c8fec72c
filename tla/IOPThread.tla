----------------------------- MODULE IOPThread -----------------------------
(***************************************************************************)
(* The high-level-emulated IOP kernel (THREADMAN) of                       *)
(* source/hw/iop_hle_thread.c: threads, semaphores, event flags, delays    *)
(* and alarms, with what drives it: iop_core_step(), which ticks the       *)
(* scheduler before every instruction and while the core is idle, and the  *)
(* interrupt dispatch and return of source/hw/iop_hle_intr.c.              *)
(*                                                                         *)
(* As in EEThread a register file is abstracted to whose program it holds  *)
(* (own), the parity of the instructions that program has executed (at)    *)
(* and where its pc stands: in the program's body, on the DelayThread      *)
(* gate, on the module loader's trampoline ("done"), in an interrupt       *)
(* handler or in an alarm callback.  clob is 1 once an alarm dispatch has  *)
(* overwritten its $a0 and $ra.  prog is history: the parity each thread's *)
(* program really reached.                                                 *)
(*                                                                         *)
(* Unlike the EE kernel, reschedule() does not look at the CPU's mode, and *)
(* current_thread_id is 0 while nothing runs.                              *)
(***************************************************************************)
EXTENDS Integers, FiniteSets, SequencesExt

CONSTANTS
    MaxThreads,    \* IOP_HLE_THREAD_MAX_THREADS
    MaxSemas,      \* IOP_HLE_THREAD_MAX_SEMAS
    MaxFlags,      \* IOP_HLE_THREAD_MAX_EVFLAGS
    MaxAlarms,     \* IOP_HLE_THREAD_MAX_ALARMS
    Priorities,    \* the priorities the program uses (a lower number is better)
    RootPriority,  \* the priority of the implicit root thread
    MaxCount,      \* bound: largest max given to CreateSema
    MaxWakeup,     \* bound: wakeups that may be pending for one thread
    MaxWaits,      \* bound: largest num_wait_threads
    Bits,          \* the bits of an event flag
    Modes,         \* the WaitEventFlag modes: "AND", "OR", "AND_CLEAR", "OR_CLEAR"
    Durations,     \* delays and alarm periods, in executed instructions
    Callbacks,     \* the (handler, common) pairs given to SetAlarm
    Programs       \* the programs: the calls one makes, and where interrupts
                   \* arrive while it runs ("thread", "idle")

ASSUME ConstantsAssumption ==
    /\ MaxThreads \in Nat \ {0} /\ MaxSemas \in Nat /\ MaxFlags \in Nat /\ MaxAlarms \in Nat
    /\ Priorities \subseteq Nat /\ RootPriority \in Priorities
    /\ MaxCount \in Nat /\ MaxWakeup \in Nat /\ MaxWaits \in Nat
    /\ Modes \subseteq {"AND", "OR", "AND_CLEAR", "OR_CLEAR"}
    /\ Durations \subseteq Nat
    /\ \A p \in Programs : p.irqs \subseteq {"thread", "idle"}

VARIABLES
    thr,      \* the TCB table g.threads[]
    older,    \* the order of the TCBs' ready_seq stamps
    current,  \* g.current_thread_id
    idle,     \* st->idle
    live,     \* the live register file of iop_state_t
    sema,     \* g.semas[]
    evf,      \* g.evflags[]
    delay,    \* delay_deadline - instructions_executed, per thread, from 0
    alarm,    \* g.alarms[]; left is deadline - instructions_executed
    serving,  \* g.alarm_dispatch_slot, 0 unless g.alarm_in_dispatch
    resume,   \* g.alarm_resume_pc
    ie,       \* COP0 Status.IEc
    saved,    \* iop_hle_intr's saved_gpr[] and saved_epc
    booted,   \* the module loader's g.idle_transition_done
    ticked,   \* this iop_core_step() is past iop_hle_thread_tick()
    app,      \* the program that runs
    prog      \* history: the parity each thread's program really reached

cpuVars == <<thr, older, current, idle, live>>
syncVars == <<sema, evf>>
alarmVars == <<alarm, serving, resume>>
irqVars == <<ie, saved, booted>>
vars == <<cpuVars, syncVars, delay, alarmVars, irqVars, ticked, app, prog>>

Threads == 1..MaxThreads
Semas == 1..MaxSemas
Flags == 1..MaxFlags
Alarms == 1..MaxAlarms
Flip(b) == 1 - b
LessOne(n) == IF n = 0 THEN 0 ELSE n - 1
Bound(S) == {n \in 0..100 : \E m \in S : n <= m}

Contexts == [own : Threads \cup {0}, at : {0, 1}, pc : {"body", "delay", "done", "intr", "alarm"}, clob : {0, 1}]
IntrCtx == [own |-> 0, at |-> 0, pc |-> "intr", clob |-> 0]
EntryCtx(t) == [own |-> t, at |-> 0, pc |-> "body", clob |-> 0]

\* A status word is the set of its bits; {"FREE"} stands for a TCB not in_use.
RUN == {"RUN"}
READY == {"READY"}
WAIT == {"WAIT"}
DORMANT == {"DORMANT"}
FREE == {"FREE"}
Statuses == {RUN, READY, WAIT, DORMANT, FREE} \cup {s \cup {"SUSPEND"} : s \in {RUN, READY, WAIT}}

\* wait_type, wait_id and the wait_evf fields, which are read together.
NoWait == [type |-> "NONE", id |-> 0, bits |-> {}, mode |-> "AND"]
SleepWait == [NoWait EXCEPT !.type = "SLEEP"]
DelayWait == [NoWait EXCEPT !.type = "DELAY"]
SemaWait(s) == [NoWait EXCEPT !.type = "SEMA", !.id = s]
EvfWait(e, b, m) == [type |-> "EVENTFLAG", id |-> e, bits |-> b, mode |-> m]
WaitRecs == {NoWait, SleepWait, DelayWait} \cup {SemaWait(s) : s \in Semas}
            \cup {EvfWait(e, b, m) : e \in Flags, b \in SUBSET Bits, m \in Modes}

Tcbs == [status : Statuses, prio : Priorities, wait : WaitRecs, wakeup : 0..MaxWakeup, ctx : Contexts]
FreeTcb == [status |-> FREE, prio |-> RootPriority, wait |-> NoWait, wakeup |-> 0, ctx |-> EntryCtx(1)]
SemaRecs == [used : BOOLEAN, byprio : BOOLEAN, max : 0..MaxCount, count : 0..MaxCount, waits : Int]
FreeSema == [used |-> FALSE, byprio |-> FALSE, max |-> 0, count |-> 0, waits |-> 0]
EvfRecs == [used : BOOLEAN, multi : BOOLEAN, bits : SUBSET Bits, waits : Int]
FreeEvf == [used |-> FALSE, multi |-> FALSE, bits |-> {}, waits |-> 0]
\* fired is history: the callback of this alarm has been dispatched.
AlarmRecs == [used : BOOLEAN, who : Callbacks, left : Bound(Durations), fired : BOOLEAN]
FreeAlarm == [used |-> FALSE, who |-> CHOOSE c \in Callbacks : TRUE, left |-> 0, fired |-> FALSE]

TypeOK ==
    /\ thr \in [Threads -> Tcbs] /\ older \subseteq Threads \X Threads
    /\ current \in Threads \cup {0} /\ idle \in BOOLEAN
    /\ live \in Contexts /\ saved \in Contexts
    /\ sema \in [Semas -> SemaRecs] /\ evf \in [Flags -> EvfRecs]
    /\ delay \in [Threads -> Bound(Durations)]
    /\ alarm \in [Alarms -> AlarmRecs] /\ serving \in Alarms \cup {0}
    /\ resume \in {"body", "delay", "done", "intr"}
    /\ ie \in BOOLEAN /\ booted \in BOOLEAN /\ ticked \in BOOLEAN
    /\ app \in Programs /\ prog \in [Threads -> {0, 1}]

\* ensure_root_thread() has made slot 1 of whatever IOP code was running.
Init ==
    /\ thr = [t \in Threads |-> IF t = 1 THEN [FreeTcb EXCEPT !.status = RUN] ELSE FreeTcb]
    /\ older = {<<1, t>> : t \in Threads \ {1}}
    /\ current = 1 /\ idle = FALSE
    /\ live = EntryCtx(1) /\ saved = IntrCtx
    /\ sema = [s \in Semas |-> FreeSema] /\ evf = [e \in Flags |-> FreeEvf]
    /\ delay = [t \in Threads |-> 0]
    /\ alarm = [a \in Alarms |-> FreeAlarm] /\ serving = 0 /\ resume = "body"
    /\ ie = TRUE /\ booted = FALSE /\ ticked = FALSE
    /\ app \in Programs /\ prog = [t \in Threads |-> 0]

-----------------------------------------------------------------------------
(* The scheduler core.                                                     *)

StampIn(O, t) == {p \in O : p[1] # t} \cup {<<u, t>> : u \in Threads \ {t}}
Stamp(t) == StampIn(older, t)

Used(t) == thr[t].status # FREE
Runnable(T) == {t \in Threads : T[t].status \in {RUN, READY}}
Oldest(S) == {t \in S : \A u \in S \ {t} : <<t, u>> \in older}

Precedes(T, O, t, u) ==
    \/ T[t].prio < T[u].prio
    \/ T[t].prio = T[u].prio /\ <<t, u>> \in O

\* Mutant: a runnable current thread is never preempted.
PickSticky(T, O) ==
    {t \in Runnable(T) : \A u \in Runnable(T) \ {t} : IF current \in Runnable(T) THEN t = current ELSE Precedes(T, O, t, u)}

PickNextReady(T, O) ==
    {t \in Runnable(T) : \A u \in Runnable(T) \ {t} : Precedes(T, O, t, u)}

\* Mutant: a switch saves no registers.
SwitchOutUnsaved(T, L) ==
    IF current # 0 /\ T[current].status = RUN THEN [T EXCEPT ![current].status = READY] ELSE T

\* Only a thread that is still RUN is saved here.
SwitchOut(T, L) ==
    IF current # 0 /\ T[current].status = RUN
    THEN [T EXCEPT ![current] = [@ EXCEPT !.status = READY, !.ctx = L]]
    ELSE T

\* The registers after a switch to n.
Loaded(T, n, L) == IF n = current THEN L ELSE T[n].ctx

\* Mutant: the core goes on executing when nothing is runnable.
IdlesNever == FALSE
Idles == TRUE

\* reschedule(), from TCBs T, stamps O and registers L, in every CPU mode.  When
\* nothing is runnable the current thread is not RUN, so nothing is saved.
Reschedule(T, O, L) ==
    /\ older' = O
    /\ \/ /\ Runnable(T) = {}
          /\ thr' = T /\ live' = L
          /\ current' = 0 /\ idle' = Idles
       \/ \E n \in PickNextReady(T, O) :
            /\ thr' = [IF n = current THEN T ELSE SwitchOut(T, L) EXCEPT ![n].status = RUN]
            /\ live' = Loaded(T, n, L)
            /\ current' = n /\ idle' = FALSE

\* Only the bookkeeping of a call takes effect.
Continue(T, O, L) ==
    /\ thr' = T /\ older' = O /\ live' = L
    /\ UNCHANGED <<current, idle>>

-----------------------------------------------------------------------------
(* Time and the program's instructions.                                    *)

\* iop_hle_thread_tick() has something to do.
AlarmDue == serving = 0 /\ \E a \in Alarms : alarm[a].used /\ alarm[a].left = 0
Expired == {t \in Threads : thr[t].status = WAIT /\ thr[t].wait.type = "DELAY" /\ delay[t] = 0}
TickDue == AlarmDue \/ Expired # {}

\* The core executes an instruction or a gate: always after the tick.
Fetches == ~idle /\ (ticked \/ ~TickDue)
InBody == Fetches /\ live.pc = "body"
InHandler == Fetches /\ live.pc \in {"intr", "alarm"}

Says(call) == InBody /\ call \in app.calls

\* A call with an interrupt-context twin, in either context.
Issued(call, icall) == Says(call) \/ (InHandler /\ icall \in app.calls)

\* pc = $ra: the registers behind the call.
Advanced == IF live.pc \in {"body", "delay"} THEN [live EXCEPT !.at = Flip(@), !.pc = "body"] ELSE live

\* instructions_executed++, which freezes while the core idles.
DelaysElapse == delay' = [t \in Threads |-> LessOne(delay[t])]
AlarmLater(a) == [alarm[a] EXCEPT !.left = LessOne(@)]
AlarmsElapse == alarm' = [a \in Alarms |-> AlarmLater(a)]
Elapses == DelaysElapse /\ AlarmsElapse

Executes ==
    /\ prog' = IF live.pc \in {"body", "delay"} THEN [prog EXCEPT ![live.own] = Flip(live.at)] ELSE prog
    /\ ticked' = FALSE
    /\ UNCHANGED <<irqVars, app>>

\* What every call does that sets no deadline.
Advance == Executes /\ Elapses /\ UNCHANGED <<serving, resume>>

\* Any instruction that is not a scheduler call, of a thread or a handler.
Step ==
    /\ Fetches /\ live.pc \notin {"delay", "done"}
    /\ Advance
    /\ Continue(thr, older, Advanced)
    /\ UNCHANGED syncVars

-----------------------------------------------------------------------------
(* The thread calls of iop_hle_thread_try_handle().                        *)

LeastOf(S) == {i \in S : \A j \in S : i <= j}

\* Fails without a free slot, or when the stack arena is used up: it is never
\* given back, and its level is left open here.
CreateThread(p) ==
    /\ Says("CreateThread")
    /\ Advance
    /\ \E slot \in {LeastOf({t \in Threads : ~Used(t)}), {}} :
         Continue([t \in Threads |-> IF t \in slot THEN [FreeTcb EXCEPT !.status = DORMANT, !.prio = p] ELSE thr[t]],
                  older, Advanced)
    /\ UNCHANGED syncVars

DeleteThread(t) ==
    /\ Says("DeleteThread")
    /\ Advance
    /\ Continue(IF thr[t].status = DORMANT THEN [thr EXCEPT ![t].status = FREE] ELSE thr, older, Advanced)
    /\ UNCHANGED syncVars

\* StartThread and StartThreadArgs.
StartThread(t) ==
    /\ Says("StartThread")
    /\ Elapses /\ ticked' = FALSE
    /\ UNCHANGED <<serving, resume, irqVars, syncVars, app>>
    /\ LET at == [prog EXCEPT ![live.own] = Flip(live.at)]
       IN  IF thr[t].status = DORMANT
           THEN /\ prog' = [at EXCEPT ![t] = 0]
                /\ Reschedule([thr EXCEPT ![t] = [@ EXCEPT !.status = READY, !.ctx = EntryCtx(t)]],
                              Stamp(t), Advanced)
           ELSE /\ prog' = at
                /\ Reschedule(thr, older, Advanced)

\* ExitThread, ExitDeleteThread, and an entry function that returns to its
\* trampoline.  The pc stays where it is.
Exit(keep) ==
    /\ Says(IF keep THEN "ExitThread" ELSE "ExitDeleteThread")
    /\ Elapses /\ ticked' = FALSE
    /\ Reschedule(IF current = 0 THEN thr
                  ELSE [thr EXCEPT ![current].status = IF keep THEN DORMANT ELSE FREE], older, live)
    /\ UNCHANGED <<syncVars, serving, resume, irqVars, app, prog>>

\* The root thread's last module returns to the loader's trampoline, whose pc
\* stays there: the boot is over, iop_hle_thread_retire_root_thread().  Whenever
\* the trampoline is reached again the core idles.
ModulesDone ==
    /\ \/ Says("ModulesDone") /\ live.own = 1 /\ ~booted
       \/ Fetches /\ live.pc = "done"
    /\ Elapses /\ ticked' = FALSE
    /\ booted' = TRUE /\ ie' = (ie \/ ~booted)
    /\ LET L == [live EXCEPT !.pc = "done"]
       IN  IF ~booted /\ current = 1 /\ thr[1].status = RUN
           THEN Reschedule([thr EXCEPT ![1].status = DORMANT], older, L)
           ELSE /\ idle' = TRUE /\ live' = L
                /\ UNCHANGED <<thr, older, current>>
    /\ UNCHANGED <<syncVars, serving, resume, saved, app, prog>>

\* No reschedule, and the num_wait_threads of what t waits for is kept.
TerminateThread(t) ==
    /\ Issued("TerminateThread", "iTerminateThread")
    /\ Advance
    /\ Continue(IF Used(t) /\ t # current
                THEN [thr EXCEPT ![t] = [@ EXCEPT !.status = DORMANT, !.wait = NoWait]] ELSE thr,
                older, Advanced)
    /\ UNCHANGED syncVars

ChangeThreadPriority(t, p) ==
    /\ Issued("ChangeThreadPriority", "iChangeThreadPriority")
    /\ Advance
    /\ Reschedule(IF Used(t) THEN [thr EXCEPT ![t].prio = p] ELSE thr, older, Advanced)
    /\ UNCHANGED syncVars

\* The earliest runnable thread of the priority goes to the back of its queue.
RotateThreadReadyQueue(p) ==
    /\ Issued("RotateThreadReadyQueue", "iRotateThreadReadyQueue")
    /\ Advance
    /\ LET queue == {t \in Runnable(thr) : thr[t].prio = p}
       IN  \/ queue = {} /\ Reschedule(thr, older, Advanced)
           \/ \E t \in Oldest(queue) : Reschedule(thr, Stamp(t), Advanced)
    /\ UNCHANGED syncVars

\* Only a semaphore's num_wait_threads is adjusted.
ReleaseWaitThread(t) ==
    /\ Issued("ReleaseWaitThread", "iReleaseWaitThread")
    /\ Advance
    /\ UNCHANGED evf
    /\ IF thr[t].status = WAIT
       THEN /\ sema' = [s \in Semas |-> IF thr[t].wait = SemaWait(s) THEN [sema[s] EXCEPT !.waits = @ - 1] ELSE sema[s]]
            /\ Reschedule([thr EXCEPT ![t] = [@ EXCEPT !.status = READY, !.wait = NoWait]], Stamp(t), Advanced)
       ELSE /\ sema' = sema
            /\ Reschedule(thr, older, Advanced)

\* The current thread leaves the CPU for the wait w with the registers L saved.
Blocked(w, L) == [thr EXCEPT ![current] = [@ EXCEPT !.status = WAIT, !.wait = w, !.ctx = L]]

\* With no current thread the call does nothing.
SleepThread ==
    /\ Says("SleepThread")
    /\ Advance
    /\ UNCHANGED syncVars
    /\ CASE current = 0 -> Continue(thr, older, Advanced)
         [] current # 0 /\ thr[current].wakeup > 0 ->
              Continue([thr EXCEPT ![current].wakeup = @ - 1], older, Advanced)
         [] OTHER -> Reschedule(Blocked(SleepWait, Advanced), older, Advanced)

WakeupThread(t) ==
    /\ Issued("WakeupThread", "iWakeupThread")
    /\ Advance
    /\ UNCHANGED syncVars
    /\ IF thr[t].status = WAIT /\ thr[t].wait.type = "SLEEP"
       THEN Reschedule([thr EXCEPT ![t] = [@ EXCEPT !.status = READY, !.wait = NoWait]], Stamp(t), Advanced)
       ELSE /\ Used(t) => thr[t].wakeup < MaxWakeup
            /\ Reschedule(IF Used(t) THEN [thr EXCEPT ![t].wakeup = @ + 1] ELSE thr, older, Advanced)

CancelWakeupThread(t) ==
    /\ Issued("CancelWakeupThread", "iCancelWakeupThread")
    /\ Advance
    /\ Continue(IF Used(t) THEN [thr EXCEPT ![t].wakeup = 0] ELSE thr, older, Advanced)
    /\ UNCHANGED syncVars

\* The repertoire tells a thread that suspends itself from one that suspends
\* another thread; the code does not.
SuspendThread(t) ==
    /\ IF t = current THEN Issued("SuspendSelf", "iSuspendCurrent")
                      ELSE Issued("SuspendThread", "iSuspendThread")
    /\ Advance
    /\ Reschedule(IF Used(t) /\ thr[t].status # DORMANT
                  THEN [thr EXCEPT ![t].status = @ \cup {"SUSPEND"}] ELSE thr, older, Advanced)
    /\ UNCHANGED syncVars

ResumeThread(t) ==
    /\ Issued("ResumeThread", "iResumeThread")
    /\ Advance
    /\ LET left == thr[t].status \ {"SUSPEND"}
       IN  IF "SUSPEND" \in thr[t].status
           THEN Reschedule([thr EXCEPT ![t].status = left],
                           IF left = READY THEN Stamp(t) ELSE older, Advanced)
           ELSE Reschedule(thr, older, Advanced)
    /\ UNCHANGED syncVars

\* The registers are saved before pc = $ra: the saved pc is still the gate.
\* A thread resumed there makes the same call again.
DelayThread(d) ==
    /\ Says("DelayThread") \/ (Fetches /\ live.pc = "delay")
    /\ Executes /\ AlarmsElapse
    /\ UNCHANGED <<syncVars, serving, resume>>
    /\ IF current = 0
       THEN /\ DelaysElapse
            /\ Continue(thr, older, Advanced)
       ELSE /\ delay' = [t \in Threads |-> LessOne(IF t = current THEN d ELSE delay[t])]
            /\ Reschedule(Blocked(DelayWait, [live EXCEPT !.pc = "delay"]), older, Advanced)

-----------------------------------------------------------------------------
(* Semaphores.                                                             *)

CreateSema(max, init, byprio) ==
    /\ Says("CreateSema")
    /\ Advance
    /\ LET slot == LeastOf({s \in Semas : ~sema[s].used})
       IN  sema' = [s \in Semas |-> IF s \in slot THEN [used |-> TRUE, byprio |-> byprio, max |-> max,
                                                        count |-> init, waits |-> 0]
                                                  ELSE sema[s]]
    /\ Continue(thr, older, Advanced)
    /\ UNCHANGED evf

\* Whether or not threads wait for it.
DeleteSema(s) ==
    /\ Says("DeleteSema")
    /\ Advance
    /\ sema' = [sema EXCEPT ![s].used = FALSE]
    /\ Continue(thr, older, Advanced)
    /\ UNCHANGED evf

Waiters(w) == {t \in Threads : thr[t].status = WAIT /\ thr[t].wait = w}

\* wake_one_sema_waiter(): in priority or in FIFO order.
FirstWaiter(s) ==
    LET W == Waiters(SemaWait(s))
    IN  IF sema[s].byprio THEN {t \in W : \A u \in W \ {t} : Precedes(thr, older, t, u)} ELSE Oldest(W)

\* iSignalSema does not reschedule.
Signalled(T, O) == IF live.pc = "body" THEN Reschedule(T, O, Advanced) ELSE Continue(T, O, Advanced)

\* Mutants: the count goes up as well; the waiter stays counted.
HandedOverCounted(s) == [sema EXCEPT ![s].waits = @ - 1, ![s].count = IF @ < sema[s].max THEN @ + 1 ELSE @]
HandedOverStillCounted(s) == sema
\* The signal goes to the waiter directly.
HandedOver(s) == [sema EXCEPT ![s].waits = @ - 1]

SignalSema(s) ==
    /\ Issued("SignalSema", "iSignalSema")
    /\ Advance
    /\ UNCHANGED evf
    /\ \/ /\ sema[s].used
          /\ \E t \in FirstWaiter(s) :
               /\ sema' = HandedOver(s)
               /\ Signalled([thr EXCEPT ![t] = [@ EXCEPT !.status = READY, !.wait = NoWait]], Stamp(t))
       \/ /\ sema[s].used => FirstWaiter(s) = {}
          /\ sema' = IF sema[s].used /\ sema[s].count < sema[s].max THEN [sema EXCEPT ![s].count = @ + 1] ELSE sema
          /\ Signalled(thr, older)

\* With no current thread the caller is only counted.
WaitSema(s) ==
    /\ Says("WaitSema")
    /\ Advance
    /\ UNCHANGED evf
    /\ \/ /\ ~sema[s].used
          /\ sema' = sema /\ Continue(thr, older, Advanced)
       \/ /\ sema[s].used /\ sema[s].count > 0
          /\ sema' = [sema EXCEPT ![s].count = @ - 1]
          /\ Continue(thr, older, Advanced)
       \/ /\ sema[s].used /\ sema[s].count = 0 /\ sema[s].waits < MaxWaits
          /\ sema' = [sema EXCEPT ![s].waits = @ + 1]
          /\ IF current = 0 THEN Reschedule(thr, older, Advanced)
             ELSE Reschedule(Blocked(SemaWait(s), Advanced), Stamp(current), Advanced)

PollSema(s) ==
    /\ Says("PollSema")
    /\ Advance
    /\ sema' = IF sema[s].used /\ sema[s].count > 0 THEN [sema EXCEPT ![s].count = @ - 1] ELSE sema
    /\ Continue(thr, older, Advanced)
    /\ UNCHANGED evf

-----------------------------------------------------------------------------
(* Event flags.                                                            *)

ClearModes == {"AND_CLEAR", "OR_CLEAR"}

\* What WaitEventFlag, PollEventFlag and wake_evf_waiters() test.
Shared(bits, want, m) == IF m \in {"OR", "OR_CLEAR"} THEN bits \cap want # {} ELSE want \subseteq bits
Taken(bits, m) == IF m \in ClearModes THEN {} ELSE bits

CreateEventFlag(bits, multi) ==
    /\ Says("CreateEventFlag")
    /\ Advance
    /\ LET slot == LeastOf({e \in Flags : ~evf[e].used})
       IN  evf' = [e \in Flags |-> IF e \in slot THEN [used |-> TRUE, multi |-> multi, bits |-> bits, waits |-> 0]
                                                 ELSE evf[e]]
    /\ Continue(thr, older, Advanced)
    /\ UNCHANGED sema

WaitsFor(T, t, e) == T[t].status = WAIT /\ T[t].wait.type = "EVENTFLAG" /\ T[t].wait.id = e

\* A loop over the TCBs in slot order that wakes a thread: F is the state so far.
InSlotOrder(wake(_, _), F) == FoldLeft(wake, F, [i \in Threads |-> i])
WakeIn(F, t) ==
    [F EXCEPT !.thr[t] = [@ EXCEPT !.status = READY, !.wait = NoWait], !.older = StampIn(@, t)]

\* Wakes every waiter.
DeleteEventFlag(e) ==
    /\ Says("DeleteEventFlag")
    /\ Advance
    /\ LET wake(F, t) == IF WaitsFor(F.thr, t, e) THEN WakeIn(F, t) ELSE F
           woken == InSlotOrder(wake, [thr |-> thr, older |-> older])
       IN  IF evf[e].used
           THEN /\ evf' = [evf EXCEPT ![e].used = FALSE]
                /\ Reschedule(woken.thr, woken.older, Advanced)
           ELSE /\ evf' = evf
                /\ Reschedule(thr, older, Advanced)
    /\ UNCHANGED sema

\* Mutant: only the first waiter is tried.
WakeEvfFirst(e, bits) ==
    LET W == {t \in Threads : WaitsFor(thr, t, e)}
        F == [thr |-> thr, older |-> older, bits |-> bits, waits |-> evf[e].waits]
        t == CHOOSE x \in W : \A u \in W : x <= u
    IN  IF W = {} \/ ~Shared(bits, thr[t].wait.bits, thr[t].wait.mode) THEN F
        ELSE [WakeIn(F, t) EXCEPT !.bits = Taken(@, thr[t].wait.mode), !.waits = @ - 1]

\* wake_evf_waiters(): in slot order, until the bits are used up.
WakeEvf(e, bits) ==
    LET wake(F, t) ==
          IF F.bits # {} /\ WaitsFor(F.thr, t, e) /\ Shared(F.bits, F.thr[t].wait.bits, F.thr[t].wait.mode)
          THEN [WakeIn(F, t) EXCEPT !.bits = Taken(@, F.thr[t].wait.mode), !.waits = @ - 1] ELSE F
    IN  InSlotOrder(wake, [thr |-> thr, older |-> older, bits |-> bits, waits |-> evf[e].waits])

\* iSetEventFlag does not reschedule.
SetEventFlag(e, bits) ==
    /\ Issued("SetEventFlag", "iSetEventFlag")
    /\ Advance
    /\ LET woken == WakeEvf(e, evf[e].bits \cup bits)
       IN  IF evf[e].used /\ bits # {}
           THEN /\ evf' = [evf EXCEPT ![e].bits = woken.bits, ![e].waits = woken.waits]
                /\ Signalled(woken.thr, woken.older)
           ELSE /\ evf' = evf
                /\ Signalled(thr, older)
    /\ UNCHANGED sema

\* The argument is the mask to keep.
ClearEventFlag(e, keep) ==
    /\ Issued("ClearEventFlag", "iClearEventFlag")
    /\ Advance
    /\ evf' = IF evf[e].used THEN [evf EXCEPT ![e].bits = @ \cap keep] ELSE evf
    /\ Continue(thr, older, Advanced)
    /\ UNCHANGED sema

\* WaitEventFlag refuses a second waiter unless the flag is EA_MULTI.
Refused(e, bits) == ~evf[e].used \/ bits = {} \/ (~evf[e].multi /\ evf[e].waits > 0)

WaitEventFlag(e, bits, m) ==
    /\ Says("WaitEventFlag")
    /\ Advance
    /\ UNCHANGED sema
    /\ \/ /\ Refused(e, bits)
          /\ evf' = evf /\ Continue(thr, older, Advanced)
       \/ /\ ~Refused(e, bits) /\ Shared(evf[e].bits, bits, m)
          /\ evf' = [evf EXCEPT ![e].bits = Taken(@, m)]
          /\ Continue(thr, older, Advanced)
       \/ /\ ~Refused(e, bits) /\ ~Shared(evf[e].bits, bits, m) /\ evf[e].waits < MaxWaits
          /\ evf' = [evf EXCEPT ![e].waits = @ + 1]
          /\ Reschedule(IF current = 0 THEN thr ELSE Blocked(EvfWait(e, bits, m), Advanced), older, Advanced)

PollEventFlag(e, bits, m) ==
    /\ Says("PollEventFlag")
    /\ Advance
    /\ evf' = IF evf[e].used /\ bits # {} /\ Shared(evf[e].bits, bits, m)
              THEN [evf EXCEPT ![e].bits = Taken(@, m)] ELSE evf
    /\ Continue(thr, older, Advanced)
    /\ UNCHANGED sema

-----------------------------------------------------------------------------
(* Alarms, the tick and interrupts.                                        *)

SetAlarm(c, d) ==
    /\ Issued("SetAlarm", "iSetAlarm")
    /\ Executes /\ DelaysElapse
    /\ LET slot == LeastOf({a \in Alarms : ~alarm[a].used})
       IN  alarm' = [a \in Alarms |-> IF a \in slot THEN [used |-> TRUE, who |-> c, left |-> LessOne(d), fired |-> FALSE]
                                                    ELSE AlarmLater(a)]
    /\ Continue(thr, older, Advanced)
    /\ UNCHANGED <<syncVars, serving, resume>>

CancelAlarm(c) ==
    /\ Issued("CancelAlarm", "iCancelAlarm")
    /\ Executes /\ DelaysElapse
    /\ LET found == LeastOf({a \in Alarms : alarm[a].used /\ alarm[a].who = c})
       IN  alarm' = [a \in Alarms |-> IF a \in found THEN FreeAlarm ELSE AlarmLater(a)]
    /\ Continue(thr, older, Advanced)
    /\ UNCHANGED <<syncVars, serving, resume>>

\* The callback returns rv to its trampoline: 0 frees the alarm's slot, anything
\* else is its next period.  Only pc is restored.
AlarmReturns(rv) ==
    /\ Fetches /\ live.pc = "alarm" /\ serving # 0
    /\ Executes /\ DelaysElapse
    /\ alarm' = [a \in Alarms |->
                   CASE a # serving \/ ~alarm[a].used -> AlarmLater(a)
                     [] a = serving /\ alarm[a].used /\ rv = 0 -> FreeAlarm
                     [] OTHER -> [alarm[a] EXCEPT !.left = LessOne(rv), !.fired = FALSE]]
    /\ serving' = 0 /\ resume' = "body"
    /\ Continue(thr, older, [live EXCEPT !.pc = resume])
    /\ UNCHANGED syncVars

\* Mutants: a callback may be dispatched inside another one; the scan skips a slot.
MayDispatchNested == \E a \in Alarms : alarm[a].used /\ alarm[a].left = 0 /\ a # serving
MayDispatchLater == serving = 0 /\ \E a \in Alarms \ {1} : alarm[a].used /\ alarm[a].left = 0
MayDispatch == AlarmDue

\* The end of the delay scan.
TickWakesOnly(T, O) == Continue(T, O, live)  \* mutant: no reschedule()
TickWakes(T, O) == Reschedule(T, O, live)

\* iop_hle_thread_tick(): one due alarm is dispatched into the live registers,
\* or else the expired delays end.  idle is not looked at.
Tick ==
    /\ ~ticked /\ ticked' = TRUE
    /\ IF MayDispatch
       THEN \E a \in LeastOf({b \in Alarms : alarm[b].used /\ alarm[b].left = 0}) :
              /\ serving' = a /\ resume' = live.pc
              /\ alarm' = [alarm EXCEPT ![a].fired = TRUE]
              /\ Continue(thr, older, [live EXCEPT !.pc = "alarm", !.clob = 1])
       ELSE /\ Expired # {}
            /\ LET wake(F, t) == IF t \in Expired THEN WakeIn(F, t) ELSE F
                   woken == InSlotOrder(wake, [thr |-> thr, older |-> older])
               IN  TickWakes(woken.thr, woken.older)
            /\ UNCHANGED alarmVars
    /\ UNCHANGED <<syncVars, delay, irqVars, app, prog>>

\* iop_check_hw_interrupt() after an instruction, or in the idle branch of
\* iop_core_step(), which then clears st->idle; iop_hle_intr_dispatch_interrupt().
Interrupt ==
    /\ ie
    /\ \/ "thread" \in app.irqs /\ ~idle /\ ~ticked /\ live.pc # "delay"
       \/ "idle" \in app.irqs /\ idle /\ (ticked \/ ~TickDue)
    /\ saved' = live /\ live' = IntrCtx
    /\ ie' = FALSE /\ idle' = FALSE /\ ticked' = FALSE
    /\ UNCHANGED <<thr, older, current, syncVars, delay, alarmVars, booted, app, prog>>

\* IOP_HLE_INTR_HANDLER_RETURN_TRAMPOLINE: all registers are restored.
HandlerReturns ==
    /\ Fetches /\ live.pc = "intr"
    /\ live' = saved /\ saved' = IntrCtx
    /\ ie' = TRUE /\ ticked' = FALSE
    /\ Elapses
    /\ UNCHANGED <<thr, older, current, idle, syncVars, serving, resume, booted, app, prog>>

\* The idle branch finds no interrupt.
IdlePoll ==
    /\ idle /\ ticked /\ ticked' = FALSE
    /\ UNCHANGED <<cpuVars, syncVars, delay, alarmVars, irqVars, app, prog>>

ThreadCall ==
    \/ \E p \in Priorities : CreateThread(p) \/ RotateThreadReadyQueue(p)
    \/ \E keep \in BOOLEAN : Exit(keep)
    \/ ModulesDone
    \/ SleepThread
    \/ \E d \in Durations : DelayThread(d)
    \/ \E t \in Threads :
         \/ DeleteThread(t)
         \/ StartThread(t)
         \/ TerminateThread(t)
         \/ \E p \in Priorities : ChangeThreadPriority(t, p)
         \/ ReleaseWaitThread(t)
         \/ WakeupThread(t)
         \/ CancelWakeupThread(t)
         \/ SuspendThread(t)
         \/ ResumeThread(t)

SemaCall ==
    \/ \E max \in 1..MaxCount, byprio \in BOOLEAN : \E init \in 0..max : CreateSema(max, init, byprio)
    \/ \E s \in Semas : DeleteSema(s) \/ SignalSema(s) \/ WaitSema(s) \/ PollSema(s)

EventFlagCall ==
    \E bits \in SUBSET Bits :
      \/ \E multi \in BOOLEAN : CreateEventFlag(bits, multi)
      \/ \E e \in Flags :
           \/ SetEventFlag(e, bits)
           \/ ClearEventFlag(e, bits)
           \/ \E m \in Modes : WaitEventFlag(e, bits, m) \/ PollEventFlag(e, bits, m)

AlarmCall ==
    \/ \E c \in Callbacks : CancelAlarm(c) \/ \E d \in Durations : SetAlarm(c, d)
    \/ \E rv \in Durations \cup {0} : AlarmReturns(rv)

Next ==
    \/ Step
    \/ ThreadCall
    \/ SemaCall
    \/ EventFlagCall
    \/ \E e \in Flags : DeleteEventFlag(e)
    \/ AlarmCall
    \/ Tick
    \/ Interrupt
    \/ HandlerReturns
    \/ IdlePoll

Spec == Init /\ [][Next]_vars

\* The core is stepped forever, every handler and callback ends, and (where
\* interrupts are enabled at all) VBLANK and the timers keep interrupting.
FairSpec ==
    /\ Spec
    /\ SF_vars(Step) /\ WF_vars(Tick) /\ WF_vars(IdlePoll)
    /\ WF_vars(Interrupt) /\ SF_vars(HandlerReturns)
    /\ \A rv \in Durations \cup {0} : SF_vars(AlarmReturns(rv))

-----------------------------------------------------------------------------
(* Properties.                                                             *)

\* Where the program of thread t stands: in the CPU, behind a handler, or saved.
Context(t) ==
    CASE t # current -> thr[t].ctx
      [] t = current /\ live.pc = "intr" -> saved
      [] OTHER -> live

Alive(t) == thr[t].status \notin {DORMANT, FREE}

\* A thread resumes where it left off, with registers of its own: those it will be
\* resumed with are the ones its program really reached (the save in reschedule()
\* and the saves that the blocking calls make before it).
ContextFresh ==
    \A t \in Threads : Alive(t) => Context(t).own = t /\ Context(t).at = prog[t]

\* The code that executes belongs to the RUN thread: a thread that sleeps, waits
\* or is dead executes nothing, and nothing executes while the core idles.
BlockedNeverExecutes ==
    ~idle /\ live.pc = "body" => /\ current # 0
                                /\ thr[current].status = RUN
                                /\ live.own = current

\* In a program without handlers and alarm callbacks, whose i-calls leave the
\* running thread alone, no READY thread is strictly better than the running one.
PriorityRespected ==
    ~idle /\ current # 0 /\ app.irqs = {} /\ "SetAlarm" \notin app.calls => \A t \in Runnable(thr) : thr[current].prio <= thr[t].prio

\* The core never idles while a thread is runnable, although handlers and
\* callbacks make threads ready in the middle of anything.
NeverIdlesOverReady ==
    idle => current = 0 /\ Runnable(thr) = {}

BlockedOn(w) == {t \in Threads : thr[t].status \in {WAIT, WAIT \cup {"SUSPEND"}} /\ thr[t].wait = w}
EvfBlocked(e) == {t \in Threads : /\ thr[t].status \in {WAIT, WAIT \cup {"SUSPEND"}}
                                  /\ thr[t].wait.type = "EVENTFLAG" /\ thr[t].wait.id = e}

\* No signal is lost: a unit is in the count only while nobody waits for it.
NoLostSignal ==
    \A s \in Semas : sema[s].used /\ BlockedOn(SemaWait(s)) # {} => sema[s].count = 0

\* No thread waits for a semaphore that has been deleted.
NoOrphanWaiter ==
    \A s \in Semas : BlockedOn(SemaWait(s)) # {} => sema[s].used

\* No thread stays blocked on an event flag that satisfies it, whatever order
\* sets, clears and WEF_CLEAR wakeups come in.
EvfNoMissedWake ==
    \A e \in Flags : evf[e].used =>
      \A t \in EvfBlocked(e) : thr[t].status = WAIT => ~Shared(evf[e].bits, thr[t].wait.bits, thr[t].wait.mode)

\* num_wait_threads of a semaphore and of an event flag counts exactly the threads
\* blocked on it, although waits end in signals, sets, deletions and
\* ReleaseWaitThread; by it WaitEventFlag refuses a second waiter.
WaitsExact ==
    /\ \A s \in Semas : sema[s].used => sema[s].waits = Cardinality(BlockedOn(SemaWait(s)))
    /\ \A e \in Flags : evf[e].used => evf[e].waits = Cardinality(EvfBlocked(e))

\* While interrupts are off the handler's registers still exist, in the CPU or in
\* the TCB of a thread that can run: some code will get to the trampoline that
\* turns them on, although the calls a handler makes may switch threads.
HandlerNotLost ==
    ~ie => \/ live.pc = "intr"
           \/ serving # 0 /\ resume = "intr"
           \/ \E t \in Threads \ {current} : Alive(t) /\ thr[t].ctx.pc = "intr"

\* An alarm is in dispatch iff its callback's registers still exist, in the CPU,
\* behind an interrupt handler or in the TCB of a thread that can run: no
\* dispatch is lost and none is nested into another.
CallbackAlive ==
    serving # 0 <=>
      \/ live.pc = "alarm" /\ ~idle
      \/ saved.pc = "alarm" /\ ~ie
      \/ \E t \in Threads \ {current} : Alive(t) /\ thr[t].ctx.pc = "alarm"

\* A callback's return frees or re-arms the alarm it was called for, never one
\* that was set meanwhile in the same slot.
AlarmReturnsToItsOwn ==
    [][serving # 0 /\ serving' = 0 /\ alarm[serving].used => alarm[serving].fired]_vars

\* An alarm that is due is dispatched, or cancelled.
AlarmServed ==
    \A a \in Alarms : alarm[a].used /\ alarm[a].left = 0 /\ ~alarm[a].fired
                      ~> ~alarm[a].used \/ alarm[a].fired

\* A thread that an alarm interrupted goes on with the registers it had.
AlarmTransparent ==
    ~idle /\ live.pc = "body" => live.clob = 0

\* A delay ends.
DelayEnds ==
    \A t \in Threads : (thr[t].status = WAIT /\ thr[t].wait.type = "DELAY")
                       ~> ~(thr[t].status = WAIT /\ thr[t].wait.type = "DELAY")

\* A READY thread that is better than every other runnable thread gets the CPU.
BestReady(t) ==
    /\ thr[t].status = READY
    /\ \A u \in Runnable(thr) \ {t} : thr[t].prio < thr[u].prio
BestReadyRuns ==
    \A t \in Threads : BestReady(t) ~> ~BestReady(t)
=============================================================================
