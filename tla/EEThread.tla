------------------------------ MODULE EEThread ------------------------------
(***************************************************************************)
(* The high-level-emulated EE kernel scheduler                             *)
(* (source/core/ee/ee_hle_thread.c) together with the three places of      *)
(* ee_core.c that drive it: interrupt entry, ERET and the idle branch of   *)
(* ee_step().                                                              *)
(*                                                                         *)
(* The CPU has ONE register file; it "IS whichever thread is currently     *)
(* running" (ee_hle_thread.h).  A register file is abstracted to whose     *)
(* program it holds (own), the parity of the instructions that program has *)
(* executed (at), and whether its pc stands on a WaitSema syscall (call).  *)
(* The history variable prog remembers, per thread, the parity its program *)
(* really reached, so that a stale or foreign context is visible.          *)
(*                                                                         *)
(* ready_seq is a uint32_t stamp that is only ever compared; the model     *)
(* keeps its order: <<t, u>> \in older iff t's stamp is older than u's.    *)
(***************************************************************************)
EXTENDS Integers, FiniteSets

CONSTANTS
    MaxThreads,    \* EE_HLE_THREAD_MAX_THREADS
    MaxSemas,      \* EE_HLE_THREAD_MAX_SEMAS
    Priorities,    \* the priorities the program uses (a lower number is better)
    RootPriority,  \* the priority of the implicit root thread
    MaxCount,      \* bound: largest max_count given to CreateSema
    MaxWakeup,     \* bound: wakeups that may be pending for one thread
    MaxWaits,      \* bound: largest wait_threads of a semaphore
    Calls,         \* the system calls the program makes
    IrqModes,      \* the CPU modes in which interrupts arrive
    EpcRegions     \* where interrupted code may stand: "body", "trampoline"

CallNames == {"CreateThread", "DeleteThread", "StartThread", "ExitThread", "ExitDeleteThread",
              "TerminateThread", "ChangeThreadPriority", "RotateThreadReadyQueue",
              "SleepThread", "WakeupThread", "CancelWakeupThread", "CreateSema", "DeleteSema",
              "SignalSema", "WaitSema", "PollSema", "iTerminateThread", "iChangeThreadPriority",
              "iRotateThreadReadyQueue", "iWakeupThread", "iCancelWakeupThread", "iSignalSema"}

ASSUME ConstantsAssumption ==
    /\ MaxThreads \in Nat \ {0}
    /\ MaxSemas \in Nat
    /\ Priorities \subseteq Nat /\ RootPriority \in Priorities
    /\ MaxCount \in Nat /\ MaxWakeup \in Nat /\ MaxWaits \in Nat
    /\ Calls \subseteq CallNames
    /\ IrqModes \subseteq {"thread", "idle"}
    /\ EpcRegions \subseteq {"body", "trampoline"}

VARIABLES
    thr,      \* the TCB table g.threads[]
    older,    \* the order of the TCBs' ready_seq stamps
    current,  \* g.current_thread_id
    sema,     \* g.semas[]
    live,     \* the live register file of ee_state_t
    epc,      \* COP0 EPC: where ERET resumes; forgotten once ERET has used it
    mode,     \* "thread"; "idle": st->idle = 1; "handler": Status.EXL = 1
    prog      \* history: the parity each thread's program really reached

vars == <<thr, older, current, sema, live, epc, mode, prog>>

Threads == 1..MaxThreads
Semas == 0..(MaxSemas - 1)
NoCall == -1
Flip(b) == IF b = 0 THEN 1 ELSE 0

Contexts == [own : Threads \cup {0}, at : {0, 1}, call : Semas \cup {NoCall}]
HandlerCtx == [own |-> 0, at |-> 0, call |-> NoCall]
EntryCtx(t) == [own |-> t, at |-> 0, call |-> NoCall]

\* A TCB that is not in_use has status "FREE": its status field is read for the
\* current thread only, and only to see that it is not RUN.
Statuses == {"RUN", "READY", "WAIT", "DORMANT", "FREE"}
Tcbs == [status : Statuses, prio : Priorities, wait : {"NONE", "SLEEP", "SEMA"}, wid : Semas \cup {0},
         wakeup : 0..MaxWakeup, ctx : Contexts]
FreeTcb == [status |-> "FREE", prio |-> RootPriority, wait |-> "NONE", wid |-> 0,
            wakeup |-> 0, ctx |-> HandlerCtx]
Used(t) == thr[t].status # "FREE"

SemaRecs == [used : BOOLEAN, max : 0..MaxCount, count : 0..MaxCount, waits : Int]
FreeSema == [used |-> FALSE, max |-> 0, count |-> 0, waits |-> 0]

TypeOK ==
    /\ thr \in [Threads -> Tcbs]
    /\ older \subseteq Threads \X Threads
    /\ current \in Threads
    /\ sema \in [Semas -> SemaRecs]
    /\ live \in Contexts
    /\ epc \in Contexts
    /\ mode \in {"thread", "idle", "handler"}
    /\ prog \in [Threads -> {0, 1}]

\* ensure_root_thread() has made slot 1 of "whatever EE code was already running".
Init ==
    /\ thr = [t \in Threads |-> IF t = 1 THEN [FreeTcb EXCEPT !.status = "RUN"] ELSE FreeTcb]
    /\ older = {<<1, t>> : t \in Threads \ {1}}
    /\ current = 1
    /\ sema = [s \in Semas |-> FreeSema]
    /\ live = EntryCtx(1)
    /\ epc = HandlerCtx
    /\ mode = "thread"
    /\ prog = [t \in Threads |-> 0]

-----------------------------------------------------------------------------
(* The scheduler core.                                                     *)

Stamp(t) == {p \in older : p[1] # t} \cup {<<u, t>> : u \in Threads \ {t}}

Runnable(T) == {t \in Threads : T[t].status \in {"RUN", "READY"}}

Precedes(T, O, t, u) ==
    \/ T[t].prio < T[u].prio
    \/ T[t].prio = T[u].prio /\ <<t, u>> \in O

PickNextReady(T, O) ==
    {t \in Runnable(T) : \A u \in Runnable(T) \ {t} : Precedes(T, O, t, u)}

\* Mutants: the outgoing thread stays RUN; its registers are not saved.
SwitchOutStillRun(T, L) == IF T[current].status = "RUN" THEN [T EXCEPT ![current].ctx = L] ELSE T
SwitchOutUnsaved(T, L) == IF T[current].status = "RUN" THEN [T EXCEPT ![current].status = "READY"] ELSE T

\* The outgoing thread is saved only while it is RUN: a thread that blocks has
\* already saved itself, and one that is dead has nothing to save.
SwitchOut(T, L) ==
    IF T[current].status = "RUN"
    THEN [T EXCEPT ![current] = [@ EXCEPT !.status = "READY", !.ctx = L]]
    ELSE T

\* The CPU mode when no thread is runnable.  The current thread cannot be RUN
\* then, so the branch of the code that saves a RUN thread is not taken.
NoneReadyReplays == "thread"  \* mutant: the blocked thread's code goes on
NoneReady == "idle"

\* reschedule() past its EXL/ERL test, from TCBs T, stamps O and registers L.
Dispatch(T, O, L) ==
    \/ /\ Runnable(T) = {}
       /\ thr' = T /\ live' = L
       /\ mode' = NoneReady
       /\ UNCHANGED current
    \/ \E n \in PickNextReady(T, O) :
         /\ thr' = IF n = current THEN [T EXCEPT ![n].status = "RUN"]
                                  ELSE [SwitchOut(T, L) EXCEPT ![n].status = "RUN"]
         /\ live' = IF n = current THEN L ELSE T[n].ctx
         /\ current' = n
         /\ mode' = "thread"

\* Only the bookkeeping of a call takes effect; the CPU stays where it is.
Continue(T, L) ==
    /\ thr' = T /\ live' = L
    /\ UNCHANGED <<current, mode>>

\* Mutant: the scheduler switches threads inside an exception handler.
RescheduleInHandler(T, O, L) == Dispatch(T, O, L)

\* reschedule(): deferred while an exception is being serviced.
Reschedule(T, O, L) ==
    IF mode = "handler" THEN Continue(T, L) ELSE Dispatch(T, O, L)

-----------------------------------------------------------------------------
(* How the program issues a call.                                          *)

\* An ordinary instruction stream, not one about to retry a WaitSema.
Executing == mode = "thread" /\ live.call = NoCall

\* A call with an interrupt-context twin, in either context.
Issued(call, icall) ==
    \/ Executing /\ call \in Calls
    \/ mode = "handler" /\ icall \in Calls

\* EE_ADVANCE(): the registers after the syscall, and what the program reached.
Advanced(L) == IF mode = "handler" THEN L ELSE [L EXCEPT !.at = Flip(@), !.call = NoCall]
Advance ==
    /\ prog' = IF mode = "handler" THEN prog
               ELSE [prog EXCEPT ![live.own] = Flip(live.at)]
    /\ UNCHANGED epc

\* Any instruction that is not a scheduler call.
Step ==
    /\ Executing
    /\ Advance
    /\ Continue(thr, Advanced(live))
    /\ UNCHANGED <<older, sema>>

-----------------------------------------------------------------------------
(* The thread calls of ee_hle_thread_try_handle().                         *)

\* A new status for the current thread, unless its TCB is not in use (it was
\* deleted, and its code still executes).
InUse(new) == IF thr[current].status = "FREE" THEN "FREE" ELSE new

LeastFree(S) == {i \in S : \A j \in S : i <= j}

CreateThread(p) ==
    /\ Executing /\ "CreateThread" \in Calls
    /\ Advance
    /\ LET slot == LeastFree({t \in Threads : ~Used(t)})
       IN  Continue([t \in Threads |-> IF t \in slot THEN [FreeTcb EXCEPT !.status = "DORMANT", !.prio = p]
                                                     ELSE thr[t]],
                    Advanced(live))
    /\ UNCHANGED <<older, sema>>

DeleteThread(t) ==
    /\ Executing /\ "DeleteThread" \in Calls
    /\ Advance
    /\ Continue(IF thr[t].status = "DORMANT" THEN [thr EXCEPT ![t].status = "FREE"] ELSE thr, Advanced(live))
    /\ UNCHANGED <<older, sema>>

StartThread(t) ==
    /\ Executing /\ "StartThread" \in Calls
    /\ UNCHANGED <<epc, sema>>
    /\ LET at == [prog EXCEPT ![live.own] = Flip(live.at)]
       IN  IF thr[t].status = "DORMANT"
           THEN /\ older' = Stamp(t)
                /\ prog' = [at EXCEPT ![t] = 0]
                /\ Reschedule([thr EXCEPT ![t] = [@ EXCEPT !.status = "READY", !.ctx = EntryCtx(t)]],
                              Stamp(t), Advanced(live))
           ELSE /\ older' = older
                /\ prog' = at
                /\ Reschedule(thr, older, Advanced(live))

\* ExitThread (keep = TRUE) and ExitDeleteThread.
Exit(keep) ==
    /\ Executing /\ (IF keep THEN "ExitThread" ELSE "ExitDeleteThread") \in Calls
    /\ Advance
    /\ Reschedule([thr EXCEPT ![current].status = IF keep THEN InUse("DORMANT") ELSE "FREE"],
                  older, Advanced(live))
    /\ UNCHANGED <<older, sema>>

\* A thread function returns to $ra = 0: the null-jalr guard of ee_step()
\* calls ee_hle_thread_exit_current().
ThreadReturns ==
    /\ Executing /\ "ExitDeleteThread" \in Calls
    /\ Reschedule([thr EXCEPT ![current].status = "FREE"], older, live)
    /\ UNCHANGED <<older, sema, epc, prog>>

\* No reschedule, and the wait_threads of a semaphore t waits for is kept.
TerminateThread(t) ==
    /\ Issued("TerminateThread", "iTerminateThread")
    /\ Advance
    /\ Continue(IF Used(t) /\ t # current
                THEN [thr EXCEPT ![t] = [@ EXCEPT !.status = "DORMANT", !.wait = "NONE", !.wid = 0]]
                ELSE thr, Advanced(live))
    /\ UNCHANGED <<older, sema>>

ChangeThreadPriority(t, p) ==
    /\ Issued("ChangeThreadPriority", "iChangeThreadPriority")
    /\ Advance
    /\ Reschedule(IF Used(t) THEN [thr EXCEPT ![t].prio = p] ELSE thr, older, Advanced(live))
    /\ UNCHANGED <<older, sema>>

\* The earliest runnable thread of the priority goes to the back of its queue.
RotateThreadReadyQueue(p) ==
    /\ Issued("RotateThreadReadyQueue", "iRotateThreadReadyQueue")
    /\ Advance
    /\ UNCHANGED sema
    /\ LET queue == {t \in Runnable(thr) : thr[t].prio = p}
           first == {t \in queue : \A u \in queue \ {t} : <<t, u>> \in older}
       IN  \/ /\ queue = {}
              /\ older' = older
              /\ Reschedule(thr, older, Advanced(live))
           \/ \E t \in first :
                /\ older' = Stamp(t)
                /\ Reschedule(thr, Stamp(t), Advanced(live))

\* Called by the current thread, whatever the table says its status is.
SleepThread ==
    /\ Executing /\ "SleepThread" \in Calls
    /\ Advance
    /\ UNCHANGED <<older, sema>>
    /\ IF thr[current].wakeup > 0
       THEN Continue([thr EXCEPT ![current].wakeup = @ - 1], Advanced(live))
       ELSE Reschedule([thr EXCEPT ![current] = [@ EXCEPT !.status = InUse("WAIT"), !.wait = "SLEEP",
                                                           !.wid = 0, !.ctx = Advanced(live)]],
                       older, Advanced(live))

WakeupThread(t) ==
    /\ Issued("WakeupThread", "iWakeupThread")
    /\ Advance
    /\ UNCHANGED sema
    /\ IF thr[t].status = "WAIT" /\ thr[t].wait = "SLEEP"
       THEN /\ older' = Stamp(t)
            /\ Reschedule([thr EXCEPT ![t] = [@ EXCEPT !.status = "READY", !.wait = "NONE"]], Stamp(t), Advanced(live))
       ELSE /\ older' = older
            /\ Used(t) => thr[t].wakeup < MaxWakeup
            /\ Reschedule(IF Used(t) THEN [thr EXCEPT ![t].wakeup = @ + 1] ELSE thr, older, Advanced(live))

CancelWakeupThread(t) ==
    /\ Issued("CancelWakeupThread", "iCancelWakeupThread")
    /\ Advance
    /\ Continue(IF Used(t) THEN [thr EXCEPT ![t].wakeup = 0] ELSE thr, Advanced(live))
    /\ UNCHANGED <<older, sema>>

-----------------------------------------------------------------------------
(* The semaphore calls.                                                    *)

CreateSema(max, init) ==
    /\ Executing /\ "CreateSema" \in Calls
    /\ Advance
    /\ LET slot == LeastFree({s \in Semas : ~sema[s].used})
       IN  sema' = [s \in Semas |-> IF s \in slot
                                    THEN [used |-> TRUE, max |-> max, count |-> init, waits |-> 0]
                                    ELSE sema[s]]
    /\ Continue(thr, Advanced(live))
    /\ UNCHANGED older

\* Refused while threads wait.
DeleteSema(s) ==
    /\ Executing /\ "DeleteSema" \in Calls
    /\ Advance
    /\ sema' = IF sema[s].waits > 0 THEN sema ELSE [sema EXCEPT ![s].used = FALSE]
    /\ Continue(thr, Advanced(live))
    /\ UNCHANGED older

\* Mutant: the search looks for READY threads.
WaitersReady(s) == {t \in Threads : /\ thr[t].status = "READY"
                                    /\ thr[t].wait = "SEMA" /\ thr[t].wid = s}
Waiters(s) == {t \in Threads : /\ thr[t].status = "WAIT"
                               /\ thr[t].wait = "SEMA" /\ thr[t].wid = s}

\* The waiter wake_one_sema_waiter() wakes, if there is one.
FirstWaiter(s) == {t \in Waiters(s) : \A u \in Waiters(s) \ {t} : <<t, u>> \in older}

\* The count always goes up: the woken thread t retries its WaitSema.
WokenStillCounted(s, t) == [sema EXCEPT ![s].count = @ + 1]  \* mutant
Woken(s, t) == [sema EXCEPT ![s].count = @ + 1, ![s].waits = @ - 1]

\* Only the thread-context call reschedules.
Signalled(T, O) ==
    IF mode = "thread" THEN Reschedule(T, O, Advanced(live)) ELSE Continue(T, Advanced(live))

SignalSema(s) ==
    /\ Issued("SignalSema", "iSignalSema")
    /\ Advance
    /\ \/ /\ ~sema[s].used \/ sema[s].count >= sema[s].max
          /\ UNCHANGED <<older, sema>>
          /\ Signalled(thr, older)
       \/ /\ sema[s].used /\ sema[s].count < sema[s].max
          /\ Waiters(s) = {}
          /\ sema' = [sema EXCEPT ![s].count = @ + 1]
          /\ UNCHANGED older
          /\ Signalled(thr, older)
       \/ /\ sema[s].used /\ sema[s].count < sema[s].max
          /\ \E t \in FirstWaiter(s) :
               /\ sema' = Woken(s, t)
               /\ older' = Stamp(t)
               /\ Signalled([thr EXCEPT ![t] = [@ EXCEPT !.status = "READY", !.wait = "NONE", !.wid = 0]], Stamp(t))

\* The registers of a thread parked in WaitSema: its pc stays on the syscall.
Parked(s) == [live EXCEPT !.call = s]

\* A WaitSema, or the retry of one whose caller was parked with its pc left on
\* the syscall.
WaitSema(s) ==
    /\ mode = "thread"
    /\ live.call = s \/ (live.call = NoCall /\ "WaitSema" \in Calls)
    /\ \/ /\ ~sema[s].used
          /\ Advance
          /\ Continue(thr, Advanced(live))
          /\ UNCHANGED <<older, sema>>
       \/ /\ sema[s].used /\ sema[s].count > 0
          /\ Advance
          /\ sema' = [sema EXCEPT ![s].count = @ - 1]
          /\ Continue(thr, Advanced(live))
          /\ UNCHANGED older
       \/ /\ sema[s].used /\ sema[s].count = 0
          /\ sema[s].waits < MaxWaits
          /\ sema' = [sema EXCEPT ![s].waits = @ + 1]
          /\ older' = Stamp(current)
          /\ Reschedule([thr EXCEPT ![current] = [@ EXCEPT !.status = InUse("WAIT"), !.wait = "SEMA",
                                                        !.wid = s, !.ctx = Parked(s)]],
                        Stamp(current), Parked(s))
          /\ UNCHANGED <<epc, prog>>

PollSema(s) ==
    /\ Executing /\ "PollSema" \in Calls
    /\ Advance
    /\ sema' = IF sema[s].used /\ sema[s].count > 0 THEN [sema EXCEPT ![s].count = @ - 1] ELSE sema
    /\ Continue(thr, Advanced(live))
    /\ UNCHANGED older

-----------------------------------------------------------------------------
(* Interrupts and idling.                                                  *)

\* An interrupt is taken between two instructions (the epilogue of ee_step())
\* or by ee_core_park_tick() while the CPU idles, which then clears st->idle.
Interrupt ==
    /\ mode \in IrqModes
    /\ epc' = live
    /\ live' = HandlerCtx
    /\ mode' = "handler"
    /\ UNCHANGED <<thr, older, current, sema, prog>>

\* Mutant: ERET never preempts.
PreemptsNever(region) == FALSE

\* ee_hle_thread_check_preempt() once ERET has restored pc and cleared EXL.
Preempts(region) ==
    /\ region = "body"
    /\ thr[current].status = "RUN"
    /\ \E n \in PickNextReady(thr, older) : thr[n].prio < thr[current].prio

Eret(region) ==
    /\ mode = "handler"
    /\ epc' = HandlerCtx
    /\ UNCHANGED <<older, sema, prog>>
    /\ IF Preempts(region)
       THEN Dispatch(thr, older, epc)
       ELSE /\ live' = epc
            /\ mode' = "thread"
            /\ UNCHANGED <<thr, current>>

\* The idle branch of ee_step(): ee_hle_thread_reschedule_kick().
IdleTick ==
    /\ mode = "idle"
    /\ Reschedule(thr, older, live)
    /\ UNCHANGED <<older, sema, epc, prog>>

ThreadCall ==
    \/ \E p \in Priorities : CreateThread(p)
    \/ \E t \in Threads : DeleteThread(t)
    \/ \E t \in Threads : StartThread(t)
    \/ \E keep \in BOOLEAN : Exit(keep)
    \/ ThreadReturns
    \/ \E t \in Threads : TerminateThread(t)
    \/ \E t \in Threads, p \in Priorities : ChangeThreadPriority(t, p)
    \/ \E p \in Priorities : RotateThreadReadyQueue(p)
    \/ SleepThread
    \/ \E t \in Threads : WakeupThread(t)
    \/ \E t \in Threads : CancelWakeupThread(t)

SemaCall ==
    \/ \E max \in 1..MaxCount : \E init \in 0..max : CreateSema(max, init)
    \/ \E s \in Semas : DeleteSema(s)
    \/ \E s \in Semas : SignalSema(s)
    \/ \E s \in Semas : WaitSema(s)
    \/ \E s \in Semas : PollSema(s)

Next ==
    \/ Step
    \/ ThreadCall
    \/ SemaCall
    \/ Interrupt
    \/ \E region \in EpcRegions : Eret(region)
    \/ IdleTick

Spec == Init /\ [][Next]_vars

\* VBLANK and the timers interrupt the program again and again, every handler
\* ends, and the program does not only stand in the 4-instruction trampoline
\* when it is interrupted.
FairSpec ==
    /\ Spec
    /\ WF_vars(Interrupt)
    /\ \A region \in EpcRegions : SF_vars(Eret(region))

-----------------------------------------------------------------------------
(* Properties.                                                             *)

\* Where the program of thread t stands: in the CPU, in EPC, or saved.
Context(t) ==
    CASE t # current -> thr[t].ctx
      [] t = current /\ mode = "handler" -> epc
      [] OTHER -> live

\* At most one thread is RUN, and it is g.current_thread_id: nothing a
\* thread or an interrupt handler calls, in any order, leaves a second RUN
\* thread or a RUN thread that is not the one in the CPU.
RunIsCurrent ==
    \A t \in Threads : thr[t].status = "RUN" => t = current

\* No register file is ever mixed up: the CPU (or EPC inside a handler) holds
\* registers of the current thread's program, and every thread that can run
\* again has registers of its own saved, although the save of a thread that
\* leaves the CPU happens in different places for a preempted and for a
\* blocked thread, and not at all under EXL.
OwnRegisters ==
    /\ mode = "thread" => live.own = current
    /\ mode = "handler" => epc.own = current
    /\ \A t \in Threads : thr[t].status \in {"READY", "WAIT"} => thr[t].ctx.own = t

\* A thread resumes exactly where it left off: the registers a READY or WAIT
\* thread will be resumed with are the ones its program really reached, never a
\* stale save from an earlier switch (the bug the comments of WaitSema and
\* SleepThread describe).
ContextFresh ==
    \A t \in Threads : thr[t].status \in {"RUN", "READY", "WAIT"} => Context(t).at = prog[t]

\* Outside handlers, the code that executes belongs to a RUN thread: a thread
\* that sleeps, waits or has exited executes nothing (the purpose of st->idle).
BlockedNeverExecutes ==
    mode = "thread" => thr[current].status = "RUN"

\* Threads whose next instruction is WaitSema(s).
Retrying(s) == {t \in Runnable(thr) : Context(t).call = s}
BlockedOn(s) == {t \in Threads : thr[t].status = "WAIT" /\ thr[t].wait = "SEMA" /\ thr[t].wid = s}

\* No signal is lost: while a thread is blocked on a semaphore, every unit of
\* its count has a woken thread on its way to retry WaitSema.
NoLostSignal ==
    \A s \in Semas : sema[s].used /\ BlockedOn(s) # {} => sema[s].count <= Cardinality(Retrying(s))

\* wait_threads counts exactly the blocked threads, so that DeleteSema is
\* refused iff it would delete the semaphore from under a waiter.
WaitThreadsExact ==
    \A s \in Semas : Cardinality(BlockedOn(s)) = IF sema[s].used THEN sema[s].waits ELSE 0

\* A READY thread that is strictly better than every other runnable thread
\* does not stay READY: the deferred switch happens.
BestReady(t) ==
    /\ thr[t].status = "READY"
    /\ \A u \in Runnable(thr) \ {t} : thr[t].prio < thr[u].prio
BestReadyRuns ==
    \A t \in Threads : BestReady(t) ~> ~BestReady(t)

\* A SignalSema that wakes a waiter hands the signal over and leaves the count
\* alone (what the comment of wake_one_sema_waiter() says).
SignalTransferred ==
    [][\A t \in Threads, s \in Semas :
         t \in BlockedOn(s) /\ thr'[t].status \in {"READY", "RUN"} => sema'[s].count = sema[s].count]_vars

\* A semaphore can be deleted once no thread waits for it.
DeleteRefusedOnlyForWaiters ==
    \A s \in Semas : sema[s].used /\ sema[s].waits > 0 => BlockedOn(s) # {}
=============================================================================
