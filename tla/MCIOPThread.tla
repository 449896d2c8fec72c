---------------------------- MODULE MCIOPThread ----------------------------
(* Call repertoires of the programs IOPThread is checked with.             *)
EXTENDS IOPThread

Runs(calls, irqs) == [calls |-> calls, irqs |-> irqs]

\* Scheduling: everything that moves threads that stay in and out of the CPU,
\* except a thread that suspends itself.
SchedCalls == {"CreateThread", "StartThread", "ChangeThreadPriority", "RotateThreadReadyQueue",
               "ReleaseWaitThread", "SleepThread", "WakeupThread", "CancelWakeupThread", "SuspendThread",
               "ResumeThread"}

\* Threads that end and are ended, and whose slots are used again.
EndCalls == {"CreateThread", "StartThread", "DeleteThread", "TerminateThread", "ExitDeleteThread", "SleepThread"}

\* Semaphores that are not deleted, signalled from threads and from alarm callbacks,
\* also while the core idles.
SemaCalls == {"CreateThread", "StartThread", "iReleaseWaitThread", "SetAlarm",
              "CreateSema", "SignalSema", "WaitSema", "PollSema", "iSignalSema"}

\* Event flags.
EvfCalls == {"CreateThread", "StartThread", "CreateEventFlag", "DeleteEventFlag", "SetEventFlag",
             "ClearEventFlag", "WaitEventFlag", "PollEventFlag", "iSetEventFlag", "iClearEventFlag"}

\* Alarms over threads that never all block.
AlarmCalls == {"CreateThread", "StartThread", "ChangeThreadPriority", "SetAlarm", "CancelAlarm", "iSetAlarm",
               "iCancelAlarm"}

\* Delays of threads that also sleep and end, and handlers that wake, stop and
\* reorder them.
DelayCalls == {"CreateThread", "StartThread", "ExitThread", "SleepThread", "DelayThread", "ModulesDone",
               "iWakeupThread", "iTerminateThread", "iRotateThreadReadyQueue", "iCancelWakeupThread",
               "iSuspendThread", "iResumeThread"}

\* Delays beside a semaphore that is deleted under its waiters.
DeleteCalls == {"CreateThread", "StartThread", "DelayThread", "ModulesDone", "CreateSema", "DeleteSema", "WaitSema",
                "iWakeupThread", "iTerminateThread"}

SchedPrograms == {Runs(SchedCalls, {}), Runs(EndCalls, {})}
SyncPrograms == {Runs(SemaCalls, {}), Runs(EvfCalls, {"thread"})}
TimePrograms == {Runs(DelayCalls, {"thread", "idle"}), Runs(DeleteCalls, {"thread", "idle"}),
                 Runs(AlarmCalls, {"thread"})}
ThreadPrograms == SchedPrograms \cup SyncPrograms

\* What the run of ThreadPrograms tells states apart by: the programs with semaphores
\* and event flags leave out the parities at and prog and the mark clob, which no
\* guard reads, and of the run's invariants only ContextFresh.
Bare(ctx) == <<ctx.own, ctx.pc>>
SyncView ==
    <<[t \in Threads |-> [thr[t] EXCEPT !.ctx = Bare(@)]], older, current, idle, Bare(live),
      syncVars, delay, alarmVars, ie, Bare(saved), booted, ticked, app>>
ThreadView == IF app \in SyncPrograms THEN SyncView ELSE <<vars>>
=============================================================================
