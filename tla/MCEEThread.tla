----------------------------- MODULE MCEEThread -----------------------------
(* Repertoires of system calls for the runs of EEThread.                   *)
EXTENDS EEThread

AllCalls == CallNames

\* Threads that are made, block, wake and are reordered, and share a semaphore with
\* a handler.
ThreadCalls == {"CreateThread", "StartThread", "SleepThread", "WakeupThread", "ChangeThreadPriority", "CreateSema",
                "DeleteSema", "SignalSema", "WaitSema", "iWakeupThread",
                "iSignalSema"}

TerminateCalls == ThreadCalls \cup {"TerminateThread"}
=============================================================================
