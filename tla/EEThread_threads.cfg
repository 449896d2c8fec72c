SPECIFICATION FairSpec
CONSTANTS
    MaxThreads = 3
    MaxSemas = 1
    Priorities = {1, 2}
    RootPriority = 2
    MaxCount = 1
    MaxWakeup = 0
    MaxWaits = 2
    Calls <- ThreadCalls
    IrqModes = {"thread"}
    EpcRegions = {"body"}
INVARIANTS ContextFresh BlockedNeverExecutes NoLostSignal WaitThreadsExact
PROPERTIES BestReadyRuns
