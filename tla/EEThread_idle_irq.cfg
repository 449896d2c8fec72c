SPECIFICATION Spec
CONSTANTS
    MaxThreads = 2
    MaxSemas = 0
    Priorities = {1, 2}
    RootPriority = 2
    MaxCount = 1
    MaxWakeup = 1
    MaxWaits = 2
    Calls <- ThreadCalls
    IrqModes = {"thread", "idle"}
    EpcRegions = {"body"}
INVARIANT BlockedNeverExecutes
