SPECIFICATION Spec
CONSTANTS
    MaxThreads = 2
    MaxSemas = 1
    Priorities = {1, 2}
    RootPriority = 2
    MaxCount = 1
    MaxWakeup = 0
    MaxWaits = 1
    Calls <- AllCalls
    IrqModes = {"thread", "idle"}
    EpcRegions = {"body", "trampoline"}
INVARIANTS RunIsCurrent OwnRegisters
