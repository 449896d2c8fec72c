SPECIFICATION Spec
CONSTANTS
    c1 = c1
    b1 = b1
    b2 = b2
    MaxThreads = 3
    MaxSemas = 1
    MaxFlags = 1
    MaxAlarms = 1
    Priorities = {1, 2}
    RootPriority = 2
    MaxCount = 1
    MaxWakeup = 0
    MaxWaits = 2
    Bits = {b1, b2}
    Modes = {"AND", "OR_CLEAR"}
    Durations = {2}
    Callbacks = {c1}
    Programs <- ThreadPrograms
VIEW ThreadView
CHECK_DEADLOCK FALSE
INVARIANTS
    ContextFresh
    BlockedNeverExecutes
    PriorityRespected
    NoLostSignal
    EvfNoMissedWake
    WaitsExact
