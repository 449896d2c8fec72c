SPECIFICATION FairSpec
CONSTANTS
    c1 = c1
    c2 = c2
    MaxThreads = 2
    MaxSemas = 1
    MaxFlags = 0
    MaxAlarms = 2
    Priorities = {1, 2}
    RootPriority = 2
    MaxCount = 1
    MaxWakeup = 0
    MaxWaits = 1
    Bits = {}
    Modes = {}
    Durations = {1}
    Callbacks = {c1, c2}
    Programs <- TimePrograms
CHECK_DEADLOCK FALSE
INVARIANTS
    CallbackAlive
    NeverIdlesOverReady
PROPERTIES
    AlarmServed
