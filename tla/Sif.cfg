SPECIFICATION FairSpec
CONSTANTS
    Delay = 5
    Recheck = 3
    MaxIop = 2
INVARIANTS
    BootendScheduled
    BootendWindow
PROPERTIES
    LoopsEnd
