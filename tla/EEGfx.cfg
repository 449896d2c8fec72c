SPECIFICATION Spec
CONSTANTS
    CarryMax = 2
    VuMemQuads = 4
    VuMicroPairs = 8
    VuStepCap = 32
    MaxTags = 4
    MaxBlock = 5
    Exclusive = TRUE
    Programs <- GfxPrograms
VIEW GfxView
CHECK_DEADLOCK FALSE
INVARIANTS
    
    VifExact
    
    MicroPath
    
    ImageExact
