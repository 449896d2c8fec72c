SPECIFICATION Spec
CONSTANTS
    Base = 2
    Size = 4
    SmMax = 4
    SmCheck = 1
INVARIANTS
    
    QueriesExact
PROPERTIES
    ImplementsSysMem
