SPECIFICATION FairSpec
CONSTANTS
    K = 2
    Priority = {1, 2, 3}
    Capacity = 7
    None = None
INVARIANTS
    TypeOK
    HeapOrdered
PROPERTIES
    ImplementsBag
    CallsReturn
