SPECIFICATION Spec
CONSTANTS
    N <- MCN
    MaxPush <- MCMaxPush
INVARIANTS
    TypeOK
    Lifetimes
    SlotsAccounted
    NoDataRace
PROPERTIES
    ImplementsFifo
    Drains
    PushReturns
