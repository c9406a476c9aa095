SPECIFICATION CarefulRefSpec
CONSTANTS
    Node = {a, b, c, d}
    Eol = Eol
INVARIANTS
    WellLinked
    GoesInACircle
    LastDestroys
PROPERTIES
    ImplementsSeq
CHECK_DEADLOCK FALSE
