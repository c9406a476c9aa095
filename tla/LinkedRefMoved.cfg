SPECIFICATION RefSpec
CONSTANTS
    Node = {a, b, c, d}
    Eol = Eol
INVARIANTS
    GoesInACircle
