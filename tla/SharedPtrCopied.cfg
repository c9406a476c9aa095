SPECIFICATION Spec
CONSTANTS
    Handle = {h1, h2, h3}
    Block = {b1, b2}
    Null = Null
    Unborn = Unborn
    CountMod = 65536
INVARIANTS
    LivesWhileOwned
