SPECIFICATION CarefulSpec
CONSTANTS
    Holder = {x, y, z}
    Value = {u, v}
    Moved = Moved
    Nothing = Nothing
    Raw = Raw
    Broken = Broken
INVARIANTS
    HoldsWhatItSays
PROPERTIES
    ImplementsHolding
