SPECIFICATION Spec
CONSTANTS
    Elem = {1, 257}
    Fresh = {1, 0}
    Outside = Outside
    N = 4
    Pad = 1
    MaxCapacity = 5
    MaxInput = 2
    Width = 4
INVARIANTS
    StaysInside
