SPECIFICATION Spec
CONSTANTS
    N = 3
    v1 = v1
    v2 = v2
    Value <- MCValue
    Raw = Raw
INVARIANTS
    OccupiedSlots
