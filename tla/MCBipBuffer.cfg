SPECIFICATION MCSpec
CONSTANTS
    Size = 6
    MaxBytes = 14
INVARIANTS
    TypeOK
    InOrder
    EmptyIsWhole
    DeliveredInOrder
