SPECIFICATION OutSpec
CONSTANTS
    Size = 6
    MaxBytes = 14
INVARIANTS
    RoomWasChecked
