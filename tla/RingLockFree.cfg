SPECIFICATION LFSpec
CONSTANTS
    N = 4
    MaxPush = 9
INVARIANTS
    NothingLost
