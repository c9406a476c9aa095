SPECIFICATION LiveSpec
CONSTANTS
    Key <- MCKey
    Null <- MCNull
    Hash <- MCHash
    MaxSize = 3
    Depth = 2
    BucketField = 64
    Mapped <- MCMapped
    Backoff = 2
    MaxTime = 2
    Never = Never
INVARIANTS
    QueuedOnce
PROPERTIES
    PollDrains
    PollReturns
    AckedLeaves
