SPECIFICATION Spec
CONSTANTS
    Key <- MCKey
    Null <- MCNull
    Hash <- MCHash
    MaxSize = 3
    Depth = 2
    BucketField = 64
    Mapped <- MCMapped
INVARIANTS
    Findable
