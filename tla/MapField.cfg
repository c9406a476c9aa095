SPECIFICATION CarefulSpec
CONSTANTS
    Key <- FarKey
    Null <- MCNull
    Hash <- FarHash
    MaxSize = 66
    Depth = 1
    BucketField = 64
    Mapped <- FarMapped
INVARIANTS
    Findable
