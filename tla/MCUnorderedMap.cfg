SPECIFICATION CarefulSpec
CONSTANTS
    Key <- MCKey
    Null <- MCNull
    Hash <- MCHash
    MaxSize = 3
    Depth = 2
    BucketField = 64
    Mapped <- MCMapped
INVARIANTS
    TypeOK
    Findable
    UniqueKeys
PROPERTIES
    StableReferences
    ImplementsMap
