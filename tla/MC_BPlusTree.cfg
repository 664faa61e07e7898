\* Structure of the tree under any sequence of inserts and removes.
CONSTANTS
    Keys = {1, 2, 3, 4, 5, 6, 7, 8}
    LeafMaxSize = 4
    InternalMaxSize = 3
    MaxPages = 12
    SizeReadFirst = TRUE
    NoRecord = NoRecord
    InitKeys <- InitKeysNone
SPECIFICATION Spec
INVARIANTS
    TypeOK
    TreeWellFormed
    LeavesInOrder
    GetValueFindsContent
    SizesInBounds
PROPERTY ImplementsKeySet
