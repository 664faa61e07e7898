\* A build that evaluates RemoveAndDeleteRecord before GetSize in Remove's
\* comparison (line 230): every removal looks like a miss, so leaves are
\* never rebalanced and an emptied root leaf stays the root.
CONSTANTS
    Keys = {1, 2, 3, 4, 5}
    LeafMaxSize = 4
    InternalMaxSize = 3
    MaxPages = 6
    SizeReadFirst = FALSE
    NoRecord = NoRecord
    InitKeys <- InitKeysNone
SPECIFICATION Spec
INVARIANT SizesInBounds
