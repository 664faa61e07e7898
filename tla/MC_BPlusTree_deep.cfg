\* Deep trees: leaves of one key, starting from the three-level tree of keys
\* 1..7.  Inserting 8 splits an internal page below the root and cascades to
\* a root split (four levels); removes borrow and merge at the internal levels.
\* MaxPages 15 leaves room for that one four-page cascade after the 11 pages
\* of the initial tree.
CONSTANTS
    Keys = {1, 2, 3, 4, 5, 6, 7, 8}
    LeafMaxSize = 2
    InternalMaxSize = 3
    MaxPages = 15
    SizeReadFirst = TRUE
    NoRecord = NoRecord
    InitKeys <- InitKeysThreeLevels
SPECIFICATION Spec
INVARIANTS
    TreeWellFormed
    GetValueFindsContent
