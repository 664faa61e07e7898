\* Spec 6: the header page's record follows the root.  Emptying the tree
\* (AdjustRoot, lines 396-398) and starting a new one (StartNewTree, line 89)
\* leave it naming a page that is no longer the root.
CONSTANTS
    Keys = {1, 2, 3}
    LeafMaxSize = 2
    InternalMaxSize = 3
    MaxPages = 6
    SizeReadFirst = TRUE
    NoRecord = NoRecord
    InitKeys <- InitKeysNone
SPECIFICATION Spec
INVARIANT HeaderNamesRoot
