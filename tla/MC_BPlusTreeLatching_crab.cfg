\* Latch crabbing of three writers and a reader: pages change only under
\* their write latch, the root only under the tree latch, held pages stay
\* on the writer's search path, and until all have returned some thread is
\* not waiting for a latch.  Deadlock is checked too: the program stops only
\* when every thread has returned (Terminating).
CONSTANTS
    Keys = {1, 2, 3, 4}
    LeafMaxSize = 2
    InternalMaxSize = 3
    MaxPages = 14
    SizeReadFirst = TRUE
    NoRecord = NoRecord
    Readers = {r1}
    ReaderOps = {"GET", "BEGIN", "BEGIN_KEY", "END"}
    Writers = {w1, w2, w3}
    InitKeys <- InitKeysThreeLeaves
SPECIFICATION LSpec
SYMMETRY WriterSymmetry
INVARIANTS
    WriterOnSearchPath
    SomeThreadProceeds
    BeginHoldsLeftmostLeaf
PROPERTIES
    MutatesOnlyLatched
    RootChangesUnderTreeLatch
