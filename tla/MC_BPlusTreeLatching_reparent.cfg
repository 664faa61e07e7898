\* Spec 5: a page is mutated only by the holder of its write latch.  An
\* insert that splits the root re-parents the moved children without
\* latching them (CopyNFrom), while a reader holds one of them.
CONSTANTS
    Keys = {1, 2, 3, 4}
    LeafMaxSize = 2
    InternalMaxSize = 3
    MaxPages = 10
    SizeReadFirst = TRUE
    NoRecord = NoRecord
    Readers = {r1}
    ReaderOps = {"GET", "BEGIN", "BEGIN_KEY", "END"}
    Writers = {w1}
    InitKeys <- InitKeysFullRoot
SPECIFICATION LSpec
PROPERTY ParentSetUnderLatch
