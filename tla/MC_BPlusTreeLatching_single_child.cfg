\* Latch crabbing as in MC_BPlusTreeLatching_crab.cfg, with internal pages
\* of at most two children.  A non-root internal page may then have a single
\* child, and a Remove under it reaches CoalesceOrRedistribute line 325,
\* which returns without ReleaseLatchFromQueue: SomeThreadProceeds fails.
CONSTANTS
    Keys = {1, 2, 3, 4}
    LeafMaxSize = 2
    InternalMaxSize = 2
    MaxPages = 14
    SizeReadFirst = TRUE
    NoRecord = NoRecord
    Readers = {r1}
    ReaderOps = {"GET", "BEGIN", "BEGIN_KEY", "END"}
    Writers = {w1, w2, w3}
    InitKeys <- InitKeysThreeLeaves
SPECIFICATION LSpec
SYMMETRY WriterSymmetry
INVARIANT
    SomeThreadProceeds
