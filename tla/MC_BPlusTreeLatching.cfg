\* Spec 4.4 (search protocol) and 5: a search sees the tree as of the moment
\* it latched the leaf.  The reader releases root_page_id_latch_ before
\* latching the root (lines 459-460), and a root split in between sends it
\* into the old root, which no longer covers its key.
CONSTANTS
    Keys = {1, 2}
    LeafMaxSize = 2
    InternalMaxSize = 3
    MaxPages = 10
    SizeReadFirst = TRUE
    NoRecord = NoRecord
    Readers = {r1}
    ReaderOps = {"GET", "BEGIN", "BEGIN_KEY", "END"}
    Writers = {w1}
    InitKeys <- InitKeysOne
SPECIFICATION LSpec
INVARIANT SearchSeesSnapshot
