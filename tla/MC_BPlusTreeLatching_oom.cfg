\* Spec 7: OutOfMemory is fatal to the triggering operation.  An insert
\* whose NewPage fails throws with root_page_id_latch_ and its leaf latch
\* still held (lines 134-137, 164-167), and every later search and writer
\* waits for them.
CONSTANTS
    Keys = {1, 2}
    LeafMaxSize = 2
    InternalMaxSize = 3
    MaxPages = 10
    SizeReadFirst = TRUE
    NoRecord = NoRecord
    Readers = {r1}
    ReaderOps = {"GET", "BEGIN", "BEGIN_KEY", "END"}
    Writers = {w1}
    InitKeys <- InitKeysOne
SPECIFICATION LSpecOOM
INVARIANT SomeThreadProceeds
