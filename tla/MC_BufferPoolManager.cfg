\* Pool bookkeeping, the pin/replacer agreement and durability of writes.
CONSTANTS
    Frames = {0, 1}
    PageIds = {0, 1, 2}
    Clients = {c1, c2}
    ReplacerK = 2
    MaxTime = 0
    MaxVersion = 2
    None = None
    Nullopt = Nullopt
SPECIFICATION Spec
INVARIANTS
    TypeOK
    FramesPartitioned
    PinsMatchHolders
    PinnedIffNotEvictable
PROPERTY ImplementsPageStore
