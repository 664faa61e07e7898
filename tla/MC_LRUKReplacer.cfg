\* What the replacer's own bookkeeping guarantees.
CONSTANTS
    Frames = {0, 1, 2}
    K = 2
    MaxTime = 2
    MaxAccesses = 5
    Nullopt = Nullopt
    Void = Void
SPECIFICATION Spec
INVARIANTS
    TypeOK
    SizeMatchesEvictable
    GroupsPartitionTracked
PROPERTY EvictChoosesEvictable
