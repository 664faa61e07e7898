\* Spec 4.2 victim rule: the largest backward k-distance is evicted.
CONSTANTS
    Frames = {0, 1, 2}
    K = 2
    MaxTime = 2
    MaxAccesses = 5
    Nullopt = Nullopt
    Void = Void
SPECIFICATION Spec
PROPERTY EvictLargestKDistance
