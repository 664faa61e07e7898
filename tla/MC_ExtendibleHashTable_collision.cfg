\* Three keys with one hash value and buckets of two: the split loop.
CONSTANTS
    Keys = {0, 4, 8}
    Values = {v1}
    None = None
    BucketSize = 2
    HashWidth = 2
    Hash <- CollidingHash
SPECIFICATION Spec
INVARIANT DepthWithinHashWidth
