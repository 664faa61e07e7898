\* Distinct hashes: the table must behave as a map and every insert return.
CONSTANTS
    Keys = {0, 1, 2, 3, 4, 5}
    Values = {v1, v2}
    None = None
    BucketSize = 2
    HashWidth = 3
    Hash <- MCHash
SPECIFICATION Spec
INVARIANTS
    TypeOK
    DirectoryWellFormed
    ItemsWhereFindLooks
PROPERTIES
    ImplementsHashMap
    InsertReturns
