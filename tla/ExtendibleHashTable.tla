-------------------------- MODULE ExtendibleHashTable --------------------------
(***************************************************************************)
(* src/src/container/hash/extendible_hash_table.cpp                        *)
(*                                                                         *)
(* The directory is a function from slot index 0..2^global_depth-1 to a    *)
(* bucket id; a bucket is named by the order in which it was allocated     *)
(* (make_shared<Bucket>), so the slots that share one shared_ptr share one *)
(* id.  A bucket's items_ list is a function from Keys to a value or None  *)
(* (the list never holds a key twice, so its order is irrelevant).         *)
(*                                                                         *)
(* Every public operation takes the table latch for its whole duration.    *)
(* Insert's while(true) loop is kept as steps of its own: `pending` holds  *)
(* the pair being inserted while the caller is inside the loop, and no     *)
(* other operation runs until it is None again (the latch).                *)
(***************************************************************************)
EXTENDS Naturals, FiniteSets

CONSTANTS
    Keys,        \* the keys callers use
    Values,      \* the values callers store
    None,        \* absent value / no insert in progress
    BucketSize,  \* BUCKET_SIZE: Bucket::IsFull compares with the macro
    HashWidth,   \* number of bits std::hash<K> can produce in the model
    Hash(_)      \* std::hash<K>()(key)

ASSUME None \notin Values
ASSUME BucketSize \in Nat \ {0}
ASSUME \A k \in Keys : Hash(k) \in 0 .. (2^HashWidth - 1)

VARIABLES global_depth, directory, depth, items, pending

vars == <<global_depth, directory, depth, items, pending>>

Buckets == DOMAIN depth

\* IndexOf: hash(k) & ((1 << global_depth_) - 1)
IndexOf(k) == Hash(k) % (2^global_depth)

\* Bucket::IsFull: items_.size() >= BUCKET_SIZE
IsFull(b) == Cardinality({k \in Keys : items[b][k] # None}) >= BucketSize

\* Bucket::Find: the value stored with the key, or None (returns false).
BucketFind(b, k) == items[b][k]

\* Bucket::Remove: erase the key's item if there is one.
BucketRemove(b, k) == [items EXCEPT ![b][k] = None]

\* ExtendibleHashTable::Find: look up the key in the bucket its slot names
Find(k) == BucketFind(directory[IndexOf(k)], k)

\* Bucket::GetDepth().
GetDepth(b) == depth[b]

\* The getters: global_depth_, the depth of the bucket a slot names, and
\* the number of distinct buckets the directory names.
GetGlobalDepth == global_depth
GetLocalDepth(i) == GetDepth(directory[i])
GetNumBuckets == Cardinality({directory[i] : i \in DOMAIN directory})

\* Bucket::Insert succeeds when the key is already there (overwrite) or the
\* bucket has room (append); it fails only on a full bucket without the key.
BucketAccepts(b, k) == items[b][k] # None \/ ~IsFull(b)

\* Mutant: an insert of a present key keeps the old value.
BucketInsertNoOverwrite(b, k, v) == [items EXCEPT ![b][k] = IF @ = None THEN v ELSE @]

BucketInsert(b, k, v) == [items EXCEPT ![b][k] = v]

TypeOK ==
    /\ global_depth \in Nat
    /\ directory \in [0 .. (2^global_depth - 1) -> Buckets]
    /\ depth \in [Buckets -> Nat]
    /\ items \in [Buckets -> [Keys -> Values \cup {None}]]
    /\ pending \in {None} \cup (Keys \X Values)

\* Constructor: global depth 0, one bucket of depth 0.
Init ==
    /\ global_depth = 0
    /\ directory = [i \in {0} |-> 0]
    /\ depth = [b \in {0} |-> 0]
    /\ items = [b \in {0} |-> [k \in Keys |-> None]]
    /\ pending = None

\* Insert: take the latch and enter the retry loop.
InsertBegin(k, v) ==
    /\ pending = None
    /\ pending' = <<k, v>>
    /\ UNCHANGED <<global_depth, directory, depth, items>>

\* Mutant: the successful iteration does not leave the loop.
InsertIntoBucketNoReturn ==
    /\ pending # None
    /\ LET k == pending[1]
           v == pending[2]
           b == directory[IndexOf(k)]
       IN /\ BucketAccepts(b, k)
          /\ items' = BucketInsert(b, k, v)
    /\ UNCHANGED <<global_depth, directory, depth, pending>>

\* One loop iteration whose Bucket::Insert succeeds: return true.
InsertIntoBucket ==
    /\ pending # None
    /\ LET k == pending[1]
           v == pending[2]
           b == directory[IndexOf(k)]
       IN /\ BucketAccepts(b, k)
          /\ items' = BucketInsert(b, k, v)
    /\ pending' = None
    /\ UNCHANGED <<global_depth, directory, depth>>

\* Mutants of SplitBucket: the old bucket keeps its depth; the items are
\* not rehashed.
SplitBucketNoDeepen(idx) ==
    LET old  == directory[idx]
        ld   == GetDepth(old)
        grow == ld = global_depth
        gd   == IF grow THEN global_depth + 1 ELSE global_depth
        dir1 == IF grow
                THEN [i \in 0 .. (2^gd - 1) |-> directory[i % 2^global_depth]]
                ELSE directory
        new  == Cardinality(Buckets)
        dir2 == [i \in DOMAIN dir1 |->
                   IF dir1[i] = old /\ (i \div 2^ld) % 2 = 1 THEN new ELSE dir1[i]]
        moves(k) == items[old][k] # None /\ dir2[Hash(k) % 2^gd] = new
    IN /\ global_depth' = gd
       /\ directory' = dir2
       /\ depth' = [b \in Buckets \cup {new} |-> IF b = new THEN ld + 1 ELSE depth[b]]
       /\ items' = [b \in Buckets \cup {new} |->
                     CASE b = new -> [k \in Keys |-> IF moves(k) THEN items[old][k] ELSE None]
                       [] b = old -> [k \in Keys |-> IF moves(k) THEN None ELSE items[old][k]]
                       [] OTHER   -> items[b]]

SplitBucketNoRehash(idx) ==
    LET old  == directory[idx]
        ld   == GetDepth(old)
        grow == ld = global_depth
        gd   == IF grow THEN global_depth + 1 ELSE global_depth
        dir1 == IF grow
                THEN [i \in 0 .. (2^gd - 1) |-> directory[i % 2^global_depth]]
                ELSE directory
        new  == Cardinality(Buckets)
    IN /\ global_depth' = gd
       /\ directory' = [i \in DOMAIN dir1 |->
                          IF dir1[i] = old /\ (i \div 2^ld) % 2 = 1 THEN new ELSE dir1[i]]
       /\ depth' = [b \in Buckets \cup {new} |-> IF b \in {old, new} THEN ld + 1 ELSE depth[b]]
       /\ items' = [b \in Buckets \cup {new} |->
                     IF b = new THEN [k \in Keys |-> None] ELSE items[b]]

\* Mutant: the directory is doubled but global_depth_++ is forgotten.
SplitBucketNoGlobalIncrement(idx) ==
    LET old  == directory[idx]
        ld   == GetDepth(old)
        grow == ld = global_depth
        gd   == IF grow THEN global_depth + 1 ELSE global_depth
        dir1 == IF grow
                THEN [i \in 0 .. (2^gd - 1) |-> directory[i % 2^global_depth]]
                ELSE directory
        new  == Cardinality(Buckets)
        dir2 == [i \in DOMAIN dir1 |->
                   IF dir1[i] = old /\ (i \div 2^ld) % 2 = 1 THEN new ELSE dir1[i]]
        moves(k) == items[old][k] # None /\ dir2[Hash(k) % 2^gd] = new
    IN /\ global_depth' = global_depth
       /\ directory' = dir2
       /\ depth' = [b \in Buckets \cup {new} |-> IF b \in {old, new} THEN ld + 1 ELSE depth[b]]
       /\ items' = [b \in Buckets \cup {new} |->
                     CASE b = new -> [k \in Keys |-> IF moves(k) THEN items[old][k] ELSE None]
                       [] b = old -> [k \in Keys |-> IF moves(k) THEN None ELSE items[old][k]]
                       [] OTHER   -> items[b]]

\* SplitBucket(directory_index): double the directory if the bucket is at
\* global depth, allocate a bucket of depth local+1, deepen the old one,
\* redirect the old bucket's slots whose bit `local_depth` is set, and move
\* the items whose new slot names the new bucket.
SplitBucket(idx) ==
    LET old  == directory[idx]
        ld   == GetDepth(old)
        grow == ld = global_depth
        gd   == IF grow THEN global_depth + 1 ELSE global_depth
        dir1 == IF grow
                THEN [i \in 0 .. (2^gd - 1) |-> directory[i % 2^global_depth]]
                ELSE directory
        new  == Cardinality(Buckets)
        dir2 == [i \in DOMAIN dir1 |->
                   IF dir1[i] = old /\ (i \div 2^ld) % 2 = 1 THEN new ELSE dir1[i]]
        moves(k) == items[old][k] # None /\ dir2[Hash(k) % 2^gd] = new
    IN /\ global_depth' = gd
       /\ directory' = dir2
       /\ depth' = [b \in Buckets \cup {new} |-> IF b \in {old, new} THEN ld + 1 ELSE depth[b]]
       /\ items' = [b \in Buckets \cup {new} |->
                     CASE b = new -> [k \in Keys |-> IF moves(k) THEN items[old][k] ELSE None]
                       [] b = old -> [k \in Keys |-> IF moves(k) THEN None ELSE items[old][k]]
                       [] OTHER   -> items[b]]

\* One loop iteration whose Bucket::Insert fails: split, then retry.
InsertSplit ==
    /\ pending # None
    /\ ~BucketAccepts(directory[IndexOf(pending[1])], pending[1])
    /\ SplitBucket(IndexOf(pending[1]))
    /\ UNCHANGED pending

\* ExtendibleHashTable::Remove: erase the key from the bucket its slot names.
Remove(k) ==
    /\ pending = None
    /\ items' = BucketRemove(directory[IndexOf(k)], k)
    /\ UNCHANGED <<global_depth, directory, depth, pending>>

Next ==
    \/ \E k \in Keys, v \in Values : InsertBegin(k, v)
    \/ InsertIntoBucket
    \/ InsertSplit
    \/ \E k \in Keys : Remove(k)

\* The thread that holds the latch keeps running its loop.
Spec == Init /\ [][Next]_vars /\ WF_vars(InsertIntoBucket \/ InsertSplit)

------------------------------------------------------------------------------
(***************************************************************************)
(* Properties                                                              *)
(***************************************************************************)

\* Directory shape (spec section 3), in both directions: two slots name the
\* same bucket exactly when they agree on that bucket's low local_depth
\* bits, no bucket is deeper than the directory, and GetNumBuckets counts
\* every bucket SplitBucket ever allocated.  A split that forgets to deepen
\* the old bucket breaks it; the bounds let splits of one bucket raise
\* global_depth_ past the local depth of another that then splits without
\* doubling, so interleaved splits of different buckets are reached.
DirectoryWellFormed ==
    /\ GetNumBuckets = Cardinality(Buckets)
    /\ \A i, j \in DOMAIN directory :
          LET ld == GetLocalDepth(i)
          IN /\ ld <= GetGlobalDepth
             /\ (directory[i] = directory[j]) <=> (i % 2^ld = j % 2^ld)

\* Every stored item sits in the bucket its current slot names, and no
\* bucket holds more than BUCKET_SIZE items: the rehash inside SplitBucket
\* moved exactly the items whose slot was redirected.
ItemsWhereFindLooks ==
    \A b \in Buckets :
        /\ \A k \in Keys : items[b][k] # None => directory[IndexOf(k)] = b
        /\ Cardinality({k \in Keys : items[b][k] # None}) <= BucketSize

\* Insert's retry loop ends: every insert that entered the loop returns.
\* The code has no exit other than success (spec 4.1 requires one).
InsertReturns == pending # None ~> pending = None

\* The loop cannot run past the hash width: each split deepens the target
\* bucket and the depth is bounded by sizeof(hash) * 8 (spec 4.1).
DepthWithinHashWidth == global_depth <= HashWidth

\* Seen through Find, the table behaves as a map: an insert of k changes
\* only k, a split changes nothing, a remove drops only k.
Abstract == INSTANCE HashMap WITH map <- [k \in Keys |-> Find(k)], pending <- pending

ImplementsHashMap == Abstract!Spec
=============================================================================
