----------------------- MODULE MC_ExtendibleHashTable -----------------------
(***************************************************************************)
(* Model-checking instance of ExtendibleHashTable.  Keys are ints and      *)
(* std::hash<int> is the identity, so the hash of a key is the key itself; *)
(* with keys 0..5 the even keys split bucket 0 twice (doubling to global   *)
(* depth 2), and the odd keys then split bucket 1 at local depth 1 without *)
(* doubling; depth 3 would need three keys equal in their low two bits.    *)
(***************************************************************************)
EXTENDS ExtendibleHashTable

MCHash(k) == k

\* Keys of a type whose hash collides: three keys, one hash value.
CollidingHash(k) == k % 4
=============================================================================
