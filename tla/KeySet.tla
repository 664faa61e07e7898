------------------------------- MODULE KeySet -------------------------------
(***************************************************************************)
(* What the B+ tree index promises (spec 4.4 and the round-trip laws of    *)
(* spec 8): a set of unique keys.  Insert adds a key (a duplicate is       *)
(* refused and changes nothing), Remove drops it (an absent key changes    *)
(* nothing).  Pages, splits, merges and the root are invisible here.       *)
(***************************************************************************)
CONSTANT Keys

VARIABLE keys

TypeOK == keys \subseteq Keys

Init == keys = {}

Insert(k) == keys' = keys \cup {k}

Remove(k) == keys' = keys \ {k}

Next == \E k \in Keys : Insert(k) \/ Remove(k)

Spec == Init /\ [][Next]_keys
=============================================================================
