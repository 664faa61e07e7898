---------------------------- MODULE MC_BPlusTree ----------------------------
(***************************************************************************)
(* Model-checking instance of BPlusTree.  MC_BPlusTree.cfg: leaves of 4    *)
(* (min 2) and internal pages of 3 (min 2), the smallest even leaf size at *)
(* which leaves split, borrow both ways and merge, with eight keys, enough *)
(* for a root split.  MC_BPlusTree_deep.cfg: leaves of 2 (one key each),   *)
(* starting from the three-level tree of keys 1..7 (root of three internal *)
(* pages, the last with three leaves): inserting 8 splits a leaf, the      *)
(* internal page above it and the root, and removes borrow and merge at    *)
(* every level below the root.                                             *)
(***************************************************************************)
EXTENDS BPlusTree

\* The keys inserted, in order, before checking starts.
InitKeysNone == <<>>
InitKeysThreeLevels == <<1, 2, 3, 4, 5, 6, 7>>
=============================================================================
