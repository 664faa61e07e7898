------------------------- MODULE MC_BPlusTreeLatching -------------------------
(***************************************************************************)
(* Model-checking instances of BPlusTreeLatching.  Leaves hold one key     *)
(* (leaf_max_size_ 2), so every insert into a leaf splits it and every     *)
(* remove empties it; internal pages hold up to three children.            *)
(*                                                                         *)
(*   MC_BPlusTreeLatching.cfg           one reader and one writer over a   *)
(*                                      one-key tree (the search race)     *)
(*   MC_BPlusTreeLatching_crab.cfg      one reader and three writers over a*)
(*                                      root with three leaves             *)
(*   MC_BPlusTreeLatching_reparent.cfg  one reader and one writer whose    *)
(*                                      insert splits the root             *)
(***************************************************************************)
EXTENDS BPlusTreeLatching

\* The keys inserted, in order, before the threads start.
InitKeysOne == <<1>>
InitKeysThreeLeaves == <<1, 2, 3>>
InitKeysFullRoot == <<1, 3, 4>>

\* Writers are interchangeable: each picks its operation and key in LInit.
WriterSymmetry == Permutations(Writers)
=============================================================================
