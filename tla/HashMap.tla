------------------------------- MODULE HashMap -------------------------------
(***************************************************************************)
(* What ExtendibleHashTable promises its callers (the buffer pool uses it  *)
(* as its page table): a finite map from keys to values.  An insert is     *)
(* requested (the caller enters Insert) and then takes effect at once: the *)
(* key maps to the new value and nothing else changes; a remove drops the  *)
(* key.  Directory, buckets, depths and splits are invisible here.         *)
(***************************************************************************)
CONSTANTS Keys, Values, None

ASSUME None \notin Values

VARIABLES map, pending

TypeOK ==
    /\ map \in [Keys -> Values \cup {None}]
    /\ pending \in {None} \cup (Keys \X Values)

Init ==
    /\ map = [k \in Keys |-> None]
    /\ pending = None

RequestInsert(k, v) ==
    /\ pending = None
    /\ pending' = <<k, v>>
    /\ UNCHANGED map

Insert ==
    /\ pending # None
    /\ map' = [map EXCEPT ![pending[1]] = pending[2]]
    /\ pending' = None

Remove(k) ==
    /\ pending = None
    /\ map' = [map EXCEPT ![k] = None]
    /\ UNCHANGED pending

Next ==
    \/ \E k \in Keys, v \in Values : RequestInsert(k, v)
    \/ Insert
    \/ \E k \in Keys : Remove(k)

Spec == Init /\ [][Next]_<<map, pending>>
=============================================================================
