--------------------------- MODULE MC_LRUKReplacer ---------------------------
(***************************************************************************)
(* Model-checking instance of LRUKReplacer: three frames, k = 2 (the test  *)
(* binaries use k = 2 and k = 3), five accesses spread over up to three    *)
(* clock seconds, so frames reach the cache group, share timestamps and    *)
(* are evicted, removed and re-tracked.                                    *)
(***************************************************************************)
EXTENDS LRUKReplacer
=============================================================================
