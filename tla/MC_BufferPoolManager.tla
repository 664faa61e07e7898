------------------------ MODULE MC_BufferPoolManager ------------------------
(***************************************************************************)
(* Model-checking instance of BufferPoolManager: a pool of two frames,     *)
(* three page ids (so a third page forces an eviction and a fetch of an    *)
(* evicted page), two callers (so a page is pinned twice and unpinned by   *)
(* one holder while the other keeps it), k = 2, two writes per page.       *)
(***************************************************************************)
EXTENDS BufferPoolManager
=============================================================================
