------------------------------ MODULE PageStore ------------------------------
(***************************************************************************)
(* What the buffer pool promises about page contents: every page id has    *)
(* one current content, a new page reads as zeroes, and the content of a   *)
(* page changes only when a caller holding it writes it.  Frames, eviction *)
(* and write-back are invisible here: a write is never lost and a stale    *)
(* copy is never read back.  A content is a version number: each write     *)
(* produces the next one.                                                  *)
(***************************************************************************)
EXTENDS Naturals

CONSTANTS PageIds, MaxVersion

VARIABLE content

TypeOK == content \in [PageIds -> 0 .. MaxVersion]

Init == content = [p \in PageIds |-> 0]

Write(p) == content' = [content EXCEPT ![p] = @ + 1]

Next == \E p \in PageIds : Write(p)

Spec == Init /\ [][Next]_content
=============================================================================
