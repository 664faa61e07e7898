------------------------------ MODULE BPlusTree ------------------------------
(***************************************************************************)
(* src/src/storage/index/b_plus_tree.cpp (structure: search, insert with   *)
(* leaf and internal splits, remove with coalesce, redistribute and root   *)
(* adjustment) and src/project2代码/src/storage/page/                      *)
(* b_plus_tree_internal_page.cpp.                                          *)
(*                                                                         *)
(* Insert and Remove hold root_page_id_latch_ in write mode from the start *)
(* (the latch is released early only once the descent has found a safe    *)
(* node, and then no ancestor changes), so with one writer at a time each  *)
(* call is one step.  Concurrency is the subject of BPlusTreeLatching.     *)
(*                                                                         *)
(*   nodes[p]      the B+ tree page held in page p: leaf flag, keys        *)
(*                 (array_[i].first, slot 0 included for internal pages),  *)
(*                 vals (array_[i].second: child page ids; a leaf's        *)
(*                 record ids are its keys, RID(key), and are left out),   *)
(*                 parent_page_id_, next_page_id_ (leaves)                 *)
(*   root_page_id  root_page_id_                                           *)
(*   next_page_id  the page ids NewPage hands out, in order                *)
(*   header        the <index_name, root_page_id> record of the header     *)
(*                 page, or NoRecord                                       *)
(* Sizes are the lengths of the arrays.  A zeroed key (ResetMemory in      *)
(* NewPage) is ZeroKey.  Page data is read and written through the buffer  *)
(* pool, whose correctness BufferPoolManager checks; here a page is its    *)
(* content.                                                                *)
(*                                                                         *)
(* The leaf page's source is not in the repository: its Insert, Remove,    *)
(* MoveHalfTo, MoveAllTo, MoveFirstToEndOf and MoveLastToFrontOf, and      *)
(* GetMinSize, follow spec 3 and 4.4.                                      *)
(***************************************************************************)
EXTENDS Integers, Sequences, FiniteSets, FiniteSetsExt, Functions, TLC

SX == INSTANCE SequencesExt

CONSTANTS
    Keys,             \* the keys callers use (integers, so ordered)
    LeafMaxSize,      \* leaf_max_size_
    InternalMaxSize,  \* internal_max_size_
    MaxPages,         \* bound on the page ids the tree may allocate
    SizeReadFirst,    \* order of evaluation at Remove's size comparison
    NoRecord,         \* the header page holds no record for the index
    InitKeys          \* the keys inserted, in order, before checking starts

ASSUME Keys \subseteq Nat \ {0}
ASSUME LeafMaxSize >= 2 /\ InternalMaxSize >= 2
ASSUME SizeReadFirst \in BOOLEAN
ASSUME InitKeys \in Seq(Keys)

INVALID_PAGE_ID == -1
ZeroKey == 0

PageIds == 1 .. MaxPages

VARIABLES nodes, root_page_id, next_page_id, header

vars == <<nodes, root_page_id, next_page_id, header>>

\* The tree state as one record, so that the recursive helpers can thread it.
State == [nodes |-> nodes, root |-> root_page_id, next |-> next_page_id, header |-> header]

------------------------------------------------------------------------------
(***************************************************************************)
(* Page helpers                                                            *)
(***************************************************************************)

Size(n) == Len(n.keys)

MaxSize(n) == IF n.leaf THEN LeafMaxSize ELSE InternalMaxSize

\* BPlusTreePage::GetMinSize (spec 3: ceil(max_size / 2), counting the
\* leftmost pointer of an internal page).
MinSize(n) == (MaxSize(n) + 1) \div 2

\* KeyAt / SetKeyAt / ValueAt take the array offset, from 0.
KeyAt(n, i) == n.keys[i + 1]
SetKeyAt(n, i, k) == [n EXCEPT !.keys[i + 1] = k]
ValueAt(n, i) == n.vals[i + 1]

\* ValueIndex: the offset of the child, or GetSize() when it is absent.
ValueIndex(n, v) ==
    LET at == {i \in 0 .. Size(n) - 1 : ValueAt(n, i) = v}
    IN IF at = {} THEN Size(n) ELSE Min(at)

\* Mutant: on a key equal to the separator, the child before it.
LookupUpperBound(n, k) ==
    LET ge == {i \in 1 .. Size(n) - 1 : KeyAt(n, i) >= k}
    IN IF ge = {} THEN ValueAt(n, Size(n) - 1) ELSE ValueAt(n, Min(ge) - 1)

\* Internal Lookup: lower_bound over offsets 1 .. size-1 for the first key
\* not below k; past the end, the last child; on an equal key, its child;
\* otherwise the child before it.
Lookup(n, k) ==
    LET ge == {i \in 1 .. Size(n) - 1 : KeyAt(n, i) >= k}
    IN IF ge = {} THEN ValueAt(n, Size(n) - 1)
       ELSE IF KeyAt(n, Min(ge)) = k THEN ValueAt(n, Min(ge))
       ELSE ValueAt(n, Min(ge) - 1)

\* Leaf Insert: in sorted position; a duplicate leaves the page unchanged.
LeafInsert(n, k) ==
    IF \E i \in 1 .. Size(n) : n.keys[i] = k THEN n
    ELSE [n EXCEPT !.keys = SX!InsertAt(@, Cardinality({i \in 1 .. Size(n) : @[i] < k}) + 1, k)]

\* Leaf RemoveAndDeleteRecord: the page without the key.
LeafRemove(n, k) == [n EXCEPT !.keys = SelectSeq(@, LAMBDA x : x # k)]

\* Mutant: the child pointer is not stored next to the key.
InsertNodeAfterNoValue(n, old, k, new) ==
    [n EXCEPT !.keys = SX!InsertAt(@, ValueIndex(n, old) + 2, k)]

\* InsertNodeAfter: (new_key, new_value) right after old_value.
InsertNodeAfter(n, old, k, new) ==
    LET at == ValueIndex(n, old) + 2
    IN [n EXCEPT !.keys = SX!InsertAt(@, at, k), !.vals = SX!InsertAt(@, at, new)]

\* Remove(index) of an internal page.
InternalRemove(n, i) == [n EXCEPT !.keys = SX!RemoveAt(@, i + 1), !.vals = SX!RemoveAt(@, i + 1)]

\* The pages of `cs` get parent_page_id_ = p (the fetch, SetParentPageId,
\* unpin loops of CopyNFrom, CopyLastFrom and CopyFirstFrom).
SetParents(ns, cs, p) == [q \in DOMAIN ns |-> IF q \in cs THEN [ns[q] EXCEPT !.parent = p] ELSE ns[q]]

\* A fresh page after NewPage and Init.
NewNode(leaf, parent) == [leaf |-> leaf, keys |-> <<>>, vals |-> <<>>, parent |-> parent,
                          next |-> INVALID_PAGE_ID]

\* PopulateNewRoot on a page fresh from Init: slot 0 keeps the zeroed key,
\* slot 1 the risen key; the two children are old_value and new_value.
PopulateNewRoot(n, old, k, new) == [n EXCEPT !.keys = <<ZeroKey, k>>, !.vals = <<old, new>>]

\* IsEmpty: root_page_id_ == INVALID_PAGE_ID.
IsEmpty(t) == t.root = INVALID_PAGE_ID

\* FindLeaf's descent from page p by Lookup.
RECURSIVE Descend(_, _, _)
Descend(ns, p, k) == IF ns[p].leaf THEN p ELSE Descend(ns, Lookup(ns[p], k), k)

FindLeaf(t, k) == Descend(t.nodes, t.root, k)

\* HeaderPage::UpdateRecord, as spec 9 describes it: the record is created
\* by the first update.
UpdateRecord(h, r) == r

\* UpdateRootPageId(0): fetch the header page and update the index's record
\* to root_page_id_ (the insert_record = 1 call, in StartNewTree, is
\* commented out).
UpdateRootPageId(t) == [t EXCEPT !.header = UpdateRecord(@, t.root)]

------------------------------------------------------------------------------
(***************************************************************************)
(* Splits                                                                  *)
(***************************************************************************)

\* Mutants: the new leaf is not linked to the old leaf's successor; the
\* new leaf starts one entry too late.
SplitLeafNoLink(t, l, s) ==
    LET L == t.nodes[l]
    IN [t EXCEPT !.nodes = [q \in DOMAIN t.nodes \cup {s} |->
                              IF q = s THEN [NewNode(TRUE, L.parent) EXCEPT
                                               !.keys = SubSeq(L.keys, MinSize(L) + 1, Size(L))]
                              ELSE IF q = l THEN [L EXCEPT !.keys = SubSeq(@, 1, MinSize(L)), !.next = s]
                              ELSE t.nodes[q]],
                 !.next = s + 1]

SplitLeafOffByOne(t, l, s) ==
    LET L == t.nodes[l]
    IN [t EXCEPT !.nodes = [q \in DOMAIN t.nodes \cup {s} |->
                              IF q = s THEN [NewNode(TRUE, L.parent) EXCEPT
                                               !.keys = SubSeq(L.keys, MinSize(L) + 2, Size(L)),
                                               !.next = L.next]
                              ELSE IF q = l THEN [L EXCEPT !.keys = SubSeq(@, 1, MinSize(L)), !.next = s]
                              ELSE t.nodes[q]],
                 !.next = s + 1]

\* Split of a leaf holding LeafMaxSize keys into the new page s: MoveHalfTo
\* keeps the first GetMinSize() entries; the new leaf gets the rest and is
\* linked after the old one (InsertIntoLeaf, lines 117-119).
SplitLeaf(t, l, s) ==
    LET L    == t.nodes[l]
        m    == MinSize(L)
        sib  == [NewNode(TRUE, L.parent) EXCEPT !.keys = SubSeq(L.keys, m + 1, Size(L)),
                                                !.next = L.next]
        kept == [L EXCEPT !.keys = SubSeq(@, 1, m), !.next = s]
    IN [t EXCEPT !.nodes = [q \in DOMAIN t.nodes \cup {s} |->
                              IF q = s THEN sib ELSE IF q = l THEN kept ELSE t.nodes[q]],
                 !.next = s + 1]

\* Mutant: the moved children keep their old parent page id.
MoveHalfToNoParent(t, p, C, s) ==
    LET m == MinSize(C)
    IN [t EXCEPT !.nodes = [q \in DOMAIN t.nodes \cup {s} |->
                              IF q = s THEN [NewNode(FALSE, C.parent) EXCEPT
                                               !.keys = SubSeq(C.keys, m + 1, Size(C)),
                                               !.vals = SubSeq(C.vals, m + 1, Size(C))]
                              ELSE IF q = p THEN [C EXCEPT !.keys = SubSeq(@, 1, m), !.vals = SubSeq(@, 1, m)]
                              ELSE t.nodes[q]],
                 !.next = s + 1]

\* Mutant: Split initialises the new internal page with INVALID_PAGE_ID as
\* its parent instead of node->GetParentPageId() (line 152); only a split
\* below the root shows it, since a new root re-parents both halves.
MoveHalfToOrphan(t, p, C, s) ==
    LET m     == MinSize(C)
        moved == [NewNode(FALSE, INVALID_PAGE_ID) EXCEPT !.keys = SubSeq(C.keys, m + 1, Size(C)),
                                                         !.vals = SubSeq(C.vals, m + 1, Size(C))]
        kept  == [C EXCEPT !.keys = SubSeq(@, 1, m), !.vals = SubSeq(@, 1, m)]
        ns    == [q \in DOMAIN t.nodes \cup {s} |->
                    IF q = s THEN moved ELSE IF q = p THEN kept ELSE t.nodes[q]]
    IN [t EXCEPT !.nodes = SetParents(ns, Range(moved.vals), s), !.next = s + 1]

\* Internal MoveHalfTo + CopyNFrom: page p holds the overflowing copy C;
\* it keeps the first GetMinSize() entries and the new page s gets the rest,
\* whose children are re-parented to s.
MoveHalfTo(t, p, C, s) ==
    LET m     == MinSize(C)
        moved == [NewNode(FALSE, C.parent) EXCEPT !.keys = SubSeq(C.keys, m + 1, Size(C)),
                                                  !.vals = SubSeq(C.vals, m + 1, Size(C))]
        kept  == [C EXCEPT !.keys = SubSeq(@, 1, m), !.vals = SubSeq(@, 1, m)]
        ns    == [q \in DOMAIN t.nodes \cup {s} |->
                    IF q = s THEN moved ELSE IF q = p THEN kept ELSE t.nodes[q]]
    IN [t EXCEPT !.nodes = SetParents(ns, Range(moved.vals), s), !.next = s + 1]

\* Mutant: PopulateNewRoot (line 174) with its two children swapped.
RECURSIVE InsertIntoParentSwappedRoot(_, _, _, _)
InsertIntoParentSwappedRoot(t, old, k, new) ==
    IF t.nodes[old].parent = INVALID_PAGE_ID
    THEN LET r    == t.next
             root == PopulateNewRoot(NewNode(FALSE, INVALID_PAGE_ID), new, k, old)
             ns   == [q \in DOMAIN t.nodes \cup {r} |->
                        IF q = r THEN root ELSE t.nodes[q]]
         IN UpdateRootPageId([t EXCEPT !.nodes = SetParents(ns, {old, new}, r), !.root = r,
                                       !.next = r + 1])
    ELSE LET p == t.nodes[old].parent
             P == t.nodes[p]
         IN IF Size(P) < InternalMaxSize
            THEN [t EXCEPT !.nodes[p] = InsertNodeAfter(P, old, k, new)]
            ELSE LET s  == t.next
                     t2 == MoveHalfTo(t, p, InsertNodeAfter(P, old, k, new), s)
                 IN InsertIntoParentSwappedRoot(t2, p, KeyAt(t2.nodes[s], 0), s)

\* InsertIntoParent: a new root above a split root; else the parent takes
\* the new entry if it has room; else the parent's overflowing copy is
\* split and the middle key rises (KeyAt(0) of the new sibling).
RECURSIVE InsertIntoParent(_, _, _, _)
InsertIntoParent(t, old, k, new) ==
    IF t.nodes[old].parent = INVALID_PAGE_ID
    THEN LET r    == t.next
             root == PopulateNewRoot(NewNode(FALSE, INVALID_PAGE_ID), old, k, new)
             ns   == [q \in DOMAIN t.nodes \cup {r} |->
                        IF q = r THEN root ELSE t.nodes[q]]
         IN UpdateRootPageId([t EXCEPT !.nodes = SetParents(ns, {old, new}, r), !.root = r,
                                       !.next = r + 1])
    ELSE LET p == t.nodes[old].parent
             P == t.nodes[p]
         IN IF Size(P) < InternalMaxSize
            THEN [t EXCEPT !.nodes[p] = InsertNodeAfter(P, old, k, new)]
            ELSE LET s  == t.next
                     t2 == MoveHalfTo(t, p, InsertNodeAfter(P, old, k, new), s)
                 IN InsertIntoParent(t2, p, KeyAt(t2.nodes[s], 0), s)

\* Insert on a non-empty tree (InsertIntoLeaf) at leaf l: insert into the
\* leaf; a duplicate changes nothing; a leaf reaching leaf_max_size_ is split.
InsertIntoLeafAt(t, l, k) ==
    LET L1 == LeafInsert(t.nodes[l], k)
    IN IF Size(L1) = Size(t.nodes[l]) THEN t
       ELSE IF Size(L1) < LeafMaxSize THEN [t EXCEPT !.nodes[l] = L1]
       ELSE LET s  == t.next
                t2 == SplitLeaf([t EXCEPT !.nodes[l] = L1], l, s)
            IN InsertIntoParent(t2, l, KeyAt(t2.nodes[s], 0), s)

\* InsertIntoLeaf at the leaf FindLeaf reaches.
InsertIntoLeaf(t, k) == InsertIntoLeafAt(t, FindLeaf(t, k), k)

\* StartNewTree: a new leaf page becomes the root; UpdateRootPageId(1) is
\* commented out, so the header is not touched.
StartNewTree(t, k) ==
    LET r == t.next
    IN [t EXCEPT !.nodes = [q \in DOMAIN t.nodes \cup {r} |->
                              IF q = r THEN [NewNode(TRUE, INVALID_PAGE_ID) EXCEPT !.keys = <<k>>]
                              ELSE t.nodes[q]],
                 !.root = r, !.next = r + 1]

------------------------------------------------------------------------------
(***************************************************************************)
(* Remove                                                                  *)
(***************************************************************************)

\* Mutant: a sibling at its minimum lends too.
CanLendAtMin(n) == Size(n) >= MinSize(n)

\* A sibling lends an entry when it holds more than its minimum.
CanLend(n) == Size(n) > MinSize(n)

\* Internal MoveFirstToEndOf(recipient, middle_key) + CopyLastFrom: the
\* first entry of nb, keyed by the parent's separator, goes to the end of n,
\* and its child is re-parented to n.
MoveFirstToEndOf(ns, nb, n, middle) ==
    LET first == ns[nb].vals[1]
    IN SetParents([ns EXCEPT ![n].keys = Append(@, middle), ![n].vals = Append(@, first),
                             ![nb].keys = Tail(@), ![nb].vals = Tail(@)],
                  {first}, n)

\* Internal MoveLastToFrontOf(recipient, middle_key) + CopyFirstFrom: n's
\* slot 0 takes the separator, the last entry of nb goes in front of it, and
\* its child is re-parented to n.
MoveLastToFrontOf(ns, nb, n, middle) ==
    LET last == SX!Last(ns[nb].vals)
    IN SetParents([ns EXCEPT ![n].keys = <<SX!Last(ns[nb].keys)>> \o [@ EXCEPT ![1] = middle],
                             ![n].vals = <<last>> \o @,
                             ![nb].keys = SX!Front(@), ![nb].vals = SX!Front(@)],
                  {last}, n)

\* Mutant: after an internal borrow from the right sibling, the parent's
\* separator is not updated (the SetKeyAt at line 372 is missing).
RedistributeNoSeparator(t, nb, n, p, index, from_prev) ==
    LET N  == t.nodes[n]
        NB == t.nodes[nb]
        P  == t.nodes[p]
    IN CASE N.leaf /\ ~from_prev ->
              [t EXCEPT !.nodes[n].keys = Append(@, NB.keys[1]),
                        !.nodes[nb].keys = Tail(@),
                        !.nodes[p].keys[index + 2] = NB.keys[2]]
         [] N.leaf /\ from_prev ->
              [t EXCEPT !.nodes[n].keys = <<SX!Last(NB.keys)>> \o @,
                        !.nodes[nb].keys = SX!Front(@),
                        !.nodes[p].keys[index + 1] = SX!Last(NB.keys)]
         [] ~N.leaf /\ ~from_prev ->
              [t EXCEPT !.nodes = MoveFirstToEndOf(t.nodes, nb, n, KeyAt(P, index + 1))]
         [] ~N.leaf /\ from_prev ->
              [t EXCEPT !.nodes = [MoveLastToFrontOf(t.nodes, nb, n, KeyAt(P, index))
                                     EXCEPT ![p].keys[index + 1] = SX!Last(NB.keys)]]

\* Redistribute: move one entry from neighbor nb into node n and fix the
\* parent's separator; an internal move carries the parent's separator down
\* as the moved child's key and re-parents that child.
Redistribute(t, nb, n, p, index, from_prev) ==
    LET N  == t.nodes[n]
        NB == t.nodes[nb]
        P  == t.nodes[p]
    IN CASE N.leaf /\ ~from_prev ->
              [t EXCEPT !.nodes[n].keys = Append(@, NB.keys[1]),
                        !.nodes[nb].keys = Tail(@),
                        !.nodes[p] = SetKeyAt(@, index + 1, NB.keys[2])]
         [] N.leaf /\ from_prev ->
              [t EXCEPT !.nodes[n].keys = <<SX!Last(NB.keys)>> \o @,
                        !.nodes[nb].keys = SX!Front(@),
                        !.nodes[p] = SetKeyAt(@, index, SX!Last(NB.keys))]
         [] ~N.leaf /\ ~from_prev ->
              [t EXCEPT !.nodes = [MoveFirstToEndOf(t.nodes, nb, n, KeyAt(P, index + 1))
                                     EXCEPT ![p] = SetKeyAt(@, index + 1, NB.keys[2])]]
         [] ~N.leaf /\ from_prev ->
              [t EXCEPT !.nodes = [MoveLastToFrontOf(t.nodes, nb, n, KeyAt(P, index))
                                     EXCEPT ![p] = SetKeyAt(@, index, SX!Last(NB.keys))]]

\* AdjustRoot: an internal root with one child hands the root to that child
\* (and updates the header); an empty leaf root empties the tree, without a
\* header update.  The result says whether the old root is to be deleted.
AdjustRoot(t, n) ==
    LET N == t.nodes[n]
    IN IF ~N.leaf /\ Size(N) = 1
       THEN [t   |-> UpdateRootPageId([t EXCEPT !.nodes[ValueAt(N, 0)].parent = INVALID_PAGE_ID,
                                                !.root = ValueAt(N, 0)]),
             del |-> {}, sib |-> {}, res |-> TRUE, rel |-> TRUE]
       ELSE IF N.leaf /\ Size(N) = 0
       THEN [t |-> [t EXCEPT !.root = INVALID_PAGE_ID], del |-> {}, sib |-> {}, res |-> TRUE,
             rel |-> TRUE]
       ELSE [t |-> t, del |-> {}, sib |-> {}, res |-> FALSE, rel |-> TRUE]

\* Internal MoveAllTo(recipient, middle_key) + CopyNFrom: slot 0 takes the
\* parent's separator, every entry is appended to the recipient nb and its
\* child re-parented to nb, and the page is left with size 0.
MoveAllTo(ns, n, nb, middle) ==
    SetParents([ns EXCEPT ![nb].keys = @ \o SetKeyAt(ns[n], 0, middle).keys,
                          ![nb].vals = @ \o ns[n].vals,
                          ![n].keys = <<>>, ![n].vals = <<>>],
               Range(ns[n].vals), nb)

\* Leaf MoveAllTo (spec 4.4): the entries go to the end of the left
\* neighbor nb, which takes over the next page id.
LeafMoveAllTo(ns, n, nb) ==
    [ns EXCEPT ![nb].keys = @ \o ns[n].keys, ![nb].next = ns[n].next, ![n].keys = <<>>]

\* CoalesceOrRedistribute returns the tree, the pages put in the deleted
\* page set, the sibling pages it write-latched (lines 271 and 299), whether
\* node n itself is to be deleted, and whether it called
\* ReleaseLatchFromQueue: every branch does except the last (line 325, a
\* node that is its parent's only child), and a merge passes on the answer
\* of the recursive call at the parent.  Coalesce merges
\* node n into its left neighbor nb (for internal pages the parent's
\* separator comes down as the key of n's first child), removes n's entry
\* from the parent and continues at the parent.
RECURSIVE CoalesceOrRedistribute(_, _), Coalesce(_, _, _, _, _)

Coalesce(t, nb, n, p, index) ==
    LET middle == KeyAt(t.nodes[p], index)
        ns     == IF t.nodes[n].leaf THEN LeafMoveAllTo(t.nodes, n, nb)
                  ELSE MoveAllTo(t.nodes, n, nb, middle)
    IN CoalesceOrRedistribute([t EXCEPT !.nodes = [ns EXCEPT ![p] = InternalRemove(@, index)]], p)

CoalesceOrRedistribute(t, n) ==
    LET N   == t.nodes[n]
        p   == N.parent
        P   == t.nodes[p]
        idx == ValueIndex(P, n)
    IN IF N.parent = INVALID_PAGE_ID THEN AdjustRoot(t, n)
       ELSE IF Size(N) >= MinSize(N) THEN [t |-> t, del |-> {}, sib |-> {}, res |-> FALSE, rel |-> TRUE]
       ELSE IF idx > 0
       THEN LET nb == ValueAt(P, idx - 1) IN
            IF CanLend(t.nodes[nb])
            THEN [t |-> Redistribute(t, nb, n, p, idx, TRUE), del |-> {}, sib |-> {nb},
                  res |-> FALSE, rel |-> TRUE]
            ELSE LET r == Coalesce(t, nb, n, p, idx)
                 IN [t |-> r.t, del |-> r.del \cup (IF r.res THEN {p} ELSE {}),
                     sib |-> r.sib \cup {nb}, res |-> TRUE, rel |-> r.rel]
       ELSE IF idx # Size(P) - 1
       THEN LET nb == ValueAt(P, idx + 1) IN
            IF CanLend(t.nodes[nb])
            THEN [t |-> Redistribute(t, nb, n, p, idx, FALSE), del |-> {}, sib |-> {nb},
                  res |-> FALSE, rel |-> TRUE]
            ELSE LET r == Coalesce(t, n, nb, p, ValueIndex(P, nb))
                 IN [t |-> r.t, del |-> r.del \cup {nb} \cup (IF r.res THEN {p} ELSE {}),
                     sib |-> r.sib \cup {nb}, res |-> FALSE, rel |-> r.rel]
       ELSE [t |-> t, del |-> {}, sib |-> {}, res |-> FALSE, rel |-> FALSE]

\* Remove on a non-empty tree: take the key out of its leaf.  Whether the
\* page shrank is decided by `node->GetSize() == RemoveAndDeleteRecord(..)`,
\* whose operands C++ may evaluate in either order: read second, the size
\* is already the new one and the call returns as if the key were absent.
\* Otherwise the leaf is rebalanced and the deleted page set is deleted.
\* The result is the tree before the deletions, the deleted page set, and
\* the sibling pages the rebalancing latched.
RemoveFromLeafAt(t, l, k) ==
    LET L1      == LeafRemove(t.nodes[l], k)
        before  == IF SizeReadFirst THEN Size(t.nodes[l]) ELSE Size(L1)
        t1      == [t EXCEPT !.nodes[l] = L1]
        r       == CoalesceOrRedistribute(t1, l)
        deleted == r.del \cup (IF r.res THEN {l} ELSE {})
    IN IF before = Size(L1) THEN [t |-> t1, del |-> {}, sib |-> {}, rel |-> TRUE]
       ELSE [t |-> r.t, del |-> deleted, sib |-> r.sib, rel |-> r.rel]

\* Remove at the leaf FindLeaf reaches; DeletePage drops the deleted pages.
RemoveFromLeaf(t, k) ==
    LET r == RemoveFromLeafAt(t, FindLeaf(t, k), k)
    IN [r.t EXCEPT !.nodes = Restrict(@, DOMAIN @ \ r.del)]

------------------------------------------------------------------------------

\* Assign the variables from a tree state; the tree may allocate page ids
\* up to MaxPages.
Becomes(t) ==
    /\ t.next <= MaxPages + 1
    /\ nodes' = t.nodes
    /\ root_page_id' = t.root
    /\ next_page_id' = t.next
    /\ header' = t.header

TypeOK ==
    /\ root_page_id \in PageIds \cup {INVALID_PAGE_ID}
    /\ next_page_id \in 1 .. MaxPages + 1
    /\ header \in PageIds \cup {INVALID_PAGE_ID, NoRecord}
    /\ DOMAIN nodes \subseteq 1 .. next_page_id - 1
    /\ \A p \in DOMAIN nodes :
          /\ nodes[p].leaf \in BOOLEAN
          /\ nodes[p].keys \in Seq(Keys \cup {ZeroKey})
          /\ nodes[p].vals \in Seq(PageIds)
          /\ nodes[p].leaf => nodes[p].vals = <<>>
          /\ ~nodes[p].leaf => Len(nodes[p].vals) = Len(nodes[p].keys)
          /\ nodes[p].parent \in PageIds \cup {INVALID_PAGE_ID}
          /\ nodes[p].next \in PageIds \cup {INVALID_PAGE_ID}

\* The constructor: an empty tree (root_page_id_ = INVALID_PAGE_ID).
EmptyTree == [nodes |-> <<>>, root |-> INVALID_PAGE_ID, next |-> 1, header |-> NoRecord]

\* The tree after sequential Inserts of the keys ks (Insert, lines 62-72).
RECURSIVE BuildTree(_, _)
BuildTree(t, ks) ==
    IF ks = <<>> THEN t
    ELSE BuildTree(IF IsEmpty(t) THEN StartNewTree(t, Head(ks))
                   ELSE InsertIntoLeaf(t, Head(ks)), Tail(ks))

\* The tree after the constructor and the inserts of InitKeys.
Init ==
    LET t == BuildTree(EmptyTree, InitKeys)
    IN /\ nodes = t.nodes
       /\ root_page_id = t.root
       /\ next_page_id = t.next
       /\ header = t.header

\* Insert on an empty tree.
InsertNewTree(k) ==
    /\ IsEmpty(State)
    /\ Becomes(StartNewTree(State, k))

\* Insert on a non-empty tree.
Insert(k) ==
    /\ ~IsEmpty(State)
    /\ Becomes(InsertIntoLeaf(State, k))

\* Remove on an empty tree returns at once.
RemoveEmpty ==
    /\ IsEmpty(State)
    /\ UNCHANGED vars

\* Remove on a non-empty tree.
Remove(k) ==
    /\ ~IsEmpty(State)
    /\ Becomes(RemoveFromLeaf(State, k))

Next ==
    \/ \E k \in Keys : InsertNewTree(k) \/ Insert(k) \/ Remove(k)
    \/ RemoveEmpty

Spec == Init /\ [][Next]_vars

------------------------------------------------------------------------------
(***************************************************************************)
(* Properties                                                              *)
(***************************************************************************)

\* The pages reachable from page p through child pointers that exist.
RECURSIVE Subtree(_, _)
Subtree(ns, p) ==
    {p} \cup UNION {Subtree(ns, c) : c \in Range(ns[p].vals) \cap DOMAIN ns}

TreePages == IF root_page_id \in DOMAIN nodes THEN Subtree(nodes, root_page_id) ELSE {}

\* The depths of the leaves under page p at depth d.
RECURSIVE LeafDepths(_, _, _)
LeafDepths(ns, p, d) ==
    IF ns[p].leaf THEN {d}
    ELSE UNION {LeafDepths(ns, c, d + 1) : c \in Range(ns[p].vals)}

\* The leaves under page p, left to right.
RECURSIVE LeavesUnder(_, _)
LeavesUnder(ns, p) ==
    IF ns[p].leaf THEN <<p>>
    ELSE SX!FlattenSeq([i \in 1 .. Len(ns[p].vals) |-> LeavesUnder(ns, ns[p].vals[i])])

InOrderLeaves(ns, r) == IF r = INVALID_PAGE_ID THEN <<>> ELSE LeavesUnder(ns, r)

\* The keys stored in the leaves ls, left to right.
KeysOf(ns, ls) == SX!FlattenSeq([i \in 1 .. Len(ls) |-> ns[ls[i]].keys])

\* The keys the tree holds: those of its leaf pages (TreeWellFormed says
\* every page held is in the tree).
Content == UNION {Range(nodes[p].keys) : p \in {q \in DOMAIN nodes : nodes[q].leaf}}

\* The pages the tree holds are exactly those reachable from the root: no
\* child pointer dangles, no page outlives its last pointer without being
\* deleted, every child names its parent (spec 9: moved children are
\* re-parented by split, merge and redistribute), the root has none, and
\* all leaves lie at one depth (spec 8).
TreeWellFormed ==
    /\ \A p \in DOMAIN nodes : Range(nodes[p].vals) \subseteq DOMAIN nodes
    /\ DOMAIN nodes = TreePages
    /\ root_page_id # INVALID_PAGE_ID => nodes[root_page_id].parent = INVALID_PAGE_ID
    /\ \A p \in DOMAIN nodes : \A c \in Range(nodes[p].vals) : nodes[c].parent = p
    /\ root_page_id # INVALID_PAGE_ID => Cardinality(LeafDepths(nodes, root_page_id, 0)) = 1

\* In-order traversal of the leaves yields strictly ascending keys, and the
\* next_page_id chain visits exactly these leaves in this order and ends at
\* INVALID_PAGE_ID (spec 3 and 8).  Splits relink and merges unlink leaves.
LeavesInOrder ==
    LET ls == InOrderLeaves(nodes, root_page_id)
        ks == KeysOf(nodes, ls)
    IN /\ \A i \in 1 .. Len(ks) - 1 : ks[i] < ks[i + 1]
       /\ \A i \in 1 .. Len(ls) :
             nodes[ls[i]].next = IF i = Len(ls) THEN INVALID_PAGE_ID ELSE ls[i + 1]

\* GetValue finds exactly the keys the tree holds: the descent by Lookup
\* from the root reaches, for every key, the one leaf that may hold it.
\* This fails when a separator is set wrong by a split, a borrow or a
\* merge, which no single operation's test sees until a later search.
GetValueFindsContent ==
    root_page_id # INVALID_PAGE_ID =>
        LET C == Content
        IN \A k \in Keys : (k \in C) <=> (k \in Range(nodes[FindLeaf(State, k)].keys))

\* Every page but the root holds between GetMinSize() and its max size; an
\* internal root has at least two children and a leaf root at least one
\* key, so an emptied tree has no root (spec 3 and scenario 5).
SizesInBounds ==
    \A p \in DOMAIN nodes :
        /\ Size(nodes[p]) <= MaxSize(nodes[p])
        /\ IF p = root_page_id
           THEN Size(nodes[p]) >= IF nodes[p].leaf THEN 1 ELSE 2
           ELSE Size(nodes[p]) >= MinSize(nodes[p])

\* The tree implements a set of keys: Insert adds exactly its key, Remove
\* drops exactly its key, and splits and merges lose or invent none.
Abstract == INSTANCE KeySet WITH keys <- Content

ImplementsKeySet == Abstract!Spec

\* Spec 6: the header page's record names the current root whenever it
\* exists (it may be absent until the first re-rooting, spec 9).
HeaderNamesRoot == header \in {NoRecord, root_page_id}
=============================================================================
