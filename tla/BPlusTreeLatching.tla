-------------------------- MODULE BPlusTreeLatching --------------------------
(***************************************************************************)
(* Latch crabbing in b_plus_tree.cpp: searches (GetValue and the iterator *)
(* constructors Begin, Begin(key), End: FindLeaf in SEARCH mode) and writers (Insert and Remove, FindLeaf in INSERT and     *)
(* DELETE mode) running as threads over one tree, one operation each.      *)
(*                                                                         *)
(* A reader takes root_page_id_latch_ in read mode, fetches the root page, *)
(* releases the tree latch (line 459), and only then read-latches the page *)
(* (line 460); it descends hand over hand: latch the child, unlatch the   *)
(* parent.  Each of these is a step of its own.                           *)
(*                                                                         *)
(* A writer write-locks root_page_id_latch_ and pushes the sentinel        *)
(* (nullptr) on its page set (lines 63-64, 218-219), fetches and           *)
(* write-latches the root, then the child on its key's path, appending the *)
(* parent to the page set; whenever the page just latched is safe it       *)
(* releases the whole page set (ReleaseLatchFromQueue).  Each latch is a   *)
(* step.  The work at the leaf (InsertIntoLeaf from line 95, Remove from   *)
(* line 229, with CoalesceOrRedistribute) is one step, enabled when the    *)
(* sibling pages it write-latches (lines 271, 299) are free.               *)
(*                                                                         *)
(* DeletePage refuses a pinned page, and a reader between lines 459 and    *)
(* 460 pins a page it has not latched: `freed` keeps the last content of   *)
(* every deleted page, which such a reader reads.                          *)
(*                                                                         *)
(*   rop[r]    GetValue, Begin(), Begin(key) or End()                      *)
(*   pc[r], rkey[r], page[r], found[r]   reader r: "idle", "checked"      *)
(*             (an iterator saw a root id without the latch), "fetched" (root *)
(*             page pinned, no latch), "latched" (read latch on page[r])  *)
(*             "done" or "aborted" (FindLeaf's assert on an empty tree);  *)
(*             its key, its page and GetValue's result (for an iterator:  *)
(*             that it was built on a leaf)                                *)
(*   snap[r]   auxiliary, set when the reader latches its leaf: whether    *)
(*             rkey[r] was in the tree, or for an iterator whether the     *)
(*             leaf is the one its descent reaches in the tree then        *)
(*   wpc[w]    writer w: "idle", "fetched" (tree latch held, root page     *)
(*             fetched), "latched" (write latch on wpage[w]), "done", or   *)
(*             "thrown" (NewPage failed and OUT_OF_MEMORY was thrown)      *)
(*   wop[w], wkey[w]   Operation::INSERT or DELETE, and the key            *)
(*   queue[w]  the transaction's page set: ancestors still latched, and    *)
(*             Sentinel while it holds root_page_id_latch_                 *)
(***************************************************************************)
EXTENDS BPlusTree

CONSTANTS Readers, Writers, ReaderOps

ASSUME ReaderOps \subseteq {"GET", "BEGIN", "BEGIN_KEY", "END"}

VARIABLES rop, pc, rkey, page, found, snap, wpc, wop, wkey, wpage, queue, freed

rvars == <<rop, pc, rkey, page, found, snap>>
wvars == <<wpc, wop, wkey, wpage, queue>>
allvars == <<vars, rvars, wvars, freed>>

\* The nullptr entry of the page set that stands for root_page_id_latch_.
Sentinel == 0

\* The pages FindLeaf visits from page p towards key k.
RECURSIVE PathFrom(_, _, _)
PathFrom(ns, p, k) == IF ns[p].leaf THEN {p} ELSE {p} \cup PathFrom(ns, Lookup(ns[p], k), k)

\* A page as a pinned reader sees it: deleted pages keep their last content.
View(p) == IF p \in DOMAIN nodes THEN nodes[p] ELSE freed[p]

\* Latches held between steps.
ReadLatched == {page[r] : r \in {q \in Readers : pc[q] = "latched"}}
WHeld(w) == (queue[w] \ {Sentinel}) \cup
            (IF wpc[w] \in {"latched", "thrown"} THEN {wpage[w]} \ {INVALID_PAGE_ID} ELSE {})
WriteLatched == UNION {WHeld(w) : w \in Writers}
TreeLatchFree == \A w \in Writers : Sentinel \notin queue[w]

\* Mutant: the nullptr entry is skipped, so the tree latch stays locked.
ReleaseLatchFromQueueKeepSentinel(q) == q \cap {Sentinel}

\* ReleaseLatchFromQueue: pop every entry, unlocking the tree latch for the
\* sentinel and unlatching (and unpinning) each page.
ReleaseLatchFromQueue(q) == {}

\* The safety tests of FindLeaf: at the root (lines 463-471) and at each
\* child (lines 495-500 for INSERT, 506 for DELETE).
\* Mutant: a leaf one below its maximum counts as insert-safe.
InsertSafeAtMax(n) == Size(n) < MaxSize(n)

\* Mutant: a root with two entries counts as delete-safe.
DeleteSafeRootTwo(n, isRoot) == IF isRoot THEN Size(n) > 1 ELSE Size(n) > MinSize(n)

InsertSafe(n) == IF n.leaf THEN Size(n) < MaxSize(n) - 1 ELSE Size(n) < MaxSize(n)
DeleteSafe(n, isRoot) == IF isRoot THEN Size(n) > 2 ELSE Size(n) > MinSize(n)
Safe(w, n, isRoot) == IF wop[w] = "INSERT" THEN InsertSafe(n) ELSE DeleteSafe(n, isRoot)

LInit ==
    /\ Init
    /\ rop \in [Readers -> ReaderOps]
    /\ pc = [r \in Readers |-> "idle"]
    /\ rkey \in {k \in [Readers -> Keys \cup {ZeroKey}] :
                   \A r \in Readers : k[r] = ZeroKey <=> rop[r] \in {"BEGIN", "END"}}
    /\ page = [r \in Readers |-> INVALID_PAGE_ID]
    /\ found = [r \in Readers |-> FALSE]
    /\ snap = [r \in Readers |-> FALSE]
    /\ wpc = [w \in Writers |-> "idle"]
    /\ wop \in [Writers -> {"INSERT", "DELETE"}]
    /\ wkey \in [Writers -> Keys]
    /\ wpage = [w \in Writers |-> INVALID_PAGE_ID]
    /\ queue = [w \in Writers |-> {}]
    /\ freed = <<>>

\* FindLeaf lines 476-483: the child a search takes, the first for
\* leftMost (Begin), the last for rightMost (End), otherwise by Lookup.
SearchChild(n, op, k) ==
    CASE op = "BEGIN" -> ValueAt(n, 0)
      [] op = "END"   -> ValueAt(n, Size(n) - 1)
      [] OTHER        -> Lookup(n, k)

\* The leaf that search reaches from page p of the pages ns.
RECURSIVE SearchLeaf(_, _, _, _)
SearchLeaf(ns, p, op, k) ==
    IF ns[p].leaf THEN p ELSE SearchLeaf(ns, SearchChild(ns[p], op, k), op, k)

\* The pages reader r and writer w latch at their next step (the child
\* of a FindLeaf step).
ReadChild(r) == SearchChild(View(page[r]), rop[r], rkey[r])
WriteChild(w) == Lookup(nodes[wpage[w]], wkey[w])

\* The siblings writer w's Remove write-latches on the way.
SiblingsLatched(w) ==
    IF wpc[w] = "latched" /\ wop[w] = "DELETE" /\ nodes[wpage[w]].leaf
    THEN RemoveFromLeafAt(State, wpage[w], wkey[w]).sib ELSE {}

\* Whether the next step of a thread waits for a latch another thread
\* holds: the tree latch, the page to latch next, or a Remove's siblings.
ReaderWaits(r) ==
    CASE pc[r] = "idle"    -> rop[r] = "GET" /\ ~TreeLatchFree
      [] pc[r] = "checked" -> ~TreeLatchFree
      [] pc[r] = "fetched" -> page[r] \in WriteLatched
      [] pc[r] = "latched" -> ~View(page[r]).leaf /\ ReadChild(r) \in WriteLatched
      [] OTHER             -> FALSE
WriterWaits(w) ==
    CASE wpc[w] = "idle"    -> ~TreeLatchFree
      [] wpc[w] = "fetched" -> wpage[w] \in WriteLatched \cup ReadLatched
      [] wpc[w] = "latched" ->
            IF nodes[wpage[w]].leaf
            THEN SiblingsLatched(w) \cap (WriteLatched \cup ReadLatched) # {}
            ELSE WriteChild(w) \in WriteLatched \cup ReadLatched
      [] OTHER              -> FALSE

------------------------------------------------------------------------------
(***************************************************************************)
(* Readers                                                                 *)
(***************************************************************************)

\* The auxiliary snapshot: taken when the reader latches a leaf.
Snapshot(r, p) ==
    IF ~View(p).leaf THEN snap
    ELSE [snap EXCEPT ![r] =
            IF rop[r] = "GET" THEN rkey[r] \in Content
            ELSE root_page_id # INVALID_PAGE_ID
                 /\ p = SearchLeaf(nodes, root_page_id, rop[r], rkey[r])]

\* Begin lines 411-413, Begin(key) lines 425-427, End lines 441-443: read
\* root_page_id_ without the tree latch; on an empty tree return the end
\* iterator (nullptr), otherwise go on to take the latch.
IteratorCheck(r) ==
    /\ pc[r] = "idle"
    /\ rop[r] # "GET"
    /\ pc' = [pc EXCEPT ![r] = IF root_page_id = INVALID_PAGE_ID THEN "done" ELSE "checked"]
    /\ UNCHANGED <<vars, rop, rkey, page, found, snap, wvars, freed>>

\* GetValue line 35 (Begin 414, Begin(key) 428, End 444) and FindLeaf lines
\* 455-459: RLock the tree latch (wait for a writer holding it), fetch the
\* page root_page_id_ names, RUnlock.  GetValue does not check IsEmpty, and
\* an iterator's check is stale by now: on an empty tree FindLeaf's assert
\* at line 455 aborts the search.
GetValueBegin(r) ==
    /\ pc[r] = IF rop[r] = "GET" THEN "idle" ELSE "checked"
    /\ ~ReaderWaits(r)
    /\ pc' = [pc EXCEPT ![r] = IF root_page_id = INVALID_PAGE_ID THEN "aborted" ELSE "fetched"]
    /\ page' = [page EXCEPT ![r] = root_page_id]
    /\ UNCHANGED <<vars, rop, rkey, found, snap, wvars, freed>>

\* FindLeaf line 460: read-latch the fetched page, once no writer holds it.
LatchRoot(r) ==
    /\ pc[r] = "fetched"
    /\ ~ReaderWaits(r)
    /\ pc' = [pc EXCEPT ![r] = "latched"]
    /\ snap' = Snapshot(r, page[r])
    /\ UNCHANGED <<vars, rop, rkey, page, found, wvars, freed>>

\* FindLeaf lines 473-493 in SEARCH mode: Lookup the child, read-latch it
\* (waiting for a writer), unlatch and unpin the parent.
Crab(r) ==
    /\ pc[r] = "latched"
    /\ ~View(page[r]).leaf
    /\ ~ReaderWaits(r)
    /\ page' = [page EXCEPT ![r] = ReadChild(r)]
    /\ snap' = Snapshot(r, ReadChild(r))
    /\ UNCHANGED <<vars, pc, rop, rkey, found, wvars, freed>>

\* Whether reader r's operation has returned or aborted.
Returned(r) == pc[r] \in {"done", "aborted"}

\* GetValue lines 37-50: look the key up in the leaf, unlatch, unpin, return.
GetValueEnd(r) ==
    /\ pc[r] = "latched"
    /\ rop[r] = "GET"
    /\ View(page[r]).leaf
    /\ found' = [found EXCEPT ![r] = rkey[r] \in Range(View(page[r]).keys)]
    /\ pc' = [pc EXCEPT ![r] = "done"]
    /\ page' = [page EXCEPT ![r] = INVALID_PAGE_ID]
    /\ UNCHANGED <<vars, rop, rkey, snap, wvars, freed>>

\* Begin, Begin(key) and End return an iterator on the leaf FindLeaf left
\* read-latched and pinned (lines 416, 432, 446).  Spec 4.4: the iterator
\* releases the leaf when it is destroyed; its advance along next_page_id
\* is in index_iterator.cpp, which the repository does not contain.
IteratorDestroy(r) ==
    /\ pc[r] = "latched"
    /\ rop[r] # "GET"
    /\ View(page[r]).leaf
    /\ found' = [found EXCEPT ![r] = TRUE]
    /\ pc' = [pc EXCEPT ![r] = "done"]
    /\ page' = [page EXCEPT ![r] = INVALID_PAGE_ID]
    /\ UNCHANGED <<vars, rop, rkey, snap, wvars, freed>>

------------------------------------------------------------------------------
(***************************************************************************)
(* Writers                                                                 *)
(***************************************************************************)

\* Mutant: the writer drops the tree latch once it has read root_page_id_,
\* before it latches the root page (as FindLeaf does in SEARCH mode).
WBeginEarlyRelease(w) ==
    /\ wpc[w] = "idle"
    /\ ~WriterWaits(w)
    /\ IF root_page_id = INVALID_PAGE_ID
       THEN /\ IF wop[w] = "INSERT" THEN Becomes(StartNewTree(State, wkey[w]))
               ELSE UNCHANGED vars
            /\ wpc' = [wpc EXCEPT ![w] = "done"]
            /\ queue' = [queue EXCEPT ![w] = ReleaseLatchFromQueue({Sentinel})]
            /\ UNCHANGED wpage
       ELSE /\ wpc' = [wpc EXCEPT ![w] = "fetched"]
            /\ wpage' = [wpage EXCEPT ![w] = root_page_id]
            /\ queue' = [queue EXCEPT ![w] = {}]
            /\ UNCHANGED vars
    /\ UNCHANGED <<rvars, wop, wkey, freed>>

\* Insert lines 63-70 and Remove lines 218-224: WLock the tree latch (wait
\* for its holder) and push the sentinel.  On an empty tree Insert starts a
\* new tree and Remove returns, both releasing the page set; otherwise
\* FindLeaf line 456 fetches the root page.
WBegin(w) ==
    /\ wpc[w] = "idle"
    /\ ~WriterWaits(w)
    /\ IF root_page_id = INVALID_PAGE_ID
       THEN /\ IF wop[w] = "INSERT" THEN Becomes(StartNewTree(State, wkey[w]))
               ELSE UNCHANGED vars
            /\ wpc' = [wpc EXCEPT ![w] = "done"]
            /\ queue' = [queue EXCEPT ![w] = ReleaseLatchFromQueue({Sentinel})]
            /\ UNCHANGED wpage
       ELSE /\ wpc' = [wpc EXCEPT ![w] = "fetched"]
            /\ wpage' = [wpage EXCEPT ![w] = root_page_id]
            /\ queue' = [queue EXCEPT ![w] = {Sentinel}]
            /\ UNCHANGED vars
    /\ UNCHANGED <<rvars, wop, wkey, freed>>

\* FindLeaf lines 461-471: write-latch the root page (wait for readers and
\* writers holding it); if it is safe, release the page set.
WLatchRoot(w) ==
    /\ wpc[w] = "fetched"
    /\ ~WriterWaits(w)
    /\ wpc' = [wpc EXCEPT ![w] = "latched"]
    /\ queue' = [queue EXCEPT ![w] = IF Safe(w, nodes[wpage[w]], TRUE)
                                     THEN ReleaseLatchFromQueue(@) ELSE @]
    /\ UNCHANGED <<vars, rvars, wop, wkey, wpage, freed>>

\* FindLeaf lines 473-514 in INSERT or DELETE mode: Lookup the child,
\* write-latch it, append the parent to the page set, and release the page
\* set if the child is safe.
WCrab(w) ==
    /\ wpc[w] = "latched"
    /\ ~nodes[wpage[w]].leaf
    /\ ~WriterWaits(w)
    /\ wpage' = [wpage EXCEPT ![w] = WriteChild(w)]
    /\ queue' = [queue EXCEPT ![w] = IF Safe(w, nodes[WriteChild(w)], FALSE)
                                     THEN ReleaseLatchFromQueue(@ \cup {wpage[w]})
                                     ELSE @ \cup {wpage[w]}]
    /\ UNCHANGED <<vars, rvars, wpc, wop, wkey, freed>>

\* The end of the writer's work at its latched leaf: the leaf is unlatched,
\* and the page set is released when the operation called
\* ReleaseLatchFromQueue (not after CoalesceOrRedistribute's line 325).
WFinish(w, released) ==
    /\ wpc' = [wpc EXCEPT ![w] = "done"]
    /\ wpage' = [wpage EXCEPT ![w] = INVALID_PAGE_ID]
    /\ queue' = [queue EXCEPT ![w] = IF released THEN ReleaseLatchFromQueue(@) ELSE @]
    /\ UNCHANGED <<rvars, wop, wkey>>

\* InsertIntoLeaf lines 95-127 at the latched leaf.
WInsert(w) ==
    /\ wpc[w] = "latched"
    /\ nodes[wpage[w]].leaf
    /\ wop[w] = "INSERT"
    /\ Becomes(InsertIntoLeafAt(State, wpage[w], wkey[w]))
    /\ WFinish(w, TRUE)
    /\ UNCHANGED freed

\* Remove lines 229-248 at the latched leaf.  The siblings
\* CoalesceOrRedistribute write-latches must be free; the pages it deletes
\* keep their last content in `freed`.
WRemove(w) ==
    /\ wpc[w] = "latched"
    /\ nodes[wpage[w]].leaf
    /\ wop[w] = "DELETE"
    /\ ~WriterWaits(w)
    /\ LET r == RemoveFromLeafAt(State, wpage[w], wkey[w])
       IN /\ Becomes([r.t EXCEPT !.nodes = Restrict(@, DOMAIN @ \ r.del)])
          /\ freed' = freed @@ [p \in r.del |-> r.t.nodes[p]]
          /\ WFinish(w, r.rel)

------------------------------------------------------------------------------
(***************************************************************************)
(* Out of memory: NewPage returns nullptr when every frame is pinned, after *)
(* AllocatePage has consumed an id and written it to the out-parameter     *)
(* (buffer_pool_manager_instance.cpp lines 23-28).  The tree throws        *)
(* OUT_OF_MEMORY where it is (no try/catch, no ReleaseLatchFromQueue): the *)
(* writer returns by the exception with its page set and leaf latch held,  *)
(* and the pages keep what was written before the throw.                   *)
(***************************************************************************)

\* The tree states in which InsertIntoParent(old, k, new) throws, one per
\* NewPage on its way up: at a split root, NewPage(&root_page_id_) (line 164)
\* has already set root_page_id_ to the id of a page never initialised; at
\* a full parent, Split of the overflowing copy (line 198) fails before the
\* parent page is written, so `new` has no entry in it.
RECURSIVE ParentThrows(_, _, _, _)
ParentThrows(t, old, k, new) ==
    IF t.nodes[old].parent = INVALID_PAGE_ID
    THEN {[t EXCEPT !.root = t.next, !.next = @ + 1]}
    ELSE LET p == t.nodes[old].parent
             P == t.nodes[p]
         IN IF Size(P) < InternalMaxSize THEN {}
            ELSE LET s  == t.next
                     t2 == MoveHalfTo(t, p, InsertNodeAfter(P, old, k, new), s)
                 IN {[t EXCEPT !.next = @ + 1]} \cup ParentThrows(t2, p, KeyAt(t2.nodes[s], 0), s)

\* InsertIntoLeaf lines 97-122 at leaf l: a new key fills the leaf, and
\* Split's NewPage (line 134) fails with the key in the full leaf, or the
\* leaf splits and InsertIntoParent throws.
InsertThrows(t, l, k) ==
    LET L1 == LeafInsert(t.nodes[l], k)
        s  == t.next
        t2 == SplitLeaf([t EXCEPT !.nodes[l] = L1], l, s)
    IN IF Size(L1) = Size(t.nodes[l]) \/ Size(L1) < LeafMaxSize THEN {}
       ELSE {[t EXCEPT !.nodes[l] = L1, !.next = @ + 1]} \cup ParentThrows(t2, l, KeyAt(t2.nodes[s], 0), s)

\* Insert on an empty tree, StartNewTree lines 76-79: root_page_id_ names
\* the consumed id, no page holds it, and the tree latch stays locked.
WStartNewTreeOOM(w) ==
    /\ wpc[w] = "idle"
    /\ wop[w] = "INSERT"
    /\ ~WriterWaits(w)
    /\ root_page_id = INVALID_PAGE_ID
    /\ Becomes([State EXCEPT !.root = next_page_id, !.next = @ + 1])
    /\ wpc' = [wpc EXCEPT ![w] = "thrown"]
    /\ queue' = [queue EXCEPT ![w] = {Sentinel}]
    /\ UNCHANGED <<rvars, wop, wkey, wpage, freed>>

\* InsertIntoLeaf at the latched leaf, throwing at one of its NewPage calls.
WInsertOOM(w) ==
    /\ wpc[w] = "latched"
    /\ nodes[wpage[w]].leaf
    /\ wop[w] = "INSERT"
    /\ \E t \in InsertThrows(State, wpage[w], wkey[w]) : Becomes(t)
    /\ wpc' = [wpc EXCEPT ![w] = "thrown"]
    /\ UNCHANGED <<rvars, wop, wkey, wpage, queue, freed>>

\* Whether writer w's operation has returned, normally or by the exception.
WReturned(w) == wpc[w] \in {"done", "thrown"}

\* Every thread has returned: the program stops (stuttering, not deadlock).
Terminating ==
    /\ \A r \in Readers : Returned(r)
    /\ \A w \in Writers : WReturned(w)
    /\ UNCHANGED allvars

\* The steps of one reader and of one writer.
Reader(r) ==
    \/ IteratorCheck(r) \/ GetValueBegin(r) \/ LatchRoot(r) \/ Crab(r)
    \/ GetValueEnd(r) \/ IteratorDestroy(r)
Writer(w) == WBegin(w) \/ WLatchRoot(w) \/ WCrab(w) \/ WInsert(w) \/ WRemove(w)

LNext ==
    \/ Terminating
    \/ \E r \in Readers : Reader(r)
    \/ \E w \in Writers : Writer(w)

\* The same threads over a buffer pool whose NewPage may fail.
LNextOOM == LNext \/ \E w \in Writers : WStartNewTreeOOM(w) \/ WInsertOOM(w)

LSpecOOM == LInit /\ [][LNextOOM]_allvars

\* Every thread runs on its own OS thread: each that can step eventually
\* does (a thread blocked on a latch is not enabled).
LSpec ==
    /\ LInit /\ [][LNext]_allvars
    /\ \A r \in Readers : WF_allvars(Reader(r))
    /\ \A w \in Writers : WF_allvars(Writer(w))

------------------------------------------------------------------------------
(***************************************************************************)
(* Properties                                                              *)
(***************************************************************************)

\* A step that finishes writer w's operation (WInsert, WRemove, or WBegin on
\* an empty tree).
Finishes(w) == wpc[w] # "done" /\ wpc'[w] = "done"

\* A page without its parent_page_id_, which is written elsewhere.
Body(n) == [n EXCEPT !.parent = INVALID_PAGE_ID]

\* The pages a step deletes or whose keys, children or next page it changes.
Mutated == {p \in DOMAIN nodes : p \notin DOMAIN nodes' \/ Body(nodes'[p]) # Body(nodes[p])}

\* Spec 5: a page is mutated only by the holder of its write latch.  The
\* leaf work of Insert and Remove changes (or deletes) only the pages the
\* writer holds (its leaf and the ancestors left in its page set) and the
\* siblings it latches.  The crabbing releases ancestors as soon as a page
\* is safe: a safety test that is too generous lets a split or merge reach
\* a parent the writer no longer holds, which only a particular tree shape
\* and key reveal.
MutatesOnlyLatched ==
    [][ \A w \in Writers :
          Finishes(w) /\ wpc[w] = "latched" => Mutated \subseteq WHeld(w) \cup SiblingsLatched(w) ]_allvars

\* Spec 4.4: root_page_id_ (and the header record naming the root) change
\* only while the writer holds root_page_id_latch_.  The writer releases the
\* tree latch when the root is safe (size > 2 for DELETE), so a root split
\* or collapse must find it still held.
RootChangesUnderTreeLatch ==
    [][ (root_page_id' # root_page_id \/ header' # header) =>
          \E w \in Writers : Finishes(w) /\ (wpc[w] = "idle" \/ Sentinel \in queue[w]) ]_allvars

\* The latch crabbing keeps every page a writer holds on the search path of
\* the writer's key, however the other threads' steps interleave: released
\* ancestors are only restructured by writers that latch what they move.
WriterOnSearchPath ==
    \A w \in Writers :
        WHeld(w) # {} =>
            /\ root_page_id \in DOMAIN nodes
            /\ WHeld(w) \subseteq PathFrom(nodes, root_page_id, wkey[w])

\* Until every GetValue, Insert and Remove has returned, some thread that
\* has not returned is not waiting for a latch: no set of threads waits on
\* each other (the sibling latches at lines 271 and 299 are taken while
\* ancestors are held), and no latch is left held by a thread that
\* returned, normally or by an exception (spec 7: OutOfMemory is fatal to
\* the triggering operation only).  Every thread takes finitely many steps, so with weak fairness
\* per thread this is the same as every operation returning.
SomeThreadProceeds ==
    (\E r \in Readers : ~Returned(r)) \/ (\E w \in Writers : ~WReturned(w)) =>
        \/ \E r \in Readers : ~Returned(r) /\ ~ReaderWaits(r)
        \/ \E w \in Writers : ~WReturned(w) /\ ~WriterWaits(w)

\* Spec 4.4: Begin() descends leftmost.  FindLeaf drops the tree latch
\* before it latches the root (line 459), so splits and merges can run
\* between any two of Begin's steps; still, a split keeps the lower half
\* in the page it splits (MoveHalfTo), and a merge or borrow with the first
\* child keeps that child, so the leaf a Begin iterator holds is the
\* leftmost leaf of the current tree for as long as it holds it, unless
\* the page was deleted by a Remove that emptied the tree meanwhile (the
\* search race, SearchSeesSnapshot).
BeginHoldsLeftmostLeaf ==
    \A r \in Readers :
        rop[r] = "BEGIN" /\ pc[r] = "latched" /\ page[r] \in DOMAIN nodes
        /\ nodes[page[r]].leaf =>
            page[r] = SearchLeaf(nodes, root_page_id, "BEGIN", ZeroKey)

\* Spec 5: a page is mutated only by the sole holder of its write latch.
\* CopyNFrom, MoveAllTo, CopyLastFrom and CopyFirstFrom set the parent of
\* each moved child through a plain FetchPage, without latching it, while
\* another thread may hold the child.
OthersLatched(w) == ReadLatched \cup UNION {WHeld(v) : v \in Writers \ {w}}
ParentSetUnderLatch ==
    [][ \A w \in Writers :
          Finishes(w) =>
              \A p \in DOMAIN nodes \cap DOMAIN nodes' :
                  nodes'[p].parent # nodes[p].parent => p \notin OthersLatched(w) ]_allvars

\* Spec 5 (ordering guarantees): a search that completes observes the tree
\* as of the moment it latched the leaf: GetValue returns whether its key
\* was in the tree then, and an iterator is built on the leaf its descent
\* reaches in that tree (spec 4.4).  FindLeaf's release of the tree latch
\* before the root page is latched lets an insert split the root, or a
\* remove empty the tree, in between.
SearchSeesSnapshot == \A r \in Readers : pc[r] = "done" => found[r] = snap[r]
====
