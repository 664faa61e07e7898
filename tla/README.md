# TLA+ models of the storage-engine core

This directory holds TLA+ models of the repository's storage engine and the TLC
configurations that check them. The engine is a BusTub-style buffer pool with an
extendible-hash page table, an LRU-K replacer and a latch-crabbing B+ tree. Each
module is translated from the C++ under `src/`, and PROJECT.json records which
lines each definition models.

## 1. Inventory

| Component | Source | State | Operations | Interacts with |
|---|---|---|---|---|
| Extendible hash table (EHD) | `src/src/container/hash/extendible_hash_table.cpp` | `global_depth_`, `directory_` (slots share `shared_ptr<Bucket>`), per bucket `depth_` and `items_` | `Find`, `Insert` (loop: bucket insert, else `SplitBucket`, retry), `Remove`, getters | BPM uses it as `page_table_` |
| LRU-K replacer (LKR) | `src/src/buffer/lru_k_replacer.cpp` | `frame_table_` (history, evictable, earliest_time), `history_list_`, `cache_list_`, `current_size_`, wall clock | `RecordAccess`, `SetEvictable`, `Evict`, `Remove`, `Size` | BPM notifies it on every pin and unpin, and asks it for victims |
| Buffer pool manager (BPM) | `src/src/buffer/buffer_pool_manager_instance.cpp` | `pages_` (page id, pin count, dirty, bytes), `free_list_`, page table, replacer, disk | `NewPgImp`, `FetchPgImp`, `UnpinPgImp`, `FlushPgImp`, `DeletePgImp`, `FlushAllPgsImp`, `GetAvailableFrame` | disk manager (external); B+ tree and tests call it |
| B+ tree index (BTI) | `src/src/storage/index/b_plus_tree.cpp` (plus a copy with English comments under `src/project2代码/`) | root page id, tree pages in the pool, `root_page_id_latch_`, per-operation latch queue | `GetValue`, `Insert` / `InsertIntoLeaf` / `Split` / `InsertIntoParent`, `Remove` / `CoalesceOrRedistribute` / `Coalesce` / `Redistribute` / `AdjustRoot`, `FindLeaf`, iterators | BPM for every page |
| Internal page | `src/project2代码/src/storage/page/b_plus_tree_internal_page.cpp` | key/child array, size | `Lookup`, `InsertNodeAfter`, `MoveHalfTo`, `MoveAllTo`, `MoveFirstToEndOf`, `MoveLastToFrontOf`, ... | BTI |
| Test binaries | `src/*.cpp` | — | drivers | call the components |

The leaf page source is not in the repository. The disk manager and `AllocatePage`
are not in `src/` either.

### Concurrency

- EHD, LKR and BPM each take one mutex for the whole body of every public method.
  BPM holds its latch while it calls the page table and the replacer. Each
  public call is therefore one atomic step, and BPM's steps are composed from
  the replacer's operators.
- EHD's Insert loop is the one multi-step operation. It is modelled one loop
  iteration per step, with a `pending` variable. Other operations wait, as they
  would on the latch.
- The B+ tree is truly concurrent, but the structural module runs each Insert
  and Remove as one step (see BPlusTree below). Its readers and writers crab page latches,
  which makes it the part with real interleavings (BPlusTreeLatching).

## 2. Modules and correspondence

- **HashMap** (abstract): what the page table promises.
  - A requested insert takes effect on the key alone.
  - A remove drops the key.
- **ExtendibleHashTable** (from `extendible_hash_table.cpp`):
  - Variables: `global_depth`, `directory` (slot to bucket id), `depth` and
    `items` per bucket, and `pending` (the pair inside Insert's loop).
  - Actions: `InsertBegin`, then one step per loop iteration. An iteration is
    `InsertIntoBucket` when `Bucket::Insert` succeeds and the call returns, or
    `InsertSplit` when it fails and the whole `SplitBucket` runs. `Remove` is an
    action too.
  - Query methods are operators: `Find` (`Bucket::Find` through
    `IndexOf`), `GetDepth`, `GetGlobalDepth`, `GetLocalDepth` and
    `GetNumBuckets`.
    `DirectoryWellFormed` is stated through them.
  - Refinement: `ImplementsHashMap` checks that the map seen through `Find`
    implements HashMap.
- **LRUKReplacer** (from `lru_k_replacer.cpp`):
  - The replacer's state is one record `rep`, and each method is an operator on
    it (`RecordAccessR`, `SetEvictableR`, `RemoveR`, `EvictR`).
  - The actions `RecordAccess`, `SetEvictable`, `Evict` and `Remove` apply those
    operators. BufferPoolManager applies them inside its own steps.
  - `now` is the one-second wall clock. Each access reads the same second or
    the next one.
  - `logical` and `stamps` are auxiliary. They hold the logical access order
    that spec 4.2 prescribes and are used only to state that order.
- **PageStore** (abstract): every page has one content, and only a caller's
  write changes it.
- **BufferPoolManager** (from `buffer_pool_manager_instance.cpp`):
  - Variables: frames (`pages`), `free_list`, `page_table` (a map, justified by
    the HashMap refinement above), the replacer record, `disk`, and
    `next_page_id`.
  - Callers are the `Clients`. `held` holds their pins and `wrote` their writes.
  - A caller pins a page at most once at a time and unpins only what it holds.
    It must pass `is_dirty = true` after a write. This is the discipline the
    spec asks of callers, so calls that break it are not generated.
  - Each public method is one action. Its branches are separate actions:
    `FetchPageHit` and `FetchPageMiss`, `NewPage` and `NewPageFails`,
    `DeletePage` and `DeletePageNotResident`.
  - `GetAvailableFrame` is the operator `Acquire`. It returns the frame and the
    state after the call.
  - Calls that return false without changing anything (unpin or flush of a
    non-resident page, unpin at count 0) are stutter steps.
  - Refinement: `ImplementsPageStore` maps each page's content to the frame's
    bytes when the page is resident and to the disk copy otherwise. A lost
    write-back or a stale re-read breaks the refinement.

- **KeySet** (abstract): what the B+ tree index promises. It is a set of unique
  keys. Insert adds a key and Remove drops one.
- **BPlusTree** (from `b_plus_tree.cpp` and `b_plus_tree_internal_page.cpp`):
  - Variables:
    - `nodes` maps each live page id to its page: the leaf flag, `keys`
      (`array_[i].first`, with slot 0 of an internal page included), `vals`
      (the child ids of an internal page), `parent` and `next`.
    - `root_page_id`.
    - `next_page_id`, the ids NewPage hands out in order.
    - `header`, the header page's record for the index.
  - A leaf's record ids are a function of its keys, so they are left out.
  - Insert and Remove take `root_page_id_latch_` in write mode before they
    touch the tree. They release it early only when no ancestor can change.
    So with one writer at a time, each call is one atomic step:
    `InsertNewTree`, `Insert`, `Remove` and `RemoveEmpty`.
  - `Init` is the constructor (`EmptyTree`) followed by the sequential
    Inserts of the cfg's `InitKeys` (`BuildTree`, the two branches of
    `Insert`). The runs from an empty tree use `InitKeysNone`.
  - The called functions are operators that take and return a tree record
    `t`:
    - `InsertIntoLeaf` calls `SplitLeaf`, then `InsertIntoParent`
      (recursive).
    - `RemoveFromLeaf` calls `CoalesceOrRedistribute`, `Coalesce` and
      `Redistribute` (mutually recursive), then `AdjustRoot`. Every page in
      the deleted page set is deleted at the end, as in the code.
  - Each internal-page method is an operator on one page, or on two pages
    when entries move between them: `Lookup`, `ValueIndex`,
    `SetKeyAt`, `PopulateNewRoot`, `InsertNodeAfter`, `MoveHalfTo`, `MoveAllTo`,
    `MoveFirstToEndOf`, `MoveLastToFrontOf` and `Remove` (`InternalRemove`).
    `IsEmpty` and `UpdateRootPageId` are the tree's own helpers.
  - The leaf page, `GetMinSize` and the header page are not in the
    repository. They follow spec 3, 4.4 and 9.
  - Constants:
    - `MaxPages` bounds the page ids.
    - `SizeReadFirst` fixes the operand order of the size comparison in
      `Remove` (line 230). C++ leaves this order unspecified, so each value
      is a build the compiler may produce.
  - Refinement: `ImplementsKeySet` maps the keys held in the leaves to
    KeySet. KeySet lets a step add or remove any one key, or change nothing,
    so the refinement only says that no step changes more than one key. A
    Remove that drops a neighbour's key as well, or an Insert that loses one,
    breaks it. It does not say that a Remove of k removed k: `GetValueFindsContent`
    and the latching runs speak to which key a step changes.

- **BPlusTreeLatching** (from `GetValue`, `Begin`, `Begin(key)`, `End`,
  `Insert`, `Remove`, `FindLeaf` and `ReleaseLatchFromQueue`). It extends BPlusTree with threads that take
  latches one step at a time. The tree starts as the result of sequential
  inserts of the cfg's `InitKeys` (BPlusTree's `Init`).
  - Readers (`rop`, `pc`, `page`) are a GetValue or an iterator constructor
    (`ReaderOps` in the cfg). They take the search steps one at a time:
    0. `IteratorCheck` (iterators only): read `root_page_id_` without the
       latch (lines 411, 425, 441). On an empty tree, return the end
       iterator.
    1. `GetValueBegin`: `RLock` the tree latch, fetch the root, release the
       tree latch (lines 35 and 455-459). On an empty tree the assert at
       line 455 fires; the reader is then `"aborted"`.
    2. `LatchRoot`: `RLatch` the page (line 460).
    3. `Crab`: latch the child, then unlatch the parent (lines 473-493).
       `SearchChild` takes the first child for Begin, the last for End,
       and the `Lookup` child otherwise.
    4. `GetValueEnd`: look the key up in the leaf. For an iterator,
       `IteratorDestroy` releases the leaf it was built on. The iterator's
       own code (`index_iterator.cpp`) is not in the repository, so this
       step is taken from spec 4.4 and the walk along the leaves is not
       modelled.
  - Writers (`wpc`, `wpage`, `queue`) are Inserts and Removes. `queue` is the
    transaction's page set: `Sentinel` (0) is the `nullptr` entry that
    stands for `root_page_id_latch_`.
    1. `WBegin`: `WLock` the tree latch and push the sentinel. On an empty
       tree, start a new tree (Insert) or return (Remove).
    2. `WLatchRoot`: write-latch the root. If it is safe (`InsertSafe`,
       `DeleteSafe`, lines 463-471), release the page set.
    3. `WCrab`: write-latch the child, push the parent, and release the page
       set if the child is safe (lines 494-513).
    4. `WInsert` / `WRemove`: BPlusTree's `InsertIntoLeafAt` /
       `RemoveFromLeafAt` at the latched leaf, then release everything.
  - Abstraction: the apply at the leaf is one step. Splits, merges and
    borrows above the leaf touch only pages the writer still holds (which
    `MutatesOnlyLatched` checks). The two latches Remove takes inside the
    apply, on a sibling at lines 271 and 299, are modelled as a guard: the
    step waits until no other thread holds a sibling it will latch
    (`SiblingsLatched`). A thread that holds such a sibling never waits for
    this writer's pages, because readers and writers latch top-down and
    this writer holds the parent. So no cycle is lost by taking the siblings
    together.
  - `freed` is a ghost: the last content of each page a Remove deleted. A
    reader that fetched a page before it was deleted keeps it pinned, and
    `DeletePage` fails on a pinned page, so the reader reads that content
    (`View`).
  - `snap` is auxiliary: whether the reader's key was in the tree when the
    reader latched its leaf (spec 5).
  - Fault model: `LNextOOM` adds `WStartNewTreeOOM` and `WInsertOOM`, an
    insert whose `NewPage` returns `nullptr` at line 76, 134 or 164.
    `InsertThrows` gives every tree the insert can leave when it throws at
    the leaf split or at any internal split above it (`ParentThrows`).
    The writer ends in `"thrown"`, still holding its latches.
  - `ReaderWaits` and `WriterWaits` say when a thread's next step waits for
    a latch someone else holds. Every action is guarded by them.

## 3. Runs

| Run | Expect | What it shows |
|---|---|---|
| `eht` | pass | Keys {0..5} with identity hash, buckets of 2, hash width 3 (37,934 states). Splits happen both with directory doubling (global depth 0 to 2) and without it (a depth-1 bucket splitting while global depth is 2), so splits of different buckets interleave. Global depth 3 is out of reach at these bounds, since it would need three keys sharing their low two bits. The directory stays well formed (spec 3 in both directions), items sit where Find looks, the table implements HashMap, and every insert returns (under weak fairness of the loop iterations, since the thread holding the latch keeps running). |
| `eht_collision` | violation | Three keys with one hash value. The insert loop splits past the hash width. |
| `lruk` | pass | 3 frames, k = 2, 5 accesses over 3 seconds. `current_size_` equals the number of evictable tracked frames. The two lists partition the tracked frames by access count. Evict returns an evictable frame, and fails only when none is evictable. |
| `lruk_victim` | violation | EvictLargestKDistance, spec 4.2's victim rule: the evictable frame with the largest backward k-distance is evicted, +inf for fewer than k accesses, ties by earliest first access. The code breaks the rule three ways (finding 2): it scans the cache list first, it orders the cache list by last access, and it ranks by a one-second clock. TLC prints the shortest violating behaviour, which shows one of them. |
| `bpm` | pass | 2 frames, 3 page ids, 2 callers, k = 2, up to 2 writes per page, the clock held within one second. Three pages in two frames force evictions of dirty pages and re-fetches of evicted pages. Two callers give double pins. The run checks frame partition, pins equal holders, pin iff not evictable, and the PageStore refinement (a write is never lost or resurrected). |
| `bptree` | pass | Leaf max 4, internal max 3, keys 1..8, up to 12 pages; 290k states in about 70 s. The model reaches leaf splits, root splits, leaf borrows from either side, leaf merges and root collapse. The run checks five properties. **TreeWellFormed**: the held pages are exactly those reachable from the root, parents are right, and all leaves are at one depth. **LeavesInOrder**: keys ascend and the leaf chain matches the in-order leaves. **GetValueFindsContent**: the descent by `Lookup` finds each key the tree holds and no other. **SizesInBounds**: every page stays within its sizes. **ImplementsKeySet**: the tree behaves as a set of keys. |
| `bptree_deep` | pass | Leaf max 2 (one key per leaf), keys 1..8. The run starts from the three-level tree of keys 1..7, whose root has three internal children. Inserting 8 splits a leaf, the internal page above it (below the root), and then the root, giving four levels. Removes borrow from either sibling and merge at every internal level. The run checks TreeWellFormed and GetValueFindsContent; 97k states in about 15 s. |
| `bptree_header` | violation | Inserting two keys and removing both leaves the header naming a deleted root (spec 6). |
| `bptree_search_race` | violation | One reader (any of the four operations) and one writer over a one-key tree. The reader fetches the root and drops the tree latch. An insert then splits the root, and the reader latches the old root, now a left leaf, and misses key 2. |
| `bptree_latching` | pass | Three writers, each an Insert or a Remove of any of keys 1..4, and one reader running any of the four search operations, over a three-leaf tree (leaf max 2, internal max 3), with symmetry over the writers; 310k states in about 20 s. **WriterOnSearchPath**: every page a writer holds is on its key's path from the current root. **MutatesOnlyLatched**: a writer changes only pages it holds or the siblings it latches. **RootChangesUnderTreeLatch**: the root and header change only under the tree latch. **SomeThreadProceeds**: until every thread has returned, some thread is not waiting (TLC's deadlock check is also on). **BeginHoldsLeftmostLeaf**: a Begin iterator holds the leftmost leaf of the current tree, even though root splits and merges run inside its descent. The exception is a leaf that has been deleted, which the search race covers. |
| `bptree_oom` | violation | Fault model `LSpecOOM`: `NewPage` may return `nullptr` at the three allocation points of an insert. One writer inserts into a full root leaf; the page-id is consumed, `OUT_OF_MEMORY` is thrown, and the tree latch and the leaf latch are never released, so a reader waits forever (SomeThreadProceeds fails at depth 4; finding 11). |
| `bptree_reparent_unlatched` | violation | A reader holds a leaf. An insert splits the full internal root and re-parents that leaf without latching it (finding 10). |

Every property of a passing run has a mutant in PROJECT.json: the definition
changed the way a plausible slip in that code would, and the property is then
violated.

### Findings

1. **EHD collision loop.** `Insert` loops forever on keys that share all hash
   bits. Spec 4.1 asks the implementation to detect this.
2. **LKR victim order.** The victim order differs from spec 4.2 in three ways:
   the cache list is tried first; the cache list is plain LRU; and same-second
   ties go to the newest frame.
3. **Not checked by a run.**
   - `GetAvailableFrame` calls `replacer_->Evict(frame_id)`, but the header
     declares `Evict() -> std::optional<frame_id_t>`, so the file does not
     compile as written. The model uses the header's contract.
   - `NewPgImp` consumes a page id even when it returns `nullptr`.
4. **BTI header record.** `AdjustRoot` empties the tree without
   `UpdateRootPageId`. `StartNewTree` has its `UpdateRootPageId(1)` commented
   out. Either way, the header page names a freed page (`bptree_header`).
5. **BTI evaluation order.** `node->GetSize() == node->RemoveAndDeleteRecord(...)`
   has unsequenced operands. In a build that calls the remove first, no removal
   ever rebalances. `MC_BPlusTree_eval_order.cfg` (SizeReadFirst FALSE,
   invariant SizesInBounds) shows it: removing the only key leaves an empty
   root leaf. It is kept on disk but is not one of the project's runs; the
   passing runs assume the left-to-right order.
6. **Leaf min size (not a run).** Spec 3 gives leaves `min_size = ⌈max/2⌉`. A
   leaf splits when it reaches `leaf_max_size_`. For an odd max, one half of
   the split is therefore below the minimum: with max 3, a split gives 2 + 1.
   The leaf page source is absent, so its split point is taken from the spec.
   The checked configurations use even leaf sizes.
7. **Equivalent mutant.** When `MoveLastToFrontOf` skips writing the separator
   into the recipient's slot 0, no search goes wrong. The code keeps each
   internal page's slot-0 key equal to its parent's separator, so the stale
   key left in that slot is the separator anyway.
8. **BTI search race.** FindLeaf releases `root_page_id_latch_` before it
   latches the root page, in the opposite order to spec 4.4
   (`bptree_search_race`).
   - A search that overlaps a root split can return false for a key the
     tree holds.
   - The same window lets a search start from a root that a concurrent
     Remove deletes. BPlusTreeLatching models this: the reader reads the
     deleted page's last content through `freed`.
   - The iterators share the window. With `ReaderOps` set to one
     operation, the same cfg gives three more counterexamples. `End` is
     built on the old root, which is not the rightmost leaf. `Begin` and
     `Begin(key)` are built on the root leaf after a Remove emptied the
     tree and deleted that leaf.
   - `Begin`, `Begin(key)` and `End` also test for an empty tree before
     they take the tree latch (line 411). A Remove in between sends them
     into FindLeaf's assert: the model reaches `"aborted"` there, but no
     run states it.
9. **GetValue on an empty tree (not a run).** GetValue does not check
   `IsEmpty`, so it reaches FindLeaf's `assert` on `INVALID_PAGE_ID`. The
   model sends such a reader to `"aborted"`.
10. **Unlatched re-parenting.** `CopyNFrom`, `MoveAllTo`, `CopyLastFrom` and
    `CopyFirstFrom` (internal page, line 114 and after) fetch each moved
    child and set its parent id without latching it. Another thread may
    hold that child. Spec 5 says a page is mutated only by the sole holder
    of its write latch (`bptree_reparent_unlatched`). Only the parent id
    field changes, which no search reads, so searches are not affected.

11. **Out of memory inside an insert.** `StartNewTree` (line 76) and
    `Split` (line 164) pass `&root_page_id_` or a local as the out-parameter
    of `NewPage`, then throw `OUT_OF_MEMORY` when it returns `nullptr`
    (lines 78, 136, 166). The throw bypasses `ReleaseLatchFromQueue`, so
    `root_page_id_latch_` and every page latch in the page set stay held,
    and every later operation blocks. Spec 7 says the error is fatal to the
    triggering operation only (`bptree_oom`). Two more effects are modelled
    in `WStartNewTreeOOM` and `InsertThrows`: `root_page_id_` keeps the
    consumed id of a page that was never created, and a leaf that was
    already filled past its max stays so.
12. **Latches left held at line 325 (not a run).** The last branch of
    `CoalesceOrRedistribute` serves a node that is its parent's only child.
    It returns without `ReleaseLatchFromQueue`, and `Remove` then unlatches
    only the leaf. So `root_page_id_latch_` and the ancestors in the page
    set stay write-latched, and the parent stays pinned. A non-root internal
    page with one child needs `GetMinSize() == 1`, i.e. `internal_max_size`
    2. The runs use 3, where the branch is unreachable. The model keeps the
    branch: `CoalesceOrRedistribute` reports `rel |-> FALSE` and `WFinish`
    keeps the queue. `MC_BPlusTreeLatching_single_child.cfg` is the
    `bptree_latching` cfg with `InternalMaxSize = 2`. There TLC finds
    `SomeThreadProceeds` violated in 5 steps: one Remove merges a leaf
    under a single-child internal page and returns holding the tree latch
    and two pages, and the other writers wait forever. The cfg is kept on
    disk but is not one of the runs.

## 4. Plan (in order)

1. ExtendibleHashTable + HashMap refinement — done.
2. LRUKReplacer — done.
3. BufferPoolManager composing both, with the PageStore refinement — done.
4. BPlusTree (structure), with the KeySet refinement — done. Open items:
   - An internal split below the root, and its cascade into a root split,
     are reached by `bptree_deep`, which starts from a three-level tree.
   - The iterator constructors are modelled in BPlusTreeLatching. Iteration
     itself (`index_iterator.cpp`) is not in the repository.
5. BPlusTreeLatching: readers and writers descending with latch crabbing over a
   small tree — done. Searches, Inserts and Removes interleave; writers release
   ancestors early at safe nodes; the sibling latches at lines 271 and 299
   are covered by the deadlock check and `SomeThreadProceeds`, for the
   orders the model has. A left-to-right cycle against an iterator that
   advances is out of reach, because iteration is not in the repository.
   The missing release at line 325 is a finding, below.
6. A pin-discipline check that every page the tree fetches it unpins — not
   a run. A review of every `FetchPage`, `NewPage` and `UnpinPage` of
   Insert, Remove, FindLeaf and the internal page's `Copy*From` finds the
   pins balanced on every path, with one exception: the branch at line 325
   returns with the parent pinned and its page set still latched. Only
   `internal_max_size` 2 reaches it (below). `UnpinPgImp` ORs the dirty flag (lines 90-92), so the
   `UnpinPage(..., false)` of `ReleaseLatchFromQueue` never hides a
   modification unpinned with `true` elsewhere. The model applies the
   leaf step atomically, so these pairs are not separate steps. Two
   effects of the buffer pool on the tree stay hazards without a property:
   the leak of a page `DeletePage` refuses (line 247), and the unchecked
   `nullptr` of `FetchPage` when every frame is pinned (line 487 and the
   other fetches).

## 5. Bounds and fairness

- The bounds are the smallest that make each hard case happen: a split that
  doubles the directory and one that does not, frames reaching k accesses,
  ties in the clock, eviction of a dirty page, a double pin. Larger pools and
  key sets repeat the same shapes.
- The only fairness TLC uses is weak fairness of EHD's loop iterations. The
  thread that holds the latch is never blocked by another.
- `LSpec` of BPlusTreeLatching states weak fairness per thread (an OS
  scheduler runs every runnable thread). Every thread takes finitely many
  steps, so the state graph has no cycle outside `Terminating`. "Every
  operation returns" therefore reduces to "in every state before the end
  some thread can step", which `SomeThreadProceeds` and TLC's deadlock check
  state as safety. Checking it as liveness made TLC evaluate ENABLED of the
  tree operators in every state, which was too slow to finish.

- BPlusTree bounds:
  - `bptree` uses keys 1..8 with leaf max 4. This is the smallest set where
    a root split happens, and every leaf operation occurs in both directions.
  - `bptree_deep` uses one key per leaf, which is the cheapest way to get
    internal pages below the root that split, borrow and merge. It starts
    from the tree of keys 1..7: the root has three internal children, the
    last with three leaves. Key 8 then splits that child. Its parent, the
    root, is full, so the split cascades to a new root. A
    `Split` that set the new internal page's parent wrongly
    (`MoveHalfToOrphan`) is caught only here: a new root re-parents both
    halves of a root split, so the old `bptree` bounds never showed it.
    `MaxPages` 15 leaves the four pages that cascade needs after the 11
    pages of the initial tree. The ids a remove frees are not reused, so
    those four ids bound the splits of every history, while removes are
    unbounded.
  - Page ids are never reused, as in `AllocatePage`. `MaxPages` therefore
    bounds the length of histories, not the size of the tree.
- BPlusTreeLatching bounds:
  - `bptree_latching` starts from three leaves under one internal root.
    One key per leaf makes every insert a split and every remove a merge
    or borrow, so each step is structural. The writers can then:
    - split a leaf and the root;
    - merge and borrow between leaves and collapse the root;
    - empty the tree and start a new one.
    All of this happens while the reader or another writer holds pages on
    the way.
  - Three writers give three-way waits. They can also remove every key, so
    a search can meet an empty tree.
  - The writers are symmetric. Each chooses its operation and key in
    `LInit`, and no property names a writer, so `WriterSymmetry` is sound.
  - `MaxPages` 14 cannot bind. The tree starts with 5 pages, and three
    operations allocate at most 3 pages each.
- Pins: at the granularity of the model, the pages a thread has pinned are
  the pages it has latched, plus the root a reader has fetched but not yet
  latched (`freed` covers that case). Inside the atomic leaf apply, every
  `FetchPage` and `NewPage` is paired with an `UnpinPage` on every path,
  except the parent fetched at line 265 on the branch at line 325, which
  only `internal_max_size` 2 reaches.

## 6. Not modelled

- Disk-manager failures: the spec allows them, but the code ignores them.
- Page bytes beyond a version number.
- Debug printing and the test drivers.
- B+ tree:
  - The index's pin and unpin calls on the buffer pool, and so the leak of
    a deleted page still pinned by a reader (`DeletePage`'s result is
    ignored at line 247).
  - Iteration past the first leaf: `IndexIterator` is not in the
    repository. Only the constructors `Begin`, `Begin(key)` and `End` and
    the release of the leaf are modelled.
  - In the passing runs, `NewPage` never fails: a step that would exceed
    `MaxPages` is disabled. The failure is a separate next-state relation
    (`LNextOOM`), used only by `bptree_oom`.
  - `InsertFromFile` and `RemoveFromFile` (lines 573-599) are test
    helpers. `while (input) { input >> key; ... }` handles the last key
    twice and, on an empty file, uses `key` uninitialized.
  - `GetRootPageId` (lines 540-544) reads `root_page_id_` after releasing
    the latch. Only the tests call it, and a caller's later use of the id
    is outside the tree, so it is listed as a hazard without a property.
  - `Draw`, `Print`, `ToGraph` and `ToString` (lines 605-760): debug output.
  - `src/project2代码/src/storage/index/b_plus_tree.cpp` is a copy of the same
    tree with renamed locals and English comments; the map points to
    `src/src`.
- `ReadPage` of a never-written page, which reads zeroes. The model has
  `disk` start at 0.
