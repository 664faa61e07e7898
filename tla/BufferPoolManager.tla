--------------------------- MODULE BufferPoolManager ---------------------------
(***************************************************************************)
(* src/src/buffer/buffer_pool_manager_instance.cpp                         *)
(*                                                                         *)
(*   pages[f]      Page metadata and bytes of frame f (page_id_,           *)
(*                 pin_count_, is_dirty_, data_); the bytes are a version  *)
(*                 number, 0 being the zeroed page                         *)
(*   free_list     free_list_                                              *)
(*   page_table    page_table_, an ExtendibleHashTable<page_id_t,          *)
(*                 frame_id_t>; MC_ExtendibleHashTable checks that it      *)
(*                 implements HashMap, so it is a map here (None = absent) *)
(*   rep, now      replacer_, the LRUKReplacer record, and its clock       *)
(*   disk          the disk manager's copy of every page                   *)
(*   next_page_id  AllocatePage's counter (next_page_id_++)                *)
(*                                                                         *)
(* Every public method holds latch_ for its whole body and calls the page  *)
(* table and the replacer inside it, so each is one step here, composed    *)
(* from the replacer's operators.                                          *)
(*                                                                         *)
(* The callers (the B+ tree, the tests) are a set of Clients.  held[c] are *)
(* the pages c has pinned through NewPage/FetchPage and not yet unpinned,  *)
(* wrote[c] those it has written through GetData(); live are the page ids  *)
(* NewPage returned and DeletePage has not deleted.  A client pins a page  *)
(* at most once at a time; two clients may pin the same page.             *)
(***************************************************************************)
EXTENDS Integers, Sequences, FiniteSets

CONSTANTS
    Frames,       \* frame ids 0 .. pool_size_ - 1
    PageIds,      \* page ids AllocatePage can hand out, 0 .. MaxPages - 1
    Clients,      \* threads calling the buffer pool
    ReplacerK,    \* replacer_k
    MaxTime,      \* bound on the replacer's clock
    MaxVersion,   \* bound on the number of writes to one page
    None,         \* absent page-table entry
    Nullopt       \* the replacer's std::nullopt

ASSUME Frames = 0 .. (Cardinality(Frames) - 1)

INVALID_PAGE_ID == -1

VARIABLES pages, free_list, page_table, rep, now, disk, next_page_id,
          held, wrote, live

vars == <<pages, free_list, page_table, rep, now, disk, next_page_id,
          held, wrote, live>>

LRU == INSTANCE LRUKReplacer
         WITH K <- ReplacerK, MaxAccesses <- 0, Void <- Nullopt,
              rep <- rep, now <- now, result <- Nullopt, logical <- 0,
              stamps <- [f \in Frames |-> <<>>]

Clock == {now, now + 1} \cap 0 .. MaxTime

\* Page::ResetMemory plus page_id_ = INVALID_PAGE_ID, pin_count_ = 0,
\* is_dirty_ = false.
EmptyFrame == [page_id |-> INVALID_PAGE_ID, pin |-> 0, dirty |-> FALSE, data |-> 0]

\* Mutant: GetAvailableFrame leaves the victim's page-table entry in place.
AcquireKeepsEntry ==
    IF free_list # <<>>
    THEN [ok |-> TRUE, frame |-> Head(free_list), free |-> Tail(free_list),
          rep |-> rep, disk |-> disk, table |-> page_table, pages |-> pages]
    ELSE LET v == LRU!EvictVictim(rep) IN
         IF v = Nullopt THEN [ok |-> FALSE]
         ELSE [ok |-> TRUE, frame |-> v, free |-> free_list,
               rep |-> LRU!EvictR(rep),
               disk |-> IF pages[v].dirty THEN [disk EXCEPT ![pages[v].page_id] = pages[v].data]
                        ELSE disk,
               table |-> page_table,
               pages |-> [pages EXCEPT ![v] = EmptyFrame]]

\* GetAvailableFrame: the front of the free list, else the replacer's
\* victim, written back if dirty, dropped from the page table and reset.
\* The result carries the frame and the state after the call.
Acquire ==
    IF free_list # <<>>
    THEN [ok |-> TRUE, frame |-> Head(free_list), free |-> Tail(free_list),
          rep |-> rep, disk |-> disk, table |-> page_table, pages |-> pages]
    ELSE LET v == LRU!EvictVictim(rep) IN
         IF v = Nullopt THEN [ok |-> FALSE]
         ELSE [ok |-> TRUE, frame |-> v, free |-> free_list,
               rep |-> LRU!EvictR(rep),
               disk |-> IF pages[v].dirty THEN [disk EXCEPT ![pages[v].page_id] = pages[v].data]
                        ELSE disk,
               table |-> [page_table EXCEPT ![pages[v].page_id] = None],
               pages |-> [pages EXCEPT ![v] = EmptyFrame]]

\* RecordAccess(frame) then SetEvictable(frame, false): every pin.
Accessed(r, f, t) == LRU!SetEvictableR(LRU!RecordAccessR(r, f, t), f, FALSE)

\* Mutant: a fetch of a resident page sets the pin count to one.
PinResidentReset(fr) == [fr EXCEPT !.pin = 1]

\* FetchPgImp on a resident page: pin_count_++.
PinResident(fr) == [fr EXCEPT !.pin = @ + 1]

\* Mutant: UnpinPgImp forgets pin_count_--.
UnpinnedNoDecrement(fr, is_dirty) == [fr EXCEPT !.dirty = @ \/ is_dirty]

\* Mutant: UnpinPgImp stores the caller's hint instead of or-ing it.
UnpinnedOverwrite(fr, is_dirty) == [fr EXCEPT !.pin = @ - 1, !.dirty = is_dirty]

\* UnpinPgImp: pin_count_--, and is_dirty_ = true if the caller says so.
Unpinned(fr, is_dirty) == [fr EXCEPT !.pin = @ - 1, !.dirty = @ \/ is_dirty]

\* Mutant: every unpin marks the frame evictable.
AfterUnpinAlways(r, f, pin) == LRU!SetEvictableR(r, f, TRUE)

\* UnpinPgImp: SetEvictable(frame, true) when the count reaches zero.
AfterUnpin(r, f, pin) == IF pin = 0 THEN LRU!SetEvictableR(r, f, TRUE) ELSE r

------------------------------------------------------------------------------

TypeOK ==
    /\ pages \in [Frames -> [page_id : PageIds \cup {INVALID_PAGE_ID},
                             pin : 0 .. Cardinality(Clients),
                             dirty : BOOLEAN, data : 0 .. MaxVersion]]
    /\ free_list \in Seq(Frames)
    /\ page_table \in [PageIds -> Frames \cup {None}]
    /\ now \in 0 .. MaxTime
    /\ disk \in [PageIds -> 0 .. MaxVersion]
    /\ next_page_id \in 0 .. Cardinality(PageIds)
    /\ held \in [Clients -> SUBSET PageIds]
    /\ wrote \in [Clients -> SUBSET PageIds]
    /\ live \subseteq PageIds

\* Constructor: every frame on the free list, in order.
Init ==
    /\ pages = [f \in Frames |-> EmptyFrame]
    /\ free_list = [i \in 1 .. Cardinality(Frames) |-> i - 1]
    /\ page_table = [p \in PageIds |-> None]
    /\ rep = LRU!InitRep
    /\ now = 0
    /\ disk = [p \in PageIds |-> 0]
    /\ next_page_id = 0
    /\ held = [c \in Clients |-> {}]
    /\ wrote = [c \in Clients |-> {}]
    /\ live = {}

\* NewPgImp: the id is allocated first; then a frame is secured, zeroed,
\* pinned once, entered in the page table and recorded as non-evictable.
NewPage(c) ==
    /\ next_page_id \in PageIds
    /\ LET pid == next_page_id
           a   == Acquire
       IN /\ a.ok
          /\ pages' = [a.pages EXCEPT ![a.frame] =
                         [page_id |-> pid, pin |-> 1, dirty |-> FALSE, data |-> 0]]
          /\ free_list' = a.free
          /\ disk' = a.disk
          /\ page_table' = [a.table EXCEPT ![pid] = a.frame]
          /\ \E t \in Clock : now' = t /\ rep' = Accessed(a.rep, a.frame, t)
          /\ next_page_id' = pid + 1
          /\ held' = [held EXCEPT ![c] = @ \cup {pid}]
          /\ live' = live \cup {pid}
    /\ UNCHANGED wrote

\* NewPgImp with every frame pinned: nullptr, but the id is consumed.
NewPageFails ==
    /\ next_page_id \in PageIds
    /\ ~Acquire.ok
    /\ next_page_id' = next_page_id + 1
    /\ UNCHANGED <<pages, free_list, page_table, rep, now, disk, held, wrote, live>>

\* FetchPgImp, page resident: pin it once more.
FetchPageHit(c, p) ==
    /\ p \in live \ held[c]
    /\ page_table[p] # None
    /\ LET f == page_table[p] IN
          /\ pages' = [pages EXCEPT ![f] = PinResident(@)]
          /\ \E t \in Clock : now' = t /\ rep' = Accessed(rep, f, t)
    /\ held' = [held EXCEPT ![c] = @ \cup {p}]
    /\ UNCHANGED <<free_list, page_table, disk, next_page_id, wrote, live>>

\* FetchPgImp, page not resident: secure a frame and read the page in.
FetchPageMiss(c, p) ==
    /\ p \in live \ held[c]
    /\ page_table[p] = None
    /\ LET a == Acquire IN
          /\ a.ok
          /\ pages' = [a.pages EXCEPT ![a.frame] =
                         [page_id |-> p, pin |-> 1, dirty |-> FALSE, data |-> disk[p]]]
          /\ free_list' = a.free
          /\ disk' = a.disk
          /\ page_table' = [a.table EXCEPT ![p] = a.frame]
          /\ \E t \in Clock : now' = t /\ rep' = Accessed(a.rep, a.frame, t)
    /\ held' = [held EXCEPT ![c] = @ \cup {p}]
    /\ UNCHANGED <<next_page_id, wrote, live>>

\* The caller writes the bytes of a page it holds (Page::GetData()).
WritePage(c, p) ==
    /\ p \in held[c]
    /\ pages[page_table[p]].data < MaxVersion
    /\ pages' = [pages EXCEPT ![page_table[p]].data = @ + 1]
    /\ wrote' = [wrote EXCEPT ![c] = @ \cup {p}]
    /\ UNCHANGED <<free_list, page_table, rep, now, disk, next_page_id, held, live>>

\* UnpinPgImp by the holder; is_dirty must be true if it wrote the page.
UnpinPage(c, p) ==
    /\ p \in held[c]
    /\ page_table[p] # None
    /\ LET f == page_table[p] IN
          /\ pages[f].pin > 0
          /\ \E is_dirty \in BOOLEAN :
                /\ p \in wrote[c] => is_dirty
                /\ pages' = [pages EXCEPT ![f] = Unpinned(@, is_dirty)]
          /\ rep' = AfterUnpin(rep, f, pages[f].pin - 1)
    /\ held' = [held EXCEPT ![c] = @ \ {p}]
    /\ wrote' = [wrote EXCEPT ![c] = @ \ {p}]
    /\ UNCHANGED <<free_list, page_table, now, disk, next_page_id, live>>

\* FlushPgImp on a resident page: write the bytes, clear the dirty flag.
FlushPage(p) ==
    /\ page_table[p] # None
    /\ disk' = [disk EXCEPT ![p] = pages[page_table[p]].data]
    /\ pages' = [pages EXCEPT ![page_table[p]].dirty = FALSE]
    /\ UNCHANGED <<free_list, page_table, rep, now, next_page_id, held, wrote, live>>

\* FlushAllPgsImp: every frame holding a dirty page is written and cleaned.
FlushAllPages ==
    /\ disk' = [p \in PageIds |->
                  IF page_table[p] # None /\ pages[page_table[p]].dirty
                  THEN pages[page_table[p]].data ELSE disk[p]]
    /\ pages' = [f \in Frames |->
                   IF pages[f].page_id # INVALID_PAGE_ID THEN [pages[f] EXCEPT !.dirty = FALSE]
                   ELSE pages[f]]
    /\ UNCHANGED <<free_list, page_table, rep, now, next_page_id, held, wrote, live>>

\* DeletePgImp on a page that is not resident: true, nothing to do.
DeletePageNotResident(p) ==
    /\ p \in live
    /\ page_table[p] = None
    /\ live' = live \ {p}
    /\ UNCHANGED <<pages, free_list, page_table, rep, now, disk, next_page_id, held, wrote>>

\* DeletePgImp on a resident, unpinned page: flush if dirty, drop it from
\* the page table and the replacer, reset the frame, free it.
DeletePage(p) ==
    /\ p \in live
    /\ page_table[p] # None
    /\ LET f == page_table[p] IN
          /\ pages[f].pin = 0
          /\ disk' = IF pages[f].dirty THEN [disk EXCEPT ![p] = pages[f].data] ELSE disk
          /\ page_table' = [page_table EXCEPT ![p] = None]
          /\ rep' = LRU!RemoveR(rep, f)
          /\ pages' = [pages EXCEPT ![f] = EmptyFrame]
          /\ free_list' = Append(free_list, f)
    /\ live' = live \ {p}
    /\ UNCHANGED <<now, next_page_id, held, wrote>>

Next ==
    \/ \E c \in Clients : NewPage(c)
    \/ NewPageFails
    \/ \E c \in Clients, p \in PageIds :
          \/ FetchPageHit(c, p) \/ FetchPageMiss(c, p)
          \/ WritePage(c, p) \/ UnpinPage(c, p)
    \/ \E p \in PageIds : FlushPage(p) \/ DeletePageNotResident(p) \/ DeletePage(p)
    \/ FlushAllPages

Spec == Init /\ [][Next]_vars

------------------------------------------------------------------------------
(***************************************************************************)
(* Properties                                                              *)
(***************************************************************************)

\* Spec 8: the free list and the resident frames partition the frames; a
\* resident page is in exactly one frame and the page table names it.
\* Eviction, deletion and the free list each edit part of this.
FramesPartitioned ==
    /\ \A i, j \in 1 .. Len(free_list) : free_list[i] = free_list[j] => i = j
    /\ \A f \in Frames :
          \/ /\ \E i \in 1 .. Len(free_list) : free_list[i] = f
             /\ pages[f].page_id = INVALID_PAGE_ID
          \/ /\ pages[f].page_id \in PageIds
             /\ page_table[pages[f].page_id] = f
    /\ \A p \in PageIds : page_table[p] # None => pages[page_table[p]].page_id = p

\* A resident page's pin count is exactly the number of callers holding it:
\* no pin is lost or counted twice across fetch hits, misses and unpins.
PinsMatchHolders ==
    \A p \in PageIds : page_table[p] # None =>
        pages[page_table[p]].pin = Cardinality({c \in Clients : p \in held[c]})

\* Spec 8: a resident page with pin count 0 is evictable in the replacer
\* and one with a positive count is not; free frames are not tracked.  This
\* ties the pool's pins to the replacer's flags, kept in step by four
\* methods of two classes.
PinnedIffNotEvictable ==
    \A f \in Frames :
        IF pages[f].page_id = INVALID_PAGE_ID
        THEN f \notin rep.tracked
        ELSE /\ f \in rep.tracked
             /\ rep.evictable[f] <=> pages[f].pin = 0

\* Spec 8 round trip: the content of a page, read from its frame when it
\* is resident and from disk otherwise, changes only by a caller's write;
\* no eviction, flush, deletion or re-fetch loses or resurrects a version.
Content == [p \in PageIds |->
              IF page_table[p] # None THEN pages[page_table[p]].data ELSE disk[p]]

Store == INSTANCE PageStore WITH content <- Content

ImplementsPageStore == Store!Spec
=============================================================================
