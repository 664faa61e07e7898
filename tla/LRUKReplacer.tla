------------------------------ MODULE LRUKReplacer ------------------------------
(***************************************************************************)
(* src/src/buffer/lru_k_replacer.cpp, src/src/include/buffer/lru_k_replacer.h *)
(*                                                                         *)
(* The replacer's tables are one record `rep`:                             *)
(*   tracked       the keys of frame_table_                                *)
(*   hist[f]       FrameInfo::history, oldest timestamp first              *)
(*   evictable[f]  FrameInfo::evictable                                    *)
(*   earliest[f]   FrameInfo::earliest_time                                *)
(*   history_list  history_list_, front first (history_map_ is its index)  *)
(*   cache_list    cache_list_, front first (cache_map_ is its index)      *)
(*   size          current_size_                                           *)
(* An erased FrameInfo is kept at its default value (empty history, not    *)
(* evictable, time 0): operator[] recreates exactly that value.            *)
(*                                                                         *)
(* Every method holds latch_ for its whole body, so each is one step.  The *)
(* methods are also written as operators on a replacer record (...R) so    *)
(* that BufferPoolManager can apply several of them in one of its steps.   *)
(*                                                                         *)
(* GetCurrentTime reads system_clock at one-second resolution: two calls   *)
(* in the same second return the same time.  `now` is the last time read; *)
(* each RecordAccess reads either the same second or the next one.         *)
(*                                                                         *)
(* `logical` and `stamps` are auxiliary: the logical access counter that   *)
(* spec 4.2 prescribes (one tick per RecordAccess), used only to state the *)
(* specified eviction order.  `result` is the return value of the last     *)
(* call: a frame or Nullopt for Evict, Void for the other methods.         *)
(***************************************************************************)
EXTENDS Integers, Sequences, FiniteSets, FiniteSetsExt

CONSTANTS
    Frames,       \* frame ids 0 .. replacer_size_ - 1
    K,            \* k_
    MaxTime,      \* bound on the clock (seconds)
    MaxAccesses,  \* bound on the number of RecordAccess calls
    Nullopt,      \* std::nullopt returned by Evict
    Void          \* result of a method that returns nothing

ASSUME K \in Nat \ {0}
ASSUME {Nullopt, Void} \cap Frames = {}

VARIABLES rep, now, result, logical, stamps

vars == <<rep, now, result, logical, stamps>>

Time == 0 .. MaxTime

\* frame_id removed from a list (std::list::erase through the map iterator)
Erase(s, f) == SelectSeq(s, LAMBDA x : x # f)

\* Trim a history to its K most recent entries (pop_front when size > k_).
LastK(h) == IF Len(h) > K THEN Tail(h) ELSE h

InitRep ==
    [tracked      |-> {},
     hist         |-> [f \in Frames |-> <<>>],
     evictable    |-> [f \in Frames |-> FALSE],
     earliest     |-> [f \in Frames |-> 0],
     history_list |-> <<>>,
     cache_list   |-> <<>>,
     size         |-> 0]

\* Mutant: a frame reaching k accesses is added to the cache list but not
\* taken out of the history list.
RecordAccessKeepHistory(r, f, t) ==
    LET h1 == Append(r.hist[f], t)
        young == Len(LastK(h1)) < K
    IN [r EXCEPT !.tracked = @ \cup {f},
                 !.hist[f] = LastK(h1),
                 !.earliest[f] = IF Len(h1) = 1 THEN t ELSE @,
                 !.history_list = IF young THEN <<f>> \o Erase(@, f) ELSE @,
                 !.cache_list = IF young THEN Erase(@, f) ELSE <<f>> \o Erase(@, f)]

\* RecordAccess: append the time, remember it as earliest_time on the first
\* access, keep the last k, then move the frame to the front of the history
\* list (fewer than k accesses) or of the cache list, out of the other one.
RecordAccessR(r, f, t) ==
    LET h1 == Append(r.hist[f], t)
        young == Len(LastK(h1)) < K
    IN [r EXCEPT !.tracked = @ \cup {f},
                 !.hist[f] = LastK(h1),
                 !.earliest[f] = IF Len(h1) = 1 THEN t ELSE @,
                 !.history_list = IF young THEN <<f>> \o Erase(@, f) ELSE Erase(@, f),
                 !.cache_list = IF young THEN Erase(@, f) ELSE <<f>> \o Erase(@, f)]

\* Mutant: the size is adjusted on every call, without comparing the old
\* flag.
SetEvictableAlwaysAdjust(r, f, b) ==
    IF f \notin r.tracked THEN r
    ELSE [r EXCEPT !.evictable[f] = b, !.size = IF b THEN @ + 1 ELSE @ - 1]

\* SetEvictable: no-op on an untracked frame; otherwise adjust the size on
\* a change of the flag and store it.
SetEvictableR(r, f, b) ==
    IF f \notin r.tracked THEN r
    ELSE [r EXCEPT !.evictable[f] = b,
                   !.size = CASE r.evictable[f] /\ ~b -> @ - 1
                              [] ~r.evictable[f] /\ b -> @ + 1
                              [] OTHER -> @]

\* Mutant: the frame record is erased without adjusting current_size_.
RemoveFrameNoDecrement(r, f) ==
    [r EXCEPT !.tracked = @ \ {f},
              !.hist[f] = <<>>,
              !.evictable[f] = FALSE,
              !.earliest[f] = 0,
              !.history_list = Erase(@, f),
              !.cache_list = Erase(@, f)]

\* RemoveFrame: take the frame out of both lists, decrement the size if it
\* was evictable, erase its record.
RemoveFrameR(r, f) ==
    [r EXCEPT !.tracked = @ \ {f},
              !.hist[f] = <<>>,
              !.evictable[f] = FALSE,
              !.earliest[f] = 0,
              !.history_list = Erase(@, f),
              !.cache_list = Erase(@, f),
              !.size = IF r.evictable[f] THEN @ - 1 ELSE @]

\* Remove: silently ignored for an untracked or a non-evictable frame.
RemoveR(r, f) ==
    IF f \notin r.tracked \/ ~r.evictable[f] THEN r ELSE RemoveFrameR(r, f)

\* Mutant: the cache scan takes the back of the list without looking at
\* the evictable flag.
CacheVictimNoFlag(r) ==
    IF r.cache_list = <<>> THEN Nullopt ELSE r.cache_list[Len(r.cache_list)]

\* Evict, first loop: scanning cache_list_ from the back, the first frame
\* that is evictable.
CacheVictim(r) ==
    LET idx == {i \in 1 .. Len(r.cache_list) : r.evictable[r.cache_list[i]]}
    IN IF idx = {} THEN Nullopt ELSE r.cache_list[Max(idx)]

\* Evict, second loop: scanning history_list_ from the front, the candidate
\* is replaced only by a strictly smaller earliest_time, so among equal
\* times the frame nearest the front wins.
HistoryVictim(r) ==
    LET hl   == r.history_list
        idx  == {i \in 1 .. Len(hl) : r.evictable[hl[i]]}
        best == {i \in idx : \A j \in idx : r.earliest[hl[i]] <= r.earliest[hl[j]]}
    IN IF idx = {} THEN Nullopt ELSE hl[Min(best)]

\* The frame Evict returns: the cache list is tried before the history list.
EvictVictim(r) ==
    IF CacheVictim(r) # Nullopt THEN CacheVictim(r) ELSE HistoryVictim(r)

EvictR(r) ==
    IF EvictVictim(r) = Nullopt THEN r ELSE RemoveFrameR(r, EvictVictim(r))

\* Size(): current_size_, read under the latch.
Size == rep.size

------------------------------------------------------------------------------

TypeOK ==
    /\ rep.tracked \subseteq Frames
    /\ rep.hist \in [Frames -> Seq(Time)]
    /\ rep.evictable \in [Frames -> BOOLEAN]
    /\ rep.earliest \in [Frames -> Time]
    /\ rep.history_list \in Seq(Frames)
    /\ rep.cache_list \in Seq(Frames)
    /\ rep.size \in 0 .. Cardinality(Frames)  \* size_t: never below 0
    /\ now \in Time
    /\ result \in Frames \cup {Nullopt, Void}
    /\ logical \in 0 .. MaxAccesses
    /\ stamps \in [Frames -> Seq(0 .. MaxAccesses)]

Init ==
    /\ rep = InitRep
    /\ now = 0
    /\ result = Void
    /\ logical = 0
    /\ stamps = [f \in Frames |-> <<>>]

RecordAccess(f) ==
    /\ logical < MaxAccesses
    /\ \E t \in {now, now + 1} \cap Time :
          /\ rep' = RecordAccessR(rep, f, t)
          /\ now' = t
    /\ result' = Void
    /\ logical' = logical + 1
    /\ stamps' = [stamps EXCEPT ![f] = LastK(Append(@, logical))]

SetEvictable(f, b) ==
    /\ rep' = SetEvictableR(rep, f, b)
    /\ result' = Void
    /\ UNCHANGED <<now, logical, stamps>>

Evict ==
    /\ rep' = EvictR(rep)
    /\ result' = EvictVictim(rep)
    /\ stamps' = IF EvictVictim(rep) = Nullopt THEN stamps
                 ELSE [stamps EXCEPT ![EvictVictim(rep)] = <<>>]
    /\ UNCHANGED <<now, logical>>

Remove(f) ==
    /\ rep' = RemoveR(rep, f)
    /\ result' = Void
    /\ stamps' = IF rep'.tracked = rep.tracked THEN stamps ELSE [stamps EXCEPT ![f] = <<>>]
    /\ UNCHANGED <<now, logical>>

Next ==
    \/ \E f \in Frames : RecordAccess(f)
    \/ \E f \in Frames, b \in BOOLEAN : SetEvictable(f, b)
    \/ Evict
    \/ \E f \in Frames : Remove(f)

Spec == Init /\ [][Next]_vars

------------------------------------------------------------------------------
(***************************************************************************)
(* Properties                                                              *)
(***************************************************************************)

\* Size() (current_size_) equals the number of tracked frames marked
\* evictable (spec 8).  current_size_ is adjusted in SetEvictable and in
\* RemoveFrame, reached from both Evict and Remove: a path that erases a
\* record without the adjustment shows only after a later eviction.
SizeMatchesEvictable ==
    Size = Cardinality({f \in rep.tracked : rep.evictable[f]})

\* The two lists partition the tracked frames: each tracked frame is in
\* exactly one list, once, the history list iff it has fewer than k
\* accesses; untracked frames are in neither (spec 4.2, "after K accesses f
\* belongs to the cache group").  The maps and lists are edited in five
\* places across RecordAccess and RemoveFrame.
GroupsPartitionTracked ==
    \A f \in Frames :
        LET inH == Cardinality({i \in 1 .. Len(rep.history_list) : rep.history_list[i] = f})
            inC == Cardinality({i \in 1 .. Len(rep.cache_list) : rep.cache_list[i] = f})
        IN IF f \in rep.tracked
           THEN /\ 1 <= Len(rep.hist[f]) /\ Len(rep.hist[f]) <= K
                /\ inH + inC = 1
                /\ (inH = 1) <=> (Len(rep.hist[f]) < K)
           ELSE inH + inC = 0

\* Evict returns a frame exactly when some tracked frame is evictable, and
\* the frame it returns is one of them (spec 8: "Evict never returns a
\* non-evictable frame"; BufferPoolManager relies on Evict failing only
\* when every resident frame is pinned).
EvictChoosesEvictable ==
    [][ /\ result' \in Frames => result' \in rep.tracked /\ rep.evictable[result']
        /\ result' = Nullopt => \A f \in rep.tracked : ~rep.evictable[f] ]_vars

\* Spec 4.2 (the victim rule): Evict returns the evictable frame with the
\* largest backward k-distance.  A frame with fewer than k accesses has
\* k-distance +inf and ties among those go to the earliest first access;
\* among the others the oldest k-th most recent access has the largest
\* distance.  Times are the logical access counter the spec prescribes,
\* so stamps[f][1] is the first access of a young frame and the k-th most
\* recent access of an old one.  The code departs from the rule in three
\* places: it scans the cache list first (line 16), it keeps the cache
\* list in recency order (line 102), and it ranks by a one-second clock
\* (line 168).
Young(f) == Len(rep.hist[f]) < K
KDistanceBefore(g, f) ==
    \/ Young(g) /\ ~Young(f)
    \/ Young(g) = Young(f) /\ stamps[g][1] < stamps[f][1]
EvictLargestKDistance ==
    [][ result' \in Frames =>
          \A g \in rep.tracked : rep.evictable[g] => ~KDistanceBefore(g, result') ]_vars
=============================================================================
