------------------------------- MODULE Cache -------------------------------
(***************************************************************************)
(* One cache under any sequence of reads and writes, with the histories    *)
(* that define what its replacement policy should hold.                    *)
(***************************************************************************)
EXTENDS CacheLogic

CONSTANTS
  Geometries,      \* the caches to run
  Address,         \* the addresses that are accessed
  MaxAccesses      \* bound: accesses in one run

ASSUME CacheAssumption ==
  /\ Geometries \subseteq Geometry
  /\ Address \subseteq Nat
  /\ MaxAccesses \in Nat

VARIABLES
  geom,          \* the geometry of this cache
  sets,          \* sets_ and policies_
  stats,         \* CacheStats
  recent,        \* history: the tags accessed in each set, latest first
  fills,         \* history: the tags brought into each set, in order
  dirtied        \* history: how often a clean line became dirty

vars == <<geom, sets, stats, recent, fills, dirtied>>

Init ==
  /\ geom \in Geometries
  /\ sets = EmptyCache(geom) /\ stats = ZeroStats
  /\ recent = [s \in SetIdx(geom) |-> <<>>]
  /\ fills = [s \in SetIdx(geom) |-> <<>>]
  /\ dirtied = 0

\* The tag was cached, valid and dirty.
WasDirty(s, tag) == \E w \in Way(geom) : Holds(sets[s], w, tag) /\ sets[s].lines[w].dirty

\* The history h of the tags used, after tag is used.
Latest(h, tag) == IF tag \in ToSet(h) THEN MovedToFront(h, tag) ELSE <<tag>> \o h

\* Cache::access or Cache::write, and the histories.
Access(a, isWrite) ==
  LET s   == SetOf(geom, a)
      tag == TagOf(geom, a)
  IN  /\ stats.accesses < MaxAccesses
      /\ \E r \in LookupAndFill(geom, sets, a, isWrite) :
           /\ sets' = [sets EXCEPT ![s] = r.set]
           /\ stats' = Counted(stats, r)
           /\ fills' = IF r.hit THEN fills ELSE [fills EXCEPT ![s] = Append(@, tag)]
      /\ recent' = [recent EXCEPT ![s] = Latest(@, tag)]
      /\ dirtied' = dirtied + Ones(isWrite /\ ~WasDirty(s, tag))
      /\ UNCHANGED geom

\* The caller makes no more accesses.
Ended == stats.accesses = MaxAccesses /\ UNCHANGED vars

Next == (\E a \in Address, isWrite \in BOOLEAN : Access(a, isWrite)) \/ Ended

Spec == Init /\ [][Next]_vars

-----------------------------------------------------------------------------
(* Properties.                                                             *)

\* lookup_and_fill never caches a line twice: no two valid ways of a set hold
\* the same tag, under any policy and any mix of hits, fills and evictions.
NoDuplicateTags ==
  \A s \in SetIdx(geom) : \A v, w \in Way(geom) :
    /\ Valid(sets[s], v) /\ Valid(sets[s], w)
    /\ sets[s].lines[v].tag = sets[s].lines[w].tag
    => v = w

\* The policy's list is in step with the lines: LRU lists every way once, FIFO
\* queues exactly the valid ways, once each, so "FIFO queue is empty but cache
\* is full" is never thrown.
OrderMatchesLines ==
  \A s \in SetIdx(geom) :
    LET q == sets[s].order
    IN  /\ geom.policy = "LRU" => ToSet(q) = Way(geom) /\ Len(q) = geom.ways
        /\ geom.policy = "FIFO" =>
             /\ ToSet(q) = {w \in Way(geom) : Valid(sets[s], w)}
             /\ Len(q) = Cardinality(ToSet(q))

CachedTags(s) == {sets[s].lines[w].tag : w \in {v \in Way(geom) : Valid(sets[s], v)}}
FirstOf(q, n) == {q[i] : i \in {j \in DOMAIN q : j <= n}}
LastOf(q, n) == {q[i] : i \in {j \in DOMAIN q : j > Len(q) - n}}

\* LRUPolicy, against its definition: a set holds the tags used most recently.
HoldsMostRecent ==
  geom.policy = "LRU" =>
    \A s \in SetIdx(geom) : CachedTags(s) = FirstOf(recent[s], geom.ways)

\* FIFOPolicy, against its definition: a set holds the tags filled last.
HoldsLatestFills ==
  geom.policy = "FIFO" =>
    \A s \in SetIdx(geom) : CachedTags(s) = LastOf(fills[s], geom.ways)

\* The lines, as pairs of a set and a way, that are valid and dirty.
DirtyLines ==
  {l \in SetIdx(geom) \X Way(geom) :
     Valid(sets[l[1]], l[2]) /\ sets[l[1]].lines[l[2]].dirty}

\* No write-back is lost or invented: every line that became dirty is still
\* cached and dirty or was counted as a dirty eviction.
WritebacksConserved == dirtied = stats.dirtyEvictions + Cardinality(DirtyLines)
=============================================================================
