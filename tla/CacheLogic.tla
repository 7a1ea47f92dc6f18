----------------------------- MODULE CacheLogic -----------------------------
(***************************************************************************)
(* The set-associative write-back cache (src/src/memory/cache.cpp) and its *)
(* replacement policies as operators.  A cache holds no data: it decides   *)
(* hits, evictions and write-backs, and with them the latency.             *)
(*                                                                         *)
(* A geometry g is the constructor's arguments; one set of a cache is a    *)
(* record of its lines and of its policy's list, lru_list_ or fifo_queue_. *)
(* RandomPolicy may choose any way, so an access has a set of outcomes.    *)
(***************************************************************************)
EXTENDS Integers, Sequences, FiniteSets, SequencesExt

Geometry == [sets : Nat \ {0}, ways : Nat \ {0}, lineSize : Nat \ {0},
             policy : {"LRU", "FIFO", "Random"}]

SetIdx(g) == 0..g.sets-1
Way(g) == 0..g.ways-1

\* The address arithmetic of lookup_and_fill.
SetOf(g, a) == (a \div g.lineSize) % g.sets

TagOf(g, a) == (a \div g.lineSize) \div g.sets

EmptyLine == [valid |-> FALSE, tag |-> 0, dirty |-> FALSE]

\* LRUPolicy starts with all ways in its list, FIFOPolicy with an empty queue.
FreshOrder(g) == IF g.policy = "LRU" THEN [i \in 1..g.ways |-> i - 1] ELSE <<>>

EmptySet(g) == [lines |-> [w \in Way(g) |-> EmptyLine], order |-> FreshOrder(g)]
EmptyCache(g) == [s \in SetIdx(g) |-> EmptySet(g)]

Valid(set, w) == set.lines[w].valid
Holds(set, w, tag) == Valid(set, w) /\ set.lines[w].tag = tag

-----------------------------------------------------------------------------
(* The policies: choose_victim when every way is valid, and on_access.     *)

LruVictim(set, w) == w = set.order[Len(set.order)]
FifoVictim(set, w) == w = set.order[1]

\* erase and push_front: x goes to the front, what was before it one place back.
MovedToFront(q, x) ==
  [i \in DOMAIN q |-> IF i = 1 THEN x
                      ELSE IF \E j \in i..Len(q) : q[j] = x THEN q[i-1] ELSE q[i]]

\* Mutant of LruAccessed: a hit leaves the list alone.
LruAccessedNever(q, w) == q

\* LRUPolicy::on_access moves the way to the front.
LruAccessed(q, w) == IF w \in ToSet(q) THEN MovedToFront(q, w) ELSE q

\* Mutant of FifoAccessed: a way is queued at every access.
FifoAccessedAgain(q, w) == Append(q, w)

\* Mutant of FifoAccessed: a hit makes a line young again.
FifoAccessedRefreshes(q, w) == Append(SelectSeq(q, LAMBDA v : v # w), w)

\* FIFOPolicy::on_access queues the way unless it is in the queue (in_queue_).
FifoAccessed(q, w) == IF w \in ToSet(q) THEN q ELSE Append(q, w)

Accessed(g, q, w) ==
  CASE g.policy = "LRU" -> LruAccessed(q, w)
    [] g.policy = "FIFO" -> FifoAccessed(q, w)
    [] g.policy = "Random" -> q

FreeWays(g, set) == {w \in Way(g) : ~Valid(set, w)}

\* choose_victim: the first invalid way, else what the policy says.
Victim(g, set, w) ==
  IF FreeWays(g, set) # {}
  THEN w \in FreeWays(g, set) /\ \A v \in FreeWays(g, set) : w <= v
  ELSE CASE g.policy = "LRU" -> LruVictim(set, w)
         [] g.policy = "FIFO" -> FifoVictim(set, w)
         [] g.policy = "Random" -> w \in Way(g)

\* choose_victim pops the FIFO queue when it evicts.
AfterChoice(g, set) ==
  IF g.policy = "FIFO" /\ FreeWays(g, set) = {} THEN Tail(set.order) ELSE set.order

-----------------------------------------------------------------------------
(* Cache::lookup_and_fill.                                                 *)

\* Mutant of HitLine: the dirty bit follows the last access.
HitLineLast(l, isWrite) == [l EXCEPT !.dirty = isWrite]

\* The line after a hit: a write makes it dirty, a read leaves it as it is.
HitLine(l, isWrite) == [l EXCEPT !.dirty = @ \/ isWrite]

\* The set after a hit in way w.
HitSet(g, set, w, isWrite) ==
  [lines |-> [set.lines EXCEPT ![w] = HitLine(@, isWrite)],
   order |-> Accessed(g, set.order, w)]

\* The set after a miss that fills way w (write-allocate).
FilledSet(g, set, w, tag, isWrite) ==
  [lines |-> [set.lines EXCEPT ![w] = [valid |-> TRUE, tag |-> tag, dirty |-> isWrite]],
   order |-> Accessed(g, AfterChoice(g, set), w)]

\* Mutant of HitWays: only the first way is searched.
HitWaysFirst(g, set, tag) == {w \in Way(g) : w = 0 /\ Holds(set, w, tag)}

HitWays(g, set, tag) == {w \in Way(g) : Holds(set, w, tag)}

Evicts(set, w) == Valid(set, w)

\* What an access to a set may do: the first way that holds the tag is hit,
\* or a victim is filled.
SetOutcomes(g, set, tag, isWrite) ==
  IF HitWays(g, set, tag) # {}
  THEN {[hit |-> TRUE, eviction |-> FALSE, dirtyEviction |-> FALSE,
         set |-> HitSet(g, set, w, isWrite)] :
          w \in {v \in HitWays(g, set, tag) : \A u \in HitWays(g, set, tag) : v <= u}}
  ELSE {[hit |-> FALSE, eviction |-> Evicts(set, w),
         dirtyEviction |-> Evicts(set, w) /\ set.lines[w].dirty,
         set |-> FilledSet(g, set, w, tag, isWrite)] :
          w \in {v \in Way(g) : Victim(g, set, v)}}

\* Cache::access (a read) and Cache::write, on cache c.
LookupAndFill(g, c, a, isWrite) ==
  SetOutcomes(g, c[SetOf(g, a)], TagOf(g, a), isWrite)

ZeroStats == [accesses |-> 0, hits |-> 0, misses |-> 0, evictions |-> 0,
              dirtyEvictions |-> 0]

Ones(b) == IF b THEN 1 ELSE 0

\* CacheStats after an access with outcome r.
Counted(stats, r) ==
  [accesses |-> stats.accesses + 1,
   hits |-> stats.hits + Ones(r.hit), misses |-> stats.misses + Ones(~r.hit),
   evictions |-> stats.evictions + Ones(r.eviction),
   dirtyEvictions |-> stats.dirtyEvictions + Ones(r.dirtyEviction)]
=============================================================================
