--------------------------- MODULE WarpScheduler ---------------------------
(***************************************************************************)
(* The six warp scheduling policies (src/src/scheduling).  Each policy's   *)
(* select_warp is a predicate Selects...(w) on the ready warps of the SM   *)
(* and an update of the scheduler's own fields.  A warp is named by its    *)
(* position in the grid; the vector SM::warps_ holds the resident warps in *)
(* that order, since blocks are admitted in grid order at its end and the  *)
(* erase of a released block keeps the order of the rest.                  *)
(***************************************************************************)
EXTENDS Integers, Sequences, FiniteSets, SequencesExt

CONSTANTS
  Warp,           \* the warps of the grid, numbered in grid order
  WarpId,         \* Warp::warp_id_, counted from 0 inside each block
  Priority,       \* Warp::priority_
  ActiveSetSize   \* SystemConfig::active_set_size of the TwoLevel policy

\* std::numeric_limits<int>::lowest(), below which no priority is.
LowestInt == -2147483647 - 1

ASSUME SchedulerAssumption ==
  /\ Warp \subseteq Nat /\ IsFiniteSet(Warp)
  /\ WarpId \in [Warp -> Nat]
  /\ Priority \in [Warp -> Int] /\ \A w \in Warp : Priority[w] >= LowestInt
  /\ ActiveSetSize \in Nat

VARIABLES
  policy,         \* SystemConfig::scheduler_policy
  warps,          \* SM::warps_, as the set of resident warps
  state,          \* Warp::state_
  readySince,     \* Warp::ready_since_cycle_
  sched           \* the fields of the scheduler object

Policy == {"RR", "Greedy", "Priority", "OldestFirst", "GTO", "TwoLevel"}

NoId == -1        \* static_cast<size_t>(-1), GTO's "no warp issued"

\* The fields of the scheduler objects.
\* next: next_warp_index_ (RR, Priority); last: last_issued_warp_id_ (GTO);
\* active and rr: active_warp_ids_ and rr_index_ (TwoLevel).
Scheduler == [next : Nat, last : Nat \cup {NoId}, active : Seq(Nat), rr : Nat]
FreshScheduler == [next |-> 0, last |-> NoId, active |-> <<>>, rr |-> 0]

Ready == {w \in warps : state[w] = "Ready"}

\* The index of w in the vector warps_.
Position(w) == Cardinality({u \in warps : u < w})

\* How many places after next_warp_index_ the round-robin scan meets w.
Turn(w) == (Position(w) - sched.next) % Cardinality(warps)

SelectsGreedy(w) == \A u \in Ready : w <= u

\* Mutant of SelectsRoundRobin: the scan stops one warp early.
SelectsRoundRobinShort(w) ==
  Turn(w) < Cardinality(warps) - 1 /\ \A u \in Ready : Turn(w) <= Turn(u)

SelectsRoundRobin(w) == \A u \in Ready : Turn(w) <= Turn(u)

\* The scan starts at next_warp_index_ with the lowest int and replaces it only by
\* a greater priority, so a warp of the lowest priority is never selected.
SelectsPriority(w) ==
  /\ Priority[w] > LowestInt
  /\ \A u \in Ready : \/ Priority[u] < Priority[w]
                      \/ Priority[u] = Priority[w] /\ Turn(w) <= Turn(u)

\* Longer ready, then the smaller id.
Older(u, v) == \/ readySince[u] < readySince[v]
               \/ readySince[u] = readySince[v] /\ WarpId[u] < WarpId[v]

\* The first of the oldest in the order of the vector.
SelectsOldest(w) ==
  \A u \in Ready \ {w} : Older(w, u) \/ (~Older(u, w) /\ w < u)

\* The first ready warp with the id issued last, else the oldest.
SelectsGTO(w) ==
  LET again == {u \in Ready : WarpId[u] = sched.last}
  IN  IF again # {} THEN w \in again /\ \A u \in again : w <= u
                    ELSE SelectsOldest(w)

-----------------------------------------------------------------------------
(* TwoLevel: update_active_set, then round robin inside the active set.    *)

\* Step 1 keeps an id while the first warp of the vector that bears it is
\* unfinished; a warp that waits at a barrier or for memory keeps its place.
KeepsPlace(id) ==
  \E w \in warps : /\ WarpId[w] = id /\ state[w] # "Completed"
                   /\ \A u \in warps : WarpId[u] = id => w <= u

\* The loop of std::remove_if over active_warp_ids_.
Kept ==
  LET scan[i \in 0..Len(sched.active)] ==
        IF i = 0 THEN <<>>
        ELSE LET k == scan[i-1]
             IN  IF KeepsPlace(sched.active[i]) THEN Append(k, sched.active[i]) ELSE k
  IN  scan[Len(sched.active)]

\* u comes before w when warps are sorted by age (warps that tie bear one id,
\* so their order does not show in the ids).
Before(u, w) == Older(u, w) \/ (~Older(w, u) /\ u < w)

\* The place of w when S is sorted by age.
AgeRank(w, S) == Cardinality({u \in S : Before(u, w)})

\* Step 2 fills the free places with the ids of the oldest ready warps.
ActiveSet ==
  LET kept       == Kept
      candidates == {w \in Ready : WarpId[w] \notin ToSet(kept)}
      admitted   == {w \in candidates :
                       Len(kept) + AgeRank(w, candidates) < ActiveSetSize}
  IN  kept \o [i \in 1..Cardinality(admitted) |->
                 WarpId[CHOOSE w \in admitted : AgeRank(w, candidates) = i - 1]]

\* The id the scan of the active set ids meets after i others.
Scanned(ids, i) == ids[((sched.rr + i) % Len(ids)) + 1]

\* The number of ids the scan passes before it finds w.
ScanFinds(ids, w, i) ==
  /\ Scanned(ids, i) = WarpId[w]
  /\ \A j \in 0..i-1, u \in Ready : WarpId[u] # Scanned(ids, j)

SelectsTwoLevel(w) ==
  LET ids == ActiveSet
  IN  /\ \E i \in 0..Len(ids)-1 : ScanFinds(ids, w, i)
      /\ \A u \in Ready : WarpId[u] = WarpId[w] => w <= u

-----------------------------------------------------------------------------
\* WarpScheduler::select_warp returns w.
Selects(w) ==
  /\ w \in Ready
  /\ \/ policy = "Greedy" /\ SelectsGreedy(w)
     \/ policy = "RR" /\ SelectsRoundRobin(w)
     \/ policy = "Priority" /\ SelectsPriority(w)
     \/ policy = "OldestFirst" /\ SelectsOldest(w)
     \/ policy = "GTO" /\ SelectsGTO(w)
     \/ policy = "TwoLevel" /\ SelectsTwoLevel(w)

\* Mutant of NextIndex: the index stays on the issued warp.
NextIndexSame(w) == Position(w)

NextIndex(w) == (Position(w) + 1) % Cardinality(warps)

\* The scheduler's fields after it returned w.
SchedAfter(w) ==
  CASE policy \in {"RR", "Priority"} -> [sched EXCEPT !.next = NextIndex(w)]
    [] policy = "GTO" -> [sched EXCEPT !.last = WarpId[w]]
    [] policy = "TwoLevel" ->
         LET ids == ActiveSet
             i   == CHOOSE k \in 0..Len(ids)-1 : ScanFinds(ids, w, k)
         IN  [sched EXCEPT !.active = ids, !.rr = (sched.rr + i + 1) % Len(ids)]
    [] OTHER -> sched

\* The scheduler's fields after it returned nullptr.
SchedIdle ==
  CASE policy = "GTO" -> [sched EXCEPT !.last = NoId]
    [] policy = "TwoLevel" -> [sched EXCEPT !.active = ActiveSet]
    [] OTHER -> sched
=============================================================================
