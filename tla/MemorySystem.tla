---------------------------- MODULE MemorySystem ----------------------------
(***************************************************************************)
(* The memory hierarchy (src/src/memory/memory_system.cpp) under the warp  *)
(* memory instructions of several SMs: each SM has a shared memory and an  *)
(* L1, all share the L2 and the global memory.  One instruction is carried *)
(* out in the order of the code, one step per cache transaction and one    *)
(* per lane:                                                               *)
(*                                                                         *)
(*   idle --> transactions --> lanes --> idle    (shared: idle --> lanes)  *)
(*                                                                         *)
(* SMs are ticked one after the other, so an instruction is never          *)
(* interleaved with one of another SM; which SM is next is open.           *)
(***************************************************************************)
EXTENDS CacheLogic

CONSTANTS
  NumSMs, L1, L2,          \* the SMs, and the geometries of the caches
  SharedLatency, L1Latency, L2Latency, GlobalLatency, WritebackLatency,
  GlobalSize, SharedSize,  \* words of global and of shared memory
  SharedBase,              \* MemorySystem::SHARED_MEM_BASE
  NumBanks,                \* SharedMemory::num_banks_
  Request,                 \* the instructions issued: op, addrs, vals by lane
  MaxInstructions          \* bound: instructions in one run

ASSUME MemoryAssumption ==
  /\ NumSMs \in Nat \ {0} /\ L1 \in Geometry /\ L2 \in Geometry
  /\ \A x \in {SharedLatency, L1Latency, L2Latency, GlobalLatency, WritebackLatency,
               GlobalSize, SharedSize, MaxInstructions} : x \in Nat
  /\ NumBanks \in Nat \ {0} /\ SharedBase \in Nat /\ GlobalSize <= SharedBase
  /\ Request # {}
  /\ \A r \in Request : /\ r.op \in {"LOAD", "STORE", "ATOMIC_ADD"}
                        /\ r.addrs \in Seq(Nat) \ {<<>>}
                        /\ r.vals \in Seq(Int) /\ Len(r.vals) = Len(r.addrs)

VARIABLES
  l1, l1stats,      \* l1_cache_ of each SM
  l2, l2stats,      \* the GPU's l2_cache_
  global, shared,   \* global_memory_, and the shared_memory_ of each SM
  phase,            \* where the instruction is
  sm, req,          \* the SM and the instruction being executed
  pending,          \* the line addresses still to be accessed
  latency, dirty,   \* max_latency and total_dirty_evictions so far
  lane,             \* lanes done so far
  values,           \* out_values of a LOAD, by lane
  result,           \* WarpMemoryResult of the last instruction
  counters,         \* the SMs' memory counters, added up as in a sweep
  before,           \* history: global and shared when the instruction began
  spent,            \* history: the latencies of all transactions, added up
  done              \* instructions completed

caches == <<l1, l1stats, l2, l2stats>>
memories == <<global, shared>>
vars == <<caches, memories, phase, sm, req, pending, latency, dirty, lane, values,
          result, counters, before, spent, done>>

SMs == 1..NumSMs
IsShared(a) == a >= SharedBase

Init ==
  /\ l1 = [s \in SMs |-> EmptyCache(L1)] /\ l1stats = [s \in SMs |-> ZeroStats]
  /\ l2 = EmptyCache(L2) /\ l2stats = ZeroStats
  /\ global = [a \in 0..GlobalSize-1 |-> 0]
  /\ shared = [s \in SMs |-> [a \in 0..SharedSize-1 |-> 0]]
  /\ phase = "idle" /\ sm = 1 /\ req = CHOOSE r \in Request : TRUE
  /\ pending = {} /\ latency = 0 /\ dirty = 0 /\ lane = 0 /\ values = <<>>
  /\ result = [latency |-> 0, transactions |-> 0, conflicts |-> 0, dirty |-> 0]
  /\ counters = [instructions |-> 0, transactions |-> 0, conflicts |-> 0, dirty |-> 0]
  /\ before = <<global, shared>> /\ spent = 0 /\ done = 0

-----------------------------------------------------------------------------
\* Mutant of Coalesce: one transaction for every address.
CoalesceNothing(addrs) == ToSet(addrs)

\* MemoryCoalescer::coalesce: the lines touched, by their first address.
Coalesce(addrs) == {(a \div L1.lineSize) * L1.lineSize : a \in ToSet(addrs)}

Word(a) == (a - SharedBase) \div 4
BankWords(addrs, b) == {v \in {Word(a) : a \in ToSet(addrs)} : v % NumBanks = b}

\* Mutant of BankConflicts: two lanes that read one word conflict.
BankConflictsByLane(addrs) ==
  Max({Cardinality({i \in DOMAIN addrs : Word(addrs[i]) % NumBanks = b}) :
         b \in 0..NumBanks-1}) - 1

\* SharedMemory::compute_bank_conflicts: the fullest bank, less one.
BankConflicts(addrs) ==
  Max({Cardinality(BankWords(addrs, b)) : b \in 0..NumBanks-1}) - 1

\* The executor's write_conflict_stalls: the lanes on the most popular address,
\* less one.
WriteConflicts(r) ==
  IF r.op = "LOAD" THEN 0
  ELSE Max({Cardinality({i \in DOMAIN r.addrs : r.addrs[i] = a}) : a \in ToSet(r.addrs)}) - 1

Mixed(addrs) == \E a \in ToSet(addrs) : IsShared(a) # IsShared(addrs[1])

-----------------------------------------------------------------------------
\* warp_load, warp_store or warp_atomic_add is called by SM s.
Begin(s, r) ==
  /\ phase = "idle" /\ done < MaxInstructions
  /\ sm' = s /\ req' = r /\ lane' = 0 /\ dirty' = 0
  /\ values' = [i \in DOMAIN r.addrs |-> 0]
  /\ before' = <<global, shared>>
  /\ \/ /\ Mixed(r.addrs) /\ phase' = "thrown"
        /\ UNCHANGED <<pending, latency>>
     \/ /\ ~Mixed(r.addrs) /\ IsShared(r.addrs[1]) /\ phase' = "lanes"
        /\ pending' = {} /\ latency' = SharedLatency
     \/ /\ ~Mixed(r.addrs) /\ ~IsShared(r.addrs[1]) /\ phase' = "transactions"
        /\ pending' = Coalesce(r.addrs) /\ latency' = 1
  /\ UNCHANGED <<caches, memories, result, counters, spent, done>>

IsWrite == req.op # "LOAD"

\* Mutant of AccessLatency: the write-back of an evicted dirty line is free.
AccessLatencyNoWriteback(r1, r2) ==
  L1Latency + (IF r1.hit THEN 0 ELSE L2Latency + (IF r2.hit THEN 0 ELSE GlobalLatency))

\* read_latency and write_latency, of an access with outcome r1 in L1 and, on a
\* miss, r2 in L2.
AccessLatency(r1, r2) ==
  L1Latency + (IF r1.hit THEN 0 ELSE L2Latency + (IF r2.hit THEN 0 ELSE GlobalLatency))
            + (IF r1.dirtyEviction THEN WritebackLatency ELSE 0)

\* An L1 miss reads the line from L2, also when it was a write.
FillsFromL2(r1) == ~r1.hit

\* Mutant of L2Write: the line is written to L2 as well.
L2WriteThrough == IsWrite

\* L2 is only ever read: dirty L1 lines cost writeback_latency and go nowhere.
L2Write == FALSE

\* The next line, in ascending order, goes through the caches.
Transaction ==
  LET line == Min(pending)
  IN  /\ phase = "transactions"
      /\ \E r1 \in LookupAndFill(L1, l1[sm], line, IsWrite) :
         \E r2 \in LookupAndFill(L2, l2, line, L2Write) :
           /\ l1' = [l1 EXCEPT ![sm][SetOf(L1, line)] = r1.set]
           /\ l1stats' = [l1stats EXCEPT ![sm] = Counted(@, r1)]
           /\ IF FillsFromL2(r1)
              THEN /\ l2' = [l2 EXCEPT ![SetOf(L2, line)] = r2.set]
                   /\ l2stats' = Counted(l2stats, r2)
              ELSE UNCHANGED <<l2, l2stats>>
           /\ latency' = Max({latency, AccessLatency(r1, r2)})
           /\ spent' = spent + AccessLatency(r1, r2)
           /\ dirty' = dirty + Ones(r1.dirtyEviction)
      /\ pending' = pending \ {line}
      /\ phase' = IF pending' = {} THEN "lanes" ELSE "transactions"
      /\ UNCHANGED <<memories, sm, req, lane, values, result, counters, before, done>>

\* The lane that is next, its address, and the cell the code indexes.
NextLane == lane + 1
Addr == req.addrs[NextLane]
Local(a) == IF IsShared(a) THEN a - SharedBase ELSE a
Cells == IF IsShared(Addr) THEN shared[sm] ELSE global

\* Mutant of Written: a warp's atomic additions all start from the value that
\* the instruction found.
WrittenFromStart ==
  CASE req.op = "STORE" -> req.vals[NextLane]
    [] req.op = "ATOMIC_ADD" ->
         (IF IsShared(Addr) THEN before[2][sm] ELSE before[1])[Local(Addr)] + req.vals[NextLane]
    [] req.op = "LOAD" -> Cells[Local(Addr)]

\* What the lane leaves in its cell.
Written ==
  CASE req.op = "STORE" -> req.vals[NextLane]
    [] req.op = "ATOMIC_ADD" -> Cells[Local(Addr)] + req.vals[NextLane]
    [] req.op = "LOAD" -> Cells[Local(Addr)]

\* One lane loads, stores or adds.
LaneAccess ==
  /\ phase = "lanes" /\ lane < Len(req.addrs) /\ Local(Addr) \in DOMAIN Cells
  /\ lane' = NextLane
  /\ values' = IF req.op = "LOAD" THEN [values EXCEPT ![NextLane] = Cells[Local(Addr)]] ELSE values
  /\ IF IsShared(Addr)
     THEN shared' = [shared EXCEPT ![sm][Local(Addr)] = Written] /\ UNCHANGED global
     ELSE global' = [global EXCEPT ![Addr] = Written] /\ UNCHANGED shared
  /\ UNCHANGED <<caches, phase, sm, req, pending, latency, dirty, result, counters,
                 before, spent, done>>

\* "address out of bounds": the lanes before this one have had their effect.
LaneThrow ==
  /\ phase = "lanes" /\ lane < Len(req.addrs) /\ Local(Addr) \notin DOMAIN Cells
  /\ phase' = "thrown"
  /\ UNCHANGED <<caches, memories, sm, req, pending, latency, dirty, lane, values,
                 result, counters, before, spent, done>>

\* The WarpMemoryResult, with the conflict stalls of the executor.
ResultOf(r) ==
  LET inShared == IsShared(r.addrs[1])
      n        == IF inShared THEN Len(r.addrs) ELSE Cardinality(Coalesce(r.addrs))
      banks    == IF inShared THEN BankConflicts(r.addrs) ELSE 0
  IN  [latency |-> latency + (IF inShared THEN banks ELSE n - 1) + WriteConflicts(r),
       transactions |-> n, conflicts |-> banks, dirty |-> dirty]

\* All lanes are served: the result goes to the SM, which counts it.
Return ==
  /\ phase = "lanes" /\ lane = Len(req.addrs)
  /\ phase' = "idle" /\ done' = done + 1
  /\ result' = ResultOf(req)
  /\ counters' = [instructions |-> counters.instructions + 1,
                  transactions |-> counters.transactions + result'.transactions,
                  conflicts |-> counters.conflicts + result'.conflicts,
                  dirty |-> counters.dirty + result'.dirty]
  /\ UNCHANGED <<caches, memories, sm, req, pending, latency, dirty, lane, values,
                 before, spent>>

Ended ==
  (phase = "thrown" \/ (phase = "idle" /\ done = MaxInstructions)) /\ UNCHANGED vars

Next ==
  \/ \E s \in SMs, r \in Request : Begin(s, r)
  \/ Transaction \/ LaneAccess \/ LaneThrow \/ Return \/ Ended

Spec == Init /\ [][Next]_vars

-----------------------------------------------------------------------------
(* Properties.                                                             *)

\* The lanes done so far that address a.
Hitting(a) == {i \in 1..lane : req.addrs[i] = a}

\* What the first n lanes add to the cell of address a.
Added(r, a) ==
  LET sum[n \in 0..Len(r.addrs)] ==
        IF n = 0 THEN 0 ELSE sum[n-1] + (IF r.addrs[n] = a THEN r.vals[n] ELSE 0)
  IN  sum

\* What a cell holds after the lanes done so far, from what it held before: a
\* store leaves the value of the highest lane, atomic additions all count.
Expected(a, old) ==
  CASE req.op = "LOAD" -> old
    [] req.op = "STORE" -> IF Hitting(a) = {} THEN old ELSE req.vals[Max(Hitting(a))]
    [] req.op = "ATOMIC_ADD" -> old + Added(req, a)[lane]

\* At every point, and after a throw in the middle of a warp, the memories are
\* exactly what the lanes served so far make of them: no lost update when
\* lanes collide, no effect of a lane after the one that threw, and nothing at
\* all changed by an instruction with mixed address spaces.
MemoryMatchesLanes ==
  /\ \A a \in DOMAIN global : global[a] = Expected(a, before[1][a])
  /\ \A s \in SMs : \A a \in DOMAIN shared[s] :
       shared[s][a] = IF s = sm THEN Expected(a + SharedBase, before[2][s][a])
                                ELSE before[2][s][a]

\* Statistic f of all L1s, added up by counting.
Sum1(f) == Cardinality(UNION {{s} \X (1..l1stats[s][f]) : s \in SMs})

\* The L2 is accessed once for each L1 miss of any SM, and holds no dirty line.
L2SeesOnlyMisses ==
  /\ l2stats.accesses = Sum1("misses")
  /\ \A s \in SetIdx(L2) : \A w \in Way(L2) : ~l2[s].lines[w].dirty

\* SweepEngine's amat (and compute_amat for one SM), multiplied by the number
\* of L1 accesses and of L2 accesses.
AmatTimesAccesses ==
  LET a1 == Sum1("hits") + Sum1("misses")
      a2 == l2stats.hits + l2stats.misses
  IN  (L1Latency * a1 + Sum1("misses") * L2Latency + counters.dirty * WritebackLatency) * a2
      + Sum1("misses") * l2stats.misses * GlobalLatency

\* The AMAT that is computed from the final statistics is the true average of
\* the latencies of all transactions, whichever SMs they came from.
AmatIsExact ==
  phase = "idle" => spent * (l2stats.hits + l2stats.misses) = AmatTimesAccesses

\* A set of aligned lines that covers the addresses.
Covers(S, addrs) == \A a \in ToSet(addrs) : \E b \in S : b <= a /\ a < b + L1.lineSize

\* The coalescer makes as few transactions as aligned lines allow.
TransactionsMinimal ==
  phase = "idle" /\ done > 0 /\ ~IsShared(req.addrs[1]) =>
    LET lines == {b * L1.lineSize : b \in 0..Max(ToSet(req.addrs))}
    IN  /\ \E S \in SUBSET lines : Covers(S, req.addrs) /\ Cardinality(S) = result.transactions
        /\ \A S \in SUBSET lines : Covers(S, req.addrs) => result.transactions <= Cardinality(S)

\* The words can be read in n rounds, no round with two words of a bank.
ReadInRounds(words, n) ==
  \E round \in [words -> 1..n] : \A v, w \in words :
    v # w /\ v % NumBanks = w % NumBanks => round[v] # round[w]

\* The bank conflicts charged are the rounds beyond the first that the banks
\* need, when lanes that read one word share its round (broadcast).
ConflictsAreExtraRounds ==
  phase = "idle" /\ done > 0 /\ IsShared(req.addrs[1]) =>
    LET words == {Word(a) : a \in ToSet(req.addrs)}
    IN  /\ ReadInRounds(words, result.conflicts + 1)
        /\ ~ReadInRounds(words, result.conflicts)
=============================================================================
