# A verification project for SIM-SM

SIM-SM simulates a CUDA-like GPU cycle by cycle. The host program is a single
thread; what makes it hard is what it simulates: many warps interleaved by a
scheduler, divergence inside a warp, block barriers, blocks that come and go on
several SMs, caches shared by the SMs. The modules here model these parts from
the C++ source, TLC checks them on small instances, and TLAPS proves the safety
properties of the SM, the dispatcher, the caches, the memory system and the
analysis for every instance; only those of the benchmark kernels are left to TLC.

Paths below are those of the repository (`src/...`, `include/...`).

## 1. Inventory

| Component | State | Operations | Interacts with |
|---|---|---|---|
| SM (`architecture/sm.cpp`) | resident blocks, warps, five allocated totals, counters | `tick`, `handle_barrier_arrival`, `allocate_block`, `release_completed_blocks`, `clear_warps` | ticked by GPU; calls scheduler, executor, memory |
| Warp, executor (`warp.cpp`, `instruction_executor.cpp`) | pc, active mask, SIMT stack, reconvergence pc, predicates, registers, stall counter, wait counter | one per opcode; `tick_stall`, `check_and_set_starvation` | called by `SM::tick` |
| Schedulers (`scheduling/*`) | an index, the id issued last, or a list of active ids | `select_warp` | reads the warps' states; called once per tick |
| GPU (`gpu.cpp`) | next pending block, SMs, L2 | `launch_kernel`, `run_to_completion` | drives all SMs |
| Memory system, coalescer, shared and global memory (`memory/*`) | cells, L1 per SM, one L2 | `warp_load`, `warp_store`, `warp_atomic_add` | called by the executor; latency goes back to the SM |
| Cache, LRU / FIFO / Random policies | lines, order of use or of filling, statistics | `access` (`lookup_and_fill`) | L1 misses go to L2 |
| Occupancy (`occupancy.cpp`) | none | `compute` | predicts what the dispatcher does |
| Benchmarks (`runtime/benchmarks.cpp`) | kernels, grids, CPU references | `generate_*`, `build_*`, `run_*` | launch on a GPU, compare the output |
| Sweep engine, analyzer, report (`analysis/*`) | configurations, results, diagnoses | `generate_configurations`, `run_sweep`, `analyze`, `generate_markdown_report` | a GPU per configuration; occupancy calculator |
| Counters, trace, config, flat memory, main | statistics and text | | written by the SM, read afterwards |

What is hard in this code: the order in which warps reach barriers; warps that
never reach one; a SIMT stack whose entries are recognised by their target pc
alone; scheduler state that refers to warps by id or index while warps are
erased and ids repeat in every block; totals kept incrementally; an exception
halfway through a loop over SMs or lanes, followed by another launch; rounding
in two computations that must agree; conclusions drawn from runs that differ in
more than one parameter. `PROJECT.json` lists these hazards at their
lines with the properties aimed at them.

What makes each component correct:

- SM: no warp passes a barrier before its block has reached it; a dispatched
  block stays until its warps are done; a run ends.
- Executor: every lane executes the program it would execute alone.
- Schedulers: a ready warp is found when there is one; waits are bounded and
  counted correctly.
- GPU: every block is dispatched once and completes; totals never drift.
- Memory: cells hold what the lanes wrote in lane order; latencies, transactions
  and AMAT are what the cache behaviour implies.
- Cache: no tag twice in a set, the policies evict what they say, no dirty line
  is lost.
- Occupancy: the prediction is what the dispatcher reaches.
- Benchmarks: the output equals the CPU reference in every order of warps.
- Analysis: the configurations are the product of the lists; a bottleneck is named
  only with evidence; a causal claim rests on runs that differ in one parameter.

## 2. Modules

| Module | Models | Uses |
|---|---|---|
| `Barrier` | the abstract block barrier (no code): arrive, release, exit | |
| `Admission` | the five resources, whether they fit, their sum | |
| `Resources` | `can_admit`, allocation and release of a block | `Admission` |
| `WarpScheduler` | the six `select_warp` | |
| `SIMT` | a warp's control flow: CMP, BRANCH, SSY, SYNC, end of a path | |
| `SM` | `run_to_completion` on one SM: phase 1 and both halves of `tick` | `WarpScheduler`, `Resources`, `SIMT`; implements `Barrier` |
| `GPU` | `launch_kernel` and `run_to_completion` over several SMs | `Resources` |
| `CacheLogic`, `Cache` | `lookup_and_fill` with its policies; a cache on its own | |
| `MemorySystem` | warp-level memory instructions of several SMs over L1s and the L2 | `CacheLogic` |
| `Occupancy` | `OccupancyCalculator::compute` | `Admission` |
| `Analysis` | the analyzer's scores, evidence, diagnosis and validation | |
| `Sweep` | an analysis from the parameter space to the recommendations | `Occupancy`, `Admission`, `Analysis` |
| `Kernels` | the five benchmark kernels, grids, inputs and references | |
| `Execution` | the executor with registers and memory, any ready warp next | `SIMT` |
| `MC*` | instances for TLC | |
| `NatLemmas` | least and greatest numbers, sequences given by their next member, quotients and remainders, first members of finite orders | |
| `SIMTProofs`, `SchedulerProofs`, `SMProofs` | theorems about `SIMT`, `WarpScheduler` and `SM` | `NatLemmas` |
| `GPUProofs` | theorems about `GPU` | |
| `CacheProofs` | theorems about `CacheLogic` and `Cache` | |
| `MemoryProofs` | theorems about `MemorySystem` | `NatLemmas` |
| `SweepProofs` | theorems about `Occupancy`, `Analysis` and `Sweep` | `NatLemmas` |

Operators named "Mutant of X" in a comment are plausible mistakes in X. They are
not used by any specification; replacing X by one must make TLC report the
property it is listed with in `PROJECT.json`.

Sums over a set of blocks, warps or SMs (`Held`, `WaitOf`, `Sum1`) are written as
the number of pairs of a member and one of its units: the same number as a fold, and
one that the theorems about finite sets apply to. For the same reason the nested
loops of `generate_configurations` are five stages in which member k of the result
is given by quotient and remainder of k, the list operations of LRU
(`MovedToFront`) say where each member goes, and the loops that keep ids in
TwoLevel's active set (`Kept`) or pick the best result (`Best`) are functions of the
number of rounds.

### How the models correspond to the code

**SM.** The host loop is sequential, so its position is the variable `phase`.
`ReleaseBlocks` and `AdmitBlock`/`AdmitStop`/`AdmitThrow` are phase 1 of
`run_to_completion`; `WakeWarps` is `tick` up to the call of `select_warp`;
`Tick(w)` is the rest for the selected warp w, with one action per opcode and
outcome, and `TickIdle` is a tick in which nothing is selected. Exceptions end
the run in phase `thrown` with the variables as they are at the throw. A memory
instruction's latency is any member of `Latencies`, the outcome of a CMP any
subset of the active lanes. `arrivals`, `retired` (when a warp retired its last
instruction, with which latency, and whether that ended a path), `passedOver` and
`waited` are history variables that no action reads. A launch starts with a scheduler that
is new or as an earlier launch left it (`Leftovers`), because `clear_warps` does
not reset it. `SMAssumption` limits warps to the 32 lanes `active_mask_` has bits for.

**WarpScheduler.** `Selects(w)` says that `select_warp` returns w; `SchedAfter`
and `SchedIdle` are the scheduler's state after the call. Warps are numbered in
the order of `warps_` (blocks are appended in increasing order, erasing keeps the
order), and `WarpId` maps them to the ids that restart in every block. Priority's scan
starts from the lowest int and asks for more (`priority_scheduler.cpp:13`), so that it
never selects a warp of that priority (`LowestInt`); the callers set none.

**SIMT.** A context is pc, mask, reconvergence pc, stack, predicates and shadow
pcs. Sums of pc and immediate wrap at `SizeT`, as `size_t` does. `WellNested` and
`Synchronized` say what structured control flow means for a kernel of this simulator:
every SSY's target is the SYNC that closes its region, regions are nested and entered
and left only there, and no BRANCH stands last or right before a SYNC; and, for the
second, lanes part inside regions only and meet barriers outside.

**GPU.** `cur` is the SM the loops are at. A tick is reduced to what matters to
the dispatcher: it completes a warp of some resident block, or nothing, or
throws. The host may launch again after a return or an exception; SMs that the
new launch has not cleared yet still hold the old blocks.

**Cache, MemorySystem.** `LookupAndFill` returns the set of outcomes (a set
because of the Random policy). `MemorySystem` issues a warp's instruction from
any SM, goes through its transactions one by one and then through its lanes one
by one, so that an exception leaves exactly what the code leaves behind.

**Execution.** The kernels of `Kernels` run with registers and memory; any ready
warp may be next, which covers every scheduler and every latency. Exceptions are
not steps but are excluded by `NoFault`. All blocks are on one SM, the case in
which they share shared memory; its cells start at 0 or with what an earlier
launch may have left there (field `stale` of a job; partial reductions start at 0,
see section 6). `touched` remembers who accessed a cell since the last barrier and
with what value, so that `NoRaces` admits only pairs of loads, pairs of atomic
additions and pairs of stores of one value.

**Sweep, Analysis.** `Generate` is `generate_configurations`. Every configuration is
then launched (`Admit`, `Launched`, `LaunchThrow`: the dispatch loop on one of its SMs;
the SMs are alike, and so are the blocks, which are full-size) and executed: what a
simulation measures is an input, chosen from the outcomes of the study, the occupancy is
what the calculator computes. `Diagnose` is the analyzer's first pass, one result per
step, with any of the candidates that tie for the highest score; `Validate` is its
second pass; `Report` picks the best configuration and the recommendations. The
measurements are abstracted to the thresholds the analyzer tests: which of them a result
exceeds (`signs`), the idle cycles in percent, the cycles. Scores are counted in half
points.

## 3. Runs

All runs together take a few minutes. "Violation" runs show a disagreement with
a comment or a test of the repository (section 6).

| Run | Instance | Shows |
|---|---|---|
| `sm_grid` | 3 blocks of 2 warps, room for 2 blocks, 3 kernels, 6 policies, new or used before, latencies 1 and 3 | barrier agreement, refinement of `Barrier`, nothing dropped, scheduler contract, no deadlock, round robin bounds waits while blocks come and go, no wait counted twice among warps that share ids, termination |
| `sm_rules` | a block of 3 warps of 2 lanes and one that never fits; kernels without barriers, with skipped or divergent barriers and stray SYNCs; 6 policies (TwoLevel with 2 places), memory may throw, latencies 2 and 4, also at the end of a path | wait accounting is conserved, latencies are paid to the cycle |
| `sm_simt` | one warp of 3 lanes; 37 kernels, all that a grammar of regions, loops, nests and sequences of two makes, and divergence without SYNC; every outcome of every CMP | lanes follow their own program; structured kernels reconverge |
| `gpu_launches` | 2 launches of 0, 2, 5 or 6 blocks of sizes 1, 1, 2, 1, 2, 3 on 2 SMs of room 2, exceptions | one home per block, totals balance, nothing dropped, no SM idles with blocks pending, a block is impossible only if no empty SM could hold it, termination |
| `cache_policies` | 2 sets of 3 ways, 6 accesses to 6 addresses, all policies | no duplicate tags, LRU holds the most recent, FIFO the latest fills, write-backs conserved |
| `memory_access` | 2 SMs, one-line L1s, two-line L2, 2 instructions of 2 or 3 lanes, shared memory of 2 banks, addresses out of range | cells match the lanes, L2 sees only misses, AMAT times accesses equals the latency paid, transactions minimal, bank conflicts are the extra rounds |
| `kernels_bench` | 17 small grids of the five kernels, one and several blocks and warps, partial warps and blocks, used shared memory | output equals the CPU reference, no races, no exceptions, termination |
| `sweep_analysis` | about 6500 studies: limits around one to three blocks, every combination of thresholds, all products of five parameters, sweeps of one or two parameters with all results | the product is complete and in order; the calculator's number of full-size blocks is what the SM admits; the limiting factor limits; diagnoses have evidence; occupancy claims rest on matched runs; the best is the fastest |

Two assumptions that TLC evaluates connect the runs to the theorems on divergence:
`KernelsNested` (the kernels of `sm_simt` are well nested, the structured ones also
synchronized) and `BenchmarksNested` (every benchmark kernel of
`kernels_bench` and `kernels_partial` is well nested; GEMM branches outside of regions
too, on conditions all lanes share).

The properties each run checks, under their names in the modules:

- `sm_grid`: `TypeOK`, `BarrierAgreement`, `NoWorkDropped`, `SelectsWhenReady`,
  `NoSilentDeadlock`, `RoundRobinBound`, `WaitsNotOvercounted`, `Terminates`,
  `ImplementsBarrier`.
- `sm_rules`: `WaitConservation`, `LatencyPaid`.
- `sm_simt`: `Reconverges`, `LanesFollowProgram`.
- `gpu_launches`: `OneHomePerBlock`, `AccountsBalance`, `NoBlockDropped`,
  `ReturnsWhenGridDone`, `NoIdleSmWhilePending`, `ImpossibleIsImpossible`,
  `Terminates`.
- `cache_policies`: `NoDuplicateTags`, `OrderMatchesLines`, `HoldsMostRecent`,
  `HoldsLatestFills`, `WritebacksConserved`.
- `memory_access`: `MemoryMatchesLanes`, `L2SeesOnlyMisses`, `AmatIsExact`,
  `TransactionsMinimal`, `ConflictsAreExtraRounds`.
- `kernels_bench`: `MatchesReference`, `NoRaces`, `NoFault`, `Terminates`.
- `sweep_analysis`: `SweepIsProduct`, `AdmitsAsPredicted`, `LimitingFactorLimits`,
  `EvidenceBacksDiagnosis`, `OccupancyClaimEarned`, `BestIsFastest`.

A type invariant is stated, checked and proved for `SM`. `GPUProofs`, `CacheProofs`,
`MemoryProofs` and `SweepProofs` state one each as a conjunct of their inductive
invariants and prove it.

Bounds. `MaxCycles` cuts off runs that tick for ever; where a run checks termination it
is larger than any run needs, so it never cuts. Two blocks resident and one pending is
the least at which a block is dispatched after another has finished; two warps per block
the least at which a barrier can go wrong between warps; three warps the least at which
TwoLevel with two places leaves one out. Latencies of 1 and 2 are the two that cost
nothing extra, 3 and 4 the least that keep a warp stalled for one and for two further
cycles. Two launches are enough to see state survive a launch. Six accesses fill a set
of three ways and evict three times. Kernels of two nested regions or loops and
sequences of two are the least at which a SYNC can meet the entry of another region. In
a sweep, two values per parameter tell a matched pair from one that differs elsewhere,
three results rank; three blocks in the grid reach every rounding of limits that hold
one to three. The idle cycles stand at 0, on and between the thresholds of 10 and 20
percent and above: the simulator itself only ever measures 0 (an SM with warps never
counts a NoReadyWarp cycle, one without returns before), the other levels are what the
analyzer's tests feed it.

Fairness. The host is one thread in a loop, so `WF_vars(Next)`: it does not stop
while it can go on. `GPU` adds `SF_vars(TickFinish(b))`: an SM that is ticked
for ever completes its warps. That is `Terminates` of `SM`, checked in
`sm_grid`; in the code it fails exactly for the deadlocks of section 6.

## 4. Proofs

Every theorem holds for all values of the constants that satisfy the assumptions
declared with them, which TLC evaluates in the runs. The assumptions say what the
code's types and its callers give: finite grids numbered from 1, blocks that count
as one block, warps with at least one and at most 32 lanes, cache geometries without
zeros, requests with as many values as addresses, a global memory that ends before
the shared range begins, at least one SM, bank, set and way, an earlier launch that
left a scheduler with fields of their types.

### `SMProofs` (with `SIMTProofs`, `SchedulerProofs`): one SM

| Theorem | Statement |
|---|---|
| `TypeCorrect` | `Spec => []TypeOK` |
| `NoWorkDroppedHolds` | `Spec => []NoWorkDropped` |
| `BarrierAgreementHolds` | `Spec => []BarrierAgreement` |
| `BarrierRefinement` | `Spec => ImplementsBarrier` |
| `SelectsWhenReadyHolds` | `Spec => [](policy # "TwoLevel" /\ PrioritiesCount => SelectsWhenReady)` |
| `NoSilentDeadlockHolds` | `Spec => [](policy # "TwoLevel" /\ PrioritiesCount /\ NobodyLeft => NoSilentDeadlock)` |
| `RoundRobinBoundHolds` | `Spec => []RoundRobinBound` |
| `LatencyPaidHolds` | `Spec => []LatencyPaid` |
| `TwoLevelSelectsHolds` | `Spec /\ []IdsDistinct /\ NoRepeats(sched.active) => [](policy = "TwoLevel" /\ Cardinality(warps) <= ActiveSetSize => SelectsWhenReady)` |
| `TwoLevelDeadlockFree` | the same hypotheses `=> [](policy = "TwoLevel" /\ Cardinality(warps) <= ActiveSetSize /\ NobodyLeft => NoSilentDeadlock)` |
| `LanesFollowProgramHolds` | `Spec /\ WellNested(kernel) => LanesFollowProgram` |
| `ReconvergesHolds` | `Spec /\ WellNested(kernel) /\ Synchronized(kernel) => []Reconverges` |
| `WaitConservationHolds` | `Spec /\ []IdsDistinct => []WaitConservation` |
| `WaitsNeverOvercounted` | `Spec => []WaitsNotOvercounted` |

The hypotheses are where the code's guarantee ends, and each is one that a run or a
remark of this document shows to be needed. TwoLevel may leave a ready warp outside its
active set (`sm_two_level`); with a place for each warp on the SM it does not, if no id
takes two places, which is so from the first launch on while resident warps bear
different ids. `NobodyLeft` says that no warp waits at a barrier for one that has
completed (`sm_skipped_barrier`); `NoSilentDeadlockHolds` shows that there is no further
way to get stuck. `PrioritiesCount` says that under Priority no warp has the lowest int
as its priority: its scan starts there and asks for more (`priority_scheduler.cpp:13`),
and every caller sets the warp's id or leaves 0. `IdsDistinct` says that the warps on
the SM bear different ids, as with one block at a time; without it the accounting loses
cycles, and `WaitsNeverOvercounted` says that it never counts one twice. `WellNested`
asks for regions as the benchmarks build them and, beyond that, excludes the shapes
section 6 shows to go wrong: a BRANCH that ends the kernel or stands right before a
SYNC. Without `Synchronized` a barrier in a branch throws, as it should.

Argument. `TickEffect` reduces the many actions of a tick to three effects on
`state` and `arrivals`: a plain step of the selected warp, a wait, a release.
The inductive invariant `CoreInv` is typing of these two variables, `NoWorkDropped`
and `BarrierAgreement`. Agreement alone is not inductive: a release looks at the
warps the SM *holds*, so that it speaks for the whole block only because a block
is on the SM as a whole, which is `NoWorkDropped`; that in turn needs blocks to
be dispatched in order. The refinement follows from the same three effects.
`TypeInv` adds to `TypeOK` that the counters keep a cycle count; `SIMTProofs` shows
that every operator of `SIMT` keeps a context well formed.

`SchedulerProofs` shows of each policy but TwoLevel that it orders any set of ready
warps totally, so that exactly one comes first; for round robin and Priority because
the scan meets every warp at a turn of its own, whatever index it starts at. The
absence of deadlock rests on that and on `SomeoneOut`: of the warps of a block, not
all are waiting. The round robin bound is not inductive; `RoundRobinInv` is. Its main
part, `ScanComesCloser`, has passes so far plus the turn of a ready warp below the
bound, because issuing w moves the index past w (`TurnMovesUp`) and everyone who goes on
waiting up by at least the place that w took. When blocks leave or arrive the turns are
anyone's guess, but a departure raises the bound by a whole round of the dispatched
warps, so that all passes so far belong to the rounds before it (`RoundStarts`), and
without a departure nothing arrives: after phase 1 there is no room for the next block
(`NoRoom`). The waits are
conserved because one tick takes the credited waits out and adds one for each other
ready warp (`WaitsAccounted`). Latencies are paid because the stall counter of a warp
is, at each point of a tick, what the cycle count leaves of the latency it retired with
(`WarpPays`): `TickCharges`, `RetirePays` and `WakePays` follow it through a tick.

TwoLevel has no order on the ready warps; its lemmas follow `update_active_set`.
`KeptIs` says what the removal loop leaves, `RanksComplete` that the candidates sorted
by age have the ranks 0, 1, 2, ... without gaps, so that the oldest of them gets a free
place (`ActiveSetServes`), and `ScanComplete` that the round-robin scan comes to every
place. With as many places as warps one is free for a ready warp that has none, because
the ids kept belong to different other warps (`PlaceLeft`). That no id takes two places
is the inductive part.

Divergence. That a lane follows its program is a statement about one step, but SYNC and
the end of a path send lanes where the stack says, so it needs the shape of the stack.
The invariant `DivergenceInv` has, for each warp, `StackOK`: the stack is layered by the
regions around the pc, a token for each of them from the innermost out, and between the
tokens only deferred paths of the layer, which no SYNC takes for a token; whatever lies
above an entry has lanes of a token's mask and none of a deferred path's. `SIMTProofs` shows
for each instruction that it keeps the layers and moves every lane as its own program
says (`Obeys`), `SMProofs` that a tick is one such instruction followed by the pop at the
end of a path. In a synchronized kernel every entry waits inside a region, so that
outside of all regions the stack is empty and all lanes are back (`AllBack`).

### `GPUProofs`: the dispatcher

`OneHomePerBlock`, `AccountsBalance`, `NoBlockDropped`, `ReturnsWhenGridDone`,
`NoIdleSmWhilePending` and `ImpossibleIsImpossible`, each as `Spec => []P`. The
inductive invariant adds what holds at each statement of the two functions: which
combinations of `launching` and `phase` occur (`Control`); that resident blocks are
blocks of the grid dispatched so far, except on SMs a relaunch has not cleared yet
(`Dispatched`); what the SMs before `cur` have been through in the dispatch loop
(`Phase1`) and in the tick loop (`Phase2`, the meaning of `all_done`). The
totals need lemmas on what a set of blocks holds with one block more or less.

### `CacheProofs`: caches and policies

`NoDuplicateTags`, `OrderMatchesLines`, `HoldsMostRecent`, `HoldsLatestFills` and
`WritebacksConserved`. Most of the work is about one set: `SetInv` relates the
policy's list to the lines and to the history of accesses or fills (for LRU, entry i
of the list is the way of the i-th most recent tag; for FIFO, the queue lists the
ways in the order of their fills), and `SetStep` shows that every outcome of
`lookup_and_fill` keeps it. That LRU and FIFO hold the right tags is read off that
correspondence.

### `MemoryProofs`: the memory system

`MemoryMatchesLanes`, `L2SeesOnlyMisses`, `AmatIsExact`, `TransactionsMinimal` and
`ConflictsAreExtraRounds`. The inductive invariant has the type of every variable,
the memories as the lanes served so far make them, an L2 that is clean and counts
exactly the L1 misses, and what the transactions have cost (`SpentExactly`), also in
the middle of an instruction, where its dirty evictions are not yet in the counters.
Transactions and conflicts are compared with the smallest cover and the rounds of the
banks by counting.

### `SweepProofs`: occupancy, sweep and analysis

`AdmitsAsPredicted`, `LimitingFactorLimits`, `EvidenceBacksDiagnosis`,
`OccupancyClaimEarned`, `BestIsFastest` and `SweepIsProduct`. The calculator's quotients
and the comparisons of `can_admit` are shown to agree for every limit and every need,
with blocks that all have the same need (`ResidentIsCapacity`). The configurations
generated are shown to be the base with other values of the swept parameters, which is
what makes a pair that differs in one of them a matched pair.

The order of the product is proved stage by stage: after each of the five loops, value
f of configuration k is the digit of k - 1 that the loops run so far give f
(`StageNumbers`), and a further loop multiplies the weights of the earlier ones
(`SweptNumbered`, from `QuotientTwice`). The scan for the greatest speedup compares
quotients of the baseline's cycles, which is a comparison of cycles because no
simulation takes none (`FasterIsShorter`); no result it has passed beats the one it is
at (`BestScans`, `BestIsShortest`). That the best is never one whose low occupancy has
been shown to cost cycles follows from `EarnedClaim`: the claim names a faster result.

### What stays with TLC

- Liveness: `Terminates` of `SM`, `GPU` and `Execution`, and everything under fairness.
- `MatchesReference`, `NoRaces` and `NoFault` of `Execution`. They are about the
  output of five particular kernels for particular inputs; a proof for every size would
  be one invariant per loop of each kernel. That lanes follow the program, which these
  kernels rely on, is proved.

Induction over data is not available to the provers as a rule; where it was needed
for a fact above, it is replaced by the least member of a set of numbers
(`LeastNumber`, `GreatestNumber`, `FirstExists`).

## 5. What is not modelled

- An SM without a scheduler, a warp or block without threads, and the scalar
  `MemorySystem::load`/`store`: only tests use them.
- A warp-level access with no addresses: no benchmark has an empty mask.
- Several launches in one behaviour of `SM`: a launch starts with any scheduler
  state of `Leftovers` instead (`GPU` models several launches, without schedulers).
- Warps of more than 32 threads, which `warp_size` does not exclude: their first
  instruction throws `out_of_range` (`warp.cpp:9`, `instruction_executor.cpp:21`).
- The list of loads of `run_cache_experiment` and the statistics the benchmarks write.
- The tables and averages of the report, traces, reading the configuration and the
  command line: text in and out. `FlatMemory` is used by tests only.
- Floating point: ratios are compared by cross-multiplication.
- Integer overflow of registers: the benchmarks' values are small.

Remarks that no property carries, met while modelling:

- The reduction assumes a power of two for the block size; with another size an
  element is left out. Partial last blocks are fine while unwritten
  shared cells are 0 (section 6).
- `NoReadyWarp` stalls are counted only without a scheduler or without warps, and
  a tick without warps returns before.
- Erasing a finished block shifts `warps_` under round robin's index, so that a ready
  warp can be passed over more often than there are warps: in the second wave of
  `sm_grid` it is. `RoundRobinBound` allows a further round for each block that left.
- `tick_stall` runs before the selection, so a warp that stalls for latency - 1 = 1 cycle
  is ready again in the next: latency 2 costs no more than 1, and latency n > 2 costs
  n - 1 cycles. The latency of an instruction that ends
  a path is dropped, because the next path starts ready (`DueAt`).
- `OccupancyCalculator` takes the threads of a full block. A partial last block
  (`benchmarks.cpp:38`) needs less, and `can_admit` may place it beyond the number
  computed.
- A block dispatched late starts with `ready_since_cycle_` 0, so it goes ahead of warps
  that have been ready longer (OldestFirst, GTO, TwoLevel). They finish all the same
  (`Terminates`).
- Wait accounting goes by warp id, so it is exact only while ids are distinct.
- TwoLevel keeps ids and admits all candidates that bear one id, so that two resident
  blocks compete for the same entries or fill the set with duplicates: a grid can
  deadlock even with as many places as a block has warps. `TwoLevelDeadlockFree` says
  what is enough.

## 6. Findings

| Run (property violated) | What it shows |
|---|---|
| `sm_skipped_barrier` (`NoSilentDeadlock`) | a mate that completes after the others have arrived leaves them waiting for ever; the comment in `sm.cpp` calls this unreachable |
| `sm_two_level` (`NoSilentDeadlock`) | TwoLevel with fewer places than warps deadlocks at a correct barrier: it returns nullptr with a ready warp outside the active set, against `warp_scheduler.hpp` |
| `kernels_partial` (`MatchesReference`) | a histogram whose last block has fewer threads than bins loses counts |
| `sweep_scheduler_claim` (`SchedulerClaimIsolated`) | the report credits "changing the scheduler policy" although the best configuration has the baseline's scheduler and differs in `l1_sets`; the report itself says its causal conclusions rest on matched configurations |

Seen with the same models, by changing an instance, and not kept as runs:

- GTO does not fall back to the oldest ready warp, as the comment `gto_scheduler.cpp:18`
  has it, once there is a second wave of blocks: `allocate_block` leaves
  `ready_since_cycle_` at 0, so newcomers count as the oldest (`gto_scheduler.cpp:25`).
- `SelectsWhenReady` fails for TwoLevel as soon as the active warps wait for memory.
- `LanesFollowProgram` fails for a divergent BRANCH that ends the kernel after
  another divergence: the fetch past the end (`sm.cpp:207`) completes the warp with
  lanes on its stack. It also fails for the nested kernel of `simt_test.cpp:84`,
  which gives the inner SSY an absolute target where the code adds it to the pc.
- `LanesFollowProgram` fails for a loop whose BRANCH stands right before the SYNC:
  SYNC knows its token by its target alone (`instruction_executor.cpp:260`), and a
  lane that leaves the loop is deferred with exactly that target. The loops of
  `sm_simt` have an instruction between the two. The repository's README restricts
  the simulator to structured control flow; this loop looks structured.
- Reductions with a partial last block add cells no thread has written; they are
  right only while shared memory is still 0, not after another launch or block.
- The sweep reports resident blocks / maximal blocks as occupancy
  (`sweep_engine.cpp:145`), where `analysis_types.hpp:40` says warps.
- Since a simulation measures no idle cycles, Compute scores a point in every real
  sweep: "Unclassified" never occurs there, Occupancy only at a tie and with low
  confidence before validation, and "achieves high IPC" (`report_generator.cpp:122`) is
  printed without high IPC when nothing else scores more.
- Bank conflicts are scored against the cycles of all SMs (`analyzer.cpp:141`) and
  given as evidence against those of one (`analyzer.cpp:175`); the evidence condition
  is the weaker one, which `EvidenceBacksDiagnosis` needs.
- The baseline of `run_analysis` is the first combination of the space, not the
  configuration that was read.
- The arrays of `vector_add` are 10000 bytes apart: strided, they overlap from about
  300 threads on, and `run_experiment` uses 2048. Nothing shows, as all cells are 0.

## 7. Plan

Done: the core (`SM`, `SIMT`, `WarpScheduler`, `Barrier`, `Resources`), the
dispatcher, caches and memory, all benchmark kernels, the analysis from the sweep
to its recommendations with the occupancy calculator, and the proofs of section 4.
Of the safety properties only those of the benchmark kernels are without a proof.
What could follow:

1. TwoLevel with several blocks on the SM: how many places are enough when warps share
   ids.
2. Invariants of the loops of one benchmark kernel, the reduction first, for every block
   size that is a power of two.
3. Composition of `SM` with `MemorySystem`, so that latencies are those of the
   caches, if its state space allows.
