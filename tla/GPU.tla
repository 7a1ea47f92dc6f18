-------------------------------- MODULE GPU --------------------------------
(***************************************************************************)
(* The block dispatcher (src/src/architecture/gpu.cpp): launch_kernel and  *)
(* run_to_completion over several SMs, with the admission and release of   *)
(* sm.cpp.  SM models what a tick does to warps; here a tick may complete  *)
(* one warp, or throw.  Both functions are sequential loops over the SMs:  *)
(* the variable cur is the SM they are at, phase the statement:            *)
(*                                                                         *)
(*   launch:  clear, then admit as often as possible, for each SM          *)
(*   loop:    release, then admit, for each SM; then tick for each SM      *)
(***************************************************************************)
EXTENDS Integers, FiniteSets, Resources

CONSTANTS
  NumSMs,        \* SystemConfig::num_sms
  GridSizes,     \* the numbers of blocks the host may launch
  MayThrow,      \* whether a tick may throw
  MaxLaunches    \* bound: how often the host launches a grid on this GPU

ASSUME GPUAssumption ==
  /\ Block = 1..Cardinality(Block) /\ IsFiniteSet(Block)
  /\ NumSMs \in Nat \ {0} /\ MaxLaunches \in Nat
  /\ GridSizes \subseteq 0..Cardinality(Block) /\ MayThrow \in BOOLEAN
  /\ \A b \in Block : Demand[b]["warps"] > 0

VARIABLES
  launching,     \* in launch_kernel (otherwise in run_to_completion)
  phase,         \* the statement reached
  cur,           \* the SM the loop is at
  error,         \* the exception that ended the call
  gridSize,      \* the blocks of the grid launched last: 1..gridSize
  nextBlock,     \* current_block_idx_
  resident,      \* resident_blocks_ of each SM
  alloc,         \* allocated_* of each SM
  left,          \* unfinished warps of each block, wherever it is resident
  allDone,       \* all_done
  launches       \* launches so far

vars == <<launching, phase, cur, error, gridSize, nextBlock, resident, alloc, left,
          allDone, launches>>

SMs == 1..NumSMs

\* current_block_idx_ < blocks.size().
Pending == nextBlock <= gridSize

Init ==
  /\ launching = TRUE /\ phase = "clear" /\ cur = 1 /\ error = "none"
  /\ gridSize \in GridSizes /\ nextBlock = 1 /\ launches = 1 /\ allDone = FALSE
  /\ resident = [s \in SMs |-> {}]
  /\ alloc = [s \in SMs |-> NothingAllocated]
  /\ left = [b \in Block |-> 0]

\* SM::is_completed: no warp of a resident block is unfinished.
SmCompleted(s) == \A b \in resident[s] : left[b] = 0

-----------------------------------------------------------------------------
\* Mutant of Cleared: allocated_registers_ survives clear_warps.
ClearedButRegisters(s) ==
  [alloc EXCEPT ![s] = [NothingAllocated EXCEPT !["registers"] = alloc[s]["registers"]]]

Cleared(s) == [alloc EXCEPT ![s] = NothingAllocated]

\* SM::clear_warps, called for each SM in turn by launch_kernel.
ClearSm ==
  /\ phase = "clear" /\ phase' = "admit"
  /\ resident' = [resident EXCEPT ![cur] = {}]
  /\ alloc' = Cleared(cur)
  /\ UNCHANGED <<launching, cur, error, gridSize, nextBlock, left, allDone, launches>>

\* Mutant of Finished: the loop over resident_blocks_ ends before the last one.
FinishedButLast(s) == {b \in resident[s] : left[b] = 0 /\ \E a \in resident[s] : a > b}

\* Mutant of Finished: a block goes as soon as its first warp has completed.
FinishedByOneWarp(s) == {b \in resident[s] : left[b] < Demand[b]["warps"]}

Finished(s) == {b \in resident[s] : left[b] = 0}

\* SM::release_completed_blocks.
ReleaseSm ==
  /\ phase = "release" /\ phase' = "admit"
  /\ resident' = [resident EXCEPT ![cur] = @ \ Finished(cur)]
  /\ alloc' = [alloc EXCEPT ![cur] = Released(@, Finished(cur))]
  /\ UNCHANGED <<launching, cur, error, gridSize, nextBlock, left, allDone, launches>>

\* Mutant of NextPending: current_block_idx_ is not advanced.
NextPendingSame == nextBlock

NextPending == nextBlock + 1

\* One turn of the dispatch loop: SM::allocate_block copies the block's warps.
AdmitBlock ==
  /\ phase = "admit" /\ Pending /\ CanAdmit(alloc[cur], nextBlock)
  /\ resident' = [resident EXCEPT ![cur] = @ \cup {nextBlock}]
  /\ alloc' = [alloc EXCEPT ![cur] = Allocated(@, nextBlock)]
  /\ left' = [left EXCEPT ![nextBlock] = Demand[nextBlock]["warps"]]
  /\ nextBlock' = NextPending
  /\ UNCHANGED <<launching, phase, cur, error, gridSize, allDone, launches>>

\* Nothing is pending or this SM is full: on to the next SM; after the last one
\* to run_to_completion's loop, or to its phase 2.
AdmitStop ==
  /\ phase = "admit"
  /\ Pending =>
       ~CanAdmit(alloc[cur], nextBlock) /\ alloc[cur]["blocks"] # 0
  /\ IF cur < NumSMs
     THEN /\ cur' = cur + 1 /\ phase' = IF launching THEN "clear" ELSE "release"
          /\ UNCHANGED <<launching, allDone>>
     ELSE /\ cur' = 1 /\ phase' = IF launching THEN "release" ELSE "tick"
          /\ launching' = FALSE /\ allDone' = TRUE
  /\ UNCHANGED <<error, gridSize, nextBlock, resident, alloc, left, launches>>

\* "Architecturally impossible block: exceeds empty SM limits."
AdmitThrow ==
  /\ phase = "admit" /\ Pending
  /\ ~CanAdmit(alloc[cur], nextBlock) /\ alloc[cur]["blocks"] = 0
  /\ phase' = "thrown" /\ error' = "ImpossibleBlock"
  /\ UNCHANGED <<launching, cur, gridSize, nextBlock, resident, alloc, left, allDone, launches>>

-----------------------------------------------------------------------------
(* Phase 2.                                                                *)

\* Mutant of AfterTick: the last SM alone decides whether the grid is done.
AfterTickLastOnly(done) ==
  /\ allDone' = TRUE
  /\ IF cur < NumSMs THEN cur' = cur + 1 /\ phase' = "tick"
     ELSE cur' = 1 /\ phase' = IF done THEN "returned" ELSE "release"

\* Mutant of AfterTick: all_done starts out false in every round.
AfterTickNeverDone(done) ==
  /\ allDone' = done
  /\ IF cur < NumSMs THEN cur' = cur + 1 /\ phase' = "tick"
     ELSE cur' = 1 /\ phase' = "release"

\* After this SM's turn: the next SM, the next round, or the return.
AfterTick(done) ==
  /\ allDone' = done
  /\ IF cur < NumSMs THEN cur' = cur + 1 /\ phase' = "tick"
     ELSE cur' = 1 /\ phase' = IF done THEN "returned" ELSE "release"

\* A completed SM is not ticked.
SkipTick ==
  /\ phase = "tick" /\ SmCompleted(cur) /\ AfterTick(allDone)
  /\ UNCHANGED <<launching, error, gridSize, nextBlock, resident, alloc, left, launches>>

\* A tick that completes no warp.
TickSm ==
  /\ phase = "tick" /\ ~SmCompleted(cur) /\ AfterTick(FALSE)
  /\ UNCHANGED <<launching, error, gridSize, nextBlock, resident, alloc, left, launches>>

\* A tick that completes a warp of block b.
TickFinish(b) ==
  /\ phase = "tick" /\ b \in resident[cur] /\ left[b] > 0
  /\ left' = [left EXCEPT ![b] = @ - 1]
  /\ AfterTick(FALSE)
  /\ UNCHANGED <<launching, error, gridSize, nextBlock, resident, alloc, launches>>

TickThrow ==
  /\ MayThrow /\ phase = "tick" /\ ~SmCompleted(cur)
  /\ phase' = "thrown" /\ error' = "Tick"
  /\ UNCHANGED <<launching, cur, gridSize, nextBlock, resident, alloc, left, allDone, launches>>

\* The host launches a grid again, after a return or after catching an exception.
Relaunch ==
  /\ phase \in {"returned", "thrown"} /\ launches < MaxLaunches
  /\ launching' = TRUE /\ phase' = "clear" /\ cur' = 1 /\ error' = "none"
  /\ gridSize' \in GridSizes /\ nextBlock' = 1 /\ launches' = launches + 1
  /\ UNCHANGED <<resident, alloc, left, allDone>>

Ended ==
  phase \in {"returned", "thrown"} /\ launches = MaxLaunches /\ UNCHANGED vars

Next ==
  \/ ClearSm \/ ReleaseSm \/ AdmitBlock \/ AdmitStop \/ AdmitThrow
  \/ SkipTick \/ TickSm \/ (\E b \in Block : TickFinish(b)) \/ TickThrow
  \/ Relaunch \/ Ended

Spec == Init /\ [][Next]_vars

\* The host loop never pauses, and the warps of a resident block are completed
\* if their SM is ticked for ever (Terminates of SM).
FairSpec == Spec /\ WF_vars(Next) /\ \A b \in Block : SF_vars(TickFinish(b))

-----------------------------------------------------------------------------
(* Properties.                                                             *)

\* SM s has been through clear_warps since the last launch.
Fresh(s) == ~launching \/ s < cur \/ (s = cur /\ phase # "clear")

\* No block is resident on two SMs, although during a launch the SMs that the
\* loop has not cleared yet still hold blocks of an earlier launch.
OneHomePerBlock ==
  \A s, t \in SMs : s # t /\ Fresh(s) /\ Fresh(t) => resident[s] \cap resident[t] = {}

\* The allocated_* totals of every SM are what its resident blocks hold and
\* within the limits, in every launch.
AccountsBalance ==
  \A s \in SMs : \A f \in Resource :
    alloc[s][f] = Held(resident[s], f) /\ alloc[s][f] <= Limit[f]

\* A dispatched block is resident until its last warp has completed.
NoBlockDropped ==
  ~launching => \A b \in Block : b < nextBlock /\ left[b] > 0 =>
                                   \E s \in SMs : b \in resident[s]

\* run_to_completion returns only when every block was dispatched and has
\* completed, however the SMs finish.
ReturnsWhenGridDone ==
  phase = "returned" => ~Pending /\ \A b \in 1..gridSize : left[b] = 0

\* When phase 2 begins no SM is without work while blocks are pending.
NoIdleSmWhilePending ==
  phase = "tick" /\ cur = 1 /\ Pending => \A s \in SMs : ~SmCompleted(s)

\* "Architecturally impossible block" is thrown only for a block that no SM
\* could hold even when empty.
ImpossibleIsImpossible ==
  error = "ImpossibleBlock" => \E f \in Resource : Demand[nextBlock][f] > Limit[f]

\* Every launch ends: the last one in a return or an exception.
Terminates == <>[](phase \in {"returned", "thrown"})
=============================================================================
