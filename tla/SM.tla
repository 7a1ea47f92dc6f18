--------------------------------- MODULE SM ---------------------------------
(***************************************************************************)
(* One streaming multiprocessor run by GPU::run_to_completion (sm.cpp,     *)
(* gpu.cpp, warp.cpp, instruction_executor.cpp).  The host loop is         *)
(* sequential, so its position is the variable phase:                      *)
(*                                                                         *)
(*   admit --> wake --> issue --> release --> admit --> ... --> done       *)
(*                                                                         *)
(* "release" and "admit" are phase 1 of the loop, one block per step;      *)
(* "wake" and "issue" are the two halves of SM::tick, before and after the *)
(* call of select_warp.  An exception ends the run in phase "thrown".      *)
(***************************************************************************)
EXTENDS Integers, Sequences, FiniteSets, WarpScheduler, Resources, SIMT

CONSTANTS
  BlockOf,          \* the block of each warp
  Lanes,            \* the lanes of each warp (one per thread)
  Kernels,          \* the kernels to run: sequences of Instruction
  Policies,         \* the scheduling policies to run them under
  Leftovers,        \* the fields of the scheduler after earlier launches
  Latencies,        \* what a memory instruction may cost, in cycles
  MayFaultInMemory, \* whether memory instructions may throw
  StarvationLimit,  \* 1000 in Warp::check_and_set_starvation
  MaxCycles         \* bound: no tick is started after this many cycles

ASSUME SMAssumption ==
  /\ Block = 1..Cardinality(Block) /\ IsFiniteSet(Block)
  /\ BlockOf \in [Warp -> Block]
  /\ Lanes \in [Warp -> (SUBSET MaskBit) \ {{}}]
  /\ Kernels \subseteq Seq(Instruction)
  /\ Policies \subseteq Policy
  /\ FreshScheduler \in Leftovers /\ Leftovers \subseteq Scheduler
  /\ Latencies \subseteq Nat
  /\ MayFaultInMemory \in BOOLEAN
  /\ StarvationLimit \in Nat /\ MaxCycles \in Nat

VARIABLES
  kernel,           \* the kernel being run
  phase,            \* where the host loop is
  error,            \* the exception that ended the run
  nextBlock,        \* GPU::current_block_idx_, the next pending block
  resident,         \* SM::resident_blocks_
  alloc,            \* SM::allocated_*
  ctx,              \* the execution context of each warp
  stall,            \* Warp::stall_cycles_remaining_
  wait,             \* Warp::current_wait_cycles_
  starved,          \* Warp::starvation_recorded_
  counters,         \* PerformanceCounter
  arrivals,         \* history: BARRIERs each warp has executed
  retired,          \* history: when each warp last retired an instruction, and its latency
  passedOver,       \* history: cycles each warp was ready and not issued, in a row
  waited            \* history: ready warps passed over, summed over cycles

dispatchVars == <<nextBlock, resident, alloc, warps>>
warpVars == <<state, readySince, ctx, stall, arrivals, retired>>
waitVars == <<wait, starved, passedOver, waited>>
vars == <<kernel, policy, phase, error, dispatchVars, warpVars, waitVars,
          sched, counters>>

WarpState == {"Ready", "Stalled", "StalledAtBarrier", "Completed"}
Phase == {"admit", "wake", "issue", "release", "done", "thrown"}
Error == {"none", "ImpossibleBlock", "DivergentBarrier", "MalformedBarrier",
          "EmptySync", "Memory"}

Mates(w) == {u \in Warp : BlockOf[u] = BlockOf[w]}
Size == Len(kernel)
FetchedOp(w) == kernel[ctx[w].pc + 1].op
FetchedImm(w) == kernel[ctx[w].pc + 1].imm

ZeroCounters ==
  [cycles |-> 0, retired |-> 0, barrierStalls |-> 0, memory |-> 0,
   waitTotal |-> 0, waitMax |-> 0, waitEvents |-> 0, starvations |-> 0,
   issues |-> [id \in {WarpId[w] : w \in Warp} |-> 0]]

\* A launch: clear_warps leaves the scheduler object as the last launch left it.
Init ==
  /\ kernel \in Kernels /\ policy \in Policies
  /\ phase = "admit" /\ error = "none"
  /\ nextBlock = 1 /\ resident = {} /\ warps = {} /\ alloc = NothingAllocated
  /\ state = [w \in Warp |-> "Ready"]
  /\ readySince = [w \in Warp |-> 0]
  /\ ctx = [w \in Warp |-> FreshContext(Lanes[w])]
  /\ stall = [w \in Warp |-> 0]
  /\ wait = [w \in Warp |-> 0] /\ starved = [w \in Warp |-> FALSE]
  /\ sched \in Leftovers /\ counters = ZeroCounters
  /\ arrivals = [w \in Warp |-> 0]
  /\ retired = [w \in Warp |-> [at |-> 0, latency |-> 1, ended |-> FALSE]]
  /\ passedOver = [w \in Warp |-> 0] /\ waited = 0

-----------------------------------------------------------------------------
(* Phase 1 of run_to_completion.                                           *)

\* SM::is_completed.
Completed == \A w \in warps : state[w] = "Completed"

\* Mutant of BlockDone: the scan of the warps ends at the first completed one.
BlockDoneByOneWarp(b) ==
  \E w \in warps : BlockOf[w] = b /\ state[w] = "Completed"

\* No warp of block b is left to run.
BlockDone(b) == \A w \in warps : BlockOf[w] = b => state[w] = "Completed"

\* SM::release_completed_blocks.
ReleaseBlocks ==
  LET done == {b \in resident : BlockDone(b)}
  IN  /\ phase = "release" /\ phase' = "admit"
      /\ resident' = resident \ done
      /\ warps' = {w \in warps : BlockOf[w] \notin done}
      /\ alloc' = Released(alloc, done)
      /\ UNCHANGED <<kernel, policy, error, nextBlock, warpVars, waitVars, sched,
                     counters>>

\* The dispatch loop finds room for the next pending block.
AdmitBlock ==
  /\ phase = "admit" /\ nextBlock \in Block /\ CanAdmit(alloc, nextBlock)
  /\ resident' = resident \cup {nextBlock}
  /\ warps' = warps \cup {w \in Warp : BlockOf[w] = nextBlock}
  /\ alloc' = Allocated(alloc, nextBlock)
  /\ nextBlock' = nextBlock + 1
  /\ UNCHANGED <<kernel, policy, phase, error, warpVars, waitVars, sched, counters>>

\* No block is pending or the SM is full: go on to phase 2, or leave the loop.
AdmitStop ==
  /\ phase = "admit"
  /\ nextBlock \in Block => ~CanAdmit(alloc, nextBlock) /\ alloc["blocks"] # 0
  /\ Completed \/ counters.cycles < MaxCycles
  /\ phase' = IF Completed THEN "done" ELSE "wake"
  /\ UNCHANGED <<kernel, policy, error, dispatchVars, warpVars, waitVars,
                 sched, counters>>

\* Raise an exception with the given variables as they are at the throw.
Throw(e) == phase' = "thrown" /\ error' = e

\* "Architecturally impossible block: exceeds empty SM limits."
AdmitThrow ==
  /\ phase = "admit" /\ nextBlock \in Block
  /\ ~CanAdmit(alloc, nextBlock) /\ alloc["blocks"] = 0
  /\ Throw("ImpossibleBlock")
  /\ UNCHANGED <<kernel, policy, dispatchVars, warpVars, waitVars, sched, counters>>

-----------------------------------------------------------------------------
(* SM::tick, first half: Warp::tick_stall for every warp, cycle counters.  *)

\* Mutant of Wakes: the counter is tested before it is decremented.
WakesLate(w) == w \in warps /\ state[w] = "Stalled" /\ stall[w] = 0

Wakes(w) == w \in warps /\ state[w] = "Stalled" /\ stall[w] = 1

\* Mutant of StallTicked: stall_cycles_remaining_ is decremented at zero.
StallTickedBlindly(w) == IF w \in warps THEN stall[w] - 1 ELSE stall[w]

StallTicked(w) ==
  IF w \in warps /\ state[w] = "Stalled" /\ stall[w] > 0 THEN stall[w] - 1 ELSE stall[w]

WakeWarps ==
  /\ phase = "wake" /\ phase' = "issue"
  /\ stall' = [w \in Warp |-> StallTicked(w)]
  /\ state' = [w \in Warp |-> IF Wakes(w) THEN "Ready" ELSE state[w]]
  /\ readySince' = [w \in Warp |-> IF Wakes(w) THEN counters.cycles ELSE readySince[w]]
  /\ counters' = [counters EXCEPT
                    !.cycles = @ + 1,
                    !.barrierStalls =
                       @ + Cardinality({w \in warps : state[w] = "StalledAtBarrier"})]
  /\ UNCHANGED <<kernel, policy, error, dispatchVars, ctx, arrivals, retired,
                 waitVars, sched>>

-----------------------------------------------------------------------------
(* SM::tick, second half.  Wait accounting goes by warp id, so a ready warp *)
(* of another block that bears the id of the selected one is treated as    *)
(* selected too.                                                           *)

\* Mutant of Credited: the selected warp goes on waiting.
CreditedNone(w) == {u \in Ready : u # u}

\* The ready warps whose wait is recorded and reset when w is selected.
Credited(w) == {u \in Ready : WarpId[u] = WarpId[w]}

\* Mutant of AccountWaits: the wait that was recorded is not reset.
AccountWaitsKept(S) ==
  /\ wait' = [u \in Warp |-> IF u \in Ready \ S THEN wait[u] + 1 ELSE wait[u]]
  /\ starved' = [u \in Warp |-> IF u \in S THEN FALSE
                                ELSE starved[u] \/ (u \in Ready /\ wait[u] + 1 > StarvationLimit)]

\* The wait accounting when the warps of S count as selected.
AccountWaits(S) ==
  /\ wait' = [u \in Warp |-> IF u \in S THEN 0
                             ELSE IF u \in Ready THEN wait[u] + 1 ELSE wait[u]]
  /\ starved' = [u \in Warp |-> IF u \in S THEN FALSE
                                ELSE starved[u] \/ (u \in Ready /\ wait[u] + 1 > StarvationLimit)]

NewlyStarved(S) ==
  Cardinality({u \in Ready \ S : ~starved[u] /\ wait[u] + 1 > StarvationLimit})

\* The waits of the warps of S, added up by counting.
WaitOf(S) == Cardinality(UNION {{u} \X (1..wait[u]) : u \in S})

\* record_warp_wait for each warp of S, then the starvation events of the rest.
WaitsRecorded(S) ==
  [counters EXCEPT
     !.waitTotal = @ + WaitOf(S),
     !.waitMax = Max({@} \cup {wait[u] : u \in S}),
     !.waitEvents = @ + Cardinality({u \in S : wait[u] > 0}),
     !.starvations = @ + NewlyStarved(S)]

\* The counters after w was selected: record_warp_issue comes last.
IssueRecorded(w) ==
  LET c == WaitsRecorded(Credited(w))
  IN  [c EXCEPT !.issues[WarpId[w]] = @ + 1]

\* The counters after w's instruction retired as well.
RetireRecorded(w) == [IssueRecorded(w) EXCEPT !.retired = @ + 1]

\* History: the ready warps other than those of S (the one issued) are passed over.
PassOver(S) ==
  /\ passedOver' = [u \in Warp |-> IF u \in S THEN 0
                                   ELSE IF u \in Ready THEN passedOver[u] + 1
                                   ELSE passedOver[u]]
  /\ waited' = waited + Cardinality(Ready \ S)

\* The scheduler picks w, and every ready warp's wait is accounted for.
Issue(w) ==
  /\ phase = "issue" /\ Selects(w)
  /\ sched' = SchedAfter(w)
  /\ AccountWaits(Credited(w)) /\ PassOver({w})
  /\ UNCHANGED <<kernel, policy, dispatchVars>>

\* The instruction fetched for w is one of these.
Fetch(w, op) == ctx[w].pc < Size /\ FetchedOp(w) = op

NextTick == phase' = "release" /\ UNCHANGED error

\* select_warp returned nullptr: only the waits are accounted for.
TickIdle ==
  /\ phase = "issue" /\ \A w \in warps : ~Selects(w)
  /\ sched' = SchedIdle
  /\ AccountWaits({}) /\ PassOver({})
  /\ counters' = WaitsRecorded({})
  /\ NextTick
  /\ UNCHANGED <<kernel, policy, dispatchVars, warpVars>>

\* The fetch finds pc past the end: the warp completes, its stack with it.
TickFetchEnd(w) ==
  /\ ctx[w].pc >= Size
  /\ state' = [state EXCEPT ![w] = "Completed"]
  /\ counters' = IssueRecorded(w)
  /\ NextTick
  /\ UNCHANGED <<readySince, ctx, stall, arrivals, retired>>

\* Step 5 of the tick for an instruction that left context c at this latency.
Retire(w, c, latency) ==
  LET ended  == c.pc >= Size
      stalls == ~ended /\ latency > 1
  IN  /\ ctx' = [ctx EXCEPT ![w] = PathEnded(c, Size)]
      /\ state' = [state EXCEPT ![w] =
                     IF ended /\ c.stack = <<>> THEN "Completed"
                     ELSE IF stalls THEN "Stalled" ELSE @]
      /\ stall' = [stall EXCEPT ![w] = IF stalls THEN latency - 1 ELSE @]
      /\ retired' = [retired EXCEPT ![w] = [at |-> counters.cycles, latency |-> latency,
                                            ended |-> ended]]
      /\ UNCHANGED <<readySince, arrivals>>

TickAlu(w) ==
  /\ Fetch(w, "ALU") /\ Retire(w, Advanced(ctx[w]), 1)
  /\ counters' = RetireRecorded(w) /\ NextTick

\* LOAD, STORE and ATOMIC_ADD: the latency is the memory system's.
TickMem(w) ==
  /\ Fetch(w, "MEM")
  /\ \E latency \in Latencies : Retire(w, Advanced(ctx[w]), latency)
  /\ counters' = [RetireRecorded(w) EXCEPT !.memory = @ + 1]
  /\ NextTick

\* MemorySystem throws (address out of range, mixed shared and global lanes).
TickMemThrow(w) ==
  /\ MayFaultInMemory /\ Fetch(w, "MEM")
  /\ counters' = IssueRecorded(w) /\ Throw("Memory")
  /\ UNCHANGED warpVars

TickCmp(w) ==
  /\ Fetch(w, "CMP")
  /\ \E equal \in SUBSET ctx[w].mask : Retire(w, Compared(ctx[w], equal), 1)
  /\ counters' = RetireRecorded(w) /\ NextTick

TickBranch(w) ==
  /\ Fetch(w, "BRANCH") /\ Retire(w, Branched(ctx[w], FetchedImm(w)), 1)
  /\ counters' = RetireRecorded(w) /\ NextTick

TickSsy(w) ==
  /\ Fetch(w, "SSY") /\ Retire(w, TokenPushed(ctx[w], FetchedImm(w)), 1)
  /\ counters' = RetireRecorded(w) /\ NextTick

TickSync(w) ==
  /\ Fetch(w, "SYNC") /\ ctx[w].stack # <<>>
  /\ Retire(w, Synced(ctx[w]), 1)
  /\ counters' = RetireRecorded(w) /\ NextTick

\* "SYNC executed with empty SIMT stack"
TickSyncThrow(w) ==
  /\ Fetch(w, "SYNC") /\ ctx[w].stack = <<>>
  /\ counters' = IssueRecorded(w) /\ Throw("EmptySync")
  /\ UNCHANGED warpVars

-----------------------------------------------------------------------------
(* BARRIER and SM::handle_barrier_arrival.                                 *)

\* All lanes of w take part; w's mates are those the SM holds.
Arrive(w) ==
  /\ Fetch(w, "BARRIER") /\ ctx[w].mask = Lanes[w]
  /\ arrivals' = [arrivals EXCEPT ![w] = @ + 1]
  /\ UNCHANGED <<stall, retired>>

Others(w) == {u \in warps \ {w} : BlockOf[u] = BlockOf[w]}

\* Mutant of AllIn: a warp stalled on memory counts as arrived.
AllInOrStalled(w) == \A u \in Others(w) : state[u] # "Ready"

\* Mutant of AllIn: the warps of every resident block are counted.
AllInOnSM(w) == \A u \in warps \ {w} : state[u] \in {"StalledAtBarrier", "Completed"}

\* stalled_warps + completed_warps == total_warps, with w already stalled.
AllIn(w) == \A u \in Others(w) : state[u] \in {"StalledAtBarrier", "Completed"}

SomeCompleted(w) == \E u \in Others(w) : state[u] = "Completed"

\* Mutant of TickBarrierWait: step 5 completes a warp that waits at a BARRIER
\* which ends the kernel.
TickBarrierWaitEnds(w) ==
  /\ Arrive(w) /\ ~AllIn(w)
  /\ state' = [state EXCEPT ![w] = IF Advanced(ctx[w]).pc >= Size THEN "Completed"
                                  ELSE "StalledAtBarrier"]
  /\ ctx' = [ctx EXCEPT ![w] = PathEnded(Advanced(@), Size)]
  /\ counters' = RetireRecorded(w) /\ NextTick
  /\ UNCHANGED readySince

TickBarrierWait(w) ==
  /\ Arrive(w) /\ ~AllIn(w)
  /\ state' = [state EXCEPT ![w] = "StalledAtBarrier"]
  /\ ctx' = [ctx EXCEPT ![w] = PathEnded(Advanced(@), Size)]
  /\ counters' = RetireRecorded(w) /\ NextTick
  /\ UNCHANGED readySince

\* Mutant of Freed: only the warp that arrives last goes on.
FreedArriver(w) == {w}

\* The warps a release makes ready.
Freed(w) == {w} \cup {u \in Others(w) : state[u] = "StalledAtBarrier"}

\* The last arrival releases the block, and completes at once if it ran off
\* the end of the kernel.
TickBarrierRelease(w) ==
  LET c        == Advanced(ctx[w])
      finishes == c.pc >= Size /\ c.stack = <<>>
  IN  /\ Arrive(w) /\ AllIn(w) /\ ~SomeCompleted(w)
      /\ state' = [u \in Warp |-> IF u = w /\ finishes THEN "Completed"
                                  ELSE IF u \in Freed(w) THEN "Ready"
                                  ELSE state[u]]
      /\ readySince' = [u \in Warp |-> IF u \in Freed(w) THEN counters.cycles
                                       ELSE readySince[u]]
      /\ ctx' = [ctx EXCEPT ![w] = PathEnded(c, Size)]
      /\ counters' = RetireRecorded(w) /\ NextTick

\* "Malformed barrier: some warps in the block completed without reaching the
\* barrier."
TickBarrierMalformed(w) ==
  /\ Arrive(w) /\ AllIn(w) /\ SomeCompleted(w)
  /\ state' = [state EXCEPT ![w] = "StalledAtBarrier"]
  /\ ctx' = [ctx EXCEPT ![w] = Advanced(@)]
  /\ counters' = IssueRecorded(w) /\ Throw("MalformedBarrier")
  /\ UNCHANGED readySince

\* "Divergent barrier within warp"
TickBarrierDivergent(w) ==
  /\ Fetch(w, "BARRIER") /\ ctx[w].mask # Lanes[w]
  /\ counters' = IssueRecorded(w) /\ Throw("DivergentBarrier")
  /\ UNCHANGED warpVars

-----------------------------------------------------------------------------
\* The tick in which w is selected.
Tick(w) ==
  /\ Issue(w)
  /\ \/ TickFetchEnd(w) \/ TickAlu(w) \/ TickMem(w) \/ TickMemThrow(w) \/ TickCmp(w)
     \/ TickBranch(w) \/ TickSsy(w) \/ TickSync(w) \/ TickSyncThrow(w)
     \/ TickBarrierWait(w) \/ TickBarrierRelease(w)
     \/ TickBarrierMalformed(w) \/ TickBarrierDivergent(w)

\* The run is over: returned, thrown, or cut by the bound on cycles.
Ended ==
  /\ \/ phase \in {"done", "thrown"}
     \/ phase = "admit" /\ counters.cycles >= MaxCycles
  /\ UNCHANGED vars

Next ==
  \/ ReleaseBlocks \/ AdmitBlock \/ AdmitStop \/ AdmitThrow
  \/ WakeWarps \/ TickIdle \/ (\E w \in Warp : Tick(w)) \/ Ended

Spec == Init /\ [][Next]_vars

\* The host thread never pauses: run_to_completion is one sequential loop.
FairSpec == Spec /\ WF_vars(Next)
-----------------------------------------------------------------------------
(* Properties.                                                             *)

\* Every variable holds a value of its C++ type, and nothing of the grid is
\* executed under an unknown policy or kernel.
TypeOK ==
  /\ kernel \in Kernels /\ phase \in Phase /\ error \in Error
  /\ nextBlock \in Nat /\ resident \subseteq Block /\ warps \subseteq Warp
  /\ state \in [Warp -> WarpState]
  /\ readySince \in [Warp -> Nat] /\ stall \in [Warp -> Nat]
  /\ wait \in [Warp -> Nat] /\ starved \in [Warp -> BOOLEAN]
  /\ arrivals \in [Warp -> Nat]
  /\ \A w \in Warp : ctx[w] \in Context(Lanes[w])

\* The barriers w has left behind: its arrivals, less the one it waits at.
Passed(w) == arrivals[w] - (IF state[w] = "StalledAtBarrier" THEN 1 ELSE 0)

\* handle_barrier_arrival keeps a block in step: at no time has one warp of a
\* block left more barriers behind than another, whatever the scheduler, the
\* latencies and the order of arrival and of completion.
BarrierAgreement == \A w \in Warp : \A u \in Mates(w) : Passed(u) = Passed(w)

\* release_completed_blocks and the dispatch loop agree on what is resident:
\* warps_ holds exactly the warps of resident_blocks_, and a dispatched block
\* that is no longer resident has no unfinished warp (no work is dropped).
NoWorkDropped ==
  /\ warps = {w \in Warp : BlockOf[w] \in resident}
  /\ \A w \in Warp : BlockOf[w] < nextBlock /\ w \notin warps => state[w] = "Completed"

\* WarpScheduler::select_warp returns a warp, and only one, when one is ready.
SelectsWhenReady ==
  phase = "issue" /\ Ready # {} => Cardinality({w \in warps : Selects(w)}) = 1

\* The warps and the blocks that were dispatched, and the blocks that have left.
Dispatched == {w \in Warp : BlockOf[w] < nextBlock}
Departed == {b \in Block : b < nextBlock /\ b \notin resident}

\* RoundRobinScheduler starves no ready warp.  Its index moves one place past each
\* warp it issues, so it passes a warp over fewer times than there are warps; the
\* erase of a released block shifts the others under the index, and the warps of
\* the next block join the vector, which costs a warp at most one more round for
\* each block that has left.
RoundRobinBound ==
  policy = "RR" =>
    \A w \in Ready :
      passedOver[w] < (1 + Cardinality(Departed)) * Cardinality(Dispatched)

\* The wait recorded for issued warps and the wait still pending add up to the
\* warp-cycles in which a ready warp was passed over.
WaitConservation ==
  counters.waitTotal + WaitOf(Warp) = waited

\* Among warps that share ids some of these warp-cycles are lost, but none is
\* recorded twice: record_warp_wait and reset_wait go together.
WaitsNotOvercounted ==
  counters.waitTotal + WaitOf(Warp) <= waited

\* The first cycle in which a warp may be selected after its last instruction: a
\* latency of n > 2 keeps it for n - 1 cycles, a shorter one for one; the latency
\* of an instruction that ends a path is dropped.
DueAt(w) ==
  retired[w].at + (IF retired[w].ended \/ retired[w].latency <= 2 THEN 1
                   ELSE retired[w].latency - 1)

\* stall, tick_stall and the order of SM::tick charge a memory latency exactly:
\* when warps are selected, one is stalled if and only if its last instruction has
\* cycles left to run, whatever happened on the SM in between.
LatencyPaid ==
  phase = "issue" =>
    \A w \in warps : (state[w] = "Stalled") <=> (counters.cycles < DueAt(w))

\* No warp can ever run again: nothing is selected, nothing is waiting for
\* memory, and the SM is not completed.
Stuck ==
  /\ phase = "issue" /\ ~Completed
  /\ \A w \in warps : ~Selects(w) /\ state[w] # "Stalled"

\* sm.cpp:199: "true silent deadlocks (where all warps are indefinitely stalled
\* without being malformed) are structurally unreachable".
NoSilentDeadlock == ~Stuck

\* The run ends, by returning or by an exception.
Terminates == <>(phase \in {"done", "thrown"})

\* Every lane executes the program it would execute alone: it moves only to the
\* successor of its own instruction under its own predicate, is never skipped
\* ahead, sent back, or forgotten when its warp completes (BRANCH, SSY, SYNC
\* and the pop at the end of a path).
LaneAt(w, l) == IF state[w] = "Completed" THEN Size ELSE LanePc(ctx[w], l, Size)
LaneMoves(w, l) ==
  LET p == LaneAt(w, l)
  IN  LaneAt(w, l)' # p => p < Size /\ LaneAt(w, l)' = LaneNext(kernel, ctx[w], l, p)
LanesFollowProgram == [][\A w \in Warp : \A l \in Lanes[w] : LaneMoves(w, l)]_vars

\* A structured kernel (every divergence between an SSY and its SYNC) has all
\* lanes back at each BARRIER and never pops an empty stack.
Reconverges == error \notin {"EmptySync", "DivergentBarrier"}

\* The abstract barrier, seen through the state of the warps.
AbstractBarrier ==
  INSTANCE Barrier WITH waiting <- {w \in Warp : state[w] = "StalledAtBarrier"},
                        passed <- [w \in Warp |-> Passed(w)],
                        exited <- {w \in Warp : state[w] = "Completed"}

\* handle_barrier_arrival and the completion of warps implement the abstract
\* block barrier.
ImplementsBarrier == AbstractBarrier!BarrierSpec
=============================================================================
