------------------------------ MODULE SMProofs ------------------------------
(***************************************************************************)
(* Proofs about SM, for every grid, kernel, policy and latency.            *)
(*                                                                         *)
(* What a tick does to the barrier is small: of the selected warp w, which *)
(* is Ready, it changes the state and, at a BARRIER, the arrivals; only    *)
(* the release of a barrier touches other warps.  TickEffect says so once, *)
(* and the invariants below are proved from it.                            *)
(***************************************************************************)
EXTENDS SM, SIMTProofs, SchedulerProofs, FiniteSetTheorems, TLAPS

\* The warps the SM ticks are those of the resident blocks.
Residency == warps = {w \in Warp : BlockOf[w] \in resident}

StateTyped == state \in [Warp -> WarpState] /\ arrivals \in [Warp -> Nat]

\* w executed something other than a BARRIER, or threw.
PlainStep(w) ==
  /\ arrivals' = arrivals
  /\ \E s \in {"Ready", "Stalled", "Completed"} : state' = [state EXCEPT ![w] = s]

\* w executed a BARRIER that a mate has not reached, and waits there (or threw
\* MalformedBarrier, because the mate has completed).
WaitStep(w) ==
  /\ \E u \in Others(w) : state[u] # "StalledAtBarrier"
  /\ arrivals' = [arrivals EXCEPT ![w] = @ + 1]
  /\ state' = [state EXCEPT ![w] = "StalledAtBarrier"]

\* w was the last to arrive.
ReleaseStep(w) ==
  /\ arrivals' = [arrivals EXCEPT ![w] = @ + 1]
  /\ \A u \in Others(w) : state[u] = "StalledAtBarrier"
  /\ \E s \in {"Ready", "Completed"} :
       state' = [u \in Warp |-> IF u = w THEN s
                                ELSE IF u \in Others(w) THEN "Ready" ELSE state[u]]

\* A tick of w is one of these three, and leaves the dispatch alone.
LEMMA TickEffect ==
  ASSUME StateTyped, NEW w \in Warp, Tick(w)
  PROVE  /\ w \in warps /\ state[w] = "Ready"
         /\ UNCHANGED <<nextBlock, resident, warps>>
         /\ PlainStep(w) \/ WaitStep(w) \/ ReleaseStep(w)
<1>1. w \in warps /\ state[w] = "Ready"
  BY DEF Tick, Issue, Selects, Ready
<1>2. UNCHANGED <<nextBlock, resident, warps>>
  BY DEF Tick, Issue, dispatchVars
<1> SUFFICES PlainStep(w) \/ WaitStep(w) \/ ReleaseStep(w)
  BY <1>1, <1>2
<1>3. CASE TickFetchEnd(w)
  BY <1>3 DEF TickFetchEnd, PlainStep
<1>4. ASSUME NEW c, NEW n, Retire(w, c, n)
      PROVE  PlainStep(w)
  <2>1. state' = [state EXCEPT ![w] = "Completed"] \/ state' = [state EXCEPT ![w] = "Stalled"]
        \/ state' = [state EXCEPT ![w] = state[w]]
    BY <1>4 DEF Retire
  <2>2. arrivals' = arrivals
    BY <1>4 DEF Retire
  <2> QED
    BY <1>1, <2>1, <2>2 DEF PlainStep
<1>5. CASE TickAlu(w) \/ TickMem(w) \/ TickCmp(w) \/ TickBranch(w) \/ TickSsy(w) \/ TickSync(w)
  <2>1. \E c, n : Retire(w, c, n)
    BY <1>5, Zenon DEF TickAlu, TickMem, TickCmp, TickBranch, TickSsy, TickSync
  <2> QED
    BY <1>4, <2>1
<1>6. CASE TickMemThrow(w) \/ TickSyncThrow(w) \/ TickBarrierDivergent(w)
  <2>1. UNCHANGED <<state, arrivals>>
    BY <1>6 DEF TickMemThrow, TickSyncThrow, TickBarrierDivergent, warpVars
  <2>2. state' = [state EXCEPT ![w] = "Ready"]
    BY <1>1, <2>1 DEF StateTyped
  <2> QED
    BY <2>1, <2>2 DEF PlainStep
<1>7. CASE TickBarrierWait(w) \/ TickBarrierMalformed(w)
  <2>1. \E u \in Others(w) : state[u] # "StalledAtBarrier"
    BY <1>7 DEF TickBarrierWait, TickBarrierMalformed, AllIn, SomeCompleted
  <2> QED
    BY <1>7, <2>1 DEF TickBarrierWait, TickBarrierMalformed, Arrive, WaitStep
<1>8. CASE TickBarrierRelease(w)
  <2>1. arrivals' = [arrivals EXCEPT ![w] = @ + 1]
    BY <1>8 DEF TickBarrierRelease, Arrive
  <2>2. \A u \in Others(w) : state[u] = "StalledAtBarrier"
    BY <1>8 DEF TickBarrierRelease, AllIn, SomeCompleted
  <2>3. Freed(w) = {w} \cup Others(w)
    BY <2>2 DEF Freed
  <2>4. PICK finishes \in BOOLEAN :
          state' = [u \in Warp |-> IF u = w /\ finishes THEN "Completed"
                                   ELSE IF u \in Freed(w) THEN "Ready" ELSE state[u]]
    <3> DEFINE c == Advanced(ctx[w])
               f == c.pc >= Size /\ c.stack = <<>>
    <3>1. f \in BOOLEAN
      OBVIOUS
    <3>2. state' = [u \in Warp |-> IF u = w /\ f THEN "Completed"
                                   ELSE IF u \in Freed(w) THEN "Ready" ELSE state[u]]
      BY <1>8 DEF TickBarrierRelease
    <3> QED
      BY <3>1, <3>2
  <2> DEFINE s == IF finishes THEN "Completed" ELSE "Ready"
  <2>5. state' = [u \in Warp |-> IF u = w THEN s
                                 ELSE IF u \in Others(w) THEN "Ready" ELSE state[u]]
    BY <2>3, <2>4
  <2>6. s \in {"Ready", "Completed"}
    OBVIOUS
  <2>7. ReleaseStep(w)
    BY <2>1, <2>2, <2>5, <2>6, Zenon DEF ReleaseStep
  <2> QED
    BY <2>7
<1> QED
  BY <1>1, <1>2, <1>3, <1>5, <1>6, <1>7, <1>8 DEF Tick

-----------------------------------------------------------------------------
\* The inductive invariant behind BarrierAgreement and NoWorkDropped.  The
\* release of a barrier looks at the warps the SM holds, so agreement among all
\* warps of a block needs Residency: a block is on the SM as a whole.
CoreInv ==
  /\ StateTyped /\ nextBlock \in Nat
  /\ NoWorkDropped /\ BarrierAgreement

\* WakeWarps makes some stalled warps of the SM ready.
WakeStep ==
  /\ arrivals' = arrivals
  /\ \E S \in SUBSET {w \in warps : state[w] = "Stalled"} :
       state' = [w \in Warp |-> IF w \in S THEN "Ready" ELSE state[w]]

\* A step that is not a tick, as far as warps and their states go.
LEMMA HostEffect ==
  ASSUME StateTyped, Next, ~\E w \in Warp : Tick(w)
  PROVE  \/ ReleaseBlocks /\ UNCHANGED <<state, arrivals, nextBlock>>
         \/ AdmitBlock /\ UNCHANGED <<state, arrivals>>
         \/ WakeStep /\ UNCHANGED <<nextBlock, resident, warps>>
         \/ UNCHANGED <<state, arrivals, nextBlock, resident, warps>>
<1>1. CASE ReleaseBlocks
  BY <1>1 DEF ReleaseBlocks, warpVars
<1>2. CASE AdmitBlock
  BY <1>2 DEF AdmitBlock, warpVars
<1>3. CASE WakeWarps
  <2> DEFINE S == {w \in warps : Wakes(w)}
  <2>1. S \in SUBSET {w \in warps : state[w] = "Stalled"}
    BY DEF Wakes
  <2>2. state' = [w \in Warp |-> IF w \in S THEN "Ready" ELSE state[w]]
    <3>1. state' = [w \in Warp |-> IF Wakes(w) THEN "Ready" ELSE state[w]]
      BY <1>3, Zenon DEF WakeWarps
    <3>2. \A w : Wakes(w) <=> w \in S
      BY DEF Wakes
    <3> HIDE DEF S
    <3> QED
      BY <3>1, <3>2
  <2>3. UNCHANGED <<arrivals, nextBlock, resident, warps>>
    BY <1>3, Zenon DEF WakeWarps, dispatchVars
  <2> HIDE DEF S
  <2>4. WakeStep
    BY <2>1, <2>2, <2>3, Zenon DEF WakeStep
  <2> QED
    BY <2>3, <2>4
<1>4. CASE AdmitStop \/ AdmitThrow \/ TickIdle \/ Ended
  BY <1>4 DEF AdmitStop, AdmitThrow, TickIdle, Ended, dispatchVars, warpVars, vars
<1> QED
  BY <1>1, <1>2, <1>3, <1>4 DEF Next

\* The blocks of the grid are numbered from 1.
LEMMA BlocksNumbered ==
  /\ Block \subseteq Nat \ {0}
  /\ \A w \in Warp : BlockOf[w] \in Nat \ {0}
<1>1. Cardinality(Block) \in Nat
  BY SMAssumption, FS_CardinalityType
<1>2. Block \subseteq Nat \ {0}
  BY <1>1, SMAssumption
<1> QED
  BY <1>2, SMAssumption

\* CoreInv holds initially.
LEMMA CoreInit == Init => CoreInv
<1> SUFFICES ASSUME Init PROVE CoreInv
  OBVIOUS
<1>1. StateTyped
  BY DEF Init, StateTyped, WarpState
<1>2. nextBlock \in Nat /\ warps = {} /\ resident = {} /\ nextBlock = 1
  BY DEF Init
<1>3. NoWorkDropped
  BY <1>2, BlocksNumbered DEF NoWorkDropped
<1>4. BarrierAgreement
  BY DEF Init, BarrierAgreement, Passed, Mates
<1> QED
  BY <1>1, <1>2, <1>3, <1>4 DEF CoreInv

\* CoreInv is preserved by every step.
LEMMA CoreStep == CoreInv /\ [Next]_vars => CoreInv'
<1> SUFFICES ASSUME CoreInv, [Next]_vars PROVE CoreInv'
  OBVIOUS
<1> USE DEF CoreInv
<1>1. CASE UNCHANGED <<state, arrivals, nextBlock, resident, warps>>
  BY <1>1 DEF StateTyped, NoWorkDropped, BarrierAgreement, Passed, Mates
<1>2. CASE ReleaseBlocks /\ UNCHANGED <<state, arrivals, nextBlock>>
  <2>1. StateTyped' /\ nextBlock' \in Nat /\ BarrierAgreement'
    BY <1>2 DEF StateTyped, BarrierAgreement, Passed, Mates
  <2> DEFINE gone == {b \in resident : BlockDone(b)}
  <2>2. resident' = resident \ gone /\ warps' = {w \in warps : BlockOf[w] \notin gone}
    BY <1>2 DEF ReleaseBlocks
  <2>3. \A w \in warps : BlockOf[w] \in gone => state[w] = "Completed"
    BY DEF BlockDone
  <2> HIDE DEF gone
  <2>4. warps' = {w \in Warp : BlockOf[w] \in resident'}
    BY <2>2 DEF NoWorkDropped
  <2>5. ASSUME NEW w \in Warp, BlockOf[w] < nextBlock', w \notin warps'
        PROVE  state'[w] = "Completed"
    BY <1>2, <2>2, <2>3, <2>5 DEF NoWorkDropped
  <2> QED
    BY <2>1, <2>4, <2>5 DEF NoWorkDropped
<1>3. CASE AdmitBlock /\ UNCHANGED <<state, arrivals>>
  <2>1. StateTyped' /\ nextBlock' \in Nat /\ BarrierAgreement'
    BY <1>3 DEF AdmitBlock, StateTyped, BarrierAgreement, Passed, Mates
  <2>2. /\ resident' = resident \cup {nextBlock}
        /\ warps' = warps \cup {w \in Warp : BlockOf[w] = nextBlock}
        /\ nextBlock' = nextBlock + 1
    BY <1>3 DEF AdmitBlock
  <2>3. warps' = {w \in Warp : BlockOf[w] \in resident'}
    BY <2>2 DEF NoWorkDropped
  <2>4. ASSUME NEW w \in Warp, BlockOf[w] < nextBlock', w \notin warps'
        PROVE  state'[w] = "Completed"
    <3>1. BlockOf[w] \in Nat /\ BlockOf[w] # nextBlock /\ w \notin warps
      BY <2>2, <2>4, BlocksNumbered
    <3>2. BlockOf[w] < nextBlock
      BY <2>2, <2>4, <3>1
    <3> QED
      BY <1>3, <3>1, <3>2 DEF NoWorkDropped
  <2> QED
    BY <2>1, <2>3, <2>4 DEF NoWorkDropped
<1>4. CASE WakeStep /\ UNCHANGED <<nextBlock, resident, warps>>
  <2>1. PICK S \in SUBSET {w \in warps : state[w] = "Stalled"} :
          state' = [w \in Warp |-> IF w \in S THEN "Ready" ELSE state[w]]
    BY <1>4 DEF WakeStep
  <2>2. arrivals' = arrivals
    BY <1>4 DEF WakeStep
  <2>3. StateTyped'
    BY <2>1, <2>2 DEF StateTyped, WarpState
  <2>4. NoWorkDropped'
    BY <1>4, <2>1 DEF NoWorkDropped
  <2>5. \A w \in Warp : Passed(w)' = Passed(w)
    BY <2>1, <2>2 DEF Passed
  <2>6. BarrierAgreement'
    BY <2>5 DEF BarrierAgreement, Mates
  <2> QED
    BY <1>4, <2>3, <2>4, <2>6
<1>5. ASSUME NEW w \in Warp, Tick(w)
      PROVE  CoreInv'
  <2>1. /\ w \in warps /\ state[w] = "Ready"
        /\ UNCHANGED <<nextBlock, resident, warps>>
        /\ PlainStep(w) \/ WaitStep(w) \/ ReleaseStep(w)
    BY <1>5, TickEffect
  <2>2. Others(w) = Mates(w) \ {w}
    BY <2>1 DEF Others, Mates, NoWorkDropped
  <2>3. CASE PlainStep(w)
    <3>1. StateTyped'
      BY <2>3 DEF PlainStep, StateTyped, WarpState
    <3>2. NoWorkDropped'
      BY <2>1, <2>3 DEF PlainStep, NoWorkDropped, StateTyped
    <3>3. \A u \in Warp : Passed(u)' = Passed(u)
      BY <2>1, <2>3 DEF PlainStep, Passed, StateTyped
    <3>4. BarrierAgreement'
      BY <3>3 DEF BarrierAgreement, Mates
    <3> QED
      BY <2>1, <3>1, <3>2, <3>4
  <2>4. CASE WaitStep(w)
    <3>1. StateTyped'
      BY <2>4 DEF WaitStep, StateTyped, WarpState
    <3>2. NoWorkDropped'
      BY <2>1, <2>4 DEF WaitStep, NoWorkDropped, StateTyped
    <3>3. \A u \in Warp : Passed(u)' = Passed(u)
      BY <2>1, <2>4 DEF WaitStep, Passed, StateTyped
    <3>4. BarrierAgreement'
      BY <3>3 DEF BarrierAgreement, Mates
    <3> QED
      BY <2>1, <3>1, <3>2, <3>4
  <2>5. CASE ReleaseStep(w)
    <3>1. StateTyped'
      BY <2>5 DEF ReleaseStep, StateTyped, WarpState
    <3>2. NoWorkDropped'
      BY <2>1, <2>5 DEF ReleaseStep, NoWorkDropped, StateTyped, Others
    <3>3. \A u \in Warp : Passed(u)' = IF u \in Mates(w) THEN Passed(u) + 1 ELSE Passed(u)
      <4>1. \A u \in Mates(w) \ {w} : state[u] = "StalledAtBarrier" /\ state'[u] = "Ready"
                                      /\ arrivals'[u] = arrivals[u]
        BY <2>2, <2>5 DEF ReleaseStep, StateTyped, Mates
      <4>2. state[w] = "Ready" /\ state'[w] # "StalledAtBarrier" /\ arrivals'[w] = arrivals[w] + 1
        BY <2>1, <2>5 DEF ReleaseStep, StateTyped
      <4>3. \A u \in Warp \ Mates(w) : state'[u] = state[u] /\ arrivals'[u] = arrivals[u]
        BY <2>2, <2>5 DEF ReleaseStep, StateTyped, Mates
      <4> QED
        BY <4>1, <4>2, <4>3 DEF Passed, StateTyped, Mates
    <3>4. BarrierAgreement'
      BY <3>3 DEF BarrierAgreement, Mates
    <3> QED
      BY <2>1, <3>1, <3>2, <3>4
  <2> QED
    BY <2>1, <2>3, <2>4, <2>5
<1>6. CASE Next /\ ~\E w \in Warp : Tick(w)
  BY <1>1, <1>2, <1>3, <1>4, <1>6, HostEffect
<1>7. CASE UNCHANGED vars
  BY <1>1, <1>7 DEF vars, dispatchVars, warpVars
<1> QED
  BY <1>5, <1>6, <1>7

\* No warp of a block is ever a barrier ahead of another: the barrier of
\* SM::handle_barrier_arrival keeps every block of every grid in step.
THEOREM BarrierAgreementHolds == Spec => []BarrierAgreement
<1>1. CoreInv => BarrierAgreement
  BY DEF CoreInv
<1> QED
  BY <1>1, CoreInit, CoreStep, PTL DEF Spec

\* release_completed_blocks and the dispatch loop never drop a warp that has
\* work left, and warps_ and resident_blocks_ always agree.
THEOREM NoWorkDroppedHolds == Spec => []NoWorkDropped
<1>1. CoreInv => NoWorkDropped
  BY DEF CoreInv
<1> QED
  BY <1>1, CoreInit, CoreStep, PTL DEF Spec

-----------------------------------------------------------------------------
(* SM implements Barrier.                                                  *)

Waiting == {w \in Warp : state[w] = "StalledAtBarrier"}
Exited == {w \in Warp : state[w] = "Completed"}
PassedAll == [w \in Warp |-> Passed(w)]

\* An initial state of SM is one of Barrier.
LEMMA RefinesInit == Init => AbstractBarrier!BarrierInit
<1> SUFFICES ASSUME Init PROVE AbstractBarrier!BarrierInit
  OBVIOUS
<1>1. Waiting = {} /\ Exited = {} /\ PassedAll = [w \in Warp |-> 0]
  BY DEF Init, Waiting, Exited, PassedAll, Passed
<1> QED
  BY <1>1 DEF AbstractBarrier!BarrierInit, Waiting, Exited, PassedAll

\* A tick of w is a Wait, a Release or an Exit of w, or does not concern the
\* barrier.  MalformedBarrier is a Wait too: a mate has completed, so it is not
\* among the waiting warps.
LEMMA RefinesTick ==
  ASSUME CoreInv, NEW w \in Warp, Tick(w)
  PROVE  AbstractBarrier!BarrierNext \/ UNCHANGED <<Waiting, PassedAll, Exited>>
<1> USE DEF CoreInv
<1>1. /\ w \in warps /\ state[w] = "Ready"
      /\ PlainStep(w) \/ WaitStep(w) \/ ReleaseStep(w)
  BY TickEffect
<1>2. AbstractBarrier!Running(w)
  BY <1>1 DEF AbstractBarrier!Running
<1>3. Others(w) = Mates(w) \ {w} /\ AbstractBarrier!BlockMates(w) = Mates(w)
  BY <1>1 DEF Others, Mates, NoWorkDropped, AbstractBarrier!BlockMates
<1>4. CASE PlainStep(w)
  <2>1. PassedAll' = PassedAll
    BY <1>1, <1>4 DEF PlainStep, PassedAll, Passed, StateTyped
  <2>2. Waiting' = Waiting
    BY <1>1, <1>4 DEF PlainStep, Waiting, StateTyped
  <2>3. Exited' = Exited \/ Exited' = Exited \cup {w}
    BY <1>1, <1>4 DEF PlainStep, Exited, StateTyped
  <2>4. Exited' = Exited \cup {w} => AbstractBarrier!Exit(w)
    BY <1>2, <2>1, <2>2 DEF AbstractBarrier!Exit, Waiting, Exited, PassedAll
  <2> QED
    BY <2>1, <2>2, <2>3, <2>4 DEF AbstractBarrier!BarrierNext
<1>5. CASE WaitStep(w)
  <2>1. PassedAll' = PassedAll
    BY <1>1, <1>5 DEF WaitStep, PassedAll, Passed, StateTyped
  <2>2. Waiting' = Waiting \cup {w} /\ Exited' = Exited
    BY <1>1, <1>5 DEF WaitStep, Waiting, Exited, StateTyped
  <2>3. \E u \in AbstractBarrier!BlockMates(w) \ {w} : u \notin Waiting
    BY <1>3, <1>5 DEF WaitStep, Waiting
  <2>4. AbstractBarrier!Wait(w)
    BY <1>2, <2>1, <2>2, <2>3 DEF AbstractBarrier!Wait, Waiting, Exited, PassedAll
  <2> QED
    BY <2>4 DEF AbstractBarrier!BarrierNext
<1>6. CASE ReleaseStep(w)
  <2>1. \A u \in Mates(w) \ {w} : /\ state[u] = "StalledAtBarrier" /\ state'[u] = "Ready"
                                 /\ arrivals'[u] = arrivals[u]
    BY <1>3, <1>6 DEF ReleaseStep, StateTyped, Mates
  <2>2. /\ state'[w] \in {"Ready", "Completed"} /\ arrivals'[w] = arrivals[w] + 1
    BY <1>1, <1>6 DEF ReleaseStep, StateTyped
  <2>3. \A u \in Warp \ Mates(w) : state'[u] = state[u] /\ arrivals'[u] = arrivals[u]
    BY <1>3, <1>6 DEF ReleaseStep, StateTyped, Mates
  <2>4. Mates(w) \ {w} \subseteq Waiting
    BY <2>1 DEF Waiting, Mates
  <2>5. Waiting' = Waiting \ Mates(w)
    BY <1>1, <2>1, <2>2, <2>3 DEF Waiting, Mates
  <2>6. PassedAll' = [u \in Warp |-> IF u \in Mates(w) THEN PassedAll[u] + 1 ELSE PassedAll[u]]
    <3>1. \A u \in Warp : Passed(u)' = IF u \in Mates(w) THEN Passed(u) + 1 ELSE Passed(u)
      BY <1>1, <2>1, <2>2, <2>3 DEF Passed, StateTyped, Mates
    <3> QED
      BY <3>1, Zenon DEF PassedAll
  <2>7. Exited' \in {Exited, Exited \cup {w}}
    BY <1>1, <2>1, <2>2, <2>3 DEF Exited, Mates
  <2>8. AbstractBarrier!Release(w)
    BY <1>2, <1>3, <2>4, <2>5, <2>6, <2>7
    DEF AbstractBarrier!Release, Waiting, Exited, PassedAll
  <2> QED
    BY <2>8 DEF AbstractBarrier!BarrierNext
<1> QED
  BY <1>1, <1>4, <1>5, <1>6

\* Every step of SM is a step of Barrier or leaves its variables unchanged.
LEMMA RefinesNext ==
  CoreInv /\ [Next]_vars => [AbstractBarrier!BarrierNext]_(AbstractBarrier!barrierVars)
<1> SUFFICES ASSUME CoreInv, [Next]_vars
             PROVE  AbstractBarrier!BarrierNext \/ UNCHANGED <<Waiting, PassedAll, Exited>>
  BY DEF AbstractBarrier!barrierVars, Waiting, PassedAll, Exited
<1>1. CASE UNCHANGED <<state, arrivals>>
  BY <1>1 DEF Waiting, PassedAll, Exited, Passed
<1>2. CASE WakeStep
  <2>1. PICK S \in SUBSET {w \in warps : state[w] = "Stalled"} :
          state' = [w \in Warp |-> IF w \in S THEN "Ready" ELSE state[w]]
    BY <1>2 DEF WakeStep
  <2>2. arrivals' = arrivals
    BY <1>2 DEF WakeStep
  <2>3. Waiting' = Waiting /\ Exited' = Exited
    BY <2>1 DEF Waiting, Exited
  <2>4. PassedAll' = PassedAll
    BY <2>1, <2>2 DEF PassedAll, Passed
  <2> QED
    BY <2>3, <2>4
<1>3. CASE \E w \in Warp : Tick(w)
  BY <1>3, RefinesTick
<1>4. CASE Next /\ ~\E w \in Warp : Tick(w)
  BY <1>1, <1>2, <1>4, HostEffect DEF CoreInv
<1>5. CASE UNCHANGED vars
  BY <1>1, <1>5 DEF vars, warpVars
<1> QED
  BY <1>3, <1>4, <1>5

\* The tick, the scheduler, divergence, memory stalls and the dispatch of blocks
\* together implement the block barrier of Barrier.
THEOREM BarrierRefinement == Spec => ImplementsBarrier
<1>1. AbstractBarrier!BarrierInit /\ [][AbstractBarrier!BarrierNext]_(AbstractBarrier!barrierVars)
      <=> AbstractBarrier!BarrierSpec
  BY DEF AbstractBarrier!BarrierSpec
<1> QED
  BY <1>1, CoreInit, CoreStep, RefinesInit, RefinesNext, PTL DEF Spec, ImplementsBarrier

-----------------------------------------------------------------------------
(* Types.                                                                  *)

CounterName == {"cycles", "retired", "barrierStalls", "memory", "waitTotal", "waitMax",
                "waitEvents", "starvations", "issues"}

\* A record of counters with a cycle count.
Clocked(c) == /\ c = [n \in CounterName |-> c[n]] /\ c["cycles"] \in Nat

\* TypeOK, with what its proof needs: ready_since_cycle_ is a cycle count.
TypeInv == TypeOK /\ DOMAIN ctx = Warp /\ Clocked(counters)

\* Recording the waits of a set of warps does not touch the cycle count.
LEMMA ClockedWaits ==
  ASSUME Clocked(counters), NEW S
  PROVE  Clocked(WaitsRecorded(S)) /\ WaitsRecorded(S)["cycles"] = counters["cycles"]
<1> DEFINE a == counters.waitTotal + WaitOf(S)
           b == Max({counters.waitMax} \cup {wait[u] : u \in S})
           d == counters.waitEvents + Cardinality({u \in S : wait[u] > 0})
           e == counters.starvations + NewlyStarved(S)
           c == [counters EXCEPT !.waitTotal = a, !.waitMax = b, !.waitEvents = d,
                                 !.starvations = e]
<1>1. WaitsRecorded(S) = c
  BY Zenon DEF WaitsRecorded
<1> HIDE DEF a, b, d, e
<1>2. Clocked(c) /\ c["cycles"] = counters["cycles"]
  BY DEF Clocked, CounterName
<1> QED
  BY <1>1, <1>2, Zenon

\* Recording an issue and a retirement keeps the counters a record with a cycle count.
LEMMA ClockedIssue ==
  ASSUME Clocked(counters), NEW w
  PROVE  /\ Clocked(IssueRecorded(w)) /\ Clocked(RetireRecorded(w))
         /\ Clocked([RetireRecorded(w) EXCEPT !.memory = @ + 1])
<1> DEFINE c == WaitsRecorded(Credited(w))
<1>1. Clocked(c)
  BY ClockedWaits
<1> HIDE DEF c
<1>2. \A v : Clocked([c EXCEPT !.issues[WarpId[w]] = v])
  BY <1>1 DEF Clocked, CounterName
<1>3. Clocked(IssueRecorded(w))
  BY <1>2, Zenon DEF IssueRecorded, c
<1> DEFINE d == IssueRecorded(w)
           r == [d EXCEPT !.retired = d.retired + 1]
<1>4. Clocked(r)
  <2> HIDE DEF d
  <2> QED
    BY <1>3 DEF Clocked, CounterName, d
<1>5. RetireRecorded(w) = r
  BY Zenon DEF RetireRecorded
<1>6. Clocked([r EXCEPT !.memory = r.memory + 1])
  <2> HIDE DEF r
  <2> QED
    BY <1>4 DEF Clocked, CounterName
<1> QED
  BY <1>3, <1>4, <1>5, <1>6, Zenon

\* The part of TypeOK about the warps, and the part about the dispatch.
WarpsTyped ==
  /\ state \in [Warp -> WarpState]
  /\ readySince \in [Warp -> Nat] /\ stall \in [Warp -> Nat]
  /\ arrivals \in [Warp -> Nat]
  /\ DOMAIN ctx = Warp /\ \A w \in Warp : ctx[w] \in Context(Lanes[w])

DispatchTyped ==
  nextBlock \in Nat /\ resident \subseteq Block /\ warps \subseteq Warp

WaitsTyped == wait \in [Warp -> Nat] /\ starved \in [Warp -> BOOLEAN]

HostTyped == kernel \in Kernels /\ phase \in Phase /\ error \in Error

\* TypeInv is the conjunction of its four parts and the clock.
LEMMA TypeParts ==
  TypeInv <=> WarpsTyped /\ DispatchTyped /\ WaitsTyped /\ HostTyped /\ Clocked(counters)
  BY DEF TypeInv, TypeOK, WarpsTyped, DispatchTyped, WaitsTyped, HostTyped

\* The types hold initially.
LEMMA TypeInit == Init => TypeInv
<1> SUFFICES ASSUME Init PROVE TypeInv
  OBVIOUS
<1>1. WarpsTyped
  BY FreshContextType DEF Init, WarpsTyped, WarpState
<1>2. DispatchTyped /\ WaitsTyped
  BY DEF Init, DispatchTyped, WaitsTyped
<1>3. HostTyped
  BY DEF Init, HostTyped, Phase, Error
<1>4. Clocked(counters)
  BY DEF Init, Clocked, CounterName, ZeroCounters
<1> QED
  BY <1>1, <1>2, <1>3, <1>4, TypeParts

\* Step 5 of a tick keeps the warps typed.
LEMMA RetireType ==
  ASSUME WarpsTyped, NEW w \in Warp, NEW c \in Context(Lanes[w]), NEW n \in Nat,
         Retire(w, c, n)
  PROVE  WarpsTyped'
<1>1. ctx' = [ctx EXCEPT ![w] = PathEnded(c, Size)] /\ UNCHANGED <<readySince, arrivals>>
  BY DEF Retire
<1>2. PathEnded(c, Size) \in Context(Lanes[w])
  BY PathEndedType
<1>3. DOMAIN ctx' = Warp /\ \A u \in Warp : ctx'[u] \in Context(Lanes[u])
  BY <1>1, <1>2 DEF WarpsTyped
<1>4. state' \in [Warp -> WarpState]
  <2>1. state' = [state EXCEPT ![w] = "Completed"] \/ state' = [state EXCEPT ![w] = "Stalled"]
        \/ state' = [state EXCEPT ![w] = state[w]]
    BY DEF Retire
  <2> QED
    BY <2>1 DEF WarpsTyped, WarpState
<1>5. stall' \in [Warp -> Nat]
  <2>1. stall' = [stall EXCEPT ![w] = stall[w]] \/ (n > 1 /\ stall' = [stall EXCEPT ![w] = n - 1])
    BY DEF Retire
  <2> QED
    BY <2>1 DEF WarpsTyped
<1> QED
  BY <1>1, <1>3, <1>4, <1>5 DEF WarpsTyped

\* The instruction at a pc inside the kernel has an opcode and an immediate.
LEMMA FetchType ==
  ASSUME HostTyped, WarpsTyped, NEW w \in Warp, ctx[w].pc < Size
  PROVE  FetchedImm(w) \in Int
<1>1. kernel \in Seq(Instruction)
  BY SMAssumption DEF HostTyped
<1>2. ctx[w].pc \in Nat
  BY SizeTAssumption DEF WarpsTyped, Context, PC
<1>3. kernel[ctx[w].pc + 1] \in Instruction
  BY <1>1, <1>2 DEF Size
<1> QED
  BY <1>3 DEF FetchedImm, Instruction

\* A tick keeps the warps typed, whatever the instruction.
LEMMA TickWarpsTyped ==
  ASSUME TypeInv, NEW w \in Warp, Tick(w)
  PROVE  WarpsTyped'
<1>0. WarpsTyped /\ HostTyped /\ Clocked(counters)
  BY TypeParts
<1>1. ctx[w] \in Context(Lanes[w])
  BY <1>0 DEF WarpsTyped
<1>2. CASE TickFetchEnd(w)
  BY <1>0, <1>2 DEF TickFetchEnd, WarpsTyped, WarpState
<1>3. CASE TickAlu(w)
  BY <1>0, <1>1, <1>3, RetireType, AdvancedType DEF TickAlu
<1>4. CASE TickMem(w)
  <2>1. PICK n \in Latencies : Retire(w, Advanced(ctx[w]), n)
    BY <1>4, Zenon DEF TickMem
  <2>2. n \in Nat
    BY SMAssumption
  <2> QED
    BY <1>0, <1>1, <2>1, <2>2, RetireType, AdvancedType
<1>5. CASE TickCmp(w)
  <2>1. PICK equal \in SUBSET ctx[w].mask : Retire(w, Compared(ctx[w], equal), 1)
    BY <1>5, Zenon DEF TickCmp
  <2> QED
    BY <1>0, <1>1, <2>1, RetireType, ComparedType
<1>6. CASE TickBranch(w)
  BY <1>0, <1>1, <1>6, RetireType, BranchedType, FetchType DEF TickBranch, Fetch
<1>7. CASE TickSsy(w)
  BY <1>0, <1>1, <1>7, RetireType, TokenPushedType, FetchType DEF TickSsy, Fetch
<1>8. CASE TickSync(w)
  BY <1>0, <1>1, <1>8, RetireType, SyncedType DEF TickSync
<1>9. CASE TickMemThrow(w) \/ TickSyncThrow(w) \/ TickBarrierDivergent(w)
  BY <1>0, <1>9 DEF TickMemThrow, TickSyncThrow, TickBarrierDivergent, warpVars, WarpsTyped
<1>10. CASE TickBarrierWait(w) \/ TickBarrierMalformed(w) \/ TickBarrierRelease(w)
  <2>1. arrivals' = [arrivals EXCEPT ![w] = @ + 1] /\ stall' = stall
    BY <1>10 DEF TickBarrierWait, TickBarrierMalformed, TickBarrierRelease, Arrive
  <2>2. \E c \in Context(Lanes[w]) : ctx' = [ctx EXCEPT ![w] = c]
    <3>1. Advanced(ctx[w]) \in Context(Lanes[w])
      BY <1>1, AdvancedType
    <3>2. PathEnded(Advanced(ctx[w]), Size) \in Context(Lanes[w])
      BY <3>1, PathEndedType
    <3>3. \/ ctx' = [ctx EXCEPT ![w] = Advanced(ctx[w])]
          \/ ctx' = [ctx EXCEPT ![w] = PathEnded(Advanced(ctx[w]), Size)]
      BY <1>10, Zenon DEF TickBarrierWait, TickBarrierMalformed, TickBarrierRelease
    <3> QED
      BY <3>1, <3>2, <3>3
  <2>3. DOMAIN ctx' = Warp /\ \A u \in Warp : ctx'[u] \in Context(Lanes[u])
    BY <1>0, <2>2 DEF WarpsTyped
  <2>4. counters.cycles \in Nat
    BY <1>0 DEF Clocked
  <2>5. readySince' \in [Warp -> Nat]
    <3>1. CASE readySince' = readySince
      BY <1>0, <3>1 DEF WarpsTyped
    <3>2. CASE readySince' = [u \in Warp |-> IF u \in Freed(w) THEN counters.cycles
                                             ELSE readySince[u]]
      BY <1>0, <2>4, <3>2 DEF WarpsTyped
    <3> QED
      BY <1>10, <3>1, <3>2, Zenon DEF TickBarrierWait, TickBarrierMalformed, TickBarrierRelease
  <2>6. PlainStep(w) \/ WaitStep(w) \/ ReleaseStep(w)
    BY <1>0, TickEffect DEF StateTyped, WarpsTyped
  <2>7. state' \in [Warp -> WarpState]
    BY <1>0, <2>6 DEF PlainStep, WaitStep, ReleaseStep, WarpsTyped, WarpState
  <2>8. arrivals' \in [Warp -> Nat] /\ stall' \in [Warp -> Nat]
    BY <1>0, <2>1 DEF WarpsTyped
  <2> QED
    BY <2>3, <2>5, <2>7, <2>8 DEF WarpsTyped
<1> QED
  BY <1>2, <1>3, <1>4, <1>5, <1>6, <1>7, <1>8, <1>9, <1>10 DEF Tick

\* The accounting of the waits keeps them natural.
LEMMA WaitsType ==
  ASSUME WaitsTyped, NEW S, AccountWaits(S)
  PROVE  WaitsTyped'
<1>1. wait' \in [Warp -> Nat]
  BY DEF WaitsTyped, AccountWaits
<1>2. starved' \in [Warp -> BOOLEAN]
  BY Zenon DEF WaitsTyped, AccountWaits
<1> QED
  BY <1>1, <1>2 DEF WaitsTyped

\* A tick in which a warp is selected preserves the types.
LEMMA TickType ==
  ASSUME TypeInv, NEW w \in Warp, Tick(w)
  PROVE  TypeInv'
<1>0. WarpsTyped /\ DispatchTyped /\ WaitsTyped /\ HostTyped /\ Clocked(counters)
  BY TypeParts
<1>1. WarpsTyped'
  BY TickWarpsTyped
<1>2. DispatchTyped'
  BY <1>0 DEF Tick, Issue, dispatchVars, DispatchTyped
<1>3. WaitsTyped'
  BY <1>0, WaitsType DEF Tick, Issue
<1>4. Clocked(counters')
  <2>1. \/ counters' = IssueRecorded(w) \/ counters' = RetireRecorded(w)
        \/ counters' = [RetireRecorded(w) EXCEPT !.memory = @ + 1]
    BY Zenon DEF Tick, TickFetchEnd, TickAlu, TickMem, TickMemThrow, TickCmp, TickBranch,
                 TickSsy, TickSync, TickSyncThrow, TickBarrierWait, TickBarrierRelease,
                 TickBarrierMalformed, TickBarrierDivergent
  <2> QED
    BY <1>0, <2>1, ClockedIssue, Zenon
<1>5. HostTyped'
  <2>1. NextTick \/ Throw("Memory") \/ Throw("EmptySync") \/ Throw("MalformedBarrier")
        \/ Throw("DivergentBarrier")
    BY Zenon DEF Tick, TickFetchEnd, TickAlu, TickMem, TickMemThrow, TickCmp, TickBranch,
                 TickSsy, TickSync, TickSyncThrow, TickBarrierWait, TickBarrierRelease,
                 TickBarrierMalformed, TickBarrierDivergent
  <2>2. kernel' = kernel
    BY DEF Tick, Issue
  <2> QED
    BY <1>0, <2>1, <2>2 DEF NextTick, Throw, HostTyped, Phase, Error
<1> QED
  BY <1>1, <1>2, <1>3, <1>4, <1>5, TypeParts, Zenon DEF TypeInv, TypeOK, WarpsTyped,
     DispatchTyped, WaitsTyped, HostTyped, Clocked

\* The count of cycles goes up by one and stays a natural number.
LEMMA ClockedCycle ==
  ASSUME NEW c, Clocked(c), NEW n
  PROVE  Clocked([c EXCEPT !.cycles = c.cycles + 1, !.barrierStalls = n])
<1>1. c["cycles"] + 1 \in Nat
  BY DEF Clocked
<1> DEFINE d == [c EXCEPT !.cycles = c.cycles + 1, !.barrierStalls = n]
<1>2. DOMAIN d = CounterName /\ d["cycles"] = c["cycles"] + 1
  BY DEF Clocked, CounterName
<1>3. d = [k \in CounterName |-> d[k]]
  BY <1>2 DEF Clocked, CounterName
<1> QED
  BY <1>1, <1>2, <1>3, Zenon DEF Clocked

\* The cycle count moves in WakeWarps, and only there.
LEMMA WakeType ==
  ASSUME TypeInv, WakeWarps
  PROVE  TypeInv'
<1>0. WarpsTyped /\ DispatchTyped /\ WaitsTyped /\ HostTyped /\ Clocked(counters)
  BY TypeParts
<1>1. counters.cycles \in Nat
  BY <1>0 DEF Clocked
<1>2. stall' \in [Warp -> Nat]
  BY <1>0 DEF WakeWarps, StallTicked, WarpsTyped
<1>3. state' \in [Warp -> WarpState]
  BY <1>0 DEF WakeWarps, WarpsTyped, WarpState
<1>4. readySince' \in [Warp -> Nat]
  BY <1>0, <1>1 DEF WakeWarps, WarpsTyped
<1>5. WarpsTyped'
  BY <1>0, <1>2, <1>3, <1>4 DEF WakeWarps, WarpsTyped
<1>6. Clocked(counters')
  <2> DEFINE n == Cardinality({w \in warps : state[w] = "StalledAtBarrier"})
  <2>1. counters' = [counters EXCEPT !.cycles = counters.cycles + 1,
                                     !.barrierStalls = counters.barrierStalls + n]
    BY Zenon DEF WakeWarps
  <2> QED
    BY <1>0, <2>1, ClockedCycle, Zenon
<1>7. DispatchTyped' /\ WaitsTyped' /\ HostTyped'
  BY <1>0 DEF WakeWarps, dispatchVars, waitVars, DispatchTyped, WaitsTyped, HostTyped, Phase
<1> QED
  BY <1>5, <1>6, <1>7 DEF TypeInv, TypeOK, WarpsTyped, DispatchTyped, WaitsTyped, HostTyped

\* Phase 1 of the host loop preserves the types.
LEMMA HostType ==
  ASSUME TypeInv, ReleaseBlocks \/ AdmitBlock \/ AdmitStop \/ AdmitThrow
  PROVE  TypeInv'
<1>0. WarpsTyped /\ DispatchTyped /\ WaitsTyped /\ HostTyped /\ Clocked(counters)
  BY TypeParts
<1>1. counters' = counters /\ UNCHANGED <<warpVars, waitVars, kernel>>
  BY DEF ReleaseBlocks, AdmitBlock, AdmitStop, AdmitThrow
<1>2. WarpsTyped' /\ WaitsTyped'
  BY <1>0, <1>1 DEF warpVars, waitVars, WarpsTyped, WaitsTyped
<1>3. Clocked(counters')
  BY <1>0, <1>1
<1>4. DispatchTyped'
  <2>1. CASE ReleaseBlocks
    BY <1>0, <2>1 DEF ReleaseBlocks, DispatchTyped
  <2>2. CASE AdmitBlock
    BY <1>0, <2>2 DEF AdmitBlock, DispatchTyped
  <2>3. CASE AdmitStop \/ AdmitThrow
    BY <1>0, <2>3 DEF AdmitStop, AdmitThrow, dispatchVars, DispatchTyped
  <2> QED
    BY <2>1, <2>2, <2>3
<1>5. HostTyped'
  BY <1>0, <1>1 DEF ReleaseBlocks, AdmitBlock, AdmitStop, AdmitThrow, Throw, HostTyped,
                    Phase, Error
<1> QED
  BY <1>2, <1>3, <1>4, <1>5 DEF TypeInv, TypeOK, WarpsTyped, DispatchTyped, WaitsTyped,
                                HostTyped

\* Every step preserves the types.
LEMMA TypeStep == TypeInv /\ [Next]_vars => TypeInv'
<1> SUFFICES ASSUME TypeInv, [Next]_vars PROVE TypeInv'
  OBVIOUS
<1>1. CASE ReleaseBlocks \/ AdmitBlock \/ AdmitStop \/ AdmitThrow
  BY <1>1, HostType
<1>2. CASE WakeWarps
  BY <1>2, WakeType
<1>3. CASE TickIdle
  <2>0. WarpsTyped /\ DispatchTyped /\ WaitsTyped /\ HostTyped /\ Clocked(counters)
    BY TypeParts
  <2>1. WarpsTyped' /\ DispatchTyped' /\ HostTyped'
    BY <1>3, <2>0 DEF TickIdle, NextTick, warpVars, dispatchVars, WarpsTyped, DispatchTyped,
                      HostTyped, Phase
  <2>2. WaitsTyped'
    BY <1>3, <2>0, WaitsType DEF TickIdle
  <2>3. Clocked(counters')
    BY <1>3, <2>0, ClockedWaits, Zenon DEF TickIdle
  <2> QED
    BY <2>1, <2>2, <2>3 DEF TypeInv, TypeOK, WarpsTyped, DispatchTyped, WaitsTyped, HostTyped
<1>4. CASE \E w \in Warp : Tick(w)
  BY <1>4, TickType
<1>5. CASE Ended \/ UNCHANGED vars
  BY <1>5 DEF Ended, vars, dispatchVars, warpVars, waitVars, TypeInv, TypeOK, Clocked
<1> QED
  BY <1>1, <1>2, <1>3, <1>4, <1>5 DEF Next

\* Every variable of the SM keeps a value of its C++ type for every grid, kernel,
\* policy and latency: in particular a SIMT context never holds a lane that is
\* not the warp's or a pc that is not a size_t, and no stall counter underflows.
THEOREM TypeCorrect == Spec => []TypeOK
<1>1. TypeInv => TypeOK
  BY DEF TypeInv
<1> QED
  BY <1>1, TypeInit, TypeStep, PTL DEF Spec

-----------------------------------------------------------------------------
(* The scheduler in the loop.                                              *)

\* The policy is known, and next_warp_index_ is a size_t.
SchedInv ==
  /\ policy \in Policy
  /\ DOMAIN sched = {"next", "last", "active", "rr"} /\ sched.next \in Nat

\* What select_warp reads has its type.
LEMMA SchedReads ==
  ASSUME TypeInv, SchedInv
  PROVE  SchedulerTyped
BY DEF TypeInv, TypeOK, SchedInv, SchedulerTyped

\* The fields of the scheduler hold initially, whatever earlier launches left.
LEMMA SchedInit == Init => SchedInv
<1> SUFFICES ASSUME Init PROVE SchedInv
  OBVIOUS
<1>1. sched \in Scheduler /\ policy \in Policy
  BY SMAssumption DEF Init
<1> QED BY <1>1 DEF Scheduler, SchedInv

\* They are kept by every step.
LEMMA SchedStep == TypeInv /\ SchedInv /\ [Next]_vars => SchedInv'
<1> SUFFICES ASSUME TypeInv, SchedInv, [Next]_vars PROVE SchedInv'
  OBVIOUS
<1>1. CASE UNCHANGED <<policy, sched>>
  BY <1>1 DEF SchedInv
<1>2. ASSUME NEW f \in {"last", "active", "rr"}, NEW x, NEW c,
             DOMAIN c = {"next", "last", "active", "rr"} /\ c.next \in Nat
      PROVE  LET d == [c EXCEPT ![f] = x]
             IN  DOMAIN d = {"next", "last", "active", "rr"} /\ d.next \in Nat
  BY <1>2
<1>3. CASE TickIdle
  <2>1. sched' = SchedIdle /\ policy' = policy
    BY <1>3 DEF TickIdle
  <2>2. \/ sched' = sched \/ sched' = [sched EXCEPT !["last"] = NoId]
        \/ sched' = [sched EXCEPT !["active"] = ActiveSet]
    BY <2>1, Zenon DEF SchedIdle
  <2> QED BY <1>2, <2>1, <2>2 DEF SchedInv
<1>4. ASSUME NEW w \in Warp, Tick(w) PROVE SchedInv'
  <2>1. sched' = SchedAfter(w) /\ policy' = policy /\ w \in warps
    BY <1>4 DEF Tick, Issue, Selects, Ready
  <2>2. NextIndex(w) \in Nat
    BY <2>1, NextIndexType DEF TypeInv, TypeOK
  <2>3. \E ids, r : \/ sched' = sched \/ sched' = [sched EXCEPT !["next"] = NextIndex(w)]
                    \/ sched' = [sched EXCEPT !["last"] = WarpId[w]]
                    \/ sched' = [sched EXCEPT !["active"] = ids, !["rr"] = r]
    BY <2>1, Zenon DEF SchedAfter
  <2>4. PICK ids, r : \/ sched' = sched \/ sched' = [sched EXCEPT !["next"] = NextIndex(w)]
                      \/ sched' = [sched EXCEPT !["last"] = WarpId[w]]
                      \/ sched' = [sched EXCEPT !["active"] = ids, !["rr"] = r]
    BY <2>3
  <2>5. CASE sched' = [sched EXCEPT !["next"] = NextIndex(w)]
    BY <2>1, <2>2, <2>5 DEF SchedInv
  <2>6. CASE sched' = [sched EXCEPT !["active"] = ids, !["rr"] = r]
    BY <2>1, <2>6 DEF SchedInv
  <2>7. CASE sched' = sched \/ sched' = [sched EXCEPT !["last"] = WarpId[w]]
    BY <1>2, <2>1, <2>7 DEF SchedInv
  <2> QED BY <2>4, <2>5, <2>6, <2>7
<1>5. CASE ReleaseBlocks \/ AdmitBlock \/ AdmitStop \/ AdmitThrow \/ WakeWarps
  BY <1>1, <1>5 DEF ReleaseBlocks, AdmitBlock, AdmitStop, AdmitThrow, WakeWarps
<1>6. CASE Ended \/ UNCHANGED vars
  BY <1>1, <1>6 DEF Ended, vars
<1> QED BY <1>3, <1>4, <1>5, <1>6 DEF Next

\* TypeInv and SchedInv together.
SchedulingInv == TypeInv /\ SchedInv

\* They hold throughout.
LEMMA SchedulingAlways == Spec => []SchedulingInv
<1>1. Init => SchedulingInv
  BY TypeInit, SchedInit DEF SchedulingInv
<1>2. SchedulingInv /\ [Next]_vars => SchedulingInv'
  BY TypeStep, SchedStep DEF SchedulingInv
<1> QED BY <1>1, <1>2, PTL DEF Spec

\* A warp is selected when one is ready, under the five policies that scan all warps.
LEMMA SomeSelected ==
  ASSUME SchedulingInv, policy # "TwoLevel", PrioritiesCount, Ready # {}
  PROVE  \E x \in Ready : {w \in warps : Selects(w)} = {x}
<1>1. policy \in SingleLevel
  BY DEF SchedulingInv, SchedInv, Policy, SingleLevel
<1>2. SchedulerTyped
  BY SchedReads DEF SchedulingInv
<1> QED BY <1>1, <1>2, OneSelected

\* RR, Greedy, Priority, OldestFirst and GTO return a warp, and exactly one,
\* whenever one is ready, whatever index or id an earlier launch has left in the
\* scheduler, if under Priority no warp has the lowest int as its priority.
\* (TwoLevel does not: a ready warp outside its active set waits.)
THEOREM SelectsWhenReadyHolds ==
  Spec => [](policy # "TwoLevel" /\ PrioritiesCount => SelectsWhenReady)
<1>1. SchedulingInv => (policy # "TwoLevel" /\ PrioritiesCount => SelectsWhenReady)
  <2> SUFFICES ASSUME SchedulingInv, policy # "TwoLevel", PrioritiesCount, Ready # {}
               PROVE  Cardinality({w \in warps : Selects(w)}) = 1
    BY DEF SelectsWhenReady
  <2>1. PICK x : {w \in warps : Selects(w)} = {x}
    BY SomeSelected
  <2>2. Cardinality({x}) = 1
    BY FS_Singleton
  <2> QED BY <2>1, <2>2
<1> QED BY <1>1, SchedulingAlways, PTL

-----------------------------------------------------------------------------
(* Silent deadlock.                                                        *)

\* Not all warps of a block wait at its barrier.
SomeoneOut ==
  \A w \in Warp : state[w] = "StalledAtBarrier" =>
                    \E u \in Mates(w) : state[u] # "StalledAtBarrier"

\* No warp waits for one that has completed: the barriers met are legal.
NobodyLeft ==
  \A w \in Warp : \A u \in Mates(w) :
    state[w] = "StalledAtBarrier" => state[u] # "Completed"

\* A barrier that a step leaves waiting has someone to wait for.
LEMMA SomeoneOutStep == CoreInv /\ SomeoneOut /\ [Next]_vars => SomeoneOut'
<1> SUFFICES ASSUME CoreInv, SomeoneOut, [Next]_vars,
                    NEW x \in Warp, state'[x] = "StalledAtBarrier"
             PROVE  \E u \in Mates(x) : state'[u] # "StalledAtBarrier"
  BY DEF SomeoneOut, Mates
<1>0. StateTyped /\ state \in [Warp -> WarpState]
  BY DEF CoreInv, StateTyped
<1>1. CASE UNCHANGED state
  BY <1>1 DEF SomeoneOut
<1>2. CASE WakeStep
  <2>1. PICK S \in SUBSET {w \in warps : state[w] = "Stalled"} :
          state' = [w \in Warp |-> IF w \in S THEN "Ready" ELSE state[w]]
    BY <1>2 DEF WakeStep
  <2>2. state[x] = "StalledAtBarrier"
    BY <2>1
  <2>3. PICK u \in Mates(x) : state[u] # "StalledAtBarrier"
    BY <2>2 DEF SomeoneOut
  <2> QED BY <2>1, <2>3 DEF Mates
<1>3. ASSUME NEW w \in Warp, Tick(w)
      PROVE  \E u \in Mates(x) : state'[u] # "StalledAtBarrier"
  <2>1. /\ w \in warps /\ state[w] = "Ready"
        /\ PlainStep(w) \/ WaitStep(w) \/ ReleaseStep(w)
    BY <1>0, <1>3, TickEffect
  <2>2. Others(w) = Mates(w) \ {w}
    BY <2>1 DEF Others, Mates, CoreInv, NoWorkDropped
  <2>3. CASE PlainStep(w)
    <3>1. PICK s \in {"Ready", "Stalled", "Completed"} : state' = [state EXCEPT ![w] = s]
      BY <2>3 DEF PlainStep
    <3>2. state[x] = "StalledAtBarrier"
      BY <1>0, <3>1
    <3>3. PICK u \in Mates(x) : state[u] # "StalledAtBarrier"
      BY <3>2 DEF SomeoneOut
    <3> QED BY <1>0, <3>1, <3>3 DEF Mates
  <2>4. CASE WaitStep(w)
    <3>1. state' = [state EXCEPT ![w] = "StalledAtBarrier"]
      BY <2>4 DEF WaitStep
    <3>2. PICK v \in Mates(w) \ {w} : state[v] # "StalledAtBarrier"
      BY <2>2, <2>4 DEF WaitStep
    <3>3. CASE x \in Mates(w)
      <4>1. v \in Mates(x) /\ state'[v] # "StalledAtBarrier"
        BY <1>0, <3>1, <3>2, <3>3 DEF Mates
      <4> QED BY <4>1
    <3>4. CASE x \notin Mates(w)
      <4>1. x # w /\ state[x] = "StalledAtBarrier"
        BY <1>0, <3>1, <3>4 DEF Mates
      <4>2. PICK u \in Mates(x) : state[u] # "StalledAtBarrier"
        BY <4>1 DEF SomeoneOut
      <4>3. u # w /\ u \in Warp
        BY <3>4, <4>2 DEF Mates
      <4> QED BY <1>0, <3>1, <4>2, <4>3
    <3> QED BY <3>3, <3>4
  <2>5. CASE ReleaseStep(w)
    <3>1. PICK s \in {"Ready", "Completed"} :
            state' = [u \in Warp |-> IF u = w THEN s
                                     ELSE IF u \in Others(w) THEN "Ready" ELSE state[u]]
      BY <2>5 DEF ReleaseStep
    <3>2. x # w /\ x \notin Others(w) /\ state[x] = "StalledAtBarrier"
      BY <3>1
    <3>3. PICK u \in Mates(x) : state[u] # "StalledAtBarrier"
      BY <3>2 DEF SomeoneOut
    <3> QED BY <3>1, <3>3 DEF Mates
  <2> QED BY <2>1, <2>3, <2>4, <2>5
<1>4. CASE Next /\ ~\E w \in Warp : Tick(w)
  BY <1>0, <1>1, <1>2, <1>4, HostEffect
<1>5. CASE UNCHANGED vars
  BY <1>1, <1>5 DEF vars, warpVars
<1> QED BY <1>3, <1>4, <1>5

\* What the absence of deadlock rests on.
DeadlockInv == CoreInv /\ SomeoneOut /\ SchedulingInv

\* The other ways to get stuck are excluded: a scheduler that returns a ready
\* warp when there is one leaves only warps at barriers, and they have a mate
\* who comes.
LEMMA NeverStuck ==
  ASSUME DeadlockInv, NobodyLeft, Ready # {} => \E x \in Ready : {w \in warps : Selects(w)} = {x}
  PROVE  NoSilentDeadlock
<1> SUFFICES ASSUME Stuck PROVE FALSE
  BY DEF NoSilentDeadlock
<1>1. /\ state \in [Warp -> WarpState] /\ warps = {w \in Warp : BlockOf[w] \in resident}
      /\ SomeoneOut
  BY DEF DeadlockInv, CoreInv, StateTyped, NoWorkDropped
<1>2. \A w \in warps : ~Selects(w) /\ state[w] # "Stalled"
  BY DEF Stuck
<1>3. \A w \in warps : state[w] # "Ready"
  <2>1. SUFFICES ASSUME Ready # {} PROVE FALSE
    BY DEF Ready
  <2>2. PICK x : {w \in warps : Selects(w)} = {x}
    BY <2>1
  <2> QED BY <1>2, <2>2
<1>4. \A w \in warps : state[w] \in {"StalledAtBarrier", "Completed"}
  BY <1>1, <1>2, <1>3 DEF WarpState
<1>5. PICK w \in warps : state[w] = "StalledAtBarrier"
  BY <1>4 DEF Stuck, Completed
<1>6. PICK u \in Mates(w) : state[u] # "StalledAtBarrier"
  BY <1>1, <1>5 DEF SomeoneOut
<1>7. u \in warps
  BY <1>1, <1>5, <1>6 DEF Mates
<1>8. state[u] = "Completed"
  BY <1>4, <1>6, <1>7
<1> QED BY <1>1, <1>5, <1>6, <1>8 DEF NobodyLeft

\* It holds throughout.
LEMMA DeadlockAlways == Spec => []DeadlockInv
<1>1. Init => SomeoneOut
  BY DEF Init, SomeoneOut
<1> QED BY <1>1, CoreInit, CoreStep, SomeoneOutStep, SchedulingAlways, PTL
        DEF Spec, DeadlockInv

\* The claim of sm.cpp:199, with the two conditions it needs: an SM whose
\* scheduler scans all warps is never stuck unless a warp waits at a barrier for
\* one that has already completed.  The two findings are the two exceptions (a warp
\* whose priority is the lowest int is one that Priority never looks at).
THEOREM NoSilentDeadlockHolds ==
  Spec => [](policy # "TwoLevel" /\ PrioritiesCount /\ NobodyLeft => NoSilentDeadlock)
<1>1. DeadlockInv
        => (policy # "TwoLevel" /\ PrioritiesCount /\ NobodyLeft => NoSilentDeadlock)
  <2> SUFFICES ASSUME DeadlockInv, policy # "TwoLevel", PrioritiesCount, NobodyLeft
               PROVE  NoSilentDeadlock
    OBVIOUS
  <2>1. Ready # {} => \E x \in Ready : {w \in warps : Selects(w)} = {x}
    BY SomeSelected DEF DeadlockInv
  <2> QED BY <2>1, NeverStuck
<1> QED BY <1>1, DeadlockAlways, PTL

-----------------------------------------------------------------------------
(* TwoLevel with places enough.                                            *)

\* The fields of TwoLevel keep their types, and among warps with different ids
\* no id comes to take two places.
LEMMA PlacesStep ==
  SchedulingInv /\ PlacesTyped /\ [Next]_vars
    => PlacesTyped' /\ (IdsDistinct /\ NoRepeats(sched.active) => NoRepeats(sched.active)')
<1> SUFFICES ASSUME SchedulingInv, PlacesTyped, [Next]_vars
             PROVE  /\ PlacesTyped'
                    /\ IdsDistinct /\ NoRepeats(sched.active) => NoRepeats(sched.active)'
  OBVIOUS
<1>1. /\ SchedulerTyped /\ "active" \in DOMAIN sched /\ "rr" \in DOMAIN sched
      /\ sched.active \in Seq(Nat) /\ sched.rr \in Nat
  BY SchedReads DEF SchedulingInv, SchedulerTyped, PlacesTyped
<1>2. CASE sched'.active = sched.active /\ sched'.rr = sched.rr
  BY <1>1, <1>2 DEF PlacesTyped
<1>3. /\ ActiveSet \in Seq(Nat)
      /\ IdsDistinct /\ NoRepeats(sched.active) => NoRepeats(ActiveSet)
  BY <1>1, ActiveSetIs, ActiveSetApart
<1>4. CASE sched'.active = ActiveSet /\ sched'.rr \in Nat
  BY <1>3, <1>4 DEF PlacesTyped
<1>5. ASSUME NEW f \in {"next", "last"}, NEW x, sched' = [sched EXCEPT ![f] = x]
      PROVE  sched'.active = sched.active /\ sched'.rr = sched.rr
  BY <1>1, <1>5
<1>6. CASE TickIdle
  <2>1. sched' = SchedIdle
    BY <1>6 DEF TickIdle
  <2>2. \/ sched' = sched \/ sched' = [sched EXCEPT !["last"] = NoId]
        \/ sched' = [sched EXCEPT !["active"] = ActiveSet]
    BY <2>1, Zenon DEF SchedIdle
  <2>3. CASE sched' = [sched EXCEPT !["active"] = ActiveSet]
    BY <1>1, <1>4, <2>3
  <2> QED BY <1>2, <1>5, <2>2, <2>3
<1>7. ASSUME NEW w \in Warp, Tick(w)
      PROVE  /\ PlacesTyped'
             /\ IdsDistinct /\ NoRepeats(sched.active) => NoRepeats(sched.active)'
  <2>1. sched' = SchedAfter(w) /\ Selects(w)
    BY <1>7 DEF Tick, Issue
  <2>2. CASE policy = "TwoLevel"
    <3>1. PICK r \in Nat : sched' = [sched EXCEPT !["active"] = ActiveSet, !["rr"] = r]
      BY <1>1, <2>1, <2>2, PlacesAfter
    <3>2. sched'.active = ActiveSet /\ sched'.rr = r
      BY <1>1, <3>1
    <3> QED BY <1>4, <3>2
  <2>3. CASE policy # "TwoLevel"
    <3>1. \/ sched' = sched \/ sched' = [sched EXCEPT !["next"] = NextIndex(w)]
          \/ sched' = [sched EXCEPT !["last"] = WarpId[w]]
      BY <2>1, <2>3, Zenon DEF SchedAfter
    <3> QED BY <1>2, <1>5, <3>1
  <2> QED BY <2>2, <2>3
<1>8. CASE ReleaseBlocks \/ AdmitBlock \/ AdmitStop \/ AdmitThrow \/ WakeWarps
  BY <1>2, <1>8 DEF ReleaseBlocks, AdmitBlock, AdmitStop, AdmitThrow, WakeWarps
<1>9. CASE Ended \/ UNCHANGED vars
  BY <1>2, <1>9 DEF Ended, vars
<1> QED BY <1>6, <1>7, <1>8, <1>9 DEF Next

\* An active set in which no id is twice, in the state that a launch finds it.
PlacesInv == PlacesTyped /\ NoRepeats(sched.active)

\* It stays so while the warps on the SM bear different ids.
LEMMA PlacesAlways ==
  Spec /\ []IdsDistinct /\ NoRepeats(sched.active) => [](SchedulingInv /\ PlacesInv)
<1>1. Init => PlacesTyped
  <2> SUFFICES ASSUME Init PROVE PlacesTyped
    OBVIOUS
  <2>1. sched \in Scheduler
    BY SMAssumption DEF Init
  <2> QED BY <2>1 DEF Scheduler, PlacesTyped
<1>2. SchedulingInv /\ PlacesInv /\ IdsDistinct /\ [Next]_vars => PlacesInv'
  BY PlacesStep DEF PlacesInv
<1> QED BY <1>1, <1>2, SchedulingAlways, PTL DEF Spec, PlacesInv

\* TwoLevel selects a warp when one is ready, if it has the places.
LEMMA SomeSelectedIfPlaces ==
  ASSUME SchedulingInv, PlacesInv, policy = "TwoLevel",
         Cardinality(warps) <= ActiveSetSize, Ready # {}
  PROVE  \E x \in Ready : {w \in warps : Selects(w)} = {x}
BY SchedReads, OneTwoLevel DEF SchedulingInv, PlacesInv

\* TwoLevel keeps the contract of select_warp too, whenever its active set has a
\* place for each warp on the SM, if the warps there always bear different ids (one
\* block at a time) and the launch finds no id twice in the set (a new scheduler, or
\* one used in this way before).
THEOREM TwoLevelSelectsHolds ==
  Spec /\ []IdsDistinct /\ NoRepeats(sched.active)
    => [](policy = "TwoLevel" /\ Cardinality(warps) <= ActiveSetSize => SelectsWhenReady)
<1>1. SchedulingInv /\ PlacesInv
        => (policy = "TwoLevel" /\ Cardinality(warps) <= ActiveSetSize => SelectsWhenReady)
  <2> SUFFICES ASSUME SchedulingInv, PlacesInv, policy = "TwoLevel",
                      Cardinality(warps) <= ActiveSetSize, Ready # {}
               PROVE  Cardinality({w \in warps : Selects(w)}) = 1
    BY DEF SelectsWhenReady
  <2>1. PICK x : {w \in warps : Selects(w)} = {x}
    BY SomeSelectedIfPlaces
  <2>2. Cardinality({x}) = 1
    BY FS_Singleton
  <2> QED BY <2>1, <2>2
<1> QED BY <1>1, PlacesAlways, PTL

\* So the deadlock of finding sm_two_level needs an active set smaller than the
\* warps on the SM, or ids that several of them bear.
THEOREM TwoLevelDeadlockFree ==
  Spec /\ []IdsDistinct /\ NoRepeats(sched.active)
    => [](policy = "TwoLevel" /\ Cardinality(warps) <= ActiveSetSize /\ NobodyLeft
            => NoSilentDeadlock)
<1>1. DeadlockInv /\ SchedulingInv /\ PlacesInv
        => (policy = "TwoLevel" /\ Cardinality(warps) <= ActiveSetSize /\ NobodyLeft
              => NoSilentDeadlock)
  <2> SUFFICES ASSUME DeadlockInv, SchedulingInv, PlacesInv, policy = "TwoLevel",
                      Cardinality(warps) <= ActiveSetSize, NobodyLeft
               PROVE  NoSilentDeadlock
    OBVIOUS
  <2>1. Ready # {} => \E x \in Ready : {w \in warps : Selects(w)} = {x}
    BY SomeSelectedIfPlaces
  <2> QED BY <2>1, NeverStuck
<1> QED BY <1>1, DeadlockAlways, PlacesAlways, PTL

-----------------------------------------------------------------------------
(* Fairness of round robin.                                                *)

\* How often a warp may have been passed over after d blocks have left and n warps
\* were dispatched: one round before each departure, and the round under way.
Rounds(d, n) == d * n
Bound(d, n) == (1 + d) * n

\* What was dispatched and what has left when block k is next and R is resident.
DispatchedTo(k) == {w \in Warp : BlockOf[w] < k}
DepartedFrom(k, R) == {b \in Block : b < k /\ b \notin R}
DispatchCount == Cardinality(Dispatched)
DepartCount == Cardinality(Departed)

\* The round under way: a ready warp is passed over at most as often as the scan has
\* come closer to it since the last departure; a warp that is not ready has not been
\* passed over since it last was.
ScanComesCloser ==
  \A w \in warps :
    /\ state[w] = "Ready" => passedOver[w] + Turn(w) < Bound(DepartCount, DispatchCount)
    /\ state[w] # "Ready" => passedOver[w] = 0

\* Between two rounds: all passes belong to the rounds before.
RoundStarts ==
  \A w \in warps :
    /\ passedOver[w] = 0 \/ passedOver[w] < Rounds(DepartCount, DispatchCount)
    /\ state[w] # "Ready" => passedOver[w] = 0

\* There is no room for the next block.
NoRoom == nextBlock \in Block => ~CanAdmit(alloc, nextBlock)

\* The inductive invariant behind RoundRobinBound.  Blocks arrive only where a round
\* starts: before the first cycle, or after a departure has made room.
RoundRobinInv ==
  /\ passedOver \in [Warp -> Nat] /\ alloc \in [Resource -> Int]
  /\ \A b \in resident : b < nextBlock
  /\ \A w \in Warp : w \notin Dispatched => passedOver[w] = 0
  /\ phase \in {"wake", "issue", "release"} => NoRoom
  /\ policy = "RR" => ScanComesCloser /\ (phase = "admit" => NoRoom \/ RoundStarts)

\* The counts are numbers, and warps of resident blocks were dispatched.
LEMMA DispatchCounts ==
  ASSUME NEW k \in Nat, NEW R \in SUBSET Block
  PROVE  /\ IsFiniteSet(DispatchedTo(k)) /\ Cardinality(DispatchedTo(k)) \in Nat
         /\ IsFiniteSet(DepartedFrom(k, R)) /\ Cardinality(DepartedFrom(k, R)) \in Nat
<1>1. IsFiniteSet(DispatchedTo(k))
  BY SchedulerAssumption, FS_Subset DEF DispatchedTo
<1>2. IsFiniteSet(DepartedFrom(k, R))
  BY SMAssumption, FS_Subset DEF DepartedFrom
<1> QED BY <1>1, <1>2, FS_CardinalityType

\* The bound is one round more than the rounds before, and both grow with the counts.
LEMMA RoundsGrow ==
  ASSUME NEW d \in Nat, NEW n \in Nat, NEW e \in Nat, NEW m \in Nat, n <= m
  PROVE  /\ Rounds(d, n) \in Nat /\ Bound(d, n) \in Nat
         /\ Bound(d, n) = Rounds(d, n) + n
         /\ d <= e => Rounds(d, n) <= Rounds(e, m)
         /\ d + 1 <= e => Bound(d, n) <= Rounds(e, m)
<1>1. Rounds(d, n) \in Nat /\ Bound(d, n) \in Nat /\ Bound(d, n) = Rounds(d, n) + n
  BY DEF Rounds, Bound
<1>2. ASSUME NEW a \in Nat, a <= e PROVE a * n <= e * m
  <2>1. a * n <= e * n /\ n * e <= m * e
    BY <1>2, TimesMonotone
  <2>2. n * e = e * n /\ m * e = e * m
    OBVIOUS
  <2>3. a * n \in Nat /\ e * n \in Nat /\ e * m \in Nat
    BY <1>2
  <2> HIDE <1>2
  <2> QED BY <2>1, <2>2, <2>3
<1>3. d <= e => Rounds(d, n) <= Rounds(e, m)
  BY <1>2 DEF Rounds
<1>4. d + 1 <= e => Bound(d, n) <= Rounds(e, m)
  <2>1. d + 1 \in Nat /\ d + 1 = 1 + d
    OBVIOUS
  <2> QED BY <1>2, <2>1 DEF Rounds, Bound
<1> QED BY <1>1, <1>3, <1>4

\* There are no more warps on the SM than were dispatched.
LEMMA ResidentDispatched ==
  ASSUME NEW k \in Nat, NEW R \in SUBSET Block, \A b \in R : b < k,
         NEW W, W = {w \in Warp : BlockOf[w] \in R}
  PROVE  Cardinality(W) \in Nat /\ Cardinality(W) <= Cardinality(DispatchedTo(k))
<1>1. W \subseteq DispatchedTo(k) /\ IsFiniteSet(DispatchedTo(k))
  BY DispatchCounts DEF DispatchedTo
<1> QED BY <1>1, FS_Subset, FS_CardinalityType

\* The scan is as far from a warp as TurnFrom says while warps_ stays the same.
LEMMA TurnNext ==
  ASSUME warps' = warps, NEW w
  PROVE  Turn(w)' = TurnFrom(w, sched'.next)
BY DEF Turn, TurnFrom, Position

\* A turn is less than the number of warps.
LEMMA TurnBelow ==
  ASSUME SchedulingInv, NEW w \in warps
  PROVE  Cardinality(warps) \in Nat /\ Turn(w) \in Nat /\ Turn(w) < Cardinality(warps)
<1>1. SchedulerTyped /\ warps \subseteq Warp
  BY SchedReads DEF SchedulingInv, SchedulerTyped
<1>2. Turn(w) \in 0..Cardinality(warps)-1
  BY <1>1, TurnDistinct
<1>3. Cardinality(warps) \in Nat
  BY <1>1, WarpsFinite
<1> QED BY <1>2, <1>3

\* The same of the next state.
LEMMA TurnBelowNext ==
  ASSUME SchedulingInv', NEW w \in warps'
  PROVE  /\ Cardinality(warps)' \in Nat /\ Turn(w)' \in Nat
         /\ Turn(w)' < Cardinality(warps)'
<1> DEFINE n == Cardinality(warps')
           below == {u \in warps' : u < w}
           k == sched'.next
           x == Cardinality(below) - k
<1>1. warps' \subseteq Warp /\ k \in Nat
  BY DEF SchedulingInv, TypeInv, TypeOK, SchedInv
<1>2. IsFiniteSet(warps')
  BY <1>1, SchedulerAssumption, FS_Subset
<1>3. IsFiniteSet(below)
  BY <1>2, FS_Subset
<1>4. n \in Nat /\ n # 0
  BY <1>2, FS_CardinalityType, FS_EmptySet
<1>5. x \in Int
  <2>1. Cardinality(below) \in Nat
    BY <1>3, FS_CardinalityType
  <2> HIDE DEF below, k
  <2> QED BY <1>1, <2>1
<1>6. Turn(w)' = x % n
  BY DEF Turn, Position
<1> HIDE DEF n, x
<1>7. x % n \in 0..n-1
  BY <1>4, <1>5, RemainderIs
<1> QED BY <1>4, <1>6, <1>7 DEF n

\* Recording waits adds them to total_wait_cycles_.
LEMMA WaitTotalRecorded ==
  ASSUME Clocked(counters), NEW S
  PROVE  WaitsRecorded(S)["waitTotal"] = counters["waitTotal"] + WaitOf(S)
<1> DEFINE a == counters.waitTotal + WaitOf(S)
           b == Max({counters.waitMax} \cup {wait[u] : u \in S})
           d == counters.waitEvents + Cardinality({u \in S : wait[u] > 0})
           e == counters.starvations + NewlyStarved(S)
           c == [counters EXCEPT !.waitTotal = a, !.waitMax = b, !.waitEvents = d,
                                 !.starvations = e]
<1>1. WaitsRecorded(S) = c
  BY Zenon DEF WaitsRecorded
<1> HIDE DEF a, b, d, e
<1>2. c["waitTotal"] = a
  BY DEF Clocked, CounterName
<1> QED BY <1>1, <1>2, Zenon DEF a

\* The second half of a tick leaves the cycle count as it is and adds the waits of
\* the warps that count as selected.
LEMMA TickCounts ==
  ASSUME Clocked(counters), NEW w \in Warp, Tick(w)
  PROVE  /\ counters'.cycles = counters.cycles
         /\ counters'.waitTotal = counters.waitTotal + WaitOf(Credited(w))
<1>1. \/ counters' = IssueRecorded(w) \/ counters' = RetireRecorded(w)
      \/ counters' = [RetireRecorded(w) EXCEPT !.memory = @ + 1]
  BY Zenon DEF Tick, TickFetchEnd, TickAlu, TickMem, TickMemThrow, TickCmp, TickBranch,
               TickSsy, TickSync, TickSyncThrow, TickBarrierWait, TickBarrierRelease,
               TickBarrierMalformed, TickBarrierDivergent
<1> DEFINE c == WaitsRecorded(Credited(w))
           d == IssueRecorded(w)
           r == RetireRecorded(w)
           Same(x) == x["cycles"] = c["cycles"] /\ x["waitTotal"] = c["waitTotal"]
<1>2. /\ Clocked(c) /\ c["cycles"] = counters["cycles"]
      /\ c["waitTotal"] = counters["waitTotal"] + WaitOf(Credited(w))
  BY ClockedWaits, WaitTotalRecorded
<1>3. Clocked(d) /\ Clocked(r)
  BY ClockedIssue
<1> HIDE DEF c
<1>4. Same(d)
  <2>1. \A v : Same([c EXCEPT !.issues[WarpId[w]] = v])
    BY <1>2 DEF Clocked, CounterName
  <2> QED BY <2>1, Zenon DEF IssueRecorded, c
<1> HIDE DEF d
<1>5. Same(r)
  <2>1. r = [d EXCEPT !.retired = d.retired + 1]
    BY Zenon DEF RetireRecorded, d
  <2> QED BY <1>3, <1>4, <2>1 DEF Clocked, CounterName
<1> HIDE DEF r
<1>6. Same([r EXCEPT !.memory = r.memory + 1])
  BY <1>3, <1>5 DEF Clocked, CounterName
<1>7. \/ counters' = d \/ counters' = r \/ counters' = [r EXCEPT !.memory = r.memory + 1]
  BY <1>1, Zenon DEF d, r
<1>8. Same(counters')
  <2> HIDE DEF Same
  <2> QED BY <1>4, <1>5, <1>6, <1>7
<1> QED BY <1>2, <1>8

\* The bound is at least the number of warps on the SM.
LEMMA BoundAboveWarps ==
  ASSUME CoreInv, SchedulingInv, RoundRobinInv
  PROVE  /\ DepartCount \in Nat /\ DispatchCount \in Nat
         /\ Bound(DepartCount, DispatchCount) \in Nat
         /\ Cardinality(warps) \in Nat
         /\ Cardinality(warps) <= Bound(DepartCount, DispatchCount)
<1>1. nextBlock \in Nat /\ resident \in SUBSET Block /\ \A b \in resident : b < nextBlock
  BY DEF SchedulingInv, TypeInv, TypeOK, RoundRobinInv
<1>2. warps = {w \in Warp : BlockOf[w] \in resident}
  BY DEF CoreInv, NoWorkDropped
<1>3. Dispatched = DispatchedTo(nextBlock) /\ Departed = DepartedFrom(nextBlock, resident)
  BY DEF Dispatched, DispatchedTo, Departed, DepartedFrom
<1>4. DepartCount \in Nat /\ DispatchCount \in Nat
  BY <1>1, <1>3, DispatchCounts DEF DepartCount, DispatchCount
<1>5. Cardinality(warps) \in Nat /\ Cardinality(warps) <= DispatchCount
  BY <1>1, <1>2, <1>3, ResidentDispatched DEF DispatchCount
<1>6. /\ Bound(DepartCount, DispatchCount) = Rounds(DepartCount, DispatchCount) + DispatchCount
      /\ Rounds(DepartCount, DispatchCount) \in Nat
  BY <1>4, RoundsGrow
<1> HIDE DEF DepartCount, DispatchCount
<1> QED BY <1>4, <1>5, <1>6

\* Where a round starts the scan is less than a round away from every warp.
LEMMA StartIsClose ==
  ASSUME SchedulingInv', CoreInv', \A b \in resident' : b < nextBlock',
         passedOver' \in [Warp -> Nat], RoundStarts'
  PROVE  ScanComesCloser'
<1> DEFINE d == Cardinality(DepartedFrom(nextBlock', resident'))
           n == Cardinality(DispatchedTo(nextBlock'))
<1>1. nextBlock' \in Nat /\ resident' \in SUBSET Block /\ warps' \subseteq Warp
  BY DEF SchedulingInv, TypeInv, TypeOK
<1>2. warps' = {w \in Warp : BlockOf[w] \in resident'}
  BY DEF CoreInv, NoWorkDropped
<1>3. d \in Nat /\ n \in Nat
  BY <1>1, DispatchCounts
<1>4. Cardinality(warps') <= n
  BY <1>1, <1>2, ResidentDispatched
<1>5. DepartCount' = d /\ DispatchCount' = n
  BY DEF DepartCount, DispatchCount, Dispatched, DispatchedTo, Departed, DepartedFrom
<1> HIDE DEF d, n
<1>6. Rounds(d, n) \in Nat /\ Bound(d, n) = Rounds(d, n) + n
  BY <1>3, RoundsGrow
<1>7. ASSUME NEW w \in warps'
      PROVE  passedOver'[w] + Turn(w)' < Bound(d, n)
  <2>1. /\ Cardinality(warps') \in Nat /\ Turn(w)' \in Nat
        /\ Turn(w)' < Cardinality(warps')
    BY <1>7, TurnBelowNext
  <2>2. passedOver'[w] \in Nat
    BY <1>1
  <2>3. passedOver'[w] = 0 \/ passedOver'[w] < Rounds(d, n)
    BY <1>5 DEF RoundStarts
  <2> QED BY <1>3, <1>4, <1>6, <2>1, <2>2, <2>3
<1>8. \A w \in warps' : state'[w] # "Ready" => passedOver'[w] = 0
  BY DEF RoundStarts
<1> QED BY <1>5, <1>7, <1>8 DEF ScanComesCloser

\* The scheduler issues w: the warps that go on waiting are one pass older, and
\* the scan is at least one place closer to them.
LEMMA TickComesCloser ==
  ASSUME CoreInv, SchedulingInv, policy = "RR", RoundRobinInv, NEW w \in Warp, Tick(w)
  PROVE  ScanComesCloser'
<1> DEFINE top == Bound(DepartCount, DispatchCount)
<1>0. ScanComesCloser
  BY DEF RoundRobinInv
<1>1. /\ warps \subseteq Warp /\ state \in [Warp -> WarpState] /\ SchedulerTyped
      /\ passedOver \in [Warp -> Nat] /\ StateTyped
  BY SchedReads DEF SchedulingInv, TypeInv, TypeOK, RoundRobinInv, StateTyped
<1>2. /\ w \in warps /\ state[w] = "Ready"
      /\ UNCHANGED <<nextBlock, resident, warps>>
      /\ PlainStep(w) \/ WaitStep(w) \/ ReleaseStep(w)
  BY <1>1, TickEffect
<1>3. \A u \in Ready : Turn(w) <= Turn(u)
  BY DEF Tick, Issue, Selects, SelectsRoundRobin
<1>4. sched' = [sched EXCEPT !.next = NextIndex(w)]
  BY DEF Tick, Issue, SchedAfter
<1>5. sched'.next = NextIndex(w)
  BY <1>1, <1>4 DEF SchedulerTyped
<1>6. passedOver' = [u \in Warp |-> IF u \in {w} THEN 0
                                    ELSE IF u \in Ready THEN passedOver[u] + 1
                                    ELSE passedOver[u]]
  BY DEF Tick, Issue, PassOver
<1>7. \A u \in warps : u # w /\ state[u] = "Ready" => state'[u] = "Ready"
  BY <1>1, <1>2 DEF PlainStep, WaitStep, ReleaseStep
<1>8. NextIndex(w) \in Nat /\ Cardinality(warps) \in Nat
  BY <1>1, <1>2, NextIndexType, WarpsFinite
<1>12. top \in Nat /\ Cardinality(warps) <= top
  BY BoundAboveWarps
<1>9. ASSUME NEW u \in warps
      PROVE  /\ TurnFrom(u, NextIndex(w)) \in Nat
             /\ TurnFrom(u, NextIndex(w)) < Cardinality(warps)
  <2>1. TurnFrom(u, NextIndex(w)) \in 0..Cardinality(warps)-1
    BY <1>1, <1>8, TurnFromType
  <2> QED BY <1>8, <2>1
<1> HIDE DEF top
<1>10. ASSUME NEW u \in warps
       PROVE  /\ state'[u] = "Ready" =>
                   passedOver'[u] + TurnFrom(u, NextIndex(w)) < top
              /\ state'[u] # "Ready" => passedOver'[u] = 0
  <2>1. CASE u = w
    <3>1. passedOver'[u] = 0
      BY <1>6, <2>1
    <3> QED BY <1>8, <1>9, <1>12, <3>1
  <2>2. CASE u # w /\ state[u] # "Ready"
    <3>1. passedOver[u] = 0
      BY <1>0, <2>2 DEF ScanComesCloser
    <3>2. passedOver'[u] = 0
      BY <1>1, <1>6, <2>2, <3>1 DEF Ready
    <3> QED BY <1>8, <1>9, <1>12, <3>2
  <2>3. CASE u # w /\ state[u] = "Ready"
    <3>1. u \in Ready /\ u \in Warp /\ w \in Ready
      BY <1>1, <1>2, <2>3 DEF Ready
    <3>2. Turn(w) # Turn(u)
      BY <1>1, <1>2, <2>3, TurnDistinct
    <3>3. Turn(w) \in Nat /\ Turn(u) \in Nat
      BY <1>2, TurnBelow
    <3>4. Turn(w) < Turn(u)
      BY <1>3, <3>1, <3>2, <3>3
    <3>5. TurnFrom(u, NextIndex(w)) = Turn(u) - Turn(w) - 1
      BY <1>1, <1>2, <3>4, TurnMovesUp
    <3>6. passedOver'[u] = passedOver[u] + 1 /\ passedOver[u] \in Nat
      BY <1>1, <1>6, <2>3, <3>1
    <3>7. passedOver[u] + Turn(u) < top
      BY <1>0, <2>3 DEF ScanComesCloser, top
    <3>8. state'[u] = "Ready"
      BY <1>7, <2>3
    <3> QED BY <1>12, <3>3, <3>5, <3>6, <3>7, <3>8
  <2> QED BY <2>1, <2>2, <2>3
<1>11. \A u : Turn(u)' = TurnFrom(u, NextIndex(w))
  BY <1>2, <1>5, TurnNext
<1>13. Bound(DepartCount, DispatchCount)' = top
  BY <1>2 DEF top, DepartCount, DispatchCount, Departed, Dispatched
<1> QED BY <1>2, <1>10, <1>11, <1>13 DEF ScanComesCloser

\* The invariant holds initially.
LEMMA RoundRobinInit == Init => RoundRobinInv
<1> SUFFICES ASSUME Init PROVE RoundRobinInv
  OBVIOUS
<1>1. ScanComesCloser /\ RoundStarts
  BY DEF Init, ScanComesCloser, RoundStarts
<1>2. alloc \in [Resource -> Int]
  BY DEF Init, NothingAllocated
<1> QED BY <1>1, <1>2 DEF Init, RoundRobinInv

\* The invariant does not notice a step that leaves these variables alone.
LEMMA RoundRobinSame ==
  ASSUME RoundRobinInv, UNCHANGED <<policy, warps, state, sched, passedOver, nextBlock,
                                    resident, alloc>>,
         phase' = phase \/ phase' \in {"done", "thrown"} \/ (phase' = "wake" /\ NoRoom)
  PROVE  RoundRobinInv'
<1>1. DepartCount' = DepartCount /\ DispatchCount' = DispatchCount
  BY DEF DepartCount, DispatchCount, Departed, Dispatched
<1>2. NoRoom' = NoRoom /\ Dispatched' = Dispatched
  BY DEF NoRoom, Dispatched
<1>3. ScanComesCloser' <=> ScanComesCloser
  BY <1>1 DEF ScanComesCloser, Turn, Position
<1>4. RoundStarts' <=> RoundStarts
  BY <1>1 DEF RoundStarts
<1> QED BY <1>2, <1>3, <1>4 DEF RoundRobinInv

\* What blocks hold is a number.
LEMMA HeldType ==
  ASSUME NEW S \in SUBSET Block, NEW f \in Resource
  PROVE  Held(S, f) \in Nat /\ (S = {} => Held(S, f) = 0)
<1> DEFINE U(b) == {b} \X (1..Demand[b][f])
           T == {U(b) : b \in S}
           g == [b \in S |-> U(b)]
<1>1. IsFiniteSet(S)
  BY SMAssumption, FS_Subset
<1>2. g \in Surjection(S, T)
  BY DEF Surjection
<1>3. IsFiniteSet(T)
  <2> HIDE DEF T, g
  <2> QED BY <1>1, <1>2, FS_Surjection
<1>4. ASSUME NEW b \in S PROVE IsFiniteSet(U(b))
  <2>1. Demand[b][f] \in Int /\ 1 \in Int
    BY ResourcesAssumption
  <2>2. IsFiniteSet(1..Demand[b][f])
    BY <2>1, FS_Interval
  <2>3. IsFiniteSet({b})
    BY FS_Singleton
  <2> QED BY <2>2, <2>3, FS_Product
<1>5. IsFiniteSet(UNION T)
  <2>1. \A u \in T : IsFiniteSet(u)
    BY <1>4
  <2> HIDE DEF T
  <2> QED BY <1>3, <2>1, FS_UNION
<1>6. Held(S, f) = Cardinality(UNION T)
  BY DEF Held, Units
<1>7. S = {} => UNION T = {}
  OBVIOUS
<1> HIDE DEF T
<1> QED BY <1>5, <1>6, <1>7, FS_CardinalityType, FS_EmptySet

\* A release that finds no block done changes no total, and every release leaves
\* totals that are numbers.
LEMMA ReleasedType ==
  ASSUME NEW a \in [Resource -> Int], NEW S \in SUBSET Block
  PROVE  Released(a, S) \in [Resource -> Int] /\ (S = {} => Released(a, S) = a)
<1>1. \A f \in Resource : Held(S, f) \in Nat /\ (S = {} => Held(S, f) = 0)
  BY HeldType
<1>2. \A f \in Resource : a[f] - Held(S, f) \in Int /\ (S = {} => a[f] - Held(S, f) = a[f])
  BY <1>1
<1> QED BY <1>2 DEF Released

\* The blocks that are done leave: if there are any a new round starts, which the
\* bound allows for; if there are none nothing changes.
LEMMA RoundRobinRelease ==
  ASSUME CoreInv, CoreInv', SchedulingInv, SchedulingInv', RoundRobinInv, ReleaseBlocks
  PROVE  RoundRobinInv'
<1> DEFINE gone == {b \in resident : BlockDone(b)}
<1>1. /\ resident' = resident \ gone /\ phase = "release" /\ phase' = "admit"
      /\ warps' = {w \in warps : BlockOf[w] \notin gone}
      /\ alloc' = Released(alloc, gone)
      /\ UNCHANGED <<policy, nextBlock, state, sched, passedOver>>
  BY DEF ReleaseBlocks, warpVars, waitVars
<1>2. resident \in SUBSET Block /\ nextBlock \in Nat /\ warps \subseteq Warp
  BY DEF SchedulingInv, TypeInv, TypeOK
<1>3. gone \in SUBSET Block /\ gone \subseteq resident
  BY <1>2
<1> HIDE DEF gone
<1>4. alloc' \in [Resource -> Int] /\ (gone = {} => alloc' = alloc)
  BY <1>1, <1>3, ReleasedType DEF RoundRobinInv
<1>5. \A b \in resident' : b < nextBlock'
  BY <1>1 DEF RoundRobinInv
<1>6. Dispatched' = Dispatched
  BY <1>1 DEF Dispatched
<1>7. passedOver' \in [Warp -> Nat] /\ \A w \in Warp : w \notin Dispatched' => passedOver'[w] = 0
  BY <1>1, <1>6 DEF RoundRobinInv
<1>8. CASE gone = {}
  <2>1. resident' = resident /\ warps' = warps /\ alloc' = alloc
    BY <1>1, <1>4, <1>8
  <2>2. NoRoom'
    BY <1>1, <2>1 DEF RoundRobinInv, NoRoom
  <2>3. DepartCount' = DepartCount /\ DispatchCount' = DispatchCount
    BY <1>1, <2>1 DEF DepartCount, DispatchCount, Departed, Dispatched
  <2>4. ScanComesCloser' <=> ScanComesCloser
    BY <1>1, <2>1, <2>3 DEF ScanComesCloser, Turn, Position
  <2> QED BY <1>1, <1>4, <1>5, <1>7, <2>2, <2>4 DEF RoundRobinInv
<1>9. CASE gone # {} /\ policy = "RR"
  <2>1. PICK b : b \in gone
    BY <1>9
  <2>2. Departed = DepartedFrom(nextBlock, resident) /\ Departed' = DepartedFrom(nextBlock, resident')
    BY <1>1 DEF Departed, DepartedFrom
  <2>3. Departed \cup {b} \subseteq Departed' /\ b \notin Departed
    BY <1>1, <1>2, <1>3, <2>1 DEF Departed, RoundRobinInv
  <2>4. IsFiniteSet(Departed) /\ IsFiniteSet(Departed') /\ DepartCount \in Nat
        /\ DepartCount' \in Nat
    <3>1. resident' \in SUBSET Block
      BY <1>1, <1>2
    <3> QED BY <1>2, <2>2, <3>1, DispatchCounts DEF DepartCount
  <2>5. DepartCount + 1 <= DepartCount'
    <3>1. Cardinality(Departed \cup {b}) = Cardinality(Departed) + 1
      BY <2>3, <2>4, FS_AddElement
    <3>2. Cardinality(Departed \cup {b}) <= Cardinality(Departed')
      BY <2>3, <2>4, FS_Subset
    <3> QED BY <3>1, <3>2 DEF DepartCount
  <2>6. DispatchCount' = DispatchCount /\ DispatchCount \in Nat
    <3>1. Dispatched = DispatchedTo(nextBlock)
      BY DEF Dispatched, DispatchedTo
    <3> QED BY <1>2, <1>6, <3>1, DispatchCounts DEF DispatchCount
  <2>7. /\ Bound(DepartCount, DispatchCount) <= Rounds(DepartCount', DispatchCount')
        /\ Bound(DepartCount, DispatchCount) \in Nat
        /\ Rounds(DepartCount', DispatchCount') \in Nat
    <3> DEFINE d == DepartCount
               n == DispatchCount
               e == DepartCount'
    <3>1. d \in Nat /\ n \in Nat /\ e \in Nat /\ n <= n /\ d + 1 <= e /\ DispatchCount' = n
      BY <2>4, <2>5, <2>6
    <3> HIDE DEF d, n, e
    <3>2. Bound(d, n) <= Rounds(e, n) /\ Bound(d, n) \in Nat /\ Rounds(e, n) \in Nat
      BY <3>1, RoundsGrow
    <3> QED BY <3>1, <3>2 DEF d, n, e
  <2>8. ASSUME NEW w \in warps'
        PROVE  /\ passedOver'[w] = 0 \/ passedOver'[w] < Rounds(DepartCount', DispatchCount')
               /\ state'[w] # "Ready" => passedOver'[w] = 0
    <3>1. w \in warps /\ passedOver'[w] = passedOver[w] /\ passedOver[w] \in Nat
          /\ state'[w] = state[w]
      BY <1>1, <1>2 DEF RoundRobinInv
    <3>2. CASE state[w] # "Ready"
      BY <1>9, <3>1, <3>2 DEF RoundRobinInv, ScanComesCloser
    <3>3. CASE state[w] = "Ready"
      <4>1. passedOver[w] + Turn(w) < Bound(DepartCount, DispatchCount)
        BY <1>9, <3>1, <3>3 DEF RoundRobinInv, ScanComesCloser
      <4>2. Turn(w) \in Nat
        BY <3>1, TurnBelow
      <4> QED BY <2>7, <3>1, <3>3, <4>1, <4>2
    <3> QED BY <3>2, <3>3
  <2>9. RoundStarts'
    BY <2>8 DEF RoundStarts
  <2>10. ScanComesCloser'
    BY <1>5, <1>7, <2>9, StartIsClose
  <2> QED BY <1>1, <1>4, <1>5, <1>7, <2>9, <2>10 DEF RoundRobinInv
<1>10. CASE policy # "RR"
  BY <1>1, <1>4, <1>5, <1>7, <1>10 DEF RoundRobinInv
<1> QED BY <1>8, <1>9, <1>10

\* A block arrives where a round starts, since there was no room before; its warps
\* have not been passed over.
LEMMA RoundRobinAdmit ==
  ASSUME CoreInv, CoreInv', SchedulingInv, SchedulingInv', RoundRobinInv, AdmitBlock
  PROVE  RoundRobinInv'
<1>1. /\ resident' = resident \cup {nextBlock} /\ phase = "admit" /\ phase' = "admit"
      /\ warps' = warps \cup {w \in Warp : BlockOf[w] = nextBlock}
      /\ alloc' = Allocated(alloc, nextBlock)
      /\ nextBlock \in Block /\ CanAdmit(alloc, nextBlock) /\ nextBlock' = nextBlock + 1
      /\ UNCHANGED <<policy, state, sched, passedOver>>
  BY DEF AdmitBlock, warpVars, waitVars
<1>2. /\ nextBlock \in Nat /\ resident \in SUBSET Block /\ warps \subseteq Warp
      /\ \A w \in Warp : BlockOf[w] \in Nat
  BY BlocksNumbered DEF SchedulingInv, TypeInv, TypeOK
<1>3. \A b \in resident' : b < nextBlock'
  <2>1. \A b \in resident : b \in Nat /\ b < nextBlock
    BY <1>2, BlocksNumbered DEF RoundRobinInv
  <2> QED BY <1>1, <1>2, <2>1
<1>4. alloc' \in [Resource -> Int]
  <2>1. alloc \in [Resource -> Int] /\ Demand[nextBlock] \in [Resource -> Nat]
    BY <1>1, ResourcesAssumption DEF RoundRobinInv
  <2> QED BY <1>1, <2>1 DEF Allocated, Plus
<1>5. Dispatched \subseteq Dispatched'
  BY <1>1, <1>2 DEF Dispatched
<1>6. passedOver' \in [Warp -> Nat] /\ \A w \in Warp : w \notin Dispatched' => passedOver'[w] = 0
  BY <1>1, <1>5 DEF RoundRobinInv
<1>7. CASE policy = "RR"
  <2>1. RoundStarts
    BY <1>1, <1>7 DEF RoundRobinInv, NoRoom
  <2>2. Departed' = Departed
    <3>1. \A b \in Block : b \in Nat
      BY BlocksNumbered
    <3>2. \A b \in Block : b < nextBlock' /\ b \notin resident'
                           <=> b < nextBlock /\ b \notin resident
      BY <1>1, <1>2, <3>1
    <3> QED BY <3>2 DEF Departed
  <2>3. DepartCount' = DepartCount /\ DepartCount \in Nat
    <3>1. Departed = DepartedFrom(nextBlock, resident)
      BY DEF Departed, DepartedFrom
    <3> QED BY <1>2, <2>2, <3>1, DispatchCounts DEF DepartCount
  <2>4. DispatchCount \in Nat /\ DispatchCount' \in Nat /\ DispatchCount <= DispatchCount'
    <3>1. Dispatched = DispatchedTo(nextBlock) /\ Dispatched' = DispatchedTo(nextBlock')
      BY DEF Dispatched, DispatchedTo
    <3>2. nextBlock' \in Nat
      BY <1>1, <1>2
    <3>3. IsFiniteSet(Dispatched') /\ Cardinality(Dispatched) \in Nat
          /\ Cardinality(Dispatched') \in Nat
      BY <1>2, <3>1, <3>2, DispatchCounts
    <3>4. Cardinality(Dispatched) <= Cardinality(Dispatched')
      BY <1>5, <3>3, FS_Subset
    <3> QED BY <3>3, <3>4 DEF DispatchCount
  <2>5. /\ Rounds(DepartCount, DispatchCount) <= Rounds(DepartCount', DispatchCount')
        /\ Rounds(DepartCount, DispatchCount) \in Nat
        /\ Rounds(DepartCount', DispatchCount') \in Nat
    <3> DEFINE d == DepartCount
               n == DispatchCount
               m == DispatchCount'
    <3>1. d \in Nat /\ n \in Nat /\ m \in Nat /\ n <= m /\ d <= d /\ DepartCount' = d
      BY <2>3, <2>4
    <3> HIDE DEF d, n, m
    <3>2. Rounds(d, n) <= Rounds(d, m) /\ Rounds(d, n) \in Nat
      BY <3>1, RoundsGrow
    <3>3. Rounds(d, m) \in Nat
      BY <3>1, RoundsGrow
    <3> QED BY <3>1, <3>2, <3>3 DEF d, n, m
  <2>6. ASSUME NEW w \in warps'
        PROVE  /\ passedOver'[w] = 0 \/ passedOver'[w] < Rounds(DepartCount', DispatchCount')
               /\ state'[w] # "Ready" => passedOver'[w] = 0
    <3>1. passedOver'[w] = passedOver[w] /\ state'[w] = state[w]
      BY <1>1
    <3>2. CASE w \in warps
      <4>1. /\ passedOver[w] = 0 \/ passedOver[w] < Rounds(DepartCount, DispatchCount)
            /\ state[w] # "Ready" => passedOver[w] = 0
        BY <2>1, <3>2 DEF RoundStarts
      <4>2. passedOver[w] \in Nat
        BY <1>2, <3>2 DEF RoundRobinInv
      <4> QED BY <2>5, <3>1, <4>1, <4>2
    <3>3. CASE w \notin warps
      <4>1. w \in Warp /\ BlockOf[w] = nextBlock
        BY <1>1, <3>3
      <4>2. w \notin Dispatched
        BY <1>2, <4>1 DEF Dispatched
      <4>3. passedOver[w] = 0
        BY <4>1, <4>2 DEF RoundRobinInv
      <4> QED BY <3>1, <4>3
    <3> QED BY <3>2, <3>3
  <2>7. RoundStarts'
    BY <2>6 DEF RoundStarts
  <2>8. ScanComesCloser'
    BY <1>3, <1>6, <2>7, StartIsClose
  <2> QED BY <1>1, <1>3, <1>4, <1>6, <2>7, <2>8 DEF RoundRobinInv
<1>8. CASE policy # "RR"
  BY <1>1, <1>3, <1>4, <1>6, <1>8 DEF RoundRobinInv
<1> QED BY <1>7, <1>8

\* A warp that wakes up has not been passed over yet.
LEMMA RoundRobinWake ==
  ASSUME CoreInv, SchedulingInv, RoundRobinInv, WakeWarps
  PROVE  RoundRobinInv'
<1>1. /\ UNCHANGED <<policy, warps, sched, passedOver, nextBlock, resident, alloc>>
      /\ phase = "wake" /\ phase' = "issue"
      /\ state' = [w \in Warp |-> IF Wakes(w) THEN "Ready" ELSE state[w]]
  BY DEF WakeWarps, dispatchVars, waitVars
<1>2. warps \subseteq Warp /\ \A w \in Warp : passedOver[w] \in Nat
  BY DEF SchedulingInv, TypeInv, TypeOK, RoundRobinInv
<1>3. NoRoom' /\ Dispatched' = Dispatched
  BY <1>1 DEF RoundRobinInv, NoRoom, Dispatched
<1>4. ASSUME ScanComesCloser PROVE ScanComesCloser'
  <2> DEFINE top == Bound(DepartCount, DispatchCount)
  <2>1. (\A w : Turn(w)' = Turn(w)) /\ top' = top
    BY <1>1 DEF Turn, Position, DepartCount, DispatchCount, Departed, Dispatched
  <2>2. top \in Nat /\ Cardinality(warps) \in Nat /\ Cardinality(warps) <= top
    BY BoundAboveWarps
  <2>3. \A w \in warps : /\ state[w] = "Ready" => passedOver[w] + Turn(w) < top
                         /\ state[w] # "Ready" => passedOver[w] = 0
    BY <1>4 DEF ScanComesCloser
  <2> HIDE DEF top
  <2>4. ASSUME NEW w \in warps
        PROVE  /\ state'[w] = "Ready" => passedOver[w] + Turn(w) < top
               /\ state'[w] # "Ready" => passedOver[w] = 0
    <3>1. Turn(w) \in Nat /\ Turn(w) < Cardinality(warps)
      BY TurnBelow
    <3>2. w \in Warp /\ (state'[w] = "Ready" \/ state'[w] = state[w])
      BY <1>1, <1>2
    <3>3. CASE state[w] = "Ready"
      BY <2>3, <3>2, <3>3
    <3>4. CASE state[w] # "Ready"
      <4>1. passedOver[w] = 0
        BY <2>3, <3>4
      <4> QED BY <2>2, <3>1, <4>1
    <3> QED BY <3>3, <3>4
  <2> QED BY <1>1, <2>1, <2>4 DEF ScanComesCloser, top
<1> QED BY <1>1, <1>3, <1>4 DEF RoundRobinInv

\* The history of passes is a number for each warp.
LEMMA PassOverType ==
  ASSUME passedOver \in [Warp -> Nat], NEW S, PassOver(S)
  PROVE  passedOver' \in [Warp -> Nat]
BY DEF PassOver

\* Every step keeps the invariant.
LEMMA RoundRobinStep ==
  ASSUME CoreInv, CoreInv', SchedulingInv, SchedulingInv', RoundRobinInv, [Next]_vars
  PROVE  RoundRobinInv'
<1>1. CASE ReleaseBlocks
  BY <1>1, RoundRobinRelease
<1>2. CASE AdmitBlock
  BY <1>2, RoundRobinAdmit
<1>3. CASE WakeWarps
  BY <1>3, RoundRobinWake
<1>4. CASE AdmitStop \/ AdmitThrow \/ Ended \/ UNCHANGED vars
  <2>1. /\ UNCHANGED <<policy, warps, state, sched, passedOver, nextBlock, resident, alloc>>
        /\ phase' = phase \/ phase' \in {"done", "thrown"} \/ (phase' = "wake" /\ NoRoom)
    BY <1>4 DEF AdmitStop, AdmitThrow, Throw, Ended, vars, dispatchVars, warpVars, waitVars,
                NoRoom
  <2> QED BY <2>1, RoundRobinSame
<1>5. ASSUME NEW S, PassOver(S), S \subseteq warps, phase = "issue",
             phase' \in {"release", "thrown"},
             UNCHANGED <<policy, warps, nextBlock, resident, alloc>>,
             policy = "RR" => ScanComesCloser'
      PROVE  RoundRobinInv'
  <2>1. passedOver' \in [Warp -> Nat]
    BY <1>5, PassOverType DEF RoundRobinInv
  <2>2. NoRoom' /\ Dispatched' = Dispatched
    BY <1>5 DEF NoRoom, Dispatched, RoundRobinInv
  <2>3. ASSUME NEW w \in Warp, w \notin Dispatched PROVE passedOver'[w] = 0
    <3>1. w \notin warps
      BY <2>3 DEF CoreInv, NoWorkDropped, RoundRobinInv, Dispatched
    <3>2. passedOver'[w] = passedOver[w]
      BY <1>5, <3>1 DEF PassOver, Ready
    <3> QED BY <2>3, <3>2 DEF RoundRobinInv
  <2> QED BY <1>5, <2>1, <2>2, <2>3 DEF RoundRobinInv
<1>6. CASE TickIdle
  <2>1. /\ PassOver({}) /\ phase = "issue" /\ sched' = SchedIdle /\ phase' = "release"
        /\ UNCHANGED <<policy, warps, nextBlock, resident, alloc, state>>
    BY <1>6 DEF TickIdle, NextTick, dispatchVars, warpVars
  <2>2. ASSUME policy = "RR" PROVE ScanComesCloser'
    <3>1. Ready = {}
      <4>1. SUFFICES ASSUME Ready # {} PROVE FALSE
        OBVIOUS
      <4>2. PICK x : {w \in warps : Selects(w)} = {x}
        BY <2>2, <4>1, SomeSelected DEF PrioritiesCount
      <4> QED BY <1>6, <4>2 DEF TickIdle
    <3>2. \A w \in Warp : passedOver'[w] = passedOver[w]
      BY <2>1, <3>1 DEF PassOver
    <3>3. sched' = sched
      BY <2>1, <2>2 DEF SchedIdle
    <3>4. warps \subseteq Warp /\ ScanComesCloser
      BY <2>2 DEF SchedulingInv, TypeInv, TypeOK, RoundRobinInv
    <3>5. DepartCount' = DepartCount /\ DispatchCount' = DispatchCount
      BY <2>1 DEF DepartCount, DispatchCount, Departed, Dispatched
    <3> QED BY <2>1, <3>2, <3>3, <3>4, <3>5 DEF ScanComesCloser, Turn, Position
  <2> QED BY <1>5, <2>1, <2>2
<1>7. ASSUME NEW w \in Warp, Tick(w) PROVE RoundRobinInv'
  <2>1. /\ PassOver({w}) /\ phase = "issue" /\ {w} \subseteq warps
        /\ UNCHANGED <<policy, warps, nextBlock, resident, alloc>>
    BY <1>7 DEF Tick, Issue, dispatchVars, Selects, Ready
  <2>2. phase' \in {"release", "thrown"}
    BY <1>7 DEF Tick, TickFetchEnd, TickAlu, TickMem, TickMemThrow, TickCmp, TickBranch,
                TickSsy, TickSync, TickSyncThrow, TickBarrierWait, TickBarrierRelease,
                TickBarrierMalformed, TickBarrierDivergent, NextTick, Throw
  <2>3. policy = "RR" => ScanComesCloser'
    BY <1>7, TickComesCloser
  <2> QED BY <1>5, <2>1, <2>2, <2>3
<1> QED BY <1>1, <1>2, <1>3, <1>4, <1>6, <1>7 DEF Next

\* RoundRobinScheduler passes a ready warp over fewer times than there were warps
\* dispatched, for each block that has left and once more, whatever index an earlier
\* launch has left: for every grid, also while the erase of released blocks shifts
\* warps under the index and new blocks join them.
THEOREM RoundRobinBoundHolds == Spec => []RoundRobinBound
<1> DEFINE Inv == CoreInv /\ RoundRobinInv
<1>1. Init => Inv
  BY CoreInit, RoundRobinInit
<1>2. Inv /\ SchedulingInv /\ SchedulingInv' /\ [Next]_vars => Inv'
  BY CoreStep, RoundRobinStep
<1>3. Inv /\ SchedulingInv => RoundRobinBound
  <2> SUFFICES ASSUME Inv, SchedulingInv, policy = "RR", NEW w \in Ready
               PROVE  passedOver[w] < Bound(DepartCount, DispatchCount)
    BY DEF RoundRobinBound, Bound, DepartCount, DispatchCount
  <2>1. w \in warps /\ state[w] = "Ready" /\ w \in Warp
    BY DEF Ready, SchedulingInv, TypeInv, TypeOK
  <2>2. /\ passedOver[w] + Turn(w) < Bound(DepartCount, DispatchCount)
        /\ passedOver[w] \in Nat
    BY <2>1 DEF RoundRobinInv, ScanComesCloser
  <2>3. Bound(DepartCount, DispatchCount) \in Nat /\ Turn(w) \in Nat
    BY <2>1, TurnBelow, BoundAboveWarps
  <2> QED BY <2>2, <2>3
<1> QED BY <1>1, <1>2, <1>3, SchedulingAlways, PTL DEF Spec

-----------------------------------------------------------------------------
(* The accounting of waits.                                                *)

\* The waits f[u] of the warps of S, as a set of that many pairs.
WaitPairs(f, S) == UNION {{u} \X (1..f[u]) : u \in S}
WaitSum(f, S) == Cardinality(WaitPairs(f, S))

\* The members of WaitPairs.
LEMMA PairIn ==
  ASSUME NEW f, NEW S
  PROVE  /\ \A p \in WaitPairs(f, S) : \E u \in S : \E k \in 1..f[u] : p = <<u, k>>
         /\ \A u \in S : \A k \in 1..f[u] : <<u, k>> \in WaitPairs(f, S)
<1>1. ASSUME NEW p \in WaitPairs(f, S) PROVE \E u \in S : \E k \in 1..f[u] : p = <<u, k>>
  <2>1. PICK u \in S : p \in {u} \X (1..f[u])
    BY DEF WaitPairs
  <2> QED BY <2>1
<1>2. ASSUME NEW u \in S, NEW k \in 1..f[u] PROVE <<u, k>> \in WaitPairs(f, S)
  <2>1. <<u, k>> \in {u} \X (1..f[u])
    OBVIOUS
  <2> QED BY <2>1, Zenon DEF WaitPairs
<1> QED BY <1>1, <1>2

\* A sum of waits is finite.
LEMMA WaitPairsFinite ==
  ASSUME NEW S \in SUBSET Warp, NEW f \in [Warp -> Nat]
  PROVE  IsFiniteSet(S) /\ IsFiniteSet(WaitPairs(f, S)) /\ WaitSum(f, S) \in Nat
<1> DEFINE U(s) == {s} \X (1..f[s])
           T == {U(s) : s \in S}
           g == [s \in S |-> U(s)]
<1>1. IsFiniteSet(S)
  BY SchedulerAssumption, FS_Subset
<1>2. g \in Surjection(S, T)
  BY DEF Surjection
<1>3. IsFiniteSet(T)
  <2> HIDE DEF T, g
  <2> QED BY <1>1, <1>2, FS_Surjection
<1>4. ASSUME NEW s \in S PROVE IsFiniteSet(U(s))
  <2>1. f[s] \in Int /\ 1 \in Int
    OBVIOUS
  <2>2. IsFiniteSet(1..f[s])
    BY <2>1, FS_Interval
  <2>3. IsFiniteSet({s})
    BY FS_Singleton
  <2> QED BY <2>2, <2>3, FS_Product
<1>5. IsFiniteSet(UNION T)
  <2>1. \A u \in T : IsFiniteSet(u)
    BY <1>4
  <2> HIDE DEF T
  <2> QED BY <1>3, <2>1, FS_UNION
<1>6. IsFiniteSet(WaitPairs(f, S))
  BY <1>5 DEF WaitPairs
<1> QED BY <1>1, <1>6, FS_CardinalityType DEF WaitSum

\* The size of the union of two disjoint sets.
LEMMA DisjointSum ==
  ASSUME NEW A, NEW B, IsFiniteSet(A), IsFiniteSet(B), A \cap B = {}
  PROVE  Cardinality(A \cup B) = Cardinality(A) + Cardinality(B)
<1>1. Cardinality(A \cup B) = Cardinality(A) + Cardinality(B) - Cardinality({})
  BY FS_Union
<1>2. Cardinality({}) = 0
  BY FS_EmptySet
<1>3. Cardinality(A) \in Nat /\ Cardinality(B) \in Nat
  BY FS_CardinalityType
<1> QED BY <1>1, <1>2, <1>3

\* Sums of disjoint sets of warps add up.
LEMMA WaitSumUnion ==
  ASSUME NEW S \in SUBSET Warp, NEW T \in SUBSET Warp, S \cap T = {},
         NEW f \in [Warp -> Nat]
  PROVE  WaitSum(f, S \cup T) = WaitSum(f, S) + WaitSum(f, T)
<1>1. WaitPairs(f, S \cup T) = WaitPairs(f, S) \cup WaitPairs(f, T)
  BY DEF WaitPairs
<1>2. WaitPairs(f, S) \cap WaitPairs(f, T) = {}
  <2> SUFFICES ASSUME NEW p \in WaitPairs(f, S), p \in WaitPairs(f, T) PROVE FALSE
    OBVIOUS
  <2>1. PICK u \in S : \E k \in 1..f[u] : p = <<u, k>>
    BY PairIn
  <2>2. PICK v \in T : \E k \in 1..f[v] : p = <<v, k>>
    BY PairIn
  <2> QED BY <2>1, <2>2
<1>3. IsFiniteSet(WaitPairs(f, S)) /\ IsFiniteSet(WaitPairs(f, T))
  BY WaitPairsFinite
<1> QED BY <1>1, <1>2, <1>3, DisjointSum DEF WaitSum

\* Waits that are the same have the same sum.
LEMMA WaitSumSame ==
  ASSUME NEW S, NEW f, NEW g, \A u \in S : f[u] = g[u]
  PROVE  WaitSum(f, S) = WaitSum(g, S)
<1>1. {{u} \X (1..f[u]) : u \in S} = {{u} \X (1..g[u]) : u \in S}
  OBVIOUS
<1> QED BY <1>1 DEF WaitSum, WaitPairs

\* No waits add up to nothing.
LEMMA WaitSumZero ==
  ASSUME NEW S, NEW f, \A u \in S : f[u] = 0
  PROVE  WaitSum(f, S) = 0
<1>1. WaitPairs(f, S) = {}
  <2> SUFFICES ASSUME NEW p \in WaitPairs(f, S) PROVE FALSE
    OBVIOUS
  <2>1. PICK u \in S : \E k \in 1..f[u] : p = <<u, k>>
    BY PairIn
  <2> QED BY <2>1
<1> QED BY <1>1, FS_EmptySet DEF WaitSum

\* One more cycle of waiting for each warp of S.
LEMMA WaitSumRaised ==
  ASSUME NEW S \in SUBSET Warp, NEW f \in [Warp -> Nat], NEW g \in [Warp -> Nat],
         \A u \in S : g[u] = f[u] + 1
  PROVE  WaitSum(g, S) = WaitSum(f, S) + Cardinality(S)
<1> DEFINE top == [u \in S |-> <<u, f[u] + 1>>]
           B == {top[u] : u \in S}
<1>1. IsFiniteSet(S) /\ IsFiniteSet(WaitPairs(f, S))
  BY WaitPairsFinite
<1>2. IsFiniteSet(B) /\ Cardinality(B) = Cardinality(S)
  <2>1. top \in Surjection(S, B)
    BY DEF Surjection
  <2>2. ASSUME NEW u \in S, NEW v \in S, top[u] = top[v] PROVE u = v
    <3>1. <<u, f[u] + 1>> = <<v, f[v] + 1>>
      BY <2>2
    <3> QED BY <3>1
  <2>3. top \in [S -> B]
    BY DEF B
  <2> HIDE DEF top, B
  <2>4. top \in Injection(S, B)
    BY <2>2, <2>3 DEF Injection, IsInjective
  <2> QED BY <1>1, <2>1, <2>4, FS_Surjection
<1>3. \A u \in S : f[u] \in Nat /\ 1..g[u] = (1..f[u]) \cup {f[u] + 1} /\ f[u] + 1 \notin 1..f[u]
  OBVIOUS
<1>4. WaitPairs(g, S) = WaitPairs(f, S) \cup B
  <2>1. ASSUME NEW p \in WaitPairs(g, S) PROVE p \in WaitPairs(f, S) \cup B
    <3>1. PICK u \in S : \E k \in 1..g[u] : p = <<u, k>>
      BY PairIn
    <3>2. PICK k \in 1..g[u] : p = <<u, k>>
      BY <3>1
    <3>3. CASE k \in 1..f[u]
      BY <3>2, <3>3, PairIn
    <3>4. CASE k = f[u] + 1
      BY <3>2, <3>4
    <3> QED BY <1>3, <3>3, <3>4
  <2>2. ASSUME NEW p \in WaitPairs(f, S) PROVE p \in WaitPairs(g, S)
    <3>1. PICK u \in S : \E k \in 1..f[u] : p = <<u, k>>
      BY PairIn
    <3>2. PICK k \in 1..f[u] : p = <<u, k>>
      BY <3>1
    <3> QED BY <1>3, <3>2, PairIn
  <2>3. ASSUME NEW p \in B PROVE p \in WaitPairs(g, S)
    <3>1. PICK u \in S : p = <<u, f[u] + 1>>
      OBVIOUS
    <3> QED BY <1>3, <3>1, PairIn
  <2> QED BY <2>1, <2>2, <2>3
<1>5. WaitPairs(f, S) \cap B = {}
  <2> SUFFICES ASSUME NEW p \in WaitPairs(f, S), p \in B PROVE FALSE
    OBVIOUS
  <2>1. PICK u \in S : \E k \in 1..f[u] : p = <<u, k>>
    BY PairIn
  <2>2. PICK k \in 1..f[u] : p = <<u, k>>
    BY <2>1
  <2>3. PICK v \in S : p = <<v, f[v] + 1>>
    OBVIOUS
  <2>4. u = v /\ k = f[v] + 1
    BY <2>2, <2>3
  <2> QED BY <1>3, <2>4
<1> HIDE DEF B
<1> QED BY <1>1, <1>2, <1>4, <1>5, DisjointSum DEF WaitSum

\* The accounting: what the warps of S had waited is taken out, and each of the
\* other ready warps has waited one cycle more.
LEMMA WaitsAccounted ==
  ASSUME TypeInv, NEW S \in SUBSET Ready, AccountWaits(S)
  PROVE  /\ WaitOf(Warp)' + WaitOf(S) = WaitOf(Warp) + Cardinality(Ready \ S)
         /\ WaitOf(Warp)' \in Nat /\ WaitOf(S) \in Nat /\ WaitOf(Warp) \in Nat
         /\ Cardinality(Ready \ S) \in Nat
<1> DEFINE P == Ready \ S
           R == Warp \ Ready
           f == wait
           g == wait'
<1>1. Ready \subseteq Warp /\ f \in [Warp -> Nat]
  BY DEF Ready, TypeInv, TypeOK
<1>2. g = [u \in Warp |-> IF u \in S THEN 0 ELSE IF u \in Ready THEN f[u] + 1 ELSE f[u]]
  BY DEF AccountWaits
<1>3. /\ g \in [Warp -> Nat] /\ \A u \in S : g[u] = 0
      /\ \A u \in P : g[u] = f[u] + 1
      /\ \A u \in R : g[u] = f[u]
  BY <1>1, <1>2
<1>4. /\ WaitOf(Warp)' = WaitSum(g, Warp)
      /\ \A T : WaitOf(T) = WaitSum(f, T)
  BY DEF WaitOf, WaitSum, WaitPairs
<1>5. /\ S \in SUBSET Warp /\ P \in SUBSET Warp /\ R \in SUBSET Warp
      /\ P \cup R \in SUBSET Warp /\ S \cup (P \cup R) = Warp
      /\ S \cap (P \cup R) = {} /\ P \cap R = {}
  BY <1>1
<1> HIDE DEF P, R, f, g
<1>6. ASSUME NEW h \in [Warp -> Nat]
      PROVE  WaitSum(h, Warp) = WaitSum(h, S) + (WaitSum(h, P) + WaitSum(h, R))
  <2>1. WaitSum(h, S \cup (P \cup R)) = WaitSum(h, S) + WaitSum(h, P \cup R)
    BY <1>5, WaitSumUnion
  <2>2. WaitSum(h, P \cup R) = WaitSum(h, P) + WaitSum(h, R)
    BY <1>5, WaitSumUnion
  <2> QED BY <1>5, <2>1, <2>2
<1>7. WaitSum(g, S) = 0
  BY <1>3, WaitSumZero
<1>8. WaitSum(g, P) = WaitSum(f, P) + Cardinality(P)
  BY <1>1, <1>3, <1>5, WaitSumRaised
<1>9. WaitSum(g, R) = WaitSum(f, R)
  BY <1>3, WaitSumSame
<1>10. /\ WaitSum(f, S) \in Nat /\ WaitSum(f, P) \in Nat /\ WaitSum(f, R) \in Nat
       /\ IsFiniteSet(P)
  BY <1>1, <1>5, WaitPairsFinite
<1>11. Cardinality(P) \in Nat
  BY <1>10, FS_CardinalityType
<1>12. /\ WaitSum(g, Warp) = 0 + ((WaitSum(f, P) + Cardinality(P)) + WaitSum(f, R))
       /\ WaitSum(f, Warp) = WaitSum(f, S) + (WaitSum(f, P) + WaitSum(f, R))
  BY <1>1, <1>3, <1>6, <1>7, <1>8, <1>9
<1>13. /\ WaitSum(g, Warp) + WaitSum(f, S) = WaitSum(f, Warp) + Cardinality(P)
       /\ WaitSum(g, Warp) \in Nat /\ WaitSum(f, Warp) \in Nat
  BY <1>10, <1>11, <1>12
<1> QED BY <1>4, <1>10, <1>11, <1>13 DEF P

\* What is recorded and what is pending, next to what was waited.
WaitInv ==
  /\ counters.waitTotal \in Nat /\ waited \in Nat
  /\ counters.waitTotal + WaitOf(Warp) <= waited

\* Nobody has waited initially.
LEMMA WaitInit == Init => WaitInv /\ WaitConservation
<1> SUFFICES ASSUME Init PROVE WaitInv /\ WaitConservation
  OBVIOUS
<1>1. WaitOf(Warp) = 0
  <2>1. \A u \in Warp : wait[u] = 0
    BY DEF Init
  <2>2. WaitSum(wait, Warp) = 0
    BY <2>1, WaitSumZero
  <2> QED BY <2>2 DEF WaitOf, WaitSum, WaitPairs
<1>2. counters.waitTotal = 0 /\ waited = 0
  BY DEF Init, ZeroCounters
<1> QED BY <1>1, <1>2 DEF WaitInv, WaitConservation

\* A tick in which the warps of S count as selected and those of T are.
LEMMA WaitTick ==
  ASSUME TypeInv, WaitInv, NEW S \in SUBSET Ready, NEW T \in SUBSET S,
         AccountWaits(S), PassOver(T),
         counters'.waitTotal = counters.waitTotal + WaitOf(S)
  PROVE  WaitInv' /\ (S = T /\ WaitConservation => WaitConservation')
<1> DEFINE n == Cardinality(Ready \ S)
           m == Cardinality(Ready \ T)
           a == counters.waitTotal
           b == WaitOf(Warp)
           c == WaitOf(Warp)'
           d == WaitOf(S)
<1>1. c + d = b + n /\ b \in Nat /\ c \in Nat /\ d \in Nat /\ n \in Nat
  BY WaitsAccounted
<1>2. IsFiniteSet(Ready)
  BY WarpsFinite DEF Ready, TypeInv, TypeOK
<1>3. m \in Nat /\ n <= m
  <2>1. IsFiniteSet(Ready \ T) /\ Ready \ S \subseteq Ready \ T
    BY <1>2, FS_Subset
  <2> QED BY <2>1, FS_Subset, FS_CardinalityType
<1>4. waited' = waited + m /\ waited \in Nat /\ a \in Nat /\ a + b <= waited
  BY DEF PassOver, WaitInv
<1>5. counters'.waitTotal = a + d
  OBVIOUS
<1>6. S = T => n = m
  OBVIOUS
<1> HIDE DEF a, b, c, d, n, m
<1>7. /\ a + d \in Nat /\ waited' \in Nat /\ (a + d) + c <= waited'
      /\ n = m /\ a + b = waited => (a + d) + c = waited'
  BY <1>1, <1>3, <1>4
<1> QED BY <1>5, <1>6, <1>7 DEF WaitInv, WaitConservation, a, b, c

\* Every step keeps the invariant, and the equality if ids are distinct.
LEMMA WaitStepKeeps ==
  TypeInv /\ WaitInv /\ [Next]_vars
    => WaitInv' /\ (IdsDistinct /\ WaitConservation => WaitConservation')
<1> SUFFICES ASSUME TypeInv, WaitInv, [Next]_vars
             PROVE  WaitInv' /\ (IdsDistinct /\ WaitConservation => WaitConservation')
  OBVIOUS
<1>1. Clocked(counters)
  BY DEF TypeInv
<1>2. CASE UNCHANGED <<wait, waited>> /\ counters'.waitTotal = counters.waitTotal
  BY <1>2 DEF WaitInv, WaitConservation, WaitOf
<1>3. CASE ReleaseBlocks \/ AdmitBlock \/ AdmitStop \/ AdmitThrow \/ Ended \/ UNCHANGED vars
  BY <1>2, <1>3 DEF ReleaseBlocks, AdmitBlock, AdmitStop, AdmitThrow, Ended, vars, waitVars
<1>4. CASE WakeWarps
  <2>1. UNCHANGED <<wait, waited>>
    BY <1>4 DEF WakeWarps, waitVars
  <2>2. counters'.waitTotal = counters.waitTotal
    BY <1>1, <1>4 DEF WakeWarps, Clocked, CounterName
  <2> QED BY <1>2, <2>1, <2>2
<1>5. CASE TickIdle
  <2>1. AccountWaits({}) /\ PassOver({}) /\ counters' = WaitsRecorded({})
    BY <1>5 DEF TickIdle
  <2>2. counters'.waitTotal = counters.waitTotal + WaitOf({})
    BY <1>1, <2>1, WaitTotalRecorded
  <2>3. {} \in SUBSET Ready /\ {} \in SUBSET {}
    OBVIOUS
  <2> QED BY <2>1, <2>2, <2>3, WaitTick
<1>6. ASSUME NEW w \in Warp, Tick(w)
      PROVE  WaitInv' /\ (IdsDistinct /\ WaitConservation => WaitConservation')
  <2>1. w \in Ready /\ AccountWaits(Credited(w)) /\ PassOver({w})
    BY <1>6 DEF Tick, Issue, Selects
  <2>2. counters'.waitTotal = counters.waitTotal + WaitOf(Credited(w))
    BY <1>1, <1>6, TickCounts
  <2>3. Credited(w) \in SUBSET Ready /\ {w} \in SUBSET Credited(w)
    BY <2>1 DEF Credited
  <2>4. IdsDistinct => Credited(w) = {w}
    BY <2>1 DEF IdsDistinct, Credited, Ready
  <2>5. WaitInv' /\ (Credited(w) = {w} /\ WaitConservation => WaitConservation')
    BY <2>1, <2>2, <2>3, WaitTick
  <2> QED BY <2>4, <2>5
<1> QED BY <1>3, <1>4, <1>5, <1>6 DEF Next

\* Whatever the grid, record_warp_wait never counts a wait twice: what is recorded
\* and what is pending is at most what ready warps have waited.
THEOREM WaitsNeverOvercounted == Spec => []WaitsNotOvercounted
<1>1. WaitInv => WaitsNotOvercounted
  BY DEF WaitInv, WaitsNotOvercounted
<1>2. Init => WaitInv
  BY WaitInit
<1>3. TypeInv /\ WaitInv /\ [Next]_vars => WaitInv'
  BY WaitStepKeeps
<1> QED BY <1>1, <1>2, <1>3, TypeInit, TypeStep, PTL DEF Spec

\* No wait is lost either as long as the warps on the SM bear different ids, as
\* they do when it holds one block at a time.  (The accounting goes by warp id: a
\* ready warp with the id of the selected one loses the cycle.)
THEOREM WaitConservationHolds == Spec /\ []IdsDistinct => []WaitConservation
<1>1. Init => WaitInv /\ WaitConservation
  BY WaitInit
<1>2. TypeInv /\ WaitInv /\ IdsDistinct /\ WaitConservation /\ [Next]_vars
      => WaitInv' /\ WaitConservation'
  BY WaitStepKeeps
<1> QED BY <1>1, <1>2, TypeInit, TypeStep, PTL DEF Spec

-----------------------------------------------------------------------------
(* Memory latency.                                                         *)

\* The inductive invariant behind LatencyPaid, for one warp: a stalled warp is on
\* the SM and stall_cycles_remaining_ is the time it has left; any other may be
\* selected now, or in the next cycle if this one has had its turn.
WarpPays(w) ==
  /\ retired[w].at \in Nat /\ retired[w].latency \in Nat
  /\ state[w] = "Stalled" =>
       w \in warps /\ stall[w] >= 1 /\ stall[w] = DueAt(w) - counters.cycles
  /\ state[w] # "Stalled" =>
       IF phase = "issue" THEN DueAt(w) <= counters.cycles ELSE DueAt(w) <= counters.cycles + 1

LatencyInv == DOMAIN retired = Warp /\ \A w \in Warp : WarpPays(w)

\* A warp is due at some cycle.
LEMMA DueAtType ==
  ASSUME NEW w, WarpPays(w)
  PROVE  DueAt(w) \in Nat
BY DEF DueAt, WarpPays

\* A warp that a step leaves as it is, or takes from one kind of waiting that is not
\* for memory to another.
LEMMA PaysSame ==
  ASSUME TypeInv, NEW w \in Warp, WarpPays(w),
         retired'[w] = retired[w], stall'[w] = stall[w],
         counters'.cycles = counters.cycles, phase' = phase \/ phase' # "issue",
         state'[w] = "Stalled" <=> state[w] = "Stalled",
         state[w] = "Stalled" => w \in warps'
  PROVE  WarpPays(w)'
<1>1. DueAt(w)' = DueAt(w) /\ DueAt(w) \in Nat
  BY DueAtType DEF DueAt
<1>2. counters.cycles \in Nat
  BY DEF TypeInv, Clocked
<1> QED BY <1>1, <1>2 DEF WarpPays

\* A tick charges the selected warp through step 5 (Retire), or leaves it unstalled.
LEMMA TickCharges ==
  ASSUME TypeInv, NEW w \in Warp, Tick(w)
  PROVE  \/ UNCHANGED <<stall, retired>> /\ state'[w] # "Stalled"
         \/ \E c : \E n \in Nat : Retire(w, c, n)
<1>1. state[w] = "Ready" /\ state \in [Warp -> WarpState]
  BY DEF Tick, Issue, Selects, Ready, TypeInv, TypeOK
<1>2. CASE TickFetchEnd(w)
  BY <1>1, <1>2 DEF TickFetchEnd
<1>3. CASE TickMem(w)
  <2>1. \E n \in Latencies : Retire(w, Advanced(ctx[w]), n)
    BY <1>3, Zenon DEF TickMem
  <2>2. Latencies \subseteq Nat
    BY SMAssumption
  <2> QED BY <2>1, <2>2
<1>4. CASE TickAlu(w) \/ TickCmp(w) \/ TickBranch(w) \/ TickSsy(w) \/ TickSync(w)
  <2>1. \E c : Retire(w, c, 1)
    BY <1>4, Zenon DEF TickAlu, TickCmp, TickBranch, TickSsy, TickSync
  <2>2. 1 \in Nat
    OBVIOUS
  <2> QED BY <2>1, <2>2, Zenon
<1>5. CASE TickMemThrow(w) \/ TickSyncThrow(w) \/ TickBarrierDivergent(w)
  BY <1>1, <1>5 DEF TickMemThrow, TickSyncThrow, TickBarrierDivergent, warpVars
<1>6. CASE TickBarrierWait(w) \/ TickBarrierMalformed(w)
  BY <1>1, <1>6 DEF TickBarrierWait, TickBarrierMalformed, Arrive
<1>7. CASE TickBarrierRelease(w)
  <2>1. UNCHANGED <<stall, retired>>
    BY <1>7 DEF TickBarrierRelease, Arrive
  <2>2. state'[w] # "Stalled"
    BY <1>7 DEF TickBarrierRelease, Freed
  <2> QED BY <2>1, <2>2
<1> QED BY <1>2, <1>3, <1>4, <1>5, <1>6, <1>7 DEF Tick

\* Step 5 stalls the warp for the latency less the cycle of the issue, or not at all.
LEMMA RetirePays ==
  ASSUME TypeInv, LatencyInv, NEW w \in warps, state[w] = "Ready", phase' # "issue",
         warps' = warps, counters'.cycles = counters.cycles,
         NEW c, NEW n \in Nat, Retire(w, c, n)
  PROVE  WarpPays(w)'
<1> DEFINE ended == c.pc >= Size
           r == [at |-> counters.cycles, latency |-> n, ended |-> ended]
<1>0. /\ w \in Warp /\ state \in [Warp -> WarpState] /\ stall \in [Warp -> Nat]
      /\ counters.cycles \in Nat /\ DOMAIN retired = Warp
  BY DEF TypeInv, TypeOK, Clocked, LatencyInv
<1>1. retired' = [retired EXCEPT ![w] = r]
  BY Zenon DEF Retire
<1>2. retired'[w] = r
  BY <1>0, <1>1
<1>3. /\ retired'[w].at = counters.cycles /\ retired'[w].latency = n
      /\ retired'[w].ended = ended
  BY <1>2
<1>4. DueAt(w)' = counters.cycles + (IF ended \/ n <= 2 THEN 1 ELSE n - 1)
  BY <1>3 DEF DueAt
<1>5. stall' = [stall EXCEPT ![w] = IF ~ended /\ n > 1 THEN n - 1 ELSE stall[w]]
  BY Zenon DEF Retire
<1>6. state'[w] = "Stalled" <=> ~ended /\ n > 1
  BY <1>0 DEF Retire
<1>7. ended \in BOOLEAN
  OBVIOUS
<1> HIDE DEF ended, r
<1>8. CASE ~ended /\ n > 1
  <2>1. stall'[w] = n - 1 /\ DueAt(w)' = counters.cycles + (n - 1)
    BY <1>0, <1>4, <1>5, <1>8
  <2> QED BY <1>0, <1>3, <1>6, <1>8, <2>1 DEF WarpPays
<1>9. CASE ~(~ended /\ n > 1)
  <2>1. DueAt(w)' = counters.cycles + 1
    BY <1>4, <1>9
  <2> QED BY <1>0, <1>3, <1>6, <1>9, <2>1 DEF WarpPays
<1> QED BY <1>8, <1>9

\* tick_stall: one cycle less for every stalled warp.
LEMMA WakePays ==
  ASSUME TypeInv, LatencyInv, WakeWarps
  PROVE  LatencyInv'
<1>1. /\ UNCHANGED <<warps, retired>> /\ phase = "wake" /\ phase' = "issue"
      /\ stall' = [w \in Warp |-> StallTicked(w)]
      /\ state' = [w \in Warp |-> IF Wakes(w) THEN "Ready" ELSE state[w]]
  BY DEF WakeWarps, dispatchVars
<1>2. counters.cycles \in Nat /\ counters'.cycles = counters.cycles + 1
  BY DEF WakeWarps, TypeInv, Clocked, CounterName
<1>3. ASSUME NEW w \in Warp PROVE WarpPays(w)'
  <2>1. WarpPays(w) /\ DueAt(w) \in Nat /\ DueAt(w)' = DueAt(w)
    BY <1>1, DueAtType DEF LatencyInv, DueAt
  <2>2. stall[w] \in Nat
    BY DEF TypeInv, TypeOK
  <2>3. CASE state[w] # "Stalled"
    <3>1. state'[w] = state[w]
      BY <1>1, <2>3 DEF Wakes
    <3> QED BY <1>1, <1>2, <2>1, <2>3, <3>1 DEF WarpPays
  <2>4. CASE state[w] = "Stalled" /\ stall[w] = 1
    <3>1. DueAt(w) = counters.cycles + 1 /\ w \in warps
      BY <1>2, <2>1, <2>4 DEF WarpPays
    <3>2. state'[w] = "Ready"
      BY <1>1, <2>4, <3>1 DEF Wakes
    <3> QED BY <1>1, <1>2, <2>1, <3>1, <3>2 DEF WarpPays
  <2>5. CASE state[w] = "Stalled" /\ stall[w] # 1
    <3>1. /\ DueAt(w) = counters.cycles + stall[w] /\ w \in warps /\ stall[w] > 1
      BY <1>2, <2>1, <2>2, <2>5 DEF WarpPays
    <3>2. state'[w] = "Stalled" /\ stall'[w] = stall[w] - 1
      BY <1>1, <2>2, <2>5, <3>1 DEF Wakes, StallTicked
    <3> QED BY <1>1, <1>2, <2>1, <2>2, <3>1, <3>2 DEF WarpPays
  <2> QED BY <2>3, <2>4, <2>5
<1> QED BY <1>1, <1>3 DEF LatencyInv

\* Every step keeps the invariant.
LEMMA LatencyStep == CoreInv /\ TypeInv /\ LatencyInv /\ [Next]_vars => LatencyInv'
<1> SUFFICES ASSUME CoreInv, TypeInv, LatencyInv, [Next]_vars PROVE LatencyInv'
  OBVIOUS
<1>1. CASE ReleaseBlocks \/ AdmitBlock \/ AdmitStop \/ AdmitThrow \/ TickIdle \/ Ended
           \/ UNCHANGED vars
  <2>1. UNCHANGED <<state, stall, retired>>
    BY <1>1 DEF ReleaseBlocks, AdmitBlock, AdmitStop, AdmitThrow, TickIdle, Ended, vars, warpVars
  <2>2. phase' = phase \/ phase' # "issue"
    BY <1>1 DEF ReleaseBlocks, AdmitBlock, AdmitStop, AdmitThrow, TickIdle, Ended, vars,
                NextTick, Throw
  <2>3. counters'.cycles = counters.cycles
    <3>1. CASE TickIdle
      BY <3>1, ClockedWaits DEF TickIdle, TypeInv
    <3> QED BY <1>1, <3>1 DEF ReleaseBlocks, AdmitBlock, AdmitStop, AdmitThrow, Ended, vars
  <2>4. \A w \in warps : state[w] = "Stalled" => w \in warps'
    <3>1. CASE ReleaseBlocks
      BY <3>1 DEF ReleaseBlocks, BlockDone
    <3>2. CASE ~ReleaseBlocks
      BY <1>1, <3>2 DEF AdmitBlock, AdmitStop, AdmitThrow, TickIdle, Ended, vars, dispatchVars
    <3> QED BY <3>1, <3>2
  <2>5. ASSUME NEW w \in Warp PROVE WarpPays(w)'
    <3>1. WarpPays(w) /\ (state[w] = "Stalled" => w \in warps')
      BY <2>4 DEF LatencyInv, WarpPays
    <3> QED BY <2>1, <2>2, <2>3, <3>1, PaysSame
  <2> QED BY <2>1, <2>5 DEF LatencyInv
<1>2. CASE WakeWarps
  BY <1>2, WakePays
<1>3. ASSUME NEW w \in Warp, Tick(w) PROVE LatencyInv'
  <2>1. /\ w \in warps /\ state[w] = "Ready" /\ warps' = warps
        /\ PlainStep(w) \/ WaitStep(w) \/ ReleaseStep(w)
    BY <1>3, TickEffect DEF CoreInv
  <2>2. counters'.cycles = counters.cycles
    BY <1>3, TickCounts DEF TypeInv
  <2>3. phase' # "issue"
    BY <1>3 DEF Tick, TickFetchEnd, TickAlu, TickMem, TickMemThrow, TickCmp, TickBranch,
                TickSsy, TickSync, TickSyncThrow, TickBarrierWait, TickBarrierRelease,
                TickBarrierMalformed, TickBarrierDivergent, NextTick, Throw
  <2>4. \/ UNCHANGED <<stall, retired>> /\ state'[w] # "Stalled"
        \/ \E c : \E n \in Nat : Retire(w, c, n)
    BY <1>3, TickCharges
  <2>5. /\ DOMAIN retired' = Warp
        /\ \A u \in Warp : u # w => retired'[u] = retired[u] /\ stall'[u] = stall[u]
    <3>1. DOMAIN retired = Warp /\ stall \in [Warp -> Nat]
      BY DEF LatencyInv, TypeInv, TypeOK
    <3>2. ASSUME NEW c, NEW n, Retire(w, c, n)
          PROVE  \E r, x : retired' = [retired EXCEPT ![w] = r] /\ stall' = [stall EXCEPT ![w] = x]
      BY <3>2, Zenon DEF Retire
    <3>3. CASE \E r, x : retired' = [retired EXCEPT ![w] = r] /\ stall' = [stall EXCEPT ![w] = x]
      BY <3>1, <3>3
    <3> QED BY <2>4, <3>1, <3>2, <3>3
  <2>6. ASSUME NEW u \in Warp, u # w PROVE WarpPays(u)'
    <3>1. state'[u] = "Stalled" <=> state[u] = "Stalled"
      BY <2>1, <2>6 DEF PlainStep, WaitStep, ReleaseStep, CoreInv, StateTyped
    <3>2. WarpPays(u) /\ (state[u] = "Stalled" => u \in warps')
      BY <2>1 DEF LatencyInv, WarpPays
    <3> QED BY <2>2, <2>3, <2>5, <2>6, <3>1, <3>2, PaysSame
  <2>7. WarpPays(w)'
    <3>1. CASE UNCHANGED <<stall, retired>> /\ state'[w] # "Stalled"
      BY <2>1, <2>2, <2>3, <3>1, PaysSame DEF LatencyInv
    <3>2. CASE \E c : \E n \in Nat : Retire(w, c, n)
      BY <2>1, <2>2, <2>3, <3>2, RetirePays
    <3> QED BY <2>4, <3>1, <3>2
  <2> QED BY <2>5, <2>6, <2>7 DEF LatencyInv
<1> QED BY <1>1, <1>2, <1>3 DEF Next

\* SM::tick charges the latency of a memory instruction exactly: whatever the grid,
\* the policy and the latencies, when a warp is to be selected a warp is stalled if
\* and only if its last instruction still runs.
THEOREM LatencyPaidHolds == Spec => []LatencyPaid
<1>1. Init => LatencyInv
  BY DEF Init, LatencyInv, WarpPays, DueAt, ZeroCounters
<1>2. LatencyInv /\ TypeInv => LatencyPaid
  <2> SUFFICES ASSUME LatencyInv, TypeInv, phase = "issue", NEW w \in warps
               PROVE  state[w] = "Stalled" <=> counters.cycles < DueAt(w)
    BY DEF LatencyPaid
  <2>1. WarpPays(w) /\ DueAt(w) \in Nat /\ w \in Warp
    BY DueAtType DEF LatencyInv, TypeInv, TypeOK
  <2>2. counters.cycles \in Nat /\ stall[w] \in Nat
    BY <2>1 DEF TypeInv, TypeOK, Clocked
  <2> QED BY <2>1, <2>2 DEF WarpPays
<1> QED BY <1>1, <1>2, LatencyStep, CoreInit, CoreStep, TypeInit, TypeStep, PTL DEF Spec

-----------------------------------------------------------------------------
(* Divergence, in the tick.  SIMTProofs shows what one instruction does to *)
(* a context of a well nested kernel; here it is put into the loop.        *)

\* The stack of w is layered by the regions of the kernel, a path that ran off
\* the kernel's end has given way to the one below it, and all lanes are back
\* outside of the regions if only regions part them.
WarpNested(w) ==
  /\ StackOK(kernel, ctx[w])
  /\ phase # "thrown" /\ ctx[w].pc >= Size => ctx[w].stack = <<>>
  /\ Synchronized(kernel) => AllBack(kernel, Lanes[w], ctx[w])

DivergenceInv ==
  /\ WellNested(kernel) /\ \A w \in Warp : WarpNested(w)
  /\ error # "EmptySync" /\ (Synchronized(kernel) => error # "DivergentBarrier")

\* A tick of w leaves context c, gives way to the next path if c has ended (unless
\* the tick threw), and completes w only if no path is left.
PathStep(w, c) ==
  /\ c \in Context(Lanes[w]) /\ Obeys(kernel, Lanes[w], ctx[w], c)
  /\ ctx'[w] = PathEnded(c, Size) \/ (ctx'[w] = c /\ phase' = "thrown")
  /\ \A u \in Warp : u # w => ctx'[u] = ctx[u]
  /\ state'[w] = "Completed" => c.pc >= Size /\ c.stack = <<>>

\* A context obeys the program by staying as it is.
LEMMA StaysObeys ==
  ASSUME NEW k, NEW lanes, NEW c, StackOK(k, c)
  PROVE  Obeys(k, lanes, c, c)
BY DEF Obeys, Follows, BackStays

\* The instruction a warp of a well nested kernel fetches.
LEMMA FetchRuns ==
  ASSUME TypeInv, DivergenceInv, NEW w \in Warp, NEW op, Fetch(w, op)
  PROVE  /\ Runs(kernel, Lanes[w], ctx[w]) /\ OpAt(kernel, ctx[w].pc) = op
         /\ FetchedImm(w) = ImmAt(kernel, ctx[w].pc) /\ FetchedImm(w) \in Int
<1>1. kernel \in Seq(Instruction)
  BY SMAssumption DEF TypeInv, TypeOK
<1>2. ctx[w] \in Context(Lanes[w])
  BY DEF TypeInv, TypeOK
<1>3. ctx[w].pc < Size /\ FetchedOp(w) = op
  BY DEF Fetch
<1>4. FetchedImm(w) \in Int
  BY <1>3, FetchType, TypeParts
<1> QED
  BY <1>1, <1>2, <1>3, <1>4 DEF Runs, OpAt, ImmAt, FetchedOp, FetchedImm, Size, DivergenceInv,
                                WarpNested

\* Step 5 of the tick.
LEMMA RetirePath ==
  ASSUME TypeInv, NEW w \in Warp, state[w] = "Ready", NEW c \in Context(Lanes[w]), NEW n,
         Obeys(kernel, Lanes[w], ctx[w], c), Retire(w, c, n)
  PROVE  PathStep(w, c)
<1>1. ctx' = [ctx EXCEPT ![w] = PathEnded(c, Size)]
  BY Zenon DEF Retire
<1>2. state'[w] = "Completed" => c.pc >= Size /\ c.stack = <<>>
  BY DEF Retire, TypeInv, TypeOK
<1> QED
  BY <1>1, <1>2 DEF PathStep, TypeInv

\* Every tick of a well nested kernel is a step along the paths of its warp, and
\* throws neither EmptySync nor, if only regions part lanes, DivergentBarrier.
LEMMA TickPath ==
  ASSUME TypeInv, DivergenceInv, NEW w \in Warp, Tick(w)
  PROVE  /\ \E c : PathStep(w, c)
         /\ error' # "EmptySync" /\ (Synchronized(kernel) => error' # "DivergentBarrier")
<1> DEFINE C == Context(Lanes[w])
           Good == /\ error' # "EmptySync"
                   /\ Synchronized(kernel) => error' # "DivergentBarrier"
<1> SUFFICES (\E c : PathStep(w, c)) /\ Good
  OBVIOUS
<1>1. state[w] = "Ready" /\ phase = "issue"
  BY DEF Tick, Issue, Selects, Ready
<1>2. ctx[w] \in C /\ DOMAIN ctx = Warp /\ StackOK(kernel, ctx[w])
      /\ (ctx[w].pc >= Size => ctx[w].stack = <<>>)
      /\ (Synchronized(kernel) => AllBack(kernel, Lanes[w], ctx[w]))
  BY <1>1 DEF TypeInv, TypeOK, DivergenceInv, WarpNested
<1>3. Obeys(kernel, Lanes[w], ctx[w], ctx[w])
  BY <1>2, StaysObeys
<1>4. NextTick => Good
  BY DEF NextTick, DivergenceInv
<1>5. CASE TickFetchEnd(w)
  <2>1. ctx[w].pc >= Size /\ ctx' = ctx /\ NextTick
    BY <1>5 DEF TickFetchEnd
  <2>2. PathEnded(ctx[w], Size) = ctx[w]
    BY <1>2, <2>1 DEF PathEnded
  <2>3. ctx'[w] = PathEnded(ctx[w], Size)
    BY <2>1, <2>2
  <2>4. PathStep(w, ctx[w])
    BY <1>2, <1>3, <2>1, <2>3 DEF PathStep
  <2> QED BY <1>4, <2>1, <2>4
<1>6. CASE TickAlu(w)
  <2>1. Fetch(w, "ALU") /\ Retire(w, Advanced(ctx[w]), 1) /\ NextTick
    BY <1>6 DEF TickAlu
  <2>2. Obeys(kernel, Lanes[w], ctx[w], Advanced(ctx[w]))
    BY <2>1, FetchRuns, AdvancedFollows
  <2>3. PathStep(w, Advanced(ctx[w]))
    BY <1>1, <1>2, <2>1, <2>2, AdvancedType, RetirePath
  <2> QED BY <1>4, <2>1, <2>3
<1>7. CASE TickMem(w)
  <2>1. PICK n \in Latencies : Retire(w, Advanced(ctx[w]), n)
    BY <1>7, Zenon DEF TickMem
  <2>2. Fetch(w, "MEM") /\ NextTick
    BY <1>7, Zenon DEF TickMem
  <2>3. Obeys(kernel, Lanes[w], ctx[w], Advanced(ctx[w]))
    BY <2>2, FetchRuns, AdvancedFollows
  <2>4. PathStep(w, Advanced(ctx[w]))
    BY <1>1, <1>2, <2>1, <2>3, AdvancedType, RetirePath
  <2> QED BY <1>4, <2>2, <2>4
<1>8. CASE TickCmp(w)
  <2>1. PICK equal \in SUBSET ctx[w].mask : Retire(w, Compared(ctx[w], equal), 1)
    BY <1>8, Zenon DEF TickCmp
  <2>2. Fetch(w, "CMP") /\ NextTick
    BY <1>8, Zenon DEF TickCmp
  <2>3. Obeys(kernel, Lanes[w], ctx[w], Compared(ctx[w], equal))
    BY <2>1, <2>2, FetchRuns, ComparedFollows
  <2>4. PathStep(w, Compared(ctx[w], equal))
    BY <1>1, <1>2, <2>1, <2>3, ComparedType, RetirePath
  <2> QED BY <1>4, <2>2, <2>4
<1>9. CASE TickBranch(w)
  <2>1. Fetch(w, "BRANCH") /\ Retire(w, Branched(ctx[w], FetchedImm(w)), 1) /\ NextTick
    BY <1>9 DEF TickBranch
  <2>2. Obeys(kernel, Lanes[w], ctx[w], Branched(ctx[w], FetchedImm(w)))
    BY <2>1, FetchRuns, BranchedFollows
  <2>3. PathStep(w, Branched(ctx[w], FetchedImm(w)))
    BY <1>1, <1>2, <2>1, <2>2, FetchRuns, BranchedType, RetirePath
  <2> QED BY <1>4, <2>1, <2>3
<1>10. CASE TickSsy(w)
  <2>1. Fetch(w, "SSY") /\ Retire(w, TokenPushed(ctx[w], FetchedImm(w)), 1) /\ NextTick
    BY <1>10 DEF TickSsy
  <2>2. Obeys(kernel, Lanes[w], ctx[w], TokenPushed(ctx[w], FetchedImm(w)))
    BY <2>1, FetchRuns, TokenPushedFollows
  <2>3. PathStep(w, TokenPushed(ctx[w], FetchedImm(w)))
    BY <1>1, <1>2, <2>1, <2>2, FetchRuns, TokenPushedType, RetirePath
  <2> QED BY <1>4, <2>1, <2>3
<1>11. CASE TickSync(w)
  <2>1. Fetch(w, "SYNC") /\ ctx[w].stack # <<>> /\ Retire(w, Synced(ctx[w]), 1) /\ NextTick
    BY <1>11 DEF TickSync
  <2>2. Obeys(kernel, Lanes[w], ctx[w], Synced(ctx[w]))
    BY <2>1, FetchRuns, SyncedFollows
  <2>3. PathStep(w, Synced(ctx[w]))
    BY <1>1, <1>2, <2>1, <2>2, SyncedType, RetirePath
  <2> QED BY <1>4, <2>1, <2>3
<1>12. CASE TickSyncThrow(w)
  <2>1. Fetch(w, "SYNC") /\ ctx[w].stack = <<>>
    BY <1>12 DEF TickSyncThrow
  <2> QED BY <2>1, FetchRuns, SyncKnowsToken
<1>13. ASSUME ctx' = ctx, state' = state, phase' = "thrown"
       PROVE  PathStep(w, ctx[w])
  BY <1>1, <1>2, <1>3, <1>13 DEF PathStep
<1>14. CASE TickMemThrow(w)
  BY <1>13, <1>14 DEF TickMemThrow, Throw, warpVars
<1>15. CASE TickBarrierDivergent(w)
  <2>1. Fetch(w, "BARRIER") /\ ctx[w].mask # Lanes[w]
    BY <1>15 DEF TickBarrierDivergent
  <2>2. ~Synchronized(kernel)
    BY <1>2, <2>1, FetchRuns, BarrierTogether
  <2> QED BY <1>13, <1>15, <2>2 DEF TickBarrierDivergent, Throw, warpVars
<1>16. ASSUME Fetch(w, "BARRIER")
       PROVE  /\ Advanced(ctx[w]) \in C
              /\ Obeys(kernel, Lanes[w], ctx[w], Advanced(ctx[w]))
  BY <1>2, <1>16, FetchRuns, AdvancedFollows, AdvancedType
<1>17. CASE TickBarrierWait(w)
  <2>1. /\ Fetch(w, "BARRIER") /\ NextTick
        /\ ctx' = [ctx EXCEPT ![w] = PathEnded(Advanced(ctx[w]), Size)]
    BY <1>17, Zenon DEF TickBarrierWait, Arrive
  <2>2. state'[w] # "Completed"
    BY <1>17 DEF TickBarrierWait, TypeInv, TypeOK
  <2> QED BY <1>2, <1>4, <1>16, <2>1, <2>2 DEF PathStep
<1>18. CASE TickBarrierRelease(w)
  <2>1. /\ Fetch(w, "BARRIER") /\ NextTick
        /\ ctx' = [ctx EXCEPT ![w] = PathEnded(Advanced(ctx[w]), Size)]
    BY <1>18, Zenon DEF TickBarrierRelease, Arrive
  <2>2. state'[w] = "Completed" => Advanced(ctx[w]).pc >= Size /\ Advanced(ctx[w]).stack = <<>>
    BY <1>18 DEF TickBarrierRelease, Freed
  <2> QED BY <1>2, <1>4, <1>16, <2>1, <2>2 DEF PathStep
<1>19. CASE TickBarrierMalformed(w)
  <2>1. /\ Fetch(w, "BARRIER") /\ phase' = "thrown" /\ Good
        /\ ctx' = [ctx EXCEPT ![w] = Advanced(ctx[w])]
    BY <1>19, Zenon DEF TickBarrierMalformed, Arrive, Throw
  <2>2. state'[w] # "Completed"
    BY <1>19 DEF TickBarrierMalformed, TypeInv, TypeOK
  <2> QED BY <1>2, <1>16, <2>1, <2>2 DEF PathStep
<1> QED
  BY <1>5, <1>6, <1>7, <1>8, <1>9, <1>10, <1>11, <1>12, <1>14, <1>15, <1>17, <1>18, <1>19 DEF Tick

\* A lane of a warp that has no path left has left the kernel.
LEMMA NoPathLeft ==
  ASSUME NEW lanes, NEW c \in Context(lanes), NEW l, NEW size \in Nat,
         c.pc >= size, c.stack = <<>>
  PROVE  LanePc(c, l, size) = size
<1>1. c.pc \in Nat /\ c.stack \in Seq(Entry(lanes))
  BY SizeTAssumption DEF Context, PC
<1>2. CASE l \in c.mask
  BY <1>1, <1>2, ActiveLane DEF Clipped
<1>3. CASE l \notin c.mask
  <2>1. NoneHolds(c.stack, l)
    BY DEF NoneHolds
  <2> QED BY <1>1, <1>3, <2>1, FreeLane
<1> QED BY <1>2, <1>3

\* A step along the paths of w keeps them nested.
LEMMA PathStepNests ==
  ASSUME TypeInv, DivergenceInv, kernel' = kernel, NEW w \in Warp, NEW c, PathStep(w, c)
  PROVE  WarpNested(w)'
<1>1. kernel \in Seq(Instruction) /\ WellNested(kernel)
  BY SMAssumption DEF TypeInv, TypeOK, DivergenceInv
<1>2. c \in Context(Lanes[w]) /\ StackOK(kernel, c) /\ BackStays(kernel, Lanes[w], ctx[w], c)
  BY DEF PathStep, Obeys
<1>3. /\ StackOK(kernel, PathEnded(c, Size))
      /\ PathEnded(c, Size).pc >= Size => PathEnded(c, Size).stack = <<>>
      /\ BackStays(kernel, Lanes[w], c, PathEnded(c, Size))
  BY <1>1, <1>2, PathEndedFollows DEF Size
<1>4. Synchronized(kernel) => AllBack(kernel, Lanes[w], c)
  BY <1>2 DEF BackStays, DivergenceInv, WarpNested
<1>5. CASE ctx'[w] = PathEnded(c, Size)
  BY <1>3, <1>4, <1>5 DEF WarpNested, BackStays, Size
<1>6. CASE ctx'[w] = c /\ phase' = "thrown"
  BY <1>2, <1>4, <1>6 DEF WarpNested
<1> QED BY <1>5, <1>6 DEF PathStep

\* And every lane of w moves along its own.
LEMMA PathStepMoves ==
  ASSUME TypeInv, DivergenceInv, kernel' = kernel, NEW w \in Warp, state[w] = "Ready",
         NEW c, PathStep(w, c), NEW l \in Lanes[w]
  PROVE  LaneMoves(w, l)
<1>1. kernel \in Seq(Instruction) /\ WellNested(kernel) /\ Size \in Nat
  BY SMAssumption DEF TypeInv, TypeOK, DivergenceInv, Size
<1>2. /\ c \in Context(Lanes[w]) /\ StackOK(kernel, c)
      /\ Follows(kernel, Lanes[w], ctx[w], c)
  BY DEF PathStep, Obeys
<1>3. LanePc(PathEnded(c, Size), l, Size) = LanePc(c, l, Size)
  BY <1>1, <1>2, PathEndedFollows DEF Size
<1>4. LanePc(ctx'[w], l, Size) = LanePc(c, l, Size)
  BY <1>3 DEF PathStep
<1>5. LaneAt(w, l) = LanePc(ctx[w], l, Size)
  BY DEF LaneAt
<1>6. LaneAt(w, l)' = LanePc(c, l, Size)
  <2>1. CASE state'[w] = "Completed"
    <3>1. c.pc >= Size /\ c.stack = <<>>
      BY <2>1 DEF PathStep
    <3>2. LanePc(c, l, Size) = Size
      BY <1>1, <1>2, <3>1, NoPathLeft
    <3> QED BY <2>1, <3>2 DEF LaneAt, Size
  <2>2. CASE state'[w] # "Completed"
    BY <1>4, <2>2 DEF LaneAt, Size
  <2> QED BY <2>1, <2>2
<1> QED BY <1>2, <1>5, <1>6 DEF Follows, LaneMoves, Size

\* A warp whose context and completion do not change.
LEMMA LaneStays ==
  ASSUME NEW w, kernel' = kernel, ctx'[w] = ctx[w],
         state'[w] = "Completed" <=> state[w] = "Completed"
  PROVE  /\ \A l : LaneMoves(w, l)
         /\ WarpNested(w) /\ (phase' # "thrown" => phase # "thrown") => WarpNested(w)'
BY DEF LaneMoves, LaneAt, WarpNested, Size

\* A step of the SM moves lanes along the program and keeps the paths nested.
LEMMA DivergenceStep ==
  ASSUME TypeInv, DivergenceInv, [Next]_vars
  PROVE  DivergenceInv' /\ \A w \in Warp : \A l \in Lanes[w] : LaneMoves(w, l)
<1>0. state \in [Warp -> WarpState] /\ StateTyped
  BY DEF TypeInv, TypeOK, StateTyped
<1>1. ASSUME UNCHANGED <<kernel, ctx>>,
             error' = error \/ error' = "ImpossibleBlock",
             phase' # "thrown" => phase # "thrown",
             \A w \in Warp : state'[w] = "Completed" <=> state[w] = "Completed"
      PROVE  DivergenceInv' /\ \A w \in Warp : \A l \in Lanes[w] : LaneMoves(w, l)
  <2>1. \A w \in Warp : WarpNested(w)' /\ \A l \in Lanes[w] : LaneMoves(w, l)
    BY <1>1, LaneStays DEF DivergenceInv
  <2> QED BY <1>1, <2>1 DEF DivergenceInv
<1>2. CASE ReleaseBlocks \/ AdmitBlock \/ AdmitStop \/ AdmitThrow \/ TickIdle \/ Ended
           \/ UNCHANGED vars
  <2>1. UNCHANGED <<kernel, ctx, state>>
    BY <1>2 DEF ReleaseBlocks, AdmitBlock, AdmitStop, AdmitThrow, TickIdle, Ended, vars, warpVars
  <2>2. error' = error \/ error' = "ImpossibleBlock"
    BY <1>2 DEF ReleaseBlocks, AdmitBlock, AdmitStop, AdmitThrow, TickIdle, Ended, vars,
                Throw, NextTick
  <2>3. phase' # "thrown" => phase # "thrown"
    BY <1>2 DEF ReleaseBlocks, AdmitBlock, AdmitStop, AdmitThrow, TickIdle, Ended, vars
  <2> QED BY <1>1, <2>1, <2>2, <2>3
<1>3. CASE WakeWarps
  <2>1. UNCHANGED <<kernel, ctx, error>> /\ phase = "wake"
    BY <1>3 DEF WakeWarps
  <2>2. \A w \in Warp : state'[w] = "Completed" <=> state[w] = "Completed"
    BY <1>0, <1>3 DEF WakeWarps, Wakes
  <2> QED BY <1>1, <2>1, <2>2
<1>4. ASSUME NEW w \in Warp, Tick(w)
      PROVE  DivergenceInv' /\ \A u \in Warp : \A l \in Lanes[u] : LaneMoves(u, l)
  <2>1. kernel' = kernel /\ phase = "issue"
    BY <1>4 DEF Tick, Issue
  <2>2. state[w] = "Ready" /\ (PlainStep(w) \/ WaitStep(w) \/ ReleaseStep(w))
    BY <1>0, <1>4, TickEffect
  <2>3. PICK c : PathStep(w, c)
    BY <1>4, TickPath
  <2>4. /\ error' # "EmptySync" /\ (Synchronized(kernel) => error' # "DivergentBarrier")
    BY <1>4, TickPath
  <2>5. ASSUME NEW u \in Warp, u # w
        PROVE  WarpNested(u)' /\ \A l \in Lanes[u] : LaneMoves(u, l)
    <3>1. ctx'[u] = ctx[u]
      BY <2>3, <2>5 DEF PathStep
    <3>2. state'[u] = "Completed" <=> state[u] = "Completed"
      BY <1>0, <2>2, <2>5 DEF PlainStep, WaitStep, ReleaseStep
    <3>3. WarpNested(u) /\ phase # "thrown"
      BY <2>1 DEF DivergenceInv
    <3> QED BY <2>1, <3>1, <3>2, <3>3, LaneStays
  <2>6. WarpNested(w)' /\ \A l \in Lanes[w] : LaneMoves(w, l)
    BY <2>1, <2>2, <2>3, PathStepNests, PathStepMoves
  <2> QED BY <2>1, <2>4, <2>5, <2>6 DEF DivergenceInv
<1> QED BY <1>2, <1>3, <1>4 DEF Next

\* A warp starts outside of every region, with nothing on its stack.
LEMMA DivergenceInit == Init /\ WellNested(kernel) => DivergenceInv
<1> SUFFICES ASSUME Init, WellNested(kernel) PROVE DivergenceInv
  OBVIOUS
<1>1. error = "none"
  BY DEF Init
<1>2. Region(kernel, 0) = NoPc
  BY DEF Region
<1>3. ASSUME NEW w \in Warp PROVE WarpNested(w)
  <2>1. ctx[w].stack = <<>> /\ ctx[w].pc = 0 /\ ctx[w].mask = Lanes[w]
    BY DEF Init, FreshContext
  <2>2. \A i \in 1..Len(ctx[w].stack) : FALSE
    BY <2>1
  <2>3. StackOK(kernel, ctx[w])
    BY <1>2, <2>1, <2>2 DEF StackOK, Layered, Parted
  <2> QED BY <2>1, <2>2, <2>3 DEF WarpNested, AllBack
<1> QED BY <1>1, <1>3 DEF DivergenceInv

\* Whatever the grid, the policy and the latencies, and however its lanes part: in
\* a well nested kernel every lane executes the program it would execute alone.
\* BRANCH, SSY, SYNC and the pop at the end of a path lose no lane, run none twice,
\* and leave none behind when its warp completes.
THEOREM LanesFollowProgramHolds == Spec /\ WellNested(kernel) => LanesFollowProgram
<1> DEFINE Inv == TypeInv /\ DivergenceInv
           Moves == \A w \in Warp : \A l \in Lanes[w] : LaneMoves(w, l)
<1>1. Init /\ WellNested(kernel) => Inv
  BY TypeInit, DivergenceInit
<1>2. Inv /\ [Next]_vars => Inv' /\ [Moves]_vars
  BY TypeStep, DivergenceStep
<1>3. [][Moves]_vars <=> LanesFollowProgram
  BY DEF LanesFollowProgram
<1> HIDE DEF Inv, Moves
<1> QED BY <1>1, <1>2, <1>3, PTL DEF Spec

\* A well nested kernel never executes SYNC with an empty SIMT stack; if besides it
\* branches only between an SSY and its SYNC, and has its BARRIERs outside of these,
\* no BARRIER ever finds a lane missing.
THEOREM ReconvergesHolds ==
  Spec /\ WellNested(kernel) /\ Synchronized(kernel) => []Reconverges
<1> DEFINE Inv == TypeInv /\ DivergenceInv /\ Synchronized(kernel)
<1>1. Init /\ WellNested(kernel) /\ Synchronized(kernel) => Inv
  BY TypeInit, DivergenceInit
<1>2. Inv /\ [Next]_vars => Inv'
  <2> SUFFICES ASSUME Inv, [Next]_vars PROVE Inv'
    OBVIOUS
  <2>1. kernel' = kernel
    BY DEF Next, ReleaseBlocks, AdmitBlock, AdmitStop, AdmitThrow, WakeWarps, TickIdle, Tick,
           Issue, Ended, vars
  <2> QED BY <2>1, TypeStep, DivergenceStep
<1>3. Inv => Reconverges
  BY DEF DivergenceInv, Reconverges
<1> HIDE DEF Inv
<1> QED BY <1>1, <1>2, <1>3, PTL DEF Spec
=============================================================================
