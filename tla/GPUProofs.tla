----------------------------- MODULE GPUProofs -----------------------------
(***************************************************************************)
(* Proofs about the block dispatcher, for every number of SMs, every grid, *)
(* every demand and limit and any number of launches.                      *)
(***************************************************************************)
EXTENDS GPU, FiniteSetTheorems, TLAPS

TypeOK ==
  /\ launching \in BOOLEAN
  /\ phase \in {"clear", "admit", "release", "tick", "returned", "thrown"}
  /\ cur \in SMs
  /\ error \in {"none", "ImpossibleBlock", "Tick"}
  /\ gridSize \in 0..Cardinality(Block)
  /\ nextBlock \in 1..gridSize+1
  /\ resident \in [SMs -> SUBSET Block]
  /\ alloc \in [SMs -> [Resource -> Nat]]
  /\ left \in [Block -> Nat]
  /\ allDone \in BOOLEAN

\* Which phases belong to launch_kernel and which to run_to_completion; an
\* exception ends the call.
Control ==
  /\ phase = "clear" => launching
  /\ phase \in {"release", "tick", "returned"} => ~launching
  /\ phase # "thrown" => error = "none"

\* The SMs that were cleared hold dispatched blocks only, and every dispatched
\* block that is unfinished is on one of them.
Dispatched ==
  /\ \A s \in SMs : Fresh(s) => \A b \in resident[s] : b < nextBlock
  /\ \A b \in Block : b < nextBlock /\ left[b] > 0 =>
                        \E s \in SMs : Fresh(s) /\ b \in resident[s]

\* Phase 1 of the loop: after its release an SM holds unfinished blocks only, so
\* an SM the loop has passed while blocks are pending has work.
Phase1 ==
  ~launching /\ phase \in {"release", "admit"} =>
    /\ phase = "admit" => \A b \in resident[cur] : left[b] > 0
    /\ Pending => \A s \in SMs : s < cur => ~SmCompleted(s)

\* Phase 2: all_done is still set only if the SMs passed are completed, and
\* never while blocks are pending.
Phase2 ==
  phase = "tick" =>
    /\ allDone => \A s \in SMs : s < cur => SmCompleted(s)
    /\ Pending /\ cur > 1 => ~allDone

IInv ==
  /\ TypeOK /\ Control /\ Dispatched /\ Phase1 /\ Phase2
  /\ OneHomePerBlock /\ AccountsBalance /\ ReturnsWhenGridDone
  /\ NoIdleSmWhilePending /\ ImpossibleIsImpossible

-----------------------------------------------------------------------------
(* What a set of blocks holds.                                             *)

\* The units that a set of blocks takes of a resource are finitely many.
LEMMA UnitsFinite ==
  ASSUME NEW S \in SUBSET Block, NEW f \in Resource
  PROVE  IsFiniteSet(S) /\ IsFiniteSet(Units(S, f))
<1> DEFINE U(b) == {b} \X (1..Demand[b][f])
           T == {U(b) : b \in S}
           g == [b \in S |-> U(b)]
<1>1. IsFiniteSet(S)
  BY GPUAssumption, FS_Subset
<1>2. g \in Surjection(S, T)
  BY DEF Surjection
<1>3. IsFiniteSet(T)
  <2> HIDE DEF T, g
  <2> QED BY <1>1, <1>2, FS_Surjection
<1>4. ASSUME NEW b \in S PROVE IsFiniteSet(U(b))
  <2>1. Demand[b][f] \in Int /\ 1 \in Int
    BY ResourcesAssumption
  <2>2. IsFiniteSet(1..Demand[b][f])
    BY <2>1, FS_Interval
  <2>3. IsFiniteSet({b})
    BY FS_Singleton
  <2> QED BY <2>2, <2>3, FS_Product
<1>5. IsFiniteSet(UNION T)
  <2>1. \A u \in T : IsFiniteSet(u)
    BY <1>4
  <2> HIDE DEF T
  <2> QED BY <1>3, <2>1, FS_UNION
<1> QED BY <1>1, <1>5 DEF Units

\* No blocks hold nothing.
LEMMA HeldNothing ==
  ASSUME NEW f \in Resource
  PROVE  Held({}, f) = 0
<1>1. Units({}, f) = {}
  BY DEF Units
<1> QED BY <1>1, FS_EmptySet DEF Held

\* What a set of blocks holds is a number.
LEMMA HeldNat ==
  ASSUME NEW S \in SUBSET Block, NEW f \in Resource
  PROVE  Held(S, f) \in Nat
BY UnitsFinite, FS_CardinalityType DEF Held

\* One more block holds its demand in addition (SM::allocate_block).
LEMMA HeldWithBlock ==
  ASSUME NEW S \in SUBSET Block, NEW b \in Block, b \notin S, NEW f \in Resource
  PROVE  Held(S \cup {b}, f) = Held(S, f) + Demand[b][f]
<1> DEFINE D == 1..Demand[b][f]
           V == {b} \X D
<1>1. Demand[b][f] \in Nat
  BY ResourcesAssumption
<1>2. /\ IsFiniteSet({b}) /\ Cardinality({b}) = 1
      /\ IsFiniteSet(D) /\ Cardinality(D) = Demand[b][f]
  <2>1. Demand[b][f] \in Int /\ 1 \in Int
    BY <1>1
  <2>2. IsFiniteSet(D) /\ Cardinality(D) = IF 1 > Demand[b][f] THEN 0 ELSE Demand[b][f] - 1 + 1
    BY <2>1, FS_Interval
  <2> HIDE DEF D
  <2>3. IsFiniteSet(D) /\ Cardinality(D) = Demand[b][f]
    BY <1>1, <2>2
  <2>4. IsFiniteSet({b}) /\ Cardinality({b}) = 1
    BY FS_Singleton
  <2> QED BY <2>3, <2>4
<1>3. IsFiniteSet(V) /\ Cardinality(V) = Demand[b][f]
  <2> HIDE DEF D
  <2>1. IsFiniteSet(V) /\ Cardinality(V) = Cardinality({b}) * Cardinality(D)
    BY <1>2, FS_Product
  <2> QED BY <1>1, <1>2, <2>1
<1>4. Units(S \cup {b}, f) = Units(S, f) \cup V
  BY DEF Units
<1>5. Cardinality(Units(S, f) \cap V) = 0
  <2>1. ASSUME NEW u \in Units(S, f), u \in V PROVE FALSE
    <3>1. PICK c \in S : u \in {c} \X (1..Demand[c][f])
      BY DEF Units
    <3> QED BY <2>1, <3>1
  <2>2. Units(S, f) \cap V = {}
    BY <2>1
  <2> QED BY <2>2, FS_EmptySet
<1>6. IsFiniteSet(Units(S, f)) /\ Cardinality(Units(S, f)) \in Nat
  BY UnitsFinite, FS_CardinalityType
<1>7. Cardinality(Units(S, f) \cup V) =
        Cardinality(Units(S, f)) + Cardinality(V) - Cardinality(Units(S, f) \cap V)
  <2> HIDE DEF V
  <2> QED BY <1>3, <1>6, FS_Union
<1>8. Cardinality(Units(S \cup {b}, f)) = Cardinality(Units(S, f) \cup V)
  BY <1>4
<1>9. Cardinality(Units(S \cup {b}, f)) = Cardinality(Units(S, f)) + Demand[b][f]
  <2> HIDE DEF V
  <2> QED BY <1>1, <1>3, <1>5, <1>6, <1>7, <1>8
<1> QED BY <1>9 DEF Held

\* Without some of its blocks a set holds less by what they held
\* (SM::release_completed_blocks).
LEMMA HeldWithout ==
  ASSUME NEW S \in SUBSET Block, NEW T \in SUBSET Block, T \subseteq S, NEW f \in Resource
  PROVE  Held(S \ T, f) = Held(S, f) - Held(T, f)
<1>1. Units(S \ T, f) = Units(S, f) \ Units(T, f)
  BY DEF Units
<1>2. Units(S, f) \cap Units(T, f) = Units(T, f)
  BY DEF Units
<1>3. IsFiniteSet(Units(S, f))
  BY UnitsFinite
<1>4. Cardinality(Units(S, f) \ Units(T, f)) =
        Cardinality(Units(S, f)) - Cardinality(Units(S, f) \cap Units(T, f))
  BY <1>3, FS_Difference
<1> QED BY <1>1, <1>2, <1>4 DEF Held

\* Blocks that hold no block slot are no blocks: the total tells whether an SM
\* is empty.
LEMMA HeldNoSlot ==
  ASSUME NEW S \in SUBSET Block, Held(S, "blocks") = 0
  PROVE  S = {}
<1>1. "blocks" \in Resource
  BY DEF Resource
<1>2. Units(S, "blocks") = {}
  BY <1>1, UnitsFinite, FS_EmptySet DEF Held
<1>3. \A b \in S : <<b, 1>> \in Units(S, "blocks")
  BY ResourcesAssumption DEF Units
<1> QED BY <1>2, <1>3

-----------------------------------------------------------------------------
(* Initial states and steps.                                               *)

\* The first SM exists, and the blocks of a grid are blocks.
LEMMA Ranges ==
  /\ NumSMs \in Nat \ {0} /\ 1 \in SMs /\ Cardinality(Block) \in Nat
  /\ Block = 1..Cardinality(Block)
  /\ Block \subseteq Nat
  /\ \A b \in Block : Demand[b] \in [Resource -> Nat] /\ Demand[b]["warps"] \in Nat \ {0}
  /\ \A f \in Resource : Limit[f] \in Nat
  /\ "blocks" \in Resource /\ "warps" \in Resource
<1>1. Cardinality(Block) \in Nat
  BY GPUAssumption, FS_CardinalityType
<1> QED BY <1>1, GPUAssumption, ResourcesAssumption DEF SMs, Resource

\* A GPU that was just launched satisfies the invariant.
LEMMA InitIInv == Init => IInv
<1> SUFFICES ASSUME Init PROVE IInv
  OBVIOUS
<1> USE Ranges
<1>1. TypeOK
  <2>1. gridSize \in 0..Cardinality(Block) /\ nextBlock \in 1..gridSize+1
    BY GPUAssumption DEF Init
  <2>2. cur \in SMs /\ resident \in [SMs -> SUBSET Block]
    BY DEF Init
  <2>3. alloc \in [SMs -> [Resource -> Nat]] /\ left \in [Block -> Nat]
    BY DEF Init, NothingAllocated
  <2> QED BY <2>1, <2>2, <2>3 DEF Init, TypeOK
<1>2. AccountsBalance
  BY HeldNothing DEF Init, AccountsBalance, NothingAllocated
<1>3. Control /\ Dispatched /\ Phase1 /\ Phase2
  BY DEF Init, Control, Dispatched, Phase1, Phase2, Fresh, SMs
<1>4. OneHomePerBlock /\ ReturnsWhenGridDone /\ NoIdleSmWhilePending /\ ImpossibleIsImpossible
  BY DEF Init, OneHomePerBlock, ReturnsWhenGridDone, NoIdleSmWhilePending,
         ImpossibleIsImpossible
<1> QED BY <1>1, <1>2, <1>3, <1>4 DEF IInv

\* After a turn of phase 2 the loop is at an SM again, or has returned.
LEMMA AfterTickType ==
  ASSUME TypeOK, NEW done \in BOOLEAN, AfterTick(done)
  PROVE  cur' \in SMs /\ phase' \in {"tick", "returned", "release"} /\ allDone' \in BOOLEAN
<1>1. cur' \in SMs
  BY Ranges DEF TypeOK, AfterTick, SMs
<1> QED BY <1>1 DEF AfterTick

\* Resources add up to resources.
LEMMA PlusType ==
  ASSUME NEW x \in [Resource -> Nat], NEW y \in [Resource -> Nat]
  PROVE  Plus(x, y) \in [Resource -> Nat]
BY DEF Plus

\* Every step keeps the types; a tick completes a warp only where one is left.
LEMMA StepTypeOK == TypeOK /\ AccountsBalance /\ Next => TypeOK'
<1> SUFFICES ASSUME TypeOK, AccountsBalance, Next PROVE TypeOK'
  OBVIOUS
<1> USE Ranges DEF TypeOK
<1>1. CASE ClearSm
  BY <1>1 DEF ClearSm, Cleared, NothingAllocated
<1>2. CASE ReleaseSm
  <2>1. Released(alloc[cur], Finished(cur)) \in [Resource -> Nat]
    <3>1. ASSUME NEW f \in Resource
          PROVE  alloc[cur][f] - Held(Finished(cur), f) \in Nat
      <4>1. /\ Finished(cur) \subseteq resident[cur]
            /\ resident[cur] \in SUBSET Block /\ Finished(cur) \in SUBSET Block
        BY DEF Finished
      <4>2. Held(resident[cur] \ Finished(cur), f) = Held(resident[cur], f) - Held(Finished(cur), f)
        BY <4>1, HeldWithout
      <4>3. Held(resident[cur] \ Finished(cur), f) \in Nat
        BY <4>1, HeldNat
      <4> QED BY <4>2, <4>3 DEF AccountsBalance
    <3> QED BY <3>1 DEF Released
  <2> QED BY <1>2, <2>1 DEF ReleaseSm
<1>3. CASE AdmitBlock
  <2>1. nextBlock \in Block /\ nextBlock + 1 \in 1..gridSize+1
    BY <1>3 DEF AdmitBlock, Pending
  <2>2. Allocated(alloc[cur], nextBlock) \in [Resource -> Nat]
    <3>1. alloc[cur] \in [Resource -> Nat] /\ Demand[nextBlock] \in [Resource -> Nat]
      BY <2>1, ResourcesAssumption
    <3> QED BY <3>1, PlusType DEF Allocated
  <2> QED BY <1>3, <2>1, <2>2 DEF AdmitBlock, NextPending
<1>4. CASE AdmitStop
  <2>1. cur' \in SMs
    BY <1>4 DEF AdmitStop, SMs
  <2> QED BY <1>4, <2>1 DEF AdmitStop
<1>5. CASE AdmitThrow
  BY <1>5 DEF AdmitThrow
<1>6. CASE SkipTick
  BY <1>6, AfterTickType DEF SkipTick
<1>7. CASE TickSm
  BY <1>7, AfterTickType DEF TickSm
<1>8. ASSUME NEW b \in Block, TickFinish(b) PROVE TypeOK'
  <2>1. left' \in [Block -> Nat]
    BY <1>8 DEF TickFinish
  <2> QED BY <1>8, <2>1, AfterTickType DEF TickFinish
<1>9. CASE TickThrow
  BY <1>9 DEF TickThrow
<1>10. CASE Relaunch
  <2>1. gridSize' \in GridSizes /\ GridSizes \subseteq 0..Cardinality(Block)
    BY <1>10, GPUAssumption DEF Relaunch
  <2>2. gridSize' \in 0..Cardinality(Block)
    BY <2>1
  <2>3. nextBlock' = 1
    BY <1>10 DEF Relaunch
  <2>4. gridSize' \in Nat
    BY <2>2
  <2>5. \A n \in Nat : 1 \in 1..n+1
    OBVIOUS
  <2>6. nextBlock' \in 1..gridSize'+1
    BY <2>3, <2>4, <2>5
  <2> QED BY <1>10, <2>2, <2>6 DEF Relaunch
<1>11. CASE Ended
  BY <1>11 DEF Ended, vars
<1> QED BY <1>1, <1>2, <1>3, <1>4, <1>5, <1>6, <1>7, <1>8, <1>9, <1>10, <1>11 DEF Next

\* Every step keeps the phases apart, and an exception ends the call.
LEMMA StepControl == TypeOK /\ Control /\ Next => Control'
BY DEF TypeOK, Control, Next, ClearSm, ReleaseSm, AdmitBlock, AdmitStop, AdmitThrow,
       SkipTick, TickSm, TickFinish, TickThrow, AfterTick, Relaunch, Ended, vars

\* The totals of every SM stay what its blocks hold, and within the limits.
LEMMA StepAccounts == TypeOK /\ Dispatched /\ Control /\ AccountsBalance /\ Next => AccountsBalance'
<1> SUFFICES ASSUME TypeOK, Dispatched, Control, AccountsBalance, Next,
                    NEW s \in SMs, NEW f \in Resource
             PROVE  alloc'[s][f] = Held(resident'[s], f) /\ alloc'[s][f] <= Limit[f]
  BY DEF AccountsBalance
<1> USE Ranges DEF TypeOK
<1>0. alloc[s][f] = Held(resident[s], f) /\ alloc[s][f] <= Limit[f] /\ alloc[s][f] \in Nat
  BY DEF AccountsBalance
<1>1. CASE ClearSm
  <2>1. CASE s = cur
    <3>1. resident'[s] = {} /\ alloc'[s][f] = 0
      BY <1>1, <2>1 DEF ClearSm, Cleared, NothingAllocated
    <3> QED BY <3>1, HeldNothing
  <2>2. CASE s # cur
    BY <1>0, <1>1, <2>2 DEF ClearSm, Cleared
  <2> QED BY <2>1, <2>2
<1>2. CASE ReleaseSm
  <2>1. CASE s = cur
    <3>1. /\ Finished(s) \subseteq resident[s]
          /\ resident[s] \in SUBSET Block /\ Finished(s) \in SUBSET Block
      BY DEF Finished
    <3>2. resident'[s] = resident[s] \ Finished(s)
      BY <1>2, <2>1 DEF ReleaseSm
    <3>3. alloc'[s][f] = alloc[s][f] - Held(Finished(s), f)
      BY <1>2, <2>1 DEF ReleaseSm, Released
    <3>4. Held(Finished(s), f) \in Nat
      BY <3>1, HeldNat
    <3>5. Held(resident[s] \ Finished(s), f) = Held(resident[s], f) - Held(Finished(s), f)
      BY <3>1, HeldWithout
    <3> QED BY <1>0, <3>2, <3>3, <3>4, <3>5
  <2>2. CASE s # cur
    BY <1>0, <1>2, <2>2 DEF ReleaseSm
  <2> QED BY <2>1, <2>2
<1>3. CASE AdmitBlock
  <2>1. CASE s = cur
    <3>1. nextBlock \in Block
      BY <1>3 DEF AdmitBlock, Pending
    <3>2. Fresh(s) /\ nextBlock \notin resident[s]
      BY <1>3, <2>1 DEF AdmitBlock, Fresh, Dispatched
    <3>3. Held(resident[s] \cup {nextBlock}, f) = Held(resident[s], f) + Demand[nextBlock][f]
      BY <3>1, <3>2, HeldWithBlock
    <3>4. resident'[s] = resident[s] \cup {nextBlock}
      BY <1>3, <2>1 DEF AdmitBlock
    <3>5. alloc'[s][f] = alloc[s][f] + Demand[nextBlock][f]
      BY <1>3, <2>1 DEF AdmitBlock, Allocated, Plus
    <3>6. alloc[s][f] + Demand[nextBlock][f] <= Limit[f]
      BY <1>3, <2>1 DEF AdmitBlock, CanAdmit, Fits
    <3> QED BY <1>0, <3>3, <3>4, <3>5, <3>6
  <2>2. CASE s # cur
    BY <1>0, <1>3, <2>2 DEF AdmitBlock
  <2> QED BY <2>1, <2>2
<1>4. CASE UNCHANGED <<resident, alloc>>
  BY <1>0, <1>4
<1> QED BY <1>1, <1>2, <1>3, <1>4 DEF Next, AdmitStop, AdmitThrow, SkipTick, TickSm,
           TickFinish, TickThrow, Relaunch, Ended, vars

\* No block gets a second home: an admission places a block that no cleared SM
\* holds, and the SMs that are not cleared yet do not count.
LEMMA StepOneHome == TypeOK /\ Control /\ Dispatched /\ OneHomePerBlock /\ Next => OneHomePerBlock'
<1> SUFFICES ASSUME TypeOK, Control, Dispatched, OneHomePerBlock, Next,
                    NEW s \in SMs, NEW t \in SMs, s # t, Fresh(s)', Fresh(t)',
                    NEW b \in resident'[s], b \in resident'[t]
             PROVE  FALSE
  BY DEF OneHomePerBlock
<1> USE Ranges DEF TypeOK
<1>0. Fresh(s) /\ Fresh(t) => ~(b \in resident[s] /\ b \in resident[t])
  BY DEF OneHomePerBlock
<1>1. CASE ClearSm
  BY <1>0, <1>1 DEF ClearSm, Fresh, SMs
<1>2. CASE ReleaseSm
  BY <1>0, <1>2 DEF ReleaseSm, Fresh, SMs
<1>3. CASE AdmitBlock
  <2>1. Fresh(s) /\ Fresh(t)
    BY <1>3 DEF AdmitBlock, Fresh
  <2>2. \A u \in SMs : Fresh(u) => nextBlock \notin resident[u]
    BY DEF Dispatched
  <2> QED BY <1>0, <1>3, <2>1, <2>2 DEF AdmitBlock
<1>4. CASE AdmitStop
  <2>1. \A u \in SMs : Fresh(u)' => Fresh(u)
    <3>1. CASE cur < NumSMs
      BY <1>4, <3>1 DEF AdmitStop, Fresh, SMs
    <3>2. CASE ~(cur < NumSMs)
      BY <1>4, <3>2 DEF AdmitStop, Fresh, SMs
    <3> QED BY <3>1, <3>2
  <2> QED BY <1>0, <1>4, <2>1 DEF AdmitStop
<1>5. CASE UNCHANGED resident /\ Fresh(s) /\ Fresh(t)
  BY <1>0, <1>5
<1>6. CASE Relaunch
  BY <1>6 DEF Relaunch, Fresh, SMs
<1>7. \/ Fresh(s) /\ Fresh(t) /\ UNCHANGED resident
      \/ ClearSm \/ ReleaseSm \/ AdmitBlock \/ AdmitStop \/ Relaunch
  BY DEF Next, Fresh, Control, AdmitThrow, SkipTick, TickSm, TickFinish, TickThrow, AfterTick,
         Ended, vars
<1> QED BY <1>1, <1>2, <1>3, <1>4, <1>5, <1>6, <1>7

\* The SMs hold dispatched blocks only, and every unfinished block stays on one.
LEMMA StepDispatched == TypeOK /\ Control /\ Dispatched /\ Next => Dispatched'
<1> SUFFICES ASSUME TypeOK, Control, Dispatched, Next PROVE Dispatched'
  OBVIOUS
<1> USE Ranges DEF TypeOK
<1>1. CASE ClearSm
  <2>1. \A s \in SMs : Fresh(s) => Fresh(s)' /\ resident'[s] = resident[s]
    BY <1>1 DEF ClearSm, Fresh, Control, SMs
  <2>2. \A s \in SMs : Fresh(s)' => Fresh(s) \/ resident'[s] = {}
    BY <1>1 DEF ClearSm, Fresh, SMs
  <2> QED BY <1>1, <2>1, <2>2 DEF ClearSm, Dispatched
<1>2. CASE ReleaseSm
  <2>1. \A s \in SMs : Fresh(s) /\ Fresh(s)'
    BY <1>2 DEF ReleaseSm, Control, Fresh
  <2>2. \A s \in SMs : /\ resident'[s] \subseteq resident[s]
                       /\ \A b \in resident[s] : left[b] > 0 => b \in resident'[s]
    BY <1>2 DEF ReleaseSm, Finished
  <2> QED BY <1>2, <2>1, <2>2 DEF ReleaseSm, Dispatched
<1>3. CASE AdmitBlock
  <2>1. nextBlock \in Block /\ nextBlock' = nextBlock + 1 /\ nextBlock \in Nat
    BY <1>3 DEF AdmitBlock, Pending, NextPending
  <2>2. Fresh(cur) /\ \A s \in SMs : Fresh(s)' = Fresh(s)
    BY <1>3 DEF AdmitBlock, Fresh
  <2>3. /\ resident'[cur] = resident[cur] \cup {nextBlock}
        /\ \A s \in SMs : s # cur => resident'[s] = resident[s]
        /\ \A b \in Block : b # nextBlock => left'[b] = left[b]
    BY <1>3 DEF AdmitBlock
  <2>4. ASSUME NEW s \in SMs, Fresh(s)', NEW b \in resident'[s] PROVE b < nextBlock'
    <3>1. b \in resident[s] => b < nextBlock
      BY <2>2, <2>4 DEF Dispatched
    <3>2. b \in resident[s] \/ b = nextBlock
      BY <2>3, <2>4
    <3>3. b \in resident[s] => b \in Nat
      OBVIOUS
    <3> QED BY <2>1, <3>1, <3>2, <3>3
  <2>5. ASSUME NEW b \in Block, b < nextBlock', left'[b] > 0
        PROVE  \E s \in SMs : Fresh(s)' /\ b \in resident'[s]
    <3>1. CASE b = nextBlock
      BY <2>2, <2>3, <3>1
    <3>2. CASE b # nextBlock
      <4>1. PICK s \in SMs : Fresh(s) /\ b \in resident[s]
        BY <2>1, <2>3, <2>5, <3>2 DEF Dispatched
      <4> QED BY <2>2, <2>3, <4>1
    <3> QED BY <3>1, <3>2
  <2> QED BY <2>4, <2>5 DEF Dispatched
<1>4. CASE AdmitStop
  <2>1. \A s \in SMs : Fresh(s)' <=> Fresh(s)
    BY <1>4 DEF AdmitStop, Fresh, SMs
  <2> QED BY <1>4, <2>1 DEF AdmitStop, Dispatched
<1>5. ASSUME NEW b \in Block, TickFinish(b) PROVE Dispatched'
  <2>1. \A s \in SMs : Fresh(s) /\ Fresh(s)'
    BY <1>5 DEF TickFinish, Control, Fresh
  <2>2. \A c \in Block : left'[c] > 0 => left[c] > 0
    BY <1>5 DEF TickFinish
  <2> QED BY <1>5, <2>1, <2>2 DEF TickFinish, Dispatched
<1>6. CASE Relaunch
  BY <1>6 DEF Relaunch, Fresh, SMs, Dispatched
<1>7. CASE UNCHANGED <<resident, left, nextBlock>> /\ \A s \in SMs : Fresh(s)' = Fresh(s)
  BY <1>7 DEF Dispatched
<1>8. \/ UNCHANGED <<resident, left, nextBlock>> /\ \A s \in SMs : Fresh(s)' = Fresh(s)
      \/ ClearSm \/ ReleaseSm \/ AdmitBlock \/ AdmitStop \/ Relaunch
      \/ \E b \in Block : TickFinish(b)
  BY DEF Next, Fresh, Control, AdmitThrow, SkipTick, TickSm, TickThrow, AfterTick, Ended, vars
<1> QED BY <1>1, <1>2, <1>3, <1>4, <1>5, <1>6, <1>7, <1>8

\* A GPU in a step of phase 1 keeps what it knows of the SMs it has passed.
LEMMA StepPhase1 == TypeOK /\ Control /\ AccountsBalance /\ Phase1 /\ Next => Phase1'
<1> SUFFICES ASSUME TypeOK, Control, AccountsBalance, Phase1, Next,
                    ~launching', phase' \in {"release", "admit"}
             PROVE  /\ phase' = "admit" => \A b \in resident'[cur'] : left'[b] > 0
                    /\ Pending' => \A s \in SMs : s < cur' => ~SmCompleted(s)'
  BY DEF Phase1
<1> USE Ranges DEF TypeOK
<1>1. CASE ReleaseSm
  <2>1. ~launching /\ phase = "release" /\ cur' = cur /\ (Pending' <=> Pending) /\ left' = left
    BY <1>1 DEF ReleaseSm, Control, Pending
  <2>2. \A b \in resident'[cur] : left[b] > 0
    BY <1>1 DEF ReleaseSm, Finished
  <2>3. \A s \in SMs : s < cur => resident'[s] = resident[s]
    BY <1>1 DEF ReleaseSm, SMs
  <2> QED BY <2>1, <2>2, <2>3 DEF Phase1, SmCompleted
<1>2. CASE AdmitBlock
  <2>1. /\ ~launching /\ phase = "admit" /\ phase' = "admit" /\ cur' = cur
        /\ Pending /\ nextBlock \in Block
    BY <1>2 DEF AdmitBlock, Pending
  <2>2. \A b \in Block : left[b] > 0 => left'[b] > 0
    BY <1>2, <2>1 DEF AdmitBlock
  <2>3. left'[nextBlock] > 0 /\ resident'[cur] = resident[cur] \cup {nextBlock}
    BY <1>2, <2>1 DEF AdmitBlock
  <2>4. \A b \in resident'[cur] : left'[b] > 0
    BY <2>1, <2>2, <2>3 DEF Phase1
  <2>5. ASSUME NEW s \in SMs, s < cur PROVE ~SmCompleted(s)'
    <3>1. ~SmCompleted(s) /\ resident'[s] = resident[s]
      BY <1>2, <2>1, <2>5 DEF Phase1, AdmitBlock, SMs
    <3>2. PICK b \in resident[s] : left[b] # 0
      BY <3>1 DEF SmCompleted
    <3>3. left'[b] > 0
      BY <2>2, <3>2
    <3> QED BY <3>1, <3>2, <3>3 DEF SmCompleted
  <2> QED BY <2>1, <2>4, <2>5
<1>3. CASE AdmitStop
  <2>1. CASE cur' = 1
    BY <1>3, <2>1 DEF AdmitStop, SMs
  <2>2. CASE cur' # 1
    <3>1. /\ phase = "admit" /\ ~launching /\ cur' = cur + 1 /\ phase' = "release"
          /\ UNCHANGED <<resident, left, nextBlock, gridSize>>
      BY <1>3, <2>2 DEF AdmitStop
    <3>2. ASSUME Pending PROVE ~SmCompleted(cur)
      <4>1. alloc[cur]["blocks"] # 0
        BY <1>3, <3>2 DEF AdmitStop
      <4>2. resident[cur] # {}
        BY <4>1, HeldNothing DEF AccountsBalance
      <4> QED BY <3>1, <4>2 DEF Phase1, SmCompleted
    <3>3. \A s \in SMs : SmCompleted(s)' = SmCompleted(s)
      BY <3>1 DEF SmCompleted
    <3>4. \A s \in SMs : s < cur + 1 => s < cur \/ s = cur
      BY DEF SMs
    <3> QED BY <3>1, <3>2, <3>3, <3>4 DEF Phase1, Pending
  <2> QED BY <2>1, <2>2
<1>4. CASE cur' = 1 /\ phase' = "release"
  BY <1>4 DEF SMs
<1>5. CASE Ended
  BY <1>5 DEF Ended, vars, Phase1, SmCompleted, Pending
<1> QED BY <1>1, <1>2, <1>3, <1>4, <1>5 DEF Next, ClearSm, AdmitThrow, SkipTick, TickSm, TickFinish,
           TickThrow, AfterTick, Relaunch, Control

\* Phase 2 begins with work on every SM while blocks are pending.
LEMMA StepNoIdle ==
  TypeOK /\ Control /\ AccountsBalance /\ Phase1 /\ NoIdleSmWhilePending /\ Next
    => NoIdleSmWhilePending'
<1> SUFFICES ASSUME TypeOK, Control, AccountsBalance, Phase1, NoIdleSmWhilePending, Next,
                    phase' = "tick", cur' = 1, Pending', NEW s \in SMs
             PROVE  ~SmCompleted(s)'
  BY DEF NoIdleSmWhilePending
<1> USE Ranges DEF TypeOK
<1>1. AdmitStop
  BY DEF Next, ClearSm, ReleaseSm, AdmitBlock, AdmitThrow, SkipTick, TickSm, TickFinish,
         TickThrow, AfterTick, Relaunch, Ended, vars, SMs
<1>2. /\ phase = "admit" /\ ~launching /\ cur = NumSMs /\ Pending
      /\ UNCHANGED <<resident, left>>
  BY <1>1 DEF AdmitStop, Pending, SMs
<1>3. resident[cur] # {}
  <2>1. alloc[cur]["blocks"] # 0
    BY <1>1, <1>2 DEF AdmitStop
  <2> QED BY <2>1, HeldNothing DEF AccountsBalance
<1>4. ~SmCompleted(cur)
  BY <1>2, <1>3 DEF Phase1, SmCompleted
<1>5. s < cur \/ s = cur
  BY <1>2 DEF SMs
<1>6. ~SmCompleted(s)
  BY <1>2, <1>4, <1>5 DEF Phase1
<1> QED BY <1>2, <1>6 DEF SmCompleted

\* A turn of phase 2 keeps what all_done says of the SMs passed.
LEMMA StepPhase2 ==
  TypeOK /\ Control /\ Phase2 /\ NoIdleSmWhilePending /\ Next => Phase2'
<1> SUFFICES ASSUME TypeOK, Control, Phase2, NoIdleSmWhilePending, Next, phase' = "tick"
             PROVE  /\ allDone' => \A s \in SMs : s < cur' => SmCompleted(s)'
                    /\ Pending' /\ cur' > 1 => ~allDone'
  BY DEF Phase2
<1> USE Ranges DEF TypeOK
<1>1. CASE SkipTick
  <2>1. /\ phase = "tick" /\ SmCompleted(cur) /\ cur' = cur + 1 /\ allDone' = allDone
        /\ UNCHANGED <<resident, left, nextBlock, gridSize>>
    BY <1>1 DEF SkipTick, AfterTick
  <2>2. \A s \in SMs : SmCompleted(s)' = SmCompleted(s)
    BY <2>1 DEF SmCompleted
  <2>3. \A s \in SMs : s < cur + 1 => s < cur \/ s = cur
    BY DEF SMs
  <2>4. ASSUME Pending PROVE ~allDone
    <3>1. CASE cur = 1
      BY <2>1, <2>4, <3>1 DEF NoIdleSmWhilePending
    <3>2. CASE cur > 1
      BY <2>1, <2>4, <3>2 DEF Phase2
    <3> QED BY <3>1, <3>2 DEF SMs
  <2> QED BY <2>1, <2>2, <2>3, <2>4 DEF Phase2, Pending
<1>2. CASE allDone' = FALSE
  BY <1>2
<1>3. CASE AdmitStop
  BY <1>3 DEF AdmitStop, SMs
<1> QED BY <1>1, <1>2, <1>3 DEF Next, ClearSm, ReleaseSm, AdmitBlock, AdmitThrow, TickSm, TickFinish,
           TickThrow, AfterTick, Relaunch, Ended, vars

\* The loop returns with nothing pending and every block finished.
LEMMA StepReturns ==
  /\ TypeOK /\ Control /\ Dispatched /\ Phase2 /\ NoIdleSmWhilePending /\ ReturnsWhenGridDone
  /\ Next
  => ReturnsWhenGridDone'
<1> SUFFICES ASSUME TypeOK, Control, Dispatched, Phase2, NoIdleSmWhilePending,
                    ReturnsWhenGridDone, Next, phase' = "returned"
             PROVE  ~Pending' /\ \A b \in 1..gridSize' : left'[b] = 0
  BY DEF ReturnsWhenGridDone
<1> USE Ranges DEF TypeOK
<1>1. CASE Ended
  BY <1>1 DEF Ended, vars, ReturnsWhenGridDone, Pending
<1>2. CASE SkipTick
  <2>1. /\ phase = "tick" /\ SmCompleted(cur) /\ allDone /\ cur = NumSMs
        /\ UNCHANGED <<resident, left, nextBlock, gridSize>>
    BY <1>2 DEF SkipTick, AfterTick, SMs
  <2>2. ~Pending
    <3>1. CASE cur = 1
      BY <2>1, <3>1 DEF NoIdleSmWhilePending
    <3>2. CASE cur > 1
      BY <2>1, <3>2 DEF Phase2
    <3> QED BY <3>1, <3>2 DEF SMs
  <2>3. \A s \in SMs : SmCompleted(s)
    BY <2>1 DEF Phase2, SMs
  <2>4. ASSUME NEW b \in 1..gridSize PROVE left[b] = 0
    <3>1. b \in Block /\ b < nextBlock
      BY <2>2 DEF Pending
    <3>2. ASSUME left[b] > 0 PROVE FALSE
      <4>1. PICK s \in SMs : b \in resident[s]
        BY <3>1, <3>2 DEF Dispatched
      <4> QED BY <2>3, <3>2, <4>1 DEF SmCompleted
    <3> QED BY <3>1, <3>2
  <2> QED BY <2>1, <2>2, <2>4 DEF Pending
<1> QED BY <1>1, <1>2 DEF Next, ClearSm, ReleaseSm, AdmitBlock, AdmitStop, AdmitThrow, TickSm,
           TickFinish, TickThrow, AfterTick, Relaunch

\* The exception is thrown at an empty SM, which refuses a block for one reason.
LEMMA StepImpossible ==
  TypeOK /\ Control /\ AccountsBalance /\ ImpossibleIsImpossible /\ Next => ImpossibleIsImpossible'
<1> SUFFICES ASSUME TypeOK, Control, AccountsBalance, ImpossibleIsImpossible, Next,
                    error' = "ImpossibleBlock"
             PROVE  \E f \in Resource : Demand[nextBlock'][f] > Limit[f]
  BY DEF ImpossibleIsImpossible
<1> USE Ranges DEF TypeOK
<1>1. CASE AdmitThrow
  <2>1. nextBlock \in Block /\ nextBlock' = nextBlock
    BY <1>1 DEF AdmitThrow, Pending
  <2>2. resident[cur] = {}
    BY <1>1, HeldNoSlot DEF AdmitThrow, AccountsBalance
  <2>3. \A f \in Resource : alloc[cur][f] = 0
    BY <2>2, HeldNothing DEF AccountsBalance
  <2>4. PICK f \in Resource : ~(alloc[cur][f] + Demand[nextBlock][f] <= Limit[f])
    BY <1>1 DEF AdmitThrow, CanAdmit, Fits
  <2> QED BY <2>1, <2>3, <2>4
<1>2. CASE Ended
  BY <1>2 DEF Ended, vars, ImpossibleIsImpossible
<1> QED BY <1>1, <1>2 DEF Next, ClearSm, ReleaseSm, AdmitBlock, AdmitStop, SkipTick, TickSm,
           TickFinish, TickThrow, Relaunch, Control

\* Every step keeps the invariant.
LEMMA StepIInv == IInv /\ [Next]_vars => IInv'
<1>1. CASE Next
  BY <1>1, StepTypeOK, StepControl, StepAccounts, StepOneHome, StepDispatched, StepPhase1,
     StepNoIdle, StepPhase2, StepReturns, StepImpossible DEF IInv
<1>2. CASE UNCHANGED vars
  BY <1>2 DEF vars, IInv, TypeOK, Control, Dispatched, Phase1, Phase2, OneHomePerBlock,
     AccountsBalance, ReturnsWhenGridDone, NoIdleSmWhilePending, ImpossibleIsImpossible,
     Fresh, SmCompleted, Pending
<1> QED BY <1>1, <1>2

-----------------------------------------------------------------------------
\* The invariant of the dispatcher holds in every state.
THEOREM Invariance == Spec => []IInv
BY InitIInv, StepIInv, PTL DEF Spec

\* No block is resident on two SMs, in any launch.
THEOREM OneHomeAlways == Spec => []OneHomePerBlock
<1>1. IInv => OneHomePerBlock
  BY DEF IInv
<1> QED BY <1>1, Invariance, PTL

\* The totals of every SM are what its blocks hold and within the limits, also
\* after an exception and a new launch.
THEOREM AccountsAlwaysBalance == Spec => []AccountsBalance
<1>1. IInv => AccountsBalance
  BY DEF IInv
<1> QED BY <1>1, Invariance, PTL

\* A dispatched block is resident until its last warp has completed.
THEOREM NoBlockEverDropped == Spec => []NoBlockDropped
<1>1. IInv => NoBlockDropped
  BY DEF IInv, Dispatched, NoBlockDropped
<1> QED BY <1>1, Invariance, PTL

\* run_to_completion returns only when the whole grid has completed.
THEOREM ReturnsOnlyWhenDone == Spec => []ReturnsWhenGridDone
<1>1. IInv => ReturnsWhenGridDone
  BY DEF IInv
<1> QED BY <1>1, Invariance, PTL

\* No SM enters phase 2 without work while blocks are pending.
THEOREM NeverIdleWhilePending == Spec => []NoIdleSmWhilePending
<1>1. IInv => NoIdleSmWhilePending
  BY DEF IInv
<1> QED BY <1>1, Invariance, PTL

\* The exception for an impossible block is thrown for no other block.
THEOREM ImpossibleOnlyIfImpossible == Spec => []ImpossibleIsImpossible
<1>1. IInv => ImpossibleIsImpossible
  BY DEF IInv
<1> QED BY <1>1, Invariance, PTL
=============================================================================
