---------------------------- MODULE SweepProofs ----------------------------
(***************************************************************************)
(* Proofs about Sweep, for every study: whatever the base, the parameter   *)
(* space, the need of a block and the measurements are.                    *)
(***************************************************************************)
EXTENDS Sweep, NatLemmas

-----------------------------------------------------------------------------
(* OccupancyCalculator::compute and SM::can_admit, for every limit and     *)
(* every need of a block: the quotients of the one and the comparisons of  *)
(* the other say the same.                                                 *)

\* What an SM has, and what a block takes.
Limits5 == [Resource -> Nat]
Needs == {n \in [Resource -> Nat] : n["blocks"] = 1}

\* Each resource allows a number of blocks.
LEMMA MaxBlocksNat ==
  ASSUME NEW limit \in Limits5, NEW need \in Needs, NEW f \in Resource
  PROVE  MaxBlocksBy(limit, need, f) \in Nat
<1>1. limit[f] \in Nat /\ need[f] \in Nat /\ limit["blocks"] \in Nat
  BY DEF Limits5, Needs, Resource
<1>2. CASE need[f] > 0
  BY <1>1, <1>2, FitsQuotient DEF MaxBlocksBy
<1>3. CASE ~(need[f] > 0)
  BY <1>1, <1>3 DEF MaxBlocksBy
<1> QED BY <1>2, <1>3

\* resident_blocks is the least of the five numbers.
LEMMA ResidentIsLeast ==
  ASSUME NEW limit \in Limits5, NEW need \in Needs
  PROVE  /\ ResidentBlocks(limit, need) \in Nat
         /\ \A f \in Resource : ResidentBlocks(limit, need) <= MaxBlocksBy(limit, need, f)
         /\ \E f \in Resource : ResidentBlocks(limit, need) = MaxBlocksBy(limit, need, f)
<1> DEFINE M(f) == MaxBlocksBy(limit, need, f)
           S == {M(f) : f \in Resource}
<1>1. \A f \in Resource : M(f) \in Nat
  BY MaxBlocksNat
<1> HIDE DEF M
<1>2. \E f \in Resource : \A g \in Resource : M(f) <= M(g)
  <2>1. /\ M("blocks") \in Nat /\ M("warps") \in Nat /\ M("threads") \in Nat
        /\ M("registers") \in Nat /\ M("shmem") \in Nat
    BY <1>1 DEF Resource
  <2>2. \A a, b \in Nat : a <= b \/ b <= a
    OBVIOUS
  <2>3. \A a, b, c \in Nat : a <= b /\ b <= c => a <= c
    OBVIOUS
  <2>4. \A a \in Nat : a <= a
    OBVIOUS
  <2> QED BY <2>1 DEF Resource
<1>3. \E x \in S : \A y \in S : x <= y
  BY <1>2
<1>4. Min(S) \in S /\ \A y \in S : Min(S) <= y
  <2> HIDE DEF S
  <2> QED BY <1>3 DEF Min
<1>5. ResidentBlocks(limit, need) = Min(S)
  BY DEF ResidentBlocks, M
<1>6. PICK f \in Resource : Min(S) = M(f)
  BY <1>4
<1> HIDE DEF S
<1>7. \A g \in Resource : M(g) \in S
  BY DEF S
<1> QED BY <1>1, <1>4, <1>5, <1>6, <1>7 DEF M

\* m blocks fit into every resource exactly if there are at most resident_blocks.
LEMMA ResidentIsCapacity ==
  ASSUME NEW limit \in Limits5, NEW need \in Needs, NEW m \in Nat
  PROVE  m <= ResidentBlocks(limit, need) <=> \A f \in Resource : m * need[f] <= limit[f]
<1>1. \A f \in Resource : limit[f] \in Nat /\ need[f] \in Nat
  BY DEF Limits5, Needs
<1>2. need["blocks"] = 1 /\ "blocks" \in Resource
  BY DEF Needs, Resource
<1>3. MaxBlocksBy(limit, need, "blocks") = limit["blocks"]
  BY <1>1, <1>2 DEF MaxBlocksBy
<1>4. m * need["blocks"] = m
  BY <1>2
<1>5. ASSUME NEW f \in Resource, need[f] > 0
      PROVE  m * need[f] <= limit[f] <=> m <= MaxBlocksBy(limit, need, f)
  BY <1>1, <1>5, FitsQuotient DEF MaxBlocksBy
<1>6. ASSUME NEW f \in Resource, ~(need[f] > 0)
      PROVE  m * need[f] <= limit[f] /\ MaxBlocksBy(limit, need, f) = limit["blocks"]
  <2>1. need[f] = 0
    BY <1>1, <1>6
  <2> QED BY <1>1, <1>6, <2>1 DEF MaxBlocksBy
<1>7. (\A f \in Resource : m * need[f] <= limit[f])
        <=> \A f \in Resource : m <= MaxBlocksBy(limit, need, f)
  BY <1>2, <1>3, <1>4, <1>5, <1>6
<1>8. (\A f \in Resource : m <= MaxBlocksBy(limit, need, f)) <=> m <= ResidentBlocks(limit, need)
  BY ResidentIsLeast, MaxBlocksNat
<1> QED BY <1>7, <1>8

\* SM::can_admit agrees with compute: when k blocks are resident one more fits
\* exactly if k is below resident_blocks.
LEMMA AdmitsIfPredicted ==
  ASSUME NEW limit \in Limits5, NEW need \in Needs, NEW k \in Nat, NEW held,
         \A f \in Resource : held[f] = k * need[f]
  PROVE  Fits(held, need, limit) <=> k < ResidentBlocks(limit, need)
<1>1. \A f \in Resource : held[f] + need[f] = (k + 1) * need[f]
  BY DEF Needs
<1>2. Fits(held, need, limit) <=> \A f \in Resource : (k + 1) * need[f] <= limit[f]
  BY <1>1 DEF Fits
<1>3. k + 1 \in Nat /\ ResidentBlocks(limit, need) \in Nat
  BY ResidentIsLeast
<1>4. k + 1 <= ResidentBlocks(limit, need) <=> k < ResidentBlocks(limit, need)
  BY <1>3
<1> QED BY <1>2, <1>3, <1>4, ResidentIsCapacity

\* The limiting factor refuses the block after the last resident one.
LEMMA LimitingFactorRefuses ==
  ASSUME NEW limit \in Limits5, NEW need \in Needs, NEW k \in Nat,
         k >= ResidentBlocks(limit, need)
  PROVE  LET f == LimitingFactor(limit, need)
         IN  f \in Resource /\ (k + 1) * need[f] > limit[f]
<1> DEFINE R == ResidentBlocks(limit, need)
<1>0. R \in Nat /\ ~(k + 1 <= R) /\ k + 1 \in Nat
  BY ResidentIsLeast
<1>1. \A f \in Resource : limit[f] \in Nat /\ need[f] \in Nat
  BY DEF Limits5, Needs
<1>2. ASSUME NEW f \in Resource, Binds(limit, need, f)
      PROVE  (k + 1) * need[f] > limit[f]
  <2>1. need[f] \in Nat \ {0} /\ R = limit[f] \div need[f]
    BY <1>1, <1>2 DEF Binds, MaxBlocksBy
  <2>2. ~((k + 1) * need[f] <= limit[f])
    BY <1>0, <1>1, <2>1, FitsQuotient
  <2>3. (k + 1) * need[f] \in Nat
    BY <1>0, <2>1
  <2> QED BY <1>1, <2>2, <2>3
<1>3. /\ "blocks" \in Resource /\ "registers" \in Resource /\ "shmem" \in Resource
      /\ "warps" \in Resource /\ "threads" \in Resource
  BY DEF Resource
<1>4. ASSUME ~Binds(limit, need, "registers"), ~Binds(limit, need, "shmem"),
             ~Binds(limit, need, "warps"), ~Binds(limit, need, "threads")
      PROVE  (k + 1) * need["blocks"] > limit["blocks"]
  <2>1. PICK f \in Resource : R = MaxBlocksBy(limit, need, f)
    BY ResidentIsLeast
  <2>2. f # "blocks" => ~(need[f] > 0)
    BY <1>4, <2>1 DEF Binds, Resource
  <2>3. need["blocks"] = 1
    BY DEF Needs
  <2>4. R = limit["blocks"]
    <3>1. CASE f = "blocks"
      BY <1>1, <1>3, <2>1, <2>3, <3>1 DEF MaxBlocksBy
    <3>2. CASE f # "blocks"
      BY <2>1, <2>2, <3>2 DEF MaxBlocksBy
    <3> QED BY <3>1, <3>2
  <2> QED BY <1>0, <1>1, <1>3, <2>3, <2>4
<1> QED BY <1>2, <1>3, <1>4 DEF LimitingFactor

\* An SM with smaller limits holds no more blocks.
LEMMA ResidentMonotone ==
  ASSUME NEW small \in Limits5, NEW large \in Limits5, NEW need \in Needs,
         \A f \in Resource : small[f] <= large[f]
  PROVE  ResidentBlocks(small, need) <= ResidentBlocks(large, need)
<1> DEFINE m == ResidentBlocks(small, need)
<1>1. m \in Nat
  BY ResidentIsLeast
<1>2. m <= m
  BY <1>1
<1>3. \A f \in Resource : m * need[f] <= small[f]
  BY <1>1, <1>2, ResidentIsCapacity
<1> HIDE DEF m
<1>4. ASSUME NEW f \in Resource PROVE m * need[f] <= large[f]
  <2>1. m * need[f] \in Nat /\ small[f] \in Nat /\ large[f] \in Nat
    BY <1>1 DEF Limits5, Needs
  <2> QED BY <1>3, <2>1
<1> QED BY <1>1, <1>4, ResidentIsCapacity DEF m

\* An SM never holds more blocks than its limit on blocks.
LEMMA ResidentWithinBlocks ==
  ASSUME NEW limit \in Limits5, NEW need \in Needs
  PROVE  ResidentBlocks(limit, need) <= limit["blocks"]
<1>1. "blocks" \in Resource /\ need["blocks"] = 1 /\ limit["blocks"] \in Nat
  BY DEF Resource, Needs, Limits5
<1>2. MaxBlocksBy(limit, need, "blocks") = limit["blocks"]
  BY <1>1 DEF MaxBlocksBy
<1> QED BY <1>1, <1>2, ResidentIsLeast

-----------------------------------------------------------------------------
(* The inductive invariant.                                                *)

Swept(s) == GenerateConfigurations(s.base, s.space)

\* What execute_configuration returns for configuration k of study s.
ResultOf(s, k, o) ==
  [config |-> Swept(s)[k], cycles |-> o.cycles, idle |-> o.idle, signs |-> o.signs,
   occupancy |-> ResidentBlocks(Limits(Swept(s)[k]), s.need),
   maxBlocks |-> Swept(s)[k]["blocks"]]
ResultSet(s) == {ResultOf(s, k, o) : k \in 1..Len(Swept(s)), o \in Outcomes[s.range]}

\* What the factors speak of, and what they say.
Subject == Candidate \cup {"Sweep"}
Statement ==
  {"highIpc", "lowIdle", "highAmat", "lowHitRate", "uncoalesced", "lowOccupancy", "highIdle",
   "starvation", "longWait", "unfair", "bankRate", "bankCostOfOne",
   "validated", "none found", "other scheduler faster"}

AnalysisSet ==
  [primary : Candidate \cup {"Unclassified"}, confidence : {"Low", "Medium", "High"},
   secondary : SUBSET Candidate, factors : SUBSET (Subject \X Statement)]

TypeOK ==
  /\ study \in Studies
  /\ phase \in {"generate", "launch", "run", "diagnose", "validate", "report", "done", "thrown"}
  /\ alloc \in [Resource -> Nat]
  /\ results \in Seq(ResultSet(study))
  /\ analysis \in Seq(AnalysisSet)

\* How far each phase has come.
Progress ==
  /\ phase = "generate" => results = <<>>
  /\ phase # "generate" => configs = Swept(study)
  /\ phase \in {"launch", "run"} => Len(results) < Len(configs)
  /\ phase \in {"generate", "launch", "run", "thrown"} => analysis = <<>>
  /\ phase = "diagnose" => Len(analysis) < Len(results)
  /\ phase \in {"validate", "report", "done"} => Len(analysis) = Len(results)

\* The totals are those of the resident blocks.
Counted == \A f \in Resource : alloc[f] = alloc["blocks"] * study.need[f]

\* Every analysis is the diagnosis of its result, from "report" on validated.
Judged(i, c) ==
  analysis[i] = IF phase \in {"report", "done"}
                THEN Validated(results, i, Diagnosis(results[i], c))
                ELSE Diagnosis(results[i], c)
Grounded == \A i \in 1..Len(analysis) : \E c \in Foremost(results[i]) : Judged(i, c)

IInv == TypeOK /\ Progress /\ Counted /\ Grounded

-----------------------------------------------------------------------------
(* What generate_configurations generates.                                 *)

\* A configuration of study s: the base with other values of the parameters.
Derived(s, c) ==
  /\ c = [x \in DOMAIN s.base |-> c[x]]
  /\ \A x \in DOMAIN s.base \ Param : c[x] = s.base[x]
  /\ \A f \in Resource : c[f] \in Nat

\* A list of at least one of them.
DerivedList(s, cs) ==
  /\ DOMAIN cs = 1..Len(cs) /\ Len(cs) \in Nat \ {0}
  /\ \A k \in 1..Len(cs) : Derived(s, cs[k])

\* The parameters, without their order.
LEMMA ParamsAre == Param = {"sched", "l1", "registers", "shmem", "warps"}
<1>1. Len(Params) = 5
  BY DEF Params
<1>2. 1..5 = {1, 2, 3, 4, 5}
  OBVIOUS
<1> QED BY <1>1, <1>2 DEF Param, Params

\* The position of the k-th pushed configuration among those before the stage,
\* and that of its value in the list.
LEMMA StageIndices ==
  ASSUME NEW m \in Nat \ {0}, NEW n \in Nat \ {0}, NEW k \in 1..m * n
  PROVE  ((k - 1) \div n) + 1 \in 1..m /\ ((k - 1) % n) + 1 \in 1..n
<1> DEFINE q == (k - 1) \div n
           r == (k - 1) % n
<1>1. k - 1 \in Nat /\ k <= m * n /\ m * n \in Nat
  OBVIOUS
<1>2. q \in Nat /\ r \in 0..n - 1
  BY <1>1
<1>3. ~(m <= q)
  <2>1. SUFFICES ASSUME m <= q PROVE FALSE
    OBVIOUS
  <2>2. m * n <= k - 1
    BY <1>1, <2>1, FitsQuotient
  <2> QED BY <1>1, <2>2
<1> HIDE DEF q, r
<1>4. q + 1 \in 1..m /\ r + 1 \in 1..n
  BY <1>2, <1>3
<1> QED BY <1>4 DEF q, r

\* One stage keeps it so.
LEMMA StageDerives ==
  ASSUME NEW s \in Studies, NEW cs, DerivedList(s, cs), NEW p \in Param
  PROVE  DerivedList(s, Expanded(cs, p, s.space[p]))
<1> DEFINE values == s.space[p]
           n == Len(values)
           m == Len(cs)
           next(k) == [cs[((k - 1) \div n) + 1] EXCEPT ![p] = values[((k - 1) % n) + 1]]
<1>0. /\ p \in DOMAIN s.base /\ Resource \subseteq DOMAIN s.base
      /\ m \in Nat \ {0} /\ \A k \in 1..m : Derived(s, cs[k])
  BY StudiesAssumption DEF DerivedList
<1>1. /\ n \in Nat
      /\ p # "sched" => \A j \in 1..n : values[j] \in Nat
  <2>1. CASE p = "sched"
    BY <2>1, StudiesAssumption
  <2>2. CASE p # "sched"
    <3>1. values \in Seq(Nat)
      BY <2>2, StudiesAssumption
    <3> HIDE DEF values
    <3> QED BY <3>1
  <2> QED BY <2>1, <2>2
<1>2. CASE n = 0
  BY <1>2 DEF Expanded
<1>3. CASE n # 0
  <2>1. Expanded(cs, p, values) = [k \in 1..m * n |-> next(k)]
    BY <1>3 DEF Expanded
  <2>2. ASSUME NEW k \in 1..m * n PROVE Derived(s, next(k))
    <3> DEFINE i == ((k - 1) \div n) + 1
               j == ((k - 1) % n) + 1
    <3>1. i \in 1..m /\ j \in 1..n
      <4> HIDE DEF m, n
      <4> QED BY <1>0, <1>1, <1>3, StageIndices
    <3>2. Derived(s, cs[i])
      BY <1>0, <3>1
    <3>3. p # "sched" => values[j] \in Nat
      BY <1>1, <3>1
    <3>4. "sched" \notin Resource
      BY DEF Resource
    <3> DEFINE c == cs[i]
               v == values[j]
    <3>5. Derived(s, [c EXCEPT ![p] = v])
      <4> HIDE DEF c, v
      <4>1. Derived(s, c) /\ (p # "sched" => v \in Nat)
        BY <3>2, <3>3 DEF c, v
      <4>2. [c EXCEPT ![p] = v] = [x \in DOMAIN s.base |-> IF x = p THEN v ELSE c[x]]
        BY <4>1 DEF Derived
      <4> DEFINE d == [x \in DOMAIN s.base |-> IF x = p THEN v ELSE c[x]]
      <4>3. d = [x \in DOMAIN s.base |-> d[x]]
        OBVIOUS
      <4>4. \A x \in DOMAIN s.base \ Param : d[x] = s.base[x]
        BY <4>1 DEF Derived
      <4>5. \A f \in Resource : d[f] \in Nat
        BY <1>0, <3>4, <4>1 DEF Derived
      <4> HIDE DEF d
      <4>6. Derived(s, d)
        BY <4>3, <4>4, <4>5 DEF Derived
      <4> QED BY <4>2, <4>6 DEF d
    <3> QED BY <3>5
  <2>3. m * n \in Nat \ {0}
    <3> HIDE DEF m, n
    <3> QED BY <1>0, <1>1, <1>3
  <2> HIDE DEF next, m, n, values
  <2> DEFINE es == [k \in 1..m * n |-> next(k)]
  <2>4. DOMAIN es = 1..m * n /\ Len(es) = m * n
    BY <2>3
  <2>5. \A k \in 1..m * n : Derived(s, es[k])
    BY <2>2
  <2>6. DerivedList(s, es)
    <3> HIDE DEF es
    <3> QED BY <2>3, <2>4, <2>5 DEF DerivedList
  <2> QED BY <2>1, <2>6 DEF values
<1> QED BY <1>2, <1>3

\* The sweep has at least one configuration, and all are derived from the base.
LEMMA SweptDerived ==
  ASSUME NEW s \in Studies
  PROVE  DerivedList(s, Swept(s))
<1> DEFINE S0 == <<s.base>>
           S1 == Expanded(S0, "sched", s.space["sched"])
           S2 == Expanded(S1, "l1", s.space["l1"])
           S3 == Expanded(S2, "registers", s.space["registers"])
           S4 == Expanded(S3, "shmem", s.space["shmem"])
           S5 == Expanded(S4, "warps", s.space["warps"])
<1>1. DerivedList(s, S0)
  <2>1. Derived(s, s.base)
    BY StudiesAssumption DEF Derived
  <2>2. Len(S0) = 1 /\ DOMAIN S0 = 1..1 /\ S0[1] = s.base
    OBVIOUS
  <2> HIDE DEF S0
  <2> QED BY <2>1, <2>2 DEF DerivedList
<1>2. Swept(s) = S5
  BY DEF Swept, GenerateConfigurations
<1>3. "sched" \in Param /\ "l1" \in Param /\ "registers" \in Param /\ "shmem" \in Param /\ "warps" \in Param
  BY ParamsAre
<1>4. DerivedList(s, S1)
  <2> HIDE DEF S0
  <2> QED BY <1>1, <1>3, StageDerives
<1>5. DerivedList(s, S2)
  <2> HIDE DEF S1
  <2> QED BY <1>4, <1>3, StageDerives
<1>6. DerivedList(s, S3)
  <2> HIDE DEF S2
  <2> QED BY <1>5, <1>3, StageDerives
<1>7. DerivedList(s, S4)
  <2> HIDE DEF S3
  <2> QED BY <1>6, <1>3, StageDerives
<1>8. DerivedList(s, S5)
  <2> HIDE DEF S4
  <2> QED BY <1>7, <1>3, StageDerives
<1> QED BY <1>2, <1>8

-----------------------------------------------------------------------------
(* Results, scores and diagnoses.                                          *)

\* What the analyzer may rely on in a result of study s.
ResultOK(s, r) ==
  /\ Derived(s, r.config)
  /\ r.cycles \in Nat /\ r.idle \in Nat /\ r.occupancy \in Nat /\ r.maxBlocks \in Nat
  /\ r.cycles # 0
  /\ "bankCost" \in r.signs => "bankCostOfOne" \in r.signs
  /\ Limits(r.config) \in Limits5
  /\ r.occupancy = ResidentBlocks(Limits(r.config), s.need)
  /\ r.occupancy <= r.maxBlocks /\ r.maxBlocks = s.base["blocks"]

\* The limits of a configuration are numbers.
LEMMA LimitsOfDerived ==
  ASSUME NEW s \in Studies, NEW c, Derived(s, c)
  PROVE  /\ Limits(c) \in Limits5 /\ s.need \in Needs
         /\ \A f \in Resource : Limits(c)[f] = c[f]
         /\ c["blocks"] = s.base["blocks"]
<1>1. Limits(c) \in Limits5 /\ \A f \in Resource : Limits(c)[f] = c[f]
  BY DEF Limits, Limits5, Derived
<1>2. s.need \in Needs
  BY StudiesAssumption DEF Needs
<1>3. "blocks" \in DOMAIN s.base \ Param
  BY StudiesAssumption, ParamsAre DEF Resource
<1>4. c["blocks"] = s.base["blocks"]
  BY <1>3 DEF Derived
<1> QED BY <1>1, <1>2, <1>4

\* Every result of a sweep is such.
LEMMA ResultsOK ==
  ASSUME NEW s \in Studies, NEW r \in ResultSet(s)
  PROVE  ResultOK(s, r)
<1>1. PICK k \in 1..Len(Swept(s)), o \in Outcomes[s.range] : r = ResultOf(s, k, o)
  BY DEF ResultSet
<1> DEFINE c == Swept(s)[k]
<1>2. Derived(s, c)
  BY SweptDerived DEF DerivedList
<1>3. s.range \in DOMAIN Outcomes
  BY StudiesAssumption
<1>4. o \in UNION {Outcomes[x] : x \in DOMAIN Outcomes}
  BY <1>3
<1>5. o.cycles \in Nat \ {0} /\ o.idle \in Nat /\ ("bankCost" \in o.signs => "bankCostOfOne" \in o.signs)
  BY <1>4, StudiesAssumption
<1> HIDE DEF c
<1>6. /\ r.config = c /\ r.cycles = o.cycles /\ r.idle = o.idle /\ r.signs = o.signs
      /\ r.occupancy = ResidentBlocks(Limits(c), s.need) /\ r.maxBlocks = c["blocks"]
  BY <1>1 DEF ResultOf, c
<1>7. /\ Limits(c) \in Limits5 /\ s.need \in Needs /\ c["blocks"] = s.base["blocks"]
      /\ Limits(c)["blocks"] = c["blocks"] /\ Limits(c)["blocks"] \in Nat
  <2>1. "blocks" \in Resource
    BY DEF Resource
  <2> QED BY <1>2, <2>1, LimitsOfDerived DEF Limits5
<1>8. ResidentBlocks(Limits(c), s.need) \in Nat /\ ResidentBlocks(Limits(c), s.need) <= c["blocks"]
  BY <1>7, ResidentIsLeast, ResidentWithinBlocks
<1> QED BY <1>2, <1>5, <1>6, <1>7, <1>8 DEF ResultOK

\* The number of signs is a number, and 0 if there is none.
LEMMA SignsCount ==
  ASSUME NEW r, NEW S, IsFiniteSet(S)
  PROVE  Signs(r, S) \in Nat /\ (r.signs \cap S = {} => Signs(r, S) = 0)
<1>1. IsFiniteSet(r.signs \cap S)
  <2>1. r.signs \cap S \subseteq S
    OBVIOUS
  <2> QED BY <2>1, FS_Subset
<1>2. Cardinality(r.signs \cap S) \in Nat
  BY <1>1, FS_CardinalityType
<1>3. Cardinality({}) = 0
  BY FS_EmptySet
<1> QED BY <1>2, <1>3 DEF Signs

\* An enumeration of at most three is finite.
LEMMA FewAreFinite ==
  ASSUME NEW a, NEW b, NEW c
  PROVE  IsFiniteSet({a}) /\ IsFiniteSet({a, b}) /\ IsFiniteSet({a, b, c})
<1>1. IsFiniteSet({a})
  BY FS_Singleton
<1>2. IsFiniteSet({a} \cup {b})
  BY <1>1, FS_AddElement
<1>3. IsFiniteSet(({a} \cup {b}) \cup {c})
  BY <1>2, FS_AddElement
<1>4. {a} \cup {b} = {a, b} /\ ({a} \cup {b}) \cup {c} = {a, b, c}
  OBVIOUS
<1> QED BY <1>1, <1>2, <1>3, <1>4

\* Scores are numbers; a candidate that scores a point has evidence, although
\* collect_evidence tests other conditions; occupancy alone never scores the
\* five half points of high confidence.
LEMMA ScoreHasEvidence ==
  ASSUME NEW s \in Studies, NEW r, ResultOK(s, r), NEW c \in Candidate
  PROVE  /\ Score(r, c) \in Nat
         /\ Score(r, c) >= 2 => Evidence(r, c) # {}
         /\ c = "Occupancy" => Score(r, c) < 5
<1>0. r.idle \in Nat /\ r.occupancy \in Nat /\ r.maxBlocks \in Nat
  BY DEF ResultOK
<1> DEFINE mem == {"highAmat", "lowHitRate", "uncoalesced"}
           bank == {"bankRate", "bankCost"}
<1>1. /\ IsFiniteSet(mem) /\ IsFiniteSet(bank) /\ IsFiniteSet({"highIpc"})
      /\ IsFiniteSet({"starvation"}) /\ IsFiniteSet({"longWait"})
  BY FewAreFinite
<1>2. /\ Signs(r, mem) \in Nat /\ (r.signs \cap mem = {} => Signs(r, mem) = 0)
      /\ Signs(r, bank) \in Nat /\ (r.signs \cap bank = {} => Signs(r, bank) = 0)
      /\ Signs(r, {"highIpc"}) \in Nat /\ (r.signs \cap {"highIpc"} = {} => Signs(r, {"highIpc"}) = 0)
      /\ Signs(r, {"starvation"}) \in Nat
      /\ (r.signs \cap {"starvation"} = {} => Signs(r, {"starvation"}) = 0)
      /\ Signs(r, {"longWait"}) \in Nat
      /\ (r.signs \cap {"longWait"} = {} => Signs(r, {"longWait"}) = 0)
  BY <1>1, SignsCount
<1>3. MemoryPressure(r) \in Nat /\ (r.signs \cap mem = {} => MemoryPressure(r) < 2)
  <2>1. Points(1, r.idle > 20) \in Nat /\ Points(1, r.idle > 20) <= 1
    BY <1>0 DEF Points
  <2>2. MemoryPressure(r) = 2 * Signs(r, mem) + Points(1, r.idle > 20)
    BY DEF MemoryPressure
  <2> HIDE DEF mem
  <2> QED BY <1>2, <2>1, <2>2
<1>4. CASE c = "Memory Latency"
  <2>1. Score(r, c) = MemoryPressure(r) /\ Evidence(r, c) = r.signs \cap mem
    BY <1>4 DEF Score, Evidence
  <2> HIDE DEF mem
  <2>2. Evidence(r, c) = {} => MemoryPressure(r) < 2
    BY <1>3, <2>1
  <2>3. Evidence(r, c) = {} => ~(MemoryPressure(r) >= 2)
    BY <1>3, <2>2
  <2> QED BY <1>3, <1>4, <2>1, <2>3
<1>5. CASE c = "Compute"
  <2>1. Score(r, c) = 4 * Signs(r, {"highIpc"}) + Points(2, r.idle < 10)
    BY <1>5 DEF Score
  <2>2. Evidence(r, c) = (r.signs \cap {"highIpc"}) \cup (IF r.idle < 10 THEN {"lowIdle"} ELSE {})
    BY <1>5 DEF Evidence
  <2>3. CASE r.idle < 10
    <3>1. Evidence(r, c) # {}
      BY <2>2, <2>3
    <3>2. Points(2, r.idle < 10) = 2
      BY <2>3 DEF Points
    <3> QED BY <1>2, <1>5, <2>1, <3>1, <3>2
  <2>4. CASE ~(r.idle < 10)
    <3>1. Evidence(r, c) = r.signs \cap {"highIpc"}
      BY <2>2, <2>4
    <3>2. Points(2, r.idle < 10) = 0
      BY <2>4 DEF Points
    <3> QED BY <1>2, <1>5, <2>1, <3>1, <3>2
  <2> QED BY <2>3, <2>4
<1>6. CASE c = "Occupancy"
  <2> DEFINE p == Points(2, LowOccupancy(r))
             q == Points(2, r.idle > 20 /\ MemoryPressure(r) < 3)
  <2>1. Score(r, c) = p + q
    BY <1>6 DEF Score
  <2>2. Evidence(r, c) = (IF LowOccupancy(r) THEN {"lowOccupancy"} ELSE {})
                           \cup (IF r.idle > 20 THEN {"highIdle"} ELSE {})
    BY <1>6 DEF Evidence
  <2>3. p \in {0, 2} /\ (p # 0 => LowOccupancy(r))
    BY DEF Points
  <2>4. q \in {0, 2} /\ (q # 0 => r.idle > 20)
    BY DEF Points
  <2> HIDE DEF p, q
  <2>5. p + q \in Nat /\ p + q < 5 /\ (p + q >= 2 => p # 0 \/ q # 0)
    BY <2>3, <2>4
  <2>6. p # 0 \/ q # 0 => Evidence(r, c) # {}
    BY <2>2, <2>3, <2>4
  <2> QED BY <2>1, <2>5, <2>6
<1>7. CASE c = "Scheduler Inefficiency"
  <2> DEFINE p == Points(1, "unfair" \in r.signs /\ r.idle > 10)
  <2>1. Score(r, c) = 4 * Signs(r, {"starvation"}) + 2 * Signs(r, {"longWait"}) + p
    BY <1>7 DEF Score
  <2>2. Evidence(r, c) = r.signs \cap {"starvation", "longWait", "unfair"}
    BY <1>7 DEF Evidence
  <2>3. p \in {0, 1}
    BY DEF Points
  <2> HIDE DEF p
  <2>4. Evidence(r, c) = {} => r.signs \cap {"starvation"} = {} /\ r.signs \cap {"longWait"} = {}
    BY <2>2
  <2>5. Evidence(r, c) = {} => Signs(r, {"starvation"}) = 0 /\ Signs(r, {"longWait"}) = 0
    BY <1>2, <2>4
  <2>6. \A m, n \in Nat : 4 * m + 2 * n + p \in Nat /\ (m = 0 /\ n = 0 => ~(4 * m + 2 * n + p >= 2))
    BY <2>3
  <2>7. Score(r, c) \in Nat /\ (Evidence(r, c) = {} => ~(Score(r, c) >= 2))
    BY <1>2, <2>1, <2>5, <2>6
  <2> QED BY <1>7, <2>7
<1>8. CASE c = "Bank Conflicts"
  <2>1. Score(r, c) = 2 * Signs(r, bank)
    BY <1>8 DEF Score
  <2>2. Evidence(r, c) = r.signs \cap {"bankRate", "bankCostOfOne"}
    BY <1>8 DEF Evidence
  <2>3. Evidence(r, c) = {} => r.signs \cap bank = {}
    BY <2>2 DEF ResultOK
  <2> HIDE DEF bank
  <2>4. Evidence(r, c) = {} => Signs(r, bank) = 0
    BY <1>2, <2>3
  <2>5. Score(r, c) \in Nat /\ (Evidence(r, c) = {} => ~(Score(r, c) >= 2))
    BY <1>2, <2>1, <2>4
  <2> QED BY <1>8, <2>5
<1> QED BY <1>4, <1>5, <1>6, <1>7, <1>8 DEF Candidate

\* What EvidenceBacksDiagnosis says of one analysis a of result r.
Named(a) == ({a.primary} \ {"Unclassified"}) \cup a.secondary
Backed(r, a) ==
  /\ a \in AnalysisSet
  /\ \A c \in Named(a) : \E e \in a.factors : e[1] = c
  /\ Named(a) = {c \in Candidate : Score(r, c) >= 2}

\* diagnose_bottleneck, whichever of the best candidates the sort puts first;
\* occupancy is not named with high confidence.
LEMMA DiagnosisBacked ==
  ASSUME NEW s \in Studies, NEW r, ResultOK(s, r), NEW first \in Foremost(r)
  PROVE  /\ Backed(r, Diagnosis(r, first))
         /\ Diagnosis(r, first).primary = "Occupancy" =>
              Diagnosis(r, first).confidence \in {"Low", "Medium"}
<1> DEFINE a == Diagnosis(r, first)
           second == {c \in Candidate \ {first} : Score(r, c) >= 2}
           factors == UNION {{<<c, e>> : e \in Evidence(r, c)} : c \in {first} \cup second}
<1>0. first \in Candidate /\ \A d \in Candidate : Score(r, d) <= Score(r, first)
  BY DEF Foremost
<1>1. \A c \in Candidate : Score(r, c) \in Nat
  BY ScoreHasEvidence
<1>2. "Unclassified" \notin Candidate
  BY DEF Candidate
<1>3. CASE Score(r, first) < 2
  <2>1. a = [primary |-> "Unclassified", confidence |-> "Low", secondary |-> {}, factors |-> {}]
    BY <1>3 DEF Diagnosis
  <2>2. \A c \in Candidate : ~(Score(r, c) >= 2)
    BY <1>0, <1>1, <1>3
  <2>3. a \in AnalysisSet
    BY <2>1 DEF AnalysisSet
  <2>4. Named(a) = {} /\ a.primary # "Occupancy"
    BY <2>1 DEF Named
  <2> QED BY <2>2, <2>3, <2>4 DEF Backed
<1>4. CASE ~(Score(r, first) < 2)
  <2>1. a = [primary |-> first, confidence |-> Confidence(Score(r, first)),
             secondary |-> second, factors |-> factors]
    BY <1>4 DEF Diagnosis
  <2>2. Score(r, first) >= 2
    BY <1>0, <1>1, <1>4
  <2>3. {first} \cup second = {c \in Candidate : Score(r, c) >= 2}
    BY <1>0, <2>2
  <2> HIDE DEF second
  <2>4. second \subseteq Candidate
    BY DEF second
  <2>5. \A c \in Candidate : Evidence(r, c) \subseteq Statement
    BY DEF Candidate, Evidence, Statement
  <2>6. factors \subseteq Subject \X Statement
    <3>1. \A c \in {first} \cup second : c \in Subject /\ c \in Candidate
      BY <1>0, <2>4 DEF Subject
    <3> QED BY <2>5, <3>1
  <2>7. \A c \in {first} \cup second : \E e \in factors : e[1] = c
    <3>1. SUFFICES ASSUME NEW c \in {first} \cup second PROVE \E e \in factors : e[1] = c
      OBVIOUS
    <3>2. c \in Candidate /\ Score(r, c) >= 2
      BY <2>3
    <3>3. PICK x : x \in Evidence(r, c)
      BY <3>2, ScoreHasEvidence
    <3>4. <<c, x>> \in factors /\ <<c, x>>[1] = c
      BY <3>3
    <3> QED BY <3>4
  <2> HIDE DEF factors
  <2>8. Confidence(Score(r, first)) \in {"Low", "Medium", "High"}
    BY DEF Confidence
  <2>9. first = "Occupancy" => Confidence(Score(r, first)) \in {"Low", "Medium"}
    <3>1. first = "Occupancy" => ~(Score(r, first) >= 5)
      BY <1>0, <1>1, ScoreHasEvidence
    <3> QED BY <3>1 DEF Confidence
  <2>10. Named(a) = {first} \cup second
    BY <1>0, <1>2, <2>1 DEF Named
  <2>11. a \in AnalysisSet
    BY <1>0, <2>1, <2>4, <2>6, <2>8 DEF AnalysisSet
  <2>12. a.factors = factors /\ a.primary = first /\ a.confidence = Confidence(Score(r, first))
    BY <2>1
  <2> HIDE DEF a
  <2>13. Backed(r, a)
    BY <2>3, <2>7, <2>10, <2>11, <2>12 DEF Backed
  <2> QED BY <2>9, <2>12, <2>13 DEF a
<1> QED BY <1>3, <1>4

\* A change of confidence and factors.
Updates(v, a, f) ==
  /\ v \in AnalysisSet /\ v.primary = a.primary /\ v.secondary = a.secondary
  /\ v.factors = f

\* It leaves an analysis with the same bottlenecks.
LEMMA UpdatedAnalysis ==
  ASSUME NEW a \in AnalysisSet, NEW c \in {"Low", "Medium", "High"},
         NEW f \in SUBSET (Subject \X Statement)
  PROVE  /\ Updates([a EXCEPT !.confidence = c, !.factors = f], a, f)
         /\ Updates([a EXCEPT !.factors = f], a, f)
<1> DEFINE P == Candidate \cup {"Unclassified"}
           C == {"Low", "Medium", "High"}
           S == SUBSET Candidate
           F == SUBSET (Subject \X Statement)
<1>1. a \in [primary : P, confidence : C, secondary : S, factors : F] /\ c \in C /\ f \in F
  BY DEF AnalysisSet
<1>2. AnalysisSet = [primary : P, confidence : C, secondary : S, factors : F]
  BY DEF AnalysisSet
<1> HIDE DEF P, C, S, F
<1> QED BY <1>1, <1>2 DEF Updates

\* Validation adds factors and changes the confidence, nothing else.
LEMMA ValidationKeeps ==
  ASSUME NEW rs, NEW i, NEW r, NEW a, Backed(r, a)
  PROVE  Backed(r, Validated(rs, i, a)) /\ Validated(rs, i, a).primary = a.primary
<1> DEFINE v == Validated(rs, i, a)
<1>0. a \in AnalysisSet
  BY DEF Backed
<1>1. /\ v \in AnalysisSet /\ v.primary = a.primary /\ v.secondary = a.secondary
      /\ a.factors \subseteq v.factors
  <2>0. /\ "validated" \in Statement /\ "none found" \in Statement
        /\ "other scheduler faster" \in Statement
    BY DEF Statement
  <2>1. \A x \in Statement : a.factors \cup {<<"Sweep", x>>} \in SUBSET (Subject \X Statement)
    BY <1>0 DEF AnalysisSet, Subject
  <2>2. CASE a.primary = "Occupancy" /\ OccupancyEvidence(rs, i)
    <3> DEFINE f == a.factors \cup {<<"Sweep", "validated">>}
    <3>1. v = [a EXCEPT !.confidence = "High", !.factors = f]
      BY <2>2 DEF Validated
    <3>2. f \in SUBSET (Subject \X Statement)
      BY <2>0, <2>1
    <3> HIDE DEF v, f
    <3>3. Updates([a EXCEPT !.confidence = "High", !.factors = f], a, f)
      BY <1>0, <3>2, UpdatedAnalysis
    <3> QED BY <3>1, <3>3 DEF Updates, f
  <2>3. CASE a.primary = "Occupancy" /\ ~OccupancyEvidence(rs, i) /\ a.confidence = "Medium"
    <3> DEFINE f == a.factors \cup {<<"Sweep", "none found">>}
    <3>1. v = [a EXCEPT !.confidence = "Low", !.factors = f]
      BY <2>3 DEF Validated
    <3>2. f \in SUBSET (Subject \X Statement)
      BY <2>0, <2>1
    <3> HIDE DEF v, f
    <3>3. Updates([a EXCEPT !.confidence = "Low", !.factors = f], a, f)
      BY <1>0, <3>2, UpdatedAnalysis
    <3> QED BY <3>1, <3>3 DEF Updates, f
  <2>4. CASE a.primary = "Scheduler Inefficiency" /\ SchedulerEvidence(rs, i)
    <3> DEFINE f == a.factors \cup {<<"Sweep", "other scheduler faster">>}
    <3>1. v = [a EXCEPT !.factors = f]
      BY <2>4 DEF Validated
    <3>2. f \in SUBSET (Subject \X Statement)
      BY <2>0, <2>1
    <3> HIDE DEF v, f
    <3>3. Updates([a EXCEPT !.factors = f], a, f)
      BY <1>0, <3>2, UpdatedAnalysis
    <3> QED BY <3>1, <3>3 DEF Updates, f
  <2>5. CASE /\ ~(a.primary = "Occupancy" /\ OccupancyEvidence(rs, i))
             /\ ~(a.primary = "Occupancy" /\ ~OccupancyEvidence(rs, i) /\ a.confidence = "Medium")
             /\ ~(a.primary = "Scheduler Inefficiency" /\ SchedulerEvidence(rs, i))
    <3>1. v = a
      BY <2>5 DEF Validated
    <3> QED BY <1>0, <3>1
  <2> QED BY <2>2, <2>3, <2>4, <2>5
<1> HIDE DEF v
<1>2. Named(v) = Named(a)
  BY <1>1 DEF Named
<1>3. Backed(r, v)
  BY <1>1, <1>2 DEF Backed
<1> QED BY <1>1, <1>3 DEF v

-----------------------------------------------------------------------------
(* Matched configurations.                                                 *)

\* One occupancy parameter of q is larger than r's and all else is the same.
OneKnobUp(r, q) ==
  \E p \in OccupancyKnob :
    /\ q.config[p] > r.config[p]
    /\ q.config = [r.config EXCEPT ![p] = q.config[p]]

\* A configuration whose only difference is in p is the other with p replaced.
LEMMA OneDifference ==
  ASSUME NEW s \in Studies, NEW r, NEW q, Derived(s, r.config), Derived(s, q.config),
         NEW p \in Param
  PROVE  Differ(r, q) = {p} <=> /\ q.config[p] # r.config[p]
                                /\ q.config = [r.config EXCEPT ![p] = q.config[p]]
<1> DEFINE c == r.config
           d == q.config
           D == DOMAIN s.base
<1>0. p \in D /\ Param \subseteq D
  BY StudiesAssumption
<1>1. c = [x \in D |-> c[x]] /\ d = [x \in D |-> d[x]] /\ \A x \in D \ Param : c[x] = d[x]
  BY DEF Derived
<1>2. Differ(r, q) = {x \in Param : c[x] # d[x]}
  BY DEF Differ
<1> HIDE DEF c, d, D
<1>3. [c EXCEPT ![p] = d[p]] = [x \in D |-> IF x = p THEN d[p] ELSE c[x]]
  BY <1>1
<1>4. ASSUME Differ(r, q) = {p}
      PROVE  d[p] # c[p] /\ d = [c EXCEPT ![p] = d[p]]
  <2>1. d[p] # c[p] /\ \A x \in Param \ {p} : c[x] = d[x]
    BY <1>2, <1>4
  <2>2. \A x \in D : d[x] = IF x = p THEN d[p] ELSE c[x]
    BY <1>1, <2>1
  <2>3. [x \in D |-> d[x]] = [x \in D |-> IF x = p THEN d[p] ELSE c[x]]
    BY <2>2
  <2> QED BY <1>1, <1>3, <2>1, <2>3
<1>5. ASSUME d[p] # c[p], d = [c EXCEPT ![p] = d[p]]
      PROVE  Differ(r, q) = {p}
  <2>1. \A x \in D \ {p} : d[x] = c[x]
    BY <1>1, <1>3, <1>5
  <2> QED BY <1>0, <1>2, <1>5, <2>1
<1>6. Differ(r, q) = {p} <=> d[p] # c[p] /\ d = [c EXCEPT ![p] = d[p]]
  BY <1>4, <1>5
<1> QED BY <1>6 DEF c, d

\* The second pass compares ratios of occupancy and looks for a single
\* difference; since all results have the limit on blocks of the base, and fewer
\* resources never hold more blocks, it finds the upgrades.
LEMMA MatchedIsUpgrade ==
  ASSUME NEW s \in Studies, NEW r, NEW q, ResultOK(s, r), ResultOK(s, q)
  PROVE  (/\ Cardinality(Differ(r, q)) = 1
          /\ Differ(r, q) \cap OccupancyKnob # {}
          /\ MoreOccupied(q, r))
         <=> OneKnobUp(r, q) /\ q.occupancy > r.occupancy
<1>0. /\ OccupancyKnob \subseteq Param /\ OccupancyKnob \subseteq Resource
      /\ "sched" \notin OccupancyKnob
  BY ParamsAre DEF OccupancyKnob, Resource
<1>1. Derived(s, r.config) /\ Derived(s, q.config)
  BY DEF ResultOK
<1> DEFINE B == s.base["blocks"]
<1>2. /\ r.occupancy \in Nat /\ q.occupancy \in Nat /\ B \in Nat
      /\ q.occupancy <= B /\ r.maxBlocks = B /\ q.maxBlocks = B
  BY DEF ResultOK
<1>3. MoreOccupied(q, r) <=> q.occupancy * B > r.occupancy * B
  BY <1>2 DEF MoreOccupied
<1> HIDE DEF B
<1>4. q.occupancy * B > r.occupancy * B <=> q.occupancy > r.occupancy
  <2>1. ASSUME q.occupancy > r.occupancy PROVE q.occupancy * B > r.occupancy * B
    <3>1. B >= 1 /\ q.occupancy - r.occupancy >= 1
      BY <1>2, <2>1
    <3>2. q.occupancy * B = r.occupancy * B + (q.occupancy - r.occupancy) * B
      BY <1>2
    <3>3. (q.occupancy - r.occupancy) * B >= 1
      <4>1. \A x \in Nat : x >= 1 => x * B >= 1
        BY <1>2, <3>1
      <4> QED BY <1>2, <3>1, <4>1
    <3>4. \A x, y \in Int : y >= 1 => x + y > x
      OBVIOUS
    <3>5. r.occupancy * B \in Int /\ (q.occupancy - r.occupancy) * B \in Int
      BY <1>2
    <3> QED BY <3>2, <3>3, <3>4, <3>5
  <2>2. ASSUME ~(q.occupancy > r.occupancy) PROVE ~(q.occupancy * B > r.occupancy * B)
    <3>1. q.occupancy * B <= r.occupancy * B
      BY <1>2, <2>2, TimesMonotone
    <3>2. q.occupancy * B \in Nat /\ r.occupancy * B \in Nat
      BY <1>2
    <3> QED BY <3>1, <3>2
  <2> QED BY <2>1, <2>2
<1>5. IsFiniteSet(Differ(r, q))
  <2>1. IsFiniteSet({"sched", "l1", "registers"} \cup {"shmem"} \cup {"warps"})
    BY FewAreFinite, FS_AddElement
  <2>2. Differ(r, q) \subseteq {"sched", "l1", "registers"} \cup {"shmem"} \cup {"warps"}
    BY ParamsAre DEF Differ
  <2> QED BY <2>1, <2>2, FS_Subset
<1>6. Cardinality(Differ(r, q)) = 1 <=> \E x : Differ(r, q) = {x}
  BY <1>5, FS_Singleton
<1>7. ASSUME NEW p \in OccupancyKnob, Differ(r, q) = {p}, q.occupancy > r.occupancy
      PROVE  q.config[p] > r.config[p]
  <2>1. q.config[p] \in Nat /\ r.config[p] \in Nat /\ p \in Param
    BY <1>0, <1>1 DEF Derived
  <2>2. SUFFICES ASSUME q.config[p] <= r.config[p] PROVE FALSE
    BY <2>1
  <2>3. \A x \in Resource : Limits(q.config)[x] <= Limits(r.config)[x]
    <3>1. SUFFICES ASSUME NEW x \in Resource PROVE q.config[x] <= r.config[x]
      BY <1>1, LimitsOfDerived
    <3>2. q.config[x] \in Nat /\ r.config[x] \in Nat
      BY <1>1 DEF Derived
    <3>3. x # p => q.config[x] = r.config[x]
      <4>1. x # p /\ x \in Param => q.config[x] = r.config[x]
        BY <1>7 DEF Differ
      <4>2. x \notin Param => q.config[x] = r.config[x]
        BY <1>1, StudiesAssumption DEF Derived
      <4> QED BY <4>1, <4>2
    <3>4. CASE x = p
      BY <2>2, <3>4
    <3>5. CASE x # p
      BY <3>2, <3>3, <3>5
    <3> QED BY <3>4, <3>5
  <2>4. s.need \in Needs
    BY <1>1, LimitsOfDerived
  <2>5. q.occupancy <= r.occupancy
    BY <2>3, <2>4, ResidentMonotone DEF ResultOK
  <2> QED BY <1>2, <1>7, <2>5
<1>8. ASSUME Cardinality(Differ(r, q)) = 1, Differ(r, q) \cap OccupancyKnob # {},
             q.occupancy > r.occupancy
      PROVE  OneKnobUp(r, q)
  <2>1. PICK p \in OccupancyKnob : Differ(r, q) = {p}
    BY <1>6, <1>8
  <2>2. q.config = [r.config EXCEPT ![p] = q.config[p]]
    BY <1>0, <1>1, <2>1, OneDifference
  <2>3. q.config[p] > r.config[p]
    BY <1>7, <1>8, <2>1
  <2> QED BY <2>2, <2>3 DEF OneKnobUp
<1>9. ASSUME OneKnobUp(r, q)
      PROVE  Cardinality(Differ(r, q)) = 1 /\ Differ(r, q) \cap OccupancyKnob # {}
  <2>1. PICK p \in OccupancyKnob : /\ q.config[p] > r.config[p]
                                   /\ q.config = [r.config EXCEPT ![p] = q.config[p]]
    BY <1>9 DEF OneKnobUp
  <2>2. q.config[p] # r.config[p]
    <3>1. q.config[p] \in Nat /\ r.config[p] \in Nat
      BY <1>0, <1>1 DEF Derived
    <3> QED BY <2>1, <3>1
  <2>3. Differ(r, q) = {p}
    BY <1>0, <1>1, <2>1, <2>2, OneDifference
  <2> QED BY <1>6, <2>3
<1> QED BY <1>3, <1>4, <1>8, <1>9

\* found_occupancy_sweep_evidence holds of a result exactly if the sweep has an
\* upgrade of it.
LEMMA EvidenceIsUpgrade ==
  ASSUME TypeOK, NEW i \in 1..Len(results)
  PROVE  OccupancyEvidence(results, i) <=> Upgrades(i) # {}
<1>0. DOMAIN results = 1..Len(results)
  BY DEF TypeOK
<1>1. \A j \in 1..Len(results) : results[j] \in ResultSet(study)
  BY DEF TypeOK
<1>2. \A j \in 1..Len(results) : ResultOK(study, results[j])
  BY <1>1, ResultsOK DEF TypeOK
<1> DEFINE Matched(j) == /\ Cardinality(Differ(results[i], results[j])) = 1
                         /\ Differ(results[i], results[j]) \cap OccupancyKnob # {}
                         /\ MoreOccupied(results[j], results[i])
           Better(j) == /\ OneKnobUp(results[i], results[j])
                        /\ results[j].occupancy > results[i].occupancy
           Quicker(j) == results[j].cycles < results[i].cycles
<1>3. \A j \in 1..Len(results) : Matched(j) <=> Better(j)
  BY <1>2, MatchedIsUpgrade DEF TypeOK
<1>4. OccupancyEvidence(results, i) <=> \E j \in 1..Len(results) \ {i} : Matched(j) /\ Quicker(j)
  BY <1>0 DEF OccupancyEvidence
<1>5. Upgrades(i) = {j \in 1..Len(results) : Better(j) /\ Quicker(j)}
  BY <1>0 DEF Upgrades, OneKnobUp
<1>6. ~Quicker(i)
  BY <1>2 DEF ResultOK
<1> HIDE DEF Matched, Better, Quicker
<1> QED BY <1>3, <1>4, <1>5, <1>6

-----------------------------------------------------------------------------
(* The invariant holds in every state.                                     *)

\* In the beginning there is nothing.
LEMMA InitIInv == Init => IInv
<1> SUFFICES ASSUME Init PROVE IInv
  OBVIOUS
<1>1. TypeOK
  BY DEF Init, TypeOK, NothingAllocated
<1>2. Progress
  BY DEF Init, Progress
<1>3. Counted
  <2>1. study.need \in [Resource -> Nat]
    BY StudiesAssumption DEF Init
  <2>2. \A f \in Resource : alloc[f] = 0 /\ study.need[f] \in Nat
    BY <2>1 DEF Init, NothingAllocated
  <2>3. alloc["blocks"] = 0
    BY <2>2 DEF Resource
  <2> QED BY <2>2, <2>3 DEF Counted
<1>4. Grounded
  BY DEF Init, Grounded
<1> QED BY <1>1, <1>2, <1>3, <1>4 DEF IInv

\* generate_configurations.
LEMMA GenerateIInv == IInv /\ Generate => IInv'
<1> SUFFICES ASSUME IInv, Generate PROVE IInv'
  OBVIOUS
<1>0. analysis = <<>> /\ results = <<>> /\ phase' = "launch" /\ configs' = Swept(study)
  BY DEF IInv, Progress, Generate, Swept
<1>1. TypeOK'
  BY DEF IInv, TypeOK, Generate
<1>2. Progress'
  <2>1. Len(Swept(study)) \in Nat \ {0}
    BY SweptDerived DEF IInv, TypeOK, DerivedList
  <2>2. Len(results') = 0 /\ results' = <<>> /\ analysis' = <<>> /\ study' = study
    BY <1>0 DEF Generate
  <2> QED BY <1>0, <2>1, <2>2 DEF Progress
<1>3. Counted'
  BY DEF IInv, Counted, Generate
<1>4. Grounded'
  BY <1>0 DEF Grounded, Generate
<1> QED BY <1>1, <1>2, <1>3, <1>4 DEF IInv

\* SM::allocate_block.
LEMMA AdmitIInv == IInv /\ Admit => IInv'
<1> SUFFICES ASSUME IInv, Admit PROVE IInv'
  OBVIOUS
<1>0. study.need \in [Resource -> Nat] /\ study.need["blocks"] = 1 /\ alloc \in [Resource -> Nat]
  BY StudiesAssumption DEF IInv, TypeOK
<1>1. alloc' = [f \in Resource |-> alloc[f] + study.need[f]]
  BY DEF Admit, Plus
<1>2. TypeOK'
  <2>1. alloc' \in [Resource -> Nat]
    BY <1>0, <1>1
  <2> QED BY <2>1 DEF IInv, TypeOK, Admit
<1>3. Progress'
  BY DEF IInv, Progress, Admit
<1>4. Counted'
  <2>1. \A f \in Resource : alloc[f] = alloc["blocks"] * study.need[f]
    BY DEF IInv, Counted
  <2>2. alloc'["blocks"] = alloc["blocks"] + 1 /\ alloc["blocks"] \in Nat
    BY <1>0, <1>1 DEF Resource
  <2>3. \A a, n \in Nat : a * n + n = (a + 1) * n
    OBVIOUS
  <2>4. \A f \in Resource : alloc'[f] = alloc'["blocks"] * study.need[f]
    BY <1>0, <1>1, <2>1, <2>2, <2>3
  <2> QED BY <2>4 DEF Counted, Admit
<1>5. Grounded'
  BY DEF IInv, Grounded, Judged, Admit
<1> QED BY <1>2, <1>3, <1>4, <1>5 DEF IInv

\* The launch ends, well or with the exception.
LEMMA LaunchedIInv == IInv /\ (Launched \/ LaunchThrow) => IInv'
<1> SUFFICES ASSUME IInv, Launched \/ LaunchThrow PROVE IInv'
  OBVIOUS
<1>0. analysis = <<>> /\ analysis' = <<>> /\ phase = "launch" /\ phase' \in {"run", "thrown"}
  BY DEF IInv, Progress, Launched, LaunchThrow
<1>1. TypeOK'
  <2>1. results' = results \/ results' = <<>>
    BY DEF Launched, LaunchThrow
  <2>2. study' = study /\ alloc' = alloc
    BY DEF Launched, LaunchThrow
  <2>3. results' \in Seq(ResultSet(study'))
    <3>1. <<>> \in Seq(ResultSet(study))
      OBVIOUS
    <3> QED BY <2>1, <2>2, <3>1 DEF IInv, TypeOK
  <2> QED BY <1>0, <2>2, <2>3 DEF IInv, TypeOK
<1>2. Progress'
  BY <1>0 DEF IInv, Progress, Launched, LaunchThrow
<1>3. Counted'
  BY DEF IInv, Counted, Launched, LaunchThrow
<1>4. Grounded'
  BY <1>0 DEF Grounded
<1> QED BY <1>1, <1>2, <1>3, <1>4 DEF IInv

\* execute_configuration's result joins those of the sweep.
LEMMA ExecuteIInv == IInv /\ Execute => IInv'
<1> SUFFICES ASSUME IInv, Execute PROVE IInv'
  OBVIOUS
<1>1. PICK o \in Outcomes[study.range] : results' = Append(results, SimulationResult(o))
  BY DEF Execute
<1>2. /\ phase = "run" /\ analysis = <<>> /\ analysis' = <<>> /\ configs = Swept(study)
      /\ study' = study /\ configs' = configs
  BY DEF IInv, Progress, Execute
<1>3. /\ results \in Seq(ResultSet(study)) /\ Len(results) \in Nat
      /\ Len(results) < Len(configs) /\ Len(configs) \in Nat
  <2>1. Len(configs) \in Nat
    BY <1>2, SweptDerived DEF IInv, TypeOK, DerivedList
  <2> QED BY <1>2, <2>1 DEF IInv, TypeOK, Progress
<1>4. SimulationResult(o) \in ResultSet(study)
  <2>1. Len(results) + 1 \in 1..Len(Swept(study))
    BY <1>2, <1>3
  <2>2. SimulationResult(o) = ResultOf(study, Len(results) + 1, o)
    BY <1>2 DEF SimulationResult, ResultOf, Current
  <2> QED BY <2>1, <2>2 DEF ResultSet
<1>5. results' \in Seq(ResultSet(study)) /\ Len(results') = Len(results) + 1
  BY <1>1, <1>3, <1>4
<1>6. TypeOK'
  <2>1. phase' \in {"diagnose", "launch"} /\ alloc' \in [Resource -> Nat]
    BY DEF Execute, NothingAllocated
  <2>2. study' \in Studies /\ analysis' \in Seq(AnalysisSet) /\ results' \in Seq(ResultSet(study'))
    BY <1>2, <1>5 DEF IInv, TypeOK
  <2> QED BY <2>1, <2>2 DEF TypeOK
<1>7. Progress'
  <2>1. Len(analysis') = 0
    BY <1>2
  <2>2. CASE Len(results') = Len(configs)
    <3>1. phase' = "diagnose" /\ Len(results') > 0
      BY <1>3, <1>5, <2>2 DEF Execute
    <3> QED BY <1>2, <2>1, <3>1 DEF Progress
  <2>3. CASE Len(results') # Len(configs)
    <3>1. phase' = "launch" /\ Len(results') < Len(configs)
      BY <1>3, <1>5, <2>3 DEF Execute
    <3> QED BY <1>2, <3>1 DEF Progress
  <2> QED BY <2>2, <2>3
<1>8. Counted'
  <2>1. study.need \in [Resource -> Nat] /\ "blocks" \in Resource
    BY StudiesAssumption DEF IInv, TypeOK, Resource
  <2>2. \A f \in Resource : alloc'[f] = 0
    BY DEF Execute, NothingAllocated
  <2>3. \A f \in Resource : 0 = 0 * study.need[f]
    BY <2>1
  <2> QED BY <1>2, <2>1, <2>2, <2>3 DEF Counted
<1>9. Grounded'
  BY <1>2 DEF Grounded
<1> QED BY <1>6, <1>7, <1>8, <1>9 DEF IInv

\* The first pass takes one result.
LEMMA DiagnoseIInv == IInv /\ Diagnose => IInv'
<1> SUFFICES ASSUME IInv, Diagnose PROVE IInv'
  OBVIOUS
<1> DEFINE n == Len(analysis)
           r == results[n + 1]
<1>1. PICK c \in Foremost(r) : analysis' = Append(analysis, Diagnosis(r, c))
  BY DEF Diagnose
<1>2. /\ phase = "diagnose" /\ phase' \in {"diagnose", "validate"}
      /\ study' = study /\ configs' = configs /\ alloc' = alloc /\ results' = results
      /\ phase' = IF Len(analysis') = Len(results) THEN "validate" ELSE "diagnose"
  BY DEF Diagnose
<1>3. /\ analysis \in Seq(AnalysisSet) /\ n \in Nat /\ Len(results) \in Nat /\ n < Len(results)
      /\ results \in Seq(ResultSet(study)) /\ study \in Studies
  BY <1>2 DEF IInv, TypeOK, Progress
<1>4. Diagnosis(r, c) \in AnalysisSet
  <2>1. r \in ResultSet(study)
    BY <1>3
  <2> HIDE DEF r
  <2>2. ResultOK(study, r)
    BY <1>3, <2>1, ResultsOK
  <2> QED BY <1>3, <2>2, DiagnosisBacked DEF Backed
<1>5. /\ analysis' \in Seq(AnalysisSet) /\ Len(analysis') = n + 1
      /\ analysis'[n + 1] = Diagnosis(r, c) /\ \A i \in 1..n : analysis'[i] = analysis[i]
  BY <1>1, <1>3, <1>4
<1>6. TypeOK'
  BY <1>2, <1>3, <1>5 DEF IInv, TypeOK
<1>7. Progress'
  <2>1. configs = Swept(study)
    BY <1>2 DEF IInv, Progress
  <2>2. CASE Len(analysis') = Len(results)
    BY <1>2, <2>1, <2>2 DEF Progress
  <2>3. CASE Len(analysis') # Len(results)
    <3>1. phase' = "diagnose" /\ Len(analysis') < Len(results)
      BY <1>2, <1>3, <1>5, <2>3
    <3> QED BY <1>2, <2>1, <3>1 DEF Progress
  <2> QED BY <2>2, <2>3
<1>8. Counted'
  BY <1>2 DEF IInv, Counted
<1>9. Grounded'
  <2>1. SUFFICES ASSUME NEW i \in 1..Len(analysis')
                 PROVE  \E d \in Foremost(results[i]) : analysis'[i] = Diagnosis(results[i], d)
    BY <1>2 DEF Grounded, Judged
  <2>2. CASE i = n + 1
    BY <1>5, <2>2
  <2>3. CASE i # n + 1
    <3>1. i \in 1..n
      BY <1>3, <1>5, <2>1, <2>3
    <3>2. \E d \in Foremost(results[i]) : analysis[i] = Diagnosis(results[i], d)
      BY <1>2, <3>1 DEF IInv, Grounded, Judged
    <3> QED BY <1>5, <3>1, <3>2
  <2> QED BY <2>2, <2>3
<1> QED BY <1>6, <1>7, <1>8, <1>9 DEF IInv

\* What the invariant says of an analysis, before and after validation.
LEMMA AnalysesBacked ==
  ASSUME IInv, NEW i \in 1..Len(analysis)
  PROVE  Backed(results[i], analysis[i])
<1>0. Len(analysis) <= Len(results)
  BY DEF IInv, TypeOK, Progress
<1>1. i \in 1..Len(results) /\ results[i] \in ResultSet(study) /\ study \in Studies
  <2>1. Len(analysis) \in Nat /\ Len(results) \in Nat
    BY DEF IInv, TypeOK
  <2>2. i \in 1..Len(results)
    BY <1>0, <2>1
  <2> QED BY <2>2 DEF IInv, TypeOK
<1>2. ResultOK(study, results[i])
  BY <1>1, ResultsOK
<1>3. PICK c \in Foremost(results[i]) : Judged(i, c)
  BY DEF IInv, Grounded
<1>4. Backed(results[i], Diagnosis(results[i], c))
  BY <1>1, <1>2, DiagnosisBacked
<1>5. Backed(results[i], Validated(results, i, Diagnosis(results[i], c)))
  BY <1>4, ValidationKeeps
<1> QED BY <1>3, <1>4, <1>5 DEF Judged

\* The second pass.
LEMMA ValidateIInv == IInv /\ Validate => IInv'
<1> SUFFICES ASSUME IInv, Validate PROVE IInv'
  OBVIOUS
<1> DEFINE n == Len(analysis)
<1>1. /\ phase = "validate" /\ phase' = "report"
      /\ study' = study /\ configs' = configs /\ alloc' = alloc /\ results' = results
      /\ analysis' = [i \in DOMAIN analysis |-> Validated(results, i, analysis[i])]
  BY DEF Validate
<1>2. DOMAIN analysis = 1..n /\ n \in Nat /\ n = Len(results)
  BY <1>1 DEF IInv, TypeOK, Progress
<1>3. \A i \in 1..n : Validated(results, i, analysis[i]) \in AnalysisSet
  BY AnalysesBacked, ValidationKeeps DEF Backed
<1>4. /\ analysis' \in Seq(AnalysisSet) /\ Len(analysis') = n
      /\ \A i \in 1..n : analysis'[i] = Validated(results, i, analysis[i])
  <2>1. analysis' = [i \in 1..n |-> Validated(results, i, analysis[i])]
    BY <1>1, <1>2
  <2> HIDE DEF n
  <2> QED BY <1>2, <1>3, <2>1
<1>5. TypeOK'
  BY <1>1, <1>4 DEF IInv, TypeOK
<1>6. Progress'
  <2>1. configs = Swept(study)
    BY <1>1 DEF IInv, Progress
  <2> QED BY <1>1, <1>2, <1>4, <2>1 DEF Progress
<1>7. Counted'
  BY <1>1 DEF IInv, Counted
<1>8. Grounded'
  <2>1. \A i \in 1..n : \E c \in Foremost(results[i]) : analysis[i] = Diagnosis(results[i], c)
    BY <1>1 DEF IInv, Grounded, Judged
  <2> QED BY <1>1, <1>4, <2>1 DEF Grounded, Judged
<1> QED BY <1>5, <1>6, <1>7, <1>8 DEF IInv

\* The report changes nothing the invariant speaks of.
LEMMA ReportIInv == IInv /\ (Report \/ Ended \/ UNCHANGED vars) => IInv'
<1> SUFFICES ASSUME IInv, Report \/ Ended \/ UNCHANGED vars PROVE IInv'
  OBVIOUS
<1>1. /\ study' = study /\ configs' = configs /\ alloc' = alloc /\ results' = results
      /\ analysis' = analysis
      /\ phase' = phase \/ (phase = "report" /\ phase' = "done")
  BY DEF Report, Ended, vars
<1>2. TypeOK'
  BY <1>1 DEF IInv, TypeOK
<1>3. Progress'
  BY <1>1 DEF IInv, Progress
<1>4. Counted'
  BY <1>1 DEF IInv, Counted
<1>5. Grounded'
  BY <1>1 DEF IInv, Grounded, Judged
<1> QED BY <1>2, <1>3, <1>4, <1>5 DEF IInv

\* IInv is an invariant of the analysis.
THEOREM Invariance == Spec => []IInv
<1>1. IInv /\ [Next]_vars => IInv'
  BY GenerateIInv, AdmitIInv, LaunchedIInv, ExecuteIInv, DiagnoseIInv, ValidateIInv, ReportIInv
     DEF Next
<1> QED BY <1>1, InitIInv, PTL DEF Spec

-----------------------------------------------------------------------------
(* The properties.                                                         *)

\* The configuration that is being launched or run is one of the sweep.
LEMMA CurrentIsDerived ==
  ASSUME IInv, phase \in {"launch", "run"}
  PROVE  Derived(study, Current)
<1>1. DerivedList(study, configs) /\ study \in Studies
  BY SweptDerived DEF IInv, TypeOK, Progress
<1>2. Len(results) \in Nat /\ Len(results) < Len(configs) /\ Len(configs) \in Nat
  BY <1>1 DEF IInv, TypeOK, Progress, DerivedList
<1>3. Len(results) + 1 \in 1..Len(configs)
  BY <1>2
<1> QED BY <1>1, <1>3 DEF Current, DerivedList

\* OccupancyCalculator and SM::can_admit agree, for all limits and for all needs of a
\* block, if every block is full-size as the calculator assumes.
THEOREM PredictionAlwaysHolds == Spec => []AdmitsAsPredicted
<1>1. IInv => AdmitsAsPredicted
  <2> SUFFICES ASSUME IInv, phase \in {"launch", "run"}
               PROVE  LET resident == ResidentBlocks(Limits(Current), study.need)
                      IN  /\ Fits(alloc, study.need, Limits(Current)) <=> alloc["blocks"] < resident
                          /\ alloc["blocks"] = resident =>
                               alloc["warps"] = ResidentWarps(Limits(Current), study.need)
    BY DEF AdmitsAsPredicted
  <2>1. Limits(Current) \in Limits5 /\ study.need \in Needs
    BY CurrentIsDerived, LimitsOfDerived DEF IInv, TypeOK
  <2>2. alloc["blocks"] \in Nat /\ \A f \in Resource : alloc[f] = alloc["blocks"] * study.need[f]
    BY DEF IInv, TypeOK, Counted, Resource
  <2>3. alloc["warps"] = alloc["blocks"] * study.need["warps"]
    BY <2>2 DEF Resource
  <2>4. Fits(alloc, study.need, Limits(Current))
          <=> alloc["blocks"] < ResidentBlocks(Limits(Current), study.need)
    BY <2>1, <2>2, AdmitsIfPredicted
  <2> QED BY <2>3, <2>4 DEF ResidentWarps
<1> QED BY <1>1, Invariance, PTL

\* compute names as limiting factor a resource of which a full SM has too little
\* for one more block.
THEOREM LimitingFactorAlwaysLimits == Spec => []LimitingFactorLimits
<1>1. IInv => LimitingFactorLimits
  <2> SUFFICES ASSUME IInv, phase = "run", ~Fits(alloc, study.need, Limits(Current))
               PROVE  LET f == LimitingFactor(Limits(Current), study.need)
                      IN  alloc[f] + study.need[f] > Current[f]
    BY DEF LimitingFactorLimits
  <2> DEFINE l == Limits(Current)
             k == alloc["blocks"]
             f == LimitingFactor(l, study.need)
  <2>1. /\ l \in Limits5 /\ study.need \in Needs
        /\ \A x \in Resource : l[x] = Current[x]
    BY CurrentIsDerived, LimitsOfDerived DEF IInv, TypeOK
  <2>2. k \in Nat /\ \A x \in Resource : alloc[x] = k * study.need[x]
    BY DEF IInv, TypeOK, Counted, Resource
  <2> HIDE DEF l, k
  <2>3. k >= ResidentBlocks(l, study.need)
    <3>1. ~(k < ResidentBlocks(l, study.need))
      BY <2>1, <2>2, AdmitsIfPredicted DEF l
    <3>2. ResidentBlocks(l, study.need) \in Nat
      BY <2>1, ResidentIsLeast
    <3> QED BY <2>2, <3>1, <3>2
  <2>4. f \in Resource /\ (k + 1) * study.need[f] > l[f]
    BY <2>1, <2>2, <2>3, LimitingFactorRefuses
  <2> HIDE DEF f
  <2>5. study.need[f] \in Nat
    BY <2>1, <2>4 DEF Needs
  <2>6. alloc[f] + study.need[f] = (k + 1) * study.need[f]
    <3>1. \A a, n \in Nat : a * n + n = (a + 1) * n
      OBVIOUS
    <3> QED BY <2>2, <2>4, <2>5, <3>1
  <2> QED BY <2>1, <2>4, <2>6 DEF f, l
<1> QED BY <1>1, Invariance, PTL

\* Every bottleneck the analyzer names has evidence, and every candidate that
\* scores a point is named.
THEOREM DiagnosesAlwaysBacked == Spec => []EvidenceBacksDiagnosis
<1>1. IInv => EvidenceBacksDiagnosis
  <2> SUFFICES ASSUME IInv PROVE EvidenceBacksDiagnosis
    OBVIOUS
  <2>1. DOMAIN analysis = 1..Len(analysis)
    BY DEF IInv, TypeOK
  <2>2. \A i \in DOMAIN analysis : Backed(results[i], analysis[i])
    BY <2>1, AnalysesBacked
  <2> QED BY <2>2 DEF EvidenceBacksDiagnosis, Backed, Named
<1> QED BY <1>1, Invariance, PTL

\* What the validation of an occupancy diagnosis comes to.
LEMMA EarnedClaim == IInv => OccupancyClaimEarned
<1> SUFFICES ASSUME IInv, phase \in {"report", "done"}, NEW i \in DOMAIN analysis,
                    analysis[i].primary = "Occupancy"
             PROVE  analysis[i].confidence = IF Upgrades(i) # {} THEN "High" ELSE "Low"
  BY DEF OccupancyClaimEarned
<1>1. /\ i \in 1..Len(analysis) /\ i \in 1..Len(results) /\ study \in Studies
      /\ results[i] \in ResultSet(study)
  BY DEF IInv, TypeOK, Progress
<1>2. PICK c \in Foremost(results[i]) :
             analysis[i] = Validated(results, i, Diagnosis(results[i], c))
  BY <1>1 DEF IInv, Grounded, Judged
<1> DEFINE a == Diagnosis(results[i], c)
<1>3. ResultOK(study, results[i])
  BY <1>1, ResultsOK
<1>4. /\ Backed(results[i], a)
      /\ a.primary = "Occupancy" => a.confidence \in {"Low", "Medium"}
  BY <1>1, <1>3, DiagnosisBacked
<1> HIDE DEF a
<1>5. a.primary = "Occupancy" /\ a.confidence \in {"Low", "Medium"} /\ a \in AnalysisSet
  BY <1>2, <1>4, ValidationKeeps DEF a, Backed
<1>6. CASE OccupancyEvidence(results, i)
  <2>1. analysis[i] = [a EXCEPT !.confidence = "High", !.factors = @ \cup {<<"Sweep", "validated">>}]
    BY <1>2, <1>5, <1>6 DEF Validated, a
  <2>2. analysis[i].confidence = "High"
    BY <1>5, <2>1 DEF AnalysisSet
  <2>3. Upgrades(i) # {}
    BY <1>1, <1>6, EvidenceIsUpgrade DEF IInv
  <2> QED BY <2>2, <2>3
<1>7. CASE ~OccupancyEvidence(results, i)
  <2>1. ASSUME a.confidence = "Medium" PROVE analysis[i].confidence = "Low"
    <3>1. analysis[i] = [a EXCEPT !.confidence = "Low", !.factors = @ \cup {<<"Sweep", "none found">>}]
      BY <1>2, <1>5, <1>7, <2>1 DEF Validated, a
    <3> QED BY <1>5, <3>1 DEF AnalysisSet
  <2>2. ASSUME a.confidence = "Low" PROVE analysis[i].confidence = "Low"
    <3>1. analysis[i] = a
      BY <1>2, <1>5, <1>7, <2>2 DEF Validated, a
    <3> QED BY <2>2, <3>1
  <2>3. analysis[i].confidence = "Low"
    BY <1>5, <2>1, <2>2
  <2>4. Upgrades(i) = {}
    BY <1>1, <1>7, EvidenceIsUpgrade DEF IInv
  <2> QED BY <2>3, <2>4
<1> QED BY <1>6, <1>7

\* After validation an occupancy diagnosis has high confidence exactly if the
\* sweep holds an upgrade of the configuration, and low confidence otherwise.
THEOREM OccupancyClaimsAreEarned == Spec => []OccupancyClaimEarned
BY EarnedClaim, Invariance, PTL

-----------------------------------------------------------------------------
(* The best configuration.                                                 *)

\* Of two results the faster has fewer cycles: the baseline's cancel.
LEMMA FasterIsShorter ==
  ASSUME NEW a \in Nat \ {0}, NEW x \in Nat, NEW y \in Nat
  PROVE  a * y > a * x <=> x < y
<1>1. ASSUME x < y PROVE a * y > a * x
  <2>1. a * y = a * x + a * (y - x)
    OBVIOUS
  <2>2. a * (y - x) > 0
    BY <1>1
  <2>3. a * x \in Nat /\ a * (y - x) \in Int
    OBVIOUS
  <2> QED BY <2>1, <2>2, <2>3
<1>2. ASSUME y <= x PROVE ~(a * y > a * x)
  <2>1. y * a <= x * a
    BY <1>2, TimesMonotone
  <2>2. y * a = a * y /\ x * a = a * x /\ a * x \in Nat /\ a * y \in Nat
    OBVIOUS
  <2> QED BY <2>1, <2>2
<1> QED BY <1>1, <1>2

\* What the invariant says of the results' cycles.
LEMMA CyclesCount ==
  ASSUME IInv, NEW i \in 1..Len(results)
  PROVE  results[i].cycles \in Nat \ {0}
<1>1. results[i] \in ResultSet(study) /\ study \in Studies
  BY DEF IInv, TypeOK
<1> QED BY <1>1, ResultsOK DEF ResultOK

\* Faster compares the cycles.
LEMMA FasterCompares ==
  ASSUME IInv, NEW i \in 1..Len(results), NEW j \in 1..Len(results)
  PROVE  Faster(i, j) <=> results[i].cycles < results[j].cycles
<1>0. Len(results) \in Nat /\ study \in Studies
  BY DEF IInv, TypeOK
<1>1. study.baseline \in Nat
  BY <1>0, StudiesAssumption
<1>2. Baseline \in 1..Len(results)
  BY <1>0, <1>1 DEF Baseline
<1>3. /\ results[Baseline].cycles \in Nat \ {0} /\ results[i].cycles \in Nat
      /\ results[j].cycles \in Nat
  BY <1>2, CyclesCount
<1> QED BY <1>3, FasterIsShorter DEF Faster

\* The scan takes the first of the results and goes on to each faster one.
Scans(F, m) ==
  /\ F[0] = 1
  /\ \A k \in 1..m : F[k] = IF Faster(k, F[k-1]) THEN k ELSE F[k-1]

LEMMA BestScans ==
  ASSUME IInv
  PROVE  \E F : Scans(F, Len(results)) /\ Best = F[Len(results)]
<1> DEFINE m == Len(results)
           body(s) == [i \in 0..m |-> IF i = 0 THEN 1
                                      ELSE IF Faster(i, s[i-1]) THEN i ELSE s[i-1]]
           d == [p \in (1..m) \X Nat |-> IF Faster(p[1], p[2]) THEN p[1] ELSE p[2]]
           A == CHOOSE s : s = body(s)
<1>1. Best = A[m]
  BY DEF Best
<1>2. m \in Nat
  BY DEF IInv, TypeOK
<1>3. d \in [(1..m) \X Nat -> Nat]
  BY <1>2
<1>4. PICK F : Iterates(F, 1, d, m, Nat)
  <2> HIDE DEF d, m
  <2>1. 1 \in Nat
    OBVIOUS
  <2> QED BY <1>2, <1>3, <2>1, Iteration
<1> HIDE DEF m
<1>5. F = body(F)
  <2>1. /\ F \in [0..m -> Nat] /\ F[0] = 1
        /\ \A n \in 1..m : F[n] = d[<<n, F[n-1]>>]
    <3> HIDE DEF d
    <3> QED BY <1>4 DEF Iterates
  <2>2. ASSUME NEW n \in 1..m PROVE F[n] = IF Faster(n, F[n-1]) THEN n ELSE F[n-1]
    <3>1. n - 1 \in 0..m
      BY <1>2
    <3>2. F[n-1] \in Nat
      BY <2>1, <3>1
    <3> QED BY <2>1, <3>2
  <2>3. \A n \in 0..m : F[n] = IF n = 0 THEN 1 ELSE IF Faster(n, F[n-1]) THEN n ELSE F[n-1]
    BY <1>2, <2>1, <2>2
  <2> QED BY <2>1, <2>3
<1>6. A = body(A)
  BY <1>5
<1> HIDE DEF A
<1>7. Scans(A, m)
  BY <1>2, <1>6 DEF Scans
<1> QED BY <1>1, <1>7 DEF m

\* The scan ends at a result that no other beats.
LEMMA BestIsShortest ==
  ASSUME IInv, Len(results) >= 1
  PROVE  /\ Best \in 1..Len(results)
         /\ \A i \in 1..Len(results) : results[Best].cycles <= results[i].cycles
<1> DEFINE m == Len(results)
           f(i) == results[i].cycles
<1>1. PICK F : Scans(F, m) /\ Best = F[m]
  BY BestScans
<1>2. m \in Nat /\ m >= 1 /\ \A i \in 1..m : f(i) \in Nat
  BY CyclesCount DEF IInv, TypeOK
<1>3. \A i, j \in 1..m : Faster(i, j) <=> f(i) < f(j)
  BY FasterCompares
<1> DEFINE Ahead(k) == F[k] \in 1..m /\ \A i \in 1..k : f(F[k]) <= f(i)
           T == {k \in 0..m : ~Ahead(k)}
<1> HIDE DEF m, f
<1>4. T = {}
  <2>1. SUFFICES ASSUME T # {} PROVE FALSE
    OBVIOUS
  <2>2. PICK k \in T : \A j \in T : k <= j
    <3>1. T \in SUBSET Nat
      OBVIOUS
    <3> HIDE DEF T
    <3> QED BY <2>1, <3>1, LeastNumber
  <2>3. k # 0
    BY <1>1, <1>2, <2>2 DEF Scans
  <2>4. k \in 1..m /\ k - 1 \in 0..m /\ ~(k <= k - 1)
    BY <1>2, <2>2, <2>3
  <2>5. Ahead(k - 1)
    BY <2>2, <2>4
  <2>6. F[k] = IF f(k) < f(F[k-1]) THEN k ELSE F[k-1]
    BY <1>1, <1>3, <2>4, <2>5 DEF Scans
  <2>7. \A i \in 1..k : i = k \/ i \in 1..k-1
    BY <2>4
  <2>8. f(k) \in Nat /\ f(F[k-1]) \in Nat /\ \A i \in 1..k : f(i) \in Nat
    BY <1>2, <2>4, <2>5
  <2>9. F[k] \in 1..m /\ f(F[k]) <= f(k) /\ f(F[k]) <= f(F[k-1]) /\ f(F[k]) \in Nat
    BY <2>4, <2>5, <2>6, <2>8
  <2>10. ASSUME NEW i \in 1..k PROVE f(F[k]) <= f(i)
    <3>1. CASE i = k
      BY <2>9, <3>1
    <3>2. CASE i \in 1..k-1
      <4>1. f(F[k-1]) <= f(i)
        BY <2>5, <3>2
      <4> QED BY <2>8, <2>9, <4>1
    <3> QED BY <2>7, <3>1, <3>2
  <2> QED BY <2>2, <2>9, <2>10
<1>5. Ahead(m)
  BY <1>2, <1>4
<1> QED BY <1>1, <1>5 DEF m, f

\* The second pass and the report have results, and what is reported as best is.
ReportInv ==
  /\ phase \in {"validate", "report", "done"} => Len(results) >= 1
  /\ phase = "done" =>
       /\ report.best \in 1..Len(results)
       /\ \A i \in 1..Len(results) : results[report.best].cycles <= results[i].cycles

\* Every step keeps it.
LEMMA ReportStep == IInv /\ IInv' /\ ReportInv /\ [Next]_vars => ReportInv'
<1> SUFFICES ASSUME IInv, IInv', ReportInv, [Next]_vars PROVE ReportInv'
  OBVIOUS
<1>1. CASE Generate \/ Admit \/ Launched \/ LaunchThrow \/ Execute
  <2>1. phase' \notin {"validate", "report", "done"}
    BY <1>1 DEF Generate, Admit, Launched, LaunchThrow, Execute
  <2> QED BY <2>1 DEF ReportInv
<1>2. CASE Diagnose
  <2>1. phase' \in {"diagnose", "validate"} /\ results' = results
    BY <1>2 DEF Diagnose
  <2>2. phase = "diagnose" /\ Len(analysis) \in Nat /\ Len(results) \in Nat
        /\ Len(analysis) < Len(results)
    BY <1>2 DEF Diagnose, IInv, TypeOK, Progress
  <2> QED BY <2>1, <2>2 DEF ReportInv
<1>3. CASE Validate
  BY <1>3 DEF Validate, ReportInv
<1>4. CASE Report
  <2>1. /\ phase = "report" /\ phase' = "done" /\ results' = results
        /\ report'.best = Best
    BY <1>4 DEF Report
  <2>2. Len(results) >= 1
    BY <2>1 DEF ReportInv
  <2> QED BY <2>1, <2>2, BestIsShortest DEF ReportInv
<1>5. CASE Ended \/ UNCHANGED vars
  BY <1>5 DEF Ended, vars, ReportInv
<1> QED BY <1>1, <1>2, <1>3, <1>4, <1>5 DEF Next

\* The report presents as best a configuration no other beats, and so never one
\* whose lack of occupancy the sweep has shown to cost cycles.
THEOREM BestIsAlwaysFastest == Spec => []BestIsFastest
<1>1. Init => ReportInv
  BY DEF Init, ReportInv
<1>2. IInv /\ ReportInv => BestIsFastest
  <2> SUFFICES ASSUME IInv, ReportInv, phase = "done"
               PROVE  /\ \A i \in DOMAIN results : results[report.best].cycles <= results[i].cycles
                      /\ analysis[report.best].primary = "Occupancy"
                           => analysis[report.best].confidence = "Low"
    BY DEF BestIsFastest
  <2>1. /\ DOMAIN results = 1..Len(results) /\ DOMAIN analysis = 1..Len(results)
        /\ report.best \in 1..Len(results)
        /\ \A i \in 1..Len(results) : results[report.best].cycles <= results[i].cycles
    BY DEF IInv, TypeOK, Progress, ReportInv
  <2>2. \A i \in 1..Len(results) : results[i].cycles \in Nat
    BY CyclesCount
  <2>3. Upgrades(report.best) = {}
    BY <2>1, <2>2 DEF Upgrades
  <2> QED BY <2>1, <2>3, EarnedClaim DEF OccupancyClaimEarned
<1> QED BY <1>1, <1>2, ReportStep, Invariance, PTL DEF Spec

-----------------------------------------------------------------------------
(* The configurations as numerals.                                         *)

\* Dividing by n and then by w is dividing by w * n.
LEMMA QuotientTwice ==
  ASSUME NEW a \in Nat, NEW n \in Nat \ {0}, NEW w \in Nat \ {0}
  PROVE  (a \div n) \div w = a \div (w * n) /\ w * n \in Nat \ {0}
<1> DEFINE q == a \div n
           r == q \div w
<1>1. q \in Nat /\ q * n <= a /\ a < q * n + n
  BY QuotientIs
<1>2. r \in Nat /\ r * w <= q /\ q < r * w + w
  BY <1>1, QuotientIs
<1> HIDE DEF q, r
<1>3. w * n \in Nat \ {0} /\ r * w \in Nat /\ q * n \in Nat
  BY <1>1, <1>2
<1>4. (r * w) * n <= q * n
  BY <1>1, <1>2, <1>3, TimesMonotone
<1>5. (q + 1) * n <= (r * w + w) * n
  BY <1>1, <1>2, <1>3, TimesMonotone
<1>6. (r * w) * n = r * (w * n) /\ (r * w + w) * n = r * (w * n) + w * n /\ (q + 1) * n = q * n + n
  BY <1>1, <1>2
<1> DEFINE d == w * n
           u == r * d
<1>7. d \in Nat \ {0} /\ u \in Nat
  BY <1>2, <1>3
<1>8. u <= q * n /\ q * n + n <= u + d
  BY <1>4, <1>5, <1>6
<1>9. u <= a /\ a < u + d
  <2> HIDE DEF u, d
  <2> QED BY <1>1, <1>3, <1>7, <1>8
<1>10. r = a \div d
  <2> HIDE DEF d
  <2> QED BY <1>2, <1>7, <1>9, QuotientIs DEF u
<1> QED BY <1>3, <1>10 DEF q, r, d

\* The values parameter p ranges over in study s.
ValuesOf(s, p) == IF s.space[p] = <<>> THEN <<s.base[p]>> ELSE s.space[p]

\* Configuration k when the parameters of E are expanded and have weights W.
Numeral(s, E, W, k) ==
  [f \in DOMAIN s.base |->
     IF f \in E THEN ValuesOf(s, f)[(((k - 1) \div W[f]) % Len(ValuesOf(s, f))) + 1]
     ELSE s.base[f]]

Listed(s, cs, N, E, W) ==
  /\ N \in Nat \ {0} /\ W \in [Param -> Nat \ {0}]
  /\ cs = [k \in 1..N |-> Numeral(s, E, W, k)]

\* The weights after one more stage, of n values.
Shifted(W, p, n) == [f \in Param |-> IF f = p THEN 1 ELSE W[f] * n]

\* A parameter has at least one value.
LEMMA SomeValue ==
  ASSUME NEW s \in Studies, NEW p \in Param
  PROVE  /\ Len(ValuesOf(s, p)) \in Nat \ {0} /\ p \in DOMAIN s.base
         /\ Len(s.space[p]) \in Nat
         /\ s.space[p] = <<>> <=> Len(s.space[p]) = 0
<1>1. p \in DOMAIN s.base
  BY StudiesAssumption
<1>2. \E S : s.space[p] \in Seq(S)
  BY StudiesAssumption
<1>3. PICK S : s.space[p] \in Seq(S)
  BY <1>2
<1> DEFINE v == s.space[p]
<1>4. Len(v) \in Nat /\ (v = <<>> <=> Len(v) = 0)
  <2>1. v \in Seq(S)
    BY <1>3
  <2> HIDE DEF v
  <2> QED BY <2>1
<1>5. CASE v = <<>>
  BY <1>1, <1>4, <1>5 DEF ValuesOf
<1>6. CASE v # <<>>
  BY <1>1, <1>4, <1>6 DEF ValuesOf
<1> QED BY <1>5, <1>6

\* One stage makes the numerals one digit longer.
LEMMA StageNumbers ==
  ASSUME NEW s \in Studies, NEW cs, NEW N, NEW E \in SUBSET Param, NEW W,
         Listed(s, cs, N, E, W), NEW p \in Param, p \notin E
  PROVE  LET n == Len(ValuesOf(s, p))
         IN  Listed(s, Expanded(cs, p, s.space[p]), N * n, E \cup {p}, Shifted(W, p, n))
<1> DEFINE v == s.space[p]
           n == Len(ValuesOf(s, p))
           X == Shifted(W, p, n)
           es == Expanded(cs, p, v)
<1>1. /\ n \in Nat \ {0} /\ p \in DOMAIN s.base /\ Len(v) \in Nat
      /\ v = <<>> <=> Len(v) = 0
  BY SomeValue
<1>2. /\ N \in Nat \ {0} /\ W \in [Param -> Nat \ {0}]
      /\ cs = [k \in 1..N |-> Numeral(s, E, W, k)]
  BY DEF Listed
<1>3. N * n \in Nat \ {0} /\ X \in [Param -> Nat \ {0}] /\ X[p] = 1
      /\ \A f \in Param : f # p => X[f] = W[f] * n
  <2> HIDE DEF n
  <2>1. \A w \in Nat \ {0} : w * n \in Nat \ {0}
    BY <1>1
  <2> QED BY <1>2, <2>1 DEF Shifted
<1>4. \A k \in 1..N * n : k - 1 \in Nat
  <2> HIDE DEF n
  <2> QED BY <1>3
<1>5. CASE v = <<>>
  <2>1. n = 1 /\ ValuesOf(s, p) = <<s.base[p]>> /\ es = cs /\ N * n = N
    BY <1>1, <1>2, <1>5 DEF ValuesOf, Expanded
  <2>2. \A f \in Param : f # p => X[f] = W[f]
    BY <1>2, <1>3, <2>1
  <2>3. ASSUME NEW k \in 1..N PROVE Numeral(s, E, W, k) = Numeral(s, E \cup {p}, X, k)
    <3>1. (((k - 1) \div 1) % 1) + 1 = 1
      OBVIOUS
    <3>2. ValuesOf(s, p)[(((k - 1) \div X[p]) % Len(ValuesOf(s, p))) + 1] = s.base[p]
      BY <1>3, <2>1, <3>1
    <3> HIDE DEF X, n
    <3> QED BY <2>2, <3>2 DEF Numeral
  <2>4. es = [k \in 1..N * n |-> Numeral(s, E \cup {p}, X, k)]
    <3> HIDE DEF X, n, es
    <3> QED BY <1>2, <2>1, <2>3
  <2> QED BY <1>3, <2>4 DEF Listed
<1>6. CASE v # <<>>
  <2>1. ValuesOf(s, p) = v /\ n = Len(v) /\ n # 0
    BY <1>1, <1>6 DEF ValuesOf
  <2>2. Len(cs) = N
    BY <1>2
  <2> DEFINE I(k) == ((k - 1) \div n) + 1
             J(k) == ((k - 1) % n) + 1
  <2>3. es = [k \in 1..N * n |-> [cs[I(k)] EXCEPT ![p] = v[J(k)]]]
    BY <2>1, <2>2 DEF Expanded
  <2>4. ASSUME NEW k \in 1..N * n
        PROVE  [cs[I(k)] EXCEPT ![p] = v[J(k)]] = Numeral(s, E \cup {p}, X, k)
    <3>1. I(k) \in 1..N
      <4> HIDE DEF n
      <4> QED BY <1>1, <1>2, StageIndices
    <3>2. cs[I(k)] = Numeral(s, E, W, I(k))
      BY <1>2, <3>1
    <3> DEFINE a == k - 1
               q == a \div n
    <3>3. a \in Nat /\ q \in Nat /\ I(k) - 1 = q
      <4>1. a \in Nat
        BY <1>4
      <4> HIDE DEF n, a
      <4>2. q \in Nat
        BY <1>1, <4>1
      <4> HIDE DEF q
      <4> QED BY <4>1, <4>2 DEF q, a
    <3> HIDE DEF a
    <3>4. \A f \in E : q \div W[f] = a \div X[f]
      <4>1. ASSUME NEW f \in E PROVE q \div W[f] = a \div X[f]
        <5>1. f \in Param /\ f # p /\ W[f] \in Nat \ {0}
          BY <1>2
        <5>2. X[f] = W[f] * n
          BY <1>3, <5>1
        <5> DEFINE w == W[f]
        <5>3. a \in Nat /\ n \in Nat \ {0} /\ w \in Nat \ {0}
          BY <1>1, <3>3, <5>1
        <5> HIDE DEF n, X, w
        <5>4. (a \div n) \div w = a \div (w * n)
          BY <5>3, QuotientTwice
        <5> QED BY <5>2, <5>4 DEF w
      <4> QED BY <4>1
    <3>5. (a \div X[p]) % Len(ValuesOf(s, p)) = a % n
      BY <1>3, <3>3
    <3> DEFINE c == Numeral(s, E, W, I(k))
               x == v[J(k)]
    <3>6. x = ValuesOf(s, p)[((a \div X[p]) % Len(ValuesOf(s, p))) + 1]
      <4>1. J(k) = (a % n) + 1
        BY DEF a
      <4> HIDE DEF n, X, J
      <4> QED BY <2>1, <3>5, <4>1
    <3>7. c = [f \in DOMAIN s.base |->
                 IF f \in E THEN ValuesOf(s, f)[((q \div W[f]) % Len(ValuesOf(s, f))) + 1]
                 ELSE s.base[f]]
      <4> HIDE DEF q, I
      <4> QED BY <3>3 DEF Numeral
    <3>8. Numeral(s, E \cup {p}, X, k) =
            [f \in DOMAIN s.base |->
               IF f \in E \cup {p} THEN ValuesOf(s, f)[((a \div X[f]) % Len(ValuesOf(s, f))) + 1]
               ELSE s.base[f]]
      BY DEF Numeral, a
    <3> HIDE DEF c, x, q, X, n, I, J
    <3>9. [c EXCEPT ![p] = x] = Numeral(s, E \cup {p}, X, k)
      BY <1>1, <3>4, <3>6, <3>7, <3>8
    <3> QED BY <3>2, <3>9 DEF c, x
  <2>5. es = [k \in 1..N * n |-> Numeral(s, E \cup {p}, X, k)]
    <3> HIDE DEF X, n, es, I, J
    <3> QED BY <2>3, <2>4
  <2> QED BY <1>3, <2>5 DEF Listed
<1> QED BY <1>5, <1>6

\* How many values each parameter has, and the weights these give.
Count(s, p) == Len(ValuesOf(s, p))
Weights(s, W) ==
  /\ W["warps"] = 1
  /\ W["shmem"] = Count(s, "warps")
  /\ W["registers"] = Count(s, "shmem") * Count(s, "warps")
  /\ W["l1"] = Count(s, "registers") * Count(s, "shmem") * Count(s, "warps")
  /\ W["sched"] = Count(s, "l1") * Count(s, "registers") * Count(s, "shmem") * Count(s, "warps")

\* The five stages one after the other.
LEMMA SweptNumbered ==
  ASSUME NEW s \in Studies
  PROVE  \E W : /\ Weights(s, W)
                /\ Listed(s, Swept(s), Count(s, "sched") * Count(s, "l1") * Count(s, "registers")
                                       * Count(s, "shmem") * Count(s, "warps"), Param, W)
<1> DEFINE n1 == Count(s, "sched")
           n2 == Count(s, "l1")
           n3 == Count(s, "registers")
           n4 == Count(s, "shmem")
           n5 == Count(s, "warps")
           S0 == <<s.base>>
           S1 == Expanded(S0, "sched", s.space["sched"])
           S2 == Expanded(S1, "l1", s.space["l1"])
           S3 == Expanded(S2, "registers", s.space["registers"])
           S4 == Expanded(S3, "shmem", s.space["shmem"])
           S5 == Expanded(S4, "warps", s.space["warps"])
           W0 == [f \in Param |-> 1]
           W1 == Shifted(W0, "sched", n1)
           W2 == Shifted(W1, "l1", n2)
           W3 == Shifted(W2, "registers", n3)
           W4 == Shifted(W3, "shmem", n4)
           W5 == Shifted(W4, "warps", n5)
           E1 == {} \cup {"sched"}
           E2 == E1 \cup {"l1"}
           E3 == E2 \cup {"registers"}
           E4 == E3 \cup {"shmem"}
           E5 == E4 \cup {"warps"}
<1>1. /\ "sched" \in Param /\ "l1" \in Param /\ "registers" \in Param /\ "shmem" \in Param
      /\ "warps" \in Param
  BY ParamsAre
<1>2. /\ n1 \in Nat \ {0} /\ n2 \in Nat \ {0} /\ n3 \in Nat \ {0} /\ n4 \in Nat \ {0}
      /\ n5 \in Nat \ {0}
  BY <1>1, SomeValue DEF Count
<1>3. Listed(s, S0, 1, {}, W0)
  <2>1. s.base = [f \in DOMAIN s.base |-> s.base[f]]
    BY StudiesAssumption
  <2>2. Numeral(s, {}, W0, 1) = [f \in DOMAIN s.base |-> s.base[f]]
    BY DEF Numeral
  <2>3. S0 = [k \in 1..1 |-> Numeral(s, {}, W0, k)]
    <3> DEFINE c == Numeral(s, {}, W0, 1)
    <3>1. [k \in 1..1 |-> Numeral(s, {}, W0, k)] = [k \in 1..1 |-> c]
      OBVIOUS
    <3>2. s.base = c
      BY <2>1, <2>2
    <3> HIDE DEF c
    <3> QED BY <3>1, <3>2
  <2> QED BY <2>3 DEF Listed
<1>4. Swept(s) = S5
  BY DEF Swept, GenerateConfigurations
<1>5. Listed(s, S1, 1 * n1, E1, W1)
  <2> HIDE DEF S0, W0
  <2>1. {} \in SUBSET Param /\ "sched" \notin {}
    OBVIOUS
  <2> QED BY <1>1, <1>3, <2>1, StageNumbers DEF Count
<1>6. Listed(s, S2, 1 * n1 * n2, E2, W2)
  <2>1. E1 \in SUBSET Param /\ "l1" \notin E1
    BY <1>1
  <2> HIDE DEF S1, W1, E1, n1
  <2> QED BY <1>1, <1>5, <2>1, StageNumbers DEF Count
<1>7. Listed(s, S3, 1 * n1 * n2 * n3, E3, W3)
  <2>1. E2 \in SUBSET Param /\ "registers" \notin E2
    BY <1>1
  <2> HIDE DEF S2, W2, E2, n1, n2
  <2> QED BY <1>1, <1>6, <2>1, StageNumbers DEF Count
<1>8. Listed(s, S4, 1 * n1 * n2 * n3 * n4, E4, W4)
  <2>1. E3 \in SUBSET Param /\ "shmem" \notin E3
    BY <1>1
  <2> HIDE DEF S3, W3, E3, n1, n2, n3
  <2> QED BY <1>1, <1>7, <2>1, StageNumbers DEF Count
<1>9. Listed(s, S5, 1 * n1 * n2 * n3 * n4 * n5, E5, W5)
  <2>1. E4 \in SUBSET Param /\ "warps" \notin E4
    BY <1>1
  <2> HIDE DEF S4, W4, E4, n1, n2, n3, n4
  <2> QED BY <1>1, <1>8, <2>1, StageNumbers DEF Count
<1>10. E5 = Param
  BY ParamsAre
<1>11. /\ W5["warps"] = 1 /\ W5["shmem"] = 1 * n5 /\ W5["registers"] = 1 * n4 * n5
       /\ W5["l1"] = 1 * n3 * n4 * n5 /\ W5["sched"] = 1 * n2 * n3 * n4 * n5
  <2> HIDE DEF n1, n2, n3, n4, n5
  <2>1. W1["sched"] = 1
    BY <1>1 DEF Shifted
  <2>2. W2["sched"] = 1 * n2 /\ W2["l1"] = 1
    BY <1>1, <2>1 DEF Shifted
  <2>3. W3["sched"] = 1 * n2 * n3 /\ W3["l1"] = 1 * n3 /\ W3["registers"] = 1
    <3> HIDE DEF W2
    <3> QED BY <1>1, <2>2 DEF Shifted
  <2>4. /\ W4["sched"] = 1 * n2 * n3 * n4 /\ W4["l1"] = 1 * n3 * n4
        /\ W4["registers"] = 1 * n4 /\ W4["shmem"] = 1
    <3> HIDE DEF W3
    <3> QED BY <1>1, <2>3 DEF Shifted
  <2> HIDE DEF W4
  <2> QED BY <1>1, <2>4 DEF Shifted
<1> HIDE DEF W5, E5, S5, n1, n2, n3, n4, n5
<1>12. /\ 1 * n5 = n5 /\ 1 * n4 = n4 /\ 1 * n3 = n3 /\ 1 * n2 = n2 /\ 1 * n1 = n1
  BY <1>2
<1>13. Weights(s, W5)
  BY <1>11, <1>12 DEF Weights, n1, n2, n3, n4, n5
<1>14. Listed(s, Swept(s), n1 * n2 * n3 * n4 * n5, Param, W5)
  BY <1>4, <1>9, <1>10, <1>12
<1> QED BY <1>13, <1>14 DEF n1, n2, n3, n4, n5

\* Where each parameter stands among the five.
LEMMA Positions ==
  /\ Position("sched") = 1 /\ Position("l1") = 2 /\ Position("registers") = 3
  /\ Position("shmem") = 4 /\ Position("warps") = 5
  /\ Params[1] = "sched" /\ Params[2] = "l1" /\ Params[3] = "registers"
  /\ Params[4] = "shmem" /\ Params[5] = "warps"
<1>1. DOMAIN Params = {1, 2, 3, 4, 5}
  <2>1. 1..5 = {1, 2, 3, 4, 5}
    OBVIOUS
  <2> QED BY <2>1 DEF Params
<1>2. /\ Params[1] = "sched" /\ Params[2] = "l1" /\ Params[3] = "registers"
      /\ Params[4] = "shmem" /\ Params[5] = "warps"
  BY DEF Params
<1>3. ASSUME NEW p, NEW i \in DOMAIN Params, \A j \in DOMAIN Params : Params[j] = p <=> j = i
      PROVE  Position(p) = i
  BY <1>3 DEF Position
<1>4. Position("sched") = 1
  BY <1>1, <1>2, <1>3
<1>5. Position("l1") = 2
  BY <1>1, <1>2, <1>3
<1>6. Position("registers") = 3
  BY <1>1, <1>2, <1>3
<1>7. Position("shmem") = 4
  BY <1>1, <1>2, <1>3
<1>8. Position("warps") = 5
  BY <1>1, <1>2, <1>3
<1> QED BY <1>2, <1>4, <1>5, <1>6, <1>7, <1>8

\* generate_configurations generates the cartesian product, each combination once
\* and in the order of the digits, for every base and all lists, empty ones too.
THEOREM SweepIsAlwaysProduct == Spec => []SweepIsProduct
<1>1. IInv => SweepIsProduct
  <2> SUFFICES ASSUME IInv, phase # "generate" PROVE SweepIsProduct
    BY DEF SweepIsProduct
  <2>1. study \in Studies /\ configs = Swept(study)
    BY DEF IInv, TypeOK, Progress
  <2> DEFINE n1 == Count(study, "sched")
             n2 == Count(study, "l1")
             n3 == Count(study, "registers")
             n4 == Count(study, "shmem")
             n5 == Count(study, "warps")
             N == n1 * n2 * n3 * n4 * n5
  <2>2. PICK W : Weights(study, W) /\ Listed(study, Swept(study), N, Param, W)
    BY <2>1, SweptNumbered
  <2>3. /\ Values(1) = ValuesOf(study, "sched") /\ Values(2) = ValuesOf(study, "l1")
        /\ Values(3) = ValuesOf(study, "registers") /\ Values(4) = ValuesOf(study, "shmem")
        /\ Values(5) = ValuesOf(study, "warps")
    BY Positions DEF Values, ValuesOf
  <2>4. /\ n1 \in Nat /\ n2 \in Nat /\ n3 \in Nat /\ n4 \in Nat /\ n5 \in Nat
    BY <2>1, ParamsAre, SomeValue DEF Count
  <2>5. /\ Len(Values(1)) = n1 /\ Len(Values(2)) = n2 /\ Len(Values(3)) = n3
        /\ Len(Values(4)) = n4 /\ Len(Values(5)) = n5
    BY <2>3 DEF Count
  <2> HIDE DEF n1, n2, n3, n4, n5
  <2>6. /\ Weight(0) = n1 * n2 * n3 * n4 * n5 /\ Weight(1) = 1 * n2 * n3 * n4 * n5
        /\ Weight(2) = 1 * 1 * n3 * n4 * n5 /\ Weight(3) = 1 * 1 * 1 * n4 * n5
        /\ Weight(4) = 1 * 1 * 1 * 1 * n5 /\ Weight(5) = 1 * 1 * 1 * 1 * 1
    <3> DEFINE F(i, j) == IF j > i THEN Len(Values(j)) ELSE 1
    <3>1. \A i : Weight(i) = F(i, 1) * F(i, 2) * F(i, 3) * F(i, 4) * F(i, 5)
      BY Zenon DEF Weight
    <3>2. /\ \A i \in 0..5 : F(i, 1) = IF i < 1 THEN n1 ELSE 1
          /\ \A i \in 0..5 : F(i, 2) = IF i < 2 THEN n2 ELSE 1
          /\ \A i \in 0..5 : F(i, 3) = IF i < 3 THEN n3 ELSE 1
          /\ \A i \in 0..5 : F(i, 4) = IF i < 4 THEN n4 ELSE 1
          /\ \A i \in 0..5 : F(i, 5) = IF i < 5 THEN n5 ELSE 1
      BY <2>5
    <3> HIDE DEF F
    <3> QED BY <3>1, <3>2
  <2>7. /\ 1 * n2 = n2 /\ 1 * 1 * n3 = n3 /\ 1 * 1 * 1 * n4 = n4 /\ 1 * 1 * 1 * 1 * n5 = n5
        /\ 1 * 1 * 1 * 1 * 1 = 1
    BY <2>4
  <2>8. /\ Weight(0) = N /\ Weight(1) = W["sched"] /\ Weight(2) = W["l1"]
        /\ Weight(3) = W["registers"] /\ Weight(4) = W["shmem"] /\ Weight(5) = W["warps"]
    BY <2>2, <2>6, <2>7 DEF Weights, n1, n2, n3, n4, n5
  <2>9. ASSUME NEW f \in Param
        PROVE  Weight(Position(f)) = W[f] /\ Values(Position(f)) = ValuesOf(study, f)
    BY <2>3, <2>8, ParamsAre, Positions
  <2> HIDE DEF N
  <2>10. configs = [k \in 1..N |-> Numeral(study, Param, W, k)]
    BY <2>1, <2>2 DEF Listed
  <2>11. ASSUME NEW k \in 1..N
         PROVE  Numeral(study, Param, W, k) =
                  [f \in DOMAIN study.base |->
                     IF f \in Param
                     THEN LET i == Position(f)
                          IN  Values(i)[(((k - 1) \div Weight(i)) % Len(Values(i))) + 1]
                     ELSE study.base[f]]
    BY <2>9 DEF Numeral
  <2> QED BY <2>8, <2>10, <2>11 DEF SweepIsProduct
<1> QED BY <1>1, Invariance, PTL
=============================================================================
