------------------------------ MODULE Analysis ------------------------------
(***************************************************************************)
(* ArchitecturalAnalyzer, src/src/analysis/analyzer.cpp.  What it reads of *)
(* a SimulationResult is a record r:                                       *)
(*   config    the configuration, by parameter                             *)
(*   cycles    total_cycles                                                *)
(*   occupancy the blocks an SM holds, of maxBlocks                        *)
(*   idle      no_ready_warp_cycles, in percent of total_sm_cycles         *)
(*   signs     the other thresholds the result exceeds:                    *)
(*     highAmat, lowHitRate, uncoalesced, highIpc, starvation, longWait,   *)
(*     unfair, bankRate, bankCost (conflicts against total_sm_cycles),     *)
(*     bankCostOfOne (against total_cycles).                               *)
(* Scores are counted in half points, so that they are integers.           *)
(***************************************************************************)
EXTENDS Integers, Sequences, FiniteSets

\* The parameters a sweep varies, in the order it expands them, and those of
\* them that bear on occupancy.
Params == <<"sched", "l1", "registers", "shmem", "warps">>
Param == {Params[i] : i \in 1..Len(Params)}
OccupancyKnob == {"registers", "shmem", "warps"}

Candidate == {"Compute", "Memory Latency", "Occupancy", "Scheduler Inefficiency",
              "Bank Conflicts"}

Points(n, holds) == IF holds THEN n ELSE 0
Signs(r, S) == Cardinality(r.signs \cap S)
LowOccupancy(r) == 2 * r.occupancy < r.maxBlocks

MemoryPressure(r) ==
  2 * Signs(r, {"highAmat", "lowHitRate", "uncoalesced"}) + Points(1, r.idle > 20)

Score(r, c) ==
  CASE c = "Memory Latency" -> MemoryPressure(r)
    [] c = "Compute" -> 4 * Signs(r, {"highIpc"}) + Points(2, r.idle < 10)
    [] c = "Occupancy" -> Points(2, LowOccupancy(r))
                          + Points(2, r.idle > 20 /\ MemoryPressure(r) < 3)
    [] c = "Scheduler Inefficiency" ->
         4 * Signs(r, {"starvation"}) + 2 * Signs(r, {"longWait"})
         + Points(1, "unfair" \in r.signs /\ r.idle > 10)
    [] c = "Bank Conflicts" -> 2 * Signs(r, {"bankRate", "bankCost"})

\* Mutant of Evidence: the cycles without a ready warp are no evidence.
EvidenceNoIdle(r, c) ==
  CASE c = "Compute" -> r.signs \cap {"highIpc"}
    [] c = "Memory Latency" -> r.signs \cap {"highAmat", "lowHitRate", "uncoalesced"}
    [] c = "Occupancy" -> IF LowOccupancy(r) THEN {"lowOccupancy"} ELSE {}
    [] c = "Scheduler Inefficiency" -> r.signs \cap {"starvation", "longWait", "unfair"}
    [] c = "Bank Conflicts" -> r.signs \cap {"bankRate", "bankCostOfOne"}

\* What is said for a candidate.  The conditions are not those of the scores.
Evidence(r, c) ==
  CASE c = "Compute" ->
         (r.signs \cap {"highIpc"}) \cup (IF r.idle < 10 THEN {"lowIdle"} ELSE {})
    [] c = "Memory Latency" -> r.signs \cap {"highAmat", "lowHitRate", "uncoalesced"}
    [] c = "Occupancy" -> (IF LowOccupancy(r) THEN {"lowOccupancy"} ELSE {})
                          \cup (IF r.idle > 20 THEN {"highIdle"} ELSE {})
    [] c = "Scheduler Inefficiency" -> r.signs \cap {"starvation", "longWait", "unfair"}
    [] c = "Bank Conflicts" -> r.signs \cap {"bankRate", "bankCostOfOne"}

\* The candidates std::sort may put first: it does not order those that tie.
Foremost(r) == {c \in Candidate : \A d \in Candidate : Score(r, d) <= Score(r, c)}

Confidence(score) == IF score >= 5 THEN "High" ELSE IF score >= 3 THEN "Medium" ELSE "Low"

\* diagnose_bottleneck when first is at the head of the sorted candidates.
Diagnosis(r, first) ==
  LET second == {c \in Candidate \ {first} : Score(r, c) >= 2}
  IN  IF Score(r, first) < 2
      THEN [primary |-> "Unclassified", confidence |-> "Low", secondary |-> {}, factors |-> {}]
      ELSE [primary |-> first, confidence |-> Confidence(Score(r, first)),
            secondary |-> second,
            factors |-> UNION {{<<c, e>> : e \in Evidence(r, c)} : c \in {first} \cup second}]

-----------------------------------------------------------------------------
(* The second pass.                                                        *)

Differ(r, s) == {p \in Param : r.config[p] # s.config[p]}

MoreOccupied(s, r) == s.occupancy * r.maxBlocks > r.occupancy * s.maxBlocks

\* Mutant of OccupancyEvidence: the other parameters need not be the same.
OccupancyEvidenceAny(results, i) ==
  \E j \in DOMAIN results \ {i} :
    /\ MoreOccupied(results[j], results[i])
    /\ results[j].cycles < results[i].cycles

\* found_occupancy_sweep_evidence for result i.
OccupancyEvidence(results, i) ==
  \E j \in DOMAIN results \ {i} :
    /\ Cardinality(Differ(results[i], results[j])) = 1
    /\ Differ(results[i], results[j]) \cap OccupancyKnob # {}
    /\ MoreOccupied(results[j], results[i])
    /\ results[j].cycles < results[i].cycles

\* sched_improved for result i.
SchedulerEvidence(results, i) ==
  \E j \in DOMAIN results : /\ Differ(results[i], results[j]) = {"sched"}
                            /\ results[j].cycles < results[i].cycles

\* Analysis a of result i after cross-configuration validation.
Validated(results, i, a) ==
  CASE a.primary = "Occupancy" /\ OccupancyEvidence(results, i) ->
         [a EXCEPT !.confidence = "High", !.factors = @ \cup {<<"Sweep", "validated">>}]
    [] a.primary = "Occupancy" /\ ~OccupancyEvidence(results, i) /\ a.confidence = "Medium" ->
         [a EXCEPT !.confidence = "Low", !.factors = @ \cup {<<"Sweep", "none found">>}]
    [] a.primary = "Scheduler Inefficiency" /\ SchedulerEvidence(results, i) ->
         [a EXCEPT !.factors = @ \cup {<<"Sweep", "other scheduler faster">>}]
    [] OTHER -> a
=============================================================================
