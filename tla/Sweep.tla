------------------------------- MODULE Sweep -------------------------------
(***************************************************************************)
(* An architectural analysis (run_analysis in benchmarks.cpp): SweepEngine *)
(* generates the configurations and executes them one after the other, the *)
(* analyzer goes over the results twice, the report is written.            *)
(*                                                                         *)
(*   generate --> launch <--> run --> diagnose --> validate --> report     *)
(*                                                                         *)
(* "launch" admits blocks to an SM of the configuration until it is full;  *)
(* what the simulation then measures is one of the outcomes of the study.  *)
(* The occupancy is not measured: it is what OccupancyCalculator predicts. *)
(***************************************************************************)
EXTENDS Occupancy, SequencesExt, Analysis

CONSTANTS
  Outcomes,     \* what simulations may measure, by the name of the range
  Studies       \* records of base (SystemConfig), space (ParameterSpace), need (of
                \* a block), grid (the number of blocks), range (of the outcomes)
                \* and baseline (analyze's baseline_index)

ASSUME StudiesAssumption ==
  /\ \A s \in Studies :
    /\ Resource \cup Param \subseteq DOMAIN s.base /\ Param = DOMAIN s.space
    /\ \A f \in Resource : s.base[f] \in Nat
    /\ s.base = [x \in DOMAIN s.base |-> s.base[x]]
    /\ s.space["sched"] \in Seq(STRING)
    /\ \A p \in Param \ {"sched"} : s.space[p] \in Seq(Nat)
    /\ s.need \in [Resource -> Nat] /\ s.need["blocks"] = 1
    /\ s.grid \in Nat \ {0} /\ s.baseline \in Nat /\ s.range \in DOMAIN Outcomes
  /\ \A o \in UNION {Outcomes[x] : x \in DOMAIN Outcomes} :
    /\ o.cycles \in Nat \ {0} /\ o.idle \in Nat
    /\ "bankCost" \in o.signs => "bankCostOfOne" \in o.signs  \* num_sms >= 1

VARIABLES
  study,        \* the analysis that is made
  phase,
  configs,      \* generate_configurations' result
  alloc,        \* SM::allocated_* of an SM of the current configuration
  results,      \* run_sweep's result so far
  analysis,     \* analyze's result so far
  report        \* the index of the best configuration and the recommendations

vars == <<study, phase, configs, alloc, results, analysis, report>>

NoReport == [best |-> 0, advice |-> "none", mitigated |-> FALSE]

Init ==
  /\ study \in Studies /\ phase = "generate" /\ configs = <<>>
  /\ alloc = NothingAllocated /\ results = <<>> /\ analysis = <<>> /\ report = NoReport

-----------------------------------------------------------------------------
(* SweepEngine.                                                            *)

\* One of the five stages: every configuration so far with every value of p, the
\* values being the inner loop.
Expanded(cs, p, values) ==
  LET n == Len(values)
  IN  IF n = 0 THEN cs
      ELSE [k \in 1..Len(cs) * n |->
              [cs[((k - 1) \div n) + 1] EXCEPT ![p] = values[((k - 1) % n) + 1]]]

\* Mutant of GenerateConfigurations: each stage starts from the base again.
GenerateFromBase(base, space) ==
  <<base>> \o FlattenSeq([i \in DOMAIN Params |->
                            SelectSeq(Expanded(<<base>>, Params[i], space[Params[i]]),
                                      LAMBDA c : c # base)])

GenerateConfigurations(base, space) ==
  LET schedulers == Expanded(<<base>>, "sched", space["sched"])
      caches     == Expanded(schedulers, "l1", space["l1"])
      registers  == Expanded(caches, "registers", space["registers"])
      shmems     == Expanded(registers, "shmem", space["shmem"])
  IN  Expanded(shmems, "warps", space["warps"])

Generate ==
  /\ phase = "generate" /\ phase' = "launch"
  /\ configs' = GenerateConfigurations(study.base, study.space)
  /\ UNCHANGED <<study, alloc, results, analysis, report>>

Current == configs[Len(results) + 1]
Limits(c) == [f \in Resource |-> c[f]]

\* GPU::launch_kernel's loop admits one more block.  The blocks are uniform: each is
\* full-size, as OccupancyCalculator assumes.  (SM::can_admit uses the threads of the
\* block itself, and a partial last block needs less.)
Admit ==
  /\ phase = "launch" /\ alloc["blocks"] < study.grid
  /\ Fits(alloc, study.need, Limits(Current))
  /\ alloc' = Plus(alloc, study.need)
  /\ UNCHANGED <<study, phase, configs, results, analysis, report>>

\* The SM is full, or no block is pending.
Launched ==
  /\ phase = "launch" /\ phase' = "run"
  /\ alloc["blocks"] > 0
  /\ alloc["blocks"] = study.grid \/ ~Fits(alloc, study.need, Limits(Current))
  /\ UNCHANGED <<study, configs, alloc, results, analysis, report>>

\* "Architecturally impossible block": the exception ends the whole sweep and
\* takes the results of the configurations before it along.
LaunchThrow ==
  /\ phase = "launch" /\ phase' = "thrown"
  /\ alloc["blocks"] = 0 /\ ~Fits(alloc, study.need, Limits(Current))
  /\ results' = <<>>
  /\ UNCHANGED <<study, configs, alloc, analysis, report>>

\* execute_configuration with measurements o.
SimulationResult(o) ==
  [config |-> Current, cycles |-> o.cycles, idle |-> o.idle, signs |-> o.signs,
   occupancy |-> ResidentBlocks(Limits(Current), study.need),
   maxBlocks |-> Current["blocks"]]

Execute ==
  /\ phase = "run"
  /\ \E o \in Outcomes[study.range] : results' = Append(results, SimulationResult(o))
  /\ phase' = IF Len(results') = Len(configs) THEN "diagnose" ELSE "launch"
  /\ alloc' = NothingAllocated
  /\ UNCHANGED <<study, configs, analysis, report>>

-----------------------------------------------------------------------------
(* ArchitecturalAnalyzer::analyze and ReportGenerator.                     *)

\* An index beyond the results stands for the first.
Baseline == IF study.baseline >= Len(results) THEN 1 ELSE study.baseline + 1

\* The first pass takes the next result.
Diagnose ==
  LET r == results[Len(analysis) + 1]
  IN  /\ phase = "diagnose"
      /\ \E c \in Foremost(r) : analysis' = Append(analysis, Diagnosis(r, c))
      /\ phase' = IF Len(analysis') = Len(results) THEN "validate" ELSE phase
      /\ UNCHANGED <<study, configs, alloc, results, report>>

\* The second pass: result i is judged by the results alone.
Validate ==
  /\ phase = "validate" /\ phase' = "report"
  /\ analysis' = [i \in DOMAIN analysis |-> Validated(results, i, analysis[i])]
  /\ UNCHANGED <<study, configs, alloc, results, report>>

\* speedup of i > speedup of j: both are the baseline's cycles over their own.
Faster(i, j) ==
  results[Baseline].cycles * results[j].cycles > results[Baseline].cycles * results[i].cycles

\* Mutant of Best: each is compared with the first, not with the best so far.
BestOverFirst ==
  LET scan[i \in 0..Len(results)] ==
        IF i = 0 THEN 1 ELSE IF Faster(i, 1) THEN i ELSE scan[i-1]
  IN  scan[Len(results)]

\* The scan for the greatest speedup.
Best ==
  LET scan[i \in 0..Len(results)] ==
        IF i = 0 THEN 1
        ELSE LET b == scan[i-1] IN IF Faster(i, b) THEN i ELSE b
  IN  scan[Len(results)]

\* The recommendations: the first by the best configuration's bottleneck (none
\* for the scheduler and for bank conflicts), the second, "Changing the
\* scheduler policy successfully mitigated initial scheduler-related stalls."
Report ==
  /\ phase = "report" /\ phase' = "done"
  /\ report' =
       [best |-> Best,
        advice |-> IF analysis[Best].primary \in {"Scheduler Inefficiency", "Bank Conflicts"}
                   THEN "none" ELSE analysis[Best].primary,
        mitigated |-> /\ analysis[Baseline].primary = "Scheduler Inefficiency"
                      /\ analysis[Best].primary # "Scheduler Inefficiency"]
  /\ UNCHANGED <<study, configs, alloc, results, analysis>>

Ended == phase \in {"done", "thrown"} /\ UNCHANGED vars

Next ==
  \/ Generate \/ Admit \/ Launched \/ LaunchThrow \/ Execute
  \/ Diagnose \/ Validate \/ Report \/ Ended

Spec == Init /\ [][Next]_vars

-----------------------------------------------------------------------------
(* Properties.                                                             *)

\* The values parameter i ranges over, and the number of configurations of the
\* parameters after i.
Values(i) == IF study.space[Params[i]] = <<>> THEN <<study.base[Params[i]]>>
             ELSE study.space[Params[i]]
Weight(i) == LET n(j) == IF j > i THEN Len(Values(j)) ELSE 1
             IN  n(1) * n(2) * n(3) * n(4) * n(5)
Position(p) == CHOOSE i \in DOMAIN Params : Params[i] = p

\* generate_configurations: the configurations are the cartesian product of
\* the lists, each combination once and numbered like the digits of a number
\* (the first, the baseline of the analysis, has the first value of each
\* list), with the base's value wherever a list is empty.
SweepIsProduct ==
  phase # "generate" =>
    configs = [n \in 1..Weight(0) |->
                 [f \in DOMAIN study.base |->
                    IF f \in Param
                    THEN LET i == Position(f)
                         IN  Values(i)[(((n - 1) \div Weight(i)) % Len(Values(i))) + 1]
                    ELSE study.base[f]]]

\* OccupancyCalculator and SM::can_admit agree at every rounding, for uniform
\* (full-size) blocks: a further block fits exactly while fewer are resident than compute says, and a full SM
\* holds the blocks and warps that it says.
AdmitsAsPredicted ==
  phase \in {"launch", "run"} =>
    LET resident == ResidentBlocks(Limits(Current), study.need)
    IN  /\ Fits(alloc, study.need, Limits(Current)) <=> alloc["blocks"] < resident
        /\ alloc["blocks"] = resident =>
             alloc["warps"] = ResidentWarps(Limits(Current), study.need)

\* The limiting factor is one: a full SM has no room for one more block in it.
LimitingFactorLimits ==
  phase = "run" /\ ~Fits(alloc, study.need, Limits(Current)) =>
    LET f == LimitingFactor(Limits(Current), study.need)
    IN  alloc[f] + study.need[f] > Current[f]

\* No diagnosis without grounds: whatever ties the sort breaks and although
\* scores and evidence are computed from different conditions, every bottleneck
\* named has evidence of its own ("No strong evidence collected." is never
\* printed) and every candidate that scores a point is named.
EvidenceBacksDiagnosis ==
  \A i \in DOMAIN analysis :
    LET named == ({analysis[i].primary} \ {"Unclassified"}) \cup analysis[i].secondary
    IN  /\ \A c \in named : \E e \in analysis[i].factors : e[1] = c
        /\ named = {c \in Candidate : Score(results[i], c) >= 2}

\* An upgrade of i: one occupancy parameter is larger, all else is the same, the
\* SM holds more blocks and the run is shorter.
Upgrades(i) ==
  {j \in DOMAIN results :
     /\ \E p \in OccupancyKnob :
          /\ results[j].config[p] > results[i].config[p]
          /\ results[j].config = [results[i].config EXCEPT ![p] = results[j].config[p]]
     /\ results[j].occupancy > results[i].occupancy
     /\ results[j].cycles < results[i].cycles}

\* README.md:83, "matched-configuration isolation": in the end a configuration
\* is called occupancy bound with high confidence exactly if the sweep holds an
\* upgrade of it, and otherwise with low confidence.
OccupancyClaimEarned ==
  phase \in {"report", "done"} =>
    \A i \in DOMAIN analysis : analysis[i].primary = "Occupancy" =>
      analysis[i].confidence = IF Upgrades(i) # {} THEN "High" ELSE "Low"

\* The report presents as best a configuration that no other beats, and never
\* one whose lack of occupancy the sweep has shown to cost cycles.
BestIsFastest ==
  phase = "done" =>
    /\ \A i \in DOMAIN results : results[report.best].cycles <= results[i].cycles
    /\ analysis[report.best].primary = "Occupancy" => analysis[report.best].confidence = "Low"

\* report_generator.cpp:113, "Causal bottleneck conclusions are based exclusively
\* on matched-configuration isolation": the report credits the scheduler policy
\* with an improvement only if the best configuration differs from the baseline
\* in the scheduler alone.
SchedulerClaimIsolated ==
  report.mitigated => Differ(results[Baseline], results[report.best]) = {"sched"}
=============================================================================
