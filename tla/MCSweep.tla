------------------------------ MODULE MCSweep ------------------------------
(***************************************************************************)
(* Four kinds of studies: one configuration with limits around the needs   *)
(* of up to three small blocks; one configuration with every combination   *)
(* of measurements; all spaces, with one outcome; and sweeps of one or two *)
(* parameters whose results differ.                                        *)
(***************************************************************************)
EXTENDS Sweep

Config(b, w, t, r, s) ==
  [f \in {"blocks", "warps", "threads", "registers", "shmem", "sched", "l1"} |->
     CASE f = "blocks" -> b [] f = "warps" -> w [] f = "threads" -> t
       [] f = "registers" -> r [] f = "shmem" -> s
       [] f = "sched" -> "RR" [] f = "l1" -> 4]
SmallBase == Config(4, 4, 8, 8, 4)

NoSpace == [p \in {"sched", "l1", "registers", "shmem", "warps"} |-> <<>>]
TwoOf(p) == CASE p = "sched" -> <<"RR", "GTO">> [] p = "l1" -> <<4, 8>>
              [] p = "registers" -> <<4, 8>> [] p = "shmem" -> <<1, 4>>
              [] p = "warps" -> <<4, 1>>
Over(P) == [p \in DOMAIN NoSpace |-> IF p \in P THEN TwoOf(p) ELSE <<>>]

Outcome(cycles, idle, signs) == [cycles |-> cycles, idle |-> idle, signs |-> signs]
Study(base, space, need, range, baseline) ==
  [base |-> base, space |-> space, need |-> need, grid |-> 3, range |-> range,
   baseline |-> baseline]
Block == NeedOf(2, 2, 2, 1)

Roundings ==
  {Study(Config(b, w, t, r, s), NoSpace, NeedOf(size, 2, regs, shmem), "steady", 0) :
     b \in {1, 3}, w \in 2..4, t \in 5..8, r \in 5..9, s \in {1, 3},
     size \in {2, 3, 5}, regs \in 0..2, shmem \in 0..2}

\* Every combination of the signs, every level of idle cycles about the
\* thresholds, and low and high occupancy.
Sign == {"highAmat", "lowHitRate", "uncoalesced", "highIpc", "starvation", "longWait",
         "unfair", "bankRate", "bankCost", "bankCostOfOne"}
AllOutcomes ==
  {Outcome(2, idle, signs) :
     idle \in {0, 10, 15, 20, 50},
     signs \in {S \in SUBSET Sign : "bankCost" \in S => "bankCostOfOne" \in S}}
Diagnoses == {Study(Config(b, 4, 8, 8, 4), NoSpace, Block, "all", 0) : b \in {2, 6}}

Products ==
  {Study(SmallBase, Over(P), Block, "steady", 0) : P \in SUBSET DOMAIN NoSpace}
  \cup {Study(SmallBase, [NoSpace EXCEPT !["sched"] = <<"RR", "GTO", "OldestFirst", "TwoLevel">>,
                                         !["l1"] = <<4, 8, 16>>], Block, "steady", 0)}

\* What the simulator measures (no cycle counts as one without a ready warp,
\* since the SM adds them only when it holds no warp), and what the analyzer's
\* tests feed it.
Measured ==
  {Outcome(cycles, 0, signs) : cycles \in {2, 3}, signs \in {{}, {"starvation", "longWait"}}}
Ranked == {Outcome(cycles, 15, {}) : cycles \in 2..4}
Fed == Measured \cup {Outcome(cycles, 50, {}) : cycles \in {2, 3}}

Sweeps ==
  {Study(SmallBase, Over(P), Block, "fed", baseline) :
     P \in {{"sched", "warps"}, {"registers", "warps"}, {"l1", "registers"}, {"shmem", "l1"},
            {"sched"}, {"shmem"}}, baseline \in {0, 2}}
  \cup {Study(SmallBase, [NoSpace EXCEPT !["registers"] = <<4, 8, 12>>], Block, range, baseline) :
          range \in {"fed", "ranked"}, baseline \in {0, 1}}
  \cup {Study(Config(4, 4, 8, 8, 4), [NoSpace EXCEPT !["warps"] = <<2, 0>>], Block, "steady", 0)}

MCOutcomes ==
  [x \in {"steady", "all", "measured", "fed", "ranked"} |->
     CASE x = "steady" -> {Outcome(2, 0, {"highIpc"})} [] x = "all" -> AllOutcomes
       [] x = "measured" -> Measured [] x = "fed" -> Fed
       [] x = "ranked" -> Ranked]

MCStudies == Roundings \cup Diagnoses \cup Products \cup Sweeps

\* run_analysis: schedulers and L1 sets are swept.
AnalysisRuns == {Study(SmallBase, Over({"sched", "l1"}), Block, "measured", 0)}
=============================================================================
