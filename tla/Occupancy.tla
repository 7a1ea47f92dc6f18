----------------------------- MODULE Occupancy -----------------------------
(***************************************************************************)
(* OccupancyCalculator::compute, src/src/architecture/occupancy.cpp: how   *)
(* many blocks, each of which takes need, an SM with these limits holds.   *)
(* Sweep runs it beside the dispatch loop it predicts.                     *)
(***************************************************************************)
EXTENDS Integers, FiniteSetsExt, Admission

\* warps_per_block, registers_per_block and the rest, for one configuration.
NeedOf(size, warp, regs, shmem) ==
  [f \in Resource |-> CASE f = "blocks" -> 1
                        [] f = "warps" -> (size + warp - 1) \div warp
                        [] f = "threads" -> size
                        [] f = "registers" -> size * regs
                        [] f = "shmem" -> shmem]

\* Mutant of MaxBlocksBy: the quotient is rounded up.
MaxBlocksByRoundedUp(limit, need, f) ==
  IF need[f] > 0 THEN (limit[f] + need[f] - 1) \div need[f] ELSE limit["blocks"]

\* max_blocks_by_threads, _warps, _regs and _shmem; what is not needed does not
\* limit.
MaxBlocksBy(limit, need, f) ==
  IF need[f] > 0 THEN limit[f] \div need[f] ELSE limit["blocks"]

ResidentBlocks(limit, need) == Min({MaxBlocksBy(limit, need, f) : f \in Resource})

Binds(limit, need, f) ==
  ResidentBlocks(limit, need) = MaxBlocksBy(limit, need, f) /\ need[f] > 0

\* Mutant of LimitingFactor: registers are named whenever they are used.
LimitingFactorRegisters(limit, need) ==
  IF need["registers"] > 0 THEN "registers" ELSE "blocks"

\* The first that binds, in this order.
LimitingFactor(limit, need) ==
  IF Binds(limit, need, "registers") THEN "registers"
  ELSE IF Binds(limit, need, "shmem") THEN "shmem"
  ELSE IF Binds(limit, need, "warps") THEN "warps"
  ELSE IF Binds(limit, need, "threads") THEN "threads"
  ELSE "blocks"

ResidentWarps(limit, need) == ResidentBlocks(limit, need) * need["warps"]
=============================================================================
