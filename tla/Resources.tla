----------------------------- MODULE Resources -----------------------------
(***************************************************************************)
(* The resources of an SM, given the blocks of the grid: what admission    *)
(* takes, what the resident blocks hold and what a release gives back.     *)
(***************************************************************************)
EXTENDS Integers, FiniteSets, Admission

CONSTANTS
  Block,        \* the blocks of the grid, numbered in grid order
  Demand,       \* Demand[b][f]: what block b takes of resource f
  Limit         \* Limit[f]: what one SM has of resource f (SystemConfig)

ASSUME ResourcesAssumption ==
  /\ Block \subseteq Nat
  /\ Demand \in [Block -> [Resource -> Nat]]
  /\ Limit \in [Resource -> Nat]
  /\ \A b \in Block : Demand[b]["blocks"] = 1

CanAdmit(alloc, b) == Fits(alloc, Demand[b], Limit)
Allocated(alloc, b) == Plus(alloc, Demand[b])

\* The units of resource f that the blocks of S take, each with its block.
Units(S, f) == UNION {{b} \X (1..Demand[b][f]) : b \in S}

\* What the blocks of S hold together.
Held(S, f) == Cardinality(Units(S, f))

\* Mutant of Released: the registers are not given back.
ReleasedButRegisters(alloc, S) ==
  [f \in Resource |-> IF f = "registers" THEN alloc[f] ELSE alloc[f] - Held(S, f)]

\* The totals after SM::release_completed_blocks has dropped the blocks of S.
Released(alloc, S) == [f \in Resource |-> alloc[f] - Held(S, f)]
=============================================================================
