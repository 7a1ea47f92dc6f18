-------------------------------- MODULE MCSM --------------------------------
(***************************************************************************)
(* Small grids and kernels for SM.  Blocks have WarpsPerBlock warps of     *)
(* LanesPerWarp threads, as build_benchmark_grid makes them; warp ids      *)
(* restart at 0 in each block and the priority is the warp id.  The block  *)
(* OversizeBlock, if there is one, needs more threads than an SM has.      *)
(***************************************************************************)
EXTENDS SM

CONSTANTS NumBlocks, WarpsPerBlock, LanesPerWarp, MaxBlocks, OversizeBlock

MCBlock == 1..NumBlocks
MCWarp == 0..(NumBlocks * WarpsPerBlock - 1)
MCBlockOf == [w \in MCWarp |-> w \div WarpsPerBlock + 1]
MCWarpId == [w \in MCWarp |-> w % WarpsPerBlock]
MCLanes == [w \in MCWarp |-> 0..LanesPerWarp-1]

MCLimit ==
  [f \in {"blocks", "warps", "threads", "registers", "shmem"} |->
     CASE f = "blocks" -> MaxBlocks + 1
       [] f = "warps" -> MaxBlocks * WarpsPerBlock
       [] OTHER -> MaxBlocks * WarpsPerBlock * LanesPerWarp + 1]
MCDemand ==
  [b \in MCBlock |-> [f \in {"blocks", "warps", "threads", "registers", "shmem"} |->
     CASE f = "blocks" -> 1
       [] f = "warps" -> WarpsPerBlock
       [] f = "threads" /\ b = OversizeBlock -> MCLimit["threads"] + 1
       [] OTHER -> WarpsPerBlock * LanesPerWarp]]

\* A scheduler that has run nothing, and one that has run a grid of larger blocks:
\* its index and ids are beyond the warps of this one, or name some of them.
MCLeftovers ==
  { FreshScheduler, [next |-> 7, last |-> 1, active |-> <<1, 5, 0>>, rr |-> 2] }
OnlyFresh == {FreshScheduler}

Alu == [op |-> "ALU", imm |-> 0]
Mem == [op |-> "MEM", imm |-> 0]
Cmp == [op |-> "CMP", imm |-> 0]
Branch(i) == [op |-> "BRANCH", imm |-> i]
Ssy(i) == [op |-> "SSY", imm |-> i]
Sync == [op |-> "SYNC", imm |-> 0]
Bar == [op |-> "BARRIER", imm |-> 0]

\* Kernels in which every warp of a block executes the same BARRIERs.
MatchedBarriers == { <<Bar>>, <<Mem, Bar, Alu>>, <<Alu, Bar, Mem, Bar>> }

\* Kernels that break the rules: a BARRIER some warps or some lanes go around,
\* a SYNC without an SSY.
IllFormed == { <<Cmp, Branch(2), Bar, Mem>>, <<Cmp, Branch(2), Sync, Bar>> }

\* A BARRIER that a warp whose lanes compare equal goes around.
SkippedBarrier == { <<Cmp, Branch(2), Bar, Alu>> }

\* Without barriers; in the second one each path ends with a memory instruction.
NoBarrier == { <<Alu, Mem, Alu, Mem>>, <<Cmp, Branch(2), Mem, Mem>> }

IllFormedOrNone == IllFormed \cup NoBarrier

\* The lanes that compare equal skip the body (as the benchmark kernels do it);
\* lanes repeat the body until they compare unequal.
Guarded(body) == <<Ssy(Len(body) + 3), Cmp, Branch(Len(body) + 1)>> \o body \o <<Sync>>
Loop(body) == <<Ssy(Len(body) + 4)>> \o body \o <<Cmp, Branch(-(Len(body) + 1)), Alu, Sync>>

\* Every nest of at most two regions or sequences of regions, and loops in them,
\* each before a BARRIER; and an if/else.
Flat == { <<Alu>>, Guarded(<<Alu>>), Loop(<<>>) }
Bodies == Flat \cup { a \o b : a \in Flat, b \in Flat }
Structured ==
  { b \o <<Bar>> : b \in Bodies \cup { Guarded(b) : b \in Bodies } \cup { Loop(b) : b \in Flat } }
  \cup { Guarded(a) \o Guarded(b) \o <<Bar>> : a \in Flat, b \in Flat }
  \cup { <<Ssy(6), Cmp, Branch(3), Cmp, Branch(2), Alu, Sync, Bar>> }

\* Divergence that only the end of the kernel resolves.
Unsynced ==
  { <<Cmp, Branch(2), Alu, Cmp, Branch(2), Alu, Alu>>,
    <<Alu, Cmp, Branch(-2), Alu>> }

Divergent == Structured \cup Unsynced

\* The theorems on divergence are about kernels like these.
ASSUME KernelsNested ==
  (\A k \in Divergent : WellNested(k)) /\ (\A k \in Structured : Synchronized(k))
=============================================================================
