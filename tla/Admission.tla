----------------------------- MODULE Admission -----------------------------
(***************************************************************************)
(* The admission arithmetic of an SM (src/src/architecture/sm.cpp).  An SM *)
(* keeps five running totals (blocks, warps, threads, registers, bytes of  *)
(* shared memory); a block is admitted when every total stays within the   *)
(* limit of the configuration.                                             *)
(***************************************************************************)
EXTENDS Integers

Resource == {"blocks", "warps", "threads", "registers", "shmem"}

NothingAllocated == [f \in Resource |-> 0]

\* Mutant of Fits: the shared memory is not looked at.
FitsButShmem(alloc, need, limit) ==
  \A f \in Resource \ {"shmem"} : alloc[f] + need[f] <= limit[f]

\* SM::can_admit: the five early returns are the five instances of f.
Fits(alloc, need, limit) == \A f \in Resource : alloc[f] + need[f] <= limit[f]

\* The totals after SM::allocate_block.
Plus(alloc, need) == [f \in Resource |-> alloc[f] + need[f]]
=============================================================================
