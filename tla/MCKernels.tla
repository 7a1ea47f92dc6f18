----------------------------- MODULE MCKernels -----------------------------
(***************************************************************************)
(* The benchmark kernels on small grids: one warp and several, one block   *)
(* and two, partial last blocks and partial warps.                         *)
(***************************************************************************)
EXTENDS Execution

K == INSTANCE Kernels

\* ReductionJob(elements, block size, warp size).
\* HistogramJob(elements, block size, bins, pattern, warp size).
\* GemmJob(M, N, K, tile size, warp size).
\* VectorAddJob(threads, block size, iterations, stride, warp size).
\* MemcpyJob(threads, block size, iterations, pattern, warp size).
MCJobs ==
  { K!ReductionJob(4, 4, 2), K!ReductionJob(3, 4, 2), K!ReductionJob(3, 2, 1),
     K!ReductionJob(6, 8, 2), K!ReductionJob(1, 1, 2),
     K!HistogramJob(4, 4, 6, 6, 2), K!HistogramJob(4, 4, 5, 4, 3),
     K!HistogramJob(4, 2, 4, 4, 2), K!HistogramJob(3, 3, 2, 1, 2),
     K!GemmJob(2, 2, 4, 2, 2), K!GemmJob(2, 4, 2, 2, 4), K!GemmJob(2, 1, 2, 1, 2),
     K!VectorAddJob(5, 4, 2, 4, 2), K!VectorAddJob(3, 2, 2, 32, 2),
     K!MemcpyJob(5, 4, 2, "contiguous", 2), K!MemcpyJob(3, 4, 3, "strided", 2),
     K!MemcpyJob(5, 3, 2, "random", 2) }

\* A last block with fewer threads than bins.
PartialJobs == { K!HistogramJob(4, 3, 2, 2, 2) }

\* The control flow of a kernel, as SIMT has it.
ControlFlow(kernel) ==
  [i \in DOMAIN kernel |->
     [op  |-> CASE kernel[i][1] \in {"ADD", "SUB", "MUL", "MOV"} -> "ALU"
                [] kernel[i][1] \in {"LOAD", "STORE", "ATOMIC_ADD"} -> "MEM"
                [] OTHER -> kernel[i][1],
      imm |-> kernel[i][5]]]

\* The benchmark kernels are well nested, so that the theorems on divergence are
\* about them.
ASSUME BenchmarksNested == \A j \in Jobs : WellNested(ControlFlow(j.kernel))
=============================================================================
