------------------------------ MODULE Kernels ------------------------------
(***************************************************************************)
(* The benchmark kernels (src/src/runtime/benchmarks.cpp) and the registers*)
(* their grids start with.  An instruction is written as in the source,    *)
(* <<opcode, dst, src1, src2, immediate>>.  A job is a                     *)
(* kernel with a grid, the input it finds in global memory and the output  *)
(* the benchmark computes on the CPU to compare with:                      *)
(*   threads[b + 1]    the threads of block b, warpSize to a warp          *)
(*   regs[<<b, i>>]    the registers of thread i of block b                *)
(*   input, expected   functions from addresses to values                  *)
(*   cells             the cells of memory the job may use                 *)
(*   stale             what shared cells may hold from an earlier launch   *)
(***************************************************************************)
EXTENDS Integers, Sequences, FiniteSets, SequencesExt

CONSTANT SharedBase       \* 0x10000000

Reg == 0..31
Barrier == <<"BARRIER", 0, 0, 0, 0>>
Sync == <<"SYNC", 0, 0, 0, 0>>
Bit(b) == IF b THEN 1 ELSE 0
Ceil(n, d) == (n + d - 1) \div d

\* The lanes whose register reg is zero (R19) skip the body.
Guarded(reg, body) ==
  << <<"SSY", -1, -1, -1, Len(body) + 3>>, <<"CMP", -1, reg, 19, 0>>,
     <<"BRANCH", -1, -1, -1, Len(body) + 1>> >> \o body \o <<Sync>>

\* The cells of n words from address a, and the memory they make with values v.
Words(a, n) == {a + 4 * i : i \in 0..n-1}
Array(a, v) == [x \in Words(a, Len(v)) |-> v[(x - a) \div 4 + 1]]

\* The threads of the blocks of build_*_grid: the last block may be partial.
BlockThreads(n, size) ==
  [b \in 1..Ceil(n, size) |-> IF b * size <= n THEN size ELSE n - (b - 1) * size]
ThreadsOf(threads) == UNION {{<<b - 1, i>> : i \in 0..threads[b]-1} : b \in DOMAIN threads}

-----------------------------------------------------------------------------
(* Vector addition and memory copy, without barriers.                      *)

VectorAddKernel(iterations) ==
  FlattenSeq([i \in 1..iterations |->
    << <<"LOAD", 3, 0, -1, (i - 1) * 4>>, <<"LOAD", 4, 1, -1, (i - 1) * 4>>,
       <<"ADD", 5, 3, 4, 0>>, <<"STORE", 2, 5, 2, (i - 1) * 4>> >>])

\* run_experiment and run_analysis: the arrays are never filled, and nothing is
\* compared.  From the second iteration on, a thread of the unstrided grid works
\* on the elements of the threads after it.
VectorAddJob(n, size, iterations, stride, warpSize) ==
  LET threads == BlockThreads(n, size)
      id(t)   == t[1] * size + t[2]
      Reached == {stride * g + 4 * i : g \in 0..n-1, i \in 0..iterations-1}
  IN  [kernel |-> VectorAddKernel(iterations), threads |-> threads, warpSize |-> warpSize,
       regs |-> [t \in ThreadsOf(threads) |->
                   [r \in Reg |-> IF r \in 0..2 THEN r * 10000 + stride * id(t) ELSE 0]],
       input |-> <<>>, expected |-> <<>>, stale |-> {0},
       cells |-> UNION {{a + x : x \in Reached} : a \in {0, 10000, 20000}}]

MemcpyKernel(iterations) ==
  FlattenSeq([i \in 1..iterations |->
    << <<"LOAD", 3, 0, -1, 0>>, <<"STORE", -1, 3, 1, 0>> >>
    \o (IF i < iterations THEN << <<"ADD", 0, 0, 2, 0>>, <<"ADD", 1, 1, 2, 0>> >> ELSE <<>>)])

\* The offset of thread g and the distance of its elements.
MemcpyOffset(n, pattern, g) ==
  CASE pattern = "contiguous" -> g * 4
    [] pattern = "strided" -> g * 32
    [] pattern = "random" -> ((g * 101) % n) * 4
MemcpyStride(n, pattern) == n * (IF pattern = "strided" THEN 32 ELSE 4)

\* run_memcpy_benchmark: one element per thread and iteration.  (n is no multiple
\* of 101, or threads of the pattern "random" would share an element.)
MemcpyJob(n, size, iterations, pattern, warpSize) ==
  LET threads   == BlockThreads(n, size)
      Element   == (0..n-1) \X (0..iterations-1)
      at(e)     == MemcpyOffset(n, pattern, e[1]) + e[2] * MemcpyStride(n, pattern)
      val(e)    == ((e[1] + e[2]) % 255) + 1
      Array2(a) == [x \in {a + at(e) : e \in Element} |->
                      val(CHOOSE e \in Element : a + at(e) = x)]
      regs(g)   == [r \in Reg |-> CASE r = 0 -> MemcpyOffset(n, pattern, g)
                                     [] r = 1 -> 1000000 + MemcpyOffset(n, pattern, g)
                                     [] r = 2 -> MemcpyStride(n, pattern)
                                     [] OTHER -> 0]
  IN  [kernel |-> MemcpyKernel(iterations), threads |-> threads, warpSize |-> warpSize,
       regs |-> [t \in ThreadsOf(threads) |-> regs(t[1] * size + t[2])],
       input |-> Array2(0), expected |-> Array2(1000000), stale |-> {0},
       cells |-> DOMAIN Array2(0) \cup DOMAIN Array2(1000000)]

-----------------------------------------------------------------------------
(* Reduction.                                                              *)

Stride(size, k) == size \div 2^k

\* Mutant of Round: the rounds are not separated by a BARRIER.
RoundNoBarrier(size, k) ==
  Guarded(19 + k,
    << <<"LOAD", 10, 1, -1, 0>>, <<"MOV", 15, -1, -1, Stride(size, k) * 4>>,
       <<"ADD", 16, 1, 15, 0>>, <<"LOAD", 11, 16, -1, 0>>,
       <<"ADD", 12, 10, 11, 0>>, <<"STORE", -1, 12, 1, 0>> >>)

\* Mutant of Round: the BARRIER is pushed before the SYNC.
RoundBarrierInside(size, k) ==
  Guarded(19 + k,
    << <<"LOAD", 10, 1, -1, 0>>, <<"MOV", 15, -1, -1, Stride(size, k) * 4>>,
       <<"ADD", 16, 1, 15, 0>>, <<"LOAD", 11, 16, -1, 0>>,
       <<"ADD", 12, 10, 11, 0>>, <<"STORE", -1, 12, 1, 0>>, Barrier >>)

\* Round k: shared[tid] += shared[tid + stride] where the predicate is set.
Round(size, k) ==
  Guarded(19 + k,
    << <<"LOAD", 10, 1, -1, 0>>, <<"MOV", 15, -1, -1, Stride(size, k) * 4>>,
       <<"ADD", 16, 1, 15, 0>>, <<"LOAD", 11, 16, -1, 0>>,
       <<"ADD", 12, 10, 11, 0>>, <<"STORE", -1, 12, 1, 0>> >>) \o <<Barrier>>

Rounds(size) == Cardinality({k \in 1..size : Stride(size, k) > 0})

ReductionKernel(size) ==
  << <<"LOAD", 10, 0, -1, 0>>, <<"STORE", -1, 10, 1, 0>>, Barrier,
     <<"MOV", 19, -1, -1, 0>> >>
  \o FlattenSeq([k \in 1..Rounds(size) |-> Round(size, k)])
  \o Guarded(3, << <<"LOAD", 10, 1, -1, 0>>, <<"STORE", -1, 10, 2, 0>> >>)

ReductionRegs(n, size, b, i) ==
  [r \in Reg |-> CASE r = 0 -> (b * size + i) * 4
                   [] r = 1 -> SharedBase + (b * size + i) * 4
                   [] r = 2 -> n * 4 + b * 4
                   [] r = 3 -> Bit(i = 0)
                   [] r \in 20..31 -> Bit(i < Stride(size, r - 19))
                   [] OTHER -> 0]

\* run_reduction_benchmark: the sum of every block's elements.  A partial block
\* adds shared cells that none of its threads writes, and counts on their zeros.
ReductionJob(n, size, warpSize) ==
  LET threads == BlockThreads(n, size)
      val     == [i \in 1..n |-> ((i - 1) % 5) + 1]
      sum(b)  == FoldSeq(LAMBDA x, y : x + y, 0,
                         SubSeq(val, (b - 1) * size + 1, (b - 1) * size + threads[b]))
  IN  [kernel |-> ReductionKernel(size), threads |-> threads, warpSize |-> warpSize,
       regs |-> [t \in ThreadsOf(threads) |-> ReductionRegs(n, size, t[1], t[2])],
       input |-> Array(0, val),
       expected |-> Array(n * 4, [b \in DOMAIN threads |-> sum(b)]),
       cells |-> Words(0, n + Len(threads)) \cup Words(SharedBase, Len(threads) * size),
       stale |-> IF n % size = 0 THEN {0, 9} ELSE {0}]

-----------------------------------------------------------------------------
(* Histogram.                                                              *)

\* R13 = 4 * (local_id + offset) and R14 = shared_base + R13, in iteration k.
BinAddress(size, k) ==
  << <<"MOV", 15, -1, -1, (k - 1) * size>>, <<"ADD", 16, 5, 15, 0>>,
     <<"MUL", 13, 16, 12, 0>>, <<"ADD", 14, 1, 13, 0>> >>

ZeroBins(size, k) == Guarded(19 + k, BinAddress(size, k) \o << <<"STORE", -1, 19, 14, 0>> >>)

CopyBins(size, k) ==
  Guarded(19 + k, BinAddress(size, k) \o
    << <<"LOAD", 17, 14, -1, 0>>, <<"ADD", 18, 2, 13, 0>>, <<"STORE", -1, 17, 18, 0>> >>)

CountElement ==
  Guarded(4,
    << <<"LOAD", 10, 0, -1, 0>>, <<"MOV", 12, -1, -1, 4>>, <<"MUL", 13, 10, 12, 0>>,
       <<"ADD", 14, 1, 13, 0>>, <<"MOV", 16, -1, -1, 1>>, <<"ATOMIC_ADD", -1, 16, 14, 0>> >>)

HistogramKernel(bins, size) ==
  LET iters == Ceil(bins, size)
  IN  << <<"MOV", 19, -1, -1, 0>>, <<"MOV", 12, -1, -1, 4>> >>
      \o FlattenSeq([k \in 1..iters |-> ZeroBins(size, k)]) \o <<Barrier>>
      \o CountElement \o <<Barrier>>
      \o FlattenSeq([k \in 1..iters |-> CopyBins(size, k)])

HistogramRegs(n, size, bins, b, i) ==
  [r \in Reg |-> CASE r = 0 -> (b * size + i) * 4
                   [] r = 1 -> SharedBase + b * bins * 4
                   [] r = 2 -> n * 4 + b * bins * 4
                   [] r = 3 -> bins
                   [] r = 4 -> Bit(b * size + i < n)
                   [] r = 5 -> i
                   [] r \in 20..27 -> Bit(i + (r - 20) * size < bins)
                   [] OTHER -> 0]

\* run_histogram_benchmark: one histogram per block.  pattern is the modulus of
\* the input, num_bins for "uniform" and 4 for "skewed".
HistogramJob(n, size, bins, pattern, warpSize) ==
  LET threads  == BlockThreads(n, size)
      val      == [i \in 1..n |-> (i - 1) % pattern]
      count(j) == Cardinality({i \in 1..n : /\ (i - 1) \div size = (j - 1) \div bins
                                            /\ val[i] = (j - 1) % bins})
  IN  [kernel |-> HistogramKernel(bins, size), threads |-> threads, warpSize |-> warpSize,
       regs |-> [t \in ThreadsOf(threads) |-> HistogramRegs(n, size, bins, t[1], t[2])],
       input |-> Array(0, val),
       expected |-> Array(n * 4, [j \in 1..Len(threads) * bins |-> count(j)]),
       cells |-> Words(0, n + Len(threads) * bins)
                 \cup Words(SharedBase, Len(threads) * bins),
       stale |-> {0, 9}]

-----------------------------------------------------------------------------
(* Tiled matrix multiplication.                                            *)

\* Fetch one element of each tile into shared memory, at R29 and R26.
GemmFetch(tile) ==
  << <<"MUL", 20, 0, 13, 0>>, <<"ADD", 21, 20, 8, 0>>, <<"ADD", 22, 21, 3, 0>>,
     <<"MUL", 23, 22, 31, 0>>, <<"ADD", 24, 15, 23, 0>>, <<"LOAD", 25, 24, -1, 0>>,
     <<"MUL", 26, 2, 10, 0>>, <<"ADD", 27, 26, 3, 0>>, <<"MUL", 28, 27, 31, 0>>,
     <<"ADD", 29, 14, 28, 0>>, <<"STORE", -1, 25, 29, 0>>,
     <<"ADD", 20, 8, 2, 0>>, <<"MUL", 21, 20, 12, 0>>, <<"ADD", 22, 21, 1, 0>>,
     <<"MUL", 23, 22, 31, 0>>, <<"ADD", 24, 16, 23, 0>>, <<"LOAD", 25, 24, -1, 0>>,
     <<"MOV", 30, -1, -1, tile * tile * 4>>, <<"ADD", 26, 29, 30, 0>>,
     <<"STORE", -1, 25, 26, 0>> >>

\* R7 += A[row][R9] * B[R9][col] within the tiles, then R9 += 1.
GemmBody ==
  << <<"MUL", 20, 2, 10, 0>>, <<"ADD", 21, 20, 9, 0>>, <<"MUL", 22, 21, 31, 0>>,
     <<"ADD", 23, 14, 22, 0>>, <<"LOAD", 24, 23, -1, 0>>,
     <<"MUL", 20, 9, 10, 0>>, <<"ADD", 21, 20, 3, 0>>, <<"MUL", 22, 21, 31, 0>>,
     <<"ADD", 23, 14, 30, 0>>, <<"ADD", 23, 23, 22, 0>>, <<"LOAD", 25, 23, -1, 0>>,
     <<"MUL", 26, 24, 25, 0>>, <<"ADD", 7, 7, 26, 0>>,
     <<"MOV", 27, -1, -1, 1>>, <<"ADD", 9, 9, 27, 0>> >>

\* Mutant of GemmInner: the BRANCH out of the loop is not patched.
GemmInnerUnpatched ==
  << <<"CMP", -1, 9, 10, 0>>, <<"BRANCH", -1, -1, -1, 0>> >>
  \o GemmBody
  \o << <<"CMP", -1, 0, 0, 0>>, <<"BRANCH", -1, -1, -1, -(Len(GemmBody) + 3)>> >>

\* A loop without SSY: leave when CMP a, b holds before the body; the jump back
\* compares R0 with itself.
GemmInner ==
  << <<"CMP", -1, 9, 10, 0>>, <<"BRANCH", -1, -1, -1, Len(GemmBody) + 3>> >>
  \o GemmBody
  \o << <<"CMP", -1, 0, 0, 0>>, <<"BRANCH", -1, -1, -1, -(Len(GemmBody) + 3)>> >>

GemmTile(tile) ==
  GemmFetch(tile) \o << Barrier, <<"MOV", 9, -1, -1, 0>> >> \o GemmInner
  \o << Barrier, <<"ADD", 8, 8, 10, 0>> >>

GemmKernel(tile) ==
  << <<"MOV", 31, -1, -1, 4>>, <<"MOV", 8, -1, -1, 0>>, <<"MOV", 7, -1, -1, 0>> >>
  \o GemmTile(tile)
  \o << <<"CMP", -1, 8, 13, 0>>, <<"BRANCH", -1, -1, -1, 3>>,
        <<"CMP", -1, 0, 0, 0>>, <<"BRANCH", -1, -1, -1, -(Len(GemmTile(tile)) + 3)>>,
        <<"MUL", 20, 0, 12, 0>>, <<"ADD", 21, 20, 1, 0>>, <<"MUL", 22, 21, 31, 0>>,
        <<"ADD", 23, 17, 22, 0>>, <<"STORE", -1, 7, 23, 0>> >>

GemmRegs(M, N, K, tile, b, i) ==
  LET row == i \div tile
      col == i % tile
  IN  [r \in Reg |-> CASE r = 0 -> (b \div (N \div tile)) * tile + row
                       [] r = 1 -> (b % (N \div tile)) * tile + col
                       [] r = 2 -> row [] r = 3 -> col [] r = 4 -> b
                       [] r = 10 -> tile [] r = 11 -> M [] r = 12 -> N [] r = 13 -> K
                       [] r = 14 -> SharedBase + b * (2 * tile * tile * 4)
                       [] r = 15 -> 0 [] r = 16 -> M * K * 4
                       [] r = 17 -> M * K * 4 + K * N * 4
                       [] OTHER -> 0]

\* run_gemm_benchmark: C = A * B.
GemmJob(M, N, K, tile, warpSize) ==
  LET blocks  == (N \div tile) * (M \div tile)
      threads == [b \in 1..blocks |-> tile * tile]
      A(i)    == (i % 5) + 1
      B(i)    == (i % 7) + 1
      C(j)    == FoldSeq(LAMBDA x, y : x + y, 0,
                   [k \in 1..K |-> A((j \div N) * K + k - 1) * B((k - 1) * N + (j % N))])
  IN  [kernel |-> GemmKernel(tile), threads |-> threads, warpSize |-> warpSize,
       regs |-> [t \in ThreadsOf(threads) |-> GemmRegs(M, N, K, tile, t[1], t[2])],
       input |-> Array(0, [i \in 1..M * K |-> A(i - 1)] \o [i \in 1..K * N |-> B(i - 1)]),
       expected |-> Array((M * K + K * N) * 4, [j \in 1..M * N |-> C(j - 1)]),
       cells |-> Words(0, M * K + K * N + M * N)
                 \cup Words(SharedBase, blocks * 2 * tile * tile),
       stale |-> {0, 9}]
=============================================================================
