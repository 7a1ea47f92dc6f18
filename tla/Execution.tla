----------------------------- MODULE Execution -----------------------------
(***************************************************************************)
(* A benchmark job carried out by its warps, with registers and memory:    *)
(* InstructionExecutor::execute in full, on the control flow of SIMT, and  *)
(* the barrier of SM.  A warp executes one instruction at a time and any   *)
(* ready warp may be next: this covers every scheduler, every latency and  *)
(* every order in which blocks are dispatched.  The blocks are on one SM,  *)
(* so that they share its shared memory.                                   *)
(*                                                                         *)
(* The exceptions of the executor are not steps here: NoFault says that    *)
(* no kernel meets one (SM and MemorySystem model what they leave behind). *)
(* Neither is the fetch past the end: the warps of these kernels complete  *)
(* with their last instruction, and a warp left over would be a deadlock.  *)
(***************************************************************************)
EXTENDS SIMT, FiniteSetsExt

CONSTANTS Jobs, SharedBase

ASSUME JobsAssumption ==
  /\ SharedBase \in Nat
  /\ \A j \in Jobs : /\ j.warpSize \in Nat \ {0} /\ j.cells \subseteq Nat
                     /\ DOMAIN j.input \subseteq j.cells
                     /\ DOMAIN j.expected \subseteq j.cells
                     /\ j.stale # {}

VARIABLES
  job,       \* the kernel and the grid that are run, and the expected output
  ctx,       \* the execution context of each warp
  regs,      \* the registers of each lane of each warp
  state,     \* WarpState of each warp
  mem,       \* global memory, and shared memory from SharedBase
  touched    \* history: the accesses each block made since its last barrier, as
             \* <<warp, address, kind, value written>>

vars == <<job, ctx, regs, state, mem, touched>>

Kernel == job.kernel
Size == Len(Kernel)
WarpSize == job.warpSize
Blocks == 0..Len(job.threads)-1
ThreadsIn(b) == job.threads[b + 1]

\* A warp is its block and its number in the block, as the grids build them.
Warps == UNION {{<<b, w>> : w \in 0..(ThreadsIn(b) + WarpSize - 1) \div WarpSize - 1} :
                  b \in Blocks}
Lanes(w) == {l \in 0..WarpSize-1 : w[2] * WarpSize + l < ThreadsIn(w[1])}
Mates(w) == {u \in Warps : u[1] = w[1] /\ u # w}

Init ==
  \E j \in Jobs :
    /\ job = [kernel |-> j.kernel, threads |-> j.threads, warpSize |-> j.warpSize,
              expected |-> j.expected]
    /\ ctx = [w \in Warps |-> FreshContext(Lanes(w))]
    /\ regs = [w \in Warps |-> [l \in Lanes(w) |-> j.regs[<<w[1], w[2] * WarpSize + l>>]]]
    /\ state = [w \in Warps |-> "Ready"]
    /\ \E old \in j.stale :
         mem = [a \in j.cells |-> IF a \in DOMAIN j.input THEN j.input[a]
                                 ELSE IF a >= SharedBase THEN old ELSE 0]
    /\ touched = {}

-----------------------------------------------------------------------------
Inst(w) == Kernel[ctx[w].pc + 1]
Op(w) == Inst(w)[1]
Dst(w) == Inst(w)[2]
Imm(w) == Inst(w)[5]
R(w, l, r) == regs[w][l][r]
Src1(w, l) == R(w, l, Inst(w)[3])
Src2(w, l) == R(w, l, Inst(w)[4])

\* What a lane computes with ADD, SUB, MUL or MOV.
Alu(w, l) ==
  CASE Op(w) = "ADD" -> Src1(w, l) + Src2(w, l)
    [] Op(w) = "SUB" -> Src1(w, l) - Src2(w, l)
    [] Op(w) = "MUL" -> Src1(w, l) * Src2(w, l)
    [] Op(w) = "MOV" -> IF Inst(w)[3] = -1 THEN Imm(w) ELSE Src1(w, l)

\* The address of a lane: LOAD has its base in src1, STORE and ATOMIC_ADD in src2.
Addr(w, l) ==
  LET base == IF Op(w) = "LOAD" THEN Inst(w)[3] ELSE Inst(w)[4]
  IN  (IF base = -1 THEN 0 ELSE R(w, l, base)) + Imm(w)

Active(w) == ctx[w].mask
Addrs(w) == {Addr(w, l) : l \in Active(w)}
At(w, a) == {l \in Active(w) : Addr(w, l) = a}

\* The memory after a STORE: the last of the lanes at an address wins.
Stored(w) == [a \in DOMAIN mem |-> IF a \in Addrs(w) THEN Src1(w, Max(At(w, a))) ELSE mem[a]]

\* Mutant of Added: lanes that collide add once.
AddedOnce(w) ==
  [a \in DOMAIN mem |-> IF a \in Addrs(w) THEN mem[a] + Src1(w, Max(At(w, a))) ELSE mem[a]]

\* The memory after an ATOMIC_ADD: every lane counts.
Added(w) == [a \in DOMAIN mem |-> mem[a] + MapThenSumSet(LAMBDA l : Src1(w, l), At(w, a))]

\* The active lanes' dst after each computed v[l].
Written(w, v) ==
  [regs EXCEPT ![w] = [l \in DOMAIN regs[w] |->
     IF l \in Active(w) THEN [regs[w][l] EXCEPT ![Dst(w)] = v[l]] ELSE regs[w][l]]]

-----------------------------------------------------------------------------
\* w is selected and fetches an instruction with one of these opcodes.
Fetch(w, ops) == state[w] = "Ready" /\ ctx[w].pc < Size /\ Op(w) \in ops

\* Step 5 of SM::tick.
Retire(w, c) ==
  /\ ctx' = [ctx EXCEPT ![w] = PathEnded(c, Size)]
  /\ state' = [state EXCEPT ![w] = IF c.pc >= Size /\ c.stack = <<>> THEN "Completed" ELSE @]

\* History: w reads or adds to its addresses, or writes what Stored says.
Touch(w, kind) ==
  touched' = touched \cup {<<w, a, kind, IF kind = "write" THEN mem'[a] ELSE 0>> : a \in Addrs(w)}

\* Every address is a cell and all are in one space.
AccessOK(w) ==
  /\ Addrs(w) \subseteq DOMAIN mem
  /\ \A a, b \in Addrs(w) : (a >= SharedBase) = (b >= SharedBase)

ExecAlu(w) ==
  /\ Fetch(w, {"ADD", "SUB", "MUL", "MOV"})
  /\ regs' = Written(w, [l \in Active(w) |-> Alu(w, l)])
  /\ Retire(w, Advanced(ctx[w]))
  /\ UNCHANGED <<job, mem, touched>>

ExecLoad(w) ==
  /\ Fetch(w, {"LOAD"}) /\ AccessOK(w) /\ Touch(w, "read")
  /\ regs' = Written(w, [l \in Active(w) |-> mem[Addr(w, l)]])
  /\ Retire(w, Advanced(ctx[w]))
  /\ UNCHANGED <<job, mem>>

ExecStore(w) ==
  /\ Fetch(w, {"STORE"}) /\ AccessOK(w)
  /\ mem' = Stored(w) /\ Touch(w, "write")
  /\ Retire(w, Advanced(ctx[w]))
  /\ UNCHANGED <<job, regs>>

ExecAtomicAdd(w) ==
  /\ Fetch(w, {"ATOMIC_ADD"}) /\ AccessOK(w) /\ Touch(w, "atomic")
  /\ mem' = Added(w)
  /\ Retire(w, Advanced(ctx[w]))
  /\ UNCHANGED <<job, regs>>

ExecCmp(w) ==
  /\ Fetch(w, {"CMP"})
  /\ Retire(w, Compared(ctx[w], {l \in Active(w) : Src1(w, l) = Src2(w, l)}))
  /\ UNCHANGED <<job, regs, mem, touched>>

ExecBranch(w) ==
  /\ Fetch(w, {"BRANCH"}) /\ Retire(w, Branched(ctx[w], Imm(w)))
  /\ UNCHANGED <<job, regs, mem, touched>>

ExecSsy(w) ==
  /\ Fetch(w, {"SSY"}) /\ Retire(w, TokenPushed(ctx[w], Imm(w)))
  /\ UNCHANGED <<job, regs, mem, touched>>

ExecSync(w) ==
  /\ Fetch(w, {"SYNC"}) /\ ctx[w].stack # <<>> /\ Retire(w, Synced(ctx[w]))
  /\ UNCHANGED <<job, regs, mem, touched>>

AllIn(w) == \A u \in Mates(w) : state[u] \in {"StalledAtBarrier", "Completed"}
Malformed(w) == AllIn(w) /\ \E u \in Mates(w) : state[u] = "Completed"

\* handle_barrier_arrival: the last warp of the block frees the others.
ExecBarrier(w) ==
  /\ Fetch(w, {"BARRIER"}) /\ Active(w) = Lanes(w) /\ ~Malformed(w)
  /\ ctx' = [ctx EXCEPT ![w] = PathEnded(Advanced(@), Size)]
  /\ IF AllIn(w)
     THEN /\ state' = [u \in Warps |->
                         IF u \in Mates(w) THEN "Ready"
                         ELSE IF u = w /\ ctx[w].pc + 1 >= Size /\ ctx[w].stack = <<>>
                         THEN "Completed" ELSE state[u]]
          /\ touched' = {t \in touched : t[1][1] # w[1]}
     ELSE /\ state' = [state EXCEPT ![w] = "StalledAtBarrier"]
          /\ UNCHANGED touched
  /\ UNCHANGED <<job, regs, mem>>

Exec(w) ==
  \/ ExecAlu(w) \/ ExecLoad(w) \/ ExecStore(w) \/ ExecAtomicAdd(w) \/ ExecCmp(w)
  \/ ExecBranch(w) \/ ExecSsy(w) \/ ExecSync(w) \/ ExecBarrier(w)

Done == \A w \in Warps : state[w] = "Completed"
Ended == Done /\ UNCHANGED vars

Next == (\E w \in Warps : Exec(w)) \/ Ended

Spec == Init /\ [][Next]_vars

\* The host loop goes on as long as some warp can be selected.
FairSpec == Spec /\ WF_vars(Next)

-----------------------------------------------------------------------------
(* Properties.                                                             *)

\* The correctness check of each benchmark ("Correctness check FAILED" is never
\* reported): when the kernel is over, its output cells hold what the CPU
\* computed, whatever the order in which the warps ran.
MatchesReference ==
  Done => \A a \in DOMAIN job.expected : mem[a] = job.expected[a]

\* Between two barriers of a block no cell is written by one of its warps and
\* accessed by another, or by a warp of another block, atomic additions and
\* writes of one and the same value apart (threads of vector_add overlap): the
\* barriers of the kernels are enough, and the shared-memory regions of the
\* blocks are disjoint.
NoRaces ==
  \A s, t \in touched :
    s[1] # t[1] /\ s[2] = t[2] => s[3] = t[3] /\ s[4] = t[4]

\* No kernel meets an exception: every access is in bounds and in one space, no
\* SYNC finds an empty stack, every BARRIER is met by whole warps and by all
\* warps of the block.
NoFault ==
  \A w \in Warps : state[w] = "Ready" /\ ctx[w].pc < Size =>
    /\ Op(w) \in {"LOAD", "STORE", "ATOMIC_ADD"} => AccessOK(w)
    /\ Op(w) = "SYNC" => ctx[w].stack # <<>>
    /\ Op(w) = "BARRIER" => Active(w) = Lanes(w) /\ ~Malformed(w)

\* The loops and the barriers of the kernels end.
Terminates == <>Done
=============================================================================
