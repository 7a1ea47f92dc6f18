-------------------------------- MODULE SIMT --------------------------------
(***************************************************************************)
(* The control flow of one warp (InstructionExecutor::execute and the SIMT *)
(* stack of Warp).  A context c is the part of a Warp that execution       *)
(* changes:                                                                *)
(*   pc      warp_pc_            mask   active_mask_, the active lanes     *)
(*   reconv  reconvergence_pc_   stack  simt_stack_, its top the last entry*)
(*   pred    the lanes whose thread has predicate_ true                    *)
(*   shadow  each thread's own pc_, written by update_shadow_pcs           *)
(* Registers and memory are not kept: what a CMP finds is chosen by the    *)
(* caller.  Program counters are size_t: sums wrap at SizeT.               *)
(***************************************************************************)
EXTENDS Integers, Sequences

CONSTANTS SizeT      \* 2^64 in the code; any bound above every target will do

ASSUME SizeTAssumption == SizeT \in Nat /\ SizeT > 1

Wrap(n) == n % SizeT
NoPc == SizeT - 1    \* static_cast<size_t>(-1)
PC == 0..SizeT-1

\* ALU stands for ADD, SUB, MUL and MOV, MEM for LOAD, STORE and ATOMIC_ADD.
Opcode == {"ALU", "MEM", "CMP", "BRANCH", "SSY", "SYNC", "BARRIER"}
Instruction == [op : Opcode, imm : Int]

\* SIMTStackEntry.
Entry(lanes) == [mask : SUBSET lanes, target : PC, reconv : PC]

Context(lanes) ==
  [pc : PC, mask : SUBSET lanes, reconv : PC, stack : Seq(Entry(lanes)),
   pred : SUBSET lanes, shadow : [lanes -> PC]]

\* The lanes active_mask_ has a bit for.
MaskBit == 0..31

\* A warp as its constructor and add_thread leave it: every lane active at 0.
FreshContext(lanes) ==
  [pc |-> 0, mask |-> lanes, reconv |-> NoPc, stack |-> <<>>,
   pred |-> {}, shadow |-> [l \in lanes |-> 0]]

\* update_shadow_pcs: the mask is the one captured before the instruction.
Shadowed(c, mask, pc) ==
  [c EXCEPT !.pc = pc,
            !.shadow = [l \in DOMAIN c.shadow |->
                          IF l \in mask THEN pc ELSE c.shadow[l]]]

Top(c) == c.stack[Len(c.stack)]
Pushed(c, e) == [c EXCEPT !.stack = Append(c.stack, e)]
Popped(c) == [c EXCEPT !.stack = SubSeq(c.stack, 1, Len(c.stack) - 1),
                       !.mask = Top(c).mask, !.reconv = Top(c).reconv]

\* ADD, SUB, MUL, MOV, LOAD, STORE, ATOMIC_ADD and BARRIER move one on.
Advanced(c) == Shadowed(c, c.mask, Wrap(c.pc + 1))

\* CMP: taken is the set of active lanes whose two registers are equal.
Compared(c, equal) == Advanced([c EXCEPT !.pred = (c.pred \ c.mask) \cup equal])

\* Mutant of Branched: the deferred lanes are given the branch target.
BranchedTogether(c, imm) ==
  LET taken    == c.mask \cap c.pred
      target   == Wrap(c.pc + imm)
      deferred == [mask |-> c.mask \ taken, target |-> target, reconv |-> c.reconv]
  IN  IF taken = {} THEN Advanced(c)
      ELSE IF taken = c.mask THEN Shadowed(c, c.mask, target)
      ELSE Shadowed([Pushed(c, deferred) EXCEPT !.mask = taken], c.mask, target)

\* BRANCH: the deferred path of a divergent branch falls through later.
Branched(c, imm) ==
  LET taken    == c.mask \cap c.pred
      target   == Wrap(c.pc + imm)
      deferred == [mask |-> c.mask \ taken, target |-> Wrap(c.pc + 1),
                   reconv |-> c.reconv]
  IN  IF taken = {} THEN Advanced(c)
      ELSE IF taken = c.mask THEN Shadowed(c, c.mask, target)
      ELSE Shadowed([Pushed(c, deferred) EXCEPT !.mask = taken], c.mask, target)

\* SSY pushes the reconvergence token.
TokenPushed(c, imm) ==
  LET target == Wrap(c.pc + imm)
      token  == [mask |-> c.mask, target |-> target, reconv |-> c.reconv]
  IN  Advanced([Pushed(c, token) EXCEPT !.reconv = target])

\* Mutant of Synced: the token's mask is not restored.
SyncedMaskKept(c) ==
  Shadowed([Popped(c) EXCEPT !.mask = IF Top(c).target = c.pc THEN c.mask ELSE @], c.mask,
           IF Top(c).target = c.pc THEN Wrap(c.pc + 1) ELSE Top(c).target)

\* SYNC with a stack that is not empty: an entry whose target is this SYNC is
\* taken for the token, any other for a deferred path.
Synced(c) ==
  Shadowed(Popped(c), c.mask,
           IF Top(c).target = c.pc THEN Wrap(c.pc + 1) ELSE Top(c).target)

\* Step 5 of SM::tick: a path that ran off the kernel's end yields to the entry
\* on top of the stack, whose lanes' shadow PCs are set.
PathEnded(c, size) ==
  IF c.pc >= size /\ c.stack # <<>>
  THEN Shadowed(Popped(c), Top(c).mask, Top(c).target)
  ELSE c

-----------------------------------------------------------------------------
(* Where a lane stands in the program, whatever the warp does with it: the *)
(* reference the SIMT machinery is measured against.                       *)

Holders(c, lane) == {i \in DOMAIN c.stack : lane \in c.stack[i].mask}
TopHolder(c, lane) == CHOOSE i \in Holders(c, lane) : \A j \in Holders(c, lane) : j <= i

\* The next instruction of a lane: the warp's if it is active, else the target
\* of the topmost entry that holds it; size once it has left the kernel.
LanePc(c, lane, size) ==
  LET at == IF lane \in c.mask THEN c.pc
            ELSE IF Holders(c, lane) = {} THEN size
            ELSE c.stack[TopHolder(c, lane)].target
  IN  IF at < size THEN at ELSE size

\* Where the instruction at p sends one lane by itself: a lane of BRANCH goes
\* to PC + immediate if its predicate is true and to PC + 1 otherwise, every
\* other instruction goes to PC + 1.
LaneNext(kernel, c, lane, p) ==
  LET i == kernel[p + 1]
      q == Wrap(IF i.op = "BRANCH" /\ lane \in c.pred THEN p + i.imm ELSE p + 1)
  IN  IF q < Len(kernel) THEN q ELSE Len(kernel)

-----------------------------------------------------------------------------
(* Kernels whose divergence is structured: the shape that the SIMT stack,  *)
(* which knows its tokens by their target alone, relies on.                *)

\* The SYNC that closes the innermost region around p, NoPc outside of all: the
\* region of an SSY reaches from the instruction after it to its target.
Region(kernel, p) ==
  LET opens(q) == kernel[q + 1].op = "SSY" /\ q < p /\ p <= q + kernel[q + 1].imm
      closing  == {q + kernel[q + 1].imm : q \in {q \in 0..Len(kernel)-1 : opens(q)}}
  IN  IF p >= Len(kernel) \/ closing = {} THEN NoPc
      ELSE CHOOSE t \in closing : \A u \in closing : t <= u

\* Every region is entered by its SSY and left by its SYNC, regions are nested,
\* and a BRANCH stands neither last nor right before a SYNC, so that the path it
\* defers is never taken for a token.
WellNested(kernel) ==
  /\ Len(kernel) < SizeT
  /\ \A p \in 0..Len(kernel)-1 :
       LET op     == kernel[p + 1].op
           target == Wrap(p + kernel[p + 1].imm)
       IN  /\ op \notin {"SSY", "SYNC"} => Region(kernel, p + 1) = Region(kernel, p)
           /\ op = "BRANCH" => /\ Region(kernel, target) = Region(kernel, p)
                               /\ p + 1 < Len(kernel) /\ kernel[p + 2].op # "SYNC"
           /\ op = "SSY" => /\ target < Len(kernel) /\ kernel[target + 1].op = "SYNC"
                            /\ Region(kernel, p + 1) = target
                            /\ Region(kernel, target + 1) = Region(kernel, p)
           /\ op = "SYNC" => Region(kernel, p) = p

\* Lanes part only in a region and meet only outside of all.
Synchronized(kernel) ==
  \A p \in 0..Len(kernel)-1 :
    /\ kernel[p + 1].op = "BRANCH" => Region(kernel, p) # NoPc
    /\ kernel[p + 1].op = "BARRIER" => Region(kernel, p) = NoPc
=============================================================================
