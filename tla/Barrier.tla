------------------------------- MODULE Barrier -------------------------------
(***************************************************************************)
(* What a block barrier promises, with no scheduler, stack or cycle: the   *)
(* warps of a block leave a barrier together, and only when every one of   *)
(* them has arrived.  SM implements this specification.                    *)
(***************************************************************************)
EXTENDS Integers

CONSTANTS Warp, BlockOf

VARIABLES
  waiting,    \* the warps stopped at their block's barrier
  passed,     \* how many barriers each warp has left behind
  exited      \* the warps that finished the kernel

barrierVars == <<waiting, passed, exited>>

BlockMates(w) == {u \in Warp : BlockOf[u] = BlockOf[w]}
Running(w) == w \in Warp \ (waiting \cup exited)

BarrierInit == waiting = {} /\ passed = [w \in Warp |-> 0] /\ exited = {}

\* w arrives and some other warp of its block has not.
Wait(w) ==
  /\ Running(w) /\ \E u \in BlockMates(w) \ {w} : u \notin waiting
  /\ waiting' = waiting \cup {w}
  /\ UNCHANGED <<passed, exited>>

\* w is the last to arrive: the whole block passes.  If the barrier was the
\* end of the kernel, w is through with it at once.
Release(w) ==
  /\ Running(w) /\ BlockMates(w) \ {w} \subseteq waiting
  /\ waiting' = waiting \ BlockMates(w)
  /\ passed' = [u \in Warp |-> IF u \in BlockMates(w) THEN passed[u] + 1 ELSE passed[u]]
  /\ exited' \in {exited, exited \cup {w}}

Exit(w) ==
  /\ Running(w)
  /\ exited' = exited \cup {w}
  /\ UNCHANGED <<waiting, passed>>

BarrierNext == \E w \in Warp : Wait(w) \/ Release(w) \/ Exit(w)

BarrierSpec == BarrierInit /\ [][BarrierNext]_barrierVars
=============================================================================
