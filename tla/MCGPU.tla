------------------------------- MODULE MCGPU -------------------------------
(***************************************************************************)
(* A grid of blocks of different sizes for GPU: block b has Sizes[b] units *)
(* of every resource, an SM has room for Room units.                       *)
(***************************************************************************)
EXTENDS GPU, Sequences

CONSTANTS Sizes, Room

MCBlock == DOMAIN Sizes
MCResource == {"blocks", "warps", "threads", "registers", "shmem"}
MCDemand == [b \in MCBlock |-> [f \in MCResource |->
               IF f = "blocks" THEN 1 ELSE Sizes[b]]]
MCLimit == [f \in MCResource |-> Room]

\* Five blocks that fit and a sixth that never does.
MixedSizes == <<1, 1, 2, 1, 2, 3>>
=============================================================================
