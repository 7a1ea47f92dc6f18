------------------------------ MODULE MCCache ------------------------------
(* Caches small enough that six accesses fill and evict.                   *)
EXTENDS Cache

Cache2x3(p) == [sets |-> 2, ways |-> 3, lineSize |-> 2, policy |-> p]
SmallCaches == {Cache2x3(p) : p \in {"LRU", "FIFO", "Random"}}
=============================================================================
