------------------------------ MODULE MCMemory ------------------------------
(***************************************************************************)
(* Two SMs with one-line L1s and an L2 of two lines, warps of two or three *)
(* lanes, five words of global memory (address 5 is out of bounds) and two *)
(* banks of shared memory.                                                 *)
(***************************************************************************)
EXTENDS MemorySystem

MCL1 == [sets |-> 1, ways |-> 1, lineSize |-> 2, policy |-> "LRU"]
MCL2 == [sets |-> 1, ways |-> 2, lineSize |-> 2, policy |-> "FIFO"]

Op == {"LOAD", "STORE", "ATOMIC_ADD"}

\* Lane i stores or adds i.
Asks(op, addrs) == [op |-> op, addrs |-> addrs, vals |-> [i \in DOMAIN addrs |-> i]]

GlobalAddrs == {0, 1, 2, 4, 5}
GlobalVectors == {<<a, b>> : a, b \in GlobalAddrs}

\* Shared memory: up to three words of one bank, two addresses of one word, and
\* a last lane out of bounds.
SharedVectors == {<<16 + a, 16 + b, 16 + c>> : a \in {0, 1}, b \in {4, 8}, c \in {0, 8, 16, 20}}

Requests == {Asks(op, v) : op \in Op, v \in GlobalVectors \cup SharedVectors \cup {<<1, 16>>}}
=============================================================================
