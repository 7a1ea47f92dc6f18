---------------------------- MODULE MemoryProofs ----------------------------
(***************************************************************************)
(* Proofs about MemorySystem, for any number of SMs, all geometries and    *)
(* latencies, memories of any size, warps of any size and any number of    *)
(* banks.                                                                  *)
(***************************************************************************)
EXTENDS MemorySystem, NatLemmas, FiniteSetTheorems

-----------------------------------------------------------------------------
(* The inductive invariant.                                                *)

GlobalCells == [0..GlobalSize-1 -> Int]
SharedCells == [SMs -> [0..SharedSize-1 -> Int]]
Stats == [accesses : Nat, hits : Nat, misses : Nat, evictions : Nat, dirtyEvictions : Nat]

TypeOK ==
  /\ phase \in {"idle", "transactions", "lanes", "thrown"}
  /\ sm \in SMs /\ req \in Request /\ lane \in 0..Len(req.addrs)
  /\ global \in GlobalCells /\ shared \in SharedCells
  /\ before[1] \in GlobalCells /\ before[2] \in SharedCells
  /\ l1stats \in [SMs -> Stats] /\ l2stats \in Stats
  /\ pending \in SUBSET Nat /\ (phase = "transactions" => pending # {})
  /\ dirty \in Nat /\ spent \in Nat /\ done \in Nat /\ counters.dirty \in Nat

\* A set of the L2 after reads only.
CleanLine == [valid : BOOLEAN, tag : Nat, dirty : {FALSE}]
CleanSet(set) == set.lines \in [Way(L2) -> CleanLine]
L2Clean == l2 = [s \in SetIdx(L2) |-> l2[s]] /\ \A s \in SetIdx(L2) : CleanSet(l2[s])

\* The L2 counts what it is asked.
L2Counts ==
  l2stats.accesses = Sum1("misses") /\ l2stats.hits + l2stats.misses = l2stats.accesses

\* The dirty evictions the SMs have counted and those of the instruction at hand.
Evicted == counters.dirty + (IF phase \in {"transactions", "lanes"} THEN dirty ELSE 0)

\* What the transactions have cost.
SpentExactly ==
  phase # "thrown" =>
    spent = L1Latency * (Sum1("hits") + Sum1("misses")) + L2Latency * Sum1("misses")
            + GlobalLatency * l2stats.misses + WritebackLatency * Evicted

\* The last result is that of the last instruction.
Returned ==
  phase = "idle" /\ done > 0 =>
    /\ ~IsShared(req.addrs[1]) => result.transactions = Cardinality(Coalesce(req.addrs))
    /\ IsShared(req.addrs[1]) => result.conflicts = BankConflicts(req.addrs)

IInv ==
  /\ TypeOK /\ MemoryMatchesLanes /\ L2Clean /\ L2Counts /\ SpentExactly /\ Returned

-----------------------------------------------------------------------------
(* Totals.                                                                 *)

\* The numbers c[s] of all SMs, as a set of that many pairs.
Pairs(c) == UNION {{s} \X (1..c[s]) : s \in SMs}
Total(c) == Cardinality(Pairs(c))

\* The fields that are added up, by SM.
Hits(st) == [s \in SMs |-> st[s].hits]
Misses(st) == [s \in SMs |-> st[s].misses]

\* They are what Sum1 adds up.
LEMMA SumsAreTotals ==
  Sum1("hits") = Total(Hits(l1stats)) /\ Sum1("misses") = Total(Misses(l1stats))
<1>1. \A s \in SMs : Hits(l1stats)[s] = l1stats[s].hits /\ Misses(l1stats)[s] = l1stats[s].misses
  BY DEF Hits, Misses
<1>2. UNION {{s} \X (1..l1stats[s]["hits"]) : s \in SMs} = Pairs(Hits(l1stats))
  BY <1>1 DEF Pairs
<1>3. UNION {{s} \X (1..l1stats[s]["misses"]) : s \in SMs} = Pairs(Misses(l1stats))
  BY <1>1 DEF Pairs
<1> QED BY <1>2, <1>3 DEF Sum1, Total

\* And in the next state.
LEMMA SumsAreTotalsNext ==
  Sum1("hits")' = Total(Hits(l1stats')) /\ Sum1("misses")' = Total(Misses(l1stats'))
<1>1. \A s \in SMs : /\ Hits(l1stats')[s] = l1stats'[s].hits
                     /\ Misses(l1stats')[s] = l1stats'[s].misses
  BY DEF Hits, Misses
<1>2. UNION {{s} \X (1..l1stats'[s]["hits"]) : s \in SMs} = Pairs(Hits(l1stats'))
  BY <1>1 DEF Pairs
<1>3. UNION {{s} \X (1..l1stats'[s]["misses"]) : s \in SMs} = Pairs(Misses(l1stats'))
  BY <1>1 DEF Pairs
<1> QED BY <1>2, <1>3 DEF Sum1, Total

\* A total is finite.
LEMMA PairsFinite ==
  ASSUME NEW c \in [SMs -> Nat]
  PROVE  IsFiniteSet(Pairs(c)) /\ Total(c) \in Nat
<1> DEFINE U(s) == {s} \X (1..c[s])
           T == {U(s) : s \in SMs}
           g == [s \in SMs |-> U(s)]
<1>1. IsFiniteSet(SMs)
  <2>1. NumSMs \in Int /\ 1 \in Int
    BY MemoryAssumption
  <2> QED BY <2>1, FS_Interval DEF SMs
<1>2. g \in Surjection(SMs, T)
  BY DEF Surjection
<1>3. IsFiniteSet(T)
  <2> HIDE DEF T, g
  <2> QED BY <1>1, <1>2, FS_Surjection
<1>4. ASSUME NEW s \in SMs PROVE IsFiniteSet(U(s))
  <2>1. c[s] \in Int /\ 1 \in Int
    OBVIOUS
  <2>2. IsFiniteSet(1..c[s])
    BY <2>1, FS_Interval
  <2>3. IsFiniteSet({s})
    BY FS_Singleton
  <2> QED BY <2>2, <2>3, FS_Product
<1>5. IsFiniteSet(UNION T)
  <2>1. \A u \in T : IsFiniteSet(u)
    BY <1>4
  <2> HIDE DEF T
  <2> QED BY <1>3, <2>1, FS_UNION
<1>6. IsFiniteSet(Pairs(c))
  BY <1>5 DEF Pairs
<1> QED BY <1>6, FS_CardinalityType DEF Total

\* Nothing adds up to nothing.
LEMMA TotalZero == Total([s \in SMs |-> 0]) = 0
<1>1. Pairs([s \in SMs |-> 0]) = {}
  BY DEF Pairs
<1> QED BY <1>1, FS_EmptySet DEF Total

\* One more in one SM is one more in total.
LEMMA TotalPlusOne ==
  ASSUME NEW c \in [SMs -> Nat], NEW s \in SMs
  PROVE  Total([c EXCEPT ![s] = @ + 1]) = Total(c) + 1
<1> DEFINE d == [c EXCEPT ![s] = @ + 1]
           x == <<s, c[s] + 1>>
<1>1. d \in [SMs -> Nat] /\ d[s] = c[s] + 1 /\ \A u \in SMs \ {s} : d[u] = c[u]
  OBVIOUS
<1>2. 1..d[s] = (1..c[s]) \cup {c[s] + 1} /\ c[s] + 1 \notin 1..c[s]
  BY <1>1
<1> HIDE DEF d
<1>3. Pairs(d) = Pairs(c) \cup {x}
  <2>1. ASSUME NEW p \in Pairs(d) PROVE p \in Pairs(c) \cup {x}
    <3>1. PICK u \in SMs : p \in {u} \X (1..d[u])
      BY DEF Pairs
    <3>2. PICK k \in 1..d[u] : p = <<u, k>>
      BY <3>1
    <3>3. CASE u = s
      BY <1>2, <3>2, <3>3 DEF Pairs
    <3>4. CASE u # s
      BY <1>1, <3>2, <3>4 DEF Pairs
    <3> QED BY <3>3, <3>4
  <2>2. ASSUME NEW p \in Pairs(c) PROVE p \in Pairs(d)
    <3>1. PICK u \in SMs : p \in {u} \X (1..c[u])
      BY DEF Pairs
    <3>2. p \in {u} \X (1..d[u])
      BY <1>1, <1>2, <3>1
    <3> QED BY <3>2 DEF Pairs
  <2>3. x \in Pairs(d)
    <3>1. x \in {s} \X (1..d[s])
      BY <1>2
    <3> HIDE DEF x
    <3> QED BY <3>1 DEF Pairs
  <2> HIDE DEF x
  <2> QED BY <2>1, <2>2, <2>3
<1>4. x \notin Pairs(c)
  <2>1. SUFFICES ASSUME x \in Pairs(c) PROVE FALSE
    OBVIOUS
  <2>2. PICK u \in SMs : x \in {u} \X (1..c[u])
    BY <2>1 DEF Pairs
  <2>3. u = s /\ c[s] + 1 \in 1..c[u]
    BY <2>2
  <2> QED BY <1>2, <2>3
<1>5. IsFiniteSet(Pairs(c))
  BY PairsFinite
<1> HIDE DEF x
<1>6. Cardinality(Pairs(c) \cup {x}) = Cardinality(Pairs(c)) + 1
  BY <1>4, <1>5, FS_AddElement
<1> QED BY <1>3, <1>6 DEF Total, d

\* The new statistics count one hit or one miss more than the old ones.
CountOne(st, new, hit) ==
  /\ new \in [SMs -> Stats]
  /\ Total(Hits(new)) = Total(Hits(st)) + Ones(hit)
  /\ Total(Misses(new)) = Total(Misses(st)) + Ones(~hit)

\* The totals after an access of SM s with an outcome that is a hit or not.
LEMMA TotalsCount ==
  ASSUME NEW st \in [SMs -> Stats], NEW s \in SMs, NEW r, NEW x, x = Counted(st[s], r),
         r.hit \in BOOLEAN
  PROVE  CountOne(st, [st EXCEPT ![s] = x], r.hit)
<1> DEFINE new == [st EXCEPT ![s] = x]
<1>1. \A b : Ones(b) \in {0, 1}
  BY DEF Ones
<1>2. /\ Counted(st[s], r) \in Stats
      /\ Counted(st[s], r).hits = st[s].hits + Ones(r.hit)
      /\ Counted(st[s], r).misses = st[s].misses + Ones(~r.hit)
  <2>1. st[s] \in Stats
    OBVIOUS
  <2>2. \A n \in Nat, y \in {0, 1} : n + y \in Nat
    OBVIOUS
  <2> QED BY <1>1, <2>1, <2>2 DEF Counted, Stats
<1>3. new \in [SMs -> Stats] /\ new[s] = Counted(st[s], r) /\ \A u \in SMs \ {s} : new[u] = st[u]
  BY <1>2
<1>4. Hits(st) \in [SMs -> Nat] /\ Misses(st) \in [SMs -> Nat]
  BY DEF Hits, Misses, Stats
<1> HIDE DEF new
<1>5. CASE r.hit
  <2>1. Ones(r.hit) = 1 /\ Ones(~r.hit) = 0
    BY <1>5 DEF Ones
  <2>2. Hits(new) = [Hits(st) EXCEPT ![s] = @ + 1]
    BY <1>2, <1>3, <1>4, <2>1 DEF Hits
  <2>3. Misses(new) = Misses(st)
    <3>1. \A u \in SMs : new[u].misses = st[u].misses
      BY <1>2, <1>3, <2>1 DEF Stats
    <3> QED BY <3>1 DEF Misses
  <2>4. Total(Misses(st)) \in Nat
    BY <1>4, PairsFinite
  <2>5. Total(Hits(new)) = Total(Hits(st)) + 1
    BY <1>4, <2>2, TotalPlusOne
  <2>6. Total(Misses(new)) = Total(Misses(st)) + 0
    BY <2>3, <2>4
  <2> QED BY <1>3, <2>1, <2>5, <2>6 DEF new, CountOne
<1>6. CASE ~r.hit
  <2>1. Ones(r.hit) = 0 /\ Ones(~r.hit) = 1
    BY <1>6 DEF Ones
  <2>2. Misses(new) = [Misses(st) EXCEPT ![s] = @ + 1]
    BY <1>2, <1>3, <1>4, <2>1 DEF Misses
  <2>3. Hits(new) = Hits(st)
    <3>1. \A u \in SMs : new[u].hits = st[u].hits
      BY <1>2, <1>3, <2>1 DEF Stats
    <3> QED BY <3>1 DEF Hits
  <2>4. Total(Hits(st)) \in Nat
    BY <1>4, PairsFinite
  <2>5. Total(Misses(new)) = Total(Misses(st)) + 1
    BY <1>4, <2>2, TotalPlusOne
  <2>6. Total(Hits(new)) = Total(Hits(st)) + 0
    BY <2>3, <2>4
  <2> QED BY <1>3, <2>1, <2>5, <2>6 DEF new, CountOne
<1> QED BY <1>5, <1>6

-----------------------------------------------------------------------------
(* Caches and lanes.                                                       *)

\* Every access hits a way or fills one.
LEMMA HitOrFill ==
  ASSUME NEW g, NEW set, NEW tag, NEW isWrite, NEW r \in SetOutcomes(g, set, tag, isWrite)
  PROVE  /\ r.hit \in BOOLEAN
         /\ \E w \in Way(g) : \/ r.set = HitSet(g, set, w, isWrite)
                              \/ r.set = FilledSet(g, set, w, tag, isWrite)
<1>1. CASE HitWays(g, set, tag) # {}
  <2>1. PICK w \in HitWays(g, set, tag) :
          r = [hit |-> TRUE, eviction |-> FALSE, dirtyEviction |-> FALSE,
               set |-> HitSet(g, set, w, isWrite)]
    BY <1>1 DEF SetOutcomes
  <2> QED BY <2>1 DEF HitWays
<1>2. CASE HitWays(g, set, tag) = {}
  <2>1. PICK w \in Way(g) :
          r = [hit |-> FALSE, eviction |-> Evicts(set, w),
               dirtyEviction |-> Evicts(set, w) /\ set.lines[w].dirty,
               set |-> FilledSet(g, set, w, tag, isWrite)]
    BY <1>2 DEF SetOutcomes
  <2> QED BY <2>1
<1> QED BY <1>1, <1>2

\* A read leaves a clean set clean.
LEMMA ReadKeepsClean ==
  ASSUME NEW set, CleanSet(set), NEW tag \in Nat, NEW isWrite, isWrite = FALSE,
         NEW r \in SetOutcomes(L2, set, tag, isWrite)
  PROVE  CleanSet(r.set)
<1>1. PICK w \in Way(L2) : \/ r.set = HitSet(L2, set, w, isWrite)
                           \/ r.set = FilledSet(L2, set, w, tag, isWrite)
  BY HitOrFill
<1>2. CASE r.set = HitSet(L2, set, w, isWrite)
  <2>1. \A l \in CleanLine : HitLine(l, isWrite) \in CleanLine
    BY DEF CleanLine, HitLine
  <2>2. r.set.lines = [set.lines EXCEPT ![w] = HitLine(@, isWrite)]
    BY <1>2 DEF HitSet
  <2> QED BY <2>1, <2>2 DEF CleanSet
<1>3. CASE r.set = FilledSet(L2, set, w, tag, isWrite)
  <2>1. [valid |-> TRUE, tag |-> tag, dirty |-> isWrite] \in CleanLine
    BY DEF CleanLine
  <2>2. r.set.lines = [set.lines EXCEPT ![w] = [valid |-> TRUE, tag |-> tag, dirty |-> isWrite]]
    BY <1>3 DEF FilledSet
  <2> QED BY <2>1, <2>2 DEF CleanSet
<1> QED BY <1>1, <1>2, <1>3

\* The parts of an instruction.
LEMMA RequestParts ==
  ASSUME NEW r \in Request
  PROVE  /\ r.addrs \in Seq(Nat) /\ r.vals \in Seq(Int) /\ Len(r.vals) = Len(r.addrs)
         /\ Len(r.addrs) \in Nat \ {0} /\ r.op \in {"LOAD", "STORE", "ATOMIC_ADD"}
         /\ \A i \in 1..Len(r.addrs) : r.addrs[i] \in Nat /\ r.vals[i] \in Int
<1>1. /\ r.addrs \in Seq(Nat) /\ r.addrs # <<>> /\ r.vals \in Seq(Int)
      /\ Len(r.vals) = Len(r.addrs) /\ r.op \in {"LOAD", "STORE", "ATOMIC_ADD"}
  BY MemoryAssumption
<1>2. Len(r.addrs) \in Nat \ {0}
  BY <1>1
<1> QED BY <1>1, <1>2

\* What lane n adds to the cell of address a.
Share(r, a, n) == IF r.addrs[n] = a THEN r.vals[n] ELSE 0

\* What the lanes add grows by the share of each.
LEMMA AddedFollows ==
  ASSUME NEW r \in Request, NEW a
  PROVE  /\ Added(r, a)[0] = 0
         /\ \A n \in 0..Len(r.addrs) : Added(r, a)[n] \in Int
         /\ \A n \in 1..Len(r.addrs) : Added(r, a)[n] = Added(r, a)[n-1] + Share(r, a, n)
<1> DEFINE m == Len(r.addrs)
           body(s) == [n \in 0..m |-> IF n = 0 THEN 0 ELSE s[n-1] + Share(r, a, n)]
           d == [p \in (1..m) \X Int |-> p[2] + Share(r, a, p[1])]
           A == Added(r, a)
<1>1. A = CHOOSE s : s = body(s)
  BY DEF Added, Share
<1>2. m \in Nat /\ \A n \in 1..m : Share(r, a, n) \in Int
  BY RequestParts DEF Share
<1>3. d \in [(1..m) \X Int -> Int]
  BY <1>2
<1>4. PICK F : Iterates(F, 0, d, m, Int)
  <2> HIDE DEF d, m
  <2>1. 0 \in Int
    OBVIOUS
  <2> QED BY <1>2, <1>3, <2>1, Iteration
<1> HIDE DEF m
<1>5. F = body(F)
  <2>1. /\ F \in [0..m -> Int] /\ F[0] = 0
        /\ \A n \in 1..m : F[n] = d[<<n, F[n-1]>>]
    <3> HIDE DEF d
    <3> QED BY <1>4 DEF Iterates
  <2>2. ASSUME NEW n \in 1..m PROVE F[n] = F[n-1] + Share(r, a, n)
    <3>1. n - 1 \in 0..m
      BY <1>2
    <3>2. F[n-1] \in Int
      BY <2>1, <3>1
    <3> QED BY <2>1, <3>2
  <2>3. \A n \in 0..m : F[n] = IF n = 0 THEN 0 ELSE F[n-1] + Share(r, a, n)
    BY <1>2, <2>1, <2>2
  <2> QED BY <2>1, <2>3
<1> HIDE DEF A
<1>6. A = body(A)
  BY <1>1, <1>5
<1>7. A[0] = 0 /\ \A n \in 1..m : A[n] = A[n-1] + Share(r, a, n)
  BY <1>2, <1>6
<1>8. \A n \in 0..m : A[n] \in Int
  <2> DEFINE T == {n \in 0..m : A[n] \notin Int}
  <2>1. SUFFICES ASSUME T # {} PROVE FALSE
    OBVIOUS
  <2>2. PICK n \in T : \A k \in T : n <= k
    <3>1. T \in SUBSET Nat
      OBVIOUS
    <3> HIDE DEF T
    <3> QED BY <2>1, <3>1, LeastNumber
  <2>3. n # 0
    BY <1>7, <2>2
  <2>4. n - 1 \in 0..m /\ ~(n <= n - 1) /\ n \in 1..m
    BY <1>2, <2>2, <2>3
  <2>5. A[n-1] \in Int
    BY <2>2, <2>4
  <2> QED BY <1>2, <1>7, <2>2, <2>4, <2>5
<1> QED BY <1>7, <1>8 DEF A, m

-----------------------------------------------------------------------------
(* The coalescer and the banks.                                            *)

\* The aligned lines that TransactionsMinimal chooses from.
LinesTo(addrs) == {b * L1.lineSize : b \in 0..Max(ToSet(addrs))}

\* The addresses of an instruction and their greatest.
LEMMA AddressesBounded ==
  ASSUME NEW r \in Request
  PROVE  /\ ToSet(r.addrs) \in SUBSET Nat /\ ToSet(r.addrs) # {}
         /\ IsFiniteSet(ToSet(r.addrs))
         /\ Max(ToSet(r.addrs)) \in Nat /\ \A a \in ToSet(r.addrs) : a <= Max(ToSet(r.addrs))
<1> DEFINE s == r.addrs
           T == ToSet(s)
<1>1. s \in Seq(Nat) /\ Len(s) \in Nat \ {0} /\ s \in [1..Len(s) -> Nat] /\ DOMAIN s = 1..Len(s)
  BY RequestParts
<1> HIDE DEF s
<1>2. T = {s[i] : i \in 1..Len(s)}
  BY <1>1 DEF ToSet
<1> HIDE DEF T
<1>3. T \in SUBSET Nat /\ T # {}
  BY <1>1, <1>2
<1>4. PICK b \in Nat : \A i \in 1..Len(s) : s[i] <= b
  BY <1>1, SequenceBounded
<1>5. \A a \in T : a <= b
  BY <1>2, <1>4
<1>6. Max(T) \in T /\ \A a \in T : a <= Max(T)
  BY <1>3, <1>5, GreatestNumber
<1>7. IsFiniteSet(T)
  BY <1>3, <1>5, FS_BoundedSetOfNaturals
<1> QED BY <1>3, <1>6, <1>7 DEF T, s

\* The coalesced lines cover the addresses, and are among those of every cover.
LEMMA CoalesceIsLeast ==
  ASSUME NEW r \in Request
  PROVE  /\ Coalesce(r.addrs) \in SUBSET LinesTo(r.addrs)
         /\ Covers(Coalesce(r.addrs), r.addrs)
         /\ \A S \in SUBSET LinesTo(r.addrs) : Covers(S, r.addrs) => Coalesce(r.addrs) \subseteq S
<1> DEFINE T == ToSet(r.addrs)
           M == Max(T)
           L == L1.lineSize
           C == Coalesce(r.addrs)
<1>1. T \in SUBSET Nat /\ M \in Nat /\ \A a \in T : a <= M
  BY AddressesBounded
<1>2. L \in Nat \ {0}
  BY MemoryAssumption DEF Geometry
<1>3. C = {(a \div L) * L : a \in T} /\ LinesTo(r.addrs) = {b * L : b \in 0..M}
  BY DEF Coalesce, LinesTo
<1>4. \A S : Covers(S, r.addrs) <=> \A a \in T : \E b \in S : b <= a /\ a < b + L
  BY DEF Covers
<1> HIDE DEF T, M, L, C
<1>5. ASSUME NEW a \in T
      PROVE  /\ a \div L \in 0..M
             /\ (a \div L) * L <= a /\ a < (a \div L) * L + L
             /\ \A b \in Nat : b * L <= a /\ a < b * L + L => b = a \div L
  <2>1. a \in Nat /\ a <= M
    BY <1>1
  <2>2. /\ a \div L \in Nat /\ a \div L <= a
        /\ (a \div L) * L <= a /\ a < (a \div L) * L + L
        /\ \A b \in Nat : b * L <= a /\ a < b * L + L => b = a \div L
    BY <1>2, <2>1, QuotientIs
  <2>3. a \div L \in 0..M
    <3>1. \A q, x, y \in Nat : q <= x /\ x <= y => q \in 0..y
      OBVIOUS
    <3> QED BY <1>1, <2>1, <2>2, <3>1
  <2> QED BY <2>2, <2>3
<1>6. C \subseteq LinesTo(r.addrs)
  BY <1>3, <1>5
<1>7. Covers(C, r.addrs)
  <2>1. \A a \in T : (a \div L) * L \in C
    BY <1>3
  <2> QED BY <1>4, <1>5, <2>1
<1>8. ASSUME NEW S \in SUBSET LinesTo(r.addrs), Covers(S, r.addrs) PROVE C \subseteq S
  <2>1. SUFFICES ASSUME NEW a \in T PROVE (a \div L) * L \in S
    BY <1>3
  <2>2. PICK l \in S : l <= a /\ a < l + L
    BY <1>4, <1>8
  <2>3. PICK b \in 0..M : l = b * L
    BY <1>3, <2>2
  <2>4. b \in Nat
    BY <1>1, <2>3
  <2>5. b = a \div L
    BY <1>5, <2>2, <2>3, <2>4
  <2> QED BY <2>2, <2>3, <2>5
<1> QED BY <1>6, <1>7, <1>8 DEF C

\* Hence they are as few as possible.
LEMMA CoalesceMinimal ==
  ASSUME NEW r \in Request
  PROVE  /\ \E S \in SUBSET LinesTo(r.addrs) :
              Covers(S, r.addrs) /\ Cardinality(S) = Cardinality(Coalesce(r.addrs))
         /\ \A S \in SUBSET LinesTo(r.addrs) :
              Covers(S, r.addrs) => Cardinality(Coalesce(r.addrs)) <= Cardinality(S)
<1> DEFINE M == Max(ToSet(r.addrs))
           f == [b \in 0..M |-> b * L1.lineSize]
<1>1. M \in Int /\ 0 \in Int
  BY AddressesBounded
<1>2. IsFiniteSet(0..M)
  BY <1>1, FS_Interval
<1>3. f \in Surjection(0..M, LinesTo(r.addrs))
  BY DEF Surjection, LinesTo
<1>4. IsFiniteSet(LinesTo(r.addrs))
  <2> HIDE DEF f, M
  <2> QED BY <1>2, <1>3, FS_Surjection
<1>5. ASSUME NEW S \in SUBSET LinesTo(r.addrs), Covers(S, r.addrs)
      PROVE  Cardinality(Coalesce(r.addrs)) <= Cardinality(S)
  <2>1. IsFiniteSet(S)
    BY <1>4, FS_Subset
  <2>2. Coalesce(r.addrs) \in SUBSET S
    BY <1>5, CoalesceIsLeast
  <2> QED BY <2>1, <2>2, FS_Subset
<1> QED BY <1>5, CoalesceIsLeast

\* compute_bank_conflicts: the words can be read in one round more than the
\* conflicts and not in fewer.
LEMMA BanksNeedRounds ==
  ASSUME NEW r \in Request
  PROVE  LET words == {Word(a) : a \in ToSet(r.addrs)}
         IN  /\ ReadInRounds(words, BankConflicts(r.addrs) + 1)
             /\ ~ReadInRounds(words, BankConflicts(r.addrs))
<1> DEFINE T == ToSet(r.addrs)
           words == {Word(a) : a \in T}
           W(b) == BankWords(r.addrs, b)
           Bank == 0..NumBanks-1
           N == {Cardinality(W(b)) : b \in Bank}
           M == Max(N)
<1>1. T \in SUBSET Nat /\ T # {} /\ IsFiniteSet(T)
  BY AddressesBounded
<1>2. NumBanks \in Nat \ {0} /\ SharedBase \in Nat
  BY MemoryAssumption
<1>3. words # {} /\ \A v \in words : v \in Int /\ v % NumBanks \in Bank
  <2>1. \A a \in T : Word(a) \in Int
    BY <1>1, <1>2 DEF Word
  <2>2. \A v \in Int : v % NumBanks \in 0..NumBanks-1
    BY <1>2
  <2> QED BY <1>1, <2>1, <2>2
<1>4. IsFiniteSet(words)
  <2> DEFINE f == [a \in T |-> Word(a)]
  <2>1. f \in Surjection(T, words)
    BY DEF Surjection
  <2> HIDE DEF f, T, words
  <2> QED BY <1>1, <2>1, FS_Surjection
<1>5. \A b : W(b) = {v \in words : v % NumBanks = b}
  BY DEF BankWords
<1>6. BankConflicts(r.addrs) = M - 1
  BY DEF BankConflicts
<1> HIDE DEF T, words, W
<1>7. \A b \in Bank : /\ IsFiniteSet(W(b)) /\ Cardinality(W(b)) \in Nat
                      /\ Cardinality(W(b)) <= Cardinality(words)
  <2>1. SUFFICES ASSUME NEW b \in Bank
                 PROVE  /\ IsFiniteSet(W(b)) /\ Cardinality(W(b)) \in Nat
                        /\ Cardinality(W(b)) <= Cardinality(words)
    OBVIOUS
  <2>2. W(b) \in SUBSET words
    BY <1>5
  <2>3. IsFiniteSet(W(b)) /\ Cardinality(W(b)) <= Cardinality(words)
    BY <1>4, <2>2, FS_Subset
  <2> QED BY <2>3, FS_CardinalityType
<1>8. M \in N /\ \A n \in N : n <= M
  <2>1. N \in SUBSET Nat
    BY <1>7
  <2>2. 0 \in Bank
    BY <1>2
  <2>3. N # {}
    BY <2>2
  <2>4. Cardinality(words) \in Nat
    BY <1>4, FS_CardinalityType
  <2>5. \A n \in N : n <= Cardinality(words)
    BY <1>7
  <2> HIDE DEF N
  <2> QED BY <2>1, <2>3, <2>4, <2>5, GreatestNumber
<1> HIDE DEF M
<1>9. PICK full \in Bank : M = Cardinality(W(full))
  BY <1>8
<1>10. M \in Nat /\ \A b \in Bank : Cardinality(W(b)) <= M
  BY <1>7, <1>8, <1>9
<1> HIDE DEF Bank, N
<1>11. ReadInRounds(words, M)
  <2> DEFINE n(b) == Cardinality(W(b))
             list(b) == CHOOSE f : f \in Bijection(1..n(b), W(b))
             round == [v \in words |-> CHOOSE k \in 1..n(v % NumBanks) :
                                         list(v % NumBanks)[k] = v]
  <2>1. ASSUME NEW b \in Bank PROVE list(b) \in Bijection(1..n(b), W(b))
    BY <1>7, FS_CardinalityType DEF ExistsBijection
  <2>2. ASSUME NEW v \in words
        PROVE  /\ round[v] \in 1..n(v % NumBanks)
               /\ list(v % NumBanks)[round[v]] = v /\ v % NumBanks \in Bank
    <3>1. v % NumBanks \in Bank /\ v \in W(v % NumBanks)
      BY <1>3, <1>5
    <3> HIDE DEF list, n
    <3>2. \E k \in 1..n(v % NumBanks) : list(v % NumBanks)[k] = v
      BY <2>1, <3>1 DEF Bijection, Surjection
    <3> QED BY <3>1, <3>2
  <2> HIDE DEF list
  <2>3. \A v \in words : round[v] \in 1..M
    <3>1. SUFFICES ASSUME NEW v \in words PROVE round[v] \in 1..M
      OBVIOUS
    <3>2. n(v % NumBanks) \in Nat /\ n(v % NumBanks) <= M /\ round[v] \in 1..n(v % NumBanks)
      BY <1>7, <1>10, <2>2
    <3> HIDE DEF n, round
    <3> QED BY <1>10, <3>2
  <2>4. round \in [words -> 1..M]
    <3>1. round = [v \in words |-> round[v]]
      OBVIOUS
    <3> HIDE DEF round
    <3> QED BY <2>3, <3>1
  <2> HIDE DEF round
  <2>5. \A v, w \in words : v # w /\ v % NumBanks = w % NumBanks => round[v] # round[w]
    BY <2>2
  <2> QED BY <2>4, <2>5 DEF ReadInRounds
<1>12. ~ReadInRounds(words, M - 1)
  <2>1. SUFFICES ASSUME NEW round \in [words -> 1..M-1],
                        \A v, w \in words :
                          v # w /\ v % NumBanks = w % NumBanks => round[v] # round[w]
                 PROVE  FALSE
    BY DEF ReadInRounds
  <2>2. M > 0
    <3>1. PICK v : v \in words
      BY <1>3
    <3>2. v % NumBanks \in Bank /\ W(v % NumBanks) # {}
      BY <1>3, <1>5, <3>1
    <3>3. Cardinality(W(v % NumBanks)) # 0
      BY <1>7, <3>2, FS_EmptySet
    <3> QED BY <1>7, <1>10, <3>2, <3>3
  <2> DEFINE g == [v \in W(full) |-> round[v]]
  <2>3. g \in [W(full) -> 1..M-1]
    BY <1>5
  <2>4. IsFiniteSet(1..M-1) /\ Cardinality(1..M-1) < Cardinality(W(full))
    <3>1. M - 1 \in Int /\ 1 \in Int
      BY <1>10
    <3>2. IsFiniteSet(1..M-1) /\ Cardinality(1..M-1) = IF 1 > M - 1 THEN 0 ELSE (M - 1) - 1 + 1
      BY <3>1, FS_Interval
    <3>3. Cardinality(1..M-1) = M - 1
      BY <1>10, <2>2, <3>2
    <3> QED BY <1>9, <1>10, <3>2, <3>3
  <2>5. PICK v \in W(full), w \in W(full) : v # w /\ g[v] = g[w]
    <3> HIDE DEF g
    <3>1. IsFiniteSet(W(full))
      BY <1>7
    <3> QED BY <2>3, <2>4, <3>1, FS_PigeonHole
  <2>6. v \in words /\ w \in words /\ v % NumBanks = w % NumBanks /\ round[v] = round[w]
    BY <1>5, <2>5
  <2> QED BY <2>1, <2>5, <2>6
<1>13. (M - 1) + 1 = M
  BY <1>10
<1> QED BY <1>6, <1>11, <1>12, <1>13 DEF words, T

-----------------------------------------------------------------------------
(* What the lanes make of a cell.                                          *)

\* Expected as a function of the instruction and of the lanes served.
HitBy(r, n, a) == {i \in 1..n : r.addrs[i] = a}
After(r, n, a, old) ==
  CASE r.op = "LOAD" -> old
    [] r.op = "STORE" -> IF HitBy(r, n, a) = {} THEN old ELSE r.vals[Max(HitBy(r, n, a))]
    [] r.op = "ATOMIC_ADD" -> old + Added(r, a)[n]

\* What lane i leaves in a cell that holds x.
Effect(r, i, x) ==
  CASE r.op = "STORE" -> r.vals[i]
    [] r.op = "ATOMIC_ADD" -> x + r.vals[i]
    [] r.op = "LOAD" -> x

\* Before the first lane a cell holds what it held.
LEMMA AfterNone ==
  ASSUME NEW r \in Request, NEW a, NEW old \in Int
  PROVE  After(r, 0, a, old) = old
<1>1. HitBy(r, 0, a) = {}
  BY DEF HitBy
<1>2. old + Added(r, a)[0] = old
  BY AddedFollows
<1> QED BY <1>1, <1>2, RequestParts DEF After

\* A cell holds a number.
LEMMA AfterType ==
  ASSUME NEW r \in Request, NEW n \in 0..Len(r.addrs), NEW a, NEW old \in Int
  PROVE  After(r, n, a, old) \in Int
<1>1. CASE r.op = "LOAD"
  BY <1>1 DEF After
<1>2. CASE r.op = "ATOMIC_ADD"
  <2>1. Added(r, a)[n] \in Int
    BY AddedFollows
  <2> QED BY <1>2, <2>1 DEF After
<1>3. CASE r.op = "STORE"
  <2> DEFINE H == HitBy(r, n, a)
  <2>0. n \in Nat /\ n <= Len(r.addrs) /\ Len(r.addrs) \in Nat
    BY RequestParts
  <2>1. CASE H = {}
    BY <1>3, <2>1 DEF After
  <2>2. CASE H # {}
    <3>1. H \in SUBSET Nat /\ \A i \in H : i <= n
      BY <2>0 DEF HitBy
    <3> HIDE DEF H
    <3>2. Max(H) \in H
      BY <2>0, <2>2, <3>1, GreatestNumber
    <3>3. Max(H) \in 1..Len(r.addrs)
      BY <2>0, <3>2 DEF H, HitBy
    <3>4. r.vals[Max(H)] \in Int
      BY <3>3, RequestParts
    <3> QED BY <1>3, <2>2, <3>4 DEF After, H
  <2> QED BY <2>1, <2>2
<1> QED BY <1>1, <1>2, <1>3, RequestParts

\* The next lane has its effect on its own cell and on no other.
LEMMA AfterLane ==
  ASSUME NEW r \in Request, NEW n \in 0..Len(r.addrs), n < Len(r.addrs), NEW a, NEW old \in Int
  PROVE  After(r, n + 1, a, old) =
           IF r.addrs[n + 1] = a THEN Effect(r, n + 1, After(r, n, a, old))
           ELSE After(r, n, a, old)
<1>0. /\ n \in Nat /\ n + 1 \in 1..Len(r.addrs) /\ (n + 1) - 1 = n
      /\ r.vals[n + 1] \in Int
  <2>1. Len(r.addrs) \in Nat
    BY RequestParts
  <2>2. n \in Nat /\ n + 1 \in 1..Len(r.addrs) /\ (n + 1) - 1 = n
    BY <2>1
  <2> QED BY <2>2, RequestParts
<1>1. CASE r.op = "LOAD"
  BY <1>1 DEF After, Effect
<1>2. CASE r.op = "ATOMIC_ADD"
  <2>1. Added(r, a)[n + 1] = Added(r, a)[n] + Share(r, a, n + 1) /\ Added(r, a)[n] \in Int
    <3>1. Added(r, a)[n + 1] = Added(r, a)[(n + 1) - 1] + Share(r, a, n + 1)
      BY <1>0, AddedFollows
    <3> QED BY <1>0, <3>1, AddedFollows
  <2>2. \A k : After(r, k, a, old) = old + Added(r, a)[k]
    BY <1>2 DEF After
  <2>3. CASE r.addrs[n + 1] = a
    <3>1. Share(r, a, n + 1) = r.vals[n + 1]
      BY <2>3 DEF Share
    <3>2. Effect(r, n + 1, After(r, n, a, old)) = After(r, n, a, old) + r.vals[n + 1]
      BY <1>2 DEF Effect
    <3> QED BY <1>0, <2>1, <2>2, <2>3, <3>1, <3>2
  <2>4. CASE r.addrs[n + 1] # a
    <3>1. Share(r, a, n + 1) = 0
      BY <2>4 DEF Share
    <3> QED BY <1>0, <2>1, <2>2, <2>4, <3>1
  <2> QED BY <2>3, <2>4
<1>3. CASE r.op = "STORE"
  <2> DEFINE H == HitBy(r, n, a)
             G == HitBy(r, n + 1, a)
  <2>1. \A k : After(r, k, a, old) = IF HitBy(r, k, a) = {} THEN old ELSE r.vals[Max(HitBy(r, k, a))]
    BY <1>3 DEF After
  <2>2. CASE r.addrs[n + 1] = a
    <3>1. n + 1 \in G /\ \A y \in G : y \in Nat /\ n + 1 >= y
      BY <1>0, <2>2 DEF HitBy
    <3> HIDE DEF G
    <3>2. Max(G) \in G /\ \A y \in G : Max(G) >= y
      BY <3>1 DEF Max
    <3>3. Max(G) = n + 1
      BY <1>0, <3>1, <3>2
    <3>4. Effect(r, n + 1, After(r, n, a, old)) = r.vals[n + 1]
      BY <1>3 DEF Effect
    <3> QED BY <2>1, <2>2, <3>1, <3>3, <3>4 DEF G
  <2>3. CASE r.addrs[n + 1] # a
    <3>1. G = H
      BY <1>0, <2>3 DEF HitBy
    <3> QED BY <2>1, <2>3, <3>1
  <2> QED BY <2>2, <2>3
<1> QED BY <1>1, <1>2, <1>3, RequestParts

\* The property in these terms.
Matches(g, h, s, r, n, g0, h0) ==
  /\ \A a \in 0..GlobalSize-1 : g[a] = After(r, n, a, g0[a])
  /\ \A u \in SMs : \A a \in 0..SharedSize-1 :
       h[u][a] = IF u = s THEN After(r, n, a + SharedBase, h0[u][a]) ELSE h0[u][a]

\* It is the same.
LEMMA MatchesIsProperty ==
  ASSUME TypeOK
  PROVE  MemoryMatchesLanes <=> Matches(global, shared, sm, req, lane, before[1], before[2])
<1>1. \A a, old : Expected(a, old) = After(req, lane, a, old)
  BY DEF Expected, After, Hitting, HitBy
<1>2. DOMAIN global = 0..GlobalSize-1 /\ \A u \in SMs : DOMAIN shared[u] = 0..SharedSize-1
  BY DEF TypeOK, GlobalCells, SharedCells
<1> QED BY <1>1, <1>2 DEF MemoryMatchesLanes, Matches

\* And in the next state.
LEMMA MatchesIsPropertyNext ==
  ASSUME TypeOK'
  PROVE  MemoryMatchesLanes' <=>
           Matches(global', shared', sm', req', lane', before'[1], before'[2])
<1>1. \A a, old : Expected(a, old)' = After(req', lane', a, old)
  BY DEF Expected, After, Hitting, HitBy
<1>2. DOMAIN (global') = 0..GlobalSize-1 /\ \A u \in SMs : DOMAIN (shared'[u]) = 0..SharedSize-1
  BY DEF TypeOK, GlobalCells, SharedCells
<1> QED BY <1>1, <1>2 DEF MemoryMatchesLanes, Matches

-----------------------------------------------------------------------------
(* The steps.                                                              *)

\* The initial state.
LEMMA InitIInv == Init => IInv
<1> SUFFICES ASSUME Init PROVE IInv
  OBVIOUS
<1>0. NumSMs \in Nat \ {0} /\ L2 \in Geometry
  BY MemoryAssumption
<1>1. TypeOK
  <2>1. sm \in SMs
    BY <1>0 DEF Init, SMs
  <2>2. req \in Request
    BY MemoryAssumption DEF Init
  <2>3. lane \in 0..Len(req.addrs)
    BY <2>2, RequestParts DEF Init
  <2>4. global \in GlobalCells /\ shared \in SharedCells
    BY DEF Init, GlobalCells, SharedCells
  <2>5. before[1] = global /\ before[2] = shared
    BY DEF Init
  <2>6. l1stats \in [SMs -> Stats] /\ l2stats \in Stats
    BY DEF Init, ZeroStats, Stats
  <2> QED BY <2>1, <2>2, <2>3, <2>4, <2>5, <2>6 DEF Init, TypeOK
<1>2. MemoryMatchesLanes
  <2>1. req \in Request /\ lane = 0 /\ before[1] = global /\ before[2] = shared
    BY <1>1 DEF Init, TypeOK
  <2>2. \A a \in 0..GlobalSize-1 : global[a] \in Int
    BY <1>1 DEF TypeOK, GlobalCells
  <2>3. \A u \in SMs : \A a \in 0..SharedSize-1 : shared[u][a] \in Int
    BY <1>1 DEF TypeOK, SharedCells
  <2>4. Matches(global, shared, sm, req, lane, before[1], before[2])
    BY <2>1, <2>2, <2>3, AfterNone DEF Matches
  <2> QED BY <1>1, <2>4, MatchesIsProperty
<1>3. L2Clean
  <2>1. EmptyLine \in CleanLine
    BY DEF EmptyLine, CleanLine
  <2>2. l2 = [s \in SetIdx(L2) |-> EmptySet(L2)]
    BY DEF Init, EmptyCache
  <2>3. EmptySet(L2).lines = [w \in Way(L2) |-> EmptyLine]
    BY DEF EmptySet
  <2>4. CleanSet(EmptySet(L2))
    BY <2>1, <2>3 DEF CleanSet
  <2> QED BY <2>2, <2>4 DEF L2Clean
<1>4. Sum1("hits") = 0 /\ Sum1("misses") = 0
  <2>1. Hits(l1stats) = [s \in SMs |-> 0] /\ Misses(l1stats) = [s \in SMs |-> 0]
    BY DEF Init, ZeroStats, Hits, Misses
  <2> QED BY <2>1, SumsAreTotals, TotalZero
<1>5. l2stats.accesses = 0 /\ l2stats.hits = 0 /\ l2stats.misses = 0
  BY DEF Init, ZeroStats
<1>6. L2Counts
  BY <1>4, <1>5 DEF L2Counts
<1>7. SpentExactly
  <2>1. Evicted = 0 /\ spent = 0
    BY DEF Init, Evicted
  <2>2. \A x \in Nat : x * 0 = 0 /\ x * (0 + 0) = 0
    OBVIOUS
  <2>3. L1Latency \in Nat /\ L2Latency \in Nat /\ GlobalLatency \in Nat /\ WritebackLatency \in Nat
    BY MemoryAssumption
  <2> QED BY <1>4, <1>5, <2>1, <2>2, <2>3 DEF SpentExactly
<1>8. Returned
  BY DEF Init, Returned
<1> QED BY <1>1, <1>2, <1>3, <1>6, <1>7, <1>8 DEF IInv

\* The state that the accounting and the caches depend on.
LEMMA AccountsKeep ==
  ASSUME L2Clean, L2Counts, UNCHANGED caches
  PROVE  L2Clean' /\ L2Counts' /\ Sum1("hits")' = Sum1("hits") /\ Sum1("misses")' = Sum1("misses")
BY DEF caches, L2Clean, CleanSet, L2Counts, Sum1

\* A warp memory instruction begins.
LEMMA BeginIInv ==
  ASSUME IInv, NEW s \in SMs, NEW r \in Request, Begin(s, r)
  PROVE  IInv'
<1>0. TypeOK
  BY DEF IInv
<1>1. /\ phase = "idle" /\ phase' \in {"thrown", "lanes", "transactions"}
      /\ sm' = s /\ req' = r /\ lane' = 0 /\ dirty' = 0 /\ before' = <<global, shared>>
      /\ global' = global /\ shared' = shared /\ UNCHANGED caches
      /\ counters' = counters /\ spent' = spent /\ done' = done
      /\ l1stats' = l1stats /\ l2stats' = l2stats
  BY DEF Begin, memories, caches
<1>2. pending' \in SUBSET Nat /\ (phase' = "transactions" => pending' # {})
  <2>1. CASE Mixed(r.addrs) /\ phase' = "thrown" /\ UNCHANGED <<pending, latency>>
    BY <1>0, <2>1 DEF TypeOK
  <2>2. CASE phase' = "lanes" /\ pending' = {}
    BY <2>2
  <2>3. CASE phase' = "transactions" /\ pending' = Coalesce(r.addrs)
    <3>1. ToSet(r.addrs) \in SUBSET Nat /\ ToSet(r.addrs) # {}
      BY AddressesBounded
    <3>2. L1.lineSize \in Nat \ {0}
      BY MemoryAssumption DEF Geometry
    <3>3. \A a \in Nat : (a \div L1.lineSize) * L1.lineSize \in Nat
      BY <3>2
    <3>4. Coalesce(r.addrs) \in SUBSET Nat /\ Coalesce(r.addrs) # {}
      BY <3>1, <3>3 DEF Coalesce
    <3> QED BY <2>3, <3>4
  <2> QED BY <2>1, <2>2, <2>3 DEF Begin
<1>3. TypeOK'
  <2>1. Len(r.addrs) \in Nat
    BY RequestParts
  <2>2. lane' \in 0..Len(req'.addrs)
    BY <1>1, <2>1
  <2>3. before'[1] \in GlobalCells /\ before'[2] \in SharedCells
    BY <1>0, <1>1 DEF TypeOK
  <2> QED BY <1>0, <1>1, <1>2, <2>2, <2>3 DEF TypeOK
<1>4. MemoryMatchesLanes'
  <2>1. req' \in Request /\ lane' = 0 /\ before'[1] = global' /\ before'[2] = shared'
    BY <1>1
  <2>2. \A a \in 0..GlobalSize-1 : global'[a] \in Int
    BY <1>3 DEF TypeOK, GlobalCells
  <2>3. \A u \in SMs : \A a \in 0..SharedSize-1 : shared'[u][a] \in Int
    BY <1>3 DEF TypeOK, SharedCells
  <2>4. Matches(global', shared', sm', req', lane', before'[1], before'[2])
    BY <2>1, <2>2, <2>3, AfterNone DEF Matches
  <2> QED BY <1>3, <2>4, MatchesIsPropertyNext
<1>5. L2Clean' /\ L2Counts' /\ Sum1("hits")' = Sum1("hits") /\ Sum1("misses")' = Sum1("misses")
  BY <1>1, AccountsKeep DEF IInv
<1>6. SpentExactly'
  <2>1. Evicted = counters.dirty + 0 /\ Evicted' = counters.dirty + 0
    BY <1>1 DEF Evicted
  <2>2. Evicted' = Evicted
    BY <2>1
  <2> QED BY <1>1, <1>5, <2>2 DEF IInv, SpentExactly
<1>7. Returned'
  BY <1>1 DEF Returned
<1> QED BY <1>3, <1>4, <1>5, <1>6, <1>7 DEF IInv

\* All lanes are served, or one has thrown, or nothing happens.
LEMMA ReturnIInv ==
  ASSUME IInv, LaneThrow \/ Return \/ Ended \/ UNCHANGED vars
  PROVE  IInv'
<1>0. TypeOK
  BY DEF IInv
<1>1. /\ sm' = sm /\ req' = req /\ lane' = lane /\ dirty' = dirty /\ before' = before
      /\ global' = global /\ shared' = shared /\ UNCHANGED caches /\ spent' = spent
      /\ l1stats' = l1stats /\ l2stats' = l2stats /\ pending' = pending
  BY DEF LaneThrow, Return, Ended, vars, caches, memories
<1>2. \/ phase = "lanes" /\ phase' = "thrown" /\ UNCHANGED <<done, counters, result>>
      \/ /\ phase = "lanes" /\ phase' = "idle" /\ done' = done + 1
         /\ result' = ResultOf(req) /\ counters'.dirty = counters.dirty + result'.dirty
      \/ UNCHANGED <<phase, done, counters, result>>
  BY DEF LaneThrow, Return, Ended, vars
<1>3. /\ ResultOf(req).dirty = dirty
      /\ ~IsShared(req.addrs[1]) => ResultOf(req).transactions = Cardinality(Coalesce(req.addrs))
      /\ IsShared(req.addrs[1]) => ResultOf(req).conflicts = BankConflicts(req.addrs)
  BY DEF ResultOf
<1>4. TypeOK'
  <2>1. done' \in Nat /\ counters'.dirty \in Nat
    BY <1>0, <1>2, <1>3 DEF TypeOK
  <2>2. phase' \in {"idle", "transactions", "lanes", "thrown"}
    BY <1>0, <1>2 DEF TypeOK
  <2>3. phase' = "transactions" => pending # {}
    BY <1>0, <1>2 DEF TypeOK
  <2> QED BY <1>0, <1>1, <2>1, <2>2, <2>3 DEF TypeOK
<1>5. MemoryMatchesLanes'
  <2>1. Matches(global, shared, sm, req, lane, before[1], before[2])
    BY <1>0, MatchesIsProperty DEF IInv
  <2>2. Matches(global', shared', sm', req', lane', before'[1], before'[2])
    BY <1>1, <2>1
  <2> QED BY <1>4, <2>2, MatchesIsPropertyNext
<1>6. L2Clean' /\ L2Counts' /\ Sum1("hits")' = Sum1("hits") /\ Sum1("misses")' = Sum1("misses")
  BY <1>1, AccountsKeep DEF IInv
<1>7. SpentExactly'
  <2>1. ASSUME phase' # "thrown" PROVE Evicted' = Evicted /\ phase # "thrown"
    <3>1. CASE phase = "lanes" /\ phase' = "idle" /\ result' = ResultOf(req)
               /\ counters'.dirty = counters.dirty + result'.dirty
      <4>1. Evicted = counters.dirty + dirty /\ Evicted' = (counters.dirty + dirty) + 0
        BY <1>3, <3>1 DEF Evicted
      <4> QED BY <1>0, <3>1, <4>1 DEF TypeOK
    <3>2. CASE UNCHANGED <<phase, done, counters, result>>
      BY <1>1, <2>1, <3>2 DEF Evicted
    <3> QED BY <1>2, <2>1, <3>1, <3>2
  <2> QED BY <1>1, <1>6, <2>1 DEF IInv, SpentExactly
<1>8. Returned'
  BY <1>1, <1>2, <1>3 DEF IInv, Returned
<1> QED BY <1>4, <1>5, <1>6, <1>7, <1>8 DEF IInv

\* What h hits and m misses of L1, g misses of L2 and e write-backs cost.
Cost(h, m, g, e) ==
  L1Latency * (h + m) + L2Latency * m + GlobalLatency * g + WritebackLatency * e

\* Costs add up.
CostsAdd(h, m, g, e, h1, m1, g1, e1) ==
  /\ Cost(h, m, g, e) \in Nat
  /\ Cost(h + h1, m + m1, g + g1, e + e1) = Cost(h, m, g, e) + Cost(h1, m1, g1, e1)

\* The cost is linear.
LEMMA CostAdds ==
  ASSUME NEW h \in Nat, NEW m \in Nat, NEW g \in Nat, NEW e \in Nat,
         NEW h1 \in Nat, NEW m1 \in Nat, NEW g1 \in Nat, NEW e1 \in Nat
  PROVE  CostsAdd(h, m, g, e, h1, m1, g1, e1)
<1>1. L1Latency \in Nat /\ L2Latency \in Nat /\ GlobalLatency \in Nat /\ WritebackLatency \in Nat
  BY MemoryAssumption
<1>2. \A x, y, z \in Nat : x * (y + z) = x * y + x * z /\ x * y \in Nat /\ y + z \in Nat
  OBVIOUS
<1>3. L1Latency * ((h + h1) + (m + m1)) = L1Latency * (h + m) + L1Latency * (h1 + m1)
  <2>1. (h + h1) + (m + m1) = (h + m) + (h1 + m1) /\ h + m \in Nat /\ h1 + m1 \in Nat
    OBVIOUS
  <2> QED BY <1>1, <1>2, <2>1
<1>4. /\ L2Latency * (m + m1) = L2Latency * m + L2Latency * m1
      /\ GlobalLatency * (g + g1) = GlobalLatency * g + GlobalLatency * g1
      /\ WritebackLatency * (e + e1) = WritebackLatency * e + WritebackLatency * e1
  BY <1>1, <1>2
<1>5. /\ L1Latency * (h + m) \in Nat /\ L1Latency * (h1 + m1) \in Nat
      /\ L2Latency * m \in Nat /\ L2Latency * m1 \in Nat
      /\ GlobalLatency * g \in Nat /\ GlobalLatency * g1 \in Nat
      /\ WritebackLatency * e \in Nat /\ WritebackLatency * e1 \in Nat
  BY <1>1, <1>2
<1>6. \A a, b, c, d, a1, b1, c1, d1 \in Nat :
        /\ a + b + c + d \in Nat
        /\ (a + a1) + (b + b1) + (c + c1) + (d + d1) = (a + b + c + d) + (a1 + b1 + c1 + d1)
  OBVIOUS
<1> QED BY <1>3, <1>4, <1>5, <1>6 DEF CostsAdd, Cost

\* An access costs what its outcome accounts for.
LEMMA AccessCost ==
  ASSUME NEW r1, NEW r2, NEW x, r1.hit => x = 0, ~r1.hit => x = Ones(~r2.hit)
  PROVE  AccessLatency(r1, r2) = Cost(Ones(r1.hit), Ones(~r1.hit), x, Ones(r1.dirtyEviction))
<1>1. L1Latency \in Nat /\ L2Latency \in Nat /\ GlobalLatency \in Nat /\ WritebackLatency \in Nat
  BY MemoryAssumption
<1>2. \A y \in Nat : y * (1 + 0) = y /\ y * (0 + 1) = y /\ y * 1 = y /\ y * 0 = 0
  OBVIOUS
<1> DEFINE e == IF r1.dirtyEviction THEN WritebackLatency ELSE 0
<1>3. WritebackLatency * Ones(r1.dirtyEviction) = e /\ e \in Nat
  BY <1>1, <1>2 DEF Ones
<1>4. AccessLatency(r1, r2) =
        L1Latency + (IF r1.hit THEN 0 ELSE L2Latency + (IF r2.hit THEN 0 ELSE GlobalLatency)) + e
  BY DEF AccessLatency
<1>5. Cost(Ones(r1.hit), Ones(~r1.hit), x, Ones(r1.dirtyEviction)) =
        L1Latency * (Ones(r1.hit) + Ones(~r1.hit)) + L2Latency * Ones(~r1.hit) + GlobalLatency * x + e
  BY <1>3 DEF Cost
<1> HIDE DEF e
<1>6. CASE r1.hit
  <2>1. Ones(r1.hit) = 1 /\ Ones(~r1.hit) = 0 /\ x = 0
    BY <1>6 DEF Ones
  <2>2. Cost(Ones(r1.hit), Ones(~r1.hit), x, Ones(r1.dirtyEviction)) = L1Latency + 0 + 0 + e
    BY <1>1, <1>2, <1>5, <2>1
  <2>3. AccessLatency(r1, r2) = L1Latency + 0 + e
    BY <1>4, <1>6
  <2> QED BY <1>1, <1>3, <2>2, <2>3
<1>7. CASE ~r1.hit
  <2>1. Ones(r1.hit) = 0 /\ Ones(~r1.hit) = 1
    BY <1>7 DEF Ones
  <2>2. CASE r2.hit
    <3>1. x = 0
      BY <1>7, <2>2 DEF Ones
    <3>2. Cost(Ones(r1.hit), Ones(~r1.hit), x, Ones(r1.dirtyEviction)) = L1Latency + L2Latency + 0 + e
      BY <1>1, <1>2, <1>5, <2>1, <3>1
    <3>3. AccessLatency(r1, r2) = L1Latency + (L2Latency + 0) + e
      BY <1>4, <1>7, <2>2
    <3> QED BY <1>1, <1>3, <3>2, <3>3
  <2>3. CASE ~r2.hit
    <3>1. x = 1
      BY <1>7, <2>3 DEF Ones
    <3>2. Cost(Ones(r1.hit), Ones(~r1.hit), x, Ones(r1.dirtyEviction))
            = L1Latency + L2Latency + GlobalLatency + e
      BY <1>1, <1>2, <1>5, <2>1, <3>1
    <3>3. AccessLatency(r1, r2) = L1Latency + (L2Latency + GlobalLatency) + e
      BY <1>4, <1>7, <2>3
    <3> QED BY <1>1, <1>3, <3>2, <3>3
  <2> QED BY <2>2, <2>3
<1> QED BY <1>6, <1>7

\* One line goes through the caches.
LEMMA TransactionIInv ==
  ASSUME IInv, Transaction
  PROVE  IInv'
<1> DEFINE line == Min(pending)
<1>0. /\ TypeOK /\ phase = "transactions" /\ MemoryMatchesLanes /\ L2Clean /\ L2Counts
      /\ SpentExactly
  BY DEF IInv, Transaction
<1>1. line \in pending /\ line \in Nat
  <2>1. PICK x \in pending : \A y \in pending : x <= y
    BY <1>0, LeastNumber DEF TypeOK
  <2> QED BY <1>0, <2>1 DEF Min, TypeOK
<1> HIDE DEF line
<1>2. PICK r1 \in LookupAndFill(L1, l1[sm], line, IsWrite),
           r2 \in LookupAndFill(L2, l2, line, L2Write) :
        /\ l1stats' = [l1stats EXCEPT ![sm] = Counted(@, r1)]
        /\ IF FillsFromL2(r1)
           THEN /\ l2' = [l2 EXCEPT ![SetOf(L2, line)] = r2.set]
                /\ l2stats' = Counted(l2stats, r2)
           ELSE UNCHANGED <<l2, l2stats>>
        /\ spent' = spent + AccessLatency(r1, r2)
        /\ dirty' = dirty + Ones(r1.dirtyEviction)
  BY DEF Transaction, line
<1>3. /\ sm' = sm /\ req' = req /\ lane' = lane /\ before' = before /\ counters' = counters
      /\ global' = global /\ shared' = shared /\ done' = done
      /\ pending' = pending \ {line}
      /\ phase' = IF pending' = {} THEN "lanes" ELSE "transactions"
  BY DEF Transaction, memories, line
<1>4. r1.hit \in BOOLEAN /\ r2.hit \in BOOLEAN
  BY HitOrFill DEF LookupAndFill
<1>5. \A b : Ones(b) \in {0, 1} /\ Ones(b) \in Nat
  BY DEF Ones
<1> DEFINE h == Total(Hits(l1stats))
           m == Total(Misses(l1stats))
<1>6. /\ l1stats' \in [SMs -> Stats]
      /\ Total(Hits(l1stats')) = h + Ones(r1.hit)
      /\ Total(Misses(l1stats')) = m + Ones(~r1.hit)
  <2>1. l1stats \in [SMs -> Stats] /\ sm \in SMs
    BY <1>0 DEF TypeOK
  <2>2. l1stats' = [l1stats EXCEPT ![sm] = Counted(@, r1)]
    BY <1>2
  <2>3. r1.hit \in BOOLEAN
    BY <1>4
  <2> DEFINE y == Counted(l1stats[sm], r1)
  <2>4. l1stats' = [l1stats EXCEPT ![sm] = y]
    BY <2>2
  <2>5. CountOne(l1stats, l1stats', r1.hit)
    <3>1. y = Counted(l1stats[sm], r1)
      OBVIOUS
    <3> HIDE DEF y
    <3>2. CountOne(l1stats, [l1stats EXCEPT ![sm] = y], r1.hit)
      BY <2>1, <2>3, <3>1, TotalsCount
    <3> QED BY <2>4, <3>2
  <2> QED BY <2>5 DEF CountOne
<1>7. h \in Nat /\ m \in Nat /\ Sum1("hits") = h /\ Sum1("misses") = m
  <2>1. Hits(l1stats) \in [SMs -> Nat] /\ Misses(l1stats) \in [SMs -> Nat]
    BY <1>0 DEF TypeOK, Hits, Misses, Stats
  <2> QED BY <2>1, PairsFinite, SumsAreTotals
<1>8. Sum1("hits")' = h + Ones(r1.hit) /\ Sum1("misses")' = m + Ones(~r1.hit)
  BY <1>6, SumsAreTotalsNext
<1> HIDE DEF h, m
<1>9. l2stats \in Stats /\ l2stats.accesses = m /\ l2stats.hits + l2stats.misses = l2stats.accesses
  BY <1>0, <1>7 DEF TypeOK, L2Counts
<1> DEFINE x == IF r1.hit THEN 0 ELSE Ones(~r2.hit)
<1>10. /\ l2stats' \in Stats
       /\ l2stats'.accesses = m + Ones(~r1.hit)
       /\ l2stats'.hits + l2stats'.misses = l2stats'.accesses
       /\ l2stats'.misses = l2stats.misses + x
  <2>1. CASE r1.hit
    <3>1. l2stats' = l2stats /\ Ones(~r1.hit) = 0 /\ x = 0
      BY <1>2, <2>1 DEF FillsFromL2, Ones
    <3>2. l2stats.accesses = m + 0 /\ l2stats.misses = l2stats.misses + 0
      BY <1>7, <1>9 DEF Stats
    <3> QED BY <1>9, <3>1, <3>2
  <2>2. CASE ~r1.hit
    <3>1. l2stats' = Counted(l2stats, r2) /\ Ones(~r1.hit) = 1 /\ x = Ones(~r2.hit)
      BY <1>2, <2>2 DEF FillsFromL2, Ones
    <3>2. /\ l2stats'.accesses = l2stats.accesses + 1
          /\ l2stats'.hits = l2stats.hits + Ones(r2.hit)
          /\ l2stats'.misses = l2stats.misses + Ones(~r2.hit)
      BY <3>1 DEF Counted
    <3>3. Ones(r2.hit) + Ones(~r2.hit) = 1
      BY <1>4 DEF Ones
    <3>4. l2stats' \in Stats
      <4>1. \A y \in Nat, z \in {0, 1} : y + z \in Nat
        OBVIOUS
      <4> QED BY <1>5, <1>9, <3>1, <4>1 DEF Counted, Stats
    <3>5. l2stats.hits \in Nat /\ l2stats.misses \in Nat
      BY <1>9 DEF Stats
    <3>6. \A p, q, y, z \in Nat : y + z = 1 => (p + y) + (q + z) = (p + q) + 1
      OBVIOUS
    <3>7. l2stats'.hits + l2stats'.misses = (l2stats.hits + l2stats.misses) + 1
      BY <1>5, <3>2, <3>3, <3>5, <3>6
    <3> QED BY <1>9, <3>1, <3>2, <3>4, <3>7
  <2> QED BY <1>4, <2>1, <2>2
<1> HIDE DEF x
<1>11. TypeOK'
  <2>1. phase' \in {"idle", "transactions", "lanes", "thrown"}
    BY <1>3
  <2>2. pending' \in SUBSET Nat /\ (phase' = "transactions" => pending' # {})
    BY <1>0, <1>3 DEF TypeOK
  <2>3. dirty' \in Nat
    BY <1>0, <1>2, <1>5 DEF TypeOK
  <2>4. spent' \in Nat
    <3>1. AccessLatency(r1, r2) \in Nat
      BY MemoryAssumption DEF AccessLatency
    <3> QED BY <1>0, <1>2, <3>1 DEF TypeOK
  <2> QED BY <1>0, <1>3, <1>6, <1>10, <2>1, <2>2, <2>3, <2>4 DEF TypeOK
<1>12. MemoryMatchesLanes'
  <2>1. Matches(global, shared, sm, req, lane, before[1], before[2])
    BY <1>0, MatchesIsProperty
  <2>2. Matches(global', shared', sm', req', lane', before'[1], before'[2])
    BY <1>3, <2>1
  <2> QED BY <1>11, <2>2, MatchesIsPropertyNext
<1>13. L2Clean'
  <2>1. CASE r1.hit
    <3>1. l2' = l2
      BY <1>2, <2>1 DEF FillsFromL2
    <3> QED BY <1>0, <3>1 DEF L2Clean, CleanSet
  <2>2. CASE ~r1.hit
    <3> DEFINE i == SetOf(L2, line)
    <3>1. l2' = [l2 EXCEPT ![i] = r2.set]
      BY <1>2, <2>2 DEF FillsFromL2
    <3>2. i \in SetIdx(L2) /\ TagOf(L2, line) \in Nat
      <4>1. L2.sets \in Nat \ {0} /\ L2.lineSize \in Nat \ {0}
        BY MemoryAssumption DEF Geometry
      <4>2. line \div L2.lineSize \in Nat
        BY <1>1, <4>1
      <4> QED BY <4>1, <4>2 DEF SetOf, SetIdx, TagOf
    <3> HIDE DEF i
    <3>3. CleanSet(l2[i])
      BY <1>0, <3>2 DEF L2Clean
    <3>4. r2 \in SetOutcomes(L2, l2[i], TagOf(L2, line), L2Write) /\ L2Write = FALSE
      BY DEF LookupAndFill, L2Write, i
    <3>5. CleanSet(r2.set)
      BY <3>2, <3>3, <3>4, ReadKeepsClean
    <3>6. l2' = [s \in SetIdx(L2) |-> IF s = i THEN r2.set ELSE l2[s]]
      BY <1>0, <3>1 DEF L2Clean
    <3>7. l2' = [s \in SetIdx(L2) |-> l2'[s]] /\ \A s \in SetIdx(L2) : CleanSet(l2'[s])
      BY <1>0, <3>5, <3>6 DEF L2Clean
    <3> QED BY <3>7 DEF L2Clean, CleanSet
  <2> QED BY <1>4, <2>1, <2>2
<1>14. L2Counts'
  BY <1>8, <1>10 DEF L2Counts
<1>15. SpentExactly'
  <2> DEFINE g == l2stats.misses
             e == counters.dirty + dirty
  <2>1. spent = Cost(h, m, g, e)
    BY <1>0, <1>7 DEF SpentExactly, Evicted, Cost
  <2>2. Evicted' = counters.dirty + (dirty + Ones(r1.dirtyEviction))
    BY <1>2, <1>3 DEF Evicted
  <2>3. /\ g \in Nat /\ e \in Nat /\ x \in Nat
        /\ counters.dirty + (dirty + Ones(r1.dirtyEviction)) = e + Ones(r1.dirtyEviction)
    <3>1. counters.dirty \in Nat /\ dirty \in Nat /\ Ones(r1.dirtyEviction) \in Nat
      BY <1>0, <1>5 DEF TypeOK
    <3>2. x \in Nat
      BY <1>5 DEF x
    <3>3. l2stats.misses \in Nat
      BY <1>9 DEF Stats
    <3> QED BY <3>1, <3>2, <3>3
  <2>4. AccessLatency(r1, r2) = Cost(Ones(r1.hit), Ones(~r1.hit), x, Ones(r1.dirtyEviction))
    BY AccessCost DEF x
  <2>5. Cost(h + Ones(r1.hit), m + Ones(~r1.hit), g + x, e + Ones(r1.dirtyEviction))
          = Cost(h, m, g, e) + Cost(Ones(r1.hit), Ones(~r1.hit), x, Ones(r1.dirtyEviction))
    <3>1. Ones(r1.hit) \in Nat /\ Ones(~r1.hit) \in Nat /\ Ones(r1.dirtyEviction) \in Nat
      BY <1>5
    <3> HIDE DEF g, e
    <3>2. CostsAdd(h, m, g, e, Ones(r1.hit), Ones(~r1.hit), x, Ones(r1.dirtyEviction))
      BY <1>7, <2>3, <3>1, CostAdds
    <3> QED BY <3>2 DEF CostsAdd
  <2>6. spent' = Cost(Sum1("hits")', Sum1("misses")', l2stats'.misses, Evicted')
    BY <1>2, <1>8, <1>10, <2>1, <2>2, <2>3, <2>4, <2>5
  <2> QED BY <2>6 DEF SpentExactly, Cost
<1>16. Returned'
  BY <1>3 DEF Returned
<1> QED BY <1>11, <1>12, <1>13, <1>14, <1>15, <1>16 DEF IInv

\* One lane loads, stores or adds.
LEMMA LaneIInv ==
  ASSUME IInv, LaneAccess
  PROVE  IInv'
<1> DEFINE a0 == req.addrs[lane + 1]
<1>0. /\ TypeOK /\ MemoryMatchesLanes /\ L2Clean /\ L2Counts /\ SpentExactly /\ phase = "lanes"
  BY DEF IInv, LaneAccess
<1>1. /\ sm' = sm /\ req' = req /\ before' = before /\ counters' = counters /\ dirty' = dirty
      /\ spent' = spent /\ done' = done /\ pending' = pending /\ phase' = phase
      /\ UNCHANGED caches /\ l1stats' = l1stats /\ l2stats' = l2stats
      /\ lane < Len(req.addrs) /\ lane' = lane + 1
  BY DEF LaneAccess, caches, NextLane
<1>2. /\ req \in Request /\ sm \in SMs /\ lane \in 0..Len(req.addrs) /\ Len(req.addrs) \in Nat
      /\ lane + 1 \in 1..Len(req.addrs) /\ lane' \in 0..Len(req.addrs)
  <2>1. req \in Request /\ sm \in SMs /\ lane \in 0..Len(req.addrs)
    BY <1>0 DEF TypeOK
  <2>2. Len(req.addrs) \in Nat
    BY <2>1, RequestParts
  <2> QED BY <1>1, <2>1, <2>2
<1>3. a0 \in Nat /\ req.vals[lane + 1] \in Int
  BY <1>2, RequestParts
<1>4. SharedBase \in Nat /\ GlobalSize \in Nat /\ SharedSize \in Nat /\ GlobalSize <= SharedBase
  BY MemoryAssumption
<1>5. /\ global \in [0..GlobalSize-1 -> Int] /\ before[1] \in [0..GlobalSize-1 -> Int]
      /\ shared \in [SMs -> [0..SharedSize-1 -> Int]]
      /\ before[2] \in [SMs -> [0..SharedSize-1 -> Int]]
  BY <1>0 DEF TypeOK, GlobalCells, SharedCells
<1>6. Matches(global, shared, sm, req, lane, before[1], before[2])
  BY <1>0, MatchesIsProperty
<1>7. \A x \in Int : Effect(req, lane + 1, x) \in Int
  BY <1>2, <1>3, RequestParts DEF Effect
<1>8. \A a, old \in Int :
        After(req, lane + 1, a, old) =
          IF a0 = a THEN Effect(req, lane + 1, After(req, lane, a, old))
          ELSE After(req, lane, a, old)
  BY <1>1, <1>2, AfterLane
<1>9. /\ global' \in [0..GlobalSize-1 -> Int] /\ shared' \in [SMs -> [0..SharedSize-1 -> Int]]
      /\ Matches(global', shared', sm, req, lane + 1, before[1], before[2])
  <2>1. CASE IsShared(a0)
    <3> DEFINE c == a0 - SharedBase
               v == Effect(req, lane + 1, shared[sm][c])
    <3>1. a0 >= SharedBase /\ c \in Nat
      BY <1>3, <1>4, <2>1 DEF IsShared
    <3>2. c \in 0..SharedSize-1
      <4>1. c \in DOMAIN shared[sm]
        BY <2>1 DEF LaneAccess, Local, Addr, Cells, NextLane
      <4> QED BY <1>2, <1>5, <4>1
    <3>3. shared' = [shared EXCEPT ![sm][c] = v] /\ global' = global
      BY <2>1 DEF LaneAccess, Local, Addr, Cells, NextLane, Written, Effect
    <3>4. shared[sm][c] \in Int /\ v \in Int
      BY <1>2, <1>5, <1>7, <3>2
    <3>5. \A u \in SMs : \A a \in 0..SharedSize-1 :
            shared'[u][a] = IF u = sm /\ a = c THEN v ELSE shared[u][a]
      <4> HIDE DEF v, c
      <4> QED BY <1>2, <1>5, <3>2, <3>3
    <3>6. shared' \in [SMs -> [0..SharedSize-1 -> Int]]
      <4> HIDE DEF v, c
      <4> QED BY <1>2, <1>5, <3>2, <3>3, <3>4
    <3>7. ASSUME NEW a \in 0..GlobalSize-1
          PROVE  global'[a] = After(req, lane + 1, a, before[1][a])
      <4>1. a0 # a /\ a \in Int
        BY <1>3, <1>4, <3>1
      <4>2. global[a] = After(req, lane, a, before[1][a]) /\ before[1][a] \in Int
        BY <1>5, <1>6 DEF Matches
      <4> QED BY <1>8, <3>3, <4>1, <4>2
    <3>8. ASSUME NEW u \in SMs, NEW a \in 0..SharedSize-1
          PROVE  shared'[u][a] = IF u = sm THEN After(req, lane + 1, a + SharedBase, before[2][u][a])
                                           ELSE before[2][u][a]
      <4>1. /\ shared[u][a] = IF u = sm THEN After(req, lane, a + SharedBase, before[2][u][a])
                                        ELSE before[2][u][a]
            /\ before[2][u][a] \in Int
        BY <1>5, <1>6 DEF Matches
      <4>2. a + SharedBase \in Int /\ (a0 = a + SharedBase <=> a = c)
        BY <1>3, <1>4
      <4>3. CASE u # sm
        BY <3>5, <4>1, <4>3
      <4>4. CASE u = sm /\ a = c
        <5>1. shared'[u][a] = v
          BY <3>5, <4>4
        <5>2. v = Effect(req, lane + 1, After(req, lane, a + SharedBase, before[2][u][a]))
          BY <4>1, <4>4
        <5>3. After(req, lane + 1, a + SharedBase, before[2][u][a]) = v
          BY <1>8, <4>1, <4>2, <4>4, <5>2
        <5> QED BY <4>4, <5>1, <5>3
      <4>5. CASE u = sm /\ a # c
        <5>1. shared'[u][a] = After(req, lane, a + SharedBase, before[2][u][a])
          BY <3>5, <4>1, <4>5
        <5>2. After(req, lane + 1, a + SharedBase, before[2][u][a])
                = After(req, lane, a + SharedBase, before[2][u][a])
          BY <1>8, <4>1, <4>2, <4>5
        <5> QED BY <4>5, <5>1, <5>2
      <4> QED BY <4>3, <4>4, <4>5
    <3> QED BY <1>5, <3>3, <3>6, <3>7, <3>8 DEF Matches
  <2>2. CASE ~IsShared(a0)
    <3> DEFINE v == Effect(req, lane + 1, global[a0])
    <3>1. a0 < SharedBase
      BY <1>3, <1>4, <2>2 DEF IsShared
    <3>2. a0 \in 0..GlobalSize-1
      <4>1. a0 \in DOMAIN global
        BY <2>2 DEF LaneAccess, Local, Addr, Cells, NextLane
      <4> QED BY <1>5, <4>1
    <3>3. global' = [global EXCEPT ![a0] = v] /\ shared' = shared
      BY <2>2 DEF LaneAccess, Local, Addr, Cells, NextLane, Written, Effect
    <3>4. global[a0] \in Int /\ v \in Int
      BY <1>5, <1>7, <3>2
    <3>5. /\ global' \in [0..GlobalSize-1 -> Int]
          /\ \A a \in 0..GlobalSize-1 : global'[a] = IF a = a0 THEN v ELSE global[a]
      <4> HIDE DEF v, a0
      <4> QED BY <1>5, <3>2, <3>3, <3>4
    <3>6. ASSUME NEW a \in 0..GlobalSize-1
          PROVE  global'[a] = After(req, lane + 1, a, before[1][a])
      <4>1. global[a] = After(req, lane, a, before[1][a]) /\ before[1][a] \in Int /\ a \in Int
        <5>1. a \in Int
          BY <1>4
        <5>2. before[1][a] \in Int
          BY <1>5
        <5> QED BY <1>6, <5>1, <5>2 DEF Matches
      <4>2. CASE a = a0
        <5>1. v = Effect(req, lane + 1, After(req, lane, a, before[1][a]))
          BY <4>1, <4>2
        <5>2. After(req, lane + 1, a, before[1][a]) = v
          BY <1>8, <4>1, <4>2, <5>1
        <5> QED BY <3>5, <4>2, <5>2
      <4>3. CASE a # a0
        <5>1. After(req, lane + 1, a, before[1][a]) = After(req, lane, a, before[1][a])
          BY <1>8, <4>1, <4>3
        <5> QED BY <3>5, <4>1, <4>3, <5>1
      <4> QED BY <4>2, <4>3
    <3>7. ASSUME NEW u \in SMs, NEW a \in 0..SharedSize-1
          PROVE  shared'[u][a] = IF u = sm THEN After(req, lane + 1, a + SharedBase, before[2][u][a])
                                           ELSE before[2][u][a]
      <4>1. /\ shared[u][a] = IF u = sm THEN After(req, lane, a + SharedBase, before[2][u][a])
                                        ELSE before[2][u][a]
            /\ before[2][u][a] \in Int
        <5>1. before[2][u][a] \in Int
          BY <1>5
        <5> QED BY <1>6, <5>1 DEF Matches
      <4>2. a + SharedBase \in Int /\ a0 # a + SharedBase
        BY <1>3, <1>4, <3>1
      <4>3. After(req, lane + 1, a + SharedBase, before[2][u][a])
              = After(req, lane, a + SharedBase, before[2][u][a])
        BY <1>8, <4>1, <4>2
      <4> QED BY <3>3, <4>1, <4>3
    <3> QED BY <1>5, <3>3, <3>5, <3>6, <3>7 DEF Matches
  <2> QED BY <2>1, <2>2
<1>10. TypeOK'
  BY <1>0, <1>1, <1>2, <1>9 DEF TypeOK, GlobalCells, SharedCells
<1>11. MemoryMatchesLanes'
  BY <1>1, <1>9, <1>10, MatchesIsPropertyNext
<1>12. L2Clean' /\ L2Counts' /\ Sum1("hits")' = Sum1("hits") /\ Sum1("misses")' = Sum1("misses")
  BY <1>0, <1>1, AccountsKeep
<1>13. SpentExactly'
  <2>1. Evicted' = Evicted
    BY <1>1 DEF Evicted
  <2> QED BY <1>0, <1>1, <1>12, <2>1 DEF SpentExactly
<1>14. Returned'
  BY <1>0, <1>1 DEF Returned
<1> QED BY <1>10, <1>11, <1>12, <1>13, <1>14 DEF IInv

-----------------------------------------------------------------------------
(* The theorems.                                                           *)

\* The inductive invariant holds throughout every run of the memory system.
THEOREM Invariance == Spec => []IInv
<1>1. IInv /\ [Next]_vars => IInv'
  <2> SUFFICES ASSUME IInv, [Next]_vars PROVE IInv'
    OBVIOUS
  <2>1. ASSUME NEW s \in SMs, NEW r \in Request, Begin(s, r) PROVE IInv'
    BY <2>1, BeginIInv
  <2>2. CASE Transaction
    BY <2>2, TransactionIInv
  <2>3. CASE LaneAccess
    BY <2>3, LaneIInv
  <2>4. CASE LaneThrow \/ Return \/ Ended \/ UNCHANGED vars
    BY <2>4, ReturnIInv
  <2> QED BY <2>1, <2>2, <2>3, <2>4 DEF Next
<1> QED BY <1>1, InitIInv, PTL DEF Spec

\* The memories are always what the lanes served so far make of them: no lane
\* is lost when lanes collide and none takes effect after a throw, for warps,
\* memories and values of any size.
THEOREM MemoryAlwaysMatchesLanes == Spec => []MemoryMatchesLanes
<1>1. IInv => MemoryMatchesLanes
  BY DEF IInv
<1> QED BY <1>1, Invariance, PTL

\* The L2 is asked exactly once for each miss of any L1 and never holds a dirty
\* line: dirty lines of L1 are charged and go nowhere.
THEOREM L2AlwaysSeesOnlyMisses == Spec => []L2SeesOnlyMisses
<1>1. IInv => L2SeesOnlyMisses
  <2> SUFFICES ASSUME IInv PROVE L2SeesOnlyMisses
    OBVIOUS
  <2>1. l2stats.accesses = Sum1("misses")
    BY DEF IInv, L2Counts
  <2>2. ASSUME NEW s \in SetIdx(L2), NEW w \in Way(L2) PROVE ~l2[s].lines[w].dirty
    <3>1. l2[s].lines \in [Way(L2) -> CleanLine]
      BY DEF IInv, L2Clean, CleanSet
    <3>2. l2[s].lines[w] \in CleanLine
      BY <3>1
    <3> QED BY <3>2 DEF CleanLine
  <2> QED BY <2>1, <2>2 DEF L2SeesOnlyMisses
<1> QED BY <1>1, Invariance, PTL

\* Between instructions the AMAT of the statistics is the true average latency
\* of the transactions, for all latencies, geometries and numbers of SMs.
THEOREM AmatAlwaysExact == Spec => []AmatIsExact
<1>1. IInv => AmatIsExact
  <2> SUFFICES ASSUME IInv, phase = "idle"
               PROVE  spent * (l2stats.hits + l2stats.misses) = AmatTimesAccesses
    BY DEF AmatIsExact
  <2> DEFINE h == Sum1("hits")
             m == Sum1("misses")
             g == l2stats.misses
             d == counters.dirty
  <2>1. h \in Nat /\ m \in Nat
    <3>1. Hits(l1stats) \in [SMs -> Nat] /\ Misses(l1stats) \in [SMs -> Nat]
      BY DEF IInv, TypeOK, Hits, Misses, Stats
    <3> QED BY <3>1, PairsFinite, SumsAreTotals
  <2>2. g \in Nat /\ d \in Nat
    BY DEF IInv, TypeOK, Stats
  <2>3. l2stats.hits + g = m
    BY DEF IInv, L2Counts
  <2>4. L1Latency \in Nat /\ L2Latency \in Nat /\ GlobalLatency \in Nat /\ WritebackLatency \in Nat
    BY MemoryAssumption
  <2>5. Evicted = d
    BY <2>2 DEF Evicted
  <2>6. spent = L1Latency * (h + m) + L2Latency * m + GlobalLatency * g + WritebackLatency * d
    BY <2>5 DEF IInv, SpentExactly
  <2>7. AmatTimesAccesses =
          (L1Latency * (h + m) + m * L2Latency + d * WritebackLatency) * m + m * g * GlobalLatency
    BY <2>3 DEF AmatTimesAccesses
  <2> HIDE DEF h, m, g, d
  <2>8. \A x, y \in Nat : x * y = y * x /\ x * y \in Nat /\ x + y \in Nat
    OBVIOUS
  <2>9. m * g * GlobalLatency = (GlobalLatency * g) * m
    <3>1. \A x, y, z \in Nat : x * y * z = (z * y) * x
      OBVIOUS
    <3> QED BY <2>1, <2>2, <2>4, <3>1
  <2>10. \A p, q, t, w, n \in Nat : (p + q + t + w) * n = (p + q + w) * n + t * n
    OBVIOUS
  <2>11. /\ L1Latency * (h + m) \in Nat /\ L2Latency * m \in Nat
         /\ GlobalLatency * g \in Nat /\ WritebackLatency * d \in Nat
         /\ m * L2Latency = L2Latency * m /\ d * WritebackLatency = WritebackLatency * d
    BY <2>1, <2>2, <2>4, <2>8
  <2>12. spent * m = (L1Latency * (h + m) + L2Latency * m + WritebackLatency * d) * m
                     + (GlobalLatency * g) * m
    BY <2>1, <2>6, <2>10, <2>11
  <2>13. l2stats.hits + l2stats.misses = m
    BY <2>3 DEF g
  <2> QED BY <2>7, <2>9, <2>11, <2>12, <2>13
<1> QED BY <1>1, Invariance, PTL

\* The coalescer makes as few transactions as aligned lines allow, whatever the
\* addresses of the warp and the line size.
THEOREM TransactionsAlwaysMinimal == Spec => []TransactionsMinimal
<1>1. IInv => TransactionsMinimal
  <2> SUFFICES ASSUME IInv, phase = "idle", done > 0, ~IsShared(req.addrs[1])
               PROVE  /\ \E S \in SUBSET LinesTo(req.addrs) :
                           Covers(S, req.addrs) /\ Cardinality(S) = result.transactions
                      /\ \A S \in SUBSET LinesTo(req.addrs) :
                           Covers(S, req.addrs) => result.transactions <= Cardinality(S)
    BY DEF TransactionsMinimal, LinesTo
  <2>1. req \in Request
    BY DEF IInv, TypeOK
  <2>2. result.transactions = Cardinality(Coalesce(req.addrs))
    BY DEF IInv, Returned
  <2> QED BY <2>1, <2>2, CoalesceIsLeast, CoalesceMinimal
<1> QED BY <1>1, Invariance, PTL

\* The bank conflicts charged are the rounds beyond the first that the banks
\* need, for every number of banks and every warp.
THEOREM ConflictsAlwaysExtraRounds == Spec => []ConflictsAreExtraRounds
<1>1. IInv => ConflictsAreExtraRounds
  <2> SUFFICES ASSUME IInv, phase = "idle", done > 0, IsShared(req.addrs[1])
               PROVE  LET words == {Word(a) : a \in ToSet(req.addrs)}
                      IN  /\ ReadInRounds(words, result.conflicts + 1)
                          /\ ~ReadInRounds(words, result.conflicts)
    BY DEF ConflictsAreExtraRounds
  <2>1. req \in Request
    BY DEF IInv, TypeOK
  <2>2. result.conflicts = BankConflicts(req.addrs)
    BY DEF IInv, Returned
  <2> QED BY <2>1, <2>2, BanksNeedRounds
<1> QED BY <1>1, Invariance, PTL
=============================================================================
