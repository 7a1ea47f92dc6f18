-------------------------- MODULE SchedulerProofs --------------------------
(***************************************************************************)
(* Proofs about the scheduling policies, for any number of warps and any   *)
(* state that a scheduler can be left in by earlier launches.              *)
(***************************************************************************)
EXTENDS WarpScheduler, NatLemmas

\* What select_warp reads is what the SM maintains.
SchedulerTyped ==
  /\ warps \subseteq Warp /\ readySince \in [Warp -> Nat]
  /\ DOMAIN sched = {"next", "last", "active", "rr"} /\ sched.next \in Nat

-----------------------------------------------------------------------------
(* The vector of warps and the round-robin scan of it.                     *)

\* The vector is finite.
LEMMA WarpsFinite ==
  ASSUME warps \subseteq Warp
  PROVE  /\ IsFiniteSet(warps) /\ Cardinality(warps) \in Nat
         /\ \A S \in SUBSET warps : IsFiniteSet(S) /\ Cardinality(S) \in Nat
<1>1. IsFiniteSet(Warp)
  BY SchedulerAssumption
<1>2. IsFiniteSet(warps)
  BY <1>1, FS_Subset
<1>3. \A S \in SUBSET warps : IsFiniteSet(S)
  BY <1>2, FS_Subset
<1> QED BY <1>2, <1>3, FS_CardinalityType

\* The positions are places of the vector, in the order of the warps.
LEMMA PositionOrder ==
  ASSUME warps \subseteq Warp, NEW w \in warps
  PROVE  /\ Cardinality(warps) \in Nat \ {0} /\ Position(w) \in 0..Cardinality(warps)-1
         /\ \A u \in warps : u < w => Position(u) < Position(w)
<1> DEFINE Below(u) == {v \in warps : v < u}
<1>1. \A u \in warps : u \in Nat
  BY SchedulerAssumption
<1>2. /\ IsFiniteSet(warps) /\ Cardinality(warps) \in Nat
      /\ \A u \in warps : IsFiniteSet(Below(u)) /\ Cardinality(Below(u)) \in Nat
  BY WarpsFinite
<1>3. Cardinality(Below(w)) < Cardinality(warps)
  <2>1. Below(w) \subseteq warps /\ Below(w) # warps
    BY <1>1
  <2> HIDE DEF Below
  <2> QED BY <1>2, <2>1, FS_Subset
<1>4. ASSUME NEW u \in warps, u < w PROVE Cardinality(Below(u)) < Cardinality(Below(w))
  <2>1. Below(u) \subseteq Below(w)
    BY <1>1, <1>4
  <2>2. u \in Below(w) /\ u \notin Below(u)
    BY <1>1, <1>4
  <2> HIDE DEF Below
  <2>3. Below(u) # Below(w)
    BY <2>2
  <2> QED BY <1>2, <2>1, <2>3, FS_Subset
<1>5. \A u : Position(u) = Cardinality(Below(u))
  BY DEF Position
<1> HIDE DEF Below
<1> QED BY <1>2, <1>3, <1>4, <1>5

\* The scan meets every warp at a turn of its own.
LEMMA TurnDistinct ==
  ASSUME SchedulerTyped, NEW w \in warps
  PROVE  /\ Turn(w) \in 0..Cardinality(warps)-1
         /\ \E q \in Int : Position(w) - sched.next = Cardinality(warps) * q + Turn(w)
         /\ \A u \in warps : Turn(u) = Turn(w) => u = w
<1> DEFINE n == Cardinality(warps)
           k == sched.next
<1>1. k \in Nat /\ warps \subseteq Warp
  BY DEF SchedulerTyped
<1>2. n \in Nat \ {0} /\ \A u \in warps : Position(u) \in 0..n-1
  BY <1>1, PositionOrder
<1>3. \A u : Turn(u) = (Position(u) - k) % n
  BY DEF Turn
<1> HIDE DEF n, k
<1>4. ASSUME NEW u \in warps
      PROVE  Turn(u) \in 0..n-1 /\ \E q \in Int : Position(u) - k = n * q + Turn(u)
  <2>1. Position(u) - k \in Int
    BY <1>1, <1>2
  <2>2. /\ (Position(u) - k) % n \in 0..n-1
        /\ \E q \in Int : Position(u) - k = n * q + ((Position(u) - k) % n)
    BY <1>2, <2>1, RemainderIs
  <2> QED BY <1>3, <2>2
<1>5. ASSUME NEW u \in warps, Turn(u) = Turn(w) PROVE u = w
  <2>1. PICK p \in Int : Position(u) - k = n * p + Turn(u)
    BY <1>4
  <2>2. PICK q \in Int : Position(w) - k = n * q + Turn(w)
    BY <1>4
  <2>3. Position(u) = Position(w)
    <3> DEFINE P == Position(u)
               Q == Position(w)
               t == Turn(w)
    <3>1. P \in 0..n-1 /\ Q \in 0..n-1 /\ t \in Int
      BY <1>2, <1>4
    <3>2. P - k = n * p + t /\ Q - k = n * q + t
      BY <1>5, <2>1, <2>2
    <3> HIDE DEF P, Q, t
    <3>3. P = n * (p - q) + Q
      <4>1. n * (p - q) = n * p - n * q /\ n * p \in Int /\ n * q \in Int
        BY <1>2
      <4> QED BY <1>1, <3>1, <3>2, <4>1
    <3>4. p - q \in Int /\ P \in Int
      BY <3>1
    <3>5. P = n * 0 + P
      BY <1>2, <3>1
    <3>6. P % n = P /\ P % n = Q
      <4> DEFINE z == p - q
      <4>1. \A y \in Int, r \in 0..n-1 : P = n * y + r => P % n = r
        BY <1>2, <3>4, RemainderIs
      <4>2. z \in Int /\ P = n * z + Q /\ 0 \in Int
        BY <3>3
      <4> HIDE DEF z
      <4> QED BY <3>1, <3>5, <4>1, <4>2
    <3> QED BY <3>6 DEF P, Q
  <2>4. ~(u < w) /\ ~(w < u)
    <3>1. Position(u) \in Int
      BY <1>2
    <3> QED BY <1>1, <2>3, <3>1, PositionOrder
  <2>5. u \in Nat /\ w \in Nat
    BY <1>1, SchedulerAssumption
  <2> QED BY <2>4, <2>5
<1> QED BY <1>4, <1>5 DEF n, k

-----------------------------------------------------------------------------
(* Exactly one warp is selected.                                           *)

\* A relation orders a set, so exactly one member comes first.
LEMMA OneFirst ==
  ASSUME NEW S, IsFiniteSet(S), S # {}, NEW R, Compares(R, S),
         \A x, y \in S : <<x, y>> \in R /\ <<y, x>> \in R => x = y
  PROVE  \E x \in S : \A v \in S : (\A y \in S : <<v, y>> \in R) <=> v = x
<1>1. PICK x \in S : \A y \in S : <<x, y>> \in R
  BY FirstExists
<1>2. \A v \in S : (\A y \in S : <<v, y>> \in R) <=> v = x
  BY <1>1
<1> QED BY <1>2

\* The members of S that come first by each policy.
LEMMA OneLeast ==
  ASSUME NEW S, S \in SUBSET Nat, S # {}
  PROVE  \E x \in S : \A v \in S : (\A y \in S : v <= y) <=> v = x
<1>1. PICK x \in S : \A y \in S : x <= y
  BY LeastNumber
<1>2. ASSUME NEW v \in S, \A y \in S : v <= y PROVE v = x
  <2>1. v <= x /\ x <= v /\ x \in Nat /\ v \in Nat
    BY <1>1, <1>2
  <2> QED BY <2>1
<1> QED BY <1>1, <1>2

\* Round robin: by turn.
LEMMA OneByTurn ==
  ASSUME SchedulerTyped, Ready # {}
  PROVE  \E x \in Ready : \A v \in Ready : SelectsRoundRobin(v) <=> v = x
<1> DEFINE R == {p \in Ready \X Ready : Turn(p[1]) <= Turn(p[2])}
<1>0. Ready \subseteq warps /\ IsFiniteSet(Ready)
  BY WarpsFinite DEF Ready, SchedulerTyped
<1>1. \A x \in Ready : Turn(x) \in Int
  BY <1>0, TurnDistinct
<1>2. \A x, y \in Ready : <<x, y>> \in R <=> Turn(x) <= Turn(y)
  OBVIOUS
<1>3. \A x, y \in Ready : Turn(x) = Turn(y) => x = y
  BY <1>0, TurnDistinct
<1> HIDE DEF R
<1>4. Compares(R, Ready)
  BY <1>1, <1>2 DEF Compares
<1>5. \A x, y \in Ready : <<x, y>> \in R /\ <<y, x>> \in R => x = y
  BY <1>1, <1>2, <1>3
<1>6. \E x \in Ready : \A v \in Ready : (\A y \in Ready : <<v, y>> \in R) <=> v = x
  BY <1>0, <1>4, <1>5, OneFirst
<1> QED BY <1>2, <1>6 DEF SelectsRoundRobin

\* No warp has the priority that PriorityScheduler takes for none.
PrioritiesCount == policy = "Priority" => \A w \in Warp : Priority[w] > LowestInt

\* Priority: by priority, then by turn.
LEMMA OneByPriority ==
  ASSUME SchedulerTyped, policy = "Priority", PrioritiesCount, Ready # {}
  PROVE  \E x \in Ready : \A v \in Ready : SelectsPriority(v) <=> v = x
<1> DEFINE Above(x, y) == \/ Priority[y] < Priority[x]
                          \/ Priority[y] = Priority[x] /\ Turn(x) <= Turn(y)
           R == {p \in Ready \X Ready : Above(p[1], p[2])}
<1>0. Ready \subseteq warps /\ IsFiniteSet(Ready)
  BY WarpsFinite DEF Ready, SchedulerTyped
<1>1. \A x \in Ready : Turn(x) \in Int /\ Priority[x] \in Int
  BY <1>0, TurnDistinct, SchedulerAssumption DEF SchedulerTyped
<1>2. \A x, y \in Ready : <<x, y>> \in R <=> Above(x, y)
  OBVIOUS
<1>3. \A x, y \in Ready : Turn(x) = Turn(y) => x = y
  BY <1>0, TurnDistinct
<1> HIDE DEF R
<1>4. Compares(R, Ready)
  BY <1>1, <1>2 DEF Compares
<1>5. \A x, y \in Ready : <<x, y>> \in R /\ <<y, x>> \in R => x = y
  BY <1>1, <1>2, <1>3
<1>6. \E x \in Ready : \A v \in Ready : (\A y \in Ready : <<v, y>> \in R) <=> v = x
  BY <1>0, <1>4, <1>5, OneFirst
<1>7. \A x \in Ready : Priority[x] > LowestInt
  BY <1>0 DEF SchedulerTyped, PrioritiesCount
<1>8. \A x \in Ready : SelectsPriority(x) <=> \A y \in Ready : <<x, y>> \in R
  BY <1>2, <1>7 DEF SelectsPriority
<1> QED BY <1>6, <1>8

\* Oldest first: by age, then by id, then by place.
LEMMA OneOldest ==
  ASSUME SchedulerTyped, Ready # {}
  PROVE  \E x \in Ready : \A v \in Ready : SelectsOldest(v) <=> v = x
<1> DEFINE Prior(x, y) == x = y \/ Older(x, y) \/ (~Older(y, x) /\ x < y)
           R == {p \in Ready \X Ready : Prior(p[1], p[2])}
<1>0. Ready \subseteq warps /\ IsFiniteSet(Ready)
  BY WarpsFinite DEF Ready, SchedulerTyped
<1>1. \A x \in Ready : x \in Nat /\ readySince[x] \in Nat /\ WarpId[x] \in Nat
  BY <1>0, SchedulerAssumption DEF SchedulerTyped
<1>2. \A x, y \in Ready : <<x, y>> \in R <=> Prior(x, y)
  OBVIOUS
<1> HIDE DEF R
<1>3. Compares(R, Ready)
  <2>1. \A x, y \in Ready : Prior(x, y) \/ Prior(y, x)
    BY <1>1 DEF Older
  <2>2. \A x, y, z \in Ready : Prior(x, y) /\ Prior(y, z) => Prior(x, z)
    BY <1>1 DEF Older
  <2> HIDE DEF Prior
  <2> QED BY <1>2, <2>1, <2>2 DEF Compares
<1>4. \A x, y \in Ready : <<x, y>> \in R /\ <<y, x>> \in R => x = y
  BY <1>1, <1>2 DEF Older
<1>5. \E x \in Ready : \A v \in Ready : (\A y \in Ready : <<v, y>> \in R) <=> v = x
  BY <1>0, <1>3, <1>4, OneFirst
<1>6. \A v \in Ready : SelectsOldest(v) <=> \A y \in Ready : Prior(v, y)
  BY DEF SelectsOldest
<1> HIDE DEF Prior
<1> QED BY <1>2, <1>5, <1>6

\* Greedy then oldest: the warp issued last if it can go on.
LEMMA OneGTO ==
  ASSUME SchedulerTyped, Ready # {}
  PROVE  \E x \in Ready : \A v \in Ready : SelectsGTO(v) <=> v = x
<1> DEFINE A == {u \in Ready : WarpId[u] = sched.last}
<1>1. CASE A = {}
  <2>1. \A v : SelectsGTO(v) <=> SelectsOldest(v)
    BY <1>1 DEF SelectsGTO
  <2> QED BY <2>1, OneOldest
<1>2. CASE A # {}
  <2>1. A \in SUBSET Nat
    BY SchedulerAssumption DEF SchedulerTyped, Ready
  <2>2. \A v : SelectsGTO(v) <=> v \in A /\ \A u \in A : v <= u
    BY <1>2 DEF SelectsGTO
  <2>3. A \subseteq Ready
    OBVIOUS
  <2> HIDE DEF A
  <2>4. PICK x \in A : \A v \in A : (\A y \in A : v <= y) <=> v = x
    BY <1>2, <2>1, OneLeast
  <2> QED BY <2>2, <2>3, <2>4
<1> QED BY <1>1, <1>2

\* The policies other than TwoLevel.
SingleLevel == {"RR", "Greedy", "Priority", "OldestFirst", "GTO"}

\* select_warp returns one warp, and only one, when one is ready.
LEMMA OneSelected ==
  ASSUME SchedulerTyped, policy \in SingleLevel, PrioritiesCount, Ready # {}
  PROVE  \E x \in Ready : {w \in warps : Selects(w)} = {x}
<1>0. Ready \subseteq warps /\ Ready \in SUBSET Nat
  BY SchedulerAssumption DEF Ready, SchedulerTyped
<1>1. SUFFICES \E x \in Ready : \A v \in Ready : Selects(v) <=> v = x
  <2>1. \A v : Selects(v) => v \in Ready
    BY DEF Selects
  <2> QED BY <1>0, <2>1
<1>2. CASE policy = "RR"
  BY <1>2, OneByTurn DEF Selects
<1>3. CASE policy = "Greedy"
  <2>1. \A v \in Ready : Selects(v) <=> \A y \in Ready : v <= y
    BY <1>3 DEF Selects, SelectsGreedy
  <2> QED BY <1>0, <2>1, OneLeast
<1>4. CASE policy = "Priority"
  BY <1>4, OneByPriority DEF Selects
<1>5. CASE policy = "OldestFirst"
  BY <1>5, OneOldest DEF Selects
<1>6. CASE policy = "GTO"
  BY <1>6, OneGTO DEF Selects
<1> QED BY <1>2, <1>3, <1>4, <1>5, <1>6 DEF SingleLevel

-----------------------------------------------------------------------------
(* TwoLevel: what update_active_set leaves, and what the scan finds in it. *)

\* active_warp_ids_ holds ids, and rr_index_ is a size_t.
PlacesTyped == sched.active \in Seq(Nat) /\ sched.rr \in Nat

\* No id takes two places.
NoRepeats(s) == \A i, j \in DOMAIN s : s[i] = s[j] => i = j

\* s holds what step 1 keeps of the first i places.
KeptOf(s, i) ==
  /\ s \in Seq(Nat)
  /\ \A id : (\E n \in 1..Len(s) : s[n] = id)
               <=> (KeepsPlace(id) /\ \E j \in 1..i : sched.active[j] = id)
  /\ NoRepeats(sched.active) => NoRepeats(s)

\* Appending an id that is not in the sequence repeats none.
LEMMA AppendNew ==
  ASSUME NEW s \in Seq(Nat), NEW x \in Nat
  PROVE  /\ Append(s, x) \in Seq(Nat) /\ Len(Append(s, x)) = Len(s) + 1
         /\ \A n \in 1..Len(s) : Append(s, x)[n] = s[n]
         /\ Append(s, x)[Len(s) + 1] = x
         /\ NoRepeats(s) /\ (\A n \in 1..Len(s) : s[n] # x) => NoRepeats(Append(s, x))
<1>1. /\ Append(s, x) \in Seq(Nat) /\ Len(Append(s, x)) = Len(s) + 1 /\ Len(s) \in Nat
      /\ \A n \in 1..Len(s) : Append(s, x)[n] = s[n]
      /\ Append(s, x)[Len(s) + 1] = x
  OBVIOUS
<1>2. DOMAIN s = 1..Len(s) /\ DOMAIN Append(s, x) = 1..Len(s)+1
  OBVIOUS
<1> QED BY <1>1, <1>2 DEF NoRepeats

\* Step 1 keeps the ids of unfinished warps, each as often as it was there.
LEMMA KeptIs ==
  ASSUME PlacesTyped
  PROVE  KeptOf(Kept, Len(sched.active))
<1> DEFINE a == sched.active
           m == Len(a)
           nextOf(i, k) == IF KeepsPlace(a[i]) THEN Append(k, a[i]) ELSE k
           body(f) == [i \in 0..m |-> IF i = 0 THEN <<>> ELSE nextOf(i, f[i-1])]
           d == [p \in (1..m) \X Seq(Nat) |-> nextOf(p[1], p[2])]
           A == CHOOSE f : f = body(f)
<1>1. Kept = A[m]
  BY DEF Kept
<1>2. /\ m \in Nat /\ DOMAIN a = 1..m /\ \A i \in 1..m : a[i] \in Nat
  BY DEF PlacesTyped
<1>3. d \in [(1..m) \X Seq(Nat) -> Seq(Nat)]
  <2>1. ASSUME NEW i \in 1..m, NEW k \in Seq(Nat) PROVE nextOf(i, k) \in Seq(Nat)
    BY <1>2, AppendNew
  <2> HIDE DEF nextOf, m
  <2> QED BY <2>1
<1>4. PICK F : Iterates(F, <<>>, d, m, Seq(Nat))
  <2> HIDE DEF d, m
  <2>1. <<>> \in Seq(Nat)
    OBVIOUS
  <2> QED BY <1>2, <1>3, <2>1, Iteration
<1> HIDE DEF m
<1>5. F \in [0..m -> Seq(Nat)] /\ F[0] = <<>> /\ \A i \in 1..m : F[i] = nextOf(i, F[i-1])
  <2>1. /\ F \in [0..m -> Seq(Nat)] /\ F[0] = <<>>
        /\ \A i \in 1..m : F[i] = d[<<i, F[i-1]>>]
    <3> HIDE DEF d
    <3> QED BY <1>4 DEF Iterates
  <2>2. ASSUME NEW i \in 1..m PROVE F[i] = nextOf(i, F[i-1])
    <3>1. i - 1 \in 0..m
      BY <1>2
    <3>2. F[i-1] \in Seq(Nat)
      BY <2>1, <3>1
    <3> HIDE DEF nextOf
    <3> QED BY <2>1, <3>2
  <2> QED BY <2>1, <2>2
<1> HIDE DEF nextOf, d
<1>6. F = body(F)
  BY <1>2, <1>5
<1>7. A = body(A)
  BY <1>6
<1> HIDE DEF A
<1>8. A[0] = <<>> /\ \A i \in 1..m : A[i] = nextOf(i, A[i-1])
  BY <1>2, <1>7
<1> DEFINE T == {i \in 0..m : ~KeptOf(A[i], i)}
<1>9. T = {}
  <2>1. SUFFICES ASSUME T # {} PROVE FALSE
    OBVIOUS
  <2>2. PICK i \in T : \A j \in T : i <= j
    <3>1. T \in SUBSET Nat
      BY <1>2
    <3> QED BY <2>1, <3>1, LeastNumber
  <2>3. i \in 0..m /\ ~KeptOf(A[i], i)
    OBVIOUS
  <2>4. CASE i = 0
    <3> DEFINE e == A[i]
    <3>1. e = <<>> /\ i = 0
      BY <1>8, <2>4
    <3>2. ~KeptOf(e, 0)
      BY <2>3, <3>1
    <3> HIDE DEF e
    <3>3. e \in Seq(Nat) /\ Len(e) = 0 /\ DOMAIN e = {}
      BY <3>1
    <3>4. 1..0 = {}
      OBVIOUS
    <3> QED BY <3>2, <3>3, <3>4 DEF KeptOf, NoRepeats
  <2>5. CASE i # 0
    <3>1. i \in 1..m /\ i - 1 \in 0..m /\ i - 1 < i /\ i \in Nat
      BY <1>2, <2>3, <2>5
    <3>2. i - 1 \notin T
      BY <2>2, <3>1
    <3>3. KeptOf(A[i-1], i-1)
      BY <3>1, <3>2
    <3> DEFINE s == A[i-1]
               x == a[i]
    <3>4. A[i] = nextOf(i, s) /\ x \in Nat
      BY <1>2, <1>8, <3>1
    <3>5. A[i] = IF KeepsPlace(x) THEN Append(s, x) ELSE s
      BY <3>4 DEF nextOf
    <3>6. /\ s \in Seq(Nat) /\ Len(s) \in Nat
          /\ \A id : (\E n \in 1..Len(s) : s[n] = id)
                       <=> (KeepsPlace(id) /\ \E j \in 1..i-1 : a[j] = id)
          /\ NoRepeats(a) => NoRepeats(s)
      <4>1. KeptOf(s, i-1)
        BY <3>3
      <4> HIDE DEF s
      <4>2. /\ s \in Seq(Nat)
            /\ \A id : (\E n \in 1..Len(s) : s[n] = id)
                         <=> (KeepsPlace(id) /\ \E j \in 1..i-1 : a[j] = id)
            /\ NoRepeats(a) => NoRepeats(s)
        BY <4>1, Zenon DEF KeptOf
      <4>3. Len(s) \in Nat
        BY <4>2
      <4> QED BY <4>2, <4>3
    <3>7. \A id : (\E j \in 1..i : a[j] = id) <=> (id = x \/ \E j \in 1..i-1 : a[j] = id)
      BY <3>1
    <3> HIDE DEF s, x, T
    <3>8. CASE KeepsPlace(x)
      <4>1. A[i] = Append(s, x)
        BY <3>5, <3>8
      <4>2. /\ Append(s, x) \in Seq(Nat) /\ Len(Append(s, x)) = Len(s) + 1
            /\ \A n \in 1..Len(s) : Append(s, x)[n] = s[n]
            /\ Append(s, x)[Len(s) + 1] = x
            /\ NoRepeats(s) /\ (\A n \in 1..Len(s) : s[n] # x) => NoRepeats(Append(s, x))
        BY <3>4, <3>6, AppendNew
      <4>3. \A id : (\E n \in 1..Len(s)+1 : A[i][n] = id)
                      <=> (id = x \/ \E n \in 1..Len(s) : s[n] = id)
        BY <3>6, <4>1, <4>2
      <4>4. ASSUME NoRepeats(a) PROVE NoRepeats(A[i])
        <5>1. ASSUME NEW j \in 1..i-1 PROVE a[j] # x
          BY <1>2, <3>1, <4>4 DEF NoRepeats, x
        <5>2. \A n \in 1..Len(s) : s[n] # x
          BY <3>6, <5>1
        <5> QED BY <3>6, <4>1, <4>2, <4>4, <5>2
      <4>5. \A id : (\E n \in 1..Len(A[i]) : A[i][n] = id)
                      <=> (KeepsPlace(id) /\ \E j \in 1..i : a[j] = id)
        <5>1. Len(A[i]) = Len(s) + 1
          BY <4>1, <4>2
        <5> QED BY <3>6, <3>7, <3>8, <4>3, <5>1
      <4>6. KeptOf(A[i], i)
        BY <4>1, <4>2, <4>4, <4>5 DEF KeptOf
      <4> QED BY <2>3, <4>6
    <3>9. CASE ~KeepsPlace(x)
      <4>1. A[i] = s
        BY <3>5, <3>9
      <4>2. KeptOf(A[i], i)
        BY <3>6, <3>7, <3>9, <4>1 DEF KeptOf
      <4> QED BY <2>3, <4>2
    <3> QED BY <3>8, <3>9
  <2> QED BY <2>4, <2>5
<1>10. KeptOf(A[m], m)
  <2>1. m \in 0..m /\ m \notin T
    BY <1>2, <1>9
  <2> QED BY <2>1
<1> QED BY <1>1, <1>10 DEF m

\* Sorting by age is a strict total order of the warps.
LEMMA BeforeOrders ==
  ASSUME SchedulerTyped
  PROVE  /\ \A u \in warps : ~Before(u, u)
         /\ \A u, v \in warps : u # v => Before(u, v) \/ Before(v, u)
         /\ \A u, v, w \in warps : Before(u, v) /\ Before(v, w) => Before(u, w)
<1>1. \A x \in warps : x \in Nat /\ readySince[x] \in Nat /\ WarpId[x] \in Nat
  BY SchedulerAssumption DEF SchedulerTyped
<1> QED BY <1>1 DEF Before, Older

\* The candidates sorted by age: the ranks are 0, 1, 2, ... without gaps.
LEMMA RanksComplete ==
  ASSUME SchedulerTyped, NEW S \in SUBSET warps
  PROVE  /\ Cardinality(S) \in Nat
         /\ \A w \in S : AgeRank(w, S) \in 0..Cardinality(S)-1
         /\ \A u, w \in S : Before(u, w) => AgeRank(u, S) < AgeRank(w, S)
         /\ \A k \in 0..Cardinality(S)-1 : \E w \in S : AgeRank(w, S) = k
<1> DEFINE First(w) == {u \in S : Before(u, w)}
           n == Cardinality(S)
           rank == [w \in S |-> AgeRank(w, S)]
<1>1. /\ IsFiniteSet(S) /\ n \in Nat
      /\ \A w : IsFiniteSet(First(w)) /\ Cardinality(First(w)) \in Nat
  <2>1. IsFiniteSet(S)
    BY WarpsFinite DEF SchedulerTyped
  <2>2. \A w : First(w) \subseteq S
    OBVIOUS
  <2> HIDE DEF First
  <2> QED BY <2>1, <2>2, FS_Subset, FS_CardinalityType
<1>2. \A w : AgeRank(w, S) = Cardinality(First(w))
  BY DEF AgeRank
<1>3. ASSUME NEW w \in S PROVE AgeRank(w, S) \in 0..n-1
  <2>1. First(w) \subseteq S /\ w \notin First(w)
    BY BeforeOrders
  <2> HIDE DEF First
  <2>2. First(w) # S
    BY <2>1
  <2>3. Cardinality(First(w)) < n
    BY <1>1, <2>1, <2>2, FS_Subset
  <2> QED BY <1>1, <1>2, <2>3
<1>4. ASSUME NEW u \in S, NEW w \in S, Before(u, w) PROVE AgeRank(u, S) < AgeRank(w, S)
  <2>1. First(u) \subseteq First(w)
    BY <1>4, BeforeOrders
  <2>2. u \in First(w) /\ u \notin First(u)
    BY <1>4, BeforeOrders
  <2> HIDE DEF First
  <2>3. First(u) # First(w)
    BY <2>2
  <2> QED BY <1>1, <1>2, <2>1, <2>3, FS_Subset
<1>5. rank \in Injection(S, 0..n-1)
  <2>1. rank \in [S -> 0..n-1]
    BY <1>3
  <2>2. ASSUME NEW u \in S, NEW w \in S, rank[u] = rank[w] PROVE u = w
    <3>1. AgeRank(u, S) = AgeRank(w, S) /\ AgeRank(u, S) \in Int
      BY <1>3, <2>2
    <3>2. ~Before(u, w) /\ ~Before(w, u)
      BY <1>4, <3>1
    <3> QED BY <3>2, BeforeOrders
  <2> HIDE DEF rank
  <2> QED BY <2>1, <2>2 DEF Injection, IsInjective
<1>6. IsFiniteSet(0..n-1) /\ Cardinality(0..n-1) = n
  <2> HIDE DEF n
  <2>1. 0 \in Int /\ n - 1 \in Int
    BY <1>1
  <2>2. IsFiniteSet(0..n-1) /\ Cardinality(0..n-1) = IF 0 > n-1 THEN 0 ELSE (n-1)-0+1
    BY <2>1, FS_Interval
  <2> QED BY <1>1, <2>2
<1>7. rank \in Surjection(S, 0..n-1)
  <2> HIDE DEF rank
  <2> QED BY <1>5, <1>6, FS_Injection DEF n
<1>8. ASSUME NEW k \in 0..n-1 PROVE \E w \in S : AgeRank(w, S) = k
  <2>1. \E w \in S : rank[w] = k
    <3> HIDE DEF rank
    <3> QED BY <1>7 DEF Surjection
  <2> QED BY <2>1
<1> QED BY <1>1, <1>3, <1>4, <1>8

\* The warps that step 2 considers, and those it has places for.
Candidates == {w \in Ready : WarpId[w] \notin ToSet(Kept)}
Admitted == {w \in Candidates : Len(Kept) + AgeRank(w, Candidates) < ActiveSetSize}
AdmittedAt(i) == CHOOSE w \in Admitted : AgeRank(w, Candidates) = i - 1

\* The places that step 2 fills go to different warps, to each that it admits.
LEMMA AdmittedInTurn ==
  ASSUME SchedulerTyped, PlacesTyped
  PROVE  /\ Cardinality(Admitted) \in Nat
         /\ \A i \in 1..Cardinality(Admitted) :
              AdmittedAt(i) \in Admitted /\ AgeRank(AdmittedAt(i), Candidates) = i - 1
         /\ \A w \in Admitted : \E i \in 1..Cardinality(Admitted) : AdmittedAt(i) = w
<1> DEFINE C == Candidates
           A == Admitted
           n == Cardinality(A)
<1>0. /\ C \in SUBSET warps /\ A \in SUBSET C /\ A \in SUBSET warps
      /\ Len(Kept) \in Nat /\ ActiveSetSize \in Nat
  BY KeptIs, SchedulerAssumption DEF Candidates, Admitted, Ready, KeptOf
<1>1. /\ n \in Nat /\ \A w \in A : AgeRank(w, A) \in 0..n-1
      /\ \A k \in 0..n-1 : \E w \in A : AgeRank(w, A) = k
  BY <1>0, RanksComplete
<1>2. /\ \A w \in C : AgeRank(w, C) \in Int
      /\ \A u, w \in C : Before(u, w) => AgeRank(u, C) < AgeRank(w, C)
  <2>1. /\ Cardinality(C) \in Nat /\ \A w \in C : AgeRank(w, C) \in 0..Cardinality(C)-1
        /\ \A u, w \in C : Before(u, w) => AgeRank(u, C) < AgeRank(w, C)
    BY <1>0, RanksComplete
  <2> QED BY <2>1
<1>3. ASSUME NEW w \in A PROVE AgeRank(w, A) = AgeRank(w, C)
  <2>1. ASSUME NEW u \in C, Before(u, w) PROVE u \in A
    <3>1. AgeRank(u, C) < AgeRank(w, C) /\ Len(Kept) + AgeRank(w, C) < ActiveSetSize
      BY <1>0, <1>2, <2>1 DEF Admitted
    <3>2. AgeRank(u, C) \in Int /\ AgeRank(w, C) \in Int
      BY <1>0, <1>2
    <3>3. Len(Kept) + AgeRank(u, C) < ActiveSetSize
      BY <1>0, <3>1, <3>2
    <3> QED BY <3>3 DEF Admitted
  <2>2. {u \in A : Before(u, w)} = {u \in C : Before(u, w)}
    BY <1>0, <2>1
  <2> QED BY <2>2 DEF AgeRank
<1> HIDE DEF n
<1>4. ASSUME NEW i \in 1..n
      PROVE  AdmittedAt(i) \in A /\ AgeRank(AdmittedAt(i), C) = i - 1
  <2>1. i - 1 \in 0..n-1
    BY <1>1
  <2>2. \E w \in A : AgeRank(w, C) = i - 1
    BY <1>1, <1>3, <2>1
  <2> QED BY <2>2 DEF AdmittedAt
<1>5. ASSUME NEW w \in A PROVE \E i \in 1..n : AdmittedAt(i) = w
  <2> DEFINE k == AgeRank(w, C)
  <2>1. k \in 0..n-1
    BY <1>1, <1>3
  <2> HIDE DEF k
  <2>2. k + 1 \in 1..n /\ (k + 1) - 1 = k
    BY <1>1, <2>1
  <2>3. AdmittedAt(k+1) \in A /\ AgeRank(AdmittedAt(k+1), C) = AgeRank(w, C)
    BY <1>4, <2>2 DEF k
  <2>4. ~Before(AdmittedAt(k+1), w) /\ ~Before(w, AdmittedAt(k+1))
    BY <1>0, <1>2, <2>3
  <2>5. AdmittedAt(k+1) = w
    BY <1>0, <2>3, <2>4, BeforeOrders
  <2> QED BY <2>2, <2>5
<1> QED BY <1>1, <1>4, <1>5 DEF n

\* The warps on the SM bear different ids.
IdsDistinct == \A u, w \in warps : WarpId[u] = WarpId[w] => u = w

\* Where the members of a concatenation come from.
LEMMA Concatenated ==
  ASSUME NEW s \in Seq(Nat), NEW t \in Seq(Nat)
  PROVE  /\ Len(s) \in Nat
         /\ s \o t \in Seq(Nat) /\ Len(s \o t) = Len(s) + Len(t)
         /\ \A i \in 1..Len(s) : (s \o t)[i] = s[i]
         /\ \A i \in 1..Len(t) : (s \o t)[Len(s)+i] = t[i]
<1>1. Len(s) \in Nat /\ Len(t) \in Nat
  OBVIOUS
<1>2. s \o t \in Seq(Nat) /\ Len(s \o t) = Len(s) + Len(t)
  OBVIOUS
<1>3. \A i \in 1..Len(s) : (s \o t)[i] = s[i]
  OBVIOUS
<1>4. ASSUME NEW i \in 1..Len(t) PROVE (s \o t)[Len(s)+i] = t[i]
  OBVIOUS
<1> QED BY <1>1, <1>2, <1>3, <1>4

\* The active set is what is kept, followed by the ids of the admitted.
LEMMA ActiveSetIs ==
  ASSUME SchedulerTyped, PlacesTyped
  PROVE  LET k == Len(Kept)
             n == Cardinality(Admitted)
         IN  /\ Kept \in Seq(Nat) /\ k \in Nat /\ n \in Nat
             /\ ActiveSet \in Seq(Nat) /\ Len(ActiveSet) = k + n
             /\ \A i \in 1..k : ActiveSet[i] = Kept[i]
             /\ \A i \in 1..n : ActiveSet[k+i] = WarpId[AdmittedAt(i)]
<1> DEFINE n == Cardinality(Admitted)
           new == [i \in 1..n |-> WarpId[AdmittedAt(i)]]
<1>1. Kept \in Seq(Nat)
  BY KeptIs DEF KeptOf
<1>2. n \in Nat /\ \A i \in 1..n : AdmittedAt(i) \in Admitted
  BY AdmittedInTurn
<1>3. \A w \in Admitted : WarpId[w] \in Nat
  BY SchedulerAssumption DEF Admitted, Candidates, Ready, SchedulerTyped
<1>4. ActiveSet = Kept \o new
  BY DEF ActiveSet, Admitted, Candidates, AdmittedAt
<1> HIDE DEF n
<1>5. new \in Seq(Nat) /\ Len(new) = n /\ \A i \in 1..n : new[i] = WarpId[AdmittedAt(i)]
  <2>1. new \in [1..n -> Nat]
    BY <1>2, <1>3
  <2> QED BY <1>2, <2>1
<1> HIDE DEF new
<1>6. /\ Len(Kept) \in Nat
      /\ Kept \o new \in Seq(Nat) /\ Len(Kept \o new) = Len(Kept) + n
      /\ \A i \in 1..Len(Kept) : (Kept \o new)[i] = Kept[i]
      /\ \A i \in 1..n : (Kept \o new)[Len(Kept)+i] = new[i]
  BY <1>1, <1>2, <1>5, Concatenated
<1> QED BY <1>1, <1>2, <1>4, <1>5, <1>6 DEF n

\* With a free place, or a ready warp that has one, the active set has a ready warp.
LEMMA ActiveSetServes ==
  ASSUME SchedulerTyped, PlacesTyped, Ready # {},
         Len(Kept) < ActiveSetSize \/ \E w \in Ready : WarpId[w] \in ToSet(Kept)
  PROVE  \E w \in Ready, i \in 1..Len(ActiveSet) : ActiveSet[i] = WarpId[w]
<1> DEFINE k == Len(Kept)
           n == Cardinality(Admitted)
<1>1. /\ Kept \in Seq(Nat) /\ k \in Nat /\ n \in Nat /\ Len(ActiveSet) = k + n
      /\ \A i \in 1..k : ActiveSet[i] = Kept[i]
      /\ \A i \in 1..n : ActiveSet[k+i] = WarpId[AdmittedAt(i)]
  BY ActiveSetIs
<1>2. CASE \E w \in Ready : WarpId[w] \in ToSet(Kept)
  <2>1. PICK w \in Ready : WarpId[w] \in ToSet(Kept)
    BY <1>2
  <2>2. PICK i \in 1..k : Kept[i] = WarpId[w]
    <3>1. DOMAIN Kept = 1..k
      BY <1>1
    <3> QED BY <2>1, <3>1 DEF ToSet
  <2> HIDE DEF k, n
  <2>3. i \in 1..Len(ActiveSet) /\ ActiveSet[i] = WarpId[w]
    BY <1>1, <2>2
  <2> QED BY <2>3
<1>3. CASE ~\E w \in Ready : WarpId[w] \in ToSet(Kept)
  <2> DEFINE C == Candidates
  <2>1. C = Ready /\ C \in SUBSET warps /\ k < ActiveSetSize
    BY <1>3 DEF Candidates, Ready
  <2>2. /\ Cardinality(C) \in Nat /\ \A w \in C : AgeRank(w, C) \in 0..Cardinality(C)-1
        /\ \A j \in 0..Cardinality(C)-1 : \E w \in C : AgeRank(w, C) = j
    BY <2>1, RanksComplete
  <2>3. PICK w \in C : AgeRank(w, C) = 0
    <3>1. PICK v : v \in C
      BY <2>1
    <3>2. 0 \in 0..Cardinality(C)-1
      BY <2>2, <3>1
    <3> QED BY <2>2, <3>2
  <2>4. w \in Admitted
    BY <1>1, <2>1, <2>3, SchedulerAssumption DEF Admitted
  <2>5. PICK i \in 1..n : AdmittedAt(i) = w
    BY <2>4, AdmittedInTurn
  <2> HIDE DEF k, n
  <2>6. k + i \in 1..Len(ActiveSet) /\ ActiveSet[k+i] = WarpId[w]
    BY <1>1, <2>5
  <2> QED BY <2>1, <2>6
<1> QED BY <1>2, <1>3

\* Among warps with different ids no id takes two places.
LEMMA ActiveSetApart ==
  ASSUME SchedulerTyped, PlacesTyped, IdsDistinct, NoRepeats(sched.active)
  PROVE  NoRepeats(ActiveSet)
<1> DEFINE k == Len(Kept)
           n == Cardinality(Admitted)
<1>1. /\ Kept \in Seq(Nat) /\ k \in Nat /\ n \in Nat /\ Len(ActiveSet) = k + n
      /\ ActiveSet \in Seq(Nat)
      /\ \A i \in 1..k : ActiveSet[i] = Kept[i]
      /\ \A i \in 1..n : ActiveSet[k+i] = WarpId[AdmittedAt(i)]
  BY ActiveSetIs
<1>2. NoRepeats(Kept)
  BY KeptIs DEF KeptOf
<1>3. \A i, j \in 1..k : ActiveSet[i] = ActiveSet[j] => i = j
  <2>1. DOMAIN Kept = 1..k
    BY <1>1
  <2>2. \A i, j \in 1..k : Kept[i] = Kept[j] => i = j
    BY <1>2, <2>1 DEF NoRepeats
  <2> HIDE DEF k, n
  <2> QED BY <1>1, <2>2
<1>4. /\ \A i \in 1..n : AdmittedAt(i) \in Admitted /\ AgeRank(AdmittedAt(i), Candidates) = i - 1
      /\ Admitted \subseteq warps /\ \A w \in Admitted : WarpId[w] \notin ToSet(Kept)
  <2>1. \A i \in 1..n : AdmittedAt(i) \in Admitted /\ AgeRank(AdmittedAt(i), Candidates) = i - 1
    BY AdmittedInTurn
  <2>2. Admitted \subseteq warps /\ \A w \in Admitted : WarpId[w] \notin ToSet(Kept)
    BY DEF Admitted, Candidates, Ready
  <2> QED BY <2>1, <2>2
<1>5. ASSUME NEW i \in 1..n, NEW j \in 1..n, ActiveSet[k+i] = ActiveSet[k+j] PROVE i = j
  <2>1. WarpId[AdmittedAt(i)] = WarpId[AdmittedAt(j)]
    BY <1>1, <1>5
  <2>2. AdmittedAt(i) = AdmittedAt(j)
    BY <1>4, <2>1 DEF IdsDistinct
  <2>3. i - 1 = j - 1
    BY <1>4, <2>2
  <2> QED BY <1>1, <2>3
<1>6. ASSUME NEW i \in 1..k, NEW j \in 1..n PROVE ActiveSet[i] # ActiveSet[k+j]
  <2>1. Kept[i] \in ToSet(Kept)
    BY <1>1 DEF ToSet
  <2> QED BY <1>1, <1>4, <2>1
<1> HIDE DEF k, n
<1>7. ASSUME NEW i \in 1..k+n PROVE i \in 1..k \/ \E x \in 1..n : i = k + x
  <2>1. i \in 1..k \/ (i - k \in 1..n /\ i = k + (i - k))
    BY <1>1
  <2> QED BY <2>1
<1>8. ASSUME NEW i \in 1..k+n, NEW j \in 1..k+n, ActiveSet[i] = ActiveSet[j] PROVE i = j
  <2>1. CASE i \in 1..k /\ j \in 1..k
    BY <1>3, <1>8, <2>1
  <2>2. CASE i \in 1..k /\ \E x \in 1..n : j = k + x
    BY <1>6, <1>8, <2>2
  <2>3. CASE j \in 1..k /\ \E x \in 1..n : i = k + x
    BY <1>6, <1>8, <2>3
  <2>4. CASE (\E x \in 1..n : i = k + x) /\ (\E x \in 1..n : j = k + x)
    BY <1>5, <1>8, <2>4
  <2> QED BY <1>7, <2>1, <2>2, <2>3, <2>4
<1>9. DOMAIN ActiveSet = 1..k+n
  BY <1>1
<1> QED BY <1>8, <1>9 DEF NoRepeats

\* With a place for every warp on the SM, one is free for a ready warp without.
LEMMA PlaceLeft ==
  ASSUME SchedulerTyped, PlacesTyped, NoRepeats(sched.active), Ready # {},
         Cardinality(warps) <= ActiveSetSize
  PROVE  Len(Kept) < ActiveSetSize \/ \E w \in Ready : WarpId[w] \in ToSet(Kept)
<1> SUFFICES ASSUME ~\E w \in Ready : WarpId[w] \in ToSet(Kept)
             PROVE  Len(Kept) < ActiveSetSize
  OBVIOUS
<1> DEFINE k == Len(Kept)
           bearer == [i \in 1..k |-> CHOOSE w \in warps : WarpId[w] = Kept[i]]
<1>1. /\ Kept \in Seq(Nat) /\ NoRepeats(Kept)
      /\ \A id : (\E i \in 1..k : Kept[i] = id)
                   <=> (KeepsPlace(id) /\ \E j \in 1..Len(sched.active) : sched.active[j] = id)
  BY KeptIs DEF KeptOf
<1>2. PICK r \in Ready : WarpId[r] \notin ToSet(Kept)
  OBVIOUS
<1> DEFINE S == warps \ {r}
<1>3. ASSUME NEW i \in 1..k PROVE bearer[i] \in S /\ WarpId[bearer[i]] = Kept[i]
  <2>1. KeepsPlace(Kept[i])
    BY <1>1
  <2>2. \E w \in warps : WarpId[w] = Kept[i]
    BY <2>1 DEF KeepsPlace
  <2>3. bearer[i] \in warps /\ WarpId[bearer[i]] = Kept[i]
    BY <2>2
  <2>4. Kept[i] \in ToSet(Kept)
    BY <1>1 DEF ToSet
  <2> QED BY <1>2, <2>3, <2>4
<1>4. bearer \in Injection(1..k, S)
  <2>1. bearer \in [1..k -> S]
    BY <1>3
  <2>2. ASSUME NEW i \in 1..k, NEW j \in 1..k, bearer[i] = bearer[j] PROVE i = j
    <3>1. Kept[i] = Kept[j]
      BY <1>3, <2>2
    <3> QED BY <1>1, <3>1 DEF NoRepeats
  <2> HIDE DEF bearer
  <2> QED BY <2>1, <2>2 DEF Injection, IsInjective
<1>5. /\ IsFiniteSet(warps) /\ Cardinality(warps) \in Nat
      /\ IsFiniteSet(S) /\ Cardinality(S) \in Nat
  BY WarpsFinite DEF SchedulerTyped
<1>6. Cardinality(S) < Cardinality(warps)
  <2>1. S \subseteq warps /\ S # warps
    BY <1>2 DEF Ready
  <2> HIDE DEF S
  <2> QED BY <1>5, <2>1, FS_Subset
<1>7. k \in Nat /\ k = Cardinality(1..k)
  <2>1. k \in Nat
    BY <1>1
  <2> HIDE DEF k
  <2>2. Cardinality(1..k) = IF 1 > k THEN 0 ELSE k - 1 + 1
    BY <2>1, FS_Interval
  <2> QED BY <2>1, <2>2
<1>8. Cardinality(1..k) <= Cardinality(S)
  <2> HIDE DEF bearer, S, k
  <2> QED BY <1>4, <1>5, FS_Injection
<1> HIDE DEF S, k
<1>9. k < ActiveSetSize
  BY <1>5, <1>6, <1>7, <1>8, SchedulerAssumption
<1> QED BY <1>9 DEF k

\* The scan comes to every place.
LEMMA ScanComplete ==
  ASSUME PlacesTyped, NEW ids \in Seq(Nat), NEW k \in 1..Len(ids)
  PROVE  \E i \in 0..Len(ids)-1 : Scanned(ids, i) = ids[k]
<1> DEFINE n == Len(ids)
           r == sched.rr
           i == (k - 1 - r) % n
<1>1. n \in Nat \ {0} /\ r \in Nat /\ k \in 1..n /\ k - 1 - r \in Int
  BY DEF PlacesTyped
<1>2. \A j : Scanned(ids, j) = ids[((r + j) % n) + 1]
  BY DEF Scanned
<1> HIDE DEF n, r
<1>3. i \in 0..n-1 /\ \E q \in Int : k - 1 - r = n * q + i
  BY <1>1, RemainderIs
<1>4. PICK q \in Int : k - 1 - r = n * q + i
  BY <1>3
<1> HIDE DEF i
<1>5. r + i = n * (0 - q) + (k - 1)
  <2>1. n * (0 - q) = 0 - n * q /\ n * q \in Int
    BY <1>1
  <2> QED BY <1>1, <1>3, <1>4, <2>1
<1>6. (r + i) % n = k - 1
  <2> DEFINE x == r + i
             z == 0 - q
             y == k - 1
  <2>1. x \in Int /\ z \in Int /\ y \in 0..n-1 /\ x = n * z + y
    BY <1>1, <1>3, <1>5
  <2> HIDE DEF x, y, z
  <2>2. x % n = y
    BY <1>1, <2>1, RemainderIs
  <2> QED BY <2>2 DEF x, y
<1>7. Scanned(ids, i) = ids[k]
  BY <1>1, <1>2, <1>6
<1> QED BY <1>3, <1>7 DEF n

\* A scan of an active set with a ready warp returns one warp, and only one.
LEMMA ScanSelects ==
  ASSUME SchedulerTyped, PlacesTyped,
         \E w \in Ready, k \in 1..Len(ActiveSet) : ActiveSet[k] = WarpId[w]
  PROVE  \E x \in Ready : \A v \in Ready : SelectsTwoLevel(v) <=> v = x
<1> DEFINE ids == ActiveSet
           n == Len(ids)
           Hit(i) == \E u \in Ready : WarpId[u] = Scanned(ids, i)
           Hits == {i \in 0..n-1 : Hit(i)}
<1>1. ids \in Seq(Nat) /\ n \in Nat
  BY ActiveSetIs
<1>2. Hits # {} /\ Hits \in SUBSET Nat
  <2>1. PICK w \in Ready, k \in 1..n : ids[k] = WarpId[w]
    OBVIOUS
  <2>2. PICK i \in 0..n-1 : Scanned(ids, i) = ids[k]
    <3> HIDE DEF ids
    <3> QED BY <1>1, ScanComplete
  <2>3. i \in Hits
    BY <2>1, <2>2
  <2>4. Hits \subseteq 0..n-1 /\ 0..n-1 \subseteq Nat
    <3>1. Hits \subseteq 0..n-1
      BY Zenon
    <3> QED BY <1>1, <3>1
  <2> HIDE DEF Hits
  <2> QED BY <2>3, <2>4
<1>3. PICK i \in Hits : \A j \in Hits : i <= j
  <2> HIDE DEF Hits
  <2> QED BY <1>2, LeastNumber
<1> DEFINE B == {u \in Ready : WarpId[u] = Scanned(ids, i)}
<1>4. B # {} /\ B \in SUBSET Nat /\ B \subseteq Ready
  BY <1>3, SchedulerAssumption DEF Ready, SchedulerTyped
<1>5. PICK x \in B : \A v \in B : (\A y \in B : v <= y) <=> v = x
  <2> HIDE DEF B
  <2> QED BY <1>4, OneLeast
<1>6. ASSUME NEW v \in Ready, NEW j \in 0..n-1
      PROVE  ScanFinds(ids, v, j) <=> j = i /\ v \in B
  <2>1. i \in 0..n-1 /\ i \in Int /\ j \in Int /\ Hit(i)
    BY <1>1, <1>3
  <2>2. ScanFinds(ids, v, j) <=> WarpId[v] = Scanned(ids, j) /\ \A l \in 0..j-1 : ~Hit(l)
    BY DEF ScanFinds
  <2>3. \A l \in 0..i-1 : ~Hit(l)
    <3> SUFFICES ASSUME NEW l \in 0..i-1, Hit(l) PROVE FALSE
      OBVIOUS
    <3>1. l \in 0..n-1 /\ l < i
      BY <1>1, <2>1
    <3>2. l \in Hits
      BY <3>1
    <3> HIDE DEF Hits
    <3> QED BY <1>3, <2>1, <3>1, <3>2
  <2>4. ASSUME ScanFinds(ids, v, j) PROVE j = i
    <3>1. Hit(j) /\ \A l \in 0..j-1 : ~Hit(l)
      BY <2>2, <2>4
    <3>2. i <= j
      <4>1. j \in Hits
        BY <3>1
      <4> HIDE DEF Hits
      <4> QED BY <1>3, <4>1
    <3>3. ~(i < j)
      <4> HIDE DEF Hit
      <4>1. i < j => i \in 0..j-1
        BY <1>1, <2>1
      <4> QED BY <2>1, <3>1, <4>1
    <3> QED BY <2>1, <3>2, <3>3
  <2>5. v \in B <=> WarpId[v] = Scanned(ids, i)
    OBVIOUS
  <2> HIDE DEF Hit, B, Hits
  <2> QED BY <2>2, <2>3, <2>4, <2>5
<1>7. ASSUME NEW v \in Ready
      PROVE  SelectsTwoLevel(v) <=> v \in B /\ \A y \in B : v <= y
  <2>1. SelectsTwoLevel(v) <=> /\ \E j \in 0..n-1 : ScanFinds(ids, v, j)
                               /\ \A u \in Ready : WarpId[u] = WarpId[v] => v <= u
    BY DEF SelectsTwoLevel
  <2>2. (\E j \in 0..n-1 : ScanFinds(ids, v, j)) <=> v \in B
    <3>1. i \in 0..n-1
      BY <1>3
    <3> HIDE DEF B, n, ids
    <3> QED BY <1>6, <3>1
  <2>3. v \in B => ((\A u \in Ready : WarpId[u] = WarpId[v] => v <= u)
                     <=> \A y \in B : v <= y)
    OBVIOUS
  <2> HIDE DEF B, n, ids
  <2> QED BY <2>1, <2>2, <2>3
<1> HIDE DEF B
<1>8. ASSUME NEW v \in Ready PROVE SelectsTwoLevel(v) <=> v = x
  <2>1. CASE v \in B
    BY <1>5, <1>7, <2>1, Zenon
  <2>2. CASE v \notin B
    BY <1>5, <1>7, <2>2, Zenon
  <2> QED BY <2>1, <2>2
<1>9. x \in Ready
  BY <1>4, <1>5
<1> QED BY <1>8, <1>9, Zenon

\* TwoLevel returns one warp, and only one, when one is ready and the active set
\* has a place for every warp on the SM.
LEMMA OneTwoLevel ==
  ASSUME SchedulerTyped, PlacesTyped, NoRepeats(sched.active), policy = "TwoLevel",
         Cardinality(warps) <= ActiveSetSize, Ready # {}
  PROVE  \E x \in Ready : {w \in warps : Selects(w)} = {x}
<1>1. \E w \in Ready, i \in 1..Len(ActiveSet) : ActiveSet[i] = WarpId[w]
  BY PlaceLeft, ActiveSetServes
<1>2. PICK x \in Ready : \A v \in Ready : SelectsTwoLevel(v) <=> v = x
  BY <1>1, ScanSelects
<1>3. \A v : Selects(v) <=> v \in Ready /\ SelectsTwoLevel(v)
  BY DEF Selects
<1> QED BY <1>2, <1>3 DEF Ready

\* The scheduler's fields after the call, when TwoLevel has returned w.
LEMMA PlacesAfter ==
  ASSUME SchedulerTyped, PlacesTyped, NEW w, policy = "TwoLevel", Selects(w)
  PROVE  \E r \in Nat : SchedAfter(w) = [sched EXCEPT !["active"] = ActiveSet, !["rr"] = r]
<1> DEFINE ids == ActiveSet
           n == Len(ids)
           i == CHOOSE k \in 0..n-1 : ScanFinds(ids, w, k)
           r == (sched.rr + i + 1) % n
<1>1. n \in Nat
  BY ActiveSetIs
<1>2. \E k \in 0..n-1 : ScanFinds(ids, w, k)
  BY DEF Selects, SelectsTwoLevel
<1>3. i \in 0..n-1
  BY <1>2
<1>4. SchedAfter(w) = [sched EXCEPT !["active"] = ids, !["rr"] = r]
  BY Zenon DEF SchedAfter
<1>5. r \in Nat
  <2> DEFINE x == sched.rr + i + 1
  <2> HIDE DEF n, i
  <2>1. n \in Nat \ {0} /\ x \in Int
    BY <1>1, <1>3 DEF PlacesTyped
  <2> HIDE DEF x
  <2>2. x % n \in 0..n-1
    BY <2>1, RemainderIs
  <2> QED BY <2>1, <2>2 DEF x
<1> QED BY <1>4, <1>5, Zenon

-----------------------------------------------------------------------------
(* The round-robin index.                                                  *)

\* The turn of w when the scan starts at index k.
TurnFrom(w, k) == (Position(w) - k) % Cardinality(warps)

\* A turn is a place of the scan.
LEMMA TurnFromType ==
  ASSUME warps \subseteq Warp, NEW w \in warps, NEW k \in Nat
  PROVE  /\ TurnFrom(w, k) \in 0..Cardinality(warps)-1
         /\ \E q \in Int : Position(w) - k = Cardinality(warps) * q + TurnFrom(w, k)
<1> DEFINE n == Cardinality(warps)
           x == Position(w) - k
<1>1. n \in Nat \ {0} /\ x \in Int
  BY PositionOrder
<1> HIDE DEF n, x
<1>2. x % n \in 0..n-1 /\ \E q \in Int : x = n * q + (x % n)
  BY <1>1, RemainderIs
<1> QED BY <1>2 DEF TurnFrom, n, x

\* The index after w is a place of the vector.
LEMMA NextIndexType ==
  ASSUME warps \subseteq Warp, NEW w \in warps
  PROVE  /\ NextIndex(w) \in Nat
         /\ \E q \in Int : Position(w) + 1 = Cardinality(warps) * q + NextIndex(w)
<1> DEFINE n == Cardinality(warps)
           x == Position(w) + 1
<1>1. n \in Nat \ {0} /\ x \in Int
  BY PositionOrder
<1> HIDE DEF n, x
<1>2. x % n \in 0..n-1 /\ \E q \in Int : x = n * q + (x % n)
  BY <1>1, RemainderIs
<1>3. x % n \in Nat
  BY <1>1, <1>2
<1> QED BY <1>2, <1>3 DEF NextIndex, n, x

\* When w was issued, a warp that comes after it moves up past it.
LEMMA TurnMovesUp ==
  ASSUME SchedulerTyped, NEW w \in warps, NEW u \in warps, Turn(w) < Turn(u)
  PROVE  TurnFrom(u, NextIndex(w)) = Turn(u) - Turn(w) - 1
<1> DEFINE n == Cardinality(warps)
           k == sched.next
           j == NextIndex(w)
           P == Position(w)
           Q == Position(u)
           s == Turn(w)
           t == Turn(u)
<1>0. warps \subseteq Warp /\ k \in Nat
  BY DEF SchedulerTyped
<1>1. n \in Nat \ {0} /\ P \in Int /\ Q \in Int
  BY <1>0, PositionOrder
<1>2. s \in 0..n-1 /\ t \in 0..n-1 /\ s < t
  BY TurnDistinct
<1>3. PICK a \in Int : P - k = n * a + s
  BY TurnDistinct
<1>4. PICK b \in Int : Q - k = n * b + t
  BY TurnDistinct
<1>5. j \in Nat /\ \E q \in Int : P + 1 = n * q + j
  BY <1>0, NextIndexType
<1>6. PICK c \in Int : P + 1 = n * c + j
  BY <1>5
<1>7. TurnFrom(u, j) = (Q - j) % n
  BY DEF TurnFrom
<1> HIDE DEF n, k, j, P, Q, s, t
<1> DEFINE z == (b - a) + c
           r == t - s - 1
<1>8. n * z = (n * b - n * a) + n * c /\ n * a \in Int /\ n * b \in Int /\ n * c \in Int /\ z \in Int
  BY <1>1
<1>9. r \in 0..n-1
  BY <1>1, <1>2
<1>10. Q - j \in Int /\ Q - j = n * z + r
  <2> HIDE DEF z
  <2>1. n * z \in Int
    BY <1>1, <1>8
  <2> QED BY <1>0, <1>1, <1>2, <1>3, <1>4, <1>5, <1>6, <1>8, <2>1
<1> HIDE DEF z, r
<1>11. (Q - j) % n = r
  <2> DEFINE x == Q - j
  <2>1. x \in Int /\ x = n * z + r
    BY <1>10
  <2> HIDE DEF x
  <2>2. x % n = r
    BY <1>1, <1>8, <1>9, <2>1, RemainderIs
  <2> QED BY <2>2 DEF x
<1> QED BY <1>7, <1>11 DEF r, s, t, j
=============================================================================
