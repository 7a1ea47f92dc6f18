---------------------------- MODULE CacheProofs ----------------------------
(***************************************************************************)
(* Proofs about the cache and its replacement policies, for every geometry *)
(* and any number of accesses.  Most of the work is about one set: SetInv  *)
(* says how the policy's list relates its lines to the histories, and      *)
(* SetStep that every outcome of lookup_and_fill keeps it.                 *)
(***************************************************************************)
EXTENDS Cache, FiniteSetTheorems, TLAPS

Line == [valid : BOOLEAN, tag : Nat, dirty : BOOLEAN]
CacheSet(g) == [lines : [Way(g) -> Line], order : Seq(Way(g))]

TypeOK ==
  /\ geom \in Geometries
  /\ sets \in [SetIdx(geom) -> CacheSet(geom)]
  /\ stats \in [accesses : Nat, hits : Nat, misses : Nat, evictions : Nat, dirtyEvictions : Nat]
  /\ recent \in [SetIdx(geom) -> Seq(Nat)]
  /\ fills \in [SetIdx(geom) -> Seq(Nat)]
  /\ dirtied \in Nat

\* No tag is cached twice in a set.
UniqueTags(g, set) ==
  \A v, w \in Way(g) :
    Valid(set, v) /\ Valid(set, w) /\ set.lines[v].tag = set.lines[w].tag => v = w

\* lru_list_ is a permutation of the ways.  Its i-th way caches the tag used
\* i-th last, h[i]; the ways beyond the length of the history are invalid.
LruInv(g, set, h) ==
  LET q == set.order
  IN  /\ Len(q) = g.ways /\ IsInjective(q) /\ IsInjective(h)
      /\ \A w \in Way(g) : \E i \in 1..g.ways : q[i] = w
      /\ \A i \in 1..g.ways : Valid(set, q[i]) <=> i <= Len(h)
      /\ \A i \in 1..g.ways : i <= Len(h) => set.lines[q[i]].tag = h[i]

\* fifo_queue_ holds the valid ways, once each.  They cache the last tags of
\* the history, in the same order.
FifoInv(g, set, h) ==
  LET q == set.order
  IN  /\ IsInjective(q) /\ Len(q) <= Len(h) /\ Len(q) <= g.ways
      /\ Len(q) < g.ways => Len(q) = Len(h)
      /\ \A w \in Way(g) : Valid(set, w) <=> \E i \in 1..Len(q) : q[i] = w
      /\ \A i \in 1..Len(q) : set.lines[q[i]].tag = h[Len(h) - Len(q) + i]

SetInv(g, set, used, filled) ==
  /\ UniqueTags(g, set)
  /\ g.policy = "LRU" => LruInv(g, set, used)
  /\ g.policy = "FIFO" => FifoInv(g, set, filled)

IInv ==
  /\ TypeOK /\ WritebacksConserved
  /\ \A s \in SetIdx(geom) : SetInv(geom, sets[s], recent[s], fills[s])

-----------------------------------------------------------------------------
(* One access to one set.                                                  *)

\* An access goes to a set of the cache, with a tag.
LEMMA AddressRange ==
  ASSUME NEW g \in Geometry, NEW a \in Nat
  PROVE  SetOf(g, a) \in SetIdx(g) /\ TagOf(g, a) \in Nat
<1>1. g.sets \in Nat \ {0} /\ g.lineSize \in Nat \ {0}
  BY DEF Geometry
<1>2. \A x \in Nat, y \in Nat \ {0} : x \div y \in Nat /\ x % y \in 0..y-1
  OBVIOUS
<1>3. a \div g.lineSize \in Nat
  BY <1>1, <1>2
<1> QED BY <1>1, <1>2, <1>3 DEF SetOf, TagOf, SetIdx

\* Outcome r is a hit in way w, which holds the tag.
HitIn(g, set, tag, isWrite, r, w) ==
  /\ Holds(set, w, tag)
  /\ r.hit = TRUE /\ r.eviction = FALSE /\ r.dirtyEviction = FALSE
  /\ r.set = HitSet(g, set, w, isWrite)

\* Outcome r is a fill of the victim w, when no way holds the tag.
FillOf(g, set, tag, isWrite, r, w) ==
  /\ \A v \in Way(g) : ~Holds(set, v, tag)
  /\ Victim(g, set, w)
  /\ r.hit = FALSE /\ r.eviction = Valid(set, w)
  /\ r.dirtyEviction = (Valid(set, w) /\ set.lines[w].dirty)
  /\ r.set = FilledSet(g, set, w, tag, isWrite)

\* lookup_and_fill hits or fills.
LEMMA OutcomeCases ==
  ASSUME NEW g, NEW set, NEW tag, NEW isWrite, NEW r \in SetOutcomes(g, set, tag, isWrite)
  PROVE  \E w \in Way(g) : \/ HitIn(g, set, tag, isWrite, r, w)
                           \/ FillOf(g, set, tag, isWrite, r, w)
<1>1. CASE HitWays(g, set, tag) # {}
  <2>1. PICK w \in HitWays(g, set, tag) :
          r = [hit |-> TRUE, eviction |-> FALSE, dirtyEviction |-> FALSE,
               set |-> HitSet(g, set, w, isWrite)]
    BY <1>1 DEF SetOutcomes
  <2>2. w \in Way(g) /\ HitIn(g, set, tag, isWrite, r, w)
    BY <2>1 DEF HitWays, HitIn
  <2> QED BY <2>2
<1>2. CASE HitWays(g, set, tag) = {}
  <2>1. PICK w \in Way(g) :
          /\ Victim(g, set, w)
          /\ r = [hit |-> FALSE, eviction |-> Evicts(set, w),
                  dirtyEviction |-> Evicts(set, w) /\ set.lines[w].dirty,
                  set |-> FilledSet(g, set, w, tag, isWrite)]
    BY <1>2 DEF SetOutcomes
  <2>2. FillOf(g, set, tag, isWrite, r, w)
    BY <1>2, <2>1 DEF HitWays, FillOf, Evicts
  <2> QED BY <2>2
<1> QED BY <1>1, <1>2

\* m is q with its p-th element moved to the front.
Moved(m, q, p) ==
  /\ Len(m) = Len(q) /\ IsInjective(m) /\ m[1] = q[p]
  /\ \A i \in 2..Len(q) : m[i] = IF i <= p THEN q[i-1] ELSE q[i]
  /\ \A j \in 1..Len(q) : \E i \in 1..Len(q) : m[i] = q[j]

\* Moving an element that is in a sequence to the front permutes it.
LEMMA MoveToFront ==
  ASSUME NEW T, NEW q \in Seq(T), IsInjective(q), NEW p \in 1..Len(q), NEW x, q[p] = x
  PROVE  MovedToFront(q, x) \in Seq(T) /\ Moved(MovedToFront(q, x), q, p)
<1> DEFINE m == MovedToFront(q, x)
           n == Len(q)
<1>1. n \in Nat /\ q \in [1..n -> T] /\ DOMAIN q = 1..n
  OBVIOUS
<1>2. \A i, j \in 1..n : q[i] = q[j] => i = j
  BY <1>1 DEF IsInjective
<1>3. m = [i \in 1..n |-> IF i = 1 THEN x
                          ELSE IF \E j \in i..n : q[j] = x THEN q[i-1] ELSE q[i]]
  BY <1>1 DEF MovedToFront
<1>4. ASSUME NEW i \in 2..n PROVE m[i] = IF i <= p THEN q[i-1] ELSE q[i]
  <2>1. i \in 1..n /\ i # 1 /\ \A j \in i..n : j \in 1..n
    BY <1>1
  <2>2. (\E j \in i..n : q[j] = x) <=> i <= p
    BY <1>1, <1>2, <2>1
  <2> QED BY <1>3, <2>1, <2>2
<1>5. m[1] = x
  BY <1>1, <1>3
<1>6. \A i \in 1..n : m[i] \in T
  BY <1>1, <1>4, <1>5
<1>7. m \in [1..n -> T]
  BY <1>3, <1>6
<1>8. m \in Seq(T) /\ Len(m) = n
  BY <1>1, <1>7
<1>9. ASSUME NEW i \in 1..n, NEW j \in 1..n, m[i] = m[j] PROVE i = j
  <2> DEFINE from(k) == IF k = 1 THEN p ELSE IF k <= p THEN k - 1 ELSE k
  <2>1. \A k \in 1..n : from(k) \in 1..n /\ m[k] = q[from(k)]
    BY <1>1, <1>4, <1>5
  <2>2. from(i) = from(j)
    BY <1>2, <1>9, <2>1
  <2> QED BY <1>1, <2>2
<1>10. IsInjective(m)
  BY <1>7, <1>9 DEF IsInjective
<1>11. ASSUME NEW j \in 1..n PROVE \E i \in 1..n : m[i] = q[j]
  <2>1. CASE j = p
    BY <1>1, <1>5, <2>1
  <2>2. CASE j < p
    <3>1. j + 1 \in 2..n /\ j + 1 <= p /\ j + 1 \in 1..n /\ (j + 1) - 1 = j
      BY <1>1, <2>2
    <3>2. m[j + 1] = q[(j + 1) - 1]
      BY <1>4, <3>1
    <3> QED BY <3>1, <3>2
  <2>3. CASE j > p
    BY <1>1, <1>4, <2>3
  <2> QED BY <1>1, <2>1, <2>2, <2>3
<1> HIDE DEF m
<1> QED BY <1>4, <1>5, <1>8, <1>10, <1>11 DEF Moved, m

\* The fields of a geometry, and what a set and its list are.
LEMMA SetTypes ==
  ASSUME NEW g \in Geometry, NEW set \in CacheSet(g)
  PROVE  /\ g.ways \in Nat \ {0} /\ g.policy \in {"LRU", "FIFO", "Random"}
         /\ set.lines \in [Way(g) -> Line] /\ set.order \in Seq(Way(g))
         /\ \A w \in Way(g) : set.lines[w] \in Line
         /\ Way(g) = 0..g.ways-1
BY DEF Geometry, CacheSet, Way

\* The lines of a set after a hit: only a dirty bit may change.
LEMMA HitLines ==
  ASSUME NEW g \in Geometry, NEW set \in CacheSet(g), NEW w \in Way(g), NEW isWrite \in BOOLEAN
  PROVE  LET new == HitSet(g, set, w, isWrite)
         IN  /\ new.lines \in [Way(g) -> Line]
             /\ \A v \in Way(g) : /\ Valid(new, v) = Valid(set, v)
                                  /\ new.lines[v].tag = set.lines[v].tag
                                  /\ v # w => new.lines[v] = set.lines[v]
             /\ new.lines[w].dirty = (set.lines[w].dirty \/ isWrite)
             /\ new.order = Accessed(g, set.order, w)
<1>1. \A l \in Line : /\ HitLine(l, isWrite) \in Line
                      /\ HitLine(l, isWrite).valid = l.valid
                      /\ HitLine(l, isWrite).tag = l.tag
                      /\ HitLine(l, isWrite).dirty = (l.dirty \/ isWrite)
  BY DEF Line, HitLine
<1> QED BY <1>1, SetTypes DEF HitSet, Valid

\* new is set after a fill of way w.
IsFill(new, g, set, w, tag, isWrite) ==
  /\ new.lines \in [Way(g) -> Line]
  /\ \A v \in Way(g) : v # w => new.lines[v] = set.lines[v]
  /\ Valid(new, w) /\ new.lines[w].tag = tag /\ new.lines[w].dirty = isWrite
  /\ new.order = Accessed(g, AfterChoice(g, set), w)

\* The lines of a set after a fill of way w.
LEMMA FilledLines ==
  ASSUME NEW g \in Geometry, NEW set \in CacheSet(g), NEW w \in Way(g), NEW tag \in Nat,
         NEW isWrite \in BOOLEAN
  PROVE  IsFill(FilledSet(g, set, w, tag, isWrite), g, set, w, tag, isWrite)
<1>1. [valid |-> TRUE, tag |-> tag, dirty |-> isWrite] \in Line
  BY DEF Line
<1> QED BY <1>1, SetTypes DEF FilledSet, Valid, IsFill

\* k is h with a new tag before it.
Prepended(k, h, tag) ==
  /\ Len(k) = Len(h) + 1 /\ IsInjective(k) /\ k[1] = tag
  /\ \A i \in 2..Len(h)+1 : k[i] = h[i-1]

\* The history when a tag is used again.
LEMMA LatestAgain ==
  ASSUME NEW h \in Seq(Nat), IsInjective(h), NEW p \in 1..Len(h), NEW tag, h[p] = tag
  PROVE  Latest(h, tag) \in Seq(Nat) /\ Moved(Latest(h, tag), h, p)
<1>1. tag \in ToSet(h)
  BY DEF ToSet
<1> QED BY <1>1, MoveToFront DEF Latest

\* The history when a tag is used for the first time.
LEMMA LatestNew ==
  ASSUME NEW h \in Seq(Nat), IsInjective(h), NEW tag \in Nat,
         \A i \in 1..Len(h) : h[i] # tag
  PROVE  Latest(h, tag) \in Seq(Nat) /\ Prepended(Latest(h, tag), h, tag)
<1> DEFINE k == <<tag>> \o h
<1>1. Len(h) \in Nat /\ DOMAIN h = 1..Len(h) /\ h \in [1..Len(h) -> Nat]
  OBVIOUS
<1>2. Latest(h, tag) = k
  BY <1>1 DEF ToSet, Latest
<1>3. k \in Seq(Nat) /\ Len(k) = Len(h) + 1 /\ k[1] = tag
  BY <1>1
<1>4. \A i \in 2..Len(h)+1 : k[i] = h[i-1] /\ i - 1 \in 1..Len(h)
  BY <1>1
<1>5. ASSUME NEW i \in 1..Len(k), NEW j \in 1..Len(k), k[i] = k[j] PROVE i = j
  <2>1. CASE i = 1 \/ j = 1
    BY <1>1, <1>3, <1>4, <1>5, <2>1
  <2>2. CASE i # 1 /\ j # 1
    <3>1. i \in 2..Len(h)+1 /\ j \in 2..Len(h)+1
      BY <1>1, <1>3, <2>2
    <3>2. h[i-1] = h[j-1] /\ i - 1 \in 1..Len(h) /\ j - 1 \in 1..Len(h)
      BY <1>4, <1>5, <3>1
    <3>3. i - 1 = j - 1
      BY <1>1, <3>2 DEF IsInjective
    <3> QED BY <3>1, <3>3
  <2> QED BY <2>1, <2>2
<1>6. IsInjective(k)
  BY <1>3, <1>5 DEF IsInjective
<1> HIDE DEF k
<1> QED BY <1>2, <1>3, <1>4, <1>6 DEF Prepended

\* LRU: a hit keeps list and history in step.
LEMMA LruHit ==
  ASSUME NEW g \in Geometry, g.policy = "LRU", NEW set \in CacheSet(g), NEW h \in Seq(Nat),
         LruInv(g, set, h), NEW tag \in Nat, NEW isWrite \in BOOLEAN,
         NEW w \in Way(g), Holds(set, w, tag)
  PROVE  /\ LruInv(g, HitSet(g, set, w, isWrite), Latest(h, tag))
         /\ HitSet(g, set, w, isWrite).order \in Seq(Way(g))
<1> DEFINE n == g.ways
           q == set.order
           m == MovedToFront(q, w)
           k == Latest(h, tag)
           new == HitSet(g, set, w, isWrite)
<1>0. n \in Nat \ {0} /\ q \in Seq(Way(g))
  BY SetTypes
<1>a. Len(q) = n /\ IsInjective(q) /\ IsInjective(h)
  BY DEF LruInv
<1>1. /\ n \in Nat \ {0} /\ q \in Seq(Way(g)) /\ Len(q) = n /\ DOMAIN q = 1..n
      /\ IsInjective(q) /\ IsInjective(h) /\ Len(h) \in Nat
      /\ \A i \in 1..n : q[i] \in Way(g)
  <2> HIDE DEF n, q
  <2> QED BY <1>0, <1>a
<1>2. PICK p \in 1..n : q[p] = w
  BY DEF LruInv
<1>3. \A v \in Way(g) : \E i \in 1..n : q[i] = v
  BY DEF LruInv
<1>4. \A i \in 1..n : /\ Valid(set, q[i]) <=> i <= Len(h)
                      /\ i <= Len(h) => set.lines[q[i]].tag = h[i]
  BY DEF LruInv
<1>5. new.order = m
  <2>1. w \in ToSet(q)
    BY <1>1, <1>2 DEF ToSet
  <2> QED BY <2>1, HitLines DEF Accessed, LruAccessed
<1>6. \A v \in Way(g) : Valid(new, v) = Valid(set, v) /\ new.lines[v].tag = set.lines[v].tag
  BY HitLines
<1> HIDE DEF n, q
<1>7. p <= Len(h) /\ p \in 1..Len(h) /\ h[p] = tag
  BY <1>1, <1>2, <1>4 DEF Holds
<1>8. m \in Seq(Way(g)) /\ Moved(m, q, p)
  BY <1>1, <1>2, MoveToFront
<1>9. k \in Seq(Nat) /\ Moved(k, h, p)
  BY <1>1, <1>7, LatestAgain
<1> HIDE DEF m, k, new
<1>10. \A v \in Way(g) : \E i \in 1..n : m[i] = v
  BY <1>1, <1>3, <1>8 DEF Moved
<1>11. ASSUME NEW i \in 1..n
       PROVE  /\ Valid(new, m[i]) <=> i <= Len(k)
              /\ i <= Len(k) => new.lines[m[i]].tag = k[i]
  <2>0. Len(k) = Len(h) /\ m[1] = w /\ k[1] = tag
    BY <1>2, <1>7, <1>8, <1>9 DEF Moved
  <2>1. CASE i = 1
    BY <1>1, <1>6, <1>7, <2>0, <2>1 DEF Holds
  <2>2. CASE i # 1 /\ i <= p
    <3>1. /\ i \in 2..Len(q) /\ i \in 2..Len(h) /\ i <= p /\ i - 1 \in 1..n
          /\ i <= Len(h) /\ i - 1 <= Len(h)
      BY <1>1, <1>7, <2>2
    <3>2. m[i] = q[i-1]
      BY <1>8, <3>1 DEF Moved
    <3>3. k[i] = h[i-1]
      BY <1>9, <3>1 DEF Moved
    <3> QED BY <1>1, <1>4, <1>6, <2>0, <3>1, <3>2, <3>3
  <2>3. CASE i > p
    <3>1. i \in 2..Len(q) /\ ~(i <= p) /\ (i <= Len(h) => i \in 2..Len(h))
      BY <1>1, <1>7, <2>3
    <3>2. m[i] = q[i]
      BY <1>8, <3>1 DEF Moved
    <3>3. i <= Len(h) => k[i] = h[i]
      BY <1>9, <3>1 DEF Moved
    <3> QED BY <1>1, <1>4, <1>6, <2>0, <3>2, <3>3
  <2> QED BY <1>1, <2>1, <2>2, <2>3
<1>12. IsInjective(m) /\ IsInjective(k) /\ Len(m) = n
  BY <1>1, <1>8, <1>9 DEF Moved
<1>13. LruInv(g, new, k)
  BY <1>5, <1>10, <1>11, <1>12 DEF LruInv, n
<1> QED BY <1>5, <1>8, <1>13 DEF new, k

\* LRU: a fill keeps list and history in step.  The victim is a way beyond the
\* history while there is one, else the way of the tag used longest ago.
LEMMA LruFill ==
  ASSUME NEW g \in Geometry, g.policy = "LRU", NEW set \in CacheSet(g), NEW h \in Seq(Nat),
         LruInv(g, set, h), NEW tag \in Nat, NEW isWrite \in BOOLEAN,
         \A v \in Way(g) : ~Holds(set, v, tag),
         NEW w \in Way(g), Victim(g, set, w)
  PROVE  /\ LruInv(g, FilledSet(g, set, w, tag, isWrite), Latest(h, tag))
         /\ FilledSet(g, set, w, tag, isWrite).order \in Seq(Way(g))
<1> DEFINE n == g.ways
           q == set.order
           m == MovedToFront(q, w)
           k == Latest(h, tag)
           new == FilledSet(g, set, w, tag, isWrite)
<1>0. n \in Nat \ {0} /\ q \in Seq(Way(g))
  BY SetTypes
<1>a. Len(q) = n /\ IsInjective(q) /\ IsInjective(h)
  BY DEF LruInv
<1>1. /\ n \in Nat \ {0} /\ q \in Seq(Way(g)) /\ Len(q) = n /\ DOMAIN q = 1..n
      /\ IsInjective(q) /\ IsInjective(h) /\ Len(h) \in Nat
      /\ \A i \in 1..n : q[i] \in Way(g)
  <2> HIDE DEF n, q
  <2> QED BY <1>0, <1>a
<1>2. PICK p \in 1..n : q[p] = w
  BY DEF LruInv
<1>3. \A v \in Way(g) : \E i \in 1..n : q[i] = v
  BY DEF LruInv
<1>4. \A i \in 1..n : /\ Valid(set, q[i]) <=> i <= Len(h)
                      /\ i <= Len(h) => set.lines[q[i]].tag = h[i]
  BY DEF LruInv
<1>5. new.order = m
  <2>1. w \in ToSet(q)
    BY <1>1, <1>2 DEF ToSet
  <2> QED BY <2>1, FilledLines DEF IsFill, Accessed, AfterChoice, LruAccessed
<1>6. /\ \A v \in Way(g) : v # w => Valid(new, v) = Valid(set, v) /\ new.lines[v].tag = set.lines[v].tag
      /\ Valid(new, w) /\ new.lines[w].tag = tag
  BY FilledLines DEF IsFill, Valid
<1>7. FreeWays(g, set) = {} => w = q[n]
  BY <1>1 DEF Victim, LruVictim
<1> HIDE DEF n, q, new
<1>8. \A i, j \in 1..n : q[i] = q[j] => i = j
  BY <1>1 DEF IsInjective
<1>9. \A i \in 1..Len(h) : h[i] = tag => i > n
  <2> SUFFICES ASSUME NEW i \in 1..Len(h), h[i] = tag, i <= n PROVE FALSE
    BY <1>1
  <2>1. i \in 1..n /\ q[i] \in Way(g) /\ Valid(set, q[i]) /\ set.lines[q[i]].tag = tag
    BY <1>1, <1>4
  <2> QED BY <2>1 DEF Holds
<1>10. IF Len(h) < n THEN p > Len(h) ELSE p = n
  <2>0. n \in 1..n
    BY <1>1
  <2>1. CASE Len(h) < n
    <3>1. ~Valid(set, q[n]) /\ q[n] \in Way(g)
      BY <1>1, <1>4, <2>0, <2>1
    <3>2. ~Valid(set, w)
      BY <3>1 DEF Victim, FreeWays
    <3> QED BY <1>1, <1>2, <1>4, <2>1, <3>2
  <2>2. CASE ~(Len(h) < n)
    <3>1. ASSUME NEW v \in Way(g) PROVE Valid(set, v)
      <4>1. PICK i \in 1..n : q[i] = v
        BY <1>3
      <4>2. i <= Len(h)
        BY <1>1, <2>2
      <4> QED BY <1>4, <4>1, <4>2
    <3>2. FreeWays(g, set) = {}
      BY <3>1 DEF FreeWays
    <3> QED BY <1>2, <1>7, <1>8, <2>0, <2>2, <3>2
  <2> QED BY <2>1, <2>2
<1>11. m \in Seq(Way(g)) /\ Moved(m, q, p)
  BY <1>1, <1>2, MoveToFront
<1>12. /\ k \in Seq(Nat) /\ IsInjective(k) /\ k[1] = tag
       /\ IF Len(h) < n THEN Len(k) = Len(h) + 1 ELSE Len(k) >= n
       /\ \A i \in 2..n : i <= Len(k) => k[i] = h[i-1]
  <2>1. CASE \E i \in 1..Len(h) : h[i] = tag
    <3>1. PICK c \in 1..Len(h) : h[c] = tag
      BY <2>1
    <3>2. c > n /\ Len(h) > n /\ \A i \in 2..n : i \in 2..Len(h) /\ i <= c
      BY <1>1, <1>9, <3>1
    <3>3. k \in Seq(Nat) /\ Moved(k, h, c)
      BY <1>1, <3>1, LatestAgain
    <3> HIDE DEF k
    <3>4. IsInjective(k) /\ k[1] = tag /\ Len(k) = Len(h)
      BY <3>1, <3>3 DEF Moved
    <3>5. \A i \in 2..n : k[i] = h[i-1]
      BY <3>2, <3>3 DEF Moved
    <3> QED BY <1>1, <3>2, <3>3, <3>4, <3>5
  <2>2. CASE \A i \in 1..Len(h) : h[i] # tag
    <3>1. k \in Seq(Nat) /\ Prepended(k, h, tag)
      BY <1>1, <2>2, LatestNew
    <3> HIDE DEF k
    <3>2. IsInjective(k) /\ k[1] = tag /\ Len(k) = Len(h) + 1
      BY <3>1 DEF Prepended
    <3>3. \A i \in 2..n : i <= Len(k) => i \in 2..Len(h)+1
      BY <1>1, <3>2
    <3>4. \A i \in 2..n : i <= Len(k) => k[i] = h[i-1]
      BY <3>1, <3>3 DEF Prepended
    <3> QED BY <1>1, <3>1, <3>2, <3>4
  <2> QED BY <2>1, <2>2
<1> HIDE DEF m, k
<1>13. \A v \in Way(g) : \E i \in 1..n : m[i] = v
  BY <1>1, <1>3, <1>11 DEF Moved
<1>14. ASSUME NEW i \in 1..n
       PROVE  /\ Valid(new, m[i]) <=> i <= Len(k)
              /\ i <= Len(k) => new.lines[m[i]].tag = k[i]
  <2>0. Len(k) \in Nat /\ m[1] = w
    BY <1>2, <1>11, <1>12 DEF Moved
  <2>1. CASE i = 1
    BY <1>1, <1>6, <1>12, <2>0, <2>1
  <2>2. CASE i # 1 /\ i <= p
    <3>1. i \in 2..Len(q) /\ i \in 2..n /\ i <= p /\ i - 1 \in 1..n /\ i - 1 # p
      BY <1>1, <2>2
    <3>2. m[i] = q[i-1] /\ q[i-1] # w /\ q[i-1] \in Way(g)
      BY <1>1, <1>2, <1>8, <1>11, <3>1 DEF Moved
    <3>3. i - 1 <= Len(h) <=> i <= Len(k)
      BY <1>1, <1>10, <1>12, <2>0, <3>1
    <3>4. i <= Len(k) => k[i] = h[i-1]
      BY <1>12, <3>1
    <3> QED BY <1>4, <1>6, <3>1, <3>2, <3>3, <3>4
  <2>3. CASE i > p
    <3>1. i \in 2..Len(q) /\ ~(i <= p) /\ i # p
      BY <1>1, <2>3
    <3>2. m[i] = q[i] /\ q[i] # w /\ q[i] \in Way(g)
      BY <1>1, <1>2, <1>8, <1>11, <3>1 DEF Moved
    <3>3. ~(i <= Len(k)) /\ ~(i <= Len(h))
      BY <1>1, <1>10, <1>12, <2>0, <2>3
    <3> QED BY <1>4, <1>6, <3>2, <3>3
  <2> QED BY <1>1, <2>1, <2>2, <2>3
<1>15. IsInjective(m) /\ Len(m) = n
  BY <1>1, <1>11 DEF Moved
<1>16. LruInv(g, new, k)
  BY <1>5, <1>12, <1>13, <1>14, <1>15 DEF LruInv, n
<1> QED BY <1>5, <1>11, <1>16 DEF new, k

\* A queue of ways without repetitions holds all of them when it is as long as
\* the set has ways, and only then.
LEMMA FullQueue ==
  ASSUME NEW g \in Geometry, NEW q \in Seq(Way(g)), IsInjective(q)
  PROVE  /\ Len(q) <= g.ways
         /\ (\A w \in Way(g) : \E i \in 1..Len(q) : q[i] = w) <=> Len(q) = g.ways
<1> DEFINE D == 1..Len(q)
           W == Way(g)
<1>1. g.ways \in Nat \ {0} /\ Len(q) \in Nat
  BY DEF Geometry
<1>2. IsFiniteSet(W) /\ Cardinality(W) = g.ways
  <2>1. g.ways - 1 \in Int /\ 0 \in Int
    BY <1>1
  <2>2. /\ IsFiniteSet(0..g.ways-1)
        /\ Cardinality(0..g.ways-1) = IF 0 > g.ways - 1 THEN 0 ELSE (g.ways - 1) - 0 + 1
    BY <2>1, FS_Interval
  <2> QED BY <1>1, <2>2 DEF Way
<1>3. Cardinality(D) = Len(q)
  <2>1. Len(q) \in Int /\ 1 \in Int
    BY <1>1
  <2>2. Cardinality(1..Len(q)) = IF 1 > Len(q) THEN 0 ELSE Len(q) - 1 + 1
    BY <2>1, FS_Interval
  <2> QED BY <1>1, <2>2
<1>4. q \in Injection(D, W)
  BY DEF Injection, IsInjective
<1>5. /\ Cardinality(D) <= Cardinality(W)
      /\ Cardinality(D) = Cardinality(W) <=> q \in Surjection(D, W)
  <2> HIDE DEF D, W
  <2> QED BY <1>2, <1>4, FS_Injection
<1>6. q \in [D -> W]
  OBVIOUS
<1> QED BY <1>1, <1>2, <1>3, <1>5, <1>6 DEF Surjection

\* FIFO: a hit leaves queue and history alone.
LEMMA FifoHit ==
  ASSUME NEW g \in Geometry, g.policy = "FIFO", NEW set \in CacheSet(g), NEW h \in Seq(Nat),
         FifoInv(g, set, h), NEW tag \in Nat, NEW isWrite \in BOOLEAN,
         NEW w \in Way(g), Holds(set, w, tag)
  PROVE  /\ FifoInv(g, HitSet(g, set, w, isWrite), h)
         /\ HitSet(g, set, w, isWrite).order \in Seq(Way(g))
<1> DEFINE q == set.order
           new == HitSet(g, set, w, isWrite)
<1>1. q \in Seq(Way(g)) /\ DOMAIN q = 1..Len(q) /\ \A i \in 1..Len(q) : q[i] \in Way(g)
  BY SetTypes
<1>2. w \in ToSet(q)
  BY <1>1 DEF FifoInv, Holds, ToSet
<1>3. new.order = q
  BY <1>2, HitLines DEF Accessed, FifoAccessed
<1>4. \A v \in Way(g) : Valid(new, v) = Valid(set, v) /\ new.lines[v].tag = set.lines[v].tag
  BY HitLines
<1> HIDE DEF new
<1>5. FifoInv(g, new, h)
  BY <1>1, <1>3, <1>4 DEF FifoInv
<1> QED BY <1>1, <1>3, <1>5 DEF new

\* FIFO: a fill keeps queue and history in step.  A free way is queued last; a
\* full set evicts the way at the front, that of the tag filled longest ago.
LEMMA FifoFill ==
  ASSUME NEW g \in Geometry, g.policy = "FIFO", NEW set \in CacheSet(g), NEW h \in Seq(Nat),
         FifoInv(g, set, h), NEW tag \in Nat, NEW isWrite \in BOOLEAN,
         NEW w \in Way(g), Victim(g, set, w)
  PROVE  /\ FifoInv(g, FilledSet(g, set, w, tag, isWrite), Append(h, tag))
         /\ FilledSet(g, set, w, tag, isWrite).order \in Seq(Way(g))
<1> DEFINE n == g.ways
           q == set.order
           k == Append(h, tag)
           new == FilledSet(g, set, w, tag, isWrite)
<1>1. /\ n \in Nat \ {0} /\ q \in Seq(Way(g)) /\ Len(q) \in Nat /\ DOMAIN q = 1..Len(q)
      /\ \A i \in 1..Len(q) : q[i] \in Way(g)
      /\ Len(h) \in Nat
  BY SetTypes
<1>2. /\ IsInjective(q) /\ Len(q) <= Len(h) /\ Len(q) <= n
      /\ Len(q) < n => Len(q) = Len(h)
      /\ \A v \in Way(g) : Valid(set, v) <=> \E i \in 1..Len(q) : q[i] = v
      /\ \A i \in 1..Len(q) : set.lines[q[i]].tag = h[Len(h) - Len(q) + i]
  BY DEF FifoInv
<1>3. \A i, j \in 1..Len(q) : q[i] = q[j] => i = j
  BY <1>1, <1>2 DEF IsInjective
<1>4. /\ \A v \in Way(g) : v # w => Valid(new, v) = Valid(set, v) /\ new.lines[v].tag = set.lines[v].tag
      /\ Valid(new, w) /\ new.lines[w].tag = tag
      /\ new.order = FifoAccessed(AfterChoice(g, set), w)
  BY FilledLines DEF IsFill, Valid, Accessed
<1>5. /\ k \in Seq(Nat) /\ Len(k) = Len(h) + 1 /\ k[Len(h) + 1] = tag
      /\ \A i \in 1..Len(h) : k[i] = h[i]
  BY <1>1
<1>6. CASE FreeWays(g, set) # {}
  <2>1. ~Valid(set, w)
    BY <1>6 DEF Victim, FreeWays
  <2> DEFINE m == Append(q, w)
  <2>2. new.order = m
    <3>1. w \notin ToSet(q)
      BY <1>1, <1>2, <2>1 DEF ToSet
    <3> QED BY <1>4, <1>6, <3>1 DEF FifoAccessed, AfterChoice
  <2>3. /\ m \in Seq(Way(g)) /\ Len(m) = Len(q) + 1 /\ m[Len(q) + 1] = w
        /\ \A i \in 1..Len(q) : m[i] = q[i] /\ q[i] # w
    BY <1>1, <1>2, <2>1
  <2>4. Len(q) < n /\ Len(q) = Len(h)
    <3>1. Len(q) # n
      BY <1>1, <1>2, <2>1, FullQueue
    <3> QED BY <1>1, <1>2, <3>1
  <2> HIDE DEF n, q, k, new, m
  <2>5. \A i \in 1..Len(m) : i \in 1..Len(q) \/ i = Len(q) + 1
    BY <1>1, <2>3
  <2>6. IsInjective(m)
    <3>1. ASSUME NEW i \in 1..Len(m), NEW j \in 1..Len(m), m[i] = m[j] PROVE i = j
      BY <1>3, <2>3, <2>5, <3>1
    <3> QED BY <2>3, <3>1 DEF IsInjective
  <2>7. ASSUME NEW v \in Way(g) PROVE Valid(new, v) <=> \E i \in 1..Len(m) : m[i] = v
    <3>1. CASE v = w
      <4>1. Len(q) + 1 \in 1..Len(m)
        BY <1>1, <2>3
      <4> QED BY <1>4, <2>3, <3>1, <4>1
    <3>2. CASE v # w
      <4>1. (\E i \in 1..Len(m) : m[i] = v) <=> \E i \in 1..Len(q) : q[i] = v
        <5>1. \A i \in 1..Len(q) : i \in 1..Len(m)
          BY <1>1, <2>3
        <5> QED BY <2>3, <2>5, <3>2, <5>1
      <4> QED BY <1>2, <1>4, <3>2, <4>1
    <3> QED BY <3>1, <3>2
  <2>8. ASSUME NEW i \in 1..Len(m) PROVE new.lines[m[i]].tag = k[Len(k) - Len(m) + i]
    <3>1. Len(k) - Len(m) + i = i /\ Len(h) - Len(q) + i = i
      BY <1>1, <1>5, <2>3, <2>4
    <3>2. CASE i \in 1..Len(q)
      <4>1. m[i] = q[i] /\ q[i] # w /\ q[i] \in Way(g) /\ k[i] = h[i]
        BY <1>1, <1>5, <2>3, <2>4, <3>2
      <4> QED BY <1>2, <1>4, <3>1, <3>2, <4>1
    <3>3. CASE i = Len(q) + 1
      BY <1>4, <1>5, <2>3, <2>4, <3>1, <3>3
    <3> QED BY <2>5, <3>2, <3>3
  <2>9. Len(m) <= Len(k) /\ Len(m) <= n /\ (Len(m) < n => Len(m) = Len(k))
    BY <1>1, <1>5, <2>3, <2>4
  <2>10. FifoInv(g, new, k)
    BY <2>2, <2>6, <2>7, <2>8, <2>9 DEF FifoInv, n
  <2> QED BY <2>2, <2>3, <2>10 DEF new, k
<1>7. CASE FreeWays(g, set) = {}
  <2>1. Len(q) = n
    <3>1. \A v \in Way(g) : \E i \in 1..Len(q) : q[i] = v
      BY <1>2, <1>7 DEF FreeWays
    <3> QED BY <1>1, <1>2, <3>1, FullQueue
  <2>2. w = q[1]
    BY <1>7 DEF Victim, FifoVictim
  <2> DEFINE tl == Tail(q)
             m == Append(tl, w)
  <2>3. /\ tl \in Seq(Way(g)) /\ Len(tl) = n - 1 /\ DOMAIN tl = 1..n-1
        /\ \A i \in 1..n-1 : tl[i] = q[i+1] /\ i + 1 \in 1..n
    BY <1>1, <2>1
  <2>4. \A i \in 1..n-1 : tl[i] # w
    BY <1>1, <1>3, <2>1, <2>2, <2>3
  <2>5. new.order = m
    <3>1. w \notin ToSet(tl)
      BY <2>3, <2>4 DEF ToSet
    <3> QED BY <1>4, <1>7, <3>1 DEF FifoAccessed, AfterChoice
  <2>6. /\ m \in Seq(Way(g)) /\ Len(m) = n /\ m[n] = w
        /\ \A i \in 1..n-1 : m[i] = q[i+1] /\ q[i+1] # w
    <3> HIDE DEF tl
    <3> QED BY <1>1, <2>3, <2>4
  <2> HIDE DEF n, q, k, new, m
  <2>7. \A i \in 1..n : i \in 1..n-1 \/ i = n
    BY <1>1
  <2>8. IsInjective(m)
    <3>1. ASSUME NEW i \in 1..n, NEW j \in 1..n, m[i] = m[j] PROVE i = j
      <4>1. CASE i = n \/ j = n
        BY <1>1, <2>6, <2>7, <3>1, <4>1
      <4>2. CASE i \in 1..n-1 /\ j \in 1..n-1
        <5>1. q[i+1] = q[j+1] /\ i + 1 \in 1..n /\ j + 1 \in 1..n
          BY <2>3, <2>6, <3>1, <4>2
        <5>2. i + 1 = j + 1
          BY <1>3, <2>1, <5>1
        <5> QED BY <1>1, <4>2, <5>2
      <4> QED BY <2>7, <4>1, <4>2
    <3> QED BY <2>6, <3>1 DEF IsInjective
  <2>9. \A v \in Way(g) : Valid(new, v)
    BY <1>4, <1>7 DEF FreeWays
  <2>10. \A v \in Way(g) : \E i \in 1..Len(m) : m[i] = v
    BY <2>6, <2>8, FullQueue DEF n
  <2>11. ASSUME NEW i \in 1..Len(m) PROVE new.lines[m[i]].tag = k[Len(k) - Len(m) + i]
    <3>1. CASE i = n
      <4>1. Len(k) - Len(m) + i = Len(h) + 1
        BY <1>1, <1>5, <2>6, <3>1
      <4> QED BY <1>4, <1>5, <2>6, <3>1, <4>1
    <3>2. CASE i \in 1..n-1
      <4>1. /\ Len(k) - Len(m) + i = Len(h) - Len(q) + (i + 1)
            /\ i + 1 \in 1..Len(q) /\ Len(h) - Len(q) + (i + 1) \in 1..Len(h)
        <5>1. /\ Len(k) = Len(h) + 1 /\ Len(m) = n /\ Len(q) = n /\ n <= Len(h)
              /\ n \in Nat /\ Len(h) \in Nat /\ i \in Nat /\ 1 <= i /\ i <= n - 1
          BY <1>1, <1>2, <1>5, <2>1, <2>6, <3>2
        <5> QED BY <5>1
      <4>2. set.lines[q[i+1]].tag = h[Len(h) - Len(q) + (i + 1)]
        BY <1>2, <4>1
      <4>3. m[i] = q[i+1] /\ q[i+1] # w /\ q[i+1] \in Way(g)
        BY <1>1, <2>6, <3>2, <4>1
      <4> QED BY <1>4, <1>5, <4>1, <4>2, <4>3
    <3> QED BY <2>6, <2>7, <3>1, <3>2
  <2>12. Len(m) <= Len(k) /\ Len(m) <= n /\ ~(Len(m) < n)
    BY <1>1, <1>2, <1>5, <2>1, <2>6
  <2>13. FifoInv(g, new, k)
    BY <2>5, <2>8, <2>9, <2>10, <2>11, <2>12 DEF FifoInv, n
  <2> QED BY <2>5, <2>6, <2>13 DEF new, k
<1> QED BY <1>6, <1>7

\* A fill of a tag that no way holds caches no tag twice.
LEMMA FillUnique ==
  ASSUME NEW g \in Geometry, NEW set \in CacheSet(g), UniqueTags(g, set), NEW tag \in Nat,
         NEW isWrite \in BOOLEAN, \A v \in Way(g) : ~Holds(set, v, tag), NEW w \in Way(g)
  PROVE  UniqueTags(g, FilledSet(g, set, w, tag, isWrite))
<1> DEFINE new == FilledSet(g, set, w, tag, isWrite)
<1>0. IsFill(new, g, set, w, tag, isWrite)
  BY FilledLines
<1> HIDE DEF new
<1>1. /\ \A v \in Way(g) : v # w => Valid(new, v) = Valid(set, v) /\ new.lines[v].tag = set.lines[v].tag
      /\ Valid(new, w) /\ new.lines[w].tag = tag
  BY <1>0 DEF IsFill, Valid
<1>2. UniqueTags(g, new)
  BY <1>1 DEF UniqueTags, Holds
<1> QED BY <1>2 DEF new

\* The policy's list after an access, under RandomPolicy too, is a list of ways.
LEMMA RandomOrder ==
  ASSUME NEW g \in Geometry, g.policy = "Random", NEW set \in CacheSet(g), NEW w \in Way(g)
  PROVE  /\ Accessed(g, set.order, w) \in Seq(Way(g))
         /\ Accessed(g, AfterChoice(g, set), w) \in Seq(Way(g))
BY SetTypes DEF Accessed, AfterChoice

\* Every outcome of lookup_and_fill keeps the set's list, lines and histories in
\* step, under each policy.
LEMMA SetStep ==
  ASSUME NEW g \in Geometry, NEW set \in CacheSet(g), NEW used \in Seq(Nat),
         NEW filled \in Seq(Nat), SetInv(g, set, used, filled),
         NEW tag \in Nat, NEW isWrite \in BOOLEAN,
         NEW r \in SetOutcomes(g, set, tag, isWrite)
  PROVE  /\ r.set \in CacheSet(g)
         /\ SetInv(g, r.set, Latest(used, tag), IF r.hit THEN filled ELSE Append(filled, tag))
<1>0. g.policy \in {"LRU", "FIFO", "Random"}
  BY SetTypes
<1>1. ASSUME NEW w \in Way(g), HitIn(g, set, tag, isWrite, r, w)
      PROVE  r.hit = TRUE /\ r.set \in CacheSet(g) /\ SetInv(g, r.set, Latest(used, tag), filled)
  <2> DEFINE new == HitSet(g, set, w, isWrite)
  <2>1. UniqueTags(g, new)
    <3>1. \A v \in Way(g) : Valid(new, v) = Valid(set, v) /\ new.lines[v].tag = set.lines[v].tag
      BY HitLines
    <3> HIDE DEF new
    <3> QED BY <3>1 DEF UniqueTags, SetInv
  <2>2. g.policy = "LRU" => LruInv(g, new, Latest(used, tag)) /\ new.order \in Seq(Way(g))
    BY <1>1, LruHit DEF SetInv, HitIn
  <2>3. g.policy = "FIFO" => FifoInv(g, new, filled) /\ new.order \in Seq(Way(g))
    BY <1>1, FifoHit DEF SetInv, HitIn
  <2>4. new.order \in Seq(Way(g)) /\ new.lines \in [Way(g) -> Line]
    <3>1. new.lines \in [Way(g) -> Line] /\ new.order = Accessed(g, set.order, w)
      BY HitLines
    <3> HIDE DEF new
    <3> QED BY <1>0, <2>2, <2>3, <3>1, RandomOrder
  <2>5. new \in CacheSet(g)
    BY <2>4 DEF HitSet, CacheSet
  <2> HIDE DEF new
  <2>6. SetInv(g, new, Latest(used, tag), filled)
    BY <2>1, <2>2, <2>3 DEF SetInv
  <2> QED BY <1>1, <2>5, <2>6 DEF new, HitIn
<1>2. ASSUME NEW w \in Way(g), FillOf(g, set, tag, isWrite, r, w)
      PROVE  /\ r.hit = FALSE /\ r.set \in CacheSet(g)
             /\ SetInv(g, r.set, Latest(used, tag), Append(filled, tag))
  <2> DEFINE new == FilledSet(g, set, w, tag, isWrite)
  <2>1. UniqueTags(g, new)
    BY <1>2, FillUnique DEF SetInv, FillOf
  <2>2. g.policy = "LRU" => LruInv(g, new, Latest(used, tag)) /\ new.order \in Seq(Way(g))
    BY <1>2, LruFill DEF SetInv, FillOf
  <2>3. g.policy = "FIFO" => FifoInv(g, new, Append(filled, tag)) /\ new.order \in Seq(Way(g))
    BY <1>2, FifoFill DEF SetInv, FillOf
  <2>4. new.order \in Seq(Way(g)) /\ new.lines \in [Way(g) -> Line]
    <3>1. /\ new.lines \in [Way(g) -> Line]
          /\ new.order = Accessed(g, AfterChoice(g, set), w)
      BY FilledLines DEF IsFill
    <3> HIDE DEF new
    <3> QED BY <1>0, <2>2, <2>3, <3>1, RandomOrder
  <2>5. new \in CacheSet(g)
    BY <2>4 DEF FilledSet, CacheSet
  <2> HIDE DEF new
  <2>6. SetInv(g, new, Latest(used, tag), Append(filled, tag))
    BY <2>1, <2>2, <2>3 DEF SetInv
  <2> QED BY <1>2, <2>5, <2>6 DEF new, FillOf
<1>3. PICK w \in Way(g) : \/ HitIn(g, set, tag, isWrite, r, w)
                           \/ FillOf(g, set, tag, isWrite, r, w)
  BY OutcomeCases
<1>4. CASE HitIn(g, set, tag, isWrite, r, w)
  BY <1>1, <1>4
<1>5. CASE FillOf(g, set, tag, isWrite, r, w)
  BY <1>2, <1>5
<1> QED BY <1>3, <1>4, <1>5

\* The history of the tags used stays a sequence of tags.
LEMMA LatestType ==
  ASSUME NEW h \in Seq(Nat), NEW tag \in Nat
  PROVE  Latest(h, tag) \in Seq(Nat)
<1>1. Len(h) \in Nat /\ DOMAIN h = 1..Len(h) /\ h \in [1..Len(h) -> Nat]
  OBVIOUS
<1>2. MovedToFront(h, tag) \in [1..Len(h) -> Nat]
  <2>1. \A i \in 1..Len(h) : i # 1 => i - 1 \in 1..Len(h)
    BY <1>1
  <2> QED BY <1>1, <2>1 DEF MovedToFront
<1>3. MovedToFront(h, tag) \in Seq(Nat)
  BY <1>1, <1>2
<1>4. <<tag>> \o h \in Seq(Nat)
  OBVIOUS
<1> QED BY <1>3, <1>4 DEF Latest

-----------------------------------------------------------------------------
(* The whole cache.                                                        *)

\* An empty cache satisfies the invariant.
LEMMA InitIInv == Init => IInv
<1> SUFFICES ASSUME Init PROVE IInv
  OBVIOUS
<1> DEFINE n == geom.ways
<1>1. /\ geom \in Geometries /\ geom \in Geometry /\ n \in Nat \ {0}
      /\ geom.policy \in {"LRU", "FIFO", "Random"} /\ geom.sets \in Nat \ {0}
  BY CacheAssumption DEF Init, Geometry
<1>2. FreshOrder(geom) \in Seq(Way(geom))
  <2>1. [i \in 1..n |-> i - 1] \in Seq(Way(geom))
    <3>1. [i \in 1..n |-> i - 1] \in [1..n -> 0..n-1]
      BY <1>1
    <3> QED BY <1>1, <3>1 DEF Way
  <2> QED BY <2>1 DEF FreshOrder
<1>3. EmptySet(geom) \in CacheSet(geom)
  BY <1>2 DEF EmptySet, CacheSet, EmptyLine, Line
<1>4. \A s \in SetIdx(geom) : sets[s] = EmptySet(geom) /\ recent[s] = <<>> /\ fills[s] = <<>>
  BY DEF Init, EmptyCache
<1>5. TypeOK
  BY <1>1, <1>3 DEF Init, EmptyCache, TypeOK, ZeroStats
<1>6. \A v \in Way(geom) : ~Valid(EmptySet(geom), v)
  BY DEF EmptySet, EmptyLine, Valid
<1>7. WritebacksConserved
  <2>1. DirtyLines = {}
    BY <1>4, <1>6 DEF DirtyLines
  <2> QED BY <2>1, FS_EmptySet DEF WritebacksConserved, Init, ZeroStats
<1>8. IsInjective(<<>>) /\ Len(<<>>) = 0
  BY DEF IsInjective
<1>9. ASSUME geom.policy = "LRU" PROVE LruInv(geom, EmptySet(geom), <<>>)
  <2> DEFINE q == [i \in 1..n |-> i - 1]
  <2>1. EmptySet(geom).order = q
    BY <1>9 DEF EmptySet, FreshOrder
  <2>2. q \in Seq(Way(geom)) /\ Len(q) = n /\ DOMAIN q = 1..n
    <3>1. q \in [1..n -> 0..n-1]
      BY <1>1
    <3> QED BY <1>1, <3>1 DEF Way
  <2>3. IsInjective(q)
    BY <1>1, <2>2 DEF IsInjective
  <2>4. \A w \in Way(geom) : \E i \in 1..n : q[i] = w
    <3>1. ASSUME NEW w \in Way(geom) PROVE w + 1 \in 1..n /\ q[w + 1] = w
      BY <1>1 DEF Way
    <3> QED BY <3>1
  <2>5. \A i \in 1..n : q[i] \in Way(geom)
    BY <1>1 DEF Way
  <2> HIDE DEF q
  <2>6. \A i \in 1..n : ~Valid(EmptySet(geom), q[i]) /\ ~(i <= 0)
    BY <1>1, <1>6, <2>5
  <2> QED BY <1>8, <2>1, <2>2, <2>3, <2>4, <2>6 DEF LruInv
<1>10. ASSUME geom.policy = "FIFO" PROVE FifoInv(geom, EmptySet(geom), <<>>)
  <2>1. EmptySet(geom).order = <<>>
    BY <1>10 DEF EmptySet, FreshOrder
  <2> QED BY <1>1, <1>6, <1>8, <2>1 DEF FifoInv
<1>11. UniqueTags(geom, EmptySet(geom))
  BY <1>6 DEF UniqueTags
<1>12. SetInv(geom, EmptySet(geom), <<>>, <<>>)
  BY <1>9, <1>10, <1>11 DEF SetInv
<1> QED BY <1>4, <1>5, <1>7, <1>12 DEF IInv

\* A finite set that differs from D at most in c.
LEMMA DiffersInOne ==
  ASSUME NEW D, IsFiniteSet(D), NEW E, NEW c, \A l : l # c => (l \in E <=> l \in D)
  PROVE  /\ Cardinality(D) \in Nat
         /\ Cardinality(E) + Ones(c \in D) = Cardinality(D) + Ones(c \in E)
<1>0. Cardinality(D) \in Nat
  BY FS_CardinalityType
<1>1. CASE c \in E
  <2>1. E = D \cup {c}
    BY <1>1
  <2>2. Cardinality(D \cup {c}) = IF c \in D THEN Cardinality(D) ELSE Cardinality(D) + 1
    BY FS_AddElement
  <2> QED BY <1>0, <1>1, <2>1, <2>2 DEF Ones
<1>2. CASE c \notin E
  <2>1. E = D \ {c}
    BY <1>2
  <2>2. Cardinality(D \ {c}) = IF c \in D THEN Cardinality(D) - 1 ELSE Cardinality(D)
    BY FS_RemoveElement
  <2> QED BY <1>0, <1>2, <2>1, <2>2 DEF Ones
<1> QED BY <1>0, <1>1, <1>2

\* The lines of a cache are finitely many.
LEMMA FiniteLines ==
  ASSUME TypeOK
  PROVE  IsFiniteSet(SetIdx(geom) \X Way(geom)) /\ IsFiniteSet(DirtyLines)
<1>1. geom.sets - 1 \in Int /\ geom.ways - 1 \in Int /\ 0 \in Int
  BY CacheAssumption DEF TypeOK, Geometry
<1>2. IsFiniteSet(SetIdx(geom)) /\ IsFiniteSet(Way(geom))
  BY <1>1, FS_Interval DEF SetIdx, Way
<1>3. IsFiniteSet(SetIdx(geom) \X Way(geom))
  BY <1>2, FS_Product
<1>4. DirtyLines \in SUBSET (SetIdx(geom) \X Way(geom))
  BY DEF DirtyLines
<1> QED BY <1>3, <1>4, FS_Subset

\* An access counts a dirty eviction exactly when it removes a dirty line.
LEMMA AccessWritebacks ==
  ASSUME IInv, TypeOK', NEW a \in Address, NEW isWrite \in BOOLEAN, UNCHANGED geom,
         NEW r \in LookupAndFill(geom, sets, a, isWrite),
         sets' = [sets EXCEPT ![SetOf(geom, a)] = r.set],
         stats' = Counted(stats, r),
         dirtied' = dirtied + Ones(isWrite /\ ~WasDirty(SetOf(geom, a), TagOf(geom, a)))
  PROVE  WritebacksConserved'
<1> DEFINE s == SetOf(geom, a)
           tag == TagOf(geom, a)
           set == sets[s]
<1>1. geom \in Geometry /\ s \in SetIdx(geom) /\ tag \in Nat
  BY CacheAssumption, AddressRange DEF IInv, TypeOK
<1>2. set \in CacheSet(geom) /\ UniqueTags(geom, set)
  BY <1>1 DEF IInv, TypeOK, SetInv
<1>3. PICK w \in Way(geom) : \/ HitIn(geom, set, tag, isWrite, r, w)
                             \/ FillOf(geom, set, tag, isWrite, r, w)
  BY OutcomeCases DEF LookupAndFill
<1> DEFINE c == <<s, w>>
           D == DirtyLines
           E == DirtyLines'
<1>4. /\ sets'[s] = r.set
      /\ \A t \in SetIdx(geom) : t # s => sets'[t] = sets[t]
  BY <1>1 DEF IInv, TypeOK
<1>5. \A v \in Way(geom) : v # w => r.set.lines[v].valid = set.lines[v].valid
                                    /\ r.set.lines[v].dirty = set.lines[v].dirty
  <2>1. \A v \in Way(geom) : v # w => r.set.lines[v] = set.lines[v]
    BY <1>1, <1>2, <1>3, HitLines, FilledLines DEF IsFill, HitIn, FillOf
  <2> QED BY <2>1
<1> HIDE DEF s, tag
<1>6. \A l : l # c => (l \in E <=> l \in D)
  BY <1>4, <1>5 DEF DirtyLines, Valid
<1>7. /\ c \in D <=> set.lines[w].valid /\ set.lines[w].dirty
      /\ c \in E <=> r.set.lines[w].valid /\ r.set.lines[w].dirty
  BY <1>1, <1>4 DEF DirtyLines, Valid
<1>8. /\ Cardinality(D) \in Nat
      /\ Cardinality(E) + Ones(c \in D) = Cardinality(D) + Ones(c \in E)
  <2>1. IsFiniteSet(D)
    BY FiniteLines DEF IInv
  <2> HIDE DEF D, E, c
  <2> QED BY <1>6, <2>1, DiffersInOne
<1>9. /\ dirtied = stats.dirtyEvictions + Cardinality(D) /\ dirtied \in Nat
      /\ stats.dirtyEvictions \in Nat
      /\ stats'.dirtyEvictions = stats.dirtyEvictions + Ones(r.dirtyEviction)
      /\ dirtied' = dirtied + Ones(isWrite /\ ~WasDirty(s, tag))
  BY DEF IInv, TypeOK, WritebacksConserved, Counted, s, tag
<1>10. Cardinality(E) \in Int
  <2>1. IsFiniteSet(DirtyLines)'
    <3>1. (TypeOK => IsFiniteSet(DirtyLines))'
      BY FiniteLines, PTL
    <3> QED BY <3>1
  <2> QED BY <2>1, FS_CardinalityType
<1>11. \A b : Ones(b) \in {0, 1}
  BY DEF Ones
<1>12. CASE HitIn(geom, set, tag, isWrite, r, w)
  <2>1. /\ set.lines[w].valid /\ r.set.lines[w].valid /\ r.dirtyEviction = FALSE
        /\ r.set.lines[w].dirty = (set.lines[w].dirty \/ isWrite)
    BY <1>1, <1>2, <1>12, HitLines DEF HitIn, Holds, Valid
  <2>2. WasDirty(s, tag) <=> set.lines[w].dirty
    BY <1>2, <1>12 DEF WasDirty, HitIn, Holds, UniqueTags
  <2>3. Ones(r.dirtyEviction) = 0
    BY <2>1 DEF Ones
  <2>4. Ones(c \in E) = Ones(c \in D) + Ones(isWrite /\ ~WasDirty(s, tag))
    <3>1. /\ c \in D <=> WasDirty(s, tag)
          /\ c \in E <=> WasDirty(s, tag) \/ isWrite
      BY <1>7, <2>1, <2>2
    <3> HIDE DEF D, E, c
    <3>2. CASE WasDirty(s, tag)
      BY <3>1, <3>2 DEF Ones
    <3>3. CASE ~WasDirty(s, tag)
      BY <3>1, <3>3 DEF Ones
    <3> QED BY <3>2, <3>3
  <2>5. dirtied' = stats'.dirtyEvictions + Cardinality(E)
    <3> HIDE DEF D, E, c
    <3> QED BY <1>8, <1>9, <1>10, <1>11, <2>3, <2>4
  <2> QED BY <2>5 DEF WritebacksConserved
<1>13. CASE FillOf(geom, set, tag, isWrite, r, w)
  <2>1. /\ r.set.lines[w].valid /\ r.set.lines[w].dirty = isWrite
        /\ r.dirtyEviction = (set.lines[w].valid /\ set.lines[w].dirty)
    BY <1>1, <1>2, <1>13, FilledLines DEF IsFill, FillOf, Valid
  <2>2. ~WasDirty(s, tag)
    BY <1>13 DEF WasDirty, FillOf
  <2>3. Ones(r.dirtyEviction) = Ones(c \in D)
    <3> HIDE DEF D, c
    <3> QED BY <1>7, <2>1 DEF Ones
  <2>4. Ones(c \in E) = Ones(isWrite /\ ~WasDirty(s, tag))
    <3> HIDE DEF E, c
    <3> QED BY <1>7, <2>1, <2>2 DEF Ones
  <2>5. dirtied' = stats'.dirtyEvictions + Cardinality(E)
    <3> HIDE DEF D, E, c
    <3> QED BY <1>8, <1>9, <1>10, <1>11, <2>3, <2>4
  <2> QED BY <2>5 DEF WritebacksConserved
<1> QED BY <1>3, <1>12, <1>13

\* Every access keeps the invariant.
LEMMA StepIInv == IInv /\ [Next]_vars => IInv'
<1> SUFFICES ASSUME IInv, [Next]_vars PROVE IInv'
  OBVIOUS
<1>1. ASSUME NEW a \in Address, NEW isWrite \in BOOLEAN, Access(a, isWrite) PROVE IInv'
  <2> DEFINE s == SetOf(geom, a)
             tag == TagOf(geom, a)
             set == sets[s]
  <2>1. geom \in Geometry /\ s \in SetIdx(geom) /\ tag \in Nat
    BY CacheAssumption, AddressRange DEF IInv, TypeOK
  <2>2. PICK r \in LookupAndFill(geom, sets, a, isWrite) :
          /\ sets' = [sets EXCEPT ![s] = r.set]
          /\ stats' = Counted(stats, r)
          /\ fills' = IF r.hit THEN fills ELSE [fills EXCEPT ![s] = Append(@, tag)]
    BY <1>1 DEF Access
  <2>3. /\ recent' = [recent EXCEPT ![s] = Latest(@, tag)]
        /\ dirtied' = dirtied + Ones(isWrite /\ ~WasDirty(s, tag))
        /\ geom' = geom
    BY <1>1 DEF Access
  <2>4. /\ set \in CacheSet(geom) /\ recent[s] \in Seq(Nat) /\ fills[s] \in Seq(Nat)
        /\ SetInv(geom, set, recent[s], fills[s])
        /\ r \in SetOutcomes(geom, set, tag, isWrite)
    BY <2>1 DEF IInv, TypeOK, LookupAndFill
  <2> DEFINE filled == IF r.hit THEN fills[s] ELSE Append(fills[s], tag)
  <2>5. /\ r.set \in CacheSet(geom)
        /\ SetInv(geom, r.set, Latest(recent[s], tag), filled)
    BY <2>1, <2>4, SetStep
  <2>6. Latest(recent[s], tag) \in Seq(Nat) /\ filled \in Seq(Nat)
    <3>1. Append(fills[s], tag) \in Seq(Nat)
      BY <2>1, <2>4
    <3> QED BY <2>1, <2>4, <3>1, LatestType
  <2>7. /\ sets'[s] = r.set /\ recent'[s] = Latest(recent[s], tag) /\ fills'[s] = filled
        /\ \A t \in SetIdx(geom) :
             t # s => sets'[t] = sets[t] /\ recent'[t] = recent[t] /\ fills'[t] = fills[t]
    BY <2>1, <2>2, <2>3 DEF IInv, TypeOK
  <2>8. \A t \in SetIdx(geom)' : SetInv(geom, sets[t], recent[t], fills[t])'
    <3> HIDE DEF s, tag, filled
    <3>1. ASSUME NEW t \in SetIdx(geom)
          PROVE  SetInv(geom, sets'[t], recent'[t], fills'[t])
      <4>1. CASE t = s
        BY <2>5, <2>7, <4>1
      <4>2. CASE t # s
        BY <2>7, <4>2 DEF IInv
      <4> QED BY <4>1, <4>2
    <3> QED BY <2>3, <3>1
  <2>9. TypeOK'
    <3>1. stats' \in [accesses : Nat, hits : Nat, misses : Nat, evictions : Nat,
                      dirtyEvictions : Nat]
      BY <2>2 DEF IInv, TypeOK, Counted, Ones
    <3>2. dirtied' \in Nat
      BY <2>3 DEF IInv, TypeOK, Ones
    <3>3. sets' \in [SetIdx(geom) -> CacheSet(geom)]
      BY <2>2, <2>5 DEF IInv, TypeOK
    <3>4. recent' \in [SetIdx(geom) -> Seq(Nat)]
      BY <2>3, <2>6 DEF IInv, TypeOK
    <3>5. fills' \in [SetIdx(geom) -> Seq(Nat)]
      BY <2>2, <2>6 DEF IInv, TypeOK
    <3>6. geom' \in Geometries
      BY <2>3 DEF IInv, TypeOK
    <3> QED BY <2>3, <3>1, <3>2, <3>3, <3>4, <3>5, <3>6 DEF TypeOK
  <2>10. WritebacksConserved'
    BY <2>2, <2>3, <2>9, AccessWritebacks
  <2> QED BY <2>8, <2>9, <2>10 DEF IInv
<1>2. CASE UNCHANGED vars
  <2>1. TypeOK'
    BY <1>2 DEF vars, IInv, TypeOK
  <2>2. DirtyLines' = DirtyLines
    BY <1>2 DEF vars, DirtyLines, Valid
  <2>3. WritebacksConserved'
    BY <1>2, <2>2 DEF vars, IInv, WritebacksConserved
  <2> QED BY <1>2, <2>1, <2>3 DEF vars, IInv
<1> QED BY <1>1, <1>2 DEF Next, Ended

-----------------------------------------------------------------------------
\* The invariant of the cache holds in every state.
THEOREM Invariance == Spec => []IInv
BY InitIInv, StepIInv, PTL DEF Spec

\* No line is ever cached twice, under any policy.
THEOREM NeverDuplicateTags == Spec => []NoDuplicateTags
<1>1. IInv => NoDuplicateTags
  BY DEF IInv, SetInv, UniqueTags, NoDuplicateTags
<1> QED BY <1>1, Invariance, PTL

\* The policy's list is in step with the lines: the FIFO queue of a full set is
\* never empty, so choose_victim never throws.
THEOREM OrderAlwaysMatches == Spec => []OrderMatchesLines
<1>1. ASSUME IInv, NEW s \in SetIdx(geom), geom.policy = "LRU"
      PROVE  ToSet(sets[s].order) = Way(geom) /\ Len(sets[s].order) = geom.ways
  <2>1. /\ sets[s].order \in Seq(Way(geom)) /\ Len(sets[s].order) = geom.ways
        /\ \A w \in Way(geom) : \E i \in 1..geom.ways : sets[s].order[i] = w
    <3>1. sets[s] \in CacheSet(geom) /\ LruInv(geom, sets[s], recent[s])
      BY <1>1 DEF IInv, TypeOK, SetInv
    <3>2. sets[s].order \in Seq(Way(geom))
      BY <3>1 DEF CacheSet
    <3> QED BY <3>1, <3>2 DEF LruInv
  <2> QED BY <2>1 DEF ToSet
<1>2. ASSUME IInv, NEW s \in SetIdx(geom), geom.policy = "FIFO"
      PROVE  /\ ToSet(sets[s].order) = {w \in Way(geom) : Valid(sets[s], w)}
             /\ Len(sets[s].order) = Cardinality(ToSet(sets[s].order))
  <2> DEFINE q == sets[s].order
             D == 1..Len(q)
  <2>1. /\ q \in Seq(Way(geom)) /\ Len(q) \in Nat /\ IsInjective(q)
        /\ \A w \in Way(geom) : Valid(sets[s], w) <=> \E i \in 1..Len(q) : q[i] = w
    <3>1. sets[s] \in CacheSet(geom) /\ FifoInv(geom, sets[s], fills[s])
      BY <1>2 DEF IInv, TypeOK, SetInv
    <3>2. q \in Seq(Way(geom)) /\ Len(q) \in Nat
      BY <3>1 DEF CacheSet
    <3> QED BY <3>1, <3>2 DEF FifoInv
  <2>2. ToSet(q) = {w \in Way(geom) : Valid(sets[s], w)}
    BY <2>1 DEF ToSet
  <2>3. q \in Injection(D, ToSet(q)) /\ q \in Surjection(D, ToSet(q))
    <3>1. q \in [D -> ToSet(q)] /\ DOMAIN q = D
      BY <2>1 DEF ToSet
    <3> QED BY <2>1, <3>1 DEF Injection, Surjection, ToSet
  <2>4. IsFiniteSet(D) /\ Cardinality(D) = Len(q)
    <3>1. Len(q) \in Int /\ 1 \in Int
      BY <2>1
    <3>2. IsFiniteSet(1..Len(q)) /\ Cardinality(1..Len(q)) = IF 1 > Len(q) THEN 0 ELSE Len(q) - 1 + 1
      BY <3>1, FS_Interval
    <3> QED BY <2>1, <3>2
  <2>5. Cardinality(ToSet(q)) = Cardinality(D)
    <3> HIDE DEF D, q
    <3> QED BY <2>3, <2>4, FS_Surjection
  <2> QED BY <2>2, <2>4, <2>5
<1>3. IInv => OrderMatchesLines
  BY <1>1, <1>2 DEF OrderMatchesLines
<1> QED BY <1>3, Invariance, PTL

\* LRUPolicy holds exactly the tags used most recently.
THEOREM LruHoldsMostRecent == Spec => []HoldsMostRecent
<1>1. ASSUME IInv, NEW s \in SetIdx(geom), geom.policy = "LRU"
      PROVE  CachedTags(s) = FirstOf(recent[s], geom.ways)
  <2> DEFINE q == sets[s].order
             h == recent[s]
             n == geom.ways
  <2>1. /\ LruInv(geom, sets[s], h) /\ sets[s] \in CacheSet(geom) /\ geom \in Geometry
        /\ h \in Seq(Nat) /\ DOMAIN h = 1..Len(h) /\ Len(h) \in Nat
    BY <1>1, CacheAssumption DEF IInv, TypeOK, SetInv
  <2>2. /\ n \in Nat \ {0}
        /\ \A i \in 1..n : q[i] \in Way(geom)
        /\ \A w \in Way(geom) : \E i \in 1..n : q[i] = w
        /\ \A i \in 1..n : /\ Valid(sets[s], q[i]) <=> i <= Len(h)
                           /\ i <= Len(h) => sets[s].lines[q[i]].tag = h[i]
    BY <2>1, SetTypes DEF LruInv
  <2> HIDE DEF q, n
  <2>3. ASSUME NEW x \in CachedTags(s) PROVE x \in FirstOf(h, n)
    <3>1. PICK w \in Way(geom) : Valid(sets[s], w) /\ x = sets[s].lines[w].tag
      BY DEF CachedTags
    <3>2. PICK i \in 1..n : q[i] = w
      BY <2>2
    <3>3. i \in 1..Len(h) /\ i <= n /\ x = h[i]
      BY <2>1, <2>2, <3>1, <3>2
    <3> QED BY <2>1, <3>3 DEF FirstOf
  <2>4. ASSUME NEW x \in FirstOf(h, n) PROVE x \in CachedTags(s)
    <3>1. PICK i \in 1..Len(h) : i <= n /\ x = h[i]
      BY <2>1 DEF FirstOf
    <3>2. i \in 1..n /\ i <= Len(h)
      BY <2>1, <2>2, <3>1
    <3>3. q[i] \in Way(geom) /\ Valid(sets[s], q[i]) /\ x = sets[s].lines[q[i]].tag
      BY <2>2, <3>1, <3>2
    <3> QED BY <3>3 DEF CachedTags
  <2> QED BY <2>3, <2>4 DEF n
<1>2. IInv => HoldsMostRecent
  BY <1>1 DEF HoldsMostRecent
<1> QED BY <1>2, Invariance, PTL

\* FIFOPolicy holds exactly the tags filled last.
THEOREM FifoHoldsLatestFills == Spec => []HoldsLatestFills
<1>1. ASSUME IInv, NEW s \in SetIdx(geom), geom.policy = "FIFO"
      PROVE  CachedTags(s) = LastOf(fills[s], geom.ways)
  <2> DEFINE q == sets[s].order
             h == fills[s]
             n == geom.ways
  <2>1. /\ FifoInv(geom, sets[s], h) /\ sets[s] \in CacheSet(geom) /\ geom \in Geometry
        /\ h \in Seq(Nat) /\ DOMAIN h = 1..Len(h) /\ Len(h) \in Nat
    BY <1>1, CacheAssumption DEF IInv, TypeOK, SetInv
  <2>2. /\ n \in Nat \ {0} /\ Len(q) \in Nat
        /\ \A i \in 1..Len(q) : q[i] \in Way(geom)
    BY <2>1, SetTypes
  <2>3. /\ Len(q) <= Len(h) /\ Len(q) <= n /\ (Len(q) < n => Len(q) = Len(h))
        /\ \A w \in Way(geom) : Valid(sets[s], w) <=> \E i \in 1..Len(q) : q[i] = w
        /\ \A i \in 1..Len(q) : sets[s].lines[q[i]].tag = h[Len(h) - Len(q) + i]
    BY <2>1 DEF FifoInv
  <2> HIDE DEF q, n
  <2>4. ASSUME NEW x \in CachedTags(s) PROVE x \in LastOf(h, n)
    <3>1. PICK w \in Way(geom) : Valid(sets[s], w) /\ x = sets[s].lines[w].tag
      BY DEF CachedTags
    <3>2. PICK i \in 1..Len(q) : q[i] = w
      BY <2>3, <3>1
    <3>3. x = h[Len(h) - Len(q) + i]
      BY <2>3, <3>1, <3>2
    <3>4. Len(h) - Len(q) + i \in 1..Len(h) /\ Len(h) - Len(q) + i > Len(h) - n
      <4>1. Len(q) <= Len(h) /\ Len(q) <= n
        BY <2>3
      <4> QED BY <2>1, <2>2, <4>1
    <3> QED BY <2>1, <3>3, <3>4 DEF LastOf
  <2>5. ASSUME NEW x \in LastOf(h, n) PROVE x \in CachedTags(s)
    <3>1. PICK j \in 1..Len(h) : j > Len(h) - n /\ x = h[j]
      BY <2>1 DEF LastOf
    <3> DEFINE i == j - (Len(h) - Len(q))
    <3>2. i \in 1..Len(q) /\ Len(h) - Len(q) + i = j
      <4>1. Len(q) <= Len(h) /\ Len(q) <= n /\ (Len(q) < n => Len(q) = Len(h))
        BY <2>3
      <4>2. \A lq, lh, m \in Nat : \A k \in 1..lh :
              lq <= lh /\ lq <= m /\ (lq < m => lq = lh) /\ k > lh - m
                => k - (lh - lq) \in 1..lq /\ lh - lq + (k - (lh - lq)) = k
        OBVIOUS
      <4>3. n \in Nat
        BY <2>2
      <4> QED BY <2>1, <2>2, <3>1, <4>1, <4>2, <4>3
    <3> HIDE DEF i
    <3>3. q[i] \in Way(geom) /\ Valid(sets[s], q[i]) /\ x = sets[s].lines[q[i]].tag
      BY <2>2, <2>3, <3>1, <3>2
    <3> QED BY <3>3 DEF CachedTags
  <2> QED BY <2>4, <2>5 DEF n
<1>2. IInv => HoldsLatestFills
  BY <1>1 DEF HoldsLatestFills
<1> QED BY <1>2, Invariance, PTL

\* No write-back is lost or invented.
THEOREM WritebacksAlwaysConserved == Spec => []WritebacksConserved
<1>1. IInv => WritebacksConserved
  BY DEF IInv
<1> QED BY <1>1, Invariance, PTL
=============================================================================
