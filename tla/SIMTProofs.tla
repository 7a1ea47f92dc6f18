----------------------------- MODULE SIMTProofs -----------------------------
(***************************************************************************)
(* The operators of SIMT keep a warp's context well formed: program        *)
(* counters wrap, masks are sets of the warp's lanes, the stack holds      *)
(* well-formed entries.                                                    *)
(***************************************************************************)
EXTENDS SIMT, NatLemmas, TLAPS

\* Sums of program counters and immediates wrap into size_t.
LEMMA WrapType == \A n \in Int : Wrap(n) \in PC
  BY SizeTAssumption DEF Wrap, PC

\* A branch target, pc plus immediate, stays a size_t.
LEMMA SumType ==
  ASSUME NEW lanes, NEW c \in Context(lanes), NEW n \in Int
  PROVE  Wrap(c.pc + n) \in PC
<1>1. c.pc \in PC
  BY DEF Context
<1>2. c.pc + n \in Int
  BY <1>1, SizeTAssumption DEF PC
<1> QED
  BY <1>2, WrapType

\* A warp starts well formed.
LEMMA FreshContextType == ASSUME NEW lanes PROVE FreshContext(lanes) \in Context(lanes)
<1>1. 0 \in PC /\ NoPc \in PC
  BY SizeTAssumption DEF PC, NoPc
<1>2. <<>> \in Seq(Entry(lanes))
  OBVIOUS
<1> QED
  BY <1>1, <1>2 DEF FreshContext, Context

\* Setting the pc and the shadow PCs keeps a context well formed.
LEMMA ShadowedType ==
  ASSUME NEW lanes, NEW c \in Context(lanes), NEW mask, NEW pc \in PC
  PROVE  Shadowed(c, mask, pc) \in Context(lanes)
<1> DEFINE sh == [l \in DOMAIN c.shadow |-> IF l \in mask THEN pc ELSE c.shadow[l]]
<1>1. sh \in [lanes -> PC]
  BY DEF Context
<1> HIDE DEF sh
<1>2. [c EXCEPT !.pc = pc, !.shadow = sh] \in Context(lanes)
  BY <1>1 DEF Context
<1> QED
  BY <1>2 DEF Shadowed, sh

\* Pushing an entry keeps a context well formed.
LEMMA PushedType ==
  ASSUME NEW lanes, NEW c \in Context(lanes), NEW e \in Entry(lanes)
  PROVE  Pushed(c, e) \in Context(lanes)
<1>1. Append(c.stack, e) \in Seq(Entry(lanes))
  BY DEF Context
<1> QED
  BY <1>1 DEF Pushed, Context

\* So does popping one, when there is one.
LEMMA PoppedType ==
  ASSUME NEW lanes, NEW c \in Context(lanes), c.stack # <<>>
  PROVE  Top(c) \in Entry(lanes) /\ Popped(c) \in Context(lanes)
<1>1. c.stack \in Seq(Entry(lanes)) /\ Len(c.stack) \in Nat /\ Len(c.stack) > 0
  BY DEF Context
<1>2. Top(c) \in Entry(lanes)
  BY <1>1 DEF Top
<1>3. SubSeq(c.stack, 1, Len(c.stack) - 1) \in Seq(Entry(lanes))
  BY <1>1
<1>4. Top(c).mask \in SUBSET lanes /\ Top(c).reconv \in PC
  BY <1>2 DEF Entry
<1> QED
  BY <1>2, <1>3, <1>4 DEF Popped, Context

\* An instruction that moves one on.
LEMMA AdvancedType ==
  ASSUME NEW lanes, NEW c \in Context(lanes)
  PROVE  Advanced(c) \in Context(lanes)
<1>1. Wrap(c.pc + 1) \in PC
  BY SumType
<1> QED
  BY <1>1, ShadowedType DEF Advanced

\* CMP.
LEMMA ComparedType ==
  ASSUME NEW lanes, NEW c \in Context(lanes), NEW equal \in SUBSET c.mask
  PROVE  Compared(c, equal) \in Context(lanes)
<1>1. [c EXCEPT !.pred = (c.pred \ c.mask) \cup equal] \in Context(lanes)
  BY DEF Context
<1> QED
  BY <1>1, AdvancedType DEF Compared

\* BRANCH.
LEMMA BranchedType ==
  ASSUME NEW lanes, NEW c \in Context(lanes), NEW imm \in Int
  PROVE  Branched(c, imm) \in Context(lanes)
<1> DEFINE taken    == c.mask \cap c.pred
           target   == Wrap(c.pc + imm)
           deferred == [mask |-> c.mask \ taken, target |-> Wrap(c.pc + 1), reconv |-> c.reconv]
           d        == [Pushed(c, deferred) EXCEPT !.mask = taken]
<1>1. target \in PC /\ Wrap(c.pc + 1) \in PC
  BY SumType
<1>2. deferred \in Entry(lanes)
  BY <1>1 DEF Entry, Context
<1>3. Pushed(c, deferred) \in Context(lanes)
  BY <1>2, PushedType
<1>4. d \in Context(lanes)
  <2> DEFINE p == Pushed(c, deferred)
  <2>1. p \in Context(lanes) /\ taken \in SUBSET lanes
    BY <1>3 DEF Context
  <2> HIDE DEF p, taken
  <2>2. [p EXCEPT !.mask = taken] \in Context(lanes)
    BY <2>1 DEF Context
  <2> QED
    BY <2>2 DEF p
<1>5. Shadowed(d, c.mask, target) \in Context(lanes) /\ Shadowed(c, c.mask, target) \in Context(lanes)
  BY <1>1, <1>4, ShadowedType
<1>6. Advanced(c) \in Context(lanes)
  BY AdvancedType
<1>7. \/ Branched(c, imm) = Advanced(c)
      \/ Branched(c, imm) = Shadowed(c, c.mask, target)
      \/ Branched(c, imm) = Shadowed(d, c.mask, target)
  <2>1. CASE taken = {}
    BY <2>1 DEF Branched
  <2>2. CASE taken # {} /\ taken = c.mask
    BY <2>2 DEF Branched
  <2>3. CASE taken # {} /\ taken # c.mask
    BY <2>3 DEF Branched
  <2> QED
    BY <2>1, <2>2, <2>3
<1> QED
  BY <1>5, <1>6, <1>7

\* SSY.
LEMMA TokenPushedType ==
  ASSUME NEW lanes, NEW c \in Context(lanes), NEW imm \in Int
  PROVE  TokenPushed(c, imm) \in Context(lanes)
<1> DEFINE target == Wrap(c.pc + imm)
           token  == [mask |-> c.mask, target |-> target, reconv |-> c.reconv]
           p      == Pushed(c, token)
<1>1. target \in PC
  BY SumType
<1>2. token \in Entry(lanes)
  BY <1>1 DEF Entry, Context
<1>3. p \in Context(lanes)
  BY <1>2, PushedType
<1> HIDE DEF p, target
<1>4. [p EXCEPT !.reconv = target] \in Context(lanes)
  BY <1>1, <1>3 DEF Context
<1>5. Advanced([p EXCEPT !.reconv = target]) \in Context(lanes)
  BY <1>4, AdvancedType
<1> QED
  BY <1>5 DEF TokenPushed, p, target

\* SYNC.
LEMMA SyncedType ==
  ASSUME NEW lanes, NEW c \in Context(lanes), c.stack # <<>>
  PROVE  Synced(c) \in Context(lanes)
<1>1. Wrap(c.pc + 1) \in PC
  BY SumType
<1>2. Top(c) \in Entry(lanes) /\ Popped(c) \in Context(lanes)
  BY PoppedType
<1>3. Top(c).target \in PC
  BY <1>2 DEF Entry
<1> QED
  BY <1>1, <1>2, <1>3, ShadowedType DEF Synced

\* The pop at the end of a path.
LEMMA PathEndedType ==
  ASSUME NEW lanes, NEW c \in Context(lanes), NEW size
  PROVE  PathEnded(c, size) \in Context(lanes)
<1>1. CASE c.stack # <<>>
  <2>1. Top(c) \in Entry(lanes) /\ Popped(c) \in Context(lanes)
    BY <1>1, PoppedType
  <2>2. Top(c).target \in PC
    BY <2>1 DEF Entry
  <2> QED
    BY <2>1, <2>2, ShadowedType DEF PathEnded
<1>2. CASE c.stack = <<>>
  BY <1>2 DEF PathEnded
<1> QED
  BY <1>1, <1>2

-----------------------------------------------------------------------------
(* The stack of a warp that executes a well nested kernel k.               *)

\* The entry that an SSY pushed: it waits at a SYNC.
IsToken(k, e) == e.target < Len(k) /\ k[e.target + 1].op = "SYNC"

\* No token above entry i / between entries i and j / below entry j.
OpenAbove(k, s, i) == \A j \in 1..Len(s) : j > i => ~IsToken(k, s[j])
OpenBetween(k, s, i, j) == \A m \in 1..Len(s) : i < m /\ m < j => ~IsToken(k, s[m])
OpenBelow(k, s, j) == \A m \in 1..Len(s) : m < j => ~IsToken(k, s[m])

\* The region a path at pc is in is that of the paths deferred in it and of its
\* token, and the region around it that of the paths and the token below.
Layered(k, s, pc) ==
  /\ \A i \in 1..Len(s) : OpenAbove(k, s, i) => Region(k, s[i].target) = Region(k, pc)
  /\ OpenAbove(k, s, 0) => Region(k, pc) = NoPc
  /\ \A j \in 1..Len(s) : IsToken(k, s[j]) =>
       /\ \A i \in 1..Len(s) : i < j /\ OpenBetween(k, s, i, j) =>
            Region(k, s[i].target) = Region(k, s[j].target + 1)
       /\ OpenBelow(k, s, j) => Region(k, s[j].target + 1) = NoPc

\* Lanes m that run above entry e are lanes of a token and not of a deferred path.
Splits(k, e, m) == IF IsToken(k, e) THEN m \subseteq e.mask ELSE m \cap e.mask = {}

Parted(k, s, mask) ==
  /\ \A i, j \in 1..Len(s) : i < j => Splits(k, s[i], s[j].mask)
  /\ \A i \in 1..Len(s) : Splits(k, s[i], mask)

StackOK(k, c) ==
  /\ \A i \in 1..Len(c.stack) : c.stack[i].target < Len(k)
  /\ Layered(k, c.stack, c.pc) /\ Parted(k, c.stack, c.mask)

\* All lanes are back outside of the regions.
AllBack(k, lanes, c) ==
  /\ c.stack = <<>> => c.mask = lanes
  /\ c.stack # <<>> => c.stack[1].mask = lanes
  /\ \A i \in 1..Len(c.stack) : Region(k, c.stack[i].target) # NoPc

\* What pushing and popping do to the members of a stack.
LEMMA StackPushed ==
  ASSUME NEW S, NEW s \in Seq(S), NEW e \in S
  PROVE  /\ Append(s, e) \in Seq(S) /\ Len(s) \in Nat /\ Len(Append(s, e)) = Len(s) + 1
         /\ \A i \in 1..Len(s) : Append(s, e)[i] = s[i]
         /\ Append(s, e)[Len(s) + 1] = e
  OBVIOUS

LEMMA StackPopped ==
  ASSUME NEW S, NEW s \in Seq(S), s # <<>>
  PROVE  /\ SubSeq(s, 1, Len(s) - 1) \in Seq(S) /\ Len(s) \in Nat /\ Len(s) >= 1
         /\ Len(SubSeq(s, 1, Len(s) - 1)) = Len(s) - 1
         /\ \A i \in 1..Len(s)-1 : SubSeq(s, 1, Len(s) - 1)[i] = s[i]
<1> DEFINE n == Len(s)
<1>1. n \in Nat /\ n >= 1
  OBVIOUS
<1>2. SubSeq(s, 1, n - 1) \in Seq(S)
  BY <1>1
<1>4. Len(SubSeq(s, 1, n - 1)) = n - 1
  BY <1>1
<1>3. \A i \in 1..n-1 : SubSeq(s, 1, n - 1)[i] = s[i]
  BY <1>1
<1> QED BY <1>1, <1>2, <1>3, <1>4

\* A divergent BRANCH leaves the deferred path in the region of the taken one.
LEMMA DeferredLayers ==
  ASSUME NEW S, NEW s \in Seq(S), NEW e \in S, NEW k, NEW pc, NEW q,
         Layered(k, s, pc), ~IsToken(k, e),
         Region(k, e.target) = Region(k, pc), Region(k, q) = Region(k, pc)
  PROVE  Layered(k, Append(s, e), q)
<1> DEFINE t == Append(s, e)
           n == Len(s)
<1>1. /\ n \in Nat /\ Len(t) = n + 1 /\ \A i \in 1..n : t[i] = s[i]
      /\ t[n + 1] = e
  BY StackPushed
<1> HIDE DEF t
<1>2. ASSUME NEW i \in 1..Len(t), OpenAbove(k, t, i) PROVE Region(k, t[i].target) = Region(k, q)
  <2>1. CASE i = n + 1
    BY <1>1, <2>1
  <2>2. CASE i \in 1..n
    <3>1. OpenAbove(k, s, i)
      BY <1>1, <1>2, <2>2 DEF OpenAbove
    <3> QED BY <1>1, <2>2, <3>1 DEF Layered
  <2> QED BY <1>1, <2>1, <2>2
<1>3. ASSUME OpenAbove(k, t, 0) PROVE Region(k, q) = NoPc
  <2>1. OpenAbove(k, s, 0)
    BY <1>1, <1>3 DEF OpenAbove
  <2> QED BY <2>1 DEF Layered
<1>4. ASSUME NEW j \in 1..Len(t), IsToken(k, t[j])
      PROVE  /\ \A i \in 1..Len(t) : i < j /\ OpenBetween(k, t, i, j) =>
                  Region(k, t[i].target) = Region(k, t[j].target + 1)
             /\ OpenBelow(k, t, j) => Region(k, t[j].target + 1) = NoPc
  <2>1. j \in 1..n /\ t[j] = s[j]
    BY <1>1, <1>4
  <2>2. ASSUME NEW i \in 1..Len(t), i < j, OpenBetween(k, t, i, j)
        PROVE  Region(k, t[i].target) = Region(k, t[j].target + 1)
    <3>1. i \in 1..n /\ t[i] = s[i] /\ OpenBetween(k, s, i, j)
      BY <1>1, <2>1, <2>2 DEF OpenBetween
    <3> QED BY <1>4, <2>1, <2>2, <3>1 DEF Layered
  <2>3. ASSUME OpenBelow(k, t, j) PROVE Region(k, t[j].target + 1) = NoPc
    <3>1. OpenBelow(k, s, j)
      BY <1>1, <2>1, <2>3 DEF OpenBelow
    <3> QED BY <1>4, <2>1, <3>1 DEF Layered
  <2> QED BY <2>2, <2>3
<1>5. Layered(k, t, q)
  BY <1>2, <1>3, <1>4 DEF Layered
<1> QED BY <1>5 DEF t

\* SSY opens a region inside the one it stands in.
LEMMA TokenLayers ==
  ASSUME NEW S, NEW s \in Seq(S), NEW e \in S, NEW k, NEW pc, NEW q,
         Layered(k, s, pc), IsToken(k, e),
         Region(k, e.target + 1) = Region(k, pc), Region(k, q) = Region(k, e.target)
  PROVE  Layered(k, Append(s, e), q)
<1> DEFINE t == Append(s, e)
           n == Len(s)
<1>1. /\ n \in Nat /\ Len(t) = n + 1 /\ \A i \in 1..n : t[i] = s[i]
      /\ t[n + 1] = e
  BY StackPushed
<1> HIDE DEF t
<1>2. ASSUME NEW i \in 1..Len(t), OpenAbove(k, t, i) PROVE Region(k, t[i].target) = Region(k, q)
  <2>1. i = n + 1
    BY <1>1, <1>2 DEF OpenAbove
  <2> QED BY <1>1, <2>1
<1>3. ~OpenAbove(k, t, 0)
  BY <1>1 DEF OpenAbove
<1>4. ASSUME NEW j \in 1..Len(t), IsToken(k, t[j])
      PROVE  /\ \A i \in 1..Len(t) : i < j /\ OpenBetween(k, t, i, j) =>
                  Region(k, t[i].target) = Region(k, t[j].target + 1)
             /\ OpenBelow(k, t, j) => Region(k, t[j].target + 1) = NoPc
  <2>1. CASE j \in 1..n
    <3>1. t[j] = s[j]
      BY <1>1, <2>1
    <3>2. ASSUME NEW i \in 1..Len(t), i < j, OpenBetween(k, t, i, j)
          PROVE  Region(k, t[i].target) = Region(k, t[j].target + 1)
      <4>1. i \in 1..n /\ t[i] = s[i] /\ OpenBetween(k, s, i, j)
        BY <1>1, <2>1, <3>2 DEF OpenBetween
      <4> QED BY <1>4, <2>1, <3>1, <3>2, <4>1 DEF Layered
    <3>3. ASSUME OpenBelow(k, t, j) PROVE Region(k, t[j].target + 1) = NoPc
      <4>1. OpenBelow(k, s, j)
        BY <1>1, <2>1, <3>3 DEF OpenBelow
      <4> QED BY <1>4, <2>1, <3>1, <4>1 DEF Layered
    <3> QED BY <3>2, <3>3
  <2>2. CASE j = n + 1
    <3>1. ASSUME NEW i \in 1..Len(t), i < j, OpenBetween(k, t, i, j)
          PROVE  Region(k, t[i].target) = Region(k, t[j].target + 1)
      <4>1. i \in 1..n /\ t[i] = s[i] /\ OpenAbove(k, s, i)
        BY <1>1, <2>2, <3>1 DEF OpenBetween, OpenAbove
      <4> QED BY <1>1, <2>2, <4>1 DEF Layered
    <3>2. ASSUME OpenBelow(k, t, j) PROVE Region(k, t[j].target + 1) = NoPc
      <4>1. OpenAbove(k, s, 0)
        BY <1>1, <2>2, <3>2 DEF OpenBelow, OpenAbove
      <4> QED BY <1>1, <2>2, <4>1 DEF Layered
    <3> QED BY <3>1, <3>2
  <2> QED BY <1>1, <2>1, <2>2
<1>5. Layered(k, t, q)
  BY <1>2, <1>3, <1>4 DEF Layered
<1> QED BY <1>5 DEF t

\* A pop goes on in the region of the deferred path, or after the token's.
LEMMA PoppedLayers ==
  ASSUME NEW S, NEW s \in Seq(S), s # <<>>, NEW k, NEW pc, NEW q,
         Layered(k, s, pc),
         Region(k, q) = IF IsToken(k, s[Len(s)]) THEN Region(k, s[Len(s)].target + 1)
                        ELSE Region(k, s[Len(s)].target)
  PROVE  Layered(k, SubSeq(s, 1, Len(s) - 1), q)
<1> DEFINE t == SubSeq(s, 1, Len(s) - 1)
           n == Len(s)
<1>1. n \in Nat /\ n >= 1 /\ Len(t) = n - 1 /\ \A i \in 1..n-1 : t[i] = s[i]
  BY StackPopped
<1> HIDE DEF t
<1>2. ASSUME ~IsToken(k, s[n]) PROVE Region(k, q) = Region(k, pc)
  <2>1. OpenAbove(k, s, n) /\ n \in 1..Len(s)
    BY <1>1 DEF OpenAbove
  <2> QED BY <1>2, <2>1 DEF Layered
<1>3. ASSUME NEW i \in 1..Len(t), OpenAbove(k, t, i) PROVE Region(k, t[i].target) = Region(k, q)
  <2>0. i \in 1..n-1 /\ i \in 1..Len(s) /\ i < n /\ t[i] = s[i]
    BY <1>1
  <2>1. CASE IsToken(k, s[n])
    <3>1. OpenBetween(k, s, i, n)
      BY <1>1, <1>3, <2>0 DEF OpenAbove, OpenBetween
    <3>2. n \in 1..Len(s)
      BY <1>1
    <3> QED BY <2>0, <2>1, <3>1, <3>2 DEF Layered
  <2>2. CASE ~IsToken(k, s[n])
    <3>1. OpenAbove(k, s, i)
      BY <1>1, <1>3, <2>0, <2>2 DEF OpenAbove
    <3> QED BY <1>2, <2>0, <2>2, <3>1 DEF Layered
  <2> QED BY <2>1, <2>2
<1>4. ASSUME OpenAbove(k, t, 0) PROVE Region(k, q) = NoPc
  <2>1. CASE IsToken(k, s[n])
    <3>1. OpenBelow(k, s, n) /\ n \in 1..Len(s)
      BY <1>1, <1>4 DEF OpenAbove, OpenBelow
    <3> QED BY <2>1, <3>1 DEF Layered
  <2>2. CASE ~IsToken(k, s[n])
    <3>1. OpenAbove(k, s, 0)
      BY <1>1, <1>4, <2>2 DEF OpenAbove
    <3> QED BY <1>2, <2>2, <3>1 DEF Layered
  <2> QED BY <2>1, <2>2
<1>5. ASSUME NEW j \in 1..Len(t), IsToken(k, t[j])
      PROVE  /\ \A i \in 1..Len(t) : i < j /\ OpenBetween(k, t, i, j) =>
                  Region(k, t[i].target) = Region(k, t[j].target + 1)
             /\ OpenBelow(k, t, j) => Region(k, t[j].target + 1) = NoPc
  <2>1. j \in 1..Len(s) /\ j < n /\ t[j] = s[j]
    BY <1>1
  <2>2. ASSUME NEW i \in 1..Len(t), i < j, OpenBetween(k, t, i, j)
        PROVE  Region(k, t[i].target) = Region(k, t[j].target + 1)
    <3>1. i \in 1..Len(s) /\ t[i] = s[i] /\ OpenBetween(k, s, i, j)
      BY <1>1, <2>1, <2>2 DEF OpenBetween
    <3> QED BY <1>5, <2>1, <2>2, <3>1 DEF Layered
  <2>3. ASSUME OpenBelow(k, t, j) PROVE Region(k, t[j].target + 1) = NoPc
    <3>1. OpenBelow(k, s, j)
      BY <1>1, <2>1, <2>3 DEF OpenBelow
    <3> QED BY <1>5, <2>1, <3>1 DEF Layered
  <2> QED BY <2>2, <2>3
<1>6. Layered(k, t, q)
  BY <1>3, <1>4, <1>5 DEF Layered
<1> QED BY <1>6 DEF t

\* Lanes stay parted when some of the running ones become an entry: the rest of
\* them is deferred, or all of them wait for their token.
LEMMA PushedParts ==
  ASSUME NEW S, NEW s \in Seq(S), NEW e \in S, NEW k, NEW mask, NEW rest,
         Parted(k, s, mask), e.mask \subseteq mask, rest \subseteq mask, Splits(k, e, rest)
  PROVE  Parted(k, Append(s, e), rest)
<1> DEFINE t == Append(s, e)
           n == Len(s)
<1>1. /\ n \in Nat /\ Len(t) = n + 1 /\ \A i \in 1..n : t[i] = s[i]
      /\ t[n + 1] = e
  BY StackPushed
<1> HIDE DEF t
<1>2. \A i \in 1..n : \A m : m \subseteq mask => Splits(k, s[i], m)
  BY DEF Parted, Splits
<1>3. ASSUME NEW i \in 1..Len(t), NEW j \in 1..Len(t), i < j PROVE Splits(k, t[i], t[j].mask)
  <2>1. i \in 1..n /\ t[i] = s[i]
    BY <1>1, <1>3
  <2>2. CASE j = n + 1
    BY <1>1, <1>2, <2>1, <2>2
  <2>3. CASE j \in 1..n
    BY <1>1, <1>3, <2>1, <2>3 DEF Parted
  <2> QED BY <1>1, <2>2, <2>3
<1>4. ASSUME NEW i \in 1..Len(t) PROVE Splits(k, t[i], rest)
  <2>1. CASE i = n + 1
    BY <1>1, <2>1
  <2>2. CASE i \in 1..n
    BY <1>1, <1>2, <2>2
  <2> QED BY <1>1, <2>1, <2>2
<1>5. Parted(k, t, rest)
  BY <1>3, <1>4 DEF Parted
<1> QED BY <1>5 DEF t

\* A pop makes the lanes of the top entry the running ones.
LEMMA PoppedParts ==
  ASSUME NEW S, NEW s \in Seq(S), s # <<>>, NEW k, NEW mask, Parted(k, s, mask)
  PROVE  Parted(k, SubSeq(s, 1, Len(s) - 1), s[Len(s)].mask)
<1> DEFINE t == SubSeq(s, 1, Len(s) - 1)
           n == Len(s)
<1>1. n \in Nat /\ n >= 1 /\ Len(t) = n - 1 /\ \A i \in 1..n-1 : t[i] = s[i]
  BY StackPopped
<1> HIDE DEF t
<1>2. ASSUME NEW i \in 1..Len(t), NEW j \in 1..Len(t), i < j PROVE Splits(k, t[i], t[j].mask)
  BY <1>1, <1>2 DEF Parted
<1>3. ASSUME NEW i \in 1..Len(t) PROVE Splits(k, t[i], s[n].mask)
  BY <1>1 DEF Parted
<1>4. Parted(k, t, s[n].mask)
  BY <1>2, <1>3 DEF Parted
<1> QED BY <1>4 DEF t

-----------------------------------------------------------------------------
(* Where a lane stands (LanePc), by what is known of the stack.            *)

\* Entry i is the topmost that holds lane l.
Holds(s, l, i) ==
  /\ i \in 1..Len(s) /\ l \in s[i].mask
  /\ \A j \in 1..Len(s) : j > i => l \notin s[j].mask

NoneHolds(s, l) == \A i \in 1..Len(s) : l \notin s[i].mask

\* Who holds l is the same in both stacks.
SameHolder(s, t, l) ==
  /\ NoneHolds(s, l) => NoneHolds(t, l)
  /\ \A i : Holds(s, l, i) => Holds(t, l, i) /\ t[i] = s[i]

Clipped(pc, size) == IF pc < size THEN pc ELSE size

\* An active lane is where the warp is.
LEMMA ActiveLane ==
  ASSUME NEW c, NEW l, NEW size, l \in c.mask
  PROVE  LanePc(c, l, size) = Clipped(c.pc, size)
  BY DEF LanePc, Clipped

\* A lane that waits is where its topmost entry will resume.
LEMMA HeldLane ==
  ASSUME NEW S, NEW c, c.stack \in Seq(S), NEW l, NEW size, l \notin c.mask,
         NEW i, Holds(c.stack, l, i)
  PROVE  LanePc(c, l, size) = Clipped(c.stack[i].target, size)
<1> DEFINE P(x) == x \in Holders(c, l) /\ \A j \in Holders(c, l) : j <= x
<1>1. Len(c.stack) \in Nat /\ DOMAIN c.stack = 1..Len(c.stack)
  OBVIOUS
<1>2. P(i)
  BY <1>1 DEF Holders, Holds
<1>3. \A x : P(x) => x = i
  BY <1>1, <1>2 DEF Holders
<1>4. TopHolder(c, l) = i
  BY <1>2, <1>3 DEF TopHolder
<1>5. Holders(c, l) # {}
  BY <1>2
<1> QED BY <1>4, <1>5 DEF LanePc, Clipped

\* A lane that nobody holds has left the kernel.
LEMMA FreeLane ==
  ASSUME NEW S, NEW c, c.stack \in Seq(S), NEW l, NEW size \in Nat,
         l \notin c.mask, NoneHolds(c.stack, l)
  PROVE  LanePc(c, l, size) = size
<1>1. Holders(c, l) = {}
  BY DEF Holders, NoneHolds
<1> QED BY <1>1 DEF LanePc

\* There is no fourth case.
LEMMA LaneHeldOrNot ==
  ASSUME NEW S, NEW s \in Seq(S), NEW l
  PROVE  NoneHolds(s, l) \/ \E i : Holds(s, l, i)
<1> DEFINE T == {i \in 1..Len(s) : l \in s[i].mask}
<1>1. SUFFICES ASSUME T # {} PROVE \E i : Holds(s, l, i)
  BY DEF NoneHolds
<1>2. T \in SUBSET Nat /\ Len(s) \in Nat /\ \A y \in T : y <= Len(s)
  OBVIOUS
<1>3. PICK i \in T : \A y \in T : y <= i
  <2> HIDE DEF T
  <2> QED BY <1>1, <1>2, GreatestNumber
<1>4. Holds(s, l, i)
  BY <1>2, <1>3 DEF Holds
<1> QED BY <1>4

\* An entry without l, pushed or popped, does not change who holds l.
LEMMA PushedHolds ==
  ASSUME NEW S, NEW s \in Seq(S), NEW e \in S, NEW l, l \notin e.mask
  PROVE  SameHolder(s, Append(s, e), l)
<1> DEFINE t == Append(s, e)
           n == Len(s)
<1>1. /\ n \in Nat /\ Len(t) = n + 1 /\ \A i \in 1..n : t[i] = s[i]
      /\ t[n + 1] = e
  BY StackPushed
<1> HIDE DEF t
<1>2. NoneHolds(s, l) => NoneHolds(t, l)
  BY <1>1 DEF NoneHolds
<1>3. \A i : Holds(s, l, i) => Holds(t, l, i) /\ t[i] = s[i]
  BY <1>1 DEF Holds
<1> QED BY <1>2, <1>3 DEF t, SameHolder

LEMMA PoppedHolds ==
  ASSUME NEW S, NEW s \in Seq(S), s # <<>>, NEW l, l \notin s[Len(s)].mask
  PROVE  SameHolder(s, SubSeq(s, 1, Len(s) - 1), l)
<1> DEFINE t == SubSeq(s, 1, Len(s) - 1)
           n == Len(s)
<1>1. n \in Nat /\ n >= 1 /\ Len(t) = n - 1 /\ \A i \in 1..n-1 : t[i] = s[i]
  BY StackPopped
<1> HIDE DEF t
<1>2. NoneHolds(s, l) => NoneHolds(t, l)
  BY <1>1 DEF NoneHolds
<1>3. \A i : Holds(s, l, i) => Holds(t, l, i) /\ t[i] = s[i]
  BY <1>1 DEF Holds
<1> QED BY <1>2, <1>3 DEF t, SameHolder

\* A lane that is active in neither context and that both stacks hold alike
\* stays where it is.
Waits(lanes, c, d, l) ==
  /\ c.stack \in Seq(Entry(lanes)) /\ d.stack \in Seq(Entry(lanes))
  /\ l \notin c.mask /\ l \notin d.mask /\ SameHolder(c.stack, d.stack, l)

LEMMA WaitingLane ==
  ASSUME NEW lanes, NEW c, NEW d, NEW l, NEW size \in Nat, Waits(lanes, c, d, l)
  PROVE  LanePc(d, l, size) = LanePc(c, l, size)
<1> USE DEF Waits
<1>1. CASE NoneHolds(c.stack, l)
  BY <1>1, FreeLane DEF SameHolder
<1>2. ASSUME NEW i, Holds(c.stack, l, i) PROVE LanePc(d, l, size) = LanePc(c, l, size)
  <2>1. Holds(d.stack, l, i) /\ d.stack[i] = c.stack[i]
    BY <1>2 DEF SameHolder
  <2>2. LanePc(c, l, size) = Clipped(c.stack[i].target, size)
    BY <1>2, HeldLane
  <2>3. LanePc(d, l, size) = Clipped(d.stack[i].target, size)
    BY <2>1, HeldLane
  <2> QED BY <2>1, <2>2, <2>3
<1> QED BY <1>1, <1>2, LaneHeldOrNot

-----------------------------------------------------------------------------
(* Each instruction of a well nested kernel keeps the stack in shape and   *)
(* sends every lane where the lane's own program goes.                     *)

\* A context in which an instruction is about to be executed.
Runs(k, lanes, c) ==
  /\ k \in Seq(Instruction) /\ WellNested(k)
  /\ c \in Context(lanes) /\ StackOK(k, c) /\ c.pc < Len(k)

OpAt(k, p) == k[p + 1].op
ImmAt(k, p) == k[p + 1].imm

\* Between c and d, a lane of c stays or moves to the successor of its instruction.
Follows(k, lanes, c, d) ==
  \A l \in lanes :
    LET p == LanePc(c, l, Len(k))
        q == LanePc(d, l, Len(k))
    IN  q # p => p < Len(k) /\ q = LaneNext(k, c, l, p)

\* All lanes are back in d if they were in c.
BackStays(k, lanes, c, d) == Synchronized(k) /\ AllBack(k, lanes, c) => AllBack(k, lanes, d)

\* What an instruction of a well nested kernel does.
Obeys(k, lanes, c, d) == StackOK(k, d) /\ Follows(k, lanes, c, d) /\ BackStays(k, lanes, c, d)

\* The types of what the proofs below use, and no wrap at the next instruction.
LEMMA RunsTypes ==
  ASSUME NEW k, NEW lanes, NEW c, Runs(k, lanes, c)
  PROVE  /\ Len(k) \in Nat /\ c.pc \in Nat /\ c.pc \in 0..Len(k)-1
         /\ Wrap(c.pc + 1) = c.pc + 1
         /\ c.stack \in Seq(Entry(lanes)) /\ c.mask \subseteq lanes
         /\ ImmAt(k, c.pc) \in Int
<1>1. Len(k) \in Nat /\ Len(k) < SizeT
  BY DEF Runs, WellNested
<1>2. c.pc \in PC /\ c.stack \in Seq(Entry(lanes)) /\ c.mask \subseteq lanes
  BY DEF Runs, Context
<1>3. c.pc \in Nat /\ c.pc \in 0..Len(k)-1
  BY <1>1, <1>2, SizeTAssumption DEF Runs, PC
<1>4. Wrap(c.pc + 1) = c.pc + 1
  BY <1>1, <1>3, SizeTAssumption DEF Wrap
<1>5. k[c.pc + 1] \in Instruction
  <2>1. c.pc + 1 \in 1..Len(k)
    BY <1>1, <1>3
  <2> QED BY <2>1 DEF Runs
<1> QED BY <1>1, <1>2, <1>3, <1>4, <1>5 DEF Instruction, ImmAt

\* What a well nested kernel promises of the instruction at p.
NestedAt(k, p) ==
  /\ OpAt(k, p) \notin {"SSY", "SYNC"} => Region(k, p + 1) = Region(k, p)
  /\ OpAt(k, p) = "BRANCH" =>
       /\ Region(k, Wrap(p + ImmAt(k, p))) = Region(k, p)
       /\ p + 1 < Len(k) /\ OpAt(k, p + 1) # "SYNC"
  /\ OpAt(k, p) = "SSY" =>
       LET t == Wrap(p + ImmAt(k, p))
       IN  /\ t < Len(k) /\ OpAt(k, t) = "SYNC"
           /\ Region(k, p + 1) = t /\ Region(k, t + 1) = Region(k, p)
  /\ OpAt(k, p) = "SYNC" => Region(k, p) = p

LEMMA NestedInstruction ==
  ASSUME NEW k \in Seq(Instruction), WellNested(k), NEW p \in 0..Len(k)-1
  PROVE  NestedAt(k, p) /\ p # NoPc
<1>1. Len(k) \in Nat /\ Len(k) < SizeT
  BY DEF WellNested
<1>2. p # NoPc
  BY <1>1, SizeTAssumption DEF NoPc
<1>3. p + 1 + 1 = p + 2
  BY <1>1
<1>4. NestedAt(k, p)
  BY <1>3 DEF WellNested, NestedAt, OpAt, ImmAt
<1> QED BY <1>2, <1>4

\* A token waits at the SYNC of its region.
LEMMA TokenRegion ==
  ASSUME NEW k \in Seq(Instruction), WellNested(k), NEW e, e.target \in Nat, IsToken(k, e)
  PROVE  Region(k, e.target) = e.target /\ e.target # NoPc
<1>1. e.target \in 0..Len(k)-1 /\ OpAt(k, e.target) = "SYNC"
  BY DEF IsToken, OpAt
<1> QED BY <1>1, NestedInstruction DEF NestedAt

\* The first entry of a stack is the one that was pushed first.
LEMMA PushedBack ==
  ASSUME NEW k, NEW lanes, NEW c, NEW d, NEW e \in Entry(lanes), c.stack \in Seq(Entry(lanes)),
         d.stack = Append(c.stack, e), Region(k, e.target) # NoPc,
         c.stack = <<>> => e.mask = c.mask
  PROVE  BackStays(k, lanes, c, d)
<1> DEFINE n == Len(c.stack)
<1>1. /\ n \in Nat /\ Len(d.stack) = n + 1 /\ \A i \in 1..n : d.stack[i] = c.stack[i]
      /\ d.stack[n + 1] = e
  BY StackPushed
<1>2. d.stack # <<>>
  BY <1>1
<1>3. SUFFICES ASSUME AllBack(k, lanes, c) PROVE AllBack(k, lanes, d)
  BY DEF BackStays
<1>4. d.stack[1].mask = lanes
  <2>1. CASE c.stack = <<>>
    BY <1>1, <1>3, <2>1 DEF AllBack
  <2>2. CASE c.stack # <<>>
    <3>1. 1 \in 1..n
      BY <2>2
    <3> QED BY <1>1, <1>3, <2>2, <3>1 DEF AllBack
  <2> QED BY <2>1, <2>2
<1>5. \A i \in 1..Len(d.stack) : Region(k, d.stack[i].target) # NoPc
  BY <1>1, <1>3 DEF AllBack
<1> QED BY <1>2, <1>4, <1>5 DEF AllBack

LEMMA PoppedBack ==
  ASSUME NEW k, NEW lanes, NEW c, NEW d, c.stack \in Seq(Entry(lanes)), c.stack # <<>>,
         d.stack = SubSeq(c.stack, 1, Len(c.stack) - 1), d.mask = Top(c).mask
  PROVE  BackStays(k, lanes, c, d)
<1> DEFINE n == Len(c.stack)
<1>1. /\ n \in Nat /\ n >= 1 /\ Len(d.stack) = n - 1 /\ d.stack \in Seq(Entry(lanes))
      /\ \A i \in 1..n-1 : d.stack[i] = c.stack[i]
  BY StackPopped
<1>2. SUFFICES ASSUME AllBack(k, lanes, c) PROVE AllBack(k, lanes, d)
  BY DEF BackStays
<1>3. ASSUME d.stack = <<>> PROVE d.mask = lanes
  <2>0. Len(d.stack) = 0
    BY <1>3
  <2> HIDE DEF n
  <2>2. n = 1
    BY <1>1, <2>0
  <2>1. Len(c.stack) = 1
    BY <2>2 DEF n
  <2> QED BY <1>2, <2>1 DEF AllBack, Top
<1>4. ASSUME d.stack # <<>> PROVE d.stack[1].mask = lanes
  <2>1. 1 \in 1..n-1
    BY <1>1, <1>4
  <2> QED BY <1>1, <1>2, <2>1 DEF AllBack
<1>5. \A i \in 1..Len(d.stack) : Region(k, d.stack[i].target) # NoPc
  BY <1>1, <1>2 DEF AllBack
<1> QED BY <1>3, <1>4, <1>5 DEF AllBack

\* ALU, MEM, CMP, BARRIER and a BRANCH on which all lanes agree.
LEMMA MovedTogether ==
  ASSUME NEW k, NEW lanes, NEW c, NEW d, Runs(k, lanes, c),
         d.stack = c.stack, d.mask = c.mask, Region(k, d.pc) = Region(k, c.pc),
         \A l \in c.mask : LaneNext(k, c, l, c.pc) = Clipped(d.pc, Len(k))
  PROVE  Obeys(k, lanes, c, d)
<1>1. /\ Len(k) \in Nat /\ c.pc \in Nat /\ c.pc < Len(k)
      /\ c.stack \in Seq(Entry(lanes))
  BY RunsTypes DEF Runs
<1>2. StackOK(k, d)
  <2>1. StackOK(k, c)
    BY DEF Runs
  <2>2. Layered(k, d.stack, d.pc)
    BY <2>1 DEF StackOK, Layered
  <2> QED BY <2>1, <2>2 DEF StackOK
<1>3. ASSUME NEW l \in lanes, LanePc(d, l, Len(k)) # LanePc(c, l, Len(k))
      PROVE  /\ LanePc(c, l, Len(k)) < Len(k)
             /\ LanePc(d, l, Len(k)) = LaneNext(k, c, l, LanePc(c, l, Len(k)))
  <2>1. CASE l \in c.mask
    <3>1. LanePc(c, l, Len(k)) = c.pc
      BY <1>1, <2>1, ActiveLane DEF Clipped
    <3>2. LanePc(d, l, Len(k)) = Clipped(d.pc, Len(k))
      BY <2>1, ActiveLane
    <3> QED BY <1>1, <2>1, <3>1, <3>2
  <2>2. CASE l \notin c.mask
    <3>1. Waits(lanes, c, d, l)
      BY <1>1, <2>2 DEF SameHolder, Waits
    <3>2. LanePc(d, l, Len(k)) = LanePc(c, l, Len(k))
      BY <1>1, <3>1, WaitingLane
    <3> QED BY <1>3, <3>2
  <2> QED BY <2>1, <2>2
<1>4. BackStays(k, lanes, c, d)
  BY DEF BackStays, AllBack
<1> QED BY <1>2, <1>3, <1>4 DEF Follows, Obeys

\* The fields that an instruction leaves in a context.
LEMMA ShadowedFields ==
  ASSUME NEW lanes, NEW c \in Context(lanes), NEW m, NEW pc
  PROVE  /\ Shadowed(c, m, pc).pc = pc /\ Shadowed(c, m, pc).mask = c.mask
         /\ Shadowed(c, m, pc).stack = c.stack
  BY DEF Shadowed, Context

LEMMA PushedFields ==
  ASSUME NEW lanes, NEW c \in Context(lanes), NEW e \in Entry(lanes)
  PROVE  /\ Pushed(c, e).mask = c.mask /\ Pushed(c, e).stack = Append(c.stack, e)
         /\ Pushed(c, e).pc = c.pc
  BY DEF Pushed, Context

LEMMA PoppedFields ==
  ASSUME NEW lanes, NEW c \in Context(lanes)
  PROVE  /\ Popped(c).mask = Top(c).mask
         /\ Popped(c).stack = SubSeq(c.stack, 1, Len(c.stack) - 1)
  BY DEF Popped, Context

\* An instruction that moves one on (ALU, MEM, BARRIER).
LEMMA AdvancedFollows ==
  ASSUME NEW k, NEW lanes, NEW c, Runs(k, lanes, c),
         OpAt(k, c.pc) \in {"ALU", "MEM", "CMP", "BARRIER"}
  PROVE  Obeys(k, lanes, c, Advanced(c))
<1> DEFINE d == Advanced(c)
<1>1. c.pc \in 0..Len(k)-1 /\ Wrap(c.pc + 1) = c.pc + 1 /\ c \in Context(lanes)
  BY RunsTypes DEF Runs
<1>2. d.pc = c.pc + 1 /\ d.mask = c.mask /\ d.stack = c.stack
  BY <1>1, ShadowedFields DEF Advanced
<1>3. NestedAt(k, c.pc)
  BY <1>1, NestedInstruction DEF Runs
<1>4. Region(k, d.pc) = Region(k, c.pc)
  BY <1>2, <1>3 DEF NestedAt
<1>5. \A l \in c.mask : LaneNext(k, c, l, c.pc) = Clipped(d.pc, Len(k))
  BY <1>1, <1>2 DEF LaneNext, Clipped, OpAt
<1> HIDE DEF d
<1>6. Obeys(k, lanes, c, d)
  BY <1>2, <1>4, <1>5, MovedTogether
<1> QED BY <1>6 DEF d

\* CMP: the predicates change, nobody looks at them yet.
LEMMA ComparedFollows ==
  ASSUME NEW k, NEW lanes, NEW c, Runs(k, lanes, c), OpAt(k, c.pc) = "CMP",
         NEW equal \in SUBSET c.mask
  PROVE  Obeys(k, lanes, c, Compared(c, equal))
<1> DEFINE b == [c EXCEPT !.pred = (c.pred \ c.mask) \cup equal]
           d == Compared(c, equal)
<1>1. c.pc \in 0..Len(k)-1 /\ Wrap(c.pc + 1) = c.pc + 1 /\ c \in Context(lanes)
  BY RunsTypes DEF Runs
<1>2. b \in Context(lanes) /\ b.pc = c.pc /\ b.mask = c.mask /\ b.stack = c.stack
  BY <1>1 DEF Context
<1>3. d = Shadowed(b, b.mask, Wrap(b.pc + 1))
  BY DEF Compared, Advanced
<1> HIDE DEF b
<1>4. d.pc = c.pc + 1 /\ d.mask = c.mask /\ d.stack = c.stack
  BY <1>1, <1>2, <1>3, ShadowedFields
<1>5. NestedAt(k, c.pc)
  BY <1>1, NestedInstruction DEF Runs
<1>6. Region(k, d.pc) = Region(k, c.pc)
  BY <1>4, <1>5 DEF NestedAt
<1>7. \A l \in c.mask : LaneNext(k, c, l, c.pc) = Clipped(d.pc, Len(k))
  BY <1>1, <1>4 DEF LaneNext, Clipped, OpAt
<1> HIDE DEF d
<1>8. Obeys(k, lanes, c, d)
  BY <1>4, <1>6, <1>7, MovedTogether
<1> QED BY <1>8 DEF d

\* BRANCH: the lanes that take it go to the target, the others are deferred to
\* the next instruction.
LEMMA BranchedFollows ==
  ASSUME NEW k, NEW lanes, NEW c, Runs(k, lanes, c), OpAt(k, c.pc) = "BRANCH"
  PROVE  Obeys(k, lanes, c, Branched(c, ImmAt(k, c.pc)))
<1> DEFINE imm   == ImmAt(k, c.pc)
           taken == c.mask \cap c.pred
           rest  == c.mask \ taken
           target == Wrap(c.pc + imm)
           e == [mask |-> rest, target |-> Wrap(c.pc + 1), reconv |-> c.reconv]
           d == Branched(c, imm)
<1>1. /\ Len(k) \in Nat /\ c.pc \in 0..Len(k)-1 /\ c.pc \in Nat /\ c.pc < Len(k)
      /\ Wrap(c.pc + 1) = c.pc + 1 /\ c \in Context(lanes) /\ imm \in Int
      /\ c.stack \in Seq(Entry(lanes)) /\ StackOK(k, c)
  BY RunsTypes DEF Runs
<1>2. NestedAt(k, c.pc)
  BY <1>1, NestedInstruction DEF Runs
<1>3. /\ Region(k, target) = Region(k, c.pc) /\ Region(k, c.pc + 1) = Region(k, c.pc)
      /\ c.pc + 1 < Len(k) /\ OpAt(k, c.pc + 1) # "SYNC"
  BY <1>2 DEF NestedAt
<1>4. \A l \in c.mask : LaneNext(k, c, l, c.pc)
                          = Clipped(IF l \in taken THEN target ELSE c.pc + 1, Len(k))
  BY <1>1 DEF LaneNext, Clipped, OpAt, ImmAt
<1>5. CASE taken = {}
  <2>1. d = Advanced(c)
    BY <1>5 DEF Branched
  <2>2. d.pc = c.pc + 1 /\ d.mask = c.mask /\ d.stack = c.stack
    BY <1>1, <2>1, ShadowedFields DEF Advanced
  <2>3. \A l \in c.mask : LaneNext(k, c, l, c.pc) = Clipped(d.pc, Len(k))
    BY <1>4, <1>5, <2>2
  <2> HIDE DEF d
  <2>4. Obeys(k, lanes, c, d)
    BY <1>3, <2>2, <2>3, MovedTogether
  <2> QED BY <2>4 DEF d
<1>6. CASE taken # {} /\ taken = c.mask
  <2>1. d = Shadowed(c, c.mask, target)
    BY <1>6 DEF Branched
  <2>2. d.pc = target /\ d.mask = c.mask /\ d.stack = c.stack
    BY <1>1, <2>1, ShadowedFields
  <2>3. \A l \in c.mask : LaneNext(k, c, l, c.pc) = Clipped(d.pc, Len(k))
    BY <1>4, <1>6, <2>2
  <2> HIDE DEF d, target, taken
  <2>4. Obeys(k, lanes, c, d)
    BY <1>3, <2>2, <2>3, MovedTogether
  <2> QED BY <2>4 DEF d
<1>7. CASE taken # {} /\ taken # c.mask
  <2> DEFINE b == [Pushed(c, e) EXCEPT !.mask = taken]
  <2>1. d = Shadowed(b, c.mask, target)
    BY <1>7 DEF Branched
  <2>2. e \in Entry(lanes)
    <3>1. Wrap(c.pc + 1) \in PC
      BY <1>1, SumType
    <3> QED BY <1>1, <3>1 DEF Entry, Context
  <2>3. b \in Context(lanes) /\ b.mask = taken /\ b.stack = Append(c.stack, e)
    <3> DEFINE f == Pushed(c, e)
    <3>1. f \in Context(lanes) /\ f.stack = Append(c.stack, e) /\ taken \in SUBSET lanes
      <4>1. taken \in SUBSET lanes
        BY <1>1 DEF Context
      <4> QED BY <1>1, <2>2, <4>1, PushedType, PushedFields
    <3> HIDE DEF f, taken
    <3>2. /\ [f EXCEPT !.mask = taken] \in Context(lanes)
          /\ [f EXCEPT !.mask = taken].mask = taken
          /\ [f EXCEPT !.mask = taken].stack = f.stack
      BY <3>1 DEF Context
    <3> QED BY <3>1, <3>2 DEF f
  <2> HIDE DEF b
  <2>4. d.pc = target /\ d.mask = taken /\ d.stack = Append(c.stack, e)
    BY <2>1, <2>3, ShadowedFields
  <2>5. e.target = c.pc + 1 /\ e.mask = rest /\ ~IsToken(k, e)
    BY <1>1, <1>3 DEF IsToken, OpAt
  <2>6. taken \subseteq c.mask /\ rest \subseteq c.mask /\ taken \cap rest = {}
        /\ rest = c.mask \ taken
    OBVIOUS
  <2> HIDE DEF d, e, target, taken, rest
  <2>7. StackOK(k, d)
    <3>1. Layered(k, d.stack, d.pc)
      BY <1>1, <1>3, <2>2, <2>4, <2>5, DeferredLayers DEF StackOK
    <3>2. Splits(k, e, taken)
      BY <2>5, <2>6 DEF Splits
    <3>3. Parted(k, d.stack, d.mask)
      BY <1>1, <2>2, <2>4, <2>5, <2>6, <3>2, PushedParts DEF StackOK
    <3>4. \A i \in 1..Len(d.stack) : d.stack[i].target < Len(k)
      BY <1>1, <1>3, <2>2, <2>4, <2>5, StackPushed DEF StackOK
    <3> QED BY <3>1, <3>3, <3>4 DEF StackOK
  <2>8. ASSUME NEW l \in lanes, LanePc(d, l, Len(k)) # LanePc(c, l, Len(k))
        PROVE  /\ LanePc(c, l, Len(k)) < Len(k)
               /\ LanePc(d, l, Len(k)) = LaneNext(k, c, l, LanePc(c, l, Len(k)))
    <3>0. d.stack \in Seq(Entry(lanes))
      BY <1>1, <2>2, <2>4, StackPushed
    <3>1. CASE l \in c.mask
      <4>1. LanePc(c, l, Len(k)) = c.pc
        BY <1>1, <3>1, ActiveLane DEF Clipped
      <4>2. CASE l \in taken
        <5>1. LanePc(d, l, Len(k)) = Clipped(target, Len(k))
          BY <2>4, <4>2, ActiveLane
        <5> QED BY <1>1, <1>4, <3>1, <4>1, <4>2, <5>1
      <4>3. CASE l \notin taken
        <5>1. Holds(d.stack, l, Len(c.stack) + 1)
              /\ d.stack[Len(c.stack) + 1].target = c.pc + 1
          BY <1>1, <2>2, <2>4, <2>5, <2>6, <3>1, <4>3, StackPushed DEF Holds
        <5>2. LanePc(d, l, Len(k)) = Clipped(c.pc + 1, Len(k))
          BY <2>4, <3>0, <4>3, <5>1, HeldLane
        <5> QED BY <1>1, <1>4, <3>1, <4>1, <4>3, <5>2
      <4> QED BY <4>2, <4>3
    <3>2. CASE l \notin c.mask
      <4>1. l \notin e.mask /\ l \notin d.mask
        BY <2>4, <2>5, <2>6, <3>2
      <4>2. SameHolder(c.stack, d.stack, l)
        BY <1>1, <2>2, <2>4, <4>1, PushedHolds
      <4>3. Waits(lanes, c, d, l)
        BY <1>1, <3>0, <3>2, <4>1, <4>2 DEF Waits
      <4>4. LanePc(d, l, Len(k)) = LanePc(c, l, Len(k))
        BY <1>1, <4>3, WaitingLane
      <4> QED BY <2>8, <4>4
    <3> QED BY <3>1, <3>2
  <2>9. Follows(k, lanes, c, d)
    BY <2>8 DEF Follows
  <2>10. BackStays(k, lanes, c, d)
    <3>1. CASE Synchronized(k)
      <4>1. Region(k, c.pc) # NoPc
        BY <1>1, <3>1 DEF Synchronized, OpAt
      <4>2. c.stack # <<>>
        <5>1. c.stack = <<>> => OpenAbove(k, c.stack, 0)
          BY DEF OpenAbove
        <5> QED BY <1>1, <4>1, <5>1 DEF StackOK, Layered
      <4>3. Region(k, e.target) # NoPc
        BY <1>3, <2>5, <4>1
      <4> QED BY <1>1, <2>2, <2>4, <4>2, <4>3, PushedBack
    <3>2. CASE ~Synchronized(k)
      BY <3>2 DEF BackStays
    <3> QED BY <3>1, <3>2
  <2> QED BY <2>7, <2>9, <2>10 DEF d, Obeys
<1> QED BY <1>5, <1>6, <1>7

\* SSY: all active lanes wait for their token and go on in its region.
LEMMA TokenPushedFollows ==
  ASSUME NEW k, NEW lanes, NEW c, Runs(k, lanes, c), OpAt(k, c.pc) = "SSY"
  PROVE  Obeys(k, lanes, c, TokenPushed(c, ImmAt(k, c.pc)))
<1> DEFINE imm    == ImmAt(k, c.pc)
           target == Wrap(c.pc + imm)
           e == [mask |-> c.mask, target |-> target, reconv |-> c.reconv]
           b == [Pushed(c, e) EXCEPT !.reconv = target]
           d == TokenPushed(c, imm)
<1>1. /\ Len(k) \in Nat /\ c.pc \in 0..Len(k)-1 /\ c.pc \in Nat /\ c.pc < Len(k)
      /\ Wrap(c.pc + 1) = c.pc + 1 /\ c \in Context(lanes) /\ imm \in Int
      /\ c.stack \in Seq(Entry(lanes)) /\ StackOK(k, c)
      /\ k \in Seq(Instruction) /\ WellNested(k)
  BY RunsTypes DEF Runs
<1>2. NestedAt(k, c.pc)
  BY <1>1, NestedInstruction
<1>3. /\ target < Len(k) /\ OpAt(k, target) = "SYNC"
      /\ Region(k, c.pc + 1) = target /\ Region(k, target + 1) = Region(k, c.pc)
  BY <1>2 DEF NestedAt
<1>4. e \in Entry(lanes) /\ target \in PC
  <2>1. target \in PC
    BY <1>1, SumType
  <2> QED BY <1>1, <2>1 DEF Entry, Context
<1>5. /\ b \in Context(lanes) /\ b.pc = c.pc /\ b.mask = c.mask
      /\ b.stack = Append(c.stack, e)
  <2> DEFINE f == Pushed(c, e)
  <2>1. /\ f \in Context(lanes) /\ f.stack = Append(c.stack, e) /\ f.mask = c.mask
        /\ f.pc = c.pc
    BY <1>1, <1>4, PushedType, PushedFields
  <2> HIDE DEF f, target
  <2>2. /\ [f EXCEPT !.reconv = target] \in Context(lanes)
        /\ [f EXCEPT !.reconv = target].mask = f.mask
        /\ [f EXCEPT !.reconv = target].pc = f.pc
        /\ [f EXCEPT !.reconv = target].stack = f.stack
    BY <1>4, <2>1 DEF Context
  <2> QED BY <2>1, <2>2 DEF f
<1>6. d = Shadowed(b, b.mask, Wrap(b.pc + 1))
  BY DEF TokenPushed, Advanced
<1> HIDE DEF b
<1>7. d.pc = c.pc + 1 /\ d.mask = c.mask /\ d.stack = Append(c.stack, e)
  BY <1>1, <1>5, <1>6, ShadowedFields
<1>8. e.target = target /\ e.mask = c.mask /\ IsToken(k, e)
  BY <1>3 DEF IsToken, OpAt
<1>9. Region(k, target) = target
  <2>1. target \in 0..Len(k)-1
    BY <1>1, <1>3, <1>4, SizeTAssumption DEF PC
  <2> QED BY <1>1, <1>3, <2>1, NestedInstruction DEF NestedAt
<1>10. \A l \in c.mask : LaneNext(k, c, l, c.pc) = Clipped(c.pc + 1, Len(k))
  BY <1>1 DEF LaneNext, Clipped, OpAt
<1> HIDE DEF d, e, target
<1>11. StackOK(k, d)
  <2>1. Layered(k, d.stack, d.pc)
    BY <1>1, <1>3, <1>4, <1>7, <1>8, <1>9, TokenLayers DEF StackOK
  <2>2. Splits(k, e, c.mask)
    BY <1>8 DEF Splits
  <2>3. Parted(k, d.stack, d.mask)
    BY <1>1, <1>4, <1>7, <1>8, <2>2, PushedParts DEF StackOK
  <2>4. \A i \in 1..Len(d.stack) : d.stack[i].target < Len(k)
    BY <1>1, <1>3, <1>4, <1>7, <1>8, StackPushed DEF StackOK
  <2> QED BY <2>1, <2>3, <2>4 DEF StackOK
<1>12. ASSUME NEW l \in lanes, LanePc(d, l, Len(k)) # LanePc(c, l, Len(k))
      PROVE  /\ LanePc(c, l, Len(k)) < Len(k)
             /\ LanePc(d, l, Len(k)) = LaneNext(k, c, l, LanePc(c, l, Len(k)))
  <2>0. d.stack \in Seq(Entry(lanes))
    BY <1>1, <1>4, <1>7, StackPushed
  <2>1. CASE l \in c.mask
    <3>1. LanePc(c, l, Len(k)) = c.pc
      BY <1>1, <2>1, ActiveLane DEF Clipped
    <3>2. LanePc(d, l, Len(k)) = Clipped(c.pc + 1, Len(k))
      BY <1>7, <2>1, ActiveLane
    <3> QED BY <1>1, <1>10, <2>1, <3>1, <3>2
  <2>2. CASE l \notin c.mask
    <3>1. l \notin e.mask /\ l \notin d.mask
      BY <1>7, <1>8, <2>2
    <3>2. SameHolder(c.stack, d.stack, l)
      BY <1>1, <1>4, <1>7, <3>1, PushedHolds
    <3>3. Waits(lanes, c, d, l)
      BY <1>1, <2>0, <2>2, <3>1, <3>2 DEF Waits
    <3>4. LanePc(d, l, Len(k)) = LanePc(c, l, Len(k))
      BY <1>1, <3>3, WaitingLane
    <3> QED BY <1>12, <3>4
  <2> QED BY <2>1, <2>2
<1>13. Follows(k, lanes, c, d)
  BY <1>12 DEF Follows
<1>14. BackStays(k, lanes, c, d)
  <2>1. Region(k, e.target) # NoPc
    <3>1. target \in Nat
      BY <1>4, SizeTAssumption DEF PC
    <3> QED BY <1>1, <1>8, <3>1, TokenRegion
  <2> QED BY <1>1, <1>4, <1>7, <1>8, <2>1, PushedBack
<1> QED BY <1>11, <1>13, <1>14 DEF d, Obeys

\* The topmost entry that holds a running lane is the token of its region.
LEMMA RunningHeld ==
  ASSUME NEW k, NEW s, NEW mask, NEW l \in mask, NEW i, Parted(k, s, mask), Holds(s, l, i)
  PROVE  IsToken(k, s[i]) /\ OpenAbove(k, s, i)
<1>1. \A j \in 1..Len(s) : IF IsToken(k, s[j]) THEN l \in s[j].mask ELSE l \notin s[j].mask
  BY DEF Parted, Splits
<1> QED BY <1>1 DEF Holds, OpenAbove

LEMMA RunningFree ==
  ASSUME NEW k, NEW s, NEW mask, NEW l \in mask, Parted(k, s, mask), NoneHolds(s, l)
  PROVE  OpenAbove(k, s, 0)
<1>1. \A j \in 1..Len(s) : IF IsToken(k, s[j]) THEN l \in s[j].mask ELSE l \notin s[j].mask
  BY DEF Parted, Splits
<1> QED BY <1>1 DEF NoneHolds, OpenAbove

\* The top entry of a stack is in the region of the running path.
LEMMA TopRegion ==
  ASSUME NEW S, NEW k, NEW c, c.stack \in Seq(S), c.stack # <<>>, StackOK(k, c)
  PROVE  Region(k, Top(c).target) = Region(k, c.pc) /\ Top(c).target < Len(k)
<1> DEFINE n == Len(c.stack)
<1>1. n \in 1..Len(c.stack)
  OBVIOUS
<1>2. OpenAbove(k, c.stack, n)
  BY <1>1 DEF OpenAbove
<1> QED BY <1>1, <1>2 DEF StackOK, Layered, Top

\* SYNC: it never meets an empty stack, and knows its token.
LEMMA SyncKnowsToken ==
  ASSUME NEW k, NEW lanes, NEW c, Runs(k, lanes, c), OpAt(k, c.pc) = "SYNC"
  PROVE  /\ c.stack # <<>> /\ Region(k, c.pc) = c.pc /\ c.pc # NoPc
         /\ Top(c) \in Entry(lanes) /\ Top(c).target \in Nat /\ Top(c).target < Len(k)
         /\ Region(k, Top(c).target) = c.pc
         /\ IsToken(k, Top(c)) <=> Top(c).target = c.pc
<1>1. /\ Len(k) \in Nat /\ c.pc \in 0..Len(k)-1 /\ c.pc \in Nat /\ c.pc < Len(k)
      /\ c \in Context(lanes) /\ c.stack \in Seq(Entry(lanes)) /\ StackOK(k, c)
      /\ k \in Seq(Instruction) /\ WellNested(k)
  BY RunsTypes DEF Runs
<1>2. Region(k, c.pc) = c.pc /\ c.pc # NoPc
  BY <1>1, NestedInstruction DEF NestedAt
<1>3. c.stack # <<>>
  <2>1. SUFFICES ASSUME c.stack = <<>> PROVE FALSE
    OBVIOUS
  <2>2. OpenAbove(k, c.stack, 0)
    BY <2>1 DEF OpenAbove
  <2> QED BY <1>1, <1>2, <2>2 DEF StackOK, Layered
<1>4. Top(c) \in Entry(lanes)
  BY <1>1, <1>3, PoppedType
<1>5. Top(c).target \in Nat
  BY <1>4, SizeTAssumption DEF Entry, PC
<1>6. Region(k, Top(c).target) = c.pc /\ Top(c).target < Len(k)
  BY <1>1, <1>2, <1>3, TopRegion
<1>7. ASSUME IsToken(k, Top(c)) PROVE Top(c).target = c.pc
  BY <1>1, <1>5, <1>6, <1>7, TokenRegion
<1>8. ASSUME Top(c).target = c.pc PROVE IsToken(k, Top(c))
  BY <1>1, <1>8 DEF IsToken, OpAt
<1> QED BY <1>2, <1>3, <1>4, <1>5, <1>6, <1>7, <1>8

\* A pop keeps the stack in shape, when the path goes on where it belongs.
LEMMA PoppedOK ==
  ASSUME NEW k, NEW lanes, NEW c \in Context(lanes), c.stack # <<>>, StackOK(k, c), NEW d,
         d.stack = SubSeq(c.stack, 1, Len(c.stack) - 1), d.mask = Top(c).mask,
         Region(k, d.pc) = IF IsToken(k, Top(c)) THEN Region(k, Top(c).target + 1)
                           ELSE Region(k, Top(c).target)
  PROVE  StackOK(k, d) /\ d.stack \in Seq(Entry(lanes))
<1>1. c.stack \in Seq(Entry(lanes))
  BY DEF Context
<1>2. Layered(k, d.stack, d.pc)
  BY <1>1, PoppedLayers DEF StackOK, Top
<1>3. Parted(k, d.stack, d.mask)
  BY <1>1, PoppedParts DEF StackOK, Top
<1>4. /\ d.stack \in Seq(Entry(lanes)) /\ Len(c.stack) \in Nat
      /\ Len(d.stack) = Len(c.stack) - 1
      /\ \A i \in 1..Len(c.stack)-1 : d.stack[i] = c.stack[i]
  BY <1>1, StackPopped
<1>5. \A i \in 1..Len(d.stack) : d.stack[i].target < Len(k)
  BY <1>4 DEF StackOK
<1> QED BY <1>2, <1>3, <1>4, <1>5 DEF StackOK

\* The lanes of the top entry wait at its target.
LEMMA TopLane ==
  ASSUME NEW S, NEW c, c.stack \in Seq(S), c.stack # <<>>, NEW size,
         NEW l \in Top(c).mask, l \notin c.mask
  PROVE  LanePc(c, l, size) = Clipped(Top(c).target, size)
<1>1. Holds(c.stack, l, Len(c.stack))
  BY DEF Holds, Top
<1> QED BY <1>1, HeldLane DEF Top

LEMMA SyncedFollows ==
  ASSUME NEW k, NEW lanes, NEW c, Runs(k, lanes, c), OpAt(k, c.pc) = "SYNC"
  PROVE  Obeys(k, lanes, c, Synced(c))
<1> DEFINE d == Synced(c)
           e == Top(c)
           n == Len(c.stack)
<1>1. /\ Len(k) \in Nat /\ c.pc \in 0..Len(k)-1 /\ c.pc \in Nat /\ c.pc < Len(k)
      /\ Wrap(c.pc + 1) = c.pc + 1 /\ c \in Context(lanes)
      /\ c.stack \in Seq(Entry(lanes)) /\ StackOK(k, c)
      /\ k \in Seq(Instruction) /\ WellNested(k)
  BY RunsTypes DEF Runs
<1>2. /\ c.stack # <<>> /\ Region(k, c.pc) = c.pc /\ c.pc # NoPc
      /\ e \in Entry(lanes) /\ e.target \in Nat /\ e.target < Len(k)
      /\ Region(k, e.target) = c.pc /\ (IsToken(k, e) <=> e.target = c.pc)
  BY SyncKnowsToken
<1>3. /\ d.mask = e.mask /\ d.stack = SubSeq(c.stack, 1, n - 1)
      /\ d.pc = IF e.target = c.pc THEN c.pc + 1 ELSE e.target
  <2>1. Popped(c) \in Context(lanes)
    BY <1>1, <1>2, PoppedType
  <2> QED BY <1>1, <2>1, ShadowedFields, PoppedFields DEF Synced
<1>4. \A l \in lanes : LaneNext(k, c, l, c.pc) = Clipped(c.pc + 1, Len(k))
  BY <1>1 DEF LaneNext, Clipped, OpAt
<1> HIDE DEF d
<1>5. StackOK(k, d) /\ d.stack \in Seq(Entry(lanes))
  <2>1. Region(k, d.pc) = IF IsToken(k, e) THEN Region(k, e.target + 1) ELSE Region(k, e.target)
    BY <1>2, <1>3
  <2> QED BY <1>1, <1>2, <1>3, <2>1, PoppedOK
<1>6. e = c.stack[n] /\ n \in 1..n
  BY <1>1, <1>2 DEF Top
<1>7. ASSUME NEW l \in lanes, l \notin c.mask, l \notin e.mask
      PROVE  LanePc(d, l, Len(k)) = LanePc(c, l, Len(k))
  <2>1. SameHolder(c.stack, d.stack, l)
    BY <1>1, <1>2, <1>3, <1>6, <1>7, PoppedHolds
  <2>2. Waits(lanes, c, d, l)
    BY <1>1, <1>3, <1>5, <1>7, <2>1 DEF Waits
  <2> QED BY <1>1, <2>2, WaitingLane
<1>11. BackStays(k, lanes, c, d)
  BY <1>1, <1>2, <1>3, PoppedBack
<1>8. Splits(k, e, c.mask)
  BY <1>1, <1>6 DEF StackOK, Parted
<1>9. CASE IsToken(k, e)
  <2>1. c.mask \subseteq e.mask /\ e.target = c.pc /\ d.pc = c.pc + 1
    BY <1>2, <1>3, <1>8, <1>9 DEF Splits
  <2>2. ASSUME NEW l \in lanes, l \in e.mask
        PROVE  /\ LanePc(c, l, Len(k)) = c.pc
               /\ LanePc(d, l, Len(k)) = Clipped(c.pc + 1, Len(k))
    <3>1. LanePc(d, l, Len(k)) = Clipped(c.pc + 1, Len(k))
      BY <1>3, <2>1, <2>2, ActiveLane
    <3>2. CASE l \in c.mask
      BY <1>1, <3>1, <3>2, ActiveLane DEF Clipped
    <3>3. CASE l \notin c.mask
      <4>1. LanePc(c, l, Len(k)) = Clipped(e.target, Len(k))
        BY <1>1, <1>2, <2>2, <3>3, TopLane
      <4> QED BY <1>1, <2>1, <3>1, <4>1 DEF Clipped
    <3> QED BY <3>2, <3>3
  <2>3. \A l \in lanes : l \notin e.mask => LanePc(d, l, Len(k)) = LanePc(c, l, Len(k))
    BY <1>7, <2>1
  <2>4. Follows(k, lanes, c, d)
    BY <1>1, <1>4, <2>2, <2>3 DEF Follows
  <2> QED BY <1>5, <1>11, <2>4 DEF d, Obeys
<1>10. CASE ~IsToken(k, e)
  <2>1. c.mask \cap e.mask = {} /\ e.target # c.pc /\ d.pc = e.target
    BY <1>2, <1>3, <1>8, <1>10 DEF Splits
  <2>2. ASSUME NEW l \in lanes, l \in e.mask
        PROVE  LanePc(d, l, Len(k)) = LanePc(c, l, Len(k))
    <3>1. LanePc(d, l, Len(k)) = Clipped(e.target, Len(k))
      BY <1>3, <2>1, <2>2, ActiveLane
    <3>2. l \notin c.mask
      BY <2>1, <2>2
    <3>3. LanePc(c, l, Len(k)) = Clipped(e.target, Len(k))
      BY <1>1, <1>2, <2>2, <3>2, TopLane
    <3> QED BY <3>1, <3>3
  <2>3. ASSUME NEW l \in lanes, l \in c.mask
        PROVE  LanePc(d, l, Len(k)) = LanePc(c, l, Len(k))
    <3>1. LanePc(c, l, Len(k)) = c.pc
      BY <1>1, <2>3, ActiveLane DEF Clipped
    <3>2. l \notin e.mask /\ l \notin d.mask /\ Parted(k, c.stack, c.mask)
      BY <1>1, <1>3, <2>1, <2>3 DEF StackOK
    <3>3. ~NoneHolds(c.stack, l)
      <4>1. SUFFICES ASSUME NoneHolds(c.stack, l) PROVE FALSE
        OBVIOUS
      <4>2. OpenAbove(k, c.stack, 0)
        BY <2>3, <3>2, <4>1, RunningFree
      <4> QED BY <1>1, <1>2, <4>2 DEF StackOK, Layered
    <3>4. PICK i : Holds(c.stack, l, i)
      BY <1>1, <3>3, LaneHeldOrNot
    <3>5. IsToken(k, c.stack[i]) /\ OpenAbove(k, c.stack, i)
      BY <2>3, <3>2, <3>4, RunningHeld
    <3>6. i \in 1..n /\ c.stack[i].target \in Nat
      <4>1. i \in 1..n
        BY <3>4 DEF Holds
      <4>2. c.stack[i] \in Entry(lanes)
        BY <1>1, <4>1
      <4> QED BY <4>1, <4>2, SizeTAssumption DEF Entry, PC
    <3>7. Region(k, c.stack[i].target) = c.pc
      BY <1>1, <1>2, <3>5, <3>6 DEF StackOK, Layered
    <3>8. c.stack[i].target = c.pc
      BY <1>1, <3>5, <3>6, <3>7, TokenRegion
    <3>9. SameHolder(c.stack, d.stack, l)
      BY <1>1, <1>2, <1>3, <1>6, <3>2, PoppedHolds
    <3>10. Holds(d.stack, l, i) /\ d.stack[i] = c.stack[i]
      BY <3>4, <3>9 DEF SameHolder
    <3>11. LanePc(d, l, Len(k)) = Clipped(d.stack[i].target, Len(k))
      BY <1>5, <3>2, <3>10, HeldLane
    <3> QED BY <1>1, <3>1, <3>8, <3>10, <3>11 DEF Clipped
  <2>4. Follows(k, lanes, c, d)
    BY <1>7, <2>2, <2>3 DEF Follows
  <2> QED BY <1>5, <1>11, <2>4 DEF d, Obeys
<1> QED BY <1>9, <1>10

\* The end of a path: the warp goes on with a path that is not at the end, or
\* has none left, and no lane moves.
LEMMA PathEndedFollows ==
  ASSUME NEW k \in Seq(Instruction), WellNested(k), NEW lanes, NEW c \in Context(lanes),
         StackOK(k, c)
  PROVE  /\ StackOK(k, PathEnded(c, Len(k)))
         /\ PathEnded(c, Len(k)).pc >= Len(k) => PathEnded(c, Len(k)).stack = <<>>
         /\ \A l \in lanes : LanePc(PathEnded(c, Len(k)), l, Len(k)) = LanePc(c, l, Len(k))
         /\ BackStays(k, lanes, c, PathEnded(c, Len(k)))
<1> DEFINE d == PathEnded(c, Len(k))
           e == Top(c)
           n == Len(c.stack)
<1>1. Len(k) \in Nat /\ c.pc \in Nat /\ c.stack \in Seq(Entry(lanes))
  BY SizeTAssumption DEF Context, PC
<1>2. CASE ~(c.pc >= Len(k) /\ c.stack # <<>>)
  <2>1. d = c
    BY <1>2 DEF PathEnded
  <2> HIDE DEF d
  <2>2. d.pc >= Len(k) => d.stack = <<>>
    BY <1>2, <2>1
  <2> QED BY <2>1, <2>2 DEF d, BackStays
<1>3. CASE c.pc >= Len(k) /\ c.stack # <<>>
  <2>1. Region(k, c.pc) = NoPc
    BY <1>3 DEF Region
  <2>2. /\ e \in Entry(lanes) /\ e.target \in Nat /\ e.target < Len(k)
        /\ Region(k, e.target) = NoPc
    <3>1. e \in Entry(lanes)
      BY <1>3, PoppedType
    <3>2. e.target \in Nat
      BY <3>1, SizeTAssumption DEF Entry, PC
    <3> QED BY <1>1, <1>3, <2>1, <3>1, <3>2, TopRegion
  <2>3. ~IsToken(k, e)
    BY <2>2, TokenRegion
  <2>4. d.mask = e.mask /\ d.stack = SubSeq(c.stack, 1, n - 1) /\ d.pc = e.target
    <3>1. Popped(c) \in Context(lanes)
      BY <1>3, PoppedType
    <3> QED BY <1>3, <3>1, ShadowedFields, PoppedFields DEF PathEnded
  <2> HIDE DEF d
  <2>5. StackOK(k, d) /\ d.stack \in Seq(Entry(lanes))
    BY <1>3, <2>3, <2>4, PoppedOK
  <2>6. e = c.stack[n] /\ n \in 1..n
    BY <1>1, <1>3 DEF Top
  <2>7. c.mask \cap e.mask = {}
    BY <2>3, <2>6 DEF StackOK, Parted, Splits
  <2>8. ASSUME NEW l \in lanes PROVE LanePc(d, l, Len(k)) = LanePc(c, l, Len(k))
    <3>1. CASE l \in c.mask
      <4>1. LanePc(c, l, Len(k)) = Len(k)
        BY <1>1, <1>3, <3>1, ActiveLane DEF Clipped
      <4>2. l \notin e.mask /\ l \notin d.mask /\ Parted(k, c.stack, c.mask)
        BY <2>4, <2>7, <3>1 DEF StackOK
      <4>3. ASSUME NEW i, Holds(c.stack, l, i) PROVE FALSE
        <5>1. IsToken(k, c.stack[i]) /\ OpenAbove(k, c.stack, i)
          BY <3>1, <4>2, <4>3, RunningHeld
        <5>2. i \in 1..n /\ c.stack[i].target \in Nat
          <6>1. i \in 1..n
            BY <4>3 DEF Holds
          <6>2. c.stack[i] \in Entry(lanes)
            BY <1>1, <6>1
          <6> QED BY <6>1, <6>2, SizeTAssumption DEF Entry, PC
        <5>3. Region(k, c.stack[i].target) = NoPc
          BY <2>1, <5>1, <5>2 DEF StackOK, Layered
        <5> QED BY <5>1, <5>2, <5>3, TokenRegion
      <4>4. NoneHolds(c.stack, l)
        BY <1>1, <4>3, LaneHeldOrNot
      <4>5. SameHolder(c.stack, d.stack, l)
        BY <1>1, <1>3, <2>4, <2>6, <4>2, PoppedHolds
      <4>6. NoneHolds(d.stack, l)
        BY <4>4, <4>5 DEF SameHolder
      <4>7. LanePc(d, l, Len(k)) = Len(k)
        BY <1>1, <2>5, <4>2, <4>6, FreeLane
      <4> QED BY <4>1, <4>7
    <3>2. CASE l \in e.mask
      <4>1. LanePc(d, l, Len(k)) = Clipped(e.target, Len(k))
        BY <2>4, <3>2, ActiveLane
      <4>2. l \notin c.mask
        BY <2>7, <3>2
      <4>3. LanePc(c, l, Len(k)) = Clipped(e.target, Len(k))
        BY <1>1, <1>3, <3>2, <4>2, TopLane
      <4> QED BY <4>1, <4>3
    <3>3. CASE l \notin c.mask /\ l \notin e.mask
      <4>1. SameHolder(c.stack, d.stack, l)
        BY <1>1, <1>3, <2>4, <2>6, <3>3, PoppedHolds
      <4>2. Waits(lanes, c, d, l)
        BY <1>1, <2>4, <2>5, <3>3, <4>1 DEF Waits
      <4> QED BY <1>1, <4>2, WaitingLane
    <3> QED BY <3>1, <3>2, <3>3
  <2>9. ~(d.pc >= Len(k))
    BY <1>1, <2>2, <2>4
  <2>10. BackStays(k, lanes, c, d)
    BY <1>1, <1>3, <2>4, PoppedBack
  <2> QED BY <2>5, <2>8, <2>9, <2>10 DEF d
<1> QED BY <1>2, <1>3

\* Outside of all regions, all lanes are active: a BARRIER finds them together.
LEMMA BarrierTogether ==
  ASSUME NEW k, NEW lanes, NEW c, Runs(k, lanes, c), OpAt(k, c.pc) = "BARRIER",
         Synchronized(k), AllBack(k, lanes, c)
  PROVE  c.mask = lanes
<1>1. /\ c.pc \in 0..Len(k)-1 /\ c \in Context(lanes) /\ c.stack \in Seq(Entry(lanes))
      /\ StackOK(k, c)
  BY RunsTypes DEF Runs
<1>2. Region(k, c.pc) = NoPc
  BY <1>1 DEF Synchronized, OpAt
<1>3. c.stack = <<>>
  <2>1. SUFFICES ASSUME c.stack # <<>> PROVE FALSE
    OBVIOUS
  <2>2. Region(k, Top(c).target) = NoPc
    BY <1>1, <1>2, <2>1, TopRegion
  <2>3. Len(c.stack) \in 1..Len(c.stack)
    BY <1>1, <2>1
  <2> QED BY <2>2, <2>3 DEF AllBack, Top
<1> QED BY <1>3 DEF AllBack
=============================================================================
