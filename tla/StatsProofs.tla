------------------------------ MODULE StatsProofs ------------------------------
(***************************************************************************)
(* Theorems about reading statistics, for any calendar, probes, latencies   *)
(* and edges, and however many partitions a retention pass leaves behind.   *)
(***************************************************************************)
EXTENDS Stats, FiniteSetTheorems, WellFoundedInduction, TLAPS

--------------------------------------------------------------------------------
(* Numbers: alignment, and the least of a set.                              *)

LEMMA Calendar ==
  /\ HOUR \in Nat /\ DAY \in Nat /\ MONTH \in Nat /\ LAST \in Nat
  /\ HOUR > 0 /\ DAY > 0 /\ MONTH > 0 /\ LAST > 0
BY CalendarAssumption

LEMMA DivMod ==
  ASSUME NEW t \in Int, NEW w \in Nat \ {0}
  PROVE  t % w \in 0 .. w - 1 /\ t \div w \in Int /\ t = (t \div w) * w + (t % w)
OBVIOUS

LEMMA MultipleAligned ==
  ASSUME NEW k \in Int, NEW w \in Nat \ {0}
  PROVE  (k * w) % w = 0
OBVIOUS

\* An aligned time is a multiple.
LEMMA AlignedMultiple ==
  ASSUME NEW t \in Int, NEW w \in Nat \ {0}, t % w = 0
  PROVE  t \div w \in Int /\ t = (t \div w) * w
BY DivMod

LEMMA UnitApart ==
  ASSUME NEW i \in Int, NEW j \in Int, NEW w \in Nat \ {0}, i * w < j * w
  PROVE  i * w + w <= j * w
OBVIOUS

\* Two aligned times are a unit apart.
LEMMA AlignedApart ==
  ASSUME NEW a \in Int, NEW b \in Int, NEW w \in Nat \ {0}, a % w = 0, b % w = 0, a < b
  PROVE  a + w <= b
<1>1. PICK i \in Int : a = i * w
  BY AlignedMultiple
<1>2. PICK j \in Int : b = j * w
  BY AlignedMultiple
<1> QED BY <1>1, <1>2, UnitApart

LEMMA Regroup ==
  ASSUME NEW k \in Int, NEW n \in Int, NEW w \in Nat \ {0}
  PROVE  k * (n * w) = (k * n) * w /\ (k * n) * w + n * w = (k * n + n) * w /\ k * n \in Int
OBVIOUS

\* What is aligned to a multiple of a unit is aligned to the unit, and so is its end.
LEMMA AlignedToPart ==
  ASSUME NEW t \in Int, NEW w \in Nat \ {0}, NEW W \in Nat \ {0}, W % w = 0, t % W = 0
  PROVE  t % w = 0 /\ (t + W) % w = 0
<1>1. PICK n \in Int : W = n * w
  BY AlignedMultiple
<1>2. PICK k \in Int : t = k * W
  BY AlignedMultiple
<1>3. t = (k * n) * w /\ k * n \in Int
  BY <1>1, <1>2, Regroup
<1>4. t + W = (k * n + n) * w
  BY <1>1, <1>3, Regroup
<1>5. k * n + n \in Int
  BY <1>3
<1> QED BY <1>3, <1>4, <1>5, MultipleAligned

\* A set of numbers has a least one: an interval is a strict subset of another exactly if it
\* ends before it.
LEMMA LeastOfNat ==
  ASSUME NEW S \in SUBSET Nat, S # {}
  PROVE  \E x \in S : \A y \in S : x <= y
<1> DEFINE Below(n) == 1 .. n
           T == {Below(n) : n \in S}
<1>1. \A n \in S : Below(n) \in FiniteSubsetsOf(Nat)
  BY FS_Interval DEF FiniteSubsetsOf
<1>2. T \subseteq FiniteSubsetsOf(Nat) /\ T # {}
  BY <1>1
<1>3. PICK M \in T : \A N \in T : <<N, M>> \notin StrictSubsetOrdering(Nat)
  BY <1>2, WFMin, FS_StrictSubsetOrderingWellFounded
<1>4. PICK m \in S : M = Below(m)
  OBVIOUS
<1>5. ASSUME NEW n \in S PROVE m <= n
  <2>1. <<Below(n), Below(m)>> \notin StrictSubsetOrdering(Nat)
    BY <1>3, <1>4
  <2>2. ~ (Below(n) \subseteq Below(m) /\ Below(n) # Below(m))
    BY <2>1 DEF StrictSubsetOrdering
  <2>3. n < m => Below(n) \subseteq Below(m) /\ m \in Below(m) /\ m \notin Below(n)
    OBVIOUS
  <2> QED BY <2>2, <2>3
<1> QED BY <1>5

LEMMA MinOfNat ==
  ASSUME NEW S \in SUBSET Nat, S # {}
  PROVE  Min(S) \in S /\ \A y \in S : Min(S) <= y
<1>1. \E x \in S : \A y \in S : x <= y
  BY LeastOfNat
<1> QED BY <1>1 DEF Min

--------------------------------------------------------------------------------
(* What a plan is: the coarsest aligned buckets inside the window.          *)

Grains == {"m1", "h1", "d1"}
Rank == [m1 |-> 1, h1 |-> 2, d1 |-> 3]
Bucket == Grains \X (0 .. LAST)

Inside(b, from, to) ==
  b[2] % Width[b[1]] = 0 /\ from <= b[2] /\ b[2] + Width[b[1]] <= to

Coarsest(from, to) ==
  {b \in Bucket : /\ Inside(b, from, to)
                  /\ \A c \in Bucket : Inside(c, from, to) /\ b[2] \in Minutes(c) =>
                                         Rank[c[1]] <= Rank[b[1]]}

LEMMA Widths ==
  /\ Width["m1"] = 1 /\ Width["h1"] = HOUR /\ Width["d1"] = DAY
  /\ \A g \in Grains : Width[g] \in Nat \ {0} /\ Rank[g] \in {1, 2, 3}
  /\ \A g, h \in Grains : Rank[g] <= Rank[h] => Width[h] % Width[g] = 0
<1>1. DAY % HOUR = 0
  BY CalendarAssumption
<1>2. \A w \in Nat \ {0} : w % 1 = 0 /\ w % w = 0
  <2> SUFFICES ASSUME NEW w \in Nat \ {0} PROVE w % 1 = 0 /\ w % w = 0
    OBVIOUS
  <2>1. (w * 1) % 1 = 0 /\ (1 * w) % w = 0
    BY MultipleAligned
  <2> QED BY <2>1
<1> QED BY <1>1, <1>2, Calendar DEF Width, Grains, Rank

LEMMA BucketType ==
  ASSUME NEW b \in Bucket
  PROVE  b[1] \in Grains /\ b[2] \in Nat /\ b[2] <= LAST /\ b = <<b[1], b[2]>>
BY Calendar DEF Bucket

\* A finer bucket that begins inside a coarser one ends inside it.
LEMMA FinerEndsInside ==
  ASSUME NEW b \in Bucket, NEW c \in Bucket, Rank[b[1]] <= Rank[c[1]],
         b[2] % Width[b[1]] = 0, c[2] % Width[c[1]] = 0, b[2] < c[2] + Width[c[1]]
  PROVE  b[2] + Width[b[1]] <= c[2] + Width[c[1]]
<1> DEFINE w == Width[b[1]]
           W == Width[c[1]]
<1>1. w \in Nat \ {0} /\ W \in Nat \ {0} /\ W % w = 0 /\ b[2] \in Int /\ c[2] \in Int
  BY Widths, BucketType
<1>2. (c[2] + W) % w = 0 /\ c[2] + W \in Int
  BY <1>1, AlignedToPart
<1> QED BY <1>1, <1>2, AlignedApart

\* One that begins before a coarser one begins ends before it.
LEMMA FinerEndsBefore ==
  ASSUME NEW b \in Bucket, NEW c \in Bucket, Rank[b[1]] <= Rank[c[1]],
         b[2] % Width[b[1]] = 0, c[2] % Width[c[1]] = 0, b[2] < c[2]
  PROVE  b[2] + Width[b[1]] <= c[2]
<1> DEFINE w == Width[b[1]]
           W == Width[c[1]]
<1>1. w \in Nat \ {0} /\ W \in Nat \ {0} /\ W % w = 0 /\ b[2] \in Int /\ c[2] \in Int
  BY Widths, BucketType
<1>2. c[2] % w = 0
  BY <1>1, AlignedToPart
<1> QED BY <1>1, <1>2, AlignedApart

\* A bucket of which a minute lies in a coarser one lies in it whole.
LEMMA Nested ==
  ASSUME NEW b \in Bucket, NEW c \in Bucket, Rank[b[1]] <= Rank[c[1]],
         b[2] % Width[b[1]] = 0, c[2] % Width[c[1]] = 0,
         NEW p, p \in Minutes(b), p \in Minutes(c)
  PROVE  c[2] <= b[2] /\ b[2] + Width[b[1]] <= c[2] + Width[c[1]]
<1>1. /\ Width[b[1]] \in Nat \ {0} /\ Width[c[1]] \in Nat \ {0}
      /\ b[2] \in Nat /\ c[2] \in Nat
  BY Widths, BucketType
<1>2. p \in Int /\ b[2] <= p /\ p < b[2] + Width[b[1]] /\ c[2] <= p /\ p < c[2] + Width[c[1]]
  BY <1>1 DEF Minutes
<1>3. ~(b[2] < c[2])
  BY <1>1, <1>2, FinerEndsBefore
<1>4. b[2] < c[2] + Width[c[1]]
  BY <1>1, <1>2
<1> QED BY <1>1, <1>3, <1>4, FinerEndsInside


LEMMA GrainAligned ==
  ASSUME NEW t \in Nat, NEW to \in 0 .. LAST, t < to
  PROVE  /\ Grain(t, to) \in Grains
         /\ t % Width[Grain(t, to)] = 0 /\ t + Width[Grain(t, to)] <= to
         /\ \A g \in Grains : t % Width[g] = 0 /\ t + Width[g] <= to => Rank[g] <= Rank[Grain(t, to)]
<1>1. (t * 1) % 1 = 0
  BY MultipleAligned
<1> QED BY <1>1, Widths, Calendar DEF Grain, Fits, Grains, Rank

\* Where the loop stands no bucket of the window is cut in two.
Uncut(t, from, to) ==
  \A b \in Bucket : Inside(b, from, to) /\ b[2] < t => b[2] + Width[b[1]] <= t

LEMMA StepUncut ==
  ASSUME NEW from \in 0 .. LAST, NEW to \in 0 .. LAST, NEW t \in from .. to, t < to, Uncut(t, from, to)
  PROVE  Uncut(t + Width[Grain(t, to)], from, to)
<1> DEFINE g == Grain(t, to)
           a == <<g, t>>
<1>1. t \in Nat /\ t <= LAST /\ g \in Grains /\ a \in Bucket /\ a[1] = g /\ a[2] = t
  BY GrainAligned, Calendar DEF Bucket
<1>2. t % Width[g] = 0 /\ t + Width[g] <= to /\ Width[g] \in Nat \ {0}
  BY <1>1, GrainAligned, Widths
<1>3. \A h \in Grains : t % Width[h] = 0 /\ t + Width[h] <= to => Rank[h] <= Rank[g]
  BY <1>1, GrainAligned
<1> HIDE DEF g
<1> SUFFICES ASSUME NEW b \in Bucket, Inside(b, from, to), b[2] < t + Width[g]
             PROVE  b[2] + Width[b[1]] <= t + Width[g]
  BY DEF Uncut, g
<1>4. /\ b[1] \in Grains /\ b[2] \in Nat /\ Width[b[1]] \in Nat \ {0}
      /\ b[2] % Width[b[1]] = 0 /\ b[2] + Width[b[1]] <= to
  BY BucketType, Widths DEF Inside
<1>5. CASE b[2] < t
  <2>1. b[2] + Width[b[1]] <= t
    BY <1>5 DEF Uncut
  <2> QED BY <1>1, <1>2, <1>4, <2>1
<1>6. CASE Rank[b[1]] <= Rank[g]
  BY <1>1, <1>2, <1>4, <1>6, FinerEndsInside
<1>7. CASE t <= b[2] /\ ~(Rank[b[1]] <= Rank[g])
  <2>1. b[2] # t
    BY <1>3, <1>4, <1>7
  <2>2. Rank[g] <= Rank[b[1]] /\ t < b[2]
    BY <1>1, <1>4, <1>7, <2>1, Widths
  <2>3. t + Width[g] <= b[2]
    BY <1>1, <1>2, <1>4, <2>2, FinerEndsBefore
  <2> QED BY <1>1, <1>2, <1>4, <2>3
<1> QED BY <1>1, <1>4, <1>5, <1>6, <1>7

\* From where the loop stands, the coarsest buckets are the one it takes and those from its end on.
LEMMA StepTakesCoarsest ==
  ASSUME NEW from \in 0 .. LAST, NEW to \in 0 .. LAST, NEW t \in from .. to, t < to, Uncut(t, from, to)
  PROVE  {b \in Coarsest(from, to) : b[2] >= t}
           = {<<Grain(t, to), t>>}
               \cup {b \in Coarsest(from, to) : b[2] >= t + Width[Grain(t, to)]}
<1> DEFINE g == Grain(t, to)
           a == <<g, t>>
<1>1. t \in Nat /\ t <= LAST /\ g \in Grains /\ a \in Bucket /\ a[1] = g /\ a[2] = t
  BY GrainAligned, Calendar DEF Bucket
<1>2. t % Width[g] = 0 /\ t + Width[g] <= to /\ Width[g] \in Nat \ {0}
  BY <1>1, GrainAligned, Widths
<1>3. \A h \in Grains : t % Width[h] = 0 /\ t + Width[h] <= to => Rank[h] <= Rank[g]
  BY <1>1, GrainAligned
<1> HIDE DEF g
<1>4. a \in Coarsest(from, to)
  <2>1. Inside(a, from, to)
    BY <1>1, <1>2 DEF Inside
  <2>2. ASSUME NEW c \in Bucket, Inside(c, from, to), t \in Minutes(c) PROVE Rank[c[1]] <= Rank[g]
    <3>1. c[1] \in Grains /\ c[2] \in Nat /\ Width[c[1]] \in Nat \ {0}
      BY BucketType, Widths
    <3>2. c[2] <= t /\ t < c[2] + Width[c[1]]
      BY <1>1, <2>2, <3>1 DEF Minutes
    <3>3. c[2] = t
      BY <1>1, <2>2, <3>1, <3>2 DEF Uncut
    <3> QED BY <1>3, <2>2, <3>1, <3>3 DEF Inside
  <2> QED BY <1>1, <2>1, <2>2 DEF Coarsest
<1>5. ASSUME NEW b \in Coarsest(from, to), b[2] >= t, ~(b[2] >= t + Width[g]) PROVE b = a
  <2>1. /\ b \in Bucket /\ b[1] \in Grains /\ b[2] \in Nat /\ b = <<b[1], b[2]>>
        /\ b[2] % Width[b[1]] = 0 /\ Width[b[1]] \in Nat \ {0} /\ b[2] + Width[b[1]] <= to
    BY BucketType, Widths DEF Coarsest, Inside
  <2>2. b[2] \in Minutes(a) /\ Inside(a, from, to)
    BY <1>1, <1>2, <1>5, <2>1 DEF Minutes, Inside
  <2>3. Rank[g] <= Rank[b[1]]
    BY <1>1, <2>2 DEF Coarsest
  <2>4. ~(t < b[2])
    <3> SUFFICES ASSUME t < b[2] PROVE FALSE
      OBVIOUS
    <3>1. t + Width[g] <= b[2]
      BY <1>1, <1>2, <2>1, <2>3, FinerEndsBefore
    <3> QED BY <1>5, <3>1
  <2>5. b[2] = t
    BY <1>1, <1>5, <2>1, <2>4
  <2>6. Rank[b[1]] <= Rank[g]
    BY <1>3, <2>1, <2>5
  <2>7. b[1] = g
    BY <1>1, <2>1, <2>3, <2>6 DEF Grains, Rank
  <2> QED BY <2>1, <2>5, <2>7
<1>6. \A b \in Coarsest(from, to) : b[2] >= t + Width[g] => b[2] >= t
  BY <1>1, <1>2, BucketType DEF Coarsest
<1> QED BY <1>1, <1>4, <1>5, <1>6 DEF g


--------------------------------------------------------------------------------
(* The loop. It is a recursive function, which exists: what it takes from t *)
(* on are the steps that every set closed under the step has.               *)

Onward(t, to) == t + Width[Grain(t, to)]
Closed(S, to) == \A y \in S : y < to => Onward(y, to) \in S
Steps(t, from, to) ==
  {x \in from .. LAST + DAY : x < to /\ \A S \in SUBSET (from .. LAST + DAY) :
                                          t \in S /\ Closed(S, to) => x \in S}
Tiles(from, to) ==
  [t \in from .. LAST + DAY |-> {<<Grain(x, to), x>> : x \in Steps(t, from, to)}]

LEMMA OnwardInside ==
  ASSUME NEW from \in 0 .. LAST, NEW to \in 0 .. LAST, NEW t \in from .. LAST + DAY, t < to
  PROVE  Onward(t, to) \in from .. LAST + DAY /\ t < Onward(t, to) /\ Onward(t, to) <= to
<1>1. t \in Nat
  BY Calendar
<1>2. /\ Grain(t, to) \in Grains /\ t + Width[Grain(t, to)] <= to
      /\ Width[Grain(t, to)] \in Nat \ {0}
  BY <1>1, GrainAligned, Widths
<1> QED BY <1>1, <1>2, Calendar DEF Onward

LEMMA TilesRecursive ==
  ASSUME NEW from \in 0 .. LAST, NEW to \in 0 .. LAST
  PROVE  Tiles(from, to) =
           [t \in from .. LAST + DAY |->
              IF t >= to THEN {}
              ELSE {<<Grain(t, to), t>>} \cup Tiles(from, to)[t + Width[Grain(t, to)]]]
<1> DEFINE D == from .. LAST + DAY
<1> SUFFICES ASSUME NEW t \in D
             PROVE  Tiles(from, to)[t] =
                      IF t >= to THEN {}
                      ELSE {<<Grain(t, to), t>>} \cup Tiles(from, to)[t + Width[Grain(t, to)]]
  BY DEF Tiles
<1>0. t \in Nat /\ D \subseteq Nat
  BY Calendar
<1>1. CASE t >= to
  <2>1. {t} \subseteq D /\ Closed({t}, to)
    BY <1>1, <1>0 DEF Closed
  <2>2. Steps(t, from, to) = {}
    BY <1>1, <1>0, <2>1 DEF Steps
  <2> QED BY <1>1, <2>2 DEF Tiles
<1>2. CASE t < to
  <2> DEFINE u == Onward(t, to)
  <2>1. u \in D /\ t < u
    BY <1>2, OnwardInside
  <2>2. t \in Steps(t, from, to)
    BY <1>2 DEF Steps
  <2>3. ASSUME NEW x \in Steps(u, from, to) PROVE x \in Steps(t, from, to)
    <3>1. ASSUME NEW S \in SUBSET D, t \in S, Closed(S, to) PROVE x \in S
      <4>1. u \in S
        BY <1>2, <3>1 DEF Closed
      <4> QED BY <2>3, <3>1, <4>1 DEF Steps
    <3> QED BY <2>3, <3>1 DEF Steps
  <2>4. ASSUME NEW x \in Steps(t, from, to), x # t PROVE x \in Steps(u, from, to)
    <3>1. ASSUME NEW S \in SUBSET D, u \in S, Closed(S, to) PROVE x \in S
      <4>1. S \cup {t} \in SUBSET D /\ Closed(S \cup {t}, to)
        BY <3>1 DEF Closed
      <4> QED BY <2>4, <4>1 DEF Steps
    <3> QED BY <2>4, <3>1 DEF Steps
  <2>5. Steps(t, from, to) = {t} \cup Steps(u, from, to)
    BY <2>2, <2>3, <2>4
  <2>6. Tiles(from, to)[t] = {<<Grain(x, to), x>> : x \in Steps(t, from, to)}
    BY DEF Tiles
  <2>7. Tiles(from, to)[u] = {<<Grain(x, to), x>> : x \in Steps(u, from, to)}
    BY <2>1 DEF Tiles
  <2> HIDE DEF u
  <2>8. Tiles(from, to)[t] = {<<Grain(t, to), t>>} \cup Tiles(from, to)[u]
    BY <2>5, <2>6, <2>7
  <2> QED BY <1>2, <1>0, <2>8 DEF u, Onward
<1> QED BY <1>0, <1>1, <1>2

\* tile is what the loop of planWindow takes from each of its turns on.
IsLoop(tile, from, to) ==
  \A t \in from .. LAST + DAY :
    tile[t] = IF t >= to THEN {} ELSE {<<Grain(t, to), t>>} \cup tile[t + Width[Grain(t, to)]]

\* Whatever satisfies the recursion takes the coarsest buckets from t on.
LEMMA LoopTakesCoarsest ==
  ASSUME NEW from \in 0 .. LAST, NEW to \in 0 .. LAST, NEW tile, IsLoop(tile, from, to),
         NEW t \in from .. to, Uncut(t, from, to)
  PROVE  tile[t] = {b \in Coarsest(from, to) : b[2] >= t}
<1> DEFINE Right(x) == tile[x] = {b \in Coarsest(from, to) : b[2] >= x}
           Wrong == {n \in Nat : \E x \in from .. to : n = to - x /\ Uncut(x, from, to) /\ ~Right(x)}
<1> SUFFICES ASSUME ~Right(t) PROVE FALSE
  OBVIOUS
<1>1. to - t \in Wrong /\ Wrong \subseteq Nat
  BY Calendar
<1>2. PICK n \in Wrong : \A m \in Wrong : n <= m
  BY <1>1, LeastOfNat
<1>3. PICK x \in from .. to : n = to - x /\ Uncut(x, from, to) /\ ~Right(x)
  BY <1>2
<1>4. x \in Nat /\ x \in from .. LAST + DAY
  BY Calendar
<1>5. CASE x >= to
  <2>1. tile[x] = {}
    BY <1>4, <1>5 DEF IsLoop
  <2>2. ASSUME NEW b \in Coarsest(from, to) PROVE ~(b[2] >= x)
    <3>1. b[2] \in Nat /\ Width[b[1]] \in Nat \ {0} /\ b[2] + Width[b[1]] <= to
      BY BucketType, Widths DEF Coarsest, Inside
    <3> QED BY <1>4, <1>5, <3>1
  <2> QED BY <1>3, <2>1, <2>2
<1>6. CASE x < to
  <2> DEFINE u == Onward(x, to)
  <2>1. u \in from .. to /\ x < u
    BY <1>4, <1>6, OnwardInside
  <2>2. Uncut(u, from, to)
    BY <1>3, <1>6, StepUncut DEF Onward
  <2>3. to - u \in Nat /\ to - u < n
    BY <1>3, <1>4, <2>1
  <2>4. Right(u)
    BY <1>2, <2>1, <2>2, <2>3
  <2>5. tile[x] = {<<Grain(x, to), x>>} \cup tile[u]
    <3>1. tile[x] = IF x >= to THEN {} ELSE {<<Grain(x, to), x>>} \cup tile[x + Width[Grain(x, to)]]
      BY <1>4 DEF IsLoop
    <3>2. ~(x >= to)
      BY <1>4, <1>6
    <3>3. u = x + Width[Grain(x, to)]
      BY DEF Onward
    <3> HIDE DEF u
    <3> QED BY <3>1, <3>2, <3>3
  <2>6. {b \in Coarsest(from, to) : b[2] >= x}
          = {<<Grain(x, to), x>>} \cup {b \in Coarsest(from, to) : b[2] >= u}
    BY <1>3, <1>6, StepTakesCoarsest DEF Onward
  <2> HIDE DEF u
  <2> QED BY <1>3, <2>4, <2>5, <2>6
<1> QED BY <1>4, <1>5, <1>6

\* A plan is the coarsest tiling.
LEMMA PlanIsCoarsest ==
  ASSUME NEW from \in 0 .. LAST, NEW to \in 0 .. LAST
  PROVE  Plan(from, to) = Coarsest(from, to)
<1> DEFINE tile == CHOOSE f : f = [t \in from .. LAST + DAY |->
                      IF t >= to THEN {} ELSE {<<Grain(t, to), t>>} \cup f[t + Width[Grain(t, to)]]]
<1>1. Plan(from, to) = tile[from]
  BY DEF Plan
<1>2. tile = [t \in from .. LAST + DAY |->
                IF t >= to THEN {} ELSE {<<Grain(t, to), t>>} \cup tile[t + Width[Grain(t, to)]]]
  <2>1. \E f : f = [t \in from .. LAST + DAY |->
                      IF t >= to THEN {} ELSE {<<Grain(t, to), t>>} \cup f[t + Width[Grain(t, to)]]]
    <3> DEFINE tiles == Tiles(from, to)
    <3>1. tiles = [t \in from .. LAST + DAY |->
                     IF t >= to THEN {} ELSE {<<Grain(t, to), t>>} \cup tiles[t + Width[Grain(t, to)]]]
      BY TilesRecursive, Zenon
    <3> HIDE DEF tiles
    <3> QED BY <3>1, Zenon
  <2> QED BY <2>1, Zenon
<1> HIDE DEF tile
<1>3. IsLoop(tile, from, to)
  BY <1>2 DEF IsLoop
<1>4. from \in Nat /\ from \in from .. LAST + DAY
  BY Calendar
<1>5. \A b \in Coarsest(from, to) :
        /\ b[2] \in Nat /\ Width[b[1]] \in Nat \ {0} /\ from <= b[2] /\ b[2] + Width[b[1]] <= to
  BY BucketType, Widths DEF Coarsest, Inside
<1>6. CASE from >= to
  <2>1. Plan(from, to) = {}
    BY <1>1, <1>3, <1>4, <1>6 DEF IsLoop
  <2>2. \A b \in Coarsest(from, to) : FALSE
    BY <1>4, <1>5, <1>6
  <2> QED BY <2>1, <2>2
<1>7. CASE from < to
  <2>1. Uncut(from, from, to)
    BY <1>4, BucketType DEF Uncut, Inside
  <2>2. from \in from .. to
    BY <1>4, <1>7
  <2>3. tile[from] = {b \in Coarsest(from, to) : b[2] >= from}
    BY <1>3, <2>1, <2>2, LoopTakesCoarsest
  <2> QED BY <1>1, <1>4, <1>5, <2>3
<1> QED BY <1>4, <1>6, <1>7


--------------------------------------------------------------------------------
(* The coarsest tiling covers each minute of the window once.               *)

LEMMA CoveredBySome ==
  ASSUME NEW from \in 0 .. LAST, NEW to \in 0 .. LAST, NEW p \in from .. to - 1
  PROVE  \E b \in Coarsest(from, to) : p \in Minutes(b)
<1> DEFINE Holders == {b \in Bucket : Inside(b, from, to) /\ p \in Minutes(b)}
           Lacks == {n \in Nat : \E b \in Holders : n = 3 - Rank[b[1]]}
<1>0. p \in Nat /\ p < LAST /\ p < to
  BY Calendar
<1>1. <<"m1", p>> \in Holders
  <2> DEFINE a == <<"m1", p>>
  <2>1. a \in Bucket /\ a[1] = "m1" /\ a[2] = p
    BY <1>0, Calendar DEF Bucket, Grains
  <2>2. (p * 1) % 1 = 0
    BY <1>0, MultipleAligned
  <2> HIDE DEF a
  <2>3. Inside(a, from, to) /\ p \in Minutes(a)
    BY <1>0, <2>1, <2>2, Widths DEF Inside, Minutes
  <2> QED BY <2>1, <2>3 DEF a
<1>2. \A b \in Holders : Rank[b[1]] \in {1, 2, 3} /\ Width[b[1]] \in Nat \ {0} /\ b[2] \in Nat
  BY BucketType, Widths
<1>3. Lacks # {}
  <2>1. 3 - Rank["m1"] = 2
    BY DEF Rank
  <2> QED BY <1>1, <2>1
<1>4. PICK n \in Lacks : \A m \in Lacks : n <= m
  BY <1>3, LeastOfNat
<1>5. PICK c \in Holders : n = 3 - Rank[c[1]]
  BY <1>4
<1>6. \A d \in Holders : Rank[d[1]] <= Rank[c[1]]
  <2> SUFFICES ASSUME NEW d \in Holders PROVE Rank[d[1]] <= Rank[c[1]]
    OBVIOUS
  <2>1. 3 - Rank[d[1]] \in Lacks
    BY <1>2
  <2>2. n <= 3 - Rank[d[1]]
    BY <1>4, <2>1
  <2> QED BY <1>2, <1>5, <2>2
<1>7. ASSUME NEW d \in Bucket, Inside(d, from, to), c[2] \in Minutes(d) PROVE Rank[d[1]] <= Rank[c[1]]
  <2> SUFFICES ASSUME Rank[c[1]] <= Rank[d[1]] PROVE d \in Holders
    BY <1>2, <1>6, <1>7, BucketType, Widths
  <2>1. c \in Bucket /\ c[2] \in Minutes(c) /\ c[2] % Width[c[1]] = 0 /\ d[2] % Width[d[1]] = 0
    BY <1>2, <1>7 DEF Minutes, Inside
  <2>2. d[2] <= c[2] /\ c[2] + Width[c[1]] <= d[2] + Width[d[1]]
    BY <1>7, <2>1, Nested
  <2>3. d[2] \in Nat /\ Width[d[1]] \in Nat
    BY BucketType, Widths
  <2>4. p \in Minutes(d)
    BY <1>0, <1>2, <2>2, <2>3 DEF Minutes
  <2> QED BY <1>7, <2>4
<1> QED BY <1>7 DEF Coarsest

LEMMA CoveredByOne ==
  ASSUME NEW from, NEW to, NEW p, NEW b \in Coarsest(from, to), NEW c \in Coarsest(from, to),
         p \in Minutes(b), p \in Minutes(c)
  PROVE  b = c
<1>1. ASSUME NEW x \in Coarsest(from, to), NEW y \in Coarsest(from, to),
             p \in Minutes(x), p \in Minutes(y), Rank[x[1]] <= Rank[y[1]]
      PROVE  x = y
  <2>1. /\ x \in Bucket /\ y \in Bucket /\ Inside(x, from, to) /\ Inside(y, from, to)
        /\ x[1] \in Grains /\ y[1] \in Grains /\ x[2] \in Nat /\ y[2] \in Nat
        /\ Width[x[1]] \in Nat \ {0} /\ Width[y[1]] \in Nat \ {0}
        /\ x[2] % Width[x[1]] = 0 /\ y[2] % Width[y[1]] = 0
        /\ x = <<x[1], x[2]>> /\ y = <<y[1], y[2]>>
    BY BucketType, Widths DEF Coarsest, Inside
  <2>2. y[2] <= x[2] /\ x[2] + Width[x[1]] <= y[2] + Width[y[1]]
    BY <1>1, <2>1, Nested
  <2>3. x[2] \in Minutes(y)
    BY <2>1, <2>2 DEF Minutes
  <2>4. Rank[y[1]] <= Rank[x[1]]
    BY <1>1, <2>1, <2>3 DEF Coarsest
  <2>5. x[1] = y[1]
    BY <1>1, <2>1, <2>4 DEF Grains, Rank
  <2>6. x[2] = y[2]
    BY <2>1, <2>2, <2>5
  <2> QED BY <2>1, <2>5, <2>6
<1>2. b[1] \in Grains /\ c[1] \in Grains /\ Rank[b[1]] \in Int /\ Rank[c[1]] \in Int
  BY BucketType, Widths DEF Coarsest
<1>3. Rank[b[1]] <= Rank[c[1]] \/ Rank[c[1]] <= Rank[b[1]]
  BY <1>2
<1> QED BY <1>1, <1>3

\* A minute is read in one bucket of a plan if the window has it, and in none if not.
LEMMA PlanCoversOnce ==
  ASSUME NEW from \in 0 .. LAST, NEW to \in 0 .. LAST, NEW p \in Nat
  PROVE  Cardinality({b \in Plan(from, to) : p \in Minutes(b)}) = IF from <= p /\ p < to THEN 1 ELSE 0
<1> DEFINE S == {b \in Coarsest(from, to) : p \in Minutes(b)}
<1>1. CASE from <= p /\ p < to
  <2>1. PICK b \in Coarsest(from, to) : p \in Minutes(b)
    BY <1>1, CoveredBySome
  <2>2. \A c \in S : c = b
    BY <2>1, CoveredByOne
  <2>3. S = {b}
    BY <2>1, <2>2
  <2> QED BY <1>1, <2>3, PlanIsCoarsest, FS_Singleton
<1>2. CASE ~(from <= p /\ p < to)
  <2>1. ASSUME NEW b \in S PROVE FALSE
    <3>1. /\ b[2] \in Nat /\ Width[b[1]] \in Nat \ {0} /\ from <= b[2] /\ b[2] + Width[b[1]] <= to
      BY BucketType, Widths DEF Coarsest, Inside
    <3>2. b[2] <= p /\ p < b[2] + Width[b[1]]
      BY <2>1, <3>1 DEF Minutes
    <3>3. from \in Int /\ to \in Int
      BY Calendar
    <3> QED BY <1>2, <3>1, <3>2, <3>3
  <2>2. S = {}
    BY <2>1
  <2> QED BY <1>2, <2>2, PlanIsCoarsest, FS_EmptySet
<1> QED BY <1>1, <1>2

--------------------------------------------------------------------------------
(* NFR-9: what is finer than it could be lies at the ends of the window.    *)

Spaced(Q, g, a, w, lo, hi) == \A b \in Q : \E k \in lo .. hi : b = <<g, a + k * w>>

LEMMA SpacedCount ==
  ASSUME NEW g, NEW a \in Int, NEW w \in Nat \ {0}, NEW lo \in Int, NEW hi \in Int, lo <= hi + 1,
         NEW Q, Spaced(Q, g, a, w, lo, hi)
  PROVE  IsFiniteSet(Q) /\ Cardinality(Q) \in Nat /\ Cardinality(Q) <= hi - lo + 1
<1> DEFINE E == {<<g, a + k * w>> : k \in lo .. hi}
           f == [k \in lo .. hi |-> <<g, a + k * w>>]
<1>1. f \in Surjection(lo .. hi, E)
  BY DEF Surjection
<1>2. IsFiniteSet(lo .. hi) /\ Cardinality(lo .. hi) = hi - lo + 1
  BY FS_Interval, FS_EmptySet
<1>3. IsFiniteSet(E) /\ Cardinality(E) <= hi - lo + 1
  BY <1>1, <1>2, FS_Surjection
<1>4. Q \in SUBSET E
  BY DEF Spaced
<1>5. IsFiniteSet(Q) /\ Cardinality(Q) <= Cardinality(E)
  BY <1>3, <1>4, FS_Subset
<1>6. Cardinality(Q) \in Nat /\ Cardinality(E) \in Nat
  BY <1>3, <1>5, FS_CardinalityType
<1> HIDE DEF E
<1> QED BY <1>3, <1>5, <1>6

LEMMA UnitCount ==
  ASSUME NEW k \in Int, NEW n \in Int, NEW w \in Nat \ {0}
  PROVE  /\ 0 <= k * w => 0 <= k
         /\ 0 < k * w => 0 < k
         /\ k * w < n * w => k < n
OBVIOUS

LEMMA Differ ==
  ASSUME NEW i \in Int, NEW j \in Int, NEW w \in Nat \ {0}
  PROVE  i * w - j * w = (i - j) * w /\ i * w + w = (i + 1) * w
OBVIOUS

\* An aligned time is a whole number of units from another.
LEMMA UnitsBetween ==
  ASSUME NEW t \in Int, NEW a \in Int, NEW w \in Nat \ {0}, t % w = 0, a % w = 0
  PROVE  \E k \in Int : t = a + k * w
<1>1. PICK i \in Int : t = i * w
  BY AlignedMultiple
<1>2. PICK j \in Int : a = j * w
  BY AlignedMultiple
<1>3. i - j \in Int /\ t - a = (i - j) * w
  BY <1>1, <1>2, Differ
<1>4. t = a + (i - j) * w
  <2> DEFINE d == (i - j) * w
  <2>1. d \in Int /\ t - a = d
    BY <1>3
  <2> HIDE DEF d
  <2>2. t = a + d
    BY <2>1
  <2> QED BY <2>2 DEF d
<1> QED BY <1>3, <1>4

\* The unit a time lies in.
UnitOf(x, w) == x - (x % w)

LEMMA UnitHolds ==
  ASSUME NEW x \in Int, NEW w \in Nat \ {0}
  PROVE  /\ UnitOf(x, w) \in Int /\ UnitOf(x, w) % w = 0
         /\ UnitOf(x, w) <= x /\ x < UnitOf(x, w) + w
         /\ x \in Nat => UnitOf(x, w) \in Nat
<1>1. x % w \in 0 .. w - 1 /\ x \div w \in Int /\ x = (x \div w) * w + (x % w)
  BY DivMod
<1>2. ((x \div w) * w) % w = 0
  BY <1>1, MultipleAligned
<1>3. UnitOf(x, w) = (x \div w) * w
  BY <1>1 DEF UnitOf
<1>4. ASSUME x \in Nat, (x \div w) * w < 0 * w PROVE FALSE
  <2>1. (x \div w) * w + w <= 0 * w
    BY <1>1, <1>4, UnitApart
  <2> QED BY <1>1, <1>4, <2>1
<1> QED BY <1>1, <1>2, <1>3, <1>4

LEMMA SameUnit ==
  ASSUME NEW a \in Int, NEW b \in Int, NEW x \in Int, NEW w \in Nat \ {0}, a % w = 0, b % w = 0,
         a <= x, x < a + w, b <= x, x < b + w
  PROVE  a = b
<1>1. a < b => a + w <= b
  BY AlignedApart
<1>2. b < a => b + w <= a
  BY AlignedApart
<1> QED BY <1>1, <1>2

Times(W, n, w) == W = n * w

\* A unit of a window that lies in no longer one inside it.
Leftover(b, g, from, to, w, W) ==
  /\ b = <<g, b[2]>> /\ b[2] \in Nat
  /\ b[2] % w = 0 /\ from <= b[2] /\ b[2] + w <= to
  /\ \A t \in Nat : t % W = 0 /\ t <= b[2] /\ b[2] < t + W => ~(from <= t /\ t + W <= to)

\* It is in the longer one that the window begins in, or in the one that it ends in.
AtHead(b, g, from, w, W, n) == \E k \in 1 .. n - 1 : b = <<g, UnitOf(from, W) + k * w>>
AtTail(b, g, to, w, W, n) == \E k \in 0 .. n - 2 : b = <<g, UnitOf(to, W) + k * w>>

LEMMA LeftoverAtAnEdge ==
  ASSUME NEW g, NEW from \in Nat, NEW to \in Nat,
         NEW w \in Nat \ {0}, NEW W \in Nat \ {0}, NEW n \in Nat \ {0}, Times(W, n, w),
         NEW b, Leftover(b, g, from, to, w, W)
  PROVE  AtHead(b, g, from, w, W, n) \/ AtTail(b, g, to, w, W, n)
<1> DEFINE s == b[2]
           T == UnitOf(s, W)
           A == UnitOf(from, W)
           B == UnitOf(to, W)
<1>0. W % w = 0 /\ W = n * w
  BY MultipleAligned DEF Times
<1>1. b = <<g, s>> /\ s \in Nat /\ s % w = 0 /\ from <= s /\ s + w <= to
  BY DEF Leftover
<1>2. T \in Nat /\ T % W = 0 /\ T <= s /\ s < T + W
  BY <1>1, UnitHolds
<1>3. ~(from <= T /\ T + W <= to)
  BY <1>2 DEF Leftover
<1>4. /\ A \in Int /\ A % W = 0 /\ A <= from /\ from < A + W
      /\ B \in Int /\ B % W = 0 /\ B <= to /\ to < B + W
  BY UnitHolds
<1>5. AtHead(b, g, from, w, W, n) <=> \E k \in 1 .. n - 1 : b = <<g, A + k * w>>
  BY DEF AtHead
<1>6. AtTail(b, g, to, w, W, n) <=> \E k \in 0 .. n - 2 : b = <<g, B + k * w>>
  BY DEF AtTail
<1> HIDE DEF s, T, A, B
<1>7. CASE T < from
  <2>1. T <= from /\ from < T + W
    BY <1>1, <1>2, <1>7
  <2>2. T = A
    BY <1>2, <1>4, <2>1, SameUnit
  <2>3. A % w = 0
    BY <1>0, <1>4, AlignedToPart
  <2>4. PICK k \in Int : s = A + k * w
    <3>1. s \in Int /\ s % w = 0
      BY <1>1
    <3> QED BY <1>4, <2>3, <3>1, UnitsBetween, Zenon
  <2>5. k * w \in Int /\ 0 < k * w /\ k * w < n * w
    BY <1>0, <1>1, <1>2, <1>7, <2>2, <2>4
  <2>6. k \in 1 .. n - 1
    <3>1. 0 < k /\ k < n
      BY <2>5, UnitCount
    <3> QED BY <3>1
  <2>7. b = <<g, A + k * w>>
    BY <1>1, <2>4, Zenon
  <2> QED BY <1>5, <2>6, <2>7, Zenon
<1>8. CASE T + W > to
  <2>1. T <= to /\ to < T + W
    BY <1>1, <1>2, <1>8
  <2>2. T = B
    BY <1>2, <1>4, <2>1, SameUnit
  <2>3. B % w = 0
    BY <1>0, <1>4, AlignedToPart
  <2>4. PICK k \in Int : s = B + k * w
    <3>1. s \in Int /\ s % w = 0
      BY <1>1
    <3> QED BY <1>4, <2>3, <3>1, UnitsBetween, Zenon
  <2>5. k * w \in Int /\ 0 <= k * w /\ k * w + w < n * w
    BY <1>0, <1>1, <1>2, <2>1, <2>2, <2>4
  <2>6. k * w + w = (k + 1) * w /\ k + 1 \in Int
    BY Differ
  <2>7. (k + 1) * w < n * w
    BY <2>5, <2>6
  <2>8. 0 <= k
    BY <2>5, UnitCount
  <2>9. k + 1 < n
    BY <2>6, <2>7, UnitCount
  <2>10. k \in 0 .. n - 2
    BY <2>8, <2>9
  <2>11. b = <<g, B + k * w>>
    BY <1>1, <2>4, Zenon
  <2> QED BY <1>6, <2>10, <2>11, Zenon
<1>9. T < from \/ T + W > to
  BY <1>2, <1>3
<1> QED BY <1>2, <1>7, <1>8, <1>9

LEMMA LeftoversFew ==
  ASSUME NEW g, NEW from \in Nat, NEW to \in Nat,
         NEW w \in Nat \ {0}, NEW W \in Nat \ {0}, NEW n \in Nat \ {0}, Times(W, n, w),
         NEW Q, \A b \in Q : Leftover(b, g, from, to, w, W)
  PROVE  IsFiniteSet(Q) /\ Cardinality(Q) <= 2 * (n - 1)
<1> DEFINE Early == {b \in Q : AtHead(b, g, from, w, W, n)}
           Late == {b \in Q : AtTail(b, g, to, w, W, n)}
<1>1. UnitOf(from, W) \in Int /\ UnitOf(to, W) \in Int
  <2>1. from \in Int /\ to \in Int
    OBVIOUS
  <2> QED BY <2>1, UnitHolds
<1>2. ASSUME NEW b \in Q PROVE b \in Early \/ b \in Late
  BY LeftoverAtAnEdge
<1>3. IsFiniteSet(Early) /\ Cardinality(Early) \in Nat /\ Cardinality(Early) <= n - 1
  <2>1. Spaced(Early, g, UnitOf(from, W), w, 1, n - 1)
    BY DEF AtHead, Spaced
  <2>2. 1 \in Int /\ n - 1 \in Int /\ 1 <= (n - 1) + 1 /\ (n - 1) - 1 + 1 = n - 1
    OBVIOUS
  <2> HIDE DEF Early
  <2> QED BY <1>1, <2>1, <2>2, SpacedCount
<1>4. IsFiniteSet(Late) /\ Cardinality(Late) \in Nat /\ Cardinality(Late) <= n - 1
  <2>1. Spaced(Late, g, UnitOf(to, W), w, 0, n - 2)
    BY DEF AtTail, Spaced
  <2>2. 0 \in Int /\ n - 2 \in Int /\ 0 <= (n - 2) + 1 /\ (n - 2) - 0 + 1 = n - 1
    OBVIOUS
  <2> HIDE DEF Late
  <2> QED BY <1>1, <2>1, <2>2, SpacedCount
<1>5. Q = Early \cup Late
  BY <1>2
<1> HIDE DEF Early, Late
<1>6. IsFiniteSet(Early \cap Late)
  BY <1>3, FS_Intersection
<1>7. Cardinality(Early \cap Late) \in Nat
  BY <1>6, FS_CardinalityType
<1>8. IsFiniteSet(Q) /\ Cardinality(Q) = Cardinality(Early) + Cardinality(Late) - Cardinality(Early \cap Late)
  BY <1>3, <1>4, <1>5, FS_Union
<1> HIDE <1>2, <1>5
<1> QED BY <1>3, <1>4, <1>7, <1>8

LEMMA HoursAtEdges ==
  ASSUME NEW from \in 0 .. LAST, NEW to \in 0 .. LAST
  PROVE  Cardinality({b \in Plan(from, to) : b[1] = "h1"}) <= 2 * (DAY \div HOUR - 1)
<1> DEFINE Q == {b \in Coarsest(from, to) : b[1] = "h1"}
           n == DAY \div HOUR
<1>0. from \in Nat /\ to \in Nat /\ HOUR \in Nat \ {0} /\ DAY \in Nat \ {0}
  BY Calendar
<1>1. n \in Nat \ {0} /\ Times(DAY, n, HOUR)
  <2>1. n \in Int /\ DAY = n * HOUR
    BY <1>0, CalendarAssumption, AlignedMultiple
  <2>2. 0 < n * HOUR
    BY <1>0, <2>1
  <2>3. 0 < n
    BY <1>0, <2>1, <2>2, UnitCount
  <2> QED BY <2>1, <2>3 DEF Times
<1>2. ASSUME NEW b \in Q PROVE Leftover(b, "h1", from, to, HOUR, DAY)
  <2>1. /\ b \in Bucket /\ b = <<"h1", b[2]>> /\ b[2] \in Nat /\ b[2] % HOUR = 0
        /\ from <= b[2] /\ b[2] + HOUR <= to /\ b[2] <= LAST
    BY BucketType, Widths DEF Coarsest, Inside
  <2>2. ASSUME NEW t \in Nat, t % DAY = 0, t <= b[2], b[2] < t + DAY, from <= t, t + DAY <= to
        PROVE  FALSE
    <3> DEFINE c == <<"d1", t>>
    <3>1. c \in Bucket /\ c[1] = "d1" /\ c[2] = t
      <4>1. t \in 0 .. LAST /\ "d1" \in Grains
        BY <2>1, <2>2, Calendar DEF Grains
      <4> QED BY <4>1 DEF Bucket
    <3> HIDE DEF c
    <3>2. Inside(c, from, to) /\ b[2] \in Minutes(c)
      BY <1>0, <2>1, <2>2, <3>1, Widths DEF Inside, Minutes
    <3>3. Rank["d1"] <= Rank["h1"]
      BY <3>1, <3>2 DEF Coarsest
    <3> QED BY <3>3 DEF Rank
  <2> QED BY <2>1, <2>2 DEF Leftover
<1> HIDE DEF n
<1>3. Cardinality(Q) <= 2 * (n - 1)
  BY <1>0, <1>1, <1>2, LeftoversFew
<1> QED BY <1>3, PlanIsCoarsest DEF n

LEMMA MinutesAtEdges ==
  ASSUME NEW from \in 0 .. LAST, NEW to \in 0 .. LAST
  PROVE  Cardinality({b \in Plan(from, to) : b[1] = "m1"}) <= 2 * (HOUR - 1)
<1> DEFINE Q == {b \in Coarsest(from, to) : b[1] = "m1"}
<1>0. from \in Nat /\ to \in Nat /\ HOUR \in Nat \ {0} /\ 1 \in Nat \ {0}
  BY Calendar
<1>1. Times(HOUR, HOUR, 1)
  BY <1>0 DEF Times
<1>2. ASSUME NEW b \in Q PROVE Leftover(b, "m1", from, to, 1, HOUR)
  <2>1. /\ b \in Bucket /\ b = <<"m1", b[2]>> /\ b[2] \in Nat /\ b[2] % 1 = 0
        /\ from <= b[2] /\ b[2] + 1 <= to /\ b[2] <= LAST
    BY BucketType, Widths DEF Coarsest, Inside
  <2>2. ASSUME NEW t \in Nat, t % HOUR = 0, t <= b[2], b[2] < t + HOUR, from <= t, t + HOUR <= to
        PROVE  FALSE
    <3> DEFINE c == <<"h1", t>>
    <3>1. c \in Bucket /\ c[1] = "h1" /\ c[2] = t
      <4>1. t \in 0 .. LAST /\ "h1" \in Grains
        BY <2>1, <2>2, Calendar DEF Grains
      <4> QED BY <4>1 DEF Bucket
    <3> HIDE DEF c
    <3>2. Inside(c, from, to) /\ b[2] \in Minutes(c)
      BY <1>0, <2>1, <2>2, <3>1, Widths DEF Inside, Minutes
    <3>3. Rank["h1"] <= Rank["m1"]
      BY <3>1, <3>2 DEF Coarsest
    <3> QED BY <3>3 DEF Rank
  <2> QED BY <2>1, <2>2 DEF Leftover
<1>3. Cardinality(Q) <= 2 * (HOUR - 1)
  BY <1>0, <1>1, <1>2, LeftoversFew
<1> QED BY <1>3, PlanIsCoarsest

\* The shape of a plan.
LEMMA PlanShape ==
  ASSUME NEW from \in 0 .. LAST, NEW to \in 0 .. LAST
  PROVE  /\ Plan(from, to) \in SUBSET ((DOMAIN Width) \X (0 .. LAST))
         /\ \A b \in Plan(from, to) : Minutes(b) \subseteq from .. to - 1
<1>1. Grains = DOMAIN Width
  BY DEF Grains, Width
<1>2. ASSUME NEW b \in Coarsest(from, to) PROVE Minutes(b) \subseteq from .. to - 1
  <2>1. /\ b[2] \in Nat /\ Width[b[1]] \in Nat \ {0} /\ from <= b[2] /\ b[2] + Width[b[1]] <= to
    BY BucketType, Widths DEF Coarsest, Inside
  <2>2. from \in Int /\ to \in Int
    BY Calendar
  <2> QED BY <2>1, <2>2 DEF Minutes
<1>3. Coarsest(from, to) \subseteq (DOMAIN Width) \X (0 .. LAST)
  BY <1>1 DEF Coarsest, Bucket
<1> QED BY <1>2, <1>3, PlanIsCoarsest, Zenon

LEMMA CountType ==
  ASSUME NEW plan \in SUBSET ((DOMAIN Width) \X (0 .. LAST)), NEW p
  PROVE  Counted(plan, p) \in Nat
<1>1. IsFiniteSet(DOMAIN Width) /\ IsFiniteSet(0 .. LAST)
  <2>1. DOMAIN Width = {"m1", "h1"} \cup {"d1"} /\ {"m1", "h1"} = {"m1"} \cup {"h1"}
    BY DEF Width
  <2>2. IsFiniteSet({"m1"}) /\ IsFiniteSet({"m1"} \cup {"h1"})
    BY FS_Singleton, FS_AddElement
  <2>3. IsFiniteSet({"m1", "h1"} \cup {"d1"})
    BY <2>1, <2>2, FS_AddElement
  <2> QED BY <2>1, <2>3, FS_Interval, Calendar
<1>2. IsFiniteSet((DOMAIN Width) \X (0 .. LAST))
  BY <1>1, FS_Product, Zenon
<1> DEFINE S == {b \in RowsSeen(plan) : p \in Minutes(b)}
<1>3. S \in SUBSET ((DOMAIN Width) \X (0 .. LAST))
  BY DEF RowsSeen
<1>4. Cardinality(S) \in Nat
  BY <1>2, <1>3, FS_Subset, FS_CardinalityType
<1> QED BY <1>4 DEF Counted


--------------------------------------------------------------------------------
(* The invariant.                                                           *)

\* Every partition the plan needs is attached.
AllAttached == RowsSeen(read.plan) = read.plan

\* Rows that have been read count what they should, unless a partition they are of was gone, and
\* then it still is.
ReadInv == read.pc = "read" /\ AllAttached => Exact

IInv ==
  /\ TypeOK /\ RefusedOnlyIfRetired
  /\ read.plan = Plan(read.from, read.to)
  /\ ReadInv

\* A bucket before the oldest partition has none.
LEMMA UnavailableUnseen ==
  ASSUME TypeOK, NEW b \in read.plan, Unavailable(b)
  PROVE  b \notin RowsSeen(read.plan)
<1>1. /\ b[1] \in Partitioned /\ b[2] \in Nat /\ Span[b[1]] \in Nat \ {0}
      /\ attached[b[1]] \in SUBSET Nat /\ attached[b[1]] # {}
  <2>1. b \in (DOMAIN Width) \X (0 .. LAST) /\ b[1] \in Partitioned
    BY DEF TypeOK, Unavailable
  <2>2. b[2] \in Nat
    BY <2>1, Calendar
  <2>3. Span[b[1]] \in Nat \ {0}
    BY <2>1, Calendar DEF Partitioned, Span
  <2>4. 0 .. LAST - 1 \subseteq Nat
    BY Calendar
  <2> QED BY <2>1, <2>2, <2>3, <2>4 DEF TypeOK
<1>2. Min(attached[b[1]]) \in attached[b[1]] /\ \A y \in attached[b[1]] : Min(attached[b[1]]) <= y
  BY <1>1, MinOfNat
<1>3. b[2] < Min(attached[b[1]])
  BY <1>1, <1>2, NullAssumption DEF Unavailable, Oldest
<1>4. PartitionOf(b[1], b[2]) <= b[2] /\ PartitionOf(b[1], b[2]) \in Nat
  <2>1. b[2] \in Int /\ PartitionOf(b[1], b[2]) = UnitOf(b[2], Span[b[1]])
    BY <1>1 DEF PartitionOf, UnitOf
  <2> QED BY <1>1, <2>1, UnitHolds
<1>5. PartitionOf(b[1], b[2]) \notin attached[b[1]]
  BY <1>1, <1>2, <1>3, <1>4
<1> QED BY <1>1, <1>5 DEF RowsSeen

\* The oldest bucket the plan needs of a grain, if it needs any.
LEMMA OldestNeededExists ==
  ASSUME TypeOK, NEW b \in read.plan
  PROVE  \E c \in OldestNeeded(b[1]) : c[1] = b[1] /\ c[2] <= b[2]
<1> DEFINE S == {n \in Nat : \E c \in read.plan : c[1] = b[1] /\ n = c[2]}
<1>1. \A c \in read.plan : c[2] \in Nat
  BY Calendar DEF TypeOK
<1>2. b[2] \in S
  BY <1>1
<1>3. PICK n \in S : \A m \in S : n <= m
  BY <1>2, LeastOfNat
<1>4. PICK c \in read.plan : c[1] = b[1] /\ n = c[2]
  BY <1>3
<1>5. \A d \in read.plan : d[1] = b[1] => c[2] <= d[2]
  BY <1>1, <1>3, <1>4
<1>6. c \in OldestNeeded(b[1])
  BY <1>4, <1>5 DEF OldestNeeded
<1> QED BY <1>4, <1>5, <1>6

\* What was available when it was looked up again, and behind which nothing is missing, is all there.
LEMMA LookedUpAgain ==
  ASSUME TypeOK, NoHole,
         ~ \E g \in Partitioned : \E b \in OldestNeeded(g) : Unavailable(b)
  PROVE  AllAttached
<1> SUFFICES ASSUME NEW b \in read.plan, b[1] \in Partitioned
             PROVE  PartitionOf(b[1], b[2]) \in attached[b[1]]
  BY DEF AllAttached, RowsSeen
<1>1. PICK c \in OldestNeeded(b[1]) : c[1] = b[1] /\ c[2] <= b[2]
  BY OldestNeededExists
<1>2. ~Unavailable(c)
  OBVIOUS
<1>3. c \in read.plan /\ c[2] \in Nat /\ b[2] \in Nat
  BY Calendar DEF TypeOK, OldestNeeded
<1>4. attached[b[1]] \in SUBSET Nat /\ attached[b[1]] # {}
  <2>1. 0 .. LAST - 1 \subseteq Nat
    BY Calendar
  <2> QED BY <2>1 DEF TypeOK
<1>5. Min(attached[b[1]]) \in Nat
  BY <1>4, MinOfNat
<1>6. Oldest(b[1]) = Min(attached[b[1]]) /\ Oldest(b[1]) # NULL
  BY <1>4, <1>5, NullAssumption DEF Oldest
<1>7. Oldest(b[1]) <= c[2]
  BY <1>1, <1>2, <1>3, <1>5, <1>6 DEF Unavailable
<1>8. ~Unavailable(b)
  BY <1>1, <1>3, <1>5, <1>6, <1>7 DEF Unavailable
<1> QED BY <1>8 DEF NoHole

\* With all its partitions there, the read counts each folded probe of the window once.
LEMMA ReadCountsOnce ==
  ASSUME NEW from \in 0 .. LAST, NEW to \in 0 .. LAST,
         RowsSeen(Plan(from, to)) = Plan(from, to), NEW p \in Probes
  PROVE  Counted(Plan(from, to), p) = IF p \in {q \in folded : from <= q /\ q < to} THEN 1 ELSE 0
<1>1. p \in Nat
  BY ProbeAssumption, Calendar
<1>2. Cardinality({b \in Plan(from, to) : p \in Minutes(b)}) = IF from <= p /\ p < to THEN 1 ELSE 0
  BY <1>1, PlanCoversOnce
<1> QED BY <1>2 DEF Counted


LEMMA StartsHasFirst ==
  ASSUME NEW g \in Partitioned
  PROVE  Starts(g) # {} /\ Starts(g) \in SUBSET (0 .. LAST - 1)
<1>1. Span[g] \in Nat \ {0}
  BY Calendar DEF Partitioned, Span
<1>2. (0 * Span[g]) % Span[g] = 0
  BY <1>1, MultipleAligned
<1>3. 0 \in Starts(g)
  BY <1>1, <1>2, Calendar DEF Starts
<1> QED BY <1>3 DEF Starts

LEMMA NoReadShape ==
  /\ NoRead \in [pc : {"idle", "invalid", "retired", "planned", "read", "notFound", "changed",
                      "answered"},
                from : 0 .. LAST, to : 0 .. LAST, plan : SUBSET ((DOMAIN Width) \X (0 .. LAST)),
                counted : [Probes -> Nat], truth : SUBSET Probes]
  /\ NoRead.from = 0 /\ NoRead.to = 0 /\ NoRead.plan = {} /\ NoRead.pc = "idle"
  /\ Plan(0, 0) = {}
<1>1. 0 \in 0 .. LAST
  BY Calendar
<1>2. ASSUME NEW b \in Plan(0, 0) PROVE FALSE
  <2>1. b \in Coarsest(0, 0)
    BY <1>1, PlanIsCoarsest
  <2>2. b[2] \in Nat /\ Width[b[1]] \in Nat \ {0} /\ b[2] + Width[b[1]] <= 0
    BY <2>1, BucketType, Widths DEF Coarsest, Inside
  <2> QED BY <2>2
<1> QED BY <1>1, <1>2 DEF NoRead

LEMMA InitInv == Init => IInv
<1> SUFFICES ASSUME Init PROVE IInv
  OBVIOUS
<1> USE DEF Init
<1>1. read = NoRead
  OBVIOUS
<1>3. TypeOK
  <2>2. attached \in [Partitioned -> SUBSET (0 .. LAST - 1)]
    BY StartsHasFirst
  <2>3. \A g \in Partitioned : attached[g] \subseteq Starts(g) /\ attached[g] # {}
    BY StartsHasFirst
  <2> QED BY <1>1, <2>2, <2>3, NoReadShape DEF TypeOK
<1> QED BY <1>1, <1>3, NoReadShape DEF IInv, RefusedOnlyIfRetired, ReadInv

\* While partitions only go, rows that were not seen are not, and what is attached was.
LEMMA SeenShrinks ==
  ASSUME NEW plan, \A g \in Partitioned : attached'[g] \subseteq attached[g]
  PROVE  RowsSeen(plan)' \subseteq RowsSeen(plan) /\ RowsSeen(plan) \subseteq plan
BY DEF RowsSeen

\* Steps of the rollup, retention and the owner: the call is where it was.
LEMMA OthersStep ==
  ASSUME IInv, read' = read, TypeOK', \A g \in Partitioned : attached'[g] \subseteq attached[g]
  PROVE  IInv'
<1>1. RowsSeen(read.plan)' \subseteq RowsSeen(read.plan) /\ RowsSeen(read.plan) \subseteq read.plan
  BY DEF RowsSeen
<1>2. RefusedOnlyIfRetired'
  BY <1>1 DEF IInv, RefusedOnlyIfRetired
<1>3. ReadInv'
  <2>1. AllAttached' => AllAttached
    BY <1>1 DEF AllAttached
  <2> QED BY <2>1 DEF IInv, ReadInv, Exact
<1>4. Plan(read.from, read.to)' = Plan(read.from, read.to)
  BY DEF Plan, Grain, Fits, Width
<1> QED BY <1>2, <1>3, <1>4 DEF IInv

LEMMA StepInv == IInv /\ [Next]_vars => IInv'
<1> SUFFICES ASSUME IInv, [Next]_vars PROVE IInv'
  OBVIOUS
<1>0. TypeOK /\ RefusedOnlyIfRetired /\ ReadInv /\ read.plan = Plan(read.from, read.to)
      /\ read.from \in 0 .. LAST /\ read.to \in 0 .. LAST
  BY DEF IInv, TypeOK
<1>1. CASE Ask
  <2>1. PICK from \in 0 .. LAST, to \in 0 .. LAST :
          read' = [NoRead EXCEPT !.pc = CASE from >= to -> "invalid"
                                          [] \E b \in Plan(from, to) : Unavailable(b) -> "retired"
                                          [] OTHER -> "planned",
                                 !.from = from, !.to = to, !.plan = Plan(from, to)]
    BY <1>1 DEF Ask
  <2> DEFINE pc == CASE from >= to -> "invalid"
                     [] \E b \in Plan(from, to) : Unavailable(b) -> "retired"
                     [] OTHER -> "planned"
  <2>2. read' = [pc |-> pc, from |-> from, to |-> to, plan |-> Plan(from, to),
                 counted |-> [p \in Probes |-> 0], truth |-> {}]
    BY <2>1 DEF NoRead
  <2>3. pc \in {"invalid", "retired", "planned"}
        /\ (pc = "retired" => \E b \in Plan(from, to) : Unavailable(b))
    OBVIOUS
  <2> HIDE DEF pc
  <2>4. UNCHANGED <<folded, attached, owned>>
    BY <1>1 DEF Ask
  <2>5. TypeOK'
    <3>1. read' \in [pc : {"idle", "invalid", "retired", "planned", "read", "notFound", "changed",
                          "answered"},
                     from : 0 .. LAST, to : 0 .. LAST, plan : SUBSET ((DOMAIN Width) \X (0 .. LAST)),
                     counted : [Probes -> Nat], truth : SUBSET Probes]
      BY <2>2, <2>3, PlanShape
    <3>2. \A b \in read'.plan : Minutes(b) \subseteq read'.from .. read'.to - 1
      BY <2>2, PlanShape
    <3> QED BY <1>0, <2>4, <3>1, <3>2 DEF TypeOK, Minutes, Starts
  <2>6. /\ read'.pc = pc /\ read'.plan = Plan(from, to) /\ read'.from = from /\ read'.to = to
    BY <2>2
  <2>7. RefusedOnlyIfRetired'
    <3> SUFFICES ASSUME pc = "retired" PROVE RowsSeen(read.plan)' # read'.plan
      BY <2>3, <2>6 DEF RefusedOnlyIfRetired
    <3>1. PICK b \in Plan(from, to) : Unavailable(b)
      BY <2>3
    <3>2. Unavailable(b)'
      BY <2>4, <3>1 DEF Unavailable, Oldest
    <3>3. b \notin RowsSeen(read.plan)'
      <4>1. TypeOK' /\ b \in read'.plan /\ Unavailable(b)'
        BY <2>5, <2>6, <3>2
      <4>2. (TypeOK /\ b \in read.plan /\ Unavailable(b) => b \notin RowsSeen(read.plan))'
        BY UnavailableUnseen, PTL
      <4> QED BY <4>1, <4>2
    <3> QED BY <2>6, <3>3
  <2>8. ReadInv'
    BY <2>3, <2>6 DEF ReadInv
  <2>9. Plan(read.from, read.to)' = Plan(from, to)
    BY <2>6 DEF Plan, Grain, Fits, Width
  <2> QED BY <2>5, <2>6, <2>7, <2>8, <2>9 DEF IInv
<1>2. CASE Read
  <2>0. read.pc = "planned" /\ UNCHANGED <<folded, attached, owned>>
    BY <1>2 DEF Read
  <2>1. CASE ~owned
    <3>1. read' = [read EXCEPT !.pc = "notFound"]
      BY <1>2, <2>1 DEF Read
    <3>2. TypeOK'
      BY <1>0, <2>0, <3>1 DEF TypeOK, Minutes, Starts
    <3>3. /\ read'.pc = "notFound" /\ read'.plan = read.plan /\ read'.from = read.from
          /\ read'.to = read.to
      BY <1>0, <3>1 DEF TypeOK
    <3>4. Plan(read.from, read.to)' = Plan(read.from, read.to)
      BY <3>3 DEF Plan, Grain, Fits, Width
    <3> QED BY <1>0, <3>2, <3>3, <3>4 DEF IInv, RefusedOnlyIfRetired, ReadInv
  <2>2. CASE owned
    <3> DEFINE counted == [p \in Probes |-> Counted(read.plan, p)]
               truth == {p \in folded : read.from <= p /\ p < read.to}
    <3>1. read' = [read EXCEPT !.pc = "read", !.counted = counted, !.truth = truth]
      BY <1>2, <2>2 DEF Read
    <3>2. counted \in [Probes -> Nat] /\ truth \in SUBSET Probes
      <4>1. read.plan \in SUBSET ((DOMAIN Width) \X (0 .. LAST)) /\ folded \subseteq Probes
        BY <1>0 DEF TypeOK
      <4> QED BY <4>1, CountType
    <3>3. AllAttached => \A p \in Probes : counted[p] = IF p \in truth THEN 1 ELSE 0
      <4> SUFFICES ASSUME AllAttached, NEW p \in Probes
                   PROVE  counted[p] = IF p \in truth THEN 1 ELSE 0
        OBVIOUS
      <4>1. counted[p] = Counted(Plan(read.from, read.to), p)
        BY <1>0
      <4>2. RowsSeen(Plan(read.from, read.to)) = Plan(read.from, read.to)
        BY <1>0 DEF AllAttached
      <4>3. Counted(Plan(read.from, read.to), p) =
              IF p \in {q \in folded : read.from <= q /\ q < read.to} THEN 1 ELSE 0
        BY <1>0, <4>2, ReadCountsOnce
      <4> QED BY <4>1, <4>3
    <3> HIDE DEF counted, truth
    <3>4. TypeOK'
      BY <1>0, <2>0, <3>1, <3>2 DEF TypeOK, Minutes, Starts
    <3>5. /\ read'.pc = "read" /\ read'.plan = read.plan /\ read'.from = read.from
          /\ read'.to = read.to /\ read'.counted = counted /\ read'.truth = truth
      BY <1>0, <3>1 DEF TypeOK
    <3>6. Plan(read.from, read.to)' = Plan(read.from, read.to)
      BY <3>5 DEF Plan, Grain, Fits, Width
    <3>7. AllAttached' => AllAttached
      BY <2>0, <3>5 DEF AllAttached, RowsSeen, PartitionOf
    <3>8. ReadInv'
      BY <3>3, <3>5, <3>7 DEF ReadInv, Exact
    <3> QED BY <1>0, <3>4, <3>5, <3>6, <3>8 DEF IInv, RefusedOnlyIfRetired
  <2> QED BY <2>1, <2>2
<1>3. CASE Answer
  <2>0. read.pc = "read" /\ UNCHANGED <<folded, attached, owned>>
    BY <1>3 DEF Answer
  <2> DEFINE gone == \E g \in Partitioned : \E b \in OldestNeeded(g) : Unavailable(b)
             pc == IF gone THEN "changed" ELSE "answered"
  <2>1. read' = [read EXCEPT !.pc = pc]
    BY <1>3 DEF Answer
  <2>2. pc \in {"changed", "answered"}
        /\ (pc = "changed" => \E g \in Partitioned : \E b \in OldestNeeded(g) : Unavailable(b))
    OBVIOUS
  <2> HIDE DEF pc, gone
  <2>3. TypeOK'
    BY <1>0, <2>0, <2>1, <2>2 DEF TypeOK, Minutes, Starts
  <2>4. /\ read'.pc = pc /\ read'.plan = read.plan /\ read'.from = read.from /\ read'.to = read.to
    BY <1>0, <2>1 DEF TypeOK
  <2>5. RefusedOnlyIfRetired'
    <3> SUFFICES ASSUME pc = "changed" PROVE RowsSeen(read.plan)' # read'.plan
      BY <2>2, <2>4 DEF RefusedOnlyIfRetired
    <3>1. PICK g \in Partitioned : \E b \in OldestNeeded(g) : Unavailable(b)
      BY <2>2
    <3>2. PICK b \in OldestNeeded(g) : Unavailable(b)
      BY <3>1
    <3>3. b \in read.plan /\ b \notin RowsSeen(read.plan)
      BY <1>0, <3>2, UnavailableUnseen DEF OldestNeeded
    <3>4. RowsSeen(read.plan)' = RowsSeen(read.plan)
      BY <2>0, <2>4 DEF RowsSeen, PartitionOf
    <3> QED BY <2>4, <3>3, <3>4
  <2>6. Plan(read.from, read.to)' = Plan(read.from, read.to)
    BY <2>4 DEF Plan, Grain, Fits, Width
  <2> QED BY <1>0, <2>2, <2>3, <2>4, <2>5, <2>6 DEF IInv, ReadInv
<1>4. CASE Return
  <2>1. read' = NoRead /\ UNCHANGED <<folded, attached, owned>>
    BY <1>4 DEF Return
  <2>2. TypeOK'
    BY <1>0, <2>1, NoReadShape DEF TypeOK, Minutes, Starts
  <2>3. read'.pc = "idle" /\ read'.plan = {} /\ read'.from = 0 /\ read'.to = 0
    BY <2>1, NoReadShape
  <2>4. Plan(read.from, read.to)' = {}
    BY <2>3, NoReadShape DEF Plan, Grain, Fits, Width
  <2> QED BY <2>2, <2>3, <2>4 DEF IInv, RefusedOnlyIfRetired, ReadInv
<1>5. ASSUME NEW p \in Probes, Fold(p) PROVE IInv'
  <2>1. read' = read /\ attached' = attached /\ owned' = owned /\ folded' = folded \cup {p}
    BY <1>5 DEF Fold
  <2>2. TypeOK'
    BY <1>0, <2>1 DEF TypeOK, Minutes, Starts
  <2> QED BY <2>1, <2>2, OthersStep
<1>6. ASSUME NEW g \in Partitioned, NEW n \in Starts(g), Retire(g, n) PROVE IInv'
  <2>1. /\ n \in attached[g] /\ n # Max(attached[g])
        /\ attached' = [attached EXCEPT ![g] = attached[g] \ {n}]
        /\ read' = read /\ owned' = owned /\ folded' = folded
    BY <1>6 DEF Retire
  <2>2. attached[g] \ {n} # {}
    <3> SUFFICES ASSUME attached[g] = {n} PROVE Max(attached[g]) = n
      BY <2>1
    <3>1. n \in Nat
      BY Calendar DEF Starts
    <3> QED BY <3>1 DEF Max
  <2>3. /\ attached' \in [Partitioned -> SUBSET (0 .. LAST - 1)]
        /\ \A k \in Partitioned : attached'[k] \subseteq attached[k] /\ attached'[k] # {}
    BY <1>0, <2>1, <2>2 DEF TypeOK
  <2>4. TypeOK'
    BY <1>0, <2>1, <2>3 DEF TypeOK, Minutes, Starts
  <2> QED BY <2>1, <2>3, <2>4, OthersStep
<1>7. CASE Delete
  <2>1. read' = read /\ attached' = attached /\ owned' \in BOOLEAN /\ folded' = folded
    BY <1>7 DEF Delete
  <2>2. TypeOK'
    BY <1>0, <2>1 DEF TypeOK, Minutes, Starts
  <2> QED BY <2>1, <2>2, OthersStep
<1>8. CASE UNCHANGED vars
  <2>1. read' = read /\ attached' = attached /\ owned' = owned /\ folded' = folded
    BY <1>8 DEF vars
  <2>2. TypeOK'
    BY <1>0, <2>1 DEF TypeOK, Minutes, Starts
  <2> QED BY <2>1, <2>2, OthersStep
<1> QED BY <1>1, <1>2, <1>3, <1>4, <1>5, <1>6, <1>7, <1>8 DEF Next

LEMMA AlwaysInv == Spec => []IInv
BY InitInv, StepInv, PTL DEF Spec

--------------------------------------------------------------------------------
(* Sums. SumFunctionOnSet folds over the set in an order of its own; what   *)
(* adds up one element at a time, whichever comes first, is its result.     *)

Chosen(s) == CHOOSE x \in s : TRUE
IsSum(f, S, it) ==
  it = [s \in SUBSET S |-> IF s = {} THEN 0 ELSE f[Chosen(s)] + it[s \ {Chosen(s)}]]
AddsUp(f, S, g) ==
  /\ g = [s \in SUBSET S |-> g[s]] /\ g[{}] = 0
  /\ \A s \in SUBSET S : \A x \in s : g[s] = f[x] + g[s \ {x}]

LEMMA SumChosen ==
  ASSUME NEW f, NEW S
  PROVE  SumFunctionOnSet(f, S) = (CHOOSE it : IsSum(f, S, it))[S]
BY Zenon DEF SumFunctionOnSet, FoldFunctionOnSet, MapThenFoldSet, IsSum, Chosen

LEMMA ChosenIn ==
  ASSUME NEW s, s # {}
  PROVE  Chosen(s) \in s
BY DEF Chosen

\* Among the subsets of a finite set, some have no smaller one beside them.
LEMMA LeastSubset ==
  ASSUME NEW S, IsFiniteSet(S), NEW D \in SUBSET (SUBSET S), D # {}
  PROVE  \E s \in D : \A t \in D : ~(t \subseteq s /\ t # s)
<1>1. D \subseteq FiniteSubsetsOf(S)
  BY FS_Subset DEF FiniteSubsetsOf
<1>2. PICK s \in D : \A t \in D : <<t, s>> \notin StrictSubsetOrdering(S)
  BY <1>1, WFMin, FS_StrictSubsetOrderingWellFounded
<1>3. ASSUME NEW t \in D PROVE ~(t \subseteq s /\ t # s)
  BY <1>2 DEF StrictSubsetOrdering
<1> QED BY <1>3

LEMMA SumIs ==
  ASSUME NEW S, IsFiniteSet(S), NEW f, NEW g, AddsUp(f, S, g)
  PROVE  SumFunctionOnSet(f, S) = g[S]
<1>1. ASSUME NEW s \in SUBSET S
      PROVE  g[s] = IF s = {} THEN 0 ELSE f[Chosen(s)] + g[s \ {Chosen(s)}]
  BY ChosenIn DEF AddsUp
<1>2. IsSum(f, S, g)
  <2>1. g = [s \in SUBSET S |-> g[s]]
    BY DEF AddsUp
  <2> QED BY <1>1, <2>1, Zenon DEF IsSum
<1> DEFINE it == CHOOSE h : IsSum(f, S, h)
<1>3. IsSum(f, S, it)
  BY <1>2
<1>4. SumFunctionOnSet(f, S) = it[S]
  BY SumChosen
<1> HIDE DEF it
<1>5. ASSUME NEW s \in SUBSET S
      PROVE  it[s] = IF s = {} THEN 0 ELSE f[Chosen(s)] + it[s \ {Chosen(s)}]
  BY <1>3, Zenon DEF IsSum
<1> DEFINE D == {s \in SUBSET S : it[s] # g[s]}
<1>6. D = {}
  <2> SUFFICES ASSUME D # {} PROVE FALSE
    OBVIOUS
  <2>1. PICK s \in D : \A t \in D : ~(t \subseteq s /\ t # s)
    <3>1. D \in SUBSET (SUBSET S)
      OBVIOUS
    <3> HIDE DEF D
    <3> QED BY <3>1, LeastSubset
  <2>2. s \in SUBSET S /\ it[s] # g[s]
    OBVIOUS
  <2>3. s # {}
    BY <1>1, <1>5, <2>2
  <2>4. Chosen(s) \in s
    BY <2>3, ChosenIn
  <2>5. s \ {Chosen(s)} \in SUBSET S /\ s \ {Chosen(s)} \notin D
    BY <2>1, <2>4
  <2>6. it[s \ {Chosen(s)}] = g[s \ {Chosen(s)}]
    BY <2>5
  <2> QED BY <1>1, <1>5, <2>2, <2>3, <2>6
<1>7. it[S] = g[S]
  BY <1>6
<1> QED BY <1>4, <1>7

\* Zeros and ones add up to the number of ones.
LEMMA SumCounts ==
  ASSUME NEW S, IsFiniteSet(S), NEW M, NEW f, \A x \in S : f[x] = IF x \in M THEN 1 ELSE 0
  PROVE  SumFunctionOnSet(f, S) = Cardinality(S \cap M)
<1> DEFINE g == [s \in SUBSET S |-> Cardinality(s \cap M)]
<1>1. ASSUME NEW s \in SUBSET S, NEW x \in s PROVE g[s] = f[x] + g[s \ {x}]
  <2>1. IsFiniteSet(s \cap M) /\ IsFiniteSet((s \ {x}) \cap M)
    BY FS_Subset
  <2>2. PICK c \in Nat : c = Cardinality((s \ {x}) \cap M)
    BY <2>1, FS_CardinalityType
  <2>3. g[s] = Cardinality(s \cap M) /\ g[s \ {x}] = c
    BY <2>2
  <2>4. CASE x \in M
    <3>1. s \cap M = ((s \ {x}) \cap M) \cup {x} /\ x \notin (s \ {x}) \cap M
      BY <2>4
    <3>2. Cardinality(s \cap M) = c + 1
      BY <2>1, <2>2, <3>1, FS_AddElement
    <3> QED BY <2>3, <2>4, <3>2
  <2>5. CASE x \notin M
    <3>1. s \cap M = (s \ {x}) \cap M
      BY <2>5
    <3>2. Cardinality(s \cap M) = c
      BY <2>2, <3>1
    <3> QED BY <2>3, <2>5, <3>2
  <2> QED BY <2>4, <2>5
<1>2. g[{}] = 0
  <2>1. {} \cap M = {}
    OBVIOUS
  <2> QED BY <2>1, FS_EmptySet
<1>3. g[S] = Cardinality(S \cap M) /\ g = [s \in SUBSET S |-> g[s]]
  OBVIOUS
<1> HIDE DEF g
<1>4. AddsUp(f, S, g)
  BY <1>1, <1>2, <1>3 DEF AddsUp
<1> QED BY <1>3, <1>4, SumIs

\* f counts the parts of R that the numbers in I name, which have nothing in common.
CountsParts(f, R, part, I) ==
  /\ IsFiniteSet(R) /\ IsFiniteSet(I)
  /\ \A i \in I : part[i] \subseteq R /\ f[i] = Cardinality(part[i])
  /\ \A i, j \in I : i # j => part[i] \cap part[j] = {}

\* The sizes of the parts add up to the size of the whole.
LEMMA SumOfParts ==
  ASSUME NEW f, NEW R, NEW part, NEW I, CountsParts(f, R, part, I)
  PROVE  SumFunctionOnSet(f, I) = Cardinality(UNION {part[i] : i \in I})
<1> DEFINE Whole(s) == UNION {part[i] : i \in s}
           g == [s \in SUBSET I |-> Cardinality(Whole(s))]
<1>1. ASSUME NEW s \in SUBSET I, NEW x \in s PROVE g[s] = f[x] + g[s \ {x}]
  <2>1. Whole(s) = Whole(s \ {x}) \cup part[x]
    OBVIOUS
  <2>2. Whole(s \ {x}) \cap part[x] = {}
    BY DEF CountsParts
  <2>3. Whole(s \ {x}) \subseteq R /\ part[x] \subseteq R
    BY DEF CountsParts
  <2> DEFINE A == Whole(s \ {x})
             B == part[x]
  <2>4. g[s] = Cardinality(A \cup B) /\ g[s \ {x}] = Cardinality(A) /\ f[x] = Cardinality(B)
    BY <2>1 DEF CountsParts
  <2>5. A \cap B = {} /\ A \subseteq R /\ B \subseteq R
    BY <2>2, <2>3
  <2> HIDE DEF A, B
  <2>6. IsFiniteSet(A) /\ IsFiniteSet(B)
    BY <2>5, FS_Subset DEF CountsParts
  <2>7. Cardinality(A \cup B) = Cardinality(A) + Cardinality(B) - Cardinality({})
    BY <2>5, <2>6, FS_Union
  <2>8. Cardinality(A) \in Nat /\ Cardinality(B) \in Nat /\ Cardinality({}) = 0
    BY <2>6, FS_CardinalityType, FS_EmptySet
  <2> QED BY <2>4, <2>7, <2>8
<1>2. g[{}] = 0
  <2>1. Whole({}) = {}
    OBVIOUS
  <2> QED BY <2>1, FS_EmptySet
<1>3. g[I] = Cardinality(Whole(I)) /\ g = [s \in SUBSET I |-> g[s]]
  OBVIOUS
<1> HIDE DEF g, Whole
<1>4. AddsUp(f, I, g)
  BY <1>1, <1>2, <1>3 DEF AddsUp
<1>5. IsFiniteSet(I)
  BY DEF CountsParts
<1>6. SumFunctionOnSet(f, I) = Cardinality(Whole(I))
  BY <1>3, <1>4, <1>5, SumIs
<1> QED BY <1>6 DEF Whole

--------------------------------------------------------------------------------
(* The buckets of the histogram: ascending edges cut the latencies in order.*)

L == Len(Edges)

LEMMA EdgeList ==
  /\ L \in Nat /\ DOMAIN Edges = 1 .. L /\ Buckets = 1 .. L + 1
  /\ \A i \in 1 .. L : Edges[i] \in Nat
  /\ \A i \in 1 .. L - 1 : Edges[i] < Edges[i + 1]
<1>1. Edges \in Seq(Nat)
  BY EdgeAssumption
<1>2. Len(Edges) \in Nat /\ DOMAIN Edges = 1 .. Len(Edges)
  BY <1>1
<1>3. \A i \in 1 .. Len(Edges) : Edges[i] \in Nat
  BY <1>1
<1> QED BY <1>2, <1>3, EdgeAssumption DEF L, Buckets

LEMMA EdgesAscend ==
  ASSUME NEW i \in 1 .. L, NEW j \in 1 .. L, i < j
  PROVE  Edges[i] < Edges[j]
<1> DEFINE D == {k \in i + 1 .. L : ~(Edges[i] < Edges[k])}
<1>1. L \in Nat /\ i \in Nat
  BY EdgeList
<1>2. D = {}
  <2> SUFFICES ASSUME D # {} PROVE FALSE
    OBVIOUS
  <2>1. D \in SUBSET Nat
    BY <1>1
  <2>2. PICK k \in D : \A m \in D : k <= m
    BY <2>1, LeastOfNat
  <2>3. k \in i + 1 .. L /\ ~(Edges[i] < Edges[k]) /\ k \in Nat
    BY <2>1
  <2>4. CASE k = i + 1
    BY <1>1, <2>3, <2>4, EdgeList
  <2>5. CASE k # i + 1
    <3>1. k - 1 \in i + 1 .. L /\ ~(k <= k - 1) /\ k - 1 \in 1 .. L - 1 /\ (k - 1) + 1 = k
          /\ k \in 1 .. L
      BY <1>1, <2>3, <2>5
    <3>2. k - 1 \notin D
      BY <2>2, <3>1
    <3>3. Edges[i] < Edges[k - 1]
      BY <3>1, <3>2
    <3>4. Edges[k - 1] < Edges[k]
      BY <3>1, EdgeList
    <3>5. Edges[i] \in Nat /\ Edges[k - 1] \in Nat /\ Edges[k] \in Nat
      <4>1. \A e \in 1 .. L : Edges[e] \in Nat
        BY EdgeList
      <4>2. k - 1 \in 1 .. L
        BY <1>1, <3>1
      <4> QED BY <3>1, <4>1, <4>2, Zenon
    <3>6. Edges[i] < Edges[k]
      BY <3>3, <3>4, <3>5
    <3> QED BY <2>3, <3>6
  <2> QED BY <2>4, <2>5
<1>3. j \in i + 1 .. L
  BY <1>1
<1> QED BY <1>2, <1>3

\* A latency is beyond the edges before its bucket, and those only.
LEMMA BucketBounds ==
  ASSUME NEW ms \in Nat
  PROVE  /\ BucketIndex(ms) \in Buckets
         /\ \A i \in 1 .. L : ms > Edges[i] <=> i < BucketIndex(ms)
<1> DEFINE A == {i \in 1 .. L : ms > Edges[i]}
           B == {i \in 1 .. L + 1 : i = L + 1 \/ ~(ms > Edges[i])}
<1>0. L \in Nat
  BY EdgeList
<1>1. B \in SUBSET Nat /\ L + 1 \in B
  BY <1>0
<1>2. PICK m \in B : \A i \in B : m <= i
  BY <1>1, LeastOfNat
<1>3. m \in 1 .. L + 1 /\ (m = L + 1 \/ ~(ms > Edges[m]))
  OBVIOUS
<1>4. ASSUME NEW i \in 1 .. L, i < m PROVE ms > Edges[i]
  BY <1>0, <1>2, <1>3, <1>4
<1>5. ASSUME NEW i \in 1 .. L, ~(i < m) PROVE ~(ms > Edges[i])
  <2>1. m \in 1 .. L /\ ~(ms > Edges[m])
    BY <1>0, <1>3, <1>5
  <2>2. i = m \/ m < i
    BY <1>5, <2>1
  <2>3. m < i => Edges[m] < Edges[i]
    BY <2>1, EdgesAscend
  <2>4. Edges[m] \in Nat /\ Edges[i] \in Nat
    BY <2>1, EdgeList
  <2> QED BY <2>1, <2>2, <2>3, <2>4
<1>6. A = 1 .. m - 1
  <2>1. \A i \in 1 .. L : i \in A <=> i < m
    BY <1>4, <1>5
  <2>2. A \subseteq 1 .. L
    OBVIOUS
  <2> HIDE DEF A
  <2>3. ASSUME NEW i \in A PROVE i \in 1 .. m - 1
    <3>1. i \in 1 .. L /\ i < m
      BY <2>1, <2>2
    <3> QED BY <1>0, <1>3, <3>1
  <2>4. ASSUME NEW i \in 1 .. m - 1 PROVE i \in A
    <3>1. i \in 1 .. L /\ i < m
      BY <1>0, <1>3
    <3> QED BY <2>1, <3>1
  <2> QED BY <2>3, <2>4
<1>7. Cardinality(A) = m - 1
  <2>1. Cardinality(1 .. m - 1) = m - 1
    <3>1. PICK c \in Nat : c = m - 1
      BY <1>0, <1>3
    <3>2. Cardinality(1 .. c) = IF 1 > c THEN 0 ELSE c - 1 + 1
      BY FS_Interval
    <3> QED BY <3>1, <3>2
  <2> QED BY <1>6, <2>1
<1>8. BucketIndex(ms) = m
  <2>1. BucketIndex(ms) = Cardinality(A) + 1
    BY Zenon DEF BucketIndex, L
  <2>2. m \in Int
    BY <1>0, <1>3
  <2> HIDE DEF A
  <2> QED BY <1>7, <2>1, <2>2
<1> QED BY <1>3, <1>4, <1>5, <1>8, EdgeList

LEMMA BucketsOrdered ==
  ASSUME NEW a \in Nat, NEW b \in Nat, a <= b
  PROVE  BucketIndex(a) <= BucketIndex(b)
<1>1. PICK i \in Nat : i = BucketIndex(a) /\ i \in 1 .. L + 1
  BY BucketBounds, EdgeList
<1>2. PICK j \in Nat : j = BucketIndex(b) /\ j \in 1 .. L + 1
  BY BucketBounds, EdgeList
<1>3. CASE j < i
  <2>1. j \in 1 .. L
    BY <1>1, <1>2, <1>3, EdgeList
  <2>2. a > Edges[j]
    BY <1>1, <1>3, <2>1, BucketBounds
  <2>3. ~(b > Edges[j])
    BY <1>2, <2>1, BucketBounds
  <2>4. Edges[j] \in Nat
    BY <2>1, EdgeList
  <2> QED BY <2>2, <2>3, <2>4
<1> QED BY <1>1, <1>2, <1>3

\* A bucket starts where the one before it ends.
LEMMA FloorShape ==
  /\ \A i \in Buckets : Floor(i) \in Nat
  /\ \A i, j \in Buckets : i < j => i \in 1 .. L /\ Edges[i] <= Floor(j)
<1>1. ASSUME NEW i \in Buckets PROVE Floor(i) \in Nat
  <2>1. i = 1 \/ i - 1 \in 1 .. L
    BY EdgeList
  <2> QED BY <2>1, EdgeList DEF Floor
<1>2. ASSUME NEW i \in Buckets, NEW j \in Buckets, i < j
      PROVE  i \in 1 .. L /\ Edges[i] <= Floor(j)
  <2>1. i \in 1 .. L /\ j - 1 \in 1 .. L /\ j # 1 /\ (i = j - 1 \/ i < j - 1)
    BY <1>2, EdgeList
  <2>2. Edges[i] \in Nat /\ Edges[j - 1] \in Nat
    BY <2>1, EdgeList
  <2>3. i < j - 1 => Edges[i] < Edges[j - 1]
    BY <2>1, EdgesAscend
  <2>4. Floor(j) = Edges[j - 1]
    BY <2>1 DEF Floor
  <2> QED BY <2>1, <2>2, <2>3, <2>4
<1> QED BY <1>1, <1>2

\* A latency lies between the ends of its bucket.
LEMMA BucketEnds ==
  ASSUME NEW ms \in Nat
  PROVE  /\ Floor(BucketIndex(ms)) <= ms
         /\ BucketIndex(ms) \in 1 .. L => ms <= Edges[BucketIndex(ms)]
<1>1. PICK b \in Nat : b = BucketIndex(ms) /\ b \in 1 .. L + 1
  BY BucketBounds, EdgeList
<1>2. Floor(b) <= ms
  <2>1. CASE b = 1
    BY <2>1 DEF Floor
  <2>2. CASE b # 1
    <3>1. b - 1 \in 1 .. L /\ b - 1 < b
      BY <1>1, <2>2, EdgeList
    <3>2. ms > Edges[b - 1] /\ Edges[b - 1] \in Nat
      BY <1>1, <3>1, BucketBounds, EdgeList
    <3> QED BY <2>2, <3>2 DEF Floor
  <2> QED BY <2>1, <2>2
<1>3. b \in 1 .. L => ms <= Edges[b]
  <2> SUFFICES ASSUME b \in 1 .. L PROVE ms <= Edges[b]
    OBVIOUS
  <2>1. ~(ms > Edges[b]) /\ Edges[b] \in Nat
    BY <1>1, BucketBounds, EdgeList
  <2> QED BY <2>1
<1> QED BY <1>1, <1>2, <1>3

--------------------------------------------------------------------------------
(* A histogram counts probes: so many in each bucket, so many before it.    *)

BucketAt(R, i) == {p \in R : BucketIndex(Latency[p]) = i}
Earlier(R, i) == {p \in R : BucketIndex(Latency[p]) < i}
EarlierCount(R, i) == Cardinality(Earlier(R, i))

\* hist counts the probes in R by their buckets.
Tallied(R, hist) ==
  /\ IsFiniteSet(R) /\ R # {}
  /\ \A p \in R : Latency[p] \in Nat
  /\ hist = [i \in Buckets |-> Cardinality(BucketAt(R, i))]

LEMMA InBucket ==
  ASSUME NEW R, NEW hist, Tallied(R, hist), NEW p \in R
  PROVE  /\ Latency[p] \in Nat /\ BucketIndex(Latency[p]) \in Buckets
         /\ p \in BucketAt(R, BucketIndex(Latency[p]))
BY BucketBounds DEF Tallied, BucketAt

LEMMA PartsFinite ==
  ASSUME NEW R, NEW hist, Tallied(R, hist)
  PROVE  /\ Cardinality(R) \in Nat \ {0}
         /\ \A i : EarlierCount(R, i) \in Nat /\ EarlierCount(R, i) <= Cardinality(R)
                   /\ IsFiniteSet(BucketAt(R, i)) /\ IsFiniteSet(Earlier(R, i))
         /\ \A i \in Buckets : hist[i] \in Nat /\ hist[i] = Cardinality(BucketAt(R, i))
                               /\ (hist[i] > 0 <=> BucketAt(R, i) # {})
<1>1. IsFiniteSet(R) /\ R # {}
  BY DEF Tallied
<1>2. Cardinality(R) \in Nat \ {0}
  BY <1>1, FS_CardinalityType, FS_EmptySet
<1>3. ASSUME NEW i
      PROVE  /\ EarlierCount(R, i) \in Nat /\ EarlierCount(R, i) <= Cardinality(R)
             /\ IsFiniteSet(BucketAt(R, i)) /\ IsFiniteSet(Earlier(R, i))
  <2>1. BucketAt(R, i) \in SUBSET R /\ Earlier(R, i) \in SUBSET R
    BY DEF BucketAt, Earlier
  <2>2. IsFiniteSet(BucketAt(R, i)) /\ IsFiniteSet(Earlier(R, i))
        /\ Cardinality(Earlier(R, i)) <= Cardinality(R)
    BY <1>1, <2>1, FS_Subset
  <2> QED BY <2>2, FS_CardinalityType DEF EarlierCount
<1>4. ASSUME NEW i \in Buckets
      PROVE  hist[i] \in Nat /\ hist[i] = Cardinality(BucketAt(R, i))
             /\ (hist[i] > 0 <=> BucketAt(R, i) # {})
  <2>1. hist[i] = Cardinality(BucketAt(R, i))
    BY DEF Tallied
  <2>2. Cardinality(BucketAt(R, i)) \in Nat
    BY <1>3, FS_CardinalityType
  <2>3. Cardinality(BucketAt(R, i)) = 0 <=> BucketAt(R, i) = {}
    BY <1>3, FS_EmptySet
  <2> QED BY <2>1, <2>2, <2>3
<1> QED BY <1>2, <1>3, <1>4

\* What is before a bucket, and in it, is before the next one.
LEMMA EarlierNext ==
  ASSUME NEW R, NEW hist, Tallied(R, hist), NEW i \in Buckets
  PROVE  EarlierCount(R, i + 1) = EarlierCount(R, i) + hist[i]
<1> DEFINE A == Earlier(R, i)
           B == BucketAt(R, i)
<1>1. Earlier(R, i + 1) = A \cup B /\ A \cap B = {}
  <2>1. i \in Nat
    BY EdgeList
  <2>2. ASSUME NEW p \in R
        PROVE  BucketIndex(Latency[p]) < i + 1 <=>
                 BucketIndex(Latency[p]) < i \/ BucketIndex(Latency[p]) = i
    <3>1. BucketIndex(Latency[p]) \in Nat
      BY InBucket, EdgeList
    <3> QED BY <2>1, <3>1
  <2>3. ASSUME NEW p \in R
        PROVE  ~(BucketIndex(Latency[p]) < i /\ BucketIndex(Latency[p]) = i)
    BY <2>1
  <2> QED BY <2>2, <2>3 DEF Earlier, BucketAt
<1>2. IsFiniteSet(A) /\ IsFiniteSet(B) /\ hist[i] = Cardinality(B) /\ hist[i] \in Nat
      /\ EarlierCount(R, i) \in Nat
  BY PartsFinite
<1>3. EarlierCount(R, i) = Cardinality(A) /\ EarlierCount(R, i + 1) = Cardinality(A \cup B)
  BY <1>1 DEF EarlierCount
<1> HIDE DEF A, B
<1>4. Cardinality(A \cup B) = Cardinality(A) + Cardinality(B) - Cardinality({})
  BY <1>1, <1>2, FS_Union
<1> QED BY <1>2, <1>3, <1>4, FS_EmptySet

LEMMA EarlierFewer ==
  ASSUME NEW R, NEW hist, Tallied(R, hist), NEW i \in Nat, NEW j \in Nat, i <= j
  PROVE  EarlierCount(R, i) <= EarlierCount(R, j)
<1>1. Earlier(R, i) \in SUBSET Earlier(R, j)
  <2> SUFFICES ASSUME NEW p \in R, BucketIndex(Latency[p]) < i PROVE BucketIndex(Latency[p]) < j
    BY DEF Earlier
  <2>1. BucketIndex(Latency[p]) \in Nat
    BY InBucket, EdgeList
  <2> QED BY <2>1
<1>2. IsFiniteSet(Earlier(R, j))
  BY PartsFinite
<1> QED BY <1>1, <1>2, FS_Subset DEF EarlierCount

LEMMA EarlierAll ==
  ASSUME NEW R, NEW hist, Tallied(R, hist)
  PROVE  EarlierCount(R, L + 2) = Cardinality(R)
<1>1. ASSUME NEW p \in R PROVE BucketIndex(Latency[p]) < L + 2
  BY InBucket, EdgeList
<1>2. Earlier(R, L + 2) = R
  BY <1>1 DEF Earlier
<1> QED BY <1>2 DEF EarlierCount

\* The sum over the buckets before one.
LEMMA SumBefore ==
  ASSUME NEW R, NEW hist, Tallied(R, hist), NEW i \in 1 .. L + 2
  PROVE  SumFunctionOnSet(hist, 1 .. i - 1) = EarlierCount(R, i)
<1> DEFINE part == [k \in Buckets |-> BucketAt(R, k)]
           I == 1 .. i - 1
<1>0. L \in Nat /\ i \in Nat /\ i >= 1
  BY EdgeList
<1>1. \A k \in I : k \in Buckets /\ k \in Nat
  BY <1>0, EdgeList
<1>2. IsFiniteSet(I)
  <2>1. PICK c \in Nat : c = i - 1
    BY <1>0
  <2> QED BY <2>1, FS_Interval
<1>3. \A k \in I : part[k] = BucketAt(R, k)
  BY <1>1
<1>4. UNION {part[k] : k \in I} = Earlier(R, i)
  <2>1. ASSUME NEW k \in I, NEW p \in BucketAt(R, k) PROVE p \in Earlier(R, i)
    <3>1. k < i
      BY <1>0
    <3> QED BY <3>1 DEF BucketAt, Earlier
  <2>2. ASSUME NEW p \in Earlier(R, i) PROVE \E k \in I : p \in BucketAt(R, k)
    <3>1. p \in R /\ BucketIndex(Latency[p]) < i
      BY DEF Earlier
    <3>2. BucketIndex(Latency[p]) \in 1 .. L + 1
      BY <3>1, InBucket, EdgeList
    <3>3. BucketIndex(Latency[p]) \in I
      BY <1>0, <3>1, <3>2
    <3> QED BY <3>1, <3>3, InBucket
  <2> HIDE DEF part, I
  <2> QED BY <1>3, <2>1, <2>2
<1> HIDE DEF part, I
<1>5. CountsParts(hist, R, part, I)
  <2>1. IsFiniteSet(R)
    BY DEF Tallied
  <2>2. \A k \in I : part[k] \subseteq R /\ hist[k] = Cardinality(part[k])
    BY <1>1, <1>3, PartsFinite DEF BucketAt
  <2>3. \A j, k \in I : j # k => part[j] \cap part[k] = {}
    BY <1>3 DEF BucketAt
  <2> QED BY <1>2, <2>1, <2>2, <2>3 DEF CountsParts
<1>6. SumFunctionOnSet(hist, I) = Cardinality(UNION {part[k] : k \in I})
  BY <1>5, SumOfParts
<1>7. SumFunctionOnSet(hist, I) = EarlierCount(R, i)
  BY <1>4, <1>6 DEF EarlierCount
<1> QED BY <1>7 DEF I

LEMMA SumAll ==
  ASSUME NEW R, NEW hist, Tallied(R, hist)
  PROVE  SumFunction(hist) = Cardinality(R)
<1>1. L \in Nat /\ L + 2 \in 1 .. L + 2 /\ (L + 2) - 1 = L + 1
  BY EdgeList
<1>2. SumFunctionOnSet(hist, 1 .. L + 1) = EarlierCount(R, L + 2)
  BY <1>1, SumBefore
<1>3. DOMAIN hist = 1 .. L + 1
  BY EdgeList DEF Tallied
<1> QED BY <1>2, <1>3, EarlierAll DEF SumFunction

--------------------------------------------------------------------------------
(* The bucket of the rank is that of the latency which has the rank.        *)

Seen(R) == {Latency[p] : p \in R}
AtMost(R, v) == {p \in R : Latency[p] <= v}
Populated(hist) == {i \in Buckets : hist[i] > 0}
Percents == 1 .. 100

\* What the definition of Percentile looks for, in counts of probes.
Reaching(R, hist, percent) ==
  {k \in Populated(hist) : 100 * EarlierCount(R, k + 1) >= percent * Cardinality(R)}
RankBucket(R, hist, percent) == Min(Reaching(R, hist, percent))

\* The latencies that have the rank, the least of which is the percentile.
Ranked(R, percent) == {v \in Seen(R) : 100 * Cardinality(AtMost(R, v)) >= percent * Cardinality(R)}
TrueRank(R, percent) == Min(Ranked(R, percent))

\* Of finitely many probes one is the slowest.
LEMMA Slowest ==
  ASSUME NEW S, IsFiniteSet(S), S # {}, \A p \in S : Latency[p] \in Nat
  PROVE  \E p \in S : \A q \in S : Latency[q] <= Latency[p]
<1> DEFINE From(v) == {p \in S : Latency[p] >= v}
           D == {s \in SUBSET S : s # {} /\ \E v \in Nat : s = From(v)}
<1>1. D # {}
  <2>1. From(0) = S
    OBVIOUS
  <2> QED BY <2>1
<1>2. PICK s \in D : \A t \in D : ~(t \subseteq s /\ t # s)
  <2>1. D \in SUBSET (SUBSET S)
    OBVIOUS
  <2> HIDE DEF D
  <2> QED BY <1>1, <2>1, LeastSubset
<1>3. PICK v \in Nat : s = From(v)
  OBVIOUS
<1>4. PICK p \in s : p \in S /\ Latency[p] >= v
  BY <1>3
<1>5. Latency[p] + 1 \in Nat
  BY <1>4
<1>6. From(Latency[p] + 1) \subseteq s
  BY <1>3, <1>4
<1>7. p \notin From(Latency[p] + 1)
  BY <1>4
<1>8. From(Latency[p] + 1) \notin D
  BY <1>2, <1>4, <1>6, <1>7
<1>9. From(Latency[p] + 1) = {}
  BY <1>5, <1>8
<1>10. ASSUME NEW q \in S PROVE Latency[q] <= Latency[p]
  <2>1. q \notin From(Latency[p] + 1)
    BY <1>9
  <2> QED BY <1>4, <2>1
<1> QED BY <1>4, <1>10

LEMMA MaxIs ==
  ASSUME NEW S \in SUBSET Nat, NEW m \in S, \A x \in S : x <= m
  PROVE  Max(S) = m
<1>1. \E x \in S : \A y \in S : x >= y
  OBVIOUS
<1>2. Max(S) \in S /\ \A y \in S : Max(S) >= y
  BY <1>1 DEF Max
<1>3. Max(S) >= m /\ Max(S) <= m
  BY <1>2
<1>4. Max(S) \in Nat /\ m \in Nat
  BY <1>2
<1> HIDE DEF Max
<1> QED BY <1>3, <1>4

\* The observed extremes are latencies of two probes.
LEMMA Extremes ==
  ASSUME NEW R, NEW hist, Tallied(R, hist)
  PROVE  /\ Seen(R) \in SUBSET Nat /\ Seen(R) # {}
         /\ Min(Seen(R)) \in Nat /\ Max(Seen(R)) \in Nat
         /\ \A p \in R : Min(Seen(R)) <= Latency[p] /\ Latency[p] <= Max(Seen(R))
         /\ \E p \in R : Latency[p] = Min(Seen(R))
         /\ \E p \in R : Latency[p] = Max(Seen(R))
<1>1. IsFiniteSet(R) /\ R # {} /\ \A p \in R : Latency[p] \in Nat
  BY DEF Tallied
<1>2. Seen(R) \in SUBSET Nat /\ Seen(R) # {}
  BY <1>1 DEF Seen
<1>3. Min(Seen(R)) \in Seen(R) /\ \A v \in Seen(R) : Min(Seen(R)) <= v
  BY <1>2, MinOfNat
<1>4. PICK q \in R : \A p \in R : Latency[p] <= Latency[q]
  BY <1>1, Slowest
<1>5. Latency[q] \in Seen(R) /\ \A v \in Seen(R) : v <= Latency[q]
  BY <1>4 DEF Seen
<1>6. Max(Seen(R)) = Latency[q]
  BY <1>2, <1>5, MaxIs
<1>7. \A p \in R : Latency[p] \in Seen(R)
  BY DEF Seen
<1>8. \E p \in R : Latency[p] = Min(Seen(R))
  BY <1>3 DEF Seen
<1> QED BY <1>1, <1>2, <1>3, <1>4, <1>6, <1>7, <1>8

\* Some bucket reaches every rank: the last that holds a probe.
LEMMA RankFound ==
  ASSUME NEW R, NEW hist, Tallied(R, hist), NEW percent \in Percents
  PROVE  /\ Populated(hist) \in SUBSET Nat /\ Reaching(R, hist, percent) # {}
         /\ RankBucket(R, hist, percent) \in Reaching(R, hist, percent)
         /\ \A k \in Reaching(R, hist, percent) : RankBucket(R, hist, percent) <= k
<1>1. Populated(hist) \in SUBSET Nat /\ Reaching(R, hist, percent) \in SUBSET Nat
  BY EdgeList DEF Populated, Reaching
<1>2. IsFiniteSet(R) /\ R # {} /\ \A p \in R : Latency[p] \in Nat
  BY DEF Tallied
<1>3. PICK q \in R : \A p \in R : Latency[p] <= Latency[q]
  BY <1>2, Slowest
<1>4. PICK k \in Buckets : k = BucketIndex(Latency[q]) /\ q \in BucketAt(R, k) /\ k \in Nat
  BY InBucket, EdgeList
<1>5. k \in Populated(hist)
  BY <1>4, PartsFinite DEF Populated
<1>6. Earlier(R, k + 1) = R
  <2>1. ASSUME NEW p \in R PROVE BucketIndex(Latency[p]) < k + 1
    <3>1. BucketIndex(Latency[p]) <= k
      BY <1>2, <1>3, <1>4, BucketsOrdered
    <3>2. BucketIndex(Latency[p]) \in Nat
      BY InBucket, EdgeList
    <3> QED BY <1>4, <3>1, <3>2
  <2> QED BY <2>1 DEF Earlier
<1>7. PICK n \in Nat : n = Cardinality(R)
  BY PartsFinite
<1>8. 100 * n >= percent * n
  <2>1. percent \in Nat /\ percent <= 100
    BY DEF Percents
  <2> QED BY <2>1
<1>9. k \in Reaching(R, hist, percent)
  BY <1>5, <1>6, <1>7, <1>8 DEF Reaching, EarlierCount
<1> QED BY <1>1, <1>9, MinOfNat DEF RankBucket

LEMMA RankReached ==
  ASSUME NEW R, NEW hist, Tallied(R, hist), NEW percent \in Percents,
         NEW need, need = percent * Cardinality(R)
  PROVE  \E i \in Buckets : /\ i = RankBucket(R, hist, percent) /\ i \in Nat
                            /\ i \in Populated(hist) /\ i \in Reaching(R, hist, percent)
                            /\ 100 * EarlierCount(R, i + 1) >= need
<1> DEFINE i == RankBucket(R, hist, percent)
<1>1. i \in Reaching(R, hist, percent)
  BY RankFound
<1> HIDE DEF i
<1>2. i \in Populated(hist) /\ 100 * EarlierCount(R, i + 1) >= need
  BY <1>1 DEF Reaching
<1>3. i \in Buckets
  BY <1>2 DEF Populated
<1>4. i \in Nat
  BY <1>3, EdgeList
<1> QED BY <1>1, <1>2, <1>3, <1>4, Zenon DEF i

LEMMA RankIn ==
  ASSUME NEW R, NEW hist, Tallied(R, hist), NEW percent \in Percents
  PROVE  /\ RankBucket(R, hist, percent) \in Buckets
         /\ RankBucket(R, hist, percent) \in Nat
         /\ RankBucket(R, hist, percent) \in Populated(hist)
<1>1. PICK i \in Buckets : i = RankBucket(R, hist, percent) /\ i \in Nat /\ i \in Populated(hist)
  BY RankReached
<1> QED BY <1>1

\* Interpolation does not leave the bucket of the true rank.
LEMMA RankIsTrue ==
  ASSUME NEW R, NEW hist, Tallied(R, hist), NEW percent \in Percents
  PROVE  BucketIndex(TrueRank(R, percent)) = RankBucket(R, hist, percent)
<1>1. IsFiniteSet(R) /\ \A p \in R : Latency[p] \in Nat
  BY DEF Tallied
<1>2. PICK need \in Nat : need = percent * Cardinality(R)
  BY PartsFinite DEF Percents
<1>3. PICK i \in Buckets : i = RankBucket(R, hist, percent) /\ i \in Populated(hist) /\ i \in Nat
                           /\ 100 * EarlierCount(R, i + 1) >= need
  BY <1>2, RankReached, Zenon
\* The slowest up to that bucket has the rank.
<1>4. PICK q \in Earlier(R, i + 1) : \A p \in Earlier(R, i + 1) : Latency[p] <= Latency[q]
  <2>1. PICK p \in BucketAt(R, i) : TRUE
    BY <1>3, PartsFinite DEF Populated
  <2>2. p \in Earlier(R, i + 1)
    BY <1>3, <2>1 DEF BucketAt, Earlier
  <2>3. IsFiniteSet(Earlier(R, i + 1))
    BY PartsFinite
  <2>4. \A r \in Earlier(R, i + 1) : Latency[r] \in Nat
    BY <1>1 DEF Earlier
  <2> QED BY <2>2, <2>3, <2>4, Slowest
<1>5. q \in R /\ Latency[q] \in Nat /\ Latency[q] \in Seen(R) /\ BucketIndex(Latency[q]) <= i
  <2>1. q \in R /\ BucketIndex(Latency[q]) < i + 1
    BY DEF Earlier
  <2>2. BucketIndex(Latency[q]) \in Nat
    BY <2>1, InBucket, EdgeList
  <2> QED BY <1>1, <1>3, <2>1, <2>2 DEF Seen
<1>6. \A v : IsFiniteSet(AtMost(R, v)) /\ Cardinality(AtMost(R, v)) \in Nat
  <2>1. \A v : AtMost(R, v) \in SUBSET R
    BY DEF AtMost
  <2>2. \A v : IsFiniteSet(AtMost(R, v))
    BY <1>1, <2>1, FS_Subset
  <2> QED BY <2>2, FS_CardinalityType
<1>7. Latency[q] \in Ranked(R, percent)
  <2>1. Earlier(R, i + 1) \in SUBSET AtMost(R, Latency[q])
    BY <1>4 DEF AtMost, Earlier
  <2>2. EarlierCount(R, i + 1) <= Cardinality(AtMost(R, Latency[q]))
    BY <1>6, <2>1, FS_Subset DEF EarlierCount
  <2>3. EarlierCount(R, i + 1) \in Nat
    BY PartsFinite
  <2>4. 100 * Cardinality(AtMost(R, Latency[q])) >= need
    BY <1>3, <1>6, <2>2, <2>3
  <2> QED BY <1>2, <1>5, <2>4 DEF Ranked
<1>8. Ranked(R, percent) \in SUBSET Nat
  BY <1>1 DEF Ranked, Seen
<1>9. PICK v \in Ranked(R, percent) : v = TrueRank(R, percent) /\ v <= Latency[q]
  BY <1>7, <1>8, MinOfNat DEF TrueRank
<1>10. v \in Nat /\ BucketIndex(v) \in Buckets /\ BucketIndex(v) \in Nat
  BY <1>8, BucketBounds, EdgeList
<1>11. BucketIndex(v) <= i
  <2>1. BucketIndex(v) <= BucketIndex(Latency[q])
    BY <1>5, <1>9, <1>10, BucketsOrdered
  <2>2. BucketIndex(Latency[q]) \in Nat
    BY <1>5, InBucket, EdgeList
  <2> QED BY <1>3, <1>5, <1>10, <2>1, <2>2
\* The bucket of what has the rank reaches it.
<1>12. BucketIndex(v) \in Reaching(R, hist, percent)
  <2> DEFINE b == BucketIndex(v)
  <2>1. AtMost(R, v) \in SUBSET Earlier(R, b + 1)
    <3> SUFFICES ASSUME NEW p \in R, Latency[p] <= v PROVE BucketIndex(Latency[p]) < b + 1
      BY DEF AtMost, Earlier
    <3>1. BucketIndex(Latency[p]) <= b
      BY <1>1, <1>10, BucketsOrdered
    <3>2. BucketIndex(Latency[p]) \in Nat
      BY InBucket, EdgeList
    <3> QED BY <1>10, <3>1, <3>2
  <2>2. IsFiniteSet(Earlier(R, b + 1)) /\ EarlierCount(R, b + 1) \in Nat
    BY PartsFinite
  <2>3. Cardinality(AtMost(R, v)) <= EarlierCount(R, b + 1)
    BY <2>1, <2>2, FS_Subset DEF EarlierCount
  <2>4. 100 * Cardinality(AtMost(R, v)) >= need /\ Cardinality(AtMost(R, v)) \in Nat
    BY <1>2, <1>6, <1>9 DEF Ranked
  <2>5. 100 * EarlierCount(R, b + 1) >= need
    BY <2>2, <2>3, <2>4
  <2>6. PICK p \in R : Latency[p] = v
    BY <1>9 DEF Ranked, Seen
  <2>7. b \in Populated(hist)
    <3>1. p \in BucketAt(R, b)
      BY <2>6, InBucket
    <3> QED BY <1>10, <3>1, PartsFinite DEF Populated
  <2> QED BY <1>2, <2>5, <2>7 DEF Reaching
<1>13. i <= BucketIndex(v)
  BY <1>3, <1>12, RankFound
<1> QED BY <1>3, <1>9, <1>10, <1>11, <1>13

--------------------------------------------------------------------------------
(* The ends of the bucket, tightened by the extremes, stay ends of it.      *)

LowerOf(R, hist, i) ==
  IF i = Min(Populated(hist)) THEN Larger(Floor(i), Min(Seen(R))) ELSE Floor(i)
EdgeOf(R, i) == IF i \in DOMAIN Edges THEN Edges[i] ELSE Max(Seen(R))
CapOf(R, hist, i) ==
  IF i = Max(Populated(hist)) THEN Smaller(EdgeOf(R, i), Max(Seen(R))) ELSE EdgeOf(R, i)
UpperOf(R, hist, i) == Larger(LowerOf(R, hist, i), CapOf(R, hist, i))

LEMMA MaxOfBounded ==
  ASSUME NEW S \in SUBSET Nat, S # {}, NEW n \in Nat, \A x \in S : x <= n
  PROVE  Max(S) \in S /\ \A y \in S : Max(S) >= y
<1> DEFINE D == {n - x : x \in S}
<1>1. D \in SUBSET Nat /\ D # {}
  <2>1. \A x \in S : n - x \in Nat
    OBVIOUS
  <2> QED BY <2>1
<1>2. PICK d \in D : \A e \in D : d <= e
  BY <1>1, LeastOfNat
<1>3. PICK m \in S : d = n - m
  OBVIOUS
<1>4. ASSUME NEW y \in S PROVE m >= y
  <2>1. d <= n - y
    BY <1>2
  <2> QED BY <1>3, <2>1
<1> QED BY <1>4 DEF Max

LEMMA PopulatedBounds ==
  ASSUME NEW R, NEW hist, Tallied(R, hist), NEW i \in Populated(hist)
  PROVE  /\ Min(Populated(hist)) \in Populated(hist) /\ Min(Populated(hist)) <= i
         /\ Max(Populated(hist)) \in Populated(hist) /\ Max(Populated(hist)) >= i
<1>1. Populated(hist) \in SUBSET Nat /\ L + 1 \in Nat /\ \A k \in Populated(hist) : k <= L + 1
  BY EdgeList DEF Populated
<1> QED BY <1>1, MinOfNat, MaxOfBounded

\* A populated bucket holds a latency between its ends and the extremes.
LEMMA ProbeWithin ==
  ASSUME NEW R, NEW hist, Tallied(R, hist), NEW i \in Populated(hist)
  PROVE  \E t \in Nat : /\ Floor(i) <= t /\ (i \in 1 .. L => t <= Edges[i])
                        /\ Min(Seen(R)) <= t /\ t <= Max(Seen(R))
<1>1. i \in Buckets
  BY DEF Populated
<1>2. PICK p \in BucketAt(R, i) : TRUE
  BY PartsFinite DEF Populated
<1>3. p \in R /\ BucketIndex(Latency[p]) = i
  BY DEF BucketAt
<1>4. Latency[p] \in Nat
  BY <1>3, InBucket
<1>5. Floor(i) <= Latency[p] /\ (i \in 1 .. L => Latency[p] <= Edges[i])
  BY <1>3, <1>4, BucketEnds
<1> QED BY <1>3, <1>4, <1>5, Extremes

LEMMA LowerEnd ==
  ASSUME NEW R, NEW hist, Tallied(R, hist), NEW i \in Populated(hist)
  PROVE  /\ LowerOf(R, hist, i) \in Nat
         /\ Floor(i) <= LowerOf(R, hist, i) /\ Min(Seen(R)) <= LowerOf(R, hist, i)
         /\ \A t \in Nat : Floor(i) <= t /\ Min(Seen(R)) <= t => LowerOf(R, hist, i) <= t
<1>1. i \in Buckets /\ Floor(i) \in Nat /\ Min(Seen(R)) \in Nat
  BY Extremes, FloorShape DEF Populated
<1>2. CASE i = Min(Populated(hist))
  <2>1. LowerOf(R, hist, i) = IF Floor(i) < Min(Seen(R)) THEN Min(Seen(R)) ELSE Floor(i)
    BY <1>2 DEF LowerOf, Larger
  <2> QED BY <1>1, <2>1
<1>3. CASE i # Min(Populated(hist))
  <2>1. PICK m \in Populated(hist) : m < i /\ m \in Buckets
    <3>1. PICK m \in Populated(hist) : m = Min(Populated(hist)) /\ m <= i
      BY PopulatedBounds
    <3>2. m \in Buckets /\ m \in Nat /\ i \in Nat
      BY EdgeList DEF Populated
    <3>3. m < i
      BY <1>3, <3>1, <3>2
    <3> QED BY <3>2, <3>3
  <2>2. m \in 1 .. L /\ Edges[m] <= Floor(i) /\ Edges[m] \in Nat
    BY <1>1, <2>1, FloorShape, EdgeList
  <2>3. PICK t \in Nat : t <= Edges[m] /\ Min(Seen(R)) <= t
    BY <2>2, ProbeWithin
  <2>4. Min(Seen(R)) <= Floor(i)
    BY <1>1, <2>2, <2>3
  <2>5. LowerOf(R, hist, i) = Floor(i)
    BY <1>3 DEF LowerOf
  <2> QED BY <1>1, <2>4, <2>5
<1> QED BY <1>2, <1>3

LEMMA CapEnd ==
  ASSUME NEW R, NEW hist, Tallied(R, hist), NEW i \in Populated(hist)
  PROVE  /\ CapOf(R, hist, i) \in Nat /\ CapOf(R, hist, i) <= Max(Seen(R))
         /\ i \in 1 .. L => CapOf(R, hist, i) <= Edges[i]
         /\ \A t \in Nat : (i \in 1 .. L => t <= Edges[i]) /\ t <= Max(Seen(R))
                             => t <= CapOf(R, hist, i)
<1>1. i \in Buckets /\ i \in Nat /\ Max(Seen(R)) \in Nat
  BY Extremes, EdgeList DEF Populated
<1>2. EdgeOf(R, i) \in Nat /\ (i \in 1 .. L => EdgeOf(R, i) = Edges[i])
      /\ (i \notin 1 .. L => EdgeOf(R, i) = Max(Seen(R)))
  BY <1>1, EdgeList DEF EdgeOf
<1>3. CASE i = Max(Populated(hist))
  <2> DEFINE edge == EdgeOf(R, i)
             most == Max(Seen(R))
             cap == CapOf(R, hist, i)
  <2>1. cap = IF edge < most THEN edge ELSE most
    BY <1>3 DEF CapOf, Smaller
  <2>2. edge \in Nat /\ most \in Nat /\ (i \in 1 .. L => edge = Edges[i])
        /\ (i \notin 1 .. L => edge = most)
    BY <1>1, <1>2
  <2> HIDE DEF edge, most, cap
  <2>3. cap \in Nat /\ cap <= most /\ cap <= edge /\ (cap = edge \/ cap = most)
    BY <2>1, <2>2
  <2>4. /\ i \in 1 .. L => cap <= Edges[i]
        /\ \A t \in Nat : (i \in 1 .. L => t <= Edges[i]) /\ t <= most => t <= cap
    BY <2>2, <2>3
  <2> QED BY <2>3, <2>4 DEF most, cap
<1>4. CASE i # Max(Populated(hist))
  <2>1. PICK m \in Populated(hist) : i < m /\ m \in Buckets
    <3>1. PICK m \in Populated(hist) : m = Max(Populated(hist)) /\ m >= i
      BY PopulatedBounds
    <3>2. m \in Buckets /\ m \in Nat /\ i \in Nat
      BY EdgeList DEF Populated
    <3>3. i < m
      BY <1>4, <3>1, <3>2
    <3> QED BY <3>2, <3>3
  <2>2. i \in 1 .. L /\ Edges[i] <= Floor(m) /\ Edges[i] \in Nat /\ Floor(m) \in Nat
    BY <1>1, <2>1, FloorShape, EdgeList
  <2>3. PICK t \in Nat : Floor(m) <= t /\ t <= Max(Seen(R))
    BY ProbeWithin
  <2>4. Edges[i] <= Max(Seen(R))
    BY <1>1, <2>2, <2>3
  <2>5. CapOf(R, hist, i) = Edges[i]
    BY <1>2, <1>4, <2>2 DEF CapOf
  <2> QED BY <1>1, <2>2, <2>4, <2>5
<1> QED BY <1>3, <1>4

\* What the ends of bucket i are good for.
Enclosed(R, i, lower, upper) ==
  /\ lower \in Nat /\ upper \in Nat /\ lower <= upper
  /\ Min(Seen(R)) <= lower /\ upper <= Max(Seen(R))
  /\ Floor(i) <= lower /\ (i \in 1 .. L => upper <= Edges[i])

LEMMA Ends ==
  ASSUME NEW R, NEW hist, Tallied(R, hist), NEW i \in Populated(hist)
  PROVE  Enclosed(R, i, LowerOf(R, hist, i), UpperOf(R, hist, i))
<1>1. PICK t \in Nat : /\ Floor(i) <= t /\ (i \in 1 .. L => t <= Edges[i])
                       /\ Min(Seen(R)) <= t /\ t <= Max(Seen(R))
  BY ProbeWithin
<1>2. LowerOf(R, hist, i) \in Nat /\ LowerOf(R, hist, i) <= t
  BY <1>1, LowerEnd
<1>3. CapOf(R, hist, i) \in Nat /\ t <= CapOf(R, hist, i)
  BY <1>1, CapEnd
<1>4. UpperOf(R, hist, i) = CapOf(R, hist, i)
  <2>1. UpperOf(R, hist, i) = IF LowerOf(R, hist, i) < CapOf(R, hist, i)
                              THEN CapOf(R, hist, i) ELSE LowerOf(R, hist, i)
    BY DEF UpperOf, Larger
  <2> QED BY <1>2, <1>3, <2>1
<1>5. LowerOf(R, hist, i) <= UpperOf(R, hist, i)
  BY <1>2, <1>3, <1>4
<1> QED BY <1>2, <1>3, <1>4, <1>5, LowerEnd, CapEnd DEF Enclosed

--------------------------------------------------------------------------------
(* The fraction that Percentile interpolates.                               *)

LEMMA TimesOrdered ==
  ASSUME NEW a \in Int, NEW b \in Int, NEW d \in Nat, a <= b
  PROVE  a * d <= b * d
OBVIOUS

LEMMA Distributes ==
  ASSUME NEW l \in Int, NEW d \in Int, NEW c \in Int
  PROVE  (l + d) * c = l * c + d * c /\ (100 * l) * c = l * (100 * c) /\ d * c = c * d
OBVIOUS

Fraction(lower, upper, count, rest) ==
  [num |-> 100 * lower * count + (upper - lower) * rest, den |-> 100 * count]

\* A fraction lies between the ends it interpolates.
LEMMA Between ==
  ASSUME NEW l \in Nat, NEW u \in Nat, l <= u, NEW c \in Nat, NEW r \in Int, 0 <= r, r <= 100 * c
  PROVE  /\ Fraction(l, u, c, r).num \in Int /\ Fraction(l, u, c, r).den = 100 * c
         /\ l * (100 * c) <= Fraction(l, u, c, r).num
         /\ Fraction(l, u, c, r).num <= u * (100 * c)
<1>1. PICK d \in Nat : u = l + d
  <2>1. u - l \in Nat /\ u = l + (u - l)
    OBVIOUS
  <2> QED BY <2>1
<1>2. PICK e \in Nat : e = 100 * c
  OBVIOUS
<1>3. 0 * d <= r * d /\ r * d <= e * d
  BY <1>2, TimesOrdered
<1>4. d * r = r * d /\ d * e = e * d
  BY <1>2, Distributes
<1>5. (100 * l) * c = l * e /\ u * e = l * e + d * e
  BY <1>1, <1>2, Distributes
<1>6. u - l = d
  BY <1>1
<1>7. Fraction(l, u, c, r).num = (100 * l) * c + (u - l) * r /\ Fraction(l, u, c, r).den = 100 * c
  BY DEF Fraction
<1>8. Fraction(l, u, c, r).num = l * e + d * r
  BY <1>5, <1>6, <1>7
<1>9. l * e \in Int /\ d * r \in Int /\ d * e \in Int
  BY <1>2
<1>10. 0 <= d * r /\ d * r <= d * e
  BY <1>3, <1>4
<1> QED BY <1>2, <1>5, <1>7, <1>8, <1>9, <1>10

\* A later rank in the bucket gives no lower fraction.
LEMMA LaterRank ==
  ASSUME NEW l \in Nat, NEW u \in Nat, l <= u, NEW c \in Nat, NEW r \in Int, NEW s \in Int, r <= s
  PROVE  Fraction(l, u, c, r).num <= Fraction(l, u, c, s).num
<1>1. PICK d \in Nat : d = u - l
  OBVIOUS
<1>2. r * d <= s * d /\ r * d = d * r /\ s * d = d * s
  BY TimesOrdered, Distributes
<1>3. Fraction(l, u, c, r).num = 100 * l * c + d * r
  BY <1>1 DEF Fraction
<1>4. Fraction(l, u, c, s).num = 100 * l * c + d * s
  BY <1>1 DEF Fraction
<1>5. 100 * l * c \in Int /\ d * r \in Int /\ d * s \in Int
  OBVIOUS
<1>6. d * r <= d * s
  BY <1>2
<1> QED BY <1>3, <1>4, <1>5, <1>6

\* Two fractions with an end between them, multiplied out.
LEMMA CrossOrdered ==
  ASSUME NEW m \in Int, NEW n \in Int, NEW d \in Nat, NEW e \in Nat, NEW u \in Nat, NEW l \in Nat,
         m <= u * d, u <= l, l * e <= n
  PROVE  m * e <= n * d
<1>1. m * e <= (u * d) * e
  <2>1. u * d \in Int
    OBVIOUS
  <2> QED BY <2>1, TimesOrdered
<1>2. u * (d * e) <= l * (d * e)
  <2>1. d * e \in Nat
    OBVIOUS
  <2> QED BY <2>1, TimesOrdered
<1>3. (l * e) * d <= n * d
  <2>1. l * e \in Int
    OBVIOUS
  <2> QED BY <2>1, TimesOrdered
<1>4. (u * d) * e = u * (d * e) /\ (l * e) * d = l * (d * e)
  OBVIOUS
<1>5. m * e \in Int /\ n * d \in Int /\ u * (d * e) \in Int /\ l * (d * e) \in Int
  OBVIOUS
<1> QED BY <1>1, <1>2, <1>3, <1>4, <1>5

\* What is left of the rank in its bucket.
RestOf(R, hist, percent) ==
  percent * Cardinality(R) - 100 * EarlierCount(R, RankBucket(R, hist, percent))
ValueOf(R, hist, percent) ==
  LET i == RankBucket(R, hist, percent)
  IN Fraction(LowerOf(R, hist, i), UpperOf(R, hist, i), hist[i], RestOf(R, hist, percent))

\* Percentile, in counts of probes.
LEMMA PercentileIs ==
  ASSUME NEW R, NEW hist, Tallied(R, hist), NEW percent \in Percents
  PROVE  Percentile(hist, percent, Min(Seen(R)), Max(Seen(R))) = ValueOf(R, hist, percent)
<1>1. SumFunction(hist) = Cardinality(R)
  BY SumAll
<1>2. \A k \in Buckets : SumFunctionOnSet(hist, 1 .. k - 1) = EarlierCount(R, k)
  <2>1. \A k \in Buckets : k \in 1 .. L + 2
    BY EdgeList
  <2> QED BY <2>1, SumBefore
<1>3. ASSUME NEW k \in Populated(hist)
      PROVE  Reaches(SumFunctionOnSet(hist, 1 .. k - 1), hist[k], percent, SumFunction(hist))
               <=> 100 * EarlierCount(R, k + 1) >= percent * Cardinality(R)
  <2>1. k \in Buckets
    BY DEF Populated
  <2>2. EarlierCount(R, k + 1) = EarlierCount(R, k) + hist[k]
    BY <2>1, EarlierNext
  <2> QED BY <1>1, <1>2, <2>1, <2>2 DEF Reaches
<1>4. {k \in Populated(hist) :
         Reaches(SumFunctionOnSet(hist, 1 .. k - 1), hist[k], percent, SumFunction(hist))}
        = Reaching(R, hist, percent)
  BY <1>3 DEF Reaching
<1> DEFINE i == RankBucket(R, hist, percent)
<1>5. i = Min({k \in Populated(hist) :
         Reaches(SumFunctionOnSet(hist, 1 .. k - 1), hist[k], percent, SumFunction(hist))})
  BY <1>4 DEF RankBucket
<1>6. SumFunctionOnSet(hist, 1 .. i - 1) = EarlierCount(R, i)
  <2>1. i \in Buckets
    BY RankIn, Zenon
  <2> QED BY <1>2, <2>1, Zenon
<1> HIDE DEF i
<1>7. Percentile(hist, percent, Min(Seen(R)), Max(Seen(R)))
        = Fraction(LowerOf(R, hist, i), UpperOf(R, hist, i), hist[i],
                   percent * SumFunction(hist) - 100 * SumFunctionOnSet(hist, 1 .. i - 1))
  BY <1>5, ZenonT(40)
     DEF Percentile, Fraction, LowerOf, UpperOf, CapOf, EdgeOf, Populated
<1>8. RestOf(R, hist, percent)
        = percent * SumFunction(hist) - 100 * SumFunctionOnSet(hist, 1 .. i - 1)
  BY <1>1, <1>6, Zenon DEF RestOf, i
<1> QED BY <1>7, <1>8, Zenon DEF ValueOf, i

\* The rank lies in its bucket: no bucket before it reaches it.
LEMMA RestWithin ==
  ASSUME NEW R, NEW hist, Tallied(R, hist), NEW percent \in Percents
  PROVE  /\ RestOf(R, hist, percent) \in Int /\ 0 <= RestOf(R, hist, percent)
         /\ RestOf(R, hist, percent) <= 100 * hist[RankBucket(R, hist, percent)]
<1>1. PICK n \in Nat \ {0} : n = Cardinality(R)
  BY PartsFinite
<1>2. PICK need \in Nat \ {0} : need = percent * n
  BY DEF Percents
<1>3. PICK i \in Buckets : i = RankBucket(R, hist, percent) /\ i \in Reaching(R, hist, percent)
                           /\ i \in Nat /\ 100 * EarlierCount(R, i + 1) >= need
  <2>1. need = percent * Cardinality(R)
    BY <1>1, <1>2
  <2> QED BY <2>1, RankReached, Zenon
<1>4. PICK before \in Nat : before = EarlierCount(R, i)
  BY PartsFinite
<1>5. PICK count \in Nat : count = hist[i]
  BY PartsFinite
<1>6. EarlierCount(R, i + 1) = before + count
  BY <1>4, <1>5, EarlierNext
<1>7. 100 * before <= need
  <2> SUFFICES ASSUME 100 * before > need PROVE FALSE
    BY <1>2, <1>4
  <2>1. Earlier(R, i) # {} /\ IsFiniteSet(Earlier(R, i))
    <3>1. before # 0
      BY <1>2
    <3> QED BY <1>4, <3>1, PartsFinite, FS_EmptySet DEF EarlierCount
  <2>2. \A p \in Earlier(R, i) : p \in R /\ Latency[p] \in Nat /\ BucketIndex(Latency[p]) < i
    BY InBucket DEF Earlier
  <2>3. PICK q \in Earlier(R, i) : \A p \in Earlier(R, i) : Latency[p] <= Latency[q]
    BY <2>1, <2>2, Slowest
  <2>4. PICK b \in Buckets : b = BucketIndex(Latency[q]) /\ q \in BucketAt(R, b) /\ b < i /\ b \in Nat
    BY <2>2, InBucket, EdgeList
  <2>5. b \in Populated(hist)
    BY <2>4, PartsFinite DEF Populated
  <2>6. Earlier(R, i) \in SUBSET Earlier(R, b + 1)
    <3> SUFFICES ASSUME NEW p \in Earlier(R, i) PROVE BucketIndex(Latency[p]) < b + 1
      BY <2>2 DEF Earlier
    <3>1. BucketIndex(Latency[p]) <= b
      BY <2>2, <2>3, <2>4, BucketsOrdered
    <3>2. BucketIndex(Latency[p]) \in Nat
      BY <2>2, InBucket, EdgeList
    <3> QED BY <2>4, <3>1, <3>2
  <2>7. before <= EarlierCount(R, b + 1) /\ EarlierCount(R, b + 1) \in Nat
    BY <1>4, <2>6, PartsFinite, FS_Subset DEF EarlierCount
  <2>8. 100 * EarlierCount(R, b + 1) >= need
    BY <2>7
  <2>9. b \in Reaching(R, hist, percent)
    BY <1>1, <1>2, <2>5, <2>8 DEF Reaching
  <2>10. i <= b
    BY <1>3, <2>9, RankFound
  <2> QED BY <1>3, <2>4, <2>10
<1>8. RestOf(R, hist, percent) = need - 100 * before
  BY <1>1, <1>2, <1>3, <1>4 DEF RestOf
<1>9. need <= 100 * (before + count)
  BY <1>3, <1>6
<1>10. hist[RankBucket(R, hist, percent)] = count
  BY <1>3, <1>5
<1> QED BY <1>7, <1>8, <1>9, <1>10

\* The fraction, and what it is made of.
Interpolated(R, hist, percent, i, l, u, c, r) ==
  /\ i = RankBucket(R, hist, percent) /\ i \in Populated(hist) /\ i \in Buckets /\ i \in Nat
  /\ l = LowerOf(R, hist, i) /\ u = UpperOf(R, hist, i) /\ Enclosed(R, i, l, u)
  /\ c = hist[i] /\ c \in Nat \ {0}
  /\ r = RestOf(R, hist, percent) /\ r \in Int /\ 0 <= r /\ r <= 100 * c
  /\ ValueOf(R, hist, percent) = Fraction(l, u, c, r)

LEMMA Parts ==
  ASSUME NEW R, NEW hist, Tallied(R, hist), NEW percent \in Percents
  PROVE  \E i, l, u, c, r : Interpolated(R, hist, percent, i, l, u, c, r)
<1> DEFINE i == RankBucket(R, hist, percent)
           l == LowerOf(R, hist, i)
           u == UpperOf(R, hist, i)
           c == hist[i]
           r == RestOf(R, hist, percent)
<1>1. i \in Populated(hist) /\ i \in Buckets /\ i \in Nat
  BY RankIn, Zenon
<1>2. Enclosed(R, i, l, u)
  BY <1>1, Ends
<1>3. c \in Nat \ {0}
  BY <1>1, PartsFinite DEF Populated
<1>4. r \in Int /\ 0 <= r /\ r <= 100 * c
  BY RestWithin
<1>5. ValueOf(R, hist, percent) = Fraction(l, u, c, r)
  BY DEF ValueOf
<1>6. Interpolated(R, hist, percent, i, l, u, c, r)
  BY <1>1, <1>2, <1>3, <1>4, <1>5, Zenon DEF Interpolated
<1> QED BY <1>6, Zenon

\* A percentile lies within the extremes, and in its bucket.
InItsBucket(R, v, b) ==
  /\ Min(Seen(R)) * v.den <= v.num /\ v.num <= Max(Seen(R)) * v.den
  /\ Floor(b) * v.den <= v.num
  /\ b \in DOMAIN Edges => v.num <= Edges[b] * v.den

LEMMA ValueInBucket ==
  ASSUME NEW R, NEW hist, Tallied(R, hist), NEW percent \in Percents
  PROVE  InItsBucket(R, ValueOf(R, hist, percent), RankBucket(R, hist, percent))
<1>1. PICK i, l, u, c, r : Interpolated(R, hist, percent, i, l, u, c, r)
  BY Parts
<1>2. PICK least \in Nat : least = Min(Seen(R))
  BY Extremes
<1>3. PICK most \in Nat : most = Max(Seen(R))
  BY Extremes
<1>4. PICK floor \in Nat : floor = Floor(i)
  BY <1>1, FloorShape DEF Interpolated
<1>5. /\ l \in Nat /\ u \in Nat /\ l <= u /\ c \in Nat /\ r \in Int /\ 0 <= r /\ r <= 100 * c
      /\ least <= l /\ u <= most /\ floor <= l
      /\ i \in 1 .. L => u <= Edges[i]
  BY <1>1, <1>2, <1>3, <1>4 DEF Interpolated, Enclosed
<1>6. PICK num \in Int : num = Fraction(l, u, c, r).num /\ l * (100 * c) <= num /\ num <= u * (100 * c)
  <2>1. /\ Fraction(l, u, c, r).num \in Int
        /\ l * (100 * c) <= Fraction(l, u, c, r).num /\ Fraction(l, u, c, r).num <= u * (100 * c)
    BY <1>5, Between
  <2> QED BY <2>1, Zenon
<1>7. PICK den \in Nat : den = 100 * c /\ den = Fraction(l, u, c, r).den
  <2>1. 100 * c \in Nat
    BY <1>5
  <2>2. Fraction(l, u, c, r).den = 100 * c
    BY DEF Fraction
  <2> QED BY <2>1, <2>2, Zenon
<1>8. least * den <= num /\ floor * den <= num
  <2>1. least * den <= l * den /\ floor * den <= l * den
    BY <1>5, TimesOrdered
  <2>2. least * den \in Int /\ floor * den \in Int /\ l * den \in Int
    BY <1>5
  <2> QED BY <1>6, <1>7, <2>1, <2>2
<1>9. num <= most * den
  <2>1. u * den <= most * den
    BY <1>5, TimesOrdered
  <2>2. u * den \in Int /\ most * den \in Int
    BY <1>5
  <2> QED BY <1>6, <1>7, <2>1, <2>2
<1>10. ASSUME i \in DOMAIN Edges PROVE num <= Edges[i] * den
  <2>1. PICK edge \in Nat : edge = Edges[i] /\ u <= edge
    BY <1>5, <1>10, EdgeList
  <2>2. u * den <= edge * den
    BY <1>5, <2>1, TimesOrdered
  <2>3. u * den \in Int /\ edge * den \in Int
    BY <1>5
  <2> QED BY <1>6, <1>7, <2>1, <2>2, <2>3
<1>11. /\ ValueOf(R, hist, percent).num = num /\ ValueOf(R, hist, percent).den = den
       /\ i = RankBucket(R, hist, percent)
  BY <1>1, <1>6, <1>7 DEF Interpolated
<1> QED BY <1>2, <1>3, <1>4, <1>8, <1>9, <1>10, <1>11 DEF InItsBucket

\* A higher percentile is not in an earlier bucket, nor earlier in the same one.
LEMMA ValuesOrdered ==
  ASSUME NEW R, NEW hist, Tallied(R, hist), NEW low \in Percents, NEW high \in Percents, low <= high
  PROVE  ValueOf(R, hist, low).num * ValueOf(R, hist, high).den
           <= ValueOf(R, hist, high).num * ValueOf(R, hist, low).den
<1>1. PICK i, l, u, c, r : Interpolated(R, hist, low, i, l, u, c, r)
  BY Parts
<1>2. PICK j, m, w, d, s : Interpolated(R, hist, high, j, m, w, d, s)
  BY Parts
<1>3. /\ l \in Nat /\ u \in Nat /\ l <= u /\ c \in Nat /\ r \in Int /\ 0 <= r /\ r <= 100 * c
      /\ i \in Buckets /\ i \in Nat /\ (i \in 1 .. L => u <= Edges[i])
  BY <1>1 DEF Interpolated, Enclosed
<1>4. /\ m \in Nat /\ w \in Nat /\ m <= w /\ d \in Nat /\ s \in Int /\ 0 <= s /\ s <= 100 * d
      /\ j \in Buckets /\ j \in Nat /\ Floor(j) <= m
  BY <1>2 DEF Interpolated, Enclosed
<1>5. ValueOf(R, hist, low) = Fraction(l, u, c, r) /\ ValueOf(R, hist, high) = Fraction(m, w, d, s)
  BY <1>1, <1>2 DEF Interpolated
<1>6. PICK n \in Nat : n = Cardinality(R)
  BY PartsFinite
<1>7. low * n <= high * n /\ low * n \in Nat /\ high * n \in Nat
  BY TimesOrdered DEF Percents
<1>8. i <= j
  <2>1. j \in Reaching(R, hist, high)
    BY <1>2, RankFound DEF Interpolated
  <2>2. 100 * EarlierCount(R, j + 1) >= high * n /\ EarlierCount(R, j + 1) \in Nat
    BY <1>6, <2>1, PartsFinite DEF Reaching
  <2>3. 100 * EarlierCount(R, j + 1) >= low * n
    BY <1>7, <2>2
  <2>4. j \in Reaching(R, hist, low)
    BY <1>6, <2>1, <2>3 DEF Reaching
  <2> QED BY <1>1, <2>4, RankFound DEF Interpolated
<1>9. PICK numLow \in Int : numLow = Fraction(l, u, c, r).num /\ numLow <= u * (100 * c)
  <2>1. Fraction(l, u, c, r).num \in Int /\ Fraction(l, u, c, r).num <= u * (100 * c)
    BY <1>3, Between
  <2> QED BY <2>1, Zenon
<1>10. PICK numHigh \in Int : numHigh = Fraction(m, w, d, s).num /\ m * (100 * d) <= numHigh
  <2>1. Fraction(m, w, d, s).num \in Int /\ m * (100 * d) <= Fraction(m, w, d, s).num
    BY <1>4, Between
  <2> QED BY <2>1, Zenon
<1>11. PICK denLow \in Nat : denLow = 100 * c /\ denLow = Fraction(l, u, c, r).den
  <2>1. 100 * c \in Nat
    BY <1>3
  <2>2. Fraction(l, u, c, r).den = 100 * c
    BY DEF Fraction
  <2> QED BY <2>1, <2>2, Zenon
<1>12. PICK denHigh \in Nat : denHigh = 100 * d /\ denHigh = Fraction(m, w, d, s).den
  <2>1. 100 * d \in Nat
    BY <1>4
  <2>2. Fraction(m, w, d, s).den = 100 * d
    BY DEF Fraction
  <2> QED BY <2>1, <2>2, Zenon
<1>13. CASE i = j
  <2>1. l = m /\ u = w /\ c = d
    BY <1>1, <1>2, <1>13 DEF Interpolated
  <2>2. r <= s
    <3>1. PICK before \in Nat : before = EarlierCount(R, i)
      BY PartsFinite
    <3>2. r = low * n - 100 * before /\ s = high * n - 100 * before
      BY <1>1, <1>2, <1>6, <1>13, <3>1 DEF Interpolated, RestOf
    <3> QED BY <1>7, <3>1, <3>2
  <2>3. numLow <= numHigh
    BY <1>3, <1>4, <1>9, <1>10, <2>1, <2>2, LaterRank
  <2>4. denLow = denHigh
    BY <1>11, <1>12, <2>1
  <2>5. numLow * denHigh <= numHigh * denLow
    BY <2>3, <2>4, TimesOrdered
  <2> QED BY <1>5, <1>9, <1>10, <1>11, <1>12, <2>5
<1>14. CASE i < j
  <2>1. i \in 1 .. L /\ Edges[i] <= Floor(j) /\ Edges[i] \in Nat /\ Floor(j) \in Nat
    BY <1>3, <1>4, <1>14, FloorShape, EdgeList
  <2>2. u <= m
    BY <1>3, <1>4, <2>1
  <2>3. numLow <= u * denLow /\ m * denHigh <= numHigh
    BY <1>9, <1>10, <1>11, <1>12
  <2>4. numLow * denHigh <= numHigh * denLow
    BY <1>3, <1>4, <2>2, <2>3, CrossOrdered
  <2> QED BY <1>5, <1>9, <1>10, <1>11, <1>12, <2>4
<1> QED BY <1>3, <1>4, <1>8, <1>13, <1>14

--------------------------------------------------------------------------------
(* What an exact answer is merged from.                                     *)

LEMMA ExactTallied ==
  ASSUME TypeOK, Exact, Responded(read.truth) # {}
  PROVE  Tallied(Responded(read.truth), Histogram(read.counted))
<1> DEFINE R == Responded(read.truth)
<1>1. read.truth \subseteq Probes /\ Probes \subseteq 0 .. LAST - 1 /\ LAST \in Nat
  BY ProbeAssumption, Calendar DEF TypeOK
<1>2. IsFiniteSet(Probes)
  <2>1. PICK last \in Int : last = LAST - 1
    BY <1>1
  <2>2. IsFiniteSet(0 .. last) /\ Probes \in SUBSET (0 .. last)
    BY <1>1, <2>1, FS_Interval
  <2> QED BY <2>2, FS_Subset
<1>3. R \in SUBSET Probes /\ \A p \in R : Latency[p] \in Nat
  BY <1>1, ProbeAssumption DEF Responded
<1>4. IsFiniteSet(R)
  BY <1>2, <1>3, FS_Subset
<1>5. ASSUME NEW i \in Buckets
      PROVE  Histogram(read.counted)[i] = Cardinality(BucketAt(R, i))
  <2> DEFINE S == {p \in Responded(Probes) : BucketIndex(Latency[p]) = i}
  <2>1. S \in SUBSET Probes
    BY DEF Responded
  <2>2. IsFiniteSet(S)
    BY <1>2, <2>1, FS_Subset
  <2>3. \A p \in S : read.counted[p] = IF p \in read.truth THEN 1 ELSE 0
    BY <2>1 DEF Exact
  <2>4. S \cap read.truth = BucketAt(R, i)
    BY <1>1 DEF Responded, BucketAt
  <2>5. Histogram(read.counted)[i] = SumFunctionOnSet(read.counted, S)
    BY Zenon DEF Histogram
  <2> HIDE DEF S
  <2>6. SumFunctionOnSet(read.counted, S) = Cardinality(S \cap read.truth)
    BY <2>2, <2>3, SumCounts
  <2> QED BY <2>4, <2>5, <2>6
<1>6. Histogram(read.counted) = [i \in Buckets |-> Cardinality(BucketAt(R, i))]
  BY <1>5 DEF Histogram
<1> QED BY <1>3, <1>4, <1>6 DEF Tallied

LEMMA ExactSound == TypeOK => PercentilesSound
<1> SUFFICES ASSUME TypeOK, Exact, Responded(read.truth) # {} PROVE PercentilesSound
  BY DEF PercentilesSound
<1> DEFINE R == Responded(read.truth)
           hist == Histogram(read.counted)
           Value(percent) == Percentile(hist, percent, Min(Seen(R)), Max(Seen(R)))
<1>1. Tallied(R, hist)
  BY ExactTallied
<1>2. \A percent \in Percents : Value(percent) = ValueOf(R, hist, percent)
  BY <1>1, PercentileIs
<1>3. \A percent \in Percents : InItsBucket(R, Value(percent), BucketIndex(TrueRank(R, percent)))
  BY <1>1, <1>2, ValueInBucket, RankIsTrue
<1>4. \A low, high \in Percents : low <= high =>
        Value(low).num * Value(high).den <= Value(high).num * Value(low).den
  BY <1>1, <1>2, ValuesOrdered
<1>5. 50 \in Percents /\ 95 \in Percents /\ 99 \in Percents /\ 50 <= 95 /\ 95 <= 99
  BY DEF Percents
<1>6. /\ \A percent \in {50, 95, 99} :
           InItsBucket(R, Value(percent), BucketIndex(TrueRank(R, percent)))
      /\ Value(50).num * Value(95).den <= Value(95).num * Value(50).den
      /\ Value(95).num * Value(99).den <= Value(99).num * Value(95).den
  BY <1>3, <1>4, <1>5
<1> QED BY <1>6, Zenon DEF PercentilesSound, InItsBucket, TrueRank, Ranked, AtMost, Seen

--------------------------------------------------------------------------------
(* The theorems.                                                            *)

\* A window is tiled by the coarsest buckets that fit, so it is refused only if a partition it needs
\* is gone, and what is finer lies at its two edges, however long it is (NFR-9).
THEOREM PlansAsNeeded == Spec => []PlanAsNeeded
<1>1. IInv => PlanAsNeeded
  <2> SUFFICES ASSUME IInv PROVE EdgesOnly
    BY DEF IInv, PlanAsNeeded
  <2>1. /\ read.plan = Plan(read.from, read.to)
        /\ read.from \in 0 .. LAST /\ read.to \in 0 .. LAST
    BY DEF IInv, TypeOK
  <2> QED BY <2>1, HoursAtEdges, MinutesAtEdges DEF EdgesOnly
<1> QED BY <1>1, AlwaysInv, PTL

\* An answer counts each folded probe of its window once, whatever is folded, deleted or retired
\* between planning, reading and looking at the catalogue again, as long as no partition of the
\* window went before an older one.
THEOREM AnswersAlwaysExact == Spec => AnswerExact
<1>1. IInv /\ [Next]_vars => [read.pc = "read" /\ read'.pc = "answered" /\ NoHole => Exact]_vars
  <2> SUFFICES ASSUME IInv, [Next]_vars, read.pc = "read", read'.pc = "answered", NoHole
               PROVE  Exact
    OBVIOUS
  <2>1. TypeOK /\ ReadInv
    BY DEF IInv
  <2>2. CASE Answer
    <3>1. ~ \E g \in Partitioned : \E b \in OldestNeeded(g) : Unavailable(b)
      <4> SUFFICES ASSUME \E g \in Partitioned : \E b \in OldestNeeded(g) : Unavailable(b)
                   PROVE  FALSE
        OBVIOUS
      <4>1. read' = [read EXCEPT !.pc = "changed"]
        BY <2>2, Zenon DEF Answer
      <4> QED BY <2>1, <4>1 DEF TypeOK
    <3>2. AllAttached
      BY <2>1, <3>1, LookedUpAgain
    <3> QED BY <2>1, <3>2 DEF ReadInv
  <2>3. CASE ~Answer
    <3>1. CASE Ask \/ Read
      BY <3>1 DEF Ask, Read
    <3>2. CASE Return
      BY <3>2 DEF Return
    <3>3. CASE read' = read
      BY <3>3
    <3> QED BY <2>3, <3>1, <3>2, <3>3 DEF Next, Fold, Retire, Delete, vars
  <2> QED BY <2>2, <2>3
<1>2. Spec => [][Next]_vars
  BY DEF Spec
<1> QED BY <1>1, <1>2, AlwaysInv, PTL DEF AnswerExact

\* The percentiles of an exact answer lie in the bucket of the latency that has the rank and within
\* the observed extremes, and a higher one is never lower, whatever buckets the aggregates were
\* merged from and wherever the edges lie.
THEOREM PercentilesAlwaysSound == Spec => []PercentilesSound
<1>1. PlanAsNeeded => PercentilesSound
  BY ExactSound DEF PlanAsNeeded
<1> QED BY <1>1, PlansAsNeeded, PTL
================================================================================
