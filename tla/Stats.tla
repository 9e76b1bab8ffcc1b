--------------------------------- MODULE Stats ---------------------------------
(***************************************************************************)
(* Reading statistics, src/src/core/stats: a window is tiled by the coarsest*)
(* buckets it holds, their aggregates are read in one statement, and the    *)
(* answer is discarded if a partition it needed has been retired meanwhile. *)
(* Around it, as Rollup and Retention show them to be, the rollup adds each *)
(* probe to its bucket of every grain in one transaction, and retention     *)
(* detaches whole partitions of the two partitioned grains.                 *)
(*                                                                         *)
(* Times are minutes: a window that is not minute-aligned is refused first. *)
(***************************************************************************)
EXTENDS Integers, Sequences, FiniteSets, FiniteSetsExt, Functions

CONSTANTS
  NULL,
  HOUR, DAY, MONTH,  \* in minutes
  LAST,              \* the calendar ends here, a multiple of DAY
  Probes,            \* the minutes a probe of the endpoint started in, one in each
  Latency,           \* its total_ms, NULL for a probe without a response
  Edges,             \* HISTOGRAM_EDGES_MS
  MAX_PASSED         \* older partitions a retention pass may leave attached

ASSUME CalendarAssumption ==
  /\ {HOUR, DAY, MONTH, LAST} \subseteq Nat \ {0}
  /\ DAY % HOUR = 0 /\ MONTH % DAY = 0 /\ LAST % DAY = 0
ASSUME ProbeAssumption ==
  /\ Probes \subseteq 0 .. LAST - 1
  /\ Latency \in [Probes -> Nat \cup {NULL}]
  /\ MAX_PASSED \in Nat
ASSUME NullAssumption == NULL \notin Nat
ASSUME EdgeAssumption ==
  Edges \in Seq(Nat) /\ \A i \in 1 .. Len(Edges) - 1 : Edges[i] < Edges[i + 1]

VARIABLES
  folded,    \* the probes the rollup has added to probe_stats
  attached,  \* the first minutes of the attached partitions, by grain
  owned,     \* the endpoint row exists and is the reader's
  read       \* the call of windowStats

vars == <<folded, attached, owned, read>>

Partitioned == {"m1", "h1"}
Width == [m1 |-> 1, h1 |-> HOUR, d1 |-> DAY]
Span == [m1 |-> DAY, h1 |-> MONTH]
Starts(g) == {t \in 0 .. LAST - 1 : t % Span[g] = 0}
PartitionOf(g, t) == t - (t % Span[g])

Minutes(b) == b[2] .. b[2] + Width[b[1]] - 1

\* counted, truth (history): how often each probe is in the rows read, and the
\* probes of the window that were folded then.
NoRead == [pc |-> "idle", from |-> 0, to |-> 0, plan |-> {}, counted |-> [p \in Probes |-> 0],
           truth |-> {}]

Init ==
  /\ folded = {}
  /\ attached = [g \in Partitioned |-> Starts(g)]
  /\ owned = TRUE
  /\ read = NoRead

--------------------------------------------------------------------------------
(* The plan of a window *)

\* Mutant: a day that ends with the window is not taken whole.
Fits_Strictly(t, width, to) == t % width = 0 /\ t + width < to

Fits(t, width, to) == t % width = 0 /\ t + width <= to

Grain(t, to) == IF Fits(t, DAY, to) THEN "d1" ELSE IF Fits(t, HOUR, to) THEN "h1" ELSE "m1"

\* The loop of planWindow: coarsest first, from the first minute on.
Plan(from, to) ==
  LET tile[t \in from .. LAST + DAY] ==
        IF t >= to THEN {} ELSE {<<Grain(t, to), t>>} \cup tile[t + Width[Grain(t, to)]]
  IN tile[from]

\* retainedFrom: the oldest partition of a grain that still exists.
Oldest(g) == IF attached[g] = {} THEN NULL ELSE Min(attached[g])

\* requireRetained for a bucket of the plan.
Unavailable(b) == b[1] \in Partitioned /\ (Oldest(b[1]) = NULL \/ b[2] < Oldest(b[1]))

Ask ==
  /\ read.pc = "idle"
  /\ \E from, to \in 0 .. LAST :
       LET plan == Plan(from, to) IN
       read' = [NoRead EXCEPT !.pc = CASE from >= to -> "invalid"
                                          [] \E b \in plan : Unavailable(b) -> "retired"
                                          [] OTHER -> "planned",
                                 !.from = from, !.to = to, !.plan = plan]
  /\ UNCHANGED <<folded, attached, owned>>

--------------------------------------------------------------------------------
(* The read *)

\* One row of probe_stats for each bucket of the plan whose partition is attached.
RowsSeen(plan) == {b \in plan : b[1] \in Partitioned => PartitionOf(b[1], b[2]) \in attached[b[1]]}

\* How often a probe is counted by the rows read.
Counted(plan, p) ==
  IF p \in folded THEN Cardinality({b \in RowsSeen(plan) : p \in Minutes(b)}) ELSE 0

Read ==
  /\ read.pc = "planned"
  /\ read' = IF ~owned THEN [read EXCEPT !.pc = "notFound"]
             ELSE [read EXCEPT !.pc = "read",
                               !.counted = [p \in Probes |-> Counted(read.plan, p)],
                               !.truth = {p \in folded : read.from <= p /\ p < read.to}]
  /\ UNCHANGED <<folded, attached, owned>>

\* Mutant: the availability is not looked up again.
OldestNeeded_None(g) == {}

\* The oldest bucket the plan needs of a grain.
OldestNeeded(g) == {b \in read.plan : b[1] = g /\ \A c \in read.plan : c[1] = g => b[2] <= c[2]}

\* assertStillRetained, and the answer.
Answer ==
  /\ read.pc = "read"
  /\ read' = [read EXCEPT !.pc =
       IF \E g \in Partitioned : \E b \in OldestNeeded(g) : Unavailable(b) THEN "changed"
       ELSE "answered"]
  /\ UNCHANGED <<folded, attached, owned>>

Return ==
  /\ read.pc \notin {"idle", "planned", "read"}
  /\ read' = NoRead
  /\ UNCHANGED <<folded, attached, owned>>

--------------------------------------------------------------------------------
(* The rollup, retention, and the owner *)

Fold(p) ==
  /\ p \notin folded
  /\ \A g \in Partitioned : PartitionOf(g, p) \in attached[g]
  /\ folded' = folded \cup {p}
  /\ UNCHANGED <<attached, owned, read>>

\* A pass takes the expired partitions oldest first, but goes on past one whose
\* guard blocks it or whose detach timed out.
Retire(g, n) ==
  /\ n \in attached[g] /\ n # Max(attached[g])
  /\ Cardinality({k \in attached[g] : k < n}) <= MAX_PASSED
  /\ attached' = [attached EXCEPT ![g] = @ \ {n}]
  /\ UNCHANGED <<folded, owned, read>>

Delete ==
  /\ owned
  /\ owned' = FALSE
  /\ UNCHANGED <<folded, attached, read>>

Next ==
  \/ Ask \/ Read \/ Answer \/ Return
  \/ \E p \in Probes : Fold(p)
  \/ \E g \in Partitioned : \E n \in Starts(g) : Retire(g, n)
  \/ Delete

Spec == Init /\ [][Next]_vars

--------------------------------------------------------------------------------
(* What is made of the rows: bucketIndex, the merged histogram, percentile *)

BucketIndex(ms) == Cardinality({i \in 1 .. Len(Edges) : ms > Edges[i]}) + 1
Buckets == 1 .. Len(Edges) + 1

Responded(S) == {p \in S : Latency[p] # NULL}
Histogram(counted) ==
  [i \in Buckets |->
     SumFunctionOnSet(counted, {p \in Responded(Probes) : BucketIndex(Latency[p]) = i})]

Floor(i) == IF i = 1 THEN 0 ELSE Edges[i - 1]
Larger(a, b) == IF a < b THEN b ELSE a
Smaller(a, b) == IF a < b THEN a ELSE b

\* Mutant: a rank at the end of a bucket is looked for in the next one.
Reaches_Beyond(before, count, percent, n) == 100 * (before + count) > percent * n

\* The bucket reaches the rank.
Reaches(before, count, percent, n) == 100 * (before + count) >= percent * n

\* A fraction num / den: linear interpolation inside the bucket of the rank,
\* whose ends the observed extremes tighten.
Percentile(hist, percent, least, most) ==
  LET n == SumFunction(hist)
      Before(k) == SumFunctionOnSet(hist, 1 .. k - 1)
      populated == {i \in Buckets : hist[i] > 0}
      i == Min({k \in populated : Reaches(Before(k), hist[k], percent, n)})
      lower == IF i = Min(populated) THEN Larger(Floor(i), least) ELSE Floor(i)
      edge == IF i \in DOMAIN Edges THEN Edges[i] ELSE most
      upper == Larger(lower, IF i = Max(populated) THEN Smaller(edge, most) ELSE edge)
      count == hist[i]
  IN [num |-> 100 * lower * count + (upper - lower) * (percent * n - 100 * Before(i)),
      den |-> 100 * count]

--------------------------------------------------------------------------------
(* Properties *)

\* Every bucket of a plan lies within the window, and the partitions are those
\* of the calendar.
TypeOK ==
  /\ folded \subseteq Probes /\ owned \in BOOLEAN
  /\ attached \in [Partitioned -> SUBSET (0 .. LAST - 1)]
  /\ \A g \in Partitioned : attached[g] \subseteq Starts(g) /\ attached[g] # {}
  /\ read \in [pc : {"idle", "invalid", "retired", "planned", "read", "notFound", "changed",
                     "answered"},
               from : 0 .. LAST, to : 0 .. LAST, plan : SUBSET ((DOMAIN Width) \X (0 .. LAST)),
               counted : [Probes -> Nat], truth : SUBSET Probes]
  /\ \A b \in read.plan : Minutes(b) \subseteq read.from .. read.to - 1

\* Every probe is counted as often as it should be: once if it was folded and lies
\* in the window.
Exact == \A p \in Probes : read.counted[p] = IF p \in read.truth THEN 1 ELSE 0

\* No retired partition of the window lies behind an attached one.
NoHole ==
  \A b \in read.plan : b[1] \in Partitioned /\ ~Unavailable(b) => PartitionOf(b[1], b[2]) \in attached[b[1]]

\* While partitions go oldest first, an answer counts every folded probe of its
\* window once and no other, although they are retired between the two looks at
\* the catalogue; one the window does not need may go out of order.
AnswerExact == [][read.pc = "read" /\ read'.pc = "answered" /\ NoHole => Exact]_vars

\* A window the aggregates cannot answer is "always a typed rejection, never a
\* plausible-looking partial answer" (window.ts).
NeverPartial == read.pc = "answered" => Exact

\* A window is refused only if a bucket its tiling needs has lost its partition:
\* what the stored aggregates can answer is answered.
RefusedOnlyIfRetired ==
  read.pc \in {"retired", "changed"} => RowsSeen(read.plan) # read.plan

\* NFR-9: no window reads more rows of a finer grain than its two edges need,
\* however long it is.
EdgesOnly ==
  LET rows(g) == Cardinality({b \in read.plan : b[1] = g}) IN
  /\ rows("h1") <= 2 * (DAY \div HOUR - 1)
  /\ rows("m1") <= 2 * (HOUR - 1)

\* A window reads no more than it needs, and is refused for no more.
PlanAsNeeded == TypeOK /\ RefusedOnlyIfRetired /\ EdgesOnly

\* Whatever buckets an exact answer was merged from, a percentile lies in the
\* bucket of the latency that really has the rank and within the observed
\* extremes, and a higher percentile is never lower.
PercentilesSound ==
  read.pc = "answered" /\ Exact /\ Responded(read.truth) # {} =>
    LET hist == Histogram(read.counted)
        seen == {Latency[p] : p \in Responded(read.truth)}
        n == Cardinality(Responded(read.truth))
        Value(percent) == Percentile(hist, percent, Min(seen), Max(seen))
        Rank(percent) == Min({v \in seen :
          100 * Cardinality({p \in Responded(read.truth) : Latency[p] <= v}) >= percent * n})
    IN /\ \A percent \in {50, 95, 99} :
            LET v == Value(percent)  b == BucketIndex(Rank(percent)) IN
            /\ Min(seen) * v.den <= v.num /\ v.num <= Max(seen) * v.den
            /\ Floor(b) * v.den <= v.num
            /\ b \in DOMAIN Edges => v.num <= Edges[b] * v.den
       /\ Value(50).num * Value(95).den <= Value(95).num * Value(50).den
       /\ Value(95).num * Value(99).den <= Value(99).num * Value(95).den
================================================================================
