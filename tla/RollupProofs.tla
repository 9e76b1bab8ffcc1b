---------------------------- MODULE RollupProofs ----------------------------
(***************************************************************************)
(* The rollup is exact: type correctness, that every aggregate counts      *)
(* exactly the results below the watermark, and that the rollup implements *)
(* the abstract aggregate, for every set of results, every grain, every    *)
(* number of workers and every batch size.                                 *)
(***************************************************************************)
EXTENDS Rollup, FiniteSetTheorems, WellFoundedInduction, TLAPS

-----------------------------------------------------------------------------
(* Counting.                                                                *)

(* A row is in one cell of each grain: the count of a cell over a finite    *)
(* set of rows is a number.                                                 *)
LEMMA CountType ==
  ASSUME NEW c, NEW rows, IsFiniteSet(rows)
  PROVE  /\ CountIn(c, rows) \in Nat
         /\ IsFiniteSet({row \in rows : c \in CellsOf[row.result]})
<1> DEFINE S == {row \in rows : c \in CellsOf[row.result]}
<1>1. IsFiniteSet(S)
  BY FS_Subset
<1> QED BY <1>1, FS_CardinalityType DEF CountIn

LEMMA CountEmpty == \A c : CountIn(c, {}) = 0
BY FS_EmptySet DEF CountIn

(* Disjoint sets of rows are counted separately.                            *)
LEMMA CountUnion ==
  ASSUME NEW c, NEW P, NEW Q, IsFiniteSet(P), IsFiniteSet(Q), P \cap Q = {}
  PROVE  CountIn(c, P \cup Q) = CountIn(c, P) + CountIn(c, Q)
<1> DEFINE A == {row \in P : c \in CellsOf[row.result]}
           B == {row \in Q : c \in CellsOf[row.result]}
           C == {row \in P \cup Q : c \in CellsOf[row.result]}
<1>1. IsFiniteSet(A) /\ IsFiniteSet(B)
  BY CountType
<1>2. C = A \cup B /\ A \cap B = {}
  OBVIOUS
<1>3. CountIn(c, P) = Cardinality(A) /\ CountIn(c, Q) = Cardinality(B)
      /\ CountIn(c, P \cup Q) = Cardinality(C)
  BY DEF CountIn
<1> HIDE DEF A, B, C
<1>4. Cardinality(A) \in Nat /\ Cardinality(B) \in Nat
  BY <1>1, FS_CardinalityType
<1>5. Cardinality(A \cup B) = Cardinality(A) + Cardinality(B) - Cardinality(A \cap B)
  BY <1>1, FS_Union
<1>6. Cardinality(A \cap B) = 0
  BY <1>2, FS_EmptySet
<1>7. Cardinality(C) = Cardinality(A \cup B)
  BY <1>2
<1> QED BY <1>3, <1>4, <1>5, <1>6, <1>7

(* Consecutive ranges of the table: the batches of a pass.                  *)
LEMMA BetweenSplit ==
  ASSUME TypeOK, NEW a \in Nat, NEW b \in Nat, NEW d \in Nat, a <= b, b <= d
  PROVE  /\ Between(a, d) = Between(a, b) \cup Between(b, d)
         /\ Between(a, b) \cap Between(b, d) = {}
<1>1. \A row \in table : row.xid \in Nat
  BY DEF TypeOK, Row
<1> QED BY <1>1 DEF Between

LEMMA CountSplit ==
  ASSUME TypeOK, IsFiniteSet(table), NEW c,
         NEW a \in Nat, NEW b \in Nat, NEW d \in Nat, a <= b, b <= d
  PROVE  CountIn(c, Between(a, d)) = CountIn(c, Between(a, b)) + CountIn(c, Between(b, d))
<1>1. IsFiniteSet(Between(a, b)) /\ IsFiniteSet(Between(b, d))
  BY FS_Subset DEF Between
<1> QED BY <1>1, BetweenSplit, CountUnion

(* An empty range counts nothing.                                           *)
LEMMA CountAtStart ==
  ASSUME TypeOK, NEW c, NEW a \in Nat
  PROVE  CountIn(c, Between(a, a)) = 0
<1>1. \A row \in table : row.xid \in Nat
  BY DEF TypeOK, Row
<1>2. Between(a, a) = {}
  BY <1>1 DEF Between
<1> QED BY <1>2, CountEmpty
-----------------------------------------------------------------------------
(* Types.                                                                   *)

TypeInv == TypeOK /\ IsFiniteSet(table)

LEMMA NothingType == Nothing \in [Cells -> Nat] /\ NoPass \in Pass
BY DEF Nothing, NoPass, Pass, Phases

LEMMA SnapshotType ==
  ASSUME TypeOK, NEW w \in Workers,
         NEW x \in {t.xid : t \in open} \cup {pass[w].own}
  PROVE  x \in Nat
BY DEF TypeOK, Transaction, Pass

(* A set of numbers has a least one: an interval is a strict subset of      *)
(* another exactly if it ends before it.                                    *)
LEMMA LeastOfNat ==
  ASSUME NEW S \in SUBSET Nat, S # {}
  PROVE  \E x \in S : \A y \in S : x <= y
<1> DEFINE Below(n) == 1..n
           T == {Below(n) : n \in S}
<1>1. \A n \in S : Below(n) \in FiniteSubsetsOf(Nat)
  BY FS_Interval DEF FiniteSubsetsOf
<1>2. T \subseteq FiniteSubsetsOf(Nat) /\ T # {}
  BY <1>1
<1>3. PICK M \in T : \A N \in T : <<N, M>> \notin StrictSubsetOrdering(Nat)
  BY <1>2, WFMin, FS_StrictSubsetOrderingWellFounded
<1>4. PICK m \in S : M = Below(m)
  OBVIOUS
<1>5. ASSUME NEW n \in S PROVE m <= n
  <2>1. <<Below(n), Below(m)>> \notin StrictSubsetOrdering(Nat)
    BY <1>3, <1>4
  <2>2. ~ (Below(n) \subseteq Below(m) /\ Below(n) # Below(m))
    BY <2>1 DEF StrictSubsetOrdering
  <2>3. n < m => Below(n) \subseteq Below(m) /\ m \in Below(m) /\ m \notin Below(n)
    OBVIOUS
  <2> QED BY <2>2, <2>3
<1> QED BY <1>5

(* The snapshot's horizon exists, as ids are numbers, and bounds each id in *)
(* use, the pass's own one included.                                        *)
LEMMA SnapshotLeast ==
  ASSUME TypeOK, NEW w \in Workers
  PROVE  /\ SnapshotXmin(w) \in {t.xid : t \in open} \cup {pass[w].own}
         /\ \A t \in open : SnapshotXmin(w) <= t.xid
         /\ SnapshotXmin(w) <= pass[w].own
         /\ SnapshotXmin(w) \in Nat
<1> DEFINE active == {t.xid : t \in open} \cup {pass[w].own}
<1>1. active \in SUBSET Nat /\ active # {}
  BY SnapshotType
<1>2. \E x \in active : \A y \in active : x <= y
  BY <1>1, LeastOfNat
<1>3. SnapshotXmin(w) \in active /\ \A y \in active : SnapshotXmin(w) <= y
  BY <1>2 DEF SnapshotXmin
<1> QED BY <1>1, <1>3

LEMMA NthType ==
  ASSUME TypeOK, NEW w \in Workers, NEW x \in NthXid(w)
  PROVE  x \in Nat /\ pass[w].last <= x /\ x < pass[w].horizon
BY DEF TypeOK, Row, NthXid, Between

LEMMA TypeInit == Init => TypeInv
<1>1. IsFiniteSet({})
  BY FS_EmptySet
<1> QED BY <1>1, NothingType DEF Init, TypeInv, TypeOK

LEMMA TypeStep == TypeInv /\ [Next]_vars => TypeInv'
<1> SUFFICES ASSUME TypeInv, [Next]_vars PROVE TypeInv'
  OBVIOUS
<1> USE DEF TypeInv
<1>1. ASSUME NEW r \in Results, InsertResult(r) PROVE TypeInv'
  <2>1. [result |-> r, xid |-> nextXid, inserts |-> ~Stored(r)] \in Transaction
    BY DEF TypeOK, Transaction
  <2> QED BY <1>1, <2>1 DEF InsertResult, TypeOK, aggregates
<1>2. ASSUME NEW t \in open, CommitResult(t) PROVE TypeInv'
  <2>1. [result |-> t.result, xid |-> t.xid] \in Row
    BY DEF TypeOK, Transaction, Row
  <2>2. IsFiniteSet(table \cup {[result |-> t.result, xid |-> t.xid]})
    BY FS_AddElement
  <2>3. table' \subseteq Row /\ IsFiniteSet(table')
    BY <1>2, <2>1, <2>2 DEF CommitResult, TypeOK
  <2> QED BY <1>2, <2>3 DEF CommitResult, TypeOK, aggregates
<1>3. ASSUME NEW t \in open, AbortResult(t) PROVE TypeInv'
  BY <1>3 DEF AbortResult, TypeOK, aggregates
<1>4. ASSUME NEW w \in Workers, PassStep(w) \/ PassFails(w) PROVE TypeInv'
  <2>1. pass[w] \in Pass
    BY DEF TypeOK
  <2>2. CASE LockState(w)
    <3>1. [NoPass EXCEPT !.phase = "horizon", !.own = nextXid, !.last = lastXid] \in Pass
      BY NothingType DEF TypeOK, Pass, Phases, NoPass
    <3> QED BY <2>2, <3>1 DEF LockState, TypeOK, dbVars, aggregates
  <2>3. CASE ReadHorizon(w)
    <3>1. [pass[w] EXCEPT !.phase = "nth", !.horizon = SnapshotXmin(w)] \in Pass
      BY <2>1, SnapshotLeast DEF Pass, Phases
    <3>2. pass' = [pass EXCEPT ![w] = [pass[w] EXCEPT !.phase = "nth", !.horizon = SnapshotXmin(w)]]
      BY <2>1, <2>3 DEF ReadHorizon, TypeOK, Pass
    <3> QED BY <2>3, <3>1, <3>2 DEF ReadHorizon, TypeOK, dbVars, aggregates
  <2>4. CASE FindUpper(w)
    <3>1. PICK upper \in IF NthXid(w) = {} THEN {pass[w].horizon} ELSE NthXid(w) :
            pass' = [pass EXCEPT ![w].phase = "fold", ![w].upper = upper,
                                 ![w].more = NthXid(w) # {}]
      BY <2>4 DEF FindUpper
    <3>2. upper \in Nat
      BY <2>1, <3>1, NthType DEF Pass
    <3>3. [pass[w] EXCEPT !.phase = "fold", !.upper = upper, !.more = (NthXid(w) # {})] \in Pass
      BY <2>1, <3>2 DEF Pass, Phases
    <3>4. pass' = [pass EXCEPT ![w] = [pass[w] EXCEPT !.phase = "fold", !.upper = upper,
                                                      !.more = (NthXid(w) # {})]]
      BY <2>1, <3>1 DEF TypeOK, Pass
    <3> QED BY <2>4, <3>3, <3>4 DEF FindUpper, TypeOK, dbVars, aggregates
  <2>5. CASE FoldBatch(w)
    <3> DEFINE rows == Between(pass[w].last, pass[w].upper)
               delta == [c \in Cells |-> pass[w].delta[c] + CountIn(c, rows)]
               next == [pass[w] EXCEPT !.phase = IF pass[w].more THEN "nth" ELSE "advance",
                                       !.last = pass[w].upper, !.delta = delta]
    <3>1. IsFiniteSet(rows)
      BY FS_Subset DEF Between
    <3>2. \A c \in Cells : CountIn(c, rows) \in Nat
      BY <3>1, CountType
    <3>3. delta \in [Cells -> Nat]
      BY <2>1, <3>2 DEF Pass
    <3> HIDE DEF delta
    <3>4. next \in Pass
      BY <2>1, <3>3 DEF Pass, Phases
    <3>5. pass' = [pass EXCEPT ![w] = next]
      BY <2>1, <2>5 DEF FoldBatch, TypeOK, Pass, delta
    <3>6. UNCHANGED <<dbVars, aggregates, service, faults, stops>>
      BY <2>5 DEF FoldBatch
    <3> HIDE DEF next
    <3> QED BY <3>4, <3>5, <3>6 DEF TypeOK, dbVars, aggregates
  <2>6. CASE Advance(w)
    <3>1. stats' \in [Cells -> Nat] /\ lastXid' \in Nat
      BY <2>1, <2>6 DEF Advance, TypeOK, Pass
    <3> QED BY <2>6, <3>1, NothingType DEF Advance, TypeOK, dbVars
  <2>7. CASE PassFails(w)
    BY <2>7, NothingType DEF PassFails, Fault, TypeOK, dbVars, aggregates
  <2> QED BY <1>4, <2>2, <2>3, <2>4, <2>5, <2>6, <2>7 DEF PassStep
<1>5. ASSUME NEW w \in Workers, ServiceStep(w) PROVE TypeInv'
  <2>1. CASE Stop(w)
    BY <2>1 DEF Stop, TypeOK, dbVars, aggregates
  <2>2. CASE Exit(w)
    BY <2>2 DEF Exit, TypeOK, dbVars, aggregates
  <2>3. CASE Crash(w)
    BY <2>3, NothingType DEF Crash, TypeOK, dbVars, aggregates
  <2>4. CASE Start(w)
    BY <2>4 DEF Start, TypeOK, dbVars, aggregates
  <2> QED BY <1>5, <2>1, <2>2, <2>3, <2>4 DEF ServiceStep
<1>6. CASE UNCHANGED vars
  BY <1>6 DEF vars, TypeOK
<1> QED BY <1>1, <1>2, <1>3, <1>4, <1>5, <1>6 DEF Next

LEMMA TypeAlways == Spec => []TypeInv
BY TypeInit, TypeStep, PTL DEF Spec

(* Type correctness: the rollup's state stays in its types; in particular,  *)
(* aggregates and pending batches count every cell with a number.           *)
THEOREM TypeCorrectness == Spec => []TypeOK
<1>1. TypeInv => TypeOK
  BY DEF TypeInv
<1> QED BY <1>1, TypeAlways, PTL
-----------------------------------------------------------------------------
(* The order of ids.                                                        *)

(* An id is below the next one; no open transaction is below the watermark. *)
XidInv ==
  /\ lastXid <= nextXid
  /\ \A t \in open : lastXid <= t.xid /\ t.xid < nextXid
  /\ \A row \in table : row.xid < nextXid

(* What a pass has found and folded so far.  Below its horizon nothing can  *)
(* commit any more, so the ranges it has read stay as they were read; while *)
(* it runs no other pass moves the watermark it started from.               *)
PassOK(w) ==
  pass[w].phase # "idle" =>
    /\ lastXid <= pass[w].own /\ pass[w].own <= nextXid
    /\ \A c \in Cells : pass[w].delta[c] = CountIn(c, Between(lastXid, pass[w].last))
    /\ pass[w].phase = "horizon" => pass[w].last = lastXid
    /\ pass[w].phase # "horizon" =>
         /\ lastXid <= pass[w].last
         /\ pass[w].last <= pass[w].horizon
         /\ pass[w].horizon <= nextXid
         /\ \A t \in open : pass[w].horizon <= t.xid
    /\ pass[w].phase = "fold" =>
         pass[w].last <= pass[w].upper /\ pass[w].upper <= pass[w].horizon

OnePass ==
  \A v, w \in Workers : v = w \/ pass[v].phase = "idle" \/ pass[w].phase = "idle"

PassInv == OnePass /\ \A w \in Workers : PassOK(w)

IInv == TypeInv /\ XidInv /\ PassInv /\ AggregatesExact

(* A commit at or above the end of a range leaves the range as it was.      *)
LEMMA RangeClosed ==
  ASSUME TypeOK, NEW t \in open, CommitResult(t),
         NEW a \in Nat, NEW b \in Nat, b <= t.xid
  PROVE  Between(a, b)' = Between(a, b)
<1>1. t.xid \in Nat
  BY DEF TypeOK, Transaction
<1>2. table' = table \/ table' = table \cup {[result |-> t.result, xid |-> t.xid]}
  BY DEF CommitResult
<1> QED BY <1>1, <1>2 DEF Between

LEMMA InvInit == Init => IInv
<1> SUFFICES ASSUME Init PROVE IInv
  OBVIOUS
<1>1. TypeInv
  BY TypeInit
<1>2. XidInv
  BY DEF Init, XidInv
<1>3. PassInv
  BY DEF Init, PassInv, OnePass, PassOK, NoPass
<1>4. lastXid = 0
  BY DEF Init
<1>5. \A c \in Cells : CountIn(c, Between(0, lastXid)) = 0
  BY <1>1, <1>4, CountAtStart DEF TypeInv
<1>6. AggregatesExact
  BY <1>5 DEF AggregatesExact, Init, Nothing
<1> QED BY <1>1, <1>2, <1>3, <1>6 DEF IInv

(* Steps that leave the table, the watermark and the aggregates alone.      *)
LEMMA ExactKept ==
  ASSUME AggregatesExact, UNCHANGED <<table, lastXid, stats>>
  PROVE  AggregatesExact'
BY DEF AggregatesExact, Between, CountIn

LEMMA IdlePassOK ==
  ASSUME NEW w \in Workers, pass[w]' = NoPass
  PROVE  PassOK(w)'
BY DEF PassOK, NoPass

LEMMA PassKept ==
  ASSUME NEW w \in Workers, PassOK(w), UNCHANGED <<nextXid, open, table, lastXid>>,
         pass[w]' = pass[w]
  PROVE  PassOK(w)'
BY DEF PassOK, Between, CountIn

(* Inserting transactions.                                                  *)
LEMMA WriteInvStep ==
  ASSUME IInv, TypeInv',
         \/ \E r \in Results : InsertResult(r)
         \/ \E t \in open : CommitResult(t) \/ AbortResult(t)
  PROVE  IInv'
<1> USE DEF IInv, TypeInv
<1>0. /\ nextXid \in Nat /\ lastXid \in Nat
      /\ \A t \in open : t.xid \in Nat
      /\ \A w \in Workers : pass[w] \in Pass
  BY DEF TypeOK, Transaction
<1>1. ASSUME NEW r \in Results, InsertResult(r) PROVE IInv'
  <2>1. /\ nextXid' = nextXid + 1
        /\ open' = open \cup {[result |-> r, xid |-> nextXid, inserts |-> ~Stored(r)]}
        /\ UNCHANGED <<table, lastXid, stats, pass>>
    BY <1>1 DEF InsertResult, aggregates
  <2>2. \A t \in open' : t \in open \/ t.xid = nextXid
    BY <2>1
  <2>3. XidInv'
    <3>1. \A row \in table : row.xid \in Nat
      BY DEF TypeOK, Row
    <3> QED BY <1>0, <2>1, <2>2, <3>1 DEF XidInv
  <2>4. ASSUME NEW w \in Workers PROVE PassOK(w)'
    <3>1. PassOK(w)
      BY DEF PassInv
    <3>2. pass[w].own \in Nat /\ pass[w].horizon \in Nat
      BY <1>0 DEF Pass
    <3> QED BY <1>0, <2>1, <2>2, <3>1, <3>2 DEF PassOK, Between, CountIn
  <2>5. PassInv'
    BY <2>1, <2>4 DEF PassInv, OnePass
  <2> QED BY <2>1, <2>3, <2>5, ExactKept
<1>2. ASSUME NEW t \in open, CommitResult(t) PROVE IInv'
  <2>1. /\ open' = open \ {t}
        /\ table' \subseteq table \cup {[result |-> t.result, xid |-> t.xid]}
        /\ UNCHANGED <<nextXid, lastXid, stats, pass>>
    BY <1>2 DEF CommitResult, aggregates
  <2>2. XidInv'
    BY <1>0, <2>1 DEF XidInv
  <2>3. \A a, b \in Nat : b <= t.xid => Between(a, b)' = Between(a, b)
    BY <1>2, RangeClosed
  <2>4. ASSUME NEW w \in Workers, pass[w].phase # "idle" PROVE PassOK(w)'
    <3>1. PassOK(w)
      BY DEF PassInv
    <3>2. pass[w].last \in Nat /\ pass[w].horizon \in Nat
      BY <1>0 DEF Pass
    <3>3. pass[w].last <= t.xid
      BY <1>0, <2>4, <3>1, <3>2 DEF PassOK, XidInv
    <3>4. Between(lastXid, pass[w].last)' = Between(lastXid, pass[w].last)
      BY <1>0, <2>1, <2>3, <3>2, <3>3
    <3>5. \A c \in Cells : CountIn(c, Between(lastXid, pass[w].last))'
                             = CountIn(c, Between(lastXid, pass[w].last))
      BY <3>4 DEF CountIn
    <3> QED BY <2>1, <3>1, <3>5 DEF PassOK
  <2>5. PassInv'
    <3>1. \A w \in Workers : pass[w].phase = "idle" => PassOK(w)'
      BY <2>1 DEF PassOK
    <3> QED BY <2>1, <2>4, <3>1 DEF PassInv, OnePass
  <2>6. Between(0, lastXid)' = Between(0, lastXid)
    BY <1>0, <2>1, <2>3 DEF XidInv
  <2>7. AggregatesExact'
    BY <2>1, <2>6 DEF AggregatesExact, CountIn
  <2> QED BY <2>2, <2>5, <2>7
<1>3. ASSUME NEW t \in open, AbortResult(t) PROVE IInv'
  <2>1. open' = open \ {t} /\ UNCHANGED <<nextXid, table, lastXid, stats, pass>>
    BY <1>3 DEF AbortResult, aggregates
  <2>2. XidInv'
    BY <2>1 DEF XidInv
  <2>3. PassInv'
    BY <2>1 DEF PassInv, OnePass, PassOK, Between, CountIn
  <2> QED BY <2>1, <2>2, <2>3, ExactKept
<1> QED BY <1>1, <1>2, <1>3

(* A step of one pass leaves the invariant of the others alone.             *)
LEMMA OthersKept ==
  ASSUME IInv, NEW w \in Workers, NEW p,
         pass' = [pass EXCEPT ![w] = p],
         UNCHANGED <<nextXid, open, table, lastXid, stats>>,
         pass[w].phase # "idle" \/ p.phase = "idle" \/ \A v \in Workers : pass[v].phase = "idle",
         PassOK(w)'
  PROVE  XidInv' /\ PassInv' /\ AggregatesExact'
<1>1. pass \in [Workers -> Pass] /\ pass[w]' = p
  BY DEF IInv, TypeInv, TypeOK
<1>2. XidInv' /\ AggregatesExact'
  BY ExactKept DEF IInv, XidInv
<1>3. \A v \in Workers : PassOK(v)'
  BY <1>1, PassKept DEF IInv, PassInv
<1>4. OnePass'
  BY <1>1 DEF IInv, PassInv, OnePass
<1> QED BY <1>2, <1>3, <1>4 DEF PassInv

LEMMA LockInvStep ==
  ASSUME IInv, TypeInv', NEW w \in Workers, LockState(w)
  PROVE  IInv'
<1> DEFINE p == [NoPass EXCEPT !.phase = "horizon", !.own = nextXid, !.last = lastXid]
<1>1. pass' = [pass EXCEPT ![w] = p] /\ UNCHANGED <<nextXid, open, table, lastXid, stats>>
      /\ \A v \in Workers : pass[v].phase = "idle"
  BY DEF LockState, dbVars, aggregates
<1>2. /\ pass[w]' = p
      /\ p.phase = "horizon" /\ p.own = nextXid /\ p.last = lastXid /\ p.delta = Nothing
  BY <1>1 DEF IInv, TypeInv, TypeOK, NoPass
<1> HIDE DEF p
<1>3. \A c \in Cells : CountIn(c, Between(lastXid, lastXid)) = 0
  BY CountAtStart DEF IInv, TypeInv, TypeOK
<1>4. \A c \in Cells : Nothing[c] = CountIn(c, Between(lastXid, lastXid))'
  BY <1>1, <1>3 DEF Between, CountIn, Nothing
<1>5. PassOK(w)'
  BY <1>1, <1>2, <1>4 DEF PassOK, IInv, XidInv, TypeInv, TypeOK
<1> QED BY <1>1, <1>5, OthersKept DEF IInv

LEMMA ReadInvStep ==
  ASSUME IInv, TypeInv', NEW w \in Workers, ReadHorizon(w)
  PROVE  IInv'
<1> DEFINE p == [pass[w] EXCEPT !.phase = "nth", !.horizon = SnapshotXmin(w)]
<1>0. pass[w] \in Pass /\ pass \in [Workers -> Pass] /\ lastXid \in Nat /\ nextXid \in Nat
      /\ \A t \in open : t.xid \in Nat
  BY DEF IInv, TypeInv, TypeOK, Transaction
<1>1. pass' = [pass EXCEPT ![w] = p] /\ UNCHANGED <<nextXid, open, table, lastXid, stats>>
      /\ pass[w].phase = "horizon"
  BY <1>0 DEF ReadHorizon, dbVars, aggregates, Pass
<1>2. /\ pass[w]' = p
      /\ p.phase = "nth" /\ p.own = pass[w].own /\ p.last = pass[w].last
      /\ p.delta = pass[w].delta /\ p.horizon = SnapshotXmin(w)
  BY <1>0, <1>1 DEF Pass
<1> HIDE DEF p
<1>3. PassOK(w)
  BY DEF IInv, PassInv
<1>4. SnapshotXmin(w) \in {t.xid : t \in open} \cup {pass[w].own}
      /\ (\A t \in open : SnapshotXmin(w) <= t.xid)
      /\ SnapshotXmin(w) <= pass[w].own /\ SnapshotXmin(w) \in Nat
  BY SnapshotLeast DEF IInv, TypeInv
<1>5. lastXid <= SnapshotXmin(w) /\ SnapshotXmin(w) <= nextXid
  <2>1. pass[w].own \in Nat /\ lastXid <= pass[w].own /\ pass[w].own <= nextXid
    BY <1>0, <1>1, <1>3 DEF PassOK, Pass
  <2>2. \A t \in open : lastXid <= t.xid
    BY DEF IInv, XidInv
  <2> QED BY <1>0, <1>4, <2>1, <2>2
<1>6. /\ pass[w].phase' = "nth"
      /\ UNCHANGED <<pass[w].own, pass[w].last, pass[w].delta>>
      /\ pass[w].horizon' = SnapshotXmin(w)
  BY <1>2
<1>7. (\A c \in Cells : pass[w].delta[c] = CountIn(c, Between(lastXid, pass[w].last)))'
  BY <1>1, <1>3, <1>6 DEF PassOK, Between, CountIn
<1>8. pass[w].last = lastXid /\ lastXid <= pass[w].own /\ pass[w].own <= nextXid
  BY <1>1, <1>3 DEF PassOK
<1>9. PassOK(w)'
  BY <1>0, <1>1, <1>4, <1>5, <1>6, <1>7, <1>8 DEF PassOK
<1> QED BY <1>1, <1>9, OthersKept DEF IInv

LEMMA FindInvStep ==
  ASSUME IInv, TypeInv', NEW w \in Workers, FindUpper(w)
  PROVE  IInv'
<1>0. pass[w] \in Pass /\ pass \in [Workers -> Pass]
  BY DEF IInv, TypeInv, TypeOK
<1>1. PICK upper \in IF NthXid(w) = {} THEN {pass[w].horizon} ELSE NthXid(w) :
        pass' = [pass EXCEPT ![w].phase = "fold", ![w].upper = upper,
                             ![w].more = NthXid(w) # {}]
  BY DEF FindUpper
<1>2. UNCHANGED <<nextXid, open, table, lastXid, stats>> /\ pass[w].phase = "nth"
  BY DEF FindUpper, dbVars, aggregates
<1>3. PassOK(w)
  BY DEF IInv, PassInv
<1>4. upper \in Nat /\ pass[w].last <= upper /\ upper <= pass[w].horizon
  <2>1. pass[w].last \in Nat /\ pass[w].horizon \in Nat /\ pass[w].last <= pass[w].horizon
    BY <1>0, <1>2, <1>3 DEF Pass, PassOK
  <2>2. \A x \in NthXid(w) : x \in Nat /\ pass[w].last <= x /\ x < pass[w].horizon
    BY NthType DEF IInv, TypeInv
  <2> QED BY <1>1, <2>1, <2>2
<1> DEFINE p == [pass[w] EXCEPT !.phase = "fold", !.upper = upper, !.more = (NthXid(w) # {})]
<1>5. pass' = [pass EXCEPT ![w] = p]
  BY <1>0, <1>1 DEF Pass
<1>6. /\ pass[w].phase' = "fold" /\ pass[w].upper' = upper
      /\ UNCHANGED <<pass[w].own, pass[w].last, pass[w].delta, pass[w].horizon>>
  BY <1>0, <1>5 DEF Pass
<1> HIDE DEF p
<1>7. (\A c \in Cells : pass[w].delta[c] = CountIn(c, Between(lastXid, pass[w].last)))'
  BY <1>2, <1>3, <1>6 DEF PassOK, Between, CountIn
<1>8. PassOK(w)'
  BY <1>2, <1>3, <1>4, <1>6, <1>7 DEF PassOK
<1> QED BY <1>2, <1>5, <1>8, OthersKept DEF IInv

(* A batch continues the range of the batches before it.                    *)
LEMMA FoldInvStep ==
  ASSUME IInv, TypeInv', NEW w \in Workers, FoldBatch(w)
  PROVE  IInv'
<1> DEFINE rows == Between(pass[w].last, pass[w].upper)
           delta == [c \in Cells |-> pass[w].delta[c] + CountIn(c, rows)]
           p == [pass[w] EXCEPT !.phase = IF pass[w].more THEN "nth" ELSE "advance",
                                !.last = pass[w].upper, !.delta = delta]
<1>0. pass[w] \in Pass /\ pass \in [Workers -> Pass] /\ lastXid \in Nat
  BY DEF IInv, TypeInv, TypeOK
<1>1. pass' = [pass EXCEPT ![w] = p]
  BY <1>0 DEF FoldBatch, Pass
<1>2. UNCHANGED <<nextXid, open, table, lastXid, stats>> /\ pass[w].phase = "fold"
  BY DEF FoldBatch, dbVars, aggregates
<1> HIDE DEF delta
<1>3. /\ pass[w].phase' \in {"nth", "advance"}
      /\ pass[w].last' = pass[w].upper /\ pass[w].delta' = delta
      /\ UNCHANGED <<pass[w].own, pass[w].horizon>>
  BY <1>0, <1>1 DEF Pass
<1> HIDE DEF p
<1>4. PassOK(w)
  BY DEF IInv, PassInv
<1>5. /\ pass[w].last \in Nat /\ pass[w].upper \in Nat /\ pass[w].horizon \in Nat
      /\ lastXid <= pass[w].last /\ pass[w].last <= pass[w].upper
      /\ pass[w].upper <= pass[w].horizon
  BY <1>0, <1>2, <1>4 DEF Pass, PassOK
<1>6. ASSUME NEW c \in Cells
      PROVE  delta[c] = CountIn(c, Between(lastXid, pass[w].upper))
  <2>1. CountIn(c, Between(lastXid, pass[w].upper))
          = CountIn(c, Between(lastXid, pass[w].last)) + CountIn(c, rows)
    BY <1>0, <1>5, CountSplit DEF IInv, TypeInv
  <2>2. pass[w].delta[c] = CountIn(c, Between(lastXid, pass[w].last))
    BY <1>2, <1>4 DEF PassOK
  <2> QED BY <2>1, <2>2 DEF delta
<1>7. \A c \in Cells : CountIn(c, Between(lastXid, pass[w].last))'
                         = CountIn(c, Between(lastXid, pass[w].upper))
  BY <1>2, <1>3 DEF Between, CountIn
<1>8. (\A c \in Cells : pass[w].delta[c] = CountIn(c, Between(lastXid, pass[w].last)))'
  BY <1>3, <1>6, <1>7
<1>9. lastXid <= pass[w].upper
  BY <1>0, <1>5
<1>10. PassOK(w)'
  BY <1>2, <1>3, <1>4, <1>5, <1>8, <1>9 DEF PassOK
<1> QED BY <1>1, <1>2, <1>10, OthersKept DEF IInv

(* The commit makes the watermark and what was counted up to it one.        *)
LEMMA AdvanceInvStep ==
  ASSUME IInv, TypeInv', NEW w \in Workers, Advance(w)
  PROVE  IInv'
<1>0. pass[w] \in Pass /\ pass \in [Workers -> Pass] /\ lastXid \in Nat /\ nextXid \in Nat
      /\ stats \in [Cells -> Nat] /\ \A t \in open : t.xid \in Nat
  BY DEF IInv, TypeInv, TypeOK, Transaction
<1>1. /\ pass' = [pass EXCEPT ![w] = NoPass]
      /\ lastXid' = pass[w].last
      /\ stats' = [c \in Cells |-> stats[c] + pass[w].delta[c]]
      /\ UNCHANGED <<nextXid, open, table>> /\ pass[w].phase = "advance"
  BY DEF Advance, dbVars
<1>2. PassOK(w)
  BY DEF IInv, PassInv
<1>3. /\ pass[w].last \in Nat /\ pass[w].horizon \in Nat
      /\ lastXid <= pass[w].last /\ pass[w].last <= pass[w].horizon
      /\ pass[w].horizon <= nextXid /\ \A t \in open : pass[w].horizon <= t.xid
  BY <1>0, <1>1, <1>2 DEF Pass, PassOK
<1>4. XidInv'
  BY <1>0, <1>1, <1>3 DEF XidInv, IInv
<1>5. \A v \in Workers : pass[v].phase' = "idle"
  <2>1. \A v \in Workers \ {w} : pass[v].phase = "idle"
    BY <1>1 DEF IInv, PassInv, OnePass
  <2> QED BY <1>0, <1>1, <2>1 DEF NoPass
<1>6. PassInv'
  BY <1>5 DEF PassInv, PassOK, OnePass
<1>7. ASSUME NEW c \in Cells
      PROVE  stats[c] + pass[w].delta[c] = CountIn(c, Between(0, pass[w].last))
  <2>1. CountIn(c, Between(0, pass[w].last))
          = CountIn(c, Between(0, lastXid)) + CountIn(c, Between(lastXid, pass[w].last))
    BY <1>0, <1>3, CountSplit DEF IInv, TypeInv
  <2>2. pass[w].delta[c] = CountIn(c, Between(lastXid, pass[w].last))
    BY <1>1, <1>2 DEF PassOK
  <2>3. stats[c] = CountIn(c, Between(0, lastXid))
    BY DEF IInv, AggregatesExact
  <2> QED BY <2>1, <2>2, <2>3
<1>8. \A c \in Cells : CountIn(c, Between(0, lastXid))' = CountIn(c, Between(0, pass[w].last))
  BY <1>1 DEF Between, CountIn
<1>9. AggregatesExact'
  BY <1>1, <1>7, <1>8 DEF AggregatesExact
<1> QED BY <1>4, <1>6, <1>9 DEF IInv

(* A pass that fails, or dies with its process, is rolled back; the rest of *)
(* the service does not touch the database.                                 *)
LEMMA DropInvStep ==
  ASSUME IInv, TypeInv', NEW w \in Workers, PassFails(w) \/ ServiceStep(w)
  PROVE  IInv'
<1>0. pass \in [Workers -> Pass] /\ NoPass.phase = "idle"
  BY DEF IInv, TypeInv, TypeOK, NoPass
<1>1. UNCHANGED <<nextXid, open, table, lastXid, stats>>
      /\ (pass' = [pass EXCEPT ![w] = NoPass] \/ pass' = pass)
  BY DEF PassFails, ServiceStep, Stop, Exit, Crash, Start, dbVars, aggregates
<1>2. CASE pass' = [pass EXCEPT ![w] = NoPass]
  <2>1. PassOK(w)'
    BY <1>0, <1>2, IdlePassOK
  <2> QED BY <1>0, <1>1, <1>2, <2>1, OthersKept DEF IInv
<1>3. CASE pass' = pass
  <2>1. PassInv'
    BY <1>1, <1>3, PassKept DEF IInv, PassInv, OnePass
  <2>2. XidInv' /\ AggregatesExact'
    BY <1>1, ExactKept DEF IInv, XidInv
  <2> QED BY <2>1, <2>2 DEF IInv
<1> QED BY <1>1, <1>2, <1>3

LEMMA InvStep == IInv /\ [Next]_vars => IInv'
<1> SUFFICES ASSUME IInv, [Next]_vars PROVE IInv'
  OBVIOUS
<1>1. TypeInv'
  BY TypeStep DEF IInv
<1>2. CASE \/ \E r \in Results : InsertResult(r)
           \/ \E t \in open : CommitResult(t) \/ AbortResult(t)
  BY <1>1, <1>2, WriteInvStep
<1>3. ASSUME NEW w \in Workers, PassStep(w) PROVE IInv'
  BY <1>1, <1>3, LockInvStep, ReadInvStep, FindInvStep, FoldInvStep, AdvanceInvStep
  DEF PassStep
<1>4. ASSUME NEW w \in Workers, PassFails(w) \/ ServiceStep(w) PROVE IInv'
  BY <1>1, <1>4, DropInvStep
<1>5. CASE UNCHANGED vars
  <2>1. UNCHANGED <<nextXid, open, table, lastXid, stats, pass>>
    BY <1>5 DEF vars
  <2>2. PassInv'
    BY <2>1, PassKept DEF IInv, PassInv, OnePass
  <2> QED BY <1>1, <2>1, <2>2, ExactKept DEF IInv, XidInv
<1> QED BY <1>2, <1>3, <1>4, <1>5 DEF Next

LEMMA InvAlways == Spec => []IInv
BY InvInit, InvStep, PTL DEF Spec

(* Exactly once: in every state, whatever the order in which results        *)
(* commit, and however passes fail or die, each cell of each grain counts   *)
(* exactly the results that the watermark has passed.                       *)
THEOREM RollupExact == Spec => []AggregatesExact
<1>1. IInv => AggregatesExact
  BY DEF IInv
<1> QED BY <1>1, InvAlways, PTL
-----------------------------------------------------------------------------
(* The refinement.                                                          *)

(* A result is stored once: no open transaction is about to insert one that *)
(* is there, and no two are about to insert the same.                       *)
RowInv ==
  /\ \A t \in open : t.inserts => ~Stored(t.result)
  /\ \A t, u \in open : t.result = u.result => t = u
  /\ \A p, q \in table : p.result = q.result => p = q

LEMMA RowStep == IInv /\ RowInv /\ [Next]_vars => RowInv'
<1> SUFFICES ASSUME IInv, RowInv, [Next]_vars PROVE RowInv'
  OBVIOUS
<1>1. ASSUME NEW r \in Results, InsertResult(r) PROVE RowInv'
  <2> DEFINE u == [result |-> r, xid |-> nextXid, inserts |-> ~Stored(r)]
  <2>1. /\ open' = open \cup {u} /\ table' = table
        /\ \A t \in open : t.result # r
        /\ u.result = r /\ u.inserts = ~Stored(r)
    BY <1>1 DEF InsertResult
  <2> HIDE DEF u
  <2>2. \A t \in open' : t \in open \/ t = u
    BY <2>1
  <2>3. \A x \in Results \cup {t.result : t \in open} : Stored(x)' = Stored(x)
    BY <2>1 DEF Stored
  <2> QED BY <2>1, <2>2, <2>3 DEF RowInv
<1>2. ASSUME NEW t \in open, CommitResult(t) PROVE RowInv'
  <2> DEFINE row == [result |-> t.result, xid |-> t.xid]
  <2>1. /\ open' = open \ {t}
        /\ table' = IF t.inserts THEN table \cup {row} ELSE table
        /\ row.result = t.result
    BY <1>2 DEF CommitResult
  <2> HIDE DEF row
  <2>2. \A u \in open' : u.inserts => ~Stored(u.result)'
    BY <2>1 DEF RowInv, Stored
  <2>3. \A p, q \in table' : p.result = q.result => p = q
    BY <2>1 DEF RowInv, Stored
  <2> QED BY <2>1, <2>2, <2>3 DEF RowInv
<1>3. ASSUME NEW t \in open, AbortResult(t) PROVE RowInv'
  BY <1>3 DEF AbortResult, RowInv, Stored
<1>4. ASSUME NEW w \in Workers, PassStep(w) \/ PassFails(w) \/ ServiceStep(w) PROVE RowInv'
  <2>1. UNCHANGED <<open, table>>
    BY <1>4 DEF PassStep, LockState, ReadHorizon, FindUpper, FoldBatch, Advance, PassFails,
                ServiceStep, Stop, Exit, Crash, Start, dbVars
  <2> QED BY <2>1 DEF RowInv, Stored
<1>5. CASE UNCHANGED vars
  BY <1>5 DEF vars, RowInv, Stored
<1> QED BY <1>1, <1>2, <1>3, <1>4, <1>5 DEF Next

LEMMA RowInit == Init => RowInv
BY DEF Init, RowInv

LEMMA RefinementInv == Spec => [](IInv /\ RowInv)
<1>1. Init => IInv /\ RowInv
  BY InvInit, RowInit
<1>2. (IInv /\ RowInv) /\ [Next]_vars => (IInv /\ RowInv)'
  BY InvStep, RowStep
<1> QED BY <1>1, <1>2, PTL DEF Spec

(* Rows and their results are counted alike.                                *)
LEMMA CountResults ==
  ASSUME NEW c, NEW rows, IsFiniteSet(rows),
         \A p, q \in rows : p.result = q.result => p = q
  PROVE  CountIn(c, rows)
           = Cardinality({r \in {row.result : row \in rows} : c \in CellsOf[r]})
<1> DEFINE P == {row \in rows : c \in CellsOf[row.result]}
           R == {r \in {row.result : row \in rows} : c \in CellsOf[r]}
           f == [row \in P |-> row.result]
<1>1. IsFiniteSet(P)
  BY CountType
<1>2. f \in [P -> R]
  OBVIOUS
<1>3. \A p, q \in P : f[p] = f[q] => p = q
  OBVIOUS
<1>4. \A r \in R : \E p \in P : f[p] = r
  OBVIOUS
<1>5. CountIn(c, rows) = Cardinality(P)
  BY DEF CountIn
<1> HIDE DEF P, R, f
<1>6. f \in Bijection(P, R)
  BY <1>2, <1>3, <1>4 DEF Bijection, Injection, IsInjective, Surjection
<1>7. ExistsBijection(P, R)
  BY <1>6 DEF ExistsBijection
<1>8. Cardinality(R) = Cardinality(P)
  BY <1>1, <1>7, FS_Bijection
<1> QED BY <1>5, <1>8 DEF R

Kept(S) == {row.result : row \in S}

LEMMA SummaryInit == Init => Summary!Init
<1> SUFFICES ASSUME Init PROVE Summary!Init
  OBVIOUS
<1>1. Between(0, lastXid) = {} /\ table = {}
  BY DEF Init, Between
<1>2. stats = [c \in Cells |-> 0]
  BY DEF Init, Nothing
<1> QED BY <1>1, <1>2 DEF Summary!Init

(* A commit stores one result, or none.                                     *)
LEMMA CommitIsStore ==
  ASSUME IInv, RowInv, NEW t \in open, CommitResult(t)
  PROVE  Summary!Store(t.result) \/ UNCHANGED <<table, lastXid, stats>>
<1>1. t \in Transaction /\ lastXid \in Nat /\ lastXid <= t.xid /\ t.xid \in Nat
  BY DEF IInv, TypeInv, TypeOK, XidInv, Transaction
<1>2. UNCHANGED <<lastXid, stats>>
  BY DEF CommitResult, aggregates
<1>3. CASE ~t.inserts
  BY <1>2, <1>3 DEF CommitResult
<1>4. CASE t.inserts
  <2> DEFINE row == [result |-> t.result, xid |-> t.xid]
  <2>1. table' = table \cup {row} /\ row.result = t.result
    BY <1>4 DEF CommitResult
  <2> HIDE DEF row
  <2>2. Between(0, lastXid)' = Between(0, lastXid)
    BY <1>1, <1>2, RangeClosed DEF IInv, TypeInv
  <2>3. t.result \notin Kept(table)
    BY <1>4 DEF RowInv, Stored, Kept
  <2>4. Kept(table)' = Kept(table) \cup {t.result}
    BY <2>1 DEF Kept
  <2> QED BY <1>2, <2>2, <2>3, <2>4 DEF Summary!Store, Kept
<1> QED BY <1>3, <1>4

(* An advance counts the results between the two watermarks.                *)
LEMMA AdvanceIsCount ==
  ASSUME IInv, RowInv, NEW w \in Workers, Advance(w)
  PROVE  \E S \in SUBSET Results : Summary!Count(S)
<1> DEFINE rows == Between(lastXid, pass[w].last)
           old == Between(0, lastXid)
           all == Between(0, pass[w].last)
           S == Kept(rows)
<1>0. pass[w] \in Pass /\ lastXid \in Nat /\ PassOK(w) /\ TypeOK /\ IsFiniteSet(table)
  BY DEF IInv, TypeInv, TypeOK, PassInv
<1>1. /\ lastXid' = pass[w].last
      /\ stats' = [c \in Cells |-> stats[c] + pass[w].delta[c]]
      /\ UNCHANGED table /\ pass[w].phase = "advance"
  BY DEF Advance, dbVars
<1>2. lastXid <= pass[w].last /\ pass[w].last \in Nat
  BY <1>0, <1>1 DEF Pass, PassOK
<1>3. all = old \cup rows /\ old \cap rows = {}
  BY <1>0, <1>2, BetweenSplit
<1>4. rows \subseteq table /\ old \subseteq table /\ IsFiniteSet(rows)
  BY <1>0, FS_Subset DEF Between
<1>5. \A p, q \in table : p.result = q.result => p = q
  BY DEF RowInv
<1>6. \A c \in Cells : pass[w].delta[c] = CountIn(c, rows)
  BY <1>0, <1>1 DEF PassOK
<1>7. Between(0, lastXid)' = all
  BY <1>1 DEF Between
<1>8. \A c \in Cells : CountIn(c, rows) = Cardinality({r \in S : c \in CellsOf[r]})
  BY <1>4, <1>5, CountResults DEF Kept
<1>9. \A row \in table : row.result \in Results
  BY <1>0 DEF TypeOK, Row
<1> HIDE DEF rows, old, all
<1>10. S \subseteq Results /\ S \subseteq Kept(table) \ Kept(old)
  BY <1>3, <1>4, <1>5, <1>9 DEF Kept
<1>11. Kept(all) = Kept(old) \cup S
  BY <1>3 DEF Kept
<1> HIDE DEF S
<1>12. \A c \in Cells : Summary!Counts(S)[c] = pass[w].delta[c]
  <2>1. \A c \in Cells :
          Summary!Counts(S)[c] = Cardinality({r \in S : c \in CellsOf[r]})
    BY Zenon DEF Summary!Counts, Summary!Cardinality, Cardinality
  <2> QED BY <1>6, <1>8, <2>1, Zenon
<1>13. stats' = [c \in Cells |-> stats[c] + Summary!Counts(S)[c]]
  BY <1>1, <1>12
<1>14. Kept(Between(0, lastXid))' = Kept(Between(0, lastXid)) \cup S
  BY <1>7, <1>11 DEF Kept, old
<1>15. PICK T \in SUBSET Results : T = S
  BY <1>10
<1>16. Summary!Count(T)
  BY <1>1, <1>10, <1>13, <1>14, <1>15 DEF Summary!Count, Summary!Counts, Kept, old
<1> QED BY <1>16, Zenon

LEMMA SummaryStep ==
  IInv /\ RowInv /\ [Next]_vars => [Summary!Next]_(Summary!vars)
<1> SUFFICES ASSUME IInv, RowInv, [Next]_vars
             PROVE  Summary!Next \/ UNCHANGED Summary!vars
  OBVIOUS
<1>1. UNCHANGED <<table, lastXid, stats>> => UNCHANGED Summary!vars
  BY DEF Summary!vars, Between
<1>2. ASSUME NEW t \in open, CommitResult(t)
      PROVE  Summary!Next \/ UNCHANGED Summary!vars
  <2>1. t.result \in Results
    BY DEF IInv, TypeInv, TypeOK, Transaction
  <2> QED BY <1>1, <1>2, <2>1, CommitIsStore DEF Summary!Next
<1>3. ASSUME NEW w \in Workers, Advance(w) PROVE Summary!Next
  BY <1>3, AdvanceIsCount DEF Summary!Next
<1>4. ASSUME \/ \E r \in Results : InsertResult(r)
             \/ \E t \in open : AbortResult(t)
             \/ \E w \in Workers : \/ LockState(w) \/ ReadHorizon(w) \/ FindUpper(w)
                                   \/ FoldBatch(w) \/ PassFails(w) \/ ServiceStep(w)
             \/ UNCHANGED vars
      PROVE  UNCHANGED <<table, lastXid, stats>>
  BY <1>4
  DEF InsertResult, AbortResult, LockState, ReadHorizon, FindUpper, FoldBatch, PassFails,
      ServiceStep, Stop, Exit, Crash, Start, dbVars, aggregates, vars
<1> QED BY <1>1, <1>2, <1>3, <1>4 DEF Next, PassStep

(* What readers of probe_stats rely on: the rollup implements an aggregate  *)
(* that counts each stored result once in each of its cells, all at once.   *)
THEOREM RollupImplementsAggregate == Spec => ImplementsAggregate
BY SummaryInit, SummaryStep, RefinementInv, PTL
DEF Spec, ImplementsAggregate, Summary!Spec
=============================================================================
