------------------------------- MODULE Rollup -------------------------------
(***************************************************************************)
(* The rollup of src/src/worker/rollup: passes that fold the stored probe  *)
(* results into aggregates, up to a watermark over the id of the inserting *)
(* transaction.  The results are inserted by transactions that take their  *)
(* ids in one order and commit, or not, in any other; any number of        *)
(* workers run passes, each a transaction of several statements.           *)
(*                                                                         *)
(* A step is one statement.  A pass draws a transaction id when it locks   *)
(* the state row, and so bounds its own snapshot; as no result carries     *)
(* that id, the model gives it the number of the next id to be drawn.      *)
(***************************************************************************)
EXTENDS Integers, FiniteSets

CONSTANTS
  Results,         \* probe results, by primary key
  Workers,         \* worker processes
  Origin,          \* the endpoint and started_at of each result
  Grains,          \* stat_grain: m1, h1, d1
  Width,           \* the length of a bucket of each grain
  WRITE_ATTEMPTS,  \* RESULT_WRITE_ATTEMPTS
  BATCH_XIDS,      \* ROLLUP_BATCH_ROWS, distinct transactions per batch
  MAX_FAULTS,      \* bound of a run: passes that fail
  MAX_STOPS        \* bound of a run: crashes and shutdowns

ASSUME DataAssumption ==
  /\ IsFiniteSet(Results)
  /\ Width \in [Grains -> Nat \ {0}]
  /\ \A r \in Results : Origin[r].started_at \in Nat

ASSUME BatchAssumption == BATCH_XIDS \in Nat \ {0}

ASSUME LimitAssumption == {WRITE_ATTEMPTS, MAX_FAULTS, MAX_STOPS} \subseteq Nat

VARIABLES
  nextXid,   \* the next transaction id
  open,      \* inserting transactions that have neither committed nor aborted
  table,     \* probe_results: the committed rows, each with its insert_xid
  attempts,  \* how often the write of each result was attempted
  lastXid,   \* rollup_state.last_xid
  stats,     \* probe_stats: one additive column, the number of results
  pass,      \* the pass each worker is in
  service,   \* lifecycle of RollupService in each worker
  faults, stops

dbVars == <<nextXid, open, table, attempts>>
aggregates == <<lastXid, stats>>
vars == <<nextXid, open, table, attempts, lastXid, stats, pass, service, faults, stops>>
-----------------------------------------------------------------------------
(* The cells a result is counted in: its bucket of each grain.              *)

Cell(g, r) ==
  [endpoint |-> Origin[r].endpoint, granularity |-> g,
   bucket_start |-> Origin[r].started_at - (Origin[r].started_at % Width[g])]
CellsOf == [r \in Results |-> {Cell(g, r) : g \in Grains}]
Cells == UNION {CellsOf[r] : r \in Results}

Row == [result : Results, xid : Nat]
Transaction == [result : Results, xid : Nat, inserts : BOOLEAN]
Phases == {"idle", "horizon", "nth", "fold", "advance"}
Pass == [phase : Phases, own : Nat, horizon : Nat, last : Nat, upper : Nat,
         more : BOOLEAN, delta : [Cells -> Nat]]

Nothing == [c \in Cells |-> 0]
NoPass == [phase |-> "idle", own |-> 0, horizon |-> 0, last |-> 0, upper |-> 0,
           more |-> FALSE, delta |-> Nothing]

Stored(r) == \E row \in table : row.result = r

Init ==
  /\ nextXid = 1
  /\ open = {}
  /\ table = {}
  /\ attempts = [r \in Results |-> 0]
  /\ lastXid = 0
  /\ stats = Nothing
  /\ pass = [w \in Workers |-> NoPass]
  /\ service = [w \in Workers |-> "running"]
  /\ faults = 0 /\ stops = 0

Fault == faults < MAX_FAULTS /\ faults' = faults + 1
-----------------------------------------------------------------------------
(* The recorders' transactions.                                             *)

(* An attempt at a result's write.  It waits for an earlier attempt that is *)
(* still open; it inserts nothing if an earlier one committed and only its  *)
(* reply was lost (ON CONFLICT DO NOTHING).                                 *)
InsertResult(r) ==
  /\ attempts[r] < WRITE_ATTEMPTS
  /\ \A t \in open : t.result # r
  /\ attempts' = [attempts EXCEPT ![r] = @ + 1]
  /\ open' = open \cup {[result |-> r, xid |-> nextXid, inserts |-> ~Stored(r)]}
  /\ nextXid' = nextXid + 1
  /\ UNCHANGED <<table, aggregates, pass, service, faults, stops>>

CommitResult(t) ==
  /\ open' = open \ {t}
  /\ table' = IF t.inserts THEN table \cup {[result |-> t.result, xid |-> t.xid]}
              ELSE table
  /\ UNCHANGED <<nextXid, attempts, aggregates, pass, service, faults, stops>>

AbortResult(t) ==
  /\ open' = open \ {t}
  /\ UNCHANGED <<nextXid, table, attempts, aggregates, pass, service, faults, stops>>
-----------------------------------------------------------------------------
(* A pass: RollupRepository.runOnce.                                        *)

(* Mutant: the state row is read without a lock.                            *)
LockState_NoLock(w) ==
  /\ service[w] = "running"
  /\ pass[w].phase = "idle"
  /\ pass' = [pass EXCEPT ![w] =
       [NoPass EXCEPT !.phase = "horizon", !.own = nextXid, !.last = lastXid]]
  /\ UNCHANGED <<dbVars, aggregates, service, faults, stops>>

(* SELECT ... FOR UPDATE SKIP LOCKED: while another pass holds the row, a   *)
(* pass ends at once, having changed nothing.                               *)
LockState(w) ==
  /\ service[w] = "running"
  /\ \A v \in Workers : pass[v].phase = "idle"
  /\ pass' = [pass EXCEPT ![w] =
       [NoPass EXCEPT !.phase = "horizon", !.own = nextXid, !.last = lastXid]]
  /\ UNCHANGED <<dbVars, aggregates, service, faults, stops>>

(* Mutant: the horizon is the next id, whatever is still open below it.     *)
SnapshotXmin_Next(w) == nextXid

(* pg_snapshot_xmin(pg_current_snapshot()): the oldest id still in use.     *)
SnapshotXmin(w) ==
  LET active == {t.xid : t \in open} \cup {pass[w].own} IN
  CHOOSE x \in active : \A y \in active : x <= y

ReadHorizon(w) ==
  /\ pass[w].phase = "horizon"
  /\ pass' = [pass EXCEPT ![w].phase = "nth", ![w].horizon = SnapshotXmin(w)]
  /\ UNCHANGED <<dbVars, aggregates, service, faults, stops>>

(* The rows a statement of the pass sees with lower <= insert_xid < upper.  *)
Between(lower, upper) == {row \in table : lower <= row.xid /\ row.xid < upper}

(* Mutant: OFFSET one less, so a batch of one transaction never advances.   *)
NthXid_OffByOne(w) ==
  LET xids == {row.xid : row \in Between(pass[w].last, pass[w].horizon)} IN
  {x \in xids : Cardinality({y \in xids : y < x}) = BATCH_XIDS - 1}

(* The (n+1)-th distinct id of the batch's range, if there are that many.   *)
NthXid(w) ==
  LET xids == {row.xid : row \in Between(pass[w].last, pass[w].horizon)} IN
  {x \in xids : Cardinality({y \in xids : y < x}) = BATCH_XIDS}

FindUpper(w) ==
  /\ pass[w].phase = "nth"
  /\ \E upper \in IF NthXid(w) = {} THEN {pass[w].horizon} ELSE NthXid(w) :
       pass' = [pass EXCEPT ![w].phase = "fold", ![w].upper = upper,
                            ![w].more = NthXid(w) # {}]
  /\ UNCHANGED <<dbVars, aggregates, service, faults, stops>>

CountIn(c, rows) == Cardinality({row \in rows : c \in CellsOf[row.result]})

(* One statement folds the batch into all grains, inside the transaction.   *)
FoldBatch(w) ==
  /\ pass[w].phase = "fold"
  /\ LET rows == Between(pass[w].last, pass[w].upper) IN
     pass' = [pass EXCEPT ![w].phase = IF pass[w].more THEN "nth" ELSE "advance",
                          ![w].last = pass[w].upper,
                          ![w].delta = [c \in Cells |->
                                          pass[w].delta[c] + CountIn(c, rows)]]
  /\ UNCHANGED <<dbVars, aggregates, service, faults, stops>>

(* UPDATE rollup_state and the commit: aggregates and watermark together.   *)
Advance(w) ==
  /\ pass[w].phase = "advance"
  /\ lastXid' = pass[w].last
  /\ stats' = [c \in Cells |-> stats[c] + pass[w].delta[c]]
  /\ pass' = [pass EXCEPT ![w] = NoPass]
  /\ UNCHANGED <<dbVars, service, faults, stops>>

(* Any statement may fail: the transaction rolls back, the tick logs it.    *)
PassFails(w) ==
  /\ pass[w].phase # "idle"
  /\ Fault
  /\ pass' = [pass EXCEPT ![w] = NoPass]
  /\ UNCHANGED <<dbVars, aggregates, service, stops>>
-----------------------------------------------------------------------------
(* RollupService and the process around it.                                 *)

Stop(w) ==
  /\ service[w] = "running"
  /\ stops < MAX_STOPS
  /\ stops' = stops + 1
  /\ service' = [service EXCEPT ![w] = "stopping"]
  /\ UNCHANGED <<dbVars, aggregates, pass, faults>>

(* stop() awaits the pass in flight before the connection pool closes.      *)
Exit(w) ==
  /\ service[w] = "stopping"
  /\ pass[w].phase = "idle"
  /\ service' = [service EXCEPT ![w] = "down"]
  /\ UNCHANGED <<dbVars, aggregates, pass, faults, stops>>

Crash(w) ==
  /\ service[w] # "down"
  /\ stops < MAX_STOPS
  /\ stops' = stops + 1
  /\ service' = [service EXCEPT ![w] = "down"]
  /\ pass' = [pass EXCEPT ![w] = NoPass]
  /\ UNCHANGED <<dbVars, aggregates, faults>>

Start(w) ==
  /\ service[w] = "down"
  /\ service' = [service EXCEPT ![w] = "running"]
  /\ UNCHANGED <<dbVars, aggregates, pass, faults, stops>>
-----------------------------------------------------------------------------
PassStep(w) ==
  LockState(w) \/ ReadHorizon(w) \/ FindUpper(w) \/ FoldBatch(w) \/ Advance(w)

ServiceStep(w) == Stop(w) \/ Exit(w) \/ Crash(w) \/ Start(w)

Next ==
  \/ \E r \in Results : InsertResult(r)
  \/ \E t \in open : CommitResult(t) \/ AbortResult(t)
  \/ \E w \in Workers : PassStep(w) \/ PassFails(w) \/ ServiceStep(w)

Spec == Init /\ [][Next]_vars

(* Transactions end; a pass that has begun goes on, and the next is armed   *)
(* when it ends; a stopping process exits and starts again.  Nothing makes  *)
(* a write be attempted, or a pass fail.                                    *)
Fairness ==
  /\ WF_vars(\E t \in open : CommitResult(t) \/ AbortResult(t))
  /\ \A w \in Workers : WF_vars(PassStep(w)) /\ WF_vars(Exit(w) \/ Start(w))

FairSpec == Spec /\ Fairness
-----------------------------------------------------------------------------
TypeOK ==
  /\ nextXid \in Nat
  /\ open \subseteq Transaction
  /\ table \subseteq Row
  /\ attempts \in [Results -> Nat]
  /\ lastXid \in Nat
  /\ stats \in [Cells -> Nat]
  /\ pass \in [Workers -> Pass]
  /\ service \in [Workers -> {"running", "stopping", "down"}]
  /\ faults \in Nat /\ stops \in Nat

(* Every cell of every grain counts exactly the results below the watermark *)
(* - none lost to the order of commits, none counted twice by two passes, a *)
(* failed pass or a crash (FR-27, ADR-0007).                                *)
AggregatesExact == \A c \in Cells : stats[c] = CountIn(c, Between(0, lastXid))

(* The rollup implements an aggregate that counts each stored result once.  *)
Summary == INSTANCE Aggregate WITH
  stored <- {row.result : row \in table},
  counted <- {row.result : row \in Between(0, lastXid)}
ImplementsAggregate == Summary!Spec

(* A stored result is folded, in the end: a rollup that is behind is lag,   *)
(* not loss.                                                                *)
Folded(r) == \E row \in table : row.result = r /\ row.xid < lastXid
EveryResultFolded == \A r \in Results : Stored(r) ~> Folded(r)
=============================================================================
