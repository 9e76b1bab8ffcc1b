----------------------------- MODULE Scheduler -----------------------------
(***************************************************************************)
(* The claim-based probe scheduler of src/src/worker/scheduler: worker     *)
(* processes that adopt, reconcile and claim endpoint_runtime rows, run    *)
(* the claimed slots in a bounded pool, and write a result and the lease   *)
(* release in one transaction.  Any number of workers share the database,  *)
(* which executes each of their statements atomically on its own clock.    *)
(*                                                                         *)
(* A step is either one database statement together with the worker code   *)
(* that runs on its reply, or one worker-side event.  The claim is the     *)
(* exception: its commit and its reply are two steps, because a shutdown   *)
(* or a crash between the two is what the lease exists for.                *)
(***************************************************************************)
EXTENDS Integers, FiniteSets

CONSTANTS
  Endpoints,            \* endpoint ids
  Workers,              \* WORKER_IDs, unique per running instance
  Intervals,            \* PROBE_ALLOWED_INTERVALS_S
  NULL,                 \* SQL NULL, and "no value" in a worker
  LEASE,                \* SCHEDULER_LEASE_MS
  LOAD_BUDGET,          \* SCHEDULER_LOAD_BUDGET_MS
  PROBE_MAX,            \* PROBE_MAX_TIMEOUT_MS
  LEASE_SLACK,          \* SCHEDULER_LEASE_SLACK_MS
  GRACE,                \* SCHEDULER_SHUTDOWN_GRACE_MS
  JITTER_MAX,           \* SCHEDULER_ADOPT_JITTER_MAX_S
  BATCH_SIZE,           \* SCHEDULER_BATCH_SIZE
  CONCURRENCY,          \* PROBE_CONCURRENCY
  WRITE_ATTEMPTS,       \* RESULT_WRITE_ATTEMPTS
  BACKOFF,              \* RESULT_WRITE_BACKOFF_MS
  MAX_TIME,             \* bound of a run: the last instant of the clock
  MAX_FAULTS,           \* bound of a run: failed database calls and probes
  MAX_STOPS,            \* bound of a run: crashes and shutdowns
  MAX_EDITS             \* bound of a run: writes of the API

(* The cross-field rules loadConfig refuses to start without, and the       *)
(* ranges of the fields they relate.                                        *)
ASSUME ConfigAssumption ==
  /\ Intervals \subseteq Nat \ {0}
  /\ {LEASE, LOAD_BUDGET, PROBE_MAX, LEASE_SLACK, GRACE, JITTER_MAX, BATCH_SIZE,
      CONCURRENCY, WRITE_ATTEMPTS, BACKOFF} \subseteq Nat
  /\ LEASE >= LOAD_BUDGET + PROBE_MAX + LEASE_SLACK
  /\ GRACE >= LOAD_BUDGET + PROBE_MAX
  /\ GRACE < LEASE
  /\ WRITE_ATTEMPTS >= 1

ASSUME BoundAssumption ==
  {MAX_TIME, MAX_FAULTS, MAX_STOPS, MAX_EDITS} \subseteq Nat

ASSUME FiniteAssumption == IsFiniteSet(Endpoints)

VARIABLES
  now,        \* the clock; workers only measure durations with theirs
  endpoints,  \* the API's endpoints table
  runtime,    \* endpoint_runtime: NULL where an endpoint has no row
  claimLog,   \* claim_log
  results,    \* probe_results, by primary key
  proc,       \* lifecycle of each worker process
  tick,       \* runTick: the statement each worker's tick waits for
  jobs,       \* ProbePoolService.inFlight: the slots each worker is running
  faults, stops, edits

vars == <<now, endpoints, runtime, claimLog, results, proc, tick, jobs,
          faults, stops, edits>>
tables == <<endpoints, runtime, claimLog, results>>
bounds == <<faults, stops, edits>>

Least(a, b) == IF a <= b THEN a ELSE b
Greatest(a, b) == IF a >= b THEN a ELSE b
-----------------------------------------------------------------------------
(* State the program can be in.                                             *)

TimeOrNull == Nat \cup {NULL}
Slot == [endpoint : Endpoints, scheduled_at : Nat]
Endpoint == [status : {"none", "live", "deleted"}, enabled : BOOLEAN,
             interval_s : Intervals]
RuntimeRow == [next_run_at : Nat, scheduled_at : TimeOrNull,
               scheduled_interval_s : Intervals, leased_until : TimeOrNull,
               leased_by : Workers \cup {NULL}, last_probe_at : TimeOrNull]
ClaimRow == [endpoint : Endpoints, scheduled_at : Nat, worker_id : Workers,
             claimed_at : Nat]
ResultRow == [endpoint : Endpoints, scheduled_at : Nat, worker_id : Workers,
              attempt_id : Nat]
Process == [state : {"down", "running", "stopping", "draining", "drained"},
            deadline : TimeOrNull, drainUntil : TimeOrNull]
TickState == [phase : {"idle", "reconcile", "claim", "dispatch"},
              capacity : Nat, rows : SUBSET Slot, claimedAt : Nat]
JobPhases == {"load", "probe", "insert", "release", "backoff", "abandon"}
Job == [endpoint : Endpoints, scheduled_at : Nat, phase : JobPhases,
        until : Nat, attempt : Nat, attempt_id : TimeOrNull]

(* NULL is a value of no column type, and no row.                           *)
ASSUME NullAssumption ==
  /\ NULL \notin Nat
  /\ NULL \notin Workers
  /\ NULL \notin RuntimeRow

NoProcess == [state |-> "down", deadline |-> NULL, drainUntil |-> NULL]
NoTick == [phase |-> "idle", capacity |-> 0, rows |-> {}, claimedAt |-> 0]

(* Endpoints may have been registered while every worker was down (D16):    *)
(* none has a runtime row before a worker adopts it.                        *)
Init ==
  /\ now = 0
  /\ endpoints \in [Endpoints -> [status : {"none", "live"}, enabled : {TRUE},
                                  interval_s : Intervals]]
  /\ runtime = [e \in Endpoints |-> NULL]
  /\ claimLog = {}
  /\ results = {}
  /\ proc = [w \in Workers |-> NoProcess]
  /\ tick = [w \in Workers |-> NoTick]
  /\ jobs = [w \in Workers |-> {}]
  /\ faults = 0 /\ stops = 0 /\ edits = 0
-----------------------------------------------------------------------------
(* The API's side of the endpoints table: the scheduler only reads it.      *)

Live(e) == endpoints[e].status = "live"

CreateEndpoint(e) ==
  /\ endpoints[e].status = "none"
  /\ edits < MAX_EDITS
  /\ edits' = edits + 1
  /\ endpoints' = [endpoints EXCEPT ![e].status = "live"]
  /\ UNCHANGED <<now, runtime, claimLog, results, proc, tick, jobs, faults, stops>>

UpdateEndpoint(e) ==
  /\ Live(e)
  /\ edits < MAX_EDITS
  /\ edits' = edits + 1
  /\ \/ \E i \in Intervals : endpoints' = [endpoints EXCEPT ![e].interval_s = i]
     \/ endpoints' = [endpoints EXCEPT ![e].enabled = ~@]
  /\ UNCHANGED <<now, runtime, claimLog, results, proc, tick, jobs, faults, stops>>

(* endpoint_runtime goes with its endpoint; the evidence tables have no     *)
(* foreign key and keep their rows.                                         *)
DeleteEndpoint(e) ==
  /\ Live(e)
  /\ edits < MAX_EDITS
  /\ edits' = edits + 1
  /\ endpoints' = [endpoints EXCEPT ![e].status = "deleted"]
  /\ runtime' = [runtime EXCEPT ![e] = NULL]
  /\ UNCHANGED <<now, claimLog, results, proc, tick, jobs, faults, stops>>
-----------------------------------------------------------------------------
(* The worker's deadlines.                                                  *)

(* terminalWriteTimeoutMs, as the instant the statement is cancelled.  The  *)
(* 1 ms floor of a write that starts with no time left is below the unit of *)
(* the clock: such a write begins and ends in one instant.                  *)
WriteUntil(w) ==
  IF proc[w].deadline = NULL THEN now + GRACE ELSE Greatest(now, proc[w].deadline)

GraceExpired(w) == proc[w].deadline # NULL /\ now >= proc[w].deadline

SetJob(w, j, next) == jobs' = [jobs EXCEPT ![w] = (@ \ {j}) \cup {next}]
Settle(w, j) == jobs' = [jobs EXCEPT ![w] = @ \ {j}]

Fault == faults < MAX_FAULTS /\ faults' = faults + 1
-----------------------------------------------------------------------------
(* The tick: adopt, reconcile, claim, dispatch.                             *)

(* Mutant: adoption without the anti-join and without ON CONFLICT.          *)
NeedsRow_Always(e) == Live(e)

NeedsRow(e) == Live(e) /\ runtime[e] = NULL

(* Mutants: a lease taken over at the instant it ends; one that never ends. *)
LeaseFree_AtExpiry(r) == r.leased_until = NULL \/ r.leased_until <= now
LeaseFree_Never(r) == r.leased_until = NULL

LeaseFree(r) == r.leased_until = NULL \/ r.leased_until < now

(* The fence of releaseQuery and abandonQuery.                              *)
FenceHolds(w, j) ==
  LET r == runtime[j.endpoint] IN
  /\ r # NULL
  /\ r.leased_by = w
  /\ r.scheduled_at = j.scheduled_at

(* Rows a terminal write has locked until it commits.  A statement with     *)
(* SKIP LOCKED that runs meanwhile passes over them.                        *)
LockedRows ==
  {e \in Endpoints : \E w \in Workers : \E j \in jobs[w] :
      j.endpoint = e /\ j.phase \in {"release", "abandon"} /\ FenceHolds(w, j)}

Adopt(w) ==
  /\ proc[w].state = "running"
  /\ tick[w].phase = "idle"
  /\ tick' = [tick EXCEPT ![w].phase = "reconcile"]
  /\ \/ /\ \E jitter \in [Endpoints -> 0 .. JITTER_MAX] :
             runtime' = [e \in Endpoints |->
               IF NeedsRow(e)
               THEN [next_run_at |-> now + Least(jitter[e], endpoints[e].interval_s),
                     scheduled_at |-> NULL,
                     scheduled_interval_s |-> endpoints[e].interval_s,
                     leased_until |-> NULL, leased_by |-> NULL, last_probe_at |-> NULL]
               ELSE runtime[e]]
        /\ UNCHANGED faults
     \/ Fault /\ UNCHANGED runtime
  /\ UNCHANGED <<now, endpoints, claimLog, results, proc, jobs, stops, edits>>

(* Mutants: the interval compared by the slots' arithmetic; only a shorter  *)
(* interval reconciled.                                                     *)
Stale_Arithmetic(e) ==
  LET r == runtime[e] IN
  /\ r # NULL
  /\ r.scheduled_at # NULL
  /\ LeaseFree(r)
  /\ r.next_run_at # r.scheduled_at + endpoints[e].interval_s
Stale_OnlyShorter(e) ==
  LET r == runtime[e] IN
  /\ r # NULL
  /\ r.scheduled_at # NULL
  /\ LeaseFree(r)
  /\ r.scheduled_interval_s > endpoints[e].interval_s

(* Provenance, not arithmetic, says that the user changed the interval.     *)
Stale(e) ==
  LET r == runtime[e] IN
  /\ r # NULL
  /\ r.scheduled_at # NULL
  /\ LeaseFree(r)
  /\ r.scheduled_interval_s # endpoints[e].interval_s

(* Mutant: the pool's size instead of its free places.                      *)
Available_Whole(w) == CONCURRENCY

Available(w) == Greatest(0, CONCURRENCY - Cardinality(jobs[w]))

(* Mutant: stopping checked only when the tick was armed.                   *)
SendClaim_NoRecheck(w) ==
  tick' = [tick EXCEPT ![w] =
    IF Available(w) = 0
    THEN NoTick
    ELSE [NoTick EXCEPT !.phase = "claim",
                        !.capacity = Least(BATCH_SIZE, Available(w))]]

(* What runTick does once reconcile has answered: the re-check of stopping, *)
(* the pool's capacity, and the claim it then sends.                        *)
SendClaim(w) ==
  tick' = [tick EXCEPT ![w] =
    IF proc[w].state # "running" \/ Available(w) = 0
    THEN NoTick
    ELSE [NoTick EXCEPT !.phase = "claim",
                        !.capacity = Least(BATCH_SIZE, Available(w))]]

Reconcile(w) ==
  /\ tick[w].phase = "reconcile"
  /\ \/ /\ \E skipped \in SUBSET LockedRows :
             runtime' = [e \in Endpoints |->
               IF Stale(e) /\ e \notin skipped
               THEN [runtime[e] EXCEPT
                       !.next_run_at = runtime[e].scheduled_at + endpoints[e].interval_s,
                       !.scheduled_interval_s = endpoints[e].interval_s]
               ELSE runtime[e]]
        /\ UNCHANGED faults
     \/ Fault /\ UNCHANGED runtime
  /\ SendClaim(w)
  /\ UNCHANGED <<now, endpoints, claimLog, results, proc, jobs, stops, edits>>

(* Mutant: a due row is claimed whoever holds it.                           *)
Due_IgnoresLease(e) ==
  LET r == runtime[e] IN
  /\ r # NULL
  /\ endpoints[e].enabled
  /\ r.next_run_at <= now

Due(e) ==
  LET r == runtime[e] IN
  /\ r # NULL
  /\ endpoints[e].enabled
  /\ r.next_run_at <= now
  /\ LeaseFree(r)

(* ORDER BY next_run_at LIMIT n.                                            *)
OldestFirst(batch, due, n) ==
  /\ batch \subseteq due
  /\ Cardinality(batch) = Least(n, Cardinality(due))
  /\ \A e \in batch, f \in due \ batch :
       runtime[e].next_run_at <= runtime[f].next_run_at

(* The first slot after now on the row's own phase.                         *)
NextSlot(slot, interval) == slot + interval * (((now - slot) \div interval) + 1)

ClaimRows(w, batch) ==
  /\ runtime' = [e \in Endpoints |->
       IF e \in batch
       THEN [runtime[e] EXCEPT
               !.scheduled_at = runtime[e].next_run_at,
               !.next_run_at = NextSlot(runtime[e].next_run_at, endpoints[e].interval_s),
               !.scheduled_interval_s = endpoints[e].interval_s,
               !.leased_until = now + LEASE,
               !.leased_by = w]
       ELSE runtime[e]]
  /\ claimLog' = claimLog \cup
       {[endpoint |-> e, scheduled_at |-> runtime[e].next_run_at, worker_id |-> w,
         claimed_at |-> now] : e \in batch}

(* The claim statement commits; its reply is on the way, or lost.           *)
Claim(w) ==
  /\ tick[w].phase = "claim"
  /\ \E skipped \in SUBSET LockedRows :
       LET due == {e \in Endpoints : Due(e)} \ skipped IN
       \E batch \in SUBSET due :
         /\ OldestFirst(batch, due, tick[w].capacity)
         /\ ClaimRows(w, batch)
         /\ \/ /\ tick' = [tick EXCEPT ![w] =
                    [NoTick EXCEPT
                       !.phase = "dispatch",
                       !.rows = {[endpoint |-> e,
                                  scheduled_at |-> runtime[e].next_run_at] : e \in batch},
                       !.claimedAt = now]]
               /\ UNCHANGED faults
            \/ Fault /\ tick' = [tick EXCEPT ![w] = NoTick]
  /\ UNCHANGED <<now, endpoints, results, proc, jobs, stops, edits>>

ClaimFails(w) ==
  /\ tick[w].phase = "claim"
  /\ Fault
  /\ tick' = [tick EXCEPT ![w] = NoTick]
  /\ UNCHANGED <<now, tables, proc, jobs, stops, edits>>

(* The reply: every row starts in the pool, whether or not a stop arrived   *)
(* in the meantime.                                                         *)
Dispatch(w) ==
  /\ tick[w].phase = "dispatch"
  /\ jobs' = [jobs EXCEPT ![w] = @ \cup
       {[endpoint |-> s.endpoint, scheduled_at |-> s.scheduled_at, phase |-> "load",
         until |-> now + LOAD_BUDGET, attempt |-> 0, attempt_id |-> NULL]
        : s \in tick[w].rows}]
  /\ tick' = [tick EXCEPT ![w] = NoTick]
  /\ UNCHANGED <<now, tables, proc, bounds>>
-----------------------------------------------------------------------------
(* runOne: load, probe, then the terminal write.                            *)

ToAbandon(w, j) == SetJob(w, j, [j EXCEPT !.phase = "abandon", !.until = WriteUntil(w)])

(* The attempt id is drawn once, before the probe.                          *)
LoadSucceeds(w, j) ==
  /\ j.phase = "load"
  /\ Live(j.endpoint)
  /\ SetJob(w, j, [j EXCEPT !.phase = "probe", !.until = now + PROBE_MAX,
                            !.attempt_id = now])
  /\ UNCHANGED <<now, tables, proc, tick, bounds>>

(* The endpoint is gone or the budget ran out; LoadErrors is the database.  *)
LoadFails(w, j) ==
  /\ j.phase = "load"
  /\ ~Live(j.endpoint) \/ now = j.until
  /\ ToAbandon(w, j)
  /\ UNCHANGED <<now, tables, proc, tick, bounds>>

LoadErrors(w, j) ==
  /\ j.phase = "load"
  /\ Fault
  /\ ToAbandon(w, j)
  /\ UNCHANGED <<now, tables, proc, tick, stops, edits>>

ProbeEnds(w, j) ==
  /\ j.phase = "probe"
  /\ SetJob(w, j, [j EXCEPT !.phase = "insert", !.attempt = 1, !.until = WriteUntil(w)])
  /\ UNCHANGED <<now, tables, proc, tick, bounds>>

ProbeThrows(w, j) ==
  /\ j.phase = "probe"
  /\ Fault
  /\ ToAbandon(w, j)
  /\ UNCHANGED <<now, tables, proc, tick, stops, edits>>

(* The insert ran; the release gets a timeout of its own.                   *)
InsertRuns(w, j) ==
  /\ j.phase = "insert"
  /\ SetJob(w, j, [j EXCEPT !.phase = "release", !.until = WriteUntil(w)])
  /\ UNCHANGED <<now, tables, proc, tick, bounds>>

(* Mutant: abandon moves last_probe_at as release does.                     *)
ClearLease_AlwaysObserved(e, observed) ==
  runtime' = [runtime EXCEPT ![e] =
    [runtime[e] EXCEPT !.leased_until = NULL, !.leased_by = NULL, !.last_probe_at = now]]

ClearLease(e, observed) ==
  runtime' = [runtime EXCEPT ![e] =
    [runtime[e] EXCEPT !.leased_until = NULL, !.leased_by = NULL,
                       !.last_probe_at = IF observed THEN now
                                         ELSE runtime[e].last_probe_at]]

(* Insert and release commit together.  A fence that matches no row still   *)
(* commits the insert; a row already there is left as it is.                *)
WriteCommits(w, j) ==
  /\ results' = results \cup
       {[endpoint |-> j.endpoint, scheduled_at |-> j.scheduled_at, worker_id |-> w,
         attempt_id |-> j.attempt_id]}
  /\ IF FenceHolds(w, j) THEN ClearLease(j.endpoint, TRUE) ELSE UNCHANGED runtime

(* The catch of recordAndRelease: another attempt after a delay capped by   *)
(* the time left, or the observation is given up and the lease left.        *)
AfterWriteError(w, j) ==
  IF j.attempt < WRITE_ATTEMPTS /\ ~GraceExpired(w)
  THEN SetJob(w, j, [j EXCEPT !.phase = "backoff",
                              !.until = Least(now + BACKOFF * j.attempt, WriteUntil(w))])
  ELSE Settle(w, j)

ReleaseCommits(w, j) ==
  /\ j.phase = "release"
  /\ WriteCommits(w, j)
  /\ \/ Settle(w, j) /\ UNCHANGED faults
     \/ Fault /\ AfterWriteError(w, j)      \* committed, but the reply is lost
  /\ UNCHANGED <<now, endpoints, claimLog, proc, tick, stops, edits>>

WriteFails(w, j) ==
  /\ j.phase \in {"insert", "release"}
  /\ Fault
  /\ AfterWriteError(w, j)
  /\ UNCHANGED <<now, tables, proc, tick, stops, edits>>

(* Mutant: every attempt at the write draws an attempt id.                  *)
RetryWrite_FreshId(w, j) ==
  /\ j.phase = "backoff"
  /\ now = j.until
  /\ IF GraceExpired(w)
     THEN Settle(w, j)
     ELSE SetJob(w, j, [j EXCEPT !.phase = "insert", !.attempt = @ + 1,
                                 !.until = WriteUntil(w), !.attempt_id = now])
  /\ UNCHANGED <<now, tables, proc, tick, bounds>>

RetryWrite(w, j) ==
  /\ j.phase = "backoff"
  /\ now = j.until
  /\ IF GraceExpired(w)
     THEN Settle(w, j)
     ELSE SetJob(w, j, [j EXCEPT !.phase = "insert", !.attempt = @ + 1,
                                 !.until = WriteUntil(w)])
  /\ UNCHANGED <<now, tables, proc, tick, bounds>>

AbandonCommits(w, j) ==
  /\ j.phase = "abandon"
  /\ IF FenceHolds(w, j) THEN ClearLease(j.endpoint, FALSE) ELSE UNCHANGED runtime
  /\ Settle(w, j)
  /\ UNCHANGED <<now, endpoints, claimLog, results, proc, tick, bounds>>

AbandonFails(w, j) ==
  /\ j.phase = "abandon"
  /\ Fault
  /\ Settle(w, j)
  /\ UNCHANGED <<now, tables, proc, tick, stops, edits>>
-----------------------------------------------------------------------------
(* The process: start, the graceful stop of main.ts, and a crash.           *)

Start(w) ==
  /\ proc[w].state = "down"
  /\ proc' = [proc EXCEPT ![w].state = "running"]
  /\ UNCHANGED <<now, tables, tick, jobs, bounds>>

Stop(w) ==
  /\ proc[w].state = "running"
  /\ stops < MAX_STOPS
  /\ stops' = stops + 1
  /\ proc' = [proc EXCEPT ![w] = [state |-> "stopping", deadline |-> now + GRACE,
                                  drainUntil |-> NULL]]
  /\ UNCHANGED <<now, tables, tick, jobs, faults, edits>>

(* Mutant: the drain does not wait for the tick in flight.                  *)
DrainStarts_NoAwait(w) ==
  /\ proc[w].state = "stopping"
  /\ proc' = [proc EXCEPT ![w] = [state |-> "draining", deadline |-> proc[w].deadline,
                                  drainUntil |-> now + GRACE]]
  /\ UNCHANGED <<now, tables, tick, jobs, bounds>>

(* doStop awaits the tick in flight, then drains what the pool holds.       *)
DrainStarts(w) ==
  /\ proc[w].state = "stopping"
  /\ tick[w].phase = "idle"
  /\ proc' = [proc EXCEPT ![w] = [state |-> "draining", deadline |-> proc[w].deadline,
                                  drainUntil |-> now + GRACE]]
  /\ UNCHANGED <<now, tables, tick, jobs, bounds>>

DrainEnds(w) ==
  /\ proc[w].state = "draining"
  /\ jobs[w] = {} \/ now = proc[w].drainUntil
  /\ proc' = [proc EXCEPT ![w].state = "drained"]
  /\ UNCHANGED <<now, tables, tick, jobs, bounds>>

Gone(w) ==
  /\ proc' = [proc EXCEPT ![w] = NoProcess]
  /\ tick' = [tick EXCEPT ![w] = NoTick]
  /\ jobs' = [jobs EXCEPT ![w] = {}]

(* RollupService.stop has returned and app.close() destroyed the pool.      *)
Exit(w) ==
  /\ proc[w].state = "drained"
  /\ Gone(w)
  /\ UNCHANGED <<now, tables, bounds>>

Crash(w) ==
  /\ proc[w].state # "down"
  /\ stops < MAX_STOPS
  /\ stops' = stops + 1
  /\ Gone(w)
  /\ UNCHANGED <<now, tables, faults, edits>>
-----------------------------------------------------------------------------
(* Time passes only up to the next worker timer or statement timeout, and   *)
(* a claim's reply starts its slots within the lease slack.                 *)
Tick ==
  /\ now < MAX_TIME
  /\ \A w \in Workers :
       /\ \A j \in jobs[w] : now < j.until
       /\ tick[w].rows # {} => now < tick[w].claimedAt + LEASE_SLACK
       /\ proc[w].state = "draining" => now < proc[w].drainUntil
  /\ now' = now + 1
  /\ UNCHANGED <<tables, proc, tick, jobs, bounds>>

TickStep(w) == Adopt(w) \/ Reconcile(w) \/ Claim(w) \/ ClaimFails(w) \/ Dispatch(w)

JobStep(w, j) ==
  \/ LoadSucceeds(w, j) \/ LoadFails(w, j) \/ LoadErrors(w, j)
  \/ ProbeEnds(w, j) \/ ProbeThrows(w, j)
  \/ InsertRuns(w, j) \/ ReleaseCommits(w, j) \/ WriteFails(w, j) \/ RetryWrite(w, j)
  \/ AbandonCommits(w, j) \/ AbandonFails(w, j)

ProcStep(w) == Start(w) \/ Stop(w) \/ DrainStarts(w) \/ DrainEnds(w) \/ Exit(w) \/ Crash(w)

ApiStep(e) == CreateEndpoint(e) \/ UpdateEndpoint(e) \/ DeleteEndpoint(e)

Next ==
  \/ \E w \in Workers : TickStep(w) \/ ProcStep(w) \/ \E j \in jobs[w] : JobStep(w, j)
  \/ \E e \in Endpoints : ApiStep(e)
  \/ Tick

Spec == Init /\ [][Next]_vars
-----------------------------------------------------------------------------
(* What the scheduler has to get right.                                     *)

TypeOK ==
  /\ now \in Nat
  /\ endpoints \in [Endpoints -> Endpoint]
  /\ runtime \in [Endpoints -> RuntimeRow \cup {NULL}]
  /\ claimLog \subseteq ClaimRow
  /\ results \subseteq ResultRow
  /\ proc \in [Workers -> Process]
  /\ tick \in [Workers -> TickState]
  /\ jobs \in [Workers -> SUBSET Job]
  /\ faults \in Nat /\ stops \in Nat /\ edits \in Nat

Probing(j) == j.phase \in {"load", "probe"}

(* The lease of a slot outlasts its load and its probe: while either runs,  *)
(* the row still names this worker and this slot, unexpired, whatever other *)
(* workers claim, reconcile, release or abandon meanwhile (D11, D12, D13).  *)
LeaseCoversProbe ==
  \A w \in Workers : \A j \in jobs[w] :
    Probing(j) /\ runtime[j.endpoint] # NULL =>
      FenceHolds(w, j) /\ runtime[j.endpoint].leased_until >= j.until

(* No endpoint is probed twice at once, by one worker or by two.            *)
NoConcurrentProbes ==
  \A w, v \in Workers : \A j \in jobs[w], k \in jobs[v] :
    Probing(j) /\ Probing(k) /\ j.endpoint = k.endpoint => w = v /\ j = k

(* A slot is claimed once, ever: the slots of an endpoint's claims only     *)
(* move forward, through catch-up, reconciliation, crashes and re-claims    *)
(* (NFR-3).                                                                 *)
SlotsClaimedOnce ==
  [][\A e \in Endpoints : \A c \in claimLog' \ claimLog : c.endpoint = e =>
       \A d \in claimLog : d.endpoint = e => d.scheduled_at < c.scheduled_at]_vars

(* A slot has at most one result, whatever attempts its write took and      *)
(* whichever replies were lost.                                             *)
OneResultPerSlot ==
  \A r, s \in results :
    r.endpoint = s.endpoint /\ r.scheduled_at = s.scheduled_at => r = s

(* What the scheduler promises its readers: a ledger of slots, each claimed *)
(* by one worker in slot order and observed, if at all, by that worker.     *)
Identity(c) == [endpoint |-> c.endpoint, scheduled_at |-> c.scheduled_at,
                worker_id |-> c.worker_id]
Ledger == INSTANCE SlotLedger WITH
  claims <- {Identity(c) : c \in claimLog},
  observed <- {Identity(r) : r \in results}
ImplementsLedger == Ledger!Spec

(* last_probe_at moves only when an observation of the row's own slot is    *)
(* stored with it: a slot nothing probed never looks freshly observed.      *)
ObservedOnlyWithResult ==
  [][\A e \in Endpoints :
       runtime[e] # NULL /\ runtime'[e] # NULL
       /\ runtime'[e].last_probe_at # runtime[e].last_probe_at =>
         \E r \in results' : r.endpoint = e /\ r.scheduled_at = runtime[e].scheduled_at
                             /\ r.worker_id = runtime[e].leased_by]_vars

(* A claim whose slot was already past when an earlier slot was claimed     *)
(* replays a backlog.  Only a changed interval may do that, once per change *)
(* (D4, D26).                                                               *)
Replays == {c \in claimLog : \E d \in claimLog :
              /\ d.endpoint = c.endpoint
              /\ d.scheduled_at < c.scheduled_at
              /\ c.scheduled_at <= d.claimed_at}
BacklogNotReplayed == Cardinality(Replays) <= edits

(* The pool never holds more than PROBE_CONCURRENCY slots, though capacity  *)
(* is read before the claim and used after its reply (NFR-1).               *)
PoolWithinConcurrency == \A w \in Workers : Cardinality(jobs[w]) <= CONCURRENCY

(* A stop that ends before its grace leaves nothing behind: no tick still   *)
(* to dispatch, no slot running when the database pool closes.              *)
DrainCoversAllWork ==
  \A w \in Workers : proc[w].state = "drained" =>
    /\ tick[w] = NoTick
    /\ now < proc[w].drainUntil => jobs[w] = {}

(* A slot still running when the grace ends cannot write after it.          *)
QuietAfterGrace ==
  \A w \in Workers : proc[w].state = "drained" /\ now > proc[w].drainUntil =>
    jobs[w] = {}

(* A worker that is stopped has finished: when main.ts closes the database  *)
(* pool after the stop, nothing of the scheduler still needs it.            *)
StopComplete == DrainCoversAllWork /\ QuietAfterGrace

(* Once a stop has begun, no further claim is sent (section 3.9).           *)
NoClaimAfterStop ==
  [][\A w \in Workers : proc[w].state # "running" /\ tick[w].phase # "claim" =>
       tick'[w].phase # "claim"]_vars
-----------------------------------------------------------------------------
(* Liveness.  A worker's tick re-arms itself and its statements answer; its *)
(* jobs settle, by their timers if need be; a stop completes; a process     *)
(* that ended is started again (docker-compose's restart policy); time      *)
(* passes.  Nothing makes the API, a fault, a crash or a stop happen.       *)

Fairness ==
  /\ WF_vars(Tick)
  /\ \A w \in Workers :
       /\ WF_vars(TickStep(w))
       /\ WF_vars(\E j \in jobs[w] : JobStep(w, j))
       /\ WF_vars(Start(w) \/ DrainStarts(w) \/ DrainEnds(w) \/ Exit(w))

FairSpec == Spec /\ Fairness

(* A due slot of an enabled endpoint does not stay unclaimed, even if the   *)
(* row is still leased to a worker that died: the lease lapses and a worker *)
(* claims it (NFR-4).  The clock must reach the end of that lease.          *)
Lapses(r) == r.leased_until = NULL \/ r.leased_until < MAX_TIME

Overdue(e) ==
  /\ runtime[e] # NULL
  /\ endpoints[e].enabled
  /\ runtime[e].next_run_at <= now
  /\ Lapses(runtime[e])

DueSlotClaimed == \A e \in Endpoints : Overdue(e) ~> ~Overdue(e)

(* A changed interval takes effect: a row computed with the old one is      *)
(* recomputed, by reconciliation or by its next claim (FR-17, D24).         *)
Outdated(e) ==
  /\ runtime[e] # NULL
  /\ runtime[e].scheduled_interval_s # endpoints[e].interval_s
  /\ runtime[e].scheduled_at # NULL
  /\ Lapses(runtime[e])

IntervalTakesEffect == \A e \in Endpoints : Outdated(e) ~> ~Outdated(e)
=============================================================================
