-------------------------- MODULE SchedulerProofs --------------------------
(***************************************************************************)
(* Theorems about the scheduler for any set of endpoints and workers, any  *)
(* configuration loadConfig accepts, and any bounds on the clock, faults,  *)
(* stops and edits.                                                        *)
(***************************************************************************)
EXTENDS Scheduler, FiniteSetTheorems, TLAPS

-----------------------------------------------------------------------------
(* Operators.                                                               *)

LEMMA ConstantsTyped ==
  /\ \A i \in Intervals : i \in Nat /\ i > 0
  /\ LEASE \in Nat /\ LOAD_BUDGET \in Nat /\ PROBE_MAX \in Nat /\ LEASE_SLACK \in Nat
  /\ GRACE \in Nat /\ JITTER_MAX \in Nat /\ BATCH_SIZE \in Nat /\ CONCURRENCY \in Nat
  /\ WRITE_ATTEMPTS \in Nat /\ BACKOFF \in Nat
BY ConfigAssumption

(* The slot a claim schedules next lies after the claimed one and after the *)
(* instant of the claim, whatever the number of missed slots.               *)
LEMMA NextSlotLater ==
  ASSUME now \in Nat, NEW slot \in Nat, NEW i \in Nat \ {0}, slot <= now
  PROVE  /\ NextSlot(slot, i) \in Nat
         /\ NextSlot(slot, i) > slot
         /\ NextSlot(slot, i) > now
<1> DEFINE d == now - slot
           q == d \div i
           r == d % i
<1>1. d \in Nat /\ q \in Nat /\ r \in 0 .. (i - 1) /\ d = i * q + r
  OBVIOUS
<1>2. i * (q + 1) = i * q + i
  BY <1>1
<1>3. i * q \in Nat
  BY <1>1
<1> QED BY <1>1, <1>2, <1>3 DEF NextSlot

LEMMA WriteUntilTyped ==
  ASSUME TypeOK, NEW w \in Workers
  PROVE  WriteUntil(w) \in Nat /\ WriteUntil(w) >= now
BY ConstantsTyped DEF TypeOK, WriteUntil, Greatest, Process, TimeOrNull
-----------------------------------------------------------------------------
(* Type correctness.  The capacity a tick works with is a number only       *)
(* because what a pool holds is finite, so that is part of the invariant.   *)

PoolsFinite ==
  \A w \in Workers : IsFiniteSet(jobs[w]) /\ IsFiniteSet(tick[w].rows)

(* A slot past its load has its attempt id: probe_results.attempt_id is     *)
(* never NULL, so TypeOK alone is not inductive.                            *)
Attempting == {"probe", "insert", "release", "backoff"}

AttemptDrawn ==
  \A w \in Workers : \A j \in jobs[w] : j.phase \in Attempting => j.attempt_id \in Nat

TypeInv == TypeOK /\ PoolsFinite /\ AttemptDrawn

LEMMA SetJobTyped ==
  ASSUME TypeOK, NEW w \in Workers, NEW j, NEW next \in Job, SetJob(w, j, next)
  PROVE  jobs' \in [Workers -> SUBSET Job]
BY DEF SetJob, TypeOK

LEMMA SettleTyped ==
  ASSUME TypeOK, NEW w \in Workers, NEW j, Settle(w, j)
  PROVE  jobs' \in [Workers -> SUBSET Job]
BY DEF Settle, TypeOK

LEMMA ClearLeaseTyped ==
  ASSUME TypeOK, NEW e \in Endpoints, runtime[e] # NULL, NEW o \in BOOLEAN,
         ClearLease(e, o)
  PROVE  runtime' \in [Endpoints -> RuntimeRow \cup {NULL}]
<1> DEFINE at == IF o THEN now ELSE runtime[e].last_probe_at
           row == [runtime[e] EXCEPT !.leased_until = NULL, !.leased_by = NULL, !.last_probe_at = at]
<1>1. runtime \in [Endpoints -> RuntimeRow \cup {NULL}] /\ runtime[e] \in RuntimeRow /\ now \in Nat
  BY DEF TypeOK
<1>2. at \in TimeOrNull
  BY <1>1 DEF RuntimeRow, TimeOrNull
<1>3. runtime' = [runtime EXCEPT ![e] = row]
  BY DEF ClearLease
<1> HIDE DEF at
<1>4. row \in RuntimeRow
  BY <1>1, <1>2 DEF RuntimeRow, TimeOrNull
<1> HIDE DEF row
<1> QED BY <1>1, <1>3, <1>4

LEMMA InitTyped == Init => TypeOK
<1> SUFFICES ASSUME Init PROVE TypeOK
  OBVIOUS
<1>1. endpoints \in [Endpoints -> Endpoint]
  BY DEF Init, Endpoint
<1>2. NoProcess \in Process /\ NoTick \in TickState
  BY DEF NoProcess, Process, NoTick, TickState, TimeOrNull
<1> QED BY <1>1, <1>2 DEF Init, TypeOK

LEMMA ApiTyped ==
  ASSUME TypeOK, NEW e \in Endpoints, ApiStep(e)
  PROVE  TypeOK'
<1>1. CASE CreateEndpoint(e)
  BY <1>1 DEF CreateEndpoint, TypeOK, Endpoint, bounds
<1>2. CASE UpdateEndpoint(e)
  <2>1. endpoints' \in [Endpoints -> Endpoint]
    <3>1. ASSUME NEW i \in Intervals, endpoints' = [endpoints EXCEPT ![e].interval_s = i]
          PROVE  endpoints' \in [Endpoints -> Endpoint]
      BY <3>1 DEF TypeOK, Endpoint
    <3>2. ASSUME endpoints' = [endpoints EXCEPT ![e].enabled = ~@]
          PROVE  endpoints' \in [Endpoints -> Endpoint]
      BY <3>2 DEF TypeOK, Endpoint
    <3> QED BY <1>2, <3>1, <3>2 DEF UpdateEndpoint
  <2> QED BY <1>2, <2>1 DEF UpdateEndpoint, TypeOK
<1>3. CASE DeleteEndpoint(e)
  BY <1>3 DEF DeleteEndpoint, TypeOK, Endpoint
<1> QED BY <1>1, <1>2, <1>3 DEF ApiStep

LEMMA TickTyped == TypeOK /\ Tick => TypeOK'
BY DEF Tick, TypeOK, tables, bounds

LEMMA ProcTyped ==
  ASSUME TypeOK, NEW w \in Workers, ProcStep(w)
  PROVE  TypeOK'
<1> USE ConstantsTyped DEF TypeOK, tables, bounds, Process, TimeOrNull
<1>1. CASE Start(w)
  BY <1>1 DEF Start
<1>2. CASE Stop(w)
  BY <1>2 DEF Stop
<1>3. CASE DrainStarts(w)
  BY <1>3 DEF DrainStarts
<1>4. CASE DrainEnds(w)
  BY <1>4 DEF DrainEnds
<1>5. CASE Exit(w)
  BY <1>5 DEF Exit, Gone, NoProcess, NoTick, TickState
<1>6. CASE Crash(w)
  BY <1>6 DEF Crash, Gone, NoProcess, NoTick, TickState
<1> QED BY <1>1, <1>2, <1>3, <1>4, <1>5, <1>6 DEF ProcStep

LEMMA SendClaimTyped ==
  ASSUME TypeOK, NEW w \in Workers, SendClaim(w), IsFiniteSet(jobs[w])
  PROVE  tick' \in [Workers -> TickState]
<1>1. Available(w) \in Nat
  BY FS_CardinalityType, ConstantsTyped DEF Available, Greatest
<1>2. Least(BATCH_SIZE, Available(w)) \in Nat
  BY <1>1, ConstantsTyped DEF Least
<1>3. NoTick \in TickState
  BY DEF NoTick, TickState
<1>4. [NoTick EXCEPT !.phase = "claim", !.capacity = Least(BATCH_SIZE, Available(w))]
        \in TickState
  BY <1>2 DEF NoTick, TickState
<1> QED BY <1>3, <1>4 DEF SendClaim, TypeOK

LEMMA AdoptTyped ==
  ASSUME TypeOK, NEW w \in Workers, Adopt(w)
  PROVE  TypeOK'
<1>1. tick' \in [Workers -> TickState]
  BY DEF Adopt, TypeOK, TickState
<1>2. runtime' \in [Endpoints -> RuntimeRow \cup {NULL}] /\ faults' \in Nat
  <2>1. CASE UNCHANGED runtime /\ Fault
    BY <2>1 DEF TypeOK, Fault
  <2>2. ASSUME NEW jitter \in [Endpoints -> 0 .. JITTER_MAX],
               runtime' = [e \in Endpoints |->
                 IF NeedsRow(e)
                 THEN [next_run_at |-> now + Least(jitter[e], endpoints[e].interval_s),
                       scheduled_at |-> NULL,
                       scheduled_interval_s |-> endpoints[e].interval_s,
                       leased_until |-> NULL, leased_by |-> NULL, last_probe_at |-> NULL]
                 ELSE runtime[e]],
               UNCHANGED faults
        PROVE  runtime' \in [Endpoints -> RuntimeRow \cup {NULL}] /\ faults' \in Nat
    <3>1. ASSUME NEW e \in Endpoints
          PROVE  /\ endpoints[e].interval_s \in Intervals
                 /\ now + Least(jitter[e], endpoints[e].interval_s) \in Nat
      <4>1. endpoints[e].interval_s \in Intervals
        BY DEF TypeOK, Endpoint
      <4>2. endpoints[e].interval_s \in Nat /\ jitter[e] \in Nat /\ now \in Nat
        BY <4>1, ConstantsTyped DEF TypeOK
      <4> QED BY <4>1, <4>2 DEF Least
    <3>2. ASSUME NEW e \in Endpoints
          PROVE  [next_run_at |-> now + Least(jitter[e], endpoints[e].interval_s),
                  scheduled_at |-> NULL,
                  scheduled_interval_s |-> endpoints[e].interval_s,
                  leased_until |-> NULL, leased_by |-> NULL, last_probe_at |-> NULL]
                   \in RuntimeRow
      BY <3>1 DEF RuntimeRow, TimeOrNull
    <3> QED BY <2>2, <3>2 DEF TypeOK
  <2> QED BY <2>1, <2>2 DEF Adopt
<1> QED BY <1>1, <1>2 DEF Adopt, TypeOK

(* What reconciliation and the claim write are rows again.                  *)
LEMMA ReconciledRowTyped ==
  ASSUME TypeOK, NEW e \in Endpoints, Stale(e)
  PROVE  [runtime[e] EXCEPT
            !.next_run_at = runtime[e].scheduled_at + endpoints[e].interval_s,
            !.scheduled_interval_s = endpoints[e].interval_s] \in RuntimeRow
<1>1. runtime[e] \in RuntimeRow /\ runtime[e].scheduled_at \in Nat
  BY DEF Stale, TypeOK, RuntimeRow, TimeOrNull
<1>2. endpoints[e].interval_s \in Intervals /\ endpoints[e].interval_s \in Nat
  BY ConstantsTyped DEF TypeOK, Endpoint
<1>3. runtime[e].scheduled_at + endpoints[e].interval_s \in Nat
  BY <1>1, <1>2
<1> QED BY <1>1, <1>2, <1>3 DEF RuntimeRow

LEMMA DueRow ==
  ASSUME TypeOK, NEW e \in Endpoints, Due(e)
  PROVE  /\ runtime[e] \in RuntimeRow
         /\ runtime[e].next_run_at \in Nat
         /\ endpoints[e].interval_s \in Intervals
         /\ LET next == NextSlot(runtime[e].next_run_at, endpoints[e].interval_s)
            IN  next \in Nat /\ next > runtime[e].next_run_at /\ next > now
<1>1. runtime[e] \in RuntimeRow /\ runtime[e].next_run_at \in Nat
      /\ runtime[e].next_run_at <= now
  BY DEF Due, TypeOK, RuntimeRow
<1>2. endpoints[e].interval_s \in Intervals /\ endpoints[e].interval_s \in Nat \ {0}
  BY ConstantsTyped DEF TypeOK, Endpoint
<1> QED BY <1>1, <1>2, NextSlotLater DEF TypeOK

LEMMA ClaimedRowTyped ==
  ASSUME TypeOK, NEW e \in Endpoints, Due(e), NEW w \in Workers
  PROVE  [runtime[e] EXCEPT
            !.scheduled_at = runtime[e].next_run_at,
            !.next_run_at = NextSlot(runtime[e].next_run_at, endpoints[e].interval_s),
            !.scheduled_interval_s = endpoints[e].interval_s,
            !.leased_until = now + LEASE,
            !.leased_by = w] \in RuntimeRow
<1>1. now + LEASE \in Nat
  BY ConstantsTyped DEF TypeOK
<1> QED BY <1>1, DueRow DEF RuntimeRow, TimeOrNull

LEMMA ReconcileTyped ==
  ASSUME TypeInv, NEW w \in Workers, Reconcile(w)
  PROVE  TypeOK'
<1>1. tick' \in [Workers -> TickState]
  BY SendClaimTyped DEF Reconcile, TypeInv, PoolsFinite
<1>2. ASSUME NEW skipped \in SUBSET LockedRows,
             runtime' = [e \in Endpoints |->
               IF Stale(e) /\ e \notin skipped
               THEN [runtime[e] EXCEPT
                       !.next_run_at = runtime[e].scheduled_at + endpoints[e].interval_s,
                       !.scheduled_interval_s = endpoints[e].interval_s]
               ELSE runtime[e]]
      PROVE  runtime' \in [Endpoints -> RuntimeRow \cup {NULL}]
  <2>1. ASSUME NEW e \in Endpoints
        PROVE  (IF Stale(e) /\ e \notin skipped
                THEN [runtime[e] EXCEPT
                        !.next_run_at = runtime[e].scheduled_at + endpoints[e].interval_s,
                        !.scheduled_interval_s = endpoints[e].interval_s]
                ELSE runtime[e]) \in RuntimeRow \cup {NULL}
    BY ReconciledRowTyped DEF TypeInv, TypeOK
  <2> QED BY <1>2, <2>1
<1>3. runtime' \in [Endpoints -> RuntimeRow \cup {NULL}]
  BY <1>2 DEF Reconcile, TypeInv, TypeOK
<1>4. faults' \in Nat
  <2>1. UNCHANGED faults \/ Fault
    BY DEF Reconcile
  <2> QED BY <2>1 DEF TypeInv, TypeOK, Fault
<1> QED BY <1>1, <1>3, <1>4 DEF Reconcile, TypeInv, TypeOK

LEMMA ClaimTyped ==
  ASSUME TypeOK, NEW w \in Workers, Claim(w)
  PROVE  TypeOK'
<1>1. PICK batch \in SUBSET {e \in Endpoints : Due(e)} :
        /\ ClaimRows(w, batch)
        /\ \/ /\ tick' = [tick EXCEPT ![w] =
                   [NoTick EXCEPT
                      !.phase = "dispatch",
                      !.rows = {[endpoint |-> e,
                                 scheduled_at |-> runtime[e].next_run_at] : e \in batch},
                      !.claimedAt = now]]
              /\ UNCHANGED faults
           \/ Fault /\ tick' = [tick EXCEPT ![w] = NoTick]
  BY DEF Claim
<1>2. runtime' \in [Endpoints -> RuntimeRow \cup {NULL}]
  BY <1>1, ClaimedRowTyped DEF ClaimRows, TypeOK
<1>3. \A e \in batch : e \in Endpoints /\ runtime[e].next_run_at \in Nat
  BY DueRow
<1>4. claimLog' \subseteq ClaimRow
  <2>1. \A e \in batch : [endpoint |-> e, scheduled_at |-> runtime[e].next_run_at,
                          worker_id |-> w, claimed_at |-> now] \in ClaimRow
    BY <1>3 DEF ClaimRow, TypeOK
  <2>2. claimLog' = claimLog \cup
          {[endpoint |-> e, scheduled_at |-> runtime[e].next_run_at, worker_id |-> w,
            claimed_at |-> now] : e \in batch}
    BY <1>1 DEF ClaimRows
  <2>3. claimLog \subseteq ClaimRow
    BY DEF TypeOK
  <2> QED BY <2>1, <2>2, <2>3
<1>5. {[endpoint |-> e, scheduled_at |-> runtime[e].next_run_at] : e \in batch}
        \subseteq Slot
  BY <1>3 DEF Slot
<1>6. tick' \in [Workers -> TickState] /\ faults' \in Nat
  <2>1. [NoTick EXCEPT
           !.phase = "dispatch",
           !.rows = {[endpoint |-> e, scheduled_at |-> runtime[e].next_run_at] : e \in batch},
           !.claimedAt = now] \in TickState
    BY <1>5 DEF NoTick, TickState, TypeOK
  <2>2. NoTick \in TickState
    BY DEF NoTick, TickState
  <2> QED BY <1>1, <2>1, <2>2 DEF TypeOK, Fault
<1> QED BY <1>2, <1>4, <1>6 DEF Claim, TypeOK

LEMMA DispatchTyped ==
  ASSUME TypeOK, NEW w \in Workers, Dispatch(w)
  PROVE  TypeOK'
<1>1. \A s \in tick[w].rows : s.endpoint \in Endpoints /\ s.scheduled_at \in Nat
  BY DEF TypeOK, TickState, Slot
<1>2. now + LOAD_BUDGET \in Nat
  BY ConstantsTyped DEF TypeOK
<1>3. {[endpoint |-> s.endpoint, scheduled_at |-> s.scheduled_at, phase |-> "load",
        until |-> now + LOAD_BUDGET, attempt |-> 0, attempt_id |-> NULL]
       : s \in tick[w].rows} \subseteq Job
  BY <1>1, <1>2 DEF Job, JobPhases, TimeOrNull
<1>4. jobs' \in [Workers -> SUBSET Job]
  BY <1>3 DEF Dispatch, TypeOK
<1>5. tick' \in [Workers -> TickState]
  BY DEF Dispatch, TypeOK, NoTick, TickState
<1> QED BY <1>4, <1>5 DEF Dispatch, TypeOK, tables, bounds

LEMMA TickStepTyped ==
  ASSUME TypeInv, NEW w \in Workers, TickStep(w)
  PROVE  TypeOK'
<1>1. CASE ClaimFails(w)
  BY <1>1 DEF ClaimFails, TypeInv, TypeOK, tables, Fault, NoTick, TickState
<1> QED BY <1>1, AdoptTyped, ReconcileTyped, ClaimTyped, DispatchTyped
        DEF TickStep, TypeInv

(* What a step of a slot does to the pool: the slot settles, or it moves on *)
(* as the same slot, never back to its load, with a probe only after a load *)
(* and its attempt id drawn before any write and kept through all of them.  *)
Writing == {"insert", "release", "backoff"}

Continues(j, next) ==
  /\ next \in Job
  /\ next.endpoint = j.endpoint /\ next.scheduled_at = j.scheduled_at
  /\ next.phase # "load"
  /\ next.phase = "probe" => j.phase = "load" /\ next.until = now + PROBE_MAX
  /\ next.phase \in Attempting => next.attempt_id \in Nat
  /\ j.phase \in Writing => next.phase \in Writing /\ next.attempt_id = j.attempt_id
  /\ next.until >= now

LEMMA AbandonContinues ==
  ASSUME TypeOK, NEW w \in Workers, NEW j \in Job, j.phase \notin Writing, ToAbandon(w, j)
  PROVE  \E next : SetJob(w, j, next) /\ Continues(j, next)
<1> DEFINE next == [j EXCEPT !.phase = "abandon", !.until = WriteUntil(w)]
<1>1. Continues(j, next)
  BY WriteUntilTyped DEF Job, JobPhases, Continues, Attempting, Writing
<1> QED BY <1>1 DEF ToAbandon

LEMMA ErrorContinues ==
  ASSUME TypeOK, NEW w \in Workers, NEW j \in Job, j.attempt_id \in Nat,
         AfterWriteError(w, j)
  PROVE  Settle(w, j) \/ \E next : SetJob(w, j, next) /\ Continues(j, next)
<1> DEFINE next == [j EXCEPT !.phase = "backoff",
                      !.until = Least(now + BACKOFF * j.attempt, WriteUntil(w))]
<1>1. BACKOFF * j.attempt \in Nat
  BY ConstantsTyped DEF Job
<1>2. Least(now + BACKOFF * j.attempt, WriteUntil(w)) \in Nat
      /\ Least(now + BACKOFF * j.attempt, WriteUntil(w)) >= now
  BY <1>1, WriteUntilTyped DEF Least, TypeOK
<1>3. Continues(j, next)
  BY <1>2 DEF Job, JobPhases, Continues, Attempting, Writing
<1> QED BY <1>3 DEF AfterWriteError

LEMMA JobMoves ==
  ASSUME TypeInv, NEW w \in Workers, NEW j \in jobs[w], JobStep(w, j)
  PROVE  Settle(w, j) \/ \E next : SetJob(w, j, next) /\ Continues(j, next)
<1>0. TypeOK /\ j \in Job /\ now \in Nat /\ now + PROBE_MAX \in Nat
      /\ now + PROBE_MAX >= now
      /\ (j.phase \in Attempting => j.attempt_id \in Nat)
  BY ConstantsTyped DEF TypeInv, TypeOK, AttemptDrawn
<1>1. CASE LoadSucceeds(w, j)
  <2> DEFINE next == [j EXCEPT !.phase = "probe", !.until = now + PROBE_MAX,
                               !.attempt_id = now]
  <2>1. Continues(j, next)
    BY <1>0, <1>1 DEF LoadSucceeds, Job, JobPhases, TimeOrNull, Continues, Attempting, Writing
  <2> QED BY <1>1, <2>1 DEF LoadSucceeds
<1>2. CASE LoadFails(w, j) \/ LoadErrors(w, j) \/ ProbeThrows(w, j)
  BY <1>0, <1>2, AbandonContinues DEF LoadFails, LoadErrors, ProbeThrows, Writing
<1>3. CASE ProbeEnds(w, j)
  <2> DEFINE next == [j EXCEPT !.phase = "insert", !.attempt = 1, !.until = WriteUntil(w)]
  <2>1. Continues(j, next)
    BY <1>0, <1>3, WriteUntilTyped DEF ProbeEnds, Job, JobPhases, Continues, Attempting, Writing
  <2> QED BY <1>3, <2>1 DEF ProbeEnds
<1>4. CASE InsertRuns(w, j)
  <2> DEFINE next == [j EXCEPT !.phase = "release", !.until = WriteUntil(w)]
  <2>1. Continues(j, next)
    BY <1>0, <1>4, WriteUntilTyped DEF InsertRuns, Job, JobPhases, Continues, Attempting, Writing
  <2> QED BY <1>4, <2>1 DEF InsertRuns
<1>5. CASE ReleaseCommits(w, j) \/ WriteFails(w, j)
  BY <1>0, <1>5, ErrorContinues DEF ReleaseCommits, WriteFails, Attempting
<1>6. CASE RetryWrite(w, j)
  <2> DEFINE next == [j EXCEPT !.phase = "insert", !.attempt = j.attempt + 1,
                               !.until = WriteUntil(w)]
  <2>1. j.attempt + 1 \in Nat
    BY <1>0 DEF Job
  <2>2. Continues(j, next)
    BY <1>0, <1>6, <2>1, WriteUntilTyped
    DEF RetryWrite, Job, JobPhases, Continues, Attempting, Writing
  <2> QED BY <1>6, <2>2 DEF RetryWrite
<1>7. CASE AbandonCommits(w, j) \/ AbandonFails(w, j)
  BY <1>7 DEF AbandonCommits, AbandonFails
<1> QED BY <1>1, <1>2, <1>3, <1>4, <1>5, <1>6, <1>7 DEF JobStep

LEMMA FenceFindsRow ==
  ASSUME NEW w, NEW j \in Job, FenceHolds(w, j)
  PROVE  j.endpoint \in Endpoints /\ runtime[j.endpoint] # NULL
BY DEF FenceHolds, Job

(* What a step of a slot leaves alone, and what it may write.               *)
LEMMA JobWrites ==
  ASSUME TypeInv, NEW w \in Workers, NEW j \in jobs[w], JobStep(w, j)
  PROVE  /\ UNCHANGED <<now, endpoints, claimLog, proc, tick, stops, edits>>
         /\ UNCHANGED faults \/ Fault
         /\ \/ UNCHANGED runtime
            \/ /\ j.phase \in {"release", "abandon"}
               /\ FenceHolds(w, j)
               /\ ClearLease(j.endpoint, TRUE) \/ ClearLease(j.endpoint, FALSE)
         /\ \/ UNCHANGED results
            \/ results' = results \cup
                 {[endpoint |-> j.endpoint, scheduled_at |-> j.scheduled_at,
                   worker_id |-> w, attempt_id |-> j.attempt_id]}
               /\ j.attempt_id \in Nat /\ j.phase = "release"
<1>1. j.phase = "release" => j.attempt_id \in Nat
  BY DEF TypeInv, AttemptDrawn, Attempting
<1>2. CASE ReleaseCommits(w, j)
  BY <1>1, <1>2 DEF ReleaseCommits, WriteCommits
<1>3. CASE AbandonCommits(w, j)
  BY <1>3 DEF AbandonCommits, bounds
<1>4. CASE LoadSucceeds(w, j) \/ LoadFails(w, j) \/ LoadErrors(w, j)
           \/ ProbeEnds(w, j) \/ ProbeThrows(w, j)
  BY <1>4 DEF LoadSucceeds, LoadFails, LoadErrors, ProbeEnds, ProbeThrows, tables, bounds
<1>5. CASE InsertRuns(w, j) \/ WriteFails(w, j) \/ RetryWrite(w, j) \/ AbandonFails(w, j)
  BY <1>5 DEF InsertRuns, WriteFails, RetryWrite, AbandonFails, tables, bounds
<1> QED BY <1>2, <1>3, <1>4, <1>5 DEF JobStep

LEMMA JobStepTyped ==
  ASSUME TypeInv, NEW w \in Workers, NEW j \in jobs[w], JobStep(w, j)
  PROVE  TypeOK'
<1>0. TypeOK /\ j \in Job /\ results \subseteq ResultRow /\ faults \in Nat
  BY DEF TypeInv, TypeOK
<1>1. jobs' \in [Workers -> SUBSET Job]
  BY <1>0, JobMoves, SetJobTyped, SettleTyped DEF Continues
<1>2. runtime' \in [Endpoints -> RuntimeRow \cup {NULL}]
  BY <1>0, JobWrites, FenceFindsRow, ClearLeaseTyped DEF TypeOK
<1>3. results' \subseteq ResultRow
  <2>1. \/ UNCHANGED results
        \/ results' = results \cup
             {[endpoint |-> j.endpoint, scheduled_at |-> j.scheduled_at,
               worker_id |-> w, attempt_id |-> j.attempt_id]}
           /\ j.attempt_id \in Nat
    BY JobWrites
  <2>2. j.attempt_id \in Nat => [endpoint |-> j.endpoint, scheduled_at |-> j.scheduled_at,
                                worker_id |-> w, attempt_id |-> j.attempt_id] \in ResultRow
    BY <1>0 DEF ResultRow, Job
  <2> QED BY <1>0, <2>1, <2>2
<1>4. faults' \in Nat
  <2>1. UNCHANGED faults \/ Fault
    BY JobWrites
  <2> QED BY <1>0, <2>1 DEF Fault
<1> QED BY <1>0, <1>1, <1>2, <1>3, <1>4, JobWrites DEF TypeOK

LEMMA NextTyped == TypeInv /\ [Next]_vars => TypeOK'
<1> SUFFICES ASSUME TypeInv, [Next]_vars PROVE TypeOK'
  OBVIOUS
<1>1. CASE UNCHANGED vars
  BY <1>1 DEF TypeInv, TypeOK, vars
<1>2. CASE Next
  BY <1>2, TickStepTyped, ProcTyped, JobStepTyped, ApiTyped, TickTyped DEF Next, TypeInv
<1> QED BY <1>1, <1>2

(* An image of a finite set is finite, and no larger.                       *)
LEMMA ImageFinite ==
  ASSUME NEW S, IsFiniteSet(S), NEW T, NEW f \in [S -> T], T = {f[x] : x \in S}
  PROVE  IsFiniteSet(T) /\ Cardinality(T) <= Cardinality(S)
<1>1. f \in Surjection(S, T)
  BY DEF Surjection
<1> QED BY <1>1, FS_Surjection

(* How a step changes the slots a worker has in hand: those it runs, and    *)
(* those of a claim whose reply it waits for.                               *)
LEMMA JobsPool ==
  ASSUME TypeInv, NEW w \in Workers, NEW j \in jobs[w], JobStep(w, j)
  PROVE  /\ IsFiniteSet(jobs'[w]) /\ Cardinality(jobs'[w]) <= Cardinality(jobs[w])
         /\ \A v \in Workers \ {w} : jobs'[v] = jobs[v]
<1>0. IsFiniteSet(jobs[w]) /\ jobs \in [Workers -> SUBSET Job]
  BY DEF TypeInv, PoolsFinite, TypeOK
<1>1. IsFiniteSet(jobs[w] \ {j})
      /\ Cardinality(jobs[w] \ {j}) = Cardinality(jobs[w]) - 1
      /\ Cardinality(jobs[w]) \in Nat
  BY <1>0, FS_RemoveElement, FS_CardinalityType
<1>2. CASE Settle(w, j)
  BY <1>0, <1>1, <1>2 DEF Settle
<1>3. ASSUME NEW next, SetJob(w, j, next)
      PROVE  /\ IsFiniteSet(jobs'[w]) /\ Cardinality(jobs'[w]) <= Cardinality(jobs[w])
             /\ \A v \in Workers \ {w} : jobs'[v] = jobs[v]
  <2>1. jobs'[w] = (jobs[w] \ {j}) \cup {next} /\ \A v \in Workers \ {w} : jobs'[v] = jobs[v]
    BY <1>0, <1>3 DEF SetJob
  <2>2. IsFiniteSet(jobs'[w])
        /\ Cardinality(jobs'[w]) = IF next \in jobs[w] \ {j}
                                   THEN Cardinality(jobs[w] \ {j})
                                   ELSE Cardinality(jobs[w] \ {j}) + 1
    BY <1>1, <2>1, FS_AddElement
  <2> QED BY <1>1, <2>1, <2>2
<1> QED BY <1>2, <1>3, JobMoves

LEMMA ClaimPool ==
  ASSUME TypeInv, NEW w \in Workers, Claim(w)
  PROVE  /\ IsFiniteSet(tick'[w].rows) /\ Cardinality(tick'[w].rows) <= tick[w].capacity
         /\ tick'[w].phase # "claim"
         /\ \A v \in Workers \ {w} : tick'[v] = tick[v]
<1> USE DEF TypeInv
<1>0. PICK due \in SUBSET Endpoints : \E batch \in SUBSET due :
        /\ OldestFirst(batch, due, tick[w].capacity)
        /\ \/ tick' = [tick EXCEPT ![w] =
                 [NoTick EXCEPT
                    !.phase = "dispatch",
                    !.rows = {[endpoint |-> e,
                               scheduled_at |-> runtime[e].next_run_at] : e \in batch},
                    !.claimedAt = now]]
           \/ tick' = [tick EXCEPT ![w] = NoTick]
  <2>1. \A skipped : {e \in Endpoints : Due(e)} \ skipped \in SUBSET Endpoints
    OBVIOUS
  <2> QED BY <2>1 DEF Claim
<1>1. PICK batch \in SUBSET due :
        /\ OldestFirst(batch, due, tick[w].capacity)
        /\ \/ tick' = [tick EXCEPT ![w] =
                 [NoTick EXCEPT
                    !.phase = "dispatch",
                    !.rows = {[endpoint |-> e,
                               scheduled_at |-> runtime[e].next_run_at] : e \in batch},
                    !.claimedAt = now]]
           \/ tick' = [tick EXCEPT ![w] = NoTick]
  BY <1>0
<1>2. IsFiniteSet(due) /\ IsFiniteSet(batch)
  BY FS_Subset, FiniteAssumption
<1>3. tick[w].capacity \in Nat /\ tick \in [Workers -> TickState]
  BY DEF TypeOK, TickState
<1>4. Cardinality(batch) \in Nat /\ Cardinality(batch) <= tick[w].capacity
  BY <1>1, <1>2, <1>3, FS_CardinalityType DEF OldestFirst, Least
<1> DEFINE row == [e \in batch |-> [endpoint |-> e, scheduled_at |-> runtime[e].next_run_at]]
           rows == {row[e] : e \in batch}
<1>5. IsFiniteSet(rows) /\ Cardinality(rows) <= Cardinality(batch)
      /\ Cardinality(rows) \in Nat
  <2>1. row \in [batch -> rows]
    OBVIOUS
  <2> HIDE DEF row
  <2> QED BY <1>2, <2>1, ImageFinite, FS_CardinalityType
<1>6. rows = {[endpoint |-> e, scheduled_at |-> runtime[e].next_run_at] : e \in batch}
  OBVIOUS
<1>7. ASSUME tick' = [tick EXCEPT ![w] = [NoTick EXCEPT !.phase = "dispatch", !.rows = rows,
                                                    !.claimedAt = now]]
      PROVE  tick'[w].rows = rows /\ tick'[w].phase # "claim"
             /\ \A v \in Workers \ {w} : tick'[v] = tick[v]
  <2> HIDE DEF rows
  <2> QED BY <1>3, <1>7 DEF NoTick
<1>8. ASSUME tick' = [tick EXCEPT ![w] = NoTick]
      PROVE  tick'[w].rows = {} /\ tick'[w].phase # "claim"
             /\ \A v \in Workers \ {w} : tick'[v] = tick[v]
  BY <1>3, <1>8 DEF NoTick
<1>9. IsFiniteSet({}) /\ Cardinality({}) <= tick[w].capacity
  BY <1>3, FS_EmptySet
<1>10. Cardinality(rows) <= tick[w].capacity
  <2> HIDE DEF rows
  <2> QED BY <1>3, <1>4, <1>5
<1>11. \/ tick' = [tick EXCEPT ![w] = [NoTick EXCEPT !.phase = "dispatch", !.rows = rows,
                                                    !.claimedAt = now]]
       \/ tick' = [tick EXCEPT ![w] = NoTick]
  BY <1>1, <1>6
<1> HIDE DEF rows
<1>12. CASE tick' = [tick EXCEPT ![w] = NoTick]
  BY <1>8, <1>9, <1>12
<1>13. CASE tick' = [tick EXCEPT ![w] = [NoTick EXCEPT !.phase = "dispatch", !.rows = rows,
                                                     !.claimedAt = now]]
  BY <1>5, <1>7, <1>10, <1>13
<1> QED BY <1>11, <1>12, <1>13

LEMMA DispatchPool ==
  ASSUME TypeInv, NEW w \in Workers, Dispatch(w)
  PROVE  /\ IsFiniteSet(jobs'[w])
         /\ Cardinality(jobs'[w]) <= Cardinality(jobs[w]) + Cardinality(tick[w].rows)
         /\ tick'[w] = NoTick
         /\ \A v \in Workers \ {w} : jobs'[v] = jobs[v] /\ tick'[v] = tick[v]
<1>0. /\ jobs \in [Workers -> SUBSET Job] /\ tick \in [Workers -> TickState]
      /\ IsFiniteSet(jobs[w]) /\ IsFiniteSet(tick[w].rows)
      /\ Cardinality(jobs[w]) \in Nat /\ Cardinality(tick[w].rows) \in Nat
  BY FS_CardinalityType DEF TypeInv, TypeOK, PoolsFinite
<1> DEFINE job == [s \in tick[w].rows |->
                     [endpoint |-> s.endpoint, scheduled_at |-> s.scheduled_at,
                      phase |-> "load", until |-> now + LOAD_BUDGET, attempt |-> 0,
                      attempt_id |-> NULL]]
           new == {job[s] : s \in tick[w].rows}
<1>1. IsFiniteSet(new) /\ Cardinality(new) <= Cardinality(tick[w].rows)
      /\ Cardinality(new) \in Nat
  <2>1. job \in [tick[w].rows -> new]
    OBVIOUS
  <2> HIDE DEF job
  <2> QED BY <1>0, <2>1, ImageFinite, FS_CardinalityType
<1>2. jobs'[w] = jobs[w] \cup new /\ tick'[w] = NoTick
      /\ \A v \in Workers \ {w} : jobs'[v] = jobs[v] /\ tick'[v] = tick[v]
  BY <1>0 DEF Dispatch
<1> HIDE DEF new
<1>3. jobs[w] \cap new \in SUBSET new
  OBVIOUS
<1>4. Cardinality(jobs[w] \cap new) \in Nat
  BY <1>1, <1>3, FS_Subset, FS_CardinalityType
<1>5. Cardinality(jobs[w] \cup new) <= Cardinality(jobs[w]) + Cardinality(new)
      /\ IsFiniteSet(jobs[w] \cup new)
  <2>1. /\ IsFiniteSet(jobs[w] \cup new)
        /\ Cardinality(jobs[w] \cup new) =
             Cardinality(jobs[w]) + Cardinality(new) - Cardinality(jobs[w] \cap new)
    BY <1>0, <1>1, FS_Union
  <2> QED BY <1>0, <1>1, <1>4, <2>1
<1> QED BY <1>0, <1>1, <1>2, <1>5, FS_CardinalityType

-----------------------------------------------------------------------------
(* The pool's bound.  Capacity is read before the claim and used after its  *)
(* reply; in between the pool only empties.                                 *)

WithinPool(w) ==
  /\ Cardinality(jobs[w]) + Cardinality(tick[w].rows) <= CONCURRENCY
  /\ tick[w].phase = "claim" => Cardinality(jobs[w]) + tick[w].capacity <= CONCURRENCY

PoolInv == \A w \in Workers : WithinPool(w)

WorkerStep(w) == TickStep(w) \/ ProcStep(w) \/ \E j \in jobs[w] : JobStep(w, j)

LEMMA StepOfOneWorker ==
  ASSUME TypeInv, NEW w \in Workers, WorkerStep(w)
  PROVE  \A v \in Workers \ {w} : jobs'[v] = jobs[v] /\ tick'[v] = tick[v]
<1>0. jobs \in [Workers -> SUBSET Job] /\ tick \in [Workers -> TickState]
  BY DEF TypeInv, TypeOK
<1>1. CASE Adopt(w) \/ ClaimFails(w)
  BY <1>0, <1>1 DEF Adopt, ClaimFails
<1>2. CASE Reconcile(w)
  BY <1>0, <1>2 DEF Reconcile, SendClaim
<1>3. CASE Claim(w)
  BY <1>3, ClaimPool DEF Claim
<1>4. CASE Dispatch(w)
  BY <1>4, DispatchPool
<1>5. CASE ProcStep(w)
  BY <1>0, <1>5 DEF ProcStep, Start, Stop, DrainStarts, DrainEnds, Exit, Crash, Gone
<1>6. ASSUME NEW j \in jobs[w], JobStep(w, j)
      PROVE  \A v \in Workers \ {w} : jobs'[v] = jobs[v] /\ tick'[v] = tick[v]
  BY <1>6, JobsPool, JobWrites
<1> QED BY <1>1, <1>2, <1>3, <1>4, <1>5, <1>6 DEF WorkerStep, TickStep

LEMMA PoolTyped ==
  ASSUME TypeInv, NEW w \in Workers
  PROVE  /\ IsFiniteSet(jobs[w]) /\ IsFiniteSet(tick[w].rows)
         /\ Cardinality(jobs[w]) \in Nat /\ Cardinality(tick[w].rows) \in Nat
         /\ tick[w].capacity \in Nat
         /\ IsFiniteSet({}) /\ Cardinality({}) = 0
         /\ jobs \in [Workers -> SUBSET Job] /\ tick \in [Workers -> TickState]
BY FS_CardinalityType, FS_EmptySet DEF TypeInv, TypeOK, PoolsFinite, TickState

LEMMA PoolStep ==
  ASSUME TypeInv, NEW w \in Workers, WorkerStep(w)
  PROVE  /\ IsFiniteSet(jobs'[w]) /\ IsFiniteSet(tick'[w].rows)
         /\ WithinPool(w) => WithinPool(w)'
<1> USE PoolTyped
<1>1. CASE Adopt(w)
  BY <1>1 DEF Adopt, WithinPool
<1>2. CASE Reconcile(w)
  <2>1. jobs' = jobs /\ SendClaim(w)
    BY <1>2 DEF Reconcile
  <2>2. CASE proc[w].state # "running" \/ Available(w) = 0
    <3>1. tick'[w] = NoTick
      BY <2>1, <2>2 DEF SendClaim
    <3> QED BY <2>1, <3>1, ConstantsTyped DEF NoTick, WithinPool
  <2>3. CASE ~(proc[w].state # "running" \/ Available(w) = 0)
    <3>1. tick'[w] = [NoTick EXCEPT !.phase = "claim",
                                   !.capacity = Least(BATCH_SIZE, Available(w))]
      BY <2>1, <2>3 DEF SendClaim
    <3>2. tick'[w].rows = {} /\ tick'[w].capacity = Least(BATCH_SIZE, Available(w))
      BY <3>1 DEF NoTick
    <3>3. Cardinality(jobs[w]) + Available(w) = CONCURRENCY
      BY <2>3, ConstantsTyped DEF Available, Greatest
    <3> QED BY <2>1, <2>3, <3>2, <3>3, ConstantsTyped DEF WithinPool, Least, Available, Greatest
  <2> QED BY <2>2, <2>3
<1>3. CASE Claim(w)
  <2>1. jobs' = jobs /\ tick[w].phase = "claim"
    BY <1>3 DEF Claim
  <2>2. /\ IsFiniteSet(tick'[w].rows) /\ Cardinality(tick'[w].rows) <= tick[w].capacity
        /\ tick'[w].phase # "claim" /\ Cardinality(tick'[w].rows) \in Nat
    BY <1>3, ClaimPool, FS_CardinalityType
  <2> QED BY <2>1, <2>2, ConstantsTyped DEF WithinPool
<1>4. CASE ClaimFails(w)
  BY <1>4, ConstantsTyped DEF ClaimFails, NoTick, WithinPool
<1>5. CASE Dispatch(w)
  <2>1. /\ IsFiniteSet(jobs'[w]) /\ tick'[w] = NoTick /\ Cardinality(jobs'[w]) \in Nat
        /\ Cardinality(jobs'[w]) <= Cardinality(jobs[w]) + Cardinality(tick[w].rows)
    BY <1>5, DispatchPool, FS_CardinalityType
  <2> QED BY <2>1, ConstantsTyped DEF WithinPool, NoTick
<1>6. CASE Start(w) \/ Stop(w) \/ DrainStarts(w) \/ DrainEnds(w)
  BY <1>6 DEF Start, Stop, DrainStarts, DrainEnds, WithinPool
<1>7. CASE Exit(w) \/ Crash(w)
  <2>1. jobs'[w] = {} /\ tick'[w] = NoTick
    BY <1>7 DEF Exit, Crash, Gone
  <2> QED BY <2>1, ConstantsTyped DEF NoTick, WithinPool
<1>8. ASSUME NEW j \in jobs[w], JobStep(w, j)
      PROVE  /\ IsFiniteSet(jobs'[w]) /\ IsFiniteSet(tick'[w].rows)
             /\ WithinPool(w) => WithinPool(w)'
  <2>1. /\ IsFiniteSet(jobs'[w]) /\ Cardinality(jobs'[w]) <= Cardinality(jobs[w])
        /\ tick' = tick /\ Cardinality(jobs'[w]) \in Nat
    BY <1>8, JobsPool, JobWrites, FS_CardinalityType
  <2> QED BY <2>1, ConstantsTyped DEF WithinPool
<1> QED BY <1>1, <1>2, <1>3, <1>4, <1>5, <1>6, <1>7, <1>8
        DEF WorkerStep, TickStep, ProcStep

LEMMA NextPool ==
  ASSUME TypeInv, [Next]_vars
  PROVE  PoolsFinite' /\ (PoolInv => PoolInv')
<1>1. ASSUME UNCHANGED <<tick, jobs>>
      PROVE  PoolsFinite' /\ (PoolInv => PoolInv')
  BY <1>1 DEF TypeInv, PoolsFinite, PoolInv, WithinPool
<1>2. ASSUME NEW w \in Workers, WorkerStep(w)
      PROVE  PoolsFinite' /\ (PoolInv => PoolInv')
  <2>1. \A v \in Workers \ {w} : jobs'[v] = jobs[v] /\ tick'[v] = tick[v]
    BY <1>2, StepOfOneWorker
  <2>2. /\ IsFiniteSet(jobs'[w]) /\ IsFiniteSet(tick'[w].rows)
        /\ WithinPool(w) => WithinPool(w)'
    BY <1>2, PoolStep
  <2> QED BY <2>1, <2>2 DEF TypeInv, PoolsFinite, PoolInv, WithinPool
<1>3. ASSUME NEW e \in Endpoints, ApiStep(e)
      PROVE  UNCHANGED <<tick, jobs>>
  BY <1>3 DEF ApiStep, CreateEndpoint, UpdateEndpoint, DeleteEndpoint
<1>4. CASE Tick \/ UNCHANGED vars
  BY <1>1, <1>4 DEF Tick, vars
<1> QED BY <1>1, <1>2, <1>3, <1>4 DEF Next, WorkerStep

LEMMA NextAttempt == TypeInv /\ [Next]_vars => AttemptDrawn'
<1> SUFFICES ASSUME TypeInv, [Next]_vars PROVE AttemptDrawn'
  OBVIOUS
<1>0. jobs \in [Workers -> SUBSET Job]
  BY DEF TypeInv, TypeOK
<1>1. CASE UNCHANGED jobs
  BY <1>1 DEF TypeInv, AttemptDrawn
<1>2. ASSUME NEW w \in Workers, NEW j \in jobs[w], JobStep(w, j)
      PROVE  AttemptDrawn'
  <2>1. CASE Settle(w, j)
    BY <1>0, <2>1 DEF Settle, TypeInv, AttemptDrawn
  <2>2. ASSUME NEW next, SetJob(w, j, next), Continues(j, next)
        PROVE  AttemptDrawn'
    BY <1>0, <2>2 DEF SetJob, Continues, TypeInv, AttemptDrawn
  <2> QED BY <1>2, <2>1, <2>2, JobMoves
<1>3. ASSUME NEW w \in Workers, Dispatch(w)
      PROVE  AttemptDrawn'
  BY <1>0, <1>3 DEF Dispatch, TypeInv, AttemptDrawn, Attempting
<1>4. ASSUME NEW w \in Workers, Gone(w)
      PROVE  AttemptDrawn'
  BY <1>0, <1>4 DEF Gone, TypeInv, AttemptDrawn
<1>5. ASSUME NEW w \in Workers, TickStep(w) \/ ProcStep(w)
      PROVE  UNCHANGED jobs \/ Dispatch(w) \/ Gone(w)
  BY <1>5 DEF TickStep, Adopt, Reconcile, Claim, ClaimFails, ProcStep, Start, Stop,
              DrainStarts, DrainEnds, Exit, Crash
<1>6. ASSUME NEW e \in Endpoints, ApiStep(e)
      PROVE  UNCHANGED jobs
  BY <1>6 DEF ApiStep, CreateEndpoint, UpdateEndpoint, DeleteEndpoint
<1>7. CASE Tick \/ UNCHANGED vars
  BY <1>1, <1>7 DEF Tick, vars
<1> QED BY <1>1, <1>2, <1>3, <1>4, <1>5, <1>6, <1>7 DEF Next

LEMMA InitInvariants == Init => TypeInv /\ PoolInv
<1> SUFFICES ASSUME Init PROVE TypeInv /\ PoolInv
  OBVIOUS
<1>1. \A w \in Workers : jobs[w] = {} /\ tick[w].rows = {} /\ tick[w].phase = "idle"
  BY DEF Init, NoTick
<1>2. PoolsFinite /\ AttemptDrawn
  BY <1>1, FS_EmptySet DEF PoolsFinite, AttemptDrawn
<1>3. PoolInv
  <2>1. \A w \in Workers : Cardinality(jobs[w]) = 0 /\ Cardinality(tick[w].rows) = 0
    BY <1>1, FS_EmptySet
  <2> QED BY <1>1, <2>1, ConstantsTyped DEF PoolInv, WithinPool
<1> QED BY <1>2, <1>3, InitTyped DEF TypeInv

LEMMA TypeInvariance == Spec => []TypeInv
<1>1. TypeInv /\ [Next]_vars => TypeInv'
  BY NextTyped, NextPool, NextAttempt DEF TypeInv
<1> QED BY <1>1, InitInvariants, PTL DEF Spec

(* Every table, lifecycle and pool keeps its type, and in particular a      *)
(* stored result has an attempt id: result-recorder.service.ts never writes *)
(* a row for a slot whose load did not draw one.                            *)
THEOREM TypeCorrectness == Spec => []TypeOK
<1>1. TypeInv => TypeOK
  BY DEF TypeInv
<1> QED BY <1>1, TypeInvariance, PTL

(* A worker's pool never exceeds PROBE_CONCURRENCY, though runTick reads    *)
(* the free places before the claim and starts the slots after its reply.   *)
THEOREM PoolBounded == Spec => []PoolWithinConcurrency
<1>1. PoolInv /\ TypeInv /\ [Next]_vars => PoolInv'
  BY NextPool
<1>2. PoolInv /\ TypeInv => PoolWithinConcurrency
  <2> SUFFICES ASSUME PoolInv, TypeInv, NEW w \in Workers
               PROVE  Cardinality(jobs[w]) <= CONCURRENCY
    BY DEF PoolWithinConcurrency
  <2> QED BY PoolTyped, ConstantsTyped DEF PoolInv, WithinPool
<1> QED BY <1>1, <1>2, InitInvariants, TypeInvariance, PTL DEF Spec

-----------------------------------------------------------------------------
(* The order of slots.  The row of a live endpoint remembers its latest     *)
(* claimed slot, and its next one lies after it; a deleted endpoint never   *)
(* gets a row again.                                                        *)

RowOrder(e) ==
  runtime[e] # NULL =>
    /\ Live(e)
    /\ \A c \in claimLog : c.endpoint = e =>
         runtime[e].scheduled_at \in Nat /\ c.scheduled_at <= runtime[e].scheduled_at
    /\ runtime[e].scheduled_at \in Nat =>
         runtime[e].scheduled_at < runtime[e].next_run_at

NoRowNoLog(e) ==
  runtime[e] = NULL /\ endpoints[e].status # "deleted" =>
    \A c \in claimLog : c.endpoint # e

SlotOrder == \A e \in Endpoints : RowOrder(e) /\ NoRowNoLog(e)

(* A due slot is new: every logged slot of its endpoint is older.           *)
LEMMA DueSlotIsNew ==
  ASSUME TypeInv, SlotOrder, NEW e \in Endpoints, Due(e)
  PROVE  \A d \in claimLog : d.endpoint = e => d.scheduled_at < runtime[e].next_run_at
<1>1. runtime[e] \in RuntimeRow /\ runtime[e] # NULL /\ RowOrder(e)
  BY DueRow DEF Due, SlotOrder, TypeInv
<1>2. \A d \in claimLog : d.scheduled_at \in Nat
  BY DEF TypeInv, TypeOK, ClaimRow
<1> QED BY <1>1, <1>2 DEF RowOrder, RuntimeRow

LEMMA ClaimOrder ==
  ASSUME TypeInv, SlotOrder, NEW w \in Workers, NEW batch \in SUBSET {e \in Endpoints : Due(e)},
         ClaimRows(w, batch)
  PROVE  /\ \A c \in claimLog' : c.endpoint \in batch =>
              c.scheduled_at <= runtime[c.endpoint].next_run_at
         /\ \A c \in claimLog' \ claimLog :
              /\ c.endpoint \in batch
              /\ c.scheduled_at = runtime[c.endpoint].next_run_at
              /\ c.worker_id = w
              /\ \A d \in claimLog :
                   d.endpoint = c.endpoint => d.scheduled_at < c.scheduled_at
<1>1. \A c \in claimLog' : c \in claimLog
        \/ (c.endpoint \in batch /\ c.scheduled_at = runtime[c.endpoint].next_run_at
            /\ c.worker_id = w)
  <2>1. claimLog' = claimLog \cup
          {[endpoint |-> e, scheduled_at |-> runtime[e].next_run_at, worker_id |-> w,
            claimed_at |-> now] : e \in batch}
    BY DEF ClaimRows
  <2> QED BY <2>1
<1>2. \A d \in claimLog : d.scheduled_at \in Nat
  BY DEF TypeInv, TypeOK, ClaimRow
<1>3. \A e \in batch : \A d \in claimLog : d.endpoint = e =>
        d.scheduled_at < runtime[e].next_run_at
  BY DueSlotIsNew
<1>4. \A e \in batch : runtime[e].next_run_at \in Nat
  BY DueRow DEF TypeInv
<1> QED BY <1>1, <1>2, <1>3, <1>4

(* How one step changes a row and the log: the cases every proof about rows *)
(* goes through.                                                            *)
RowCreated(e) ==
  /\ NeedsRow(e)
  /\ runtime'[e] # NULL
  /\ runtime'[e].scheduled_at = NULL /\ runtime'[e].leased_by = NULL
  /\ runtime'[e].leased_until = NULL

RowReconciled(e) ==
  /\ Stale(e)
  /\ runtime'[e] # NULL
  /\ runtime'[e].scheduled_at = runtime[e].scheduled_at
  /\ runtime'[e].next_run_at = runtime[e].scheduled_at + endpoints[e].interval_s
  /\ runtime'[e].leased_by = runtime[e].leased_by
  /\ runtime'[e].leased_until = runtime[e].leased_until

RowClaimed(w, e) ==
  /\ Due(e)
  /\ runtime'[e] # NULL /\ runtime'[e] \in RuntimeRow
  /\ runtime'[e].scheduled_at = runtime[e].next_run_at
  /\ runtime'[e].next_run_at > runtime[e].next_run_at
  /\ runtime'[e].next_run_at > now
  /\ runtime'[e].scheduled_interval_s = endpoints[e].interval_s
  /\ runtime'[e].leased_by = w
  /\ runtime'[e].leased_until = now + LEASE

RowReleased(w, j) ==
  /\ j.phase \in {"release", "abandon"}
  /\ FenceHolds(w, j)
  /\ runtime'[j.endpoint] # NULL
  /\ runtime'[j.endpoint].scheduled_at = runtime[j.endpoint].scheduled_at
  /\ runtime'[j.endpoint].next_run_at = runtime[j.endpoint].next_run_at
  /\ runtime'[j.endpoint].scheduled_interval_s = runtime[j.endpoint].scheduled_interval_s

LEMMA AdoptRows ==
  ASSUME TypeInv, NEW w \in Workers, Adopt(w)
  PROVE  \A e \in Endpoints : runtime'[e] = runtime[e] \/ RowCreated(e)
<1>1. CASE UNCHANGED runtime
  BY <1>1
<1>2. ASSUME NEW jitter \in [Endpoints -> 0 .. JITTER_MAX],
             runtime' = [e \in Endpoints |->
               IF NeedsRow(e)
               THEN [next_run_at |-> now + Least(jitter[e], endpoints[e].interval_s),
                     scheduled_at |-> NULL,
                     scheduled_interval_s |-> endpoints[e].interval_s,
                     leased_until |-> NULL, leased_by |-> NULL, last_probe_at |-> NULL]
               ELSE runtime[e]]
      PROVE  \A e \in Endpoints : runtime'[e] = runtime[e] \/ RowCreated(e)
  <2> SUFFICES ASSUME NEW e \in Endpoints, NeedsRow(e)
               PROVE  RowCreated(e)
    BY <1>2
  <2>2. runtime'[e] = [next_run_at |-> now + Least(jitter[e], endpoints[e].interval_s),
                     scheduled_at |-> NULL,
                     scheduled_interval_s |-> endpoints[e].interval_s,
                     leased_until |-> NULL, leased_by |-> NULL, last_probe_at |-> NULL]
    BY <1>2
  <2>3. runtime'[e] \in RuntimeRow
    <3>1. endpoints[e].interval_s \in Intervals /\ jitter[e] \in Nat /\ now \in Nat
      BY DEF TypeInv, TypeOK, Endpoint
    <3>2. now + Least(jitter[e], endpoints[e].interval_s) \in Nat
      BY <3>1, ConstantsTyped DEF Least
    <3> QED BY <2>2, <3>1, <3>2 DEF RuntimeRow, TimeOrNull
  <2> QED BY <2>2, <2>3, NullAssumption DEF RowCreated
<1> QED BY <1>1, <1>2 DEF Adopt

LEMMA ReconcileRows ==
  ASSUME TypeInv, NEW w \in Workers, Reconcile(w)
  PROVE  \A e \in Endpoints : runtime'[e] = runtime[e] \/ RowReconciled(e)
<1>1. CASE UNCHANGED runtime
  BY <1>1
<1>2. ASSUME NEW skipped \in SUBSET LockedRows,
             runtime' = [e \in Endpoints |->
               IF Stale(e) /\ e \notin skipped
               THEN [runtime[e] EXCEPT
                       !.next_run_at = runtime[e].scheduled_at + endpoints[e].interval_s,
                       !.scheduled_interval_s = endpoints[e].interval_s]
               ELSE runtime[e]]
      PROVE  \A e \in Endpoints : runtime'[e] = runtime[e] \/ RowReconciled(e)
  <2> SUFFICES ASSUME NEW e \in Endpoints, Stale(e), e \notin skipped
               PROVE  RowReconciled(e)
    BY <1>2
  <2>1. runtime'[e] = [runtime[e] EXCEPT
                        !.next_run_at = runtime[e].scheduled_at + endpoints[e].interval_s,
                        !.scheduled_interval_s = endpoints[e].interval_s]
    BY <1>2
  <2>2. runtime[e] \in RuntimeRow /\ runtime'[e] \in RuntimeRow
    BY <2>1, ReconciledRowTyped DEF Stale, TypeInv, TypeOK
  <2> QED BY <2>1, <2>2, NullAssumption DEF RowReconciled, RuntimeRow
<1> QED BY <1>1, <1>2 DEF Reconcile

LEMMA ClaimedRows ==
  ASSUME TypeInv, NEW w \in Workers, NEW batch \in SUBSET {e \in Endpoints : Due(e)},
         ClaimRows(w, batch)
  PROVE  \A e \in Endpoints :
           \/ e \notin batch /\ runtime'[e] = runtime[e]
           \/ e \in batch /\ RowClaimed(w, e)
<1>1. ASSUME NEW e \in batch
      PROVE  RowClaimed(w, e)
  <2>1. Due(e) /\ TypeOK
    BY DEF TypeInv
  <2>2. runtime'[e] = [runtime[e] EXCEPT
               !.scheduled_at = runtime[e].next_run_at,
               !.next_run_at = NextSlot(runtime[e].next_run_at, endpoints[e].interval_s),
               !.scheduled_interval_s = endpoints[e].interval_s,
               !.leased_until = now + LEASE,
               !.leased_by = w]
    BY DEF ClaimRows
  <2>3. runtime[e] \in RuntimeRow
        /\ NextSlot(runtime[e].next_run_at, endpoints[e].interval_s) > runtime[e].next_run_at
        /\ NextSlot(runtime[e].next_run_at, endpoints[e].interval_s) > now
    BY <2>1, DueRow
  <2>4. runtime'[e] \in RuntimeRow
    <3>1. [runtime[e] EXCEPT
            !.scheduled_at = runtime[e].next_run_at,
            !.next_run_at = NextSlot(runtime[e].next_run_at, endpoints[e].interval_s),
            !.scheduled_interval_s = endpoints[e].interval_s,
            !.leased_until = now + LEASE,
            !.leased_by = w] \in RuntimeRow
      BY <2>1, ClaimedRowTyped
    <3> QED BY <2>2, <3>1
  <2> QED BY <2>1, <2>2, <2>3, <2>4, NullAssumption DEF RowClaimed, RuntimeRow
<1> QED BY <1>1 DEF ClaimRows

LEMMA ReleasedRow ==
  ASSUME TypeInv, NEW w \in Workers, NEW j \in jobs[w], JobStep(w, j)
  PROVE  \/ UNCHANGED runtime
         \/ /\ RowReleased(w, j)
            /\ \A e \in Endpoints \ {j.endpoint} : runtime'[e] = runtime[e]
<1> SUFFICES ASSUME NEW o \in BOOLEAN, j.phase \in {"release", "abandon"},
                    FenceHolds(w, j), ClearLease(j.endpoint, o)
             PROVE  /\ RowReleased(w, j)
                    /\ \A e \in Endpoints \ {j.endpoint} : runtime'[e] = runtime[e]
  BY JobWrites
<1>1. TypeOK /\ j \in Job /\ j.endpoint \in Endpoints /\ runtime[j.endpoint] # NULL
  BY FenceFindsRow DEF TypeInv, TypeOK
<1>2. runtime' \in [Endpoints -> RuntimeRow \cup {NULL}]
      /\ runtime \in [Endpoints -> RuntimeRow \cup {NULL}]
  BY <1>1, ClearLeaseTyped DEF TypeOK
<1>3. runtime'[j.endpoint] =
        [runtime[j.endpoint] EXCEPT
           !.leased_until = NULL, !.leased_by = NULL,
           !.last_probe_at = IF o THEN now ELSE runtime[j.endpoint].last_probe_at]
      /\ \A e \in Endpoints \ {j.endpoint} : runtime'[e] = runtime[e]
  BY <1>1, <1>2 DEF ClearLease
<1>4. runtime[j.endpoint] \in RuntimeRow /\ runtime'[j.endpoint] \in RuntimeRow
  <2>1. runtime[j.endpoint] \in RuntimeRow
    BY <1>1, <1>2
  <2>2. now \in Nat
    BY <1>1 DEF TypeOK
  <2> QED BY <1>3, <2>1, <2>2 DEF RuntimeRow, TimeOrNull
<1> QED BY <1>1, <1>3, <1>4, NullAssumption DEF RowReleased, RuntimeRow

LEMMA SlotOrderStep ==
  ASSUME TypeInv, SlotOrder, [Next]_vars
  PROVE  SlotOrder'
<1>0. /\ \A c \in claimLog : c.scheduled_at \in Nat
      /\ \A e \in Endpoints : endpoints[e] \in Endpoint /\ runtime[e] \in RuntimeRow \cup {NULL}
      /\ \A i \in Intervals : i \in Nat /\ i > 0
  BY ConstantsTyped DEF TypeInv, TypeOK, ClaimRow
<1> DEFINE Kept == UNCHANGED <<endpoints, claimLog>>
<1>1. ASSUME NEW e \in Endpoints, Kept, runtime'[e] = runtime[e]
      PROVE  RowOrder(e)' /\ NoRowNoLog(e)'
  BY <1>1 DEF SlotOrder, RowOrder, NoRowNoLog, Live
<1>2. ASSUME NEW e \in Endpoints, Kept, RowCreated(e)
      PROVE  RowOrder(e)' /\ NoRowNoLog(e)'
  BY <1>2, NullAssumption DEF SlotOrder, RowOrder, NoRowNoLog, RowCreated, NeedsRow, Live
<1>3. ASSUME NEW e \in Endpoints, Kept, RowReconciled(e)
      PROVE  RowOrder(e)' /\ NoRowNoLog(e)'
  <2>1. runtime[e] # NULL /\ endpoints[e].interval_s \in Nat /\ endpoints[e].interval_s > 0
    BY <1>0, <1>3 DEF RowReconciled, Stale, Endpoint
  <2> QED BY <1>3, <2>1 DEF SlotOrder, RowOrder, NoRowNoLog, RowReconciled, Live
<1>4. ASSUME NEW w \in Workers, NEW j \in jobs[w], Kept, RowReleased(w, j)
      PROVE  RowOrder(j.endpoint)' /\ NoRowNoLog(j.endpoint)'
  <2>1. j.endpoint \in Endpoints /\ runtime[j.endpoint] # NULL
    BY <1>4, FenceFindsRow DEF RowReleased, TypeInv, TypeOK
  <2> QED BY <1>4, <2>1 DEF SlotOrder, RowOrder, NoRowNoLog, RowReleased, Live
<1>5. ASSUME NEW w \in Workers, Adopt(w) PROVE SlotOrder'
  BY <1>1, <1>2, <1>5, AdoptRows DEF Adopt, SlotOrder
<1>6. ASSUME NEW w \in Workers, Reconcile(w) PROVE SlotOrder'
  BY <1>1, <1>3, <1>6, ReconcileRows DEF Reconcile, SlotOrder
<1>7. ASSUME NEW w \in Workers, Claim(w) PROVE SlotOrder'
  <2>1. PICK batch \in SUBSET {e \in Endpoints : Due(e)} : ClaimRows(w, batch)
    BY <1>7 DEF Claim
  <2>2. UNCHANGED endpoints
    BY <1>7 DEF Claim
  <2>3. ASSUME NEW e \in Endpoints, e \in batch
        PROVE  RowOrder(e)' /\ NoRowNoLog(e)'
    <3>1. RowClaimed(w, e) /\ runtime[e] # NULL /\ runtime[e].next_run_at \in Nat
      BY <2>1, <2>3, ClaimedRows, DueRow DEF RowClaimed, Due, TypeInv, RuntimeRow
    <3>2. \A c \in claimLog' : c.endpoint = e => c.scheduled_at <= runtime[e].next_run_at
      BY <2>1, <2>3, ClaimOrder
    <3> QED BY <2>2, <3>1, <3>2 DEF SlotOrder, RowOrder, NoRowNoLog, RowClaimed, Live
  <2>4. ASSUME NEW e \in Endpoints, e \notin batch
        PROVE  RowOrder(e)' /\ NoRowNoLog(e)'
    <3>1. runtime'[e] = runtime[e]
      BY <2>1, <2>4, ClaimedRows
    <3>2. \A c \in claimLog' : c.endpoint = e => c \in claimLog
      BY <2>1, <2>4, ClaimOrder
    <3> QED BY <2>2, <3>1, <3>2 DEF SlotOrder, RowOrder, NoRowNoLog, Live
  <2> QED BY <2>3, <2>4 DEF SlotOrder
<1>8. ASSUME NEW w \in Workers, NEW j \in jobs[w], JobStep(w, j) PROVE SlotOrder'
  <2>1. Kept
    BY <1>8, JobWrites
  <2> QED BY <1>1, <1>4, <1>8, <2>1, ReleasedRow DEF SlotOrder
<1>9. ASSUME UNCHANGED tables PROVE SlotOrder'
  BY <1>1, <1>9 DEF SlotOrder, tables
<1>10. ASSUME NEW w \in Workers, ClaimFails(w) \/ Dispatch(w) \/ ProcStep(w)
       PROVE UNCHANGED tables
  BY <1>10 DEF ClaimFails, Dispatch, ProcStep, Start, Stop, DrainStarts, DrainEnds, Exit,
               Crash, tables
<1>11. ASSUME NEW e \in Endpoints, ApiStep(e) PROVE SlotOrder'
  <2>1. CASE CreateEndpoint(e)
    BY <1>0, <2>1 DEF CreateEndpoint, TypeInv, TypeOK, SlotOrder, RowOrder, NoRowNoLog, Live
  <2>2. CASE UpdateEndpoint(e)
    <3>1. \A f \in Endpoints : endpoints'[f].status = endpoints[f].status
      BY <1>0, <2>2 DEF UpdateEndpoint, TypeInv, TypeOK, Endpoint
    <3> QED BY <2>2, <3>1 DEF UpdateEndpoint, SlotOrder, RowOrder, NoRowNoLog, Live
  <2>3. CASE DeleteEndpoint(e)
    BY <1>0, <2>3 DEF DeleteEndpoint, TypeInv, TypeOK, SlotOrder, RowOrder, NoRowNoLog, Live
  <2> QED BY <1>11, <2>1, <2>2, <2>3 DEF ApiStep
<1>12. CASE Tick \/ UNCHANGED vars
  BY <1>9, <1>12 DEF Tick, vars, tables
<1> QED BY <1>5, <1>6, <1>7, <1>8, <1>9, <1>10, <1>11, <1>12 DEF Next, TickStep

LEMMA SlotOrderInvariance == Spec => []SlotOrder
<1>1. Init => SlotOrder
  BY DEF Init, SlotOrder, RowOrder, NoRowNoLog
<1>2. SlotOrder /\ TypeInv /\ [Next]_vars => SlotOrder'
  BY SlotOrderStep
<1> QED BY <1>1, <1>2, TypeInvariance, PTL DEF Spec

(* The log grows by a claim, and by nothing else.                           *)
LEMMA LogGrowsByClaim ==
  ASSUME TypeInv, SlotOrder, [Next]_vars
  PROVE  /\ claimLog \subseteq claimLog'
         /\ \A c \in claimLog' \ claimLog, d \in claimLog :
              d.endpoint = c.endpoint => d.scheduled_at < c.scheduled_at
<1>1. ASSUME NEW w \in Workers, Claim(w)
      PROVE  /\ claimLog \subseteq claimLog'
             /\ \A c \in claimLog' \ claimLog, d \in claimLog :
                  d.endpoint = c.endpoint => d.scheduled_at < c.scheduled_at
  <2>1. PICK batch \in SUBSET {e \in Endpoints : Due(e)} : ClaimRows(w, batch)
    BY <1>1 DEF Claim
  <2>2. claimLog \subseteq claimLog'
    BY <2>1 DEF ClaimRows
  <2> QED BY <2>1, <2>2, ClaimOrder
<1>2. ASSUME NEW w \in Workers, NEW j \in jobs[w], JobStep(w, j)
      PROVE  UNCHANGED claimLog
  BY <1>2, JobWrites
<1>3. ASSUME NEW w \in Workers, Adopt(w) \/ Reconcile(w) \/ ClaimFails(w) \/ Dispatch(w)
                               \/ ProcStep(w)
      PROVE  UNCHANGED claimLog
  BY <1>3 DEF Adopt, Reconcile, ClaimFails, Dispatch, ProcStep, Start, Stop, DrainStarts,
              DrainEnds, Exit, Crash, tables
<1>4. ASSUME NEW e \in Endpoints, ApiStep(e)
      PROVE  UNCHANGED claimLog
  BY <1>4 DEF ApiStep, CreateEndpoint, UpdateEndpoint, DeleteEndpoint
<1>5. CASE Tick \/ UNCHANGED vars
  BY <1>5 DEF Tick, vars, tables
<1> QED BY <1>1, <1>2, <1>3, <1>4, <1>5 DEF Next, TickStep

(* A slot is claimed once, by one worker: the slots an endpoint's claims    *)
(* take only move forward, across reconciliation, catch-up, lapsed leases,  *)
(* crashes and concurrent workers (claimQuery and reconcileQuery).          *)
THEOREM ClaimsMoveForward == Spec => SlotsClaimedOnce
<1>1. TypeInv /\ SlotOrder /\ [Next]_vars =>
        [\A e \in Endpoints : \A c \in claimLog' \ claimLog : c.endpoint = e =>
           \A d \in claimLog : d.endpoint = e => d.scheduled_at < c.scheduled_at]_vars
  BY LogGrowsByClaim
<1> QED BY <1>1, TypeInvariance, SlotOrderInvariance, PTL DEF Spec, SlotsClaimedOnce

-----------------------------------------------------------------------------
(* The backlog.  A claim replays a slot only where its endpoint is owed     *)
(* one: its row was computed with another interval than the endpoint's, or  *)
(* its next slot was already past when an earlier one was claimed.  A       *)
(* change of the interval owes one slot, and the claim that takes it owes   *)
(* none, so replays and owed slots together never outnumber the changes.    *)

Behind(e) ==
  \E d \in claimLog : d.endpoint = e /\ runtime[e].next_run_at <= d.claimed_at

Owed ==
  {e \in Endpoints :
     /\ runtime[e] # NULL
     /\ runtime[e].scheduled_at # NULL
     /\ runtime[e].scheduled_interval_s # endpoints[e].interval_s \/ Behind(e)}

BacklogInv ==
  /\ IsFiniteSet(claimLog)
  /\ \A c \in claimLog : c.claimed_at <= now
  /\ Cardinality(Replays) + Cardinality(Owed) <= edits

(* Claims of different endpoints are no more than the endpoints.            *)
LEMMA OneEachEndpoint ==
  ASSUME NEW S, NEW T, IsFiniteSet(T),
         \A c \in S : c.endpoint \in T,
         \A c, d \in S : c.endpoint = d.endpoint => c = d
  PROVE  IsFiniteSet(S) /\ Cardinality(S) <= Cardinality(T)
<1> DEFINE f == [c \in S |-> c.endpoint]
<1>1. f \in [S -> T] /\ \A c, d \in S : f[c] = f[d] => c = d
  OBVIOUS
<1>2. f \in Injection(S, T)
  BY <1>1 DEF Injection, IsInjective
<1> HIDE DEF f
<1> QED BY <1>2, FS_Injection

LEMMA OwedFinite == IsFiniteSet(Owed) /\ Cardinality(Owed) \in Nat
BY FiniteAssumption, FS_Subset, FS_CardinalityType DEF Owed

LEMMA ReplaysFinite ==
  ASSUME IsFiniteSet(claimLog)
  PROVE  IsFiniteSet(Replays) /\ Cardinality(Replays) \in Nat
<1>1. Replays \in SUBSET claimLog
  BY DEF Replays
<1> QED BY <1>1, FS_Subset, FS_CardinalityType

(* A step that claims nothing and changes no interval owes nothing new.     *)
LEMMA NothingOwed ==
  ASSUME TypeInv, BacklogInv, UNCHANGED <<claimLog, edits>>, now' >= now, now' \in Nat,
         \A e \in Owed' : e \in Owed
  PROVE  BacklogInv'
<1>1. Owed' \in SUBSET Owed /\ IsFiniteSet(Owed')
  BY OwedFinite, FS_Subset
<1>2. Cardinality(Owed') <= Cardinality(Owed) /\ Cardinality(Owed') \in Nat
  BY <1>1, OwedFinite, FS_Subset, FS_CardinalityType
<1>3. Replays' = Replays
  BY DEF Replays
<1>4. Cardinality(Replays) \in Nat /\ Cardinality(Owed) \in Nat
  BY OwedFinite, ReplaysFinite DEF BacklogInv
<1>5. \A c \in claimLog : c.claimed_at <= now'
  BY DEF BacklogInv, TypeInv, TypeOK, ClaimRow
<1>6. edits \in Nat
  BY DEF TypeInv, TypeOK
<1> QED BY <1>2, <1>3, <1>4, <1>5, <1>6 DEF BacklogInv

(* A row whose schedule a step leaves alone is owed what it was owed.       *)
ScheduleKept(e) ==
  /\ runtime[e] # NULL
  /\ runtime'[e].scheduled_at = runtime[e].scheduled_at
  /\ runtime'[e].next_run_at = runtime[e].next_run_at
  /\ runtime'[e].scheduled_interval_s = runtime[e].scheduled_interval_s

LEMMA RowsOwed ==
  ASSUME TypeInv, UNCHANGED <<endpoints, claimLog>>, NEW e \in Owed',
         \/ runtime'[e] = runtime[e] \/ RowCreated(e) \/ RowReconciled(e)
         \/ ScheduleKept(e)
  PROVE  e \in Owed
<1>1. CASE runtime'[e] = runtime[e]
  BY <1>1 DEF Owed, Behind
<1>2. CASE RowCreated(e)
  BY <1>2 DEF Owed, RowCreated
<1>3. CASE RowReconciled(e)
  BY <1>3 DEF Owed, RowReconciled, Stale
<1>4. CASE ScheduleKept(e)
  BY <1>4 DEF Owed, ScheduleKept, Behind
<1> QED BY <1>1, <1>2, <1>3, <1>4

(* The claim: a replay takes what its endpoint was owed.                    *)
LEMMA ClaimPaysBack ==
  ASSUME TypeInv, SlotOrder, BacklogInv, NEW w \in Workers,
         NEW batch \in SUBSET {e \in Endpoints : Due(e)}, ClaimRows(w, batch),
         UNCHANGED <<now, endpoints, edits>>
  PROVE  BacklogInv'
<1> DEFINE Fresh == Replays' \ Replays
           Paid == Owed \ Owed'
           New == claimLog' \ claimLog
<1>0. /\ \A c \in claimLog : c \in ClaimRow /\ c.claimed_at <= now
                             /\ c.claimed_at \in Nat /\ c.scheduled_at \in Nat
      /\ now \in Nat /\ edits \in Nat
  BY DEF TypeInv, TypeOK, BacklogInv, ClaimRow
<1>1. \A c \in claimLog' : c \in claimLog \/
        \E e \in batch : c = [endpoint |-> e, scheduled_at |-> runtime[e].next_run_at,
                              worker_id |-> w, claimed_at |-> now]
  BY DEF ClaimRows
<1>2. claimLog \subseteq claimLog'
  BY DEF ClaimRows
<1>3. \A c \in New : /\ c.endpoint \in batch /\ c.claimed_at = now
                     /\ c.scheduled_at = runtime[c.endpoint].next_run_at
                     /\ c.scheduled_at \in Nat
                     /\ \A d \in claimLog :
                          d.endpoint = c.endpoint => d.scheduled_at < c.scheduled_at
  BY <1>1, ClaimOrder, DueRow DEF TypeInv
<1>4. \A c, d \in New : c.endpoint = d.endpoint => c = d
  BY <1>1
<1>5. \A e \in batch : RowClaimed(w, e) /\ runtime'[e].next_run_at > now
                       /\ runtime'[e].scheduled_interval_s = endpoints[e].interval_s
  BY ClaimedRows DEF RowClaimed
<1>6. \A e \in Endpoints \ batch : runtime'[e] = runtime[e]
  BY ClaimedRows
<1>7. IsFiniteSet(claimLog')
  <2>1. IsFiniteSet(batch)
    BY FiniteAssumption, FS_Subset
  <2>2. IsFiniteSet(New)
    BY <1>3, <1>4, <2>1, OneEachEndpoint
  <2>3. claimLog' = claimLog \cup New
    BY <1>2
  <2> HIDE DEF New
  <2> QED BY <2>2, <2>3, FS_Union DEF BacklogInv
<1>8. \A c \in claimLog' : c.claimed_at <= now
  BY <1>0, <1>3
<1>9. \A e \in Owed' : e \in Owed /\ e \notin batch
  <2> SUFFICES ASSUME NEW e \in Owed' PROVE e \in Owed /\ e \notin batch
    OBVIOUS
  <2>1. e \notin batch
    <3> SUFFICES ASSUME e \in batch PROVE FALSE
      OBVIOUS
    <3>1. PICK d \in claimLog' : d.endpoint = e /\ runtime'[e].next_run_at <= d.claimed_at
      BY <1>5 DEF Owed, Behind
    <3>2. runtime'[e].next_run_at \in Nat
      BY <1>5 DEF RowClaimed, RuntimeRow
    <3>3. d.claimed_at \in Nat /\ d.claimed_at <= now
      BY <1>0, <1>3, <1>8
    <3> QED BY <1>0, <1>5, <3>1, <3>2, <3>3
  <2>2. runtime'[e] = runtime[e] /\ \A d \in claimLog' : d.endpoint = e => d \in claimLog
    BY <1>3, <1>6, <2>1 DEF Owed
  <2> QED BY <2>1, <2>2 DEF Owed, Behind
<1>10. \A c \in Fresh : c \in New /\ c.endpoint \in Paid
  <2> SUFFICES ASSUME NEW c \in Fresh PROVE c \in New /\ c.endpoint \in Paid
    OBVIOUS
  <2>1. c \in claimLog' /\ c \notin Replays
    BY DEF Replays
  <2>2. PICK d \in claimLog' : /\ d.endpoint = c.endpoint
                               /\ d.scheduled_at < c.scheduled_at
                               /\ c.scheduled_at <= d.claimed_at
    BY DEF Replays
  <2>3. d \in claimLog
    <3> SUFFICES ASSUME d \in New PROVE FALSE
      BY <2>2
    <3>1. CASE c \in New
      BY <1>3, <1>4, <2>2, <3>1
    <3>2. CASE c \in claimLog
      BY <1>0, <1>3, <2>2, <3>2
    <3> QED BY <2>1, <3>1, <3>2
  <2>4. c \in New
    BY <2>1, <2>2, <2>3 DEF Replays
  <2>5. c.endpoint \in Endpoints /\ c.endpoint \in batch /\ runtime[c.endpoint] # NULL
    BY <1>3, <2>4 DEF Due
  <2>6. runtime[c.endpoint].scheduled_at # NULL
    BY <2>2, <2>3, <2>5, NullAssumption DEF SlotOrder, RowOrder
  <2>7. Behind(c.endpoint)
    BY <1>3, <2>2, <2>3, <2>4 DEF Behind
  <2> QED BY <1>9, <2>4, <2>5, <2>6, <2>7 DEF Owed
<1>11. Cardinality(Fresh) <= Cardinality(Paid) /\ IsFiniteSet(Fresh) /\ IsFiniteSet(Paid)
  <2>1. IsFiniteSet(Paid)
    BY OwedFinite, FS_Difference
  <2>2. \A c, d \in Fresh : c.endpoint = d.endpoint => c = d
    BY <1>4, <1>10
  <2> HIDE DEF Fresh, Paid
  <2> QED BY <1>10, <2>1, <2>2, OneEachEndpoint
<1>12. Replays' = Replays \cup Fresh
  BY <1>2 DEF Replays
<1>13. Owed' = Owed \ Paid /\ Paid \subseteq Owed
  BY <1>9
<1>14. IsFiniteSet(Replays) /\ IsFiniteSet(Owed)
  BY OwedFinite, ReplaysFinite DEF BacklogInv
<1>15. Replays \cap Fresh = {} /\ Owed \cap Paid = Paid
  OBVIOUS
<1> HIDE DEF Fresh, Paid
<1>16. Cardinality(Replays') = Cardinality(Replays) + Cardinality(Fresh)
  <2>1. Cardinality(Replays \cap Fresh) = 0
    BY <1>15, FS_EmptySet
  <2>2. /\ Cardinality(Replays) \in Nat /\ Cardinality(Fresh) \in Nat
        /\ Cardinality(Replays \cup Fresh)
             = Cardinality(Replays) + Cardinality(Fresh) - Cardinality(Replays \cap Fresh)
    BY <1>11, <1>14, FS_Union, FS_CardinalityType
  <2> QED BY <1>12, <2>1, <2>2
<1>17. Cardinality(Owed') = Cardinality(Owed) - Cardinality(Paid)
  BY <1>13, <1>14, <1>15, FS_Difference
<1>18. /\ Cardinality(Replays) \in Nat /\ Cardinality(Fresh) \in Nat
       /\ Cardinality(Owed) \in Nat /\ Cardinality(Paid) \in Nat
  BY <1>11, <1>14, FS_CardinalityType
<1>19. Cardinality(Replays') + Cardinality(Owed') <= edits
  BY <1>0, <1>11, <1>16, <1>17, <1>18 DEF BacklogInv
<1> QED BY <1>7, <1>8, <1>19 DEF BacklogInv

(* An edit owes at most the slot of the endpoint it changes.                *)
LEMMA EditOwesOne ==
  ASSUME TypeInv, BacklogInv, NEW e \in Endpoints, ApiStep(e)
  PROVE  BacklogInv'
<1>1. UNCHANGED <<now, claimLog>> /\ edits' = edits + 1
  BY DEF ApiStep, CreateEndpoint, UpdateEndpoint, DeleteEndpoint
<1>2. \A f \in Endpoints \ {e} : runtime'[f] = runtime[f] /\ endpoints'[f] = endpoints[f]
  BY DEF ApiStep, CreateEndpoint, UpdateEndpoint, DeleteEndpoint, TypeInv, TypeOK
<1>3. Owed' \in SUBSET (Owed \cup {e})
  BY <1>1, <1>2 DEF Owed, Behind
<1>4. Cardinality(Owed') <= Cardinality(Owed) + 1 /\ Cardinality(Owed') \in Nat
  <2>1. IsFiniteSet(Owed \cup {e}) /\ Cardinality(Owed \cup {e}) <= Cardinality(Owed) + 1
        /\ Cardinality(Owed \cup {e}) \in Nat
    <3>1. IsFiniteSet({e}) /\ Cardinality({e}) = 1
      BY FS_Singleton
    <3>2. IsFiniteSet(Owed \cup {e}) /\ IsFiniteSet(Owed \cap {e})
          /\ Cardinality(Owed \cup {e}) = Cardinality(Owed) + 1 - Cardinality(Owed \cap {e})
      BY <3>1, OwedFinite, FS_Union, FS_Intersection
    <3>3. Cardinality(Owed \cap {e}) \in Nat /\ Cardinality(Owed \cup {e}) \in Nat
      BY <3>2, FS_CardinalityType
    <3> QED BY <3>2, <3>3, OwedFinite
  <2>2. IsFiniteSet(Owed') /\ Cardinality(Owed') <= Cardinality(Owed \cup {e})
    BY <1>3, <2>1, FS_Subset
  <2> QED BY <2>1, <2>2, OwedFinite, FS_CardinalityType
<1>5. Replays' = Replays
  BY <1>1 DEF Replays
<1>6. Cardinality(Replays) \in Nat /\ Cardinality(Owed) \in Nat /\ edits \in Nat
  BY OwedFinite, ReplaysFinite DEF BacklogInv, TypeInv, TypeOK
<1> QED BY <1>1, <1>4, <1>5, <1>6 DEF BacklogInv

LEMMA BacklogStep ==
  ASSUME TypeInv, SlotOrder, BacklogInv, [Next]_vars
  PROVE  BacklogInv'
<1>0. now \in Nat
  BY DEF TypeInv, TypeOK
<1>1. ASSUME NEW w \in Workers, Adopt(w) PROVE BacklogInv'
  <2>1. UNCHANGED <<now, endpoints, claimLog, edits>>
    BY <1>1 DEF Adopt
  <2>2. \A e \in Owed' : e \in Owed
    BY <1>1, <2>1, AdoptRows, RowsOwed DEF Owed
  <2> QED BY <1>0, <2>1, <2>2, NothingOwed
<1>2. ASSUME NEW w \in Workers, Reconcile(w) PROVE BacklogInv'
  <2>1. UNCHANGED <<now, endpoints, claimLog, edits>>
    BY <1>2 DEF Reconcile
  <2>2. \A e \in Owed' : e \in Owed
    BY <1>2, <2>1, ReconcileRows, RowsOwed DEF Owed
  <2> QED BY <1>0, <2>1, <2>2, NothingOwed
<1>3. ASSUME NEW w \in Workers, Claim(w) PROVE BacklogInv'
  <2>1. PICK batch \in SUBSET {e \in Endpoints : Due(e)} : ClaimRows(w, batch)
    BY <1>3 DEF Claim
  <2> QED BY <1>3, <2>1, ClaimPaysBack DEF Claim
<1>4. ASSUME NEW w \in Workers, NEW j \in jobs[w], JobStep(w, j) PROVE BacklogInv'
  <2>1. UNCHANGED <<now, endpoints, claimLog, edits>>
    BY <1>4, JobWrites
  <2>2. \A e \in Endpoints : runtime'[e] = runtime[e] \/ ScheduleKept(e)
    BY <1>4, ReleasedRow DEF RowReleased, FenceHolds, ScheduleKept
  <2>3. \A e \in Owed' : e \in Owed
    BY <2>1, <2>2, RowsOwed DEF Owed
  <2> QED BY <1>0, <2>1, <2>3, NothingOwed
<1>5. ASSUME UNCHANGED tables, UNCHANGED edits, now' \in Nat, now' >= now PROVE BacklogInv'
  <2>1. \A e \in Owed' : e \in Owed
    BY <1>5 DEF tables, Owed, Behind
  <2> QED BY <1>5, <2>1, NothingOwed DEF tables
<1>6. ASSUME NEW w \in Workers, ClaimFails(w) \/ Dispatch(w) \/ ProcStep(w)
      PROVE  UNCHANGED <<now, tables, edits>>
  BY <1>6 DEF ClaimFails, Dispatch, ProcStep, Start, Stop, DrainStarts, DrainEnds, Exit,
              Crash, bounds
<1>7. ASSUME NEW e \in Endpoints, ApiStep(e) PROVE BacklogInv'
  BY <1>7, EditOwesOne
<1>8. CASE Tick \/ UNCHANGED vars
  BY <1>0, <1>5, <1>8 DEF Tick, vars, tables, bounds
<1> QED BY <1>0, <1>1, <1>2, <1>3, <1>4, <1>5, <1>6, <1>7, <1>8 DEF Next, TickStep

LEMMA BacklogInitially == Init => BacklogInv
<1> SUFFICES ASSUME Init PROVE BacklogInv
  OBVIOUS
<1>1. Replays = {} /\ Owed = {} /\ claimLog = {} /\ edits = 0
  BY DEF Init, Replays, Owed
<1> QED BY <1>1, FS_EmptySet DEF BacklogInv

(* A backlog is not replayed: after an outage each endpoint gets one slot   *)
(* and then the first one after now, and only a changed interval can make a *)
(* claim take a slot that was past when an earlier one was claimed, once    *)
(* for each change (claimQuery's next_run_at and reconcileQuery; D4, D26).  *)
THEOREM BacklogBounded == Spec => []BacklogNotReplayed
<1>1. TypeInv /\ SlotOrder /\ BacklogInv /\ [Next]_vars => BacklogInv'
  BY BacklogStep
<1>2. TypeInv /\ BacklogInv => BacklogNotReplayed
  <2> SUFFICES ASSUME TypeInv, BacklogInv PROVE BacklogNotReplayed
    OBVIOUS
  <2>1. Cardinality(Replays) \in Nat /\ Cardinality(Owed) \in Nat /\ edits \in Nat
    BY OwedFinite, ReplaysFinite DEF BacklogInv, TypeInv, TypeOK
  <2> QED BY <2>1 DEF BacklogInv, BacklogNotReplayed
<1> QED BY <1>1, <1>2, BacklogInitially, TypeInvariance, SlotOrderInvariance, PTL DEF Spec

-----------------------------------------------------------------------------
(* A graceful stop.                                                         *)
-----------------------------------------------------------------------------
(* The inductive invariant.  Every timer of a slot lies within the grace    *)
(* counted from now until the drain starts, and within the drain after it:  *)
(* a load leaves room for the probe it may start, as loadConfig demands.    *)

Serving == {"running", "stopping"}
Ending == {"draining", "drained"}

(* The time a slot may still take before its terminal write.                *)
Left(j) == j.until + (IF j.phase = "load" THEN PROBE_MAX ELSE 0)

DownHoldsNothing(w) ==
  proc[w].state = "down" => proc[w] = NoProcess /\ tick[w] = NoTick /\ jobs[w] = {}

DeadlineInGrace(w) ==
  /\ proc[w].state = "running" => proc[w].deadline = NULL
  /\ proc[w].state = "stopping" =>
       proc[w].deadline \in Nat /\ proc[w].deadline <= now + GRACE

TimersAhead(w) ==
  \A j \in jobs[w] :
    /\ now <= j.until
    /\ proc[w].state \in Serving => Left(j) <= now + GRACE

DrainBounds(w) ==
  proc[w].state \in Ending =>
    /\ tick[w] = NoTick
    /\ proc[w].deadline \in Nat /\ proc[w].drainUntil \in Nat
    /\ proc[w].deadline <= proc[w].drainUntil
    /\ \A j \in jobs[w] : Left(j) <= proc[w].drainUntil
    /\ proc[w].state = "drained" /\ now < proc[w].drainUntil => jobs[w] = {}
    /\ proc[w].state = "draining" => now <= proc[w].drainUntil

StopInv(w) ==
  /\ tick[w].phase = "idle" => tick[w] = NoTick
  /\ DownHoldsNothing(w)
  /\ DeadlineInGrace(w)
  /\ TimersAhead(w)
  /\ DrainBounds(w)

StopsInv == \A w \in Workers : StopInv(w)

LEMMA ProcessTyped ==
  ASSUME TypeInv, NEW w \in Workers
  PROVE  /\ now \in Nat
         /\ proc[w] \in Process
         /\ proc[w].state \in {"down"} \cup Serving \cup Ending
         /\ proc[w].deadline \in Nat \cup {NULL}
         /\ jobs[w] \subseteq Job
         /\ \A j \in jobs[w] : j.until \in Nat /\ Left(j) \in Nat /\ Left(j) >= j.until
<1>1. now \in Nat /\ proc[w] \in Process /\ jobs[w] \subseteq Job
  BY DEF TypeInv, TypeOK
<1>2. ASSUME NEW j \in jobs[w]
      PROVE  j.until \in Nat /\ Left(j) \in Nat /\ Left(j) >= j.until
  <2>1. j.until \in Nat
    BY <1>1 DEF Job
  <2> QED BY <2>1, ConstantsTyped DEF Left
<1> QED BY <1>1, <1>2 DEF Process, TimeOrNull, Serving, Ending

(* A terminal write is cancelled within the grace and within the drain.     *)
LEMMA WriteInTime ==
  ASSUME TypeInv, NEW w \in Workers, StopInv(w), jobs[w] # {}
  PROVE  /\ WriteUntil(w) \in Nat /\ WriteUntil(w) >= now
         /\ proc[w].state \in Serving => WriteUntil(w) <= now + GRACE
         /\ proc[w].state \in Ending => WriteUntil(w) <= proc[w].drainUntil
         /\ proc[w].state \in Serving \cup Ending
<1>1. WriteUntil(w) \in Nat /\ WriteUntil(w) >= now
  BY WriteUntilTyped DEF TypeInv
<1>2. proc[w].state \in Serving \cup Ending
  BY ProcessTyped DEF StopInv, DownHoldsNothing
<1>3. CASE proc[w].state \in Serving
  <2>1. \/ proc[w].deadline = NULL
        \/ proc[w].deadline \in Nat /\ proc[w].deadline # NULL
           /\ proc[w].deadline <= now + GRACE
    BY <1>3, NullAssumption DEF StopInv, DeadlineInGrace, Serving
  <2>2. WriteUntil(w) <= now + GRACE
    BY <2>1, ProcessTyped, ConstantsTyped DEF WriteUntil, Greatest
  <2> QED BY <1>1, <1>3, <2>2 DEF Serving, Ending
<1>4. CASE proc[w].state \in Ending
  <2>1. PICK j \in jobs[w] : TRUE
    OBVIOUS
  <2>2. now <= j.until /\ Left(j) <= proc[w].drainUntil /\ proc[w].drainUntil \in Nat
    BY <1>4 DEF StopInv, TimersAhead, DrainBounds
  <2>3. now <= proc[w].drainUntil
    BY <2>2, ProcessTyped
  <2>4. proc[w].deadline \in Nat /\ proc[w].deadline # NULL
        /\ proc[w].deadline <= proc[w].drainUntil
    BY <1>4, NullAssumption DEF StopInv, DrainBounds
  <2>5. WriteUntil(w) <= proc[w].drainUntil
    BY <2>2, <2>3, <2>4, ProcessTyped DEF WriteUntil, Greatest
  <2> QED BY <1>1, <1>4, <2>5 DEF Serving, Ending
<1> QED BY <1>2, <1>3, <1>4

(* What a slot becomes, with the bound its next timer keeps.                *)
InTime(w, next) ==
  /\ next.phase # "load" /\ next.until \in Nat /\ now <= next.until
  /\ proc[w].state \in Serving => next.until <= now + GRACE
  /\ proc[w].state \in Ending => next.until <= proc[w].drainUntil

MovesInTime(w, j) ==
  Settle(w, j) \/ \E next : SetJob(w, j, next) /\ InTime(w, next)

LEMMA WriteMoves ==
  ASSUME TypeInv, NEW w \in Workers, StopInv(w), NEW j \in jobs[w], NEW next \in Job,
         SetJob(w, j, next), next.phase # "load",
         now <= next.until, next.until <= WriteUntil(w)
  PROVE  MovesInTime(w, j)
<1>1. /\ WriteUntil(w) \in Nat
      /\ proc[w].state \in Serving => WriteUntil(w) <= now + GRACE
      /\ proc[w].state \in Ending => WriteUntil(w) <= proc[w].drainUntil
  BY WriteInTime
<1>2. now + GRACE \in Nat
  BY ProcessTyped, ConstantsTyped
<1>3. proc[w].state \in Ending => proc[w].drainUntil \in Nat
  BY DEF StopInv, DrainBounds
<1>4. next.until \in Nat
  BY DEF Job
<1>5. InTime(w, next)
  BY <1>1, <1>2, <1>3, <1>4 DEF InTime
<1> QED BY <1>5 DEF MovesInTime

LEMMA JobInTime ==
  ASSUME TypeInv, NEW w \in Workers, StopInv(w), NEW j \in jobs[w], JobStep(w, j)
  PROVE  MovesInTime(w, j)
<1>0. j \in Job /\ now \in Nat /\ WriteUntil(w) \in Nat /\ now <= WriteUntil(w)
  BY ProcessTyped, WriteInTime
<1>1. ASSUME ToAbandon(w, j) PROVE MovesInTime(w, j)
  <2> DEFINE next == [j EXCEPT !.phase = "abandon", !.until = WriteUntil(w)]
  <2>1. next \in Job /\ next.phase # "load" /\ next.until = WriteUntil(w)
    BY <1>0 DEF Job, JobPhases
  <2>2. SetJob(w, j, next)
    BY <1>1 DEF ToAbandon
  <2> HIDE DEF next
  <2> QED BY <1>0, <2>1, <2>2, WriteMoves
<1>2. CASE LoadSucceeds(w, j)
  <2> DEFINE next == [j EXCEPT !.phase = "probe", !.until = now + PROBE_MAX,
                               !.attempt_id = now]
  <2>1. SetJob(w, j, next) /\ j.phase = "load"
    BY <1>2 DEF LoadSucceeds
  <2>2. next.phase # "load" /\ next.until = now + PROBE_MAX
    BY <1>0 DEF Job
  <2>3. now + PROBE_MAX <= now + GRACE /\ now + PROBE_MAX \in Nat /\ now <= now + PROBE_MAX
    BY <1>0, ConfigAssumption, ConstantsTyped
  <2>4. proc[w].state \in Ending => now + PROBE_MAX <= proc[w].drainUntil
    <3> SUFFICES ASSUME proc[w].state \in Ending
                 PROVE  now + PROBE_MAX <= proc[w].drainUntil
      OBVIOUS
    <3>1. j.until + PROBE_MAX <= proc[w].drainUntil /\ proc[w].drainUntil \in Nat
          /\ now <= j.until
      BY <2>1 DEF StopInv, DrainBounds, TimersAhead, Left
    <3> QED BY <1>0, <3>1, ProcessTyped, ConstantsTyped
  <2>5. InTime(w, next)
    BY <2>2, <2>3, <2>4 DEF InTime
  <2> QED BY <2>1, <2>5 DEF MovesInTime
<1>3. CASE LoadFails(w, j) \/ LoadErrors(w, j) \/ ProbeThrows(w, j)
  BY <1>1, <1>3 DEF LoadFails, LoadErrors, ProbeThrows
<1>4. CASE ProbeEnds(w, j)
  <2> DEFINE next == [j EXCEPT !.phase = "insert", !.attempt = 1, !.until = WriteUntil(w)]
  <2>1. next \in Job /\ next.phase # "load" /\ next.until = WriteUntil(w)
    BY <1>0 DEF Job, JobPhases
  <2>2. SetJob(w, j, next)
    BY <1>4 DEF ProbeEnds
  <2> HIDE DEF next
  <2> QED BY <1>0, <2>1, <2>2, WriteMoves
<1>5. CASE InsertRuns(w, j)
  <2> DEFINE next == [j EXCEPT !.phase = "release", !.until = WriteUntil(w)]
  <2>1. next \in Job /\ next.phase # "load" /\ next.until = WriteUntil(w)
    BY <1>0 DEF Job, JobPhases
  <2>2. SetJob(w, j, next)
    BY <1>5 DEF InsertRuns
  <2> HIDE DEF next
  <2> QED BY <1>0, <2>1, <2>2, WriteMoves
<1>6. ASSUME AfterWriteError(w, j) PROVE MovesInTime(w, j)
  <2> DEFINE until == Least(now + BACKOFF * j.attempt, WriteUntil(w))
             next == [j EXCEPT !.phase = "backoff", !.until = until]
  <2>1. BACKOFF * j.attempt \in Nat
    BY <1>0, ConstantsTyped DEF Job
  <2>2. until \in Nat /\ now <= until /\ until <= WriteUntil(w)
    BY <1>0, <2>1 DEF Least
  <2>3. Settle(w, j) \/ SetJob(w, j, next)
    BY <1>6 DEF AfterWriteError
  <2> HIDE DEF until
  <2>4. next \in Job /\ next.phase # "load" /\ next.until = until
    BY <1>0, <2>2 DEF Job, JobPhases
  <2> HIDE DEF next
  <2>5. CASE SetJob(w, j, next)
    BY <2>2, <2>4, <2>5, WriteMoves
  <2> QED BY <2>3, <2>5 DEF MovesInTime
<1>7. CASE ReleaseCommits(w, j) \/ WriteFails(w, j)
  BY <1>6, <1>7 DEF ReleaseCommits, WriteFails, MovesInTime
<1>8. CASE RetryWrite(w, j)
  <2> DEFINE next == [j EXCEPT !.phase = "insert", !.attempt = j.attempt + 1,
                               !.until = WriteUntil(w)]
  <2>1. j.attempt + 1 \in Nat
    BY <1>0 DEF Job
  <2>2. next \in Job /\ next.phase # "load" /\ next.until = WriteUntil(w)
    BY <1>0, <2>1 DEF Job, JobPhases
  <2>3. Settle(w, j) \/ SetJob(w, j, next)
    BY <1>8 DEF RetryWrite
  <2> HIDE DEF next
  <2>4. CASE SetJob(w, j, next)
    BY <1>0, <2>2, <2>4, WriteMoves
  <2> QED BY <2>3, <2>4 DEF MovesInTime
<1>9. CASE AbandonCommits(w, j) \/ AbandonFails(w, j)
  BY <1>9 DEF AbandonCommits, AbandonFails, MovesInTime
<1> QED BY <1>2, <1>3, <1>4, <1>5, <1>7, <1>8, <1>9 DEF JobStep

-----------------------------------------------------------------------------
(* Each kind of step keeps the invariant.                                   *)

LEMMA UntouchedStays ==
  ASSUME NEW w \in Workers, StopInv(w),
         now' = now, proc'[w] = proc[w], tick'[w] = tick[w], jobs'[w] = jobs[w]
  PROVE  StopInv(w)'
BY DEF StopInv, DownHoldsNothing, DeadlineInGrace, TimersAhead, DrainBounds, Left

(* A tick in flight belongs to a worker that is up and not draining yet.    *)
LEMMA TickingServes ==
  ASSUME TypeInv, NEW w \in Workers, StopInv(w), TickStep(w)
  PROVE  proc[w].state \in Serving
<1>1. CASE Adopt(w)
  BY <1>1 DEF Adopt, Serving
<1>2. CASE ~Adopt(w)
  <2>1. tick[w].phase # "idle"
    BY <1>2 DEF TickStep, Reconcile, Claim, ClaimFails, Dispatch
  <2>2. tick[w] # NoTick
    BY <2>1 DEF NoTick
  <2> QED BY <2>2, ProcessTyped DEF StopInv, DownHoldsNothing, DrainBounds
<1> QED BY <1>1, <1>2

(* What a tick does to its own worker: its process stays, and its pool is   *)
(* left alone or given the claimed slots to load.                           *)
LEMMA TickKeepsPool ==
  ASSUME TypeInv, NEW w \in Workers, TickStep(w)
  PROVE  /\ UNCHANGED <<now, proc>>
         /\ tick'[w].phase = "idle" => tick'[w] = NoTick
         /\ \A j \in jobs'[w] :
              j \in jobs[w] \/ (j.phase = "load" /\ j.until = now + LOAD_BUDGET)
<1>0. tick \in [Workers -> TickState] /\ jobs \in [Workers -> SUBSET Job]
  BY DEF TypeInv, TypeOK
<1>1. CASE Adopt(w)
  BY <1>0, <1>1 DEF Adopt, TickState
<1>2. CASE Reconcile(w)
  BY <1>0, <1>2 DEF Reconcile, SendClaim, NoTick
<1>3. CASE Claim(w)
  <2>1. \/ tick'[w] = NoTick
        \/ tick'[w].phase = "dispatch"
    BY <1>0, <1>3 DEF Claim, NoTick
  <2> QED BY <1>3, <2>1 DEF Claim
<1>4. CASE ClaimFails(w)
  BY <1>0, <1>4 DEF ClaimFails, tables
<1>5. CASE Dispatch(w)
  BY <1>0, <1>5 DEF Dispatch, tables
<1> QED BY <1>1, <1>2, <1>3, <1>4, <1>5 DEF TickStep

LEMMA StopTickStep ==
  ASSUME TypeInv, NEW w \in Workers, StopInv(w), TickStep(w)
  PROVE  StopInv(w)'
<1>1. proc[w].state \in Serving /\ UNCHANGED <<now, proc>>
  BY TickingServes, TickKeepsPool
<1>2. DownHoldsNothing(w)' /\ DeadlineInGrace(w)' /\ DrainBounds(w)'
  BY <1>1 DEF StopInv, DownHoldsNothing, DeadlineInGrace, DrainBounds, Serving, Ending
<1>3. TimersAhead(w)'
  <2> SUFFICES ASSUME NEW j \in jobs'[w]
               PROVE  now <= j.until /\ Left(j) <= now + GRACE
    BY <1>1 DEF TimersAhead, Left
  <2>1. CASE j \in jobs[w]
    BY <1>1, <2>1 DEF StopInv, TimersAhead
  <2>2. CASE j.phase = "load" /\ j.until = now + LOAD_BUDGET
    BY <2>2, ProcessTyped, ConfigAssumption, ConstantsTyped DEF Left
  <2> QED BY <2>1, <2>2, TickKeepsPool
<1> QED BY <1>2, <1>3, TickKeepsPool DEF StopInv

LEMMA StopJobStep ==
  ASSUME TypeInv, NEW w \in Workers, StopInv(w), NEW j \in jobs[w], JobStep(w, j)
  PROVE  StopInv(w)'
<1>0. UNCHANGED <<now, proc, tick>> /\ jobs \in [Workers -> SUBSET Job]
  BY JobWrites DEF TypeInv, TypeOK
<1>1. \A k \in jobs'[w] : k \in jobs[w] \/ InTime(w, k)
  BY <1>0, JobInTime DEF MovesInTime, Settle, SetJob
<1>2. \A k \in jobs'[w] : InTime(w, k) => Left(k) = k.until
  BY DEF InTime, Left
<1>3. proc[w].state \in Serving \cup Ending
  BY WriteInTime
<1>4. TimersAhead(w)'
  BY <1>0, <1>1, <1>2 DEF StopInv, TimersAhead, InTime, Left
<1>5. DrainBounds(w)'
  BY <1>0, <1>1, <1>2 DEF StopInv, DrainBounds, InTime, Left
<1> QED BY <1>0, <1>3, <1>4, <1>5
        DEF StopInv, DownHoldsNothing, DeadlineInGrace, Serving, Ending

LEMMA StopProcStep ==
  ASSUME TypeInv, NEW w \in Workers, StopInv(w), ProcStep(w)
  PROVE  StopInv(w)'
<1>0. /\ proc \in [Workers -> Process] /\ tick \in [Workers -> TickState]
      /\ jobs \in [Workers -> SUBSET Job] /\ now \in Nat /\ now + GRACE \in Nat
  BY ConstantsTyped DEF TypeInv, TypeOK
<1>1. CASE Exit(w) \/ Crash(w)
  <2>1. proc'[w] = NoProcess /\ tick'[w] = NoTick /\ jobs'[w] = {}
    BY <1>0, <1>1 DEF Exit, Crash, Gone
  <2> QED BY <2>1 DEF StopInv, DownHoldsNothing, DeadlineInGrace, TimersAhead, DrainBounds,
                      NoProcess, Serving, Ending
<1>2. CASE Start(w)
  <2>1. /\ proc'[w].state = "running" /\ proc'[w].deadline = NULL
        /\ tick'[w] = NoTick /\ jobs'[w] = {}
    BY <1>0, <1>2 DEF Start, StopInv, DownHoldsNothing, NoProcess
  <2> QED BY <2>1 DEF StopInv, DownHoldsNothing, DeadlineInGrace, TimersAhead, DrainBounds,
                      Ending
<1>3. CASE Stop(w)
  <2>1. /\ proc'[w].state = "stopping" /\ proc'[w].deadline = now + GRACE
        /\ proc[w].state \in Serving
        /\ UNCHANGED <<now, tick, jobs>>
    BY <1>0, <1>3 DEF Stop, Serving
  <2> QED BY <1>0, <2>1
          DEF StopInv, DownHoldsNothing, DeadlineInGrace, TimersAhead, DrainBounds,
              Serving, Ending, Left
<1>4. CASE DrainStarts(w)
  <2>1. /\ proc'[w].state = "draining" /\ proc'[w].deadline = proc[w].deadline
        /\ proc'[w].drainUntil = now + GRACE
        /\ proc[w].state = "stopping" /\ tick[w] = NoTick
        /\ UNCHANGED <<now, tick, jobs>>
    BY <1>0, <1>4 DEF DrainStarts, StopInv
  <2>2. proc[w].deadline \in Nat /\ proc[w].deadline <= now + GRACE
    BY <2>1 DEF StopInv, DeadlineInGrace
  <2>3. \A j \in jobs[w] : now <= j.until /\ Left(j) <= now + GRACE
    BY <2>1 DEF StopInv, TimersAhead, Serving
  <2>4. now <= now + GRACE
    BY <1>0, ConstantsTyped
  <2>5. TimersAhead(w)' /\ DrainBounds(w)'
    BY <1>0, <2>1, <2>2, <2>3, <2>4 DEF TimersAhead, DrainBounds, Serving, Left
  <2> QED BY <2>1, <2>5 DEF StopInv, DownHoldsNothing, DeadlineInGrace
<1>5. CASE DrainEnds(w)
  <2>1. /\ proc'[w].state = "drained" /\ proc'[w].deadline = proc[w].deadline
        /\ proc'[w].drainUntil = proc[w].drainUntil
        /\ proc[w].state = "draining"
        /\ jobs[w] = {} \/ now = proc[w].drainUntil
        /\ UNCHANGED <<now, tick, jobs>>
    BY <1>0, <1>5 DEF DrainEnds, Process
  <2>2. TimersAhead(w)' /\ DrainBounds(w)'
    BY <1>0, <2>1 DEF StopInv, TimersAhead, DrainBounds, Serving, Ending, Left
  <2> QED BY <2>1, <2>2 DEF StopInv, DownHoldsNothing, DeadlineInGrace
<1> QED BY <1>1, <1>2, <1>3, <1>4, <1>5 DEF ProcStep

LEMMA StopClock ==
  ASSUME TypeInv, NEW w \in Workers, StopInv(w), Tick
  PROVE  StopInv(w)'
<1>0. /\ now' = now + 1 /\ UNCHANGED <<proc, tick, jobs>> /\ now \in Nat
      /\ \A j \in jobs[w] : now < j.until
      /\ proc[w].state = "draining" => now < proc[w].drainUntil
  BY DEF Tick, TypeInv, TypeOK
<1>1. ASSUME NEW t \in Nat PROVE t <= now + GRACE => t <= now' + GRACE
  BY <1>0, <1>1, ConstantsTyped
<1>2. ASSUME NEW t \in Nat PROVE now < t => now' <= t
  BY <1>0, <1>2
<1>3. ASSUME NEW t \in Nat PROVE now' < t => now < t
  BY <1>0, <1>3
<1>4. DeadlineInGrace(w)'
  BY <1>0, <1>1 DEF StopInv, DeadlineInGrace
<1>5. TimersAhead(w)'
  <2>1. \A j \in jobs[w] : j.until \in Nat /\ Left(j) \in Nat
    BY ProcessTyped
  <2>2. \A j \in jobs[w] : proc[w].state \in Serving => Left(j) <= now + GRACE
    BY DEF StopInv, TimersAhead
  <2> QED BY <1>0, <1>1, <1>2, <2>1, <2>2 DEF TimersAhead, Left
<1>6. DrainBounds(w)'
  BY <1>0, <1>2, <1>3 DEF StopInv, DrainBounds, Left
<1> QED BY <1>0, <1>4, <1>5, <1>6 DEF StopInv, DownHoldsNothing

(* A step of one worker leaves the others, and their processes, alone.      *)
LEMMA OthersUntouched ==
  ASSUME TypeInv, NEW w \in Workers, WorkerStep(w)
  PROVE  /\ now' = now
         /\ \A v \in Workers \ {w} :
              proc'[v] = proc[v] /\ tick'[v] = tick[v] /\ jobs'[v] = jobs[v]
<1>0. proc \in [Workers -> Process]
  BY DEF TypeInv, TypeOK
<1>1. CASE TickStep(w)
  BY <1>1, TickKeepsPool, StepOfOneWorker
<1>2. ASSUME NEW j \in jobs[w], JobStep(w, j) PROVE UNCHANGED <<now, proc>>
  BY <1>2, JobWrites
<1>3. CASE ProcStep(w)
  <2>1. now' = now /\ \A v \in Workers \ {w} : proc'[v] = proc[v]
    BY <1>0, <1>3 DEF ProcStep, Start, Stop, DrainStarts, DrainEnds, Exit, Crash, Gone
  <2> QED BY <2>1, StepOfOneWorker
<1> QED BY <1>1, <1>2, <1>3, StepOfOneWorker DEF WorkerStep

LEMMA StopStep ==
  ASSUME TypeInv, StopsInv, [Next]_vars
  PROVE  StopsInv'
<1> USE DEF StopsInv
<1>1. ASSUME NEW w \in Workers, WorkerStep(w) PROVE StopsInv'
  <2>1. StopInv(w)'
    BY <1>1, StopTickStep, StopJobStep, StopProcStep DEF WorkerStep
  <2>2. ASSUME NEW v \in Workers \ {w} PROVE StopInv(v)'
    BY <1>1, <2>2, OthersUntouched, UntouchedStays
  <2> QED BY <2>1, <2>2
<1>2. ASSUME NEW e \in Endpoints, ApiStep(e) PROVE StopsInv'
  BY <1>2, UntouchedStays DEF ApiStep, CreateEndpoint, UpdateEndpoint, DeleteEndpoint
<1>3. CASE Tick
  BY <1>3, StopClock
<1>4. CASE UNCHANGED vars
  BY <1>4, UntouchedStays DEF vars
<1> QED BY <1>1, <1>2, <1>3, <1>4 DEF Next, WorkerStep

LEMMA StopInit == Init => StopsInv
<1> SUFFICES ASSUME Init, NEW w \in Workers PROVE StopInv(w)
  BY DEF StopsInv
<1>1. proc[w] = NoProcess /\ tick[w] = NoTick /\ jobs[w] = {}
  BY DEF Init
<1> QED BY <1>1 DEF StopInv, DownHoldsNothing, DeadlineInGrace, TimersAhead, DrainBounds,
                    NoProcess, Serving, Ending

(* When main.ts closes the database pool after scheduler.stop, nothing of   *)
(* the scheduler still needs it: no tick is waiting for a reply, no slot is *)
(* running if the drain ended before its grace, and none writes after it.   *)
THEOREM StopIsComplete == Spec => []StopComplete
<1>1. StopsInv /\ TypeInv /\ [Next]_vars => StopsInv'
  BY StopStep
<1>2. StopsInv /\ TypeInv => StopComplete
  <2> SUFFICES ASSUME StopsInv, TypeInv, NEW w \in Workers, proc[w].state = "drained"
               PROVE  /\ tick[w] = NoTick
                      /\ now < proc[w].drainUntil => jobs[w] = {}
                      /\ now > proc[w].drainUntil => jobs[w] = {}
    BY DEF StopComplete, DrainCoversAllWork, QuietAfterGrace
  <2>1. StopInv(w)
    BY DEF StopsInv
  <2>2. ASSUME NEW j \in jobs[w] PROVE ~(now > proc[w].drainUntil)
    <3>1. now <= j.until /\ Left(j) <= proc[w].drainUntil /\ proc[w].drainUntil \in Nat
      BY <2>1, <2>2 DEF StopInv, TimersAhead, DrainBounds, Ending
    <3> QED BY <3>1, ProcessTyped
  <2> QED BY <2>1, <2>2 DEF StopInv, DrainBounds, Ending
<1> QED BY <1>1, <1>2, StopInit, TypeInvariance, PTL DEF Spec
-----------------------------------------------------------------------------
(* The two promises that relate a state to its successor.                   *)

ClaimsNothing(w) ==
  proc[w].state # "running" /\ tick[w].phase # "claim" => tick'[w].phase # "claim"

LEMMA TickSendsNoClaim ==
  ASSUME TypeInv, NEW w \in Workers, WorkerStep(w)
  PROVE  ClaimsNothing(w)
<1>0. tick \in [Workers -> TickState]
  BY DEF TypeInv, TypeOK
<1>1. CASE Adopt(w) \/ Claim(w) \/ ClaimFails(w)
  BY <1>1 DEF Adopt, Claim, ClaimFails, ClaimsNothing
<1>2. CASE Reconcile(w)
  BY <1>0, <1>2 DEF Reconcile, SendClaim, NoTick, ClaimsNothing
<1>3. CASE Dispatch(w)
  BY <1>0, <1>3 DEF Dispatch, NoTick, ClaimsNothing
<1>4. CASE ProcStep(w)
  BY <1>0, <1>4 DEF ProcStep, Start, Stop, DrainStarts, DrainEnds, Exit, Crash, Gone, NoTick,
                    ClaimsNothing
<1>5. ASSUME NEW j \in jobs[w], JobStep(w, j) PROVE ClaimsNothing(w)
  BY <1>5, JobWrites DEF ClaimsNothing
<1> QED BY <1>1, <1>2, <1>3, <1>4, <1>5 DEF WorkerStep, TickStep

(* Once a stop has begun, the tick in flight ends without a claim: runTick  *)
(* reads stopping again after every statement it waited for.                *)
THEOREM StopSendsNoClaim == Spec => NoClaimAfterStop
<1> DEFINE NoClaim == \A w \in Workers : ClaimsNothing(w)
<1>1. ASSUME TypeInv, [Next]_vars PROVE NoClaim
  <2>1. ASSUME NEW w \in Workers, WorkerStep(w) PROVE NoClaim
    BY <1>1, <2>1, TickSendsNoClaim, OthersUntouched DEF ClaimsNothing
  <2>2. ASSUME UNCHANGED tick PROVE NoClaim
    BY <2>2 DEF ClaimsNothing
  <2> QED BY <1>1, <2>1, <2>2
          DEF Next, WorkerStep, ApiStep, CreateEndpoint, UpdateEndpoint, DeleteEndpoint,
              Tick, vars
<1>2. TypeInv /\ [Next]_vars =>
        [\A w \in Workers : proc[w].state # "running" /\ tick[w].phase # "claim" =>
           tick'[w].phase # "claim"]_vars
  BY <1>1 DEF ClaimsNothing
<1> QED BY <1>2, TypeInvariance, PTL DEF Spec, NoClaimAfterStop

Observation(e) ==
  \E r \in results' : r.endpoint = e /\ r.scheduled_at = runtime[e].scheduled_at
                      /\ r.worker_id = runtime[e].leased_by

ObservationStored(e) ==
  runtime[e] # NULL /\ runtime'[e] # NULL
  /\ runtime'[e].last_probe_at # runtime[e].last_probe_at => Observation(e)

(* Adoption writes no row that is there; the claim and reconciliation leave *)
(* last_probe_at as it is.                                                  *)
LEMMA TickObservesNothing ==
  ASSUME TypeInv, NEW w \in Workers, TickStep(w), NEW e \in Endpoints
  PROVE  ObservationStored(e)
<1>0. runtime[e] # NULL => runtime[e] \in RuntimeRow
  BY DEF TypeInv, TypeOK
<1>1. CASE Adopt(w)
  <2>1. runtime[e] # NULL => runtime'[e] = runtime[e]
    BY <1>1 DEF Adopt, NeedsRow
  <2> QED BY <2>1 DEF ObservationStored
<1>2. CASE Reconcile(w)
  <2>1. \/ runtime'[e] = runtime[e]
        \/ runtime'[e] = [runtime[e] EXCEPT
             !.next_run_at = runtime[e].scheduled_at + endpoints[e].interval_s,
             !.scheduled_interval_s = endpoints[e].interval_s]
    BY <1>2 DEF Reconcile
  <2> QED BY <1>0, <2>1 DEF ObservationStored, RuntimeRow
<1>3. CASE Claim(w)
  <2>1. PICK batch \in SUBSET {f \in Endpoints : Due(f)} : ClaimRows(w, batch)
    BY <1>3 DEF Claim
  <2>2. \/ runtime'[e] = runtime[e]
        \/ runtime'[e] = [runtime[e] EXCEPT
             !.scheduled_at = runtime[e].next_run_at,
             !.next_run_at = NextSlot(runtime[e].next_run_at, endpoints[e].interval_s),
             !.scheduled_interval_s = endpoints[e].interval_s,
             !.leased_until = now + LEASE,
             !.leased_by = w]
    BY <2>1 DEF ClaimRows
  <2> QED BY <1>0, <2>2 DEF ObservationStored, RuntimeRow
<1>4. CASE ClaimFails(w) \/ Dispatch(w)
  BY <1>4 DEF ClaimFails, Dispatch, tables, ObservationStored
<1> QED BY <1>1, <1>2, <1>3, <1>4 DEF TickStep

LEMMA JobStoresObservation ==
  ASSUME TypeInv, NEW w \in Workers, NEW j \in jobs[w], JobStep(w, j), NEW e \in Endpoints
  PROVE  ObservationStored(e)
<1>0. runtime \in [Endpoints -> RuntimeRow \cup {NULL}]
  BY DEF TypeInv, TypeOK
<1>1. CASE ReleaseCommits(w, j)
  <2>1. CASE FenceHolds(w, j) /\ e = j.endpoint
    <3> DEFINE r == [endpoint |-> j.endpoint, scheduled_at |-> j.scheduled_at,
                     worker_id |-> w, attempt_id |-> j.attempt_id]
    <3>1. r \in results'
      BY <1>1 DEF ReleaseCommits, WriteCommits
    <3>2. r.endpoint = e /\ r.scheduled_at = runtime[e].scheduled_at
          /\ r.worker_id = runtime[e].leased_by
      BY <2>1 DEF FenceHolds
    <3> QED BY <3>1, <3>2 DEF ObservationStored, Observation
  <2>2. CASE ~(FenceHolds(w, j) /\ e = j.endpoint)
    <3>1. runtime'[e] = runtime[e]
      BY <1>0, <1>1, <2>2 DEF ReleaseCommits, WriteCommits, ClearLease
    <3> QED BY <3>1 DEF ObservationStored
  <2> QED BY <2>1, <2>2
<1>2. CASE AbandonCommits(w, j)
  <2>1. \/ runtime'[e] = runtime[e]
        \/ runtime'[e] = [runtime[e] EXCEPT !.leased_until = NULL, !.leased_by = NULL,
                                            !.last_probe_at = runtime[e].last_probe_at]
    BY <1>0, <1>2 DEF AbandonCommits, ClearLease
  <2>2. runtime[e] # NULL => runtime[e] \in RuntimeRow
    BY <1>0
  <2> QED BY <2>1, <2>2 DEF ObservationStored, RuntimeRow
<1>3. CASE ~ReleaseCommits(w, j) /\ ~AbandonCommits(w, j)
  <2>1. UNCHANGED runtime
    BY <1>3 DEF JobStep, LoadSucceeds, LoadFails, LoadErrors, ProbeEnds, ProbeThrows,
                InsertRuns, WriteFails, RetryWrite, AbandonFails, tables
  <2> QED BY <2>1 DEF ObservationStored
<1> QED BY <1>1, <1>2, <1>3

(* A row's last_probe_at moves only together with the stored result of the  *)
(* row's own slot: abandon, which saw no response, leaves it where it was.  *)
THEOREM ObservationsBacked == Spec => ObservedOnlyWithResult
<1> DEFINE Backed == \A e \in Endpoints : ObservationStored(e)
<1>1. ASSUME TypeInv, [Next]_vars PROVE Backed
  <2>0. runtime \in [Endpoints -> RuntimeRow \cup {NULL}]
    BY <1>1 DEF TypeInv, TypeOK
  <2>1. ASSUME \A e \in Endpoints : runtime'[e] = runtime[e] \/ runtime'[e] = NULL
        PROVE  Backed
    BY <2>1 DEF ObservationStored
  <2>2. ASSUME NEW w \in Workers, TickStep(w) \/ \E j \in jobs[w] : JobStep(w, j)
        PROVE  Backed
    BY <1>1, <2>2, TickObservesNothing, JobStoresObservation
  <2>3. ASSUME NEW f \in Endpoints, ApiStep(f) PROVE Backed
    BY <2>0, <2>1, <2>3 DEF ApiStep, CreateEndpoint, UpdateEndpoint, DeleteEndpoint
  <2>4. ASSUME NEW w \in Workers, ProcStep(w) PROVE Backed
    BY <2>1, <2>4 DEF ProcStep, Start, Stop, DrainStarts, DrainEnds, Exit, Crash, tables
  <2>5. CASE Tick \/ UNCHANGED vars
    BY <2>1, <2>5 DEF Tick, tables, vars
  <2> QED BY <1>1, <2>2, <2>3, <2>4, <2>5 DEF Next
<1>2. TypeInv /\ [Next]_vars =>
        [\A e \in Endpoints :
           runtime[e] # NULL /\ runtime'[e] # NULL
           /\ runtime'[e].last_probe_at # runtime[e].last_probe_at =>
             \E r \in results' : r.endpoint = e /\ r.scheduled_at = runtime[e].scheduled_at
                                 /\ r.worker_id = runtime[e].leased_by]_vars
  BY <1>1 DEF ObservationStored, Observation
<1> QED BY <1>2, TypeInvariance, PTL DEF Spec, ObservedOnlyWithResult


-----------------------------------------------------------------------------
(* The lease.                                                               *)
-----------------------------------------------------------------------------
(* The inductive invariant.  A slot is in hand as a row of a claim's reply  *)
(* or as a job; every one is in the log under its worker's name, no slot is *)
(* in hand twice, and what the lease owes each one is written out.          *)

SameSlot(a, b) == a.endpoint = b.endpoint /\ a.scheduled_at = b.scheduled_at

Logged(w, s) ==
  \E c \in claimLog : SameSlot(c, s) /\ c.worker_id = w

HandsLogged ==
  \A w \in Workers :
    /\ \A j \in jobs[w] : Logged(w, j)
    /\ \A s \in tick[w].rows : Logged(w, s)

HandsDistinct ==
  \A w, v \in Workers :
    /\ \A j \in jobs[w], k \in jobs[v] : SameSlot(j, k) => w = v /\ j = k
    /\ \A j \in jobs[w], s \in tick[v].rows : ~SameSlot(j, s)
    /\ \A s \in tick[w].rows, t \in tick[v].rows : SameSlot(s, t) => w = v

(* The time a slot may still take before its write.                         *)
Needs(j) == j.until + (IF j.phase = "load" THEN PROBE_MAX ELSE 0)

JobLeased(w, j) ==
  /\ now <= j.until
  /\ Probing(j) /\ runtime[j.endpoint] # NULL =>
       /\ FenceHolds(w, j)
       /\ runtime[j.endpoint].leased_until \in Nat
       /\ Needs(j) <= runtime[j.endpoint].leased_until

RowLeased(w, s) ==
  /\ now <= tick[w].claimedAt + LEASE_SLACK
  /\ runtime[s.endpoint] # NULL =>
       /\ FenceHolds(w, s)
       /\ runtime[s.endpoint].leased_until = tick[w].claimedAt + LEASE

HandsLeased ==
  \A w \in Workers :
    /\ \A j \in jobs[w] : JobLeased(w, j)
    /\ \A s \in tick[w].rows : RowLeased(w, s)

(* Of the slots in hand whose probe is not over, one per endpoint.          *)
OneProber ==
  \A w, v \in Workers :
    /\ \A j \in jobs[w], k \in jobs[v] :
         Probing(j) /\ Probing(k) /\ j.endpoint = k.endpoint => w = v /\ j = k
    /\ \A j \in jobs[w], s \in tick[v].rows : Probing(j) => j.endpoint # s.endpoint
    /\ \A s \in tick[w].rows, t \in tick[v].rows :
         s.endpoint = t.endpoint => w = v /\ s = t

LeaseInv == HandsLogged /\ HandsDistinct /\ HandsLeased /\ OneProber

-----------------------------------------------------------------------------
(* The steps, as far as hands are concerned.                                *)

(* A step that adds no slot to any hand, takes no time and writes no claim. *)
Quiet ==
  /\ UNCHANGED <<now, claimLog>>
  /\ \A w \in Workers :
       /\ jobs'[w] \subseteq jobs[w]
       /\ tick'[w].rows \subseteq tick[w].rows
       /\ tick'[w].rows # {} => tick'[w].claimedAt = tick[w].claimedAt
  /\ \A e \in Endpoints :
       runtime'[e] = runtime[e] \/ runtime'[e] = NULL \/ RowCreated(e) \/ RowReconciled(e)

LEMMA StepKinds ==
  ASSUME TypeInv, [Next]_vars
  PROVE  \/ Quiet \/ Tick
         \/ \E w \in Workers : Claim(w) \/ Dispatch(w) \/ \E j \in jobs[w] : JobStep(w, j)
<1>0. jobs \in [Workers -> SUBSET Job] /\ tick \in [Workers -> TickState]
      /\ runtime \in [Endpoints -> RuntimeRow \cup {NULL}]
  BY DEF TypeInv, TypeOK
<1>1. ASSUME UNCHANGED <<now, claimLog, runtime, tick, jobs>> PROVE Quiet
  BY <1>1 DEF Quiet
<1>2. ASSUME NEW e \in Endpoints, ApiStep(e) PROVE Quiet
  <2>1. \A f \in Endpoints : runtime'[f] = runtime[f] \/ runtime'[f] = NULL
    BY <1>0, <1>2 DEF ApiStep, CreateEndpoint, UpdateEndpoint, DeleteEndpoint
  <2> QED BY <1>2, <2>1
          DEF ApiStep, CreateEndpoint, UpdateEndpoint, DeleteEndpoint, Quiet
<1>3. ASSUME NEW w \in Workers, Adopt(w) PROVE Quiet
  <2>1. \A v \in Workers : tick'[v].rows = tick[v].rows /\ tick'[v].claimedAt = tick[v].claimedAt
    BY <1>0, <1>3 DEF Adopt, TickState
  <2> QED BY <1>3, <2>1, AdoptRows DEF Adopt, Quiet
<1>4. ASSUME NEW w \in Workers, Reconcile(w) PROVE Quiet
  <2>1. tick'[w].rows = {} /\ \A v \in Workers \ {w} : tick'[v] = tick[v]
    BY <1>0, <1>4 DEF Reconcile, SendClaim, NoTick
  <2> QED BY <1>4, <2>1, ReconcileRows DEF Reconcile, Quiet
<1>5. ASSUME NEW w \in Workers, ClaimFails(w) PROVE Quiet
  <2>1. tick'[w].rows = {} /\ \A v \in Workers \ {w} : tick'[v] = tick[v]
    BY <1>0, <1>5 DEF ClaimFails, NoTick
  <2> QED BY <1>5, <2>1 DEF ClaimFails, tables, Quiet
<1>6. ASSUME NEW w \in Workers, Exit(w) \/ Crash(w) PROVE Quiet
  <2>1. tick'[w].rows = {} /\ jobs'[w] = {}
        /\ \A v \in Workers \ {w} : tick'[v] = tick[v] /\ jobs'[v] = jobs[v]
    BY <1>0, <1>6 DEF Exit, Crash, Gone, NoTick
  <2> QED BY <1>6, <2>1 DEF Exit, Crash, tables, Quiet
<1>7. ASSUME NEW w \in Workers, Start(w) \/ Stop(w) \/ DrainStarts(w) \/ DrainEnds(w)
      PROVE  Quiet
  BY <1>1, <1>7 DEF Start, Stop, DrainStarts, DrainEnds, tables
<1>8. CASE UNCHANGED vars
  BY <1>1, <1>8 DEF vars
<1> QED BY <1>2, <1>3, <1>4, <1>5, <1>6, <1>7, <1>8 DEF Next, TickStep, ProcStep

(* What a claim puts into a hand.                                           *)
ClaimedHands(w, batch) ==
  /\ batch \in SUBSET {e \in Endpoints : Due(e)}
  /\ ClaimRows(w, batch)
  /\ UNCHANGED <<now, endpoints, jobs>>
  /\ \A v \in Workers \ {w} : tick'[v] = tick[v]
  /\ \A s \in tick'[w].rows :
       /\ s \in Slot /\ s.endpoint \in batch
       /\ s.scheduled_at = runtime[s.endpoint].next_run_at
       /\ tick'[w].claimedAt = now

LEMMA ClaimHands ==
  ASSUME TypeInv, NEW w \in Workers, Claim(w)
  PROVE  \E batch : ClaimedHands(w, batch)
<1>0. tick \in [Workers -> TickState]
  BY DEF TypeInv, TypeOK
<1>1. PICK batch \in SUBSET {e \in Endpoints : Due(e)} :
        /\ ClaimRows(w, batch)
        /\ \/ tick' = [tick EXCEPT ![w] =
                   [NoTick EXCEPT
                      !.phase = "dispatch",
                      !.rows = {[endpoint |-> e,
                                 scheduled_at |-> runtime[e].next_run_at] : e \in batch},
                      !.claimedAt = now]]
           \/ tick' = [tick EXCEPT ![w] = NoTick]
  BY DEF Claim
<1> DEFINE rows == {[endpoint |-> e, scheduled_at |-> runtime[e].next_run_at] : e \in batch}
<1>2. \A s \in rows : s \in Slot /\ s.endpoint \in batch
                      /\ s.scheduled_at = runtime[s.endpoint].next_run_at
  BY DueRow DEF Slot, TypeInv
<1>3. (tick'[w].rows = rows /\ tick'[w].claimedAt = now) \/ tick'[w].rows = {}
  <2>1. \/ tick' = [tick EXCEPT ![w] = [NoTick EXCEPT !.phase = "dispatch", !.rows = rows,
                                                     !.claimedAt = now]]
        \/ tick' = [tick EXCEPT ![w] = NoTick]
    BY <1>1
  <2> HIDE DEF rows
  <2>2. ASSUME tick' = [tick EXCEPT ![w] = [NoTick EXCEPT !.phase = "dispatch", !.rows = rows,
                                                      !.claimedAt = now]]
        PROVE  tick'[w].rows = rows /\ tick'[w].claimedAt = now
    BY <1>0, <2>2 DEF NoTick
  <2>3. ASSUME tick' = [tick EXCEPT ![w] = NoTick]
        PROVE  tick'[w].rows = {}
    BY <1>0, <2>3 DEF NoTick
  <2> QED BY <2>1, <2>2, <2>3
<1>4. UNCHANGED <<now, endpoints, jobs>> /\ \A v \in Workers \ {w} : tick'[v] = tick[v]
  BY ClaimPool DEF Claim
<1> HIDE DEF rows
<1> QED BY <1>1, <1>2, <1>3, <1>4 DEF ClaimedHands

(* What dispatch takes from the reply into the pool.                        *)
Launched(w, s) ==
  [endpoint |-> s.endpoint, scheduled_at |-> s.scheduled_at, phase |-> "load",
   until |-> now + LOAD_BUDGET, attempt |-> 0, attempt_id |-> NULL]

LEMMA DispatchHands ==
  ASSUME TypeInv, NEW w \in Workers, Dispatch(w)
  PROVE  /\ UNCHANGED <<now, endpoints, runtime, claimLog>>
         /\ tick'[w].rows = {}
         /\ \A v \in Workers \ {w} : jobs'[v] = jobs[v] /\ tick'[v] = tick[v]
         /\ \A j \in jobs'[w] : j \in jobs[w] \/ \E s \in tick[w].rows : j = Launched(w, s)
<1>0. jobs \in [Workers -> SUBSET Job]
  BY DEF TypeInv, TypeOK
<1>1. jobs'[w] = jobs[w] \cup {Launched(w, s) : s \in tick[w].rows}
  BY <1>0 DEF Dispatch, Launched
<1>2. UNCHANGED <<now, endpoints, runtime, claimLog>>
  BY DEF Dispatch, tables
<1>3. tick'[w].rows = {}
      /\ \A v \in Workers \ {w} : jobs'[v] = jobs[v] /\ tick'[v] = tick[v]
  BY DispatchPool DEF NoTick
<1>4. \A j \in jobs'[w] : j \in jobs[w] \/ \E s \in tick[w].rows : j = Launched(w, s)
  BY <1>1
<1> QED BY <1>2, <1>3, <1>4

(* What a step of a slot makes of its hand.                                 *)
LEMMA JobHands ==
  ASSUME TypeInv, NEW w \in Workers, NEW j \in jobs[w], JobStep(w, j)
  PROVE  /\ UNCHANGED <<now, endpoints, claimLog, tick>>
         /\ \A v \in Workers \ {w} : jobs'[v] = jobs[v]
         /\ \/ jobs'[w] = jobs[w] \ {j}
            \/ \E next : /\ jobs'[w] = (jobs[w] \ {j}) \cup {next}
                         /\ Continues(j, next)
<1>0. jobs \in [Workers -> SUBSET Job]
  BY DEF TypeInv, TypeOK
<1>1. UNCHANGED <<now, endpoints, claimLog, tick>>
  BY JobWrites
<1>2. CASE Settle(w, j)
  BY <1>0, <1>1, <1>2 DEF Settle
<1>3. ASSUME NEW next, SetJob(w, j, next), Continues(j, next)
      PROVE  /\ \A v \in Workers \ {w} : jobs'[v] = jobs[v]
             /\ jobs'[w] = (jobs[w] \ {j}) \cup {next}
  BY <1>0, <1>3 DEF SetJob
<1> QED BY <1>1, <1>2, <1>3, JobMoves

-----------------------------------------------------------------------------
(* Each part of the invariant is preserved.                                 *)

LEMMA LoggedStays ==
  ASSUME NEW w \in Workers, NEW s, Logged(w, s), claimLog \subseteq claimLog'
  PROVE  Logged(w, s)'
BY DEF Logged

LEMMA LoggedStep ==
  ASSUME TypeInv, SlotOrder, HandsLogged, [Next]_vars
  PROVE  HandsLogged'
<1>0. claimLog \subseteq claimLog'
  BY LogGrowsByClaim
<1>1. \A w \in Workers : /\ \A j \in jobs[w] : Logged(w, j)'
                         /\ \A s \in tick[w].rows : Logged(w, s)'
  BY <1>0, LoggedStays DEF HandsLogged, Logged
<1>2. CASE Quiet \/ Tick
  BY <1>1, <1>2 DEF Quiet, Tick, HandsLogged
<1>3. ASSUME NEW w \in Workers, Claim(w) PROVE HandsLogged'
  <2>1. PICK batch : ClaimedHands(w, batch)
    BY <1>3, ClaimHands
  <2>2. ASSUME NEW s \in tick'[w].rows PROVE Logged(w, s)'
    <3> DEFINE c == [endpoint |-> s.endpoint,
                     scheduled_at |-> runtime[s.endpoint].next_run_at,
                     worker_id |-> w, claimed_at |-> now]
    <3>1. c \in claimLog'
      BY <2>1, <2>2 DEF ClaimedHands, ClaimRows
    <3>2. SameSlot(c, s) /\ c.worker_id = w
      BY <2>1, <2>2 DEF ClaimedHands, SameSlot
    <3> QED BY <3>1, <3>2 DEF Logged
  <2> QED BY <1>1, <2>1, <2>2 DEF ClaimedHands, HandsLogged
<1>4. ASSUME NEW w \in Workers, Dispatch(w) PROVE HandsLogged'
  <2>1. ASSUME NEW s \in tick[w].rows, NEW j, j = Launched(w, s) PROVE Logged(w, j)'
    BY <1>1, <2>1 DEF Launched, Logged, SameSlot
  <2>2. /\ tick'[w].rows = {}
        /\ \A v \in Workers \ {w} : jobs'[v] = jobs[v] /\ tick'[v] = tick[v]
        /\ \A j \in jobs'[w] : j \in jobs[w] \/ \E s \in tick[w].rows : j = Launched(w, s)
    BY <1>4, DispatchHands
  <2> QED BY <1>1, <2>1, <2>2 DEF HandsLogged
<1>5. ASSUME NEW w \in Workers, NEW j \in jobs[w], JobStep(w, j) PROVE HandsLogged'
  <2>1. ASSUME NEW next, Continues(j, next) PROVE Logged(w, next)'
    BY <1>1, <2>1 DEF Continues, Logged, SameSlot
  <2>2. /\ UNCHANGED tick
        /\ \A v \in Workers \ {w} : jobs'[v] = jobs[v]
        /\ \A k \in jobs'[w] : k \in jobs[w] \/ Continues(j, k)
    BY <1>5, JobHands
  <2>3. \A v \in Workers : \A k \in jobs'[v] : Logged(v, k)'
    BY <1>1, <2>1, <2>2
  <2>4. \A v \in Workers : \A s \in tick'[v].rows : Logged(v, s)'
    BY <1>1, <2>2
  <2> QED BY <2>3, <2>4 DEF HandsLogged
<1> QED BY <1>2, <1>3, <1>4, <1>5, StepKinds

LEMMA DistinctStep ==
  ASSUME TypeInv, SlotOrder, HandsLogged, HandsDistinct, [Next]_vars
  PROVE  HandsDistinct'
<1>1. CASE Quiet \/ Tick
  BY <1>1 DEF Quiet, Tick, HandsDistinct
<1>2. ASSUME NEW w \in Workers, Claim(w) PROVE HandsDistinct'
  <2>1. PICK batch : ClaimedHands(w, batch)
    BY <1>2, ClaimHands
  <2>2. ASSUME NEW s \in tick'[w].rows, NEW v \in Workers, NEW h, Logged(v, h)
        PROVE  ~SameSlot(s, h) /\ ~SameSlot(h, s)
    <3>1. PICK d \in claimLog : SameSlot(d, h)
      BY <2>2 DEF Logged
    <3>2. s.endpoint \in Endpoints /\ Due(s.endpoint) /\ runtime[s.endpoint].next_run_at \in Nat
          /\ s.scheduled_at = runtime[s.endpoint].next_run_at
      BY <2>1, DueRow DEF ClaimedHands, TypeInv
    <3>3. d.endpoint = s.endpoint => d.scheduled_at < s.scheduled_at /\ d.scheduled_at \in Nat
      BY <3>2, DueSlotIsNew DEF TypeInv, TypeOK, ClaimRow
    <3> QED BY <3>1, <3>2, <3>3 DEF SameSlot
  <2>3. \A v \in Workers : /\ \A j \in jobs[v] : Logged(v, j)
                           /\ \A s \in tick[v].rows : Logged(v, s)
    BY DEF HandsLogged
  <2>4. jobs' = jobs /\ \A v \in Workers \ {w} : tick'[v] = tick[v]
    BY <2>1 DEF ClaimedHands
  <2>5. ASSUME NEW u \in Workers, NEW v \in Workers
        PROVE  /\ \A j \in jobs'[u], k \in jobs'[v] : SameSlot(j, k) => u = v /\ j = k
               /\ \A j \in jobs'[u], s \in tick'[v].rows : ~SameSlot(j, s)
               /\ \A s \in tick'[u].rows, t \in tick'[v].rows : SameSlot(s, t) => u = v
    BY <2>2, <2>3, <2>4 DEF HandsDistinct
  <2> QED BY <2>5 DEF HandsDistinct, SameSlot
<1>3. ASSUME NEW w \in Workers, Dispatch(w) PROVE HandsDistinct'
  <2>1. \A s \in tick[w].rows : \A h :
           /\ SameSlot(Launched(w, s), h) <=> SameSlot(s, h)
           /\ SameSlot(h, Launched(w, s)) <=> SameSlot(h, s)
    BY DEF Launched, SameSlot
  <2>2. \A s, t \in tick[w].rows : SameSlot(s, t) => Launched(w, s) = Launched(w, t)
    BY DEF Launched, SameSlot
  <2>3. ASSUME NEW u \in Workers, NEW v \in Workers
        PROVE  /\ \A j \in jobs'[u], k \in jobs'[v] : SameSlot(j, k) => u = v /\ j = k
               /\ \A j \in jobs'[u], s \in tick'[v].rows : ~SameSlot(j, s)
               /\ \A s \in tick'[u].rows, t \in tick'[v].rows : SameSlot(s, t) => u = v
    BY <1>3, <2>1, <2>2, DispatchHands DEF HandsDistinct, SameSlot
  <2> QED BY <2>3 DEF HandsDistinct, SameSlot
<1>4. ASSUME NEW w \in Workers, NEW j \in jobs[w], JobStep(w, j) PROVE HandsDistinct'
  <2>1. CASE jobs'[w] = jobs[w] \ {j}
    BY <1>4, <2>1, JobHands DEF HandsDistinct
  <2>2. ASSUME NEW next, jobs'[w] = (jobs[w] \ {j}) \cup {next}, Continues(j, next)
        PROVE  HandsDistinct'
    <3>1. next.endpoint = j.endpoint /\ next.scheduled_at = j.scheduled_at
      BY <2>2 DEF Continues
    <3>3. tick' = tick /\ \A v \in Workers \ {w} : jobs'[v] = jobs[v]
      BY <1>4, JobHands
    <3>4. \A u \in Workers : \A i \in jobs'[u] :
            \/ i \in jobs[u] /\ ~(u = w /\ i = j)
            \/ u = w /\ i = next
      BY <2>2, <3>3
    <3>5. ASSUME NEW u \in Workers, NEW v \in Workers,
                 NEW i \in jobs'[u], NEW k \in jobs'[v], SameSlot(i, k)
          PROVE  u = v /\ i = k
      <4>1. CASE i \in jobs[u] /\ k \in jobs[v]
        BY <3>5, <4>1 DEF HandsDistinct
      <4>2. CASE u = w /\ i = next /\ k \in jobs[v] /\ ~(v = w /\ k = j)
        BY <3>1, <3>5, <4>2 DEF HandsDistinct, SameSlot
      <4>3. CASE v = w /\ k = next /\ i \in jobs[u] /\ ~(u = w /\ i = j)
        BY <3>1, <3>5, <4>3 DEF HandsDistinct, SameSlot
      <4> QED BY <3>4, <4>1, <4>2, <4>3
    <3>6. ASSUME NEW u \in Workers, NEW v \in Workers,
                 NEW i \in jobs'[u], NEW s \in tick'[v].rows
          PROVE  ~SameSlot(i, s)
      <4>1. s \in tick[v].rows
        BY <3>3
      <4>2. CASE i \in jobs[u]
        BY <4>1, <4>2 DEF HandsDistinct
      <4>3. CASE i = next
        BY <3>1, <4>1, <4>3 DEF HandsDistinct, SameSlot
      <4> QED BY <3>4, <4>2, <4>3
    <3>7. ASSUME NEW u \in Workers, NEW v \in Workers,
                 NEW s \in tick'[u].rows, NEW t \in tick'[v].rows, SameSlot(s, t)
          PROVE  u = v
      BY <3>3, <3>7 DEF HandsDistinct
    <3> QED BY <3>5, <3>6, <3>7 DEF HandsDistinct, SameSlot
  <2> QED BY <1>4, <2>1, <2>2, JobHands
<1> QED BY <1>1, <1>2, <1>3, <1>4, StepKinds

(* While a slot is in hand and its probe is not over, its row is not free.  *)
LEMMA HandHoldsLease ==
  ASSUME TypeInv, HandsLeased, NEW w \in Workers, NEW e \in Endpoints, Due(e) \/ Stale(e)
  PROVE  /\ \A j \in jobs[w] : Probing(j) => j.endpoint # e
         /\ \A s \in tick[w].rows : s.endpoint # e
<1>1. runtime[e] # NULL /\ LeaseFree(runtime[e]) /\ now \in Nat
  BY DEF Due, Stale, TypeInv, TypeOK
<1>2. ASSUME NEW j \in jobs[w], Probing(j), j.endpoint = e PROVE FALSE
  <2>1. j.until \in Nat /\ JobLeased(w, j)
    BY DEF HandsLeased, TypeInv, TypeOK, Job
  <2>2. now <= j.until /\ Needs(j) <= runtime[e].leased_until
        /\ runtime[e].leased_until \in Nat
    BY <1>1, <1>2, <2>1 DEF JobLeased
  <2>3. j.until <= Needs(j) /\ Needs(j) \in Nat
    BY <2>1, ConstantsTyped DEF Needs
  <2> QED BY <1>1, <2>1, <2>2, <2>3, NullAssumption DEF LeaseFree
<1>3. ASSUME NEW s \in tick[w].rows, s.endpoint = e PROVE FALSE
  <2>1. tick[w].claimedAt \in Nat /\ RowLeased(w, s)
    BY DEF HandsLeased, TypeInv, TypeOK, TickState
  <2>2. now <= tick[w].claimedAt + LEASE_SLACK
        /\ runtime[e].leased_until = tick[w].claimedAt + LEASE
    BY <1>1, <1>3, <2>1 DEF RowLeased
  <2>3. LEASE_SLACK <= LEASE
    BY ConfigAssumption, ConstantsTyped
  <2> QED BY <1>1, <2>1, <2>2, <2>3, ConstantsTyped, NullAssumption DEF LeaseFree
<1> QED BY <1>2, <1>3

(* No step of another actor takes a held row away: what it may do to the    *)
(* row leaves the fence and the lease as they were, or removes the row.     *)
HandKept(e) ==
  runtime'[e] # NULL =>
    /\ runtime[e] # NULL
    /\ runtime'[e].leased_by = runtime[e].leased_by
    /\ runtime'[e].leased_until = runtime[e].leased_until
    /\ runtime'[e].scheduled_at = runtime[e].scheduled_at

LEMMA QuietKeepsHand ==
  ASSUME TypeInv, SlotOrder, HandsLogged, Quiet, NEW w \in Workers,
         NEW h, h \in jobs[w] \/ h \in tick[w].rows
  PROVE  HandKept(h.endpoint)
<1>1. h.endpoint \in Endpoints
  BY DEF TypeInv, TypeOK, Job, TickState, Slot
<1>2. ~RowCreated(h.endpoint)
  <2>1. Logged(w, h)
    BY DEF HandsLogged
  <2> QED BY <1>1, <2>1
          DEF SlotOrder, NoRowNoLog, RowCreated, NeedsRow, Live, Logged, SameSlot
<1> QED BY <1>1, <1>2 DEF Quiet, HandKept, RowReconciled, Stale

LEMMA ClaimKeepsHand ==
  ASSUME TypeInv, HandsLeased, NEW w \in Workers, NEW batch, ClaimedHands(w, batch),
         NEW v \in Workers,
         NEW h, (h \in jobs[v] /\ Probing(h)) \/ h \in tick[v].rows
  PROVE  h.endpoint \notin batch /\ HandKept(h.endpoint)
<1>1. h.endpoint \in Endpoints
  BY DEF TypeInv, TypeOK, Job, TickState, Slot
<1>2. h.endpoint \notin batch
  BY <1>1, HandHoldsLease DEF ClaimedHands
<1>3. runtime'[h.endpoint] = runtime[h.endpoint]
  BY <1>1, <1>2 DEF ClaimedHands, ClaimRows
<1> QED BY <1>2, <1>3 DEF HandKept

LEMMA WriteKeepsHand ==
  ASSUME TypeInv, HandsLeased, HandsDistinct, NEW w \in Workers, NEW j \in jobs[w],
         JobStep(w, j), NEW v \in Workers,
         NEW h, (h \in jobs[v] /\ Probing(h)) \/ h \in tick[v].rows
  PROVE  HandKept(h.endpoint)
<1>1. h.endpoint \in Endpoints
  BY DEF TypeInv, TypeOK, Job, TickState, Slot
<1>2. CASE UNCHANGED runtime
  BY <1>2 DEF HandKept
<1>3. ASSUME RowReleased(w, j),
             \A e \in Endpoints \ {j.endpoint} : runtime'[e] = runtime[e]
      PROVE  HandKept(h.endpoint)
  <2>1. CASE h.endpoint # j.endpoint
    BY <1>1, <1>3, <2>1 DEF HandKept
  <2>2. CASE h.endpoint = j.endpoint
    <3>1. FenceHolds(w, j) /\ ~Probing(j)
      BY <1>3 DEF RowReleased, Probing
    <3>2. FenceHolds(v, h)
      BY <2>2, <3>1 DEF HandsLeased, JobLeased, RowLeased, FenceHolds
    <3>3. v = w /\ SameSlot(j, h)
      BY <2>2, <3>1, <3>2 DEF FenceHolds, SameSlot
    <3> QED BY <3>1, <3>3 DEF HandsDistinct
  <2> QED BY <2>1, <2>2
<1> QED BY <1>2, <1>3, ReleasedRow

LEMMA JobStaysLeased ==
  ASSUME NEW w \in Workers, NEW j, JobLeased(w, j), UNCHANGED now,
         Probing(j) => HandKept(j.endpoint)
  PROVE  JobLeased(w, j)'
BY DEF JobLeased, HandKept, FenceHolds, Needs, Probing

LEMMA RowStaysLeased ==
  ASSUME NEW w \in Workers, NEW s, RowLeased(w, s), UNCHANGED now,
         tick'[w].claimedAt = tick[w].claimedAt, HandKept(s.endpoint)
  PROVE  RowLeased(w, s)'
BY DEF RowLeased, HandKept, FenceHolds

LEMMA LeasedByClaim ==
  ASSUME TypeInv, HandsLeased, NEW w \in Workers, Claim(w)
  PROVE  HandsLeased'
<1>1. PICK batch : ClaimedHands(w, batch)
  BY ClaimHands
<1>2. UNCHANGED <<now, jobs>> /\ \A v \in Workers \ {w} : tick'[v] = tick[v]
  BY <1>1 DEF ClaimedHands
<1>3. ASSUME NEW v \in Workers, NEW j \in jobs'[v] PROVE JobLeased(v, j)'
  <2>1. j \in jobs[v] /\ JobLeased(v, j)
    BY <1>2 DEF HandsLeased
  <2>2. Probing(j) => HandKept(j.endpoint)
    BY <1>1, <2>1, ClaimKeepsHand
  <2> QED BY <1>2, <2>1, <2>2, JobStaysLeased
<1>4. ASSUME NEW v \in Workers \ {w}, NEW s \in tick'[v].rows PROVE RowLeased(v, s)'
  <2>1. s \in tick[v].rows /\ RowLeased(v, s)
    BY <1>2 DEF HandsLeased
  <2>2. HandKept(s.endpoint)
    BY <1>1, <2>1, ClaimKeepsHand
  <2> QED BY <1>2, <2>1, <2>2, RowStaysLeased
<1>5. ASSUME NEW s \in tick'[w].rows PROVE RowLeased(w, s)'
  <2>1. s.endpoint \in batch /\ s.scheduled_at = runtime[s.endpoint].next_run_at
        /\ tick'[w].claimedAt = now /\ now' = now /\ now \in Nat
    BY <1>1, <1>2 DEF ClaimedHands, TypeInv, TypeOK
  <2>2. RowClaimed(w, s.endpoint)
    BY <1>1, <2>1, ClaimedRows DEF ClaimedHands
  <2> QED BY <2>1, <2>2, ConstantsTyped DEF RowLeased, RowClaimed, FenceHolds
<1>6. \A v \in Workers : \A s \in tick'[v].rows : RowLeased(v, s)'
  BY <1>4, <1>5
<1> QED BY <1>3, <1>6 DEF HandsLeased

LEMMA LeasedByDispatch ==
  ASSUME TypeInv, HandsLeased, NEW w \in Workers, Dispatch(w)
  PROVE  HandsLeased'
<1>1. /\ UNCHANGED <<now, endpoints, runtime, claimLog>>
      /\ tick'[w].rows = {}
      /\ \A v \in Workers \ {w} : jobs'[v] = jobs[v] /\ tick'[v] = tick[v]
      /\ \A j \in jobs'[w] : j \in jobs[w] \/ \E s \in tick[w].rows : j = Launched(w, s)
  BY DispatchHands
<1>2. ASSUME NEW v \in Workers, NEW j \in jobs[v] PROVE JobLeased(v, j)'
  BY <1>1, JobStaysLeased DEF HandsLeased, HandKept
<1>3. ASSUME NEW s \in tick[w].rows, NEW j, j = Launched(w, s) PROVE JobLeased(w, j)'
  <2>1. RowLeased(w, s) /\ now \in Nat /\ tick[w].claimedAt \in Nat
    BY DEF HandsLeased, TypeInv, TypeOK, TickState
  <2>2. j.endpoint = s.endpoint /\ j.scheduled_at = s.scheduled_at
        /\ j.until = now + LOAD_BUDGET /\ j.phase = "load"
    BY <1>3 DEF Launched
  <2>3. now <= tick[w].claimedAt + LEASE_SLACK
        /\ (runtime[j.endpoint] # NULL =>
             FenceHolds(w, j) /\ runtime[j.endpoint].leased_until = tick[w].claimedAt + LEASE)
    BY <2>1, <2>2 DEF RowLeased, FenceHolds
  <2>4. Needs(j) = now + LOAD_BUDGET + PROBE_MAX /\ now <= j.until
    BY <2>1, <2>2, ConstantsTyped DEF Needs
  <2>5. Needs(j) <= tick[w].claimedAt + LEASE /\ tick[w].claimedAt + LEASE \in Nat
    BY <2>1, <2>3, <2>4, ConstantsTyped, ConfigAssumption
  <2>6. JobLeased(w, j)
    BY <2>3, <2>4, <2>5 DEF JobLeased
  <2> QED BY <1>1, <2>6, JobStaysLeased DEF HandKept
<1>4. ASSUME NEW v \in Workers, NEW s \in tick'[v].rows PROVE RowLeased(v, s)'
  <2>1. v # w /\ tick'[v] = tick[v]
    BY <1>1
  <2> QED BY <1>1, <2>1, RowStaysLeased DEF HandsLeased, HandKept
<1>5. \A v \in Workers : \A j \in jobs'[v] : JobLeased(v, j)'
  BY <1>1, <1>2, <1>3
<1> QED BY <1>4, <1>5 DEF HandsLeased

LEMMA LeasedByJob ==
  ASSUME TypeInv, HandsLeased, HandsDistinct, NEW w \in Workers, NEW j \in jobs[w],
         JobStep(w, j)
  PROVE  HandsLeased'
<1>1. /\ UNCHANGED <<now, endpoints, claimLog, tick>>
      /\ \A v \in Workers \ {w} : jobs'[v] = jobs[v]
      /\ \A k \in jobs'[w] : k \in jobs[w] \/ Continues(j, k)
  BY JobHands
<1>2. ASSUME NEW v \in Workers, NEW k \in jobs[v] PROVE JobLeased(v, k)'
  <2>1. Probing(k) => HandKept(k.endpoint)
    BY WriteKeepsHand
  <2> QED BY <1>1, <2>1, JobStaysLeased DEF HandsLeased
<1>3. ASSUME NEW k, Continues(j, k) PROVE JobLeased(w, k)'
  <2>1. k.endpoint = j.endpoint /\ k.scheduled_at = j.scheduled_at /\ now <= k.until
        /\ k.phase # "load"
        /\ (k.phase = "probe" => j.phase = "load" /\ k.until = now + PROBE_MAX)
        /\ now \in Nat /\ k.until \in Nat /\ j.until \in Nat
    BY <1>3 DEF Continues, TypeInv, TypeOK, Job
  <2>2. JobLeased(w, j)
    BY DEF HandsLeased
  <2>3. CASE k.phase # "probe"
    BY <1>1, <2>1, <2>3 DEF JobLeased, Probing
  <2>4. CASE k.phase = "probe"
    <3>1. UNCHANGED runtime
      BY <2>1, <2>4, ReleasedRow DEF RowReleased
    <3>2. Needs(k) = now + PROBE_MAX /\ Needs(j) = j.until + PROBE_MAX /\ now <= j.until
      BY <2>1, <2>2, <2>4, ConstantsTyped DEF Needs, JobLeased
    <3>3. Needs(k) <= Needs(j) /\ Needs(j) \in Nat /\ Needs(k) \in Nat
      BY <2>1, <3>2, ConstantsTyped
    <3>4. JobLeased(w, k)
      BY <2>1, <2>2, <2>4, <3>3 DEF JobLeased, Probing, FenceHolds
    <3> QED BY <1>1, <3>1, <3>4, JobStaysLeased DEF HandKept
  <2> QED BY <2>3, <2>4
<1>4. \A v \in Workers : \A k \in jobs'[v] : JobLeased(v, k)'
  BY <1>1, <1>2, <1>3
<1>5. ASSUME NEW v \in Workers, NEW s \in tick'[v].rows PROVE RowLeased(v, s)'
  <2>1. s \in tick[v].rows
    BY <1>1
  <2>2. HandKept(s.endpoint)
    BY <2>1, WriteKeepsHand
  <2> QED BY <1>1, <2>1, <2>2, RowStaysLeased DEF HandsLeased
<1> QED BY <1>4, <1>5 DEF HandsLeased

LEMMA LeasedStep ==
  ASSUME TypeInv, SlotOrder, HandsLogged, HandsDistinct, HandsLeased, [Next]_vars
  PROVE  HandsLeased'
<1>1. CASE Quiet
  <2>1. ASSUME NEW v \in Workers, NEW j \in jobs'[v] PROVE JobLeased(v, j)'
    <3>1. j \in jobs[v] /\ UNCHANGED now
      BY <1>1 DEF Quiet
    <3>2. HandKept(j.endpoint)
      BY <1>1, <3>1, QuietKeepsHand
    <3> QED BY <3>1, <3>2, JobStaysLeased DEF HandsLeased
  <2>2. ASSUME NEW v \in Workers, NEW s \in tick'[v].rows PROVE RowLeased(v, s)'
    <3>1. s \in tick[v].rows /\ UNCHANGED now /\ tick'[v].claimedAt = tick[v].claimedAt
      BY <1>1 DEF Quiet
    <3>2. HandKept(s.endpoint)
      BY <1>1, <3>1, QuietKeepsHand
    <3> QED BY <3>1, <3>2, RowStaysLeased DEF HandsLeased
  <2> QED BY <2>1, <2>2 DEF HandsLeased
<1>2. CASE Tick
  <2>1. UNCHANGED <<runtime, tick, jobs>> /\ now' = now + 1 /\ now \in Nat
    BY <1>2 DEF Tick, tables, TypeInv, TypeOK
  <2>2. ASSUME NEW v \in Workers, NEW j \in jobs[v] PROVE JobLeased(v, j)'
    <3>1. now < j.until /\ j.until \in Nat /\ JobLeased(v, j)
      BY <1>2 DEF Tick, TypeInv, TypeOK, Job, HandsLeased
    <3> QED BY <2>1, <3>1 DEF JobLeased, FenceHolds, Needs, Probing
  <2>3. ASSUME NEW v \in Workers, NEW s \in tick[v].rows PROVE RowLeased(v, s)'
    <3>1. now < tick[v].claimedAt + LEASE_SLACK /\ tick[v].claimedAt \in Nat
          /\ RowLeased(v, s)
      BY <1>2 DEF Tick, TypeInv, TypeOK, TickState, HandsLeased
    <3> QED BY <2>1, <3>1, ConstantsTyped DEF RowLeased, FenceHolds
  <2> QED BY <2>1, <2>2, <2>3 DEF HandsLeased
<1> QED BY <1>1, <1>2, LeasedByClaim, LeasedByDispatch, LeasedByJob, StepKinds

LEMMA ProberStep ==
  ASSUME TypeInv, HandsLeased, OneProber, [Next]_vars
  PROVE  OneProber'
<1>1. CASE Quiet \/ Tick
  BY <1>1 DEF Quiet, Tick, OneProber
<1>2. ASSUME NEW w \in Workers, Claim(w) PROVE OneProber'
  <2>1. PICK batch : ClaimedHands(w, batch)
    BY <1>2, ClaimHands
  <2>2. UNCHANGED jobs /\ \A v \in Workers \ {w} : tick'[v] = tick[v]
    BY <2>1 DEF ClaimedHands
  <2>3. ASSUME NEW s \in tick'[w].rows, NEW v \in Workers
        PROVE  /\ \A j \in jobs[v] : Probing(j) => j.endpoint # s.endpoint
               /\ \A t \in tick[v].rows : t.endpoint # s.endpoint
    <3>1. s.endpoint \in Endpoints /\ Due(s.endpoint)
      BY <2>1 DEF ClaimedHands
    <3> QED BY <3>1, HandHoldsLease
  <2>4. ASSUME NEW s \in tick'[w].rows, NEW t \in tick'[w].rows, s.endpoint = t.endpoint
        PROVE  s = t
    BY <2>1, <2>4 DEF ClaimedHands, Slot
  <2>5. ASSUME NEW u \in Workers, NEW v \in Workers
        PROVE  /\ \A j \in jobs'[u], k \in jobs'[v] :
                    Probing(j) /\ Probing(k) /\ j.endpoint = k.endpoint => u = v /\ j = k
               /\ \A j \in jobs'[u], s \in tick'[v].rows : Probing(j) => j.endpoint # s.endpoint
               /\ \A s \in tick'[u].rows, t \in tick'[v].rows :
                    s.endpoint = t.endpoint => u = v /\ s = t
    BY <2>2, <2>3, <2>4 DEF OneProber
  <2> QED BY <2>5 DEF OneProber, Probing
<1>3. ASSUME NEW w \in Workers, Dispatch(w) PROVE OneProber'
  <2>1. /\ tick'[w].rows = {}
        /\ \A v \in Workers \ {w} : jobs'[v] = jobs[v] /\ tick'[v] = tick[v]
        /\ \A j \in jobs'[w] : j \in jobs[w] \/ \E s \in tick[w].rows : j = Launched(w, s)
    BY <1>3, DispatchHands
  <2>2. \A s : Launched(w, s).endpoint = s.endpoint
    BY DEF Launched
  <2>3. \A v \in Workers : \A s \in tick'[v].rows : v # w /\ s \in tick[v].rows
    BY <2>1
  <2>4. \A v \in Workers : \A j \in jobs'[v] :
          j \in jobs[v] \/ (v = w /\ \E s \in tick[w].rows : j = Launched(w, s))
    BY <2>1
  <2>5. ASSUME NEW u \in Workers, NEW v \in Workers, NEW j \in jobs'[u], NEW k \in jobs'[v],
               Probing(j), Probing(k), j.endpoint = k.endpoint
        PROVE  u = v /\ j = k
    <3>1. CASE j \in jobs[u] /\ k \in jobs[v]
      BY <2>5, <3>1 DEF OneProber
    <3>2. ASSUME NEW s \in tick[w].rows, u = w, j = Launched(w, s), k \in jobs[v]
          PROVE  FALSE
      BY <2>2, <2>5, <3>2 DEF OneProber
    <3>3. ASSUME NEW s \in tick[w].rows, v = w, k = Launched(w, s), j \in jobs[u]
          PROVE  FALSE
      BY <2>2, <2>5, <3>3 DEF OneProber
    <3>4. ASSUME NEW s \in tick[w].rows, NEW t \in tick[w].rows, u = w, v = w,
                 j = Launched(w, s), k = Launched(w, t)
          PROVE  u = v /\ j = k
      <4>1. s.endpoint = t.endpoint
        BY <2>2, <2>5, <3>4
      <4> QED BY <3>4, <4>1 DEF OneProber
    <3> QED BY <2>4, <3>1, <3>2, <3>3, <3>4
  <2>6. ASSUME NEW u \in Workers, NEW v \in Workers, NEW j \in jobs'[u],
               NEW t \in tick'[v].rows, Probing(j), j.endpoint = t.endpoint
        PROVE  FALSE
    <3>1. v # w /\ t \in tick[v].rows
      BY <2>3
    <3>2. CASE j \in jobs[u]
      BY <2>6, <3>1, <3>2 DEF OneProber
    <3>3. ASSUME NEW s \in tick[w].rows, j = Launched(w, s) PROVE FALSE
      BY <2>2, <2>6, <3>1, <3>3 DEF OneProber
    <3> QED BY <2>4, <3>2, <3>3
  <2>7. ASSUME NEW u \in Workers, NEW v \in Workers, NEW s \in tick'[u].rows,
               NEW t \in tick'[v].rows, s.endpoint = t.endpoint
        PROVE  u = v /\ s = t
    BY <2>3, <2>7 DEF OneProber
  <2> QED BY <2>5, <2>6, <2>7 DEF OneProber, Probing
<1>4. ASSUME NEW w \in Workers, NEW j \in jobs[w], JobStep(w, j) PROVE OneProber'
  <2>1. UNCHANGED tick /\ \A v \in Workers \ {w} : jobs'[v] = jobs[v]
    BY <1>4, JobHands
  <2>2. CASE jobs'[w] = jobs[w] \ {j}
    BY <2>1, <2>2 DEF OneProber, Probing
  <2>3. ASSUME NEW next, jobs'[w] = (jobs[w] \ {j}) \cup {next}, Continues(j, next)
        PROVE  OneProber'
    <3>1. next.endpoint = j.endpoint /\ (Probing(next) => Probing(j))
      BY <2>3 DEF Continues, Probing
    <3>2. \A u \in Workers : \A i \in jobs'[u] :
            \/ i \in jobs[u] /\ ~(u = w /\ i = j)
            \/ u = w /\ i = next
      BY <2>1, <2>3
    <3>3. ASSUME NEW u \in Workers, NEW v \in Workers, NEW i \in jobs'[u], NEW k \in jobs'[v],
                 Probing(i), Probing(k), i.endpoint = k.endpoint
          PROVE  u = v /\ i = k
      <4>1. CASE i \in jobs[u] /\ k \in jobs[v]
        BY <3>3, <4>1 DEF OneProber
      <4>2. CASE u = w /\ i = next /\ k \in jobs[v] /\ ~(v = w /\ k = j)
        BY <3>1, <3>3, <4>2 DEF OneProber
      <4>3. CASE v = w /\ k = next /\ i \in jobs[u] /\ ~(u = w /\ i = j)
        BY <3>1, <3>3, <4>3 DEF OneProber
      <4> QED BY <3>2, <4>1, <4>2, <4>3
    <3>4. ASSUME NEW u \in Workers, NEW v \in Workers, NEW i \in jobs'[u],
                 NEW s \in tick'[v].rows, Probing(i)
          PROVE  i.endpoint # s.endpoint
      <4>1. s \in tick[v].rows
        BY <2>1
      <4>2. CASE i \in jobs[u]
        BY <3>4, <4>1, <4>2 DEF OneProber
      <4>3. CASE i = next
        BY <3>1, <3>4, <4>1, <4>3 DEF OneProber
      <4> QED BY <3>2, <4>2, <4>3
    <3>5. \A u, v \in Workers : \A s \in tick'[u].rows, t \in tick'[v].rows :
            s.endpoint = t.endpoint => u = v /\ s = t
      BY <2>1 DEF OneProber
    <3> QED BY <3>3, <3>4, <3>5 DEF OneProber, Probing
  <2> QED BY <1>4, <2>2, <2>3, JobHands
<1> QED BY <1>1, <1>2, <1>3, <1>4, StepKinds

LEMMA LeaseInvariance == Spec => []LeaseInv
<1>1. Init => LeaseInv
  BY DEF Init, NoTick, LeaseInv, HandsLogged, HandsDistinct, HandsLeased, OneProber
<1>2. LeaseInv /\ TypeInv /\ SlotOrder /\ [Next]_vars => LeaseInv'
  BY LoggedStep, DistinctStep, LeasedStep, ProberStep DEF LeaseInv
<1> QED BY <1>1, <1>2, TypeInvariance, SlotOrderInvariance, PTL DEF Spec

(* While a slot loads or probes, its row names this worker and this slot,   *)
(* and its lease has not run out: SCHEDULER_LEASE_MS covers the reply, the  *)
(* load and the probe because loadConfig refuses one that does not.         *)
THEOREM LeaseSufficient == Spec => []LeaseCoversProbe
<1>1. LeaseInv /\ TypeInv => LeaseCoversProbe
  <2> SUFFICES ASSUME LeaseInv, TypeInv, NEW w \in Workers, NEW j \in jobs[w], Probing(j),
                      runtime[j.endpoint] # NULL
               PROVE  FenceHolds(w, j) /\ runtime[j.endpoint].leased_until >= j.until
    BY DEF LeaseCoversProbe
  <2>1. FenceHolds(w, j) /\ Needs(j) <= runtime[j.endpoint].leased_until
        /\ runtime[j.endpoint].leased_until \in Nat
    BY DEF LeaseInv, HandsLeased, JobLeased
  <2>2. j.until \in Nat
    BY DEF TypeInv, TypeOK, Job
  <2> QED BY <2>1, <2>2, ConstantsTyped DEF Needs
<1> QED BY <1>1, LeaseInvariance, TypeInvariance, PTL

(* No endpoint is ever probed by two workers at once, nor twice by one, with *)
(* leases that lapse, workers that die and rows that are reconciled.        *)
THEOREM ProbesExclusive == Spec => []NoConcurrentProbes
<1>1. LeaseInv => NoConcurrentProbes
  BY DEF LeaseInv, OneProber, NoConcurrentProbes
<1> QED BY <1>1, LeaseInvariance, PTL


-----------------------------------------------------------------------------
(* The evidence tables.                                                     *)
-----------------------------------------------------------------------------
(* The invariant.  A stored result belongs to a slot its worker claimed; a  *)
(* job on the same slot is that worker's, past its probe, and will write    *)
(* the same row again if it writes at all.                                  *)

ResultsLogged == \A r \in results : Logged(r.worker_id, r)

ResultsOfJobs ==
  \A r \in results : \A w \in Workers :
    /\ \A j \in jobs[w] : SameSlot(r, j) =>
         j.phase \in Writing /\ r.worker_id = w /\ r.attempt_id = j.attempt_id
    /\ \A s \in tick[w].rows : ~SameSlot(r, s)

ResultInv == ResultsLogged /\ ResultsOfJobs /\ OneResultPerSlot

LEMMA ResultsUnchanged ==
  ASSUME TypeInv, [Next]_vars
  PROVE  UNCHANGED results \/ \E w \in Workers : \E j \in jobs[w] : JobStep(w, j)
<1>1. ASSUME NEW e \in Endpoints, ApiStep(e) PROVE UNCHANGED results
  BY <1>1 DEF ApiStep, CreateEndpoint, UpdateEndpoint, DeleteEndpoint
<1>2. ASSUME NEW w \in Workers, TickStep(w) PROVE UNCHANGED results
  BY <1>2 DEF TickStep, Adopt, Reconcile, Claim, ClaimFails, Dispatch, tables
<1>3. ASSUME NEW w \in Workers, ProcStep(w) PROVE UNCHANGED results
  BY <1>3 DEF ProcStep, Start, Stop, DrainStarts, DrainEnds, Exit, Crash, tables
<1>4. CASE Tick \/ UNCHANGED vars
  BY <1>4 DEF Tick, tables, vars
<1> QED BY <1>1, <1>2, <1>3, <1>4 DEF Next

(* The one row a step may add.                                              *)
ResultOf(w, j) ==
  [endpoint |-> j.endpoint, scheduled_at |-> j.scheduled_at, worker_id |-> w,
   attempt_id |-> j.attempt_id]

LEMMA JobResult ==
  ASSUME TypeInv, NEW w \in Workers, NEW j \in jobs[w], JobStep(w, j)
  PROVE  UNCHANGED results
         \/ (results' = results \cup {ResultOf(w, j)} /\ j.phase = "release")
BY JobWrites DEF ResultOf

LEMMA ResultsLoggedStep ==
  ASSUME TypeInv, SlotOrder, HandsLogged, ResultsLogged, [Next]_vars
  PROVE  ResultsLogged'
<1>1. \A r \in results : Logged(r.worker_id, r)'
  BY LogGrowsByClaim DEF ResultsLogged, Logged
<1>2. ASSUME NEW w \in Workers, NEW j \in jobs[w], JobStep(w, j),
             results' = results \cup {ResultOf(w, j)}
      PROVE  ResultsLogged'
  <2>1. \E c \in claimLog' : SameSlot(c, ResultOf(w, j)) /\ c.worker_id = ResultOf(w, j).worker_id
    BY LogGrowsByClaim DEF HandsLogged, Logged, SameSlot, ResultOf
  <2> QED BY <1>1, <1>2, <2>1 DEF ResultsLogged, Logged
<1> QED BY <1>1, <1>2, ResultsUnchanged, JobResult DEF ResultsLogged

LEMMA ResultsOfJobsStep ==
  ASSUME TypeInv, SlotOrder, LeaseInv, ResultInv, [Next]_vars
  PROVE  ResultsOfJobs' /\ OneResultPerSlot'
<1>1. CASE (Quiet \/ Tick) /\ UNCHANGED results
  BY <1>1 DEF Quiet, Tick, ResultInv, ResultsOfJobs, OneResultPerSlot, SameSlot
<1>2. ASSUME NEW w \in Workers, Claim(w), UNCHANGED results
      PROVE  ResultsOfJobs' /\ OneResultPerSlot'
  <2>1. PICK batch : ClaimedHands(w, batch)
    BY <1>2, ClaimHands
  <2>2. UNCHANGED jobs /\ \A v \in Workers \ {w} : tick'[v] = tick[v]
    BY <2>1 DEF ClaimedHands
  <2>3. ASSUME NEW s \in tick'[w].rows, NEW r \in results
        PROVE  ~SameSlot(r, s)
    <3>1. PICK d \in claimLog : SameSlot(d, r)
      BY DEF ResultInv, ResultsLogged, Logged
    <3>2. s.endpoint \in Endpoints /\ Due(s.endpoint) /\ runtime[s.endpoint].next_run_at \in Nat
          /\ s.scheduled_at = runtime[s.endpoint].next_run_at
      BY <2>1, DueRow DEF ClaimedHands, TypeInv
    <3>3. d.endpoint = s.endpoint => d.scheduled_at < s.scheduled_at /\ d.scheduled_at \in Nat
      BY <3>2, DueSlotIsNew DEF TypeInv, TypeOK, ClaimRow
    <3> QED BY <3>1, <3>2, <3>3 DEF SameSlot
  <2>4. ASSUME NEW r \in results, NEW v \in Workers
        PROVE  /\ \A j \in jobs'[v] : SameSlot(r, j) =>
                    j.phase \in Writing /\ r.worker_id = v /\ r.attempt_id = j.attempt_id
               /\ \A s \in tick'[v].rows : ~SameSlot(r, s)
    BY <2>2, <2>3 DEF ResultInv, ResultsOfJobs
  <2> QED BY <1>2, <2>4 DEF ResultInv, ResultsOfJobs, OneResultPerSlot, SameSlot
<1>3. ASSUME NEW w \in Workers, Dispatch(w), UNCHANGED results
      PROVE  ResultsOfJobs' /\ OneResultPerSlot'
  <2>1. /\ tick'[w].rows = {}
        /\ \A v \in Workers \ {w} : jobs'[v] = jobs[v] /\ tick'[v] = tick[v]
        /\ \A j \in jobs'[w] : j \in jobs[w] \/ \E s \in tick[w].rows : j = Launched(w, s)
    BY <1>3, DispatchHands
  <2>2. ASSUME NEW r \in results, NEW s \in tick[w].rows, NEW j, j = Launched(w, s)
        PROVE  ~SameSlot(r, j)
    BY <2>2 DEF Launched, SameSlot, ResultInv, ResultsOfJobs
  <2>3. ASSUME NEW r \in results, NEW v \in Workers, NEW j \in jobs'[v], SameSlot(r, j)
        PROVE  j.phase \in Writing /\ r.worker_id = v /\ r.attempt_id = j.attempt_id
    BY <2>1, <2>2, <2>3 DEF ResultInv, ResultsOfJobs
  <2>4. ASSUME NEW r \in results, NEW v \in Workers, NEW s \in tick'[v].rows
        PROVE  ~SameSlot(r, s)
    BY <2>1 DEF ResultInv, ResultsOfJobs
  <2> QED BY <1>3, <2>3, <2>4 DEF ResultInv, ResultsOfJobs, OneResultPerSlot, SameSlot
<1>4. ASSUME NEW w \in Workers, NEW j \in jobs[w], JobStep(w, j)
      PROVE  ResultsOfJobs' /\ OneResultPerSlot'
  <2>1. UNCHANGED tick /\ (\A v \in Workers \ {w} : jobs'[v] = jobs[v])
        /\ \A k \in jobs'[w] : k \in jobs[w] \ {j} \/ Continues(j, k)
    BY <1>4, JobHands
  <2>2. \A r \in results' : r \in results \/ (r = ResultOf(w, j) /\ j.phase = "release")
    BY <1>4, JobResult
  <2>3. /\ ResultOf(w, j).endpoint = j.endpoint
        /\ ResultOf(w, j).scheduled_at = j.scheduled_at
        /\ ResultOf(w, j).worker_id = w
        /\ ResultOf(w, j).attempt_id = j.attempt_id
    BY DEF ResultOf
  (* Old and new rows alike agree with the jobs there were.                 *)
  <2>4. ASSUME NEW r \in results', NEW v \in Workers, NEW k \in jobs[v], SameSlot(r, k)
        PROVE  k.phase \in Writing /\ r.worker_id = v /\ r.attempt_id = k.attempt_id
    <3>1. CASE r \in results
      BY <2>4, <3>1 DEF ResultInv, ResultsOfJobs
    <3>2. CASE r = ResultOf(w, j) /\ j.phase = "release"
      <4>1. SameSlot(j, k)
        BY <2>3, <2>4, <3>2 DEF SameSlot
      <4>2. v = w /\ k = j
        BY <4>1 DEF LeaseInv, HandsDistinct
      <4> QED BY <2>3, <3>2, <4>2 DEF Writing
    <3> QED BY <2>2, <3>1, <3>2
  <2>5. ASSUME NEW r \in results', NEW v \in Workers, NEW s \in tick'[v].rows
        PROVE  ~SameSlot(r, s)
    <3>1. s \in tick[v].rows
      BY <2>1
    <3>2. CASE r \in results
      BY <3>1, <3>2 DEF ResultInv, ResultsOfJobs
    <3>3. CASE r = ResultOf(w, j)
      <4>1. ~SameSlot(j, s)
        BY <3>1 DEF LeaseInv, HandsDistinct
      <4> QED BY <2>3, <3>3, <4>1 DEF SameSlot
    <3> QED BY <2>2, <3>2, <3>3
  <2>6. ASSUME NEW r \in results', NEW v \in Workers, NEW k \in jobs'[v], SameSlot(r, k)
        PROVE  k.phase \in Writing /\ r.worker_id = v /\ r.attempt_id = k.attempt_id
    <3>1. CASE k \in jobs[v]
      BY <2>4, <2>6, <3>1
    <3>2. CASE v = w /\ Continues(j, k)
      <4>1. k.endpoint = j.endpoint /\ k.scheduled_at = j.scheduled_at
            /\ (j.phase \in Writing => k.phase \in Writing /\ k.attempt_id = j.attempt_id)
        BY <3>2 DEF Continues
      <4>2. SameSlot(r, j)
        BY <2>6, <4>1 DEF SameSlot
      <4>3. j.phase \in Writing /\ r.worker_id = w /\ r.attempt_id = j.attempt_id
        BY <2>4, <4>2
      <4> QED BY <3>2, <4>1, <4>3
    <3> QED BY <2>1, <3>1, <3>2
  <2>7. ASSUME NEW r \in results', NEW q \in results',
               r.endpoint = q.endpoint, r.scheduled_at = q.scheduled_at
        PROVE  r = q
    <3>0. r \in ResultRow /\ q \in ResultRow
      BY NextTyped DEF TypeOK
    <3>1. CASE r \in results /\ q \in results
      BY <2>7, <3>1 DEF ResultInv, OneResultPerSlot
    <3>2. CASE r = ResultOf(w, j) \/ q = ResultOf(w, j)
      <4>1. SameSlot(r, j) /\ SameSlot(q, j)
        BY <2>3, <2>7, <3>2 DEF SameSlot
      <4>2. r.worker_id = w /\ q.worker_id = w
            /\ r.attempt_id = j.attempt_id /\ q.attempt_id = j.attempt_id
        BY <2>4, <4>1
      <4> QED BY <2>7, <3>0, <4>2 DEF ResultRow
    <3> QED BY <2>2, <3>1, <3>2
  <2> QED BY <2>5, <2>6, <2>7 DEF ResultsOfJobs, OneResultPerSlot, SameSlot
<1> QED BY <1>1, <1>2, <1>3, <1>4, StepKinds, ResultsUnchanged

LEMMA ResultInvariance == Spec => []ResultInv
<1>1. Init => ResultInv
  BY DEF Init, ResultInv, ResultsLogged, ResultsOfJobs, OneResultPerSlot
<1>2. ResultInv /\ LeaseInv /\ TypeInv /\ SlotOrder /\ [Next]_vars => ResultInv'
  BY ResultsLoggedStep, ResultsOfJobsStep DEF ResultInv, LeaseInv
<1> QED BY <1>1, <1>2, TypeInvariance, SlotOrderInvariance, LeaseInvariance, PTL DEF Spec

(* A slot has one result: a write that is retried, or repeated after its    *)
(* reply was lost, repeats the row it wrote, because runOne draws the       *)
(* attempt id once and no one else ever holds the slot.                     *)
THEOREM ResultsUnique == Spec => []OneResultPerSlot
<1>1. ResultInv => OneResultPerSlot
  BY DEF ResultInv
<1> QED BY <1>1, ResultInvariance, PTL

-----------------------------------------------------------------------------
(* The refinement.  The log and the stored results, without times and       *)
(* attempt ids, are the abstract ledger.                                    *)

claims == {Identity(c) : c \in claimLog}
observed == {Identity(r) : r \in results}

LEMMA LedgerInit == Init => Ledger!Init
BY DEF Init, Ledger!Init

LEMMA ClaimIsLedgerClaim ==
  ASSUME TypeInv, SlotOrder, NEW w \in Workers, Claim(w)
  PROVE  Ledger!Claim(claims' \ claims)
<1>1. PICK batch : ClaimedHands(w, batch)
  BY ClaimHands
<1>2. UNCHANGED results
  BY DEF Claim
<1>3. claimLog \subseteq claimLog'
  BY <1>1 DEF ClaimedHands, ClaimRows
<1>4. claims \subseteq claims'
  BY <1>3 DEF claims
<1>5. ASSUME NEW c \in claims' \ claims
      PROVE  /\ c \in Ledger!Entry
             /\ c.endpoint \in batch
             /\ c = [endpoint |-> c.endpoint, scheduled_at |-> runtime[c.endpoint].next_run_at,
                     worker_id |-> w]
             /\ \A d \in claims : c.endpoint = d.endpoint => d.scheduled_at < c.scheduled_at
  <2>1. PICK b \in claimLog' : c = Identity(b)
    BY <1>5 DEF claims
  <2>2. b \notin claimLog
    BY <1>5, <2>1 DEF claims
  <2>3. /\ b.endpoint \in batch
        /\ b.scheduled_at = runtime[b.endpoint].next_run_at
        /\ b.worker_id = w
        /\ \A d \in claimLog : d.endpoint = b.endpoint => d.scheduled_at < b.scheduled_at
    BY <1>1, <2>2, ClaimOrder DEF ClaimedHands
  <2>4. b.endpoint \in Endpoints /\ b.scheduled_at \in Nat
    BY <1>1, <2>3, DueRow DEF ClaimedHands, TypeInv
  <2>5. c \in Ledger!Entry
    BY <2>1, <2>3, <2>4 DEF Identity, Ledger!Entry
  <2>6. ASSUME NEW d \in claims, c.endpoint = d.endpoint PROVE d.scheduled_at < c.scheduled_at
    <3>1. PICK a \in claimLog : d = Identity(a)
      BY <2>6 DEF claims
    <3> QED BY <2>1, <2>3, <2>6, <3>1 DEF Identity
  <2> QED BY <2>1, <2>3, <2>5, <2>6 DEF Identity
<1>6. claims' = claims \cup (claims' \ claims) /\ UNCHANGED observed
  BY <1>2, <1>4 DEF observed
<1>7. \A c, d \in claims' \ claims : c.endpoint = d.endpoint => c = d
  BY <1>5
<1> QED BY <1>5, <1>6, <1>7 DEF Ledger!Claim, claims, observed

LEMMA WriteIsLedgerObserve ==
  ASSUME TypeInv, HandsLogged, NEW w \in Workers, NEW j \in jobs[w], JobStep(w, j)
  PROVE  UNCHANGED <<claims, observed>> \/ \E c \in claims : Ledger!Observe(c)
<1>1. UNCHANGED claimLog
  BY JobHands
<1>2. UNCHANGED claims
  BY <1>1 DEF claims
<1> DEFINE c == Identity(ResultOf(w, j))
<1>3. c \in claims
  <2>1. PICK b \in claimLog : SameSlot(b, j) /\ b.worker_id = w
    BY DEF HandsLogged, Logged
  <2>2. Identity(b) = c
    BY <2>1 DEF Identity, ResultOf, SameSlot
  <2> QED BY <2>2 DEF claims
<1>4. CASE UNCHANGED results
  BY <1>2, <1>4 DEF observed
<1>5. CASE results' = results \cup {ResultOf(w, j)}
  <2>1. observed' = observed \cup {c}
    BY <1>5 DEF observed
  <2>2. CASE c \in observed
    BY <1>2, <2>1, <2>2
  <2>3. CASE c \notin observed
    <3>1. Ledger!Observe(c)
      BY <1>2, <1>3, <2>1, <2>3 DEF Ledger!Observe, claims, observed
    <3> QED BY <1>3, <3>1
  <2> QED BY <2>2, <2>3
<1> QED BY <1>4, <1>5, JobResult

LEMMA OtherStepsLeaveLedger ==
  ASSUME TypeInv, [Next]_vars,
         ~\E w \in Workers : Claim(w) \/ \E j \in jobs[w] : JobStep(w, j)
  PROVE  UNCHANGED <<claims, observed>>
<1>1. UNCHANGED results
  BY ResultsUnchanged
<1>2. UNCHANGED claimLog
  BY StepKinds, DispatchHands DEF Quiet, Tick, tables
<1> QED BY <1>1, <1>2 DEF claims, observed

(* The scheduler implements the ledger: its claims hand out each slot once  *)
(* and in order, and a result is stored only for a claimed slot, by the     *)
(* worker that claimed it.                                                  *)
THEOREM SchedulerImplementsLedger == Spec => ImplementsLedger
<1>1. TypeInv /\ SlotOrder /\ LeaseInv /\ [Next]_vars =>
        [Ledger!Next]_<<claims, observed>>
  <2> SUFFICES ASSUME TypeInv, SlotOrder, LeaseInv, [Next]_vars
               PROVE  Ledger!Next \/ UNCHANGED <<claims, observed>>
    OBVIOUS
  <2>1. ASSUME NEW w \in Workers, Claim(w) PROVE Ledger!Next
    BY <2>1, ClaimIsLedgerClaim DEF Ledger!Next, claims
  <2>2. ASSUME NEW w \in Workers, NEW j \in jobs[w], JobStep(w, j)
        PROVE  Ledger!Next \/ UNCHANGED <<claims, observed>>
    BY <2>2, WriteIsLedgerObserve DEF LeaseInv, Ledger!Next, claims
  <2> QED BY <2>1, <2>2, OtherStepsLeaveLedger
<1> QED BY <1>1, LedgerInit, TypeInvariance, SlotOrderInvariance, LeaseInvariance, PTL
        DEF Spec, ImplementsLedger, Ledger!Spec, claims, observed
=============================================================================
