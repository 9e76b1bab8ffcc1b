------------------------------ MODULE Retention ------------------------------
(***************************************************************************)
(* Storage maintenance, src/src/worker/storage: every worker keeps         *)
(* partitions ahead of the clock and retires the expired ones, by a        *)
(* detach and a drop that are guarded by the rollup's watermark.           *)
(*                                                                         *)
(* A step is one statement or transaction.  Time is an integer clock, and  *)
(* a calendar gives the periods of each family of partitions.  The rollup  *)
(* is here what Rollup shows it to be: a result is below the watermark     *)
(* exactly if it is folded.                                                *)
(***************************************************************************)
EXTENDS Integers, Sequences

CONSTANTS
  Results,         \* probe results, by primary key
  Workers,         \* worker processes
  NoWorker,        \* no session holds the retention lock
  Order,           \* PARTITION_FAMILIES, in order
  Kind,            \* "day" or "month", for each family
  Start,           \* the start of each period of each family
  LAST,            \* bound of a run: the last period of the calendar
  Keep,            \* daysFor: how long a family is retained
  Guard,           \* guardFor: "raw", "stats" or "none"
  AHEAD_DAYS,      \* PARTITION_AHEAD_DAYS, as a time
  AHEAD_MONTHS,    \* PARTITION_AHEAD_MONTHS, in periods
  INTERVAL,        \* STORAGE_MAINTENANCE_INTERVAL_MS
  LATE,            \* the longest from a probe's start to its result's commit
  PASS_TIME,       \* the longest a tick takes
  MAX_TIME,        \* bound of a run: the clock
  MAX_MISSED,      \* bound of a run: creations missed in a row
  MAX_FAULTS,      \* bound of a run: failed or lost statements
  MAX_STOPS        \* bound of a run: crashes and shutdowns

Families == {Order[i] : i \in 1..Len(Order)}
Periods == 0..LAST

ASSUME CalendarAssumption ==
  /\ LAST \in Nat
  /\ Start \in [Families -> [0..LAST + 1 -> Nat]]
  /\ \A f \in Families, n \in Periods : Start[f][n] < Start[f][n + 1]

ASSUME FamilyAssumption ==
  /\ Order \in Seq(STRING)
  /\ "raw" \in Families
  /\ Kind \in [Families -> {"day", "month"}]
  /\ Guard \in [Families -> {"raw", "stats", "none"}]
  /\ \A f \in Families : Guard[f] = "raw" <=> f = "raw"

(* A result is written well within the retention of its partition, and the  *)
(* aggregates are retained no shorter (the refinements of schema.ts).       *)
ASSUME RetentionAssumption ==
  /\ LATE \in Nat
  /\ Keep \in [Families -> Nat]
  /\ LATE < Keep["raw"]
  /\ \A f \in Families : Guard[f] = "stats" => Keep["raw"] <= Keep[f]

ASSUME SessionAssumption == NoWorker \notin Workers

ASSUME BoundAssumption ==
  {AHEAD_DAYS, AHEAD_MONTHS, INTERVAL, PASS_TIME, MAX_TIME, MAX_MISSED, MAX_FAULTS,
   MAX_STOPS} \subseteq Nat

VARIABLES
  now,
  result,    \* each result: its state and started_at
  catalog,   \* each partition: absent, attached, detach pending, or detached
  holder,    \* whose session holds the retention advisory lock
  service,   \* lifecycle of StorageMaintenanceService in each worker
  timer,     \* when its next tick is due, and creations missed in a row
  tick,      \* the tick it is in
  faults, stops

vars == <<now, result, catalog, holder, service, timer, tick, faults, stops>>
-----------------------------------------------------------------------------
InPeriod(f, n, t) == Start[f][n] <= t /\ t < Start[f][n + 1]

(* The periods ensureRange creates at t: from the one that holds t to the   *)
(* last that starts within the horizon.                                     *)
Covered(f, t) ==
  {n \in Periods : \E c \in Periods :
     /\ InPeriod(f, c, t)
     /\ c <= n
     /\ IF Kind[f] = "day" THEN Start[f][n] <= t + AHEAD_DAYS ELSE n <= c + AHEAD_MONTHS}

(* What ensureRange creates for results, it creates for their aggregates.   *)
ASSUME AlignAssumption ==
  \A t \in 0..MAX_TIME : \A n \in Covered("raw", t), f \in Families :
    Guard[f] = "stats" =>
      \E m \in Covered(f, t) : Start[f][m] <= Start["raw"][n]
                               /\ Start["raw"][n + 1] <= Start[f][m + 1]

(* The longest from the start of one creation to the commit of the next,    *)
(* with MAX_MISSED missed in between and a pass in every tick.              *)
Gap == (MAX_MISSED + 1) * (INTERVAL + PASS_TIME) + 2 * PASS_TIME

(* What ensureRange creates outlasts that gap (schema.ts has the days ahead *)
(* exceed two intervals: one missed), and the calendar holds the clock.     *)
ASSUME AheadAssumption ==
  \A f \in Families, t \in 0..MAX_TIME :
    /\ \E n \in Periods : InPeriod(f, n, t)
    /\ \A n \in Periods :
         t < Start[f][n + 1] /\ Start[f][n] <= t + Gap => n \in Covered(f, t)

Attached(f, t) == \E n \in Periods : InPeriod(f, n, t) /\ catalog[f][n] = "attached"
Writing(r) == result[r].state \in {"probing", "open"}
Unfolded(r) == result[r].state = "stored"

Result == [state : {"none", "probing", "open", "stored", "folded", "gone"}, started : Nat]
Timer == [due : Nat, missed : Nat]
Steps == {"idle", "creating", "locking", "read", "work", "detach", "detaching",
          "drop", "close"}
Lists == {"pendings", "expired", "leftovers"}
Ticks == [step : Steps, at : Nat, family : 1..Len(Order), list : Lists, todo : SUBSET Periods]
NoTick == [step |-> "idle", at |-> 0, family |-> 1, list |-> "pendings", todo |-> {}]

Init ==
  /\ now = 0
  /\ result = [r \in Results |-> [state |-> "none", started |-> 0]]
  /\ catalog = [f \in Families |-> [n \in Periods |-> "absent"]]
  /\ holder = NoWorker
  /\ service = [w \in Workers |-> "down"]
  /\ timer = [w \in Workers |-> [due |-> 0, missed |-> 0]]
  /\ tick = [w \in Workers |-> NoTick]
  /\ faults = 0 /\ stops = 0

Fault == faults < MAX_FAULTS /\ faults' = faults + 1
-----------------------------------------------------------------------------
(* Results: the recorders and the rollup, as far as maintenance meets them. *)

database == <<catalog, holder>>
maintenance == <<service, timer, tick>>

StartProbe(r) ==
  /\ result[r].state = "none"
  /\ \E w \in Workers : service[w] = "running"
  /\ result' = [result EXCEPT ![r] = [state |-> "probing", started |-> now]]
  /\ UNCHANGED <<now, database, maintenance, faults, stops>>

(* The insert needs an attached partition: there is no DEFAULT one.         *)
InsertResult(r) ==
  /\ result[r].state = "probing"
  /\ Attached("raw", result[r].started)
  /\ result' = [result EXCEPT ![r].state = "open"]
  /\ UNCHANGED <<now, database, maintenance, faults, stops>>

CommitResult(r) ==
  /\ result[r].state = "open"
  /\ result' = [result EXCEPT ![r].state = "stored"]
  /\ UNCHANGED <<now, database, maintenance, faults, stops>>

AbortResult(r) ==
  /\ result[r].state = "open"
  /\ Fault
  /\ result' = [result EXCEPT ![r].state = "probing"]
  /\ UNCHANGED <<now, database, maintenance, stops>>

GiveUp(r) ==
  /\ result[r].state = "probing"
  /\ result' = [result EXCEPT ![r].state = "gone"]
  /\ UNCHANGED <<now, database, maintenance, faults, stops>>

(* A pass of the rollup folds what is below its horizon, if it finds the    *)
(* rows through the parent table and a partition for each of their cells.   *)
Fold(S) ==
  /\ S # {}
  /\ \A r \in S :
       /\ Unfolded(r)
       /\ \A f \in Families : Guard[f] # "none" => Attached(f, result[r].started)
  /\ result' = [r \in Results |-> IF r \in S THEN [result[r] EXCEPT !.state = "folded"]
                                  ELSE result[r]]
  /\ UNCHANGED <<now, database, maintenance, faults, stops>>
-----------------------------------------------------------------------------
(* PartitionService.ensure.                                                 *)

Creating == \E w \in Workers : tick[w].step = "creating"

(* Bound: at the end of the clock the timer fires again at once.            *)
Due(t) == IF t > MAX_TIME THEN MAX_TIME ELSE t

(* Bound: a creation that some tick already counts on does not fail.        *)
MayFail == \A w \in Workers : timer[w].missed <= MAX_MISSED

(* The creation lock is tried, not awaited: a tick that finds it taken      *)
(* leaves creating to its holder and goes on to retention.                  *)
TickFires(w) ==
  /\ service[w] = "running"
  /\ tick[w].step = "idle"
  /\ timer[w].due <= now
  /\ IF Creating
     THEN /\ timer[w].missed <= MAX_MISSED
          /\ timer' = [timer EXCEPT ![w].missed = @ + 1]
          /\ tick' = [tick EXCEPT ![w] = [NoTick EXCEPT !.step = "locking", !.at = now]]
     ELSE /\ tick' = [tick EXCEPT ![w] = [NoTick EXCEPT !.step = "creating", !.at = now]]
          /\ UNCHANGED timer
  /\ UNCHANGED <<now, result, database, service, faults, stops>>

(* One transaction.  A table of the partition's name, whatever it is, is    *)
(* taken for the partition.                                                 *)
CreateCommits(w) ==
  /\ tick[w].step = "creating"
  /\ catalog' = [f \in Families |-> [n \in Periods |->
       IF n \in Covered(f, tick[w].at) /\ catalog[f][n] = "absent" THEN "attached"
       ELSE catalog[f][n]]]
  /\ IF service[w] = "starting"
     THEN /\ service' = [service EXCEPT ![w] = "running"]
          /\ tick' = [tick EXCEPT ![w] = NoTick]
     ELSE /\ tick' = [tick EXCEPT ![w].step = "locking"]
          /\ UNCHANGED service
  /\ timer' = [v \in Workers |->
       [due |-> IF v = w /\ service[w] = "starting" THEN Due(now + INTERVAL)
                ELSE timer[v].due,
        missed |-> 0]]
  /\ UNCHANGED <<now, result, holder, faults, stops>>

(* Mutant: a tick that fails is the last.                                   *)
CreateFails_NotArmed(w) ==
  /\ tick[w].step = "creating"
  /\ MayFail /\ timer[w].missed < MAX_MISSED
  /\ IF service[w] = "starting"
     THEN service' = [service EXCEPT ![w] = "down"]
     ELSE UNCHANGED service
  /\ tick' = [tick EXCEPT ![w] = NoTick]
  /\ timer' = [timer EXCEPT ![w] = [due |-> MAX_TIME + 1, missed |-> @.missed + 1]]
  /\ UNCHANGED <<now, result, database, faults, stops>>

(* A failed creation ends the start of a worker, but not a tick.            *)
CreateFails(w) ==
  /\ tick[w].step = "creating"
  /\ MayFail /\ timer[w].missed < MAX_MISSED
  /\ IF service[w] = "starting"
     THEN /\ service' = [service EXCEPT ![w] = "down"]
          /\ tick' = [tick EXCEPT ![w] = NoTick]
     ELSE /\ tick' = [tick EXCEPT ![w].step = "locking"]
          /\ UNCHANGED service
  /\ timer' = [timer EXCEPT ![w].missed = @ + 1]
  /\ UNCHANGED <<now, result, database, faults, stops>>
-----------------------------------------------------------------------------
(* RetentionService.run.                                                    *)

(* The session of the lock lives as long as the pass; if another has it,    *)
(* the pass ends at once.                                                   *)
LockTried(w) ==
  /\ tick[w].step = "locking"
  /\ IF holder = NoWorker
     THEN holder' = w /\ tick' = [tick EXCEPT ![w].step = "read"]
     ELSE tick' = [tick EXCEPT ![w].step = "close"] /\ UNCHANGED holder
  /\ UNCHANGED <<now, result, catalog, service, timer, faults, stops>>

(* classify: the whole period ended at or before the cutoff.                *)
Expired(f, n, at) == Start[f][n + 1] <= at - Keep[f]

(* Mutant: the age of a partition is that of its first moment.              *)
Listed_ByStart(f, list, at) ==
  {n \in Periods :
     \/ list = "pendings" /\ catalog[f][n] = "pending"
     \/ list = "expired" /\ catalog[f][n] = "attached" /\ Start[f][n] <= at - Keep[f]
     \/ list = "leftovers" /\ catalog[f][n] = "detached" /\ Start[f][n] <= at - Keep[f]}

(* Mutant: an interrupted detach is not looked for.                         *)
Listed_NoPending(f, list, at) ==
  {n \in Periods :
     \/ list = "expired" /\ catalog[f][n] = "attached" /\ Expired(f, n, at)
     \/ list = "leftovers" /\ catalog[f][n] = "detached" /\ Expired(f, n, at)}

(* The three lists of runFamily, each read when its turn comes.             *)
Listed(f, list, at) ==
  {n \in Periods :
     \/ list = "pendings" /\ catalog[f][n] = "pending"
     \/ list = "expired" /\ catalog[f][n] = "attached" /\ Expired(f, n, at)
     \/ list = "leftovers" /\ catalog[f][n] = "detached" /\ Expired(f, n, at)}

(* The tick that is left with the partitions todo of its list: it takes the *)
(* next of them, or the next list, or the next family, or it is done.       *)
WithRest(t, todo) ==
  IF todo # {} THEN [t EXCEPT !.step = "work", !.todo = todo]
  ELSE IF t.list # "leftovers"
  THEN [t EXCEPT !.step = "read", !.todo = {},
                 !.list = IF t.list = "pendings" THEN "expired" ELSE "leftovers"]
  ELSE IF t.family < Len(Order)
  THEN [t EXCEPT !.step = "read", !.todo = {}, !.list = "pendings", !.family = @ + 1]
  ELSE [t EXCEPT !.step = "close", !.todo = {}]

Family(w) == Order[tick[w].family]
Oldest(w) == CHOOSE n \in tick[w].todo : \A m \in tick[w].todo : n <= m

(* Mutant: statements run on the pool, whatever became of the lock.         *)
OnSession_Pool(w) == TRUE

(* session.run: every detach and drop is a statement of the session that    *)
(* holds the lock, and cannot outlive it.                                   *)
OnSession(w) == holder = w

GoOn(w) == tick' = [tick EXCEPT ![w] = WithRest(@, @.todo \ {Oldest(w)})]

Mark(w, mark) == catalog' = [catalog EXCEPT ![Family(w)][Oldest(w)] = mark]

(* Reads go through the pool, whether or not the session still lives.       *)
ReadList(w) ==
  /\ tick[w].step = "read"
  /\ tick' = [tick EXCEPT ![w] = WithRest(@, Listed(Family(w), @.list, @.at))]
  /\ UNCHANGED <<now, result, database, service, timer, faults, stops>>

(* Mutant: only rows of the partition itself are looked at.                 *)
Blocked_RawOnly(f, n) ==
  /\ Guard[f] = "raw"
  /\ \E r \in Results : Unfolded(r) /\ InPeriod(f, n, result[r].started)

(* blockedBy: a committed result of the partition's range is not folded.    *)
Blocked(f, n) ==
  /\ Guard[f] # "none"
  /\ \E r \in Results : Unfolded(r) /\ InPeriod(f, n, result[r].started)

CheckGuard(w) ==
  /\ tick[w].step = "work" /\ tick[w].list = "expired"
  /\ IF Blocked(Family(w), Oldest(w)) THEN GoOn(w)
     ELSE tick' = [tick EXCEPT ![w].step = "detach"]
  /\ UNCHANGED <<now, result, database, service, timer, faults, stops>>

(* DETACH CONCURRENTLY commits twice: first that the detach is pending,     *)
(* then, when no transaction uses the partition, that it is done.  One      *)
(* detach of a parent is pending at a time.                                 *)
DetachBegins(w) ==
  /\ tick[w].step = "detach" /\ OnSession(w)
  /\ catalog[Family(w)][Oldest(w)] = "attached"
  /\ \A n \in Periods : catalog[Family(w)][n] # "pending"
  /\ Mark(w, "pending")
  /\ tick' = [tick EXCEPT ![w].step = "detaching"]
  /\ UNCHANGED <<now, result, holder, service, timer, faults, stops>>

DetachRefused(w) ==
  /\ tick[w].step = "detach" /\ OnSession(w)
  /\ \E n \in Periods : catalog[Family(w)][n] = "pending"
  /\ GoOn(w)
  /\ UNCHANGED <<now, result, database, service, timer, faults, stops>>

InUse(f, n) ==
  f = "raw" /\ \E r \in Results : result[r].state = "open" /\ InPeriod(f, n, result[r].started)

Detaching(w) ==
  \/ tick[w].step = "detaching"
  \/ tick[w].step = "work" /\ tick[w].list = "pendings"

(* The end of a detach, and FINALIZE for one that was interrupted.          *)
DetachEnds(w) ==
  /\ Detaching(w) /\ OnSession(w)
  /\ catalog[Family(w)][Oldest(w)] = "pending"
  /\ ~InUse(Family(w), Oldest(w))
  /\ Mark(w, "detached")
  /\ tick' = [tick EXCEPT ![w].step = "drop"]
  /\ UNCHANGED <<now, result, holder, service, timer, faults, stops>>

(* A lock timeout, behind a reader: the detach stays as it is for the next  *)
(* pass.                                                                    *)
DetachTimesOut(w) ==
  /\ Detaching(w) \/ tick[w].step = "detach"
  /\ OnSession(w)
  /\ Fault
  /\ GoOn(w)
  /\ UNCHANGED <<now, result, database, service, timer, stops>>

Dropping(w) == tick[w].step = "drop" \/ (tick[w].step = "work" /\ tick[w].list = "leftovers")

DropTable(w) ==
  /\ Dropping(w) /\ OnSession(w)
  /\ Mark(w, "absent")
  /\ result' = [r \in Results |->
       IF Family(w) = "raw" /\ InPeriod("raw", Oldest(w), result[r].started)
          /\ result[r].state \in {"stored", "folded"}
       THEN [result[r] EXCEPT !.state = "gone"] ELSE result[r]]
  /\ GoOn(w)
  /\ UNCHANGED <<now, holder, service, timer, faults, stops>>

EndTick(w) ==
  /\ tick' = [tick EXCEPT ![w] = NoTick]
  /\ timer' = [timer EXCEPT ![w].due = Due(now + INTERVAL)]
  /\ holder' = IF holder = w THEN NoWorker ELSE holder

(* Closing the session releases the lock; the tick is armed again.          *)
CloseSession(w) ==
  /\ tick[w].step = "close"
  /\ EndTick(w)
  /\ UNCHANGED <<now, result, catalog, service, faults, stops>>

(* Any statement of the pass may fail; a failure that is not a detach's     *)
(* ends it.                                                                 *)
PassFails(w) ==
  /\ tick[w].step \notin {"idle", "creating", "detach", "close"}
  /\ ~Detaching(w)
  /\ Fault
  /\ EndTick(w)
  /\ UNCHANGED <<now, result, catalog, service, stops>>

(* The session dies, and the lock with it.  A statement that is running is  *)
(* aborted; the pass learns of it at its next statement on the session.     *)
SessionLost(w) ==
  /\ holder = w
  /\ Fault
  /\ holder' = NoWorker
  /\ UNCHANGED <<now, result, catalog, maintenance, stops>>

SessionGone(w) ==
  /\ Dropping(w) \/ Detaching(w) \/ tick[w].step = "detach"
  /\ ~OnSession(w)
  /\ EndTick(w)
  /\ UNCHANGED <<now, result, catalog, service, faults, stops>>
-----------------------------------------------------------------------------
(* StorageMaintenanceService and the process around it.                     *)

(* onModuleInit creates, waiting its turn, before the worker probes.        *)
StartWorker(w) ==
  /\ service[w] = "down"
  /\ ~Creating
  /\ service' = [service EXCEPT ![w] = "starting"]
  /\ tick' = [tick EXCEPT ![w] = [NoTick EXCEPT !.step = "creating", !.at = now]]
  /\ UNCHANGED <<now, result, database, timer, faults, stops>>

Stop(w) ==
  /\ service[w] = "running"
  /\ stops < MAX_STOPS /\ stops' = stops + 1
  /\ service' = [service EXCEPT ![w] = "stopping"]
  /\ UNCHANGED <<now, result, database, timer, tick, faults>>

Exit(w) ==
  /\ service[w] = "stopping"
  /\ tick[w].step = "idle"
  /\ service' = [service EXCEPT ![w] = "down"]
  /\ UNCHANGED <<now, result, database, timer, tick, faults, stops>>

Crash(w) ==
  /\ service[w] # "down"
  /\ tick[w].step = "creating" => MayFail
  /\ stops < MAX_STOPS /\ stops' = stops + 1
  /\ service' = [service EXCEPT ![w] = "down"]
  /\ tick' = [tick EXCEPT ![w] = NoTick]
  /\ holder' = IF holder = w THEN NoWorker ELSE holder
  /\ UNCHANGED <<now, result, catalog, timer, faults>>

(* Time passes, but not over a timer that is due, the end of a tick, or the *)
(* last moment of a write.                                                  *)
Tick ==
  /\ now < MAX_TIME
  /\ \A w \in Workers :
       /\ service[w] = "running" /\ tick[w].step = "idle" => now < timer[w].due
       /\ tick[w].step # "idle" => now < tick[w].at + PASS_TIME
  /\ \A r \in Results : Writing(r) => now < result[r].started + LATE
  /\ now' = now + 1
  /\ UNCHANGED <<result, database, maintenance, faults, stops>>
-----------------------------------------------------------------------------
TickStep(w) ==
  \/ TickFires(w) \/ CreateCommits(w) \/ LockTried(w) \/ ReadList(w) \/ CheckGuard(w)
  \/ DetachBegins(w) \/ DetachRefused(w) \/ DetachEnds(w) \/ DropTable(w)
  \/ CloseSession(w) \/ SessionGone(w)

TickFault(w) == CreateFails(w) \/ DetachTimesOut(w) \/ PassFails(w) \/ SessionLost(w)

ServiceStep(w) == StartWorker(w) \/ Stop(w) \/ Exit(w) \/ Crash(w)

WriteStep(r) ==
  StartProbe(r) \/ InsertResult(r) \/ CommitResult(r) \/ AbortResult(r) \/ GiveUp(r)

Next ==
  \/ \E r \in Results : WriteStep(r)
  \/ \E S \in SUBSET Results : Fold(S)
  \/ \E w \in Workers : TickStep(w) \/ TickFault(w) \/ ServiceStep(w)
  \/ Tick

Spec == Init /\ [][Next]_vars

(* Time passes; a write that has begun ends; the rollup folds; a tick goes  *)
(* on; a stopping process exits and starts again.  Nothing makes a probe    *)
(* start, a statement fail or a process stop.                               *)
Fairness ==
  /\ WF_vars(Tick)
  /\ \A r \in Results : WF_vars(InsertResult(r) \/ CommitResult(r) \/ GiveUp(r))
  /\ WF_vars(\E S \in SUBSET Results : Fold(S))
  /\ \A w \in Workers : WF_vars(TickStep(w)) /\ WF_vars(StartWorker(w) \/ Exit(w))

FairSpec == Spec /\ Fairness
-----------------------------------------------------------------------------
TypeOK ==
  /\ now \in Nat
  /\ result \in [Results -> Result]
  /\ catalog \in [Families -> [Periods -> {"absent", "attached", "pending", "detached"}]]
  /\ holder \in Workers \cup {NoWorker}
  /\ service \in [Workers -> {"down", "starting", "running", "stopping"}]
  /\ timer \in [Workers -> Timer]
  /\ tick \in [Workers -> Ticks]
  /\ faults \in Nat /\ stops \in Nat

(* A result that is not folded yet stays where the rollup finds it, and     *)
(* with the aggregates it is to be folded into: no partition of either is   *)
(* retired, though the guard and the detach are two statements (D15).       *)
UnfoldedKept ==
  \A r \in Results, f \in Families :
    Unfolded(r) /\ Guard[f] # "none" => Attached(f, result[r].started)

(* What storage maintenance keeps: types, and every result until its fold.  *)
RetentionInv == TypeOK /\ UnfoldedKept

PastRetention(f, n) == Start[f][n + 1] + Keep[f] <= now

(* A partition is not retired while any of its period is within retention,  *)
(* whatever is interrupted, deferred or left over.                          *)
RetentionHonoured ==
  [][\A f \in Families, n \in Periods :
       catalog[f][n] = "attached" /\ ~PastRetention(f, n)
         => catalog'[f][n] = "attached"]_vars

(* A partition is detached or dropped only by the pass whose session holds  *)
(* the lock: a pass that has lost its session changes nothing (#68).        *)
RetiredUnderLock ==
  [][\A f \in Families, n \in Periods :
       catalog[f][n] # "absent" /\ catalog'[f][n] # catalog[f][n]
         => holder # NoWorker /\ tick'[holder] # tick[holder]]_vars

(* While a worker probes, there are partitions for what it writes.          *)
PartitionAtHand ==
  \A w \in Workers, f \in Families : service[w] = "running" => Attached(f, now)

(* Maintenance catches up again and again: no partition is left past its    *)
(* retention, whatever pass began to retire it, was deferred, or died.      *)
ExpiredRetired ==
  []<>(\A f \in Families, n \in Periods :
         PastRetention(f, n) => catalog[f][n] = "absent")
=============================================================================
