--------------------------- MODULE RetentionProofs ---------------------------
(***************************************************************************)
(* Theorems about storage maintenance, for any calendar, families, workers *)
(* and results: what retires partitions never takes a result that is not   *)
(* folded yet, nor one within its retention, nor without the lock, and     *)
(* what creates them stays ahead of the clock while a worker probes.       *)
(***************************************************************************)
EXTENDS Retention, WellFoundedInduction, TLAPS

-----------------------------------------------------------------------------
(* Constants and operators.                                                 *)

LEMMA FamilyTyped ==
  /\ Len(Order) \in Nat /\ 1 \in 1..Len(Order)
  /\ \A i \in 1..Len(Order) : Order[i] \in Families
  /\ "raw" \in Families /\ Guard["raw"] = "raw"
  /\ \A f \in Families : Keep[f] \in Nat
  /\ \A f \in Families : Guard[f] # "none" => f = "raw" \/ Guard[f] = "stats"
<1>1. Len(Order) \in Nat /\ "raw" \in Families
  BY FamilyAssumption
<1>2. 1 \in 1..Len(Order)
  BY <1>1 DEF Families
<1> QED BY <1>1, <1>2, FamilyAssumption, RetentionAssumption DEF Families

LEMMA PeriodTyped ==
  ASSUME NEW f \in Families, NEW n \in Periods
  PROVE  Start[f][n] \in Nat /\ Start[f][n + 1] \in Nat /\ n \in Nat
<1>1. LAST \in Nat /\ Start[f] \in [0..LAST + 1 -> Nat]
  BY CalendarAssumption
<1>2. n \in 0..LAST + 1 /\ n + 1 \in 0..LAST + 1
  BY <1>1 DEF Periods
<1> QED BY <1>1, <1>2 DEF Periods

(* A result is committed well within the retention of every partition it    *)
(* touches.                                                                 *)
LEMMA GuardedKeepsLonger ==
  ASSUME NEW f \in Families, Guard[f] # "none"
  PROVE  LATE \in Nat /\ Keep[f] \in Nat /\ LATE < Keep[f]
<1>1. LATE \in Nat /\ Keep["raw"] \in Nat /\ LATE < Keep["raw"] /\ Keep[f] \in Nat
  BY RetentionAssumption, FamilyTyped
<1>2. f = "raw" \/ Keep["raw"] <= Keep[f]
  BY RetentionAssumption, FamilyTyped
<1> QED BY <1>1, <1>2

LEMMA LeastOfSet ==
  ASSUME NEW S \in SUBSET Nat, S # {}
  PROVE  \E n \in S : \A m \in S : n <= m
<1> DEFINE R == {ss \in Nat \X Nat : ss[1] < ss[2]}
<1>1. OpToRel(<, Nat) = R
  BY DEF OpToRel
<1>2. IsWellFoundedOn(R, Nat)
  BY <1>1, NatLessThanWellFounded
<1>3. PICK x \in S : \A y \in S : <<y, x>> \notin R
  <2> HIDE DEF R
  <2> QED BY <1>2, WFMin
<1>4. ASSUME NEW y \in S PROVE x <= y
  <2>1. <<y, x>> \notin R /\ <<y, x>> \in Nat \X Nat
    BY <1>3
  <2>2. ~(y < x)
    BY <2>1
  <2> QED BY <2>2
<1> QED BY <1>4

LEMMA TickTyped ==
  ASSUME TypeOK, NEW w \in Workers
  PROVE  /\ tick[w] \in Ticks
         /\ tick[w].family \in 1..Len(Order) /\ Family(w) \in Families
         /\ tick[w].todo \subseteq Periods /\ tick[w].todo \subseteq Nat
         /\ tick[w].at \in Nat
<1>1. tick[w] \in Ticks /\ Periods \subseteq Nat
  BY CalendarAssumption DEF TypeOK, Periods
<1> QED BY <1>1, FamilyTyped DEF Ticks, Family

LEMMA OldestListed ==
  ASSUME TypeOK, NEW w \in Workers, tick[w].todo # {}
  PROVE  Oldest(w) \in tick[w].todo /\ Oldest(w) \in Periods
<1>1. \E n \in tick[w].todo : \A m \in tick[w].todo : n <= m
  BY TickTyped, LeastOfSet
<1> QED BY <1>1, TickTyped DEF Oldest

LEMMA WithRestTyped ==
  ASSUME NEW t \in Ticks, NEW todo \in SUBSET Periods
  PROVE  WithRest(t, todo) \in Ticks
<1>1. t.family < Len(Order) => t.family + 1 \in 1..Len(Order)
  BY FamilyTyped DEF Ticks
<1> QED BY <1>1 DEF WithRest, Ticks, Steps, Lists

LEMMA NoTickTyped == NoTick \in Ticks
BY FamilyTyped DEF NoTick, Ticks, Steps, Lists

-----------------------------------------------------------------------------
(* Type correctness.                                                        *)

LEMMA InitTyped == Init => TypeOK
BY NoTickTyped DEF Init, TypeOK, Result, Timer

LEMMA FaultTyped == TypeOK /\ Fault => faults' \in Nat
BY DEF TypeOK, Fault

LEMMA ResultsTyped ==
  ASSUME TypeOK
  PROVE  /\ \A r \in Results : WriteStep(r) => TypeOK'
         /\ \A S \in SUBSET Results : Fold(S) => TypeOK'
<1> USE DEF TypeOK, Result, database, maintenance
<1>1. ASSUME NEW r \in Results, StartProbe(r) PROVE TypeOK'
  BY <1>1 DEF StartProbe
<1>2. ASSUME NEW r \in Results, InsertResult(r) \/ CommitResult(r) \/ GiveUp(r) PROVE TypeOK'
  <2>1. CASE InsertResult(r)
    BY <2>1 DEF InsertResult
  <2>2. CASE CommitResult(r)
    BY <2>2 DEF CommitResult
  <2>3. CASE GiveUp(r)
    BY <2>3 DEF GiveUp
  <2> QED BY <1>2, <2>1, <2>2, <2>3
<1>3. ASSUME NEW r \in Results, AbortResult(r) PROVE TypeOK'
  BY <1>3 DEF AbortResult, Fault
<1>4. ASSUME NEW S \in SUBSET Results, Fold(S) PROVE TypeOK'
  BY <1>4 DEF Fold
<1> QED BY <1>1, <1>2, <1>3, <1>4 DEF WriteStep

LEMMA DueTyped == ASSUME NEW t \in Nat PROVE Due(t) \in Nat
BY BoundAssumption DEF Due

LEMMA EndTickTyped ==
  ASSUME TypeOK, NEW w \in Workers, EndTick(w)
  PROVE  /\ tick' \in [Workers -> Ticks] /\ timer' \in [Workers -> Timer]
         /\ holder' \in Workers \cup {NoWorker}
<1>1. now + INTERVAL \in Nat
  BY BoundAssumption DEF TypeOK
<1> QED BY <1>1, NoTickTyped, DueTyped DEF EndTick, TypeOK, Timer

LEMMA GoOnTyped ==
  ASSUME TypeOK, NEW w \in Workers, GoOn(w)
  PROVE  tick' \in [Workers -> Ticks]
<1>1. tick[w].todo \ {Oldest(w)} \in SUBSET Periods
  BY TickTyped
<1>2. WithRest(tick[w], tick[w].todo \ {Oldest(w)}) \in Ticks
  BY <1>1, TickTyped, WithRestTyped
<1> QED BY <1>2 DEF GoOn, TypeOK

LEMMA MarkTyped ==
  ASSUME TypeOK, NEW w \in Workers, tick[w].todo # {},
         NEW mark \in {"absent", "attached", "pending", "detached"}, Mark(w, mark)
  PROVE  catalog' \in [Families -> [Periods -> {"absent", "attached", "pending", "detached"}]]
BY TickTyped, OldestListed DEF Mark, TypeOK

LEMMA StepNamed ==
  ASSUME TypeOK, NEW w \in Workers, NEW s \in Steps, tick' = [tick EXCEPT ![w].step = s]
  PROVE  tick' \in [Workers -> Ticks]
BY DEF TypeOK, Ticks

LEMMA CreateTyped ==
  ASSUME TypeOK, NEW w \in Workers,
         TickFires(w) \/ CreateCommits(w) \/ CreateFails(w) \/ StartWorker(w)
  PROVE  TypeOK'
<1>0. now + INTERVAL \in Nat /\ Due(now + INTERVAL) \in Nat
      /\ \A v \in Workers : timer[v] \in Timer /\ timer[v].missed + 1 \in Nat
  BY BoundAssumption, DueTyped DEF TypeOK, Timer
<1>1. ASSUME NEW s \in Steps, tick' = [tick EXCEPT ![w] = [NoTick EXCEPT !.step = s, !.at = now]]
      PROVE  tick' \in [Workers -> Ticks]
  <2>1. [NoTick EXCEPT !.step = s, !.at = now] \in Ticks
    BY NoTickTyped DEF Ticks, TypeOK
  <2> QED BY <1>1, <2>1 DEF TypeOK
<1>2. CASE TickFires(w)
  <2>1. tick' \in [Workers -> Ticks]
    BY <1>1, <1>2 DEF TickFires, Steps
  <2>2. timer' \in [Workers -> Timer]
    BY <1>0, <1>2 DEF TickFires, TypeOK, Timer
  <2> QED BY <1>2, <2>1, <2>2 DEF TickFires, TypeOK, database
<1>3. CASE CreateCommits(w)
  <2>1. tick' \in [Workers -> Ticks]
    BY <1>3, StepNamed, NoTickTyped DEF CreateCommits, TypeOK, Steps
  <2>2. timer' \in [Workers -> Timer]
    BY <1>0, <1>3 DEF CreateCommits, Timer
  <2>3. catalog' \in [Families -> [Periods -> {"absent", "attached", "pending", "detached"}]]
    BY <1>3 DEF CreateCommits, TypeOK
  <2>4. service' \in [Workers -> {"down", "starting", "running", "stopping"}]
    BY <1>3 DEF CreateCommits, TypeOK
  <2> QED BY <1>3, <2>1, <2>2, <2>3, <2>4 DEF CreateCommits, TypeOK
<1>4. CASE CreateFails(w)
  <2>1. tick' \in [Workers -> Ticks]
    BY <1>4, StepNamed, NoTickTyped DEF CreateFails, TypeOK, Steps
  <2>2. timer' \in [Workers -> Timer]
    BY <1>0, <1>4 DEF CreateFails, TypeOK, Timer
  <2> QED BY <1>4, <2>1, <2>2 DEF CreateFails, TypeOK, database
<1>5. CASE StartWorker(w)
  <2>1. tick' \in [Workers -> Ticks]
    BY <1>1, <1>5 DEF StartWorker, Steps
  <2> QED BY <1>5, <2>1 DEF StartWorker, TypeOK, database
<1> QED BY <1>2, <1>3, <1>4, <1>5

LEMMA ServiceTyped ==
  ASSUME TypeOK, NEW w \in Workers, Stop(w) \/ Exit(w) \/ Crash(w)
  PROVE  TypeOK'
<1>1. CASE Stop(w) \/ Exit(w)
  BY <1>1 DEF Stop, Exit, TypeOK, database
<1>2. CASE Crash(w)
  BY <1>2, NoTickTyped DEF Crash, TypeOK
<1> QED BY <1>1, <1>2

(* The tick of a pass has partitions in hand whenever it works on one.      *)
Working == {"work", "detach", "detaching", "drop"}

WorkInHand == \A w \in Workers : tick[w].step \in Working => tick[w].todo # {}

PassStep(w) ==
  \/ LockTried(w) \/ ReadList(w) \/ CheckGuard(w) \/ DetachBegins(w) \/ DetachRefused(w)
  \/ DetachEnds(w) \/ DropTable(w) \/ CloseSession(w) \/ SessionGone(w)
  \/ DetachTimesOut(w) \/ PassFails(w) \/ SessionLost(w)

LEMMA PassTyped ==
  ASSUME TypeOK, WorkInHand, NEW w \in Workers, PassStep(w)
  PROVE  TypeOK'
<1> USE DEF database, maintenance
<1>1. CASE LockTried(w)
  <2>1. tick' \in [Workers -> Ticks]
    BY <1>1, StepNamed DEF LockTried, Steps
  <2> QED BY <1>1, <2>1 DEF LockTried, TypeOK
<1>2. CASE ReadList(w)
  <2>1. Listed(Family(w), tick[w].list, tick[w].at) \in SUBSET Periods
    BY DEF Listed
  <2>2. WithRest(tick[w], Listed(Family(w), tick[w].list, tick[w].at)) \in Ticks
    BY <2>1, TickTyped, WithRestTyped
  <2>3. tick' \in [Workers -> Ticks]
    BY <1>2, <2>2 DEF ReadList, TypeOK
  <2> QED BY <1>2, <2>3 DEF ReadList, TypeOK
<1>3. CASE CheckGuard(w)
  <2>1. tick' \in [Workers -> Ticks]
    BY <1>3, StepNamed, GoOnTyped DEF CheckGuard, Steps
  <2> QED BY <1>3, <2>1 DEF CheckGuard, TypeOK
<1>4. CASE DetachBegins(w)
  <2>1. tick' \in [Workers -> Ticks]
    BY <1>4, StepNamed DEF DetachBegins, Steps
  <2>2. tick[w].todo # {}
    BY <1>4 DEF DetachBegins, WorkInHand, Working
  <2> QED BY <1>4, <2>1, <2>2, MarkTyped DEF DetachBegins, TypeOK
<1>5. CASE DetachEnds(w)
  <2>1. tick' \in [Workers -> Ticks]
    BY <1>5, StepNamed DEF DetachEnds, Steps
  <2>2. tick[w].todo # {}
    BY <1>5 DEF DetachEnds, Detaching, WorkInHand, Working
  <2> QED BY <1>5, <2>1, <2>2, MarkTyped DEF DetachEnds, TypeOK
<1>6. CASE DropTable(w)
  <2>1. tick' \in [Workers -> Ticks]
    BY <1>6, GoOnTyped DEF DropTable
  <2>2. tick[w].todo # {}
    BY <1>6 DEF DropTable, Dropping, WorkInHand, Working
  <2>3. result' \in [Results -> Result]
    BY <1>6 DEF DropTable, TypeOK, Result
  <2> QED BY <1>6, <2>1, <2>2, <2>3, MarkTyped DEF DropTable, TypeOK
<1>7. CASE DetachRefused(w)
  BY <1>7, GoOnTyped DEF DetachRefused, TypeOK
<1>8. CASE CloseSession(w) \/ SessionGone(w)
  BY <1>8, EndTickTyped DEF CloseSession, SessionGone, TypeOK
<1>9. CASE DetachTimesOut(w)
  BY <1>9, GoOnTyped, FaultTyped DEF DetachTimesOut, TypeOK
<1>10. CASE PassFails(w)
  BY <1>10, EndTickTyped, FaultTyped DEF PassFails, TypeOK
<1>11. CASE SessionLost(w)
  BY <1>11, FaultTyped DEF SessionLost, TypeOK
<1> QED BY <1>1, <1>2, <1>3, <1>4, <1>5, <1>6, <1>7, <1>8, <1>9, <1>10, <1>11 DEF PassStep

LEMMA NextTyped == TypeOK /\ WorkInHand /\ [Next]_vars => TypeOK'
<1> SUFFICES ASSUME TypeOK, WorkInHand, [Next]_vars PROVE TypeOK'
  OBVIOUS
<1>1. CASE Tick
  BY <1>1 DEF Tick, TypeOK, database, maintenance
<1>2. CASE UNCHANGED vars
  BY <1>2 DEF TypeOK, vars
<1>3. ASSUME NEW w \in Workers, TickStep(w) \/ TickFault(w) \/ ServiceStep(w) PROVE TypeOK'
  BY <1>3, CreateTyped, ServiceTyped, PassTyped DEF TickStep, TickFault, ServiceStep, PassStep
<1> QED BY <1>1, <1>2, <1>3, ResultsTyped DEF Next
-----------------------------------------------------------------------------
(* The inductive invariant.  A partition is doomed once it is past its      *)
(* retention and holds nothing the rollup still needs: nothing can change   *)
(* that again, and only such a partition is ever taken from its parent.     *)

Emptied(f, n) ==
  Guard[f] # "none" => \A r \in Results : Unfolded(r) => ~InPeriod(f, n, result[r].started)

Doomed(f, n) == PastRetention(f, n) /\ Emptied(f, n)

TimeInv == now <= MAX_TIME /\ \A w \in Workers : tick[w].at <= now

WritesInTime ==
  \A r \in Results : Writing(r) => now <= result[r].started + LATE

OpenAttached ==
  \A r \in Results : result[r].state = "open" => Attached("raw", result[r].started)

RetiredDoomed ==
  \A f \in Families, n \in Periods : catalog[f][n] \in {"pending", "detached"} => Doomed(f, n)

(* The partition for the aggregates of a raw partition's results.           *)
Encloses(f, m, n) ==
  Start[f][m] <= Start["raw"][n] /\ Start["raw"][n + 1] <= Start[f][m + 1]

CellsAtHand ==
  \A n \in Periods, f \in Families :
    catalog["raw"][n] = "attached" /\ Guard[f] = "stats" =>
      \E m \in Periods : /\ Encloses(f, m, n)
                         /\ catalog[f][m] = "attached" \/ PastRetention(f, m)

Taken == {"detach", "detaching", "drop"}

Listing(w) ==
  /\ \A n \in tick[w].todo :
       /\ PastRetention(Family(w), n)
       /\ tick[w].list # "expired" => Emptied(Family(w), n)
  /\ tick[w].step \in Working => tick[w].todo # {}
  /\ tick[w].step \in Taken => Emptied(Family(w), Oldest(w))

ListsDoomed == \A w \in Workers : Listing(w)

KeptInv ==
  /\ TypeOK /\ UnfoldedKept
  /\ TimeInv /\ WritesInTime /\ OpenAttached /\ RetiredDoomed /\ CellsAtHand /\ ListsDoomed

LEMMA KeptInHand == KeptInv => WorkInHand
BY DEF KeptInv, ListsDoomed, Listing, WorkInHand

-----------------------------------------------------------------------------
(* Why doom is final.                                                       *)

(* What is being written lies within the retention of every partition that  *)
(* it touches.                                                              *)
LEMMA WritingNotPast ==
  ASSUME KeptInv, NEW r \in Results, Writing(r), NEW f \in Families, Guard[f] # "none",
         NEW n \in Periods, InPeriod(f, n, result[r].started)
  PROVE  ~PastRetention(f, n)
<1>1. result[r].started \in Nat /\ now \in Nat /\ Start[f][n + 1] \in Nat
  BY PeriodTyped DEF KeptInv, TypeOK, Result
<1>2. LATE \in Nat /\ Keep[f] \in Nat /\ LATE < Keep[f]
  BY GuardedKeepsLonger
<1>3. now <= result[r].started + LATE /\ result[r].started < Start[f][n + 1]
  BY DEF KeptInv, WritesInTime, InPeriod
<1> QED BY <1>1, <1>2, <1>3 DEF PastRetention

(* What a step may do to time and results: a result is stored only by a     *)
(* commit of one that was being written, and never moves.                   *)
Settles ==
  /\ now' \in Nat /\ now <= now'
  /\ \A r \in Results :
       /\ Unfolded(r)' => /\ result'[r].started = result[r].started
                          /\ Unfolded(r) \/ result[r].state = "open"
       /\ Writing(r)' => \/ result'[r].started = result[r].started /\ Writing(r)
                         \/ result'[r].started = now

LEMMA StepSettles == KeptInv /\ [Next]_vars => Settles
<1> SUFFICES ASSUME KeptInv, [Next]_vars PROVE Settles
  OBVIOUS
<1>0. now \in Nat /\ result \in [Results -> Result]
  BY DEF KeptInv, TypeOK
<1> USE DEF Unfolded, Writing
<1>1. ASSUME UNCHANGED <<now, result>> PROVE Settles
  BY <1>0, <1>1 DEF Settles
<1>2. ASSUME NEW r \in Results, WriteStep(r) PROVE Settles
  <2>1. CASE StartProbe(r)
    BY <1>0, <2>1 DEF StartProbe, Settles, Result
  <2>2. CASE InsertResult(r) \/ CommitResult(r) \/ AbortResult(r) \/ GiveUp(r)
    BY <1>0, <2>2 DEF InsertResult, CommitResult, AbortResult, GiveUp, Settles, Result
  <2> QED BY <1>2, <2>1, <2>2 DEF WriteStep
<1>3. ASSUME NEW S \in SUBSET Results, Fold(S) PROVE Settles
  BY <1>0, <1>3 DEF Fold, Settles, Result
<1>4. ASSUME NEW w \in Workers, DropTable(w) PROVE Settles
  BY <1>0, <1>4 DEF DropTable, Settles, Result
<1>5. CASE Tick
  BY <1>0, <1>5 DEF Tick, Settles
<1>6. ASSUME NEW w \in Workers, TickStep(w) \/ TickFault(w) \/ ServiceStep(w), ~DropTable(w)
      PROVE  Settles
  BY <1>1, <1>6
  DEF TickStep, TickFault, ServiceStep, TickFires, CreateCommits, LockTried, ReadList,
      CheckGuard, DetachBegins, DetachRefused, DetachEnds, CloseSession, SessionGone,
      CreateFails, DetachTimesOut, PassFails, SessionLost, StartWorker, Stop, Exit, Crash
<1>7. CASE UNCHANGED vars
  BY <1>1, <1>7 DEF vars
<1> QED BY <1>2, <1>3, <1>4, <1>5, <1>6, <1>7 DEF Next

LEMMA PastStays ==
  ASSUME KeptInv, Settles, NEW f \in Families, NEW n \in Periods, PastRetention(f, n)
  PROVE  PastRetention(f, n)'
<1>1. now \in Nat /\ now' \in Nat /\ now <= now' /\ Start[f][n + 1] \in Nat /\ Keep[f] \in Nat
  BY PeriodTyped, FamilyTyped DEF KeptInv, TypeOK, Settles
<1> QED BY <1>1 DEF PastRetention

LEMMA DoomStays ==
  ASSUME KeptInv, Settles, NEW f \in Families, NEW n \in Periods, Doomed(f, n)
  PROVE  Doomed(f, n)'
<1>1. PastRetention(f, n)'
  BY PastStays DEF Doomed
<1>2. ASSUME Guard[f] # "none", NEW r \in Results, Unfolded(r)'
      PROVE  ~InPeriod(f, n, result'[r].started)
  <2>1. result'[r].started = result[r].started
        /\ (Unfolded(r) \/ result[r].state = "open")
    BY <1>2 DEF Settles
  <2>2. CASE Unfolded(r)
    BY <1>2, <2>1, <2>2 DEF Doomed, Emptied
  <2>3. CASE result[r].state = "open"
    BY <1>2, <2>1, <2>3, WritingNotPast DEF Doomed, Writing
  <2> QED BY <2>1, <2>2, <2>3
<1> QED BY <1>1, <1>2 DEF Doomed, Emptied, InPeriod

-----------------------------------------------------------------------------
(* What a step does to the catalog.                                         *)

Partition(f, n) ==
  \/ catalog'[f][n] = catalog[f][n]
  \/ Doomed(f, n)
  \/ catalog[f][n] = "absent" /\ catalog'[f][n] = "attached"

Marks(w) == DetachBegins(w) \/ DetachEnds(w) \/ DropTable(w)

(* The partition a pass takes is doomed: it was listed as such, or the      *)
(* guard was read before.                                                   *)
LEMMA MarkedDoomed ==
  ASSUME KeptInv, NEW w \in Workers, Marks(w)
  PROVE  /\ tick[w].todo # {} /\ Oldest(w) \in tick[w].todo /\ Oldest(w) \in Periods
         /\ Doomed(Family(w), Oldest(w))
<1>1. TypeOK /\ Listing(w)
  BY DEF KeptInv, ListsDoomed
<1>2. tick[w].step \in Working
      /\ (tick[w].step \in Taken \/ tick[w].list # "expired")
  BY DEF Marks, DetachBegins, DetachEnds, DropTable, Detaching, Dropping, Working, Taken
<1>3. tick[w].todo # {}
  BY <1>1, <1>2 DEF Listing
<1>4. Oldest(w) \in tick[w].todo /\ Oldest(w) \in Periods
  BY <1>1, <1>3, OldestListed
<1>5. PastRetention(Family(w), Oldest(w)) /\ Emptied(Family(w), Oldest(w))
  BY <1>1, <1>2, <1>4 DEF Listing
<1> QED BY <1>3, <1>4, <1>5 DEF Doomed

LEMMA MarksPartition ==
  ASSUME KeptInv, NEW w \in Workers, Marks(w), NEW f \in Families, NEW n \in Periods
  PROVE  \/ catalog'[f][n] = catalog[f][n]
         \/ f = Family(w) /\ n = Oldest(w) /\ Doomed(f, n) /\ holder = w
<1>1. PICK mark : Mark(w, mark) /\ holder = w
  BY DEF Marks, DetachBegins, DetachEnds, DropTable, OnSession
<1>2. catalog \in [Families -> [Periods -> {"absent", "attached", "pending", "detached"}]]
  BY DEF KeptInv, TypeOK
<1>3. Family(w) \in Families
  BY TickTyped DEF KeptInv
<1>4. f # Family(w) \/ n # Oldest(w) => catalog'[f][n] = catalog[f][n]
  BY <1>1, <1>2, <1>3 DEF Mark
<1> QED BY <1>1, <1>4, MarkedDoomed

LEMMA CreatePartition ==
  ASSUME KeptInv, NEW w \in Workers, CreateCommits(w), NEW f \in Families, NEW n \in Periods
  PROVE  \/ catalog'[f][n] = catalog[f][n]
         \/ /\ catalog[f][n] = "absent" /\ catalog'[f][n] = "attached"
            /\ n \in Covered(f, tick[w].at)
BY DEF CreateCommits

LEMMA CatalogKept ==
  ASSUME [Next]_vars, ~\E w \in Workers : Marks(w) \/ CreateCommits(w)
  PROVE  UNCHANGED catalog
<1>1. ASSUME NEW r \in Results, WriteStep(r) PROVE UNCHANGED catalog
  BY <1>1 DEF WriteStep, StartProbe, InsertResult, CommitResult, AbortResult, GiveUp, database
<1>2. ASSUME NEW S \in SUBSET Results, Fold(S) PROVE UNCHANGED catalog
  BY <1>2 DEF Fold, database
<1>3. ASSUME NEW w \in Workers, TickStep(w) \/ TickFault(w) \/ ServiceStep(w),
             ~Marks(w), ~CreateCommits(w)
      PROVE  UNCHANGED catalog
  BY <1>3
  DEF TickStep, TickFault, ServiceStep, Marks, TickFires, LockTried, ReadList, CheckGuard,
      DetachRefused, CloseSession, SessionGone, CreateFails, DetachTimesOut, PassFails,
      SessionLost, StartWorker, Stop, Exit, Crash, database
<1>4. CASE Tick \/ UNCHANGED vars
  BY <1>4 DEF Tick, vars, database
<1> QED BY <1>1, <1>2, <1>3, <1>4 DEF Next

LEMMA PartitionMoves ==
  ASSUME KeptInv, [Next]_vars, NEW f \in Families, NEW n \in Periods
  PROVE  Partition(f, n)
BY MarksPartition, CreatePartition, CatalogKept DEF Partition

(* A partition that is attached and not doomed stays attached.              *)
LEMMA AttachedStays ==
  ASSUME KeptInv, [Next]_vars, NEW f \in Families, NEW n \in Periods,
         catalog[f][n] = "attached", ~Doomed(f, n)
  PROVE  catalog'[f][n] = "attached"
BY PartitionMoves DEF Partition
-----------------------------------------------------------------------------
(* Results and their partitions.                                            *)

(* A result about to commit has an attached partition, not past retention,  *)
(* in the raw family and in every family it is folded into.                 *)
LEMMA OpenHasCells ==
  ASSUME KeptInv, NEW r \in Results, result[r].state = "open",
         NEW f \in Families, Guard[f] # "none"
  PROVE  \E n \in Periods : /\ InPeriod(f, n, result[r].started)
                            /\ catalog[f][n] = "attached" /\ ~PastRetention(f, n)
<1>1. PICK n \in Periods : InPeriod("raw", n, result[r].started) /\ catalog["raw"][n] = "attached"
  BY DEF KeptInv, OpenAttached, Attached
<1>2. Writing(r) /\ "raw" \in Families /\ Guard["raw"] # "none"
  BY FamilyTyped DEF Writing
<1>3. CASE f = "raw"
  BY <1>1, <1>2, <1>3, WritingNotPast
<1>4. CASE Guard[f] = "stats"
  <2>1. PICK m \in Periods : /\ Encloses(f, m, n)
                             /\ catalog[f][m] = "attached" \/ PastRetention(f, m)
    BY <1>1, <1>4 DEF KeptInv, CellsAtHand
  <2>2. /\ Start[f][m] \in Nat /\ Start[f][m + 1] \in Nat
        /\ Start["raw"][n] \in Nat /\ Start["raw"][n + 1] \in Nat /\ result[r].started \in Nat
    BY <1>2, PeriodTyped DEF KeptInv, TypeOK, Result
  <2>3. InPeriod(f, m, result[r].started)
    BY <1>1, <2>1, <2>2 DEF InPeriod, Encloses
  <2>4. ~PastRetention(f, m)
    BY <1>2, <2>3, WritingNotPast
  <2> QED BY <2>1, <2>3, <2>4
<1> QED BY <1>3, <1>4, FamilyTyped

LEMMA UnfoldedStep == KeptInv /\ [Next]_vars => UnfoldedKept'
<1> SUFFICES ASSUME KeptInv, [Next]_vars,
                    NEW r \in Results, NEW f \in Families, Unfolded(r)', Guard[f] # "none"
             PROVE  Attached(f, result[r].started)'
  BY DEF UnfoldedKept
<1>1. result'[r].started = result[r].started /\ (Unfolded(r) \/ result[r].state = "open")
  BY StepSettles DEF Settles
<1>2. \E n \in Periods : /\ InPeriod(f, n, result[r].started)
                         /\ catalog[f][n] = "attached" /\ ~Doomed(f, n)
  <2>1. CASE Unfolded(r)
    BY <2>1 DEF KeptInv, UnfoldedKept, Attached, Doomed, Emptied
  <2>2. CASE result[r].state = "open"
    BY <2>2, OpenHasCells DEF Doomed
  <2> QED BY <1>1, <2>1, <2>2
<1>3. PICK n \in Periods : /\ InPeriod(f, n, result[r].started)
                           /\ catalog'[f][n] = "attached"
  BY <1>2, AttachedStays
<1> QED BY <1>1, <1>3 DEF Attached, InPeriod

LEMMA WritesStep == KeptInv /\ [Next]_vars => WritesInTime'
<1> SUFFICES ASSUME KeptInv, [Next]_vars, NEW r \in Results, Writing(r)'
             PROVE  now' <= result'[r].started + LATE
  BY DEF WritesInTime
<1>0. now \in Nat /\ LATE \in Nat
  BY RetentionAssumption DEF KeptInv, TypeOK
<1>1. \/ result'[r].started = result[r].started /\ Writing(r)
      \/ result'[r].started = now
  BY StepSettles DEF Settles
<1>2. CASE Tick
  <2>1. now' = now + 1 /\ result' = result /\ Writing(r) /\ now < result[r].started + LATE
    BY <1>2 DEF Tick, Writing
  <2>2. result[r].started \in Nat
    BY DEF KeptInv, TypeOK, Result
  <2> QED BY <1>0, <2>1, <2>2
<1>3. CASE now' = now
  <2>1. result'[r].started = result[r].started /\ Writing(r)
          => now <= result'[r].started + LATE
    BY DEF KeptInv, WritesInTime
  <2> QED BY <1>0, <1>1, <1>3, <2>1
<1>4. now' = now \/ Tick
  BY DEF Next, vars, WriteStep, StartProbe, InsertResult, CommitResult, AbortResult, GiveUp, Fold,
         TickStep, TickFault, ServiceStep, TickFires, CreateCommits, LockTried, ReadList,
         CheckGuard, DetachBegins, DetachRefused, DetachEnds, DropTable, CloseSession,
         SessionGone, CreateFails, DetachTimesOut, PassFails, SessionLost, StartWorker,
         Stop, Exit, Crash
<1> QED BY <1>2, <1>3, <1>4

(* Only an insert opens a row, and it finds the partition attached.         *)
LEMMA OpensAttached ==
  ASSUME KeptInv, [Next]_vars, NEW r \in Results, result'[r].state = "open"
  PROVE  /\ result'[r].started = result[r].started
         /\ result[r].state = "open"
            \/ (Attached("raw", result[r].started) /\ UNCHANGED catalog)
<1>0. result \in [Results -> Result]
  BY DEF KeptInv, TypeOK
<1>1. ASSUME NEW q \in Results, InsertResult(q)
      PROVE  /\ result'[r].started = result[r].started
             /\ result[r].state = "open"
                \/ (Attached("raw", result[r].started) /\ UNCHANGED catalog)
  <2>1. CASE q = r
    BY <1>0, <1>1, <2>1 DEF InsertResult, Result, database
  <2>2. CASE q # r
    BY <1>0, <1>1, <2>2 DEF InsertResult
  <2> QED BY <2>1, <2>2
<1>2. ASSUME NEW q \in Results, StartProbe(q) \/ CommitResult(q) \/ AbortResult(q) \/ GiveUp(q)
      PROVE  result'[r] = result[r]
  BY <1>0, <1>2 DEF StartProbe, CommitResult, AbortResult, GiveUp, Result
<1>3. ASSUME NEW S \in SUBSET Results, Fold(S)
      PROVE  result'[r] = result[r]
  BY <1>0, <1>3 DEF Fold, Result
<1>4. ASSUME NEW w \in Workers, DropTable(w)
      PROVE  result'[r] = result[r]
  BY <1>0, <1>4 DEF DropTable, Result
<1>5. ASSUME NEW w \in Workers, TickStep(w) \/ TickFault(w) \/ ServiceStep(w), ~DropTable(w)
      PROVE  result' = result
  BY <1>5
  DEF TickStep, TickFault, ServiceStep, TickFires, CreateCommits, LockTried, ReadList,
      CheckGuard, DetachBegins, DetachRefused, DetachEnds, CloseSession, SessionGone,
      CreateFails, DetachTimesOut, PassFails, SessionLost, StartWorker, Stop, Exit, Crash
<1>6. CASE Tick \/ UNCHANGED vars
  BY <1>6 DEF Tick, vars
<1> QED BY <1>1, <1>2, <1>3, <1>4, <1>5, <1>6 DEF Next, WriteStep

LEMMA OpenStep == KeptInv /\ [Next]_vars => OpenAttached'
<1> SUFFICES ASSUME KeptInv, [Next]_vars, NEW r \in Results, result'[r].state = "open"
             PROVE  Attached("raw", result[r].started)'
  BY DEF OpenAttached
<1>1. result'[r].started = result[r].started
  BY OpensAttached
<1>2. CASE result[r].state = "open"
  <2>1. \E n \in Periods : /\ InPeriod("raw", n, result[r].started)
                           /\ catalog["raw"][n] = "attached" /\ ~Doomed("raw", n)
    BY <1>2, OpenHasCells, FamilyTyped DEF Doomed
  <2>2. \E n \in Periods : /\ InPeriod("raw", n, result[r].started)
                           /\ catalog'["raw"][n] = "attached"
    BY <2>1, AttachedStays, FamilyTyped
  <2> QED BY <1>1, <2>2 DEF Attached, InPeriod
<1>3. CASE Attached("raw", result[r].started) /\ UNCHANGED catalog
  BY <1>1, <1>3 DEF Attached, InPeriod
<1> QED BY <1>2, <1>3, OpensAttached

-----------------------------------------------------------------------------
(* Partitions of the aggregates.                                            *)

LEMMA RetiredStep == KeptInv /\ [Next]_vars => RetiredDoomed'
<1> SUFFICES ASSUME KeptInv, [Next]_vars, NEW f \in Families, NEW n \in Periods,
                    catalog'[f][n] \in {"pending", "detached"}
             PROVE  Doomed(f, n)'
  BY DEF RetiredDoomed
<1>1. Doomed(f, n)
  BY PartitionMoves DEF Partition, KeptInv, RetiredDoomed
<1> QED BY <1>1, StepSettles, DoomStays

LEMMA CellsStep == KeptInv /\ [Next]_vars => CellsAtHand'
<1> SUFFICES ASSUME KeptInv, [Next]_vars, NEW n \in Periods, NEW f \in Families,
                    catalog'["raw"][n] = "attached", Guard[f] = "stats"
             PROVE  \E m \in Periods : /\ Encloses(f, m, n)
                                       /\ catalog'[f][m] = "attached" \/ PastRetention(f, m)'
  BY DEF CellsAtHand, Encloses
<1>0. "raw" \in Families
  BY FamilyTyped
<1>1. CASE catalog["raw"][n] = "attached"
  <2>1. PICK m \in Periods : /\ Encloses(f, m, n)
                             /\ catalog[f][m] = "attached" \/ PastRetention(f, m)
    BY <1>1 DEF KeptInv, CellsAtHand
  <2>2. PastRetention(f, m) => PastRetention(f, m)'
    BY PastStays, StepSettles
  <2>3. catalog[f][m] = "attached" => catalog'[f][m] = "attached" \/ PastRetention(f, m)
    BY AttachedStays DEF Doomed
  <2> QED BY <2>1, <2>2, <2>3
<1>2. CASE catalog["raw"][n] # "attached"
  <2>1. PICK w \in Workers : CreateCommits(w)
    <3>1. catalog'["raw"][n] # catalog["raw"][n]
      BY <1>2
    <3>2. PICK v \in Workers : Marks(v) \/ CreateCommits(v)
      BY <3>1, CatalogKept
    <3>3. ~Marks(v)
      <4> SUFFICES ASSUME Marks(v) PROVE FALSE
        OBVIOUS
      <4>1. "raw" = Family(v) /\ n = Oldest(v)
        BY <1>0, <3>1, MarksPartition
      <4>2. PICK mark \in {"absent", "pending", "detached"} : Mark(v, mark)
        BY DEF Marks, DetachBegins, DetachEnds, DropTable
      <4>3. catalog'["raw"][n] = mark
        BY <1>0, <4>1, <4>2 DEF Mark, KeptInv, TypeOK
      <4> QED BY <4>2, <4>3
    <3> QED BY <3>2, <3>3
  <2> DEFINE at == tick[w].at
  <2>2. at \in 0..MAX_TIME /\ n \in Covered("raw", at)
    <3>1. tick[w].at \in Nat /\ tick[w].at <= now /\ now <= MAX_TIME /\ now \in Nat
          /\ MAX_TIME \in Nat
      BY TickTyped, BoundAssumption DEF KeptInv, TypeOK, TimeInv
    <3>2. n \in Covered("raw", at)
      BY <1>0, <1>2, <2>1, CreatePartition
    <3> QED BY <3>1, <3>2
  <2> HIDE DEF at
  <2>3. PICK m \in Covered(f, at) : Encloses(f, m, n)
    BY <2>2, AlignAssumption DEF Encloses
  <2>4. m \in Periods
    BY <2>3 DEF Covered
  <2>5. catalog'[f][m] = IF catalog[f][m] = "absent" THEN "attached" ELSE catalog[f][m]
    BY <2>1, <2>3, <2>4 DEF CreateCommits, at
  <2>6. catalog'[f][m] = "attached" \/ catalog[f][m] \in {"pending", "detached"}
    BY <2>4, <2>5 DEF KeptInv, TypeOK
  <2>7. catalog[f][m] \in {"pending", "detached"} => PastRetention(f, m)'
    BY <2>4, PastStays, StepSettles DEF KeptInv, RetiredDoomed, Doomed
  <2> QED BY <2>3, <2>4, <2>6, <2>7
<1> QED BY <1>1, <1>2
-----------------------------------------------------------------------------
(* What the lists of a pass hold.                                           *)

LEMMA EmptiedStays ==
  ASSUME KeptInv, Settles, NEW f \in Families, NEW n \in Periods,
         PastRetention(f, n), Emptied(f, n)
  PROVE  Emptied(f, n)'
BY DoomStays DEF Doomed

(* The tick of another worker, or one whose step alone changes.             *)
LEMMA SameTodoListed ==
  ASSUME KeptInv, Settles, NEW w \in Workers,
         tick'[w].todo = tick[w].todo, tick'[w].family = tick[w].family,
         tick'[w].list = tick[w].list,
         tick'[w].step \in Working => tick[w].todo # {},
         tick'[w].step \in Taken => Emptied(Family(w), Oldest(w))
  PROVE  Listing(w)'
<1>1. TypeOK /\ Family(w) \in Families /\ tick[w].todo \subseteq Periods
  BY TickTyped DEF KeptInv
<1>2. Family(w)' = Family(w) /\ Oldest(w)' = Oldest(w)
  BY DEF Family, Oldest
<1>3. ASSUME NEW n \in tick[w].todo
      PROVE  /\ PastRetention(Family(w), n) /\ PastRetention(Family(w), n)'
             /\ tick[w].list # "expired" => Emptied(Family(w), n)'
  BY <1>1, <1>2, PastStays, EmptiedStays DEF KeptInv, ListsDoomed, Listing
<1>4. tick'[w].step \in Taken => Emptied(Family(w), Oldest(w))'
  <2> SUFFICES ASSUME tick'[w].step \in Taken
               PROVE  Emptied(Family(w), Oldest(w))'
    OBVIOUS
  <2>1. Oldest(w) \in tick[w].todo /\ Oldest(w) \in Periods
    BY <1>1, OldestListed DEF Taken, Working
  <2>2. PastRetention(Family(w), Oldest(w)) /\ Emptied(Family(w), Oldest(w))
    BY <1>3, <2>1
  <2> QED BY <1>1, <1>2, <2>1, <2>2, EmptiedStays
<1> QED BY <1>2, <1>3, <1>4 DEF Listing

LEMMA NothingListed ==
  ASSUME NEW w \in Workers, tick'[w].todo = {}, tick'[w].step \notin Working
  PROVE  Listing(w)'
BY DEF Listing, Working, Taken

LEMMA WithRestShape ==
  ASSUME NEW t \in Ticks, NEW todo
  PROVE  LET u == WithRest(t, todo) IN
         /\ todo = {} => u.todo = {} /\ u.step \in {"read", "close"}
         /\ todo # {} => /\ u.todo = todo /\ u.step = "work"
                         /\ u.family = t.family /\ u.list = t.list
<1>1. CASE todo # {}
  BY <1>1 DEF WithRest, Ticks
<1>2. CASE todo = {} /\ t.list # "leftovers"
  BY <1>2 DEF WithRest, Ticks
<1>3. CASE todo = {} /\ t.list = "leftovers" /\ t.family < Len(Order)
  BY <1>3 DEF WithRest, Ticks
<1>4. CASE todo = {} /\ t.list = "leftovers" /\ ~(t.family < Len(Order))
  BY <1>4 DEF WithRest, Ticks
<1> QED BY <1>1, <1>2, <1>3, <1>4

(* The rest of a list goes on with the same family; a new list starts empty.*)
LEMMA RestListed ==
  ASSUME TypeOK, NEW w \in Workers, NEW todo \in SUBSET Periods,
         tick' = [tick EXCEPT ![w] = WithRest(@, todo)],
         NEW f, f = Family(w),
         \A n \in todo : /\ PastRetention(f, n)'
                         /\ tick[w].list # "expired" => Emptied(f, n)'
  PROVE  Listing(w)'
<1>1. tick'[w] = WithRest(tick[w], todo) /\ tick[w] \in Ticks
  BY DEF TypeOK
<1>2. CASE todo = {}
  <2>1. tick'[w].todo = {} /\ tick'[w].step \notin Working
    BY <1>1, <1>2, WithRestShape DEF Working
  <2> QED BY <2>1, NothingListed
<1>3. CASE todo # {}
  <2>1. /\ tick'[w].todo = todo /\ tick'[w].step = "work"
        /\ tick'[w].family = tick[w].family /\ tick'[w].list = tick[w].list
    BY <1>1, <1>3, WithRestShape
  <2>2. Family(w)' = f
    BY <2>1 DEF Family
  <2> QED BY <1>3, <2>1, <2>2 DEF Listing, Working, Taken
<1> QED BY <1>2, <1>3

LEMMA GoOnListed ==
  ASSUME KeptInv, Settles, NEW w \in Workers, GoOn(w)
  PROVE  Listing(w)'
<1>0. PICK f \in Families : f = Family(w)
  BY TickTyped DEF KeptInv
<1>1. TypeOK /\ tick[w].todo \subseteq Periods
  BY TickTyped DEF KeptInv
<1> DEFINE todo == tick[w].todo \ {Oldest(w)}
<1>2. todo \in SUBSET Periods /\ tick' = [tick EXCEPT ![w] = WithRest(@, todo)]
  BY <1>1 DEF GoOn
<1>3. ASSUME NEW n \in todo
      PROVE  /\ PastRetention(f, n)'
             /\ tick[w].list # "expired" => Emptied(f, n)'
  <2>1. n \in Periods /\ PastRetention(f, n)
        /\ (tick[w].list # "expired" => Emptied(f, n))
    BY <1>0, <1>1 DEF KeptInv, ListsDoomed, Listing
  <2> QED BY <1>0, <2>1, PastStays, EmptiedStays
<1> HIDE DEF todo
<1> QED BY <1>0, <1>1, <1>2, <1>3, RestListed

LEMMA ReadListed ==
  ASSUME KeptInv, Settles, NEW w \in Workers, ReadList(w)
  PROVE  Listing(w)'
<1>0. PICK f \in Families : f = Family(w)
  BY TickTyped DEF KeptInv
<1> DEFINE todo == Listed(f, tick[w].list, tick[w].at)
<1>1. TypeOK /\ todo \in SUBSET Periods
  BY DEF KeptInv, Listed
<1>2. tick' = [tick EXCEPT ![w] = WithRest(@, todo)]
  BY <1>0 DEF ReadList
<1>3. ASSUME NEW n \in todo
      PROVE  /\ PastRetention(f, n)'
             /\ tick[w].list # "expired" => Emptied(f, n)'
  <2>1. n \in Periods
    BY <1>1
  <2>2. CASE catalog[f][n] \in {"pending", "detached"}
    <3>1. Doomed(f, n)'
      BY <2>1, <2>2, DoomStays DEF KeptInv, RetiredDoomed
    <3> QED BY <3>1 DEF Doomed
  <2>3. CASE catalog[f][n] \notin {"pending", "detached"}
    <3>1. tick[w].list = "expired" /\ Expired(f, n, tick[w].at)
      BY <2>3 DEF Listed
    <3>2. /\ tick[w].at \in Nat /\ now \in Nat /\ tick[w].at <= now
          /\ Start[f][n + 1] \in Nat /\ Keep[f] \in Nat
      BY <2>1, TickTyped, PeriodTyped, FamilyTyped DEF KeptInv, TypeOK, TimeInv
    <3>3. PastRetention(f, n)
      BY <3>1, <3>2 DEF Expired, PastRetention
    <3> QED BY <2>1, <3>1, <3>3, PastStays
  <2> QED BY <2>2, <2>3
<1> HIDE DEF todo
<1> QED BY <1>0, <1>1, <1>2, <1>3, RestListed

(* Each step of a pass, for the worker that takes it.                       *)
LEMMA PassListed ==
  ASSUME KeptInv, Settles, NEW w \in Workers, PassStep(w)
  PROVE  Listing(w)'
<1>0. TypeOK /\ tick \in [Workers -> Ticks] /\ Listing(w)
  BY DEF KeptInv, TypeOK, ListsDoomed
<1>1. CASE LockTried(w)
  BY <1>0, <1>1, SameTodoListed DEF LockTried, Ticks, Working, Taken
<1>2. CASE ReadList(w)
  BY <1>2, ReadListed
<1>3. CASE CheckGuard(w)
  <2>1. CASE Blocked(Family(w), Oldest(w))
    BY <1>3, <2>1, GoOnListed DEF CheckGuard
  <2>2. CASE ~Blocked(Family(w), Oldest(w))
    <3>1. Emptied(Family(w), Oldest(w))
      BY <2>2 DEF Blocked, Emptied
    <3>2. /\ tick'[w].todo = tick[w].todo /\ tick'[w].family = tick[w].family
          /\ tick'[w].list = tick[w].list
      BY <1>0, <1>3, <2>2 DEF CheckGuard, Ticks
    <3>3. tick[w].todo # {}
      BY <1>0, <1>3 DEF CheckGuard, Listing, Working
    <3> QED BY <3>1, <3>2, <3>3, SameTodoListed
  <2> QED BY <2>1, <2>2
<1>4. CASE DetachBegins(w) \/ DetachEnds(w)
  <2>1. tick[w].todo # {} /\ Emptied(Family(w), Oldest(w))
    BY <1>4, MarkedDoomed DEF Marks, Doomed
  <2>2. /\ tick'[w].todo = tick[w].todo /\ tick'[w].family = tick[w].family
        /\ tick'[w].list = tick[w].list
    BY <1>0, <1>4 DEF DetachBegins, DetachEnds, Ticks
  <2> QED BY <2>1, <2>2, SameTodoListed
<1>5. CASE DropTable(w) \/ DetachRefused(w) \/ DetachTimesOut(w)
  BY <1>5, GoOnListed DEF DropTable, DetachRefused, DetachTimesOut
<1>6. CASE CloseSession(w) \/ SessionGone(w) \/ PassFails(w)
  <2>1. tick'[w] = NoTick
    BY <1>0, <1>6 DEF CloseSession, SessionGone, PassFails, EndTick
  <2> QED BY <2>1, NothingListed DEF NoTick, Working
<1>7. CASE SessionLost(w)
  BY <1>0, <1>7, SameTodoListed DEF SessionLost, maintenance, Listing
<1> QED BY <1>1, <1>2, <1>3, <1>4, <1>5, <1>6, <1>7 DEF PassStep

LEMMA OtherListed ==
  ASSUME KeptInv, Settles, NEW w \in Workers, tick'[w] = tick[w]
  PROVE  Listing(w)'
BY SameTodoListed DEF KeptInv, ListsDoomed, Listing

(* Creating, and the life of the service, begin a tick or end it.           *)
ServiceMove(w) ==
  \/ TickFires(w) \/ CreateCommits(w) \/ CreateFails(w)
  \/ StartWorker(w) \/ Stop(w) \/ Exit(w) \/ Crash(w)

LEMMA ServiceListed ==
  ASSUME KeptInv, Settles, NEW w \in Workers, ServiceMove(w)
  PROVE  Listing(w)'
<1>0. TypeOK /\ tick \in [Workers -> Ticks]
  BY DEF KeptInv, TypeOK
<1>1. CASE TickFires(w) \/ StartWorker(w)
  <2>1. tick'[w].todo = {} /\ tick'[w].step \notin Working
    BY <1>0, <1>1 DEF TickFires, StartWorker, NoTick, Working
  <2> QED BY <2>1, NothingListed
<1>2. CASE CreateCommits(w) \/ CreateFails(w)
  <2>1. \/ tick'[w] = NoTick
        \/ /\ tick'[w].todo = tick[w].todo /\ tick'[w].family = tick[w].family
           /\ tick'[w].list = tick[w].list /\ tick'[w].step = "locking"
    BY <1>0, <1>2 DEF CreateCommits, CreateFails, Ticks
  <2>2. CASE tick'[w] = NoTick
    BY <2>2, NothingListed DEF NoTick, Working
  <2>3. CASE tick'[w] # NoTick
    BY <2>1, <2>3, SameTodoListed DEF Working, Taken
  <2> QED BY <2>2, <2>3
<1>3. CASE Crash(w)
  <2>1. tick'[w] = NoTick
    BY <1>0, <1>3 DEF Crash
  <2> QED BY <2>1, NothingListed DEF NoTick, Working
<1>4. CASE Stop(w) \/ Exit(w)
  BY <1>4, OtherListed DEF Stop, Exit
<1> QED BY <1>1, <1>2, <1>3, <1>4 DEF ServiceMove

(* A step of a worker changes no tick but its own, and time stands still.   *)
LEMMA WorkerAlone ==
  ASSUME KeptInv, NEW w \in Workers, PassStep(w) \/ ServiceMove(w)
  PROVE  /\ now' = now
         /\ \A v \in Workers \ {w} : tick'[v] = tick[v]
         /\ tick'[w].at = tick[w].at \/ tick'[w].at = 0 \/ tick'[w].at = now
<1>0. TypeOK /\ tick \in [Workers -> Ticks]
  BY DEF KeptInv, TypeOK
<1> DEFINE Alone == /\ \A v \in Workers \ {w} : tick'[v] = tick[v]
                    /\ tick'[w].at = tick[w].at \/ tick'[w].at = 0 \/ tick'[w].at = now
<1>1. ASSUME NEW todo, tick' = [tick EXCEPT ![w] = WithRest(@, todo)] PROVE Alone
  <2>1. WithRest(tick[w], todo).at = tick[w].at
    BY <1>0 DEF WithRest, Ticks
  <2> QED BY <1>0, <1>1, <2>1
<1>2. ASSUME EndTick(w) PROVE Alone
  BY <1>0, <1>2 DEF EndTick, NoTick
<1>3. ASSUME NEW s, tick' = [tick EXCEPT ![w].step = s] PROVE Alone
  BY <1>0, <1>3 DEF Ticks
<1>4. ASSUME GoOn(w) \/ ReadList(w) PROVE Alone
  BY <1>1, <1>4 DEF GoOn, ReadList
<1>5. CASE PassStep(w)
  <2>1. now' = now
    BY <1>5
    DEF PassStep, LockTried, ReadList, CheckGuard, DetachBegins, DetachRefused, DetachEnds,
        DropTable, CloseSession, SessionGone, DetachTimesOut, PassFails, SessionLost
  <2>2. ASSUME LockTried(w) PROVE Alone
    BY <1>3, <2>2 DEF LockTried
  <2>3. ASSUME DetachBegins(w) \/ DetachEnds(w) PROVE Alone
    BY <1>3, <2>3 DEF DetachBegins, DetachEnds
  <2>4. ASSUME CheckGuard(w) PROVE Alone
    BY <1>3, <1>4, <2>4 DEF CheckGuard
  <2>5. ASSUME ReadList(w) \/ DetachRefused(w) \/ DropTable(w) \/ DetachTimesOut(w) PROVE Alone
    BY <1>4, <2>5 DEF DetachRefused, DropTable, DetachTimesOut
  <2>6. ASSUME CloseSession(w) \/ SessionGone(w) \/ PassFails(w) PROVE Alone
    BY <1>2, <2>6 DEF CloseSession, SessionGone, PassFails
  <2>7. ASSUME SessionLost(w) PROVE Alone
    BY <2>7 DEF SessionLost, maintenance
  <2>8. Alone
    BY <1>5, <2>2, <2>3, <2>4, <2>5, <2>6, <2>7 DEF PassStep
  <2> QED BY <2>1, <2>8
<1>6. CASE TickFires(w) \/ StartWorker(w)
  <2>1. /\ now' = now
        /\ \E s \in Steps :
             tick' = [tick EXCEPT ![w] = [NoTick EXCEPT !.step = s, !.at = now]]
    BY <1>6 DEF TickFires, StartWorker, Steps
  <2> QED BY <1>0, <2>1 DEF NoTick
<1>7. CASE CreateCommits(w) \/ CreateFails(w)
  <2>1. tick' = [tick EXCEPT ![w] = NoTick] \/ tick' = [tick EXCEPT ![w].step = "locking"]
    BY <1>7 DEF CreateCommits, CreateFails
  <2>2. ASSUME tick' = [tick EXCEPT ![w] = NoTick] PROVE Alone
    BY <1>0, <2>2 DEF NoTick
  <2>3. Alone
    BY <1>3, <2>1, <2>2
  <2>4. now' = now
    BY <1>7 DEF CreateCommits, CreateFails
  <2> QED BY <2>3, <2>4
<1>8. CASE Stop(w) \/ Exit(w)
  BY <1>8 DEF Stop, Exit
<1>9. CASE Crash(w)
  BY <1>0, <1>9 DEF Crash, NoTick
<1> QED BY <1>5, <1>6, <1>7, <1>8, <1>9 DEF ServiceMove

LEMMA ListsStep == KeptInv /\ [Next]_vars => ListsDoomed' /\ TimeInv'
<1> SUFFICES ASSUME KeptInv, [Next]_vars PROVE ListsDoomed' /\ TimeInv'
  OBVIOUS
<1>0. /\ Settles /\ now \in Nat /\ now <= MAX_TIME /\ MAX_TIME \in Nat
      /\ \A w \in Workers : tick[w].at \in Nat /\ tick[w].at <= now
  BY StepSettles, TickTyped, BoundAssumption DEF KeptInv, TimeInv, TypeOK
<1>1. ASSUME NEW w \in Workers, PassStep(w) \/ ServiceMove(w) PROVE ListsDoomed' /\ TimeInv'
  <2>1. Listing(w)'
    BY <1>0, <1>1, PassListed, ServiceListed
  <2>2. \A v \in Workers \ {w} : Listing(v)'
    BY <1>0, <1>1, WorkerAlone, OtherListed
  <2>3. TimeInv'
    BY <1>0, <1>1, WorkerAlone DEF TimeInv
  <2> QED BY <2>1, <2>2, <2>3 DEF ListsDoomed
<1>2. ASSUME UNCHANGED tick, now' = now \/ (now < MAX_TIME /\ now' = now + 1)
      PROVE  ListsDoomed' /\ TimeInv'
  <2>1. ListsDoomed'
    BY <1>0, <1>2, OtherListed DEF ListsDoomed
  <2>2. TimeInv'
    BY <1>0, <1>2 DEF TimeInv
  <2> QED BY <2>1, <2>2
<1>3. ASSUME NEW r \in Results, WriteStep(r) PROVE ListsDoomed' /\ TimeInv'
  BY <1>2, <1>3 DEF WriteStep, StartProbe, InsertResult, CommitResult, AbortResult, GiveUp,
                    maintenance
<1>4. ASSUME NEW S \in SUBSET Results, Fold(S) PROVE ListsDoomed' /\ TimeInv'
  BY <1>2, <1>4 DEF Fold, maintenance
<1>5. CASE Tick \/ UNCHANGED vars
  BY <1>2, <1>5 DEF Tick, vars, maintenance
<1>6. ASSUME NEW w \in Workers, TickStep(w) \/ TickFault(w) \/ ServiceStep(w)
      PROVE  PassStep(w) \/ ServiceMove(w)
  BY <1>6 DEF TickStep, TickFault, ServiceStep, PassStep, ServiceMove
<1> QED BY <1>1, <1>3, <1>4, <1>5, <1>6 DEF Next
-----------------------------------------------------------------------------
(* The theorems.                                                            *)

LEMMA KeptInit == Init => KeptInv
<1> SUFFICES ASSUME Init PROVE KeptInv
  OBVIOUS
<1>1. TypeOK
  BY InitTyped
<1>2. UnfoldedKept /\ WritesInTime /\ OpenAttached
  BY DEF Init, UnfoldedKept, WritesInTime, OpenAttached, Unfolded, Writing
<1>3. RetiredDoomed
  BY DEF Init, RetiredDoomed
<1>4. CellsAtHand
  BY FamilyTyped DEF Init, CellsAtHand
<1>5. TimeInv /\ ListsDoomed
  <2>1. MAX_TIME \in Nat
    BY BoundAssumption
  <2> QED BY <2>1 DEF Init, TimeInv, ListsDoomed, Listing, NoTick, Working, Taken
<1> QED BY <1>1, <1>2, <1>3, <1>4, <1>5 DEF KeptInv

LEMMA KeptInvariance == Spec => []KeptInv
<1>1. KeptInv /\ [Next]_vars => KeptInv'
  <2>1. KeptInv /\ [Next]_vars => TypeOK'
    BY NextTyped, KeptInHand DEF KeptInv
  <2> QED BY <2>1, UnfoldedStep, WritesStep, OpenStep, RetiredStep, CellsStep, ListsStep
          DEF KeptInv
<1> QED BY <1>1, KeptInit, PTL DEF Spec

(* A result the rollup has not folded is never out of its reach: whatever   *)
(* worker retires whatever partition, with the guard and the detach two     *)
(* statements apart, its own partition and those of its aggregates stay.    *)
THEOREM UnfoldedSafe == Spec => []RetentionInv
<1>1. KeptInv => RetentionInv
  BY DEF KeptInv, RetentionInv
<1> QED BY <1>1, KeptInvariance, PTL

(* A partition is taken from its parent only when its whole period is past  *)
(* retention, by the clock of the instant it is taken.                      *)
THEOREM RetentionPeriodHonoured == Spec => RetentionHonoured
<1>1. KeptInv /\ [Next]_vars =>
        [\A f \in Families, n \in Periods :
           catalog[f][n] = "attached" /\ ~PastRetention(f, n)
             => catalog'[f][n] = "attached"]_vars
  BY AttachedStays DEF Doomed
<1> QED BY <1>1, KeptInvariance, PTL DEF Spec, RetentionHonoured

(* No partition is retired but by the worker whose session holds the lock,  *)
(* however many sessions were lost while it worked.                         *)
THEOREM RetiresUnderLock == Spec => RetiredUnderLock
<1> DEFINE Locked == \A f \in Families, n \in Periods :
       catalog[f][n] # "absent" /\ catalog'[f][n] # catalog[f][n]
         => holder # NoWorker /\ tick'[holder] # tick[holder]
<1>1. ASSUME KeptInv, [Next]_vars PROVE Locked
  <2> SUFFICES ASSUME NEW f \in Families, NEW n \in Periods,
                      catalog[f][n] # "absent", catalog'[f][n] # catalog[f][n]
               PROVE  holder # NoWorker /\ tick'[holder] # tick[holder]
    OBVIOUS
  <2>1. PICK w \in Workers : Marks(w)
    <3>1. \A v \in Workers : ~CreateCommits(v)
      BY <1>1, CreatePartition
    <3> QED BY <1>1, <3>1, CatalogKept
  <2>2. holder = w /\ w # NoWorker
    BY <1>1, <2>1, MarksPartition, SessionAssumption
  <2>3. tick \in [Workers -> Ticks] /\ tick[w] \in Ticks
    BY <1>1 DEF KeptInv, TypeOK
  <2>4. CASE DetachBegins(w) \/ DetachEnds(w)
    BY <2>2, <2>3, <2>4 DEF DetachBegins, DetachEnds, Detaching, Ticks
  <2>5. CASE DropTable(w)
    <3>1. Oldest(w) \in tick[w].todo
      BY <1>1, <2>1, MarkedDoomed
    <3>2. tick'[w] = WithRest(tick[w], tick[w].todo \ {Oldest(w)})
      BY <2>3, <2>5 DEF DropTable, GoOn
    <3>3. tick'[w].todo = tick[w].todo \ {Oldest(w)}
      BY <2>3, <3>2, WithRestShape
    <3> QED BY <2>2, <3>1, <3>3
  <2> QED BY <2>1, <2>4, <2>5 DEF Marks
<1>2. KeptInv /\ [Next]_vars =>
        [\A f \in Families, n \in Periods :
           catalog[f][n] # "absent" /\ catalog'[f][n] # catalog[f][n]
             => holder # NoWorker /\ tick'[holder] # tick[holder]]_vars
  BY <1>1
<1> QED BY <1>2, KeptInvariance, PTL DEF Spec, RetiredUnderLock
-----------------------------------------------------------------------------
(* Partitions ahead of the clock.  A running worker is a creation away from *)
(* the moment its partitions end: Deadline(w) is the latest instant at      *)
(* which that creation commits if all it may miss is missed, and every      *)
(* instant until then has its partitions.  A worker that can miss no more   *)
(* counts on the creation that is under way, which then does not fail.      *)

Round == INTERVAL + PASS_TIME
Spare(m) == (MAX_MISSED - m) * Round

NextTry(w) ==
  IF tick[w].step = "idle" THEN timer[w].due
  ELSE IF tick[w].step = "creating" THEN tick[w].at
  ELSE tick[w].at + Round

Deadline(w) == NextTry(w) + PASS_TIME + Spare(timer[w].missed)

AtHandUntil(t) ==
  \A f \in Families, i \in now .. MAX_TIME : i <= t => Attached(f, i)

OnTime(w) ==
  /\ tick[w].step # "idle" => now <= tick[w].at + PASS_TIME
  /\ service[w] = "running" /\ tick[w].step = "idle" => now <= timer[w].due
  /\ timer[w].due <= now + INTERVAL
  /\ timer[w].missed <= MAX_MISSED + 1
  /\ timer[w].missed > MAX_MISSED => Creating

AheadOf(w) ==
  service[w] = "running" =>
    /\ timer[w].missed <= MAX_MISSED => AtHandUntil(Deadline(w))
    /\ timer[w].missed > MAX_MISSED =>
         \A u \in Workers :
           tick[u].step = "creating" => AtHandUntil(tick[u].at + PASS_TIME)

TimesInv == \A w \in Workers : OnTime(w)
AheadInv == \A w \in Workers : AheadOf(w)

LEMMA TimesTyped ==
  /\ MAX_TIME \in Nat /\ INTERVAL \in Nat /\ PASS_TIME \in Nat /\ MAX_MISSED \in Nat
  /\ Round \in Nat /\ Gap \in Nat
  /\ \A m \in Nat : /\ Spare(m) \in Int
                    /\ m <= MAX_MISSED => Spare(m) \in Nat
                    /\ Spare(m) = Spare(m + 1) + Round
                    /\ Spare(m) <= Spare(0)
  /\ Gap = Spare(0) + Round + 2 * PASS_TIME
<1>1. MAX_TIME \in Nat /\ INTERVAL \in Nat /\ PASS_TIME \in Nat /\ MAX_MISSED \in Nat
  BY BoundAssumption
<1>2. Round \in Nat
  BY <1>1 DEF Round
<1>3. \A m \in Nat : /\ Spare(m) \in Int
                     /\ m <= MAX_MISSED => Spare(m) \in Nat
                     /\ Spare(m) = Spare(m + 1) + Round
                     /\ Spare(m) <= Spare(0)
  <2> SUFFICES ASSUME NEW m \in Nat
               PROVE  /\ Spare(m) \in Int
                      /\ m <= MAX_MISSED => Spare(m) \in Nat
                      /\ Spare(m) = Spare(m + 1) + Round
                      /\ Spare(m) <= Spare(0)
    OBVIOUS
  <2> DEFINE R == Round
  <2>1. R \in Nat /\ MAX_MISSED - m \in Int
    BY <1>1, <1>2
  <2>2. \A a \in Int, b \in Nat : a * b \in Int /\ (a - 1) * b = a * b - b
    OBVIOUS
  <2>3. \A a \in Nat, b \in Nat : a * b \in Nat
    OBVIOUS
  <2>4. (MAX_MISSED - (m + 1)) = (MAX_MISSED - m) - 1
    BY <1>1
  <2>5. MAX_MISSED * R = (MAX_MISSED - m) * R + m * R
    BY <1>1, <2>1
  <2>6. MAX_MISSED - 0 = MAX_MISSED
    BY <1>1
  <2> HIDE DEF R
  <2>7. Spare(m) = (MAX_MISSED - m) * R /\ Spare(m + 1) = ((MAX_MISSED - m) - 1) * R
        /\ Spare(0) = MAX_MISSED * R
    BY <2>4, <2>6 DEF Spare, R
  <2>8. m * R \in Nat /\ (m <= MAX_MISSED => (MAX_MISSED - m) * R \in Nat)
    <3>1. m <= MAX_MISSED => MAX_MISSED - m \in Nat
      BY <1>1
    <3> QED BY <2>1, <2>3, <3>1
  <2>9. (MAX_MISSED - m) * R \in Int
        /\ ((MAX_MISSED - m) - 1) * R = (MAX_MISSED - m) * R - R
    BY <2>1, <2>2
  <2> QED BY <1>1, <2>1, <2>5, <2>7, <2>8, <2>9 DEF R
<1>4. Gap = Spare(0) + Round + 2 * PASS_TIME
  <2>1. MAX_MISSED - 0 = MAX_MISSED
    BY <1>1
  <2>2. Gap = (MAX_MISSED + 1) * Round + 2 * PASS_TIME /\ Spare(0) = MAX_MISSED * Round
    BY <2>1 DEF Gap, Round, Spare
  <2>3. \A a \in Nat, b \in Nat : (a + 1) * b = a * b + b
    OBVIOUS
  <2>4. (MAX_MISSED + 1) * Round = MAX_MISSED * Round + Round
    BY <1>1, <1>2, <2>3
  <2> QED BY <2>2, <2>4
<1>5. Gap \in Nat
  BY <1>1, <1>2, <1>3, <1>4
<1> QED BY <1>1, <1>2, <1>3, <1>4, <1>5

LEMMA MaintenanceTyped ==
  ASSUME KeptInv, NEW w \in Workers
  PROVE  /\ now \in Nat /\ now <= MAX_TIME
         /\ tick[w].at \in Nat /\ tick[w].at <= now
         /\ timer[w].due \in Nat /\ timer[w].missed \in Nat
         /\ tick \in [Workers -> Ticks] /\ timer \in [Workers -> Timer]
         /\ service \in [Workers -> {"down", "starting", "running", "stopping"}]
BY TickTyped DEF KeptInv, TypeOK, TimeInv, Timer
-----------------------------------------------------------------------------
(* What steps do to the ticks.                                              *)

(* A pass goes from one statement to the next.                              *)
GoesOn(w) ==
  /\ UNCHANGED <<service, timer>>
  /\ \A v \in Workers \ {w} : tick'[v] = tick[v]
  /\ tick'[w].at = tick[w].at
  /\ tick[w].step \notin {"idle", "creating"} /\ tick'[w].step \notin {"idle", "creating"}

(* A tick ends and arms the next.                                           *)
Ends(w) ==
  /\ UNCHANGED service
  /\ \A v \in Workers \ {w} : tick'[v] = tick[v] /\ timer'[v] = timer[v]
  /\ tick[w].step \notin {"idle", "creating"} /\ tick'[w].step = "idle"
  /\ timer'[w].due = Due(now + INTERVAL) /\ timer'[w].missed = timer[w].missed

LEMMA PassMoves ==
  ASSUME KeptInv, NEW w \in Workers, PassStep(w)
  PROVE  UNCHANGED maintenance \/ GoesOn(w) \/ Ends(w)
<1>0. tick \in [Workers -> Ticks] /\ timer \in [Workers -> Timer] /\ tick[w] \in Ticks
  BY DEF KeptInv, TypeOK
<1> DEFINE Mid(s) == s \notin {"idle", "creating"}
<1>1. ASSUME NEW todo, tick' = [tick EXCEPT ![w] = WithRest(@, todo)], Mid(tick[w].step),
             UNCHANGED <<service, timer>>
      PROVE  GoesOn(w)
  <2>1. tick'[w] = WithRest(tick[w], todo)
    BY <1>0, <1>1
  <2>2. tick'[w].step \in {"work", "read", "close"}
    BY <1>0, <2>1, WithRestShape
  <2>3. tick'[w].at = tick[w].at
    BY <1>0, <2>1 DEF WithRest, Ticks
  <2> QED BY <1>0, <1>1, <2>2, <2>3 DEF GoesOn
<1>2. ASSUME NEW s, tick' = [tick EXCEPT ![w].step = s], Mid(s), Mid(tick[w].step),
             UNCHANGED <<service, timer>>
      PROVE  GoesOn(w)
  BY <1>0, <1>2 DEF GoesOn, Ticks
<1>3. ASSUME EndTick(w), Mid(tick[w].step), UNCHANGED service PROVE Ends(w)
  BY <1>0, <1>3 DEF EndTick, Ends, NoTick, Timer
<1>4. (Detaching(w) \/ Dropping(w)) => Mid(tick[w].step)
  BY DEF Detaching, Dropping
<1>5. CASE LockTried(w)
  BY <1>2, <1>5 DEF LockTried
<1>6. CASE ReadList(w)
  BY <1>1, <1>6 DEF ReadList
<1>7. CASE CheckGuard(w)
  BY <1>1, <1>2, <1>7 DEF CheckGuard, GoOn
<1>8. CASE DetachBegins(w) \/ DetachEnds(w)
  BY <1>2, <1>4, <1>8 DEF DetachBegins, DetachEnds
<1>9. CASE DetachRefused(w) \/ DropTable(w) \/ DetachTimesOut(w)
  BY <1>1, <1>4, <1>9 DEF DetachRefused, DropTable, DetachTimesOut, GoOn
<1>10. CASE CloseSession(w) \/ SessionGone(w) \/ PassFails(w)
  BY <1>3, <1>4, <1>10 DEF CloseSession, SessionGone, PassFails
<1>11. CASE SessionLost(w)
  BY <1>11 DEF SessionLost
<1> QED BY <1>5, <1>6, <1>7, <1>8, <1>9, <1>10, <1>11 DEF PassStep

(* No step but these touches a tick, a timer or a service.                  *)
LEMMA MaintenanceMoves ==
  ASSUME [Next]_vars
  PROVE  \/ Tick
         \/ UNCHANGED <<now, maintenance>>
         \/ \E w \in Workers : PassStep(w) \/ ServiceMove(w)
<1>1. ASSUME NEW r \in Results, WriteStep(r) PROVE UNCHANGED <<now, maintenance>>
  BY <1>1 DEF WriteStep, StartProbe, InsertResult, CommitResult, AbortResult, GiveUp
<1>2. ASSUME NEW S \in SUBSET Results, Fold(S) PROVE UNCHANGED <<now, maintenance>>
  BY <1>2 DEF Fold
<1>3. ASSUME NEW w \in Workers, TickStep(w) \/ TickFault(w) \/ ServiceStep(w)
      PROVE  PassStep(w) \/ ServiceMove(w)
  BY <1>3 DEF TickStep, TickFault, ServiceStep, PassStep, ServiceMove
<1>4. CASE UNCHANGED vars
  BY <1>4 DEF vars, maintenance
<1> QED BY <1>1, <1>2, <1>3, <1>4 DEF Next

LEMMA PassKeepsNow ==
  ASSUME NEW w \in Workers, PassStep(w)
  PROVE  now' = now
BY DEF PassStep, LockTried, ReadList, CheckGuard, DetachBegins, DetachRefused, DetachEnds,
       DropTable, CloseSession, SessionGone, DetachTimesOut, PassFails, SessionLost

LEMMA DueBounded ==
  ASSUME NEW t \in Nat
  PROVE  Due(t) \in Nat /\ Due(t) <= t /\ (now \in Nat /\ now <= MAX_TIME /\ now <= t => now <= Due(t))
BY TimesTyped DEF Due

(* The mover of each kind, as far as times go.                              *)
LEMMA Fires ==
  ASSUME KeptInv, NEW w \in Workers, TickFires(w)
  PROVE  /\ now' = now /\ UNCHANGED <<service, catalog>>
         /\ service[w] = "running" /\ tick[w].step = "idle" /\ timer[w].due <= now
         /\ tick'[w].at = now /\ timer'[w].due = timer[w].due
         /\ \A v \in Workers \ {w} : tick'[v] = tick[v] /\ timer'[v] = timer[v]
         /\ \/ /\ Creating /\ tick'[w].step = "locking"
               /\ timer[w].missed <= MAX_MISSED /\ timer'[w].missed = timer[w].missed + 1
            \/ /\ ~Creating /\ tick'[w].step = "creating"
               /\ timer'[w].missed = timer[w].missed
<1>1. tick \in [Workers -> Ticks] /\ timer \in [Workers -> Timer]
  BY DEF KeptInv, TypeOK
<1>2. CASE Creating
  <2>1. /\ timer[w].missed <= MAX_MISSED
        /\ timer' = [timer EXCEPT ![w].missed = @ + 1]
        /\ tick' = [tick EXCEPT ![w] = [NoTick EXCEPT !.step = "locking", !.at = now]]
    BY <1>2 DEF TickFires
  <2>2. tick'[w].step = "locking" /\ tick'[w].at = now
        /\ \A v \in Workers \ {w} : tick'[v] = tick[v]
    BY <1>1, <2>1 DEF NoTick
  <2>3. timer'[w].missed = timer[w].missed + 1 /\ timer'[w].due = timer[w].due
        /\ \A v \in Workers \ {w} : timer'[v] = timer[v]
    BY <1>1, <2>1 DEF Timer
  <2> QED BY <1>2, <2>1, <2>2, <2>3 DEF TickFires, database
<1>3. CASE ~Creating
  BY <1>1, <1>3 DEF TickFires, NoTick, Timer, database
<1> QED BY <1>2, <1>3

LEMMA Commits ==
  ASSUME KeptInv, NEW w \in Workers, CreateCommits(w)
  PROVE  /\ now' = now /\ tick[w].step = "creating"
         /\ \A v \in Workers : timer'[v].missed = 0
         /\ \A v \in Workers \ {w} : /\ tick'[v] = tick[v] /\ service'[v] = service[v]
                                     /\ timer'[v].due = timer[v].due
         /\ \/ /\ tick'[w].step = "idle" /\ timer'[w].due = Due(now + INTERVAL)
            \/ /\ tick'[w].step = "locking" /\ tick'[w].at = tick[w].at
               /\ timer'[w].due = timer[w].due /\ service'[w] = service[w]
<1>1. /\ tick \in [Workers -> Ticks] /\ timer \in [Workers -> Timer]
      /\ service \in [Workers -> {"down", "starting", "running", "stopping"}]
  BY DEF KeptInv, TypeOK
<1>2. CASE service[w] = "starting"
  BY <1>1, <1>2 DEF CreateCommits, NoTick
<1>3. CASE service[w] # "starting"
  BY <1>1, <1>3 DEF CreateCommits, Ticks
<1> QED BY <1>2, <1>3

LEMMA Fails ==
  ASSUME KeptInv, NEW w \in Workers, CreateFails(w)
  PROVE  /\ now' = now /\ UNCHANGED catalog /\ tick[w].step = "creating" /\ MayFail
         /\ timer[w].missed < MAX_MISSED /\ timer'[w].missed = timer[w].missed + 1
         /\ timer'[w].due = timer[w].due
         /\ \A v \in Workers \ {w} : /\ tick'[v] = tick[v] /\ timer'[v] = timer[v]
                                     /\ service'[v] = service[v]
         /\ \/ tick'[w].step = "idle" /\ service'[w] = "down"
            \/ /\ tick'[w].step = "locking" /\ tick'[w].at = tick[w].at
               /\ service'[w] = service[w]
<1>1. /\ tick \in [Workers -> Ticks] /\ timer \in [Workers -> Timer]
      /\ service \in [Workers -> {"down", "starting", "running", "stopping"}]
  BY DEF KeptInv, TypeOK
<1>2. CASE service[w] = "starting"
  BY <1>1, <1>2 DEF CreateFails, NoTick, Timer, database
<1>3. CASE service[w] # "starting"
  BY <1>1, <1>3 DEF CreateFails, Ticks, Timer, database
<1> QED BY <1>2, <1>3

LEMMA Serves ==
  ASSUME KeptInv, NEW w \in Workers, StartWorker(w) \/ Stop(w) \/ Exit(w) \/ Crash(w)
  PROVE  /\ now' = now /\ UNCHANGED <<catalog, timer>>
         /\ service'[w] # "running"
         /\ \A v \in Workers \ {w} : tick'[v] = tick[v] /\ service'[v] = service[v]
         /\ \/ ~Creating /\ tick'[w].step = "creating" /\ tick'[w].at = now
            \/ tick'[w] = tick[w]
            \/ tick'[w].step = "idle" /\ (tick[w].step = "creating" => MayFail)
<1>1. /\ tick \in [Workers -> Ticks]
      /\ service \in [Workers -> {"down", "starting", "running", "stopping"}]
  BY DEF KeptInv, TypeOK
<1>2. CASE StartWorker(w)
  BY <1>1, <1>2 DEF StartWorker, NoTick, database
<1>3. CASE Stop(w) \/ Exit(w)
  BY <1>1, <1>3 DEF Stop, Exit, database
<1>4. CASE Crash(w)
  BY <1>1, <1>4 DEF Crash, NoTick
<1> QED BY <1>2, <1>3, <1>4

LEMMA TimesStep == KeptInv /\ TimesInv /\ [Next]_vars => TimesInv'
<1> SUFFICES ASSUME KeptInv, TimesInv, [Next]_vars PROVE TimesInv'
  OBVIOUS
<1>0. /\ now \in Nat /\ now <= MAX_TIME
      /\ MAX_TIME \in Nat /\ INTERVAL \in Nat /\ PASS_TIME \in Nat /\ MAX_MISSED \in Nat
      /\ \A v \in Workers : /\ tick[v].at \in Nat /\ tick[v].at <= now
                            /\ timer[v].due \in Nat /\ timer[v].missed \in Nat
  BY TimesTyped, MaintenanceTyped DEF KeptInv, TypeOK, TimeInv
<1>1. \A v \in Workers : OnTime(v)
  BY DEF TimesInv
<1>2. now + INTERVAL \in Nat /\ Due(now + INTERVAL) \in Nat
      /\ now <= Due(now + INTERVAL) /\ Due(now + INTERVAL) <= now + INTERVAL
  BY <1>0, DueBounded
<1>3. CASE UNCHANGED <<now, maintenance>>
  BY <1>1, <1>3 DEF TimesInv, OnTime, Creating, maintenance
<1>4. CASE Tick
  <2>1. now' = now + 1 /\ UNCHANGED maintenance
        /\ \A v \in Workers :
             /\ service[v] = "running" /\ tick[v].step = "idle" => now < timer[v].due
             /\ tick[v].step # "idle" => now < tick[v].at + PASS_TIME
    BY <1>4 DEF Tick
  <2> QED BY <1>0, <1>1, <2>1 DEF TimesInv, OnTime, Creating, maintenance
<1>5. ASSUME NEW w \in Workers, PassStep(w) PROVE TimesInv'
  <2>0. now' = now
    BY <1>5, PassKeepsNow
  <2>1. CASE UNCHANGED maintenance
    BY <1>3, <2>0, <2>1
  <2>2. CASE GoesOn(w)
    <3>1. Creating => Creating'
      BY <2>2 DEF GoesOn, Creating
    <3>2. \A v \in Workers : OnTime(v)'
      BY <1>0, <1>1, <2>0, <2>2, <3>1 DEF GoesOn, OnTime
    <3> QED BY <3>2 DEF TimesInv
  <2>3. CASE Ends(w)
    <3>1. Creating => Creating'
      BY <2>3 DEF Ends, Creating
    <3>2. \A v \in Workers : OnTime(v)'
      BY <1>0, <1>1, <1>2, <2>0, <2>3, <3>1 DEF Ends, OnTime
    <3> QED BY <3>2 DEF TimesInv
  <2> QED BY <1>5, <2>1, <2>2, <2>3, PassMoves
<1>6. ASSUME NEW w \in Workers, TickFires(w) PROVE TimesInv'
  <2>1. Creating'
    BY <1>6, Fires DEF Creating
  <2>2. OnTime(w)'
    BY <1>0, <1>1, <1>6, <2>1, Fires DEF OnTime
  <2>3. \A v \in Workers \ {w} : OnTime(v)'
    BY <1>0, <1>1, <1>6, <2>1, Fires DEF OnTime
  <2> QED BY <2>2, <2>3 DEF TimesInv
<1>7. ASSUME NEW w \in Workers, CreateCommits(w) PROVE TimesInv'
  <2>1. OnTime(w)'
    BY <1>0, <1>1, <1>2, <1>7, Commits DEF OnTime
  <2>2. \A v \in Workers \ {w} : OnTime(v)'
    BY <1>0, <1>1, <1>7, Commits DEF OnTime
  <2> QED BY <2>1, <2>2 DEF TimesInv
<1>8. ASSUME NEW w \in Workers, CreateFails(w) PROVE TimesInv'
  <2>1. OnTime(w)'
    BY <1>0, <1>1, <1>8, Fails DEF OnTime
  <2>2. \A v \in Workers \ {w} : OnTime(v)'
    BY <1>0, <1>1, <1>8, Fails DEF OnTime, MayFail
  <2> QED BY <2>1, <2>2 DEF TimesInv
<1>9. ASSUME NEW w \in Workers, StartWorker(w) \/ Stop(w) \/ Exit(w) \/ Crash(w)
      PROVE  TimesInv'
  <2>1. ASSUME NEW v \in Workers, timer[v].missed > MAX_MISSED PROVE Creating'
    <3>1. Creating /\ ~MayFail
      BY <1>0, <1>1, <2>1 DEF OnTime, MayFail
    <3>2. \A u \in Workers : tick[u].step = "creating" => tick'[u].step = "creating"
      BY <1>9, <3>1, Serves
    <3> QED BY <3>1, <3>2 DEF Creating
  <2>2. OnTime(w)'
    BY <1>0, <1>1, <1>9, <2>1, Serves DEF OnTime
  <2>3. \A v \in Workers \ {w} : OnTime(v)'
    BY <1>0, <1>1, <1>9, <2>1, Serves DEF OnTime
  <2> QED BY <2>2, <2>3 DEF TimesInv
<1> QED BY <1>3, <1>4, <1>5, <1>6, <1>7, <1>8, <1>9, MaintenanceMoves DEF ServiceMove
-----------------------------------------------------------------------------
(* What is attached ahead of the clock stays so, and a creation renews it.  *)

LEMMA AtHandStays ==
  ASSUME KeptInv, [Next]_vars, NEW t \in Int, AtHandUntil(t)
  PROVE  AtHandUntil(t)'
<1> SUFFICES ASSUME NEW f \in Families, NEW i \in now' .. MAX_TIME, i <= t
             PROVE  Attached(f, i)'
  BY DEF AtHandUntil
<1>1. now \in Nat /\ now' \in Nat /\ now <= now' /\ MAX_TIME \in Nat
  BY StepSettles, TimesTyped DEF Settles, KeptInv, TypeOK
<1>2. i \in Nat /\ i \in now .. MAX_TIME
  BY <1>1
<1>3. PICK n \in Periods : InPeriod(f, n, i) /\ catalog[f][n] = "attached"
  BY <1>2 DEF AtHandUntil, Attached
<1>4. ~PastRetention(f, n)
  BY <1>1, <1>2, <1>3, PeriodTyped, FamilyTyped DEF InPeriod, PastRetention
<1>5. catalog'[f][n] = "attached"
  BY <1>3, <1>4, AttachedStays DEF Doomed
<1> QED BY <1>3, <1>5 DEF Attached, InPeriod

LEMMA CreationRenews ==
  ASSUME KeptInv, NEW w \in Workers, CreateCommits(w), NEW t \in Int,
         t <= tick[w].at + Gap
  PROVE  AtHandUntil(t)'
<1> SUFFICES ASSUME NEW f \in Families, NEW i \in now' .. MAX_TIME, i <= t
             PROVE  Attached(f, i)'
  BY DEF AtHandUntil
<1> DEFINE a == tick[w].at
<1>1. /\ now \in Nat /\ now' = now /\ now <= MAX_TIME /\ MAX_TIME \in Nat
      /\ a \in Nat /\ a <= now /\ Gap \in Nat
  BY Commits, TimesTyped, MaintenanceTyped
<1>2. i \in 0 .. MAX_TIME /\ a \in 0 .. MAX_TIME /\ now <= i
  BY <1>1
<1>3. PICK n \in Periods : InPeriod(f, n, i)
  BY <1>2, AheadAssumption
<1>4. Start[f][n] \in Nat /\ Start[f][n + 1] \in Nat /\ Start[f][n] <= i /\ i < Start[f][n + 1]
  BY <1>3, PeriodTyped DEF InPeriod
<1>5. n \in Covered(f, a)
  <2>1. a < Start[f][n + 1] /\ Start[f][n] <= a + Gap
    BY <1>1, <1>2, <1>4
  <2> HIDE DEF a
  <2> QED BY <1>2, <2>1, AheadAssumption
<1>6. ~PastRetention(f, n)
  BY <1>1, <1>2, <1>4, FamilyTyped DEF PastRetention
<1>7. catalog[f][n] \in {"absent", "attached"}
  <2>1. catalog[f][n] \in {"absent", "attached", "pending", "detached"}
    BY DEF KeptInv, TypeOK
  <2> QED BY <1>6, <2>1 DEF KeptInv, RetiredDoomed, Doomed
<1>8. catalog'[f][n] = "attached"
  BY <1>5, <1>7 DEF CreateCommits
<1> QED BY <1>3, <1>8 DEF Attached, InPeriod

LEMMA AtHandSooner ==
  ASSUME NEW s \in Int, NEW t \in Int, s <= t, AtHandUntil(t), now \in Nat
  PROVE  AtHandUntil(s)
BY TimesTyped DEF AtHandUntil

LEMMA DeadlineTyped ==
  ASSUME KeptInv, NEW w \in Workers
  PROVE  NextTry(w) \in Nat /\ Deadline(w) \in Int
<1>1. NextTry(w) \in Nat
  BY MaintenanceTyped, TimesTyped DEF NextTry
<1>2. Spare(timer[w].missed) \in Int
  BY MaintenanceTyped, TimesTyped
<1> QED BY <1>1, <1>2, TimesTyped DEF Deadline

LEMMA DeadlineTypedNext ==
  ASSUME NEW w \in Workers
  PROVE  (KeptInv => Deadline(w) \in Int)'
<1>1. KeptInv => Deadline(w) \in Int
  BY DeadlineTyped
<1> QED BY <1>1, PTL

(* A worker that a step leaves alone, or whose deadline it does not defer,  *)
(* stays ahead.                                                             *)
LEMMA StillAhead ==
  ASSUME KeptInv, KeptInv', [Next]_vars, NEW v \in Workers,
         service[v] = "running", AheadOf(v),
         timer'[v].missed <= MAX_MISSED =>
           timer[v].missed <= MAX_MISSED /\ Deadline(v)' <= Deadline(v),
         timer'[v].missed > MAX_MISSED =>
           /\ timer[v].missed > MAX_MISSED
           /\ \A u \in Workers : tick'[u].step = "creating" => tick'[u] = tick[u]
  PROVE  AheadOf(v)'
<1>1. Deadline(v) \in Int /\ Deadline(v)' \in Int /\ now' \in Nat
  BY DeadlineTyped, DeadlineTypedNext DEF KeptInv, TypeOK
<1>2. ASSUME timer'[v].missed <= MAX_MISSED PROVE AtHandUntil(Deadline(v))'
  <2>1. AtHandUntil(Deadline(v)) /\ Deadline(v)' <= Deadline(v)
    BY <1>2 DEF AheadOf
  <2>2. \A t \in Int : AtHandUntil(t) => AtHandUntil(t)'
    BY AtHandStays
  <2>3. \A s, t \in Int : s <= t /\ AtHandUntil(t)' => AtHandUntil(s)'
    BY <1>1, TimesTyped DEF AtHandUntil
  <2> DEFINE d == Deadline(v)
  <2>4. PICK t \in Int : t = d
    BY <1>1
  <2>5. AtHandUntil(t)'
    BY <2>1, <2>2, <2>4
  <2> QED BY <1>1, <2>1, <2>3, <2>4, <2>5 DEF AtHandUntil
<1>3. ASSUME timer'[v].missed > MAX_MISSED, NEW u \in Workers, tick'[u].step = "creating"
      PROVE  AtHandUntil(tick[u].at + PASS_TIME)'
  <2>1. AtHandUntil(tick[u].at + PASS_TIME) /\ tick'[u].at = tick[u].at
    BY <1>3 DEF AheadOf
  <2>2. tick[u].at + PASS_TIME \in Int
    BY MaintenanceTyped, TimesTyped
  <2>3. PICK t \in Int : t = tick[u].at + PASS_TIME
    BY <2>2
  <2>4. AtHandUntil(t)'
    BY <2>1, <2>3, AtHandStays
  <2> QED BY <2>1, <2>3, <2>4 DEF AtHandUntil
<1> QED BY <1>2, <1>3 DEF AheadOf

(* After a creation no deadline lies further than it reaches.               *)
LEMMA CommitAhead ==
  ASSUME KeptInv, TimesInv, KeptInv', NEW w \in Workers, CreateCommits(w), NEW v \in Workers
  PROVE  AheadOf(v)'
<1> DEFINE a == tick[w].at
           limit == a + PASS_TIME + Round
<1>0. /\ now \in Nat /\ now <= MAX_TIME /\ a \in Nat
      /\ MAX_TIME \in Nat /\ INTERVAL \in Nat /\ PASS_TIME \in Nat /\ MAX_MISSED \in Nat
      /\ Round \in Nat /\ Round = INTERVAL + PASS_TIME /\ Spare(0) \in Nat
      /\ Gap = Spare(0) + Round + 2 * PASS_TIME
      /\ tick[v].at \in Nat /\ tick[v].at <= now
  BY TimesTyped, MaintenanceTyped DEF Round
<1>1. now' = now /\ now <= a + PASS_TIME /\ timer'[v].missed = 0
  BY Commits DEF TimesInv, OnTime
<1>2. Due(now + INTERVAL) <= now + INTERVAL /\ Due(now + INTERVAL) \in Nat
  BY <1>0, DueBounded
<1>3. timer[v].due \in Nat /\ timer[v].due <= now + INTERVAL
  BY MaintenanceTyped DEF TimesInv, OnTime
<1>4. NextTry(v)' \in Nat /\ NextTry(v)' <= limit
  <2>1. CASE v = w /\ tick'[w].step = "idle"
    BY <1>0, <1>1, <1>2, <2>1, Commits DEF NextTry
  <2>2. CASE v = w /\ tick'[w].step = "locking"
    BY <1>0, <1>1, <2>2, Commits DEF NextTry
  <2>3. CASE v # w
    BY <1>0, <1>1, <1>3, <2>3, Commits DEF NextTry
  <2> QED BY <2>1, <2>2, <2>3, Commits
<1>5. Deadline(v)' = NextTry(v)' + PASS_TIME + Spare(0)
  BY <1>1 DEF Deadline, Spare
<1>6. Deadline(v)' \in Int /\ Deadline(v)' <= a + Gap
  BY <1>0, <1>4, <1>5
<1>7. \A t \in Int : t <= a + Gap => AtHandUntil(t)'
  BY CreationRenews
<1>8. AtHandUntil(Deadline(v))'
  <2>1. PICK t \in Int : t = Deadline(v)'
    BY <1>6
  <2>2. AtHandUntil(t)'
    BY <1>6, <1>7, <2>1
  <2> QED BY <2>1, <2>2 DEF AtHandUntil
<1> QED BY <1>0, <1>1, <1>8 DEF AheadOf

LEMMA FireAhead ==
  ASSUME KeptInv, KeptInv', TimesInv, AheadInv, [Next]_vars, NEW w \in Workers,
         TickFires(w), NEW v \in Workers, service'[v] = "running"
  PROVE  AheadOf(v)'
<1>0. /\ now \in Nat /\ PASS_TIME \in Nat /\ MAX_MISSED \in Nat /\ Round \in Nat
      /\ \A u \in Workers : /\ tick[u].at \in Nat /\ tick[u].at <= now
                            /\ timer[u].due \in Nat /\ timer[u].missed \in Nat
  BY TimesTyped, MaintenanceTyped
<1>1. \A m \in Nat : /\ Spare(m) \in Int
                     /\ m <= MAX_MISSED => Spare(m) \in Nat
                     /\ Spare(m) = Spare(m + 1) + Round
  BY TimesTyped
<1>2. service[v] = "running" /\ AheadOf(v) /\ OnTime(v) /\ OnTime(w)
  BY Fires DEF AheadInv, TimesInv
<1>3. timer[w].due = now /\ now' = now /\ NextTry(w) = now
      /\ Deadline(w) = now + PASS_TIME + Spare(timer[w].missed)
  BY <1>0, <1>2, Fires DEF OnTime, NextTry, Deadline
<1>4. ASSUME ~Creating, NEW u \in Workers PROVE timer[u].missed <= MAX_MISSED
  BY <1>0, <1>4 DEF TimesInv, OnTime
<1>5. CASE v # w
  <2>1. tick'[v] = tick[v] /\ timer'[v] = timer[v]
    BY <1>5, Fires
  <2>2. Deadline(v)' = Deadline(v) /\ Deadline(v) \in Int
    BY <2>1, DeadlineTyped DEF Deadline, NextTry, Spare
  <2>3. CASE Creating
    <3>1. \A u \in Workers : tick'[u].step = "creating" => tick'[u] = tick[u]
      BY <2>3, Fires
    <3> QED BY <1>0, <1>2, <2>1, <2>2, <3>1, StillAhead
  <2>4. CASE ~Creating
    BY <1>0, <1>2, <1>4, <2>1, <2>2, <2>4, StillAhead
  <2> QED BY <2>3, <2>4
<1>6. CASE v = w /\ ~Creating
  <2>1. /\ tick'[w].step = "creating" /\ tick'[w].at = now
        /\ timer'[w].missed = timer[w].missed /\ timer[w].missed <= MAX_MISSED
    BY <1>4, <1>6, Fires
  <2>2. Deadline(w)' = Deadline(w) /\ Deadline(w) \in Int
    BY <1>0, <1>1, <1>3, <2>1, DeadlineTyped DEF Deadline, NextTry, Spare
  <2> QED BY <1>0, <1>2, <1>6, <2>1, <2>2, StillAhead
<1>7. CASE v = w /\ Creating
  <2>1. /\ tick'[w].step = "locking" /\ tick'[w].at = now
        /\ timer[w].missed <= MAX_MISSED /\ timer'[w].missed = timer[w].missed + 1
        /\ \A u \in Workers : tick'[u].step = "creating" => tick'[u] = tick[u]
    BY <1>7, Fires
  <2>2. Deadline(w)' = now + Round + PASS_TIME + Spare(timer[w].missed + 1)
    BY <2>1 DEF Deadline, NextTry, Spare
  <2>3. Deadline(w)' = Deadline(w) /\ Deadline(w) \in Int
    BY <1>0, <1>1, <1>3, <2>2, DeadlineTyped
  <2>4. CASE timer'[w].missed <= MAX_MISSED
    BY <1>0, <1>2, <1>7, <2>1, <2>3, <2>4, StillAhead
  <2>5. CASE timer'[w].missed > MAX_MISSED
    <3>1. AtHandUntil(Deadline(w))
      BY <1>2, <1>7, <2>1 DEF AheadOf
    <3>2. \A t \in Int : AtHandUntil(t) => AtHandUntil(t)'
      BY AtHandStays
    <3>3. PICK t \in Int : t = Deadline(w)
      BY <2>3
    <3>4. AtHandUntil(t)' /\ now + PASS_TIME <= t
      BY <1>0, <1>1, <1>3, <2>1, <3>1, <3>2, <3>3
    <3>5. ASSUME NEW u \in Workers, tick'[u].step = "creating"
          PROVE  AtHandUntil(tick[u].at + PASS_TIME)'
      <4>1. tick'[u].at \in Nat /\ tick'[u].at + PASS_TIME <= t
        BY <1>0, <2>1, <3>4, <3>5
      <4>2. now' \in Nat /\ MAX_TIME \in Nat
        BY <1>0, <1>3, TimesTyped
      <4> QED BY <1>0, <3>4, <4>1, <4>2 DEF AtHandUntil
    <3> QED BY <1>0, <1>7, <2>1, <2>5, <3>5 DEF AheadOf
  <2> QED BY <1>0, <2>1, <2>4, <2>5
<1> QED BY <1>5, <1>6, <1>7

LEMMA AheadStep == KeptInv /\ KeptInv' /\ TimesInv /\ AheadInv /\ [Next]_vars => AheadInv'
<1> SUFFICES ASSUME KeptInv, KeptInv', TimesInv, AheadInv, [Next]_vars,
                    NEW v \in Workers, service'[v] = "running"
             PROVE  AheadOf(v)'
  BY DEF AheadInv, AheadOf
<1>0. /\ now \in Nat /\ now <= MAX_TIME /\ INTERVAL \in Nat
      /\ PASS_TIME \in Nat /\ MAX_MISSED \in Nat /\ Round \in Nat /\ Round = INTERVAL + PASS_TIME
      /\ \A u \in Workers : /\ tick[u].at \in Nat /\ tick[u].at <= now
                            /\ timer[u].due \in Nat /\ timer[u].missed \in Nat
      /\ AheadOf(v) /\ OnTime(v)
  BY TimesTyped, MaintenanceTyped DEF AheadInv, TimesInv, Round
<1>1. Deadline(v) \in Int
  BY DeadlineTyped
<1>2. ASSUME service[v] = "running", tick'[v] = tick[v], timer'[v] = timer[v],
             timer[v].missed > MAX_MISSED =>
               \A u \in Workers : tick'[u].step = "creating" => tick'[u] = tick[u]
      PROVE  AheadOf(v)'
  <2>1. Deadline(v)' = Deadline(v)
    BY <1>2 DEF Deadline, NextTry, Spare
  <2> QED BY <1>0, <1>1, <1>2, <2>1, StillAhead
<1>3. CASE UNCHANGED maintenance
  BY <1>2, <1>3 DEF maintenance
<1>4. ASSUME NEW w \in Workers, GoesOn(w) PROVE AheadOf(v)'
  <2>1. service[v] = "running"
        /\ \A u \in Workers : tick'[u].step = "creating" => tick'[u] = tick[u]
    BY <1>4 DEF GoesOn
  <2>2. CASE v # w
    BY <1>2, <1>4, <2>1, <2>2 DEF GoesOn
  <2>3. CASE v = w
    <3>1. Deadline(v)' = Deadline(v) /\ timer'[v] = timer[v]
      BY <1>4, <2>3 DEF GoesOn, Deadline, NextTry, Spare
    <3> QED BY <1>0, <1>1, <2>1, <3>1, StillAhead
  <2> QED BY <2>2, <2>3
<1>5. ASSUME NEW w \in Workers, Ends(w), now' = now PROVE AheadOf(v)'
  <2>1. service[v] = "running"
        /\ \A u \in Workers : tick'[u].step = "creating" => tick'[u] = tick[u]
    BY <1>5 DEF Ends
  <2>2. CASE v # w
    BY <1>2, <1>5, <2>1, <2>2 DEF Ends
  <2>3. CASE v = w
    <3>1. Due(now + INTERVAL) \in Nat /\ Due(now + INTERVAL) <= now + INTERVAL
      BY <1>0, DueBounded
    <3>2. now <= tick[v].at + PASS_TIME /\ NextTry(v) = tick[v].at + Round
      BY <1>0, <1>5, <2>3 DEF Ends, OnTime, NextTry
    <3>3. NextTry(v)' = Due(now + INTERVAL) /\ timer'[v].missed = timer[v].missed
      BY <1>5, <2>3 DEF Ends, NextTry
    <3>4. Spare(timer[v].missed) \in Int
      BY <1>0, TimesTyped
    <3>5. Deadline(v)' = Due(now + INTERVAL) + PASS_TIME + Spare(timer[v].missed)
          /\ Deadline(v) = tick[v].at + Round + PASS_TIME + Spare(timer[v].missed)
      BY <3>2, <3>3 DEF Deadline, Spare
    <3>6. Deadline(v)' <= Deadline(v)
      BY <1>0, <3>1, <3>2, <3>4, <3>5
    <3> QED BY <1>0, <2>1, <3>3, <3>6, StillAhead
  <2> QED BY <2>2, <2>3
<1>6. ASSUME NEW w \in Workers, CreateFails(w) PROVE AheadOf(v)'
  <2>1. v # w \/ (tick'[w].step = "locking" /\ tick'[w].at = tick[w].at
                  /\ service'[w] = service[w])
    BY <1>6, Fails
  <2>2. timer[v].missed <= MAX_MISSED
    BY <1>6, Fails DEF MayFail
  <2>3. CASE v # w
    BY <1>0, <1>2, <1>6, <2>2, <2>3, Fails
  <2>4. CASE v = w
    <3>1. /\ timer'[v].missed = timer[v].missed + 1 /\ timer'[v].missed <= MAX_MISSED
          /\ NextTry(v) = tick[v].at /\ NextTry(v)' = tick[v].at + Round
      BY <1>0, <1>6, <2>1, <2>4, Fails DEF NextTry
    <3>2. Spare(timer[v].missed) = Spare(timer[v].missed + 1) + Round
          /\ Spare(timer[v].missed + 1) \in Int
      BY <1>0, TimesTyped
    <3>3. Deadline(v)' = tick[v].at + Round + PASS_TIME + Spare(timer[v].missed + 1)
          /\ Deadline(v) = tick[v].at + PASS_TIME + Spare(timer[v].missed)
      BY <3>1 DEF Deadline, Spare
    <3>4. Deadline(v)' = Deadline(v)
      BY <1>0, <3>2, <3>3
    <3> QED BY <1>0, <1>1, <2>1, <2>2, <2>4, <3>1, <3>4, StillAhead
  <2> QED BY <2>3, <2>4
<1>7. ASSUME NEW w \in Workers, StartWorker(w) \/ Stop(w) \/ Exit(w) \/ Crash(w)
      PROVE  AheadOf(v)'
  <2>1. v # w /\ service[v] = "running" /\ tick'[v] = tick[v] /\ timer'[v] = timer[v]
    BY <1>7, Serves
  <2>2. timer[v].missed > MAX_MISSED =>
          \A u \in Workers : tick'[u].step = "creating" => tick'[u] = tick[u]
    BY <1>0, <1>7, Serves DEF OnTime
  <2> QED BY <1>2, <2>1, <2>2
<1>8. ASSUME NEW w \in Workers, PassStep(w) PROVE AheadOf(v)'
  BY <1>3, <1>4, <1>5, <1>8, PassMoves, PassKeepsNow
<1>9. ASSUME NEW w \in Workers, ServiceMove(w) PROVE AheadOf(v)'
  BY <1>6, <1>7, <1>9, CommitAhead, FireAhead DEF ServiceMove
<1>10. CASE Tick
  BY <1>3, <1>10 DEF Tick
<1> QED BY <1>3, <1>8, <1>9, <1>10, MaintenanceMoves

(* A worker that probes has partitions for what it writes, as long as no    *)
(* more creations in a row fail than the days and months ahead allow for:   *)
(* by whatever worker the last one was made, whoever has the creation lock, *)
(* and however long the passes of retention before the next one take.       *)
THEOREM PartitionsAhead == Spec => []PartitionAtHand
<1>1. Init => TimesInv /\ AheadInv
  <2> SUFFICES ASSUME Init PROVE TimesInv /\ AheadInv
    OBVIOUS
  <2>1. \A w \in Workers : /\ tick[w].step = "idle" /\ service[w] = "down"
                           /\ timer[w].due = 0 /\ timer[w].missed = 0
    BY DEF Init, NoTick
  <2>2. now = 0 /\ INTERVAL \in Nat /\ MAX_MISSED \in Nat
    BY TimesTyped DEF Init
  <2> QED BY <2>1, <2>2 DEF TimesInv, OnTime, AheadInv, AheadOf
<1>2. KeptInv /\ KeptInv' /\ TimesInv /\ AheadInv /\ [Next]_vars => TimesInv' /\ AheadInv'
  BY TimesStep, AheadStep
<1>3. KeptInv /\ TimesInv /\ AheadInv => PartitionAtHand
  <2> SUFFICES ASSUME KeptInv, TimesInv, AheadInv, NEW w \in Workers, NEW f \in Families,
                      service[w] = "running"
               PROVE  Attached(f, now)
    BY DEF PartitionAtHand
  <2>0. /\ now \in now .. MAX_TIME /\ now \in Nat /\ PASS_TIME \in Nat /\ Round \in Nat
        /\ Round = INTERVAL + PASS_TIME /\ INTERVAL \in Nat /\ MAX_MISSED \in Nat
        /\ OnTime(w) /\ AheadOf(w)
        /\ timer[w].due \in Nat /\ timer[w].missed \in Nat /\ tick[w].at \in Nat
    BY MaintenanceTyped, TimesTyped DEF TimesInv, AheadInv, Round
  <2>1. CASE timer[w].missed <= MAX_MISSED
    <3>1. Spare(timer[w].missed) \in Nat
      BY <2>0, <2>1, TimesTyped
    <3>2. NextTry(w) \in Nat /\ now <= NextTry(w) + PASS_TIME
      BY <2>0 DEF OnTime, NextTry
    <3>3. now <= Deadline(w)
      BY <2>0, <3>1, <3>2 DEF Deadline
    <3> QED BY <2>0, <2>1, <3>3 DEF AheadOf, AtHandUntil
  <2>2. CASE timer[w].missed > MAX_MISSED
    <3>1. PICK u \in Workers : tick[u].step = "creating"
      BY <2>0, <2>2 DEF OnTime, Creating
    <3>2. now <= tick[u].at + PASS_TIME
      BY <3>1 DEF TimesInv, OnTime
    <3> QED BY <2>0, <2>2, <3>1, <3>2 DEF AheadOf, AtHandUntil
  <2> QED BY <2>0, <2>1, <2>2
<1> QED BY <1>1, <1>2, <1>3, KeptInvariance, PTL DEF Spec
=============================================================================
