----------------------------- MODULE MCRetention -----------------------------
(* Storage maintenance on small instances: a day of one or three units, a   *)
(* month of two days.                                                      *)
EXTENDS Retention, TLC

CONSTANTS w1, w2

RawAndMinutes == <<"raw", "m1">>
DaysAndMonths == <<"raw", "claim_log", "h1">>

MCKind == [f \in Families |-> IF f = "h1" THEN "month" ELSE "day"]
MCGuard == [f \in Families |->
  IF f = "raw" THEN "raw" ELSE IF f = "claim_log" THEN "none" ELSE "stats"]

Calendar(day) ==
  [f \in Families |-> [n \in 0..LAST + 1 |-> IF f = "h1" THEN 2 * n * day ELSE n * day]]
ShortDays == Calendar(1)
WorkDays == Calendar(3)

ShortKeep == [f \in Families |-> 2]
WorkKeep == [f \in Families |-> 3]

Symmetric == Permutations(Workers)
=============================================================================
