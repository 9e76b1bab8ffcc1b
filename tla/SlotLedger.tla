---------------------------- MODULE SlotLedger -----------------------------
(***************************************************************************)
(* What the scheduler promises, without leases, workers' pools or clocks:  *)
(* the slots of an endpoint are claimed in order, each by one worker, and  *)
(* an observation is recorded only for a claimed slot, by its claimer.     *)
(***************************************************************************)
EXTENDS Naturals

CONSTANTS Endpoints, Workers

VARIABLES
  claims,     \* the slots handed out, with the worker each was handed to
  observed    \* the slots a result is stored for

Entry == [endpoint : Endpoints, scheduled_at : Nat, worker_id : Workers]

Init == claims = {} /\ observed = {}

(* A batch takes at most one slot of an endpoint, later than all before it. *)
Claim(batch) ==
  /\ batch \subseteq Entry
  /\ \A c, d \in batch : c.endpoint = d.endpoint => c = d
  /\ \A c \in batch, d \in claims :
       c.endpoint = d.endpoint => d.scheduled_at < c.scheduled_at
  /\ claims' = claims \cup batch
  /\ UNCHANGED observed

Observe(c) ==
  /\ c \in claims \ observed
  /\ observed' = observed \cup {c}
  /\ UNCHANGED claims

(* The batch is what the step adds.                                         *)
Next == Claim(claims' \ claims) \/ \E c \in claims : Observe(c)

Spec == Init /\ [][Next]_<<claims, observed>>
=============================================================================
