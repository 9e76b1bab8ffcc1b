----------------------------- MODULE AuthAttempts -----------------------------
(***************************************************************************)
(* The authentication rate limiter (src/src/api/auth/services/rate-limit.   *)
(* service.ts and repositories/auth-attempt.repository.ts): every request   *)
(* takes its timestamp on arrival, waits for the advisory locks of its      *)
(* keys, counts, and records its attempt in the same transaction; a         *)
(* success and the sweep touch the same rows without those locks.           *)
(*                                                                          *)
(* A row of auth_attempts is named by the request that inserted it, so the  *)
(* table is three sets of requests: their address rows, their account rows  *)
(* and the address rows marked as successes.                                *)
(***************************************************************************)
EXTENDS Naturals, FiniteSets

CONSTANTS
  Requests,           \* each is served once
  Ips, Emails,
  NULL,
  WINDOW,             \* AUTH_WINDOW_MS
  RETENTION,          \* AUTH_ATTEMPT_RETENTION_MS
  MAX_PER_IP,         \* AUTH_MAX_PER_IP
  MAX_REGISTRATIONS,  \* AUTH_MAX_REGISTRATIONS_PER_IP
  MAX_FAILURES,       \* AUTH_MAX_FAILURES_PER_EMAIL
  DELAY,              \* the longest from a request's timestamp to its insert
  MAX_TIME            \* bound: the clock

\* The configuration asks for RETENTION >= WINDOW; what the limiter needs is
\* that no attempt a delayed request still counts has been pruned.
ASSUME AttemptsAssumption ==
  /\ WINDOW \in Nat /\ DELAY \in Nat /\ MAX_TIME \in Nat
  /\ RETENTION \in Nat /\ RETENTION >= WINDOW + DELAY
  /\ MAX_PER_IP \in Nat \ {0} /\ MAX_REGISTRATIONS \in Nat \ {0}
  /\ MAX_FAILURES \in Nat \ {0}
  /\ NULL \notin Emails \cup Ips
  /\ IsFiniteSet(Requests)

VARIABLES
  now,
  req,          \* the requests; an admitted one keeps what it was admitted with
  addressRows,  \* scope ip or register
  accountRows,  \* scope email
  succeeded     \* address rows promoted by markSucceeded

vars == <<now, req, addressRows, accountRows, succeeded>>

Scopes == {"ip", "register"}
Admitted == {"verifying", "done"}

\* cleared (history): a success of its account came after the admission.
Request == [pc : {"idle", "arrived", "countAccount", "insert", "verifying", "done", "refused"},
            scope : Scopes, ip : Ips \cup {NULL}, email : Emails \cup {NULL},
            at : 0 .. MAX_TIME, cleared : BOOLEAN]

Idle == [pc |-> "idle", scope |-> "ip", ip |-> NULL, email |-> NULL, at |-> 0, cleared |-> FALSE]

Init ==
  /\ now = 0
  /\ req = [r \in Requests |-> Idle]
  /\ addressRows = {} /\ accountRows = {} /\ succeeded = {}

--------------------------------------------------------------------------------
(* The table, as a request sees it *)

\* count(): rows of the key since the request's timestamp less the window.
\* There is no upper end: a row stamped later than the request counts too.
AddressCount(r) ==
  Cardinality({q \in addressRows : /\ req[q].scope = req[r].scope /\ req[q].ip = req[r].ip
                                   /\ req[q].at + WINDOW >= req[r].at})
AccountCount(r) ==
  Cardinality({q \in accountRows : /\ req[q].email = req[r].email
                                   /\ req[q].at + WINDOW >= req[r].at})

AddressLimit(r) == IF req[r].scope = "ip" THEN MAX_PER_IP ELSE MAX_REGISTRATIONS

\* Mutant: no advisory lock.
KeysFree_Never(r) == TRUE

\* pg_advisory_xact_lock on each key, in sorted order: nobody who shares one
\* is between its count and its commit.
KeysFree(r) ==
  \A q \in Requests \ {r} :
    req[q].pc \in {"countAccount", "insert"} =>
      /\ req[q].scope # req[r].scope \/ req[q].ip # req[r].ip
      /\ req[q].email = NULL \/ req[q].email # req[r].email

Goto(r, pc) == req' = [req EXCEPT ![r].pc = pc]
Refuse(r) == req' = [req EXCEPT ![r] = [Idle EXCEPT !.pc = "refused"]]

--------------------------------------------------------------------------------
(* reserve *)

\* login comes with both keys, registration with its own scope, a password
\* change and an OAuth step with the address alone.
Arrive(r, scope, ip, email) ==
  /\ req[r].pc = "idle"
  /\ scope = "register" => email = NULL
  /\ req' = [req EXCEPT ![r] = [pc |-> "arrived", scope |-> scope, ip |-> ip, email |-> email,
                                at |-> now, cleared |-> FALSE]]
  /\ UNCHANGED <<now, addressRows, accountRows, succeeded>>

CountAddress(r) ==
  /\ req[r].pc = "arrived"
  /\ KeysFree(r)
  /\ IF AddressCount(r) >= AddressLimit(r) THEN Refuse(r)
     ELSE Goto(r, IF req[r].email = NULL THEN "insert" ELSE "countAccount")
  /\ UNCHANGED <<now, addressRows, accountRows, succeeded>>

CountAccount(r) ==
  /\ req[r].pc = "countAccount"
  /\ IF AccountCount(r) >= MAX_FAILURES THEN Refuse(r) ELSE Goto(r, "insert")
  /\ UNCHANGED <<now, addressRows, accountRows, succeeded>>

\* Both rows, as failures until proven otherwise, and the commit.
Record(r) ==
  /\ req[r].pc = "insert"
  /\ addressRows' = addressRows \cup {r}
  /\ accountRows' = IF req[r].email = NULL THEN accountRows ELSE accountRows \cup {r}
  /\ Goto(r, "verifying")
  /\ UNCHANGED <<now, succeeded>>

--------------------------------------------------------------------------------
(* What becomes of the attempt *)

\* A wrong password, or a caller that reports no success.
Fails(r) ==
  /\ req[r].pc = "verifying"
  /\ Goto(r, "done")
  /\ UNCHANGED <<now, addressRows, accountRows, succeeded>>

\* The address's failed logins stamped so far, and the newest of them.
Promotable(r) == {q \in addressRows \ succeeded : req[q].scope = "ip" /\ req[q].ip = req[r].ip}
NewestOf(rows) == {q \in rows : \A p \in rows : req[p].at <= req[q].at}

\* markSucceeded, which only a login calls: one address row is promoted and
\* the account's rows are deleted, those of attempts in flight too.
Succeeds(r) ==
  /\ req[r].pc = "verifying"
  /\ req[r].email # NULL
  /\ IF Promotable(r) = {} THEN UNCHANGED succeeded
     ELSE \E q \in NewestOf(Promotable(r)) : succeeded' = succeeded \cup {q}
  /\ accountRows' = {q \in accountRows : req[q].email # req[r].email}
  /\ req' = [q \in Requests |->
               [req[q] EXCEPT !.cleared = @ \/ (req[q].pc \in Admitted
                                                /\ req[q].email = req[r].email),
                              !.pc = IF q = r THEN "done" ELSE @]]
  /\ UNCHANGED <<now, addressRows>>

Expired(q) == req[q].at + RETENTION < now

\* pruneBefore, called by AuthMaintenanceService.sweep.
Prune ==
  /\ \E q \in addressRows \cup accountRows : Expired(q)
  /\ addressRows' = {q \in addressRows : ~Expired(q)}
  /\ accountRows' = {q \in accountRows : ~Expired(q)}
  /\ succeeded' = {q \in succeeded : ~Expired(q)}
  /\ UNCHANGED <<now, req>>

Pass ==
  /\ now < MAX_TIME
  /\ \A r \in Requests : req[r].pc \in {"arrived", "countAccount", "insert"}
                           => now < req[r].at + DELAY
  /\ now' = now + 1
  /\ UNCHANGED <<req, addressRows, accountRows, succeeded>>

AllServed == now = MAX_TIME /\ UNCHANGED vars

Next ==
  \/ \E r \in Requests :
       \/ \E scope \in Scopes, ip \in Ips, email \in Emails \cup {NULL} :
            Arrive(r, scope, ip, email)
       \/ CountAddress(r) \/ CountAccount(r) \/ Record(r) \/ Fails(r) \/ Succeeds(r)
  \/ Prune \/ Pass \/ AllServed

Spec == Init /\ [][Next]_vars

--------------------------------------------------------------------------------
(* What must hold *)

\* Every variable has its type, and rows belong to admitted requests.
TypeOK ==
  /\ now \in 0 .. MAX_TIME
  /\ req \in [Requests -> Request]
  /\ addressRows \subseteq {r \in Requests : req[r].pc \in Admitted}
  /\ accountRows \subseteq {r \in addressRows : req[r].email # NULL}
  /\ succeeded \subseteq {r \in addressRows : req[r].scope = "ip"}

\* The admitted requests that were stamped within a window that begins at at.
InWindow(rs, at) == {r \in rs : req[r].at \in at .. at + WINDOW}
AdmittedFrom(scope, ip) ==
  {r \in Requests : req[r].pc \in Admitted /\ req[r].scope = scope /\ req[r].ip = ip}

\* Those of an account that no success of it has come after.
AdmittedOn(e) ==
  {r \in Requests : req[r].pc \in Admitted /\ req[r].email = e /\ ~req[r].cleared}

\* However requests overlap, wait and overtake each other, no stretch of time
\* as long as the window holds more admitted attempts from one address than
\* its limit (reserve, pruneBefore).
AddressWithinLimit ==
  \A ip \in Ips, at \in 0 .. MAX_TIME :
    /\ Cardinality(InWindow(AdmittedFrom("ip", ip), at)) <= MAX_PER_IP
    /\ Cardinality(InWindow(AdmittedFrom("register", ip), at)) <= MAX_REGISTRATIONS

\* Nor more attempts on one account, from whatever addresses, that no success
\* of the account has come after (reserve, markSucceeded).
AccountWithinLimit ==
  \A e \in Emails, at \in 0 .. MAX_TIME :
    Cardinality(InWindow(AdmittedOn(e), at)) <= MAX_FAILURES

\* What reserve promises, of every key and every window.
WithinLimits == TypeOK /\ AddressWithinLimit /\ AccountWithinLimit
================================================================================
