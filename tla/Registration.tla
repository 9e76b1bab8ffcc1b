----------------------------- MODULE Registration -----------------------------
(***************************************************************************)
(* Registration of one user's services and endpoints (src/src/api/          *)
(* registration/services and src/src/core/registration/repositories): the   *)
(* requests overlap, each is a sequence of statements, and what serialises  *)
(* them is the row locks and the unique indexes of migration 0004.          *)
(*                                                                          *)
(* A transaction's writes are applied by its last step. Until then what it  *)
(* has locked or written is a set of resources other transactions' state-   *)
(* ments wait for. A row is named by the request that created it.           *)
(***************************************************************************)
EXTENDS Naturals, FiniteSets, Relation

CONSTANTS
  Requests, Seed,   \* Seed names the service and the endpoint stored at first
  NULL,
  Calls,            \* the request bodies: what each asks for, NULL for what it leaves out
  Origins, Paths, Names,
  SEED_ORIGIN, SEED_PATH, SEED_NAME,
  Intervals, Timeouts,
  DEFAULT_INTERVAL, DEFAULT_TIMEOUT, \* PROBE_DEFAULT_INTERVAL_S, _TIMEOUT_MS, in one unit
  QUOTA                              \* ENDPOINT_QUOTA_PER_USER

\* schema.ts refuses a configuration whose default pair a create would reject.
ASSUME RegistrationAssumption ==
  /\ QUOTA \in Nat \ {0}
  /\ SEED_ORIGIN \in Origins /\ SEED_PATH \in Paths /\ SEED_NAME \in Names
  /\ Seed \notin Requests /\ NULL \notin Requests \cup {Seed} \cup Origins
  /\ Intervals \subseteq Nat /\ Timeouts \subseteq Nat
  /\ DEFAULT_INTERVAL \in Intervals /\ DEFAULT_TIMEOUT \in Timeouts
  /\ DEFAULT_TIMEOUT < DEFAULT_INTERVAL

--------------------------------------------------------------------------------
(* Requests and what they ask for *)

\* The first step of each kind of request.
FirstStep == [createService |-> "insertService", createImplicit |-> "lockUser",
              createEndpoint |-> "read", updateEndpoint |-> "read", updateService |-> "lockOwner",
              deleteService |-> "statement", deleteEndpoint |-> "statement",
              setEnabled |-> "statement"]

\* A list of headers, by name; keep is a secret without a value.
HeaderList == UNION {[names -> {"secret", "plain", "keep"}] : names \in SUBSET Names}

RequestBody == [op : DOMAIN FirstStep, origin : Origins \cup {NULL}, path : Paths \cup {NULL},
                interval : Intervals \cup {NULL}, timeout : Timeouts \cup {NULL},
                headers : HeaderList \cup {NULL}]

\* A creation names the origin of the service, the path of the endpoint it creates.
ASSUME CallsAssumption ==
  /\ Calls \subseteq RequestBody
  /\ \A c \in Calls :
       /\ c.op \in {"createService", "createImplicit"} => c.origin # NULL
       /\ c.op \in {"createImplicit", "createEndpoint"} => c.path # NULL

--------------------------------------------------------------------------------

VARIABLES
  service,   \* base_url of each service, NULL where there is none
  endpoint,  \* the endpoint rows
  headers,   \* the header rows of each owner
  req        \* the requests

vars == <<service, endpoint, headers, req>>

Ids == Requests \cup {Seed}
Owners == {"service", "endpoint"} \X Ids

Endpoint == [service : Ids, path : Paths, interval : Intervals, timeout : Timeouts,
             enabled : BOOLEAN]

\* by: the request that encrypted or wrote the value; a kept ciphertext keeps it.
Header == [name : Names, secret : BOOLEAN, by : Ids]

Ended == {"done", "refused", "fault", "checkFault"}

\* id: the owner the request is about; origin, pre: what it read before its
\* lock; row: the endpoint it has locked; deletes: the header rows it deleted.
Request == [pc : {"idle", "read", "lockUser", "readService", "find", "createService", "count",
                  "insert", "insertService", "keyShare", "lockOwner", "joined", "patch", "rename",
                  "replace", "commit", "statement"} \cup Ended,
            call : Calls \cup {NULL}, id : Ids \cup {NULL}, origin : Origins \cup {NULL},
            pre : Endpoint \cup {NULL}, row : Endpoint \cup {NULL}, deletes : SUBSET Header]

Idle == [pc |-> "idle", call |-> NULL, id |-> NULL, origin |-> NULL, pre |-> NULL, row |-> NULL,
         deletes |-> {}]

SeedRow == [service |-> Seed, path |-> SEED_PATH, interval |-> DEFAULT_INTERVAL,
            timeout |-> DEFAULT_TIMEOUT, enabled |-> TRUE]

Init ==
  /\ service = [i \in Ids |-> IF i = Seed THEN SEED_ORIGIN ELSE NULL]
  /\ endpoint = [i \in Ids |-> IF i = Seed THEN SeedRow ELSE NULL]
  /\ headers = [o \in Owners |->
       IF o[2] = Seed THEN {[name |-> SEED_NAME, secret |-> TRUE, by |-> Seed]} ELSE {}]
  /\ req = [r \in Requests |-> Idle]

--------------------------------------------------------------------------------
(* What a transaction holds, and what a statement waits for *)

Services == {i \in Ids : service[i] # NULL}
Endpoints == {i \in Ids : endpoint[i] # NULL}

Given(asked, stored) == IF asked = NULL THEN stored ELSE asked

Owner(r) == <<IF req[r].call.op = "updateService" THEN "service" ELSE "endpoint", req[r].id>>

\* Mutant: nobody takes the lock on the user's row.
UserLocked_Never(r) == {}

\* SELECT ... FOR UPDATE of the user, held to the end of a creation.
UserLocked(r) ==
  IF req[r].pc \in {"readService", "find", "createService", "count", "insert"} THEN {<<"user">>} ELSE {}

OwnerLocked(r) ==
  IF req[r].pc \in {"joined", "patch", "rename", "replace", "commit"} THEN {Owner(r)} ELSE {}

\* The index entries a statement that is running, or has run, writes or replaces.
EntriesWritten(r) ==
  LET q == req[r]  c == q.call
      made == c.op = "createImplicit" /\ q.id = r
      writing == q.pc \in {"replace", "commit"}
  IN CASE q.pc = "keyShare" \/ (q.pc \in {"count", "insert"} /\ made) -> {<<"origin", c.origin>>}
       [] q.pc = "rename" -> {<<"origin", service[q.id]>>}
       [] q.pc = "patch" -> {<<"path", q.row.service, q.row.path>>}
       [] writing /\ c.op = "updateService" /\ c.origin # NULL ->
            {<<"origin", o>> : o \in {c.origin, service[q.id]}}
       [] writing /\ c.op = "updateEndpoint" /\ c.path # NULL ->
            {<<"path", q.row.service, p>> : p \in {c.path, q.row.path}}
       [] OTHER -> {}

Holds(r) == UserLocked(r) \cup OwnerLocked(r) \cup EntriesWritten(r)

\* Mutant: an update of a service asks for the user's row when it has its own.
UserNeeded_AfterOwner(r) == IF req[r].pc \in {"lockUser", "keyShare", "rename"} THEN {<<"user">>} ELSE {}

UserNeeded(r) == IF req[r].pc \in {"lockUser", "keyShare"} THEN {<<"user">>} ELSE {}

\* The endpoints a deletion takes along; the one endpoint of another statement.
Gone(r) ==
  IF req[r].call.op = "deleteService" THEN {e \in Endpoints : endpoint[e].service = req[r].id}
  ELSE {req[r].id}

Needs(r) ==
  LET q == req[r]  c == q.call IN
  UserNeeded(r) \cup
  CASE q.pc \in {"insertService", "createService", "rename"} -> {<<"origin", c.origin>>}
    [] q.pc = "insert" -> {<<"service", q.id>>, <<"path", q.id, c.path>>}
    [] q.pc = "lockOwner" -> {Owner(r)}
    [] q.pc = "patch" -> {<<"path", q.row.service, Given(c.path, q.row.path)>>}
    [] q.pc = "statement" ->
         (IF c.op = "deleteService" THEN {<<"service", q.id>>} ELSE {}) \cup ({"endpoint"} \X Gone(r))
    [] OTHER -> {}

WaitsFor(r, q) == r # q /\ Needs(r) \cap Holds(q) # {}

\* Mutant: the owner's row is read without FOR UPDATE.
Granted_OwnerShared(r) == req[r].pc = "lockOwner" \/ \A q \in Requests : ~WaitsFor(r, q)

Granted(r) == \A q \in Requests : ~WaitsFor(r, q)

Goto(r, pc) == req' = [req EXCEPT ![r].pc = pc]

\* An error rolls the transaction back: refused is an answer the handler means
\* (400, 404, 409), the others a database error nothing catches (500).
Fails(r, how) ==
  /\ req' = [req EXCEPT ![r] = [Idle EXCEPT !.pc = how]]
  /\ UNCHANGED <<service, endpoint, headers>>

Proceeds(r, pc) == Goto(r, pc) /\ UNCHANGED <<service, endpoint, headers>>

Taken(origin, but) == \E i \in Services \ {but} : service[i] = origin
Duplicate(s, path, but) == \E i \in Endpoints \ {but} : endpoint[i].service = s /\ endpoint[i].path = path

\* A secret sent without a value where no secret of that name is stored.
KeepsMissing(list, existing) ==
  \E n \in DOMAIN list : list[n] = "keep" /\ ~\E h \in existing : h.name = n /\ h.secret

Rows(r, existing) ==
  LET list == req[r].call.headers
      writer(n) == IF list[n] = "keep" THEN (CHOOSE h \in existing : h.name = n /\ h.secret).by ELSE r
  IN {[name |-> n, secret |-> list[n] # "plain", by |-> writer(n)] : n \in DOMAIN list}

--------------------------------------------------------------------------------
(* Arrival, and the reads that come before any lock *)

\* The body has passed its own checks and its URL the address check.
Submit(r) ==
  /\ req[r].pc = "idle"
  /\ \E c \in Calls :
       \E i \in CASE c.op \in {"createService", "createImplicit"} -> {NULL}
                  [] c.op \in {"createEndpoint", "updateService", "deleteService"} -> Services
                  [] OTHER -> Endpoints :
         req' = [req EXCEPT ![r].pc = FirstStep[c.op], ![r].call = c, ![r].id = i]
  /\ UNCHANGED <<service, endpoint, headers>>

\* preService, preExisting: the URL of this read is what is validated.
Read(r) ==
  LET i == req[r].id  updates == req[r].call.op = "updateEndpoint" IN
  /\ req[r].pc = "read"
  /\ IF (IF updates THEN endpoint[i] ELSE service[i]) = NULL THEN Fails(r, "refused")
     ELSE /\ req' = [req EXCEPT ![r].pc = IF updates THEN "lockOwner" ELSE "lockUser",
                                ![r].origin = service[IF updates THEN endpoint[i].service ELSE i],
                                ![r].pre = IF updates THEN endpoint[i] ELSE NULL]
          /\ UNCHANGED <<service, endpoint, headers>>

--------------------------------------------------------------------------------
(* Creating: createForService, createImplicit, createExplicit *)

LockUser(r) ==
  /\ req[r].pc = "lockUser"
  /\ Granted(r)
  /\ Proceeds(r, IF req[r].call.op = "createEndpoint" THEN "readService" ELSE "find")

\* A base_url that changed since the first read is validated again, and may
\* be refused now.
ReadService(r) ==
  LET i == req[r].id IN
  /\ req[r].pc = "readService"
  /\ \/ service[i] # NULL /\ Proceeds(r, "count")
     \/ service[i] # req[r].origin /\ Fails(r, "refused")

Find(r) ==
  /\ req[r].pc = "find"
  /\ IF Taken(req[r].call.origin, NULL)
     THEN /\ req' = [req EXCEPT ![r].pc = "count",
                                ![r].id = CHOOSE i \in Services : service[i] = req[r].call.origin]
          /\ UNCHANGED <<service, endpoint, headers>>
     ELSE Proceeds(r, "createService")

\* Mutant: the service is created outside the transaction.
CreateService_OwnCommit(r) ==
  /\ req[r].pc = "createService"
  /\ Granted(r)
  /\ IF Taken(req[r].call.origin, NULL) THEN Fails(r, "fault")
     ELSE /\ req' = [req EXCEPT ![r].pc = "count", ![r].id = r]
          /\ service' = [service EXCEPT ![r] = req[r].call.origin]
          /\ UNCHANGED <<endpoint, headers>>

\* The service of an implicit creation; its unique violation is not caught.
CreateService(r) ==
  /\ req[r].pc = "createService"
  /\ Granted(r)
  /\ IF Taken(req[r].call.origin, NULL) THEN Fails(r, "fault")
     ELSE /\ req' = [req EXCEPT ![r].pc = "count", ![r].id = r]
          /\ UNCHANGED <<service, endpoint, headers>>

Count(r) ==
  /\ req[r].pc = "count"
  /\ IF Cardinality(Endpoints) >= QUOTA THEN Fails(r, "refused") ELSE Proceeds(r, "insert")

\* The services with the one this transaction has created.
Made(r) == IF req[r].id = r THEN [service EXCEPT ![r] = req[r].call.origin] ELSE service

NewRow(r) ==
  LET c == req[r].call IN
  [service |-> req[r].id, path |-> c.path, interval |-> Given(c.interval, DEFAULT_INTERVAL),
   timeout |-> Given(c.timeout, DEFAULT_TIMEOUT), enabled |-> TRUE]

\* The endpoint, its headers, and the commit. A service deleted meanwhile is
\* a foreign key violation.
Insert(r) ==
  LET q == req[r] IN
  /\ q.pc = "insert"
  /\ Granted(r)
  /\ CASE Made(r)[q.id] = NULL -> Fails(r, "fault")
       [] Duplicate(q.id, q.call.path, NULL) -> Fails(r, "refused")
       [] q.call.headers # NULL /\ KeepsMissing(q.call.headers, {}) -> Fails(r, "refused")
       [] OTHER ->
            /\ service' = Made(r)
            /\ endpoint' = [endpoint EXCEPT ![r] = NewRow(r)]
            /\ headers' = IF q.call.headers = NULL THEN headers
                          ELSE [headers EXCEPT ![<<"endpoint", r>>] = Rows(r, {})]
            /\ Goto(r, "done")

InsertService(r) ==
  /\ req[r].pc = "insertService"
  /\ Granted(r)
  /\ IF Taken(req[r].call.origin, NULL) THEN Fails(r, "refused") ELSE Proceeds(r, "keyShare")

\* The insert's foreign key takes FOR KEY SHARE on the user's row; then the
\* headers and the commit.
KeyShare(r) ==
  LET c == req[r].call IN
  /\ req[r].pc = "keyShare"
  /\ Granted(r)
  /\ IF c.headers # NULL /\ KeepsMissing(c.headers, {}) THEN Fails(r, "refused")
     ELSE /\ service' = [service EXCEPT ![r] = c.origin]
          /\ headers' = IF c.headers = NULL THEN headers
                        ELSE [headers EXCEPT ![<<"service", r>>] = Rows(r, {})]
          /\ Goto(r, "done")
          /\ UNCHANGED endpoint

--------------------------------------------------------------------------------
(* Updating *)

Existing(r) == endpoint[req[r].id]

\* SELECT ... FOR UPDATE of the row about to change.
LockOwner(r) ==
  LET q == req[r]  c == q.call IN
  /\ q.pc = "lockOwner"
  /\ Granted(r)
  /\ IF c.op = "updateService"
     THEN IF service[q.id] = NULL THEN Fails(r, "refused")
          ELSE Proceeds(r, CASE c.origin # NULL -> "rename"
                             [] c.headers # NULL -> "replace"
                             [] OTHER -> "commit")
     ELSE IF endpoint[q.id] = NULL THEN Fails(r, "refused")
          ELSE /\ req' = [req EXCEPT ![r].pc = "joined", ![r].row = Existing(r)]
               /\ UNCHANGED <<service, endpoint, headers>>

\* The service is read without a lock; the joined URL is validated again if it
\* changed; the timeout is checked against the interval it will lie beside.
Joined(r) ==
  LET q == req[r] IN
  /\ q.pc = "joined"
  /\ IF Given(q.call.timeout, q.row.timeout) >= Given(q.call.interval, q.row.interval)
     THEN Fails(r, "refused")
     ELSE \/ Proceeds(r, "patch")
          \/ service[q.row.service] # q.origin /\ Fails(r, "refused")

Patched(r, row) ==
  LET c == req[r].call IN
  [row EXCEPT !.path = Given(c.path, @), !.interval = Given(c.interval, @),
              !.timeout = Given(c.timeout, @)]

\* Mutant: the update writes back the whole row of its first read.
Written_WholeRow(r) == Patched(r, req[r].pre)

\* The UPDATE sets only the columns the body names.
Written(r) == Patched(r, endpoint[req[r].id])

AfterUpdate(r) == IF req[r].call.headers = NULL THEN "commit" ELSE "replace"

Patch(r) ==
  LET row == Written(r) IN
  /\ req[r].pc = "patch"
  /\ Granted(r)
  /\ CASE row.timeout >= row.interval -> Fails(r, "checkFault")
       [] Duplicate(row.service, row.path, req[r].id) -> Fails(r, "refused")
       [] OTHER -> Proceeds(r, AfterUpdate(r))

Rename(r) ==
  /\ req[r].pc = "rename"
  /\ Granted(r)
  /\ IF Taken(req[r].call.origin, req[r].id) THEN Fails(r, "refused")
     ELSE Proceeds(r, AfterUpdate(r))

\* The read that resolves a keep, and the DELETE.
Replace(r) ==
  LET existing == headers[Owner(r)] IN
  /\ req[r].pc = "replace"
  /\ IF KeepsMissing(req[r].call.headers, existing) THEN Fails(r, "refused")
     ELSE /\ req' = [req EXCEPT ![r].pc = "commit", ![r].deletes = existing]
          /\ UNCHANGED <<service, endpoint, headers>>

Commit(r) ==
  LET q == req[r]  c == q.call IN
  /\ q.pc = "commit"
  /\ service' = IF c.op = "updateService" THEN [service EXCEPT ![q.id] = Given(c.origin, @)] ELSE service
  /\ endpoint' = IF c.op = "updateEndpoint" THEN [endpoint EXCEPT ![q.id] = Written(r)] ELSE endpoint
  /\ headers' = IF c.headers = NULL THEN headers
                ELSE [headers EXCEPT ![Owner(r)] = (@ \ q.deletes) \cup Rows(r, q.deletes)]
  /\ Goto(r, "done")

--------------------------------------------------------------------------------
(* The single statements: delete (with its cascade) and setEnabled *)

Statement(r) ==
  LET q == req[r]  deletesService == q.call.op = "deleteService" IN
  /\ q.pc = "statement"
  /\ Granted(r)
  /\ IF (IF deletesService THEN service[q.id] ELSE endpoint[q.id]) = NULL THEN Fails(r, "refused")
     ELSE /\ Goto(r, "done")
          /\ IF q.call.op = "setEnabled"
             THEN /\ endpoint' = [endpoint EXCEPT ![q.id].enabled = FALSE]
                  /\ UNCHANGED <<service, headers>>
             ELSE /\ service' = IF deletesService THEN [service EXCEPT ![q.id] = NULL] ELSE service
                  /\ endpoint' = [e \in Ids |-> IF e \in Gone(r) THEN NULL ELSE endpoint[e]]
                  /\ headers' = [o \in Owners |->
                       IF \/ o[1] = "endpoint" /\ o[2] \in Gone(r)
                          \/ deletesService /\ o = <<"service", q.id>>
                       THEN {} ELSE headers[o]]

--------------------------------------------------------------------------------
(* The database's deadlock detector ends one of the transactions that wait in  *)
(* a circle; nothing catches its error.                                        *)

Waiting == [rq \in Requests \X Requests |-> WaitsFor(rq[1], rq[2])]

InCircle(r) == (\E q \in Requests : WaitsFor(r, q)) /\ TransitiveClosure(Waiting, Requests)[r, r]

Victim(r) == InCircle(r) /\ Fails(r, "fault")

AllEnded == (\A r \in Requests : req[r].pc \in Ended) /\ UNCHANGED vars

Next ==
  \/ \E r \in Requests :
       \/ Submit(r) \/ Read(r) \/ LockUser(r) \/ ReadService(r) \/ Find(r) \/ CreateService(r)
       \/ Count(r) \/ Insert(r) \/ InsertService(r) \/ KeyShare(r) \/ LockOwner(r) \/ Joined(r)
       \/ Patch(r) \/ Rename(r) \/ Replace(r) \/ Commit(r) \/ Statement(r) \/ Victim(r)
  \/ AllEnded

Spec == Init /\ [][Next]_vars

--------------------------------------------------------------------------------
(* Properties *)

\* An endpoint's service exists, a row has a possible value in every field, and
\* no stored secret is without a ciphertext somebody wrote.
TypeOK ==
  /\ service \in [Ids -> Origins \cup {NULL}]
  /\ endpoint \in [Ids -> Endpoint \cup {NULL}]
  /\ \A i \in Endpoints : service[endpoint[i].service] # NULL
  /\ headers \in [Owners -> SUBSET Header]
  /\ req \in [Requests -> Request]

\* However creations overlap, the user never has more endpoints than the quota.
QuotaKept == Cardinality(Endpoints) <= QUOTA

\* The pair of timeout and interval is checked against the row it is stored in:
\* migration 0010's CHECK never has to refuse an update.
CheckNeverViolated == \A r \in Requests : req[r].pc # "checkFault"

\* However updates and creations overlap, neither limit is passed and neither is
\* left to the database to enforce.
BoundsKept == QuotaKept /\ CheckNeverViolated

\* What q replaced: the owner of the headers its body named.
Replaced(q) ==
  CASE req[q].call.op = "createService" -> <<"service", q>>
    [] req[q].call.op \in {"createEndpoint", "createImplicit"} -> <<"endpoint", q>>
    [] OTHER -> Owner(q)

\* The headers of an owner are the full list of one request, never the union of
\* two concurrent replacements.
HeadersWhole ==
  \A o \in Owners :
    LET rows == headers[o]  names == {h.name : h \in rows} IN
    /\ \A g, h \in rows : g.name = h.name => g = h
    /\ \/ \A h \in rows : h.by = Seed
       \/ \E q \in Requests : /\ req[q].pc = "done" /\ req[q].call.headers # NULL
                               /\ Replaced(q) = o /\ names = DOMAIN req[q].call.headers

\* A request that was refused or failed has stored nothing: no service without
\* the endpoint it was created for, and no header.
RefusedLeavesNothing ==
  \A r \in Requests : req[r].pc \in {"refused", "fault", "checkFault"} =>
    /\ service[r] = NULL /\ endpoint[r] = NULL
    /\ \A o \in Owners : \A h \in headers[o] : h.by # r

\* What is stored is the whole of what requests asked for, and nothing of one
\* that failed.
StoredWhole == TypeOK /\ HeadersWhole /\ RefusedLeavesNothing

\* A secret sent without a value keeps the ciphertext stored when it commits:
\* it never brings back one that another request has rotated or cleared.
KeptSecretCurrent ==
  [][\A o \in Owners : \A h \in headers'[o] \ headers[o] :
       h.by \in Requests /\ req[h.by].pc # "done" /\ req'[h.by].pc = "done"]_vars

\* A change of an endpoint is one its request's body asked for: an update never
\* writes back, over a concurrent one, a field it read but was not given.
OnlyAskedFields ==
  [][\A e \in Ids : endpoint[e] # NULL /\ endpoint'[e] # NULL =>
       \A f \in {"service", "path", "interval", "timeout", "enabled"} :
         endpoint'[e][f] # endpoint[e][f] =>
           \E r \in Requests :
             /\ req[r].pc # "done" /\ req'[r].pc = "done" /\ req[r].id = e
             /\ IF f = "enabled" THEN req[r].call.op = "setEnabled"
                ELSE f # "service" /\ req[r].call[f] = endpoint'[e][f]]_vars

\* Requests each of which waits for another of them.
Circle(S) == S # {} /\ \A r \in S : \E q \in S : WaitsFor(r, q)

\* Every deadlock goes through an explicit creation, the one request that asks for the
\* user's row (by its foreign key) after it has written something, or is an exchange:
\* edits of base URLs, or of paths, each taking the name another is giving up. All the
\* others keep to user.repository.ts's "a consistent users-first order is what keeps two
\* transactions that both need both locks from deadlocking".
DeadlocksKnown ==
  \A S \in SUBSET Requests : Circle(S) =>
    \/ \E r \in S : req[r].pc = "keyShare"
    \/ \E T \in SUBSET S, pc \in {"rename", "patch"} : Circle(T) /\ \A r \in T : req[r].pc = pc
================================================================================
