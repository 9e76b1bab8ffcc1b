-------------------------- MODULE RegistrationProofs --------------------------
(***************************************************************************)
(* Theorems about the registration of one user's services and endpoints,    *)
(* for any requests, bodies, names, bounds and quota.                       *)
(***************************************************************************)
EXTENDS Registration, FiniteSetTheorems, TLAPS

--------------------------------------------------------------------------------
(* The invariant. The steps of each kind of request, and what it has at hand *)

Blank == {"idle", "refused", "fault", "checkFault"}

StepsOf == [createService |-> {"insertService", "keyShare", "done"},
            createImplicit |-> {"lockUser", "find", "createService", "count", "insert", "done"},
            createEndpoint |-> {"read", "lockUser", "readService", "count", "insert", "done"},
            updateEndpoint |-> {"read", "lockOwner", "joined", "patch", "replace", "commit", "done"},
            updateService |-> {"lockOwner", "rename", "replace", "commit", "done"},
            deleteService |-> {"statement", "done"},
            deleteEndpoint |-> {"statement", "done"},
            setEnabled |-> {"statement", "done"}]

\* The one request that is about no row yet.
NoOwnerYet(q) ==
  \/ q.call.op = "createService"
  \/ q.call.op = "createImplicit" /\ q.pc \in {"lockUser", "find", "createService"}

\* A request follows the steps of its kind; what it goes on with, it has. Its
\* pair of bounds is in order from the moment Joined has passed it.
Shape(q) ==
  q.pc \notin Blank =>
    /\ q.call \in Calls /\ q.pc \in StepsOf[q.call.op]
    /\ NoOwnerYet(q) => q.id = NULL
    /\ ~NoOwnerYet(q) => q.id \in Ids
    /\ q.pc = "rename" => q.call.origin # NULL
    /\ q.pc = "replace" => q.call.headers # NULL
    /\ q.pc = "patch" => Given(q.call.timeout, q.row.timeout) < Given(q.call.interval, q.row.interval)

Shaped == CheckNeverViolated /\ \A r \in Requests : Shape(req[r])

\* A row of a request is there once the request is done; so the rows one is
\* about are the seed's, of requests that are done, or its own.
Fresh ==
  \A r \in Requests : req[r].pc # "done" =>
    /\ service[r] = NULL /\ endpoint[r] = NULL
    /\ \A o \in Owners : \A h \in headers[o] : h.by # r

Stored(i) == i = Seed \/ (i \in Requests /\ req[i].pc = "done")

KnownIds ==
  \A r \in Requests : req[r].id # NULL =>
    \/ Stored(req[r].id)
    \/ req[r].id = r /\ req[r].call.op = "createImplicit" /\ req[r].pc \in {"count", "insert"}

--------------------------------------------------------------------------------
(* What the locks are for *)

HoldsUser == {"readService", "find", "createService", "count", "insert"}
HoldsOwner == {"joined", "patch", "rename", "replace", "commit"}

UserAlone ==
  \A q, r \in Requests : req[q].pc \in HoldsUser /\ req[r].pc \in HoldsUser => q = r

OwnerOf(q) == <<IF q.call.op = "updateService" THEN "service" ELSE "endpoint", q.id>>

OwnerAlone ==
  \A q, r \in Requests :
    /\ req[q].pc \in HoldsOwner /\ req[r].pc \in HoldsOwner
    /\ OwnerOf(req[q]) = OwnerOf(req[r])
    => q = r

\* What has been read under the lock on the owner is still there.
Current(q) ==
  /\ q.call.op = "updateEndpoint" => endpoint[q.id] # NULL /\ q.row = endpoint[q.id]
  /\ q.call.op = "updateService" => service[q.id] # NULL
  /\ q.pc = "commit" /\ q.call.headers # NULL =>
       q.deletes = headers[OwnerOf(q)] /\ ~KeepsMissing(q.call.headers, q.deletes)

OwnersCurrent == \A r \in Requests : req[r].pc \in HoldsOwner => Current(req[r])

\* Whoever has counted still has a place.
RoomLeft ==
  /\ IsFiniteSet(Endpoints)
  /\ \A r \in Requests : req[r].pc = "insert" => Cardinality(Endpoints) < QUOTA

IInv ==
  /\ TypeOK /\ Shaped /\ Fresh /\ KnownIds
  /\ UserAlone /\ OwnerAlone /\ OwnersCurrent
  /\ RoomLeft /\ QuotaKept /\ HeadersWhole

--------------------------------------------------------------------------------
(* What the locks show. *)

LEMMA UserGranted ==
  ASSUME NEW r \in Requests, Granted(r), req[r].pc = "lockUser"
  PROVE  \A q \in Requests \ {r} : req[q].pc \notin HoldsUser
<1>1. SUFFICES ASSUME NEW q \in Requests \ {r}, req[q].pc \in HoldsUser
               PROVE  FALSE
  OBVIOUS
<1>2. <<"user">> \in Needs(r)
  BY DEF Needs, UserNeeded
<1>3. <<"user">> \in Holds(q)
  BY <1>1 DEF Holds, UserLocked, HoldsUser
<1> QED BY <1>1, <1>2, <1>3 DEF Granted, WaitsFor

LEMMA HoldsOwned ==
  ASSUME NEW q \in Requests, req[q].pc \in HoldsOwner
  PROVE  OwnerOf(req[q]) \in Holds(q)
BY DEF Holds, OwnerLocked, HoldsOwner, Owner, OwnerOf

LEMMA OwnerGranted ==
  ASSUME NEW r \in Requests, Granted(r), req[r].pc = "lockOwner"
  PROVE  \A q \in Requests \ {r} : req[q].pc \in HoldsOwner => OwnerOf(req[q]) # OwnerOf(req[r])
<1>1. SUFFICES ASSUME NEW q \in Requests \ {r}, req[q].pc \in HoldsOwner,
                      OwnerOf(req[q]) = OwnerOf(req[r])
               PROVE  FALSE
  OBVIOUS
<1>2. OwnerOf(req[r]) \in Needs(r)
  BY DEF Needs, UserNeeded, Owner, OwnerOf
<1>3. OwnerOf(req[r]) \in Holds(q)
  BY <1>1, HoldsOwned
<1> QED BY <1>1, <1>2, <1>3 DEF Granted, WaitsFor

\* A deletion waits for the updates of what it deletes, cascade included.
LEMMA StatementGranted ==
  ASSUME NEW r \in Requests, Granted(r), req[r].pc = "statement",
         NEW q \in Requests \ {r}, req[q].pc \in HoldsOwner,
         req[q].id \in Ids, req[q].call.op \in {"updateService", "updateEndpoint"}
  PROVE  IF req[r].call.op = "deleteService"
         THEN /\ req[q].call.op = "updateService" => req[q].id # req[r].id
              /\ req[q].call.op = "updateEndpoint" /\ endpoint[req[q].id] # NULL =>
                   endpoint[req[q].id].service # req[r].id
         ELSE req[q].call.op = "updateEndpoint" => req[q].id # req[r].id
<1>1. OwnerOf(req[q]) \in Holds(q)
  BY HoldsOwned
<1>2. OwnerOf(req[q]) \notin Needs(r)
  BY <1>1 DEF Granted, WaitsFor
<1>3. CASE req[r].call.op = "deleteService"
  <2>1. Needs(r) = {<<"service", req[r].id>>} \cup ({"endpoint"} \X Gone(r))
    BY <1>3 DEF Needs, UserNeeded
  <2>2. ASSUME req[q].call.op = "updateService", req[q].id = req[r].id PROVE FALSE
    BY <1>2, <2>1, <2>2 DEF OwnerOf
  <2>3. ASSUME req[q].call.op = "updateEndpoint", endpoint[req[q].id] # NULL,
               endpoint[req[q].id].service = req[r].id
        PROVE  FALSE
    <3>1. req[q].id \in Gone(r)
      BY <1>3, <2>3 DEF Gone, Endpoints
    <3>2. OwnerOf(req[q]) = <<"endpoint", req[q].id>>
      BY <2>3 DEF OwnerOf
    <3> QED BY <1>2, <2>1, <3>1, <3>2
  <2> QED BY <1>3, <2>2, <2>3
<1>4. CASE req[r].call.op # "deleteService"
  <2>1. Needs(r) = {} \cup ({"endpoint"} \X {req[r].id})
    BY <1>4 DEF Needs, UserNeeded, Gone
  <2> QED BY <1>2, <1>4, <2>1 DEF OwnerOf
<1> QED BY <1>3, <1>4

--------------------------------------------------------------------------------
(* A step that writes no table. *)

LEMMA TypeKept ==
  ASSUME TypeOK, NEW r \in Requests, NEW q \in Request,
         req' = [req EXCEPT ![r] = q], UNCHANGED <<service, endpoint, headers>>
  PROVE  TypeOK'
BY DEF TypeOK, Endpoints

\* What the record q that r goes on with has to bring.
Fits(r, q) ==
  /\ q \in Request /\ Shape(q) /\ q.pc \notin {"done", "checkFault"}
  /\ req[r].pc # "done"
  /\ q.id # NULL => Stored(q.id) \/ (q.id = r /\ q.call.op = "createImplicit" /\ q.pc \in {"count", "insert"})
  /\ q.pc \in HoldsUser =>
       req[r].pc \in HoldsUser \/ \A p \in Requests \ {r} : req[p].pc \notin HoldsUser
  /\ q.pc \in HoldsOwner =>
       /\ Current(q)
       /\ \/ req[r].pc \in HoldsOwner /\ OwnerOf(req[r]) = OwnerOf(q)
          \/ \A p \in Requests \ {r} : req[p].pc \in HoldsOwner => OwnerOf(req[p]) # OwnerOf(q)
  /\ q.pc = "insert" => Cardinality(Endpoints) < QUOTA

LEMMA QuietStep ==
  ASSUME IInv, NEW r \in Requests, NEW q \in Request, Fits(r, q),
         req' = [req EXCEPT ![r] = q], UNCHANGED <<service, endpoint, headers>>
  PROVE  IInv'
<1> USE DEF IInv
<1>1. /\ req'[r] = q
      /\ \A p \in Requests \ {r} : req'[p] = req[p]
  BY DEF TypeOK
<1>2. TypeOK'
  BY TypeKept
<1>3. Shaped'
  BY <1>1 DEF Shaped, Fits, Shape, CheckNeverViolated, NoOwnerYet
<1>4. \A p \in Requests : req'[p].pc = "done" <=> req[p].pc = "done"
  BY <1>1 DEF Fits
<1>5. Fresh'
  BY <1>4 DEF Fresh
<1>6. \A i : Stored(i)' <=> Stored(i)
  BY <1>4 DEF Stored
<1>7. KnownIds'
  BY <1>1, <1>6 DEF KnownIds, Fits
<1>8. UserAlone'
  BY <1>1 DEF UserAlone, Fits
<1>9. OwnerAlone'
  BY <1>1 DEF OwnerAlone, Fits, OwnerOf
<1>10. OwnersCurrent'
  BY <1>1 DEF OwnersCurrent, Fits, Current, OwnerOf, KeepsMissing
<1>11. RoomLeft' /\ QuotaKept'
  BY <1>1 DEF RoomLeft, QuotaKept, Fits, Endpoints
<1>12. HeadersWhole'
  <2>1. \A p \in Requests : req[p].pc = "done" => req'[p] = req[p]
    BY <1>1 DEF Fits
  <2>2. \A p \in Requests : req[p].pc = "done" => Replaced(p)' = Replaced(p)
    BY <2>1 DEF Replaced, Owner
  <2>3. ASSUME NEW o \in Owners, NEW p \in Requests, req[p].pc = "done",
               req[p].call.headers # NULL, Replaced(p) = o,
               {h.name : h \in headers[o]} = DOMAIN req[p].call.headers
        PROVE  /\ req'[p].pc = "done" /\ req'[p].call.headers # NULL /\ Replaced(p)' = o
               /\ {h.name : h \in headers[o]} = DOMAIN req'[p].call.headers
    BY <2>1, <2>2, <2>3
  <2>4. HeadersWhole
    OBVIOUS
  <2> QED BY <2>3, <2>4 DEF HeadersWhole
<1> QED BY <1>2, <1>3, <1>5, <1>7, <1>8, <1>9, <1>10, <1>11, <1>12

LEMMA FailsStep ==
  ASSUME IInv, NEW r \in Requests, NEW how \in {"refused", "fault"}, req[r].pc # "done", Fails(r, how)
  PROVE  IInv'
<1> DEFINE q == [Idle EXCEPT !.pc = how]
<1>1. q \in Request
  BY DEF Idle, Request, Ended
<1>2. q.pc = how /\ q.id = NULL
  BY DEF Idle
<1>3. Fits(r, q)
  BY <1>1, <1>2 DEF Fits, Shape, Blank, HoldsUser, HoldsOwner
<1> QED BY <1>1, <1>3, QuietStep DEF Fails

\* Going on with no more than the next step's name.
LEMMA ProceedsStep ==
  ASSUME IInv, NEW r \in Requests, NEW pc, Proceeds(r, pc), Fits(r, [req[r] EXCEPT !.pc = pc])
  PROVE  IInv'
BY QuietStep DEF Proceeds, Goto, Fits

LEMMA ShapeOf ==
  ASSUME IInv, NEW r \in Requests
  PROVE  /\ req[r] \in Request /\ Shape(req[r])
         /\ req[r].id # NULL => Stored(req[r].id) \/ (req[r].id = r /\ req[r].call.op = "createImplicit"
                                                     /\ req[r].pc \in {"count", "insert"})
BY DEF IInv, TypeOK, Shaped, KnownIds

LEMMA BodyOf ==
  ASSUME NEW c \in Calls
  PROVE  /\ c \in RequestBody
         /\ c.op \in {"createService", "createImplicit"} => c.origin # NULL
         /\ c.op \in {"createImplicit", "createEndpoint"} => c.path # NULL
         /\ c.op \in {"createService", "createImplicit", "createEndpoint", "updateEndpoint",
                      "updateService", "deleteService", "deleteEndpoint", "setEnabled"}
BY CallsAssumption DEF RequestBody, FirstStep

\* A row that is there is the seed's or of a request that is done.
LEMMA RowsStored ==
  ASSUME IInv, NEW i \in Ids, service[i] # NULL \/ endpoint[i] # NULL
  PROVE  Stored(i)
BY DEF IInv, Fresh, Stored, Ids

LEMMA SubmitStep ==
  ASSUME IInv, NEW r \in Requests, Submit(r)
  PROVE  IInv'
<1>1. PICK c \in Calls :
        \E i \in CASE c.op \in {"createService", "createImplicit"} -> {NULL}
                   [] c.op \in {"createEndpoint", "updateService", "deleteService"} -> Services
                   [] OTHER -> Endpoints :
          req' = [req EXCEPT ![r].pc = FirstStep[c.op], ![r].call = c, ![r].id = i]
  BY DEF Submit
<1>2. PICK i \in CASE c.op \in {"createService", "createImplicit"} -> {NULL}
                   [] c.op \in {"createEndpoint", "updateService", "deleteService"} -> Services
                   [] OTHER -> Endpoints :
          req' = [req EXCEPT ![r].pc = FirstStep[c.op], ![r].call = c, ![r].id = i]
  BY <1>1
<1>3. /\ c.op \in {"createService", "createImplicit"} => i = NULL
      /\ c.op \notin {"createService", "createImplicit"} => i \in Ids /\ Stored(i)
  BY <1>2, RowsStored DEF Services, Endpoints
<1> DEFINE q == [req[r] EXCEPT !.pc = FirstStep[c.op], !.call = c, !.id = i]
<1>4. req[r] \in Request /\ req[r].pc = "idle"
  BY ShapeOf DEF Submit
<1>5. c.op \in {"createService", "createImplicit", "createEndpoint", "updateEndpoint",
                "updateService", "deleteService", "deleteEndpoint", "setEnabled"}
  BY BodyOf
<1>6. q.pc = FirstStep[c.op] /\ q.call = c /\ q.id = i
  BY <1>4 DEF Request
<1>7. FirstStep[c.op] \in {"insertService", "lockUser", "read", "lockOwner", "statement"}
  BY <1>5 DEF FirstStep
<1>8. q \in Request
  BY <1>3, <1>4, <1>7 DEF Request
<1>9. Shape(q)
  <2>1. FirstStep[c.op] \in StepsOf[c.op]
    BY <1>5 DEF FirstStep, StepsOf
  <2>2. NoOwnerYet(q) <=> c.op \in {"createService", "createImplicit"}
    BY <1>5, <1>6 DEF NoOwnerYet, FirstStep
  <2> QED BY <1>3, <1>6, <1>7, <2>1, <2>2 DEF Shape
<1>10. Fits(r, q)
  <2>1. q.pc \notin HoldsUser \cup HoldsOwner \cup {"insert", "done", "checkFault"}
    BY <1>6, <1>7 DEF HoldsUser, HoldsOwner
  <2>2. q.id # NULL => Stored(q.id)
    BY <1>3, <1>6
  <2> HIDE DEF q
  <2> QED BY <1>4, <1>8, <1>9, <2>1, <2>2 DEF Fits
<1>11. req' = [req EXCEPT ![r] = q]
  BY <1>2
<1> QED BY <1>8, <1>10, <1>11, QuietStep DEF Submit

LEMMA ReadStep ==
  ASSUME IInv, NEW r \in Requests, Read(r)
  PROVE  IInv'
<1> DEFINE updates == req[r].call.op = "updateEndpoint"
           i == req[r].id
<1>1. req[r].pc = "read" /\ req[r] \in Request /\ Shape(req[r])
  BY ShapeOf DEF Read
<1>2. /\ req[r].call \in Calls /\ req[r].call.op \in {"createEndpoint", "updateEndpoint"}
      /\ i \in Ids
  BY <1>1, BodyOf DEF Shape, Blank, StepsOf, NoOwnerYet
<1>3. CASE (IF updates THEN endpoint[i] ELSE service[i]) = NULL
  BY <1>1, <1>3, FailsStep DEF Read
<1>4. CASE (IF updates THEN endpoint[i] ELSE service[i]) # NULL
  <2> DEFINE pc == IF updates THEN "lockOwner" ELSE "lockUser"
             origin == service[IF updates THEN endpoint[i].service ELSE i]
             pre == IF updates THEN endpoint[i] ELSE NULL
             q == [req[r] EXCEPT !.pc = pc, !.origin = origin, !.pre = pre]
  <2>1. req' = [req EXCEPT ![r] = q] /\ UNCHANGED <<service, endpoint, headers>>
    BY <1>4 DEF Read
  <2>2. /\ q.pc = pc /\ q.call = req[r].call /\ q.id = i
    BY <1>1 DEF Request
  <2>3. (IF updates THEN endpoint[i].service ELSE i) \in Ids /\ pre \in Endpoint \cup {NULL}
    BY <1>2, <1>4 DEF IInv, TypeOK, Endpoints, Endpoint
  <2>4. origin \in Origins \cup {NULL}
    BY <2>3 DEF IInv, TypeOK
  <2>5. q \in Request
    <3>1. pc \in {"lockOwner", "lockUser"}
      OBVIOUS
    <3>2. pre \in Endpoint \cup {NULL}
      BY <2>3
    <3> HIDE DEF pc, origin, pre
    <3> QED BY <1>1, <2>4, <3>1, <3>2 DEF Request
  <2>6. pc \in {"lockOwner", "lockUser"} /\ pc \in StepsOf[req[r].call.op]
    BY <1>2 DEF StepsOf
  <2>7. Shape(q)
    BY <1>2, <2>2, <2>6 DEF Shape, NoOwnerYet
  <2>8. Fits(r, q)
    <3>1. q.pc \notin HoldsUser \cup HoldsOwner \cup {"insert", "done", "checkFault"}
      BY <2>2, <2>6 DEF HoldsUser, HoldsOwner
    <3>2. q.id # NULL => Stored(q.id)
      BY <1>1, <2>2, ShapeOf
    <3> HIDE DEF q
    <3> QED BY <1>1, <2>5, <2>7, <3>1, <3>2 DEF Fits
  <2> QED BY <2>1, <2>5, <2>8, QuietStep
<1> QED BY <1>3, <1>4

\* Going on with another step of its kind, what is needed for that step at hand.
LEMMA Onward ==
  ASSUME IInv, NEW r \in Requests, NEW pc, Proceeds(r, pc),
         req[r].pc \notin Blank \cup {"done"}, pc \in StepsOf[req[r].call.op] \ {"done"},
         NoOwnerYet([req[r] EXCEPT !.pc = pc]) <=> NoOwnerYet(req[r]),
         req[r].id = r => pc \in {"count", "insert"},
         pc = "rename" => req[r].call.origin # NULL,
         pc = "replace" => req[r].call.headers # NULL,
         pc = "patch" => Given(req[r].call.timeout, req[r].row.timeout)
                           < Given(req[r].call.interval, req[r].row.interval),
         pc \in HoldsUser =>
           req[r].pc \in HoldsUser \/ \A p \in Requests \ {r} : req[p].pc \notin HoldsUser,
         pc \in HoldsOwner =>
           /\ Current([req[r] EXCEPT !.pc = pc])
           /\ \/ req[r].pc \in HoldsOwner
              \/ \A p \in Requests \ {r} :
                   req[p].pc \in HoldsOwner => OwnerOf(req[p]) # OwnerOf(req[r]),
         pc = "insert" => Cardinality(Endpoints) < QUOTA
  PROVE  IInv'
<1> DEFINE q == [req[r] EXCEPT !.pc = pc]
<1>1. /\ req[r] \in Request /\ Shape(req[r])
      /\ req[r].id # NULL => Stored(req[r].id) \/ (req[r].id = r /\ req[r].call.op = "createImplicit")
  BY ShapeOf
<1>2. /\ q.pc = pc /\ q.call = req[r].call /\ q.id = req[r].id /\ q.row = req[r].row
      /\ OwnerOf(q) = OwnerOf(req[r])
  BY <1>1 DEF Request, OwnerOf
<1>3. /\ req[r].call \in Calls
      /\ req[r].call.op \in {"createService", "createImplicit", "createEndpoint", "updateEndpoint",
                             "updateService", "deleteService", "deleteEndpoint", "setEnabled"}
  BY <1>1, BodyOf DEF Shape
<1>4. q \in Request /\ pc # "checkFault" /\ pc \notin Blank
  <2>1. pc \in {"read", "lockUser", "readService", "find", "createService", "count", "insert",
                "insertService", "keyShare", "lockOwner", "joined", "patch", "rename", "replace",
                "commit", "statement"}
    BY <1>3 DEF StepsOf
  <2> QED BY <1>1, <2>1 DEF Request, Blank
<1>5. Shape(q)
  <2>1. req[r].pc \notin Blank
    OBVIOUS
  <2>2. /\ NoOwnerYet(q) => q.id = NULL
        /\ ~NoOwnerYet(q) => q.id \in Ids
    BY <1>1, <1>2, <2>1 DEF Shape
  <2> QED BY <1>2, <1>3, <2>2 DEF Shape
<1>6. q.id # NULL =>
        Stored(q.id) \/ (q.id = r /\ q.call.op = "createImplicit" /\ q.pc \in {"count", "insert"})
  BY <1>1, <1>2
<1>7. Fits(r, q)
  <2> HIDE DEF q
  <2>1. q.pc \in HoldsOwner => Current(q)
    BY <1>2 DEF q
  <2> QED BY <1>2, <1>4, <1>5, <1>6, <2>1 DEF Fits
<1> QED BY <1>7, ProceedsStep

LEMMA NotOwn ==
  ASSUME IInv, NEW r \in Requests, req[r].pc \notin {"count", "insert", "done"}
  PROVE  req[r].id # r
BY ShapeOf, RegistrationAssumption DEF Stored

LEMMA LockUserStep ==
  ASSUME IInv, NEW r \in Requests, LockUser(r)
  PROVE  IInv'
<1> DEFINE pc == IF req[r].call.op = "createEndpoint" THEN "readService" ELSE "find"
<1>1. req[r].pc = "lockUser" /\ Proceeds(r, pc) /\ Granted(r)
  BY DEF LockUser
<1>2. req[r] \in Request /\ Shape(req[r]) /\ req[r].id # r
  BY <1>1, ShapeOf, NotOwn
<1>3. req[r].call \in Calls /\ req[r].call.op \in {"createEndpoint", "createImplicit"}
  BY <1>1, <1>2, BodyOf DEF Shape, Blank, StepsOf
<1>4. \A q \in Requests \ {r} : req[q].pc \notin HoldsUser
  BY <1>1, UserGranted
<1>5. [req[r] EXCEPT !.pc = pc].pc = pc /\ [req[r] EXCEPT !.pc = pc].call = req[r].call
  BY <1>2 DEF Request
<1>6. NoOwnerYet([req[r] EXCEPT !.pc = pc]) <=> NoOwnerYet(req[r])
  BY <1>1, <1>3, <1>5 DEF NoOwnerYet
<1>7. /\ pc \in StepsOf[req[r].call.op] \ {"done"}
      /\ pc \notin HoldsOwner \cup {"rename", "replace", "patch", "insert"}
      /\ req[r].pc \notin Blank \cup {"done"}
  BY <1>1, <1>3 DEF StepsOf, HoldsOwner, Blank
<1> HIDE DEF pc
<1> QED BY <1>1, <1>2, <1>4, <1>6, <1>7, Onward

LEMMA ReadServiceStep ==
  ASSUME IInv, NEW r \in Requests, ReadService(r)
  PROVE  IInv'
<1>1. req[r].pc = "readService" /\ req[r] \in Request /\ Shape(req[r]) /\ req[r].id # r
  BY ShapeOf, NotOwn DEF ReadService
<1>2. CASE Fails(r, "refused")
  BY <1>1, <1>2, FailsStep
<1>3. CASE Proceeds(r, "count")
  <2>1. req[r].call.op = "createEndpoint" /\ req[r].call \in Calls
    BY <1>1, BodyOf DEF Shape, Blank, StepsOf
  <2>2. NoOwnerYet([req[r] EXCEPT !.pc = "count"]) <=> NoOwnerYet(req[r])
    BY <1>1, <2>1 DEF NoOwnerYet, Request
  <2> QED BY <1>1, <1>3, <2>1, <2>2, Onward DEF StepsOf, Blank, HoldsUser, HoldsOwner
<1> QED BY <1>2, <1>3 DEF ReadService

LEMMA FindStep ==
  ASSUME IInv, NEW r \in Requests, Find(r)
  PROVE  IInv'
<1>1. req[r].pc = "find" /\ req[r] \in Request /\ Shape(req[r]) /\ req[r].id # r
  BY ShapeOf, NotOwn DEF Find
<1>2. req[r].call.op = "createImplicit" /\ req[r].call \in Calls
  BY <1>1, BodyOf DEF Shape, Blank, StepsOf
<1>3. CASE Taken(req[r].call.origin, NULL)
  <2> DEFINE i == CHOOSE i \in Services : service[i] = req[r].call.origin
             q == [req[r] EXCEPT !.pc = "count", !.id = i]
  <2>1. i \in Services
    BY <1>3 DEF Taken
  <2>2. i \in Ids /\ Stored(i)
    BY <2>1, RowsStored DEF Services
  <2> HIDE DEF i
  <2>3. q.pc = "count" /\ q.id = i /\ q.call = req[r].call
    BY <1>1 DEF Request
  <2>4. q \in Request
    BY <1>1, <2>2 DEF Request
  <2>5. Shape(q)
    BY <1>2, <2>2, <2>3 DEF Shape, StepsOf, NoOwnerYet
  <2>6. Fits(r, q)
    BY <1>1, <2>2, <2>3, <2>4, <2>5 DEF Fits, HoldsUser, HoldsOwner
  <2>7. req' = [req EXCEPT ![r] = q] /\ UNCHANGED <<service, endpoint, headers>>
    BY <1>3 DEF Find, i
  <2> QED BY <2>4, <2>6, <2>7, QuietStep
<1>4. CASE ~Taken(req[r].call.origin, NULL)
  <2>1. Proceeds(r, "createService")
    BY <1>4 DEF Find
  <2>2. NoOwnerYet([req[r] EXCEPT !.pc = "createService"]) <=> NoOwnerYet(req[r])
    BY <1>1, <1>2 DEF NoOwnerYet, Request
  <2> QED BY <1>1, <1>2, <2>1, <2>2, Onward DEF StepsOf, Blank, HoldsUser, HoldsOwner
<1> QED BY <1>3, <1>4

LEMMA CreateServiceStep ==
  ASSUME IInv, NEW r \in Requests, CreateService(r)
  PROVE  IInv'
<1>1. req[r].pc = "createService" /\ req[r] \in Request /\ Shape(req[r])
  BY ShapeOf DEF CreateService
<1>2. req[r].call.op = "createImplicit" /\ req[r].call \in Calls
  BY <1>1, BodyOf DEF Shape, Blank, StepsOf
<1>3. CASE Taken(req[r].call.origin, NULL)
  BY <1>1, <1>3, FailsStep DEF CreateService
<1>4. CASE ~Taken(req[r].call.origin, NULL)
  <2> DEFINE q == [req[r] EXCEPT !.pc = "count", !.id = r]
  <2>1. q.pc = "count" /\ q.id = r /\ q.call = req[r].call /\ q \in Request
    BY <1>1 DEF Request, Ids
  <2>2. Shape(q)
    BY <1>2, <2>1 DEF Shape, StepsOf, NoOwnerYet, Ids
  <2>3. Fits(r, q)
    BY <1>1, <1>2, <2>1, <2>2 DEF Fits, HoldsUser, HoldsOwner
  <2>4. req' = [req EXCEPT ![r] = q] /\ UNCHANGED <<service, endpoint, headers>>
    BY <1>4 DEF CreateService
  <2> QED BY <2>1, <2>3, <2>4, QuietStep
<1> QED BY <1>3, <1>4

\* The count is taken under the lock on the user, of a finite set of endpoints.
LEMMA CountStep ==
  ASSUME IInv, NEW r \in Requests, Count(r)
  PROVE  IInv'
<1>1. req[r].pc = "count" /\ req[r] \in Request /\ Shape(req[r])
  BY ShapeOf DEF Count
<1>2. CASE Cardinality(Endpoints) >= QUOTA
  BY <1>1, <1>2, FailsStep DEF Count
<1>3. CASE ~(Cardinality(Endpoints) >= QUOTA)
  <2>1. Cardinality(Endpoints) < QUOTA
    BY <1>3, FS_CardinalityType, RegistrationAssumption DEF IInv, RoomLeft
  <2>2. req[r].call.op \in {"createEndpoint", "createImplicit"} /\ req[r].call \in Calls
    BY <1>1, BodyOf DEF Shape, Blank, StepsOf
  <2>3. NoOwnerYet([req[r] EXCEPT !.pc = "insert"]) <=> NoOwnerYet(req[r])
    BY <1>1, <2>2 DEF NoOwnerYet, Request
  <2>4. Proceeds(r, "insert")
    BY <1>3 DEF Count
  <2> QED BY <1>1, <2>1, <2>2, <2>3, <2>4, Onward DEF StepsOf, Blank, HoldsUser, HoldsOwner
<1> QED BY <1>2, <1>3

LEMMA InsertServiceStep ==
  ASSUME IInv, NEW r \in Requests, InsertService(r)
  PROVE  IInv'
<1>1. req[r].pc = "insertService" /\ req[r] \in Request /\ Shape(req[r]) /\ req[r].id # r
  BY ShapeOf, NotOwn DEF InsertService
<1>2. CASE Fails(r, "refused")
  BY <1>1, <1>2, FailsStep
<1>3. CASE Proceeds(r, "keyShare")
  <2>1. req[r].call.op = "createService" /\ req[r].call \in Calls
    BY <1>1, BodyOf DEF Shape, Blank, StepsOf
  <2>2. NoOwnerYet([req[r] EXCEPT !.pc = "keyShare"]) <=> NoOwnerYet(req[r])
    BY <1>1, <2>1 DEF NoOwnerYet, Request
  <2> QED BY <1>1, <1>3, <2>1, <2>2, Onward DEF StepsOf, Blank, HoldsUser, HoldsOwner
<1> QED BY <1>2, <1>3 DEF InsertService

LEMMA UpdateOf ==
  ASSUME IInv, NEW r \in Requests,
         req[r].pc \in {"lockOwner", "joined", "patch", "rename", "replace", "commit"}
  PROVE  /\ req[r] \in Request /\ req[r].call \in Calls /\ req[r].id \in Ids /\ req[r].id # r
         /\ Stored(req[r].id)
         /\ req[r].call.op \in {"updateService", "updateEndpoint"}
         /\ req[r].pc = "rename" => req[r].call.op = "updateService" /\ req[r].call.origin # NULL
         /\ req[r].pc \in {"joined", "patch"} => req[r].call.op = "updateEndpoint"
         /\ req[r].pc = "replace" => req[r].call.headers # NULL
         /\ req[r].pc = "patch" => Given(req[r].call.timeout, req[r].row.timeout)
                                     < Given(req[r].call.interval, req[r].row.interval)
         /\ \A pc : NoOwnerYet([req[r] EXCEPT !.pc = pc]) <=> NoOwnerYet(req[r])
<1>1. req[r] \in Request /\ Shape(req[r]) /\ req[r].id # r
  BY ShapeOf, NotOwn
<1>2. /\ req[r].call \in Calls
      /\ req[r].call.op \in {"updateService", "updateEndpoint"}
      /\ req[r].pc = "rename" => req[r].call.op = "updateService"
      /\ req[r].pc \in {"joined", "patch"} => req[r].call.op = "updateEndpoint"
  BY <1>1, BodyOf DEF Shape, Blank, StepsOf
<1>3. \A pc : NoOwnerYet([req[r] EXCEPT !.pc = pc]) <=> NoOwnerYet(req[r])
  BY <1>1, <1>2 DEF NoOwnerYet, Request
<1>4. req[r].id \in Ids
  BY <1>1, <1>2 DEF Shape, NoOwnerYet, Blank
<1>5. Stored(req[r].id)
  BY <1>1, <1>4, ShapeOf, RegistrationAssumption DEF Ids
<1> QED BY <1>1, <1>2, <1>3, <1>4, <1>5 DEF Shape, Blank

LEMMA LockOwnerStep ==
  ASSUME IInv, NEW r \in Requests, LockOwner(r)
  PROVE  IInv'
<1>1. req[r].pc = "lockOwner" /\ Granted(r)
  BY DEF LockOwner
<1>2. \A q \in Requests \ {r} : req[q].pc \in HoldsOwner => OwnerOf(req[q]) # OwnerOf(req[r])
  BY <1>1, OwnerGranted
<1>3. CASE req[r].call.op = "updateService"
  <2>1. CASE service[req[r].id] = NULL
    BY <1>1, <1>3, <2>1, FailsStep DEF LockOwner
  <2>2. CASE service[req[r].id] # NULL
    <3> DEFINE pc == CASE req[r].call.origin # NULL -> "rename"
                       [] req[r].call.headers # NULL -> "replace"
                       [] OTHER -> "commit"
    <3>1. Proceeds(r, pc)
      BY <1>3, <2>2 DEF LockOwner
    <3>2. /\ pc \in {"rename", "replace", "commit"}
          /\ pc = "rename" => req[r].call.origin # NULL
          /\ pc = "replace" => req[r].call.headers # NULL
          /\ pc = "commit" => req[r].call.headers = NULL
      OBVIOUS
    <3> HIDE DEF pc
    <3>3. Current([req[r] EXCEPT !.pc = pc])
      BY <1>1, <1>3, <2>2, <3>2, UpdateOf DEF Current, Request
    <3>4. pc \in StepsOf[req[r].call.op] \ {"done"}
      BY <1>3, <3>2 DEF StepsOf
    <3> QED BY <1>1, <1>2, <3>1, <3>2, <3>3, <3>4, UpdateOf, Onward DEF Blank, HoldsUser, HoldsOwner
  <2> QED BY <2>1, <2>2
<1>4. CASE req[r].call.op # "updateService"
  <2>1. CASE endpoint[req[r].id] = NULL
    BY <1>1, <1>4, <2>1, FailsStep DEF LockOwner
  <2>2. CASE endpoint[req[r].id] # NULL
    <3> DEFINE q == [req[r] EXCEPT !.pc = "joined", !.row = endpoint[req[r].id]]
    <3>1. req' = [req EXCEPT ![r] = q] /\ UNCHANGED <<service, endpoint, headers>>
      BY <1>4, <2>2 DEF LockOwner, Existing
    <3>2. endpoint[req[r].id] \in Endpoint
      BY <1>1, <2>2, UpdateOf DEF IInv, TypeOK, Endpoints
    <3>3. q \in Request
      <4>1. req[r] \in Request
        BY ShapeOf
      <4> QED BY <3>2, <4>1 DEF Request, Ended
    <3>4. /\ q.pc = "joined" /\ q.call = req[r].call /\ q.id = req[r].id
          /\ q.row = endpoint[req[r].id]
      BY <1>1, UpdateOf DEF Request
    <3>5. Shape(q)
      BY <1>1, <1>4, <3>4, UpdateOf DEF Shape, StepsOf, NoOwnerYet
    <3>6. Current(q)
      BY <1>1, <1>4, <2>2, <3>4, UpdateOf DEF Current
    <3>7. OwnerOf(q) = OwnerOf(req[r])
      BY <3>4 DEF OwnerOf
    <3>8. Fits(r, q)
      <4> HIDE DEF q
      <4> QED BY <1>1, <1>2, <3>3, <3>4, <3>5, <3>6, <3>7, UpdateOf DEF Fits, HoldsUser
    <3> QED BY <3>1, <3>3, <3>8, QuietStep
  <2> QED BY <2>1, <2>2
<1> QED BY <1>3, <1>4

\* What is at hand under the lock stays at hand when only the step changes.
LEMMA StaysCurrent ==
  ASSUME IInv, NEW r \in Requests, req[r].pc \in HoldsOwner, NEW pc,
         pc = "commit" => req[r].call.headers = NULL
  PROVE  Current([req[r] EXCEPT !.pc = pc])
BY ShapeOf DEF IInv, OwnersCurrent, Current, Request

LEMMA JoinedStep ==
  ASSUME IInv, NEW r \in Requests, Joined(r)
  PROVE  IInv'
<1> DEFINE inOrder == ~(Given(req[r].call.timeout, req[r].row.timeout)
                          >= Given(req[r].call.interval, req[r].row.interval))
<1>1. req[r].pc = "joined"
  BY DEF Joined
<1>2. CASE Fails(r, "refused")
  BY <1>1, <1>2, FailsStep
<1>3. CASE inOrder /\ Proceeds(r, "patch")
  <2>1. Current([req[r] EXCEPT !.pc = "patch"])
    BY <1>1, StaysCurrent DEF HoldsOwner
  <2>2. Given(req[r].call.timeout, req[r].row.timeout)
          < Given(req[r].call.interval, req[r].row.interval)
    <3>1. /\ Given(req[r].call.timeout, req[r].row.timeout) \in Timeouts
          /\ Given(req[r].call.interval, req[r].row.interval) \in Intervals
      <4>1. req[r].row \in Endpoint
        BY <1>1, UpdateOf DEF IInv, OwnersCurrent, HoldsOwner, Current, TypeOK, Endpoints
      <4>2. req[r].call \in RequestBody
        BY <1>1, UpdateOf, BodyOf
      <4> QED BY <4>1, <4>2 DEF Given, Endpoint, RequestBody
    <3>2. /\ Given(req[r].call.timeout, req[r].row.timeout) \in Nat
          /\ Given(req[r].call.interval, req[r].row.interval) \in Nat
      BY <3>1, RegistrationAssumption
    <3> HIDE DEF Given
    <3> QED BY <1>3, <3>2
  <2>3. "patch" \in StepsOf[req[r].call.op] \ {"done"}
    BY <1>1, UpdateOf DEF StepsOf
  <2> QED BY <1>1, <1>3, <2>1, <2>2, <2>3, UpdateOf, Onward DEF Blank, HoldsUser, HoldsOwner
<1> QED BY <1>2, <1>3 DEF Joined

LEMMA PatchStep ==
  ASSUME IInv, NEW r \in Requests, Patch(r)
  PROVE  IInv'
<1> DEFINE row == Written(r)  pc == AfterUpdate(r)
<1>1. req[r].pc = "patch"
  BY DEF Patch
\* The row of the check is the row under the lock, so the CHECK never fails.
<1>2. row.timeout < row.interval
  <2>1. /\ req[r].row = endpoint[req[r].id] /\ req[r].row \in Endpoint
        /\ Given(req[r].call.timeout, req[r].row.timeout)
             < Given(req[r].call.interval, req[r].row.interval)
    BY <1>1, UpdateOf DEF IInv, OwnersCurrent, HoldsOwner, Current, TypeOK, Endpoints
  <2> QED BY <2>1 DEF Written, Patched, Endpoint
<1>3. row.timeout \in Nat /\ row.interval \in Nat
  <2>1. req[r].row = endpoint[req[r].id] /\ req[r].row \in Endpoint
    BY <1>1, UpdateOf DEF IInv, OwnersCurrent, HoldsOwner, Current, TypeOK, Endpoints
  <2>2. req[r].call \in RequestBody
    BY <1>1, UpdateOf, BodyOf
  <2> QED BY <2>1, <2>2, RegistrationAssumption DEF Written, Patched, Given, Endpoint, RequestBody
<1>4. ~(row.timeout >= row.interval)
  BY <1>2, <1>3
<1>5. CASE Fails(r, "refused")
  BY <1>1, <1>5, FailsStep
<1>6. CASE Proceeds(r, pc)
  <2>1. /\ pc \in {"replace", "commit"}
        /\ pc = "replace" => req[r].call.headers # NULL
        /\ pc = "commit" => req[r].call.headers = NULL
    BY DEF AfterUpdate
  <2> HIDE DEF pc
  <2>2. Current([req[r] EXCEPT !.pc = pc])
    BY <1>1, <2>1, StaysCurrent DEF HoldsOwner
  <2>3. pc \in StepsOf[req[r].call.op] \ {"done"}
    BY <1>1, <2>1, UpdateOf DEF StepsOf
  <2> QED BY <1>1, <1>6, <2>1, <2>2, <2>3, UpdateOf, Onward DEF Blank, HoldsUser, HoldsOwner
<1> HIDE DEF row
<1> QED BY <1>4, <1>5, <1>6 DEF Patch, row

LEMMA RenameStep ==
  ASSUME IInv, NEW r \in Requests, Rename(r)
  PROVE  IInv'
<1> DEFINE pc == AfterUpdate(r)
<1>1. req[r].pc = "rename"
  BY DEF Rename
<1>2. CASE Fails(r, "refused")
  BY <1>1, <1>2, FailsStep
<1>3. CASE Proceeds(r, pc)
  <2>1. /\ pc \in {"replace", "commit"}
        /\ pc = "replace" => req[r].call.headers # NULL
        /\ pc = "commit" => req[r].call.headers = NULL
    BY DEF AfterUpdate
  <2> HIDE DEF pc
  <2>2. Current([req[r] EXCEPT !.pc = pc])
    BY <1>1, <2>1, StaysCurrent DEF HoldsOwner
  <2>3. pc \in StepsOf[req[r].call.op] \ {"done"}
    BY <1>1, <2>1, UpdateOf DEF StepsOf
  <2> QED BY <1>1, <1>3, <2>1, <2>2, <2>3, UpdateOf, Onward DEF Blank, HoldsUser, HoldsOwner
<1> QED BY <1>2, <1>3 DEF Rename

LEMMA ReplaceStep ==
  ASSUME IInv, NEW r \in Requests, Replace(r)
  PROVE  IInv'
<1> DEFINE existing == headers[Owner(r)]
<1>1. req[r].pc = "replace"
  BY DEF Replace
<1>2. CASE KeepsMissing(req[r].call.headers, existing)
  BY <1>1, <1>2, FailsStep DEF Replace
<1>3. CASE ~KeepsMissing(req[r].call.headers, existing)
  <2> DEFINE q == [req[r] EXCEPT !.pc = "commit", !.deletes = existing]
  <2>1. req' = [req EXCEPT ![r] = q] /\ UNCHANGED <<service, endpoint, headers>>
    BY <1>3 DEF Replace
  <2>2. Owner(r) \in Owners /\ Owner(r) = OwnerOf(req[r])
    BY <1>1, UpdateOf DEF Owner, Owners, OwnerOf
  <2>3. existing \subseteq Header
    BY <2>2 DEF IInv, TypeOK
  <2>4. q \in Request
    <3>1. req[r] \in Request
      BY ShapeOf
    <3> QED BY <2>3, <3>1 DEF Request, Ended
  <2>5. /\ q.pc = "commit" /\ q.call = req[r].call /\ q.id = req[r].id /\ q.row = req[r].row
        /\ q.deletes = headers[OwnerOf(q)] /\ OwnerOf(q) = OwnerOf(req[r])
    <3>1. req[r] \in Request
      BY ShapeOf
    <3> QED BY <2>2, <3>1 DEF Request, OwnerOf
  <2> HIDE DEF q
  <2>6. Shape(q)
    BY <1>1, <2>5, UpdateOf DEF Shape, StepsOf, NoOwnerYet
  <2>7. Current(q)
    BY <1>1, <1>3, <2>2, <2>5 DEF Current, IInv, OwnersCurrent, HoldsOwner
  <2>8. Fits(r, q)
    BY <1>1, <2>4, <2>5, <2>6, <2>7, UpdateOf DEF Fits, HoldsUser, HoldsOwner
  <2> QED BY <2>1, <2>4, <2>8, QuietStep
<1> QED BY <1>3, <1>2

LEMMA VictimStep ==
  ASSUME IInv, NEW r \in Requests, Victim(r)
  PROVE  IInv'
<1>1. Fails(r, "fault") /\ \E q \in Requests : Needs(r) \cap Holds(q) # {}
  BY DEF Victim, InCircle, WaitsFor
<1>2. req[r].pc # "done"
  BY <1>1 DEF Needs, UserNeeded
<1> QED BY <1>1, <1>2, FailsStep

--------------------------------------------------------------------------------
(* The steps that write. *)

LEMMA DoneStep ==
  ASSUME IInv, NEW r \in Requests, req[r].pc \in {"insert", "keyShare", "commit", "statement"},
         Goto(r, "done")
  PROVE  /\ req'[r] = [req[r] EXCEPT !.pc = "done"] /\ req'[r].pc = "done"
         /\ req'[r].call = req[r].call /\ req'[r].id = req[r].id
         /\ \A p \in Requests \ {r} : req'[p] = req[p]
         /\ req' \in [Requests -> Request]
         /\ Shaped' /\ KnownIds' /\ UserAlone' /\ OwnerAlone'
<1>1. req[r] \in Request /\ Shape(req[r]) /\ req \in [Requests -> Request]
  BY ShapeOf DEF IInv, TypeOK
<1>2. /\ req'[r] = [req[r] EXCEPT !.pc = "done"] /\ req'[r].pc = "done"
      /\ req'[r].call = req[r].call /\ req'[r].id = req[r].id
      /\ \A p \in Requests \ {r} : req'[p] = req[p]
  BY <1>1 DEF Goto, Request
<1>3. req'[r] \in Request
  BY <1>1, <1>2 DEF Request, Ended
<1>4. req' \in [Requests -> Request]
  BY <1>1, <1>3 DEF Goto
<1>5. Shape(req'[r])
  <2>1. req[r].call \in Calls /\ req[r].pc \in StepsOf[req[r].call.op]
    BY <1>1 DEF Shape, Blank
  <2>2. /\ "done" \in StepsOf[req[r].call.op]
        /\ NoOwnerYet(req'[r]) <=> NoOwnerYet(req[r])
    BY <1>2, <2>1, BodyOf DEF StepsOf, NoOwnerYet
  <2> QED BY <1>1, <1>2, <2>1, <2>2 DEF Shape, Blank
<1>6. Shaped'
  <2>1. \A p \in Requests : Shape(req'[p])
    BY <1>2, <1>5, ShapeOf
  <2>2. CheckNeverViolated'
    BY <1>2 DEF IInv, Shaped, CheckNeverViolated
  <2> QED BY <2>1, <2>2 DEF Shaped, Shape, NoOwnerYet
<1>7. KnownIds'
  <2>1. \A i : Stored(i) => Stored(i)'
    BY <1>2 DEF Stored
  <2>2. Stored(r)'
    BY <1>2 DEF Stored
  <2>3. ASSUME NEW p \in Requests, NEW i, req[p].id = i, i # NULL
        PROVE  \/ Stored(i)'
               \/ i = p /\ req'[p].call.op = "createImplicit" /\ req'[p].pc \in {"count", "insert"}
    <3>1. \/ Stored(i)
          \/ i = p /\ req[p].call.op = "createImplicit" /\ req[p].pc \in {"count", "insert"}
      BY <2>3, ShapeOf
    <3>2. CASE p = r
      BY <2>1, <2>2, <3>1, <3>2
    <3>3. CASE p # r
      BY <1>2, <2>1, <3>1, <3>3
    <3> QED BY <3>2, <3>3
  <2>4. \A p \in Requests : req'[p].id = req[p].id
    BY <1>2
  <2> QED BY <2>3, <2>4 DEF KnownIds, Stored
<1>8. UserAlone' /\ OwnerAlone'
  <2>1. \A p \in Requests : req'[p].pc # "done" => p # r /\ req'[p] = req[p]
    BY <1>2
  <2>2. UserAlone'
    BY <2>1 DEF IInv, UserAlone, HoldsUser
  <2>3. OwnerAlone'
    BY <2>1 DEF IInv, OwnerAlone, HoldsOwner, OwnerOf
  <2> QED BY <2>2, <2>3
<1> QED BY <1>2, <1>4, <1>6, <1>7, <1>8

\* HeadersWhole, of one owner.
WholeAt(o) ==
  LET rows == headers[o]  names == {h.name : h \in rows} IN
  /\ \A g, h \in rows : g.name = h.name => g = h
  /\ \/ \A h \in rows : h.by = Seed
     \/ \E q \in Requests : /\ req[q].pc = "done" /\ req[q].call.headers # NULL
                             /\ Replaced(q) = o /\ names = DOMAIN req[q].call.headers

LEMMA WholeKept ==
  ASSUME IInv, NEW r \in Requests, req[r].pc \in {"insert", "keyShare", "commit", "statement"},
         Goto(r, "done"), NEW o \in Owners, headers'[o] = headers[o] \/ headers'[o] = {}
  PROVE  WholeAt(o)'
<1>1. WholeAt(o)
  BY DEF IInv, HeadersWhole, WholeAt
<1>2. \A p \in Requests : req[p].pc = "done" =>
        req'[p] = req[p] /\ Replaced(p)' = Replaced(p)
  BY DoneStep DEF Replaced, Owner
<1>3. CASE headers'[o] = {}
  BY <1>3 DEF WholeAt
<1>4. CASE headers'[o] = headers[o]
  <2>1. CASE \A h \in headers[o] : h.by = Seed
    BY <1>1, <1>4, <2>1 DEF WholeAt
  <2>2. CASE \E q \in Requests : /\ req[q].pc = "done" /\ req[q].call.headers # NULL
                                  /\ Replaced(q) = o
                                  /\ {h.name : h \in headers[o]} = DOMAIN req[q].call.headers
    BY <1>1, <1>2, <1>4, <2>2 DEF WholeAt
  <2> QED BY <1>1, <2>1, <2>2 DEF WholeAt
<1> QED BY <1>3, <1>4

\* What a list of headers stores: a row for each name, the request's own or,
\* for a secret without a value, the one that was there.
LEMMA RowsOfList ==
  ASSUME NEW r \in Requests, req[r].call \in Calls, req[r].call.headers # NULL,
         NEW existing \in SUBSET Header, ~KeepsMissing(req[r].call.headers, existing)
  PROVE  /\ Rows(r, existing) \subseteq Header
         /\ {h.name : h \in Rows(r, existing)} = DOMAIN req[r].call.headers
         /\ \A g, h \in Rows(r, existing) : g.name = h.name => g = h
         /\ \A h \in Rows(r, existing) : h.by = r \/ h \in existing
<1> DEFINE list == req[r].call.headers
           writer(n) == IF list[n] = "keep" THEN (CHOOSE h \in existing : h.name = n /\ h.secret).by
                        ELSE r
           rowOf(n) == [name |-> n, secret |-> list[n] # "plain", by |-> writer(n)]
<1>1. DOMAIN list \subseteq Names
  <2>1. list \in HeaderList
    BY BodyOf DEF RequestBody
  <2>2. PICK names \in SUBSET Names : list \in [names -> {"secret", "plain", "keep"}]
    BY <2>1 DEF HeaderList
  <2> QED BY <2>2
<1>2. ASSUME NEW n \in DOMAIN list
      PROVE  /\ rowOf(n) \in Header /\ rowOf(n).name = n
             /\ rowOf(n).by = r \/ rowOf(n) \in existing
  <2>1. CASE list[n] = "keep"
    <3> DEFINE g == CHOOSE h \in existing : h.name = n /\ h.secret
    <3>1. g \in existing /\ g.name = n /\ g.secret
      BY <2>1 DEF KeepsMissing
    <3> HIDE DEF g
    <3>2. g = [name |-> n, secret |-> TRUE, by |-> g.by]
      BY <3>1 DEF Header
    <3>3. writer(n) = g.by
      BY <2>1 DEF g
    <3>4. rowOf(n) = g
      BY <2>1, <3>2, <3>3
    <3> QED BY <3>1, <3>4
  <2>2. CASE list[n] # "keep"
    BY <1>1, <2>2 DEF Header, Ids
  <2> QED BY <2>1, <2>2
<1>3. Rows(r, existing) = {rowOf(n) : n \in DOMAIN list}
  BY DEF Rows
<1> HIDE DEF rowOf, list
<1>4. \A h \in Rows(r, existing) : \E n \in DOMAIN list : h = rowOf(n) /\ h.name = n
  BY <1>2, <1>3
<1>5. {h.name : h \in Rows(r, existing)} = DOMAIN list
  <2>1. ASSUME NEW h \in Rows(r, existing) PROVE h.name \in DOMAIN list
    BY <1>4
  <2>2. ASSUME NEW n \in DOMAIN list PROVE n \in {h.name : h \in Rows(r, existing)}
    <3>1. rowOf(n) \in Rows(r, existing) /\ rowOf(n).name = n
      BY <1>2, <1>3
    <3> QED BY <3>1
  <2> QED BY <2>1, <2>2
<1>6. ASSUME NEW g \in Rows(r, existing), NEW h \in Rows(r, existing), g.name = h.name PROVE g = h
  <2>1. PICK n \in DOMAIN list : g = rowOf(n) /\ g.name = n
    BY <1>4
  <2>2. PICK m \in DOMAIN list : h = rowOf(m) /\ h.name = m
    BY <1>4
  <2>3. n = m
    BY <1>6, <2>1, <2>2
  <2> QED BY <2>1, <2>2, <2>3
<1>7. \A h \in Rows(r, existing) : h \in Header /\ (h.by = r \/ h \in existing)
  BY <1>2, <1>4
<1> QED BY <1>5, <1>6, <1>7 DEF list

\* The list of r is the whole of what is stored for its owner.
LEMMA WholeWritten ==
  ASSUME IInv, NEW r \in Requests, req[r].pc \in {"insert", "keyShare", "commit"},
         req[r].call \in Calls, req[r].call.headers # NULL, Goto(r, "done"),
         NEW existing \in SUBSET Header, ~KeepsMissing(req[r].call.headers, existing),
         headers'[Replaced(r)] = Rows(r, existing)
  PROVE  \A o \in Owners : o = Replaced(r) => WholeAt(o)'
<1>1. Replaced(r)' = Replaced(r)
  BY DoneStep DEF Replaced, Owner
<1>2. req'[r].pc = "done" /\ req'[r].call = req[r].call
  BY DoneStep
<1>3. SUFFICES ASSUME NEW o \in Owners, o = Replaced(r) PROVE WholeAt(o)'
  OBVIOUS
<1>4. headers'[o] = Rows(r, existing)
  BY <1>3
<1> QED BY <1>1, <1>2, <1>3, <1>4, RowsOfList DEF WholeAt

\* An owner somebody holds is not r's own, whose rows are not there yet.
LEMMA HeldElsewhere ==
  ASSUME IInv, NEW r \in Requests, req[r].pc # "done",
         NEW p \in Requests, req[p].pc \in HoldsOwner
  PROVE  req[p].id # r /\ OwnerOf(req[p]) \notin {<<"service", r>>, <<"endpoint", r>>}
<1>1. Stored(req[p].id) /\ req[p].id \in Ids
  BY UpdateOf DEF HoldsOwner
<1>2. req[p].id # r
  BY <1>1, RegistrationAssumption DEF Stored
<1> QED BY <1>2 DEF OwnerOf

\* What another request has at hand stays at hand unless its owner is changed.
LEMMA CurrentKept ==
  ASSUME IInv, NEW p \in Requests, req[p].pc \in HoldsOwner, NEW q, q = req[p],
         q.call.op = "updateEndpoint" => endpoint'[q.id] = endpoint[q.id],
         q.call.op = "updateService" => service'[q.id] # NULL,
         headers'[OwnerOf(q)] = headers[OwnerOf(q)]
  PROVE  Current(q)'
BY DEF IInv, OwnersCurrent, Current, OwnerOf, KeepsMissing

\* A write that concerns r's own rows only, or none that others hold.
LEMMA WriterStep ==
  ASSUME IInv, NEW r \in Requests, req[r].pc \in {"insert", "keyShare", "commit", "statement"},
         Goto(r, "done"), TypeOK',
         \A i \in Ids \ {r} : /\ service[i] = NULL => service'[i] = NULL
                              /\ endpoint[i] = NULL => endpoint'[i] = NULL,
         \A o \in Owners : \A h \in headers'[o] : h.by = r \/ h \in headers[o],
         \A p \in Requests \ {r} : req[p].pc \in HoldsOwner =>
           /\ req[p].call.op = "updateEndpoint" => endpoint'[req[p].id] = endpoint[req[p].id]
           /\ req[p].call.op = "updateService" => service'[req[p].id] # NULL
           /\ headers'[OwnerOf(req[p])] = headers[OwnerOf(req[p])],
         Endpoints' \subseteq Endpoints \cup (IF req[r].pc = "insert" THEN {r} ELSE {}),
         \A o \in Owners : WholeAt(o)'
  PROVE  IInv'
<1>1. /\ req'[r].pc = "done" /\ \A p \in Requests \ {r} : req'[p] = req[p]
      /\ Shaped' /\ KnownIds' /\ UserAlone' /\ OwnerAlone'
  BY DoneStep
<1>2. Fresh'
  <2>1. ASSUME NEW p \in Requests, req'[p].pc # "done"
        PROVE  /\ service'[p] = NULL /\ endpoint'[p] = NULL
               /\ \A o \in Owners : \A h \in headers'[o] : h.by # p
    <3>1. p # r /\ req[p].pc # "done" /\ p \in Ids
      BY <1>1, <2>1 DEF Ids
    <3> QED BY <3>1 DEF IInv, Fresh
  <2> QED BY <2>1 DEF Fresh
<1>3. OwnersCurrent'
  <2>1. ASSUME NEW p \in Requests, req'[p].pc \in HoldsOwner, NEW q, q = req'[p]
        PROVE  Current(q)'
    <3>1. p # r /\ req'[p] = req[p]
      BY <1>1, <2>1 DEF HoldsOwner
    <3> QED BY <2>1, <3>1, CurrentKept
  <2> QED BY <2>1 DEF OwnersCurrent, Current, OwnerOf
<1>4. RoomLeft' /\ QuotaKept'
  <2> DEFINE card == Cardinality(Endpoints)  after == Cardinality(Endpoints')
  <2>1. IsFiniteSet(Endpoints) /\ card \in Nat /\ card <= QUOTA /\ QUOTA \in Nat
    BY FS_CardinalityType, RegistrationAssumption DEF IInv, RoomLeft, QuotaKept
  <2>2. CASE req[r].pc = "insert"
    <3>1. Endpoints' \subseteq Endpoints \cup {r}
      BY <2>2
    <3>2. /\ IsFiniteSet(Endpoints \cup {r})
          /\ Cardinality(Endpoints \cup {r}) \in {card, card + 1}
      BY <2>1, FS_AddElement
    <3>3. /\ IsFiniteSet(Endpoints') /\ after \in Nat
          /\ after <= Cardinality(Endpoints \cup {r})
      BY <3>1, <3>2, FS_Subset, FS_CardinalityType
    <3>4. card < QUOTA
      BY <2>2 DEF IInv, RoomLeft
    <3>5. after <= QUOTA
      <4> HIDE DEF after, card
      <4> QED BY <2>1, <3>2, <3>3, <3>4
    <3>6. \A p \in Requests : req'[p].pc # "insert"
      BY <1>1, <2>2 DEF IInv, UserAlone, HoldsUser
    <3> QED BY <3>3, <3>5, <3>6 DEF RoomLeft, QuotaKept
  <2>3. CASE req[r].pc # "insert"
    <3>1. Endpoints' \subseteq Endpoints
      BY <2>3
    <3>2. IsFiniteSet(Endpoints') /\ after \in Nat /\ after <= card
      BY <2>1, <3>1, FS_Subset, FS_CardinalityType
    <3>3. \A p \in Requests : req'[p].pc = "insert" => card < QUOTA
      BY <1>1 DEF IInv, RoomLeft
    <3>4. after <= QUOTA /\ \A p \in Requests : req'[p].pc = "insert" => after < QUOTA
      <4> HIDE DEF after, card
      <4> QED BY <2>1, <3>2, <3>3
    <3> QED BY <3>2, <3>4 DEF RoomLeft, QuotaKept
  <2> QED BY <2>2, <2>3
<1>5. HeadersWhole'
  BY DEF HeadersWhole, WholeAt
<1> QED BY <1>1, <1>2, <1>3, <1>4, <1>5 DEF IInv

LEMMA KeyShareStep ==
  ASSUME IInv, NEW r \in Requests, KeyShare(r)
  PROVE  IInv'
<1> DEFINE c == req[r].call  own == <<"service", r>>
<1>1. req[r].pc = "keyShare" /\ req[r] \in Request /\ Shape(req[r])
  BY ShapeOf DEF KeyShare
<1>2. /\ c \in Calls /\ c.op = "createService"
      /\ c \in RequestBody /\ c.origin # NULL /\ own \in Owners
  BY <1>1, BodyOf DEF Shape, Blank, StepsOf, Owners, Ids
<1>3. CASE c.headers # NULL /\ KeepsMissing(c.headers, {})
  BY <1>1, <1>3, FailsStep DEF KeyShare
<1>4. CASE ~(c.headers # NULL /\ KeepsMissing(c.headers, {}))
  <2>1. /\ service' = [service EXCEPT ![r] = c.origin]
        /\ headers' = IF c.headers = NULL THEN headers ELSE [headers EXCEPT ![own] = Rows(r, {})]
        /\ Goto(r, "done") /\ endpoint' = endpoint
    BY <1>4 DEF KeyShare
  <2>2. c.headers # NULL => /\ Rows(r, {}) \subseteq Header
                            /\ \A h \in Rows(r, {}) : h.by = r
    BY <1>2, <1>4, RowsOfList
  <2>3. TypeOK /\ service[r] = NULL /\ r \in Ids
    BY <1>1 DEF IInv, Fresh, Ids
  <2>4. TypeOK'
    <3>1. service' \in [Ids -> Origins \cup {NULL}]
      BY <1>2, <2>1, <2>3 DEF TypeOK, RequestBody
    <3>2. \A i \in Ids : service[i] # NULL => service'[i] # NULL
      BY <1>2, <2>1, <2>3 DEF TypeOK
    <3>3. \A i \in Endpoints' : service'[endpoint'[i].service] # NULL
      BY <2>1, <2>3, <3>2 DEF TypeOK, Endpoints, Endpoint
    <3>4. headers' \in [Owners -> SUBSET Header]
      BY <2>1, <2>2, <2>3 DEF TypeOK
    <3> QED BY <1>1, <2>1, <2>3, <3>1, <3>3, <3>4, DoneStep DEF TypeOK
  <2>5. \A o \in Owners : o # own => headers'[o] = headers[o]
    BY <2>1, <2>3 DEF TypeOK
  <2>6. c.headers # NULL => headers'[own] = Rows(r, {})
    BY <1>2, <2>1, <2>3 DEF TypeOK
  <2>7. \A o \in Owners : \A h \in headers'[o] : h.by = r \/ h \in headers[o]
    BY <2>1, <2>2, <2>5, <2>6
  <2>8. ASSUME NEW p \in Requests \ {r}, req[p].pc \in HoldsOwner
        PROVE  /\ req[p].call.op = "updateService" => service'[req[p].id] # NULL
               /\ headers'[OwnerOf(req[p])] = headers[OwnerOf(req[p])]
    <3>1. req[p].id # r /\ OwnerOf(req[p]) # own /\ req[p].id \in Ids
      BY <1>1, <2>8, HeldElsewhere, UpdateOf DEF HoldsOwner
    <3>2. OwnerOf(req[p]) \in Owners
      BY <3>1 DEF OwnerOf, Owners
    <3>3. req[p].call.op = "updateService" => service[req[p].id] # NULL
      BY <2>8 DEF IInv, OwnersCurrent, Current
    <3> QED BY <2>1, <2>3, <2>5, <3>1, <3>2, <3>3 DEF TypeOK
  <2>9. \A o \in Owners : WholeAt(o)'
    <3>1. Replaced(r) = own
      BY <1>2 DEF Replaced
    <3>2. ASSUME NEW o \in Owners, o # own \/ c.headers = NULL PROVE WholeAt(o)'
      BY <1>1, <2>1, <2>5, <3>2, WholeKept
    <3>3. c.headers # NULL => WholeAt(own)'
      BY <1>1, <1>2, <1>4, <2>1, <2>6, <3>1, WholeWritten
    <3> QED BY <3>2, <3>3
  <2>10. /\ \A i \in Ids \ {r} : service'[i] = service[i] /\ endpoint'[i] = endpoint[i]
         /\ Endpoints' = Endpoints
    BY <2>1, <2>3 DEF TypeOK, Endpoints
  <2> QED BY <1>1, <2>1, <2>4, <2>7, <2>8, <2>9, <2>10, WriterStep
<1> QED BY <1>3, <1>4

LEMMA InsertStep ==
  ASSUME IInv, NEW r \in Requests, Insert(r)
  PROVE  IInv'
<1> DEFINE c == req[r].call  i == req[r].id  own == <<"endpoint", r>>
<1>1. /\ req[r].pc = "insert" /\ req[r] \in Request /\ Shape(req[r])
  BY ShapeOf DEF Insert
<1>2. /\ c \in Calls /\ c.op \in {"createImplicit", "createEndpoint"}
      /\ c \in RequestBody /\ c.path # NULL /\ i \in Ids /\ own \in Owners
      /\ c.op = "createImplicit" => c.origin # NULL
  BY <1>1, BodyOf DEF Shape, Blank, StepsOf, NoOwnerYet, Owners, Ids
<1>3. i = r => c.op = "createImplicit"
  BY <1>1, ShapeOf, RegistrationAssumption DEF Stored
<1>4. CASE Fails(r, "fault") \/ Fails(r, "refused")
  BY <1>1, <1>4, FailsStep
<1>5. CASE /\ Made(r)[i] # NULL
           /\ ~(c.headers # NULL /\ KeepsMissing(c.headers, {}))
           /\ service' = Made(r)
           /\ endpoint' = [endpoint EXCEPT ![r] = NewRow(r)]
           /\ headers' = IF c.headers = NULL THEN headers ELSE [headers EXCEPT ![own] = Rows(r, {})]
           /\ Goto(r, "done")
  <2>1. TypeOK /\ service[r] = NULL /\ endpoint[r] = NULL /\ r \in Ids
    BY <1>1 DEF IInv, Fresh, Ids
  <2>2. c.headers # NULL => /\ Rows(r, {}) \subseteq Header
                            /\ \A h \in Rows(r, {}) : h.by = r
    BY <1>2, <1>5, RowsOfList
  <2>3. NewRow(r) \in Endpoint /\ NewRow(r).service = i
    BY <1>2, RegistrationAssumption DEF NewRow, Endpoint, Given, RequestBody
  <2>4. \A j \in Ids \ {r} : service'[j] = service[j] /\ endpoint'[j] = endpoint[j]
    BY <1>5, <2>1 DEF Made, TypeOK
  <2>5. endpoint'[r] = NewRow(r) \/ endpoint'[r] = endpoint[r]
    BY <1>5
  <2>6. TypeOK'
    <3>1. service' \in [Ids -> Origins \cup {NULL}]
      BY <1>2, <1>5, <2>1 DEF TypeOK, Made, RequestBody
    <3>2. \A j \in Ids : service[j] # NULL => service'[j] # NULL
      BY <2>1, <2>4
    <3>3. service'[i] # NULL
      BY <1>5
    <3>4. /\ endpoint' \in [Ids -> Endpoint \cup {NULL}]
          /\ \A j \in Endpoints' : service'[endpoint'[j].service] # NULL
      BY <1>5, <2>1, <2>3, <2>4, <2>5, <3>2, <3>3 DEF TypeOK, Endpoints, Endpoint
    <3>5. headers' \in [Owners -> SUBSET Header]
      BY <1>5, <2>1, <2>2 DEF TypeOK
    <3>6. req' \in [Requests -> Request]
      BY <1>1, <1>5, DoneStep
    <3> HIDE DEF c, i, own
    <3> QED BY <3>1, <3>4, <3>5, <3>6 DEF TypeOK
  <2>7. \A o \in Owners : o # own => headers'[o] = headers[o]
    BY <1>5, <2>1 DEF TypeOK
  <2>8. c.headers # NULL => headers'[own] = Rows(r, {})
    BY <1>2, <1>5, <2>1 DEF TypeOK
  <2>9. \A o \in Owners : \A h \in headers'[o] : h.by = r \/ h \in headers[o]
    BY <1>5, <2>2, <2>7, <2>8
  <2>10. ASSUME NEW p \in Requests \ {r}, req[p].pc \in HoldsOwner
         PROVE  /\ req[p].call.op = "updateEndpoint" => endpoint'[req[p].id] = endpoint[req[p].id]
                /\ req[p].call.op = "updateService" => service'[req[p].id] # NULL
                /\ headers'[OwnerOf(req[p])] = headers[OwnerOf(req[p])]
    <3>1. req[p].id # r /\ OwnerOf(req[p]) # own /\ req[p].id \in Ids
      BY <1>1, <2>10, HeldElsewhere, UpdateOf DEF HoldsOwner
    <3>2. OwnerOf(req[p]) \in Owners
      BY <3>1 DEF OwnerOf, Owners
    <3>3. req[p].call.op = "updateService" => service[req[p].id] # NULL
      BY <2>10 DEF IInv, OwnersCurrent, Current
    <3> QED BY <2>4, <2>7, <3>1, <3>2, <3>3
  <2>11. \A o \in Owners : WholeAt(o)'
    <3>1. Replaced(r) = own
      BY <1>2 DEF Replaced
    <3>2. ASSUME NEW o \in Owners, o # own \/ c.headers = NULL PROVE WholeAt(o)'
      BY <1>1, <1>5, <2>7, <3>2, WholeKept
    <3>3. c.headers # NULL => WholeAt(own)'
      BY <1>1, <1>2, <1>5, <2>8, <3>1, WholeWritten
    <3> QED BY <3>2, <3>3
  <2>12. Endpoints' \subseteq Endpoints \cup {r}
    BY <2>4 DEF Endpoints
  <2> QED BY <1>1, <1>5, <2>4, <2>6, <2>9, <2>10, <2>11, <2>12, WriterStep
<1> QED
  <2> HIDE DEF c, own, i
  <2> QED BY <1>4, <1>5 DEF Insert, c, i, own

LEMMA CommitStep ==
  ASSUME IInv, NEW r \in Requests, Commit(r)
  PROVE  IInv'
<1> DEFINE c == req[r].call  i == req[r].id  own == OwnerOf(req[r])  deletes == req[r].deletes
<1>1. /\ req[r].pc = "commit" /\ req[r] \in Request /\ c \in Calls /\ i \in Ids
      /\ c.op \in {"updateService", "updateEndpoint"} /\ c \in RequestBody
      /\ Owner(r) = own /\ own \in Owners /\ deletes \in SUBSET Header
  <2>1. req[r].pc = "commit"
    BY DEF Commit
  <2>2. /\ req[r] \in Request /\ c \in Calls /\ i \in Ids
        /\ c.op \in {"updateService", "updateEndpoint"}
    BY <2>1, UpdateOf
  <2> QED BY <2>1, <2>2, BodyOf DEF Owner, OwnerOf, Owners, Request
<1>2. /\ c.op = "updateEndpoint" => endpoint[i] # NULL
      /\ c.op = "updateService" => service[i] # NULL
      /\ c.headers # NULL => deletes = headers[own] /\ ~KeepsMissing(c.headers, deletes)
  BY <1>1 DEF IInv, OwnersCurrent, HoldsOwner, Current
<1>3. /\ service' = IF c.op = "updateService" THEN [service EXCEPT ![i] = Given(c.origin, @)] ELSE service
      /\ endpoint' = IF c.op = "updateEndpoint" THEN [endpoint EXCEPT ![i] = Written(r)] ELSE endpoint
      /\ headers' = IF c.headers = NULL THEN headers
                    ELSE [headers EXCEPT ![own] = (@ \ deletes) \cup Rows(r, deletes)]
      /\ Goto(r, "done")
  BY <1>1 DEF Commit
<1>4. TypeOK
  BY DEF IInv
<1>5. c.headers # NULL => /\ Rows(r, deletes) \subseteq Header
                          /\ \A h \in Rows(r, deletes) : h.by = r \/ h \in deletes
  BY <1>1, <1>2, RowsOfList
<1>6. /\ \A j \in Ids : j # i \/ c.op # "updateService" => service'[j] = service[j]
      /\ \A j \in Ids : j # i \/ c.op # "updateEndpoint" => endpoint'[j] = endpoint[j]
  BY <1>3, <1>4 DEF TypeOK
<1>7. c.op = "updateService" => service'[i] = Given(c.origin, service[i]) /\ service'[i] # NULL
  BY <1>1, <1>2, <1>3, <1>4 DEF TypeOK, Given
<1>8. c.op = "updateEndpoint" =>
        /\ endpoint'[i] = Written(r) /\ Written(r) \in Endpoint
        /\ Written(r).service = endpoint[i].service
  <2>1. SUFFICES ASSUME c.op = "updateEndpoint"
                 PROVE  /\ endpoint'[i] = Written(r) /\ Written(r) \in Endpoint
                        /\ Written(r).service = endpoint[i].service
    OBVIOUS
  <2>2. endpoint[i] \in Endpoint
    BY <1>1, <1>2, <1>4, <2>1 DEF TypeOK, Endpoints
  <2>3. Written(r) \in Endpoint /\ Written(r).service = endpoint[i].service
    BY <1>1, <2>2 DEF Written, Patched, Given, Endpoint, RequestBody
  <2>4. endpoint' = [endpoint EXCEPT ![i] = Written(r)]
    BY <1>3, <2>1
  <2>5. endpoint'[i] = Written(r)
    BY <1>1, <1>4, <2>4 DEF TypeOK
  <2> QED BY <2>3, <2>5
<1>9. TypeOK'
  <2>1. service' \in [Ids -> Origins \cup {NULL}]
    BY <1>1, <1>3, <1>4, <1>7 DEF TypeOK, Given, RequestBody
  <2>2. \A j \in Ids : service[j] # NULL => service'[j] # NULL
    BY <1>6, <1>7
  <2>3. endpoint' \in [Ids -> Endpoint \cup {NULL}]
    BY <1>3, <1>4, <1>8 DEF TypeOK
  <2>4. ASSUME NEW j \in Endpoints' PROVE service'[endpoint'[j].service] # NULL
    <3>1. j \in Endpoints /\ endpoint'[j].service = endpoint[j].service
      BY <1>2, <1>6, <1>8 DEF Endpoints
    <3>2. endpoint[j].service \in Ids
      BY <1>4, <3>1 DEF TypeOK, Endpoints, Endpoint
    <3> QED BY <1>4, <2>2, <3>1, <3>2 DEF TypeOK
  <2>5. headers' \in [Owners -> SUBSET Header]
    BY <1>1, <1>3, <1>4, <1>5 DEF TypeOK
  <2> QED BY <1>1, <1>3, <2>1, <2>3, <2>4, <2>5, DoneStep DEF TypeOK
<1>10. \A o \in Owners : o # own => headers'[o] = headers[o]
  BY <1>3, <1>4 DEF TypeOK
\* The rows it deletes are all there are.
<1>11. c.headers # NULL => headers'[own] = Rows(r, deletes)
  BY <1>1, <1>2, <1>3, <1>4 DEF TypeOK
<1>12. \A o \in Owners : \A h \in headers'[o] : h.by = r \/ h \in headers[o]
  BY <1>2, <1>3, <1>5, <1>10, <1>11
<1>13. ASSUME NEW p \in Requests \ {r}, req[p].pc \in HoldsOwner
       PROVE  /\ req[p].call.op = "updateEndpoint" => endpoint'[req[p].id] = endpoint[req[p].id]
              /\ req[p].call.op = "updateService" => service'[req[p].id] # NULL
              /\ headers'[OwnerOf(req[p])] = headers[OwnerOf(req[p])]
  <2>1. OwnerOf(req[p]) # own
    BY <1>1, <1>13 DEF IInv, OwnerAlone, HoldsOwner
  <2>2. /\ req[p].id \in Ids /\ OwnerOf(req[p]) \in Owners
        /\ req[p].call.op \in {"updateService", "updateEndpoint"}
    BY <1>13, UpdateOf DEF HoldsOwner, OwnerOf, Owners
  <2>3. req[p].call.op = "updateService" => service[req[p].id] # NULL
    BY <1>13 DEF IInv, OwnersCurrent, Current
  <2>4. req[p].call.op = c.op => req[p].id # i
    BY <2>1 DEF OwnerOf
  <2>5. req[p].call.op = "updateEndpoint" => endpoint'[req[p].id] = endpoint[req[p].id]
    BY <1>6, <2>2, <2>4
  <2>6. req[p].call.op = "updateService" => service'[req[p].id] # NULL
    BY <1>6, <2>2, <2>3, <2>4
  <2> QED BY <1>10, <2>1, <2>2, <2>5, <2>6
<1>14. \A o \in Owners : WholeAt(o)'
  <2>1. Replaced(r) = own
    BY <1>1 DEF Replaced
  <2>2. ASSUME NEW o \in Owners, o # own \/ c.headers = NULL PROVE WholeAt(o)'
    BY <1>1, <1>3, <1>10, <2>2, WholeKept
  <2>3. ASSUME NEW o \in Owners, o = own, c.headers # NULL PROVE WholeAt(o)'
    BY <1>1, <1>2, <1>3, <1>11, <2>1, <2>3, WholeWritten
  <2> QED BY <2>2, <2>3
<1>15. /\ \A j \in Ids : /\ service[j] = NULL => service'[j] = NULL
                         /\ endpoint[j] = NULL => endpoint'[j] = NULL
       /\ Endpoints' \subseteq Endpoints
  BY <1>1, <1>2, <1>6 DEF Endpoints
<1>16. Goto(r, "done")
  BY <1>3
<1>17. req[r].pc = "commit"
  BY <1>1
<1> HIDE DEF c, i, own, deletes
<1> QED BY <1>9, <1>12, <1>13, <1>14, <1>15, <1>16, <1>17, WriterStep

LEMMA StatementStep ==
  ASSUME IInv, NEW r \in Requests, Statement(r)
  PROVE  IInv'
<1> DEFINE c == req[r].call  i == req[r].id  deletesService == c.op = "deleteService"
<1>1. req[r].pc = "statement" /\ req[r] \in Request /\ Shape(req[r]) /\ Granted(r)
  BY ShapeOf DEF Statement
<1>2. /\ c \in Calls /\ c.op \in {"deleteService", "deleteEndpoint", "setEnabled"} /\ i \in Ids
  BY <1>1, BodyOf DEF Shape, Blank, StepsOf, NoOwnerYet
<1>3. TypeOK
  BY DEF IInv
<1>4. CASE Fails(r, "refused")
  BY <1>1, <1>4, FailsStep
\* Who holds an owner holds none the statement concerns.
<1>5. ASSUME NEW p \in Requests \ {r}, req[p].pc \in HoldsOwner
      PROVE  /\ req[p].id \in Ids /\ OwnerOf(req[p]) \in Owners
             /\ req[p].call.op \in {"updateService", "updateEndpoint"}
             /\ req[p].call.op = "updateService" => service[req[p].id] # NULL
             /\ req[p].call.op = "updateService" /\ deletesService => req[p].id # i
             /\ req[p].call.op = "updateEndpoint" => req[p].id \notin Gone(r)
  <2>1. /\ req[p].id \in Ids /\ OwnerOf(req[p]) \in Owners
        /\ req[p].call.op \in {"updateService", "updateEndpoint"}
    BY <1>5, UpdateOf DEF HoldsOwner, OwnerOf, Owners
  <2>2. /\ req[p].call.op = "updateService" => service[req[p].id] # NULL
        /\ req[p].call.op = "updateEndpoint" => endpoint[req[p].id] # NULL
    BY <1>5 DEF IInv, OwnersCurrent, Current
  <2>3. IF deletesService
        THEN /\ req[p].call.op = "updateService" => req[p].id # i
             /\ req[p].call.op = "updateEndpoint" /\ endpoint[req[p].id] # NULL =>
                  endpoint[req[p].id].service # i
        ELSE req[p].call.op = "updateEndpoint" => req[p].id # i
    BY <1>1, <1>5, <2>1, StatementGranted
  <2> QED BY <2>1, <2>2, <2>3 DEF Gone
<1>6. CASE /\ c.op = "setEnabled" /\ endpoint[i] # NULL
           /\ endpoint' = [endpoint EXCEPT ![i].enabled = FALSE]
           /\ service' = service /\ headers' = headers /\ Goto(r, "done")
  <2>1. Gone(r) = {i}
    BY <1>6 DEF Gone
  <2>2. endpoint[i] \in Endpoint
    BY <1>2, <1>3, <1>6 DEF TypeOK
  <2>3. /\ endpoint'[i] \in Endpoint /\ endpoint'[i].service = endpoint[i].service
        /\ \A j \in Ids \ {i} : endpoint'[j] = endpoint[j]
        /\ endpoint' \in [Ids -> Endpoint \cup {NULL}]
    <3> DEFINE row == [endpoint[i] EXCEPT !.enabled = FALSE]
    <3>1. row \in Endpoint /\ row.service = endpoint[i].service
      BY <2>2 DEF Endpoint
    <3>2. endpoint' = [endpoint EXCEPT ![i] = row]
      BY <1>6
    <3> HIDE DEF row
    <3> QED BY <1>2, <1>3, <3>1, <3>2 DEF TypeOK
  <2>4. TypeOK'
    <3>1. ASSUME NEW j \in Endpoints' PROVE service'[endpoint'[j].service] # NULL
      BY <1>3, <1>6, <2>3 DEF TypeOK, Endpoints
    <3> QED BY <1>1, <1>3, <1>6, <2>3, <3>1, DoneStep DEF TypeOK
  <2>5. \A o \in Owners : WholeAt(o)'
    BY <1>1, <1>6, WholeKept
  <2>6. ASSUME NEW p \in Requests \ {r}, req[p].pc \in HoldsOwner
        PROVE  /\ req[p].call.op = "updateEndpoint" => endpoint'[req[p].id] = endpoint[req[p].id]
               /\ req[p].call.op = "updateService" => service'[req[p].id] # NULL
               /\ headers'[OwnerOf(req[p])] = headers[OwnerOf(req[p])]
    <3>1. /\ req[p].id \in Ids
          /\ req[p].call.op = "updateService" => service[req[p].id] # NULL
          /\ req[p].call.op = "updateEndpoint" => req[p].id # i
      BY <1>5, <2>1, <2>6
    <3> QED BY <1>6, <2>3, <3>1
  <2>7. /\ \A j \in Ids : endpoint[j] = NULL => endpoint'[j] = NULL
        /\ Endpoints' \subseteq Endpoints
    BY <1>2, <1>6, <2>3 DEF Endpoints
  <2> HIDE DEF c, i
  <2> QED BY <1>1, <1>6, <2>4, <2>5, <2>6, <2>7, WriterStep
<1>7. CASE /\ service' = IF deletesService THEN [service EXCEPT ![i] = NULL] ELSE service
           /\ endpoint' = [e \in Ids |-> IF e \in Gone(r) THEN NULL ELSE endpoint[e]]
           /\ headers' = [o \in Owners |->
                IF \/ o[1] = "endpoint" /\ o[2] \in Gone(r)
                   \/ deletesService /\ o = <<"service", i>>
                THEN {} ELSE headers[o]]
           /\ Goto(r, "done")
  <2>1. /\ \A j \in Ids : service'[j] = IF deletesService /\ j = i THEN NULL ELSE service[j]
        /\ \A j \in Ids : endpoint'[j] = IF j \in Gone(r) THEN NULL ELSE endpoint[j]
    BY <1>3, <1>7 DEF TypeOK
  <2>2. TypeOK'
    <3>1. service' \in [Ids -> Origins \cup {NULL}] /\ endpoint' \in [Ids -> Endpoint \cup {NULL}]
      BY <1>3, <1>7 DEF TypeOK
    <3>2. headers' \in [Owners -> SUBSET Header]
      BY <1>3, <1>7 DEF TypeOK
    \* The cascade: the endpoints of a service go with it.
    <3>3. ASSUME NEW j \in Endpoints' PROVE service'[endpoint'[j].service] # NULL
      <4>1. j \in Endpoints /\ j \notin Gone(r) /\ endpoint'[j] = endpoint[j]
        BY <2>1 DEF Endpoints
      <4>2. endpoint[j].service \in Ids /\ service[endpoint[j].service] # NULL
        BY <1>3, <4>1 DEF TypeOK, Endpoints, Endpoint
      <4>3. deletesService => endpoint[j].service # i
        BY <4>1 DEF Gone
      <4> QED BY <2>1, <4>1, <4>2, <4>3
    <3> QED BY <1>1, <1>7, <3>1, <3>2, <3>3, DoneStep DEF TypeOK
  <2>3. \A o \in Owners : headers'[o] = headers[o] \/ headers'[o] = {}
    BY <1>7
  <2>4. \A o \in Owners : WholeAt(o)'
    BY <1>1, <1>7, <2>3, WholeKept
  <2>5. ASSUME NEW p \in Requests \ {r}, req[p].pc \in HoldsOwner
        PROVE  /\ req[p].call.op = "updateEndpoint" => endpoint'[req[p].id] = endpoint[req[p].id]
               /\ req[p].call.op = "updateService" => service'[req[p].id] # NULL
               /\ headers'[OwnerOf(req[p])] = headers[OwnerOf(req[p])]
    <3>1. /\ req[p].id \in Ids /\ OwnerOf(req[p]) \in Owners
          /\ req[p].call.op \in {"updateService", "updateEndpoint"}
          /\ req[p].call.op = "updateService" => service[req[p].id] # NULL
          /\ req[p].call.op = "updateService" /\ deletesService => req[p].id # i
          /\ req[p].call.op = "updateEndpoint" => req[p].id \notin Gone(r)
      BY <1>5, <2>5
    <3> HIDE DEF deletesService, i
    <3>2. req[p].call.op = "updateEndpoint" => endpoint'[req[p].id] = endpoint[req[p].id]
      BY <2>1, <3>1
    <3>3. req[p].call.op = "updateService" => service'[req[p].id] # NULL
      BY <2>1, <3>1
    <3>4. ASSUME NEW o \in Owners,
                 ~(o[1] = "endpoint" /\ o[2] \in Gone(r)), ~(deletesService /\ o = <<"service", i>>)
          PROVE  headers'[o] = headers[o]
      BY <1>7, <3>4
    <3>5. /\ ~(OwnerOf(req[p])[1] = "endpoint" /\ OwnerOf(req[p])[2] \in Gone(r))
          /\ ~(deletesService /\ OwnerOf(req[p]) = <<"service", i>>)
      BY <3>1 DEF OwnerOf
    <3> QED BY <3>1, <3>2, <3>3, <3>4, <3>5
  <2>6. /\ \A j \in Ids : /\ service[j] = NULL => service'[j] = NULL
                         /\ endpoint[j] = NULL => endpoint'[j] = NULL
        /\ Endpoints' \subseteq Endpoints
    BY <2>1 DEF Endpoints
  <2> HIDE DEF c, i, deletesService
  <2> QED BY <1>1, <1>7, <2>2, <2>3, <2>4, <2>5, <2>6, WriterStep
<1> QED BY <1>4, <1>6, <1>7 DEF Statement

--------------------------------------------------------------------------------
(* The invariant holds. *)

LEMMA InitInv == Init => IInv
<1> SUFFICES ASSUME Init PROVE IInv
  OBVIOUS
<1> USE RegistrationAssumption DEF Init
<1>1. SeedRow \in Endpoint /\ SeedRow.service = Seed
  BY DEF SeedRow, Endpoint, Ids
<1>2. Idle \in Request
  BY DEF Idle, Request
<1>3. Endpoints \subseteq {Seed} /\ \A i \in Endpoints : endpoint[i] = SeedRow
  BY DEF Endpoints, Ids
<1>4. TypeOK
  <2>1. /\ service \in [Ids -> Origins \cup {NULL}] /\ service[Seed] # NULL
        /\ endpoint \in [Ids -> Endpoint \cup {NULL}]
    BY <1>1 DEF Ids
  <2>2. headers \in [Owners -> SUBSET Header]
    BY DEF Owners, Header, Ids
  <2>3. req \in [Requests -> Request]
    BY <1>2
  <2> QED BY <1>1, <1>3, <2>1, <2>2, <2>3 DEF TypeOK
<1>5. \A r \in Requests : req[r].pc = "idle" /\ req[r].id = NULL
  BY DEF Idle
<1>6. Shaped /\ KnownIds /\ UserAlone /\ OwnerAlone /\ OwnersCurrent
  BY <1>5 DEF Shaped, CheckNeverViolated, Shape, Blank, KnownIds, UserAlone, OwnerAlone,
              OwnersCurrent, HoldsUser, HoldsOwner
<1>7. \A o \in Owners : \A h \in headers[o] : h.by = Seed
  OBVIOUS
<1>8. Fresh
  BY <1>7 DEF Fresh, Ids
<1>9. RoomLeft /\ QuotaKept
  <2>1. IsFiniteSet({Seed}) /\ Cardinality({Seed}) = 1
    BY FS_Singleton
  <2>2. /\ IsFiniteSet(Endpoints) /\ Cardinality(Endpoints) <= 1
        /\ Cardinality(Endpoints) \in Nat
    BY <1>3, <2>1, FS_Subset, FS_CardinalityType
  <2> QED BY <1>5, <2>2 DEF RoomLeft, QuotaKept
<1>10. HeadersWhole
  <2>1. \A o \in Owners : \A g, h \in headers[o] : g.name = h.name => g = h
    OBVIOUS
  <2> QED BY <1>7, <2>1 DEF HeadersWhole
<1> QED BY <1>4, <1>6, <1>8, <1>9, <1>10 DEF IInv

LEMMA StutterInv == IInv /\ UNCHANGED vars => IInv'
<1> SUFFICES ASSUME IInv, UNCHANGED vars PROVE IInv'
  OBVIOUS
<1> USE DEF IInv, vars
<1>1. TypeOK' /\ Shaped' /\ Fresh' /\ KnownIds'
  BY DEF TypeOK, Endpoints, Shaped, CheckNeverViolated, Shape, NoOwnerYet, Fresh, KnownIds, Stored
<1>2. UserAlone' /\ OwnerAlone' /\ OwnersCurrent'
  BY DEF UserAlone, OwnerAlone, OwnersCurrent, OwnerOf, Current, KeepsMissing
<1>3. RoomLeft' /\ QuotaKept' /\ HeadersWhole'
  BY DEF RoomLeft, QuotaKept, Endpoints, HeadersWhole, Replaced, Owner
<1> QED BY <1>1, <1>2, <1>3

LEMMA NextInv == IInv /\ [Next]_vars => IInv'
<1>1. ASSUME IInv, NEW r \in Requests,
             \/ Submit(r) \/ Read(r) \/ LockUser(r) \/ ReadService(r) \/ Find(r) \/ CreateService(r)
             \/ Count(r) \/ Insert(r) \/ InsertService(r) \/ KeyShare(r) \/ LockOwner(r) \/ Joined(r)
             \/ Patch(r) \/ Rename(r) \/ Replace(r) \/ Commit(r) \/ Statement(r) \/ Victim(r)
      PROVE  IInv'
  BY <1>1, SubmitStep, ReadStep, LockUserStep, ReadServiceStep, FindStep, CreateServiceStep,
     CountStep, InsertStep, InsertServiceStep, KeyShareStep, LockOwnerStep, JoinedStep, PatchStep,
     RenameStep, ReplaceStep, CommitStep, StatementStep, VictimStep
<1> QED BY <1>1, StutterInv DEF Next, AllEnded

THEOREM Invariance == Spec => []IInv
<1> QED BY InitInv, NextInv, PTL DEF Spec

--------------------------------------------------------------------------------
(* What follows. *)

\* However requests overlap, the user keeps within the quota, which is counted
\* under the lock on the user's row, and the CHECK of migration 0010 never has
\* to refuse an update, whose pair is checked under the lock on the endpoint's.
THEOREM BoundsHold == Spec => []BoundsKept
<1>1. IInv => BoundsKept
  BY DEF IInv, Shaped, BoundsKept
<1> QED BY <1>1, Invariance, PTL

\* What is stored is the whole of what requests that succeeded asked for: an
\* endpoint has its service, an owner the headers of one list, and a request that
\* was refused or failed has left nothing.
THEOREM StoredWholeHolds == Spec => []StoredWhole
<1>1. IInv => StoredWhole
  BY DEF IInv, StoredWhole, Fresh, RefusedLeavesNothing
<1> QED BY <1>1, Invariance, PTL

--------------------------------------------------------------------------------
(* What a step may change. *)

KeptStep ==
  \A o \in Owners : \A h \in headers'[o] \ headers[o] :
    h.by \in Requests /\ req[h.by].pc # "done" /\ req'[h.by].pc = "done"

AskedStep ==
  \A e \in Ids : endpoint[e] # NULL /\ endpoint'[e] # NULL =>
    \A f \in {"service", "path", "interval", "timeout", "enabled"} :
      endpoint'[e][f] # endpoint[e][f] =>
        \E r \in Requests :
          /\ req[r].pc # "done" /\ req'[r].pc = "done" /\ req[r].id = e
          /\ IF f = "enabled" THEN req[r].call.op = "setEnabled"
             ELSE f # "service" /\ req[r].call[f] = endpoint'[e][f]

LEMMA NoWrite ==
  ASSUME UNCHANGED <<endpoint, headers>>
  PROVE  KeptStep /\ AskedStep
BY DEF KeptStep, AskedStep

\* Rows written by a request that is done with the step.
LEMMA OwnRows ==
  ASSUME IInv, NEW r \in Requests, req[r].pc \in {"insert", "keyShare", "commit", "statement"},
         Goto(r, "done"),
         \A o \in Owners : \A h \in headers'[o] : h.by = r \/ h \in headers[o]
  PROVE  KeptStep
BY DoneStep DEF KeptStep

LEMMA InsertWrites ==
  ASSUME IInv, NEW r \in Requests, Insert(r)
  PROVE  KeptStep /\ AskedStep
<1> DEFINE c == req[r].call  own == <<"endpoint", r>>
<1>1. req[r].pc = "insert" /\ c \in Calls /\ own \in Owners
  BY ShapeOf DEF Insert, Shape, Blank, Owners, Ids
<1>2. CASE Fails(r, "fault") \/ Fails(r, "refused")
  BY <1>2, NoWrite DEF Fails
<1>3. CASE /\ ~(c.headers # NULL /\ KeepsMissing(c.headers, {}))
           /\ endpoint' = [endpoint EXCEPT ![r] = NewRow(r)]
           /\ headers' = IF c.headers = NULL THEN headers ELSE [headers EXCEPT ![own] = Rows(r, {})]
           /\ Goto(r, "done")
  <2>1. c.headers # NULL => \A h \in Rows(r, {}) : h.by = r
    BY <1>1, <1>3, RowsOfList
  <2>2. \A o \in Owners : \A h \in headers'[o] : h.by = r \/ h \in headers[o]
    BY <1>1, <1>3, <2>1 DEF IInv, TypeOK
  <2>3. endpoint[r] = NULL /\ \A e \in Ids \ {r} : endpoint'[e] = endpoint[e]
    BY <1>1, <1>3 DEF IInv, TypeOK, Fresh
  <2> QED BY <1>1, <1>3, <2>2, <2>3, OwnRows DEF AskedStep
<1> HIDE DEF c, own
<1> QED BY <1>2, <1>3 DEF Insert, c, own

LEMMA KeyShareWrites ==
  ASSUME IInv, NEW r \in Requests, KeyShare(r)
  PROVE  KeptStep /\ AskedStep
<1> DEFINE c == req[r].call  own == <<"service", r>>
<1>1. req[r].pc = "keyShare" /\ c \in Calls /\ own \in Owners
  BY ShapeOf DEF KeyShare, Shape, Blank, Owners, Ids
<1>2. CASE Fails(r, "refused")
  BY <1>2, NoWrite DEF Fails
<1>3. CASE /\ ~(c.headers # NULL /\ KeepsMissing(c.headers, {}))
           /\ headers' = IF c.headers = NULL THEN headers ELSE [headers EXCEPT ![own] = Rows(r, {})]
           /\ Goto(r, "done") /\ UNCHANGED endpoint
  <2>1. c.headers # NULL => \A h \in Rows(r, {}) : h.by = r
    BY <1>1, <1>3, RowsOfList
  <2>2. \A o \in Owners : \A h \in headers'[o] : h.by = r \/ h \in headers[o]
    BY <1>1, <1>3, <2>1 DEF IInv, TypeOK
  <2> QED BY <1>1, <1>3, <2>2, OwnRows DEF AskedStep
<1> HIDE DEF c, own
<1> QED BY <1>2, <1>3 DEF KeyShare, c, own

LEMMA CommitWrites ==
  ASSUME IInv, NEW r \in Requests, Commit(r)
  PROVE  KeptStep /\ AskedStep
<1> DEFINE c == req[r].call  i == req[r].id  own == OwnerOf(req[r])  deletes == req[r].deletes
<1>1. req[r].pc = "commit"
  BY DEF Commit
<1>2. /\ req[r] \in Request /\ c \in Calls /\ i \in Ids
      /\ c.op \in {"updateService", "updateEndpoint"}
  BY <1>1, UpdateOf
<1>3. Owner(r) = own /\ own \in Owners /\ deletes \in SUBSET Header
  BY <1>2 DEF Owner, OwnerOf, Owners, Request
<1>4. /\ endpoint' = IF c.op = "updateEndpoint" THEN [endpoint EXCEPT ![i] = Written(r)] ELSE endpoint
      /\ headers' = IF c.headers = NULL THEN headers
                    ELSE [headers EXCEPT ![own] = (@ \ deletes) \cup Rows(r, deletes)]
      /\ Goto(r, "done")
  BY <1>3 DEF Commit
<1>5. /\ c.op = "updateEndpoint" => endpoint[i] # NULL
      /\ c.headers # NULL => deletes = headers[own] /\ ~KeepsMissing(c.headers, deletes)
  BY <1>1, <1>2 DEF IInv, OwnersCurrent, HoldsOwner, Current
<1>6. \A o \in Owners : \A h \in headers'[o] : h.by = r \/ h \in headers[o]
  <2>1. c.headers # NULL => \A h \in Rows(r, deletes) : h.by = r \/ h \in deletes
    BY <1>2, <1>3, <1>5, RowsOfList
  <2> HIDE DEF c, own, deletes
  <2> QED BY <1>3, <1>4, <1>5, <2>1 DEF IInv, TypeOK
<1>7. AskedStep
  <2>1. CASE c.op = "updateService"
    BY <1>4, <2>1 DEF AskedStep
  <2>2. CASE c.op = "updateEndpoint"
    <3>1. endpoint[i] \in Endpoint
      BY <1>2, <1>5, <2>2 DEF IInv, TypeOK
    <3>2. /\ \A e \in Ids \ {i} : endpoint'[e] = endpoint[e]
          /\ endpoint'[i] = Written(r)
      BY <1>2, <1>4, <2>2 DEF IInv, TypeOK
    <3>3. /\ Written(r).service = endpoint[i].service /\ Written(r).enabled = endpoint[i].enabled
          /\ Written(r).path = Given(c.path, endpoint[i].path)
          /\ Written(r).interval = Given(c.interval, endpoint[i].interval)
          /\ Written(r).timeout = Given(c.timeout, endpoint[i].timeout)
      BY <3>1 DEF Written, Patched, Endpoint
    <3>4. req'[r].pc = "done"
      BY <1>1, <1>4, DoneStep
    <3>5. ASSUME NEW f \in {"service", "path", "interval", "timeout", "enabled"},
                 endpoint'[i][f] # endpoint[i][f]
          PROVE  f \notin {"service", "enabled"} /\ c[f] = endpoint'[i][f]
      BY <3>2, <3>3, <3>5 DEF Given
    <3> QED BY <1>1, <3>2, <3>4, <3>5 DEF AskedStep
  <2> QED BY <1>2, <2>1, <2>2
<1> HIDE DEF own, deletes
<1> QED BY <1>1, <1>4, <1>6, <1>7, OwnRows

LEMMA StatementWrites ==
  ASSUME IInv, NEW r \in Requests, Statement(r)
  PROVE  KeptStep /\ AskedStep
<1> DEFINE i == req[r].id
<1>1. req[r].pc = "statement" /\ i \in Ids
  BY ShapeOf, BodyOf DEF Statement, Shape, Blank, StepsOf, NoOwnerYet
<1>2. CASE Fails(r, "refused")
  BY <1>2, NoWrite DEF Fails
<1>3. CASE /\ Goto(r, "done") /\ req[r].call.op = "setEnabled" /\ endpoint[i] # NULL
           /\ endpoint' = [endpoint EXCEPT ![i].enabled = FALSE] /\ UNCHANGED headers
  <2>1. endpoint[i] \in Endpoint
    BY <1>1, <1>3 DEF IInv, TypeOK
  <2>2. /\ \A e \in Ids \ {i} : endpoint'[e] = endpoint[e]
        /\ endpoint'[i] = [endpoint[i] EXCEPT !.enabled = FALSE]
    BY <1>1, <1>3 DEF IInv, TypeOK
  <2>3. \A f \in {"service", "path", "interval", "timeout"} : endpoint'[i][f] = endpoint[i][f]
    BY <2>1, <2>2 DEF Endpoint
  <2>4. req'[r].pc = "done"
    BY <1>1, <1>3, DoneStep
  <2>5. AskedStep
    BY <1>1, <1>3, <2>2, <2>3, <2>4 DEF AskedStep
  <2> QED BY <1>3, <2>5 DEF KeptStep
<1>4. CASE /\ Goto(r, "done")
           /\ endpoint' = [e \in Ids |-> IF e \in Gone(r) THEN NULL ELSE endpoint[e]]
           /\ \A o \in Owners : headers'[o] \in {{}, headers[o]}
  BY <1>4 DEF KeptStep, AskedStep
<1>5. CASE /\ Goto(r, "done")
           /\ endpoint' = [e \in Ids |-> IF e \in Gone(r) THEN NULL ELSE endpoint[e]]
           /\ headers' = [o \in Owners |->
                IF \/ o[1] = "endpoint" /\ o[2] \in Gone(r)
                   \/ req[r].call.op = "deleteService" /\ o = <<"service", i>>
                THEN {} ELSE headers[o]]
  <2>1. \A o \in Owners : headers'[o] \in {{}, headers[o]}
    BY <1>5
  <2> QED BY <1>4, <1>5, <2>1
<1> QED BY <1>2, <1>3, <1>5 DEF Statement

LEMMA Steps ==
  ASSUME IInv, [Next]_vars
  PROVE  KeptStep /\ AskedStep
<1>1. CASE UNCHANGED vars
  BY <1>1, NoWrite DEF vars
<1>2. ASSUME NEW r \in Requests,
             \/ Submit(r) \/ Read(r) \/ LockUser(r) \/ ReadService(r) \/ Find(r) \/ CreateService(r)
             \/ Count(r) \/ InsertService(r) \/ LockOwner(r) \/ Joined(r)
             \/ Patch(r) \/ Rename(r) \/ Replace(r) \/ Victim(r)
      PROVE  UNCHANGED <<endpoint, headers>>
  BY <1>2 DEF Submit, Read, LockUser, ReadService, Find, CreateService, Count, InsertService,
              LockOwner, Joined, Patch, Rename, Replace, Victim, Fails, Proceeds
<1> QED BY <1>1, <1>2, NoWrite, InsertWrites, KeyShareWrites, CommitWrites, StatementWrites
        DEF Next, AllEnded

\* Whoever writes a row of headers is done with the step that writes it: a secret
\* sent without a value keeps the row there is under the lock on its owner, never
\* one it read before another request rotated or cleared it.
THEOREM KeptSecretsCurrent == Spec => KeptSecretCurrent
<1>1. IInv /\ [Next]_vars =>
        [\A o \in Owners : \A h \in headers'[o] \ headers[o] :
           h.by \in Requests /\ req[h.by].pc # "done" /\ req'[h.by].pc = "done"]_vars
  BY Steps DEF KeptStep
<1> QED BY <1>1, Invariance, PTL DEF Spec, KeptSecretCurrent

\* No update is lost: what changes of an endpoint in a step is what the body of
\* the request that is done with the step asked for.
THEOREM AskedFieldsOnly == Spec => OnlyAskedFields
<1>1. IInv /\ [Next]_vars =>
        [\A e \in Ids : endpoint[e] # NULL /\ endpoint'[e] # NULL =>
           \A f \in {"service", "path", "interval", "timeout", "enabled"} :
             endpoint'[e][f] # endpoint[e][f] =>
               \E r \in Requests :
                 /\ req[r].pc # "done" /\ req'[r].pc = "done" /\ req[r].id = e
                 /\ IF f = "enabled" THEN req[r].call.op = "setEnabled"
                    ELSE f # "service" /\ req[r].call[f] = endpoint'[e][f]]_vars
  BY Steps DEF AskedStep
<1> QED BY <1>1, Invariance, PTL DEF Spec, OnlyAskedFields

--------------------------------------------------------------------------------
(* Who can be part of a circle of waiting requests. *)

\* It has what another waits for, and waits itself.
Between == {"createService", "insert", "rename", "patch"}

LEMMA WhoIsBetween ==
  ASSUME NEW q \in Requests, Needs(q) # {}, Holds(q) # {}
  PROVE  req[q].pc \in Between \cup {"keyShare"}
<1>1. req[q].pc \in {"lockUser", "keyShare", "insertService", "createService", "rename", "insert",
                     "lockOwner", "patch", "statement"}
  BY DEF Needs, UserNeeded
<1>2. req[q].pc \notin {"lockUser", "insertService", "lockOwner", "statement"}
  BY DEF Holds, UserLocked, OwnerLocked, EntriesWritten
<1> QED BY <1>1, <1>2 DEF Between

\* What they hold: the user's row; an origin; an owner and a name in its index.
LEMMA HeldBetween ==
  ASSUME NEW q \in Requests
  PROVE  /\ req[q].pc = "createService" => Holds(q) \subseteq {<<"user">>}
         /\ req[q].pc = "insert" => Holds(q) \subseteq {<<"user">>, <<"origin", req[q].call.origin>>}
         /\ req[q].pc = "insert" /\ req[q].id # q => Holds(q) \subseteq {<<"user">>}
         /\ req[q].pc = "rename" =>
              Holds(q) \subseteq {Owner(q), <<"origin", service[req[q].id]>>}
         /\ req[q].pc = "patch" =>
              Holds(q) \subseteq {Owner(q), <<"path", req[q].row.service, req[q].row.path>>}
<1>1. ASSUME req[q].pc = "createService" PROVE Holds(q) \subseteq {<<"user">>}
  BY <1>1 DEF Holds, UserLocked, OwnerLocked, EntriesWritten
<1>2. ASSUME req[q].pc = "insert"
      PROVE  /\ Holds(q) \subseteq {<<"user">>, <<"origin", req[q].call.origin>>}
             /\ req[q].id # q => Holds(q) \subseteq {<<"user">>}
  BY <1>2 DEF Holds, UserLocked, OwnerLocked, EntriesWritten
<1>3. ASSUME req[q].pc = "rename"
      PROVE  Holds(q) \subseteq {Owner(q), <<"origin", service[req[q].id]>>}
  BY <1>3 DEF Holds, UserLocked, OwnerLocked, EntriesWritten
<1>4. ASSUME req[q].pc = "patch"
      PROVE  Holds(q) \subseteq {Owner(q), <<"path", req[q].row.service, req[q].row.path>>}
  BY <1>4 DEF Holds, UserLocked, OwnerLocked, EntriesWritten
<1> QED BY <1>1, <1>2, <1>3, <1>4

LEMMA NeededBetween ==
  ASSUME NEW r \in Requests
  PROVE  /\ req[r].pc \in {"createService", "rename"} => Needs(r) = {<<"origin", req[r].call.origin>>}
         /\ req[r].pc = "insert" =>
              Needs(r) = {<<"service", req[r].id>>, <<"path", req[r].id, req[r].call.path>>}
         /\ req[r].pc = "patch" =>
              \E p : Needs(r) = {<<"path", req[r].row.service, p>>}
<1>1. ASSUME req[r].pc \in {"createService", "rename"}
      PROVE  Needs(r) = {<<"origin", req[r].call.origin>>}
  BY <1>1 DEF Needs, UserNeeded
<1>2. ASSUME req[r].pc = "insert"
      PROVE  Needs(r) = {<<"service", req[r].id>>, <<"path", req[r].id, req[r].call.path>>}
  BY <1>2 DEF Needs, UserNeeded
<1>3. ASSUME req[r].pc = "patch"
      PROVE  Needs(r) = {<<"path", req[r].row.service, Given(req[r].call.path, req[r].row.path)>>}
  BY <1>3 DEF Needs, UserNeeded
<1> QED BY <1>1, <1>2, <1>3

\* An insert into a service of its own waits for none of them: nobody else
\* knows that service.
LEMMA OwnServiceFree ==
  ASSUME IInv, NEW q \in Requests, req[q].pc = "insert", req[q].id = q,
         NEW p \in Requests, req[p].pc \in Between
  PROVE  ~WaitsFor(q, p)
<1>1. Needs(q) = {<<"service", q>>, <<"path", q, req[q].call.path>>}
  BY NeededBetween
<1>2. CASE req[p].pc \in {"createService", "insert"}
  <2>1. Holds(p) \subseteq {<<"user">>, <<"origin", req[p].call.origin>>}
    BY <1>2, HeldBetween
  <2> QED BY <1>1, <2>1 DEF WaitsFor
<1>3. CASE req[p].pc \in {"rename", "patch"}
  <2>1. /\ Stored(req[p].id)
        /\ req[p].pc = "patch" => req[p].call.op = "updateEndpoint"
    BY <1>3, UpdateOf
  <2>2. ~Stored(q)
    BY RegistrationAssumption DEF Stored
  <2>3. req[p].pc = "patch" => req[p].row.service # q
    <3>1. ASSUME req[p].pc = "patch" PROVE req[p].row.service # q
      <4>1. req[p].id \in Endpoints /\ req[p].row = endpoint[req[p].id]
        BY <1>3, <2>1, <3>1, UpdateOf DEF IInv, OwnersCurrent, HoldsOwner, Current, Endpoints
      <4>2. service[req[p].row.service] # NULL
        BY <4>1 DEF IInv, TypeOK
      <4>3. service[q] = NULL
        BY DEF IInv, Fresh
      <4> QED BY <4>2, <4>3
    <3> QED BY <3>1
  <2>4. Owner(p) \notin Needs(q)
    BY <1>1, <2>1, <2>2 DEF Owner
  <2>5. CASE req[p].pc = "rename"
    <3>1. Holds(p) \subseteq {Owner(p), <<"origin", service[req[p].id]>>}
      BY <2>5, HeldBetween
    <3> QED BY <1>1, <2>4, <3>1 DEF WaitsFor
  <2>6. CASE req[p].pc = "patch"
    <3>1. Holds(p) \subseteq {Owner(p), <<"path", req[p].row.service, req[p].row.path>>}
      BY <2>6, HeldBetween
    <3> QED BY <1>1, <2>3, <2>4, <2>6, <3>1 DEF WaitsFor
  <2> QED BY <1>3, <2>5, <2>6
<1> QED BY <1>2, <1>3 DEF Between

\* Whom one of them waits for.
LEMMA WaitsBetween ==
  ASSUME IInv, NEW r \in Requests, NEW q \in Requests, NEW p \in Requests,
         req[r].pc \in Between, req[q].pc \in Between, req[p].pc \in Between,
         WaitsFor(r, q), WaitsFor(q, p)
  PROVE  /\ req[q].pc \in {"rename", "patch"}
         /\ req[r].pc \in {"rename", "patch"} => req[q].pc = req[r].pc
<1>1. PICK x \in Needs(r) : x \in Holds(q)
  BY DEF WaitsFor
<1>2. x # <<"user">>
  BY <1>1, NeededBetween DEF Between
<1>3. req[q].pc \in {"rename", "patch"}
  <2>1. req[q].pc # "createService"
    BY <1>1, <1>2, HeldBetween
  <2>2. ASSUME req[q].pc = "insert" PROVE FALSE
    <3>1. req[q].id = q
      BY <1>1, <1>2, <2>2, HeldBetween
    <3> QED BY <2>2, <3>1, OwnServiceFree
  <2> QED BY <2>1, <2>2 DEF Between
<1>4. ASSUME req[r].pc = "rename", req[q].pc = "patch" PROVE FALSE
  <2>1. x = <<"origin", req[r].call.origin>>
    BY <1>1, <1>4, NeededBetween
  <2>2. x \in {Owner(q), <<"path", req[q].row.service, req[q].row.path>>}
    BY <1>1, <1>4, HeldBetween
  <2> QED BY <2>1, <2>2 DEF Owner
<1>5. ASSUME req[r].pc = "patch", req[q].pc = "rename" PROVE FALSE
  <2>1. PICK name : x = <<"path", req[r].row.service, name>>
    BY <1>1, <1>5, NeededBetween
  <2>2. x \in {Owner(q), <<"origin", service[req[q].id]>>}
    BY <1>1, <1>5, HeldBetween
  <2> QED BY <2>1, <2>2 DEF Owner
<1> QED BY <1>3, <1>4, <1>5

\* Every deadlock, for any number of requests, goes through an explicit creation
\* or is an exchange of base URLs, or of paths, between edits: user before
\* service before endpoint is kept by all else.
THEOREM DeadlocksAreKnown == Spec => []DeadlocksKnown
<1>1. ASSUME IInv PROVE DeadlocksKnown
  <2>1. SUFFICES ASSUME NEW S \in SUBSET Requests, Circle(S), \A r \in S : req[r].pc # "keyShare"
                 PROVE  \E T \in SUBSET S, pc \in {"rename", "patch"} :
                          Circle(T) /\ \A r \in T : req[r].pc = pc
    BY DEF DeadlocksKnown
  <2>2. \A r \in S : \E q \in S : WaitsFor(r, q)
    BY <2>1 DEF Circle
  <2>3. ASSUME NEW r \in S, NEW q \in S, WaitsFor(r, q) PROVE req[q].pc \in Between
    <3>1. Holds(q) # {}
      BY <2>3 DEF WaitsFor
    <3>2. Needs(q) # {}
      BY <2>2 DEF WaitsFor
    <3> QED BY <2>1, <3>1, <3>2, WhoIsBetween
  \* From where two of them have been passed, they rename or they patch.
  <2>4. ASSUME NEW r \in S, NEW q \in S, req[r].pc \in Between, WaitsFor(r, q)
        PROVE  /\ req[q].pc \in {"rename", "patch"}
               /\ req[r].pc \in {"rename", "patch"} => req[q].pc = req[r].pc
    <3>1. PICK p \in S : WaitsFor(q, p)
      BY <2>2
    <3>2. req[q].pc \in Between /\ req[p].pc \in Between
      BY <2>3, <2>4, <3>1
    <3> QED BY <1>1, <2>4, <3>1, <3>2, WaitsBetween
  <2>5. PICK s \in S : req[s].pc \in {"rename", "patch"}
    <3>1. PICK r \in S : TRUE
      BY <2>1 DEF Circle
    <3>2. PICK q \in S : WaitsFor(r, q)
      BY <2>2
    <3>3. req[q].pc \in Between
      BY <2>3, <3>2
    <3>4. PICK p \in S : WaitsFor(q, p)
      BY <2>2
    <3> QED BY <2>4, <3>3, <3>4
  <2> DEFINE T == {t \in S : req[t].pc = req[s].pc}
  <2>6. Circle(T)
    <3>1. ASSUME NEW t \in T PROVE \E q \in T : WaitsFor(t, q)
      <4>1. PICK q \in S : WaitsFor(t, q)
        BY <2>2
      <4>2. req[t].pc = req[s].pc /\ req[t].pc \in Between
        BY <2>5 DEF Between
      <4>3. req[q].pc = req[t].pc
        BY <2>4, <2>5, <4>1, <4>2
      <4> QED BY <4>1, <4>2, <4>3
    <3> QED BY <3>1 DEF Circle
  <2> QED BY <2>5, <2>6
<1> QED BY <1>1, Invariance, PTL
================================================================================
