--------------------------- MODULE AuthAttemptsProofs ---------------------------
(* The limits of the authentication rate limiter, proved for any number of  *)
(* requests, addresses and accounts, every budget and every window.         *)
EXTENDS AuthAttempts, FiniteSetTheorems, TLAPS

Waiting == {"arrived", "countAccount", "insert"}
Counting == {"countAccount", "insert"}

\* A request that waits is not yet cleared and is no older than its delay.
Fresh ==
  \A r \in Requests :
    /\ req[r].pc \in Waiting => now <= req[r].at + DELAY
    /\ req[r].pc \notin Admitted => ~req[r].cleared

\* An admitted attempt is in the table until it is too old for any request
\* that waits; on its account, until a success too.
Kept ==
  \A q \in Requests :
    req[q].pc \in Admitted =>
      /\ q \in addressRows \/ Expired(q)
      /\ req[q].email # NULL /\ ~req[q].cleared => q \in accountRows \/ Expired(q)

\* The advisory locks: no two requests that share a key are between their
\* counts and their commits.
Alone ==
  \A r \in Requests : \A q \in Requests \ {r} :
    req[r].pc \in Counting /\ req[q].pc \in Counting =>
      /\ req[q].scope # req[r].scope \/ req[q].ip # req[r].ip
      /\ req[q].email = NULL \/ req[q].email # req[r].email

\* The admitted attempts that a count of r's keys is about.
RecentAddress(r) ==
  {q \in Requests : /\ req[q].pc \in Admitted
                    /\ req[q].scope = req[r].scope /\ req[q].ip = req[r].ip
                    /\ req[q].at + WINDOW >= req[r].at}
RecentAccount(r) ==
  {q \in Requests : /\ req[q].pc \in Admitted /\ ~req[q].cleared
                    /\ req[q].email = req[r].email
                    /\ req[q].at + WINDOW >= req[r].at}

\* A request that has counted a key still has room under its limit.
RoomFor(r) ==
  /\ req[r].pc \in Counting => Cardinality(RecentAddress(r)) < AddressLimit(r)
  /\ req[r].pc = "insert" /\ req[r].email # NULL
       => Cardinality(RecentAccount(r)) < MAX_FAILURES
Room == \A r \in Requests : RoomFor(r)

IInv == TypeOK /\ Fresh /\ Kept /\ Alone /\ Room /\ AddressWithinLimit /\ AccountWithinLimit

--------------------------------------------------------------------------------
(* Counting *)

\* A set that is one element larger than part of a finite set with room
\* stays within the limit.
LEMMA OneMore ==
  ASSUME NEW R, IsFiniteSet(R), NEW x, NEW n \in Nat, Cardinality(R) < n,
         NEW S, S \subseteq R \cup {x}
  PROVE  Cardinality(S) <= n
<1>0. Cardinality(R) \in Nat
  BY FS_CardinalityType
<1>1. IsFiniteSet(R \cup {x}) /\ Cardinality(R \cup {x}) <= n
  <2>1. CASE x \in R
    <3>1. R \cup {x} = R
      BY <2>1
    <3> QED
      BY <1>0, <3>1
  <2>2. CASE x \notin R
    <3>1. IsFiniteSet(R \cup {x}) /\ Cardinality(R \cup {x}) = Cardinality(R) + 1
      BY <2>2, FS_AddElement
    <3> QED
      BY <1>0, <3>1
  <2> QED
    BY <2>1, <2>2
<1> QED
  BY <1>1, FS_Subset, FS_CardinalityType

\* Part of a finite set is no larger.
LEMMA NoMore ==
  ASSUME NEW S, NEW T, IsFiniteSet(T), S \subseteq T
  PROVE  /\ IsFiniteSet(S) /\ Cardinality(S) \in Nat /\ Cardinality(T) \in Nat
         /\ Cardinality(S) <= Cardinality(T)
BY FS_Subset, FS_CardinalityType

\* Sets of requests are finite.
LEMMA FiniteRequests ==
  ASSUME NEW S, S \subseteq Requests
  PROVE  IsFiniteSet(S) /\ Cardinality(S) \in Nat
BY AttemptsAssumption, FS_Subset, FS_CardinalityType DEF AttemptsAssumption

--------------------------------------------------------------------------------
(* Types *)

\* The limiter starts with its types.
LEMMA InitType == Init => TypeOK
BY AttemptsAssumption DEF Init, TypeOK, AttemptsAssumption, Idle, Request, Scopes, Admitted

\* A step leaves the keys and the timestamp of q alone.
SameKeys(q) ==
  /\ req'[q].scope = req[q].scope /\ req'[q].ip = req[q].ip
  /\ req'[q].email = req[q].email /\ req'[q].at = req[q].at

\* A request that moves on changes nothing but its place.
LEMMA GotoFacts ==
  ASSUME TypeOK, NEW r \in Requests, NEW pc \in {"countAccount", "insert", "verifying", "done"},
         Goto(r, pc)
  PROVE  /\ req' \in [Requests -> Request]
         /\ \A q \in Requests : /\ SameKeys(q) /\ req'[q].cleared = req[q].cleared
                                 /\ req'[q].pc = IF q = r THEN pc ELSE req[q].pc
BY DEF Goto, TypeOK, Request, SameKeys

\* A refused request forgets what it came with.
LEMMA RefuseFacts ==
  ASSUME TypeOK, NEW r \in Requests, Refuse(r)
  PROVE  /\ req' \in [Requests -> Request]
         /\ req'[r].pc = "refused" /\ ~req'[r].cleared
         /\ \A q \in Requests \ {r} : req'[q] = req[q]
<1> DEFINE gone == [Idle EXCEPT !.pc = "refused"]
<1>1. gone \in Request /\ gone.pc = "refused"
  <2>1. 0 \in 0 .. MAX_TIME
    BY AttemptsAssumption DEF AttemptsAssumption
  <2>2. Idle \in Request
    BY <2>1 DEF Idle, Request, Scopes
  <2> QED
    BY <2>2 DEF Request
<1>2. gone.cleared = FALSE
  BY DEF Idle
<1>3. req' = [req EXCEPT ![r] = gone]
  BY DEF Refuse
<1> HIDE DEF gone
<1>4. req' \in [Requests -> Request] /\ req'[r] = gone /\ \A q \in Requests \ {r} : req'[q] = req[q]
  BY <1>1, <1>3 DEF TypeOK
<1> QED
  BY <1>1, <1>2, <1>4

\* A success clears the admitted attempts of its account.
LEMMA SucceedsFacts ==
  ASSUME TypeOK, NEW r \in Requests, Succeeds(r)
  PROVE  /\ req' \in [Requests -> Request]
         /\ \A q \in Requests :
              /\ SameKeys(q)
              /\ req'[q].cleared = (req[q].cleared \/ (req[q].pc \in Admitted
                                                      /\ req[q].email = req[r].email))
              /\ req'[q].pc = IF q = r THEN "done" ELSE req[q].pc
<1>1. req' = [q \in Requests |->
                [req[q] EXCEPT !.cleared = @ \/ (req[q].pc \in Admitted
                                                 /\ req[q].email = req[r].email),
                               !.pc = IF q = r THEN "done" ELSE @]]
  BY DEF Succeeds
<1>2. ASSUME NEW q \in Requests
      PROVE  /\ req[q] \in Request
             /\ req'[q] = [req[q] EXCEPT !.cleared = @ \/ (req[q].pc \in Admitted
                                                           /\ req[q].email = req[r].email),
                                         !.pc = IF q = r THEN "done" ELSE @]
  BY <1>1 DEF TypeOK
<1>3. ASSUME NEW q \in Requests
      PROVE  /\ req'[q] \in Request /\ SameKeys(q)
             /\ req'[q].cleared = (req[q].cleared \/ (req[q].pc \in Admitted
                                                     /\ req[q].email = req[r].email))
             /\ req'[q].pc = IF q = r THEN "done" ELSE req[q].pc
  <2> DEFINE clear == req[q].cleared \/ (req[q].pc \in Admitted /\ req[q].email = req[r].email)
             place == IF q = r THEN "done" ELSE req[q].pc
  <2>1. req[q] \in Request /\ req'[q] = [req[q] EXCEPT !.cleared = clear, !.pc = place]
    BY <1>2
  <2>2. clear \in BOOLEAN
    OBVIOUS
  <2>3. place \in {"idle", "arrived", "countAccount", "insert", "verifying", "done", "refused"}
    BY <2>1 DEF Request
  <2> HIDE DEF clear, place
  <2>4. req'[q] = [pc |-> place, scope |-> req[q].scope, ip |-> req[q].ip,
                   email |-> req[q].email, at |-> req[q].at, cleared |-> clear]
    BY <2>1 DEF Request
  <2>5. /\ req'[q] \in Request /\ SameKeys(q)
        /\ req'[q].cleared = clear /\ req'[q].pc = place
    BY <2>1, <2>2, <2>3, <2>4 DEF Request, SameKeys
  <2> QED
    BY <2>5 DEF clear, place
<1> QED
  BY <1>1, <1>3

\* Every step keeps the types.
LEMMA StepType == TypeOK /\ [Next]_vars => TypeOK'
<1> SUFFICES ASSUME TypeOK, [Next]_vars PROVE TypeOK'
  OBVIOUS
<1>1. ASSUME NEW r \in Requests, NEW scope \in Scopes, NEW ip \in Ips,
             NEW email \in Emails \cup {NULL}, Arrive(r, scope, ip, email)
      PROVE  TypeOK'
  BY <1>1 DEF Arrive, TypeOK, Request, Admitted
<1>2. ASSUME NEW r \in Requests, CountAddress(r) PROVE TypeOK'
  <2>1. CASE Refuse(r)
    BY <1>2, <2>1, RefuseFacts DEF CountAddress, TypeOK, Admitted
  <2>2. CASE Goto(r, IF req[r].email = NULL THEN "insert" ELSE "countAccount")
    BY <1>2, <2>2, GotoFacts DEF CountAddress, TypeOK, Admitted, SameKeys
  <2> QED
    BY <1>2, <2>1, <2>2 DEF CountAddress
<1>3. ASSUME NEW r \in Requests, CountAccount(r) PROVE TypeOK'
  <2>1. CASE Refuse(r)
    BY <1>3, <2>1, RefuseFacts DEF CountAccount, TypeOK, Admitted
  <2>2. CASE Goto(r, "insert")
    BY <1>3, <2>2, GotoFacts DEF CountAccount, TypeOK, Admitted, SameKeys
  <2> QED
    BY <1>3, <2>1, <2>2 DEF CountAccount
<1>4. ASSUME NEW r \in Requests, Record(r) PROVE TypeOK'
  BY <1>4, GotoFacts DEF Record, TypeOK, Admitted, SameKeys
<1>5. ASSUME NEW r \in Requests, Fails(r) PROVE TypeOK'
  BY <1>5, GotoFacts DEF Fails, TypeOK, Admitted, SameKeys
<1>6. ASSUME NEW r \in Requests, Succeeds(r) PROVE TypeOK'
  <2>1. succeeded' \subseteq {q \in addressRows : req[q].scope = "ip"}
    <3>1. CASE Promotable(r) = {}
      BY <1>6, <3>1 DEF Succeeds, TypeOK
    <3>2. ASSUME NEW q \in NewestOf(Promotable(r)), succeeded' = succeeded \cup {q}
          PROVE  succeeded' \subseteq {p \in addressRows : req[p].scope = "ip"}
      BY <3>2 DEF NewestOf, Promotable, TypeOK
    <3> QED
      BY <1>6, <3>1, <3>2 DEF Succeeds
  <2>2. addressRows' = addressRows /\ accountRows' \subseteq accountRows /\ now' = now
        /\ req[r].pc = "verifying"
    BY <1>6 DEF Succeeds
  <2> QED
    BY <1>6, <2>1, <2>2, SucceedsFacts DEF TypeOK, Admitted, SameKeys
<1>7. CASE Prune
  BY <1>7 DEF Prune, TypeOK
<1>8. CASE Pass
  BY <1>8, AttemptsAssumption DEF Pass, TypeOK, AttemptsAssumption
<1>9. CASE UNCHANGED vars
  BY <1>9 DEF vars, TypeOK
<1> QED
  BY <1>1, <1>2, <1>3, <1>4, <1>5, <1>6, <1>7, <1>8, <1>9 DEF Next, AllServed, Scopes

--------------------------------------------------------------------------------
(* Who waits, and what is kept *)

\* What Fresh, Kept and Alone say holds at first.
LEMMA InitPlaces == Init => Fresh /\ Kept /\ Alone
BY DEF Init, Idle, Fresh, Kept, Alone, Waiting, Counting, Admitted

\* Every step keeps requests in time and their attempts in the table.
LEMMA StepPlaces ==
  TypeOK /\ TypeOK' /\ Fresh /\ Kept /\ Alone /\ [Next]_vars => Fresh' /\ Kept' /\ Alone'
<1> SUFFICES ASSUME TypeOK, TypeOK', Fresh, Kept, Alone, [Next]_vars
             PROVE  Fresh' /\ Kept' /\ Alone'
  OBVIOUS
<1> USE DEF Waiting, Counting, Admitted
<1>0. /\ WINDOW \in Nat /\ DELAY \in Nat /\ RETENTION \in Nat /\ now \in Nat
      /\ \A q \in Requests : req[q].at \in Nat
  BY AttemptsAssumption DEF AttemptsAssumption, TypeOK, Request
<1>1. ASSUME NEW r \in Requests, NEW scope \in Scopes, NEW ip \in Ips,
             NEW email \in Emails \cup {NULL}, Arrive(r, scope, ip, email)
      PROVE  Fresh' /\ Kept' /\ Alone'
  <2>1. /\ \A q \in Requests \ {r} : req'[q] = req[q]
        /\ req'[r].pc = "arrived" /\ req'[r].at = now /\ ~req'[r].cleared
        /\ now' = now /\ addressRows' = addressRows /\ accountRows' = accountRows
    BY <1>1 DEF Arrive, TypeOK
  <2> QED
    BY <1>0, <2>1 DEF Fresh, Kept, Alone, Expired
<1>2. ASSUME NEW r \in Requests, Refuse(r), req[r].pc \in {"arrived", "countAccount"},
             UNCHANGED <<now, addressRows, accountRows>>
      PROVE  Fresh' /\ Kept' /\ Alone'
  BY <1>2, RefuseFacts DEF Fresh, Kept, Alone, Expired
<1>3. ASSUME NEW r \in Requests, CountAddress(r) PROVE Fresh' /\ Kept' /\ Alone'
  <2>1. CASE Refuse(r)
    BY <1>2, <1>3, <2>1 DEF CountAddress
  <2>2. CASE Goto(r, IF req[r].email = NULL THEN "insert" ELSE "countAccount")
    <3>1. \A q \in Requests : /\ SameKeys(q) /\ req'[q].cleared = req[q].cleared
                              /\ q # r => req'[q].pc = req[q].pc
      BY <2>2, GotoFacts
    <3>2. req[r].pc = "arrived" /\ req'[r].pc \in Counting
      BY <1>3, <2>2, GotoFacts DEF CountAddress
    <3>3. now' = now /\ addressRows' = addressRows /\ accountRows' = accountRows
      BY <1>3 DEF CountAddress
    <3>4. Fresh' /\ Kept'
      BY <3>1, <3>2, <3>3 DEF Fresh, Kept, Expired, SameKeys
    <3>5. KeysFree(r)
      BY <1>3 DEF CountAddress
    <3>6. Alone'
      BY <3>1, <3>2, <3>5 DEF Alone, KeysFree, SameKeys
    <3> QED
      BY <3>4, <3>6
  <2> QED
    BY <1>3, <2>1, <2>2 DEF CountAddress
<1>4. ASSUME NEW r \in Requests, CountAccount(r) PROVE Fresh' /\ Kept' /\ Alone'
  <2>1. CASE Refuse(r)
    BY <1>2, <1>4, <2>1 DEF CountAccount
  <2>2. CASE Goto(r, "insert")
    BY <1>4, <2>2, GotoFacts DEF CountAccount, Fresh, Kept, Alone, Expired, SameKeys
  <2> QED
    BY <1>4, <2>1, <2>2 DEF CountAccount
<1>5. ASSUME NEW r \in Requests, Record(r) PROVE Fresh' /\ Kept' /\ Alone'
  BY <1>5, GotoFacts DEF Record, Fresh, Kept, Alone, Expired, SameKeys
<1>6. ASSUME NEW r \in Requests, Fails(r) PROVE Fresh' /\ Kept' /\ Alone'
  BY <1>6, GotoFacts DEF Fails, Fresh, Kept, Alone, Expired, SameKeys
<1>7. ASSUME NEW r \in Requests, Succeeds(r) PROVE Fresh' /\ Kept' /\ Alone'
  <2>1. /\ now' = now /\ addressRows' = addressRows
        /\ accountRows' = {q \in accountRows : req[q].email # req[r].email}
        /\ req[r].pc = "verifying"
    BY <1>7 DEF Succeeds
  <2>2. \A q \in Requests :
          /\ SameKeys(q)
          /\ req'[q].cleared <=> (req[q].cleared \/ (req[q].pc \in Admitted
                                                    /\ req[q].email = req[r].email))
          /\ req'[q].pc = IF q = r THEN "done" ELSE req[q].pc
    BY <1>7, SucceedsFacts
  <2>3. Fresh'
    BY <2>1, <2>2 DEF Fresh, SameKeys
  <2>4. Kept'
    BY <2>1, <2>2 DEF Kept, Expired, SameKeys
  <2>5. Alone'
    BY <2>1, <2>2 DEF Alone, SameKeys
  <2> QED
    BY <2>3, <2>4, <2>5
<1>8. CASE Prune
  BY <1>8 DEF Prune, Fresh, Kept, Alone, Expired
<1>9. CASE Pass
  BY <1>0, <1>9 DEF Pass, Fresh, Kept, Alone, Expired
<1>10. CASE UNCHANGED vars
  BY <1>10 DEF vars, Fresh, Kept, Alone, Expired
<1> QED
  BY <1>1, <1>3, <1>4, <1>5, <1>6, <1>7, <1>8, <1>9, <1>10 DEF Next, AllServed

--------------------------------------------------------------------------------
(* The limits *)

\* The step admits nobody, and forgets no success.
Calm ==
  /\ \A q \in Requests : req'[q].pc \in Admitted => req[q].pc \in Admitted /\ SameKeys(q)
  /\ \A q \in Requests : req'[q].pc \in Admitted /\ ~req'[q].cleared => ~req[q].cleared

\* The limits are numbers.
LEMMA Numbers ==
  TypeOK => /\ WINDOW \in Nat /\ DELAY \in Nat /\ RETENTION \in Nat /\ RETENTION >= WINDOW + DELAY
            /\ MAX_PER_IP \in Nat /\ MAX_REGISTRATIONS \in Nat /\ MAX_FAILURES \in Nat
            /\ MAX_TIME \in Nat /\ now \in Nat /\ \A q \in Requests : req[q].at \in Nat
            /\ \A q \in Requests : AddressLimit(q) \in Nat
BY AttemptsAssumption DEF AttemptsAssumption, TypeOK, Request, AddressLimit

\* Such a step keeps the limits.
LEMMA CalmLimits ==
  ASSUME TypeOK, Calm, AddressWithinLimit, AccountWithinLimit
  PROVE  AddressWithinLimit' /\ AccountWithinLimit'
<1>1. ASSUME NEW ip \in Ips, NEW at \in 0 .. MAX_TIME, NEW scope \in Scopes
      PROVE  /\ Cardinality(InWindow(AdmittedFrom(scope, ip), at)') \in Nat
             /\ Cardinality(InWindow(AdmittedFrom(scope, ip), at)) \in Nat
             /\ Cardinality(InWindow(AdmittedFrom(scope, ip), at)')
                  <= Cardinality(InWindow(AdmittedFrom(scope, ip), at))
  <2>1. InWindow(AdmittedFrom(scope, ip), at)' \subseteq InWindow(AdmittedFrom(scope, ip), at)
    BY DEF Calm, InWindow, AdmittedFrom, SameKeys, Admitted
  <2>2. InWindow(AdmittedFrom(scope, ip), at) \subseteq Requests
    BY DEF InWindow, AdmittedFrom
  <2> QED
    BY <2>1, <2>2, FiniteRequests, NoMore
<1>2. ASSUME NEW e \in Emails, NEW at \in 0 .. MAX_TIME
      PROVE  /\ Cardinality(InWindow(AdmittedOn(e), at)') \in Nat
             /\ Cardinality(InWindow(AdmittedOn(e), at)) \in Nat
             /\ Cardinality(InWindow(AdmittedOn(e), at)') <= Cardinality(InWindow(AdmittedOn(e), at))
  <2>1. InWindow(AdmittedOn(e), at)' \subseteq InWindow(AdmittedOn(e), at)
    BY DEF Calm, InWindow, AdmittedOn, SameKeys, Admitted
  <2>2. InWindow(AdmittedOn(e), at) \subseteq Requests
    BY DEF InWindow, AdmittedOn
  <2> QED
    BY <2>1, <2>2, FiniteRequests, NoMore
<1>3. AddressWithinLimit'
  BY <1>1, Numbers DEF AddressWithinLimit, Scopes
<1>4. AccountWithinLimit'
  BY <1>2, Numbers DEF AccountWithinLimit
<1> QED
  BY <1>3, <1>4

\* And the room of whoever is left where it is.
LEMMA CalmRecent ==
  ASSUME TypeOK, NEW r \in Requests, SameKeys(r),
         RecentAddress(r)' \subseteq RecentAddress(r),
         RecentAccount(r)' \subseteq RecentAccount(r)
  PROVE  /\ Cardinality(RecentAddress(r)') <= Cardinality(RecentAddress(r))
         /\ Cardinality(RecentAccount(r)') <= Cardinality(RecentAccount(r))
         /\ Cardinality(RecentAddress(r)') \in Nat /\ Cardinality(RecentAddress(r)) \in Nat
         /\ Cardinality(RecentAccount(r)') \in Nat /\ Cardinality(RecentAccount(r)) \in Nat
         /\ AddressLimit(r)' = AddressLimit(r)
<1>1. RecentAddress(r) \subseteq Requests /\ RecentAccount(r) \subseteq Requests
  BY DEF RecentAddress, RecentAccount
<1>2. AddressLimit(r)' = AddressLimit(r)
  BY DEF AddressLimit, SameKeys
<1> QED
  BY <1>1, <1>2, FiniteRequests, NoMore

\* In a step that admits nobody, a request with the same keys sees no more.
LEMMA CalmSees ==
  ASSUME Calm, NEW r \in Requests, SameKeys(r)
  PROVE  /\ RecentAddress(r)' \subseteq RecentAddress(r)
         /\ RecentAccount(r)' \subseteq RecentAccount(r)
BY DEF Calm, RecentAddress, RecentAccount, SameKeys, Admitted

\* Whoever sees no more and has not moved has the room it had.
LEMMA SameRoom ==
  ASSUME TypeOK, NEW r \in Requests, SameKeys(r), RoomFor(r), req'[r].pc = req[r].pc,
         RecentAddress(r)' \subseteq RecentAddress(r),
         RecentAccount(r)' \subseteq RecentAccount(r)
  PROVE  RoomFor(r)'
BY CalmRecent, Numbers DEF RoomFor, SameKeys

\* The table shows a request that waits everything recent (reserve,
\* pruneBefore): what was pruned is too old for it.
LEMMA CountsSeeRecent ==
  ASSUME TypeOK, Fresh, Kept, NEW r \in Requests, req[r].pc \in Waiting
  PROVE  /\ Cardinality(RecentAddress(r)) <= AddressCount(r)
         /\ req[r].email # NULL => Cardinality(RecentAccount(r)) <= AccountCount(r)
         /\ AddressCount(r) \in Nat /\ AccountCount(r) \in Nat
         /\ Cardinality(RecentAddress(r)) \in Nat /\ Cardinality(RecentAccount(r)) \in Nat
<1> DEFINE A == {q \in addressRows : /\ req[q].scope = req[r].scope /\ req[q].ip = req[r].ip
                                     /\ req[q].at + WINDOW >= req[r].at}
           E == {q \in accountRows : /\ req[q].email = req[r].email
                                     /\ req[q].at + WINDOW >= req[r].at}
<1>1. now <= req[r].at + DELAY
  BY DEF Fresh
<1>2. \A q \in Requests : req[q].at + WINDOW >= req[r].at => ~Expired(q)
  BY <1>1, Numbers DEF Expired
<1>3. RecentAddress(r) \subseteq A
  BY <1>2 DEF RecentAddress, Kept
<1>4. req[r].email # NULL => RecentAccount(r) \subseteq E
  BY <1>2 DEF RecentAccount, Kept
<1>5. A \subseteq Requests /\ E \subseteq Requests
      /\ RecentAddress(r) \subseteq Requests /\ RecentAccount(r) \subseteq Requests
  BY DEF TypeOK, RecentAddress, RecentAccount
<1>6. AddressCount(r) = Cardinality(A) /\ AccountCount(r) = Cardinality(E)
  BY DEF AddressCount, AccountCount
<1> HIDE DEF A, E
<1> QED
  BY <1>3, <1>4, <1>5, <1>6, FiniteRequests, NoMore

\* The insert takes a place that was free when it was counted.
LEMMA RecordLimits ==
  ASSUME IInv, NEW x \in Requests, Record(x)
  PROVE  Room' /\ AddressWithinLimit' /\ AccountWithinLimit'
<1>0. TypeOK /\ Fresh /\ Kept /\ Alone /\ Room /\ AddressWithinLimit /\ AccountWithinLimit
  BY DEF IInv
<1>1. /\ req[x].pc = "insert" /\ req'[x].pc = "verifying" /\ ~req[x].cleared
      /\ \A q \in Requests : /\ SameKeys(q) /\ req'[q].cleared = req[q].cleared
                              /\ req'[q].pc = IF q = x THEN "verifying" ELSE req[q].pc
  BY <1>0, GotoFacts DEF Record, Fresh, Admitted
<1>2. Room'
  <2>1. ASSUME NEW r \in Requests, req'[r].pc \in Counting PROVE RoomFor(r)'
    <3>1. r # x /\ SameKeys(r) /\ req'[r].pc = req[r].pc
      BY <1>1, <2>1 DEF Counting
    <3>2. /\ req[x].scope # req[r].scope \/ req[x].ip # req[r].ip
          /\ req[r].email # NULL => req[x].email # req[r].email
      BY <1>0, <1>1, <2>1, <3>1 DEF Alone, Counting
    <3>3. RecentAddress(r)' \subseteq RecentAddress(r)
      BY <1>1, <3>2 DEF RecentAddress, SameKeys, Admitted
    <3>4. CASE req[r].email # NULL
      <4>1. RecentAccount(r)' \subseteq RecentAccount(r)
        BY <1>1, <3>2, <3>4 DEF RecentAccount, SameKeys, Admitted
      <4> QED
        BY <1>0, <3>1, <3>3, <4>1, SameRoom DEF Room
    <3>5. CASE req[r].email = NULL
      <4>1. RecentAddress(r) \subseteq Requests
        BY DEF RecentAddress
      <4>2. Cardinality(RecentAddress(r)') <= Cardinality(RecentAddress(r))
            /\ Cardinality(RecentAddress(r)') \in Nat /\ Cardinality(RecentAddress(r)) \in Nat
        BY <3>3, <4>1, FiniteRequests, NoMore
      <4>3. AddressLimit(r)' = AddressLimit(r) /\ req'[r].email = NULL
        BY <3>1, <3>5 DEF AddressLimit, SameKeys
      <4> QED
        BY <1>0, <2>1, <3>1, <4>2, <4>3, Numbers DEF Room, RoomFor
    <3> QED
      BY <3>4, <3>5
  <2>2. ASSUME NEW r \in Requests, req'[r].pc \notin Counting PROVE RoomFor(r)'
    BY <2>2 DEF RoomFor, Counting
  <2> QED
    BY <2>1, <2>2 DEF Room
<1>3. ASSUME NEW ip \in Ips, NEW at \in 0 .. MAX_TIME, NEW scope \in Scopes, NEW n \in Nat,
             n = IF scope = "ip" THEN MAX_PER_IP ELSE MAX_REGISTRATIONS,
             Cardinality(InWindow(AdmittedFrom(scope, ip), at)) <= n
      PROVE  Cardinality(InWindow(AdmittedFrom(scope, ip), at)') <= n
  <2> DEFINE Before == InWindow(AdmittedFrom(scope, ip), at)
             After == InWindow(AdmittedFrom(scope, ip), at)'
  <2>1. After \subseteq Before \cup {x} /\ Before \subseteq Requests
    BY <1>1 DEF InWindow, AdmittedFrom, SameKeys, Admitted
  <2>2. CASE x \notin After
    <3>1. After \subseteq Before
      BY <2>1, <2>2
    <3> QED
      BY <1>3, <2>1, <3>1, FiniteRequests, NoMore
  <2>3. CASE x \in After
    <3>1. req[x].scope = scope /\ req[x].ip = ip /\ req[x].at \in at .. at + WINDOW
      BY <1>1, <2>3 DEF InWindow, AdmittedFrom, SameKeys
    <3>2. Before \subseteq RecentAddress(x)
      BY <1>0, <3>1, Numbers DEF InWindow, AdmittedFrom, RecentAddress
    <3>3. Cardinality(RecentAddress(x)) < n
      BY <1>0, <1>1, <1>3, <3>1 DEF Room, RoomFor, Counting, AddressLimit
    <3>4. RecentAddress(x) \subseteq Requests
      BY DEF RecentAddress
    <3>5. After \subseteq RecentAddress(x) \cup {x}
      BY <2>1, <3>2
    <3> QED
      BY <3>3, <3>4, <3>5, FiniteRequests, OneMore
  <2> QED
    BY <2>2, <2>3
<1>4. ASSUME NEW e \in Emails, NEW at \in 0 .. MAX_TIME
      PROVE  Cardinality(InWindow(AdmittedOn(e), at)') <= MAX_FAILURES
  <2> DEFINE Before == InWindow(AdmittedOn(e), at)
             After == InWindow(AdmittedOn(e), at)'
  <2>1. After \subseteq Before \cup {x} /\ Before \subseteq Requests
    BY <1>1 DEF InWindow, AdmittedOn, SameKeys, Admitted
  <2>2. CASE x \notin After
    <3>1. After \subseteq Before
      BY <2>1, <2>2
    <3>2. Cardinality(Before) <= MAX_FAILURES
      BY <1>0 DEF AccountWithinLimit
    <3> QED
      BY <1>0, <2>1, <3>1, <3>2, FiniteRequests, NoMore, Numbers
  <2>3. CASE x \in After
    <3>1. req[x].email = e /\ req[x].at \in at .. at + WINDOW
      BY <1>1, <2>3 DEF InWindow, AdmittedOn, SameKeys
    <3>2. Before \subseteq RecentAccount(x)
      BY <1>0, <3>1, Numbers DEF InWindow, AdmittedOn, RecentAccount
    <3>3. e # NULL
      BY AttemptsAssumption DEF AttemptsAssumption
    <3>4. Cardinality(RecentAccount(x)) < MAX_FAILURES
      BY <1>0, <1>1, <3>1, <3>3 DEF Room, RoomFor
    <3>5. RecentAccount(x) \subseteq Requests
      BY DEF RecentAccount
    <3>6. After \subseteq RecentAccount(x) \cup {x}
      BY <2>1, <3>2
    <3> QED
      BY <1>0, <3>4, <3>5, <3>6, FiniteRequests, OneMore, Numbers
  <2> QED
    BY <2>2, <2>3
<1>5. AddressWithinLimit'
  BY <1>0, <1>3, Numbers DEF AddressWithinLimit, Scopes
<1>6. AccountWithinLimit'
  BY <1>4 DEF AccountWithinLimit
<1> QED
  BY <1>2, <1>5, <1>6

\* Every step keeps room and limits: a request that is admitted had room
\* when it counted, and nobody with its keys has been admitted since.
LEMMA StepLimits ==
  IInv /\ TypeOK' /\ [Next]_vars => Room' /\ AddressWithinLimit' /\ AccountWithinLimit'
<1> SUFFICES ASSUME IInv, TypeOK', [Next]_vars
             PROVE  Room' /\ AddressWithinLimit' /\ AccountWithinLimit'
  OBVIOUS
<1>0. TypeOK /\ Fresh /\ Kept /\ Alone /\ Room /\ AddressWithinLimit /\ AccountWithinLimit
  BY DEF IInv
<1>1. ASSUME Calm, \A r \in Requests : req'[r].pc \in Counting
                                        => SameKeys(r) /\ req'[r].pc = req[r].pc
      PROVE  Room' /\ AddressWithinLimit' /\ AccountWithinLimit'
  <2>1. ASSUME NEW r \in Requests, req'[r].pc \in Counting PROVE RoomFor(r)'
    <3>1. SameKeys(r) /\ req'[r].pc = req[r].pc
      BY <1>1, <2>1
    <3>2. RoomFor(r)
      BY <1>0 DEF Room
    <3> QED
      BY <1>0, <1>1, <3>1, <3>2, CalmSees, SameRoom
  <2>2. ASSUME NEW r \in Requests, req'[r].pc \notin Counting PROVE RoomFor(r)'
    BY <2>2 DEF RoomFor, Counting
  <2> QED
    BY <1>0, <1>1, <2>1, <2>2, CalmLimits DEF Room
<1>2. ASSUME NEW r \in Requests, NEW scope \in Scopes, NEW ip \in Ips,
             NEW email \in Emails \cup {NULL}, Arrive(r, scope, ip, email)
      PROVE  Room' /\ AddressWithinLimit' /\ AccountWithinLimit'
  <2>1. (\A q \in Requests \ {r} : req'[q] = req[q]) /\ req'[r].pc = "arrived"
    BY <1>0, <1>2 DEF Arrive, TypeOK
  <2> QED
    BY <1>1, <2>1 DEF Calm, SameKeys, Admitted, Counting
<1>3. ASSUME NEW r \in Requests, Refuse(r)
      PROVE  Room' /\ AddressWithinLimit' /\ AccountWithinLimit'
  BY <1>0, <1>1, <1>3, RefuseFacts DEF Calm, SameKeys, Admitted, Counting
<1>4. ASSUME NEW r \in Requests, NEW pc \in Counting, Goto(r, pc), RoomFor(r)'
      PROVE  Room' /\ AddressWithinLimit' /\ AccountWithinLimit'
  <2>1. \A q \in Requests : /\ SameKeys(q) /\ req'[q].cleared = req[q].cleared
                            /\ req'[q].pc = IF q = r THEN pc ELSE req[q].pc
    BY <1>0, <1>4, GotoFacts DEF Counting
  <2>2. Calm
    BY <2>1 DEF Calm, Admitted, Counting
  <2>3. ASSUME NEW q \in Requests \ {r} PROVE RoomFor(q)'
    <3>1. SameKeys(q) /\ req'[q].pc = req[q].pc
      BY <2>1
    <3> QED
      BY <1>0, <2>2, <3>1, CalmSees, SameRoom DEF Room
  <2> QED
    BY <1>0, <1>4, <2>2, <2>3, CalmLimits DEF Room
<1>5. ASSUME NEW r \in Requests, CountAddress(r)
      PROVE  Room' /\ AddressWithinLimit' /\ AccountWithinLimit'
  <2>1. CASE Refuse(r)
    BY <1>3, <2>1
  <2>2. CASE AddressCount(r) < AddressLimit(r)
             /\ Goto(r, IF req[r].email = NULL THEN "insert" ELSE "countAccount")
    <3> DEFINE pc == IF req[r].email = NULL THEN "insert" ELSE "countAccount"
    <3>1. \A q \in Requests : /\ SameKeys(q) /\ req'[q].cleared = req[q].cleared
                              /\ req'[q].pc = IF q = r THEN pc ELSE req[q].pc
      BY <1>0, <2>2, GotoFacts
    <3>2. Calm
      BY <3>1 DEF Calm, Admitted
    <3>3. Cardinality(RecentAddress(r)) < AddressLimit(r)
          /\ Cardinality(RecentAddress(r)) \in Nat
      BY <1>0, <1>5, <2>2, CountsSeeRecent, Numbers DEF CountAddress, Waiting
    <3>4. Cardinality(RecentAddress(r)') < AddressLimit(r)'
      BY <1>0, <3>1, <3>2, <3>3, CalmSees, CalmRecent, Numbers
    <3>5. RoomFor(r)'
      BY <3>1, <3>4 DEF RoomFor, SameKeys
    <3> QED
      BY <1>4, <2>2, <3>5 DEF Counting
  <2> QED
    BY <1>0, <1>5, <2>1, <2>2, CountsSeeRecent, Numbers DEF CountAddress, Waiting
<1>6. ASSUME NEW r \in Requests, CountAccount(r)
      PROVE  Room' /\ AddressWithinLimit' /\ AccountWithinLimit'
  <2>1. CASE Refuse(r)
    BY <1>3, <2>1
  <2>2. CASE AccountCount(r) < MAX_FAILURES /\ Goto(r, "insert")
    <3>1. \A q \in Requests : /\ SameKeys(q) /\ req'[q].cleared = req[q].cleared
                              /\ req'[q].pc = IF q = r THEN "insert" ELSE req[q].pc
      BY <1>0, <2>2, GotoFacts
    <3>2. Calm
      BY <3>1 DEF Calm, Admitted
    <3>3. req[r].pc = "countAccount"
      BY <1>6 DEF CountAccount
    <3>4. req[r].email # NULL
            => Cardinality(RecentAccount(r)) < MAX_FAILURES /\ Cardinality(RecentAccount(r)) \in Nat
      BY <1>0, <2>2, <3>3, CountsSeeRecent, Numbers DEF Waiting
    <3>5. Cardinality(RecentAddress(r)) < AddressLimit(r)
      BY <1>0, <3>3 DEF Room, RoomFor, Counting
    <3>6. RoomFor(r)'
      BY <1>0, <3>1, <3>2, <3>4, <3>5, CalmSees, CalmRecent, Numbers DEF RoomFor, SameKeys
    <3> QED
      BY <1>4, <2>2, <3>6 DEF Counting
  <2> QED
    BY <1>0, <1>6, <2>1, <2>2, CountsSeeRecent, Numbers DEF CountAccount, Waiting
<1>7. ASSUME NEW r \in Requests, Record(r)
      PROVE  Room' /\ AddressWithinLimit' /\ AccountWithinLimit'
  BY <1>0, <1>7, RecordLimits
<1>8. ASSUME NEW r \in Requests, Fails(r)
      PROVE  Room' /\ AddressWithinLimit' /\ AccountWithinLimit'
  BY <1>0, <1>1, <1>8, GotoFacts DEF Fails, Calm, Admitted, Counting
<1>9. ASSUME NEW r \in Requests, Succeeds(r)
      PROVE  Room' /\ AddressWithinLimit' /\ AccountWithinLimit'
  <2>1. \A q \in Requests : /\ SameKeys(q)
                            /\ ~req'[q].cleared => ~req[q].cleared
                            /\ req'[q].pc = IF q = r THEN "done" ELSE req[q].pc
    BY <1>0, <1>9, SucceedsFacts
  <2>2. req[r].pc = "verifying"
    BY <1>9 DEF Succeeds
  <2> QED
    BY <1>1, <2>1, <2>2 DEF Calm, Admitted, Counting
<1>10. CASE Prune \/ Pass \/ UNCHANGED vars
  BY <1>1, <1>10 DEF Prune, Pass, vars, Calm, SameKeys
<1> QED
  BY <1>2, <1>5, <1>6, <1>7, <1>8, <1>9, <1>10 DEF Next, AllServed

\* The limits hold at first.
LEMMA InitLimits == Init => Room /\ AddressWithinLimit /\ AccountWithinLimit
<1> SUFFICES ASSUME Init PROVE Room /\ AddressWithinLimit /\ AccountWithinLimit
  OBVIOUS
<1>1. TypeOK /\ \A r \in Requests : req[r].pc = "idle"
  BY InitType DEF Init, Idle
<1>2. Room
  BY <1>1 DEF Room, RoomFor, Counting
<1>3. AddressWithinLimit
  <2>1. ASSUME NEW scope, NEW ip, NEW at PROVE InWindow(AdmittedFrom(scope, ip), at) = {}
    BY <1>1 DEF InWindow, AdmittedFrom, Admitted
  <2> QED
    BY <1>1, <2>1, Numbers, FS_EmptySet DEF AddressWithinLimit
<1>4. AccountWithinLimit
  <2>1. ASSUME NEW e, NEW at PROVE InWindow(AdmittedOn(e), at) = {}
    BY <1>1 DEF InWindow, AdmittedOn, Admitted
  <2> QED
    BY <1>1, <2>1, Numbers, FS_EmptySet DEF AccountWithinLimit
<1> QED
  BY <1>2, <1>3, <1>4

\* The invariant holds at first, and every step keeps it.
LEMMA LimitsInvariant == Spec => []IInv
<1>1. Init => IInv
  BY InitType, InitPlaces, InitLimits DEF IInv
<1>2. IInv /\ [Next]_vars => IInv'
  BY StepType, StepPlaces, StepLimits DEF IInv
<1> QED
  BY <1>1, <1>2, PTL DEF Spec

\* Whatever the number of requests, addresses and accounts, the budgets and
\* the window, and however requests overlap, are delayed, and meet successes
\* and the sweep, no window holds more admitted attempts than a limit
\* (reserve, markSucceeded, pruneBefore).
THEOREM LimitsHold == Spec => []WithinLimits
<1>1. IInv => WithinLimits
  BY DEF IInv, WithinLimits
<1> QED
  BY <1>1, LimitsInvariant, PTL

=============================================================================
