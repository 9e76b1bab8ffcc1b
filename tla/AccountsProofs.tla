---------------------------- MODULE AccountsProofs ----------------------------
(***************************************************************************)
(* Theorems about accounts, sessions and identities, for any accounts,      *)
(* provider accounts, flows, requests and sessions.                         *)
(***************************************************************************)
EXTENDS Accounts, FiniteSetTheorems, TLAPS

--------------------------------------------------------------------------------
(* The invariant. What a request holds at each of its steps.                *)

\* It acts for an account, has a provider account at hand, an address, a flow,
\* a session of the account.
ForUser == {"issue", "insert", "surplus", "revoke", "linkLock", "linkOwner", "linkInsert",
            "linkIssue", "unlinkLock", "unlinkDelete", "logout", "logoutAll", "change"}
SigningUp == {"signupLock", "lookup", "create", "attach", "winner"}
WithIdentity == SigningUp \cup {"findOwner", "linkLock", "linkOwner", "linkInsert", "linkIssue",
                                "unlinkDelete"}
Linking == {"linkOwner", "linkInsert", "linkIssue"}

Shaped ==
  \A r \in Requests :
    /\ req[r].pc \in ForUser => req[r].user \in Addresses
    /\ req[r].pc \in WithIdentity => req[r].identity \in Identities
    /\ req[r].pc \in SigningUp => req[r].address \in Addresses
    /\ req[r].pc = "provider" => req[r].flow \in Flows
    /\ req[r].pc \in Linking \cup {"logout"} => req[r].session \in SessionIds

\* It ends sessions for the reason op says, by default for being too many.
Ending == {"revoke", "logoutAll", "change"}
OpsMatch ==
  \A r \in Requests : /\ req[r].pc \notin Ending => req[r].op = "surplus"
                      /\ req[r].pc = "logoutAll" => req[r].op = "logoutAll"
                      /\ req[r].pc = "change" => req[r].op = "change"

\* Password changes in progress.
Changing(a) == {r \in Requests : /\ req[r].pc \in {"change", "revoke"}
                                  /\ req[r].op = "change" /\ req[r].user = a}

\* A password has been replaced once for each change that is over.
PasswordsCounted ==
  \A a \in Addresses :
    /\ ~users[a].exists => users[a].password = 0 /\ Changing(a) = {}
    /\ users[a].password + Cardinality(Changing(a))
         <= spent.changes + (IF users[a].exists THEN 1 ELSE 0)

TypeInv == TypeOK /\ Shaped /\ OpsMatch /\ PasswordsCounted

\* Whoever holds the row of an account holds it alone; so does whoever signs
\* an address up.
RowsExclusive ==
  \A q, r \in Requests : q # r /\ HoldsUser(q) /\ HoldsUser(r) => req[q].user # req[r].user

SigningUpLocked == {"lookup", "create", "attach"}
SignupsExclusive ==
  \A q, r \in Requests :
    q # r /\ req[q].pc \in SigningUpLocked /\ req[r].pc \in SigningUpLocked
      => req[q].address # req[r].address

\* An unlink about to delete leaves another credential.
UnlinkLeavesOne ==
  \A r \in Requests, a \in Addresses : req[r].pc = "unlinkDelete" /\ req[r].user = a =>
    identities[req[r].identity] = a /\ Credentials(a) >= 2

\* A flow is gone once a request has it, and has one taker.
Redeems(s, f) == \/ sessions[s].flow = f
                 \/ s \in Requests /\ req[s].flow = f
FlowsTakenOnce ==
  \A f \in Flows : \A s \in SessionIds : Redeems(s, f) =>
    /\ authorizations[f].state = "gone"
    /\ \A t \in SessionIds : Redeems(t, f) => s = t

CredentialInv == TypeInv /\ RowsExclusive /\ UnlinkLeavesOne /\ CredentialKept
                 /\ FlowsTakenOnce

\* The account that a provider account created is the one it is linked to.
BornLinked ==
  \A a \in Addresses : born[a] # NULL => identities[born[a]] = a
NotBornYet ==
  \A r \in Requests : req[r].pc \in SigningUpLocked => born[req[r].address] # req[r].identity

BornInv == SignupsExclusive /\ BornLinked /\ NotBornYet

\* A request that has not issued its session has no row.
Over == {"surplus", "revoke", "done", "lost"}
RowsFresh == \A r \in Requests : req[r].pc \notin Over => sessions[r] = NoSession

\* A link in progress keeps the session it came from.
LinksHold ==
  \A r \in Requests : req[r].pc \in Linking => req[r].session \in Active(req[r].user)

VictimsOwn ==
  \A r \in Requests : req[r].pc = "revoke" =>
    \A s \in req[r].victims : sessions[s].user = req[r].user

ViasOwn ==
  \A s \in SessionIds : sessions[s].via # NULL =>
    sessions[sessions[s].via].user = sessions[s].user

\* Logging out everywhere takes what was linked from its victims with them.
VictimsClosed ==
  \A r \in Requests : req[r].pc = "revoke" /\ req[r].op = "logoutAll" =>
    \A s \in SessionIds : /\ sessions[s].state = "active"
                          /\ sessions[s].via \in req[r].victims
                          => s \in req[r].victims

SessionInv == RowsFresh /\ LinksHold /\ VictimsOwn /\ ViasOwn /\ VictimsClosed
              /\ LinkedSessionRevoked

\* Sessions have issued_at, and no two the same.
StampsDistinct ==
  \A s, t \in SessionIds : issuedAt[s] = issuedAt[t] /\ issuedAt[s] # 0 => s = t
ActiveStamped ==
  /\ \A s \in SessionIds : sessions[s].state = "active" => issuedAt[s] # 0
  /\ \A r \in Requests : req[r].pc \in Linking \cup {"linkLock", "insert"} => issuedAt[r] # 0

\* Requests about to revoke a surplus, and what any of them together leave.
Revoking(u) == {r \in Requests : /\ req[r].pc = "revoke" /\ req[r].op = "surplus"
                                  /\ req[r].user = u}
Victims(S) == UNION {req[r].victims : r \in S}
CapsReached ==
  \A u \in Addresses : \A S \in SUBSET Revoking(u) :
    Cardinality(Active(u) \ Victims(S))
      <= MAX_SESSIONS + Cardinality(Issuing(u) \ S) + spent.faults

CapInv == StampsDistinct /\ ActiveStamped /\ CapsReached

IInv == CredentialInv /\ BornInv /\ SessionInv /\ CapInv

--------------------------------------------------------------------------------
(* What is used of the constants, and the records of requests.              *)

LEMMA Constants ==
  /\ NULL \notin Addresses /\ NULL \notin Identities /\ NULL \notin SessionIds /\ NULL \notin Flows
  /\ IsFiniteSet(Identities) /\ IsFiniteSet(Requests) /\ IsFiniteSet(SessionIds) /\ IsFiniteSet(Flows)
  /\ MAX_CHANGES \in Nat /\ MAX_FAULTS \in Nat /\ MAX_SESSIONS \in Nat /\ Home \in Addresses
  /\ \A r \in Requests : r \in SessionIds
BY AccountsAssumption, FS_Union DEF SessionIds

\* A step of request r.
Step(r) == Begin(r) \/ SessionStep(r) \/ IdentityStep(r) \/ LinkStep(r) \/ Die(r)

LEMMA AtTyped ==
  ASSUME NEW pc \in Stages
  PROVE  At(pc) \in Request
<1>1. IsFiniteSet(Flows)
  BY Constants
<1>2. Cardinality(Flows) \in Nat
  BY <1>1, FS_CardinalityType
<1> QED BY <1>2 DEF At, Request

LEMMA FieldsTyped ==
  ASSUME NEW q \in Request
  PROVE  /\ \A pc \in Stages : [q EXCEPT !.pc = pc] \in Request
         /\ \A u \in Addresses \cup {NULL} : [q EXCEPT !.user = u] \in Request
         /\ \A s \in SessionIds \cup {NULL} : [q EXCEPT !.session = s] \in Request
         /\ \A i \in Identities \cup {NULL} : [q EXCEPT !.identity = i] \in Request
         /\ \A e \in Addresses \cup {NULL} : [q EXCEPT !.address = e] \in Request
         /\ \A f \in Flows \cup {NULL} : [q EXCEPT !.flow = f] \in Request
         /\ \A v \in SUBSET SessionIds : [q EXCEPT !.victims = v] \in Request
         /\ \A op \in {"surplus", "logoutAll", "change"} : [q EXCEPT !.op = op] \in Request
         /\ \A n \in 0 .. Cardinality(Flows) : [q EXCEPT !.now = n] \in Request
BY DEF Request

--------------------------------------------------------------------------------
(* Which steps change which tables.                                         *)

LEMMA NextSteps ==
  [Next]_vars => \/ UNCHANGED vars \/ Sweep \/ AllServed
                 \/ \E a \in Addresses : Register(a)
                 \/ \E f \in Flows : StartFlow(f)
                 \/ \E r \in Requests : \/ Begin(r) \/ SessionStep(r) \/ IdentityStep(r)
                                        \/ LinkStep(r) \/ Die(r)
BY DEF Next

LEMMA ReqFrame ==
  [Next]_vars => UNCHANGED req \/ \E r \in Requests : Step(r)
BY DEF Next, vars, Register, StartFlow, Sweep, AllServed, Step

LEMMA UsersFrame ==
  [Next]_vars => \/ UNCHANGED users
                 \/ \E a \in Addresses : Register(a)
                 \/ \E r \in Requests : RevokeVictims(r) \/ AttachIdentity(r)
<1>1. ASSUME NEW r \in Requests, Begin(r) \/ SessionStep(r)
      PROVE  UNCHANGED users \/ RevokeVictims(r)
  BY <1>1 DEF Begin, SessionStep, Login, Guarded, ChangeRequested, Consume, InsertWaits,
              IssueSession,
              FindSurplus, Logout, LogoutAll, ChangePassword
<1>2. ASSUME NEW r \in Requests, IdentityStep(r)
      PROVE  UNCHANGED users \/ AttachIdentity(r)
  BY <1>2 DEF IdentityStep, UnlinkChecks, UnlinkDeletes, ProviderAnswers, ProviderFails,
              FindOwner, ReadUnderLock, LookupAddress, CreateAccount, ResolveWinner
<1>3. ASSUME NEW r \in Requests, LinkStep(r)
      PROVE  UNCHANGED users
  BY <1>3 DEF LinkStep, LinkLocks, LinkReadsOwner, LinkInserts, LinkIssues
<1>4. ASSUME NEW r \in Requests, Die(r)
      PROVE  UNCHANGED users
  BY <1>4 DEF Die
<1>5. CASE UNCHANGED vars \/ Sweep \/ AllServed
  BY <1>5 DEF vars, Sweep, AllServed
<1>6. ASSUME NEW f \in Flows, StartFlow(f)
      PROVE  UNCHANGED users
  BY <1>6 DEF StartFlow
<1> QED BY <1>1, <1>2, <1>3, <1>4, <1>5, <1>6, NextSteps

LEMMA IdentitiesFrame ==
  [Next]_vars => \/ UNCHANGED identities
                 \/ \E r \in Requests : UnlinkDeletes(r) \/ AttachIdentity(r) \/ LinkInserts(r)
<1>1. ASSUME NEW r \in Requests, Begin(r) \/ SessionStep(r)
      PROVE  UNCHANGED identities
  BY <1>1 DEF Begin, SessionStep, Login, Guarded, ChangeRequested, Consume, InsertWaits,
              IssueSession,
              FindSurplus, RevokeVictims, Logout, LogoutAll, ChangePassword
<1>2. ASSUME NEW r \in Requests, IdentityStep(r)
      PROVE  UNCHANGED identities \/ UnlinkDeletes(r) \/ AttachIdentity(r)
  BY <1>2 DEF IdentityStep, UnlinkChecks, ProviderAnswers, ProviderFails, FindOwner,
              ReadUnderLock, LookupAddress, CreateAccount, ResolveWinner
<1>3. ASSUME NEW r \in Requests, LinkStep(r)
      PROVE  UNCHANGED identities \/ LinkInserts(r)
  BY <1>3 DEF LinkStep, LinkLocks, LinkReadsOwner, LinkIssues
<1>4. ASSUME NEW r \in Requests, Die(r)
      PROVE  UNCHANGED identities
  BY <1>4 DEF Die
<1>5. CASE UNCHANGED vars \/ Sweep \/ AllServed
  BY <1>5 DEF vars, Sweep, AllServed
<1>6. ASSUME NEW a \in Addresses, Register(a)
      PROVE  UNCHANGED identities
  BY <1>6 DEF Register
<1>7. ASSUME NEW f \in Flows, StartFlow(f)
      PROVE  UNCHANGED identities
  BY <1>7 DEF StartFlow
<1> QED BY <1>1, <1>2, <1>3, <1>4, <1>5, <1>6, <1>7, NextSteps

LEMMA LastLoginFrame ==
  [Next]_vars => \/ UNCHANGED lastLogin
                 \/ \E r \in Requests : \/ AttachIdentity(r) \/ LinkInserts(r)
                                        \/ FindOwner(r) \/ ReadUnderLock(r) \/ ResolveWinner(r)
<1>1. ASSUME NEW r \in Requests, Begin(r) \/ SessionStep(r)
      PROVE  UNCHANGED lastLogin
  BY <1>1 DEF Begin, SessionStep, Login, Guarded, ChangeRequested, Consume, InsertWaits,
              IssueSession,
              FindSurplus, RevokeVictims, Logout, LogoutAll, ChangePassword
<1>2. ASSUME NEW r \in Requests, IdentityStep(r)
      PROVE  UNCHANGED lastLogin \/ AttachIdentity(r) \/ FindOwner(r) \/ ReadUnderLock(r) \/ ResolveWinner(r)
  BY <1>2 DEF IdentityStep, UnlinkChecks, UnlinkDeletes, ProviderAnswers, ProviderFails,
              LookupAddress, CreateAccount
<1>3. ASSUME NEW r \in Requests, LinkStep(r)
      PROVE  UNCHANGED lastLogin \/ LinkInserts(r)
  BY <1>3 DEF LinkStep, LinkLocks, LinkReadsOwner, LinkIssues
<1>4. ASSUME NEW r \in Requests, Die(r)
      PROVE  UNCHANGED lastLogin
  BY <1>4 DEF Die
<1>5. CASE UNCHANGED vars \/ Sweep \/ AllServed
  BY <1>5 DEF vars, Sweep, AllServed
<1>6. ASSUME NEW a \in Addresses, Register(a)
      PROVE  UNCHANGED lastLogin
  BY <1>6 DEF Register
<1>7. ASSUME NEW f \in Flows, StartFlow(f)
      PROVE  UNCHANGED lastLogin
  BY <1>7 DEF StartFlow
<1> QED BY <1>1, <1>2, <1>3, <1>4, <1>5, <1>6, <1>7, NextSteps

LEMMA BornFrame ==
  [Next]_vars => UNCHANGED born \/ \E r \in Requests : UnlinkDeletes(r) \/ AttachIdentity(r)
<1>1. ASSUME NEW r \in Requests, Begin(r) \/ SessionStep(r)
      PROVE  UNCHANGED born
  BY <1>1 DEF Begin, SessionStep, Login, Guarded, ChangeRequested, Consume, InsertWaits,
              IssueSession,
              FindSurplus, RevokeVictims, Logout, LogoutAll, ChangePassword
<1>2. ASSUME NEW r \in Requests, IdentityStep(r)
      PROVE  UNCHANGED born \/ UnlinkDeletes(r) \/ AttachIdentity(r)
  BY <1>2 DEF IdentityStep, UnlinkChecks, ProviderAnswers, ProviderFails, FindOwner,
              ReadUnderLock, LookupAddress, CreateAccount, ResolveWinner
<1>3. ASSUME NEW r \in Requests, LinkStep(r)
      PROVE  UNCHANGED born
  BY <1>3 DEF LinkStep, LinkLocks, LinkReadsOwner, LinkInserts, LinkIssues
<1>4. ASSUME NEW r \in Requests, Die(r)
      PROVE  UNCHANGED born
  BY <1>4 DEF Die
<1>5. CASE UNCHANGED vars \/ Sweep \/ AllServed
  BY <1>5 DEF vars, Sweep, AllServed
<1>6. ASSUME NEW a \in Addresses, Register(a)
      PROVE  UNCHANGED born
  BY <1>6 DEF Register
<1>7. ASSUME NEW f \in Flows, StartFlow(f)
      PROVE  UNCHANGED born
  BY <1>7 DEF StartFlow
<1> QED BY <1>1, <1>2, <1>3, <1>4, <1>5, <1>6, <1>7, NextSteps

LEMMA SessionsFrame ==
  [Next]_vars => \/ UNCHANGED sessions
                 \/ \E r \in Requests : \/ IssueSession(r) \/ RevokeVictims(r) \/ Logout(r)
                                        \/ LinkInserts(r) \/ LinkIssues(r)
<1>1. ASSUME NEW r \in Requests, Begin(r) \/ SessionStep(r)
      PROVE  UNCHANGED sessions \/ IssueSession(r) \/ RevokeVictims(r) \/ Logout(r)
  BY <1>1 DEF Begin, SessionStep, Login, Guarded, ChangeRequested, Consume, InsertWaits,
              FindSurplus, LogoutAll, ChangePassword
<1>2. ASSUME NEW r \in Requests, IdentityStep(r)
      PROVE  UNCHANGED sessions
  BY <1>2 DEF IdentityStep, UnlinkChecks, UnlinkDeletes, ProviderAnswers, ProviderFails,
              FindOwner, ReadUnderLock, LookupAddress, CreateAccount, AttachIdentity,
              ResolveWinner
<1>3. ASSUME NEW r \in Requests, LinkStep(r)
      PROVE  UNCHANGED sessions \/ LinkInserts(r) \/ LinkIssues(r)
  BY <1>3 DEF LinkStep, LinkLocks, LinkReadsOwner
<1>4. ASSUME NEW r \in Requests, Die(r)
      PROVE  UNCHANGED sessions
  BY <1>4 DEF Die
<1>5. CASE UNCHANGED vars \/ Sweep \/ AllServed
  BY <1>5 DEF vars, Sweep, AllServed
<1>6. ASSUME NEW a \in Addresses, Register(a)
      PROVE  UNCHANGED sessions
  BY <1>6 DEF Register
<1>7. ASSUME NEW f \in Flows, StartFlow(f)
      PROVE  UNCHANGED sessions
  BY <1>7 DEF StartFlow
<1> QED BY <1>1, <1>2, <1>3, <1>4, <1>5, <1>6, <1>7, NextSteps

LEMMA StampsFrame ==
  [Next]_vars =>
    \/ UNCHANGED issuedAt
    \/ \E r \in Requests :
         \/ issuedAt' = Stamped(r) /\ (InsertWaits(r) \/ IssueSession(r) \/ ProviderAnswers(r))
         \/ issuedAt' = Unstamped(r) /\ Refuse(r) /\ LinkStep(r) /\ UNCHANGED sessions
         \/ issuedAt' = Unstamped(r) /\ sessions[r].state = "none" /\ Die(r)
<1>1. ASSUME NEW r \in Requests, Begin(r) \/ SessionStep(r)
      PROVE  UNCHANGED issuedAt \/ (issuedAt' = Stamped(r) /\ (InsertWaits(r) \/ IssueSession(r)))
  BY <1>1 DEF Begin, SessionStep, Login, Guarded, ChangeRequested, Consume, InsertWaits,
              IssueSession,
              FindSurplus, RevokeVictims, Logout, LogoutAll, ChangePassword
<1>2. ASSUME NEW r \in Requests, IdentityStep(r)
      PROVE  UNCHANGED issuedAt \/ (issuedAt' = Stamped(r) /\ ProviderAnswers(r))
  BY <1>2 DEF IdentityStep, UnlinkChecks, UnlinkDeletes, ProviderAnswers, ProviderFails,
              FindOwner, ReadUnderLock, LookupAddress, CreateAccount, AttachIdentity,
              ResolveWinner
<1>3. ASSUME NEW r \in Requests, LinkStep(r)
      PROVE  \/ UNCHANGED issuedAt
             \/ issuedAt' = Unstamped(r) /\ Refuse(r) /\ UNCHANGED sessions
  BY <1>3 DEF LinkStep, LinkLocks, LinkReadsOwner, LinkInserts, LinkIssues, Refuse
<1>4. ASSUME NEW r \in Requests, Die(r)
      PROVE  \/ UNCHANGED issuedAt
             \/ issuedAt' = Unstamped(r) /\ sessions[r].state = "none"
  BY <1>4 DEF Die
<1> QED BY <1>1, <1>2, <1>3, <1>4 DEF Next, vars, Register, StartFlow, Sweep, AllServed

LEMMA FlowsFrame ==
  [Next]_vars => \/ UNCHANGED authorizations \/ Sweep
                 \/ \E f \in Flows : \/ StartFlow(f)
                                     \/ \E r \in Requests, p \in Providers : Consume(r, f, p)
<1>1. ASSUME NEW r \in Requests, Begin(r) \/ SessionStep(r)
      PROVE  UNCHANGED authorizations \/ \E f \in Flows, p \in Providers : Consume(r, f, p)
  BY <1>1 DEF Begin, SessionStep, Login, Guarded, ChangeRequested, InsertWaits, IssueSession,
              FindSurplus, RevokeVictims, Logout, LogoutAll, ChangePassword
<1>2. ASSUME NEW r \in Requests, IdentityStep(r)
      PROVE  UNCHANGED authorizations
  BY <1>2 DEF IdentityStep, UnlinkChecks, UnlinkDeletes, ProviderAnswers, ProviderFails,
              FindOwner, ReadUnderLock, LookupAddress, CreateAccount, AttachIdentity,
              ResolveWinner
<1>3. ASSUME NEW r \in Requests, LinkStep(r)
      PROVE  UNCHANGED authorizations
  BY <1>3 DEF LinkStep, LinkLocks, LinkReadsOwner, LinkInserts, LinkIssues
<1>4. ASSUME NEW r \in Requests, Die(r)
      PROVE  UNCHANGED authorizations
  BY <1>4 DEF Die
<1>5. CASE UNCHANGED vars \/ Sweep \/ AllServed
  BY <1>5 DEF vars, AllServed
<1>6. ASSUME NEW a \in Addresses, Register(a)
      PROVE  UNCHANGED authorizations
  BY <1>6 DEF Register
<1> QED BY <1>1, <1>2, <1>3, <1>4, <1>5, <1>6, NextSteps

LEMMA SpentFrame ==
  [Next]_vars => \/ UNCHANGED spent \/ Sweep
                 \/ \E r \in Requests : Die(r) \/ \E s \in SessionIds : ChangeRequested(r, s)
<1>1. ASSUME NEW r \in Requests, Begin(r) \/ SessionStep(r)
      PROVE  UNCHANGED spent \/ \E s \in SessionIds : ChangeRequested(r, s)
  BY <1>1 DEF Begin, SessionStep, Login, Guarded, Consume, InsertWaits, IssueSession, FindSurplus,
              RevokeVictims, Logout, LogoutAll, ChangePassword
<1>2. ASSUME NEW r \in Requests, IdentityStep(r)
      PROVE  UNCHANGED spent
  BY <1>2 DEF IdentityStep, UnlinkChecks, UnlinkDeletes, ProviderAnswers, ProviderFails,
              FindOwner, ReadUnderLock, LookupAddress, CreateAccount, AttachIdentity,
              ResolveWinner
<1>3. ASSUME NEW r \in Requests, LinkStep(r)
      PROVE  UNCHANGED spent
  BY <1>3 DEF LinkStep, LinkLocks, LinkReadsOwner, LinkInserts, LinkIssues
<1>4. CASE UNCHANGED vars \/ Sweep \/ AllServed
  BY <1>4 DEF vars, AllServed
<1>5. ASSUME NEW a \in Addresses, Register(a)
      PROVE  UNCHANGED spent
  BY <1>5 DEF Register
<1>6. ASSUME NEW f \in Flows, StartFlow(f)
      PROVE  UNCHANGED spent
  BY <1>6 DEF StartFlow
<1> QED BY <1>1, <1>2, <1>3, <1>4, <1>5, <1>6, NextSteps

--------------------------------------------------------------------------------
(* Types, and the shape of requests.                                        *)

\* One request moves, to a state that has its shape.
Fits(q) ==
  /\ q \in Request
  /\ q.pc \in ForUser => q.user \in Addresses
  /\ q.pc \in WithIdentity => q.identity \in Identities
  /\ q.pc \in SigningUp => q.address \in Addresses
  /\ q.pc = "provider" => q.flow \in Flows
  /\ q.pc \in Linking \cup {"logout"} => q.session \in SessionIds

LEMMA ShapedFits == TypeOK /\ Shaped <=> TypeOK /\ \A r \in Requests : Fits(req[r])
BY DEF TypeOK, Shaped, Fits

MovesTo(r, q) == req' = [req EXCEPT ![r] = q]

LEMMA FinishFits ==
  ASSUME NEW r \in Requests, Finish(r)
  PROVE  MovesTo(r, At("done")) /\ Fits(At("done"))
BY AtTyped DEF Finish, MovesTo, Fits, At, ForUser, WithIdentity, SigningUp, Linking, Stages

LEMMA GotoFits ==
  ASSUME NEW r \in Requests, req \in [Requests -> Request], NEW pc \in Stages, Goto(r, pc),
         pc \in ForUser => req[r].user \in Addresses,
         pc \in WithIdentity => req[r].identity \in Identities,
         pc \in SigningUp => req[r].address \in Addresses,
         pc # "provider",
         pc \in Linking \cup {"logout"} => req[r].session \in SessionIds
  PROVE  MovesTo(r, [req[r] EXCEPT !.pc = pc]) /\ Fits([req[r] EXCEPT !.pc = pc])
<1>1. [req[r] EXCEPT !.pc = pc] \in Request
  BY FieldsTyped
<1> QED BY <1>1 DEF Goto, MovesTo, Fits, Request

LEMMA SignedInFits ==
  ASSUME TypeOK, Shaped, NEW r \in Requests, req[r].pc \in SigningUp \cup {"findOwner"},
         identities[req[r].identity] # NULL, SignedIn(r)
  PROVE  \E q : MovesTo(r, q) /\ Fits(q)
<1> DEFINE q == [req[r] EXCEPT !.pc = "issue", !.user = identities[req[r].identity],
                               !.identity = NULL, !.address = NULL, !.now = 0]
<1>1. req[r].identity \in Identities /\ req[r] \in Request
  BY DEF TypeOK, Shaped, WithIdentity
<1>2. identities[req[r].identity] \in Addresses
  BY <1>1 DEF TypeOK
<1>3. 0 \in 0 .. Cardinality(Flows)
  BY Constants, FS_CardinalityType
<1>4. q \in Request
  BY <1>1, <1>2, <1>3, FieldsTyped DEF Stages
<1>5. q.pc = "issue" /\ q.user = identities[req[r].identity]
  BY <1>1 DEF Request
<1>6. Fits(q)
  BY <1>2, <1>4, <1>5 DEF Fits, WithIdentity, SigningUp, Linking
<1>7. MovesTo(r, q)
  BY DEF SignedIn, MovesTo
<1> QED BY <1>6, <1>7

LEMMA BeginFits ==
  ASSUME TypeOK, Shaped, NEW r \in Requests, Begin(r)
  PROVE  \E q : MovesTo(r, q) /\ Fits(q)
<1>1. ASSUME NEW a \in Addresses, Login(r, a)
      PROVE  \E q : MovesTo(r, q) /\ Fits(q)
  <2> DEFINE q == [At("issue") EXCEPT !.user = a]
  <2>1. q \in Request
    BY AtTyped, FieldsTyped DEF Stages
  <2>2. Fits(q)
    BY <2>1 DEF Fits, At, WithIdentity, SigningUp, Linking
  <2> QED BY <1>1, <2>2 DEF Login, MovesTo
<1>2. ASSUME NEW s \in SessionIds, NEW op \in {"surplus", "logoutAll", "change"},
             NEW pc \in {"logout", "logoutAll", "unlinkLock", "change"}, Guarded(r, s, op, pc)
      PROVE  \E q : MovesTo(r, q) /\ Fits(q)
  <2> DEFINE q == [At(pc) EXCEPT !.op = op, !.user = sessions[s].user, !.session = s]
  <2>1. sessions[s].user \in Addresses
    BY <1>2 DEF Guarded, TypeOK, SessionRow, NoSession
  <2>2. At(pc) \in Request
    BY AtTyped DEF Stages
  <2>3. q \in Request
    BY <2>1, <2>2, FieldsTyped
  <2>4. q.pc = pc /\ q.user = sessions[s].user /\ q.session = s
    BY DEF At
  <2>5. Fits(q)
    BY <2>1, <2>3, <2>4 DEF Fits, WithIdentity, SigningUp, Linking
  <2>6. MovesTo(r, q)
    BY <1>2 DEF Guarded, MovesTo
  <2> QED BY <2>5, <2>6
<1>3. ASSUME NEW f \in Flows, NEW p \in Providers, Consume(r, f, p)
      PROVE  \E q : MovesTo(r, q) /\ Fits(q)
  <2>1. PICK s \in Active(authorizations[f].user) \cup {NULL} :
          MovesTo(r, [At("provider") EXCEPT !.flow = f, !.now = Callbacks + 1,
                                            !.user = authorizations[f].user, !.session = s])
    BY <1>3 DEF Consume, MovesTo
  <2> DEFINE q == [At("provider") EXCEPT !.flow = f, !.now = Callbacks + 1,
                                         !.user = authorizations[f].user, !.session = s]
  <2>2. authorizations[f].user \in Addresses \cup {NULL} /\ s \in SessionIds \cup {NULL}
    BY <2>1 DEF TypeOK, Authorization, Active
  <2>3. Callbacks + 1 \in 0 .. Cardinality(Flows)
    <3> DEFINE G == {g \in Flows : authorizations[g].state = "gone"}
    <3>1. f \notin G
      BY <1>3 DEF Consume
    <3>2. IsFiniteSet(Flows) /\ IsFiniteSet(Flows \ {f}) /\ G \in SUBSET (Flows \ {f})
      BY <3>1, Constants, FS_RemoveElement
    <3>3. Cardinality(Flows \ {f}) = Cardinality(Flows) - 1 /\ Cardinality(Flows) \in Nat
      BY <3>2, FS_RemoveElement, FS_CardinalityType
    <3>4. Cardinality(G) <= Cardinality(Flows \ {f}) /\ Cardinality(G) \in Nat
      BY <3>2, FS_Subset, FS_CardinalityType
    <3> QED BY <3>3, <3>4 DEF Callbacks
  <2>4. At("provider") \in Request
    BY AtTyped DEF Stages
  <2>5. q \in Request
    BY <2>2, <2>3, <2>4, FieldsTyped
  <2>6. q.pc = "provider" /\ q.flow = f
    BY DEF At
  <2>7. Fits(q)
    BY <2>5, <2>6 DEF Fits, ForUser, WithIdentity, SigningUp, Linking
  <2> QED BY <2>1, <2>7
<1> QED BY <1>1, <1>2, <1>3 DEF Begin, ChangeRequested

LEMMA SessionStepFits ==
  ASSUME TypeOK, Shaped, NEW r \in Requests, SessionStep(r)
  PROVE  \E q : MovesTo(r, q) /\ Fits(q)
<1> USE DEF TypeOK
<1>1. CASE InsertWaits(r) \/ IssueSession(r)
  <2>1. /\ \E pc \in {"insert", "surplus"} : Goto(r, pc)
        /\ req[r].user \in Addresses
    BY <1>1 DEF InsertWaits, IssueSession, Shaped, ForUser
  <2> QED BY <2>1, GotoFits DEF Stages, WithIdentity, SigningUp, Linking
<1>2. ASSUME NEW v \in SUBSET SessionIds, req[r].pc \in ForUser,
             req' = [req EXCEPT ![r].pc = "revoke", ![r].victims = v]
      PROVE  \E q : MovesTo(r, q) /\ Fits(q)
  <2> DEFINE q == [req[r] EXCEPT !.pc = "revoke", !.victims = v]
  <2>1. req[r].user \in Addresses /\ req[r] \in Request
    BY <1>2 DEF Shaped
  <2>2. q \in Request
    BY <2>1, FieldsTyped DEF Stages
  <2>3. q.pc = "revoke" /\ q.user = req[r].user
    BY <2>1 DEF Request
  <2>4. Fits(q)
    BY <2>1, <2>2, <2>3 DEF Fits, WithIdentity, SigningUp, Linking
  <2> QED BY <1>2, <2>4 DEF MovesTo
<1>3. CASE FindSurplus(r) \/ LogoutAll(r) \/ ChangePassword(r)
  <2>1. /\ Surplus(Active(req[r].user)) \in SUBSET SessionIds
        /\ Active(req[r].user) \in SUBSET SessionIds
        /\ Active(req[r].user) \ {req[r].session} \in SUBSET SessionIds
    BY DEF Surplus, Active
  <2>2. /\ req[r].pc \in ForUser
        /\ \E v \in SUBSET SessionIds :
             req' = [req EXCEPT ![r].pc = "revoke", ![r].victims = v]
    BY <1>3, <2>1 DEF FindSurplus, LogoutAll, ChangePassword, ForUser
  <2> QED BY <1>2, <2>2
<1>4. CASE RevokeVictims(r) \/ Logout(r)
  BY <1>4, FinishFits DEF RevokeVictims, Logout
<1> QED BY <1>1, <1>3, <1>4 DEF SessionStep

LEMMA IdentityStepFits ==
  ASSUME TypeOK, Shaped, NEW r \in Requests, IdentityStep(r)
  PROVE  \E q : MovesTo(r, q) /\ Fits(q)
<1>0. req \in [Requests -> Request] /\ req[r] \in Request
  BY DEF TypeOK
<1>1. CASE UnlinkChecks(r)
  <2>1. req[r].user \in Addresses
    BY <1>1 DEF UnlinkChecks, Shaped, ForUser
  <2>2. ASSUME NEW i \in Identities,
               req' = [req EXCEPT ![r].pc = "unlinkDelete", ![r].identity = i, ![r].session = NULL]
        PROVE  \E q : MovesTo(r, q) /\ Fits(q)
    <3> DEFINE q == [req[r] EXCEPT !.pc = "unlinkDelete", !.identity = i, !.session = NULL]
    <3>1. q \in Request
      BY <1>0, FieldsTyped DEF Stages
    <3>2. q.pc = "unlinkDelete" /\ q.user = req[r].user /\ q.identity = i
      BY <1>0 DEF Request
    <3>3. Fits(q)
      BY <2>1, <3>1, <3>2 DEF Fits, SigningUp, Linking
    <3> QED BY <2>2, <3>3 DEF MovesTo
  <2> QED BY <1>1, <2>2, FinishFits DEF UnlinkChecks
<1>2. CASE UnlinkDeletes(r) \/ ProviderFails(r)
  BY <1>2, FinishFits DEF UnlinkDeletes, ProviderFails
<1>3. CASE ProviderAnswers(r)
  <2>1. PICK i \in Identities, e \in Addresses \cup {NULL} :
          IF req[r].user = NULL
            THEN req' = [req EXCEPT ![r].pc = "findOwner", ![r].identity = i, ![r].address = e]
            ELSE req' = [req EXCEPT ![r].pc = "linkLock", ![r].identity = i]
    BY <1>3 DEF ProviderAnswers
  <2>2. CASE req[r].user = NULL
    <3> DEFINE q == [req[r] EXCEPT !.pc = "findOwner", !.identity = i, !.address = e]
    <3>1. q \in Request
      BY <1>0, FieldsTyped DEF Stages
    <3>2. q.pc = "findOwner" /\ q.identity = i
      BY <1>0 DEF Request
    <3>3. Fits(q)
      BY <3>1, <3>2 DEF Fits, ForUser, SigningUp, Linking
    <3>4. MovesTo(r, q)
      BY <2>1, <2>2 DEF MovesTo
    <3> QED BY <3>3, <3>4
  <2>3. CASE req[r].user # NULL
    <3> DEFINE q == [req[r] EXCEPT !.pc = "linkLock", !.identity = i]
    <3>0. req[r].user \in Addresses
      BY <1>0, <2>3 DEF Request
    <3>1. q \in Request
      BY <1>0, FieldsTyped DEF Stages
    <3>2. q.pc = "linkLock" /\ q.identity = i /\ q.user = req[r].user
      BY <1>0 DEF Request
    <3>3. Fits(q)
      BY <3>0, <3>1, <3>2 DEF Fits, SigningUp, Linking
    <3>4. MovesTo(r, q)
      BY <2>1, <2>3 DEF MovesTo
    <3> QED BY <3>3, <3>4
  <2> QED BY <2>2, <2>3
<1>4. CASE FindOwner(r)
  <2>1. req[r].identity \in Identities /\ req[r].address \in Addresses \cup {NULL}
    BY <1>0, <1>4 DEF FindOwner, Shaped, WithIdentity, Request
  <2>2. CASE identities[req[r].identity] # NULL
    BY <1>4, <2>2, SignedInFits DEF FindOwner
  <2>3. CASE Goto(r, "signupLock") /\ req[r].address # NULL
    BY <1>0, <2>1, <2>3, GotoFits DEF Stages, ForUser, Linking
  <2> QED BY <1>4, <2>2, <2>3, FinishFits DEF FindOwner
<1>5. ASSUME req[r].pc \in SigningUp, NEW pc \in {"lookup", "create", "attach", "winner"},
             Goto(r, pc)
      PROVE  \E q : MovesTo(r, q) /\ Fits(q)
  <2>1. req[r].identity \in Identities /\ req[r].address \in Addresses
    BY <1>5 DEF Shaped, WithIdentity
  <2>2. pc \in Stages /\ pc \notin ForUser /\ pc # "provider" /\ pc \notin Linking \cup {"logout"}
    BY <1>5 DEF Stages, ForUser, Linking
  <2> QED BY <1>0, <1>5, <2>1, <2>2, GotoFits
<1>6. CASE ReadUnderLock(r) \/ LookupAddress(r) \/ CreateAccount(r) \/ ResolveWinner(r)
  BY <1>5, <1>6, SignedInFits, FinishFits
     DEF ReadUnderLock, LookupAddress, CreateAccount, ResolveWinner, SigningUp
<1>7. CASE AttachIdentity(r)
  <2>1. CASE identities[req[r].identity] # NULL
    BY <1>5, <1>7, <2>1 DEF AttachIdentity, SigningUp
  <2>2. CASE identities[req[r].identity] = NULL
    <3> DEFINE q == [req[r] EXCEPT !.pc = "issue", !.user = req[r].address, !.identity = NULL,
                                   !.address = NULL, !.now = 0]
    <3>1. req[r].address \in Addresses
      BY <1>7 DEF AttachIdentity, Shaped, SigningUp
    <3>2. 0 \in 0 .. Cardinality(Flows)
      BY Constants, FS_CardinalityType
    <3>3. q \in Request
      BY <1>0, <3>1, <3>2, FieldsTyped DEF Stages
    <3>4. q.pc = "issue" /\ q.user = req[r].address
      BY <1>0 DEF Request
    <3>5. Fits(q)
      BY <3>1, <3>3, <3>4 DEF Fits, WithIdentity, SigningUp, Linking
    <3>6. MovesTo(r, q)
      BY <1>7, <2>2 DEF AttachIdentity, MovesTo
    <3> QED BY <3>5, <3>6
  <2> QED BY <2>1, <2>2
<1> QED BY <1>1, <1>2, <1>3, <1>4, <1>6, <1>7 DEF IdentityStep

LEMMA LinkStepFits ==
  ASSUME TypeOK, Shaped, NEW r \in Requests, LinkStep(r)
  PROVE  \E q : MovesTo(r, q) /\ Fits(q)
<1>0. req \in [Requests -> Request] /\ req[r] \in Request
  BY DEF TypeOK
<1>1. ASSUME req[r].pc \in Linking \cup {"linkLock"}, NEW pc \in Linking, Goto(r, pc),
             req[r].session \in SessionIds
      PROVE  \E q : MovesTo(r, q) /\ Fits(q)
  <2>1. req[r].user \in Addresses /\ req[r].identity \in Identities
    BY <1>1 DEF Shaped, ForUser, WithIdentity, Linking
  <2>2. pc \in Stages /\ pc # "provider" /\ pc \notin SigningUp
    BY <1>1 DEF Stages, Linking, SigningUp
  <2> QED BY <1>0, <1>1, <2>1, <2>2, GotoFits
<1>2. CASE LinkLocks(r)
  BY <1>1, <1>2, FinishFits DEF LinkLocks, SessionHolds, Active, Refuse, Linking
<1>3. CASE LinkReadsOwner(r) \/ LinkInserts(r) \/ LinkIssues(r)
  <2>1. req[r].pc \in Linking /\ req[r].session \in SessionIds
    BY <1>3 DEF LinkReadsOwner, LinkInserts, LinkIssues, Shaped, Linking
  <2>2. Finish(r) \/ \E pc \in Linking : Goto(r, pc)
    BY <1>3 DEF LinkReadsOwner, LinkInserts, LinkIssues, Refuse, IssueAndCommit, Linking
  <2> QED BY <1>1, <2>1, <2>2, FinishFits
<1> QED BY <1>2, <1>3 DEF LinkStep

LEMMA StepFits ==
  ASSUME TypeOK, Shaped, NEW r \in Requests, Step(r)
  PROVE  \E q : MovesTo(r, q) /\ Fits(q)
<1>1. CASE Die(r)
  <2>1. Fits(At("lost"))
    BY AtTyped DEF Fits, At, Stages, ForUser, WithIdentity, SigningUp, Linking
  <2> QED BY <1>1, <2>1 DEF Die, MovesTo
<1> QED BY <1>1, BeginFits, SessionStepFits, IdentityStepFits, LinkStepFits DEF Step

--------------------------------------------------------------------------------
(* The order of sessions.                                                   *)

LEMMA Extremes ==
  ASSUME NEW S, IsFiniteSet(S), S # {}, NEW f, \A s \in S : f[s] \in Nat
  PROVE  /\ \E m \in S : \A s \in S : f[s] <= f[m]
         /\ \E m \in S : \A s \in S : f[m] <= f[s]
<1> DEFINE Good(T) == /\ \E m \in T : \A s \in T : f[s] <= f[m]
                      /\ \E m \in T : \A s \in T : f[m] <= f[s]
           Bad == {T \in SUBSET S : T # {} /\ ~Good(T)}
<1>1. SUFFICES ASSUME Bad # {} PROVE FALSE
  BY DEF Bad
<1>2. /\ IsWellFoundedOn(StrictSubsetOrdering(S), FiniteSubsetsOf(S))
      /\ Bad \subseteq FiniteSubsetsOf(S)
  BY FS_StrictSubsetOrderingWellFounded, FS_FiniteSubsetsOfFinite
<1>3. PICK T \in Bad : \A U \in Bad : <<U, T>> \notin StrictSubsetOrdering(S)
  <2> HIDE DEF Bad
  <2> QED BY <1>1, <1>2, WFMin
<1>4. PICK x \in T : TRUE
  OBVIOUS
<1>5. /\ T \ {x} \in SUBSET S /\ T \in SUBSET S /\ T \ {x} # T
  BY <1>3, <1>4
<1>6. T \ {x} \notin Bad
  BY <1>3, <1>5 DEF StrictSubsetOrdering
<1>7. T \ {x} = {} \/ Good(T \ {x})
  BY <1>5, <1>6
<1>8. Good(T)
  <2>0. \A s \in T : f[s] \in Nat
    BY <1>5
  <2>1. CASE T \ {x} = {}
    BY <2>0, <2>1, <1>4
  <2>2. CASE Good(T \ {x})
    <3>1. PICK m \in T \ {x} : \A s \in T \ {x} : f[s] <= f[m]
      BY <2>2
    <3>2. PICK n \in T \ {x} : \A s \in T \ {x} : f[n] <= f[s]
      BY <2>2
    <3>3. \E k \in T : \A s \in T : f[s] <= f[k]
      <4>1. CASE f[x] <= f[m]
        BY <2>0, <3>1, <4>1
      <4>2. CASE ~(f[x] <= f[m])
        BY <2>0, <3>1, <4>2, <1>4
      <4> QED BY <4>1, <4>2
    <3>4. \E k \in T : \A s \in T : f[k] <= f[s]
      <4>1. CASE f[n] <= f[x]
        BY <2>0, <3>2, <4>1
      <4>2. CASE ~(f[n] <= f[x])
        BY <2>0, <3>2, <4>2, <1>4
      <4> QED BY <4>1, <4>2
    <3> QED BY <3>3, <3>4
  <2> QED BY <1>7, <2>1, <2>2
<1> QED BY <1>3, <1>8

\* A new session is later than every other.
LEMMA LatestIsLast ==
  ASSUME issuedAt \in [SessionIds -> Nat], NEW r \in Requests
  PROVE  /\ Latest \in Nat
         /\ \A s \in SessionIds : issuedAt[s] <= Latest
<1>1. IsFiniteSet(SessionIds) /\ SessionIds # {}
  BY Constants
<1>2. PICK m \in SessionIds : \A s \in SessionIds : issuedAt[s] <= issuedAt[m]
  BY <1>1, Extremes
<1> DEFINE stamps == {issuedAt[s] : s \in SessionIds}
<1>3. issuedAt[m] \in stamps /\ \A k \in stamps : k <= issuedAt[m]
  BY <1>2
<1>4. Latest \in stamps /\ \A k \in stamps : k <= Latest
  BY <1>3 DEF Latest
<1> QED BY <1>4

--------------------------------------------------------------------------------
(* Types of the tables.                                                     *)

LEMMA RevokedTyped ==
  ASSUME TypeOK, NEW rows, NEW how \in {"revoked", "revokedAll"}
  PROVE  Revoked(rows, how) \in [SessionIds -> SessionRow \cup {NoSession}]
<1>1. ASSUME NEW s \in SessionIds, sessions[s].state = "active"
      PROVE  [sessions[s] EXCEPT !.state = how] \in SessionRow
  BY <1>1 DEF TypeOK, SessionRow, NoSession
<1> QED BY <1>1 DEF Revoked, TypeOK

LEMMA CommitTyped ==
  ASSUME TypeOK, Shaped, NEW r \in Requests, req[r].pc \in Linking, IssueAndCommit(r)
  PROVE  sessions' \in [SessionIds -> SessionRow \cup {NoSession}]
<1> DEFINE row == [user |-> req[r].user, state |-> "active", flow |-> req[r].flow,
                   via |-> req[r].session]
           surplus == Surplus(Active(req[r].user) \cup {r})
<1>1. req[r] \in Request /\ req[r].user \in Addresses
  BY DEF TypeOK, Shaped, ForUser, Linking
<1>2. row \in SessionRow /\ [row EXCEPT !.state = "revoked"] \in SessionRow
  BY <1>1 DEF SessionRow, Request
<1>3. Revoked(surplus, "revoked") \in [SessionIds -> SessionRow \cup {NoSession}]
  BY RevokedTyped
<1>4. sessions' = [Revoked(surplus, "revoked")
                     EXCEPT ![r] = IF r \in surplus THEN [row EXCEPT !.state = "revoked"]
                                                    ELSE row]
  BY DEF IssueAndCommit
<1> QED BY <1>2, <1>3, <1>4

LEMMA SessionsTyped ==
  ASSUME TypeOK, Shaped, [Next]_vars
  PROVE  sessions' \in [SessionIds -> SessionRow \cup {NoSession}]
<1>1. ASSUME NEW r \in Requests, IssueSession(r)
      PROVE  sessions' \in [SessionIds -> SessionRow \cup {NoSession}]
  <2>1. req[r] \in Request /\ req[r].user \in Addresses
    BY <1>1 DEF TypeOK, Shaped, ForUser, IssueSession
  <2>2. [user |-> req[r].user, state |-> "active", flow |-> req[r].flow, via |-> NULL] \in SessionRow
    BY <2>1 DEF SessionRow, Request
  <2> QED BY <1>1, <2>2 DEF IssueSession, TypeOK
<1>2. ASSUME NEW r \in Requests, RevokeVictims(r) \/ Logout(r)
      PROVE  sessions' \in [SessionIds -> SessionRow \cup {NoSession}]
  BY <1>2, RevokedTyped DEF RevokeVictims, Logout
<1>3. ASSUME NEW r \in Requests, LinkInserts(r) \/ LinkIssues(r)
      PROVE  sessions' \in [SessionIds -> SessionRow \cup {NoSession}]
  <2>1. req[r].pc \in Linking /\ (UNCHANGED sessions \/ IssueAndCommit(r))
    BY <1>3 DEF LinkInserts, LinkIssues, Linking
  <2> QED BY <2>1, CommitTyped DEF TypeOK
<1>4. CASE UNCHANGED sessions
  BY <1>4 DEF TypeOK
<1> QED BY <1>1, <1>2, <1>3, <1>4, SessionsFrame

LEMMA StampsTyped ==
  ASSUME TypeOK, [Next]_vars
  PROVE  issuedAt' \in [SessionIds -> Nat]
<1>1. ASSUME NEW r \in Requests, issuedAt' = Stamped(r) \/ issuedAt' = Unstamped(r)
      PROVE  issuedAt' \in [SessionIds -> Nat]
  BY <1>1, LatestIsLast DEF Stamped, Unstamped, TypeOK
<1> QED BY <1>1, StampsFrame DEF TypeOK

LEMMA IdentitiesTyped ==
  ASSUME TypeOK, Shaped, [Next]_vars
  PROVE  /\ identities' \in [Identities -> Addresses \cup {NULL}]
         /\ lastLogin' \in [Identities -> 0 .. Cardinality(Flows)]
         /\ born' \in [Addresses -> Identities \cup {NULL}]
<1>0. \A r \in Requests : req[r] \in Request
  BY DEF TypeOK
<1>1. identities' \in [Identities -> Addresses \cup {NULL}]
  <2>1. ASSUME NEW r \in Requests, UnlinkDeletes(r)
        PROVE  identities' \in [Identities -> Addresses \cup {NULL}]
    BY <2>1 DEF TypeOK, UnlinkDeletes
  <2>2. ASSUME NEW r \in Requests, AttachIdentity(r)
        PROVE  identities' \in [Identities -> Addresses \cup {NULL}]
    <3>1. req[r].address \in Addresses
      BY <2>2 DEF AttachIdentity, Shaped, SigningUp
    <3> QED BY <2>2, <3>1 DEF TypeOK, AttachIdentity
  <2>3. ASSUME NEW r \in Requests, LinkInserts(r)
        PROVE  identities' \in [Identities -> Addresses \cup {NULL}]
    <3>1. req[r].user \in Addresses
      BY <2>3 DEF LinkInserts, Shaped, ForUser
    <3> QED BY <2>3, <3>1 DEF TypeOK, LinkInserts
  <2> QED BY <2>1, <2>2, <2>3, IdentitiesFrame DEF TypeOK
<1>2. lastLogin' \in [Identities -> 0 .. Cardinality(Flows)]
  <2>1. ASSUME NEW r \in Requests, SignedIn(r)
        PROVE  lastLogin' \in [Identities -> 0 .. Cardinality(Flows)]
    BY <1>0, <2>1 DEF TypeOK, SignedIn, Recorded, Request
  <2>2. ASSUME NEW r \in Requests, FindOwner(r) \/ ReadUnderLock(r) \/ ResolveWinner(r)
        PROVE  UNCHANGED lastLogin \/ SignedIn(r)
    BY <2>2 DEF FindOwner, ReadUnderLock, ResolveWinner
  <2>3. ASSUME NEW r \in Requests, AttachIdentity(r) \/ LinkInserts(r)
        PROVE  lastLogin' \in [Identities -> 0 .. Cardinality(Flows)]
    BY <1>0, <2>3 DEF TypeOK, AttachIdentity, LinkInserts, Request
  <2> QED BY <2>1, <2>2, <2>3, LastLoginFrame DEF TypeOK
<1>3. born' \in [Addresses -> Identities \cup {NULL}]
  <2>1. ASSUME NEW r \in Requests, UnlinkDeletes(r)
        PROVE  born' \in [Addresses -> Identities \cup {NULL}]
    BY <2>1 DEF TypeOK, UnlinkDeletes
  <2>2. ASSUME NEW r \in Requests, AttachIdentity(r)
        PROVE  born' \in [Addresses -> Identities \cup {NULL}]
    BY <1>0, <2>2 DEF TypeOK, AttachIdentity, Request
  <2> QED BY <2>1, <2>2, BornFrame DEF TypeOK
<1> QED BY <1>1, <1>2, <1>3

LEMMA FlowsTyped ==
  ASSUME TypeOK, [Next]_vars
  PROVE  authorizations' \in [Flows -> Authorization]
<1>1. ASSUME NEW f \in Flows, StartFlow(f)
      PROVE  authorizations' \in [Flows -> Authorization]
  <2>1. PICK p \in Providers, u \in {NULL} \cup {sessions[s].user : s \in SessionIds} :
          authorizations' = [authorizations EXCEPT
                               ![f] = [state |-> "pending", provider |-> p, user |-> u]]
    BY <1>1 DEF StartFlow
  <2>2. u \in Addresses \cup {NULL}
    BY DEF TypeOK, SessionRow, NoSession
  <2>3. [state |-> "pending", provider |-> p, user |-> u] \in Authorization
    BY <2>2 DEF Authorization
  <2> QED BY <2>1, <2>3 DEF TypeOK
<1>2. ASSUME NEW f \in Flows,
             \/ authorizations' = [authorizations EXCEPT ![f].state = "gone", ![f].user = NULL]
             \/ authorizations' = [authorizations EXCEPT ![f] = [NoFlow EXCEPT !.state = "gone"]]
      PROVE  authorizations' \in [Flows -> Authorization]
  BY <1>2 DEF TypeOK, Authorization, NoFlow
<1> QED BY <1>1, <1>2, FlowsFrame DEF Sweep, Consume, TypeOK

LEMMA SpentTyped ==
  ASSUME TypeOK, [Next]_vars
  PROVE  /\ spent' \in [changes : 0 .. MAX_CHANGES, faults : 0 .. MAX_FAULTS]
         /\ spent'.changes >= spent.changes /\ spent'.faults >= spent.faults
         /\ \A r \in Requests : Die(r) => spent'.faults = spent.faults + 1
         /\ \A r \in Requests, s \in SessionIds :
              ChangeRequested(r, s) => spent'.changes = spent.changes + 1
BY SpentFrame, Constants DEF TypeOK, Sweep, Die, ChangeRequested

--------------------------------------------------------------------------------
(* How a request moves.                                                     *)

Elsewhere(r) == \A x \in Requests : x # r => req'[x] = req[x]

Ended(r) == req'[r] \in {At("done"), At("lost")}

Entered(r) ==
  /\ req[r].pc = "idle"
  /\ req'[r].pc \in {"issue", "provider", "logout", "logoutAll", "unlinkLock", "change"}
  /\ req'[r].pc \notin Ending => req'[r].op = "surplus"
  /\ req'[r].pc = "logoutAll" => req'[r].op = "logoutAll"
  /\ req'[r].pc = "change" => /\ req'[r].op = "change"
                              /\ \E s \in SessionIds : ChangeRequested(r, s)
  /\ req'[r].flow # NULL => \E p \in Providers : Consume(r, req'[r].flow, p)

Edges == {<<"issue", "insert">>, <<"issue", "surplus">>, <<"insert", "surplus">>,
          <<"surplus", "revoke">>, <<"logoutAll", "revoke">>,
          <<"change", "revoke">>, <<"unlinkLock", "unlinkDelete">>,
          <<"provider", "findOwner">>, <<"provider", "linkLock">>,
          <<"findOwner", "issue">>, <<"findOwner", "signupLock">>,
          <<"signupLock", "issue">>, <<"signupLock", "lookup">>, <<"lookup", "create">>,
          <<"create", "attach">>, <<"create", "winner">>, <<"attach", "winner">>,
          <<"attach", "issue">>, <<"winner", "issue">>,
          <<"linkLock", "linkOwner">>, <<"linkOwner", "linkInsert">>,
          <<"linkOwner", "linkIssue">>, <<"linkInsert", "linkIssue">>}

Continued(r) ==
  /\ <<req[r].pc, req'[r].pc>> \in Edges
  /\ req'[r].op = req[r].op /\ req'[r].flow = req[r].flow
  /\ req'[r].pc # "issue" => req'[r].user = req[r].user
  /\ req'[r].pc \in SigningUp =>
       req'[r].identity = req[r].identity /\ req'[r].address = req[r].address
  /\ req'[r].pc \in Linking =>
       req'[r].identity = req[r].identity /\ req'[r].session = req[r].session

\* The action behind a move.
Acted(r) ==
  /\ req'[r].pc = "insert" => InsertWaits(r)
  /\ req'[r].pc = "surplus" => IssueSession(r)
  /\ req'[r].pc = "revoke" => FindSurplus(r) \/ LogoutAll(r) \/ ChangePassword(r)
  /\ req'[r].pc = "unlinkDelete" => UnlinkChecks(r)
  /\ req'[r].pc = "lookup" => ReadUnderLock(r)
  /\ req'[r].pc = "linkOwner" => LinkLocks(r)
  /\ req'[r].pc = "linkLock" => ProviderAnswers(r)

Moved(r) == Elsewhere(r) /\ (Ended(r) \/ Entered(r) \/ (Continued(r) /\ Acted(r)))

LEMMA StepElsewhere ==
  ASSUME TypeOK, Shaped, NEW r \in Requests, Step(r)
  PROVE  Elsewhere(r)
BY StepFits DEF MovesTo, Elsewhere, TypeOK

LEMMA FinishMoves ==
  ASSUME TypeOK, NEW r \in Requests, Finish(r)
  PROVE  Ended(r)
BY DEF Finish, Ended, TypeOK

LEMMA GotoMoves ==
  ASSUME TypeOK, NEW r \in Requests, NEW pc \in Stages \ {"issue"}, Goto(r, pc),
         <<req[r].pc, pc>> \in Edges
  PROVE  Continued(r) /\ req'[r].pc = pc
<1>1. req[r] \in Request /\ req'[r] = [req[r] EXCEPT !.pc = pc]
  BY DEF Goto, TypeOK
<1>2. /\ req'[r].pc = pc /\ req'[r].op = req[r].op /\ req'[r].flow = req[r].flow
      /\ req'[r].user = req[r].user /\ req'[r].identity = req[r].identity
      /\ req'[r].address = req[r].address /\ req'[r].session = req[r].session
  BY <1>1 DEF Request
<1> QED BY <1>2 DEF Continued

LEMMA SignedInMoves ==
  ASSUME TypeOK, NEW r \in Requests, req[r].pc \in {"findOwner", "signupLock", "winner"},
         SignedIn(r)
  PROVE  Continued(r) /\ req'[r].pc = "issue"
<1> DEFINE q == [req[r] EXCEPT !.pc = "issue", !.user = identities[req[r].identity],
                               !.identity = NULL, !.address = NULL, !.now = 0]
<1>1. req[r] \in Request /\ req'[r] = q
  BY DEF SignedIn, TypeOK
<1>2. q.pc = "issue" /\ q.op = req[r].op /\ q.flow = req[r].flow
  BY <1>1 DEF Request
<1> QED BY <1>1, <1>2 DEF Continued, Edges, SigningUp, Linking

LEMMA VictimsMoves ==
  ASSUME TypeOK, NEW r \in Requests, FindSurplus(r) \/ LogoutAll(r) \/ ChangePassword(r)
  PROVE  Continued(r) /\ req'[r].pc = "revoke"
<1>1. PICK v : req' = [req EXCEPT ![r].pc = "revoke", ![r].victims = v]
  BY DEF FindSurplus, LogoutAll, ChangePassword
<1> DEFINE q == [req[r] EXCEPT !.pc = "revoke", !.victims = v]
<1>2. req[r] \in Request /\ req'[r] = q
  BY <1>1 DEF TypeOK
<1>3. q.pc = "revoke" /\ q.op = req[r].op /\ q.flow = req[r].flow /\ q.user = req[r].user
  BY <1>2 DEF Request
<1>4. <<req[r].pc, "revoke">> \in Edges
  BY DEF FindSurplus, LogoutAll, ChangePassword, Edges
<1> QED BY <1>2, <1>3, <1>4 DEF Continued, SigningUp, Linking

LEMMA BeginMoves ==
  ASSUME TypeOK, NEW r \in Requests, Begin(r)
  PROVE  Entered(r)
<1>1. ASSUME NEW a \in Addresses, Login(r, a)
      PROVE  Entered(r)
  <2>1. req[r].pc = "idle" /\ req'[r] = [At("issue") EXCEPT !.user = a]
    BY <1>1 DEF Login, TypeOK
  <2> QED BY <2>1 DEF Entered, At, Ending
<1>2. ASSUME NEW s \in SessionIds, NEW op, NEW pc, Guarded(r, s, op, pc)
      PROVE  /\ req[r].pc = "idle" /\ req'[r].pc = pc /\ req'[r].op = op
             /\ req'[r].flow = NULL
  <2>1. req[r].pc = "idle"
        /\ req'[r] = [At(pc) EXCEPT !.op = op, !.user = sessions[s].user, !.session = s]
    BY <1>2 DEF Guarded, TypeOK
  <2> QED BY <2>1 DEF At
<1>3. ASSUME NEW s \in SessionIds,
             \/ Guarded(r, s, "surplus", "logout")
             \/ Guarded(r, s, "logoutAll", "logoutAll")
             \/ Guarded(r, s, "surplus", "unlinkLock")
             \/ ChangeRequested(r, s)
      PROVE  Entered(r)
  BY <1>2, <1>3 DEF Entered, Ending, ChangeRequested
<1>4. ASSUME NEW f \in Flows, NEW p \in Providers, Consume(r, f, p)
      PROVE  Entered(r)
  <2>1. PICK s : req' = [req EXCEPT ![r] = [At("provider") EXCEPT !.flow = f, !.now = Callbacks + 1,
                                       !.user = authorizations[f].user, !.session = s]]
    BY <1>4 DEF Consume
  <2> DEFINE q == [At("provider") EXCEPT !.flow = f, !.now = Callbacks + 1,
                                         !.user = authorizations[f].user, !.session = s]
  <2>2. req'[r] = q /\ req[r].pc = "idle"
    BY <1>4, <2>1 DEF Consume, TypeOK
  <2>3. q.pc = "provider" /\ q.op = "surplus" /\ q.flow = f
    BY DEF At
  <2> QED BY <1>4, <2>2, <2>3 DEF Entered
<1> QED BY <1>1, <1>3, <1>4 DEF Begin

LEMMA SessionStepMoves ==
  ASSUME TypeOK, NEW r \in Requests, SessionStep(r)
  PROVE  Ended(r) \/ (Continued(r) /\ Acted(r))
<1>1. CASE InsertWaits(r) \/ IssueSession(r)
  BY <1>1, GotoMoves DEF InsertWaits, IssueSession, Edges, Stages, Acted
<1>2. CASE FindSurplus(r) \/ LogoutAll(r) \/ ChangePassword(r)
  BY <1>2, VictimsMoves DEF Acted
<1> QED BY <1>1, <1>2, FinishMoves DEF SessionStep, RevokeVictims, Logout

LEMMA IdentityStepMoves ==
  ASSUME TypeOK, NEW r \in Requests, IdentityStep(r)
  PROVE  Ended(r) \/ (Continued(r) /\ Acted(r))
<1>0. req[r] \in Request
  BY DEF TypeOK
<1>1. CASE UnlinkChecks(r)
  <2>1. ASSUME NEW i,
               req' = [req EXCEPT ![r].pc = "unlinkDelete", ![r].identity = i, ![r].session = NULL]
        PROVE  Continued(r) /\ req'[r].pc = "unlinkDelete"
    <3> DEFINE q == [req[r] EXCEPT !.pc = "unlinkDelete", !.identity = i, !.session = NULL]
    <3>1. req'[r] = q
      BY <2>1 DEF TypeOK
    <3>2. q.pc = "unlinkDelete" /\ q.op = req[r].op /\ q.flow = req[r].flow /\ q.user = req[r].user
      BY <1>0 DEF Request
    <3>3. <<req[r].pc, "unlinkDelete">> \in Edges
      BY <1>1 DEF UnlinkChecks, Edges
    <3> QED BY <3>1, <3>2, <3>3 DEF Continued, SigningUp, Linking
  <2>2. Finish(r) \/ \E i : req' = [req EXCEPT ![r].pc = "unlinkDelete", ![r].identity = i,
                                               ![r].session = NULL]
    BY <1>1 DEF UnlinkChecks
  <2> QED BY <1>1, <2>1, <2>2, FinishMoves DEF Acted
<1>2. CASE UnlinkDeletes(r) \/ ProviderFails(r)
  BY <1>2, FinishMoves DEF UnlinkDeletes, ProviderFails
<1>3. CASE ProviderAnswers(r)
  <2>1. PICK i, e :
          \/ req' = [req EXCEPT ![r].pc = "findOwner", ![r].identity = i, ![r].address = e]
          \/ req' = [req EXCEPT ![r].pc = "linkLock", ![r].identity = i]
    BY <1>3 DEF ProviderAnswers
  <2> DEFINE q == [req[r] EXCEPT !.pc = "findOwner", !.identity = i, !.address = e]
             p == [req[r] EXCEPT !.pc = "linkLock", !.identity = i]
  <2>2. /\ q.pc = "findOwner" /\ q.op = req[r].op /\ q.flow = req[r].flow /\ q.user = req[r].user
        /\ p.pc = "linkLock" /\ p.op = req[r].op /\ p.flow = req[r].flow /\ p.user = req[r].user
    BY <1>0 DEF Request
  <2>3. req'[r] = q \/ req'[r] = p
    BY <2>1 DEF TypeOK
  <2>4. req[r].pc = "provider"
    BY <1>3 DEF ProviderAnswers
  <2> QED BY <1>3, <2>2, <2>3, <2>4 DEF Continued, Acted, Edges, SigningUp, Linking
<1>4. CASE FindOwner(r)
  BY <1>4, GotoMoves, SignedInMoves, FinishMoves DEF FindOwner, Acted, Edges, Stages
<1>5. CASE ReadUnderLock(r)
  BY <1>5, GotoMoves, SignedInMoves DEF ReadUnderLock, Acted, Edges, Stages
<1>6. CASE LookupAddress(r) \/ CreateAccount(r)
  BY <1>6, GotoMoves, FinishMoves DEF LookupAddress, CreateAccount, Acted, Edges, Stages
<1>7. CASE ResolveWinner(r)
  BY <1>7, SignedInMoves, FinishMoves DEF ResolveWinner, Acted
<1>8. CASE AttachIdentity(r)
  <2>1. CASE identities[req[r].identity] # NULL
    BY <1>8, <2>1, GotoMoves DEF AttachIdentity, Acted, Edges, Stages
  <2>2. CASE identities[req[r].identity] = NULL
    <3> DEFINE q == [req[r] EXCEPT !.pc = "issue", !.user = req[r].address, !.identity = NULL,
                                   !.address = NULL, !.now = 0]
    <3>1. req'[r] = q
      BY <1>8, <2>2 DEF AttachIdentity, TypeOK
    <3>2. q.pc = "issue" /\ q.op = req[r].op /\ q.flow = req[r].flow
      BY <1>0 DEF Request
    <3>3. req[r].pc = "attach"
      BY <1>8 DEF AttachIdentity
    <3> QED BY <3>1, <3>2, <3>3 DEF Continued, Acted, Edges, SigningUp, Linking
  <2> QED BY <2>1, <2>2
<1> QED BY <1>1, <1>2, <1>3, <1>4, <1>5, <1>6, <1>7, <1>8 DEF IdentityStep

LEMMA LinkStepMoves ==
  ASSUME TypeOK, NEW r \in Requests, LinkStep(r)
  PROVE  Ended(r) \/ (Continued(r) /\ Acted(r))
<1>1. CASE LinkLocks(r)
  BY <1>1, GotoMoves, FinishMoves DEF LinkLocks, Refuse, Acted, Edges, Stages
<1>2. CASE LinkReadsOwner(r)
  BY <1>2, GotoMoves, FinishMoves DEF LinkReadsOwner, Refuse, Acted, Edges, Stages
<1>3. CASE LinkInserts(r) \/ LinkIssues(r)
  BY <1>3, GotoMoves, FinishMoves
     DEF LinkInserts, LinkIssues, IssueAndCommit, Refuse, Acted, Edges, Stages
<1> QED BY <1>1, <1>2, <1>3 DEF LinkStep

LEMMA StepMoves ==
  ASSUME TypeOK, Shaped, NEW r \in Requests, Step(r)
  PROVE  Moved(r)
<1>1. Die(r) => Ended(r)
  BY DEF Die, Ended, TypeOK
<1> QED BY <1>1, StepElsewhere, BeginMoves, SessionStepMoves, IdentityStepMoves, LinkStepMoves
        DEF Moved, Step

\* All there is to say of requests about a step of the whole.
LEMMA ReqMoves ==
  ASSUME TypeOK, Shaped, [Next]_vars
  PROVE  UNCHANGED req \/ \E r \in Requests : Step(r) /\ Moved(r)
BY ReqFrame, StepMoves

--------------------------------------------------------------------------------
(* Passwords.                                                               *)

LEMMA OpsStep ==
  ASSUME TypeOK, Shaped, OpsMatch, [Next]_vars
  PROVE  OpsMatch'
<1>1. CASE UNCHANGED req
  BY <1>1 DEF OpsMatch
<1>2. ASSUME NEW r \in Requests, Moved(r)
      PROVE  OpsMatch'
  <2>1. CASE Ended(r)
    BY <1>2, <2>1 DEF Moved, Elsewhere, Ended, At, OpsMatch, Ending
  <2>2. CASE Entered(r)
    BY <1>2, <2>2 DEF Moved, Elsewhere, Entered, OpsMatch
  <2>3. CASE Continued(r)
    <3>1. req'[r].pc \notin Ending => req[r].pc \notin Ending
      BY <2>3 DEF Continued, Edges, Ending
    <3>2. req'[r].pc \notin {"logoutAll", "change"} /\ req'[r].op = req[r].op
      BY <2>3 DEF Continued, Edges
    <3> QED BY <1>2, <3>1, <3>2 DEF Moved, Elsewhere, OpsMatch
  <2> QED BY <1>2, <2>1, <2>2, <2>3 DEF Moved
<1> QED BY <1>1, <1>2, ReqMoves

LEMMA ChangingFinite ==
  \A a : /\ Changing(a) \subseteq Requests
         /\ IsFiniteSet(Changing(a)) /\ Cardinality(Changing(a)) \in Nat
<1> TAKE a
<1>1. Changing(a) \in SUBSET Requests
  BY DEF Changing
<1> QED BY <1>1, Constants, FS_Subset, FS_CardinalityType

\* Only a request for a change adds to the changes in progress.
LEMMA ChangingMoves ==
  ASSUME TypeOK, Shaped, OpsMatch, [Next]_vars, NEW a \in Addresses
  PROVE  \/ Changing(a)' \subseteq Changing(a)
         \/ \E r \in Requests, s \in SessionIds :
              ChangeRequested(r, s) /\ Changing(a)' \subseteq Changing(a) \cup {r}
<1>1. CASE UNCHANGED req
  BY <1>1 DEF Changing
<1>2. ASSUME NEW r \in Requests, Moved(r)
      PROVE  \/ Changing(a)' \subseteq Changing(a)
             \/ \E s \in SessionIds :
                  ChangeRequested(r, s) /\ Changing(a)' \subseteq Changing(a) \cup {r}
  <2>1. Changing(a)' \subseteq Changing(a) \cup {r}
    BY <1>2 DEF Moved, Elsewhere, Changing
  <2>2. CASE Ended(r)
    BY <2>1, <2>2 DEF Ended, At, Changing
  <2>3. CASE Entered(r)
    BY <2>1, <2>3 DEF Entered, Changing
  <2>4. CASE Continued(r)
    <3>1. r \in Changing(a)' => req[r].pc = "change" /\ req[r].op = "change" /\ req[r].user = a
      BY <2>4 DEF Continued, Edges, Changing, OpsMatch, Ending
    <3> QED BY <2>1, <3>1 DEF Changing
  <2> QED BY <1>2, <2>2, <2>3, <2>4 DEF Moved
<1> QED BY <1>1, <1>2, ReqMoves

\* What each statement makes of the accounts.
LEMMA UsersMove ==
  ASSUME TypeOK, Shaped, [Next]_vars, NEW a \in Addresses
  PROVE  /\ users'[a].exists \/ ~users[a].exists
         /\ \/ users'[a].password = users[a].password
            \/ users'[a] = [exists |-> TRUE, password |-> 1] /\ ~users[a].exists
            \/ /\ users'[a].password = users[a].password + 1
               /\ users'[a].exists = users[a].exists
               /\ \E r \in Changing(a) : r \notin Changing(a)'
<1>1. CASE UNCHANGED users
  BY <1>1
<1>2. ASSUME NEW b \in Addresses, Register(b)
      PROVE  /\ users'[a].exists \/ ~users[a].exists
             /\ \/ users'[a].password = users[a].password
                \/ users'[a] = [exists |-> TRUE, password |-> 1] /\ ~users[a].exists
  BY <1>2 DEF Register, TypeOK
<1>3. ASSUME NEW r \in Requests, AttachIdentity(r)
      PROVE  /\ users'[a].exists \/ ~users[a].exists
             /\ users'[a].password = users[a].password
  BY <1>3 DEF AttachIdentity, TypeOK, Account
<1>4. ASSUME NEW r \in Requests, RevokeVictims(r)
      PROVE  /\ users'[a].exists = users[a].exists
             /\ \/ users'[a].password = users[a].password
                \/ /\ users'[a].password = users[a].password + 1
                   /\ r \in Changing(a) /\ r \notin Changing(a)'
  <2>1. CASE req[r].op = "change" /\ req[r].user = a
    <3>1. users' = [users EXCEPT ![a].password = @ + 1] /\ req'[r] = At("done")
      BY <1>4, <2>1 DEF RevokeVictims, Finish, TypeOK
    <3>2. users'[a].password = users[a].password + 1 /\ users'[a].exists = users[a].exists
      BY <3>1 DEF TypeOK, Account
    <3> QED BY <1>4, <2>1, <3>1, <3>2 DEF RevokeVictims, Changing, At
  <2>2. CASE ~(req[r].op = "change" /\ req[r].user = a)
    <3>1. req[r].user \in Addresses
      BY <1>4 DEF RevokeVictims, Shaped, ForUser
    <3>2. users'[a] = users[a]
      BY <1>4, <2>2, <3>1 DEF RevokeVictims, TypeOK
    <3> QED BY <3>2
  <2> QED BY <2>1, <2>2
<1> QED BY <1>1, <1>2, <1>3, <1>4, UsersFrame

LEMMA UsersShape ==
  ASSUME TypeOK, Shaped, [Next]_vars
  PROVE  users' \in [Addresses -> [exists : BOOLEAN, password : Nat]]
<1>0. users \in [Addresses -> [exists : BOOLEAN, password : Nat]]
  BY Constants DEF TypeOK, Account
<1>1. ASSUME NEW b \in Addresses, Register(b)
      PROVE  users' \in [Addresses -> [exists : BOOLEAN, password : Nat]]
  BY <1>0, <1>1 DEF Register
<1>2. ASSUME NEW r \in Requests, AttachIdentity(r)
      PROVE  users' \in [Addresses -> [exists : BOOLEAN, password : Nat]]
  <2>1. req[r].address \in Addresses
    BY <1>2 DEF AttachIdentity, Shaped, SigningUp
  <2>2. \/ UNCHANGED users
        \/ users' = [users EXCEPT ![req[r].address] =
                                   [users[req[r].address] EXCEPT !.exists = TRUE]]
    BY <1>2 DEF AttachIdentity
  <2> QED BY <1>0, <2>1, <2>2
<1>3. ASSUME NEW r \in Requests, RevokeVictims(r)
      PROVE  users' \in [Addresses -> [exists : BOOLEAN, password : Nat]]
  <2>1. req[r].user \in Addresses
    BY <1>3 DEF RevokeVictims, Shaped, ForUser
  <2>2. \/ UNCHANGED users
        \/ users' = [users EXCEPT ![req[r].user] =
                                   [users[req[r].user] EXCEPT !.password = @ + 1]]
    BY <1>3 DEF RevokeVictims
  <2>3. [users[req[r].user] EXCEPT !.password = @ + 1] \in [exists : BOOLEAN, password : Nat]
    BY <1>0, <2>1
  <2> QED BY <1>0, <2>1, <2>2, <2>3
<1> QED BY <1>0, <1>1, <1>2, <1>3, UsersFrame

LEMMA PasswordsStep ==
  ASSUME TypeInv, [Next]_vars
  PROVE  PasswordsCounted'
<1> SUFFICES ASSUME NEW a \in Addresses
             PROVE  /\ ~users'[a].exists => users'[a].password = 0 /\ Changing(a)' = {}
                    /\ users'[a].password + Cardinality(Changing(a)')
                         <= spent'.changes + (IF users'[a].exists THEN 1 ELSE 0)
  BY DEF PasswordsCounted
<1> DEFINE c == Cardinality(Changing(a))
           d == Cardinality(Changing(a)')
<1>1. /\ TypeOK /\ Shaped /\ OpsMatch
      /\ ~users[a].exists => users[a].password = 0 /\ Changing(a) = {}
      /\ users[a].password + c <= spent.changes + (IF users[a].exists THEN 1 ELSE 0)
      /\ users[a].password \in Nat /\ users'[a].password \in Nat
      /\ users[a].exists \in BOOLEAN /\ users'[a].exists \in BOOLEAN
  BY UsersShape DEF TypeInv, PasswordsCounted, TypeOK, Account
<1>2. /\ IsFiniteSet(Changing(a)) /\ c \in Nat
      /\ Changing(a)' \in SUBSET Requests /\ IsFiniteSet(Changing(a)') /\ d \in Nat
  <2>1. Changing(a)' \in SUBSET Requests
    BY DEF Changing
  <2> QED BY <2>1, ChangingFinite, Constants, FS_Subset, FS_CardinalityType
<1>3. /\ spent.changes \in Nat /\ spent'.changes \in Nat /\ spent'.changes >= spent.changes
      /\ \A r \in Requests, s \in SessionIds :
           ChangeRequested(r, s) => spent'.changes = spent.changes + 1
  BY <1>1, SpentTyped, Constants DEF TypeOK
<1>4. d <= c \/ (d <= c + 1 /\ spent'.changes = spent.changes + 1 /\ UNCHANGED users)
  <2>1. CASE Changing(a)' \subseteq Changing(a)
    BY <1>2, <2>1, FS_Subset
  <2>2. ASSUME NEW r \in Requests, NEW s \in SessionIds, ChangeRequested(r, s),
               Changing(a)' \subseteq Changing(a) \cup {r}
        PROVE  d <= c + 1 /\ spent'.changes = spent.changes + 1 /\ UNCHANGED users
    <3>1. IsFiniteSet(Changing(a) \cup {r}) /\ Cardinality(Changing(a) \cup {r}) <= c + 1
          /\ Cardinality(Changing(a) \cup {r}) \in Nat
      <4>1. Cardinality(Changing(a) \cup {r}) = c \/ Cardinality(Changing(a) \cup {r}) = c + 1
        BY <1>2, FS_AddElement
      <4>2. IsFiniteSet(Changing(a) \cup {r})
        BY <1>2, FS_AddElement
      <4> QED BY <1>2, <4>1, <4>2
    <3>2. d <= Cardinality(Changing(a) \cup {r})
      BY <2>2, <3>1, FS_Subset
    <3> QED BY <1>2, <1>3, <2>2, <3>1, <3>2 DEF ChangeRequested, Guarded
  <2> QED BY <1>1, <2>1, <2>2, ChangingMoves
<1>5. (\E r \in Changing(a) : r \notin Changing(a)') => d + 1 <= c \/ UNCHANGED users
  <2> SUFFICES ASSUME NEW r \in Changing(a), r \notin Changing(a)', ~UNCHANGED users
               PROVE  d + 1 <= c
    OBVIOUS
  <2>1. Changing(a)' \subseteq Changing(a) \ {r}
    <3>1. ASSUME NEW q \in Requests, NEW s \in SessionIds, ChangeRequested(q, s)
          PROVE  FALSE
      BY <3>1 DEF ChangeRequested, Guarded
    <3> QED BY <1>1, <3>1, ChangingMoves
  <2>2. IsFiniteSet(Changing(a) \ {r}) /\ Cardinality(Changing(a) \ {r}) = c - 1
    BY <1>2, FS_RemoveElement
  <2>3. d <= Cardinality(Changing(a) \ {r})
    BY <2>1, <2>2, FS_Subset
  <2> QED BY <1>2, <2>2, <2>3
<1>6. /\ users'[a].exists \/ ~users[a].exists
      /\ \/ users'[a].password = users[a].password
         \/ users'[a] = [exists |-> TRUE, password |-> 1] /\ ~users[a].exists
         \/ /\ users'[a].password = users[a].password + 1
            /\ users'[a].exists = users[a].exists
            /\ \E r \in Changing(a) : r \notin Changing(a)'
  BY <1>1, UsersMove
<1>7. ~users'[a].exists => users'[a].password = 0 /\ Changing(a)' = {}
  <2> SUFFICES ASSUME ~users'[a].exists
               PROVE  users'[a].password = 0 /\ Changing(a)' = {}
    OBVIOUS
  <2>1. ~users[a].exists /\ users[a].password = 0 /\ Changing(a) = {}
    BY <1>1, <1>6
  <2>2. ASSUME NEW r \in Requests, NEW s \in SessionIds, ChangeRequested(r, s)
        PROVE  r \notin Changing(a)'
    <3>1. req'[r].user = sessions[s].user /\ users[sessions[s].user].password > 0
      BY <2>2, <1>1 DEF ChangeRequested, Guarded, TypeOK, At
    <3> QED BY <2>1, <3>1 DEF Changing
  <2>3. Changing(a)' = {}
    BY <1>1, <2>1, <2>2, ChangingMoves
  <2> QED BY <1>6, <2>1, <2>3
<1>8. users'[a].password + d <= spent'.changes + (IF users'[a].exists THEN 1 ELSE 0)
  <2> HIDE DEF c, d
  <2>1. CASE UNCHANGED users
    BY <1>1, <1>2, <1>3, <1>4, <2>1
  <2>2. CASE ~UNCHANGED users /\ users'[a].password = users[a].password
    <3>1. d <= c
      BY <1>4, <2>2
    <3> QED BY <1>1, <1>2, <1>3, <1>6, <2>2, <3>1
  <2>3. CASE /\ ~UNCHANGED users
             /\ users'[a] = [exists |-> TRUE, password |-> 1] /\ ~users[a].exists
    <3>1. d <= c
      BY <1>4, <2>3
    <3>2. users'[a].exists /\ users'[a].password = 1 /\ ~users[a].exists
      BY <2>3
    <3> QED BY <1>1, <1>2, <1>3, <3>1, <3>2
  <2>4. CASE /\ ~UNCHANGED users
             /\ users'[a].password = users[a].password + 1
             /\ users'[a].exists = users[a].exists
             /\ \E r \in Changing(a) : r \notin Changing(a)'
    <3>1. d + 1 <= c
      BY <1>5, <2>4
    <3>2. users'[a].password + d <= users[a].password + c
      BY <1>1, <1>2, <2>4, <3>1
    <3> QED BY <1>1, <1>2, <1>3, <2>4, <3>2
  <2> QED BY <1>6, <2>1, <2>2, <2>3, <2>4
<1> QED BY <1>7, <1>8

LEMMA TypeStep ==
  ASSUME TypeInv, [Next]_vars
  PROVE  TypeInv'
<1>1. TypeOK /\ Shaped /\ OpsMatch
  BY DEF TypeInv
<1>2. PasswordsCounted' /\ OpsMatch'
  BY <1>1, PasswordsStep, OpsStep
<1>3. req' \in [Requests -> Request] /\ Shaped'
  <2>1. CASE UNCHANGED req
    BY <1>1, <2>1 DEF TypeOK, Shaped
  <2>2. ASSUME NEW r \in Requests, NEW q, MovesTo(r, q), Fits(q)
        PROVE  req' \in [Requests -> Request] /\ Shaped'
    <3>1. req' \in [Requests -> Request] /\ \A x \in Requests : Fits(req'[x])
      BY <1>1, <2>2, ShapedFits DEF MovesTo, TypeOK, Fits
    <3> QED BY <3>1 DEF Fits, Shaped
  <2> QED BY <1>1, <2>1, <2>2, StepFits, ReqFrame
<1>4. users' \in [Addresses -> Account]
  <2>1. users' \in [Addresses -> [exists : BOOLEAN, password : Nat]]
    BY <1>1, UsersShape
  <2>2. spent'.changes \in 0 .. MAX_CHANGES
    BY <1>1, SpentTyped
  <2>3. ASSUME NEW a \in Addresses
        PROVE  users'[a].password \in 0 .. MAX_CHANGES + 1
    <3>1. Cardinality(Changing(a)') \in Nat
      <4>1. Changing(a)' \in SUBSET Requests
        BY DEF Changing
      <4> QED BY <4>1, Constants, FS_Subset, FS_CardinalityType
    <3>2. /\ users'[a].password + Cardinality(Changing(a)')
               <= spent'.changes + (IF users'[a].exists THEN 1 ELSE 0)
          /\ users'[a].password \in Nat
      BY <1>2, <2>1 DEF PasswordsCounted
    <3>3. users'[a].password <= spent'.changes + 1
      BY <2>2, <3>1, <3>2, Constants
    <3> QED BY <2>2, <3>2, <3>3, Constants
  <2> QED BY <2>1, <2>3 DEF Account
<1> QED BY <1>1, <1>2, <1>3, <1>4, IdentitiesTyped, SessionsTyped, StampsTyped, FlowsTyped, SpentTyped
        DEF TypeInv, TypeOK

LEMMA TypeInit == Init => TypeInv
<1> SUFFICES ASSUME Init PROVE TypeInv
  OBVIOUS
<1>1. /\ \A r \in Requests : req[r] = At("idle")
      /\ req \in [Requests -> Request]
  BY AtTyped DEF Init, Stages
<1>2. Shaped /\ OpsMatch
  BY <1>1 DEF Shaped, OpsMatch, At, ForUser, WithIdentity, SigningUp, Linking, Ending
<1>3. \A a \in Addresses : Changing(a) = {}
  BY <1>1 DEF Changing, At
<1>4. users \in [Addresses -> Account] /\ spent = [changes |-> 0, faults |-> 0]
  BY Constants DEF Init, Account
<1>5. PasswordsCounted
  <2> SUFFICES ASSUME NEW a \in Addresses
               PROVE  /\ ~users[a].exists => users[a].password = 0 /\ Changing(a) = {}
                      /\ users[a].password + Cardinality(Changing(a))
                           <= spent.changes + (IF users[a].exists THEN 1 ELSE 0)
    BY DEF PasswordsCounted
  <2>1. Cardinality(Changing(a)) = 0 /\ spent.changes = 0
    BY <1>3, <1>4, FS_EmptySet
  <2>2. \/ users[a].exists /\ users[a].password \in 0 .. 1
        \/ ~users[a].exists /\ users[a].password = 0
    BY DEF Init
  <2> QED BY <1>3, <2>1, <2>2
<1>6. Cardinality(Flows) \in Nat
  BY Constants, FS_CardinalityType
<1>7. sessions \in [SessionIds -> SessionRow \cup {NoSession}]
  <2>1. [NoSession EXCEPT !.user = Home, !.state = "active"] \in SessionRow
    BY Constants DEF NoSession, SessionRow
  <2> QED BY <2>1 DEF Init
<1>8. issuedAt \in [SessionIds -> Nat]
  BY DEF Init
<1>9. /\ identities \in [Identities -> Addresses \cup {NULL}]
      /\ lastLogin \in [Identities -> 0 .. Cardinality(Flows)]
      /\ born \in [Addresses -> Identities \cup {NULL}]
      /\ authorizations \in [Flows -> Authorization]
      /\ spent \in [changes : 0 .. MAX_CHANGES, faults : 0 .. MAX_FAULTS]
  BY <1>6, Constants DEF Init, NoFlow, Authorization
<1> QED BY <1>1, <1>2, <1>4, <1>5, <1>7, <1>8, <1>9 DEF TypeInv, TypeOK

--------------------------------------------------------------------------------
(* Rows of users, credentials and flows.                                    *)

\* Whoever comes to hold the row of an account has found it free.
LEMMA HolderStep ==
  ASSUME TypeInv, NEW r \in Requests, Moved(r), HoldsUser(r)'
  PROVE  req'[r].user = req[r].user /\ (HoldsUser(r) \/ UserFree(req[r].user, r))
<1>1. Continued(r) /\ Acted(r)
  BY DEF Moved, Ended, Entered, At, HoldsUser, Locking
<1>2. req'[r].user = req[r].user
  BY <1>1 DEF Continued, HoldsUser, Locking
<1>3. CASE req'[r].pc = "revoke"
  <2>1. req[r].op # "surplus" /\ req[r].pc # "surplus"
    BY <1>1, <1>3 DEF Continued, HoldsUser, Locking, TypeInv, OpsMatch, Ending
  <2>2. LogoutAll(r) \/ ChangePassword(r)
    BY <1>1, <1>3, <2>1 DEF Acted, FindSurplus
  <2> QED BY <1>2, <2>2 DEF LogoutAll, ChangePassword
<1>4. CASE req'[r].pc \in Locking
  <2>1. CASE req[r].pc \in Locking
    BY <1>2, <2>1 DEF HoldsUser
  <2>2. CASE req[r].pc \notin Locking
    <3>1. LinkLocks(r) \/ UnlinkChecks(r)
      BY <1>1, <1>4, <2>2 DEF Continued, Acted, Edges, Locking
    <3> QED BY <1>2, <3>1 DEF LinkLocks, UnlinkChecks
  <2> QED BY <2>1, <2>2
<1> QED BY <1>3, <1>4 DEF HoldsUser

LEMMA RowsStep ==
  ASSUME TypeInv, RowsExclusive, [Next]_vars
  PROVE  RowsExclusive'
<1>0. TypeOK /\ Shaped
  BY DEF TypeInv
<1>1. CASE UNCHANGED req
  BY <1>1 DEF RowsExclusive, HoldsUser
<1>2. ASSUME NEW r \in Requests, Moved(r)
      PROVE  RowsExclusive'
  <2> SUFFICES ASSUME NEW x \in Requests, x # r, HoldsUser(x)', HoldsUser(r)'
               PROVE  req'[x].user # req'[r].user
    <3>1. ASSUME NEW p \in Requests, NEW q \in Requests, p # r, q # r, p # q,
                 HoldsUser(p)', HoldsUser(q)'
          PROVE  req'[p].user # req'[q].user
      BY <1>2, <3>1 DEF Moved, Elsewhere, HoldsUser, RowsExclusive
    <3> QED BY <3>1 DEF RowsExclusive
  <2>1. req'[x] = req[x] /\ HoldsUser(x)
    BY <1>2 DEF Moved, Elsewhere, HoldsUser
  <2>2. req'[r].user = req[r].user /\ (HoldsUser(r) \/ UserFree(req[r].user, r))
    BY <1>2, HolderStep
  <2> QED BY <2>1, <2>2 DEF UserFree, RowsExclusive
<1> QED BY <1>0, <1>1, <1>2, ReqMoves

\* The provider accounts linked to an account.
Linked(a) == {i \in Identities : identities[i] = a}

LEMMA LinkedFinite ==
  \A a : /\ Linked(a) \subseteq Identities /\ IsFiniteSet(Linked(a))
         /\ Cardinality(Linked(a)) \in Nat
<1> TAKE a
<1>1. Linked(a) \in SUBSET Identities
  BY DEF Linked
<1> QED BY <1>1, Constants, FS_Subset, FS_CardinalityType

\* How a step changes them: a provider account is linked when it is nobody's,
\* and unlinked by its own account.
LEMMA IdentitiesMove ==
  ASSUME TypeInv, UnlinkLeavesOne, [Next]_vars
  PROVE  \/ UNCHANGED identities
         \/ \E r \in Requests :
              /\ UnlinkDeletes(r) /\ req[r].identity \in Identities
              /\ identities[req[r].identity] = req[r].user
              /\ identities' = [identities EXCEPT ![req[r].identity] = NULL]
         \/ \E r \in Requests, i \in Identities, a \in Addresses :
              /\ identities[i] = NULL
              /\ identities' = [identities EXCEPT ![i] = a]
              /\ \/ AttachIdentity(r) /\ i = req[r].identity /\ a = req[r].address
                 \/ LinkInserts(r) /\ i = req[r].identity /\ a = req[r].user
<1>1. ASSUME NEW r \in Requests, UnlinkDeletes(r)
      PROVE  /\ req[r].identity \in Identities
             /\ identities[req[r].identity] = req[r].user
             /\ identities' = [identities EXCEPT ![req[r].identity] = NULL]
  BY <1>1 DEF UnlinkDeletes, TypeInv, Shaped, ForUser, WithIdentity, UnlinkLeavesOne
<1>2. ASSUME NEW r \in Requests, AttachIdentity(r), ~UNCHANGED identities
      PROVE  \E i \in Identities, a \in Addresses :
               /\ identities[i] = NULL /\ identities' = [identities EXCEPT ![i] = a]
               /\ i = req[r].identity /\ a = req[r].address
  BY <1>2 DEF AttachIdentity, TypeInv, Shaped, WithIdentity, SigningUp
<1>3. ASSUME NEW r \in Requests, LinkInserts(r), ~UNCHANGED identities
      PROVE  \E i \in Identities, a \in Addresses :
               /\ identities[i] = NULL /\ identities' = [identities EXCEPT ![i] = a]
               /\ i = req[r].identity /\ a = req[r].user
  <2>1. req[r].identity \in Identities /\ req[r].user \in Addresses
    BY <1>3 DEF LinkInserts, TypeInv, Shaped, WithIdentity, ForUser
  <2>2. Clash(r) = {} /\ identities' = [identities EXCEPT ![req[r].identity] = req[r].user]
    BY <1>3 DEF LinkInserts
  <2>3. identities[req[r].identity] = NULL
    BY <2>1, <2>2 DEF Clash
  <2> QED BY <2>1, <2>2, <2>3
<1> QED BY <1>1, <1>2, <1>3, IdentitiesFrame

LEMMA LinkedMove ==
  ASSUME TypeInv, UnlinkLeavesOne, [Next]_vars, NEW a \in Addresses
  PROVE  \/ Linked(a) \subseteq Linked(a)'
         \/ \E r \in Requests : /\ UnlinkDeletes(r) /\ req[r].user = a
                                /\ Linked(a) \ {req[r].identity} \subseteq Linked(a)'
<1>0. identities \in [Identities -> Addresses \cup {NULL}]
  BY DEF TypeInv, TypeOK
<1>1. CASE UNCHANGED identities
  BY <1>1 DEF Linked
<1>2. ASSUME NEW r \in Requests, UnlinkDeletes(r), req[r].identity \in Identities,
             identities[req[r].identity] = req[r].user,
             identities' = [identities EXCEPT ![req[r].identity] = NULL]
      PROVE  \/ Linked(a) \subseteq Linked(a)'
             \/ req[r].user = a /\ Linked(a) \ {req[r].identity} \subseteq Linked(a)'
  BY <1>0, <1>2 DEF Linked
<1>3. ASSUME NEW i \in Identities, NEW b \in Addresses, identities[i] = NULL,
             identities' = [identities EXCEPT ![i] = b]
      PROVE  Linked(a) \subseteq Linked(a)'
  BY <1>0, <1>3, Constants DEF Linked
<1> QED BY <1>1, <1>2, <1>3, IdentitiesMove

\* Credentials only grow, but for the one an unlink deletes.
LEMMA CredentialsMove ==
  ASSUME TypeInv, UnlinkLeavesOne, [Next]_vars, NEW a \in Addresses
  PROVE  /\ Credentials(a) \in Nat /\ Credentials(a)' \in Nat
         /\ \/ Credentials(a)' >= Credentials(a)
            \/ \E r \in Requests : /\ UnlinkDeletes(r) /\ req[r].user = a
                                   /\ Credentials(a)' >= Credentials(a) - 1
<1> DEFINE w == IF users[a].password > 0 THEN 1 ELSE 0
           v == IF users'[a].password > 0 THEN 1 ELSE 0
<1>1. Credentials(a) = w + Cardinality(Linked(a))
      /\ Credentials(a)' = v + Cardinality(Linked(a)')
  BY DEF Credentials, Linked
<1>2. w \in Nat /\ v \in Nat /\ v >= w
  <2>1. /\ users[a].password \in Nat /\ users'[a].password \in Nat
        /\ ~users[a].exists => users[a].password = 0
    BY UsersShape, Constants DEF TypeInv, TypeOK, Account, PasswordsCounted
  <2>2. \/ users'[a].password = users[a].password
        \/ users'[a].password = 1 /\ ~users[a].exists
        \/ users'[a].password = users[a].password + 1
    BY UsersMove DEF TypeInv
  <2> QED BY <2>1, <2>2
<1>3. /\ IsFiniteSet(Linked(a)) /\ Cardinality(Linked(a)) \in Nat
      /\ IsFiniteSet(Linked(a)') /\ Cardinality(Linked(a)') \in Nat
  <2>1. Linked(a)' \in SUBSET Identities
    BY DEF Linked
  <2> QED BY <2>1, LinkedFinite, Constants, FS_Subset, FS_CardinalityType
<1>4. CASE Linked(a) \subseteq Linked(a)'
  <2>1. Cardinality(Linked(a)) <= Cardinality(Linked(a)')
    BY <1>3, <1>4, FS_Subset
  <2> HIDE DEF w, v
  <2> QED BY <1>1, <1>2, <1>3, <2>1
<1>5. ASSUME NEW r \in Requests, UnlinkDeletes(r), req[r].user = a,
             Linked(a) \ {req[r].identity} \subseteq Linked(a)'
      PROVE  Credentials(a)' >= Credentials(a) - 1
  <2>1. Cardinality(Linked(a) \ {req[r].identity}) <= Cardinality(Linked(a)')
    BY <1>3, <1>5, FS_Subset
  <2>2. \/ Cardinality(Linked(a) \ {req[r].identity}) = Cardinality(Linked(a))
        \/ Cardinality(Linked(a) \ {req[r].identity}) = Cardinality(Linked(a)) - 1
    BY <1>3, FS_RemoveElement
  <2> HIDE DEF w, v
  <2> QED BY <1>1, <1>2, <1>3, <2>1, <2>2
<1>6. Credentials(a) \in Nat /\ Credentials(a)' \in Nat
  <2> HIDE DEF w, v
  <2> QED BY <1>1, <1>2, <1>3
<1> QED BY <1>4, <1>5, <1>6, LinkedMove

LEMMA UnlinkStep ==
  ASSUME TypeInv, RowsExclusive, UnlinkLeavesOne, [Next]_vars
  PROVE  UnlinkLeavesOne'
<1> SUFFICES ASSUME NEW x \in Requests, NEW a \in Addresses,
                    req'[x].pc = "unlinkDelete", req'[x].user = a
             PROVE  identities'[req'[x].identity] = a /\ Credentials(a)' >= 2
  BY DEF UnlinkLeavesOne
<1>0. TypeOK /\ Shaped
  BY DEF TypeInv
<1>1. ASSUME req[x].pc = "unlinkDelete", req'[x] = req[x]
      PROVE  identities'[req'[x].identity] = a /\ Credentials(a)' >= 2
  <2>1. /\ req[x].user = a /\ req[x].identity \in Identities
        /\ identities[req[x].identity] = a /\ Credentials(a) >= 2
        /\ HoldsUser(x)
    BY <1>1 DEF TypeInv, Shaped, WithIdentity, UnlinkLeavesOne, HoldsUser, Locking
  <2>2. ASSUME NEW r \in Requests, UnlinkDeletes(r)
        PROVE  req[r].user # a
    <3>1. HoldsUser(r) /\ req'[r].pc = "done"
      BY <2>2 DEF UnlinkDeletes, HoldsUser, Locking, Finish, At, TypeInv, TypeOK
    <3> QED BY <1>1, <2>1, <3>1 DEF RowsExclusive
  <2>3. Credentials(a)' >= Credentials(a) /\ Credentials(a) \in Nat /\ Credentials(a)' \in Nat
    BY <2>2, CredentialsMove
  <2>5. identities'[req[x].identity] = a
    <3>1. identities \in [Identities -> Addresses \cup {NULL}] /\ a # NULL
      BY <1>0, Constants DEF TypeOK
    <3> QED BY <2>1, <2>2, <3>1, IdentitiesMove
  <2> QED BY <1>1, <2>1, <2>3, <2>5
<1>2. ASSUME UnlinkChecks(x)
      PROVE  identities'[req'[x].identity] = a /\ Credentials(a)' >= 2
  <2>0. req[x] \in Request
    BY <1>0 DEF TypeOK
  <2>1. PICK i \in Identities :
          /\ identities[i] = req[x].user /\ ~(Credentials(req[x].user) <= 1)
          /\ req' = [req EXCEPT ![x].pc = "unlinkDelete", ![x].identity = i, ![x].session = NULL]
    <3>1. ~Finish(x)
      BY <1>0 DEF Finish, At, TypeOK
    <3> QED BY <1>2, <3>1 DEF UnlinkChecks
  <2> DEFINE q == [req[x] EXCEPT !.pc = "unlinkDelete", !.identity = i, !.session = NULL]
  <2>2. req'[x] = q
    BY <1>0, <2>1 DEF TypeOK
  <2>3. q.identity = i /\ q.user = req[x].user
    BY <2>0 DEF Request
  <2>4. UNCHANGED <<users, identities>>
    BY <1>2 DEF UnlinkChecks
  <2>5. req[x].user = a
    BY <2>2, <2>3
  <2>6. ~(Credentials(a) <= 1) /\ Credentials(a) \in Nat
    BY <2>1, <2>5, CredentialsMove
  <2>7. Credentials(a)' = Credentials(a)
    BY <2>4 DEF Credentials
  <2>8. identities'[req'[x].identity] = a
    BY <2>1, <2>2, <2>3, <2>4, <2>5
  <2>9. Credentials(a) >= 2
    BY <2>6
  <2> QED BY <2>7, <2>8, <2>9
<1>3. CASE UNCHANGED req
  BY <1>1, <1>3
<1>4. ASSUME NEW r \in Requests, Moved(r)
      PROVE  (req[x].pc = "unlinkDelete" /\ req'[x] = req[x]) \/ UnlinkChecks(x)
  <2>1. CASE x # r
    BY <1>4, <2>1 DEF Moved, Elsewhere
  <2>2. CASE x = r
    BY <1>4, <2>2 DEF Moved, Ended, At, Entered, Acted
  <2> QED BY <2>1, <2>2
<1> QED BY <1>0, <1>1, <1>2, <1>3, <1>4, ReqMoves

LEMMA CredentialStep ==
  ASSUME TypeInv, UnlinkLeavesOne, CredentialKept, [Next]_vars
  PROVE  CredentialKept'
<1> SUFFICES ASSUME NEW a \in Addresses, users'[a].exists
             PROVE  Credentials(a)' > 0
  BY DEF CredentialKept
<1>0. TypeOK /\ Shaped
  BY DEF TypeInv
<1>1. CASE users[a].exists
  <2>1. Credentials(a) > 0 /\ Credentials(a) \in Nat /\ Credentials(a)' \in Nat
    BY <1>1, CredentialsMove DEF CredentialKept
  <2>2. ASSUME NEW r \in Requests, UnlinkDeletes(r), req[r].user = a
        PROVE  Credentials(a) >= 2
    BY <2>2 DEF UnlinkLeavesOne, UnlinkDeletes
  <2> QED BY <2>1, <2>2, CredentialsMove
<1>2. CASE ~users[a].exists
  <2>1. Cardinality(Linked(a)') \in Nat /\ IsFiniteSet(Linked(a)')
    <3>1. Linked(a)' \in SUBSET Identities
      BY DEF Linked
    <3> QED BY <3>1, Constants, FS_Subset, FS_CardinalityType
  <2>2. CASE users'[a].password > 0
    BY <2>1, <2>2 DEF Credentials, Linked
  <2>3. ASSUME NEW r \in Requests, AttachIdentity(r)
        PROVE  Linked(a)' # {}
    <3>1. req[r].address \in Addresses /\ req[r].identity \in Identities
      BY <1>0, <2>3 DEF AttachIdentity, Shaped, SigningUp, WithIdentity
    <3>2. /\ users' = [users EXCEPT ![req[r].address].exists = TRUE]
          /\ identities' = [identities EXCEPT ![req[r].identity] = req[r].address]
      BY <1>2, <2>3 DEF AttachIdentity
    <3>3. a = req[r].address
      BY <1>0, <1>2, <3>1, <3>2 DEF TypeOK
    <3>4. identities'[req[r].identity] = a
      BY <1>0, <3>1, <3>2, <3>3 DEF TypeOK
    <3> QED BY <3>1, <3>4 DEF Linked
  <2>4. ASSUME NEW r \in Requests, RevokeVictims(r)
        PROVE  users'[a].exists = users[a].exists
    <3>1. req[r].user \in Addresses
      BY <1>0, <2>4 DEF RevokeVictims, Shaped, ForUser
    <3>2. \/ UNCHANGED users
          \/ users' = [users EXCEPT ![req[r].user] =
                                     [users[req[r].user] EXCEPT !.password = @ + 1]]
      BY <2>4 DEF RevokeVictims
    <3>3. users[req[r].user] \in Account /\ DOMAIN users = Addresses
      BY <1>0, <3>1 DEF TypeOK
    <3>4. [users[req[r].user] EXCEPT !.password = @ + 1].exists = users[req[r].user].exists
      BY <3>3 DEF Account
    <3> QED BY <3>1, <3>2, <3>3, <3>4
  <2>5. ASSUME NEW b \in Addresses, Register(b)
        PROVE  users'[a].password > 0
    BY <1>0, <1>2, <2>5 DEF Register, TypeOK
  <2>6. CASE Linked(a)' # {}
    <3>1. Cardinality(Linked(a)') # 0
      BY <2>1, <2>6, FS_EmptySet
    <3>2. Credentials(a)' = (IF users'[a].password > 0 THEN 1 ELSE 0) + Cardinality(Linked(a)')
      BY DEF Credentials, Linked
    <3> QED BY <2>1, <3>1, <3>2
  <2> QED BY <1>2, <2>2, <2>3, <2>4, <2>5, <2>6, UsersFrame
<1> QED BY <1>0, <1>1, <1>2 DEF TypeOK, Account

\* What each statement makes of a row of sessions.
Fresh(r) == sessions[r] = NoSession

LEMMA RevokedKeeps ==
  ASSUME TypeOK, NEW rows, NEW how, NEW s \in SessionIds
  PROVE  /\ Revoked(rows, how)[s].user = sessions[s].user
         /\ Revoked(rows, how)[s].flow = sessions[s].flow
         /\ Revoked(rows, how)[s].via = sessions[s].via
         /\ Revoked(rows, how)[s].state =
              IF s \in rows /\ sessions[s].state = "active" THEN how ELSE sessions[s].state
         /\ sessions[s] = NoSession => Revoked(rows, how)[s] = NoSession
BY DEF Revoked, TypeOK, SessionRow, NoSession

\* A row is inserted once, for the request it is named after, or only ends.
LEMMA SessionsMove ==
  ASSUME TypeInv, RowsFresh, [Next]_vars, NEW s \in SessionIds
  PROVE  \/ /\ sessions'[s].user = sessions[s].user /\ sessions'[s].flow = sessions[s].flow
            /\ sessions'[s].via = sessions[s].via
            /\ sessions'[s].state = "active" => sessions[s].state = "active"
            /\ sessions[s] = NoSession => sessions'[s] = NoSession
         \/ /\ s \in Requests /\ Fresh(s) /\ sessions'[s].user = req[s].user
            /\ sessions'[s].flow = req[s].flow
            /\ \/ IssueSession(s) /\ sessions'[s].via = NULL /\ sessions'[s].state = "active"
               \/ /\ req[s].pc \in Linking /\ IssueAndCommit(s)
                  /\ LinkInserts(s) \/ LinkIssues(s)
                  /\ sessions'[s].via = req[s].session
                  /\ sessions'[s].state \in {"active", "revoked"}
<1>0. sessions \in [SessionIds -> SessionRow \cup {NoSession}] /\ TypeOK
  BY DEF TypeInv, TypeOK
<1> DEFINE Kept == /\ sessions'[s].user = sessions[s].user /\ sessions'[s].flow = sessions[s].flow
                   /\ sessions'[s].via = sessions[s].via
                   /\ sessions'[s].state = "active" => sessions[s].state = "active"
                   /\ sessions[s] = NoSession => sessions'[s] = NoSession
<1>1. CASE UNCHANGED sessions
  BY <1>1
<1>2. ASSUME NEW r \in Requests, RevokeVictims(r) \/ Logout(r)
      PROVE  Kept
  <2>1. PICK rows, how : sessions' = Revoked(rows, how) /\ how # "active"
    BY <1>2 DEF RevokeVictims, Logout
  <2> QED BY <1>0, <2>1, RevokedKeeps
<1>3. ASSUME NEW r \in Requests, IssueSession(r)
      PROVE  \/ Kept
             \/ /\ s = r /\ Fresh(s) /\ sessions'[s].user = req[s].user
                /\ sessions'[s].flow = req[s].flow
                /\ sessions'[s].via = NULL /\ sessions'[s].state = "active"
  BY <1>0, <1>3 DEF IssueSession, RowsFresh, Over, Fresh
<1>4. ASSUME NEW r \in Requests, LinkInserts(r) \/ LinkIssues(r), ~UNCHANGED sessions
      PROVE  \/ Kept
             \/ /\ s = r /\ Fresh(s) /\ sessions'[s].user = req[s].user
                /\ sessions'[s].flow = req[s].flow
                /\ req[s].pc \in Linking /\ IssueAndCommit(s)
                /\ sessions'[s].via = req[s].session
                /\ sessions'[s].state \in {"active", "revoked"}
  <2>1. req[r].pc \in Linking /\ IssueAndCommit(r)
    BY <1>4 DEF LinkInserts, LinkIssues, Linking
  <2> DEFINE row == [user |-> req[r].user, state |-> "active", flow |-> req[r].flow,
                     via |-> req[r].session]
             surplus == Surplus(Active(req[r].user) \cup {r})
  <2>2. sessions' = [Revoked(surplus, "revoked")
                       EXCEPT ![r] = IF r \in surplus THEN [row EXCEPT !.state = "revoked"]
                                                      ELSE row]
    BY <2>1 DEF IssueAndCommit
  <2>3. DOMAIN Revoked(surplus, "revoked") = SessionIds /\ r \in SessionIds
    BY Constants DEF Revoked
  <2>4. CASE s # r
    <3>1. sessions'[s] = Revoked(surplus, "revoked")[s]
      BY <2>2, <2>3, <2>4
    <3> HIDE DEF surplus
    <3> QED BY <1>0, <3>1, RevokedKeeps
  <2>5. CASE s = r
    <3>1. sessions'[s] = IF r \in surplus THEN [row EXCEPT !.state = "revoked"] ELSE row
      BY <2>2, <2>3, <2>5
    <3>2. Fresh(s)
      BY <2>1, <2>5 DEF RowsFresh, Fresh, Linking, Over
    <3> HIDE DEF surplus
    <3> QED BY <2>1, <2>5, <3>1, <3>2
  <2> QED BY <2>4, <2>5
<1> QED BY <1>1, <1>2, <1>3, <1>4, SessionsFrame

LEMMA RowsFreshStep ==
  ASSUME TypeInv, RowsFresh, [Next]_vars
  PROVE  RowsFresh'
<1> SUFFICES ASSUME NEW x \in Requests, req'[x].pc \notin Over
             PROVE  sessions'[x] = NoSession
  BY DEF RowsFresh
<1>0. TypeOK /\ Shaped /\ x \in SessionIds /\ req[x] \in Request
  BY Constants DEF TypeInv, TypeOK
<1>1. req[x].pc \notin Over /\ ~IssueSession(x) /\ ~IssueAndCommit(x)
  <2>1. CASE UNCHANGED req
    <3>1. ~IssueSession(x)
      <4>1. [req[x] EXCEPT !.pc = "surplus"].pc = "surplus"
        BY <1>0 DEF Request
      <4> QED BY <1>0, <2>1, <4>1 DEF IssueSession, Goto, TypeOK
    <3>2. req[x].pc # "done"
      BY <2>1 DEF Over
    <3>3. ~IssueAndCommit(x)
      BY <1>0, <2>1, <3>2 DEF IssueAndCommit, Finish, TypeOK, At
    <3> QED BY <2>1, <3>1, <3>3
  <2>2. ASSUME NEW r \in Requests, Moved(r)
        PROVE  req[x].pc \notin Over
    <3>1. CASE x # r
      BY <2>2, <3>1 DEF Moved, Elsewhere
    <3>2. CASE x = r
      BY <2>2, <3>2 DEF Moved, Ended, At, Entered, Continued, Edges, Over
    <3> QED BY <3>1, <3>2
  <2>3. ~IssueSession(x)
    BY <1>0, GotoMoves DEF IssueSession, Edges, Stages, Over
  <2>4. ~IssueAndCommit(x)
    BY <1>0, FinishMoves DEF IssueAndCommit, Ended, At, Over
  <2> QED BY <1>0, <2>1, <2>2, <2>3, <2>4, ReqMoves
<1>2. sessions[x] = NoSession
  BY <1>1 DEF RowsFresh
<1> QED BY <1>0, <1>1, <1>2, SessionsMove

LEMMA FlowsStep ==
  ASSUME TypeInv, RowsFresh, FlowsTakenOnce, [Next]_vars
  PROVE  FlowsTakenOnce'
<1>0. TypeOK /\ Shaped
  BY DEF TypeInv
<1>1. \A f \in Flows : authorizations[f].state = "gone" => authorizations'[f].state = "gone"
  BY <1>0, FlowsFrame DEF StartFlow, Sweep, Consume, TypeOK, Authorization
<1>2. ASSUME NEW s \in SessionIds, NEW f \in Flows, Redeems(s, f)'
      PROVE  Redeems(s, f) \/ (s \in Requests /\ \E p \in Providers : Consume(s, f, p))
  <2>1. CASE sessions'[s].flow = f
    BY <2>1, SessionsMove DEF Redeems
  <2>2. CASE s \in Requests /\ req'[s].flow = f
    <3>1. CASE UNCHANGED req
      BY <2>2, <3>1 DEF Redeems
    <3>2. ASSUME NEW r \in Requests, Moved(r), s # r
          PROVE  Redeems(s, f)
      BY <2>2, <3>2 DEF Moved, Elsewhere, Redeems
    <3>3. ASSUME Moved(s)
          PROVE  Redeems(s, f) \/ \E p \in Providers : Consume(s, f, p)
      <4>1. f # NULL
        BY Constants
      <4> QED BY <2>2, <3>3, <4>1 DEF Moved, Ended, At, Entered, Continued, Redeems
    <3> QED BY <1>0, <2>2, <3>1, <3>2, <3>3, ReqMoves
  <2> QED BY <1>2, <2>1, <2>2 DEF Redeems
<1>3. ASSUME NEW s \in Requests, NEW f \in Flows, NEW p \in Providers, Consume(s, f, p)
      PROVE  /\ authorizations'[f].state = "gone"
             /\ \A t \in SessionIds, g \in Flows : Redeems(t, g)' => Redeems(t, g) \/ (t = s /\ g = f)
             /\ \A t \in SessionIds : ~Redeems(t, f)
  <2>1. authorizations'[f].state = "gone"
    BY <1>0, <1>3 DEF Consume, TypeOK, Authorization
  <2>2. \A t \in SessionIds : ~Redeems(t, f)
    BY <1>3 DEF Consume, FlowsTakenOnce
  <2>3. ASSUME NEW t \in Requests, NEW g \in Flows, NEW p2 \in Providers, Consume(t, g, p2)
        PROVE  t = s /\ g = f
    <3>1. authorizations'[g].state = "gone" /\ authorizations[g].state = "pending"
      BY <1>0, <2>3 DEF Consume, TypeOK, Authorization
    <3>2. g = f
      BY <1>0, <1>3, <3>1 DEF Consume, TypeOK, Authorization
    <3>3. req[s].pc = "idle" /\ req[t].pc = "idle"
      BY <1>3, <2>3 DEF Consume
    <3>4. t = s
      <4>1. Entered(s) /\ Entered(t)
        BY <1>0, <1>3, <2>3, BeginMoves DEF Begin
      <4>2. req'[s] # req[s] /\ req'[t] # req[t]
        BY <3>3, <4>1 DEF Entered
      <4>3. Elsewhere(s)
        BY <1>0, <1>3, StepElsewhere DEF Begin, Step
      <4> QED BY <4>2, <4>3 DEF Elsewhere
    <3> QED BY <3>2, <3>4
  <2> QED BY <1>2, <2>1, <2>2, <2>3
<1> SUFFICES ASSUME NEW f \in Flows, NEW s \in SessionIds, Redeems(s, f)'
             PROVE  /\ authorizations'[f].state = "gone"
                    /\ \A t \in SessionIds : Redeems(t, f)' => s = t
  BY DEF FlowsTakenOnce
<1>4. CASE Redeems(s, f)
  <2>1. authorizations'[f].state = "gone"
    BY <1>1, <1>4 DEF FlowsTakenOnce
  <2>2. ASSUME NEW t \in SessionIds, Redeems(t, f)'
        PROVE  s = t
    BY <1>2, <1>3, <1>4, <2>2 DEF FlowsTakenOnce
  <2> QED BY <2>1, <2>2
<1>5. CASE ~Redeems(s, f)
  <2>1. PICK p \in Providers : s \in Requests /\ Consume(s, f, p)
    BY <1>2, <1>5
  <2> QED BY <1>3, <2>1
<1> QED BY <1>4, <1>5

--------------------------------------------------------------------------------
(* Sign-ups.                                                                *)

LEMMA SignupsStep ==
  ASSUME TypeInv, SignupsExclusive, [Next]_vars
  PROVE  SignupsExclusive'
<1>0. TypeOK /\ Shaped
  BY DEF TypeInv
<1>1. CASE UNCHANGED req
  BY <1>1 DEF SignupsExclusive
<1>2. ASSUME NEW r \in Requests, Moved(r)
      PROVE  SignupsExclusive'
  <2>1. ASSUME req'[r].pc \in SigningUpLocked
        PROVE  /\ req'[r].address = req[r].address
               /\ req[r].pc \in SigningUpLocked \/ SignupLockFree(req[r].address, r)
    <3>1. Continued(r) /\ Acted(r)
      BY <1>2, <2>1 DEF Moved, Ended, At, Entered, SigningUpLocked
    <3>2. req'[r].address = req[r].address
      BY <2>1, <3>1 DEF Continued, SigningUpLocked, SigningUp
    <3>3. CASE req'[r].pc = "lookup"
      BY <3>1, <3>2, <3>3 DEF Acted, ReadUnderLock
    <3>4. CASE req'[r].pc # "lookup"
      BY <2>1, <3>1, <3>2, <3>4 DEF Continued, Edges, SigningUpLocked
    <3> QED BY <3>2, <3>3, <3>4
  <2>2. ASSUME NEW x \in Requests, x # r, req'[x].pc \in SigningUpLocked,
               req'[r].pc \in SigningUpLocked
        PROVE  req'[x].address # req'[r].address
    <3>1. req'[x] = req[x]
      BY <1>2, <2>2 DEF Moved, Elsewhere
    <3> QED BY <2>1, <2>2, <3>1 DEF SignupsExclusive, SignupLockFree, SigningUpLocked
  <2>3. ASSUME NEW p \in Requests, NEW q \in Requests, p # r, q # r, p # q,
               req'[p].pc \in SigningUpLocked, req'[q].pc \in SigningUpLocked
        PROVE  req'[p].address # req'[q].address
    BY <1>2, <2>3 DEF Moved, Elsewhere, SignupsExclusive
  <2> QED BY <2>2, <2>3 DEF SignupsExclusive
<1> QED BY <1>0, <1>1, <1>2, ReqMoves

LEMMA BornStep ==
  ASSUME TypeInv, UnlinkLeavesOne, BornInv, [Next]_vars
  PROVE  BornLinked' /\ NotBornYet'
<1>0. /\ TypeOK /\ Shaped
      /\ identities \in [Identities -> Addresses \cup {NULL}]
      /\ born \in [Addresses -> Identities \cup {NULL}]
  BY DEF TypeInv, TypeOK
<1>1. CASE UNCHANGED born
  <2>1. BornLinked'
    <3> SUFFICES ASSUME NEW a \in Addresses, born[a] # NULL
                 PROVE  identities'[born[a]] = a
      BY <1>1 DEF BornLinked
    <3>1. born[a] \in Identities /\ identities[born[a]] = a /\ a # NULL
      BY <1>0, Constants DEF BornInv, BornLinked
    <3>2. ASSUME NEW r \in Requests, UnlinkDeletes(r)
          PROVE  born[a] # req[r].identity
      BY <1>1, <3>1, <3>2, Constants DEF UnlinkDeletes
    <3> QED BY <1>0, <3>1, <3>2, IdentitiesMove
  <2>2. NotBornYet'
    <3> SUFFICES ASSUME NEW x \in Requests, req'[x].pc \in SigningUpLocked
                 PROVE  born[req'[x].address] # req'[x].identity
      BY <1>1 DEF NotBornYet
    <3>1. CASE UNCHANGED req
      BY <3>1 DEF BornInv, NotBornYet
    <3>2. ASSUME NEW r \in Requests, Moved(r)
          PROVE  born[req'[x].address] # req'[x].identity
      <4>1. CASE x # r
        BY <3>2, <4>1 DEF Moved, Elsewhere, BornInv, NotBornYet
      <4>2. CASE x = r
        <5>1. Continued(x) /\ Acted(x)
          BY <3>2, <4>2 DEF Moved, Ended, At, Entered, SigningUpLocked
        <5>2. req'[x].address = req[x].address /\ req'[x].identity = req[x].identity
          BY <5>1 DEF Continued, SigningUpLocked, SigningUp
        <5>3. CASE req[x].pc \in SigningUpLocked
          BY <5>2, <5>3 DEF BornInv, NotBornYet
        <5>4. CASE req[x].pc \notin SigningUpLocked
          <6>1. req'[x].pc = "lookup" /\ ReadUnderLock(x)
            BY <5>1, <5>4 DEF Continued, Acted, Edges, SigningUpLocked
          <6>2. req[x].identity \in Identities /\ req[x].address \in Addresses
            BY <1>0, <6>1 DEF ReadUnderLock, Shaped, WithIdentity, SigningUp
          <6>3. identities[req[x].identity] = NULL
            <7>1. ~SignedIn(x)
              BY <1>0, <6>1, SignedInMoves DEF ReadUnderLock
            <7> QED BY <6>1, <7>1 DEF ReadUnderLock
          <6> QED BY <5>2, <6>2, <6>3, Constants DEF BornInv, BornLinked
        <5> QED BY <5>3, <5>4
      <4> QED BY <4>1, <4>2
    <3> QED BY <1>0, <3>1, <3>2, ReqMoves
  <2> QED BY <2>1, <2>2
<1>2. ASSUME NEW r \in Requests, UnlinkDeletes(r)
      PROVE  BornLinked' /\ NotBornYet'
  <2>1. /\ req[r].identity \in Identities
        /\ identities' = [identities EXCEPT ![req[r].identity] = NULL]
        /\ born' = [a \in Addresses |-> IF born[a] = req[r].identity THEN NULL ELSE born[a]]
        /\ Finish(r)
    BY <1>0, <1>2 DEF UnlinkDeletes, Shaped, WithIdentity
  <2>2. BornLinked'
    BY <1>0, <2>1 DEF BornInv, BornLinked
  <2>3. NotBornYet'
    <3> SUFFICES ASSUME NEW x \in Requests, req'[x].pc \in SigningUpLocked
                 PROVE  born'[req'[x].address] # req'[x].identity
      BY DEF NotBornYet
    <3>1. req'[x] = req[x]
      BY <1>0, <2>1 DEF Finish, At, TypeOK, SigningUpLocked
    <3>2. req[x].identity \in Identities /\ req[x].address \in Addresses
      BY <1>0, <3>1 DEF Shaped, WithIdentity, SigningUp, SigningUpLocked
    <3>3. born[req[x].address] # req[x].identity
      BY <3>1 DEF BornInv, NotBornYet
    <3> QED BY <2>1, <3>1, <3>2, <3>3, Constants
  <2> QED BY <2>2, <2>3
<1>3. ASSUME NEW r \in Requests, AttachIdentity(r), ~UNCHANGED born
      PROVE  BornLinked' /\ NotBornYet'
  <2> DEFINE a == req[r].address
             i == req[r].identity
  <2>1. /\ i \in Identities /\ a \in Addresses /\ req[r].pc = "attach"
        /\ identities[i] = NULL
        /\ identities' = [identities EXCEPT ![i] = a]
        /\ born' = [born EXCEPT ![a] = i]
    BY <1>0, <1>3 DEF AttachIdentity, Shaped, WithIdentity, SigningUp
  <2>2. BornLinked'
    BY <1>0, <2>1, Constants DEF BornInv, BornLinked
  <2>3. NotBornYet'
    <3> SUFFICES ASSUME NEW x \in Requests, req'[x].pc \in SigningUpLocked
                 PROVE  born'[req'[x].address] # req'[x].identity
      BY DEF NotBornYet
    <3>0. Moved(r)
      BY <1>0, <1>3, StepMoves DEF Step, IdentityStep
    <3>1. x # r
      BY <2>1, <3>0 DEF Moved, Ended, At, Entered, Continued, Edges, SigningUpLocked
    <3>2. req'[x] = req[x]
      BY <3>0, <3>1 DEF Moved, Elsewhere
    <3>3. req[x].address # a /\ born[req[x].address] # req[x].identity
      BY <2>1, <3>1, <3>2 DEF BornInv, SignupsExclusive, NotBornYet, SigningUpLocked
    <3>4. req[x].address \in Addresses
      BY <1>0, <3>2 DEF Shaped, SigningUp, SigningUpLocked
    <3> QED BY <1>0, <2>1, <3>2, <3>3, <3>4
  <2> QED BY <2>2, <2>3
<1> QED BY <1>1, <1>2, <1>3, BornFrame

\* A refusal over the address comes only from the two steps that look it up.
LEMMA RefusalMoves ==
  ASSUME TypeInv, [Next]_vars, NEW r \in Requests, req[r].pc \in {"lookup", "winner"},
         req'[r].pc = "done"
  PROVE  req[r].pc = "lookup" \/ identities[req[r].identity] = NULL
<1>0. TypeOK /\ Shaped
  BY DEF TypeInv
<1>1. req' # req
  BY DEF TypeInv
<1>2. PICK x \in Requests : Step(x) /\ Moved(x)
  BY <1>0, <1>1, ReqMoves
<1>3. x = r
  BY <1>2 DEF Moved, Elsewhere
<1>4. CASE req[r].pc = "winner"
  <2>1. ~Begin(r) /\ ~SessionStep(r) /\ ~LinkStep(r)
    BY <1>4 DEF Begin, Login, Guarded, ChangeRequested, Consume, SessionStep, InsertWaits,
                IssueSession,
                FindSurplus, RevokeVictims, Logout, LogoutAll, ChangePassword, LinkStep,
                LinkLocks, LinkReadsOwner, LinkInserts, LinkIssues
  <2>2. ~Die(r)
    BY <1>0 DEF Die, At, TypeOK
  <2>3. ResolveWinner(r)
    BY <1>2, <1>3, <1>4, <2>1, <2>2
       DEF Step, IdentityStep, UnlinkChecks, UnlinkDeletes, ProviderAnswers, ProviderFails,
           FindOwner, ReadUnderLock, LookupAddress, CreateAccount, AttachIdentity
  <2>4. ~SignedIn(r)
    BY <1>0, <1>4, SignedInMoves
  <2> QED BY <2>3, <2>4 DEF ResolveWinner
<1> QED BY <1>4

LEMMA TakenStep ==
  ASSUME TypeInv, BornInv, [Next]_vars, NEW r \in Requests, req[r].pc \in {"lookup", "winner"},
         req'[r].pc = "done"
  PROVE  born[req[r].address] # req[r].identity
<1>1. req[r].identity \in Identities /\ req[r].address \in Addresses
  BY DEF TypeInv, Shaped, WithIdentity, SigningUp
<1>2. CASE req[r].pc = "lookup"
  BY <1>2 DEF BornInv, NotBornYet, SigningUpLocked
<1>3. CASE identities[req[r].identity] = NULL
  BY <1>1, <1>3, Constants DEF BornInv, BornLinked
<1> QED BY <1>2, <1>3, RefusalMoves

\* What becomes of a linked provider account.
LEMMA IdentityRowStep ==
  ASSUME TypeInv, UnlinkLeavesOne, [Next]_vars, NEW i \in Identities, identities[i] # NULL
  PROVE  \/ identities'[i] = NULL
         \/ identities'[i] = identities[i] /\ lastLogin'[i] >= lastLogin[i]
<1>0. /\ TypeOK /\ Shaped
      /\ identities \in [Identities -> Addresses \cup {NULL}]
      /\ lastLogin \in [Identities -> Nat]
      /\ \A r \in Requests : req[r].now \in Nat
  <2>1. Cardinality(Flows) \in Nat
    BY Constants, FS_CardinalityType
  <2> QED BY <2>1 DEF TypeInv, TypeOK, Request
<1>1. identities'[i] \in {identities[i], NULL}
  BY <1>0, IdentitiesMove
<1>2. lastLogin'[i] >= lastLogin[i]
  <2>1. ASSUME NEW r \in Requests, SignedIn(r)
        PROVE  lastLogin'[i] >= lastLogin[i]
    BY <1>0, <2>1 DEF SignedIn, Recorded
  <2>2. ASSUME NEW r \in Requests, AttachIdentity(r) \/ LinkInserts(r), ~UNCHANGED lastLogin
        PROVE  lastLogin'[i] = lastLogin[i]
    <3>1. req[r].identity \in Identities
      BY <1>0, <2>2 DEF AttachIdentity, LinkInserts, Shaped, WithIdentity, SigningUp
    <3>2. lastLogin' = [lastLogin EXCEPT ![req[r].identity] = req[r].now]
          /\ identities[req[r].identity] = NULL
      BY <2>2, <3>1 DEF AttachIdentity, LinkInserts, Clash
    <3> QED BY <1>0, <3>1, <3>2
  <2>3. ASSUME NEW r \in Requests, FindOwner(r) \/ ReadUnderLock(r) \/ ResolveWinner(r)
        PROVE  UNCHANGED lastLogin \/ SignedIn(r)
    BY <2>3 DEF FindOwner, ReadUnderLock, ResolveWinner
  <2> QED BY <1>0, <2>1, <2>2, <2>3, LastLoginFrame
<1> QED BY <1>1, <1>2

--------------------------------------------------------------------------------
(* Sessions and links.                                                      *)

LEMMA LinksStep ==
  ASSUME TypeInv, RowsExclusive, SessionInv, [Next]_vars
  PROVE  LinksHold'
<1> SUFFICES ASSUME NEW x \in Requests, req'[x].pc \in Linking
             PROVE  /\ req'[x].session \in SessionIds
                    /\ sessions'[req'[x].session].user = req'[x].user
                    /\ sessions'[req'[x].session].state = "active"
  BY DEF LinksHold, Active
<1>0. /\ TypeOK /\ Shaped /\ RowsFresh
      /\ sessions \in [SessionIds -> SessionRow \cup {NoSession}]
  BY DEF TypeInv, TypeOK, SessionInv
<1>1. ASSUME LinkLocks(x)
      PROVE  /\ req'[x].session \in SessionIds
             /\ sessions'[req'[x].session].user = req'[x].user
             /\ sessions'[req'[x].session].state = "active"
  <2>1. ~Finish(x)
    BY <1>0 DEF Finish, At, Linking, TypeOK
  <2>2. SessionHolds(x) /\ UNCHANGED sessions /\ Goto(x, "linkOwner")
    BY <1>1, <2>1 DEF LinkLocks, Refuse
  <2>3. req'[x] = [req[x] EXCEPT !.pc = "linkOwner"] /\ req[x] \in Request
    BY <1>0, <2>2 DEF Goto, TypeOK
  <2>4. req'[x].session = req[x].session /\ req'[x].user = req[x].user
    BY <2>3 DEF Request
  <2> QED BY <2>2, <2>4 DEF SessionHolds, Active
<1>2. ASSUME req[x].pc \in Linking, req'[x].session = req[x].session, req'[x].user = req[x].user
      PROVE  /\ req'[x].session \in SessionIds
             /\ sessions'[req'[x].session].user = req'[x].user
             /\ sessions'[req'[x].session].state = "active"
  <2> DEFINE s == req[x].session
  <2>1. s \in SessionIds /\ sessions[s].user = req[x].user /\ sessions[s].state = "active"
    BY <1>2 DEF SessionInv, LinksHold, Active
  <2>2. sessions'[s].user = sessions[s].user
    BY <1>0, <2>1, SessionsMove DEF Fresh, NoSession
  <2>3. ASSUME NEW r \in Requests, NEW rows, NEW how, sessions' = Revoked(rows, how), s \notin rows
        PROVE  sessions'[s].state = "active"
    BY <1>0, <2>1, <2>3, RevokedKeeps
  <2>4. ASSUME NEW r \in Requests, RevokeVictims(r) \/ Logout(r)
        PROVE  sessions'[s].state = "active"
    <3>1. r # x
      BY <1>2, <2>4 DEF RevokeVictims, Logout, Linking
    <3>2. \A q \in SessionIds : RowFree(q, r) => q # s
      BY <1>2, <3>1 DEF RowFree, Linking, Locking
    <3>3. CASE RevokeVictims(r)
      BY <2>1, <2>3, <3>2, <3>3 DEF RevokeVictims
    <3>4. CASE Logout(r)
      BY <2>1, <2>3, <3>2, <3>4 DEF Logout
    <3> QED BY <2>4, <3>3, <3>4
  <2>5. ASSUME NEW r \in Requests, IssueSession(r)
        PROVE  sessions'[s].state = "active"
    BY <1>0, <2>1, <2>5 DEF IssueSession
  <2>6. ASSUME NEW r \in Requests, LinkInserts(r) \/ LinkIssues(r), ~UNCHANGED sessions
        PROVE  sessions'[s].state = "active"
    <3>1. req[r].pc \in Linking /\ IssueAndCommit(r)
      BY <2>6 DEF LinkInserts, LinkIssues, Linking
    <3>2. req'[r].pc = "done"
      BY <1>0, <3>1 DEF IssueAndCommit, Finish, At, TypeOK
    <3>3. r # x
      BY <3>2 DEF Linking
    <3>4. req[r].user # req[x].user
      BY <1>2, <3>1, <3>3 DEF RowsExclusive, HoldsUser, Locking, Linking
    <3>5. r # s
      BY <2>1, <3>1 DEF SessionInv, RowsFresh, NoSession, Linking, Over
    <3>6. s \notin Surplus(Active(req[r].user) \cup {r})
      BY <2>1, <3>4, <3>5 DEF Surplus, Active
    <3>7. sessions'[s] = Revoked(Surplus(Active(req[r].user) \cup {r}), "revoked")[s]
      BY <2>1, <3>1, <3>5 DEF IssueAndCommit, Revoked
    <3> QED BY <1>0, <2>1, <3>6, <3>7, RevokedKeeps
  <2> QED BY <1>2, <2>1, <2>2, <2>4, <2>5, <2>6, SessionsFrame
<1>3. CASE UNCHANGED req
  BY <1>2, <1>3
<1>4. ASSUME NEW r \in Requests, Moved(r)
      PROVE  \/ LinkLocks(x)
             \/ req[x].pc \in Linking /\ req'[x].session = req[x].session /\ req'[x].user = req[x].user
  <2>1. CASE x # r
    BY <1>4, <2>1 DEF Moved, Elsewhere
  <2>2. CASE x = r
    BY <1>4, <2>2 DEF Moved, Ended, At, Entered, Continued, Edges, Acted, Linking
  <2> QED BY <2>1, <2>2
<1> QED BY <1>0, <1>1, <1>2, <1>3, <1>4, ReqMoves

\* Victims are sought among the sessions of the account, and never changed.
LEMMA VictimsMove ==
  ASSUME TypeInv, [Next]_vars, NEW x \in Requests, req'[x].pc = "revoke"
  PROVE  \/ req'[x] = req[x]
         \/ /\ UNCHANGED sessions
            /\ req'[x].user = req[x].user /\ req'[x].op = req[x].op /\ req[x].user \in Addresses
            /\ req'[x].victims \subseteq Active(req[x].user)
            /\ req[x].op = "logoutAll" => req'[x].victims = Active(req[x].user)
            /\ req[x].op = "surplus" => /\ FindSurplus(x)
                                        /\ req'[x].victims = Surplus(Active(req[x].user))
<1>0. TypeOK /\ Shaped /\ OpsMatch /\ req[x] \in Request
  BY DEF TypeInv, TypeOK
<1>1. CASE UNCHANGED req
  BY <1>1
<1>2. ASSUME NEW r \in Requests, Moved(r), x # r
      PROVE  req'[x] = req[x]
  BY <1>2 DEF Moved, Elsewhere
<1>3. ASSUME Moved(x)
      PROVE  FindSurplus(x) \/ LogoutAll(x) \/ ChangePassword(x)
  BY <1>3 DEF Moved, Ended, At, Entered, Acted
<1>4. ASSUME NEW v, req' = [req EXCEPT ![x].pc = "revoke", ![x].victims = v]
      PROVE  req'[x].user = req[x].user /\ req'[x].op = req[x].op /\ req'[x].victims = v
  <2> DEFINE q == [req[x] EXCEPT !.pc = "revoke", !.victims = v]
  <2>1. req'[x] = q
    BY <1>0, <1>4 DEF TypeOK
  <2>2. q.user = req[x].user /\ q.op = req[x].op /\ q.victims = v
    BY <1>0 DEF Request
  <2> QED BY <2>1, <2>2
<1>5. ASSUME FindSurplus(x)
      PROVE  /\ UNCHANGED sessions
             /\ req'[x].user = req[x].user /\ req'[x].op = req[x].op
             /\ req[x].user \in Addresses /\ req[x].op = "surplus"
             /\ req'[x].victims = Surplus(Active(req[x].user))
  <2>1. req[x].user \in Addresses /\ req[x].op = "surplus" /\ UNCHANGED sessions
    BY <1>0, <1>5 DEF FindSurplus, Shaped, ForUser, OpsMatch, Ending
  <2>2. req' = [req EXCEPT ![x].pc = "revoke", ![x].victims = Surplus(Active(req[x].user))]
    BY <1>5 DEF FindSurplus
  <2>3. /\ req'[x].user = req[x].user /\ req'[x].op = req[x].op
        /\ req'[x].victims = Surplus(Active(req[x].user))
    BY <1>4, <2>2
  <2> QED BY <2>1, <2>3
<1>6. ASSUME LogoutAll(x)
      PROVE  /\ UNCHANGED sessions
             /\ req'[x].user = req[x].user /\ req'[x].op = req[x].op
             /\ req[x].user \in Addresses /\ req[x].op = "logoutAll"
             /\ req'[x].victims = Active(req[x].user)
  BY <1>0, <1>4, <1>6 DEF LogoutAll, Shaped, ForUser, OpsMatch
<1>7. CASE ChangePassword(x) /\ req[x].pc = "change"
  <2>1. /\ UNCHANGED sessions
        /\ req'[x].user = req[x].user /\ req'[x].op = req[x].op
        /\ req[x].user \in Addresses
        /\ req'[x].victims = Active(req[x].user) \ {req[x].session}
    BY <1>0, <1>4, <1>7 DEF ChangePassword, Shaped, ForUser
  <2>2. req[x].op = "change"
    BY <1>0, <1>7 DEF OpsMatch
  <2> QED BY <2>1, <2>2
<1>8. Surplus(Active(req[x].user)) \subseteq Active(req[x].user)
  BY DEF Surplus
<1> QED BY <1>0, <1>1, <1>2, <1>3, <1>5, <1>6, <1>7, <1>8, ReqMoves DEF ChangePassword

LEMMA VictimsOwnStep ==
  ASSUME TypeInv, SessionInv, [Next]_vars
  PROVE  VictimsOwn'
<1> SUFFICES ASSUME NEW x \in Requests, req'[x].pc = "revoke", NEW s \in req'[x].victims
             PROVE  sessions'[s].user = req'[x].user
  BY DEF VictimsOwn
<1>1. CASE req'[x] = req[x]
  <2>1. s \in SessionIds /\ sessions[s].user = req[x].user /\ req[x].user # NULL
    BY <1>1, Constants DEF TypeInv, TypeOK, Shaped, ForUser, Request, SessionInv, VictimsOwn
  <2>2. ~Fresh(s)
    BY <2>1 DEF Fresh, NoSession
  <2> QED BY <1>1, <2>1, <2>2, SessionsMove DEF SessionInv
<1>2. CASE req'[x] # req[x]
  BY <1>2, VictimsMove DEF Active
<1> QED BY <1>1, <1>2

LEMMA ViasStep ==
  ASSUME TypeInv, SessionInv, [Next]_vars
  PROVE  ViasOwn'
<1> SUFFICES ASSUME NEW s \in SessionIds, sessions'[s].via # NULL
             PROVE  sessions'[sessions'[s].via].user = sessions'[s].user
  BY DEF ViasOwn
<1>0. /\ sessions \in [SessionIds -> SessionRow \cup {NoSession}]
      /\ sessions' \in [SessionIds -> SessionRow \cup {NoSession}]
  BY SessionsTyped DEF TypeInv, TypeOK
<1>1. PICK v \in SessionIds : v = sessions'[s].via
  BY <1>0 DEF SessionRow, NoSession
<1>2. CASE sessions'[s].via = sessions[s].via /\ sessions'[s].user = sessions[s].user
  <2>1. sessions[v].user = sessions[s].user /\ sessions[s].user # NULL
    BY <1>0, <1>1, <1>2, Constants DEF SessionInv, ViasOwn, SessionRow, NoSession
  <2>2. ~Fresh(v)
    BY <2>1 DEF Fresh, NoSession
  <2> QED BY <1>1, <1>2, <2>1, <2>2, SessionsMove DEF SessionInv
<1>3. CASE s \in Requests /\ req[s].pc \in Linking /\ sessions'[s].via = req[s].session
           /\ sessions'[s].user = req[s].user
  <2>1. sessions[v].user = req[s].user /\ sessions[v].state = "active"
    BY <1>1, <1>3 DEF SessionInv, LinksHold, Active
  <2>2. ~Fresh(v)
    BY <2>1 DEF Fresh, NoSession
  <2> QED BY <1>1, <1>3, <2>1, <2>2, SessionsMove DEF SessionInv
<1> QED BY <1>2, <1>3, SessionsMove DEF SessionInv

LEMMA VictimsClosedStep ==
  ASSUME TypeInv, RowsExclusive, SessionInv, [Next]_vars
  PROVE  VictimsClosed'
<1> SUFFICES ASSUME NEW x \in Requests, req'[x].pc = "revoke", req'[x].op = "logoutAll",
                    NEW s \in SessionIds, sessions'[s].state = "active",
                    sessions'[s].via \in req'[x].victims
             PROVE  s \in req'[x].victims
  BY DEF VictimsClosed
<1>0. sessions \in [SessionIds -> SessionRow \cup {NoSession}]
      /\ \A r \in Requests : req[r] \in Request
  BY DEF TypeInv, TypeOK
<1>1. CASE req'[x] = req[x]
  <2>0. sessions'[s].via \in SessionIds /\ NULL \notin SessionIds
    BY <1>0, <1>1, Constants DEF Request
  <2>1. CASE sessions'[s].via = sessions[s].via /\ sessions[s].state = "active"
    BY <1>1, <2>1 DEF SessionInv, VictimsClosed
  <2>2. CASE s \in Requests /\ req[s].pc \in Linking /\ IssueAndCommit(s)
             /\ sessions'[s].via = req[s].session
    <3>1. sessions[req[s].session].user = req[s].user
      BY <2>2 DEF SessionInv, LinksHold, Active
    <3>2. sessions[req[s].session].user = req[x].user
      BY <1>1, <2>2 DEF SessionInv, VictimsOwn
    <3>3. HoldsUser(s) /\ HoldsUser(x) /\ s # x
      BY <1>1, <2>2 DEF HoldsUser, Locking, Linking
    <3> QED BY <2>2, <3>1, <3>2, <3>3 DEF RowsExclusive
  <2> QED BY <2>0, <2>1, <2>2, SessionsMove DEF SessionInv
<1>2. CASE req'[x] # req[x]
  <2>1. UNCHANGED sessions /\ req'[x].victims = Active(req[x].user)
    BY <1>2, VictimsMove
  <2>2. sessions[s].via # NULL
    BY <2>1, Constants DEF Active
  <2>3. sessions[s].user = req[x].user
    BY <2>1, <2>2 DEF Active, SessionInv, ViasOwn
  <2> QED BY <2>1, <2>3 DEF Active
<1> QED BY <1>1, <1>2

LEMMA LinkedStep ==
  ASSUME TypeInv, RowsExclusive, SessionInv, [Next]_vars
  PROVE  LinkedSessionRevoked'
<1> SUFFICES ASSUME NEW s \in SessionIds, sessions'[s].state = "active", sessions'[s].via # NULL
             PROVE  sessions'[sessions'[s].via].state # "revokedAll"
  BY DEF LinkedSessionRevoked
<1>0. /\ sessions \in [SessionIds -> SessionRow \cup {NoSession}] /\ TypeOK
      /\ sessions' \in [SessionIds -> SessionRow \cup {NoSession}]
  BY SessionsTyped DEF TypeInv, TypeOK
<1>1. PICK v \in SessionIds : v = sessions'[s].via
  BY <1>0 DEF SessionRow, NoSession
\* Only logging out everywhere ends a session this way.
<1>2. ASSUME sessions[v].state # "revokedAll", sessions'[v].state = "revokedAll"
      PROVE  \E r \in Requests : /\ RevokeVictims(r) /\ req[r].op = "logoutAll"
                                 /\ v \in req[r].victims
  <2>1. ~UNCHANGED sessions
    BY <1>2
  <2>2. ASSUME NEW rows, NEW how, sessions' = Revoked(rows, how)
        PROVE  how = "revokedAll" /\ v \in rows
    BY <1>0, <1>2, <2>2, RevokedKeeps
  <2>3. ASSUME NEW r \in Requests, Logout(r)
        PROVE  FALSE
    BY <2>2, <2>3 DEF Logout
  <2>4. ASSUME NEW r \in Requests, RevokeVictims(r)
        PROVE  req[r].op = "logoutAll" /\ v \in req[r].victims
    BY <2>2, <2>4 DEF RevokeVictims
  <2>5. ASSUME NEW r \in Requests, IssueSession(r)
        PROVE  FALSE
    BY <1>0, <1>2, <2>5 DEF IssueSession
  <2>6. ASSUME NEW r \in Requests, LinkInserts(r) \/ LinkIssues(r)
        PROVE  FALSE
    <3> DEFINE surplus == Surplus(Active(req[r].user) \cup {r})
               row == [user |-> req[r].user, state |-> "active", flow |-> req[r].flow,
                       via |-> req[r].session]
    <3>1. sessions' = [Revoked(surplus, "revoked")
                         EXCEPT ![r] = IF r \in surplus THEN [row EXCEPT !.state = "revoked"]
                                                        ELSE row]
      BY <2>1, <2>6 DEF LinkInserts, LinkIssues, IssueAndCommit
    <3>2. DOMAIN Revoked(surplus, "revoked") = SessionIds
      BY DEF Revoked
    <3>3. sessions'[v] = Revoked(surplus, "revoked")[v] \/ sessions'[v] = row
          \/ sessions'[v] = [row EXCEPT !.state = "revoked"]
      BY <3>1, <3>2
    <3> HIDE DEF surplus
    <3>4. Revoked(surplus, "revoked")[v].state # "revokedAll"
      BY <1>0, <1>2, RevokedKeeps
    <3> QED BY <1>2, <3>3, <3>4
  <2> QED BY <2>1, <2>3, <2>4, <2>5, <2>6, SessionsFrame
<1>3. CASE sessions'[s].via = sessions[s].via /\ sessions[s].state = "active"
  <2>1. sessions[v].state # "revokedAll"
    BY <1>1, <1>3 DEF SessionInv, LinkedSessionRevoked
  <2>2. ASSUME NEW r \in Requests, RevokeVictims(r), req[r].op = "logoutAll",
               v \in req[r].victims
        PROVE  FALSE
    <3>1. s \in req[r].victims
      BY <1>1, <1>3, <2>2 DEF SessionInv, VictimsClosed, RevokeVictims
    <3>2. sessions'[s].state = "revokedAll"
      BY <1>0, <1>3, <2>2, <3>1, RevokedKeeps DEF RevokeVictims
    <3> QED BY <3>2
  <2> QED BY <1>1, <1>2, <2>1, <2>2
<1>4. CASE s \in Requests /\ req[s].pc \in Linking /\ IssueAndCommit(s)
           /\ sessions'[s].via = req[s].session
  <2>1. sessions[v].state # "revokedAll"
    BY <1>1, <1>4 DEF SessionInv, LinksHold, Active
  <2>2. ASSUME NEW r \in Requests, RevokeVictims(r)
        PROVE  FALSE
    <3>1. Finish(s) /\ Finish(r)
      BY <1>4, <2>2 DEF RevokeVictims, IssueAndCommit
    <3>2. req'[s].pc = "done" /\ req'[r].pc = "done" /\ s = r
      BY <1>0, <1>4, <2>2, <3>1 DEF Finish, At, TypeOK, Linking, RevokeVictims
    <3> QED BY <1>4, <2>2, <3>2 DEF RevokeVictims, Linking
  <2> QED BY <1>1, <1>2, <2>1, <2>2
<1> QED BY <1>0, <1>1, <1>3, <1>4, SessionsMove DEF SessionInv

--------------------------------------------------------------------------------
(* The cap.                                                                 *)

LEMMA StampedNow ==
  ASSUME issuedAt \in [SessionIds -> Nat], NEW r \in Requests, r \in SessionIds,
         issuedAt' = Stamped(r)
  PROVE  issuedAt'[r] # 0
<1>1. issuedAt'[r] = Latest + 1
  BY DEF Stamped
<1> QED BY <1>1, LatestIsLast

LEMMA StampsStep ==
  ASSUME TypeInv, SessionInv, StampsDistinct, ActiveStamped, [Next]_vars
  PROVE  StampsDistinct' /\ ActiveStamped'
<1>0. /\ TypeOK /\ Shaped /\ issuedAt \in [SessionIds -> Nat] /\ issuedAt' \in [SessionIds -> Nat]
      /\ \A r \in Requests : r \in SessionIds
  BY StampsTyped, Constants DEF TypeInv, TypeOK
<1>1. StampsDistinct'
  <2>1. ASSUME NEW r \in Requests, issuedAt' = Stamped(r)
        PROVE  StampsDistinct'
    <3>1. \A s \in SessionIds : issuedAt'[s] = IF s = r THEN Latest + 1 ELSE issuedAt[s]
      BY <1>0, <2>1 DEF Stamped
    <3>2. \A s \in SessionIds : issuedAt[s] # Latest + 1
      BY <1>0, LatestIsLast
    <3> QED BY <3>1, <3>2 DEF StampsDistinct
  <2>2. ASSUME NEW r \in Requests, issuedAt' = Unstamped(r)
        PROVE  StampsDistinct'
    BY <1>0, <2>2 DEF Unstamped, StampsDistinct
  <2> QED BY <2>1, <2>2, StampsFrame DEF StampsDistinct
\* A stamp is taken back only from a request that has no row, and is over.
<1>2. ASSUME NEW r \in SessionIds, issuedAt[r] # 0, issuedAt'[r] = 0
      PROVE  /\ r \in Requests /\ Ended(r) /\ UNCHANGED sessions
             /\ sessions[r].state = "none"
  <2>1. ~(issuedAt' = issuedAt)
    BY <1>2
  <2>2. ASSUME NEW q \in Requests, issuedAt' = Stamped(q)
        PROVE  FALSE
    <3>1. Latest + 1 # 0 /\ Latest \in Nat
      BY <1>0, LatestIsLast
    <3>2. issuedAt'[r] = IF r = q THEN Latest + 1 ELSE issuedAt[r]
      BY <1>0, <2>2 DEF Stamped
    <3> QED BY <1>2, <3>1, <3>2
  <2>3. PICK q \in Requests :
          /\ issuedAt' = Unstamped(q)
          /\ \/ Refuse(q) /\ LinkStep(q) /\ UNCHANGED sessions
             \/ sessions[q].state = "none" /\ Die(q)
    BY <2>1, <2>2, StampsFrame
  <2>4. r = q
    BY <1>0, <1>2, <2>3 DEF Unstamped
  <2>5. CASE Refuse(q) /\ LinkStep(q) /\ UNCHANGED sessions
    <3>1. req[q].pc \in Linking \cup {"linkLock"}
      BY <2>5 DEF LinkStep, LinkLocks, LinkReadsOwner, LinkInserts, LinkIssues, Linking
    <3>2. sessions[q] = NoSession
      BY <3>1 DEF SessionInv, RowsFresh, Over, Linking
    <3> QED BY <1>0, <2>4, <2>5, <3>2, FinishMoves DEF Refuse, NoSession
  <2>6. CASE sessions[q].state = "none" /\ Die(q)
    BY <1>0, <2>4, <2>6 DEF Die, Ended, TypeOK
  <2> QED BY <2>3, <2>5, <2>6
<1>3. ASSUME NEW s \in SessionIds, sessions'[s].state = "active"
      PROVE  issuedAt'[s] # 0
  <2>1. CASE sessions[s].state = "active"
    BY <1>2, <2>1 DEF ActiveStamped
  <2>2. CASE s \in Requests /\ IssueSession(s)
    <3>1. CASE issuedAt' = Stamped(s)
      BY <1>0, <2>2, <3>1, StampedNow
    <3>2. CASE req[s].pc = "insert" /\ UNCHANGED issuedAt
      BY <2>2, <3>2 DEF ActiveStamped
    <3> QED BY <2>2, <3>1, <3>2 DEF IssueSession
  <2>3. CASE s \in Requests /\ req[s].pc \in Linking
    <3>1. issuedAt[s] # 0
      BY <2>3 DEF ActiveStamped
    <3>2. sessions[s] = NoSession
      BY <2>3 DEF SessionInv, RowsFresh, Over, Linking
    <3>3. ASSUME issuedAt'[s] = 0
          PROVE  FALSE
      <4>1. UNCHANGED sessions
        BY <1>2, <3>1, <3>3
      <4> QED BY <1>3, <3>2, <4>1 DEF NoSession
    <3> QED BY <3>3
  <2> QED BY <1>3, <2>1, <2>2, <2>3, SessionsMove DEF SessionInv
<1>4. ASSUME NEW x \in Requests, req'[x].pc \in Linking \cup {"linkLock", "insert"}
      PROVE  issuedAt'[x] # 0
  <2>1. CASE req[x].pc \in Linking \cup {"linkLock", "insert"}
    <3>1. issuedAt[x] # 0
      BY <2>1 DEF ActiveStamped
    <3>2. ~Ended(x)
      BY <1>4 DEF Ended, At, Linking
    <3> QED BY <1>0, <1>2, <3>1, <3>2
  <2>2. CASE req[x].pc \notin Linking \cup {"linkLock", "insert"}
    <3>1. \/ req'[x].pc = "linkLock" /\ ProviderAnswers(x)
          \/ InsertWaits(x)
      <4>1. CASE UNCHANGED req
        BY <1>4, <2>2, <4>1
      <4>2. ASSUME NEW r \in Requests, Moved(r)
            PROVE  \/ req'[x].pc = "linkLock" /\ ProviderAnswers(x)
                   \/ InsertWaits(x)
        <5>1. x = r
          BY <1>4, <2>2, <4>2 DEF Moved, Elsewhere
        <5> QED BY <1>4, <2>2, <4>2, <5>1
                DEF Moved, Ended, At, Entered, Continued, Edges, Acted, Linking
      <4> QED BY <1>0, <4>1, <4>2, ReqMoves
    <3>2. CASE req'[x].pc = "linkLock" /\ ProviderAnswers(x)
      <4>1. PICK i \in Identities, e \in Addresses \cup {NULL} :
              \/ req' = [req EXCEPT ![x].pc = "findOwner", ![x].identity = i, ![x].address = e]
              \/ issuedAt' = Stamped(x)
        BY <3>2 DEF ProviderAnswers
      <4> DEFINE q == [req[x] EXCEPT !.pc = "findOwner", !.identity = i, !.address = e]
      <4>2. q.pc = "findOwner"
        BY <1>0 DEF TypeOK, Request
      <4>3. req'[x] # q
        BY <3>2, <4>2
      <4>4. issuedAt' = Stamped(x)
        BY <1>0, <4>1, <4>3 DEF TypeOK
      <4> QED BY <1>0, <4>4, StampedNow
    <3>3. CASE InsertWaits(x)
      BY <1>0, <3>3, StampedNow DEF InsertWaits
    <3> QED BY <3>1, <3>2, <3>3
  <2> QED BY <2>1, <2>2
<1>5. ActiveStamped'
  BY <1>3, <1>4 DEF ActiveStamped
<1> QED BY <1>1, <1>5

\* What the revocation of a surplus leaves is within the cap.
LEMMA SurplusLeavesCap ==
  ASSUME issuedAt \in [SessionIds -> Nat], StampsDistinct, NEW A \in SUBSET SessionIds,
         \A s \in A : issuedAt[s] # 0
  PROVE  /\ IsFiniteSet(A \ Surplus(A))
         /\ Cardinality(A \ Surplus(A)) \in Nat
         /\ Cardinality(A \ Surplus(A)) <= MAX_SESSIONS
<1> DEFINE K == A \ Surplus(A)
<1>1. /\ IsFiniteSet(A) /\ IsFiniteSet(K) /\ Cardinality(K) \in Nat /\ MAX_SESSIONS \in Nat
      /\ K \in SUBSET A
  <2>1. IsFiniteSet(A)
    BY Constants, FS_Subset
  <2>2. K \in SUBSET A
    OBVIOUS
  <2>3. IsFiniteSet(K)
    BY <2>1, <2>2, FS_Subset
  <2> QED BY <2>1, <2>2, <2>3, Constants, FS_CardinalityType
<1>2. CASE K = {}
  <2>1. Cardinality(K) = 0
    BY <1>2, FS_EmptySet
  <2> QED BY <1>1, <2>1
<1>3. CASE K # {}
  <2>1. PICK m \in K : \A s \in K : issuedAt[m] <= issuedAt[s]
    <3> HIDE DEF K
    <3>1. \A s \in K : issuedAt[s] \in Nat
      BY <1>1
    <3> QED BY <1>1, <1>3, <3>1, Extremes
  <2>2. K \ {m} \subseteq Newer(m, A)
    <3> SUFFICES ASSUME NEW t \in K, t # m
                 PROVE  t \in A /\ issuedAt[t] > issuedAt[m]
      BY DEF Newer
    <3>1. issuedAt[m] # issuedAt[t]
      BY DEF StampsDistinct
    <3>2. issuedAt[m] <= issuedAt[t] /\ issuedAt[m] \in Nat /\ issuedAt[t] \in Nat
      BY <2>1
    <3> QED BY <3>1, <3>2
  <2>3. /\ IsFiniteSet(Newer(m, A)) /\ Cardinality(Newer(m, A)) \in Nat
    <3>1. Newer(m, A) \in SUBSET A
      BY DEF Newer
    <3> QED BY <1>1, <3>1, FS_Subset, FS_CardinalityType
  <2>4. Cardinality(K \ {m}) <= Cardinality(Newer(m, A))
    BY <2>2, <2>3, FS_Subset
  <2>5. Cardinality(K \ {m}) = Cardinality(K) - 1
    BY <1>1, FS_RemoveElement
  <2>6. ~(Cardinality(Newer(m, A)) >= MAX_SESSIONS)
    BY DEF Surplus
  <2> HIDE DEF K
  <2>7. Cardinality(K) <= MAX_SESSIONS
    BY <1>1, <2>3, <2>4, <2>5, <2>6
  <2> QED BY <1>1, <2>7 DEF K
<1> QED BY <1>1, <1>2, <1>3

\* The sessions of an account that a set of revocations would leave, against
\* the requests that would still be issuing.
Within(u, S) ==
  Cardinality(Active(u) \ Victims(S)) <= MAX_SESSIONS + Cardinality(Issuing(u) \ S) + spent.faults

LEMMA CapTypes ==
  ASSUME TypeOK, NEW u, NEW S
  PROVE  /\ Active(u) \ Victims(S) \in SUBSET SessionIds
         /\ IsFiniteSet(Active(u) \ Victims(S)) /\ Cardinality(Active(u) \ Victims(S)) \in Nat
         /\ Issuing(u) \ S \in SUBSET Requests
         /\ IsFiniteSet(Issuing(u) \ S) /\ Cardinality(Issuing(u) \ S) \in Nat
         /\ spent.faults \in Nat /\ MAX_SESSIONS \in Nat
<1>1. Active(u) \ Victims(S) \in SUBSET SessionIds /\ Issuing(u) \ S \in SUBSET Requests
  BY DEF Active, Issuing
<1>2. IsFiniteSet(Active(u) \ Victims(S)) /\ IsFiniteSet(Issuing(u) \ S)
  BY <1>1, Constants, FS_Subset
<1> QED BY <1>1, <1>2, Constants, FS_CardinalityType DEF TypeOK

\* Fewer sessions, as many requests and faults.
LEMMA WithinMonotone ==
  ASSUME NEW A, NEW B, NEW I, NEW J, IsFiniteSet(A), B \subseteq A,
         IsFiniteSet(J), I \subseteq J, NEW f \in Nat, NEW g \in Nat, f <= g,
         Cardinality(A) <= MAX_SESSIONS + Cardinality(I) + f
  PROVE  Cardinality(B) <= MAX_SESSIONS + Cardinality(J) + g
<1>1. /\ IsFiniteSet(B) /\ Cardinality(B) <= Cardinality(A)
      /\ IsFiniteSet(I) /\ Cardinality(I) <= Cardinality(J)
  BY FS_Subset
<1> QED BY <1>1, FS_CardinalityType, Constants

\* A set of requests that are revoking, and one more that has.
LEMMA VictimsAdd ==
  ASSUME NEW S, NEW q
  PROVE  Victims(S \cup {q}) = Victims(S) \cup req[q].victims
BY DEF Victims

LEMMA CapsStep ==
  ASSUME TypeInv, RowsExclusive, SessionInv, CapInv, [Next]_vars
  PROVE  CapsReached'
<1>0. TypeOK /\ Shaped /\ OpsMatch /\ spent'.faults >= spent.faults
      /\ spent.faults \in Nat /\ spent'.faults \in Nat
      /\ sessions \in [SessionIds -> SessionRow \cup {NoSession}]
  BY SpentTyped, Constants DEF TypeInv, TypeOK
<1> SUFFICES ASSUME NEW u \in Addresses, NEW S \in SUBSET Revoking(u)'
             PROVE  Cardinality(Active(u)' \ Victims(S)')
                      <= MAX_SESSIONS + Cardinality(Issuing(u)' \ S) + spent'.faults
  BY DEF CapsReached
<1> DEFINE Goal == Cardinality(Active(u)' \ Victims(S)')
                     <= MAX_SESSIONS + Cardinality(Issuing(u)' \ S) + spent'.faults
<1>1. /\ Active(u) \in SUBSET SessionIds /\ Active(u)' \in SUBSET SessionIds
      /\ Issuing(u) \in SUBSET Requests /\ Issuing(u)' \in SUBSET Requests
      /\ S \in SUBSET Requests
  BY DEF Active, Issuing, Revoking
<1>2. /\ IsFiniteSet(Active(u)') /\ IsFiniteSet(Issuing(u)')
      /\ \A T \in SUBSET SessionIds : IsFiniteSet(T) /\ Cardinality(T) \in Nat
      /\ \A T \in SUBSET Requests : IsFiniteSet(T) /\ Cardinality(T) \in Nat
  BY <1>1, Constants, FS_Subset, FS_CardinalityType
<1>3. \A T \in SUBSET Revoking(u) :
        Cardinality(Active(u) \ Victims(T))
          <= MAX_SESSIONS + Cardinality(Issuing(u) \ T) + spent.faults
  BY DEF CapInv, CapsReached
\* A step that leaves the account no more sessions and no fewer requests.
<1>4. ASSUME NEW T \in SUBSET Revoking(u),
             Active(u)' \ Victims(S)' \subseteq Active(u) \ Victims(T),
             Issuing(u) \ T \subseteq Issuing(u)' \ S
      PROVE  Goal
  <2>1. IsFiniteSet(Active(u) \ Victims(T)) /\ IsFiniteSet(Issuing(u)' \ S)
    BY <1>1, <1>2
  <2>2. Cardinality(Active(u) \ Victims(T))
          <= MAX_SESSIONS + Cardinality(Issuing(u) \ T) + spent.faults
    BY <1>3
  <2> QED BY <1>0, <1>4, <2>1, <2>2, WithinMonotone
\* Those of S that have been revoking all along, and the one that begins to.
<1>5. ASSUME NEW q \in S, req'[q] # req[q]
      PROVE  Goal
  <2>1. q \in Requests /\ req'[q].pc = "revoke" /\ req'[q].op = "surplus" /\ req'[q].user = u
    BY <1>5 DEF Revoking
  <2>2. UNCHANGED sessions /\ req[q].user = u /\ FindSurplus(q)
        /\ req'[q].victims = Surplus(Active(u))
    BY <1>5, <2>1, VictimsMove
  <2>3. Active(u)' = Active(u)
    BY <2>2 DEF Active
  <2>4. Active(u)' \ Victims(S)' \subseteq Active(u) \ Surplus(Active(u))
    BY <2>2, <2>3 DEF Victims
  <2>5. /\ IsFiniteSet(Active(u) \ Surplus(Active(u)))
        /\ Cardinality(Active(u) \ Surplus(Active(u))) \in Nat
        /\ Cardinality(Active(u) \ Surplus(Active(u))) <= MAX_SESSIONS
    <3>1. \A s \in Active(u) : issuedAt[s] # 0
      BY DEF Active, CapInv, ActiveStamped
    <3>2. issuedAt \in [SessionIds -> Nat] /\ StampsDistinct
      BY <1>0 DEF TypeOK, CapInv
    <3> QED BY <1>1, <3>1, <3>2, SurplusLeavesCap
  <2>6. Cardinality(Active(u)' \ Victims(S)') <= Cardinality(Active(u) \ Surplus(Active(u)))
    BY <2>4, <2>5, FS_Subset
  <2>7. Cardinality(Active(u)' \ Victims(S)') \in Nat /\ Cardinality(Issuing(u)' \ S) \in Nat
    BY <1>1, <1>2
  <2> QED BY <1>0, <2>5, <2>6, <2>7, Constants
<1>6. ASSUME \A q \in S : req'[q] = req[q]
      PROVE  S \in SUBSET Revoking(u) /\ Victims(S)' = Victims(S)
  BY <1>6 DEF Revoking, Victims
\* Every request but one keeps its place.
<1>7. ASSUME NEW r \in Requests, Elsewhere(r), r \notin Issuing(u) \/ r \in Issuing(u)'
      PROVE  Issuing(u) \subseteq Issuing(u)'
  BY <1>7 DEF Elsewhere, Issuing
<1>8. ASSUME \A q \in S : req'[q] = req[q], Active(u)' \subseteq Active(u),
             Issuing(u) \subseteq Issuing(u)'
      PROVE  Goal
  BY <1>4, <1>6, <1>8
\* The five ways.
<1>9. ASSUME NEW r \in Requests, IssueSession(r), \A q \in S : req'[q] = req[q]
      PROVE  Goal
  <2>1. /\ req[r].pc \in {"issue", "insert"} /\ req'[r].pc = "surplus" /\ Elsewhere(r)
        /\ req'[r].user = req[r].user /\ req'[r].op = "surplus"
    <3>1. Continued(r) /\ req'[r].pc = "surplus"
      BY <1>0, <1>9, GotoMoves DEF IssueSession, Edges, Stages
    <3>2. Elsewhere(r)
      BY <1>0, <1>9, StepElsewhere DEF Step, SessionStep
    <3> QED BY <1>0, <1>9, <3>1, <3>2 DEF Continued, IssueSession, OpsMatch, Ending
  <2>2. /\ S \in SUBSET Revoking(u) /\ Victims(S)' = Victims(S) /\ r \notin S
    BY <1>6, <1>9, <2>1 DEF Revoking
  <2>3. CASE req[r].user # u
    <3>1. Active(u)' \subseteq Active(u)
      BY <1>0, <1>9, <2>3 DEF Active, IssueSession
    <3> QED BY <1>7, <1>8, <1>9, <2>1, <2>3, <3>1 DEF Issuing
  <2>4. CASE req[r].user = u
    <3> DEFINE A == Active(u) \ Victims(S)
               I == Issuing(u) \ S
    <3>1. Active(u)' \ Victims(S)' \subseteq A \cup {r}
      BY <1>0, <1>9, <2>2, <2>4 DEF Active, IssueSession
    <3>2. I \cup {r} \subseteq Issuing(u)' \ S /\ r \notin I
      BY <2>1, <2>2, <2>4 DEF Issuing, Elsewhere
    <3>3. Cardinality(A) <= MAX_SESSIONS + Cardinality(I) + spent.faults
      BY <1>3, <2>2
    <3>4. /\ IsFiniteSet(A) /\ IsFiniteSet(I) /\ Cardinality(A) \in Nat /\ Cardinality(I) \in Nat
          /\ IsFiniteSet(Issuing(u)' \ S) /\ Cardinality(Issuing(u)' \ S) \in Nat
      BY <1>1, <1>2
    <3> HIDE DEF A, I
    <3>5. /\ IsFiniteSet(A \cup {r}) /\ Cardinality(A \cup {r}) <= Cardinality(A) + 1
          /\ Cardinality(A \cup {r}) \in Nat
          /\ IsFiniteSet(I \cup {r}) /\ Cardinality(I \cup {r}) = Cardinality(I) + 1
      <4>1. Cardinality(A \cup {r}) = Cardinality(A) \/ Cardinality(A \cup {r}) = Cardinality(A) + 1
        BY <3>4, FS_AddElement
      <4>2. IsFiniteSet(A \cup {r}) /\ IsFiniteSet(I \cup {r})
        BY <3>4, FS_AddElement
      <4>3. Cardinality(I \cup {r}) = Cardinality(I) + 1
        BY <3>2, <3>4, FS_AddElement
      <4> QED BY <3>4, <4>1, <4>2, <4>3
    <3>6. Cardinality(Active(u)' \ Victims(S)') <= Cardinality(A \cup {r})
      BY <3>1, <3>5, FS_Subset
    <3>7. Cardinality(I \cup {r}) <= Cardinality(Issuing(u)' \ S)
      BY <3>2, <3>4, FS_Subset
    <3>8. Cardinality(Active(u)' \ Victims(S)') \in Nat
      BY <1>1, <1>2
    <3> QED BY <1>0, <3>3, <3>4, <3>5, <3>6, <3>7, <3>8, Constants
  <2> QED BY <2>3, <2>4
<1>10. ASSUME NEW r \in Requests, RevokeVictims(r), \A q \in S : req'[q] = req[q]
       PROVE  Goal
  <2>1. req[r].pc = "revoke" /\ req'[r] = At("done") /\ Elsewhere(r)
    BY <1>0, <1>10, StepElsewhere DEF RevokeVictims, Finish, TypeOK, Step, SessionStep
  <2>2. S \in SUBSET Revoking(u) /\ Victims(S)' = Victims(S) /\ r \notin S
    BY <1>6, <1>10, <2>1 DEF Revoking, At
  <2>3. PICK how : sessions' = Revoked(req[r].victims, how) /\ how # "active"
    BY <1>10 DEF RevokeVictims
  <2>4. Active(u)' \subseteq Active(u) \ req[r].victims
    BY <1>0, <2>3, RevokedKeeps DEF Active
  <2>5. CASE r \notin Issuing(u)
    BY <1>7, <1>8, <1>10, <2>1, <2>4, <2>5
  <2>6. CASE r \in Issuing(u)
    <3>1. S \cup {r} \in SUBSET Revoking(u)
      BY <2>1, <2>2, <2>6 DEF Issuing, Revoking
    <3>2. Active(u)' \ Victims(S)' \subseteq Active(u) \ Victims(S \cup {r})
      <4>1. Victims(S \cup {r}) = Victims(S) \cup req[r].victims
        BY VictimsAdd
      <4> QED BY <2>2, <2>4, <4>1
    <3>3. Issuing(u) \ (S \cup {r}) \subseteq Issuing(u)' \ S
      BY <2>1 DEF Elsewhere, Issuing
    <3> QED BY <1>4, <3>1, <3>2, <3>3
  <2> QED BY <2>5, <2>6
<1>11. ASSUME NEW r \in Requests, LinkInserts(r) \/ LinkIssues(r), ~UNCHANGED sessions,
              \A q \in S : req'[q] = req[q]
       PROVE  Goal
  <2>1. req[r].pc \in Linking /\ IssueAndCommit(r)
    BY <1>11 DEF LinkInserts, LinkIssues, Linking
  <2>2. req'[r] = At("done") /\ Elsewhere(r) /\ req[r].user \in Addresses
    BY <1>0, <1>11, <2>1, StepElsewhere
       DEF IssueAndCommit, Finish, TypeOK, Step, LinkStep, Shaped, ForUser, Linking
  <2>3. Issuing(u) \subseteq Issuing(u)'
    BY <1>7, <2>1, <2>2 DEF Issuing, Linking
  <2> DEFINE v == req[r].user
             A == Active(v) \cup {r}
             row == [user |-> v, state |-> "active", flow |-> req[r].flow, via |-> req[r].session]
  <2>4. sessions' = [Revoked(Surplus(A), "revoked")
                       EXCEPT ![r] = IF r \in Surplus(A) THEN [row EXCEPT !.state = "revoked"]
                                                         ELSE row]
    BY <2>1 DEF IssueAndCommit
  <2>5. DOMAIN Revoked(Surplus(A), "revoked") = SessionIds
    BY DEF Revoked
  <2>6. /\ sessions'[r] = IF r \in Surplus(A) THEN [row EXCEPT !.state = "revoked"] ELSE row
        /\ \A s \in SessionIds : s # r => sessions'[s] = Revoked(Surplus(A), "revoked")[s]
    BY <2>4, <2>5, Constants
  <2>7. r \in Surplus(A) => sessions'[r].state = "revoked"
    BY <2>6
  <2>8. sessions'[r].user = v
    BY <2>6
  <2>9. CASE v # u
    <3>1. Active(u)' \subseteq Active(u)
      <4> SUFFICES ASSUME NEW s \in SessionIds, sessions'[s].user = u,
                          sessions'[s].state = "active"
                   PROVE  sessions[s].user = u /\ sessions[s].state = "active"
        BY DEF Active
      <4>1. s # r
        BY <2>8, <2>9
      <4> HIDE DEF A
      <4> QED BY <1>0, <2>6, <4>1, RevokedKeeps
    <3> QED BY <1>8, <1>11, <2>3, <3>1
  <2>10. CASE v = u
    <3>1. Active(u)' \subseteq A \ Surplus(A)
      <4> SUFFICES ASSUME NEW s \in SessionIds, sessions'[s].user = u,
                          sessions'[s].state = "active"
                   PROVE  s \in A /\ s \notin Surplus(A)
        BY DEF Active
      <4>1. CASE s = r
        BY <2>7, <4>1
      <4>2. CASE s # r
        <5>1. /\ sessions[s].user = u /\ sessions[s].state = "active"
              /\ s \notin Surplus(A)
          <6> HIDE DEF A
          <6> QED BY <1>0, <2>6, <4>2, RevokedKeeps
        <5> QED BY <2>10, <5>1 DEF Active
      <4> QED BY <4>1, <4>2
    <3>2. /\ IsFiniteSet(A \ Surplus(A)) /\ Cardinality(A \ Surplus(A)) \in Nat
          /\ Cardinality(A \ Surplus(A)) <= MAX_SESSIONS
      <4>1. A \in SUBSET SessionIds
        BY <1>1, <2>10, Constants
      <4>2. \A s \in A : issuedAt[s] # 0
        BY <2>1 DEF Active, CapInv, ActiveStamped
      <4>3. issuedAt \in [SessionIds -> Nat] /\ StampsDistinct
        BY <1>0 DEF TypeOK, CapInv
      <4> HIDE DEF A
      <4> QED BY <4>1, <4>2, <4>3, SurplusLeavesCap
    <3> HIDE DEF A
    <3>3. Cardinality(Active(u)' \ Victims(S)') <= Cardinality(A \ Surplus(A))
      BY <3>1, <3>2, FS_Subset
    <3>4. Cardinality(Active(u)' \ Victims(S)') \in Nat /\ Cardinality(Issuing(u)' \ S) \in Nat
      BY <1>1, <1>2
    <3> QED BY <1>0, <3>2, <3>3, <3>4, Constants
  <2> QED BY <2>9, <2>10
<1>12. ASSUME NEW r \in Requests, Die(r), \A q \in S : req'[q] = req[q]
       PROVE  Goal
  <2>1. req[r].pc # "lost" /\ req'[r] = At("lost") /\ Elsewhere(r) /\ UNCHANGED sessions
        /\ spent'.faults = spent.faults + 1
    BY <1>0, <1>12, StepElsewhere, SpentTyped DEF Die, TypeOK, Step
  <2>2. S \in SUBSET Revoking(u) /\ Victims(S)' = Victims(S)
    BY <1>6, <1>12
  <2> DEFINE A == Active(u) \ Victims(S)
             I == Issuing(u) \ S
  <2>3. Active(u)' \ Victims(S)' = A
    BY <2>1, <2>2 DEF Active
  <2>4. I \ {r} \subseteq Issuing(u)' \ S
    BY <2>1 DEF Issuing, Elsewhere
  <2>5. Cardinality(A) <= MAX_SESSIONS + Cardinality(I) + spent.faults
    BY <1>3, <2>2
  <2>6. /\ IsFiniteSet(I) /\ Cardinality(I) \in Nat /\ Cardinality(A) \in Nat
        /\ IsFiniteSet(Issuing(u)' \ S) /\ Cardinality(Issuing(u)' \ S) \in Nat
    BY <1>1, <1>2
  <2> HIDE DEF A, I
  <2>7. Cardinality(I \ {r}) = Cardinality(I) \/ Cardinality(I \ {r}) = Cardinality(I) - 1
    BY <2>6, FS_RemoveElement
  <2>8. Cardinality(I \ {r}) <= Cardinality(Issuing(u)' \ S)
    BY <2>4, <2>6, FS_Subset
  <2>9. Cardinality(Active(u)' \ Victims(S)') = Cardinality(A)
    BY <2>3
  <2>10. MAX_SESSIONS \in Nat
    BY Constants
  <2> QED BY <1>0, <2>1, <2>5, <2>6, <2>7, <2>8, <2>9, <2>10
<1>13. ASSUME UNCHANGED sessions, \A q \in S : req'[q] = req[q],
              \A r \in Requests : ~Die(r) /\ ~RevokeVictims(r)
       PROVE  Goal
  <2>1. Active(u)' = Active(u)
    BY <1>13 DEF Active
  <2>2. ASSUME NEW r \in Requests, Step(r), Moved(r)
        PROVE  r \notin Issuing(u) \/ r \in Issuing(u)'
    <3> SUFFICES ASSUME r \in Issuing(u)
                 PROVE  r \in Issuing(u)'
      OBVIOUS
    <3>1. CASE Ended(r)
      <4>1. req[r].pc \in {"surplus", "revoke"} /\ ~Die(r) /\ ~RevokeVictims(r)
        BY <1>13 DEF Issuing
      <4>2. FALSE
        <5>1. ~Begin(r) /\ ~IdentityStep(r) /\ ~LinkStep(r)
          BY <4>1 DEF Begin, Login, Guarded, ChangeRequested, Consume, IdentityStep,
                      UnlinkChecks, UnlinkDeletes, ProviderAnswers, ProviderFails, FindOwner,
                      ReadUnderLock, LookupAddress, CreateAccount, AttachIdentity,
                      ResolveWinner, LinkStep, LinkLocks, LinkReadsOwner, LinkInserts, LinkIssues
        <5>2. /\ ~InsertWaits(r) /\ ~IssueSession(r)
              /\ ~Logout(r) /\ ~LogoutAll(r) /\ ~ChangePassword(r)
          BY <4>1 DEF InsertWaits, IssueSession, Logout, LogoutAll, ChangePassword
        <5>3. ~FindSurplus(r)
          BY <1>0, <3>1, VictimsMoves DEF Ended, At
        <5> QED BY <2>2, <4>1, <5>1, <5>2, <5>3 DEF Step, SessionStep
      <4> QED BY <4>2
    <3>2. CASE Entered(r)
      BY <3>2 DEF Entered, Issuing
    <3>3. CASE Continued(r)
      BY <3>3 DEF Continued, Edges, Issuing
    <3> QED BY <2>2, <3>1, <3>2, <3>3 DEF Moved
  <2>3. CASE UNCHANGED req
    BY <1>8, <1>13, <2>1, <2>3 DEF Issuing
  <2> QED BY <1>0, <1>7, <1>8, <1>13, <2>1, <2>2, <2>3, ReqMoves DEF Moved
<1>14. ASSUME NEW r \in Requests, Logout(r), \A q \in S : req'[q] = req[q]
       PROVE  Goal
  <2>1. req[r].pc = "logout" /\ Elsewhere(r)
    BY <1>0, <1>14, StepElsewhere DEF Logout, Step, SessionStep
  <2>2. Active(u)' \subseteq Active(u)
    BY <1>0, <1>14, RevokedKeeps DEF Logout, Active
  <2> QED BY <1>7, <1>8, <1>14, <2>1, <2>2 DEF Issuing
<1>15. CASE \A q \in S : req'[q] = req[q]
  <2>1. CASE \E r \in Requests : IssueSession(r) \/ RevokeVictims(r) \/ Logout(r) \/ Die(r)
    BY <1>9, <1>10, <1>12, <1>14, <1>15, <2>1
  <2>2. CASE UNCHANGED sessions /\ \A r \in Requests : ~Die(r) /\ ~RevokeVictims(r)
    BY <1>13, <1>15, <2>2
  <2>3. CASE ~UNCHANGED sessions /\ \E r \in Requests : LinkInserts(r) \/ LinkIssues(r)
    BY <1>11, <1>15, <2>3
  <2> QED BY <2>1, <2>2, <2>3, SessionsFrame
<1> QED BY <1>5, <1>15

--------------------------------------------------------------------------------
(* The theorems.                                                            *)

LEMMA InvInit == Init => IInv
<1> SUFFICES ASSUME Init PROVE IInv
  OBVIOUS
<1>1. TypeInv
  BY TypeInit
<1>2. /\ \A r \in Requests : req[r] = At("idle")
      /\ \A f \in Flows : authorizations[f] = NoFlow
      /\ \A a \in Addresses : born[a] = NULL
      /\ \A s \in SessionIds :
           sessions[s] = IF s \in FirstSessions
                           THEN [NoSession EXCEPT !.user = Home, !.state = "active"]
                           ELSE NoSession
      /\ \A r \in Requests : r \in SessionIds /\ r \notin FirstSessions
      /\ spent.faults = 0
  BY Constants, AccountsAssumption DEF Init
<1>3. \A r \in Requests : req[r].pc = "idle" /\ req[r].flow = NULL
  BY <1>2 DEF At
<1>4. \A s \in SessionIds : sessions[s].flow = NULL /\ sessions[s].via = NULL
  <2>1. /\ NoSession.flow = NULL /\ NoSession.via = NULL
        /\ [NoSession EXCEPT !.user = Home, !.state = "active"].flow = NULL
        /\ [NoSession EXCEPT !.user = Home, !.state = "active"].via = NULL
    BY DEF NoSession
  <2> QED BY <1>2, <2>1
<1>5. RowsExclusive /\ UnlinkLeavesOne /\ SignupsExclusive /\ NotBornYet /\ BornLinked
  BY <1>2, <1>3 DEF RowsExclusive, UnlinkLeavesOne, SignupsExclusive, NotBornYet, BornLinked,
                    HoldsUser, Locking, SigningUpLocked
<1>6. FlowsTakenOnce
  BY <1>3, <1>4, Constants DEF FlowsTakenOnce, Redeems
<1>7. RowsFresh /\ LinksHold /\ VictimsOwn /\ ViasOwn /\ VictimsClosed /\ LinkedSessionRevoked
  <2>1. RowsFresh
    BY <1>2 DEF RowsFresh
  <2> QED BY <1>3, <1>4, <2>1
          DEF LinksHold, VictimsOwn, ViasOwn, VictimsClosed, LinkedSessionRevoked, Linking
<1>8. CredentialKept
  <2> SUFFICES ASSUME NEW a \in Addresses, users[a].exists
               PROVE  Credentials(a) > 0
    BY DEF CredentialKept
  <2>1. PICK password \in 0 .. 1, linked \in SUBSET Identities :
          /\ password = 1 \/ linked # {}
          /\ users = [b \in Addresses |-> IF b = Home THEN [exists |-> TRUE, password |-> password]
                                                      ELSE [exists |-> FALSE, password |-> 0]]
          /\ identities = [i \in Identities |-> IF i \in linked THEN Home ELSE NULL]
    BY DEF Init
  <2>2. a = Home /\ users[a].password = password
    BY <2>1
  <2>3. Linked(a) = linked
    BY <2>1, <2>2, Constants DEF Linked
  <2>4. IsFiniteSet(linked) /\ Cardinality(linked) \in Nat
    BY <2>3, LinkedFinite
  <2>5. linked # {} => Cardinality(linked) # 0
    BY <2>4, FS_EmptySet
  <2>6. Credentials(a) = (IF users[a].password > 0 THEN 1 ELSE 0) + Cardinality(linked)
    BY <2>3 DEF Credentials, Linked
  <2> QED BY <2>1, <2>2, <2>4, <2>5, <2>6
<1>9. StampsDistinct /\ ActiveStamped
  <2>1. PICK at \in [FirstSessions -> 1 .. Cardinality(FirstSessions)] :
          /\ \A s, t \in FirstSessions : at[s] = at[t] => s = t
          /\ issuedAt = [s \in SessionIds |-> IF s \in FirstSessions THEN at[s] ELSE 0]
    BY DEF Init
  <2>2. \A s \in FirstSessions : at[s] # 0
    <3>1. Cardinality(FirstSessions) \in Nat
      BY AccountsAssumption, FS_CardinalityType
    <3> QED BY <3>1
  <2>3. StampsDistinct
    BY <2>1, <2>2 DEF StampsDistinct
  <2>4. \A s \in SessionIds : sessions[s].state = "active" => s \in FirstSessions
    BY <1>2 DEF NoSession
  <2>5. ActiveStamped
    BY <1>3, <2>1, <2>2, <2>4 DEF ActiveStamped, Linking, SessionIds
  <2> QED BY <2>3, <2>5
<1>10. CapsReached
  <2> SUFFICES ASSUME NEW u \in Addresses, NEW S \in SUBSET Revoking(u)
               PROVE  Cardinality(Active(u) \ Victims(S))
                        <= MAX_SESSIONS + Cardinality(Issuing(u) \ S) + spent.faults
    BY DEF CapsReached
  <2>1. Active(u) \ Victims(S) \subseteq FirstSessions
    BY <1>2 DEF Active, NoSession
  <2>2. /\ IsFiniteSet(FirstSessions) /\ Cardinality(FirstSessions) <= MAX_SESSIONS
        /\ Cardinality(FirstSessions) \in Nat
    BY AccountsAssumption, FS_CardinalityType
  <2>3. Cardinality(Active(u) \ Victims(S)) <= Cardinality(FirstSessions)
    BY <2>1, <2>2, FS_Subset
  <2>4. /\ Cardinality(Active(u) \ Victims(S)) \in Nat /\ Cardinality(Issuing(u) \ S) \in Nat
        /\ MAX_SESSIONS \in Nat
    BY <1>1, CapTypes DEF TypeInv
  <2> QED BY <1>2, <2>2, <2>3, <2>4
<1> QED BY <1>1, <1>5, <1>6, <1>7, <1>8, <1>9, <1>10
        DEF IInv, CredentialInv, BornInv, SessionInv, CapInv

LEMMA InvStep == IInv /\ [Next]_vars => IInv'
<1> SUFFICES ASSUME IInv, [Next]_vars PROVE IInv'
  OBVIOUS
<1>1. /\ TypeInv /\ RowsExclusive /\ UnlinkLeavesOne /\ CredentialKept /\ FlowsTakenOnce
      /\ BornInv /\ SessionInv /\ CapInv
  BY DEF IInv, CredentialInv
<1>2. /\ SignupsExclusive /\ RowsFresh /\ StampsDistinct /\ ActiveStamped
  BY <1>1 DEF BornInv, SessionInv, CapInv
<1>3. TypeInv'
  BY <1>1, TypeStep
<1>4. RowsExclusive' /\ UnlinkLeavesOne' /\ CredentialKept'
  BY <1>1, RowsStep, UnlinkStep, CredentialStep
<1>5. FlowsTakenOnce'
  BY <1>1, <1>2, FlowsStep
<1>6. SignupsExclusive' /\ BornLinked' /\ NotBornYet'
  BY <1>1, <1>2, SignupsStep, BornStep
<1>7. RowsFresh' /\ LinksHold' /\ VictimsOwn'
  BY <1>1, <1>2, RowsFreshStep, LinksStep, VictimsOwnStep
<1>8. ViasOwn' /\ VictimsClosed' /\ LinkedSessionRevoked'
  BY <1>1, ViasStep, VictimsClosedStep, LinkedStep
<1>9. StampsDistinct' /\ ActiveStamped'
  BY <1>1, <1>2, StampsStep
<1>10. CapsReached'
  BY <1>1, CapsStep
<1> QED BY <1>3, <1>4, <1>5, <1>6, <1>7, <1>8, <1>9, <1>10
        DEF IInv, CredentialInv, BornInv, SessionInv, CapInv

LEMMA InvImplies == IInv => AccountsInv /\ LinkedSessionRevoked /\ SessionsCapped
<1> SUFFICES ASSUME IInv PROVE AccountsInv /\ LinkedSessionRevoked /\ SessionsCapped
  OBVIOUS
<1>1. /\ TypeOK /\ CredentialKept /\ FlowsTakenOnce /\ LinkedSessionRevoked /\ CapsReached
      /\ sessions \in [SessionIds -> SessionRow \cup {NoSession}]
  BY DEF IInv, CredentialInv, TypeInv, SessionInv, CapInv, TypeOK
<1>2. OneRedemption
  <2> SUFFICES ASSUME NEW s \in SessionIds, NEW t \in SessionIds, sessions[s].flow # NULL,
                      sessions[s].flow = sessions[t].flow
               PROVE  s = t
    BY DEF OneRedemption
  <2>1. sessions[s].flow \in Flows
    BY <1>1 DEF SessionRow, NoSession
  <2>2. Redeems(s, sessions[s].flow) /\ Redeems(t, sessions[s].flow)
    BY DEF Redeems
  <2> QED BY <1>1, <2>1, <2>2 DEF FlowsTakenOnce
<1>3. SessionsCapped
  <2> SUFFICES ASSUME NEW u \in Addresses
               PROVE  Cardinality(Active(u)) <= MAX_SESSIONS + Cardinality(Issuing(u)) + spent.faults
    BY DEF SessionsCapped
  <2>1. {} \in SUBSET Revoking(u)
    OBVIOUS
  <2>2. Active(u) \ Victims({}) = Active(u) /\ Issuing(u) \ {} = Issuing(u)
    BY DEF Victims
  <2>3. Cardinality(Active(u) \ Victims({}))
          <= MAX_SESSIONS + Cardinality(Issuing(u) \ {}) + spent.faults
    BY <1>1, <2>1 DEF CapsReached
  <2> QED BY <2>2, <2>3
<1> QED BY <1>1, <1>2, <1>3 DEF AccountsInv

LEMMA Invariance == Spec => []IInv
BY InvInit, InvStep, PTL DEF Spec

\* Types; an account always keeps a way to sign in, however unlinks, sign-ups,
\* links and crashes interleave; and an authorization yields one session
\* (unlink, resolveUnknownIdentity, consume).
THEOREM AccountsKept == Spec => []AccountsInv
BY Invariance, InvImplies, PTL

\* A session that a link issued does not outlive the session the link came
\* from when that one is ended by logging out everywhere (completeLink,
\* revokeAllForUser).
THEOREM LinkedRevoked == Spec => []LinkedSessionRevoked
BY Invariance, InvImplies, PTL

\* Overlapping sign-ins leave an account over its cap only by the sessions whose
\* surplus is still to be revoked, or whose request died (revokeBeyondNewest).
THEOREM CapKept == Spec => []SessionsCapped
BY Invariance, InvImplies, PTL

\* Nobody is refused an address for an account that their own provider account
\* created and is still linked to (resolveUnknownIdentity).
THEOREM NobodyShutOut == Spec => NotTakenByOneself
<1>1. IInv /\ [Next]_vars =>
        [\A r \in Requests : req[r].pc \in {"lookup", "winner"} /\ req'[r].pc = "done"
                               => born[req[r].address] # req[r].identity]_vars
  <2> SUFFICES ASSUME IInv, [Next]_vars, NEW r \in Requests,
                      req[r].pc \in {"lookup", "winner"}, req'[r].pc = "done"
               PROVE  born[req[r].address] # req[r].identity
    OBVIOUS
  <2> QED BY TakenStep DEF IInv, CredentialInv
<1> QED BY <1>1, Invariance, PTL DEF Spec, NotTakenByOneself

\* A linked provider account leaves its account only by being unlinked, and the
\* record of its latest sign-in never turns back (link, recordLogin).
THEOREM IdentitiesStay == Spec => IdentityRowsKept
<1>1. IInv /\ [Next]_vars =>
        [\A i \in Identities : identities[i] # NULL =>
           \/ identities'[i] = NULL
           \/ identities'[i] = identities[i] /\ lastLogin'[i] >= lastLogin[i]]_vars
  <2> SUFFICES ASSUME IInv, [Next]_vars, NEW i \in Identities, identities[i] # NULL
               PROVE  \/ identities'[i] = NULL
                      \/ identities'[i] = identities[i] /\ lastLogin'[i] >= lastLogin[i]
    OBVIOUS
  <2> QED BY IdentityRowStep DEF IInv, CredentialInv
<1> QED BY <1>1, Invariance, PTL DEF Spec, IdentityRowsKept
================================================================================
