------------------------------- MODULE Accounts -------------------------------
(***************************************************************************)
(* Accounts, sessions, provider identities and OAuth flows of the api       *)
(* (src/src/api/auth), with every request a process of its own.             *)
(*                                                                          *)
(* A step is one SQL statement, or the part of a transaction between two    *)
(* points where another connection can get in.  A transaction that has      *)
(* locked a users row FOR UPDATE keeps every other request that needs that  *)
(* row waiting; an INSERT INTO sessions needs it too, for the foreign key   *)
(* takes FOR KEY SHARE.  Uncommitted rows are kept in the request.          *)
(*                                                                          *)
(* Accounts are never deleted and users.email is unique, so an address      *)
(* names the account.  A password is its version (0: none).  The rate       *)
(* limiter, which stands before these steps, is AuthAttempts.               *)
(***************************************************************************)
EXTENDS Naturals, FiniteSets

CONSTANTS
  Addresses,      \* normalised e-mail addresses, each the key of an account
  Home,           \* the address of the account that exists at the start
  Identities,     \* provider accounts: Google's sub, GitHub's numeric id
  ProviderOf,     \* the provider of each
  Requests,       \* HTTP requests, each served once
  FirstSessions,  \* sessions of Home at the start
  Flows,          \* rows of oauth_authorizations
  NULL,
  MAX_SESSIONS,   \* MAX_SESSIONS_PER_USER
  MAX_CHANGES,    \* bound: password changes
  MAX_FAULTS      \* bound: requests that die half way, flows that run out of time

ASSUME AccountsAssumption ==
  /\ Home \in Addresses
  /\ NULL \notin Addresses \cup Identities \cup Requests \cup FirstSessions \cup Flows
  /\ Requests \cap FirstSessions = {}
  /\ \A S \in {Identities, Requests, FirstSessions, Flows} : IsFiniteSet(S)
  /\ MAX_SESSIONS \in Nat \ {0} /\ Cardinality(FirstSessions) <= MAX_SESSIONS
  /\ MAX_CHANGES \in Nat /\ MAX_FAULTS \in Nat

VARIABLES
  users,           \* address -> exists, password version
  identities,      \* oauth_identities: provider account -> address, or NULL
  lastLogin,       \* last_login_at of each, in callbacks begun before it
  born,            \* history: the provider account that created the account
                   \* and has been linked to it ever since
  sessions,        \* the sessions rows
  issuedAt,        \* issued_at of each session, 0 for none: only its order counts
  authorizations,  \* oauth_authorizations
  req,             \* the requests
  spent            \* what the bounds have used up

vars == <<users, identities, lastLogin, born, sessions, issuedAt, authorizations, req, spent>>

SessionIds == Requests \cup FirstSessions
Providers == {ProviderOf[i] : i \in Identities}

Account == [exists : BOOLEAN, password : 0 .. MAX_CHANGES + 1]

\* via: the session whose cookie came with the link callback that issued it.
NoSession == [user |-> NULL, state |-> "none", flow |-> NULL, via |-> NULL]
SessionRow == [user : Addresses, state : {"active", "revoked", "revokedAll"},
               flow : Flows \cup {NULL}, via : SessionIds \cup {NULL}]
Authorization == [state : {"none", "pending", "gone"},
                  provider : Providers \cup {NULL}, user : Addresses \cup {NULL}]

\* Where a request is: the statement it runs next.
Stages == {"idle", "issue", "insert", "surplus", "revoke", "provider", "findOwner", "signupLock",
           "lookup", "create", "attach", "winner", "linkLock", "linkOwner", "linkInsert",
           "linkIssue", "unlinkLock", "unlinkDelete", "logout", "logoutAll", "change",
           "done", "lost"}

Request == [pc : Stages,
            user : Addresses \cup {NULL}, session : SessionIds \cup {NULL},
            flow : Flows \cup {NULL}, identity : Identities \cup {NULL},
            address : Addresses \cup {NULL}, victims : SUBSET SessionIds,
            op : {"surplus", "logoutAll", "change"},
            now : 0 .. Cardinality(Flows)]

NoFlow == [state |-> "none", provider |-> NULL, user |-> NULL]
At(pc) == [pc |-> pc, user |-> NULL, session |-> NULL, flow |-> NULL, identity |-> NULL,
           address |-> NULL, victims |-> {}, op |-> "surplus", now |-> 0]

\* Home has some way to sign in, and the sessions that were issued to it.
Init ==
  /\ \E password \in 0 .. 1, linked \in SUBSET Identities :
       /\ password = 1 \/ linked # {}
       /\ \A i, j \in linked : ProviderOf[i] = ProviderOf[j] => i = j
       /\ users = [a \in Addresses |-> IF a = Home THEN [exists |-> TRUE, password |-> password]
                                                   ELSE [exists |-> FALSE, password |-> 0]]
       /\ identities = [i \in Identities |-> IF i \in linked THEN Home ELSE NULL]
  /\ lastLogin = [i \in Identities |-> 0]
  /\ born = [a \in Addresses |-> NULL]
  /\ sessions = [s \in SessionIds |->
                   IF s \in FirstSessions
                     THEN [NoSession EXCEPT !.user = Home, !.state = "active"] ELSE NoSession]
  /\ \E at \in [FirstSessions -> 1 .. Cardinality(FirstSessions)] :
       /\ \A s, t \in FirstSessions : at[s] = at[t] => s = t
       /\ issuedAt = [s \in SessionIds |-> IF s \in FirstSessions THEN at[s] ELSE 0]
  /\ authorizations = [f \in Flows |-> NoFlow]
  /\ req = [r \in Requests |-> At("idle")]
  /\ spent = [changes |-> 0, faults |-> 0]

--------------------------------------------------------------------------------
(* Rows and locks *)

Active(u) == {s \in SessionIds : sessions[s].user = u /\ sessions[s].state = "active"}

\* users row u is held FOR UPDATE from the lock to the commit.
Locking == {"linkOwner", "linkInsert", "linkIssue", "unlinkDelete"}
HoldsUser(q) == \/ req[q].pc \in Locking
                \/ req[q].pc = "revoke" /\ req[q].op \in {"logoutAll", "change"}
\* Mutant: nobody waits for the users row.
UserFree_Never(u, r) == TRUE
UserFree(u, r) == \A q \in Requests \ {r} : HoldsUser(q) => req[q].user # u

\* A link keeps the session row its cookie names locked until it commits.
RowFree(s, r) == \A q \in Requests \ {r} : req[q].pc \in Locking => req[q].session # s

\* pg_advisory_xact_lock on the address a sign-up resolves.
SignupLockFree(e, r) ==
  \A q \in Requests \ {r} : req[q].pc \in {"lookup", "create", "attach"} => req[q].address # e

Credentials(u) == (IF users[u].password > 0 THEN 1 ELSE 0)
                  + Cardinality({i \in Identities : identities[i] = u})

Newer(s, active) == {t \in active : issuedAt[t] > issuedAt[s]}

\* Mutant: the offset is one too far.
Surplus_OneMore(active) == {s \in active : Cardinality(Newer(s, active)) > MAX_SESSIONS}

\* The sessions beyond the newest, by issued_at.
Surplus(active) == {s \in active : Cardinality(Newer(s, active)) >= MAX_SESSIONS}

\* A new session is the latest when it is stamped.
Latest == LET stamps == {issuedAt[s] : s \in SessionIds}
          IN CHOOSE n \in stamps : \A m \in stamps : m <= n
Stamped(r) == [issuedAt EXCEPT ![r] = Latest + 1]

\* What a transaction that rolls back has stamped was nobody's.
Unstamped(r) == [issuedAt EXCEPT ![r] = 0]

Goto(r, pc) == req' = [req EXCEPT ![r].pc = pc]
Finish(r) == req' = [req EXCEPT ![r] = At("done")]
Revoked(rows, how) ==
  [s \in SessionIds |-> IF s \in rows /\ sessions[s].state = "active"
                          THEN [sessions[s] EXCEPT !.state = how] ELSE sessions[s]]

--------------------------------------------------------------------------------
(* Password accounts *)

\* INSERT ... ON CONFLICT DO NOTHING: an account another transaction has
\* inserted and not committed keeps the statement waiting.
Register(a) ==
  /\ ~users[a].exists
  /\ \A q \in Requests : req[q].pc = "attach" => req[q].address # a
  /\ users' = [users EXCEPT ![a] = [exists |-> TRUE, password |-> 1]]
  /\ UNCHANGED <<identities, lastLogin, born, sessions, issuedAt, authorizations, req, spent>>

\* The hash is read and verified; a wrong password changes nothing here.
Login(r, a) ==
  /\ req[r].pc = "idle"
  /\ users[a].password > 0
  /\ req' = [req EXCEPT ![r] = [At("issue") EXCEPT !.user = a]]
  /\ UNCHANGED <<users, identities, lastLogin, born, sessions, issuedAt, authorizations, spent>>

\* SessionRepository.create, a statement of its own outside a link.  Its now()
\* is issued_at, also where the foreign key has it wait for the account.
InsertWaits(r) ==
  /\ req[r].pc = "issue"
  /\ ~UserFree(req[r].user, r)
  /\ issuedAt' = Stamped(r)
  /\ Goto(r, "insert")
  /\ UNCHANGED <<users, identities, lastLogin, born, sessions, authorizations, spent>>

IssueSession(r) ==
  /\ \/ req[r].pc = "issue" /\ issuedAt' = Stamped(r)
     \/ req[r].pc = "insert" /\ UNCHANGED issuedAt
  /\ UserFree(req[r].user, r)
  /\ sessions' = [sessions EXCEPT ![r] = [user |-> req[r].user, state |-> "active",
                                          flow |-> req[r].flow, via |-> NULL]]
  /\ Goto(r, "surplus")
  /\ UNCHANGED <<users, identities, lastLogin, born, authorizations, spent>>

\* revokeBeyondNewest: the subquery reads its snapshot ...
FindSurplus(r) ==
  /\ req[r].pc = "surplus"
  /\ req' = [req EXCEPT ![r].pc = "revoke",
                        ![r].victims = Surplus(Active(req[r].user))]
  /\ UNCHANGED <<users, identities, lastLogin, born, sessions, issuedAt, authorizations, spent>>

\* ... and the UPDATE, having waited for the rows it wants, revokes them.
RevokeVictims(r) ==
  /\ req[r].pc = "revoke"
  /\ \A s \in req[r].victims : RowFree(s, r)
  /\ sessions' = Revoked(req[r].victims, IF req[r].op = "logoutAll" THEN "revokedAll"
                                                                   ELSE "revoked")
  /\ IF req[r].op = "change"
       THEN users' = [users EXCEPT ![req[r].user].password = @ + 1]
       ELSE UNCHANGED users
  /\ Finish(r)
  /\ UNCHANGED <<identities, lastLogin, born, issuedAt, authorizations, spent>>

--------------------------------------------------------------------------------
(* Requests behind the session guard *)

\* SessionGuard: the session is live when the guard reads it.
Guarded(r, s, op, pc) ==
  /\ req[r].pc = "idle"
  /\ sessions[s].state = "active"
  /\ req' = [req EXCEPT ![r] = [At(pc) EXCEPT !.op = op, !.user = sessions[s].user,
                                              !.session = s]]
  /\ UNCHANGED <<users, identities, lastLogin, born, sessions, issuedAt, authorizations>>

Logout(r) ==
  /\ req[r].pc = "logout"
  /\ RowFree(req[r].session, r)
  /\ sessions' = Revoked({req[r].session}, "revoked")
  /\ Finish(r)
  /\ UNCHANGED <<users, identities, lastLogin, born, issuedAt, authorizations, spent>>

\* Mutant: the account is not locked first.
LogoutAll_Unlocked(r) ==
  /\ req[r].pc = "logoutAll"
  /\ req' = [req EXCEPT ![r].pc = "revoke", ![r].victims = Active(req[r].user)]
  /\ UNCHANGED <<users, identities, lastLogin, born, sessions, issuedAt, authorizations, spent>>

\* revokeAllForUser locks the account, then reads which sessions there are.
LogoutAll(r) ==
  /\ req[r].pc = "logoutAll"
  /\ UserFree(req[r].user, r)
  /\ req' = [req EXCEPT ![r].pc = "revoke", ![r].victims = Active(req[r].user)]
  /\ UNCHANGED <<users, identities, lastLogin, born, sessions, issuedAt, authorizations, spent>>

\* The current password is verified against the hash read with the guard.
ChangeRequested(r, s) ==
  /\ sessions[s].state = "active" => users[sessions[s].user].password > 0
  /\ spent.changes < MAX_CHANGES
  /\ Guarded(r, s, "change", "change")
  /\ spent' = [spent EXCEPT !.changes = @ + 1]

\* One transaction: the hash is replaced and every other session revoked.
ChangePassword(r) ==
  /\ req[r].pc = "change"
  /\ UserFree(req[r].user, r)
  /\ req' = [req EXCEPT ![r].pc = "revoke",
                        ![r].victims = Active(req[r].user) \ {req[r].session}]
  /\ UNCHANGED <<users, identities, lastLogin, born, sessions, issuedAt, authorizations, spent>>

\* The account is locked, and the refusals come before the delete.
UnlinkChecks(r) ==
  /\ req[r].pc = "unlinkLock"
  /\ UserFree(req[r].user, r)
  /\ \E p \in Providers :
       LET here == {i \in Identities : identities[i] = req[r].user /\ ProviderOf[i] = p}
       IN IF here = {} \/ Credentials(req[r].user) <= 1
            THEN Finish(r)
            ELSE \E i \in here : req' = [req EXCEPT ![r].pc = "unlinkDelete",
                                                    ![r].identity = i, ![r].session = NULL]
  /\ UNCHANGED <<users, identities, lastLogin, born, sessions, issuedAt, authorizations, spent>>

UnlinkDeletes(r) ==
  /\ req[r].pc = "unlinkDelete"
  /\ identities' = [identities EXCEPT ![req[r].identity] = NULL]
  /\ born' = [a \in Addresses |-> IF born[a] = req[r].identity THEN NULL ELSE born[a]]
  /\ Finish(r)
  /\ UNCHANGED <<users, lastLogin, sessions, issuedAt, authorizations, spent>>

--------------------------------------------------------------------------------
(* OAuth flows *)

\* start: to sign in, or for the account of a session the guard has let in
\* (and which may have been revoked since).
StartFlow(f) ==
  /\ authorizations[f].state = "none"
  /\ \E p \in Providers, u \in {NULL} \cup {sessions[s].user : s \in SessionIds} :
       authorizations' = [authorizations EXCEPT
                            ![f] = [state |-> "pending", provider |-> p, user |-> u]]
  /\ UNCHANGED <<users, identities, lastLogin, born, sessions, issuedAt, req, spent>>

\* A clock for callbacks: each has its own now, taken as it arrives.
Callbacks == Cardinality({f \in Flows : authorizations[f].state = "gone"})

\* complete: the row is consumed by id, state and provider while it is valid,
\* and what was read of it stays with the request.
\* A session cookie that is dead or somebody else's is as good as none.
Consume(r, f, p) ==
  /\ req[r].pc = "idle"
  /\ authorizations[f].state = "pending"
  /\ authorizations[f].provider = p
  /\ authorizations' = [authorizations EXCEPT ![f].state = "gone", ![f].user = NULL]
  /\ \E s \in Active(authorizations[f].user) \cup {NULL} :
       req' = [req EXCEPT ![r] = [At("provider") EXCEPT !.flow = f, !.now = Callbacks + 1,
                                       !.user = authorizations[f].user, !.session = s]]
  /\ UNCHANGED <<users, identities, lastLogin, born, sessions, issuedAt, spent>>

\* The provider names the account that signed in and maybe its address.  A
\* link's transaction starts here, and its now() is the session's issued_at.
ProviderAnswers(r) ==
  /\ req[r].pc = "provider"
  /\ \E i \in Identities, e \in Addresses \cup {NULL} :
       /\ ProviderOf[i] = authorizations[req[r].flow].provider
       /\ IF req[r].user = NULL
            THEN /\ req' = [req EXCEPT ![r].pc = "findOwner", ![r].identity = i,
                                       ![r].address = e]
                 /\ UNCHANGED issuedAt
            ELSE /\ req' = [req EXCEPT ![r].pc = "linkLock", ![r].identity = i]
                 /\ issuedAt' = Stamped(r)
  /\ UNCHANGED <<users, identities, lastLogin, born, sessions, authorizations, spent>>

ProviderFails(r) ==
  /\ req[r].pc = "provider"
  /\ Finish(r)
  /\ UNCHANGED <<users, identities, lastLogin, born, sessions, issuedAt, authorizations, spent>>

--------------------------------------------------------------------------------
(* Signing in through a provider *)

\* Mutant: the statement has no WHERE clause on the time.
Recorded_Last(old, at) == at

\* recordLogin's WHERE clause: an older sign-in leaves the row alone.
Recorded(old, at) == IF old <= at THEN at ELSE old

SignedIn(r) ==
  LET i == req[r].identity IN
  /\ lastLogin' = [lastLogin EXCEPT ![i] = Recorded(@, req[r].now)]
  /\ req' = [req EXCEPT ![r].pc = "issue", ![r].user = identities[i],
                        ![r].identity = NULL, ![r].address = NULL, ![r].now = 0]

FindOwner(r) ==
  /\ req[r].pc = "findOwner"
  /\ IF identities[req[r].identity] # NULL THEN SignedIn(r)
     ELSE /\ IF req[r].address = NULL THEN Finish(r) ELSE Goto(r, "signupLock")
          /\ UNCHANGED lastLogin
  /\ UNCHANGED <<users, identities, born, sessions, issuedAt, authorizations, spent>>

\* Mutant: the read before the lock is trusted.
ReadUnderLock_NotAgain(r) ==
  /\ req[r].pc = "signupLock"
  /\ SignupLockFree(req[r].address, r)
  /\ Goto(r, "lookup")
  /\ UNCHANGED <<users, identities, lastLogin, born, sessions, issuedAt, authorizations, spent>>

\* resolveUnknownIdentity: the identity is read again under the address's lock.
ReadUnderLock(r) ==
  /\ req[r].pc = "signupLock"
  /\ SignupLockFree(req[r].address, r)
  /\ IF identities[req[r].identity] # NULL THEN SignedIn(r)
     ELSE Goto(r, "lookup") /\ UNCHANGED lastLogin
  /\ UNCHANGED <<users, identities, born, sessions, issuedAt, authorizations, spent>>

\* findByEmail: a taken address is refused (account_exists), for no address
\* is ever verified here and linkByEmailAllowed needs one that is.
LookupAddress(r) ==
  /\ req[r].pc = "lookup"
  /\ IF users[req[r].address].exists THEN Finish(r) ELSE Goto(r, "create")
  /\ UNCHANGED <<users, identities, lastLogin, born, sessions, issuedAt, authorizations, spent>>

\* createFromProvider: the row stays uncommitted, in the request.
CreateAccount(r) ==
  /\ req[r].pc = "create"
  /\ Goto(r, IF users[req[r].address].exists THEN "winner" ELSE "attach")
  /\ UNCHANGED <<users, identities, lastLogin, born, sessions, issuedAt, authorizations, spent>>

\* The identity, and the commit of both; or the rollback of both.
AttachIdentity(r) ==
  /\ req[r].pc = "attach"
  /\ LET a == req[r].address
         i == req[r].identity
     IN IF identities[i] # NULL
          THEN Goto(r, "winner") /\ UNCHANGED <<users, identities, lastLogin, born>>
          ELSE /\ users' = [users EXCEPT ![a].exists = TRUE]
               /\ identities' = [identities EXCEPT ![i] = a]
               /\ lastLogin' = [lastLogin EXCEPT ![i] = req[r].now]
               /\ born' = [born EXCEPT ![a] = i]
               /\ req' = [req EXCEPT ![r].pc = "issue", ![r].user = a, ![r].identity = NULL,
                                     ![r].address = NULL, ![r].now = 0]
  /\ UNCHANGED <<sessions, issuedAt, authorizations, spent>>

\* The race was lost: sign in to what the winner committed, if anything.
ResolveWinner(r) ==
  /\ req[r].pc = "winner"
  /\ IF identities[req[r].identity] # NULL THEN SignedIn(r)
     ELSE Finish(r) /\ UNCHANGED lastLogin
  /\ UNCHANGED <<users, identities, born, sessions, issuedAt, authorizations, spent>>

--------------------------------------------------------------------------------
(* Linking: one transaction *)

\* The session presented is still live, and is one of the account's.
SessionHolds(r) == req[r].session # NULL /\ req[r].session \in Active(req[r].user)

Refuse(r) == Finish(r) /\ issuedAt' = Unstamped(r)

LinkLocks(r) ==
  /\ req[r].pc = "linkLock"
  /\ UserFree(req[r].user, r)
  /\ IF SessionHolds(r) THEN Goto(r, "linkOwner") /\ UNCHANGED issuedAt ELSE Refuse(r)
  /\ UNCHANGED <<users, identities, lastLogin, born, sessions, authorizations, spent>>

LinkReadsOwner(r) ==
  /\ req[r].pc = "linkOwner"
  /\ LET owner == identities[req[r].identity]
     IN \/ owner = NULL /\ Goto(r, "linkInsert") /\ UNCHANGED issuedAt
        \/ owner = req[r].user /\ Goto(r, "linkIssue") /\ UNCHANGED issuedAt
        \/ owner \notin {NULL, req[r].user} /\ Refuse(r)
  /\ UNCHANGED <<users, identities, lastLogin, born, sessions, authorizations, spent>>

\* Both unique indexes: the provider account, and the account's provider.
Clash(r) == {i \in Identities : \/ i = req[r].identity /\ identities[i] # NULL
                                \/ /\ identities[i] = req[r].user
                                   /\ ProviderOf[i] = ProviderOf[req[r].identity]}

\* The session is issued, the surplus revoked and all of it committed.
IssueAndCommit(r) ==
  LET u == req[r].user
      row == [user |-> u, state |-> "active", flow |-> req[r].flow, via |-> req[r].session]
        surplus == Surplus(Active(u) \cup {r})
  IN /\ sessions' = [Revoked(surplus, "revoked")
                       EXCEPT ![r] = IF r \in surplus THEN [row EXCEPT !.state = "revoked"]
                                                      ELSE row]
     /\ Finish(r)

LinkInserts(r) ==
  /\ req[r].pc = "linkInsert"
  /\ IF Clash(r) = {}
       THEN /\ identities' = [identities EXCEPT ![req[r].identity] = req[r].user]
            /\ lastLogin' = [lastLogin EXCEPT ![req[r].identity] = req[r].now]
            /\ IssueAndCommit(r)
            /\ UNCHANGED issuedAt
       ELSE /\ UNCHANGED <<identities, lastLogin, sessions>>
            /\ IF identities[req[r].identity] = req[r].user
                 THEN Goto(r, "linkIssue") /\ UNCHANGED issuedAt
                 ELSE Refuse(r)
  /\ UNCHANGED <<users, born, authorizations, spent>>

LinkIssues(r) ==
  /\ req[r].pc = "linkIssue"
  /\ IssueAndCommit(r)
  /\ UNCHANGED <<users, identities, lastLogin, born, issuedAt, authorizations, spent>>

--------------------------------------------------------------------------------
(* Time, the sweep, and requests that die *)

\* expires_at passes and AuthMaintenanceService.sweep removes the row.  The
\* sessions it also prunes ran out days before and are nobody's any more.
Sweep ==
  /\ spent.faults < MAX_FAULTS
  /\ spent' = [spent EXCEPT !.faults = @ + 1]
  /\ \E f \in Flows :
       /\ authorizations[f].state = "pending"
       /\ authorizations' = [authorizations EXCEPT ![f] = [NoFlow EXCEPT !.state = "gone"]]
  /\ UNCHANGED <<users, identities, lastLogin, born, sessions, issuedAt, req>>

\* The process or the connection is lost: the open transaction rolls back,
\* what was committed stays.
Die(r) ==
  /\ req[r].pc \notin {"idle", "done", "lost"}
  /\ spent.faults < MAX_FAULTS
  /\ spent' = [spent EXCEPT !.faults = @ + 1]
  /\ req' = [req EXCEPT ![r] = At("lost")]
  /\ issuedAt' = IF sessions[r].state = "none" THEN Unstamped(r) ELSE issuedAt
  /\ UNCHANGED <<users, identities, lastLogin, born, sessions, authorizations>>

Begin(r) ==
  \/ \E a \in Addresses : Login(r, a)
  \/ \E s \in SessionIds :
       \/ /\ \/ Guarded(r, s, "surplus", "logout")
             \/ Guarded(r, s, "logoutAll", "logoutAll")
             \/ Guarded(r, s, "surplus", "unlinkLock")
          /\ UNCHANGED spent
       \/ ChangeRequested(r, s)
  \/ \E f \in Flows, p \in Providers : Consume(r, f, p)

SessionStep(r) == InsertWaits(r) \/ IssueSession(r) \/ FindSurplus(r) \/ RevokeVictims(r)
                  \/ Logout(r) \/ LogoutAll(r) \/ ChangePassword(r)
IdentityStep(r) == UnlinkChecks(r) \/ UnlinkDeletes(r) \/ ProviderAnswers(r)
                   \/ ProviderFails(r) \/ FindOwner(r) \/ ReadUnderLock(r)
                   \/ LookupAddress(r) \/ CreateAccount(r) \/ AttachIdentity(r)
                   \/ ResolveWinner(r)
LinkStep(r) == LinkLocks(r) \/ LinkReadsOwner(r) \/ LinkInserts(r) \/ LinkIssues(r)

AllServed ==
  /\ \A r \in Requests : req[r].pc \in {"idle", "done", "lost"}
  /\ UNCHANGED vars

Next ==
  \/ \E a \in Addresses : Register(a)
  \/ \E f \in Flows : StartFlow(f)
  \/ \E r \in Requests : \/ Begin(r) \/ SessionStep(r) \/ IdentityStep(r) \/ LinkStep(r)
                         \/ Die(r)
  \/ Sweep \/ AllServed

Spec == Init /\ [][Next]_vars

--------------------------------------------------------------------------------
(* What must hold *)

\* Every variable has its type.
TypeOK ==
  /\ users \in [Addresses -> Account]
  /\ identities \in [Identities -> Addresses \cup {NULL}]
  /\ lastLogin \in [Identities -> 0 .. Cardinality(Flows)]
  /\ born \in [Addresses -> Identities \cup {NULL}]
  /\ sessions \in [SessionIds -> SessionRow \cup {NoSession}]
  /\ issuedAt \in [SessionIds -> Nat]
  /\ authorizations \in [Flows -> Authorization]
  /\ req \in [Requests -> Request]
  /\ spent \in [changes : 0 .. MAX_CHANGES, faults : 0 .. MAX_FAULTS]

\* An account always has a way to sign in: not two unlinks, not a sign-up
\* that loses a race or dies half way, leave one without password and
\* identity (unlink, resolveUnknownIdentity).
CredentialKept == \A a \in Addresses : users[a].exists => Credentials(a) > 0

\* One authorization never yields two sessions, however often its callback
\* is delivered (OAuthAuthorizationRepository.consume).
OneRedemption ==
  \A s, t \in SessionIds : sessions[s].flow # NULL /\ sessions[s].flow = sessions[t].flow
                             => s = t

\* What every request keeps of accounts, identities and flows.
AccountsInv == TypeOK /\ CredentialKept /\ OneRedemption

\* A session that a link issued does not outlive the session the link came
\* from when logging out everywhere ended that one, whichever of the two
\* transactions came first (completeLink, revokeAllForUser).
LinkedSessionRevoked ==
  \A s \in SessionIds : sessions[s].state = "active" /\ sessions[s].via # NULL
                          => sessions[sessions[s].via].state # "revokedAll"

Issuing(u) == {r \in Requests : /\ req[r].pc \in {"surplus", "revoke"}
                                /\ req[r].op = "surplus"
                                /\ req[r].user = u}

\* However many sign-ins overlap, an account is over its cap only by the
\* sessions whose surplus is still to be revoked, or never was because the
\* request died (AuthService.issue, revokeBeyondNewest).
SessionsCapped ==
  \A u \in Addresses :
    Cardinality(Active(u)) <= MAX_SESSIONS + Cardinality(Issuing(u)) + spent.faults

\* Nobody is told that the address of their provider account is taken when
\* it is that very provider account that created the account and has been
\* linked to it ever since (resolveUnknownIdentity).
NotTakenByOneself ==
  [][\A r \in Requests : req[r].pc \in {"lookup", "winner"} /\ req'[r].pc = "done"
                          => born[req[r].address] # req[r].identity]_vars

\* A provider account leaves an account only by being unlinked: no sign-in
\* and no link, however they race, moves it to another, and none turns the
\* record of the latest sign-in back (link, recordLogin).
IdentityRowsKept ==
  [][\A i \in Identities : identities[i] # NULL =>
       \/ identities'[i] = NULL
       \/ identities'[i] = identities[i] /\ lastLogin'[i] >= lastLogin[i]]_vars
================================================================================
