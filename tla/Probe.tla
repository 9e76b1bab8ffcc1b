--------------------------------- MODULE Probe ---------------------------------
(***************************************************************************)
(* One probe, src/src/worker/probing/utils/probe.ts: a loop of redirect     *)
(* hops under one deadline. Every hop is validated and resolved again, has  *)
(* a dispatcher of its own whose connector dials the validated address, and *)
(* marks the boundaries of its phases; the last one is judged.              *)
(*                                                                         *)
(* The environment is the resolver, the servers and the two kinds of timer: *)
(* the deadline and the connector's own. A timer fires at its time. The     *)
(* guard is enabled; the settings of the endpoint that are read only at the *)
(* end are chosen where they are read.                                      *)
(***************************************************************************)
EXTENDS ProbeRules, Functions

CONSTANTS
  Urls, INVALID,    \* where a Location may lead, and one that is no URL
  Origin,           \* config.url
  Methods,
  TIMEOUT,          \* min(config.timeoutMs, PROBE_MAX_TIMEOUT_MS), in ticks
  FLOOR,            \* the least a connector's timer is set to
  MAX_REDIRECTS,    \* min(config.maxRedirects, PROBE_MAX_REDIRECTS_CAP)
  CAP,              \* PROBE_MAX_BODY_BYTES, in letters
  Answers,          \* what a family's query may be answered
  Statuses, Expected, Assertions, Bodies,  \* a body is a sequence of chunks
  SocketCodes,      \* what a connection attempt or a handshake may fail with
  VerifyCodes,      \* what a peer may be refused for
  MAX_TIME

ASSUME BudgetAssumption ==
  /\ {TIMEOUT, FLOOR} \subseteq Nat \ {0}
  /\ {MAX_REDIRECTS, CAP, MAX_TIME} \subseteq Nat
  /\ MAX_TIME > TIMEOUT + FLOOR

\* A family that failed has no addresses.
ASSUME InputAssumption ==
  /\ Origin \in Urls
  /\ \A answer \in Answers :
       /\ answer.addresses \in Seq(Range(answer.addresses))
       /\ answer.failed => answer.addresses = <<>>

\* The codes are those failure-classes.ts documents. A connection that has been handed over
\* fails as undici reports it (PeerCloses).
ASSUME CodesAssumption ==
  /\ DOMAIN SocketCodes \subseteq {"connecting", "handshake"}
  /\ \A stage \in DOMAIN SocketCodes : SocketCodes[stage] \subseteq DocumentedCodes
  /\ VerifyCodes \subseteq DocumentedCodes

Phases == {"hop", "resolving", "connecting", "waiting", "reading", "discarding", "closing", "done"}

Letters == UNION {ToSet(chunk) : chunk \in UNION {ToSet(chunks) : chunks \in Bodies}}

\* A body is text in chunks; an assertion is one the settings of an endpoint allow.
ASSUME ShapeAssumption ==
  /\ Bodies \subseteq Seq(Seq(Letters))
  /\ \A a \in UNION Assertions :
       \/ a.type \in {"body_contains", "body_not_contains"}
       \/ /\ a.type = "json_path" /\ a.equals \in JsonValues
          /\ a.path # NULL => a.path \in Seq(ToSet(a.path)) /\ \A s \in ToSet(a.path) : IsSegment(s)

\* NULL is no time, no name, no url and no answer.
ASSUME NullAssumption ==
  /\ NULL \notin Nat /\ NULL \notin Answers /\ NULL \notin Urls
  /\ NULL \notin Phases \cup FailureClasses \cup DocumentedCodes \cup DOMAIN ResolverCodeToClass
  /\ \A code \in GuardCodes, cause \in {NoCause} \cup {Cause(answer.code) : answer \in Answers} :
       Rejection(code, cause) # NULL

VARIABLES
  now,
  aborted,   \* the deadline has fired
  pc,
  request,   \* of the hop: where, how, with what, and the redirects followed
  dns,       \* what each family has answered in this hop, NULL before
  marks,     \* the boundaries of this hop
  endAt,     \* the terminal boundary
  sockets,   \* the live ones
  cert,      \* whose certificate certExpiresAt is from
  body,      \* the evaluated response
  ahead,     \* what follows the teardown that is awaited: a verdict, an error or the next hop
  outcome,
  wire,      \* history: the requests sent
  seen       \* history: when the hop began, the last event, the Location refused for the budget, where
             \* the deadline fired, whether the whole body satisfies what is asked of it

vars == <<now, aborted, pc, request, dns, marks, endAt, sockets, cert, body, ahead, outcome,
          wire, seen>>

Families == {"v4", "v6"}
Unanswered == [f \in Families |-> NULL]
Boundaries == {"dns_start", "dns_done", "connect_start", "connect_done", "tls_start", "tls_done",
               "first_byte", "transfer_done"}
Unmarked == [b \in Boundaries |-> NULL]
NoBody == [status |-> NULL, whole |-> <<>>, unread |-> <<>>, read |-> 0]

Init ==
  /\ now = 0 /\ aborted = FALSE /\ pc = "hop"
  /\ \E method \in Methods :
       request = [url |-> Origin, method |-> method, headers |-> DOMAIN Lower, dropped |-> FALSE,
                  redirects |-> 0]
  /\ dns = Unanswered /\ marks = Unmarked /\ endAt = NULL
  /\ sockets = {} /\ cert = NULL /\ body = NoBody
  /\ ahead = NULL /\ outcome = NULL
  /\ wire = <<>>
  /\ seen = [hopAt |-> 0, last |-> 0, stalled |-> NULL, location |-> NULL, satisfied |-> FALSE]

--------------------------------------------------------------------------------
(* Boundaries and outcomes *)

Marked(base, reached) == [b \in Boundaries |-> IF b \in reached THEN now ELSE base[b]]
Mark(reached) == Marked(marks, reached)

\* markTerminal: the first call wins.
Ended == IF endAt = NULL THEN now ELSE endAt

Verdict(success, class, code, truncated) ==
  [kind |-> "verdict", success |-> success, class |-> class, code |-> code,
   truncated |-> truncated]
Failure(classification) == Verdict(FALSE, classification.class, classification.code, FALSE)
Error(chain) == [kind |-> "error", chain |-> chain]
TimeoutError == [kind |-> "abort"]

\* The outer catch: an abort is read from the boundaries, an error from its code.
Classified(after, boundaries) ==
  CASE after.kind = "abort" ->
         Failure(Classification(ClassifyAbort(boundaries, request.url.scheme = "https"), NULL))
    [] after.kind = "error" -> Failure(ClassifyError(after.chain))
    [] after.kind = "verdict" -> after

\* outcome(): what the probe reports, at the instant the last await is over.
Report(after, boundaries, certificate) ==
  /\ pc' = "done"
  /\ LET verdict == Classified(after, boundaries) IN
     outcome' = [kind |-> after.kind, success |-> verdict.success, class |-> verdict.class,
                 code |-> verdict.code, truncated |-> verdict.truncated, status |-> body.status,
                 marks |-> boundaries, cert |-> certificate, redirects |-> request.redirects]
  /\ ahead' = NULL

\* The probe learns now of what ends it, or of what its hop answered.
Noticed == seen' = [seen EXCEPT !.last = IF pc = "done" THEN @ ELSE now]

--------------------------------------------------------------------------------
(* A hop: the guard and the resolver *)

\* resetHop, and certExpiresAt with it.
Fresh == IF request.redirects > 0 THEN [marks |-> Unmarked, cert |-> NULL]
         ELSE [marks |-> marks, cert |-> cert]

\* Mutant: every hop's connector is given the whole budget.
RemainingBudget_Full == TIMEOUT

RemainingBudget == Max({TIMEOUT - now, FLOOR})

\* Mutant: the connector resolves the name again.
Dialled_Again(address) ==
  CHOOSE a \in UNION {Range(answer.addresses) : answer \in Answers} : a # address

\* createConnector dials the pin, whatever the name resolves to by now.
Dialled(address) == address

\* A dispatcher for this hop, and fetch through it.
Connect(address, boundaries) ==
  /\ pc' = "connecting"
  /\ marks' = Marked(boundaries, {"connect_start"})
  /\ sockets' = sockets \cup {[pc |-> "connecting", address |-> Dialled(address),
                               timer |-> now + RemainingBudget]}
  /\ UNCHANGED <<aborted, request, endAt, body, ahead, outcome, wire>>

\* A rejection of the guard ends the probe.
Reject(rejection, boundaries, certificate) ==
  /\ endAt' = now
  /\ marks' = boundaries
  /\ Report(Failure(ClassifyGuardRejection(rejection)), boundaries, certificate)
  /\ UNCHANGED <<aborted, request, sockets, body, wire>>

\* The guard calls the resolver for a name, unless the URL itself is refused.
Resolves == RefusedByUrl(request.url) = NULL /\ ~IsLiteral(request.url)

\* A hop that begins after the deadline: its race is lost before it starts,
\* though the resolver has been called by then.
HopAborted ==
  /\ pc = "hop" /\ aborted
  /\ endAt' = now /\ cert' = Fresh.cert /\ dns' = Unanswered
  /\ marks' = Marked(Fresh.marks, IF Resolves THEN {"dns_start"} ELSE {})
  /\ Report(TimeoutError, marks', Fresh.cert)
  /\ seen' = [seen EXCEPT !.hopAt = now, !.last = now]
  /\ UNCHANGED <<now, aborted, request, sockets, body, wire>>

HopWithoutDns ==
  /\ pc = "hop" /\ ~aborted
  /\ ~Resolves
  /\ LET address == Literal[request.url.host]
         rejection == IF RefusedByUrl(request.url) # NULL THEN RefusedByUrl(request.url)
                      ELSE RefusedByAddress(<<address>>)
     IN IF rejection # NULL THEN Reject(rejection, Fresh.marks, Fresh.cert)
        ELSE Connect(address, Marked(Fresh.marks, {"dns_start", "dns_done"}))
  /\ cert' = Fresh.cert /\ dns' = Unanswered
  /\ seen' = [seen EXCEPT !.hopAt = now, !.last = now]
  /\ UNCHANGED now

\* resolve4 and resolve6 are asked together.
HopResolves ==
  /\ pc = "hop" /\ ~aborted /\ Resolves
  /\ pc' = "resolving" /\ dns' = Unanswered
  /\ marks' = Marked(Fresh.marks, {"dns_start"}) /\ cert' = Fresh.cert
  /\ seen' = [seen EXCEPT !.hopAt = now, !.last = now]
  /\ UNCHANGED <<now, aborted, request, endAt, sockets, body, ahead, outcome, wire>>

\* A family is answered; allSettled waits for the other.
FamilyAnswered ==
  /\ pc = "resolving"
  /\ \E f \in Families, answer \in Answers :
       /\ dns[f] = NULL /\ dns' = [dns EXCEPT ![f] = answer]
       /\ \E g \in Families \ {f} : dns[g] = NULL
  /\ marks' = Mark({"dns_done"})
  /\ UNCHANGED <<now, aborted, pc, request, endAt, sockets, cert, body, ahead, outcome, wire, seen>>

Resolved ==
  /\ pc = "resolving"
  /\ \E f \in Families, answer \in Answers :
       LET found == [dns EXCEPT ![f] = answer]
           rejection == RefusedByResolver(found["v4"], found["v6"])
           boundaries == Mark({"dns_done"})
       IN /\ dns[f] = NULL
          /\ \A g \in Families \ {f} : dns[g] # NULL
          /\ IF rejection # NULL THEN Reject(rejection, boundaries, cert) /\ dns' = found
             ELSE /\ Connect((found["v4"].addresses \o found["v6"].addresses)[1], boundaries)
                  /\ dns' = Unanswered
  /\ Noticed
  /\ UNCHANGED <<now, cert>>

--------------------------------------------------------------------------------
(* The connector *)

\* The socket belongs to a fetch that still waits for it.
Wanted == pc = "connecting"

\* fetch writes the request on the socket it is handed.
Send(socket, trusted) ==
  /\ pc' = "waiting"
  /\ sockets' = (sockets \ {socket}) \cup {[socket EXCEPT !.pc = "open", !.timer = 0]}
  /\ wire' = Append(wire, [url |-> request.url, method |-> request.method,
                           headers |-> request.headers, address |-> socket.address,
                           trusted |-> trusted])

\* fetch rejects with the connector's error; its dispatcher has nothing to wait for.
FetchFails(after, boundaries, certificate) ==
  /\ endAt' = Ended
  /\ Report(after, boundaries, certificate)

\* A socket that a destroyed dispatcher is handed is destroyed at once.
Connected ==
  \E socket \in sockets :
    /\ socket.pc = "connecting"
    /\ IF ~Wanted
       THEN /\ sockets' = (sockets \ {socket}) \cup
                 (IF request.url.scheme = "https" THEN {[socket EXCEPT !.pc = "handshake"]} ELSE {})
            /\ UNCHANGED <<pc, marks, wire>>
       ELSE IF request.url.scheme = "https"
       THEN /\ sockets' = (sockets \ {socket}) \cup {[socket EXCEPT !.pc = "handshake"]}
            /\ marks' = Mark({"connect_done", "tls_start"})
            /\ UNCHANGED <<pc, wire>>
       ELSE Send(socket, TRUE) /\ marks' = Mark({"connect_done"})
    /\ Noticed
    /\ UNCHANGED <<now, aborted, request, dns, endAt, cert, body, ahead, outcome>>

\* secureConnect: the certificate is read whatever the verdict on it.
Secured ==
  \E socket \in sockets, code \in VerifyCodes \cup {NULL} :
    /\ socket.pc = "handshake"
    /\ IF ~Wanted
       THEN sockets' = sockets \ {socket} /\ UNCHANGED <<pc, marks, endAt, cert, ahead, outcome, wire>>
       ELSE /\ marks' = Mark({"tls_done"}) /\ cert' = request.url.host
            /\ IF code = NULL
               THEN Send(socket, code = NULL) /\ UNCHANGED <<endAt, ahead, outcome>>
               ELSE /\ sockets' = sockets \ {socket}
                    /\ FetchFails(Error(<<NULL, code>>), marks', cert')
                    /\ UNCHANGED wire
    /\ Noticed
    /\ UNCHANGED <<now, aborted, request, dns, body>>

\* The socket fails, or its own timer destroys it.
SocketLost(socket, code) ==
  /\ sockets' = sockets \ {socket}
  /\ IF Wanted THEN FetchFails(Error(<<NULL, code>>), marks, cert)
     ELSE UNCHANGED <<pc, endAt, ahead, outcome>>
  /\ Noticed
  /\ UNCHANGED <<now, aborted, request, dns, marks, cert, body, wire>>

ConnectFails ==
  \E socket \in sockets :
    /\ socket.pc \in DOMAIN SocketCodes
    /\ \E code \in SocketCodes[socket.pc] : SocketLost(socket, code)

ConnectorTimer ==
  \E socket \in sockets : /\ socket.pc # "open" /\ now >= socket.timer
                          /\ SocketLost(socket, "UND_ERR_CONNECT_TIMEOUT")

--------------------------------------------------------------------------------
(* The response *)

\* The teardown of this hop's dispatcher is awaited.
TearDown(next, after) ==
  /\ pc' = next
  /\ ahead' = after

\* A redirect without a Location is an ordinary answer, whatever the budget.
TooMany(status, location) == location # NULL /\ request.redirects >= MAX_REDIRECTS

\* The next hop of a redirect to a URL.
NextHop(status, url) ==
  LET method == MethodForRedirect(status, request.method)
      hop == HeadersForHop(request.headers, url, Origin, request.dropped, method # request.method)
  IN [kind |-> "hop",
      request |-> [url |-> url, method |-> method, headers |-> hop.headers,
                   dropped |-> hop.dropped, redirects |-> request.redirects + 1]]

\* The headers arrive: location is NULL without a Location, INVALID if it is no URL.
Answered ==
  /\ pc = "waiting"
  /\ marks' = Mark({"first_byte"})
  /\ \E status \in Statuses, location \in Urls \cup {NULL, INVALID}, follow \in BOOLEAN :
       /\ LET followable == follow /\ status \in FollowedStatuses IN
          \/ /\ followable /\ TooMany(status, location)
             /\ TearDown("discarding", Failure(Classification("TOO_MANY_REDIRECTS", NULL)))
             /\ endAt' = Ended /\ UNCHANGED body
             /\ seen' = [seen EXCEPT !.last = now, !.location = location]
          \/ /\ followable /\ ~TooMany(status, location) /\ location = INVALID
             /\ TearDown("discarding", Failure(Classification("UNKNOWN_ERROR", "INVALID_LOCATION")))
             /\ endAt' = Ended /\ UNCHANGED body
             /\ Noticed
          \/ /\ followable /\ ~TooMany(status, location) /\ location \in Urls
             /\ TearDown("discarding", NextHop(status, location))
             /\ Noticed
             /\ UNCHANGED <<endAt, body>>
          \/ /\ ~followable \/ (location = NULL /\ ~TooMany(status, location))
             /\ pc' = "reading"
             /\ \E chunks \in Bodies :
                  body' = [status |-> status, whole |-> FlattenSeq(chunks), unread |-> chunks, read |-> 0]
             /\ Noticed
             /\ UNCHANGED <<endAt, ahead>>
  /\ UNCHANGED <<now, aborted, request, dns, sockets, cert, outcome, wire>>

\* The hop is discarded: its body cancelled, its dispatcher destroyed.
Discarded ==
  /\ pc = "discarding"
  /\ sockets' = {}
  /\ IF ahead.kind = "hop"
     THEN /\ pc' = "hop" /\ request' = ahead.request /\ ahead' = NULL
          /\ UNCHANGED outcome
     ELSE Report(ahead, marks, cert) /\ UNCHANGED request
  /\ UNCHANGED <<now, aborted, dns, marks, endAt, cert, body, wire, seen>>

\* markTerminal before the teardown.
EndOfHop == Ended

\* fetch, or the read of the body, fails: the error is thrown on after the teardown.
Fails(after) ==
  /\ endAt' = EndOfHop
  /\ TearDown("closing", after)

\* The peer closes or resets a connection a response is awaited or read on.
PeerCloses ==
  /\ pc \in {"waiting", "reading"}
  /\ sockets' = {}
  /\ Fails(Error(<<NULL, "UND_ERR_SOCKET">>))
  /\ Noticed
  /\ UNCHANGED <<now, aborted, request, dns, marks, cert, body, outcome, wire>>

\* For the properties, what an assertion says of a whole text. A value stands for what is found at
\* each path into it: an atom, so many elements, or the names of its members.
Segment(v, i) == IF v.kind = "object" THEN [kind |-> "name", name |-> v.keys[i]]
                 ELSE [kind |-> "index", index |-> i - 1]
Shape(v) == CASE v.kind = "atom" -> <<"atom", v.is>>
              [] v.kind = "array" -> <<"array", Len(v.items)>>
              [] v.kind = "object" -> <<"object", ToSet(v.keys)>>
Content[v \in JsonValues] ==
  {<<<<>>, Shape(v)>>}
  \cup UNION {{<<<<Segment(v, i)>> \o p[1], p[2]>> : p \in Content[v.items[i]]} : i \in Parts(v)}

\* The content below a path.
Below(content, path) ==
  {<<SubSeq(p[1], Len(path) + 1, Len(p[1])), p[2]>> : p \in {q \in content : IsPrefix(path, q[1])}}

Holds(assertion, text) ==
  CASE assertion.type = "body_contains" -> \E i \in DOMAIN text : text[i] = assertion.value
    [] assertion.type = "body_not_contains" -> \A i \in DOMAIN text : text[i] # assertion.value
    [] assertion.type = "json_path" ->
         /\ text \in DOMAIN Json /\ assertion.path # NULL
         /\ Below(Content[Json[text]], assertion.path) = Content[assertion.equals]

Truncated(total) == total > CAP

\* What readCappedBody has kept after so many letters.
Kept(total) == [text |-> SubSeq(body.whole, 1, Min({total, CAP})), truncated |-> Truncated(total)]

\* evaluate, once the body is read: the status, then the assertions.
Judge(kept) ==
  /\ \E expected \in Expected, assertions \in Assertions :
       LET class == IF ~StatusMatches(body.status, expected) THEN "STATUS_MISMATCH"
                    ELSE IF ~EvaluateAssertions(assertions, kept) THEN "ASSERTION_FAILED"
                    ELSE NULL
       IN /\ TearDown("closing", Verdict(class = NULL, class, NULL, kept.truncated))
          /\ seen' = [seen EXCEPT !.last = now,
                                  !.satisfied = /\ StatusMatches(body.status, expected)
                                                /\ \A a \in assertions : Holds(a, body.whole)]
  /\ endAt' = EndOfHop
  /\ marks' = IF endAt = NULL THEN Mark({"transfer_done"}) ELSE marks

\* One read: a chunk that does not pass the cap is followed by another read.
ChunkRead ==
  /\ pc = "reading" /\ body.unread # <<>>
  /\ LET total == body.read + Len(Head(body.unread)) IN
       /\ body' = [body EXCEPT !.read = total, !.unread = Tail(@)]
       /\ IF Truncated(total) THEN Judge(Kept(total))
          ELSE Noticed /\ UNCHANGED <<pc, marks, endAt, ahead>>
  /\ UNCHANGED <<now, aborted, request, dns, sockets, cert, outcome, wire>>

BodyEnds ==
  /\ pc = "reading" /\ body.unread = <<>>
  /\ Judge(Kept(body.read))
  /\ UNCHANGED <<now, aborted, request, dns, sockets, cert, body, outcome, wire>>

\* closeDispatcher is over: every way out of the last hop's response passes here.
Closed ==
  /\ pc = "closing"
  /\ sockets' = {}
  /\ endAt' = Ended
  /\ Report(ahead, marks, cert)
  /\ UNCHANGED <<now, aborted, request, dns, marks, cert, body, wire, seen>>

--------------------------------------------------------------------------------
(* Time *)

DeadlineDue == now >= TIMEOUT /\ ~aborted /\ pc # "done"

\* Mutant: the guard's resolution is not raced against the deadline.
Interrupted_NotDns == {"connecting", "waiting", "reading"}

\* What the deadline ends: an await of the resolver, of fetch or of the body.
Interrupted == {"resolving", "connecting", "waiting", "reading"}

\* A connection attempt is left to its own timer, a teardown is not cut short.
DeadlineFires ==
  /\ DeadlineDue /\ pc # "hop"
  /\ aborted' = TRUE
  /\ CASE pc \notin Interrupted -> UNCHANGED <<pc, endAt, ahead, outcome, seen>>
       [] pc \in {"resolving", "connecting"} /\ pc \in Interrupted ->
            /\ FetchFails(TimeoutError, marks, cert)
            /\ seen' = [seen EXCEPT !.last = now, !.stalled = pc]
       [] OTHER -> /\ Fails(TimeoutError)
                   /\ seen' = [seen EXCEPT !.last = now, !.stalled = pc]
                   /\ UNCHANGED outcome
  /\ UNCHANGED <<now, request, dns, marks, sockets, cert, body, wire>>

\* Time stands still while a timer is due or the next hop is only computed.
Tick ==
  /\ now < MAX_TIME /\ pc # "hop" /\ ~DeadlineDue
  /\ \A socket \in sockets : socket.pc \in {"connecting", "handshake"} => now < socket.timer
  /\ pc = "done" => sockets # {}
  /\ now' = now + 1
  /\ UNCHANGED <<aborted, pc, request, dns, marks, endAt, sockets, cert, body, ahead, outcome,
                 wire, seen>>

Environment == FamilyAnswered \/ Resolved \/ Connected \/ Secured \/ ConnectFails \/ Answered
                 \/ PeerCloses \/ ChunkRead \/ BodyEnds
Engine == HopAborted \/ HopWithoutDns \/ HopResolves \/ ConnectorTimer \/ Discarded \/ Closed
            \/ DeadlineFires \/ Tick

Next == Environment \/ Engine

\* The worker runs its own steps and its timers; nothing is expected of the network.
Spec == Init /\ [][Next]_vars /\ WF_vars(Engine)

--------------------------------------------------------------------------------
(* Properties *)

Hop == [url : Urls, method : Methods \cup {"GET"}, headers : SUBSET DOMAIN Lower,
        dropped : BOOLEAN, redirects : 0 .. MAX_REDIRECTS]
Addresses == Range(Literal) \cup UNION {Range(answer.addresses) : answer \in Answers}

\* The shape of the state; a probe that is not over reports nothing.
TypeOK ==
  /\ now \in 0 .. MAX_TIME /\ aborted \in BOOLEAN /\ pc \in Phases
  /\ request \in Hop
  /\ dns \in [Families -> Answers \cup {NULL}]
  /\ marks \in [Boundaries -> 0 .. now \cup {NULL}]
  /\ endAt \in 0 .. now \cup {NULL}
  /\ sockets \subseteq [pc : {"connecting", "handshake", "open"}, address : Addresses,
                       timer : 0 .. MAX_TIME]
  /\ cert \in {url.host : url \in Urls} \cup {NULL}
  /\ wire \in Seq([url : Urls, method : Methods \cup {"GET"}, headers : SUBSET DOMAIN Lower,
                  address : Addresses, trusted : BOOLEAN])
  /\ seen \in [hopAt : 0 .. now, last : 0 .. now, stalled : Phases \cup {NULL},
               location : Urls \cup {NULL, INVALID}, satisfied : BOOLEAN]
  /\ pc # "done" => outcome = NULL
  /\ pc = "done" => endAt # NULL

\* A request is only ever written to an address that the guard accepted, and over https to a
\* peer whose certificate was accepted: whatever the names resolve to by the time of the
\* connection (pinned-connect.ts, "there is no window to race").
OnlyValidatedPeers ==
  \A i \in DOMAIN wire : ~IsBlockedAddress(wire[i].address) /\ wire[i].trusted

\* The configured headers go to the configured origin alone, and once a chain of redirects has
\* left it they are not sent again, even where it comes back (redirect-rules.ts, rule 1).
SecretsStayHome ==
  \A i \in DOMAIN wire :
    wire[i].headers # {} =>
      \A j \in 1 .. i : /\ wire[j].url.scheme = Origin.scheme
                        /\ wire[j].url.host = Origin.host
                        /\ EffectivePort(wire[j].url) = EffectivePort(Origin)

\* A request that became a GET on the way describes no body (redirect-rules.ts, rule 2), and one
\* that had none keeps its method: GET and HEAD are never replaced.
RewrittenCarriesNoBody ==
  \A i \in 2 .. Len(wire) :
    wire[i].method # wire[1].method =>
      /\ wire[i].method = "GET" /\ wire[1].method \notin {"GET", "HEAD"}
      /\ "Content-Type" \notin wire[i].headers

\* A chain is refused for its length only at a redirect that leads on, and never sends more
\* requests than its budget (probe.ts: "the Location check comes before the budget check").
BudgetRefusesRedirectsOnly ==
  /\ Len(wire) <= MAX_REDIRECTS + 1
  /\ pc = "done" /\ outcome.class = "TOO_MANY_REDIRECTS" =>
       seen.location # NULL /\ Len(wire) = MAX_REDIRECTS + 1

\* What a chain of redirects may do, of all the requests it has sent.
ChainKeepsRules == SecretsStayHome /\ RewrittenCarriesNoBody /\ BudgetRefusesRedirectsOnly

\* The sockets a probe leaves behind are attempts to connect that their own timer ends with the
\* probe's budget: PROBE_CONCURRENCY bounds the sockets (probe.ts, remainingBudget).
SocketsEndWithProbe ==
  pc = "done" => \A socket \in sockets : /\ socket.pc # "open"
                                         /\ socket.timer <= TIMEOUT + FLOOR

\* The reported boundaries and the certificate are those of the final hop, however far that
\* hop came (probe.ts: "no verdict on this hop, no certificate").
OutcomeOfFinalHop ==
  pc = "done" =>
    /\ \A b \in Reached(outcome.marks) : outcome.marks[b] >= seen.hopAt
    /\ outcome.cert # NULL => outcome.cert = request.url.host /\ "tls_done" \in Reached(outcome.marks)
    /\ "first_byte" \in Reached(outcome.marks) =>
         Len(wire) = outcome.redirects + 1 /\ wire[Len(wire)].url = request.url

\* A deadline that ends the probe is reported as the phase it fired in, on whichever hop, and
\* while it resolves if no family has answered (failure-classes.ts, classifyAbort).
DeadlineNamesPhase ==
  pc = "done" /\ outcome.kind = "abort" =>
    outcome.class = CASE seen.stalled = "connecting" -> "CONNECTION_TIMEOUT"
                      [] seen.stalled = "waiting" -> "RESPONSE_TIMEOUT"
                      [] seen.stalled = "reading" -> "BODY_TIMEOUT"
                      [] seen.stalled = "resolving" /\ \A f \in Families : dns[f] = NULL -> "DNS_FAILURE"
                      [] OTHER -> outcome.class

\* The time of a probe ends with the last thing the endpoint did, or the deadline: what tearing
\* its hop down took is not in it (probe.ts: "inflating a latency M6 persists").
EndExcludesTeardown == pc = "done" => endAt = seen.last

\* What is reported is of the hop the probe ended in, and of the moment.
ReportOfFinalHop == TypeOK /\ OutcomeOfFinalHop /\ DeadlineNamesPhase /\ EndExcludesTeardown

\* What failure-classes.ts says of it: an earlier unfinished phase is never read as a later one,
\* and a deadline that fires mid-DNS-resolve is a DNS failure.
EarlierPhaseNotReadAsLater ==
  pc = "done" /\ outcome.kind = "abort" /\ seen.stalled = "resolving" => outcome.class = "DNS_FAILURE"

Judged == pc = "done" /\ outcome.kind = "verdict" /\ body.status # NULL

\* An endpoint is only reported up on evidence: the assertions hold of the whole body, also where
\* the cap cut it short (evaluate.ts, D23 and D28).
UpOnEvidence == Judged /\ outcome.success => seen.satisfied

\* An endpoint whose answer is as configured is reported up if its body fits, up to and including
\* the cap, however it was cut into chunks (body-cap.ts, D30).
FittingBodyJudgedWhole ==
  Judged /\ Len(body.whole) <= CAP /\ seen.satisfied => outcome.success /\ ~outcome.truncated

\* The verdict is about the body the server sent, not about how it was read.
VerdictOfBody == UpOnEvidence /\ FittingBodyJudgedWhole

Rejected == (\A f \in Families : dns[f] # NULL) /\ "connect_start" \notin Reached(marks)

\* What counts against the endpoint's uptime: a connection that fails and a resolver that fails
\* are outages, the latter never the endpoint's refusal; a refused destination is none
\* (failure-classes.ts, "excludes from uptime instead of counting as DOWN"; ssrf-pin.ts).
OutagesCounted ==
  LET answers == {dns[f] : f \in Families}
      label == OutcomeLabel(outcome.success, outcome.class)
      unread == {a \in answers : Unknown(a)}
  IN pc = "done" =>
       /\ outcome.kind \in {"error", "abort"} => label = "down"
       /\ outcome.kind = "verdict" /\ Rejected =>
            /\ unread # {} /\ (\A a \in unread : a.code \in {"ESERVFAIL", "ETIMEOUT", "ECONNREFUSED"})
                 => label = "down" /\ outcome.class = "DNS_FAILURE"
            /\ unread = {} /\ (\E a \in answers : \E i \in DOMAIN a.addresses :
                                  IsBlockedAddress(a.addresses[i]))
                 => label = "unknown" /\ outcome.class = "BLOCKED_BY_POLICY"

\* Every probe is over and has let go of its sockets in the end, whether or not the network ever
\* answers (probe.ts and abort-race.ts, D44).
EveryProbeEnds == <>[](pc = "done" /\ sockets = {})
================================================================================
