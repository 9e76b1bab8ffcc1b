------------------------------- MODULE ProbeProofs -------------------------------
(***************************************************************************)
(* Theorems about a probe, for any urls, answers, statuses and bodies, any  *)
(* deadline, connector floor, redirect budget and body cap.                 *)
(***************************************************************************)
EXTENDS Probe, FiniteSetTheorems, SequenceTheorems, WellFoundedInduction, TLAPS

--------------------------------------------------------------------------------
(* The invariant. What holds of a probe at every await.                     *)

\* Where a hop asks with headers, every request so far has been at home.
AtHome(q) ==
  /\ q.dropped => q.headers = {}
  /\ ~q.dropped => /\ SameOrigin(q.url, Origin)
                   /\ \A i \in DOMAIN wire : SameOrigin(wire[i].url, Origin)

\* A hop whose method is not the first one's has been rewritten.
MethodKept(q) ==
  wire # <<>> /\ q.method # wire[1].method =>
    /\ q.method = "GET" /\ wire[1].method \notin {"GET", "HEAD"}
    /\ "Content-Type" \notin q.headers

\* The boundaries and the certificate are this hop's.
OfThisHop ==
  /\ \A b \in Boundaries : marks[b] # NULL => marks[b] >= seen.hopAt
  /\ cert # NULL => cert = request.url.host /\ marks["tls_done"] # NULL

SocketsSafe ==
  \A socket \in sockets : socket.timer <= TIMEOUT + FLOOR /\ ~IsBlockedAddress(socket.address)

Steady ==
  /\ ~aborted /\ pc # "done" => now <= TIMEOUT
  /\ SocketsSafe /\ OnlyValidatedPeers
  /\ pc # "hop" => OfThisHop
  /\ AtHome(request) /\ MethodKept(request)
  /\ SecretsStayHome /\ RewrittenCarriesNoBody

--------------------------------------------------------------------------------
(* One predicate for each await.                                            *)

\* Nothing has ended the probe yet.
Running == endAt = NULL /\ seen.stalled = NULL
\* It has an end, which is the last thing that was noticed.
Concluded == endAt # NULL /\ endAt = seen.last

Unsent == Len(wire) = request.redirects
Sent == Len(wire) = request.redirects + 1 /\ wire[Len(wire)].url = request.url

NotReached(B) == \A b \in B : marks[b] = NULL
Secure == request.url.scheme = "https"

AtHop ==
  /\ Running /\ Unsent /\ sockets = {}
  /\ request.redirects = 0 => marks = Unmarked /\ cert = NULL

AtResolving ==
  /\ Running /\ Unsent /\ sockets = {} /\ ~aborted /\ cert = NULL
  /\ NotReached({"connect_start", "connect_done", "tls_done", "first_byte", "transfer_done"})
  /\ (\A f \in Families : dns[f] = NULL) => NotReached({"dns_done"})
  /\ \E f \in Families : dns[f] = NULL

Dialling(socket) ==
  \/ socket.pc = "connecting" /\ NotReached({"connect_done"})
  \/ socket.pc = "handshake" /\ Secure /\ marks["connect_done"] # NULL

AtConnecting ==
  /\ Running /\ Unsent /\ ~aborted /\ cert = NULL
  /\ marks["dns_done"] # NULL /\ marks["connect_start"] # NULL
  /\ NotReached({"tls_done", "first_byte", "transfer_done"})
  /\ \E socket \in sockets : sockets = {socket} /\ Dialling(socket)

Handed ==
  /\ Sent /\ marks["connect_start"] # NULL
  /\ \A socket \in sockets : socket.pc = "open"

\* A response is awaited; it is read.
Awaited ==
  /\ marks["dns_done"] # NULL /\ marks["connect_done"] # NULL /\ (Secure => marks["tls_done"] # NULL)
  /\ NotReached({"first_byte", "transfer_done"})
BeingRead ==
  /\ marks["dns_done"] # NULL /\ marks["connect_done"] # NULL /\ (Secure => marks["tls_done"] # NULL)
  /\ marks["first_byte"] # NULL /\ NotReached({"transfer_done"})

AtWaiting == Running /\ Handed /\ ~aborted /\ Awaited
AtReading == Running /\ Handed /\ ~aborted /\ BeingRead

Refusal(class, code) == Failure(Classification(class, code))
AtDiscarding ==
  /\ Handed /\ seen.stalled = NULL
  /\ \/ /\ ahead.kind = "hop" /\ endAt = NULL
        /\ ahead.request \in Hop /\ ahead.request.redirects = request.redirects + 1
        /\ AtHome(ahead.request) /\ MethodKept(ahead.request)
     \/ /\ ahead = Refusal("TOO_MANY_REDIRECTS", NULL) /\ Concluded
        /\ seen.location # NULL /\ request.redirects >= MAX_REDIRECTS
     \/ ahead = Refusal("UNKNOWN_ERROR", "INVALID_LOCATION") /\ Concluded

IsError(after) == \E code \in DocumentedCodes : after = Error(<<NULL, code>>)
AtClosing ==
  /\ Handed /\ Concluded
  /\ \/ ahead.kind = "verdict" /\ ahead.class # "TOO_MANY_REDIRECTS"
     \/ IsError(ahead)
     \/ /\ ahead = TimeoutError
        /\ \/ seen.stalled = "waiting" /\ Awaited
           \/ seen.stalled = "reading" /\ BeingRead

AtDone ==
  /\ Concluded
  /\ \A socket \in sockets : socket.pc # "open"
  /\ Len(wire) <= request.redirects + 1
  /\ marks["first_byte"] # NULL => Sent
  /\ outcome.marks = marks /\ outcome.cert = cert /\ outcome.redirects = request.redirects
  /\ BudgetRefusesRedirectsOnly /\ DeadlineNamesPhase /\ OutagesCounted

IInv ==
  /\ TypeOK /\ Steady
  /\ pc = "hop" => AtHop
  /\ pc = "resolving" => AtResolving
  /\ pc = "connecting" => AtConnecting
  /\ pc = "waiting" => AtWaiting
  /\ pc = "reading" => AtReading
  /\ pc = "discarding" => AtDiscarding
  /\ pc = "closing" => AtClosing
  /\ pc = "done" => AtDone

--------------------------------------------------------------------------------
(* The rules.                                                               *)

LEMMA Constants ==
  /\ TIMEOUT \in Nat /\ FLOOR \in Nat /\ MAX_REDIRECTS \in Nat /\ MAX_TIME \in Nat
  /\ TIMEOUT > 0 /\ FLOOR > 0 /\ MAX_TIME > TIMEOUT + FLOOR
BY BudgetAssumption

LEMMA LargerOfTwo ==
  ASSUME NEW a \in Int, NEW b \in Int
  PROVE  Max({a, b}) = IF a >= b THEN a ELSE b
<1> DEFINE m == IF a >= b THEN a ELSE b
<1>1. m \in {a, b} /\ \A y \in {a, b} : m >= y
  OBVIOUS
<1>2. \A x \in {a, b} : (\A y \in {a, b} : x >= y) => x = m
  OBVIOUS
<1> QED BY <1>1, <1>2 DEF Max

\* The connector's timer, however late the hop begins.
LEMMA TimerInBudget ==
  ASSUME now \in Nat, now <= TIMEOUT
  PROVE  now + RemainingBudget \in Nat /\ now + RemainingBudget <= TIMEOUT + FLOOR
<1>1. TIMEOUT - now \in Int /\ FLOOR \in Int
  BY Constants
<1>2. RemainingBudget = IF TIMEOUT - now >= FLOOR THEN TIMEOUT - now ELSE FLOOR
  BY <1>1, LargerOfTwo DEF RemainingBudget
<1> QED BY <1>2, Constants

LEMMA NotNull ==
  /\ \A n \in Nat : n # NULL
  /\ \A name \in Phases \cup FailureClasses \cup DocumentedCodes : name # NULL
  /\ \A code \in GuardCodes : Rejection(code, NoCause) # NULL
  /\ \A code \in GuardCodes, a \in Answers : Rejection(code, Cause(a.code)) # NULL
BY NullAssumption

\* The guard accepts only what it has looked at.
LEMMA AcceptedAddresses ==
  ASSUME NEW addresses, RefusedByAddress(addresses) = NULL
  PROVE  addresses # <<>> /\ \A i \in DOMAIN addresses : ~IsBlockedAddress(addresses[i])
BY NotNull DEF RefusedByAddress, GuardCodes

LEMMA AcceptedLiteral ==
  ASSUME NEW url, IsLiteral(url), RefusedByAddress(<<Literal[url.host]>>) = NULL
  PROVE  Literal[url.host] \in Addresses /\ ~IsBlockedAddress(Literal[url.host])
<1>1. 1 \in DOMAIN <<Literal[url.host]>> /\ <<Literal[url.host]>>[1] = Literal[url.host]
  OBVIOUS
<1>2. ~IsBlockedAddress(Literal[url.host])
  BY <1>1, AcceptedAddresses
<1>3. Literal[url.host] \in Addresses
  BY DEF IsLiteral, Addresses, Range
<1> QED BY <1>2, <1>3

LEMMA AcceptedAnswer ==
  ASSUME NEW v4 \in Answers, NEW v6 \in Answers, RefusedByResolver(v4, v6) = NULL
  PROVE  LET address == (v4.addresses \o v6.addresses)[1] IN
         address \in Addresses /\ ~IsBlockedAddress(address)
<1> DEFINE a == v4.addresses
           b == v6.addresses
<1>1. RefusedByAddress(a \o b) = NULL
  BY NotNull DEF RefusedByResolver, GuardCodes
<1>2. a \in Seq(Range(a)) /\ b \in Seq(Range(b))
  BY InputAssumption
<1>3. Range(a) \subseteq Addresses /\ Range(b) \subseteq Addresses
  BY DEF Addresses
<1>4. a \in Seq(Addresses) /\ b \in Seq(Addresses)
  <2> HIDE DEF a, b
  <2> QED BY <1>2, <1>3
<1>5. a \o b \in Seq(Addresses) /\ a \o b # <<>> /\ \A i \in DOMAIN (a \o b) : ~IsBlockedAddress((a \o b)[i])
  <2>1. a \o b # <<>> /\ \A i \in DOMAIN (a \o b) : ~IsBlockedAddress((a \o b)[i])
    BY <1>1, AcceptedAddresses
  <2> HIDE DEF a, b
  <2> QED BY <1>4, <2>1
<1>6. 1 \in DOMAIN (a \o b) /\ (a \o b)[1] \in Addresses
  <2> DEFINE s == a \o b
  <2>1. s \in Seq(Addresses) /\ s # <<>>
    BY <1>5
  <2> HIDE DEF s
  <2>2. 1 \in DOMAIN s /\ s[1] \in Addresses
    BY <2>1
  <2> QED BY <2>2 DEF s
<1> QED BY <1>5, <1>6

LEMMA SignalClasses == \A code \in DOMAIN SignalToClass : SignalToClass[code] \in ConnectionClasses
BY DEF SignalToClass, ConnectionClasses

LEMMA ErrorClass ==
  ASSUME NEW code \in DocumentedCodes
  PROVE  ClassifyError(<<NULL, code>>).class \in ConnectionClasses
<1> DEFINE chain == <<NULL, code>>
           coded == {i \in 1 .. Min({Len(chain), MAX_CAUSE_DEPTH}) : chain[i] # NULL}
<1>1. Min({2, 8}) = 2
  BY DEF Min
<1>2. coded = {2}
  BY <1>1, NullAssumption DEF MAX_CAUSE_DEPTH
<1>3. Min({2}) = 2
  BY DEF Min
<1>4. TransportCode(chain) = code
  BY <1>2, <1>3 DEF TransportCode
<1>5. ClassifyError(chain).class =
        IF code \in DOMAIN SignalToClass THEN SignalToClass[code]
        ELSE IF code \in SslProtocolCodes THEN "TLS_HANDSHAKE_FAILED" ELSE "UNKNOWN_ERROR"
  BY <1>4, NullAssumption DEF ClassifyError, Classification
<1>6. CASE code \in DOMAIN SignalToClass
  BY <1>5, <1>6, SignalClasses
<1>7. CASE code \notin DOMAIN SignalToClass
  BY <1>5, <1>7 DEF DocumentedCodes, ConnectionClasses
<1> QED BY <1>6, <1>7

\* Each of them counts as down.
LEMMA OutageIsDown ==
  ASSUME NEW class \in ConnectionClasses
  PROVE  OutcomeLabel(FALSE, class) = "down" /\ class # "TOO_MANY_REDIRECTS"
BY NullAssumption DEF OutcomeLabel, ConnectionClasses, FailureClasses

LEMMA ReachedIs ==
  ASSUME NEW m, DOMAIN m = Boundaries, NEW b \in Boundaries
  PROVE  b \in Reached(m) <=> m[b] # NULL
BY DEF Reached

\* A deadline is read as the first phase that is not over.
LEMMA AbortClass ==
  ASSUME NEW m, DOMAIN m = Boundaries, NEW https \in BOOLEAN
  PROVE  LET class == ClassifyAbort(m, https)
             connected == m["dns_done"] # NULL /\ m["connect_done"] # NULL
                            /\ (https => m["tls_done"] # NULL)
         IN /\ m["dns_done"] = NULL => class = "DNS_FAILURE"
            /\ m["dns_done"] # NULL /\ ~connected => class = "CONNECTION_TIMEOUT"
            /\ connected /\ m["first_byte"] = NULL => class = "RESPONSE_TIMEOUT"
            /\ connected /\ m["first_byte"] # NULL /\ m["transfer_done"] = NULL
                 => class = "BODY_TIMEOUT"
<1>1. \A b \in {"dns_done", "connect_done", "tls_done", "first_byte", "transfer_done"} :
        b \in Reached(m) <=> m[b] # NULL
  BY ReachedIs DEF Boundaries
<1> QED BY <1>1 DEF ClassifyAbort

LEMMA ResolverClasses ==
  \A code : ClassifyResolverCode(code) \in ConnectionClasses \cup {"UNKNOWN_ERROR"}
BY DEF ClassifyResolverCode, ResolverCodeToClass, ConnectionClasses

LEMMA GuardClass ==
  ASSUME NEW rejection
  PROVE  ClassifyGuardRejection(rejection).class # "TOO_MANY_REDIRECTS"
<1>1. ClassifyResolverCode(rejection.cause.code) # "TOO_MANY_REDIRECTS"
  BY ResolverClasses DEF ConnectionClasses
<1> QED BY <1>1 DEF ClassifyGuardRejection, Classification

\* A resolver that fails is an outage of its own kind.
LEMMA ResolverOutage ==
  ASSUME NEW v4 \in Answers, NEW v6 \in Answers,
         NEW a \in {v4, v6}, Unknown(a),
         \A u \in {v4, v6} : Unknown(u) => u.code \in {"ESERVFAIL", "ETIMEOUT", "ECONNREFUSED"}
  PROVE  ClassifyGuardRejection(RefusedByResolver(v4, v6)).class = "DNS_FAILURE"
<1>1. PICK u \in {v4, v6} : /\ u.code \in {"ESERVFAIL", "ETIMEOUT", "ECONNREFUSED"}
                            /\ RefusedByResolver(v4, v6) = Rejection("URL_UNRESOLVABLE", Cause(u.code))
  BY DEF RefusedByResolver
<1>2. u.code # NULL
  BY <1>1, NullAssumption DEF ResolverCodeToClass
<1>3. ClassifyResolverCode(u.code) = "DNS_FAILURE"
  BY <1>1 DEF ClassifyResolverCode, ResolverCodeToClass
<1> QED BY <1>1, <1>2, <1>3 DEF ClassifyGuardRejection, Classification, Rejection, Cause

\* A destination that is not public is a refusal.
LEMMA ResolverRefusal ==
  ASSUME NEW v4 \in Answers, NEW v6 \in Answers,
         \A u \in {v4, v6} : ~Unknown(u),
         NEW a \in {v4, v6}, NEW i \in DOMAIN a.addresses, IsBlockedAddress(a.addresses[i])
  PROVE  ClassifyGuardRejection(RefusedByResolver(v4, v6)).class = "BLOCKED_BY_POLICY"
<1> DEFINE s == v4.addresses
           t == v6.addresses
<1>1. RefusedByResolver(v4, v6) = RefusedByAddress(s \o t)
  BY DEF RefusedByResolver
<1>2. s \in Seq(Range(s)) /\ t \in Seq(Range(t)) /\ a.addresses \in {s, t}
  BY InputAssumption
<1>3. (s \o t) # <<>> /\ \E k \in DOMAIN (s \o t) : IsBlockedAddress((s \o t)[k])
  <2> DEFINE A == Range(s) \cup Range(t)
  <2>1. s \in Seq(A) /\ t \in Seq(A)
    <3> HIDE DEF s, t
    <3> QED BY <1>2
  <2>2. CASE a.addresses = s
    <3>1. i \in DOMAIN s /\ IsBlockedAddress(s[i])
      BY <2>2
    <3> HIDE DEF s, t, A
    <3>2. i \in DOMAIN (s \o t) /\ (s \o t)[i] = s[i]
      BY <2>1, <3>1
    <3>3. s \o t \in Seq(A)
      BY <2>1
    <3> QED BY <3>1, <3>2, <3>3
  <2>3. CASE a.addresses = t
    <3>1. i \in DOMAIN t /\ IsBlockedAddress(t[i])
      BY <2>3
    <3> HIDE DEF s, t, A
    <3>2. Len(s) + i \in DOMAIN (s \o t) /\ (s \o t)[Len(s) + i] = t[i]
      BY <2>1, <3>1
    <3>3. s \o t \in Seq(A)
      BY <2>1
    <3> QED BY <3>1, <3>2, <3>3
  <2> QED BY <1>2, <2>2, <2>3
<1>4. RefusedByAddress(s \o t) = Rejection("ADDRESS_NOT_ALLOWED", NoCause)
  BY <1>3 DEF RefusedByAddress
<1> QED BY <1>1, <1>4 DEF ClassifyGuardRejection, Rejection, Classification

--------------------------------------------------------------------------------
(* The chain of redirects.                                                  *)

\* The next hop of a redirect keeps to both rules.
LEMMA NextHopRules ==
  ASSUME TypeOK, AtHome(request), MethodKept(request), request.redirects < MAX_REDIRECTS,
         NEW status, NEW url \in Urls
  PROVE  LET next == NextHop(status, url).request IN
         /\ NextHop(status, url).kind = "hop"
         /\ next \in Hop /\ next.redirects = request.redirects + 1
         /\ AtHome(next) /\ MethodKept(next)
<1> DEFINE method == MethodForRedirect(status, request.method)
           hop == HeadersForHop(request.headers, url, Origin, request.dropped, method # request.method)
           next == NextHop(status, url).request
<1>1. /\ NextHop(status, url).kind = "hop"
      /\ next = [url |-> url, method |-> method, headers |-> hop.headers, dropped |-> hop.dropped,
                 redirects |-> request.redirects + 1]
  BY DEF NextHop
<1>2. request \in Hop
  BY DEF TypeOK
<1>3. /\ method \in {request.method, "GET"}
      /\ method # request.method => method = "GET" /\ request.method \notin {"GET", "HEAD"}
  BY DEF MethodForRedirect
<1> DEFINE kept == {h \in request.headers : method # request.method => Lower[h] \notin BodyHeaders}
<1>4. \/ hop = [headers |-> {}, dropped |-> TRUE]
      \/ /\ ~request.dropped /\ SameOrigin(url, Origin)
         /\ hop = [headers |-> kept, dropped |-> FALSE]
  BY <1>2 DEF HeadersForHop, Hop
<1>5. kept \subseteq request.headers /\ (method # request.method => "Content-Type" \notin kept)
  <2>1. Lower["Content-Type"] \in BodyHeaders
    BY DEF Lower, BodyHeaders
  <2> QED BY <2>1
<1> HIDE DEF method, hop, kept
<1>6. /\ hop.headers \subseteq request.headers /\ hop.dropped \in BOOLEAN
      /\ hop.dropped => hop.headers = {}
      /\ ~hop.dropped => ~request.dropped /\ SameOrigin(url, Origin)
      /\ method # request.method => "Content-Type" \notin hop.headers
  <2>1. CASE hop = [headers |-> {}, dropped |-> TRUE]
    <3>1. hop.headers = {} /\ hop.dropped = TRUE
      BY <2>1
    <3> QED BY <3>1
  <2>2. CASE /\ ~request.dropped /\ SameOrigin(url, Origin)
             /\ hop = [headers |-> kept, dropped |-> FALSE]
    <3>1. hop.headers = kept /\ hop.dropped = FALSE
      BY <2>2
    <3> QED BY <1>5, <2>2, <3>1
  <2> QED BY <1>4, <2>1, <2>2
<1>7. next \in Hop /\ next.redirects = request.redirects + 1
  BY <1>1, <1>2, <1>3, <1>6, Constants DEF Hop
<1>8. AtHome(next)
  BY <1>1, <1>6 DEF AtHome
<1>9. MethodKept(next)
  BY <1>1, <1>3, <1>6 DEF MethodKept
<1> QED BY <1>1, <1>7, <1>8, <1>9

Sending == [url : Urls, method : Methods \cup {"GET"}, headers : SUBSET DOMAIN Lower,
            address : Addresses, trusted : BOOLEAN]

\* A request that is sent to an accepted address keeps every rule of the chain.
LEMMA SendKeeps ==
  ASSUME TypeOK, Steady, Unsent, UNCHANGED request, NEW socket \in sockets, Send(socket, TRUE)
  PROVE  /\ wire' \in Seq(Sending)
         /\ Sent' /\ OnlyValidatedPeers' /\ SecretsStayHome' /\ RewrittenCarriesNoBody'
         /\ AtHome(request)' /\ MethodKept(request)'
<1> DEFINE n == Len(wire)
           w == [url |-> request.url, method |-> request.method, headers |-> request.headers,
                 address |-> socket.address, trusted |-> TRUE]
<1>1. wire \in Seq(Sending) /\ request \in Hop /\ socket.address \in Addresses
  BY DEF TypeOK, Sending
<1>2. w \in Sending
  BY <1>1 DEF Sending, Hop
<1>3. wire' = Append(wire, w)
  BY DEF Send
<1>4. w.url = request.url /\ w.method = request.method /\ w.headers = request.headers
      /\ w.trusted /\ ~IsBlockedAddress(w.address)
  BY DEF Steady, SocketsSafe
<1> HIDE DEF w
<1>5. /\ wire' \in Seq(Sending) /\ n \in Nat /\ Len(wire') = n + 1
      /\ DOMAIN wire = 1 .. n /\ DOMAIN wire' = 1 .. (n + 1)
      /\ \A i \in 1 .. n : wire'[i] = wire[i]
      /\ wire'[n + 1] = w
  BY <1>1, <1>2, <1>3
<1> HIDE DEF n
<1>6. Sent'
  BY <1>4, <1>5 DEF Sent, Unsent, n
<1>7. OnlyValidatedPeers'
  <2> SUFFICES ASSUME NEW i \in 1 .. (n + 1)
               PROVE  ~IsBlockedAddress(wire'[i].address) /\ wire'[i].trusted
    BY <1>5 DEF OnlyValidatedPeers
  <2>1. CASE i = n + 1
    BY <1>4, <1>5, <2>1
  <2>2. CASE i \in 1 .. n
    BY <1>5, <2>2 DEF Steady, OnlyValidatedPeers
  <2> QED BY <1>5, <2>1, <2>2
<1>8. AtHome(request)'
  <2> SUFFICES ASSUME ~request.dropped, NEW i \in 1 .. (n + 1)
               PROVE  SameOrigin(wire'[i].url, Origin)
    BY <1>5 DEF AtHome, Steady
  <2>1. CASE i = n + 1
    BY <1>4, <1>5, <2>1 DEF AtHome, Steady
  <2>2. CASE i \in 1 .. n
    BY <1>5, <2>2 DEF AtHome, Steady
  <2> QED BY <1>5, <2>1, <2>2
<1>9. SecretsStayHome'
  <2> SUFFICES ASSUME NEW i \in 1 .. (n + 1), wire'[i].headers # {}, NEW j \in 1 .. i
               PROVE  /\ wire'[j].url.scheme = Origin.scheme /\ wire'[j].url.host = Origin.host
                      /\ EffectivePort(wire'[j].url) = EffectivePort(Origin)
    BY <1>5 DEF SecretsStayHome
  <2>1. CASE i = n + 1
    <3>1. request.headers # {} /\ j \in DOMAIN wire'
      BY <1>4, <1>5, <2>1
    <3>2. SameOrigin(wire'[j].url, Origin)
      BY <1>1, <1>8, <3>1 DEF AtHome, Steady, Hop
    <3> QED BY <3>2 DEF SameOrigin
  <2>2. CASE i \in 1 .. n
    <3>1. j \in 1 .. n
      BY <1>5, <2>2
    <3> QED BY <1>5, <2>2, <3>1 DEF Steady, SecretsStayHome
  <2> QED BY <1>5, <2>1, <2>2
<1>10. wire'[1] = IF n = 0 THEN w ELSE wire[1]
  BY <1>5
<1>11. MethodKept(request)'
  BY <1>4, <1>5, <1>10 DEF MethodKept, Steady
<1>12. RewrittenCarriesNoBody'
  <2> SUFFICES ASSUME NEW i \in 2 .. (n + 1), wire'[i].method # wire'[1].method
               PROVE  /\ wire'[i].method = "GET" /\ wire'[1].method \notin {"GET", "HEAD"}
                      /\ "Content-Type" \notin wire'[i].headers
    BY <1>5 DEF RewrittenCarriesNoBody
  <2>1. CASE i = n + 1
    <3>1. wire' # <<>>
      BY <1>5
    <3> QED BY <1>4, <1>5, <1>11, <2>1, <3>1 DEF MethodKept
  <2>2. CASE i \in 2 .. n
    BY <1>5, <1>10, <2>2 DEF Steady, RewrittenCarriesNoBody, n
  <2> QED BY <1>5, <2>1, <2>2
<1> QED BY <1>5, <1>6, <1>7, <1>8, <1>9, <1>11, <1>12

--------------------------------------------------------------------------------
(* What ends a probe is reported.                                           *)

\* The boundaries say where a deadline found the probe.
AbortFits ==
  /\ NotReached({"transfer_done"})
  /\ seen.stalled = "resolving" /\ (\A f \in Families : dns[f] = NULL) => NotReached({"dns_done"})
  /\ seen.stalled = "connecting" =>
       /\ marks["dns_done"] # NULL
       /\ marks["connect_done"] = NULL \/ (Secure /\ marks["tls_done"] = NULL)
  /\ seen.stalled = "waiting" => Awaited
  /\ seen.stalled = "reading" => BeingRead

Resolution(v4, v6) == Failure(ClassifyGuardRejection(RefusedByResolver(v4, v6)))

LEMMA RejectedIsResolution ==
  ASSUME NEW v4 \in Answers, NEW v6 \in Answers, NEW answers, answers = {v4, v6}
  PROVE  LET class == Resolution(v4, v6).class
             unread == {a \in answers : Unknown(a)}
         IN /\ unread # {} /\ (\A a \in unread : a.code \in {"ESERVFAIL", "ETIMEOUT", "ECONNREFUSED"})
                 => OutcomeLabel(FALSE, class) = "down" /\ class = "DNS_FAILURE"
            /\ unread = {} /\ (\E a \in answers : \E i \in DOMAIN a.addresses :
                                  IsBlockedAddress(a.addresses[i]))
                 => OutcomeLabel(FALSE, class) = "unknown" /\ class = "BLOCKED_BY_POLICY"
<1> DEFINE class == ClassifyGuardRejection(RefusedByResolver(v4, v6)).class
<1>2. Resolution(v4, v6).class = class
  BY DEF Resolution, Failure, Verdict
<1>3. ASSUME NEW b \in answers, Unknown(b),
             \A a \in {c \in answers : Unknown(c)} : a.code \in {"ESERVFAIL", "ETIMEOUT", "ECONNREFUSED"}
      PROVE  class = "DNS_FAILURE" /\ OutcomeLabel(FALSE, class) = "down"
  <2>1. class = "DNS_FAILURE"
    BY <1>3, ResolverOutage
  <2> QED BY <2>1, OutageIsDown DEF ConnectionClasses
<1>4. ASSUME \A c \in answers : ~Unknown(c),
             NEW b \in answers, NEW i \in DOMAIN b.addresses, IsBlockedAddress(b.addresses[i])
      PROVE  class = "BLOCKED_BY_POLICY" /\ OutcomeLabel(FALSE, class) = "unknown"
  <2>1. class = "BLOCKED_BY_POLICY"
    BY <1>4, ResolverRefusal
  <2> QED BY <2>1 DEF OutcomeLabel
<1> HIDE DEF class
<1> QED BY <1>2, <1>3, <1>4

LEMMA ReportIs ==
  ASSUME NEW after, Report(after, marks', cert'), UNCHANGED request
  PROVE  LET verdict == Classified(after, marks') IN
         /\ pc' = "done" /\ outcome'.kind = after.kind
         /\ outcome'.class = verdict.class /\ outcome'.success = verdict.success
         /\ outcome'.marks = marks' /\ outcome'.cert = cert'
         /\ outcome'.redirects = request'.redirects
BY DEF Report

\* An abort, as it is reported.
LEMMA AbortReported ==
  ASSUME TypeOK', AbortFits', UNCHANGED request
  PROVE  LET verdict == Classified(TimeoutError, marks') IN
         /\ verdict.success = FALSE /\ verdict.class \in ConnectionClasses
         /\ seen'.stalled = "resolving" /\ (\A f \in Families : dns'[f] = NULL)
              => verdict.class = "DNS_FAILURE"
         /\ seen'.stalled = "connecting" => verdict.class = "CONNECTION_TIMEOUT"
         /\ seen'.stalled = "waiting" => verdict.class = "RESPONSE_TIMEOUT"
         /\ seen'.stalled = "reading" => verdict.class = "BODY_TIMEOUT"
<1> DEFINE class == ClassifyAbort(marks', Secure)
<1>1. Classified(TimeoutError, marks').success = FALSE /\ Classified(TimeoutError, marks').class = class
  BY DEF Classified, TimeoutError, Failure, Verdict, Classification, Secure
<1>2. Secure \in BOOLEAN /\ Secure' = Secure
  BY DEF Secure
<1>3. DOMAIN marks' = Boundaries
  BY DEF TypeOK
<1> DEFINE m == marks'
           connected == m["dns_done"] # NULL /\ m["connect_done"] # NULL
                            /\ (Secure => m["tls_done"] # NULL)
<1>4. /\ m["dns_done"] = NULL => class = "DNS_FAILURE"
      /\ m["dns_done"] # NULL /\ ~connected => class = "CONNECTION_TIMEOUT"
      /\ connected /\ m["first_byte"] = NULL => class = "RESPONSE_TIMEOUT"
      /\ connected /\ m["first_byte"] # NULL /\ m["transfer_done"] = NULL
                 => class = "BODY_TIMEOUT"
  BY <1>2, <1>3, AbortClass
<1>5. m["transfer_done"] = NULL
  BY DEF AbortFits, NotReached
<1>6. class \in ConnectionClasses
  BY <1>4, <1>5 DEF ConnectionClasses
<1> HIDE DEF class
<1>7. seen'.stalled = "resolving" /\ (\A f \in Families : dns'[f] = NULL) => class = "DNS_FAILURE"
  BY <1>4 DEF AbortFits, NotReached
<1>8. seen'.stalled = "connecting" => class = "CONNECTION_TIMEOUT"
  BY <1>2, <1>4 DEF AbortFits
<1>9. seen'.stalled = "waiting" => class = "RESPONSE_TIMEOUT"
  BY <1>2, <1>4 DEF AbortFits, Awaited, NotReached
<1>10. seen'.stalled = "reading" => class = "BODY_TIMEOUT"
  BY <1>2, <1>4, <1>5 DEF AbortFits, BeingRead
<1> QED BY <1>1, <1>6, <1>7, <1>8, <1>9, <1>10

\* What a probe that is over has reported, whichever way it ended.
LEMMA ReportDone ==
  ASSUME TypeOK', NEW after, Report(after, marks', cert'), UNCHANGED <<request, wire>>,
         Concluded', \A socket \in sockets' : socket.pc # "open",
         Len(wire) <= request.redirects + 1, marks'["first_byte"] # NULL => Sent,
         \/ /\ after.kind = "verdict"
            /\ after.class = "TOO_MANY_REDIRECTS" =>
                 seen'.location # NULL /\ Len(wire) = MAX_REDIRECTS + 1
            /\ Rejected' => /\ \A f \in Families : dns'[f] \in Answers
                            /\ after = Resolution(dns'["v4"], dns'["v6"])
         \/ IsError(after)
         \/ after = TimeoutError /\ AbortFits'
  PROVE  AtDone'
<1> DEFINE verdict == Classified(after, marks')
<1>1. /\ pc' = "done" /\ outcome'.kind = after.kind
      /\ outcome'.class = verdict.class /\ outcome'.success = verdict.success
      /\ outcome'.marks = marks' /\ outcome'.cert = cert'
      /\ outcome'.redirects = request'.redirects
  BY ReportIs
<1> HIDE DEF verdict
<1>2. Sent' <=> Sent
  BY DEF Sent
<1>3. /\ Concluded' /\ (\A socket \in sockets' : socket.pc # "open")
      /\ Len(wire') <= request'.redirects + 1 /\ (marks'["first_byte"] # NULL => Sent')
      /\ outcome'.marks = marks' /\ outcome'.cert = cert' /\ outcome'.redirects = request'.redirects
  BY <1>1, <1>2
<1>4. Len(wire') <= MAX_REDIRECTS + 1
  <2>1. request.redirects \in 0 .. MAX_REDIRECTS /\ Len(wire) \in Nat
    BY DEF TypeOK, Hop
  <2> QED BY <2>1, Constants
<1>5. CASE /\ after.kind = "verdict"
           /\ after.class = "TOO_MANY_REDIRECTS" =>
                seen'.location # NULL /\ Len(wire) = MAX_REDIRECTS + 1
           /\ Rejected' => /\ \A f \in Families : dns'[f] \in Answers
                           /\ after = Resolution(dns'["v4"], dns'["v6"])
  <2>1. verdict = after
    BY <1>5 DEF verdict, Classified
  <2>2. BudgetRefusesRedirectsOnly' /\ DeadlineNamesPhase'
    BY <1>1, <1>4, <1>5, <2>1 DEF BudgetRefusesRedirectsOnly, DeadlineNamesPhase
  <2>3. OutagesCounted'
    <3>1. CASE Rejected'
      <4> DEFINE v4 == dns'["v4"]
                 v6 == dns'["v6"]
      <4>1. v4 \in Answers /\ v6 \in Answers
        BY <1>5, <3>1 DEF Families
      <4> DEFINE answers == {dns'[g] : g \in Families}
                 class == Resolution(v4, v6).class
      <4>2. answers = {v4, v6}
        BY DEF Families
      <4>3. outcome'.kind = "verdict" /\ outcome'.class = class /\ outcome'.success = FALSE
        BY <1>1, <1>5, <2>1, <3>1 DEF Resolution, Failure, Verdict
      <4> HIDE DEF v4, v6, answers
      <4> DEFINE unread == {a \in answers : Unknown(a)}
      <4>4. /\ unread # {} /\ (\A a \in unread : a.code \in {"ESERVFAIL", "ETIMEOUT", "ECONNREFUSED"})
                 => OutcomeLabel(FALSE, class) = "down" /\ class = "DNS_FAILURE"
            /\ unread = {} /\ (\E a \in answers : \E i \in DOMAIN a.addresses :
                                  IsBlockedAddress(a.addresses[i]))
                 => OutcomeLabel(FALSE, class) = "unknown" /\ class = "BLOCKED_BY_POLICY"
        BY <4>1, <4>2, RejectedIsResolution
      <4> HIDE DEF class, unread
      <4> QED BY <4>3, <4>4 DEF OutagesCounted, answers, unread
    <3>2. CASE ~Rejected'
      BY <1>1, <1>5, <3>2 DEF OutagesCounted
    <3> QED BY <3>1, <3>2
  <2> QED BY <1>3, <2>2, <2>3 DEF AtDone
<1>6. CASE IsError(after)
  <2>1. PICK code \in DocumentedCodes : after = Error(<<NULL, code>>)
    BY <1>6 DEF IsError
  <2>2. after.kind = "error" /\ after.chain = <<NULL, code>>
    BY <2>1 DEF Error
  <2>3. verdict = Failure(ClassifyError(<<NULL, code>>))
    BY <2>2 DEF verdict, Classified
  <2>4. verdict.class = ClassifyError(<<NULL, code>>).class /\ verdict.success = FALSE
    BY <2>3 DEF Failure, Verdict
  <2>5. OutcomeLabel(outcome'.success, outcome'.class) = "down"
        /\ outcome'.class # "TOO_MANY_REDIRECTS"
    BY <1>1, <2>4, ErrorClass, OutageIsDown
  <2>6. BudgetRefusesRedirectsOnly' /\ DeadlineNamesPhase' /\ OutagesCounted'
    BY <1>1, <1>4, <2>2, <2>5 DEF BudgetRefusesRedirectsOnly, DeadlineNamesPhase, OutagesCounted
  <2> QED BY <1>3, <2>6 DEF AtDone
<1>7. CASE after = TimeoutError /\ AbortFits'
  <2>1. /\ verdict.success = FALSE /\ verdict.class \in ConnectionClasses
        /\ seen'.stalled = "resolving" /\ (\A f \in Families : dns'[f] = NULL)
             => verdict.class = "DNS_FAILURE"
        /\ seen'.stalled = "connecting" => verdict.class = "CONNECTION_TIMEOUT"
        /\ seen'.stalled = "waiting" => verdict.class = "RESPONSE_TIMEOUT"
        /\ seen'.stalled = "reading" => verdict.class = "BODY_TIMEOUT"
    BY <1>7, AbortReported DEF verdict
  <2>2. after.kind = "abort"
    BY <1>7 DEF TimeoutError
  <2>3. OutcomeLabel(outcome'.success, outcome'.class) = "down"
        /\ outcome'.class # "TOO_MANY_REDIRECTS"
    <3>1. outcome'.class \in ConnectionClasses /\ outcome'.success = FALSE
      BY <1>1, <2>1
    <3> QED BY <3>1, OutageIsDown
  <2>4. BudgetRefusesRedirectsOnly' /\ OutagesCounted'
    BY <1>1, <1>4, <2>2, <2>3 DEF BudgetRefusesRedirectsOnly, OutagesCounted
  <2>5. DeadlineNamesPhase'
    <3>1. outcome'.class = verdict.class
      BY <1>1
    <3> DEFINE stalled == seen'.stalled
    <3>2. CASE stalled \in {"connecting", "waiting", "reading"}
      BY <2>1, <3>1, <3>2 DEF DeadlineNamesPhase
    <3>3. CASE stalled \notin {"connecting", "waiting", "reading"}
      BY <2>1, <3>1, <3>3 DEF DeadlineNamesPhase
    <3> QED BY <3>2, <3>3
  <2> QED BY <1>3, <2>4, <2>5 DEF AtDone
<1> QED BY <1>5, <1>6, <1>7

--------------------------------------------------------------------------------
(* Steps.                                                                   *)

Marking == [Boundaries -> 0 .. now \cup {NULL}]
Socket == [pc : {"connecting", "handshake", "open"}, address : Addresses, timer : 0 .. MAX_TIME]
History == [hopAt : 0 .. now, last : 0 .. now, stalled : Phases \cup {NULL},
            location : Urls \cup {NULL, INVALID}, satisfied : BOOLEAN]
Certified == {url.host : url \in Urls} \cup {NULL}
Answering == [Families -> Answers \cup {NULL}]

LEMMA MarkedIs ==
  ASSUME now \in Nat, NEW base \in Marking, NEW reached \in SUBSET Boundaries
  PROVE  /\ Marked(base, reached) \in Marking
         /\ \A b \in reached : Marked(base, reached)[b] = now /\ now # NULL
         /\ \A b \in Boundaries \ reached : Marked(base, reached)[b] = base[b]
<1>1. now # NULL
  BY NotNull
<1> QED BY <1>1 DEF Marked, Marking

LEMMA Unset == Unmarked \in Marking /\ Unanswered \in Answering
               /\ (\A b \in Boundaries : Unmarked[b] = NULL) /\ (\A f \in Families : Unanswered[f] = NULL)
BY DEF Unmarked, Marking, Unanswered, Answering

\* The hop begins with nothing of the one before.
LEMMA FreshIs ==
  ASSUME AtHop, request.redirects \in Nat
  PROVE  Fresh.marks = Unmarked /\ Fresh.cert = NULL
BY DEF AtHop, Fresh

LEMMA SteadyStays ==
  ASSUME Steady, UNCHANGED <<request, wire>>,
         ~aborted' /\ pc' # "done" => now' <= TIMEOUT, SocketsSafe', pc' # "hop" => OfThisHop'
  PROVE  Steady'
<1>1. AtHome(request)' /\ MethodKept(request)'
  BY DEF Steady, AtHome, MethodKept
<1>2. OnlyValidatedPeers' /\ SecretsStayHome' /\ RewrittenCarriesNoBody'
  BY DEF Steady, OnlyValidatedPeers, SecretsStayHome, RewrittenCarriesNoBody
<1> QED BY <1>1, <1>2 DEF Steady

LEMMA TypeSends ==
  ASSUME TypeOK, UNCHANGED now, wire' \in Seq(Sending), aborted' \in BOOLEAN, pc' \in Phases, request' \in Hop,
         dns' \in Answering, marks' \in Marking, endAt' \in 0 .. now \cup {NULL},
         sockets' \subseteq Socket, cert' \in Certified, seen' \in History,
         pc' # "done" => outcome' = NULL, pc' = "done" => endAt' # NULL
  PROVE  TypeOK'
<1>1. now' \in 0 .. MAX_TIME /\ aborted' \in BOOLEAN /\ pc' \in Phases
  BY DEF TypeOK
<1>2. request' \in Hop' /\ dns' \in [Families -> Answers \cup {NULL}]
      /\ marks' \in [Boundaries -> 0 .. now' \cup {NULL}] /\ endAt' \in 0 .. now' \cup {NULL}
  BY DEF Answering, Marking, Hop
<1>3. sockets' \subseteq [pc : {"connecting", "handshake", "open"}, address : Addresses,
                       timer : 0 .. MAX_TIME]
      /\ cert' \in {url.host : url \in Urls} \cup {NULL}
      /\ seen' \in [hopAt : 0 .. now', last : 0 .. now', stalled : Phases \cup {NULL},
               location : Urls \cup {NULL, INVALID}, satisfied : BOOLEAN]
  BY DEF Socket, Certified, History
<1>4. wire' \in Seq([url : Urls, method : Methods \cup {"GET"}, headers : SUBSET DOMAIN Lower,
                  address : Addresses, trusted : BOOLEAN])
  BY DEF Sending
<1> QED BY <1>1, <1>2, <1>3, <1>4 DEF TypeOK

LEMMA TypeStays ==
  ASSUME TypeOK, UNCHANGED <<now, wire>>, aborted' \in BOOLEAN, pc' \in Phases, request' \in Hop,
         dns' \in Answering, marks' \in Marking, endAt' \in 0 .. now \cup {NULL},
         sockets' \subseteq Socket, cert' \in Certified, seen' \in History,
         pc' # "done" => outcome' = NULL, pc' = "done" => endAt' # NULL
  PROVE  TypeOK'
<1>1. wire' \in Seq(Sending)
  BY DEF TypeOK, Sending
<1> QED BY <1>1, TypeSends

\* The types, by their names.
LEMMA Types ==
  ASSUME TypeOK
  PROVE  /\ now \in Nat /\ now <= MAX_TIME /\ aborted \in BOOLEAN /\ pc \in Phases /\ request \in Hop
         /\ dns \in Answering /\ marks \in Marking /\ endAt \in 0 .. now \cup {NULL}
         /\ sockets \subseteq Socket /\ cert \in Certified /\ seen \in History
         /\ request.redirects \in Nat /\ Len(wire) \in Nat /\ request.url.host \in Certified
<1>1. request \in Hop /\ now \in 0 .. MAX_TIME
  BY DEF TypeOK
<1>2. request.redirects \in Nat /\ request.url \in Urls /\ now \in Nat /\ now <= MAX_TIME
  BY <1>1, Constants DEF Hop
<1>3. request.url.host \in Certified
  BY <1>2 DEF Certified
<1>4. Len(wire) \in Nat
  BY DEF TypeOK
<1> QED BY <1>1, <1>2, <1>3, <1>4 DEF TypeOK, Answering, Marking, Socket, Certified, History

\* A step that ends the probe.
LEMMA ProbeEnds ==
  ASSUME IInv, UNCHANGED <<now, request, wire>>, aborted' \in BOOLEAN,
         dns' \in Answering, marks' \in Marking, cert' \in Certified, seen' \in History,
         sockets' \subseteq sockets, \A socket \in sockets' : socket.pc # "open",
         endAt' \in 0 .. now, endAt' = seen'.last, OfThisHop',
         Len(wire) <= request.redirects + 1, marks'["first_byte"] # NULL => Sent,
         NEW after, Report(after, marks', cert'),
         \/ /\ after.kind = "verdict"
            /\ after.class = "TOO_MANY_REDIRECTS" =>
                 seen'.location # NULL /\ Len(wire) = MAX_REDIRECTS + 1
            /\ Rejected' => /\ \A f \in Families : dns'[f] \in Answers
                            /\ after = Resolution(dns'["v4"], dns'["v6"])
         \/ IsError(after)
         \/ after = TimeoutError /\ AbortFits'
  PROVE  IInv'
<1>1. pc' = "done"
  BY DEF Report
<1>2. endAt' # NULL
  BY NotNull
<1>3. TypeOK /\ Steady
  BY DEF IInv
<1>4. TypeOK'
  <2>1. sockets' \subseteq Socket
    BY <1>3, Types
  <2>2. pc' \in Phases /\ request' \in Hop
    BY <1>1, <1>3, Types DEF Phases
  <2>3. endAt' \in 0 .. now \cup {NULL}
    OBVIOUS
  <2> QED BY <1>1, <1>2, <1>3, <2>1, <2>2, <2>3, TypeStays
<1>5. Steady'
  <2>1. SocketsSafe'
    BY <1>3 DEF Steady, SocketsSafe
  <2> QED BY <1>1, <1>3, <2>1, SteadyStays
<1>6. Concluded'
  BY <1>2 DEF Concluded
<1>7. AtDone'
  BY <1>4, <1>6, ReportDone
<1> QED BY <1>1, <1>4, <1>5, <1>7 DEF IInv

LEMMA HopNoticed ==
  ASSUME now \in Nat, seen \in History, NEW noticed, noticed = [seen EXCEPT !.hopAt = now, !.last = now]
  PROVE  noticed \in History /\ noticed.hopAt = now /\ noticed.last = now
         /\ noticed.stalled = seen.stalled /\ noticed.location = seen.location
<1> DEFINE begun == [seen EXCEPT !.hopAt = now]
<1>1. now \in 0 .. now
  OBVIOUS
<1>2. begun \in History /\ begun.hopAt = now /\ begun.stalled = seen.stalled
      /\ begun.location = seen.location
  BY <1>1 DEF History
<1>3. noticed = [begun EXCEPT !.last = now]
  OBVIOUS
<1> HIDE DEF begun
<1> QED BY <1>1, <1>2, <1>3 DEF History

LEMMA NoticedNow ==
  ASSUME now \in Nat, seen \in History, pc # "done", Noticed
  PROVE  seen' \in History /\ seen'.hopAt = seen.hopAt /\ seen'.last = now
         /\ seen'.stalled = seen.stalled /\ seen'.location = seen.location
<1>1. seen' = [seen EXCEPT !.last = now] /\ now \in 0 .. now
  BY DEF Noticed
<1> QED BY <1>1 DEF History

LEMMA InvInit == Init => IInv
<1> SUFFICES ASSUME Init PROVE IInv
  OBVIOUS
<1>1. PICK method \in Methods :
        request = [url |-> Origin, method |-> method, headers |-> DOMAIN Lower, dropped |-> FALSE,
                   redirects |-> 0]
  BY DEF Init
<1>2. request \in Hop /\ request.redirects = 0 /\ request.url = Origin /\ request.dropped = FALSE
  BY <1>1, InputAssumption, Constants DEF Hop
<1>3. wire = <<>> /\ DOMAIN wire = {} /\ Len(wire) = 0
  BY DEF Init
<1>4. TypeOK
  <2>1. now \in 0 .. MAX_TIME
    BY Constants DEF Init
  <2>5. aborted \in BOOLEAN /\ pc \in Phases /\ pc = "hop"
        /\ endAt = NULL /\ sockets = {} /\ cert = NULL /\ outcome = NULL
    BY DEF Init, Phases
  <2>2. dns \in [Families -> Answers \cup {NULL}] /\ marks \in [Boundaries -> 0 .. now \cup {NULL}]
    BY DEF Init, Unanswered, Unmarked
  <2>3. wire \in Seq([url : Urls, method : Methods \cup {"GET"}, headers : SUBSET DOMAIN Lower,
                  address : Addresses, trusted : BOOLEAN])
    BY <1>3
  <2>4. seen \in [hopAt : 0 .. now, last : 0 .. now, stalled : Phases \cup {NULL},
                  location : Urls \cup {NULL, INVALID}, satisfied : BOOLEAN]
    BY DEF Init
  <2> QED BY <1>2, <2>1, <2>2, <2>3, <2>4, <2>5 DEF TypeOK
<1>5. Steady
  <2>1. now <= TIMEOUT /\ SocketsSafe /\ pc = "hop"
    BY Constants DEF Init, SocketsSafe
  <2>2. AtHome(request) /\ MethodKept(request)
    BY <1>2, <1>3 DEF AtHome, MethodKept, SameOrigin
  <2>3. OnlyValidatedPeers /\ SecretsStayHome /\ RewrittenCarriesNoBody
    BY <1>3 DEF OnlyValidatedPeers, SecretsStayHome, RewrittenCarriesNoBody
  <2> QED BY <2>1, <2>2, <2>3 DEF Steady
<1>6. pc = "hop" /\ AtHop
  BY <1>2, <1>3 DEF Init, AtHop, Running, Unsent
<1> QED BY <1>4, <1>5, <1>6 DEF IInv

LEMMA HopAbortedInv == IInv /\ HopAborted => IInv'
<1> SUFFICES ASSUME IInv, HopAborted PROVE IInv'
  OBVIOUS
<1>1. TypeOK /\ AtHop /\ UNCHANGED <<now, aborted, request, sockets, wire>>
  BY DEF IInv, HopAborted
<1>2. now \in Nat /\ aborted \in BOOLEAN /\ seen \in History /\ request.redirects \in Nat
  BY <1>1, Types
<1> DEFINE reached == IF Resolves THEN {"dns_start"} ELSE {}
<1>3. marks' = Marked(Unmarked, reached) /\ cert' = NULL /\ dns' = Unanswered /\ endAt' = now
  BY <1>1, <1>2, FreshIs DEF HopAborted
<1>4. seen' \in History /\ seen'.last = now /\ seen'.hopAt = now /\ seen'.stalled = NULL
  <2>1. seen' = [seen EXCEPT !.hopAt = now, !.last = now]
    BY DEF HopAborted
  <2> QED BY <1>1, <1>2, <2>1, HopNoticed DEF AtHop, Running
<1>5. /\ marks' \in Marking /\ marks'["dns_start"] \in {NULL, now}
      /\ \A b \in Boundaries \ {"dns_start"} : marks'[b] = NULL
  <2>1. reached \in SUBSET Boundaries /\ reached \subseteq {"dns_start"} /\ "dns_start" \in Boundaries
    BY DEF Boundaries
  <2> HIDE DEF reached
  <2>2. /\ marks' \in Marking /\ \A b \in reached : marks'[b] = now
        /\ \A b \in Boundaries \ reached : marks'[b] = NULL
    BY <1>2, <1>3, <2>1, MarkedIs, Unset
  <2> QED BY <2>1, <2>2
<1>6. OfThisHop'
  BY <1>2, <1>3, <1>4, <1>5 DEF OfThisHop
<1>7. AbortFits'
  BY <1>4, <1>5, NotNull DEF AbortFits, NotReached, Boundaries, Phases
<1>8. Report(TimeoutError, marks', cert')
  BY <1>1, <1>2, FreshIs DEF HopAborted
<1>9. Len(wire) <= request.redirects + 1 /\ marks'["first_byte"] = NULL
  BY <1>1, <1>5 DEF AtHop, Unsent, Boundaries
<1>10. cert' \in Certified /\ endAt' \in 0 .. now /\ sockets' = {}
  BY <1>1, <1>2, <1>3 DEF Certified, AtHop
<1> QED BY <1>1, <1>2, <1>3, <1>4, <1>5, <1>6, <1>7, <1>8, <1>9, <1>10, Unset, ProbeEnds

\* A dispatcher that is made for the hop dials an address that the guard accepted.
LEMMA ConnectInv ==
  ASSUME IInv, ~aborted, sockets = {}, Running, Unsent, pc # "done", UNCHANGED now,
         NEW address \in Addresses, ~IsBlockedAddress(address),
         NEW base \in Marking, base["dns_done"] # NULL,
         \A b \in {"connect_done", "tls_done", "first_byte", "transfer_done"} : base[b] = NULL,
         \A b \in Boundaries : base[b] # NULL => base[b] >= seen'.hopAt,
         cert' = NULL, dns' = Unanswered, seen' \in History, seen'.stalled = NULL,
         Connect(address, base)
  PROVE  IInv'
<1> DEFINE timer == now + RemainingBudget
           made == [pc |-> "connecting", address |-> address, timer |-> timer]
<1>1. TypeOK /\ Steady /\ now \in Nat /\ now <= TIMEOUT /\ outcome = NULL
  <2>1. TypeOK /\ Steady
    BY DEF IInv
  <2> QED BY <2>1, Types DEF Steady, TypeOK
<1>2. timer \in Nat /\ timer <= TIMEOUT + FLOOR /\ timer \in 0 .. MAX_TIME
  <2>1. timer \in Nat /\ timer <= TIMEOUT + FLOOR
    BY <1>1, TimerInBudget
  <2> HIDE DEF timer
  <2> QED BY <2>1, Constants
<1>3. /\ pc' = "connecting" /\ sockets' = {made}
      /\ UNCHANGED <<aborted, request, endAt, body, ahead, outcome, wire>>
      /\ marks' = Marked(base, {"connect_start"})
  BY DEF Connect, Dialled
<1> HIDE DEF timer
<1>4. PICK socket \in Socket : socket = made
  BY <1>2 DEF Socket
<1>9. socket.pc = "connecting" /\ socket.timer = timer /\ socket.address = address
  BY <1>4
<1> HIDE DEF made
<1>5. /\ marks' \in Marking /\ marks'["connect_start"] = now /\ now # NULL
      /\ \A b \in Boundaries \ {"connect_start"} : marks'[b] = base[b]
  BY <1>1, <1>3, MarkedIs, "connect_start" \in Boundaries DEF Boundaries
<1>6. TypeOK'
  <2>1. pc' \in Phases /\ pc' # "done" /\ request' \in Hop /\ endAt' \in 0 .. now \cup {NULL}
    BY <1>1, <1>3, Types DEF Phases
  <2>2. aborted' \in BOOLEAN /\ cert' \in Certified /\ sockets' \subseteq Socket
    BY <1>1, <1>3, <1>4, Types DEF Certified
  <2> QED BY <1>1, <1>3, <1>5, <2>1, <2>2, TypeStays, Unset
<1>7. Steady'
  <2>1. SocketsSafe'
    BY <1>2, <1>3, <1>4, <1>9 DEF SocketsSafe
  <2>2. OfThisHop'
    <3>1. seen'.hopAt \in 0 .. now
      BY DEF History
    <3> QED BY <1>1, <1>5, <3>1 DEF OfThisHop
  <2> QED BY <1>1, <1>3, <2>1, <2>2, SteadyStays
<1>8. AtConnecting'
  <2>1. Running' /\ Unsent' /\ ~aborted'
    BY <1>3 DEF Running, Unsent
  <2>2. /\ marks'["dns_done"] # NULL /\ marks'["connect_start"] # NULL
        /\ \A b \in {"connect_done", "tls_done", "first_byte", "transfer_done"} : marks'[b] = NULL
    BY <1>5 DEF Boundaries
  <2>3. socket \in sockets' /\ sockets' = {socket} /\ Dialling(socket)'
    BY <1>3, <1>4, <1>9, <2>2 DEF Dialling, NotReached
  <2> QED BY <2>1, <2>2, <2>3 DEF AtConnecting, NotReached
<1> QED BY <1>3, <1>6, <1>7, <1>8 DEF IInv

LEMMA HopWithoutDnsInv == IInv /\ HopWithoutDns => IInv'
<1> SUFFICES ASSUME IInv, HopWithoutDns PROVE IInv'
  OBVIOUS
<1>1. TypeOK /\ AtHop /\ UNCHANGED now /\ ~aborted /\ pc = "hop"
  BY DEF IInv, HopWithoutDns
<1>2. now \in Nat /\ aborted \in BOOLEAN /\ seen \in History /\ request.redirects \in Nat
  BY <1>1, Types
<1>3. Fresh.marks = Unmarked /\ Fresh.cert = NULL /\ cert' = NULL /\ dns' = Unanswered
  BY <1>1, <1>2, FreshIs DEF HopWithoutDns
<1>4. /\ seen' \in History /\ seen'.last = now /\ seen'.hopAt = now /\ seen'.stalled = NULL
  BY <1>1, <1>2, HopNoticed DEF HopWithoutDns, AtHop, Running
<1> DEFINE address == Literal[request.url.host]
           rejection == IF RefusedByUrl(request.url) # NULL THEN RefusedByUrl(request.url)
                        ELSE RefusedByAddress(<<address>>)
           base == Marked(Unmarked, {"dns_start", "dns_done"})
<1>5. CASE rejection # NULL
  <2> DEFINE after == Failure(ClassifyGuardRejection(rejection))
  <2>1. Reject(rejection, Unmarked, NULL)
    BY <1>3, <1>5 DEF HopWithoutDns
  <2>2. /\ endAt' = now /\ marks' = Unmarked /\ Report(after, marks', cert')
        /\ UNCHANGED <<aborted, request, sockets, wire>>
    BY <1>3, <2>1 DEF Reject
  <2>3. after.kind = "verdict" /\ after.class # "TOO_MANY_REDIRECTS"
    BY GuardClass DEF Failure, Verdict
  <2>4. ~Rejected' /\ OfThisHop'
    BY <1>3, <2>2, Unset DEF Rejected, OfThisHop, Families
  <2>5. Len(wire) <= request.redirects + 1 /\ marks'["first_byte"] = NULL /\ sockets' = {}
        /\ cert' \in Certified /\ endAt' \in 0 .. now
    BY <1>1, <1>2, <1>3, <2>2, Unset DEF AtHop, Unsent, Boundaries, Certified
  <2> HIDE DEF after
  <2> QED BY <1>1, <1>2, <1>3, <1>4, <2>2, <2>3, <2>4, <2>5, Unset, ProbeEnds
<1>6. CASE rejection = NULL
  <2>1. Connect(address, Marked(Fresh.marks, {"dns_start", "dns_done"}))
    BY <1>6 DEF HopWithoutDns
  <2>2. RefusedByUrl(request.url) = NULL /\ RefusedByAddress(<<address>>) = NULL
    BY <1>6
  <2>3. address \in Addresses /\ ~IsBlockedAddress(address)
    BY <2>2, AcceptedLiteral DEF HopWithoutDns, Resolves
  <2>4. /\ base \in Marking /\ base["dns_done"] # NULL
        /\ \A b \in {"connect_done", "tls_done", "first_byte", "transfer_done"} : base[b] = NULL
        /\ \A b \in Boundaries : base[b] # NULL => base[b] >= seen'.hopAt
    <3>1. {"dns_start", "dns_done"} \in SUBSET Boundaries
      BY DEF Boundaries
    <3>2. base \in Marking /\ (\A b \in {"dns_start", "dns_done"} : base[b] = now /\ now # NULL)
          /\ \A b \in Boundaries \ {"dns_start", "dns_done"} : base[b] = NULL
      BY <1>2, <3>1, MarkedIs, Unset
    <3> HIDE DEF base
    <3> QED BY <1>2, <1>4, <3>2 DEF Boundaries
  <2>5. Connect(address, base)
    BY <1>3, <2>1
  <2> HIDE DEF base, address
  <2> QED BY <1>1, <1>3, <1>4, <2>3, <2>4, <2>5, ConnectInv DEF AtHop
<1> QED BY <1>5, <1>6

LEMMA HopResolvesInv == IInv /\ HopResolves => IInv'
<1> SUFFICES ASSUME IInv, HopResolves PROVE IInv'
  OBVIOUS
<1>1. /\ TypeOK /\ Steady /\ AtHop /\ ~aborted /\ pc = "hop"
      /\ UNCHANGED <<now, aborted, request, endAt, sockets, body, ahead, outcome, wire>>
      /\ pc' = "resolving" /\ dns' = Unanswered
  BY DEF IInv, HopResolves
<1>2. now \in Nat /\ aborted \in BOOLEAN /\ seen \in History /\ request.redirects \in Nat
  BY <1>1, Types
<1>3. cert' = NULL /\ marks' = Marked(Unmarked, {"dns_start"})
  BY <1>1, <1>2, FreshIs DEF HopResolves
<1>4. /\ seen' \in History /\ seen'.last = now /\ seen'.hopAt = now /\ seen'.stalled = NULL
  BY <1>1, <1>2, HopNoticed DEF HopResolves, AtHop, Running
<1>5. /\ marks' \in Marking /\ marks'["dns_start"] = now
      /\ \A b \in Boundaries \ {"dns_start"} : marks'[b] = NULL
  <2>1. {"dns_start"} \in SUBSET Boundaries
    BY DEF Boundaries
  <2> QED BY <1>2, <1>3, <2>1, MarkedIs, Unset
<1>6. TypeOK'
  <2>1. pc' \in Phases /\ pc' # "done" /\ outcome = NULL /\ cert' \in Certified
    BY <1>1, <1>3 DEF Phases, TypeOK, Certified
  <2> QED BY <1>1, <1>4, <1>5, <2>1, Types, TypeStays, Unset
<1>7. Steady'
  <2>1. OfThisHop'
    BY <1>2, <1>3, <1>4, <1>5 DEF OfThisHop
  <2>2. SocketsSafe' /\ now' <= TIMEOUT
    BY <1>1 DEF Steady, SocketsSafe
  <2> QED BY <1>1, <2>1, <2>2, SteadyStays
<1>8. AtResolving'
  BY <1>1, <1>3, <1>4, <1>5, Unset DEF AtHop, AtResolving, Running, Unsent, NotReached, Boundaries, Families
<1> QED BY <1>1, <1>6, <1>7, <1>8 DEF IInv

LEMMA FamilyAnsweredInv == IInv /\ FamilyAnswered => IInv'
<1> SUFFICES ASSUME IInv, FamilyAnswered PROVE IInv'
  OBVIOUS
<1>1. /\ TypeOK /\ Steady /\ AtResolving /\ pc = "resolving" /\ outcome = NULL
      /\ UNCHANGED <<now, aborted, pc, request, endAt, sockets, cert, body, ahead, outcome, wire, seen>>
  BY DEF IInv, FamilyAnswered, TypeOK
<1>2. /\ now \in Nat /\ aborted \in BOOLEAN /\ seen \in History /\ marks \in Marking
      /\ dns \in Answering /\ pc \in Phases /\ request \in Hop /\ endAt \in 0 .. now \cup {NULL}
      /\ sockets \subseteq Socket /\ cert \in Certified
  BY <1>1, Types
<1>3. /\ marks' \in Marking /\ marks'["dns_done"] = now
      /\ \A b \in Boundaries \ {"dns_done"} : marks'[b] = marks[b]
  <2>1. {"dns_done"} \in SUBSET Boundaries
    BY DEF Boundaries
  <2> QED BY <1>2, <2>1, MarkedIs DEF FamilyAnswered, Mark
<1>4. PICK f \in Families, answer \in Answers, g \in Families :
        f # g /\ dns[f] = NULL /\ dns' = [dns EXCEPT ![f] = answer] /\ dns[g] = NULL
  BY DEF FamilyAnswered
<1>5. dns' \in Answering /\ dns'[f] # NULL /\ dns'[g] = NULL
  BY <1>2, <1>4, NullAssumption DEF Answering
<1>6. TypeOK'
  BY <1>1, <1>2, <1>3, <1>5, TypeStays
<1>7. Steady'
  <2>1. OfThisHop'
    <3>1. seen.hopAt \in 0 .. now
      BY <1>2 DEF History
    <3> QED BY <1>1, <1>2, <1>3, <3>1 DEF OfThisHop, Steady, AtResolving
  <2>2. SocketsSafe' /\ now' <= TIMEOUT
    BY <1>1 DEF Steady, SocketsSafe, AtResolving
  <2> QED BY <1>1, <2>1, <2>2, SteadyStays
<1>8. AtResolving'
  BY <1>1, <1>3, <1>4, <1>5 DEF AtResolving, Running, Unsent, NotReached, Boundaries
<1> QED BY <1>1, <1>6, <1>7, <1>8 DEF IInv

LEMMA ResolvedInv == IInv /\ Resolved => IInv'
<1> SUFFICES ASSUME IInv, Resolved PROVE IInv'
  OBVIOUS
<1>1. /\ TypeOK /\ Steady /\ AtResolving /\ pc = "resolving" /\ outcome = NULL
      /\ UNCHANGED <<now, cert>> /\ Noticed
  BY DEF IInv, Resolved, TypeOK
<1>2. /\ now \in Nat /\ aborted \in BOOLEAN /\ seen \in History /\ marks \in Marking
      /\ dns \in Answering /\ cert \in Certified /\ request.redirects \in Nat
  BY <1>1, Types
<1>3. seen' \in History /\ seen'.last = now /\ seen'.hopAt = seen.hopAt /\ seen'.stalled = NULL
  BY <1>1, <1>2, NoticedNow DEF AtResolving, Running
<1> DEFINE base == Mark({"dns_done"})
<1>4. /\ base \in Marking /\ base["dns_done"] = now /\ base["dns_done"] # NULL
      /\ \A b \in Boundaries \ {"dns_done"} : base[b] = marks[b]
  <2>1. {"dns_done"} \in SUBSET Boundaries
    BY DEF Boundaries
  <2> QED BY <1>2, <2>1, MarkedIs DEF Mark
<1> HIDE DEF base
<1>5. /\ \A b \in {"connect_start", "connect_done", "tls_done", "first_byte", "transfer_done"} :
           base[b] = NULL
      /\ \A b \in Boundaries : base[b] # NULL => base[b] >= seen'.hopAt
  <2>1. seen.hopAt \in 0 .. now /\ OfThisHop
    BY <1>1, <1>2 DEF History, Steady
  <2> QED BY <1>1, <1>2, <1>3, <1>4, <2>1 DEF AtResolving, NotReached, OfThisHop, Boundaries
<1>6. PICK f \in Families, answer \in Answers :
        LET found == [dns EXCEPT ![f] = answer]
            rejection == RefusedByResolver(found["v4"], found["v6"])
        IN /\ dns[f] = NULL
           /\ \A g \in Families \ {f} : dns[g] # NULL
           /\ IF rejection # NULL THEN Reject(rejection, base, cert) /\ dns' = found
              ELSE /\ Connect((found["v4"].addresses \o found["v6"].addresses)[1], base)
                   /\ dns' = Unanswered
  BY DEF Resolved, base
<1> DEFINE found == [dns EXCEPT ![f] = answer]
           v4 == found["v4"]
           v6 == found["v6"]
           rejection == RefusedByResolver(v4, v6)
           address == (v4.addresses \o v6.addresses)[1]
<1>7. v4 \in Answers /\ v6 \in Answers /\ found \in Answering /\ \A g \in Families : found[g] \in Answers
  BY <1>2, <1>6 DEF Answering, Families
<1>8. /\ rejection # NULL => Reject(rejection, base, cert) /\ dns' = found
      /\ rejection = NULL => Connect(address, base) /\ dns' = Unanswered
  BY <1>6
<1>9. CASE rejection # NULL
  <2> DEFINE after == Failure(ClassifyGuardRejection(rejection))
  <2>1. /\ endAt' = now /\ marks' = base /\ Report(after, marks', cert') /\ dns' = found
        /\ UNCHANGED <<aborted, request, sockets, wire>>
    BY <1>1, <1>8, <1>9 DEF Reject
  <2>2. after.kind = "verdict" /\ after.class # "TOO_MANY_REDIRECTS"
    BY GuardClass DEF Failure, Verdict
  <2>3. after = Resolution(dns'["v4"], dns'["v6"]) /\ dns' \in Answering
        /\ \A g \in Families : dns'[g] \in Answers
    BY <1>7, <2>1 DEF Resolution
  <2>4. OfThisHop'
    BY <1>1, <1>5, <2>1 DEF OfThisHop, AtResolving
  <2>5. Len(wire) <= request.redirects + 1 /\ marks'["first_byte"] = NULL /\ sockets' = {}
        /\ endAt' \in 0 .. now
    BY <1>1, <1>2, <1>5, <2>1 DEF AtResolving, Unsent
  <2> HIDE DEF after
  <2> QED BY <1>1, <1>2, <1>3, <1>4, <2>1, <2>2, <2>3, <2>4, <2>5, ProbeEnds
<1>10. CASE rejection = NULL
  <2>1. Connect(address, base) /\ dns' = Unanswered
    BY <1>8, <1>10
  <2>2. address \in Addresses /\ ~IsBlockedAddress(address)
    BY <1>7, <1>10, AcceptedAnswer
  <2>3. cert' = NULL
    BY <1>1 DEF AtResolving
  <2> HIDE DEF address
  <2> QED BY <1>1, <1>3, <1>4, <1>5, <2>1, <2>2, <2>3, ConnectInv DEF AtResolving
<1> QED BY <1>9, <1>10

\* Only a fetch that waits, and a probe that is over, have a socket that is not handed over.
LEMMA SocketAt ==
  ASSUME IInv, NEW socket \in sockets, socket.pc # "open"
  PROVE  \/ pc = "connecting" /\ sockets = {socket} /\ Dialling(socket)
         \/ pc = "done"
<1>1. pc \in Phases
  BY DEF IInv, TypeOK
<1>2. CASE pc \in {"hop", "resolving"}
  BY <1>2 DEF IInv, AtHop, AtResolving
<1>3. CASE pc \in {"waiting", "reading", "discarding", "closing"}
  BY <1>3 DEF IInv, AtWaiting, AtReading, AtDiscarding, AtClosing, Handed
<1>4. CASE pc = "connecting"
  BY <1>4 DEF IInv, AtConnecting
<1> QED BY <1>1, <1>2, <1>3, <1>4 DEF Phases

LEMMA DoneStays ==
  ASSUME IInv, pc = "done", Noticed,
         UNCHANGED <<now, aborted, pc, request, dns, marks, endAt, cert, outcome, wire>>,
         sockets' \subseteq Socket, SocketsSafe', \A socket \in sockets' : socket.pc # "open"
  PROVE  IInv'
<1>1. TypeOK /\ Steady /\ AtDone
  BY DEF IInv
<1>2. seen' = seen
  <2>1. seen' = [seen EXCEPT !.last = seen.last] /\ seen \in History
    BY <1>1, Types DEF Noticed
  <2> QED BY <2>1 DEF History
<1>3. TypeOK'
  BY <1>1, <1>2, Types, TypeStays DEF TypeOK
<1>4. Steady'
  <2>1. OfThisHop'
    BY <1>1, <1>2 DEF Steady, OfThisHop
  <2> QED BY <1>1, <2>1, SteadyStays DEF Steady
<1>5. AtDone'
  <2>1. Concluded' /\ Sent' = Sent /\ (BudgetRefusesRedirectsOnly /\ DeadlineNamesPhase)'
    BY <1>1, <1>2 DEF AtDone, Concluded, Sent, BudgetRefusesRedirectsOnly, DeadlineNamesPhase
  <2>2. OutagesCounted'
    BY <1>1 DEF AtDone, OutagesCounted, Rejected
  <2> QED BY <1>1, <2>1, <2>2 DEF AtDone
<1> QED BY <1>3, <1>4, <1>5 DEF IInv

\* A request that is written is awaited.
LEMMA SendInv ==
  ASSUME IInv, pc = "connecting", UNCHANGED <<now, aborted, request, dns, endAt, outcome>>,
         NEW socket \in sockets, sockets = {socket}, Send(socket, TRUE), Noticed,
         marks' \in Marking, cert' \in Certified, OfThisHop', Awaited', marks'["connect_start"] # NULL
  PROVE  IInv'
<1>1. TypeOK /\ Steady /\ AtConnecting /\ outcome = NULL
  BY DEF IInv, TypeOK
<1>2. /\ wire' \in Seq(Sending)
      /\ Sent' /\ OnlyValidatedPeers' /\ SecretsStayHome' /\ RewrittenCarriesNoBody'
      /\ AtHome(request)' /\ MethodKept(request)'
  BY <1>1, SendKeeps DEF AtConnecting
<1> DEFINE handed == [socket EXCEPT !.pc = "open", !.timer = 0]
<1>3. pc' = "waiting" /\ sockets' = {handed}
  BY DEF Send
<1>4. handed \in Socket /\ handed.pc = "open" /\ handed.timer = 0 /\ handed.address = socket.address
  <2>1. 0 \in 0 .. MAX_TIME /\ socket \in Socket
    BY <1>1, Constants, Types
  <2> QED BY <2>1 DEF Socket
<1> HIDE DEF handed
<1>5. seen' \in History /\ seen'.stalled = seen.stalled
  BY <1>1, Types, NoticedNow
<1>6. TypeOK'
  <2>1. pc' \in Phases /\ pc' # "done" /\ sockets' \subseteq Socket
    BY <1>3, <1>4 DEF Phases
  <2> QED BY <1>1, <1>2, <1>5, <2>1, Types, TypeSends
<1>7. Steady'
  <2>1. SocketsSafe'
    BY <1>1, <1>3, <1>4, Constants DEF Steady, SocketsSafe
  <2>2. now' <= TIMEOUT
    BY <1>1 DEF Steady, AtConnecting
  <2> QED BY <1>2, <2>1, <2>2 DEF Steady
<1>8. AtWaiting'
  <2>1. Running' /\ ~aborted'
    BY <1>1, <1>5 DEF AtConnecting, Running
  <2>2. Handed'
    BY <1>2, <1>3, <1>4 DEF Handed
  <2> QED BY <2>1, <2>2 DEF AtWaiting
<1> QED BY <1>3, <1>6, <1>7, <1>8 DEF IInv

LEMMA Shaken ==
  ASSUME NEW socket \in Socket, NEW shaken, shaken = [socket EXCEPT !.pc = "handshake"]
  PROVE  shaken \in Socket /\ shaken.pc = "handshake" /\ shaken.timer = socket.timer
         /\ shaken.address = socket.address
BY DEF Socket

LEMMA ConnectedInv == IInv /\ Connected => IInv'
<1> SUFFICES ASSUME IInv, Connected PROVE IInv'
  OBVIOUS
<1>1. PICK socket \in sockets :
        /\ socket.pc = "connecting"
        /\ IF ~Wanted
           THEN /\ sockets' = (sockets \ {socket}) \cup
                     (IF Secure THEN {[socket EXCEPT !.pc = "handshake"]} ELSE {})
                /\ UNCHANGED <<pc, marks, wire>>
           ELSE IF Secure
           THEN /\ sockets' = (sockets \ {socket}) \cup {[socket EXCEPT !.pc = "handshake"]}
                /\ marks' = Mark({"connect_done", "tls_start"})
                /\ UNCHANGED <<pc, wire>>
           ELSE Send(socket, TRUE) /\ marks' = Mark({"connect_done"})
        /\ Noticed
        /\ UNCHANGED <<now, aborted, request, dns, endAt, cert, body, ahead, outcome>>
  BY DEF Connected, Secure
<1> DEFINE shaken == [socket EXCEPT !.pc = "handshake"]
<1>2. TypeOK /\ Steady
  BY DEF IInv
<1>3. socket \in Socket /\ sockets \subseteq Socket /\ now \in Nat /\ marks \in Marking /\ seen \in History
      /\ cert \in Certified
  BY <1>2, Types
<1>4. shaken \in Socket /\ shaken.pc = "handshake" /\ shaken.timer = socket.timer
      /\ shaken.address = socket.address
  BY <1>3, Shaken
<1>5. CASE ~Wanted
  <2>1. pc = "done" /\ UNCHANGED <<pc, marks, wire>> /\ sockets' \subseteq (sockets \cup {shaken})
    BY <1>1, <1>5, SocketAt DEF Wanted
  <2> HIDE DEF shaken
  <2>2. sockets' \subseteq Socket /\ SocketsSafe' /\ \A s \in sockets' : s.pc # "open"
    BY <1>2, <1>3, <1>4, <2>1 DEF IInv, Steady, SocketsSafe, AtDone
  <2> QED BY <1>1, <2>1, <2>2, DoneStays
<1>6. CASE Wanted /\ Secure
  <2>1. pc = "connecting" /\ sockets = {socket} /\ AtConnecting /\ outcome = NULL
    BY <1>1, <1>6, SocketAt DEF Wanted, IInv, TypeOK
  <2>2. sockets' = {shaken} /\ UNCHANGED <<pc, wire>>
    BY <1>1, <1>6, <2>1
  <2> HIDE DEF shaken
  <2>3. /\ marks' \in Marking /\ marks'["connect_done"] = now /\ now # NULL /\ marks'["tls_start"] = now
        /\ \A b \in Boundaries \ {"connect_done", "tls_start"} : marks'[b] = marks[b]
    <3>1. {"connect_done", "tls_start"} \in SUBSET Boundaries
      BY DEF Boundaries
    <3> QED BY <1>1, <1>3, <1>6, <3>1, MarkedIs DEF Mark
  <2>4. seen' \in History /\ seen'.hopAt = seen.hopAt /\ seen'.stalled = seen.stalled
    BY <1>1, <1>3, <2>1, NoticedNow
  <2>5. TypeOK'
    <3>1. pc' \in Phases /\ pc' # "done" /\ sockets' \subseteq Socket
      BY <1>4, <2>1, <2>2 DEF Phases
    <3> QED BY <1>1, <1>2, <2>1, <2>2, <2>3, <2>4, <3>1, Types, TypeStays
  <2>6. Steady'
    <3>1. SocketsSafe' /\ now' <= TIMEOUT
      BY <1>1, <1>2, <1>4, <2>1, <2>2 DEF Steady, SocketsSafe, AtConnecting
    <3>2. OfThisHop'
      <4>1. seen.hopAt \in 0 .. now
        BY <1>3 DEF History
      <4> QED BY <1>1, <1>2, <1>3, <2>1, <2>3, <2>4, <4>1 DEF OfThisHop, Steady, Boundaries, AtConnecting
    <3> QED BY <1>1, <1>2, <2>2, <3>1, <3>2, SteadyStays
  <2>7. AtConnecting'
    <3>1. Running' /\ Unsent' /\ ~aborted' /\ cert' = NULL
      BY <1>1, <2>1, <2>2, <2>4 DEF AtConnecting, Running, Unsent
    <3>2. marks'["dns_done"] # NULL /\ marks'["connect_start"] # NULL
          /\ NotReached({"tls_done", "first_byte", "transfer_done"})'
      BY <2>1, <2>3 DEF AtConnecting, NotReached, Boundaries
    <3>3. PICK s : s = shaken
      OBVIOUS
    <3>4. Dialling(s)'
      BY <1>1, <1>4, <1>6, <2>3, <3>3 DEF Dialling, Secure
    <3>5. sockets' = {s} /\ s \in sockets'
      BY <2>2, <3>3
    <3> QED BY <3>1, <3>2, <3>4, <3>5 DEF AtConnecting
  <2> QED BY <2>1, <2>2, <2>5, <2>6, <2>7 DEF IInv
<1>7. CASE Wanted /\ ~Secure
  <2>1. pc = "connecting" /\ sockets = {socket} /\ AtConnecting
    BY <1>1, <1>7, SocketAt DEF Wanted, IInv
  <2>2. Send(socket, TRUE) /\ marks' = Mark({"connect_done"})
    BY <1>1, <1>7
  <2>3. /\ marks' \in Marking /\ marks'["connect_done"] = now /\ now # NULL
        /\ \A b \in Boundaries \ {"connect_done"} : marks'[b] = marks[b]
    <3>1. {"connect_done"} \in SUBSET Boundaries
      BY DEF Boundaries
    <3> QED BY <1>3, <2>2, <3>1, MarkedIs DEF Mark
  <2>4. seen' \in History /\ seen'.hopAt = seen.hopAt /\ seen'.stalled = seen.stalled
    BY <1>1, <1>3, <2>1, NoticedNow
  <2>5. OfThisHop'
    <3>1. seen.hopAt \in 0 .. now
      BY <1>3 DEF History
    <3> QED BY <1>1, <1>2, <1>3, <2>1, <2>3, <2>4, <3>1 DEF OfThisHop, Steady, Boundaries, AtConnecting
  <2>6. Awaited' /\ marks'["connect_start"] # NULL
    BY <1>1, <1>7, <2>1, <2>3 DEF Awaited, AtConnecting, NotReached, Boundaries, Secure
  <2> QED BY <1>1, <1>3, <2>1, <2>2, <2>3, <2>5, <2>6, SendInv
<1> QED BY <1>5, <1>6, <1>7

LEMMA SecuredInv == IInv /\ Secured => IInv'
<1> SUFFICES ASSUME IInv, Secured PROVE IInv'
  OBVIOUS
<1>1. PICK socket \in sockets, code \in VerifyCodes \cup {NULL} :
        /\ socket.pc = "handshake"
        /\ IF ~Wanted
           THEN sockets' = sockets \ {socket} /\ UNCHANGED <<pc, marks, endAt, cert, ahead, outcome, wire>>
           ELSE /\ marks' = Mark({"tls_done"}) /\ cert' = request.url.host
                /\ IF code = NULL
                   THEN Send(socket, code = NULL) /\ UNCHANGED <<endAt, ahead, outcome>>
                   ELSE /\ sockets' = sockets \ {socket}
                        /\ FetchFails(Error(<<NULL, code>>), marks', cert')
                        /\ UNCHANGED wire
        /\ Noticed
        /\ UNCHANGED <<now, aborted, request, dns, body>>
  BY DEF Secured
<1>2. TypeOK /\ Steady
  BY DEF IInv
<1>3. /\ socket \in Socket /\ sockets \subseteq Socket /\ now \in Nat /\ marks \in Marking
      /\ seen \in History /\ cert \in Certified /\ request.url.host \in Certified
      /\ dns \in Answering /\ aborted \in BOOLEAN
  BY <1>2, Types
<1>4. CASE ~Wanted
  <2>1. pc = "done" /\ sockets' \subseteq sockets
        /\ UNCHANGED <<pc, marks, endAt, cert, ahead, outcome, wire>>
    BY <1>1, <1>4, SocketAt DEF Wanted
  <2>2. sockets' \subseteq Socket /\ SocketsSafe' /\ \A s \in sockets' : s.pc # "open"
    BY <1>2, <1>3, <2>1 DEF IInv, Steady, SocketsSafe, AtDone
  <2> QED BY <1>1, <2>1, <2>2, DoneStays
<1>5. CASE Wanted
  <2>1. pc = "connecting" /\ sockets = {socket} /\ AtConnecting /\ Dialling(socket)
    BY <1>1, <1>5, SocketAt DEF Wanted, IInv
  <2>2. /\ marks' \in Marking /\ marks'["tls_done"] = now /\ now # NULL
        /\ \A b \in Boundaries \ {"tls_done"} : marks'[b] = marks[b]
    <3>1. {"tls_done"} \in SUBSET Boundaries
      BY DEF Boundaries
    <3> QED BY <1>1, <1>3, <1>5, <3>1, MarkedIs DEF Mark
  <2>3. /\ seen' \in History /\ seen'.hopAt = seen.hopAt /\ seen'.stalled = seen.stalled
        /\ seen'.last = now
    BY <1>1, <1>3, <2>1, NoticedNow
  <2>4. cert' = request.url.host /\ cert' \in Certified
    BY <1>1, <1>3, <1>5
  <2>5. OfThisHop'
    <3>1. seen.hopAt \in 0 .. now
      BY <1>3 DEF History
    <3> QED BY <1>1, <1>2, <1>3, <2>1, <2>2, <2>3, <2>4, <3>1 DEF OfThisHop, Steady, Boundaries
  <2>6. /\ marks'["dns_done"] # NULL /\ marks'["connect_start"] # NULL /\ marks'["connect_done"] # NULL
        /\ marks'["first_byte"] = NULL /\ marks'["transfer_done"] = NULL
    BY <1>1, <2>1, <2>2 DEF AtConnecting, NotReached, Boundaries, Dialling
  <2>7. CASE code = NULL
    <3>1. Send(socket, TRUE) /\ UNCHANGED <<endAt, outcome>>
      BY <1>1, <1>5, <2>7
    <3>2. Awaited'
      BY <2>2, <2>6 DEF Awaited, NotReached
    <3> QED BY <1>1, <2>1, <2>2, <2>4, <2>5, <2>6, <3>1, <3>2, SendInv
  <2>8. CASE code # NULL
    <3>1. sockets' = {} /\ FetchFails(Error(<<NULL, code>>), marks', cert') /\ UNCHANGED wire
      BY <1>1, <1>5, <2>1, <2>8
    <3> DEFINE after == Error(<<NULL, code>>)
    <3>2. endAt' = now /\ Report(after, marks', cert')
      BY <2>1, <3>1 DEF FetchFails, Ended, AtConnecting, Running
    <3>3. IsError(after)
      BY <2>8, CodesAssumption DEF IsError
    <3>4. Len(wire) <= request.redirects + 1 /\ endAt' \in 0 .. now
      BY <1>2, <1>3, <2>1, <3>2, Types DEF AtConnecting, Unsent
    <3> HIDE DEF after
    <3> QED BY <1>1, <1>3, <2>2, <2>3, <2>4, <2>5, <2>6, <3>1, <3>2, <3>3, <3>4, ProbeEnds
  <2> QED BY <2>7, <2>8
<1> QED BY <1>4, <1>5

LEMMA SocketLostInv ==
  ASSUME IInv, NEW socket \in sockets, socket.pc # "open", NEW code \in DocumentedCodes,
         SocketLost(socket, code)
  PROVE  IInv'
<1>1. /\ sockets' = sockets \ {socket} /\ Noticed
      /\ UNCHANGED <<now, aborted, request, dns, marks, cert, body, wire>>
  BY DEF SocketLost
<1>2. TypeOK /\ Steady
  BY DEF IInv
<1>3. /\ sockets \subseteq Socket /\ now \in Nat /\ marks \in Marking
      /\ seen \in History /\ cert \in Certified /\ dns \in Answering /\ aborted \in BOOLEAN
  BY <1>2, Types
<1>4. CASE ~Wanted
  <2>1. pc = "done" /\ UNCHANGED <<pc, endAt, ahead, outcome>>
    BY <1>4, SocketAt DEF Wanted, SocketLost
  <2>2. sockets' \subseteq Socket /\ SocketsSafe' /\ \A s \in sockets' : s.pc # "open"
    BY <1>1, <1>2, <1>3, <2>1 DEF IInv, Steady, SocketsSafe, AtDone
  <2> QED BY <1>1, <2>1, <2>2, DoneStays
<1>5. CASE Wanted
  <2>1. pc = "connecting" /\ sockets = {socket} /\ AtConnecting
    BY <1>5, SocketAt DEF Wanted, IInv
  <2> DEFINE after == Error(<<NULL, code>>)
  <2>2. FetchFails(after, marks, cert)
    BY <1>5 DEF SocketLost
  <2>3. endAt' = now /\ Report(after, marks', cert')
    BY <1>1, <2>1, <2>2 DEF FetchFails, Ended, AtConnecting, Running
  <2>4. IsError(after)
    BY DEF IsError
  <2> HIDE DEF after
  <2>5. /\ seen' \in History /\ seen'.hopAt = seen.hopAt /\ seen'.last = now
    BY <1>1, <1>3, <2>1, NoticedNow
  <2>6. OfThisHop'
    BY <1>1, <1>2, <2>1, <2>5 DEF OfThisHop, Steady
  <2>7. Len(wire) <= request.redirects + 1 /\ endAt' \in 0 .. now /\ marks'["first_byte"] = NULL
        /\ marks' \in Marking /\ sockets' = {}
    BY <1>1, <1>2, <1>3, <2>1, <2>3, Types DEF AtConnecting, Unsent, NotReached
  <2> QED BY <1>1, <1>3, <2>3, <2>4, <2>5, <2>6, <2>7, ProbeEnds
<1> QED BY <1>4, <1>5

LEMMA ConnectFailsInv == IInv /\ ConnectFails => IInv'
<1> SUFFICES ASSUME IInv, ConnectFails PROVE IInv'
  OBVIOUS
<1>1. PICK socket \in sockets :
        socket.pc \in DOMAIN SocketCodes /\ \E code \in SocketCodes[socket.pc] : SocketLost(socket, code)
  BY DEF ConnectFails
<1>2. PICK code \in SocketCodes[socket.pc] : SocketLost(socket, code)
  BY <1>1
<1>3. socket.pc # "open" /\ code \in DocumentedCodes
  BY <1>1, CodesAssumption
<1> QED BY <1>2, <1>3, SocketLostInv

LEMMA ConnectorTimerInv == IInv /\ ConnectorTimer => IInv'
<1>1. "UND_ERR_CONNECT_TIMEOUT" \in DocumentedCodes
  BY DEF DocumentedCodes, SignalToClass
<1> QED BY <1>1, SocketLostInv DEF ConnectorTimer

\* The probe is as it was, whatever the time.
LEMMA Unmoved ==
  ASSUME IInv, now' \in 0 .. MAX_TIME, now <= now', aborted' \in BOOLEAN,
         aborted' = aborted \/ pc \in {"discarding", "closing"},
         ~aborted' /\ pc # "done" => now' <= TIMEOUT,
         UNCHANGED <<pc, request, dns, marks, endAt, sockets, cert, ahead, outcome, wire, seen>>
  PROVE  IInv'
<1>1. TypeOK /\ Steady
  BY DEF IInv
<1>2. TypeOK'
  <2>1. 0 .. now \subseteq 0 .. now'
    BY <1>1, Types
  <2>2. marks' \in [Boundaries -> 0 .. now' \cup {NULL}]
    <3>1. marks \in [Boundaries -> 0 .. now \cup {NULL}]
      BY <1>1 DEF TypeOK
    <3> QED BY <2>1, <3>1
  <2>3. endAt' \in 0 .. now' \cup {NULL}
    BY <1>1, <2>1 DEF TypeOK
  <2>4. seen' \in [hopAt : 0 .. now', last : 0 .. now', stalled : Phases \cup {NULL},
                   location : Urls \cup {NULL, INVALID}, satisfied : BOOLEAN]
    <3>1. seen \in [hopAt : 0 .. now, last : 0 .. now, stalled : Phases \cup {NULL},
                   location : Urls \cup {NULL, INVALID}, satisfied : BOOLEAN]
      BY <1>1 DEF TypeOK
    <3> QED BY <2>1, <3>1
  <2> QED BY <1>1, <2>2, <2>3, <2>4 DEF TypeOK, Hop
<1>3. Steady'
  <2>1. SocketsSafe' /\ (pc' # "hop" => OfThisHop')
    BY <1>1 DEF Steady, SocketsSafe, OfThisHop
  <2> QED BY <1>1, <2>1, SteadyStays
<1>4. pc' = "hop" => AtHop'
  BY DEF IInv, AtHop, Running, Unsent
<1>5. pc' = "resolving" => AtResolving'
  BY DEF IInv, AtResolving, Running, Unsent, NotReached
<1>6. pc' = "connecting" => AtConnecting'
  BY DEF IInv, AtConnecting, Running, Unsent, NotReached, Dialling, Secure
<1>7. (Handed => Handed') /\ (Awaited => Awaited') /\ (BeingRead => BeingRead') /\ (Concluded => Concluded')
  BY DEF Handed, Sent, Awaited, BeingRead, NotReached, Secure, Concluded
<1>8. (pc' = "waiting" => AtWaiting') /\ (pc' = "reading" => AtReading')
  BY <1>7 DEF IInv, AtWaiting, AtReading, Running
<1>9. pc' = "discarding" => AtDiscarding'
  <2> SUFFICES ASSUME pc = "discarding" PROVE AtDiscarding'
    OBVIOUS
  <2>1. AtDiscarding
    BY DEF IInv
  <2>2. ASSUME AtHome(ahead.request) PROVE AtHome(ahead.request)'
    BY <2>2 DEF AtHome
  <2>3. ASSUME MethodKept(ahead.request) PROVE MethodKept(ahead.request)'
    BY <2>3 DEF MethodKept
  <2>4. CASE ahead.kind = "hop" /\ endAt = NULL /\ ahead.request \in Hop
             /\ ahead.request.redirects = request.redirects + 1
             /\ AtHome(ahead.request) /\ MethodKept(ahead.request)
    BY <1>7, <2>1, <2>2, <2>3, <2>4 DEF AtDiscarding, Hop
  <2>5. CASE \/ /\ ahead = Refusal("TOO_MANY_REDIRECTS", NULL) /\ Concluded
                /\ seen.location # NULL /\ request.redirects >= MAX_REDIRECTS
             \/ ahead = Refusal("UNKNOWN_ERROR", "INVALID_LOCATION") /\ Concluded
    BY <1>7, <2>1, <2>5 DEF AtDiscarding, Refusal, Failure, Verdict, Classification
  <2> QED BY <2>1, <2>4, <2>5 DEF AtDiscarding
<1>10. pc' = "closing" => AtClosing'
  BY <1>7 DEF IInv, AtClosing, IsError, Error, TimeoutError
<1>11. pc' = "done" => AtDone'
  <2> SUFFICES ASSUME pc = "done" PROVE AtDone'
    OBVIOUS
  <2>1. AtDone
    BY DEF IInv
  <2>2. Concluded' /\ Sent' = Sent /\ (BudgetRefusesRedirectsOnly /\ DeadlineNamesPhase)'
    BY <2>1 DEF AtDone, Concluded, Sent, BudgetRefusesRedirectsOnly, DeadlineNamesPhase
  <2>3. OutagesCounted'
    BY <2>1 DEF AtDone, OutagesCounted, Rejected
  <2> QED BY <2>1, <2>2, <2>3 DEF AtDone
<1> QED BY <1>2, <1>3, <1>4, <1>5, <1>6, <1>8, <1>9, <1>10, <1>11 DEF IInv

LEMMA TickInv == IInv /\ Tick => IInv'
<1> SUFFICES ASSUME IInv, Tick PROVE IInv'
  OBVIOUS
<1>1. /\ now < MAX_TIME /\ ~DeadlineDue /\ now' = now + 1
      /\ UNCHANGED <<aborted, pc, request, dns, marks, endAt, sockets, cert, ahead, outcome, wire, seen>>
  BY DEF Tick
<1>2. TypeOK /\ Steady
  BY DEF IInv
<1>3. now \in Nat /\ aborted \in BOOLEAN
  BY <1>2, Types
<1>4. now' \in 0 .. MAX_TIME /\ now <= now'
  BY <1>1, <1>3, Constants
<1>5. ~aborted' /\ pc # "done" => now' <= TIMEOUT
  BY <1>1, <1>3, Constants DEF DeadlineDue
<1> QED BY <1>1, <1>3, <1>4, <1>5, Unmoved

LEMMA StutterInv == IInv /\ UNCHANGED vars => IInv'
<1> SUFFICES ASSUME IInv, UNCHANGED vars PROVE IInv'
  OBVIOUS
<1>1. TypeOK /\ Steady
  BY DEF IInv
<1>2. now' = now /\ now \in 0 .. MAX_TIME /\ now \in Nat /\ aborted' = aborted /\ aborted \in BOOLEAN
  BY <1>1, Types DEF vars, TypeOK
<1>3. ~aborted' /\ pc # "done" => now' <= TIMEOUT
  BY <1>1, <1>2 DEF Steady
<1> QED BY <1>2, <1>3, Unmoved DEF vars

LEMMA AnsweredInv == IInv /\ Answered => IInv'
<1> SUFFICES ASSUME IInv, Answered PROVE IInv'
  OBVIOUS
<1>1. /\ TypeOK /\ Steady /\ AtWaiting /\ pc = "waiting" /\ outcome = NULL
      /\ marks' = Mark({"first_byte"})
      /\ UNCHANGED <<now, aborted, request, dns, sockets, cert, outcome, wire>>
  BY DEF IInv, Answered, TypeOK
<1>2. /\ now \in Nat /\ now # NULL /\ marks \in Marking /\ seen \in History /\ request.redirects \in Nat
      /\ request.redirects \in 0 .. MAX_REDIRECTS /\ endAt = NULL /\ seen.stalled = NULL
  BY <1>1, Types, NotNull DEF AtWaiting, Running, Hop
<1>3. /\ marks' \in Marking /\ marks'["first_byte"] = now
      /\ \A b \in Boundaries \ {"first_byte"} : marks'[b] = marks[b]
  <2>1. {"first_byte"} \in SUBSET Boundaries
    BY DEF Boundaries
  <2> QED BY <1>1, <1>2, <2>1, MarkedIs DEF Mark
<1>4. Handed' /\ BeingRead'
  <2>1. Handed'
    BY <1>1, <1>3 DEF AtWaiting, Handed, Sent, Boundaries
  <2>2. BeingRead'
    BY <1>1, <1>2, <1>3 DEF AtWaiting, Awaited, BeingRead, NotReached, Secure, Boundaries
  <2> QED BY <2>1, <2>2
<1>5. PICK status \in Statuses, location \in Urls \cup {NULL, INVALID}, followable \in BOOLEAN :
        \/ /\ TooMany(status, location)
           /\ TearDown("discarding", Failure(Classification("TOO_MANY_REDIRECTS", NULL)))
           /\ endAt' = Ended
           /\ seen' = [seen EXCEPT !.last = now, !.location = location]
        \/ /\ TearDown("discarding", Failure(Classification("UNKNOWN_ERROR", "INVALID_LOCATION")))
           /\ endAt' = Ended
           /\ Noticed
        \/ /\ ~TooMany(status, location) /\ location \in Urls
           /\ TearDown("discarding", NextHop(status, location))
           /\ Noticed
           /\ UNCHANGED endAt
        \/ /\ pc' = "reading" /\ Noticed /\ UNCHANGED endAt
  BY DEF Answered
<1>6. ASSUME seen' \in History, seen'.hopAt = seen.hopAt, pc' \in {"discarding", "reading"},
             endAt' \in 0 .. now \cup {NULL}
      PROVE  TypeOK' /\ Steady'
  <2>1. TypeOK'
    <3>1. pc' \in Phases /\ pc' # "done"
      BY <1>6 DEF Phases
    <3> QED BY <1>1, <1>3, <1>6, <3>1, Types, TypeStays
  <2>2. OfThisHop'
    <3>1. seen.hopAt \in 0 .. now
      BY <1>2 DEF History
    <3> QED BY <1>1, <1>2, <1>3, <1>6, <3>1 DEF OfThisHop, Steady, Boundaries
  <2>3. SocketsSafe' /\ now' <= TIMEOUT
    BY <1>1 DEF Steady, SocketsSafe, AtWaiting
  <2> QED BY <1>1, <2>1, <2>2, <2>3, SteadyStays
<1>7. ASSUME Noticed
      PROVE  seen' \in History /\ seen'.hopAt = seen.hopAt /\ seen'.last = now /\ seen'.stalled = NULL
  BY <1>1, <1>2, <1>7, NoticedNow
<1>8. Ended = now /\ now \in 0 .. now
  BY <1>2 DEF Ended
<1>9. CASE /\ TooMany(status, location)
           /\ TearDown("discarding", Failure(Classification("TOO_MANY_REDIRECTS", NULL)))
           /\ endAt' = Ended
           /\ seen' = [seen EXCEPT !.last = now, !.location = location]
  <2>1. /\ pc' = "discarding" /\ ahead' = Refusal("TOO_MANY_REDIRECTS", NULL) /\ endAt' = now
        /\ request.redirects >= MAX_REDIRECTS /\ location # NULL
    BY <1>8, <1>9 DEF TearDown, Refusal, TooMany
  <2>2. /\ seen' \in History /\ seen'.hopAt = seen.hopAt /\ seen'.last = now /\ seen'.stalled = NULL
        /\ seen'.location = location
    <3> DEFINE noted == [seen EXCEPT !.last = now]
    <3>1. noted \in History /\ noted.hopAt = seen.hopAt /\ noted.last = now /\ noted.stalled = NULL
      BY <1>2, <1>8 DEF History
    <3>2. seen' = [noted EXCEPT !.location = location]
      BY <1>9
    <3> HIDE DEF noted
    <3> QED BY <3>1, <3>2 DEF History
  <2>3. AtDiscarding'
    BY <1>1, <1>2, <1>4, <2>1, <2>2 DEF AtDiscarding, Concluded, Refusal, Failure, Verdict, Classification
  <2> QED BY <1>6, <1>8, <2>1, <2>2, <2>3 DEF IInv
<1>10. CASE /\ TearDown("discarding", Failure(Classification("UNKNOWN_ERROR", "INVALID_LOCATION")))
            /\ endAt' = Ended
            /\ Noticed
  <2>1. pc' = "discarding" /\ ahead' = Refusal("UNKNOWN_ERROR", "INVALID_LOCATION") /\ endAt' = now
    BY <1>8, <1>10 DEF TearDown, Refusal
  <2>2. AtDiscarding'
    BY <1>2, <1>4, <1>7, <1>10, <2>1 DEF AtDiscarding, Concluded, Refusal, Failure, Verdict, Classification
  <2> QED BY <1>6, <1>7, <1>8, <1>10, <2>1, <2>2 DEF IInv
<1>11. CASE /\ ~TooMany(status, location) /\ location \in Urls
            /\ TearDown("discarding", NextHop(status, location))
            /\ Noticed
            /\ UNCHANGED endAt
  <2>1. pc' = "discarding" /\ ahead' = NextHop(status, location) /\ endAt' = NULL
    BY <1>2, <1>11 DEF TearDown
  <2>2. request.redirects < MAX_REDIRECTS
    BY <1>2, <1>11, NullAssumption, Constants DEF TooMany
  <2>3. PICK next : next = NextHop(status, location).request
    OBVIOUS
  <2>4. /\ ahead'.kind = "hop" /\ ahead'.request = next
        /\ next \in Hop /\ next.redirects = request.redirects + 1
        /\ AtHome(next) /\ MethodKept(next)
    BY <1>1, <1>11, <2>1, <2>2, <2>3, NextHopRules DEF Steady
  <2>5. AtHome(ahead.request)' /\ MethodKept(ahead.request)'
    BY <1>1, <2>4 DEF AtHome, MethodKept
  <2>6. AtDiscarding'
    BY <1>1, <1>4, <1>7, <1>11, <2>1, <2>4, <2>5 DEF AtDiscarding, Hop
  <2> QED BY <1>6, <1>7, <1>11, <2>1, <2>6 DEF IInv
<1>12. CASE pc' = "reading" /\ Noticed /\ UNCHANGED endAt
  <2>1. AtReading'
    BY <1>1, <1>2, <1>4, <1>7, <1>12 DEF AtReading, AtWaiting, Running
  <2> QED BY <1>2, <1>6, <1>7, <1>12, <2>1 DEF IInv
<1> QED BY <1>5, <1>9, <1>10, <1>11, <1>12

LEMMA DiscardedInv == IInv /\ Discarded => IInv'
<1> SUFFICES ASSUME IInv, Discarded PROVE IInv'
  OBVIOUS
<1>1. /\ TypeOK /\ Steady /\ AtDiscarding /\ pc = "discarding" /\ outcome = NULL /\ sockets' = {}
      /\ UNCHANGED <<now, aborted, dns, marks, endAt, cert, body, wire, seen>>
  BY DEF IInv, Discarded, TypeOK
<1>2. /\ now \in Nat /\ marks \in Marking /\ seen \in History /\ request.redirects \in Nat
      /\ request.redirects \in 0 .. MAX_REDIRECTS /\ Len(wire) = request.redirects + 1
      /\ aborted \in BOOLEAN /\ cert \in Certified /\ dns \in Answering
  BY <1>1, Types DEF AtDiscarding, Handed, Sent, Hop
<1>3. CASE ahead.kind = "hop"
  <2>1. pc' = "hop" /\ request' = ahead.request /\ UNCHANGED outcome
    BY <1>3 DEF Discarded
  <2>2. /\ endAt = NULL /\ ahead.request \in Hop /\ ahead.request.redirects = request.redirects + 1
        /\ AtHome(ahead.request) /\ MethodKept(ahead.request)
    BY <1>1, <1>3 DEF AtDiscarding, Refusal, Failure, Verdict
  <2>3. TypeOK'
    <3>1. pc' \in Phases /\ pc' # "done" /\ sockets' \subseteq Socket
      BY <1>1, <2>1 DEF Phases
    <3> QED BY <1>1, <1>2, <2>1, <2>2, <3>1, TypeStays
  <2>4. Steady'
    <3>1. AtHome(request)' /\ MethodKept(request)'
      BY <1>1, <2>1, <2>2 DEF AtHome, MethodKept
    <3>2. OnlyValidatedPeers' /\ SecretsStayHome' /\ RewrittenCarriesNoBody'
      BY <1>1 DEF Steady, OnlyValidatedPeers, SecretsStayHome, RewrittenCarriesNoBody
    <3>3. SocketsSafe' /\ (~aborted' => now' <= TIMEOUT)
      BY <1>1 DEF Steady, SocketsSafe
    <3> QED BY <2>1, <3>1, <3>2, <3>3 DEF Steady
  <2>5. AtHop'
    BY <1>1, <1>2, <2>1, <2>2 DEF AtHop, Running, Unsent, AtDiscarding
  <2> QED BY <2>1, <2>3, <2>4, <2>5 DEF IInv
<1>4. CASE ahead.kind # "hop"
  <2>1. Report(ahead, marks', cert') /\ UNCHANGED request
    BY <1>1, <1>4 DEF Discarded
  <2>2. /\ Concluded /\ ahead.kind = "verdict"
        /\ ahead.class = "TOO_MANY_REDIRECTS" =>
             seen.location # NULL /\ request.redirects >= MAX_REDIRECTS
    BY <1>1, <1>4 DEF AtDiscarding, Refusal, Failure, Verdict, Classification
  <2>3. ahead.class = "TOO_MANY_REDIRECTS" => seen'.location # NULL /\ Len(wire) = MAX_REDIRECTS + 1
    BY <1>1, <1>2, <2>2, Constants
  <2>4. ~Rejected' /\ Sent
    <3>1. marks["connect_start"] # NULL /\ Sent /\ DOMAIN marks = Boundaries
      BY <1>1, <1>2 DEF AtDiscarding, Handed, Marking
    <3>2. "connect_start" \in Reached(marks')
      BY <1>1, <3>1, ReachedIs DEF Boundaries
    <3> QED BY <3>1, <3>2 DEF Rejected
  <2>5. OfThisHop'
    BY <1>1, <2>1 DEF Steady, OfThisHop
  <2>6. endAt' \in 0 .. now /\ endAt' = seen'.last
    BY <1>1, <2>2, Types DEF Concluded
  <2> QED BY <1>1, <1>2, <2>1, <2>2, <2>3, <2>4, <2>5, <2>6, ProbeEnds
<1> QED BY <1>3, <1>4

\* An await that fails or is answered leads to the teardown of the hop.
LEMMA ClosingInv ==
  ASSUME IInv, pc \in {"waiting", "reading"}, pc' = "closing",
         UNCHANGED <<now, request, dns, cert, outcome, wire>>, aborted' \in BOOLEAN,
         ~aborted' => ~aborted,
         sockets' \subseteq sockets, endAt' = now, seen' \in History, seen'.hopAt = seen.hopAt,
         seen'.last = now, marks' \in Marking,
         \A b \in Boundaries : marks'[b] = marks[b] \/ (b = "transfer_done" /\ marks'[b] = now),
         \/ ahead'.kind = "verdict" /\ ahead'.class # "TOO_MANY_REDIRECTS"
         \/ IsError(ahead')
         \/ ahead' = TimeoutError /\ seen'.stalled = pc /\ marks' = marks
  PROVE  IInv'
<1>1. TypeOK /\ Steady /\ Handed /\ outcome = NULL /\ ~aborted
      /\ (pc = "waiting" => Awaited) /\ (pc = "reading" => BeingRead)
  BY DEF IInv, AtWaiting, AtReading, TypeOK
<1>2. /\ now \in Nat /\ now # NULL /\ now \in 0 .. now /\ marks \in Marking /\ seen \in History
      /\ sockets \subseteq Socket
  BY <1>1, Types, NotNull
<1>3. TypeOK'
  <2>1. pc' \in Phases /\ pc' # "done" /\ sockets' \subseteq Socket
    BY <1>2 DEF Phases
  <2> QED BY <1>1, <1>2, <2>1, Types, TypeStays
<1>4. Steady'
  <2>1. OfThisHop'
    <3>1. seen.hopAt \in 0 .. now
      BY <1>2 DEF History
    <3> QED BY <1>1, <1>2, <3>1 DEF OfThisHop, Steady, Boundaries
  <2>2. SocketsSafe' /\ now' <= TIMEOUT
    BY <1>1 DEF Steady, SocketsSafe
  <2> QED BY <1>1, <2>1, <2>2, SteadyStays
<1>5. Handed' /\ Concluded'
  BY <1>1, <1>2 DEF Handed, Sent, Concluded, Boundaries
<1>6. ASSUME marks' = marks
      PROVE  (pc = "waiting" => Awaited') /\ (pc = "reading" => BeingRead')
  BY <1>1, <1>6 DEF Awaited, BeingRead, NotReached, Secure
<1>7. AtClosing'
  <2>1. CASE ahead'.kind = "verdict" /\ ahead'.class # "TOO_MANY_REDIRECTS"
    BY <1>5, <2>1 DEF AtClosing
  <2>2. CASE IsError(ahead')
    BY <1>5, <2>2 DEF AtClosing, IsError, Error
  <2>3. CASE ahead' = TimeoutError /\ seen'.stalled = pc /\ marks' = marks
    BY <1>5, <1>6, <2>3 DEF AtClosing, TimeoutError
  <2> QED BY <2>1, <2>2, <2>3
<1> QED BY <1>3, <1>4, <1>7 DEF IInv

LEMMA PeerClosesInv == IInv /\ PeerCloses => IInv'
<1> SUFFICES ASSUME IInv, PeerCloses PROVE IInv'
  OBVIOUS
<1>1. /\ TypeOK /\ endAt = NULL /\ pc \in {"waiting", "reading"} /\ pc # "done"
      /\ UNCHANGED <<now, aborted, request, dns, marks, cert, body, outcome, wire>>
      /\ sockets' = {} /\ Noticed
  BY DEF IInv, AtWaiting, AtReading, Running, PeerCloses
<1>2. pc' = "closing" /\ ahead' = Error(<<NULL, "UND_ERR_SOCKET">>) /\ endAt' = now
  BY <1>1 DEF PeerCloses, Fails, TearDown, EndOfHop, Ended
<1>3. IsError(ahead')
  <2>1. "UND_ERR_SOCKET" \in DocumentedCodes
    BY DEF DocumentedCodes, SignalToClass
  <2> QED BY <1>2, <2>1 DEF IsError
<1>4. seen' \in History /\ seen'.hopAt = seen.hopAt /\ seen'.last = now /\ marks \in Marking
      /\ aborted \in BOOLEAN
  BY <1>1, Types, NoticedNow
<1> QED BY <1>1, <1>2, <1>3, <1>4, ClosingInv

LEMMA JudgeInv ==
  ASSUME IInv, pc = "reading", NEW kept, Judge(kept),
         UNCHANGED <<now, aborted, request, dns, sockets, cert, outcome, wire>>
  PROVE  IInv'
<1>1. TypeOK /\ endAt = NULL
  BY DEF IInv, AtReading, Running
<1>2. now \in Nat /\ seen \in History /\ marks \in Marking /\ aborted \in BOOLEAN /\ now \in 0 .. now
  BY <1>1, Types
<1>3. PICK class \in {"STATUS_MISMATCH", "ASSERTION_FAILED", NULL}, satisfied \in BOOLEAN :
        /\ TearDown("closing", Verdict(class = NULL, class, NULL, kept.truncated))
        /\ seen' = [seen EXCEPT !.last = now, !.satisfied = satisfied]
  <2>1. PICK expected \in Expected, assertions \in Assertions :
          LET class == IF ~StatusMatches(body.status, expected) THEN "STATUS_MISMATCH"
                       ELSE IF ~EvaluateAssertions(assertions, kept) THEN "ASSERTION_FAILED"
                       ELSE NULL
          IN /\ TearDown("closing", Verdict(class = NULL, class, NULL, kept.truncated))
             /\ seen' = [seen EXCEPT !.last = now,
                                     !.satisfied = /\ StatusMatches(body.status, expected)
                                                   /\ \A a \in assertions : Holds(a, body.whole)]
    BY DEF Judge
  <2> QED BY <2>1
<1>4. pc' = "closing" /\ ahead'.kind = "verdict" /\ ahead'.class # "TOO_MANY_REDIRECTS"
  <2>1. ahead'.kind = "verdict" /\ ahead'.class = class /\ pc' = "closing"
    BY <1>3 DEF TearDown, Verdict
  <2> QED BY <2>1, NotNull DEF FailureClasses
<1>5. seen' \in History /\ seen'.hopAt = seen.hopAt /\ seen'.last = now
  <2> DEFINE noted == [seen EXCEPT !.last = now]
  <2>1. noted \in History /\ noted.hopAt = seen.hopAt /\ noted.last = now
    BY <1>2 DEF History
  <2>2. seen' = [noted EXCEPT !.satisfied = satisfied]
    BY <1>3
  <2> HIDE DEF noted
  <2> QED BY <2>1, <2>2 DEF History
<1>6. endAt' = now /\ marks' = Mark({"transfer_done"})
  BY <1>1 DEF Judge, EndOfHop, Ended
<1>7. /\ marks' \in Marking
      /\ \A b \in Boundaries : marks'[b] = marks[b] \/ (b = "transfer_done" /\ marks'[b] = now)
  <2>1. {"transfer_done"} \in SUBSET Boundaries
    BY DEF Boundaries
  <2> QED BY <1>2, <1>6, <2>1, MarkedIs DEF Mark
<1> QED BY <1>2, <1>4, <1>5, <1>6, <1>7, ClosingInv

LEMMA ChunkReadInv == IInv /\ ChunkRead => IInv'
<1> SUFFICES ASSUME IInv, ChunkRead PROVE IInv'
  OBVIOUS
<1> DEFINE total == body.read + Len(Head(body.unread))
<1>1. /\ TypeOK /\ Steady /\ AtReading /\ pc = "reading" /\ outcome = NULL
      /\ UNCHANGED <<now, aborted, request, dns, sockets, cert, outcome, wire>>
      /\ IF Truncated(total) THEN Judge(Kept(total)) ELSE Noticed /\ UNCHANGED <<pc, marks, endAt, ahead>>
  BY DEF IInv, ChunkRead, TypeOK
<1> HIDE DEF total
<1>2. CASE Truncated(total)
  BY <1>1, <1>2, JudgeInv
<1>3. CASE ~Truncated(total)
  <2>1. seen' \in History /\ seen'.hopAt = seen.hopAt /\ seen'.stalled = seen.stalled
    BY <1>1, <1>3, Types, NoticedNow
  <2>2. TypeOK'
    BY <1>1, <1>3, <2>1, Types, TypeStays
  <2>3. Steady'
    <3>1. OfThisHop' /\ SocketsSafe' /\ now' <= TIMEOUT
      BY <1>1, <1>3, <2>1 DEF OfThisHop, SocketsSafe, Steady, AtReading
    <3> QED BY <1>1, <3>1, SteadyStays
  <2>4. AtReading'
    BY <1>1, <1>3, <2>1 DEF AtReading, Running, Handed, Sent, BeingRead, NotReached, Secure
  <2> QED BY <1>1, <1>3, <2>2, <2>3, <2>4 DEF IInv
<1> QED BY <1>2, <1>3

LEMMA BodyEndsInv == IInv /\ BodyEnds => IInv'
BY JudgeInv DEF BodyEnds

LEMMA ClosedInv == IInv /\ Closed => IInv'
<1> SUFFICES ASSUME IInv, Closed PROVE IInv'
  OBVIOUS
<1>1. /\ TypeOK /\ Steady /\ AtClosing /\ pc = "closing" /\ sockets' = {} /\ endAt' = Ended
      /\ UNCHANGED <<now, aborted, request, dns, marks, cert, wire, seen>>
      /\ Report(ahead, marks', cert')
  BY DEF IInv, Closed
<1>2. /\ now \in Nat /\ marks \in Marking /\ seen \in History /\ request.redirects \in Nat
      /\ Len(wire) = request.redirects + 1 /\ Sent /\ endAt \in 0 .. now /\ endAt = seen.last
      /\ aborted \in BOOLEAN /\ cert \in Certified /\ dns \in Answering /\ marks["connect_start"] # NULL
  BY <1>1, Types DEF AtClosing, Handed, Sent, Concluded
<1>3. endAt' = endAt
  BY <1>1 DEF AtClosing, Concluded, Ended
<1>4. ~Rejected'
  <2>1. "connect_start" \in Reached(marks')
    BY <1>1, <1>2, ReachedIs DEF Boundaries, Marking
  <2> QED BY <2>1 DEF Rejected
<1>5. OfThisHop'
  BY <1>1 DEF Steady, OfThisHop
<1>6. CASE ahead.kind = "verdict" /\ ahead.class # "TOO_MANY_REDIRECTS"
  BY <1>1, <1>2, <1>3, <1>4, <1>5, <1>6, ProbeEnds
<1>7. CASE IsError(ahead)
  BY <1>1, <1>2, <1>3, <1>5, <1>7, ProbeEnds
<1>8. CASE /\ ahead = TimeoutError
           /\ \/ seen.stalled = "waiting" /\ Awaited
              \/ seen.stalled = "reading" /\ BeingRead
  <2>1. AbortFits'
    BY <1>1, <1>8 DEF AbortFits, Awaited, BeingRead, NotReached, Secure
  <2> QED BY <1>1, <1>2, <1>3, <1>5, <1>8, <2>1, ProbeEnds
<1> QED BY <1>1, <1>6, <1>7, <1>8 DEF AtClosing

LEMMA DeadlineFiresInv == IInv /\ DeadlineFires => IInv'
<1> SUFFICES ASSUME IInv, DeadlineFires PROVE IInv'
  OBVIOUS
<1>1. /\ TypeOK /\ Steady /\ aborted' = TRUE /\ pc # "done" /\ pc # "hop" /\ pc \in Phases
      /\ UNCHANGED <<now, request, dns, marks, sockets, cert, body, wire>>
  BY DEF IInv, DeadlineFires, DeadlineDue, TypeOK
<1>2. /\ now \in Nat /\ now \in 0 .. MAX_TIME /\ now \in 0 .. now /\ marks \in Marking /\ seen \in History
      /\ cert \in Certified /\ dns \in Answering /\ request.redirects \in Nat
  BY <1>1, Types, Constants
<1>3. ASSUME seen' = [seen EXCEPT !.last = now, !.stalled = pc]
      PROVE  seen' \in History /\ seen'.hopAt = seen.hopAt /\ seen'.last = now /\ seen'.stalled = pc
  <2> DEFINE noted == [seen EXCEPT !.last = now]
  <2>1. noted \in History /\ noted.hopAt = seen.hopAt /\ noted.last = now
    BY <1>2 DEF History
  <2>2. seen' = [noted EXCEPT !.stalled = pc]
    BY <1>3
  <2> HIDE DEF noted
  <2> QED BY <1>1, <2>1, <2>2 DEF History
<1>4. CASE pc \in {"discarding", "closing"}
  <2>1. UNCHANGED <<pc, endAt, ahead, outcome, seen>>
    BY <1>4 DEF DeadlineFires, Interrupted
  <2>2. now' \in 0 .. MAX_TIME /\ now <= now' /\ aborted' \in BOOLEAN
    BY <1>1, <1>2
  <2> QED BY <1>1, <1>4, <2>1, <2>2, Unmoved
<1>5. CASE pc \in {"resolving", "connecting"}
  <2>1. FetchFails(TimeoutError, marks, cert) /\ seen' = [seen EXCEPT !.last = now, !.stalled = pc]
    BY <1>5 DEF DeadlineFires, Interrupted
  <2>2. /\ endAt = NULL /\ NotReached({"tls_done", "first_byte", "transfer_done"})
        /\ Len(wire) <= request.redirects + 1 /\ \A socket \in sockets : socket.pc # "open"
    BY <1>2, <1>5 DEF IInv, AtResolving, AtConnecting, Running, Unsent, NotReached, Dialling
  <2>3. endAt' = now /\ Report(TimeoutError, marks', cert')
    BY <1>1, <2>1, <2>2 DEF FetchFails, Ended
  <2>4. AbortFits'
    <3>1. seen'.stalled = pc
      BY <1>3, <2>1
    <3>2. CASE pc = "resolving"
      BY <1>1, <2>2, <3>1, <3>2 DEF AbortFits, IInv, AtResolving, NotReached
    <3>3. CASE pc = "connecting"
      BY <1>1, <2>2, <3>1, <3>3 DEF AbortFits, IInv, AtConnecting, NotReached, Dialling, Secure
    <3> QED BY <1>5, <3>2, <3>3
  <2>5. OfThisHop' /\ marks'["first_byte"] = NULL
    BY <1>1, <1>3, <2>1, <2>2 DEF Steady, OfThisHop, NotReached
  <2> QED BY <1>1, <1>2, <1>3, <2>1, <2>2, <2>3, <2>4, <2>5, ProbeEnds
<1>6. CASE pc \in {"waiting", "reading"}
  <2>1. Fails(TimeoutError) /\ seen' = [seen EXCEPT !.last = now, !.stalled = pc] /\ UNCHANGED outcome
    BY <1>6 DEF DeadlineFires, Interrupted
  <2>2. endAt = NULL
    BY <1>6 DEF IInv, AtWaiting, AtReading, Running
  <2>3. endAt' = now /\ pc' = "closing" /\ ahead' = TimeoutError
    BY <2>1, <2>2 DEF Fails, TearDown, EndOfHop, Ended
  <2> QED BY <1>1, <1>2, <1>3, <1>6, <2>1, <2>3, ClosingInv
<1> QED BY <1>1, <1>4, <1>5, <1>6 DEF Phases

LEMMA InvNext == IInv /\ [Next]_vars => IInv'
<1> SUFFICES ASSUME IInv, [Next]_vars PROVE IInv'
  OBVIOUS
<1>1. CASE Environment
  BY <1>1, FamilyAnsweredInv, ResolvedInv, ConnectedInv, SecuredInv, ConnectFailsInv, AnsweredInv,
     PeerClosesInv, ChunkReadInv, BodyEndsInv DEF Environment
<1>2. CASE Engine
  BY <1>2, HopAbortedInv, HopWithoutDnsInv, HopResolvesInv, ConnectorTimerInv, DiscardedInv, ClosedInv,
     DeadlineFiresInv, TickInv DEF Engine
<1>3. CASE UNCHANGED vars
  BY <1>3, StutterInv
<1> QED BY <1>1, <1>2, <1>3 DEF Next

LEMMA AlwaysInv == Spec => []IInv
BY InvInit, InvNext, PTL DEF Spec

--------------------------------------------------------------------------------
(* Recursive functions: there is one to choose.                             *)

\* Whatever part of S is looked at, something in it has none of its predecessors in it.
WellFounded(S, Pred) ==
  \A C \in SUBSET S : C # {} => \E v \in C : \A u \in Pred[v] : u \notin C

\* The two give the same on P.
Alike(P, g, h) == \A u \in P : g[u] = h[u]

\* Step uses of a function no more than what it gives to the predecessors.
LooksBack(S, T, Pred, Step) ==
  \A v \in S : \A g, h \in [S -> T] : Alike(Pred[v], g, h) => Step[<<v, g>>] = Step[<<v, h>>]

\* The function follows Step throughout C.
Works(Pred, Step, C, g) ==
  \A v \in C : Pred[v] \subseteq C /\ g[v] = Step[<<v, g>>]

\* Two that follow Step agree where both do.
LEMMA WorkAlike ==
  ASSUME NEW S, NEW T, NEW Pred \in [S -> SUBSET S], NEW Step,
         WellFounded(S, Pred), LooksBack(S, T, Pred, Step),
         NEW C \in SUBSET S, NEW D \in SUBSET S, NEW g \in [S -> T], NEW h \in [S -> T],
         Works(Pred, Step, C, g), Works(Pred, Step, D, h)
  PROVE  Alike(C \cap D, g, h)
<1> DEFINE E == {v \in C \cap D : g[v] # h[v]}
<1> SUFFICES ASSUME E # {} PROVE FALSE
  BY DEF Alike
<1>1. PICK v \in E : \A u \in Pred[v] : u \notin E
  BY DEF WellFounded
<1>2. v \in S /\ v \in C /\ v \in D /\ g[v] # h[v]
  OBVIOUS
<1>3. Alike(Pred[v], g, h)
  BY <1>1, <1>2 DEF Works, Alike
<1>4. Step[<<v, g>>] = Step[<<v, h>>]
  BY <1>2, <1>3 DEF LooksBack
<1> QED BY <1>2, <1>4 DEF Works

\* A definition by recursion: what it says of v uses only what comes before v.
Recursion(S, T, Pred, Step) ==
  /\ Pred \in [S -> SUBSET S] /\ Step \in [S \X [S -> T] -> T] /\ T # {}
  /\ WellFounded(S, Pred) /\ LooksBack(S, T, Pred, Step)

\* There is a function that follows Step everywhere: the values on parts of S are put together.
LEMMA RecursiveFunction ==
  ASSUME NEW S, NEW T, NEW Pred, NEW Step, Recursion(S, T, Pred, Step)
  PROVE  \E f \in [S -> T] : \A v \in S : f[v] = Step[<<v, f>>]
<1> USE DEF Recursion
<1>0. PICK t0 \in T : TRUE
  OBVIOUS
<1> DEFINE Known(v, C, g) == v \in C /\ Works(Pred, Step, C, g)
           G == {v \in S : \E C \in SUBSET S, g \in [S -> T] : Known(v, C, g)}
           Gives(v, t) == \E C \in SUBSET S, g \in [S -> T] : Known(v, C, g) /\ t = g[v]
           Value(v) == CHOOSE t \in T : Gives(v, t)
           h == [v \in S |-> IF v \in G THEN Value(v) ELSE t0]
<1>1. ASSUME NEW C \in SUBSET S, NEW g \in [S -> T], Works(Pred, Step, C, g), NEW v \in C
      PROVE  v \in G /\ Value(v) = g[v]
  <2>1. v \in G /\ g[v] \in T
    BY <1>1
  <2>2. Gives(v, g[v])
    BY <1>1
  <2> HIDE DEF Gives
  <2>3. Gives(v, Value(v))
    BY <2>1, <2>2
  <2> USE DEF Gives
  <2>4. PICK D \in SUBSET S, k \in [S -> T] : Known(v, D, k) /\ Value(v) = k[v]
    BY <2>3
  <2>5. Alike(C \cap D, g, k)
    <3> HIDE DEF G, Value
    <3> QED BY <1>1, <2>4, WorkAlike
  <2> HIDE DEF G, Value
  <2> QED BY <1>1, <2>1, <2>4, <2>5 DEF Alike
<1>2. h \in [S -> T]
  <2>1. ASSUME NEW v \in G PROVE Value(v) \in T
    <3>1. PICK C \in SUBSET S, g \in [S -> T] : Known(v, C, g)
      OBVIOUS
    <3>2. g[v] \in T
      OBVIOUS
    <3> HIDE DEF Value, G
    <3> QED BY <1>1, <3>1, <3>2
  <2> HIDE DEF Value
  <2> QED BY <2>1
<1>3. ASSUME NEW C \in SUBSET S, NEW g \in [S -> T], Works(Pred, Step, C, g), NEW v \in C
      PROVE  v \in G /\ h[v] = g[v]
  <2>1. v \in G /\ Value(v) = g[v] /\ v \in S
    BY <1>1, <1>3
  <2> HIDE DEF Value, G
  <2> QED BY <2>1
<1>4. Works(Pred, Step, G, h)
  <2> SUFFICES ASSUME NEW v \in G PROVE Pred[v] \subseteq G /\ h[v] = Step[<<v, h>>]
    BY DEF Works
  <2>1. PICK C \in SUBSET S, g \in [S -> T] : v \in C /\ Works(Pred, Step, C, g)
    OBVIOUS
  <2>2. v \in S
    OBVIOUS
  <2> HIDE DEF G, h
  <2>3. Pred[v] \subseteq C /\ g[v] = Step[<<v, g>>]
    BY <2>1 DEF Works
  <2>4. \A u \in C : u \in G /\ h[u] = g[u]
    BY <1>3, <2>1
  <2>5. Alike(Pred[v], g, h)
    BY <2>3, <2>4 DEF Alike
  <2>6. Step[<<v, g>>] = Step[<<v, h>>]
    BY <1>2, <2>2, <2>5 DEF LooksBack
  <2> QED BY <2>1, <2>3, <2>4, <2>6
<1>5. G = S
  <2>1. G \in SUBSET S
    OBVIOUS
  <2> SUFFICES ASSUME S \ G # {} PROVE FALSE
    BY <2>1
  <2>2. PICK v \in S \ G : \A u \in Pred[v] : u \notin S \ G
    BY DEF WellFounded
  <2> DEFINE k == [u \in S |-> IF u = v THEN Step[<<v, h>>] ELSE h[u]]
  <2>3. v \in S /\ Pred[v] \subseteq G /\ v \notin G
    BY <2>2
  <2>4. Works(Pred, Step, G \cup {v}, k) /\ k \in [S -> T]
    <3> HIDE DEF G, h
    <3>1. k \in [S -> T]
      <4>1. <<v, h>> \in S \X [S -> T]
        BY <1>2, <2>3
      <4> QED BY <1>2, <2>3, <4>1
    <3>2. \A u \in G : k[u] = h[u]
      BY <2>1, <2>3
    <3>3. k[v] = Step[<<v, h>>]
      BY <2>3
    <3> HIDE DEF k
    <3>4. Alike(Pred[v], k, h)
      BY <2>3, <3>2 DEF Alike
    <3>5. Step[<<v, k>>] = Step[<<v, h>>]
      BY <1>2, <2>3, <3>1, <3>4 DEF LooksBack
    <3>6. ASSUME NEW u \in G PROVE Pred[u] \subseteq G /\ k[u] = Step[<<u, k>>]
      <4>1. u \in S /\ Pred[u] \subseteq G /\ h[u] = Step[<<u, h>>]
        BY <1>4, <2>1 DEF Works
      <4>2. Alike(Pred[u], k, h)
        BY <3>2, <4>1 DEF Alike
      <4>3. Step[<<u, k>>] = Step[<<u, h>>]
        BY <1>2, <3>1, <4>1, <4>2 DEF LooksBack
      <4> QED BY <3>2, <4>1, <4>3
    <3> QED BY <2>3, <3>1, <3>3, <3>5, <3>6 DEF Works
  <2>5. v \in G
    <3>1. G \cup {v} \in SUBSET S
      BY <2>1, <2>3
    <3> HIDE DEF k, h
    <3> QED BY <2>3, <2>4, <3>1
  <2> QED BY <2>3, <2>5
<1> HIDE DEF G, h
<1> QED BY <1>2, <1>4, <1>5 DEF Works

\* There is one at most.
LEMMA OneSolution ==
  ASSUME NEW S, NEW Pred \in [S -> SUBSET S], WellFounded(S, Pred), NEW f, NEW g,
         \A v \in S : Alike(Pred[v], f, g) => f[v] = g[v]
  PROVE  Alike(S, f, g)
<1> DEFINE D == {v \in S : f[v] # g[v]}
<1> SUFFICES ASSUME D # {} PROVE FALSE
  BY DEF Alike
<1>1. PICK v \in D : \A u \in Pred[v] : u \notin D
  BY DEF WellFounded
<1>2. Pred[v] \subseteq S => Alike(Pred[v], f, g)
  BY <1>1 DEF Alike
<1> QED BY <1>1, <1>2

--------------------------------------------------------------------------------
(* The content of a JSON value.                                             *)

\* What JsonAssumption says of one value.
LEMMA JsonShape ==
  ASSUME NEW v \in JsonValues
  PROVE  /\ v.kind = "atom" => Parts(v) = {}
         /\ v.kind # "atom" =>
              /\ v.kind \in {"array", "object"}
              /\ v.items \in Seq(JsonValues) /\ Len(v.items) \in Nat /\ Parts(v) = 1 .. Len(v.items)
              /\ \A i \in Parts(v) : v.items[i] \in JsonValues
         /\ v.kind = "object" =>
              /\ v.keys \in Seq(ToSet(v.keys)) /\ Len(v.keys) = Len(v.items)
              /\ DOMAIN v.keys = Parts(v)
              /\ \A i, j \in Parts(v) : v.keys[i] = v.keys[j] => i = j
BY JsonAssumption DEF Parts

\* The parts are before the whole.
PartsOf == [v \in JsonValues |-> {v.items[i] : i \in Parts(v)}]

LEMMA JsonWellFounded ==
  PartsOf \in [JsonValues -> SUBSET JsonValues] /\ WellFounded(JsonValues, PartsOf)
<1>1. ASSUME NEW v \in JsonValues PROVE {v.items[i] : i \in Parts(v)} \in SUBSET JsonValues
  BY JsonShape
<1>2. ASSUME NEW S \in SUBSET JsonValues, S # {}
      PROVE  \E v \in S : \A u \in PartsOf[v] : u \notin S
  <2>1. PICK v \in S : \A i \in Parts(v) : v.items[i] \notin S
    BY <1>2, JsonAssumption
  <2> QED BY <2>1 DEF PartsOf
<1> QED BY <1>1, <1>2 DEF PartsOf, WellFounded

\* The segments there are, and what content is made of.
Segments == UNION {{Segment(v, i) : i \in Parts(v)} : v \in JsonValues}
Entries == Seq(Segments) \X {Shape(v) : v \in JsonValues}

ContentOf(v, content) ==
  {<<<<>>, Shape(v)>>}
  \cup UNION {{<<<<Segment(v, i)>> \o p[1], p[2]>> : p \in content[v.items[i]]} : i \in Parts(v)}

\* A path with a segment before it.
LEMMA ConsType ==
  ASSUME NEW U, NEW s \in U, NEW q \in Seq(U)
  PROVE  <<s>> \o q \in Seq(U) /\ <<s>> \o q # <<>> /\ (<<s>> \o q)[1] = s
BY ConcatProperties

LEMMA ConsInjective ==
  ASSUME NEW U, NEW s \in U, NEW t \in U, NEW q \in Seq(U), NEW r \in Seq(U), <<s>> \o q = <<t>> \o r
  PROVE  s = t /\ q = r
<1>1. s = t
  BY ConsType
<1>2. <<s>> \in Seq(U)
  OBVIOUS
<1>3. \A S : \A a, b, c \in Seq(S) : a \o b = a \o c => b = c
  BY ConcatSimplifications
<1> QED BY <1>1, <1>2, <1>3

LEMMA ContentOfType ==
  ASSUME NEW v \in JsonValues, NEW g \in [JsonValues -> SUBSET Entries]
  PROVE  ContentOf(v, g) \in SUBSET Entries
<1>1. <<<<>>, Shape(v)>> \in Entries
  BY EmptySeq DEF Entries
<1>2. ASSUME NEW i \in Parts(v), NEW p \in g[v.items[i]]
      PROVE  <<<<Segment(v, i)>> \o p[1], p[2]>> \in Entries
  <2>1. v.items[i] \in JsonValues
    BY JsonShape
  <2>2. p \in Entries
    BY <2>1
  <2>3. p[1] \in Seq(Segments) /\ p[2] \in {Shape(w) : w \in JsonValues}
    BY <2>2 DEF Entries
  <2>4. Segment(v, i) \in Segments
    BY DEF Segments
  <2>5. <<Segment(v, i)>> \o p[1] \in Seq(Segments)
    BY <2>3, <2>4, ConsType
  <2> QED BY <2>3, <2>5 DEF Entries
<1> SUFFICES ASSUME NEW e \in ContentOf(v, g) PROVE e \in Entries
  OBVIOUS
<1>3. \/ e = <<<<>>, Shape(v)>>
      \/ \E i \in Parts(v) : \E p \in g[v.items[i]] : e = <<<<Segment(v, i)>> \o p[1], p[2]>>
  BY DEF ContentOf
<1> QED BY <1>1, <1>2, <1>3

\* What is at a value is known from what is at its parts.
LEMMA ContentAlike ==
  ASSUME NEW v, NEW g, NEW h, \A i \in Parts(v) : g[v.items[i]] = h[v.items[i]]
  PROVE  ContentOf(v, g) = ContentOf(v, h)
<1> DEFINE Under(i, there) == {<<<<Segment(v, i)>> \o p[1], p[2]>> : p \in there}
           Through(c) == {Under(i, c[v.items[i]]) : i \in Parts(v)}
<1>1. ContentOf(v, g) = {<<<<>>, Shape(v)>>} \cup UNION Through(g)
  BY Zenon DEF ContentOf
<1>2. ContentOf(v, h) = {<<<<>>, Shape(v)>>} \cup UNION Through(h)
  BY Zenon DEF ContentOf
<1> HIDE DEF Under
<1>3. \A i \in Parts(v) : Under(i, g[v.items[i]]) = Under(i, h[v.items[i]])
  BY Zenon
<1>4. Through(g) = Through(h)
  BY <1>3
<1> HIDE DEF Through
<1> QED BY <1>1, <1>2, <1>4, Zenon

LEMMA ContentChosen ==
  Content = CHOOSE c : c = [v \in JsonValues |-> ContentOf(v, c)]
BY Zenon DEF Content, ContentOf

\* There is a function as the recursion of Content asks.
LEMMA ContentDefined ==
  /\ Content \in [JsonValues -> SUBSET Entries]
  /\ \A v \in JsonValues : Content[v] = ContentOf(v, Content)
<1> DEFINE T == SUBSET Entries
           Step == [p \in JsonValues \X [JsonValues -> T] |-> ContentOf(p[1], p[2])]
<1>1. Step \in [JsonValues \X [JsonValues -> T] -> T]
  BY ContentOfType
<1>2. ASSUME NEW v \in JsonValues, NEW g \in [JsonValues -> T]
      PROVE  Step[<<v, g>>] = ContentOf(v, g)
  OBVIOUS
<1> HIDE DEF Step
<1>3. LooksBack(JsonValues, T, PartsOf, Step)
  <2> SUFFICES ASSUME NEW v \in JsonValues, NEW g \in [JsonValues -> T], NEW h \in [JsonValues -> T],
                      Alike(PartsOf[v], g, h)
               PROVE  Step[<<v, g>>] = Step[<<v, h>>]
    BY DEF LooksBack
  <2>1. \A i \in Parts(v) : g[v.items[i]] = h[v.items[i]]
    BY DEF Alike, PartsOf
  <2>2. ContentOf(v, g) = ContentOf(v, h)
    BY <2>1, ContentAlike
  <2> QED BY <1>2, <2>2
<1>4. {} \in T
  OBVIOUS
<1> HIDE DEF T
<1>5. PICK f \in [JsonValues -> T] : \A v \in JsonValues : f[v] = Step[<<v, f>>]
  <2>1. Recursion(JsonValues, T, PartsOf, Step)
    BY <1>1, <1>3, <1>4, JsonWellFounded DEF Recursion
  <2> QED BY <2>1, RecursiveFunction
<1>6. f = [v \in JsonValues |-> ContentOf(v, f)]
  BY <1>2, <1>5
<1>7. \E c : c = [v \in JsonValues |-> ContentOf(v, c)]
  BY <1>6
<1>8. Content = [v \in JsonValues |-> ContentOf(v, Content)]
  BY <1>7, ContentChosen
<1>9. ASSUME NEW v \in JsonValues, Alike(PartsOf[v], f, Content) PROVE f[v] = Content[v]
  <2>1. \A i \in Parts(v) : Content[v.items[i]] = f[v.items[i]]
    BY <1>9 DEF Alike, PartsOf
  <2>2. ContentOf(v, Content) = ContentOf(v, f)
    BY <2>1, ContentAlike
  <2> QED BY <1>6, <1>8, <2>2
<1>10. Alike(JsonValues, f, Content)
  BY <1>9, JsonWellFounded, OneSolution
<1>11. Content = [v \in JsonValues |-> f[v]]
  BY <1>8, <1>10 DEF Alike
<1> QED BY <1>5, <1>8, <1>11 DEF T

\* At the empty path, the shape.
LEMMA AtRoot ==
  ASSUME NEW v \in JsonValues, NEW leaf
  PROVE  <<<<>>, leaf>> \in Content[v] <=> leaf = Shape(v)
<1>1. ASSUME NEW i \in Parts(v), NEW p \in Content[v.items[i]]
      PROVE  <<Segment(v, i)>> \o p[1] # <<>>
  <2>1. p \in Entries /\ Segment(v, i) \in Segments
    BY JsonShape, ContentDefined DEF Segments
  <2>2. p[1] \in Seq(Segments)
    BY <2>1 DEF Entries
  <2> QED BY <2>1, <2>2, ConsType
<1>2. Content[v] = ContentOf(v, Content)
  BY ContentDefined
<1> QED BY <1>1, <1>2 DEF ContentOf

\* Further on, the content of the part.
LEMMA AtPart ==
  ASSUME NEW U, Segments \subseteq U, NEW v \in JsonValues,
         NEW s \in U, NEW q \in Seq(U), NEW leaf
  PROVE  <<<<s>> \o q, leaf>> \in Content[v]
           <=> \E i \in Parts(v) : Segment(v, i) = s /\ <<q, leaf>> \in Content[v.items[i]]
<1>1. ASSUME NEW i \in Parts(v), NEW p \in Content[v.items[i]]
      PROVE  p = <<p[1], p[2]>> /\ p[1] \in Seq(U) /\ Segment(v, i) \in U
  <2>1. p \in Entries /\ Segment(v, i) \in Segments
    BY JsonShape, ContentDefined DEF Segments
  <2>2. p[1] \in Seq(Segments) /\ p = <<p[1], p[2]>>
    BY <2>1 DEF Entries
  <2> QED BY <2>1, <2>2, SeqMonotonic
<1>2. Content[v] = ContentOf(v, Content)
  BY ContentDefined
<1>3. <<s>> \o q # <<>>
  BY ConsType
<1>4. ASSUME <<<<s>> \o q, leaf>> \in Content[v]
      PROVE  \E i \in Parts(v) : Segment(v, i) = s /\ <<q, leaf>> \in Content[v.items[i]]
  <2>1. PICK i \in Parts(v) : \E p \in Content[v.items[i]] :
          <<<<s>> \o q, leaf>> = <<<<Segment(v, i)>> \o p[1], p[2]>>
    BY <1>2, <1>3, <1>4 DEF ContentOf
  <2>2. PICK p \in Content[v.items[i]] : <<<<s>> \o q, leaf>> = <<<<Segment(v, i)>> \o p[1], p[2]>>
    BY <2>1
  <2>3. Segment(v, i) = s /\ p[1] = q
    BY <1>1, <2>2, ConsInjective
  <2> QED BY <1>1, <2>2, <2>3
<1>5. ASSUME NEW i \in Parts(v), Segment(v, i) = s, <<q, leaf>> \in Content[v.items[i]]
      PROVE  <<<<s>> \o q, leaf>> \in Content[v]
  BY <1>2, <1>5 DEF ContentOf
<1> QED BY <1>4, <1>5

--------------------------------------------------------------------------------
(* The comparison of two values.                                            *)

Pairs == JsonValues \X JsonValues
PairsOfParts ==
  [p \in Pairs |-> {<<p[1].items[q[1]], p[2].items[q[2]]>> : q \in Parts(p[1]) \X Parts(p[2])}]

\* The recursion of StructurallyEqual, in named parts.
SameItems(a, b, same) ==
  /\ Len(a.items) = Len(b.items)
  /\ \A i \in DOMAIN a.items : same[<<a.items[i], b.items[i]>>]
SameMembers(a, b, same) ==
  /\ Len(a.keys) = Len(b.keys)
  /\ \A i \in DOMAIN a.keys : \E j \in DOMAIN b.keys :
       /\ a.keys[i] = b.keys[j]
       /\ same[<<a.items[i], b.items[j]>>]
SameValue(a, b, same) ==
  /\ a.kind = b.kind
  /\ CASE a.kind = "atom" -> a.is = b.is
       [] a.kind = "array" -> SameItems(a, b, same)
       [] a.kind = "object" -> SameMembers(a, b, same)

LEMMA SameValueCases ==
  ASSUME NEW a \in JsonValues, NEW b \in JsonValues, NEW same
  PROVE  SameValue(a, b, same) <=>
           \/ a.kind = "atom" /\ b.kind = "atom" /\ a.is = b.is
           \/ a.kind = "array" /\ b.kind = "array" /\ SameItems(a, b, same)
           \/ a.kind = "object" /\ b.kind = "object" /\ SameMembers(a, b, same)
<1>1. a.kind \in {"atom", "array", "object"}
  BY JsonShape
<1> QED BY <1>1 DEF SameValue

\* A pair of parts is before the pair.
LEMMA PairsWellFounded ==
  PairsOfParts \in [Pairs -> SUBSET Pairs] /\ WellFounded(Pairs, PairsOfParts)
<1>1. ASSUME NEW p \in Pairs
      PROVE  {<<p[1].items[q[1]], p[2].items[q[2]]>> : q \in Parts(p[1]) \X Parts(p[2])} \in SUBSET Pairs
  <2>1. p[1] \in JsonValues /\ p[2] \in JsonValues
    BY DEF Pairs
  <2>2. \A i \in Parts(p[1]) : p[1].items[i] \in JsonValues
    BY <2>1, JsonShape
  <2>3. \A i \in Parts(p[2]) : p[2].items[i] \in JsonValues
    BY <2>1, JsonShape
  <2> QED BY <2>2, <2>3 DEF Pairs
<1>2. ASSUME NEW C \in SUBSET Pairs, C # {}
      PROVE  \E p \in C : \A u \in PairsOfParts[p] : u \notin C
  <2> DEFINE A == {p[1] : p \in C}
  <2>1. A \in SUBSET JsonValues /\ A # {}
    BY <1>2 DEF Pairs
  <2>2. PICK a \in A : \A u \in PartsOf[a] : u \notin A
    BY <2>1, JsonWellFounded DEF WellFounded
  <2>3. PICK p \in C : p[1] = a
    OBVIOUS
  <2>4. ASSUME NEW u \in PairsOfParts[p] PROVE u \notin C
    <3>1. p \in Pairs
      OBVIOUS
    <3>2. PICK q \in Parts(p[1]) \X Parts(p[2]) : u = <<p[1].items[q[1]], p[2].items[q[2]]>>
      BY <3>1 DEF PairsOfParts
    <3>3. u[1] = a.items[q[1]] /\ q[1] \in Parts(a)
      BY <2>3, <3>2
    <3>4. u[1] \in PartsOf[a]
      BY <2>1, <3>3 DEF PartsOf
    <3> QED BY <2>2, <3>4
  <2> QED BY <2>4
<1> QED BY <1>1, <1>2 DEF PairsOfParts, WellFounded

LEMMA SameLooksBack ==
  ASSUME NEW p \in Pairs, NEW g, NEW h, Alike(PairsOfParts[p], g, h)
  PROVE  SameValue(p[1], p[2], g) = SameValue(p[1], p[2], h)
<1> DEFINE a == p[1]
           b == p[2]
<1>1. a \in JsonValues /\ b \in JsonValues
  BY DEF Pairs
<1>2. ASSUME NEW i \in Parts(a), NEW j \in Parts(b)
      PROVE  g[<<a.items[i], b.items[j]>>] = h[<<a.items[i], b.items[j]>>]
  <2>1. <<a.items[i], b.items[j]>> \in PairsOfParts[p]
    <3>1. <<i, j>> \in Parts(a) \X Parts(b)
      OBVIOUS
    <3> QED BY <3>1 DEF PairsOfParts
  <2> QED BY <2>1 DEF Alike
<1> HIDE DEF a, b
<1>3. ASSUME a.kind = "array", b.kind = "array"
      PROVE  SameItems(a, b, g) <=> SameItems(a, b, h)
  <2>1. Len(a.items) = Len(b.items) => Parts(a) = Parts(b)
    BY <1>1, <1>3, JsonShape
  <2>2. DOMAIN a.items = Parts(a)
    BY <1>1, <1>3 DEF Parts
  <2> QED BY <1>2, <2>1, <2>2 DEF SameItems
<1>4. ASSUME a.kind = "object", b.kind = "object"
      PROVE  SameMembers(a, b, g) <=> SameMembers(a, b, h)
  <2>1. DOMAIN a.keys = Parts(a) /\ DOMAIN b.keys = Parts(b)
    BY <1>1, <1>4, JsonShape
  <2> QED BY <1>2, <2>1 DEF SameMembers
<1>5. SameValue(a, b, g) <=> SameValue(a, b, h)
  BY <1>1, <1>3, <1>4, SameValueCases
<1>6. SameValue(a, b, g) \in BOOLEAN /\ SameValue(a, b, h) \in BOOLEAN
  BY DEF SameValue
<1> QED BY <1>5, <1>6 DEF a, b

\* There is a function as the recursion of StructurallyEqual asks.
LEMMA SameDefined ==
  \A a, b \in JsonValues :
    /\ StructurallyEqual[<<a, b>>] \in BOOLEAN
    /\ StructurallyEqual[<<a, b>>] = SameValue(a, b, StructurallyEqual)
<1> DEFINE Step == [p \in Pairs \X [Pairs -> BOOLEAN] |-> SameValue(p[1][1], p[1][2], p[2])]
<1>1. Step \in [Pairs \X [Pairs -> BOOLEAN] -> BOOLEAN]
  BY DEF SameValue
<1>2. ASSUME NEW p \in Pairs, NEW g \in [Pairs -> BOOLEAN]
      PROVE  Step[<<p, g>>] = SameValue(p[1], p[2], g)
  OBVIOUS
<1> HIDE DEF Step
<1>3. LooksBack(Pairs, BOOLEAN, PairsOfParts, Step)
  BY <1>2, SameLooksBack DEF LooksBack
<1>4. Recursion(Pairs, BOOLEAN, PairsOfParts, Step)
  BY <1>1, <1>3, PairsWellFounded DEF Recursion
<1>5. PICK f \in [Pairs -> BOOLEAN] : \A p \in Pairs : f[p] = Step[<<p, f>>]
  BY <1>4, RecursiveFunction
<1>6. f = [p \in Pairs |-> SameValue(p[1], p[2], f)]
  BY <1>2, <1>5
<1>7. \E g : g = [p \in Pairs |-> SameValue(p[1], p[2], g)]
  BY <1>6
<1>8. StructurallyEqual = [p \in Pairs |-> SameValue(p[1], p[2], StructurallyEqual)]
  BY <1>7 DEF StructurallyEqual, SameValue, SameItems, SameMembers, Pairs
<1>9. ASSUME NEW a \in JsonValues, NEW b \in JsonValues
      PROVE  StructurallyEqual[<<a, b>>] = SameValue(a, b, StructurallyEqual)
  <2>1. <<a, b>> \in Pairs
    BY DEF Pairs
  <2> QED BY <1>8, <2>1
<1> QED BY <1>9 DEF SameValue

\* As many keys as members: JSON.parse leaves one of each.
LEMMA KeysCounted ==
  ASSUME NEW v \in JsonValues, v.kind = "object"
  PROVE  IsFiniteSet(ToSet(v.keys)) /\ Cardinality(ToSet(v.keys)) = Len(v.keys)
<1> DEFINE n == Len(v.keys)
<1>1. v.keys \in Seq(ToSet(v.keys)) /\ n \in Nat /\ DOMAIN v.keys = 1 .. n
      /\ \A i, j \in 1 .. n : v.keys[i] = v.keys[j] => i = j
  BY JsonShape
<1>2. v.keys \in [1 .. n -> ToSet(v.keys)]
  BY <1>1
<1>3. \A k \in ToSet(v.keys) : \E i \in 1 .. n : v.keys[i] = k
  BY <1>1 DEF ToSet
<1> HIDE DEF n
<1>4. v.keys \in Bijection(1 .. n, ToSet(v.keys))
  BY <1>1, <1>2, <1>3 DEF Bijection, Injection, Surjection, IsInjective
<1>5. ExistsBijection(1 .. n, ToSet(v.keys))
  BY <1>4 DEF ExistsBijection
<1> QED BY <1>1, <1>5, FS_NatBijection, FS_CountingElements DEF n

LEMMA SegmentsDistinct ==
  ASSUME NEW v \in JsonValues, NEW i \in Parts(v), NEW j \in Parts(v), Segment(v, i) = Segment(v, j)
  PROVE  i = j
<1>1. v.kind # "atom" /\ i \in Int /\ j \in Int
  BY JsonShape
<1>2. CASE v.kind = "object"
  <2>1. v.keys[i] = v.keys[j]
    BY <1>2 DEF Segment
  <2> QED BY <1>2, <2>1, JsonShape
<1>3. CASE v.kind # "object"
  <2>1. i - 1 = j - 1
    BY <1>3 DEF Segment
  <2> QED BY <1>1, <2>1
<1> QED BY <1>2, <1>3

\* What a has at a segment b has there too.
PartsMatched(a, b) ==
  \A i \in Parts(a) : \E j \in Parts(b) :
    Segment(b, j) = Segment(a, i) /\ Content[b.items[j]] = Content[a.items[i]]

LEMMA PartIncluded ==
  ASSUME NEW a \in JsonValues, NEW b \in JsonValues, Content[a] \subseteq Content[b],
         NEW i \in Parts(a), NEW j \in Parts(b), Segment(a, i) = Segment(b, j)
  PROVE  Content[a.items[i]] \subseteq Content[b.items[j]]
<1>1. a.items[i] \in JsonValues /\ Segment(a, i) \in Segments
  BY JsonShape DEF Segments
<1> SUFFICES ASSUME NEW e \in Content[a.items[i]] PROVE e \in Content[b.items[j]]
  OBVIOUS
<1>2. e = <<e[1], e[2]>> /\ e[1] \in Seq(Segments)
  BY <1>1, ContentDefined DEF Entries
<1>3. <<<<Segment(a, i)>> \o e[1], e[2]>> \in Content[a]
  BY <1>1, <1>2, AtPart
<1>4. <<<<Segment(a, i)>> \o e[1], e[2]>> \in Content[b]
  BY <1>3
<1>5. PICK k \in Parts(b) : Segment(b, k) = Segment(a, i) /\ <<e[1], e[2]>> \in Content[b.items[k]]
  BY <1>1, <1>2, <1>4, AtPart
<1>6. k = j
  BY <1>5, SegmentsDistinct
<1> QED BY <1>2, <1>5, <1>6

\* The same content is the same shape, and the same at every segment.
LEMMA ContentMatched ==
  ASSUME NEW a \in JsonValues, NEW b \in JsonValues, Content[a] = Content[b]
  PROVE  Shape(a) = Shape(b) /\ PartsMatched(a, b)
<1>1. Shape(a) = Shape(b)
  BY AtRoot
<1>2. ASSUME NEW i \in Parts(a)
      PROVE  \E j \in Parts(b) :
               Segment(b, j) = Segment(a, i) /\ Content[b.items[j]] = Content[a.items[i]]
  <2>1. a.items[i] \in JsonValues /\ Segment(a, i) \in Segments
    BY JsonShape DEF Segments
  <2>2. PICK q \in Seq(Segments) : q = <<>>
    BY EmptySeq
  <2>3. PICK leaf : <<q, leaf>> \in Content[a.items[i]]
    BY <2>1, <2>2, AtRoot
  <2>4. <<<<Segment(a, i)>> \o q, leaf>> \in Content[b]
    BY <2>1, <2>3, AtPart
  <2>5. \E j \in Parts(b) : Segment(b, j) = Segment(a, i) /\ <<q, leaf>> \in Content[b.items[j]]
    <3>1. Segments \subseteq Segments
      OBVIOUS
    <3> QED BY <2>1, <2>4, <3>1, AtPart
  <2>6. PICK j \in Parts(b) : Segment(b, j) = Segment(a, i)
    BY <2>5
  <2>7. Content[a.items[i]] \subseteq Content[b.items[j]]
    BY <2>6, PartIncluded
  <2>8. Content[b.items[j]] \subseteq Content[a.items[i]]
    BY <2>6, PartIncluded
  <2>9. Content[b.items[j]] = Content[a.items[i]]
    BY <2>7, <2>8
  <2> QED BY <2>6, <2>9
<1> QED BY <1>1, <1>2 DEF PartsMatched

LEMMA MatchedIncluded ==
  ASSUME NEW a \in JsonValues, NEW b \in JsonValues, Shape(a) = Shape(b), PartsMatched(a, b)
  PROVE  Content[a] \subseteq Content[b]
<1>1. Content[a] = ContentOf(a, Content) /\ Content[b] = ContentOf(b, Content)
  BY ContentDefined
<1> SUFFICES ASSUME NEW e \in Content[a] PROVE e \in Content[b]
  OBVIOUS
<1>2. \/ e = <<<<>>, Shape(a)>>
      \/ \E i \in Parts(a) : \E p \in Content[a.items[i]] : e = <<<<Segment(a, i)>> \o p[1], p[2]>>
  BY <1>1 DEF ContentOf
<1>3. CASE e = <<<<>>, Shape(a)>>
  BY <1>1, <1>3 DEF ContentOf
<1>4. ASSUME NEW i \in Parts(a), NEW p \in Content[a.items[i]], e = <<<<Segment(a, i)>> \o p[1], p[2]>>
      PROVE  e \in Content[b]
  <2>1. PICK j \in Parts(b) : Segment(b, j) = Segment(a, i) /\ Content[b.items[j]] = Content[a.items[i]]
    BY DEF PartsMatched
  <2> QED BY <1>1, <1>4, <2>1 DEF ContentOf
<1> QED BY <1>2, <1>3, <1>4

\* The comparison of evaluate.ts agrees with the content, of these two.
SameHere(a, b) == StructurallyEqual[<<a, b>>] <=> Content[a] = Content[b]

LEMMA ArraysSame ==
  ASSUME NEW a \in JsonValues, NEW b \in JsonValues, a.kind = "array", b.kind = "array",
         \A i \in Parts(a), j \in Parts(b) : SameHere(a.items[i], b.items[j])
  PROVE  SameItems(a, b, StructurallyEqual) <=> Content[a] = Content[b]
<1>1. DOMAIN a.items = Parts(a) /\ Parts(a) = 1 .. Len(a.items) /\ Parts(b) = 1 .. Len(b.items)
      /\ Len(a.items) \in Nat /\ Len(b.items) \in Nat
  BY JsonShape DEF Parts
<1>2. Shape(a) = <<"array", Len(a.items)>> /\ Shape(b) = <<"array", Len(b.items)>>
  BY DEF Shape
<1>3. \A i \in Parts(a) : Segment(a, i) = [kind |-> "index", index |-> i - 1]
  BY DEF Segment
<1>4. \A i \in Parts(b) : Segment(b, i) = [kind |-> "index", index |-> i - 1]
  BY DEF Segment
<1>5. ASSUME SameItems(a, b, StructurallyEqual) PROVE Content[a] = Content[b]
  <2>1. Len(a.items) = Len(b.items) /\ Parts(a) = Parts(b)
    BY <1>1, <1>5 DEF SameItems
  <2>2. \A i \in Parts(a) : Content[a.items[i]] = Content[b.items[i]] /\ Segment(a, i) = Segment(b, i)
    BY <1>1, <1>3, <1>4, <1>5, <2>1 DEF SameItems, SameHere
  <2>3. PartsMatched(a, b) /\ PartsMatched(b, a)
    BY <2>1, <2>2 DEF PartsMatched
  <2>4. Shape(a) = Shape(b)
    BY <1>2, <2>1
  <2>5. Content[a] \subseteq Content[b]
    BY <2>3, <2>4, MatchedIncluded
  <2>6. Content[b] \subseteq Content[a]
    BY <2>3, <2>4, MatchedIncluded
  <2> QED BY <2>5, <2>6
<1>6. ASSUME Content[a] = Content[b] PROVE SameItems(a, b, StructurallyEqual)
  <2>1. Shape(a) = Shape(b) /\ PartsMatched(a, b)
    BY <1>6, ContentMatched
  <2>2. Len(a.items) = Len(b.items) /\ Parts(a) = Parts(b)
    BY <1>1, <1>2, <2>1
  <2>3. ASSUME NEW i \in Parts(a) PROVE StructurallyEqual[<<a.items[i], b.items[i]>>]
    <3>1. PICK j \in Parts(b) : Segment(b, j) = Segment(a, i) /\ Content[b.items[j]] = Content[a.items[i]]
      BY <2>1 DEF PartsMatched
    <3>2. i = j
      BY <2>2, <3>1, SegmentsDistinct, <1>3, <1>4
    <3>3. Content[a.items[i]] = Content[b.items[i]]
      BY <3>1, <3>2
    <3> QED BY <2>2, <3>3 DEF SameHere
  <2> QED BY <1>1, <2>2, <2>3 DEF SameItems
<1> QED BY <1>5, <1>6

LEMMA ObjectsSame ==
  ASSUME NEW a \in JsonValues, NEW b \in JsonValues, a.kind = "object", b.kind = "object",
         \A i \in Parts(a), j \in Parts(b) : SameHere(a.items[i], b.items[j])
  PROVE  SameMembers(a, b, StructurallyEqual) <=> Content[a] = Content[b]
<1>1. DOMAIN a.keys = Parts(a) /\ DOMAIN b.keys = Parts(b)
  BY JsonShape
<1>2. Shape(a) = <<"object", ToSet(a.keys)>> /\ Shape(b) = <<"object", ToSet(b.keys)>>
  BY DEF Shape
<1>3. \A i \in Parts(a) : Segment(a, i) = [kind |-> "name", name |-> a.keys[i]]
  BY DEF Segment
<1>4. \A j \in Parts(b) : Segment(b, j) = [kind |-> "name", name |-> b.keys[j]]
  BY DEF Segment
<1>5. ASSUME SameMembers(a, b, StructurallyEqual) PROVE Content[a] = Content[b]
  <2>1. \A i \in Parts(a) : \E j \in Parts(b) :
          a.keys[i] = b.keys[j] /\ Content[a.items[i]] = Content[b.items[j]]
    BY <1>1, <1>5 DEF SameMembers, SameHere
  <2>2. PartsMatched(a, b)
    BY <1>3, <1>4, <2>1 DEF PartsMatched
  <2>3. ToSet(a.keys) = ToSet(b.keys)
    <3>1. ToSet(a.keys) \subseteq ToSet(b.keys)
      BY <1>1, <2>1 DEF ToSet
    <3>2. Cardinality(ToSet(a.keys)) = Cardinality(ToSet(b.keys))
      BY <1>5, KeysCounted DEF SameMembers
    <3> QED BY <3>1, <3>2, KeysCounted, FS_Subset
  <2>4. ASSUME NEW j \in Parts(b)
        PROVE  \E i \in Parts(a) :
                 Segment(a, i) = Segment(b, j) /\ Content[a.items[i]] = Content[b.items[j]]
    <3>1. PICK i \in Parts(a) : a.keys[i] = b.keys[j]
      BY <1>1, <2>3 DEF ToSet
    <3>2. PICK k \in Parts(b) : a.keys[i] = b.keys[k] /\ Content[a.items[i]] = Content[b.items[k]]
      BY <2>1
    <3>3. k = j
      BY <3>1, <3>2, JsonShape
    <3> QED BY <1>3, <1>4, <3>1, <3>2, <3>3
  <2>5. PartsMatched(b, a)
    BY <2>4 DEF PartsMatched
  <2>6. Shape(a) = Shape(b)
    BY <1>2, <2>3
  <2>7. Content[a] \subseteq Content[b]
    BY <2>2, <2>6, MatchedIncluded
  <2>8. Content[b] \subseteq Content[a]
    BY <2>5, <2>6, MatchedIncluded
  <2> QED BY <2>7, <2>8
<1>6. ASSUME Content[a] = Content[b] PROVE SameMembers(a, b, StructurallyEqual)
  <2>1. Shape(a) = Shape(b) /\ PartsMatched(a, b)
    BY <1>6, ContentMatched
  <2>2. Len(a.keys) = Len(b.keys)
    <3>1. ToSet(a.keys) = ToSet(b.keys)
      BY <1>2, <2>1
    <3> QED BY <3>1, KeysCounted
  <2>3. ASSUME NEW i \in Parts(a)
        PROVE  \E j \in Parts(b) : a.keys[i] = b.keys[j] /\ StructurallyEqual[<<a.items[i], b.items[j]>>]
    <3>1. PICK j \in Parts(b) : Segment(b, j) = Segment(a, i) /\ Content[b.items[j]] = Content[a.items[i]]
      BY <2>1 DEF PartsMatched
    <3>2. a.keys[i] = b.keys[j]
      BY <1>3, <1>4, <3>1
    <3> QED BY <3>1, <3>2 DEF SameHere
  <2> QED BY <1>1, <2>2, <2>3 DEF SameMembers
<1> QED BY <1>5, <1>6

LEMMA AtomsSame ==
  ASSUME NEW a \in JsonValues, NEW b \in JsonValues, a.kind = "atom" \/ b.kind = "atom" \/ a.kind # b.kind
  PROVE  SameHere(a, b)
<1>1. Content[a] = Content[b] => Shape(a) = Shape(b)
  BY ContentMatched
<1>2. Shape(a) = Shape(b) => a.kind = b.kind /\ (a.kind = "atom" => a.is = b.is)
  <2>1. a.kind \in {"atom", "array", "object"} /\ b.kind \in {"atom", "array", "object"}
    BY JsonShape
  <2> QED BY <2>1 DEF Shape
<1>3. a.kind = "atom" /\ b.kind = "atom" /\ a.is = b.is => Content[a] = Content[b]
  <2> SUFFICES ASSUME a.kind = "atom", b.kind = "atom", a.is = b.is PROVE Content[a] = Content[b]
    OBVIOUS
  <2>1. Shape(a) = Shape(b)
    BY DEF Shape
  <2>2. PartsMatched(a, b) /\ PartsMatched(b, a)
    BY DEF PartsMatched, Parts
  <2> QED BY <2>1, <2>2, MatchedIncluded
<1>4. StructurallyEqual[<<a, b>>] <=> a.kind = "atom" /\ b.kind = "atom" /\ a.is = b.is
  BY SameDefined, SameValueCases
<1> QED BY <1>1, <1>2, <1>3, <1>4 DEF SameHere

\* structurallyEqual is equality of what is found at every path.
LEMMA EqualIsSameContent ==
  \A a, b \in JsonValues : StructurallyEqual[<<a, b>>] <=> Content[a] = Content[b]
<1> DEFINE D == {a \in JsonValues : \E b \in JsonValues : ~SameHere(a, b)}
<1> SUFFICES ASSUME D # {} PROVE FALSE
  BY DEF SameHere
<1>1. PICK a \in D : \A u \in PartsOf[a] : u \notin D
  BY JsonWellFounded DEF WellFounded
<1>2. PICK b \in JsonValues : ~SameHere(a, b)
  OBVIOUS
<1>3. a \in JsonValues
  OBVIOUS
<1>4. \A i \in Parts(a), j \in Parts(b) : SameHere(a.items[i], b.items[j])
  BY <1>1, <1>3, JsonShape DEF PartsOf
<1> HIDE DEF D
<1>5. StructurallyEqual[<<a, b>>] = SameValue(a, b, StructurallyEqual)
  BY <1>3, SameDefined
<1>6. CASE a.kind = "array" /\ b.kind = "array"
  <2>1. StructurallyEqual[<<a, b>>] <=> SameItems(a, b, StructurallyEqual)
    BY <1>3, <1>5, <1>6, SameValueCases
  <2> QED BY <1>2, <1>3, <1>4, <1>6, <2>1, ArraysSame DEF SameHere
<1>7. CASE a.kind = "object" /\ b.kind = "object"
  <2>1. StructurallyEqual[<<a, b>>] <=> SameMembers(a, b, StructurallyEqual)
    BY <1>3, <1>5, <1>7, SameValueCases
  <2> QED BY <1>2, <1>3, <1>4, <1>7, <2>1, ObjectsSame DEF SameHere
<1>8. a.kind \in {"atom", "array", "object"} /\ b.kind \in {"atom", "array", "object"}
  BY <1>3, JsonShape
<1> QED BY <1>2, <1>3, <1>6, <1>7, <1>8, AtomsSame

--------------------------------------------------------------------------------
(* The walk along a path.                                                   *)

\* Numbers are counted up from the least.
LEMMA LeastOfNat ==
  ASSUME NEW S \in SUBSET Nat, S # {}
  PROVE  \E x \in S : \A y \in S : x <= y
<1> DEFINE Upto(n) == 1 .. n
           T == {Upto(n) : n \in S}
<1>1. \A n \in S : Upto(n) \in FiniteSubsetsOf(Nat)
  BY FS_Interval DEF FiniteSubsetsOf
<1>2. T \subseteq FiniteSubsetsOf(Nat) /\ T # {}
  BY <1>1
<1>3. PICK M \in T : \A N \in T : <<N, M>> \notin StrictSubsetOrdering(Nat)
  BY <1>2, WFMin, FS_StrictSubsetOrderingWellFounded
<1>4. PICK m \in S : M = Upto(m)
  OBVIOUS
<1>5. ASSUME NEW n \in S PROVE m <= n
  <2>1. <<Upto(n), Upto(m)>> \notin StrictSubsetOrdering(Nat)
    BY <1>3, <1>4
  <2>2. ~ (Upto(n) \subseteq Upto(m) /\ Upto(n) # Upto(m))
    BY <2>1 DEF StrictSubsetOrdering
  <2>3. n < m => Upto(n) \subseteq Upto(m) /\ m \in Upto(m) /\ m \notin Upto(n)
    OBVIOUS
  <2> QED BY <2>2, <2>3
<1> QED BY <1>5

\* A step of a loop from m to n is after the one before it.
Before(m, n) == [i \in m .. n |-> IF i = m THEN {} ELSE {i - 1}]

LEMMA CountingWellFounded ==
  ASSUME NEW m \in Nat, NEW n \in Nat
  PROVE  Before(m, n) \in [m .. n -> SUBSET (m .. n)] /\ WellFounded(m .. n, Before(m, n))
<1>1. Before(m, n) \in [m .. n -> SUBSET (m .. n)]
  BY DEF Before
<1>2. ASSUME NEW C \in SUBSET (m .. n), C # {}
      PROVE  \E i \in C : \A j \in Before(m, n)[i] : j \notin C
  <2>1. C \in SUBSET Nat
    OBVIOUS
  <2>2. PICK i \in C : \A j \in C : i <= j
    BY <1>2, <2>1, LeastOfNat
  <2>3. \A j \in Before(m, n)[i] : j = i - 1
    BY DEF Before
  <2> QED BY <2>1, <2>2, <2>3
<1> QED BY <1>1, <1>2 DEF WellFounded

\* readJsonPath finds a value or nothing.
Lookup == {<<>>} \cup {<<v>> : v \in JsonValues}

\* One step finds the part at the segment, if there is one.
LEMMA DescendPart ==
  ASSUME NEW v \in JsonValues, NEW s, IsSegment(s)
  PROVE  \/ \E i \in Parts(v) : Segment(v, i) = s /\ Descend(<<v>>, s) = <<v.items[i]>>
         \/ (\A i \in Parts(v) : Segment(v, i) # s) /\ Descend(<<v>>, s) = <<>>
<1>1. v.kind \in {"atom", "array", "object"}
  BY JsonShape
<1>2. <<v>> # <<>> /\ <<v>>[1] = v
  OBVIOUS
<1>3. CASE v.kind = "object" /\ s.kind = "name"
  <2>1. DOMAIN v.keys = Parts(v)
    BY <1>3, JsonShape
  <2>2. \A i \in Parts(v) : Segment(v, i) = s <=> v.keys[i] = s.name
    BY <1>3 DEF Segment, IsSegment
  <2>3. CASE \E i \in Parts(v) : v.keys[i] = s.name
    <3> DEFINE k == CHOOSE i \in DOMAIN v.keys : v.keys[i] = s.name
    <3>1. k \in Parts(v) /\ v.keys[k] = s.name
      BY <2>1, <2>3
    <3>2. Descend(<<v>>, s) = <<v.items[k]>>
      BY <1>2, <1>3, <2>1, <2>3 DEF Descend
    <3> HIDE DEF k
    <3> QED BY <2>2, <3>1, <3>2
  <2>4. CASE ~ \E i \in Parts(v) : v.keys[i] = s.name
    <3>1. Descend(<<v>>, s) = <<>>
      BY <1>2, <1>3, <2>1, <2>4 DEF Descend
    <3> QED BY <2>2, <2>4, <3>1
  <2> QED BY <2>3, <2>4
<1>4. CASE v.kind = "array" /\ s.kind = "index"
  <2>1. Parts(v) = 1 .. Len(v.items) /\ Len(v.items) \in Nat /\ s.index \in Nat
    BY <1>4, JsonShape DEF IsSegment
  <2>2. \A i \in Parts(v) : Segment(v, i) = s <=> i = s.index + 1
    <3>1. s = [kind |-> "index", index |-> s.index]
      BY <1>4 DEF IsSegment
    <3>2. \A i \in Parts(v) : Segment(v, i) = [kind |-> "index", index |-> i - 1]
      BY <1>4 DEF Segment
    <3>3. \A i \in Parts(v) : Segment(v, i) = s <=> i - 1 = s.index
      BY <3>1, <3>2
    <3> QED BY <2>1, <3>3
  <2>3. CASE s.index < Len(v.items)
    <3>1. Descend(<<v>>, s) = <<v.items[s.index + 1]>> /\ s.index + 1 \in Parts(v)
      BY <1>2, <1>4, <2>1, <2>3 DEF Descend
    <3> QED BY <2>1, <2>2, <3>1
  <2>4. CASE ~(s.index < Len(v.items))
    <3>1. Descend(<<v>>, s) = <<>>
      BY <1>2, <1>4, <2>4 DEF Descend
    <3> QED BY <2>1, <2>2, <2>4, <3>1
  <2> QED BY <2>3, <2>4
<1>5. CASE /\ ~(v.kind = "object" /\ s.kind = "name")
           /\ ~(v.kind = "array" /\ s.kind = "index")
  <2>1. Descend(<<v>>, s) = <<>>
    BY <1>2, <1>5 DEF Descend
  <2>2. \A i \in Parts(v) : Segment(v, i) # s
    <3>1. CASE v.kind = "object" /\ s.kind = "index"
      BY <3>1 DEF Segment
    <3>2. CASE v.kind = "array" /\ s.kind = "name"
      BY <3>2 DEF Segment
    <3>3. CASE v.kind = "atom"
      BY <3>3 DEF Parts
    <3> QED BY <1>1, <1>5, <3>1, <3>2, <3>3 DEF IsSegment
  <2> QED BY <2>1, <2>2
<1> QED BY <1>3, <1>4, <1>5

LEMMA DescendType ==
  ASSUME NEW found \in Lookup, NEW s, IsSegment(s)
  PROVE  Descend(found, s) \in Lookup
<1>1. CASE found = <<>>
  BY <1>1 DEF Descend, Lookup
<1>2. ASSUME NEW v \in JsonValues, found = <<v>> PROVE Descend(found, s) \in Lookup
  BY <1>2, DescendPart, JsonShape DEF Lookup
<1> QED BY <1>1, <1>2 DEF Lookup

\* What readJsonPath has found after each step.
Walk(f, root, path) ==
  f = [i \in 0 .. Len(path) |-> IF i = 0 THEN <<root>> ELSE Descend(f[i - 1], path[i])]

LEMMA WalkDefined ==
  ASSUME NEW root \in JsonValues, NEW path, path # NULL, Len(path) \in Nat,
         \A i \in 1 .. Len(path) : IsSegment(path[i])
  PROVE  \E f \in [0 .. Len(path) -> Lookup] :
           Walk(f, root, path) /\ ReadJsonPath(root, path) = f[Len(path)]
<1> DEFINE n == Len(path)
           S == 0 .. n
           Step == [p \in S \X [S -> Lookup] |->
                      IF p[1] = 0 THEN <<root>> ELSE Descend(p[2][p[1] - 1], path[p[1]])]
<1>1. Step \in [S \X [S -> Lookup] -> Lookup]
  <2>1. ASSUME NEW i \in S, NEW g \in [S -> Lookup], i # 0
        PROVE  Descend(g[i - 1], path[i]) \in Lookup
    BY <2>1, DescendType
  <2>2. <<root>> \in Lookup
    BY DEF Lookup
  <2> QED BY <2>1, <2>2
<1>2. ASSUME NEW i \in S, NEW g \in [S -> Lookup]
      PROVE  Step[<<i, g>>] = IF i = 0 THEN <<root>> ELSE Descend(g[i - 1], path[i])
  OBVIOUS
<1> HIDE DEF Step
<1>3. LooksBack(S, Lookup, Before(0, n), Step)
  <2> SUFFICES ASSUME NEW i \in S, NEW g \in [S -> Lookup], NEW h \in [S -> Lookup],
                      Alike(Before(0, n)[i], g, h)
               PROVE  Step[<<i, g>>] = Step[<<i, h>>]
    BY DEF LooksBack
  <2>1. i # 0 => g[i - 1] = h[i - 1]
    BY DEF Alike, Before
  <2> QED BY <1>2, <2>1
<1>4. Recursion(S, Lookup, Before(0, n), Step)
  <2>1. Lookup # {}
    BY DEF Lookup
  <2> QED BY <1>1, <1>3, <2>1, CountingWellFounded DEF Recursion
<1>5. PICK f \in [S -> Lookup] : \A i \in S : f[i] = Step[<<i, f>>]
  <2> HIDE DEF S
  <2> QED BY <1>4, RecursiveFunction
<1>6. Walk(f, root, path)
  BY <1>2, <1>5 DEF Walk
<1> DEFINE g == CHOOSE w : Walk(w, root, path)
<1>7. Walk(g, root, path)
  BY <1>6
<1>8. ReadJsonPath(root, path) = g[n]
  BY DEF ReadJsonPath, Walk
<1> HIDE DEF g
<1>9. ASSUME NEW i \in S, Alike(Before(0, n)[i], f, g) PROVE f[i] = g[i]
  <2>1. i # 0 => f[i - 1] = g[i - 1]
    BY <1>9 DEF Alike, Before
  <2> QED BY <1>6, <1>7, <2>1 DEF Walk
<1>10. Alike(S, f, g)
  BY <1>9, CountingWellFounded, OneSolution
<1>11. f[n] = g[n]
  BY <1>10 DEF Alike
<1> QED BY <1>5, <1>6, <1>8, <1>11

\* What was found is what the root has at the prefix.
Leads(found, root, prefix, U) ==
  \/ /\ found = <<>>
     /\ \A q \in Seq(U) : \A leaf : <<prefix \o q, leaf>> \notin Content[root]
  \/ \E v \in JsonValues :
       /\ found = <<v>>
       /\ \A q \in Seq(U) : \A leaf : <<prefix \o q, leaf>> \in Content[root] <=> <<q, leaf>> \in Content[v]

LEMMA LeadsOn ==
  ASSUME NEW U, Segments \subseteq U, NEW root \in JsonValues, NEW prefix \in Seq(U),
         NEW s \in U, IsSegment(s), NEW found, Leads(found, root, prefix, U)
  PROVE  Leads(Descend(found, s), root, prefix \o <<s>>, U)
<1>1. ASSUME NEW q \in Seq(U)
      PROVE  /\ (prefix \o <<s>>) \o q = prefix \o (<<s>> \o q)
             /\ <<s>> \o q \in Seq(U)
  BY ConcatAssociative, ConcatProperties
<1>2. CASE /\ found = <<>>
           /\ \A q \in Seq(U) : \A leaf : <<prefix \o q, leaf>> \notin Content[root]
  <2>1. Descend(found, s) = <<>>
    BY <1>2 DEF Descend
  <2>2. \A q \in Seq(U) : \A leaf : <<(prefix \o <<s>>) \o q, leaf>> \notin Content[root]
    BY <1>1, <1>2
  <2> QED BY <2>1, <2>2 DEF Leads
<1>3. ASSUME NEW v \in JsonValues, found = <<v>>,
             \A q \in Seq(U) : \A leaf :
               <<prefix \o q, leaf>> \in Content[root] <=> <<q, leaf>> \in Content[v]
      PROVE  Leads(Descend(found, s), root, prefix \o <<s>>, U)
  <2>1. ASSUME NEW q \in Seq(U), NEW leaf
        PROVE  <<(prefix \o <<s>>) \o q, leaf>> \in Content[root]
                 <=> \E i \in Parts(v) : Segment(v, i) = s /\ <<q, leaf>> \in Content[v.items[i]]
    <3>1. <<(prefix \o <<s>>) \o q, leaf>> \in Content[root] <=> <<<<s>> \o q, leaf>> \in Content[v]
      BY <1>1, <1>3
    <3>2. ASSUME <<<<s>> \o q, leaf>> \in Content[v]
          PROVE  \E i \in Parts(v) : Segment(v, i) = s /\ <<q, leaf>> \in Content[v.items[i]]
      <4>1. \A w \in JsonValues, t \in U, r \in Seq(U) : \A l :
              <<<<t>> \o r, l>> \in Content[w]
                <=> \E i \in Parts(w) : Segment(w, i) = t /\ <<r, l>> \in Content[w.items[i]]
        BY AtPart
      <4> QED BY <3>2, <4>1
    <3>3. ASSUME NEW i \in Parts(v), Segment(v, i) = s, <<q, leaf>> \in Content[v.items[i]]
          PROVE  <<<<s>> \o q, leaf>> \in Content[v]
      BY <3>3, AtPart
    <3> QED BY <3>1, <3>2, <3>3
  <2>2. ASSUME NEW i \in Parts(v), Segment(v, i) = s, Descend(<<v>>, s) = <<v.items[i]>>
        PROVE  Leads(Descend(found, s), root, prefix \o <<s>>, U)
    <3>1. \A j \in Parts(v) : Segment(v, j) = s => j = i
      BY <2>2, SegmentsDistinct
    <3>2. \A q \in Seq(U) : \A leaf :
            <<(prefix \o <<s>>) \o q, leaf>> \in Content[root] <=> <<q, leaf>> \in Content[v.items[i]]
      BY <2>1, <2>2, <3>1
    <3> QED BY <1>3, <2>2, <3>2, JsonShape DEF Leads
  <2>3. ASSUME \A i \in Parts(v) : Segment(v, i) # s, Descend(<<v>>, s) = <<>>
        PROVE  Leads(Descend(found, s), root, prefix \o <<s>>, U)
    <3>1. \A q \in Seq(U) : \A leaf : <<(prefix \o <<s>>) \o q, leaf>> \notin Content[root]
      BY <2>1, <2>3
    <3> QED BY <1>3, <2>3, <3>1 DEF Leads
  <2> QED BY <2>2, <2>3, DescendPart
<1> QED BY <1>2, <1>3 DEF Leads

LEMMA ReadLeads ==
  ASSUME NEW root \in JsonValues, NEW U, Segments \subseteq U,
         NEW path \in Seq(U), path # NULL, \A i \in 1 .. Len(path) : IsSegment(path[i])
  PROVE  Leads(ReadJsonPath(root, path), root, path, U)
<1>1. Len(path) \in Nat
  BY LenProperties
<1>2. PICK f \in [0 .. Len(path) -> Lookup] :
        Walk(f, root, path) /\ ReadJsonPath(root, path) = f[Len(path)]
  BY <1>1, WalkDefined
<1> DEFINE Good(i) == Leads(f[i], root, SubSeq(path, 1, i), U)
<1>3. Good(0)
  <2>1. f[0] = <<root>>
    BY <1>1, <1>2 DEF Walk
  <2>2. SubSeq(path, 1, 0) = <<>>
    BY SubSeqEmpty
  <2>3. \A q \in Seq(U) : <<>> \o q = q
    BY ConcatEmptySeq
  <2> QED BY <2>1, <2>2, <2>3 DEF Leads
<1>4. ASSUME NEW i \in 1 .. Len(path), Good(i - 1) PROVE Good(i)
  <2>1. f[i] = Descend(f[i - 1], path[i])
    BY <1>1, <1>2 DEF Walk
  <2>2. SubSeq(path, 1, i - 1) \in Seq(U)
    BY <1>1, SubSeqProperties, LenProperties
  <2>3. SubSeq(path, 1, i) = SubSeq(path, 1, i - 1) \o <<path[i]>>
    BY <1>1, SubSeqRecursiveSecond
  <2>4. path[i] \in U /\ IsSegment(path[i])
    BY ElementOfSeq
  <2> QED BY <1>4, <2>1, <2>2, <2>3, <2>4, LeadsOn
<1> HIDE DEF Good
<1>5. \A i \in 0 .. Len(path) : Good(i)
  <2> DEFINE D == {i \in 0 .. Len(path) : ~Good(i)}
  <2> SUFFICES ASSUME D # {} PROVE FALSE
    OBVIOUS
  <2>1. D \in SUBSET Nat
    BY <1>1
  <2>2. PICK i \in D : \A j \in D : i <= j
    BY <2>1, LeastOfNat
  <2>3. i \in 1 .. Len(path) /\ i - 1 \notin D /\ i - 1 \in 0 .. Len(path)
    BY <1>1, <1>3, <2>2
  <2> QED BY <1>4, <2>2, <2>3
<1>6. SubSeq(path, 1, Len(path)) = path
  BY SubSeqFull
<1>7. Good(Len(path))
  BY <1>1, <1>5
<1> QED BY <1>2, <1>6, <1>7 DEF Good

\* Below is what the root has from the path on.
LEMMA BelowPath ==
  ASSUME NEW root \in JsonValues, NEW U, Segments \subseteq U, NEW path \in Seq(U)
  PROVE  /\ \A q \in Seq(U) : \A leaf :
              <<q, leaf>> \in Below(Content[root], path) <=> <<path \o q, leaf>> \in Content[root]
         /\ \A e \in Below(Content[root], path) : e[1] \in Seq(U) /\ e = <<e[1], e[2]>>
<1> DEFINE n == Len(path)
           After(p) == SubSeq(p, n + 1, Len(p))
<1>1. n \in Nat
  BY LenProperties
<1>2. ASSUME NEW p \in Content[root]
      PROVE  p = <<p[1], p[2]>> /\ p[1] \in Seq(U)
  <2>1. p \in Entries
    BY ContentDefined
  <2>2. p[1] \in Seq(Segments) /\ p = <<p[1], p[2]>>
    BY <2>1 DEF Entries
  <2> QED BY <2>2, SeqMonotonic
<1>3. ASSUME NEW t \in Seq(U), IsPrefix(path, t)
      PROVE  t = path \o After(t) /\ After(t) \in Seq(U)
  <2>1. n <= Len(t) /\ SubSeq(path, 1, n) = SubSeq(t, 1, n) /\ Len(t) \in Nat
    BY <1>3, LenProperties DEF IsPrefix
  <2>2. path = SubSeq(t, 1, n)
    BY <2>1, SubSeqFull
  <2>3. SubSeq(t, 1, n) \o SubSeq(t, n + 1, Len(t)) = SubSeq(t, 1, Len(t))
    <3>1. 1 \in 1 .. Len(t) + 1 /\ n \in 1 - 1 .. Len(t) /\ Len(t) \in n .. Len(t)
      BY <1>1, <2>1
    <3> HIDE DEF n
    <3> QED BY <3>1, ConcatAdjacentSubSeq
  <2>4. SubSeq(t, 1, Len(t)) = t
    BY SubSeqFull
  <2>5. After(t) \in Seq(U)
    BY <1>1, <2>1, SubSeqProperties, LenProperties
  <2> QED BY <2>2, <2>3, <2>4, <2>5
<1>4. ASSUME NEW q \in Seq(U)
      PROVE  IsPrefix(path, path \o q) /\ After(path \o q) = q /\ path \o q \in Seq(U)
  <2>1. path \o q \in Seq(U) /\ Len(path \o q) = n + Len(q) /\ Len(q) \in Nat
    BY ConcatProperties, LenProperties
  <2>2. \A i \in 1 .. n : (path \o q)[i] = path[i]
    BY <1>1, <2>1, ConcatProperties
  <2>3. SubSeq(path, 1, n) = SubSeq(path \o q, 1, n)
    <3>1. /\ SubSeq(path, 1, n) \in Seq(U) /\ Len(SubSeq(path, 1, n)) = n
          /\ \A i \in 1 .. n : SubSeq(path, 1, n)[i] = path[i]
      BY SubSeqFull
    <3>2. \A i \in 1 .. n : (path \o q)[i] \in U
      BY <2>2, LenProperties
    <3>3. /\ SubSeq(path \o q, 1, n) \in Seq(U) /\ Len(SubSeq(path \o q, 1, n)) = n
          /\ \A i \in 1 .. n : SubSeq(path \o q, 1, n)[i] = (path \o q)[i]
      BY <1>1, <3>2, SubSeqProperties
    <3> HIDE DEF n
    <3> QED BY <2>2, <3>1, <3>3, SeqEqual
  <2>4. IsPrefix(path, path \o q)
    BY <1>1, <2>1, <2>3 DEF IsPrefix
  <2>5. path \o After(path \o q) = path \o q /\ After(path \o q) \in Seq(U)
    BY <1>3, <2>1, <2>4
  <2>6. \A S : \A a, b, c \in Seq(S) : a \o b = a \o c => b = c
    BY ConcatSimplifications
  <2> HIDE DEF After
  <2> QED BY <2>1, <2>4, <2>5, <2>6
<1>5. \A e : e \in Below(Content[root], path)
               <=> \E p \in Content[root] : IsPrefix(path, p[1]) /\ e = <<After(p[1]), p[2]>>
  BY DEF Below
<1> HIDE DEF n, After
<1>6. ASSUME NEW q \in Seq(U), NEW leaf, <<q, leaf>> \in Below(Content[root], path)
      PROVE  <<path \o q, leaf>> \in Content[root]
  <2>1. PICK p \in Content[root] : IsPrefix(path, p[1]) /\ <<q, leaf>> = <<After(p[1]), p[2]>>
    BY <1>5, <1>6
  <2>2. q = After(p[1]) /\ leaf = p[2]
    BY <2>1
  <2> QED BY <1>2, <1>3, <2>1, <2>2
<1>7. ASSUME NEW q \in Seq(U), NEW leaf, <<path \o q, leaf>> \in Content[root]
      PROVE  <<q, leaf>> \in Below(Content[root], path)
  BY <1>4, <1>5, <1>7
<1>8. ASSUME NEW e \in Below(Content[root], path)
      PROVE  e[1] \in Seq(U) /\ e = <<e[1], e[2]>>
  <2>1. PICK p \in Content[root] : IsPrefix(path, p[1]) /\ e = <<After(p[1]), p[2]>>
    BY <1>5
  <2> QED BY <1>2, <1>3, <2>1
<1> QED BY <1>6, <1>7, <1>8

\* What readJsonPath finds equals a value when the content at the path is the value's.
LEMMA ReadIsBelow ==
  ASSUME NEW root \in JsonValues, NEW equals \in JsonValues, NEW U, Segments \subseteq U,
         NEW path \in Seq(U), path # NULL, \A i \in 1 .. Len(path) : IsSegment(path[i])
  PROVE  LET found == ReadJsonPath(root, path) IN
         (found # <<>> /\ StructurallyEqual[<<found[1], equals>>])
           <=> Below(Content[root], path) = Content[equals]
<1> DEFINE found == ReadJsonPath(root, path)
           below == Below(Content[root], path)
<1>1. Leads(found, root, path, U)
  BY ReadLeads
<1>2. /\ \A q \in Seq(U) : \A leaf : <<q, leaf>> \in below <=> <<path \o q, leaf>> \in Content[root]
      /\ \A e \in below : e[1] \in Seq(U) /\ e = <<e[1], e[2]>>
  BY BelowPath
<1>3. \A v \in JsonValues : \A e \in Content[v] : e[1] \in Seq(U) /\ e = <<e[1], e[2]>>
  <2> SUFFICES ASSUME NEW v \in JsonValues, NEW e \in Content[v]
               PROVE  e[1] \in Seq(U) /\ e = <<e[1], e[2]>>
    OBVIOUS
  <2>1. e \in Entries
    BY ContentDefined
  <2>2. e[1] \in Seq(Segments) /\ e = <<e[1], e[2]>>
    BY <2>1 DEF Entries
  <2> QED BY <2>2, SeqMonotonic
<1> HIDE DEF found, below
<1>4. CASE /\ found = <<>>
           /\ \A q \in Seq(U) : \A leaf : <<path \o q, leaf>> \notin Content[root]
  <2>1. below = {}
    <3> SUFFICES ASSUME NEW e \in below PROVE FALSE
      OBVIOUS
    <3>1. e[1] \in Seq(U) /\ <<e[1], e[2]>> \in below
      BY <1>2
    <3>2. <<path \o e[1], e[2]>> \in Content[root]
      BY <1>2, <3>1
    <3> QED BY <1>4, <3>1, <3>2
  <2>2. Content[equals] # {}
    BY AtRoot
  <2> QED BY <1>4, <2>1, <2>2 DEF found, below
<1>5. ASSUME NEW v \in JsonValues, found = <<v>>,
             \A q \in Seq(U) : \A leaf :
               <<path \o q, leaf>> \in Content[root] <=> <<q, leaf>> \in Content[v]
      PROVE  (found # <<>> /\ StructurallyEqual[<<found[1], equals>>]) <=> below = Content[equals]
  <2>1. \A q \in Seq(U) : \A leaf : <<q, leaf>> \in below <=> <<q, leaf>> \in Content[v]
    BY <1>2, <1>5
  <2>2. below = Content[v]
    <3>1. ASSUME NEW e \in below PROVE e \in Content[v]
      <4>1. e[1] \in Seq(U) /\ e = <<e[1], e[2]>>
        BY <1>2
      <4> QED BY <2>1, <4>1
    <3>2. ASSUME NEW e \in Content[v] PROVE e \in below
      <4>1. e[1] \in Seq(U) /\ e = <<e[1], e[2]>>
        BY <1>3
      <4> QED BY <2>1, <4>1
    <3> QED BY <3>1, <3>2
  <2>3. found # <<>> /\ found[1] = v
    BY <1>5
  <2> QED BY <2>2, <2>3, EqualIsSameContent
<1> QED BY <1>1, <1>4, <1>5 DEF Leads, found, below

--------------------------------------------------------------------------------
(* The assertions.                                                          *)

LEMMA PathOfAssertion ==
  ASSUME NEW a \in UNION Assertions, a.type = "json_path", a.path # NULL
  PROVE  /\ a.equals \in JsonValues /\ a.path \in Seq(Segments \cup ToSet(a.path))
         /\ \A i \in 1 .. Len(a.path) : IsSegment(a.path[i])
<1>1. a.equals \in JsonValues /\ a.path \in Seq(ToSet(a.path)) /\ \A s \in ToSet(a.path) : IsSegment(s)
  BY ShapeAssumption
<1>2. a.path \in Seq(Segments \cup ToSet(a.path))
  BY <1>1, SeqMonotonic
<1>3. \A i \in 1 .. Len(a.path) : a.path[i] \in ToSet(a.path)
  BY <1>1, ElementOfSeq
<1> QED BY <1>1, <1>2, <1>3

\* The evaluator of a whole text says what the assertion says.
LEMMA WholeJudged ==
  ASSUME NEW a \in UNION Assertions, NEW text
  PROVE  EvaluateAssertion(a, [text |-> text, truncated |-> FALSE]) <=> Holds(a, text)
<1> DEFINE body0 == [text |-> text, truncated |-> FALSE]
<1>1. a.type \in {"body_contains", "body_not_contains", "json_path"}
  BY ShapeAssumption
<1>2. CASE a.type \in {"body_contains", "body_not_contains"}
  BY <1>2 DEF EvaluateAssertion, Holds, Range
<1>3. CASE a.type = "json_path"
  <2>1. EvaluateAssertion(a, body0) <=>
          /\ text \in DOMAIN Json
          /\ ReadJsonPath(Json[text], a.path) # <<>>
          /\ StructurallyEqual[<<ReadJsonPath(Json[text], a.path)[1], a.equals>>]
    BY <1>3 DEF EvaluateAssertion
  <2>2. Holds(a, text) <=> /\ text \in DOMAIN Json /\ a.path # NULL
                           /\ Below(Content[Json[text]], a.path) = Content[a.equals]
    BY <1>3 DEF Holds
  <2>3. CASE a.path = NULL
    <3>1. ReadJsonPath(Json[text], a.path) = <<>>
      BY <2>3 DEF ReadJsonPath
    <3> QED BY <2>1, <2>2, <2>3, <3>1
  <2>4. CASE a.path # NULL /\ text \in DOMAIN Json
    <3>1. Json[text] \in JsonValues
      BY <2>4, JsonAssumption
    <3> DEFINE U == Segments \cup ToSet(a.path)
    <3>2. Segments \subseteq U
      OBVIOUS
    <3>3. a.equals \in JsonValues /\ a.path \in Seq(U) /\ \A i \in 1 .. Len(a.path) : IsSegment(a.path[i])
      BY <1>3, <2>4, PathOfAssertion
    <3> HIDE DEF U
    <3>4. (/\ ReadJsonPath(Json[text], a.path) # <<>>
           /\ StructurallyEqual[<<ReadJsonPath(Json[text], a.path)[1], a.equals>>])
            <=> Below(Content[Json[text]], a.path) = Content[a.equals]
      BY <2>4, <3>1, <3>2, <3>3, ReadIsBelow
    <3> QED BY <2>1, <2>2, <2>4, <3>4
  <2> QED BY <2>1, <2>2, <2>3, <2>4
<1> QED BY <1>1, <1>2, <1>3

\* Of a part of a text it says no more than holds of the whole.
LEMMA PartJudged ==
  ASSUME NEW a \in UNION Assertions, NEW text \in Seq(Letters), NEW n \in Nat, n <= Len(text),
         EvaluateAssertion(a, [text |-> SubSeq(text, 1, n), truncated |-> TRUE])
  PROVE  Holds(a, text)
<1>1. a.type = "body_contains"
  <2>1. a.type \in {"body_contains", "body_not_contains", "json_path"}
    BY ShapeAssumption
  <2> QED BY <2>1 DEF EvaluateAssertion
<1>2. a.value \in Range(SubSeq(text, 1, n))
  BY <1>1 DEF EvaluateAssertion
<1>3. /\ SubSeq(text, 1, n) \in Seq(Letters) /\ Len(SubSeq(text, 1, n)) = n
      /\ \A i \in 1 .. n : SubSeq(text, 1, n)[i] = text[i]
  OBVIOUS
<1>4. DOMAIN SubSeq(text, 1, n) = 1 .. n /\ DOMAIN text = 1 .. Len(text)
  BY <1>3
<1>5. PICK i \in DOMAIN SubSeq(text, 1, n) : SubSeq(text, 1, n)[i] = a.value
  BY <1>2 DEF Range
<1>6. i \in DOMAIN text /\ text[i] = a.value
  BY <1>3, <1>4, <1>5
<1> QED BY <1>1, <1>6 DEF Holds

--------------------------------------------------------------------------------
(* A body in chunks.                                                        *)

\* What FlattenSeq has joined after each chunk.
Joined(f, s, n) ==
  f = [i \in 1 .. n |-> IF i = 1 THEN s[i] ELSE f[i - 1] \o s[i]]

\* How long that is.
Lengths(f, s, n) ==
  /\ \A i \in 1 .. n : Len(f[i]) \in Nat
  /\ f[1] = s[1]
  /\ \A i \in 2 .. n : Len(f[i]) = Len(f[i - 1]) + Len(s[i])

LEMMA FlattenChosen ==
  ASSUME NEW s, Len(s) # 0
  PROVE  FlattenSeq(s) = (CHOOSE w : Joined(w, s, Len(s)))[Len(s)]
BY DEF FlattenSeq, Joined

LEMMA FlattenDefined ==
  ASSUME NEW L, NEW s \in Seq(Seq(L)), NEW n \in Nat \ {0}, n = Len(s)
  PROVE  \E f \in [1 .. n -> Seq(L)] : Joined(f, s, n) /\ FlattenSeq(s) = f[n]
<1> DEFINE S == 1 .. n
           Step == [p \in S \X [S -> Seq(L)] |->
                      IF p[1] = 1 THEN s[p[1]] ELSE p[2][p[1] - 1] \o s[p[1]]]
<1>0. \A i \in S : s[i] \in Seq(L)
  BY ElementOfSeq
<1>1. Step \in [S \X [S -> Seq(L)] -> Seq(L)]
  <2>1. ASSUME NEW i \in S, NEW g \in [S -> Seq(L)], i # 1
        PROVE  g[i - 1] \o s[i] \in Seq(L)
    <3>1. i - 1 \in S
      BY <2>1
    <3>2. g[i - 1] \in Seq(L) /\ s[i] \in Seq(L)
      BY <1>0, <3>1
    <3> QED BY <3>2, ConcatProperties
  <2> QED BY <1>0, <2>1
<1>2. ASSUME NEW i \in S, NEW g \in [S -> Seq(L)]
      PROVE  Step[<<i, g>>] = IF i = 1 THEN s[i] ELSE g[i - 1] \o s[i]
  OBVIOUS
<1> HIDE DEF Step
<1>3. LooksBack(S, Seq(L), Before(1, n), Step)
  <2> SUFFICES ASSUME NEW i \in S, NEW g \in [S -> Seq(L)], NEW h \in [S -> Seq(L)],
                      Alike(Before(1, n)[i], g, h)
               PROVE  Step[<<i, g>>] = Step[<<i, h>>]
    BY DEF LooksBack
  <2>1. CASE i = 1
    BY <1>2, <2>1
  <2>2. CASE i # 1
    <3>1. g[i - 1] = h[i - 1]
      BY <2>2 DEF Alike, Before
    <3>2. Step[<<i, g>>] = g[i - 1] \o s[i] /\ Step[<<i, h>>] = h[i - 1] \o s[i]
      BY <1>2, <2>2
    <3> QED BY <3>1, <3>2
  <2> QED BY <2>1, <2>2
<1>4. Recursion(S, Seq(L), Before(1, n), Step)
  <2>1. Seq(L) # {}
    BY EmptySeq
  <2> QED BY <1>1, <1>3, <2>1, CountingWellFounded DEF Recursion
<1>5. PICK f \in [S -> Seq(L)] : \A i \in S : f[i] = Step[<<i, f>>]
  <2> HIDE DEF S
  <2> QED BY <1>4, RecursiveFunction
<1>6. Joined(f, s, n)
  <2>1. \A i \in S : f[i] = IF i = 1 THEN s[i] ELSE f[i - 1] \o s[i]
    BY <1>2, <1>5
  <2>2. f = [i \in S |-> f[i]]
    OBVIOUS
  <2> QED BY <2>1, <2>2, Zenon DEF Joined
<1> DEFINE g == CHOOSE w : Joined(w, s, n)
<1>7. Joined(g, s, n)
  BY <1>6
<1>8. FlattenSeq(s) = g[n]
  <2>1. Len(s) # 0
    OBVIOUS
  <2> QED BY <2>1, FlattenChosen
<1> HIDE DEF g
<1>9. ASSUME NEW i \in S, Alike(Before(1, n)[i], f, g) PROVE f[i] = g[i]
  <2>1. i # 1 => f[i - 1] = g[i - 1]
    BY <1>9 DEF Alike, Before
  <2>2. f[i] = IF i = 1 THEN s[i] ELSE f[i - 1] \o s[i]
    BY <1>6, Zenon DEF Joined
  <2>3. g[i] = IF i = 1 THEN s[i] ELSE g[i - 1] \o s[i]
    BY <1>7, Zenon DEF Joined
  <2> QED BY <2>1, <2>2, <2>3, Zenon
<1>10. Alike(S, f, g)
  BY <1>9, CountingWellFounded, OneSolution
<1>11. f[n] = g[n]
  BY <1>10 DEF Alike
<1> QED BY <1>5, <1>6, <1>8, <1>11

LEMMA JoinedLengths ==
  ASSUME NEW L, NEW s \in Seq(Seq(L)), NEW n \in Nat \ {0}, n = Len(s),
         NEW f \in [1 .. n -> Seq(L)], Joined(f, s, n)
  PROVE  Lengths(f, s, n)
<1>1. f[1] = s[1] /\ \A i \in 2 .. n : f[i] = f[i - 1] \o s[i]
  <2>1. 1 \in 1 .. n /\ \A i \in 2 .. n : i \in 1 .. n /\ i # 1
    OBVIOUS
  <2>2. \A i \in 1 .. n : f[i] = IF i = 1 THEN s[i] ELSE f[i - 1] \o s[i]
    BY DEF Joined
  <2> QED BY <2>1, <2>2
<1>2. ASSUME NEW i \in 2 .. n PROVE Len(f[i]) = Len(f[i - 1]) + Len(s[i])
  <2>0. i - 1 \in 1 .. n /\ i \in 1 .. n
    OBVIOUS
  <2>1. f[i - 1] \in Seq(L)
    BY <2>0
  <2>2. s[i] \in Seq(L)
    BY <2>0, ElementOfSeq
  <2>3. Len(f[i - 1] \o s[i]) = Len(f[i - 1]) + Len(s[i])
    BY <2>1, <2>2, ConcatProperties
  <2> QED BY <1>1, <2>3
<1>3. \A i \in 1 .. n : Len(f[i]) \in Nat
  BY LenProperties
<1> QED BY <1>1, <1>2, <1>3 DEF Lengths

\* What is left to read.
Rest(s) == IF s = <<>> THEN 0 ELSE Len(FlattenSeq(s))

LEMMA FlattenLengths ==
  ASSUME NEW L, NEW s \in Seq(Seq(L)), NEW n \in Nat \ {0}, n = Len(s)
  PROVE  \E f : Lengths(f, s, n) /\ FlattenSeq(s) = f[n] /\ f[n] \in Seq(L)
<1>1. PICK f \in [1 .. n -> Seq(L)] : Joined(f, s, n) /\ FlattenSeq(s) = f[n]
  BY FlattenDefined
<1>2. Lengths(f, s, n)
  BY <1>1, JoinedLengths
<1>3. f[n] \in Seq(L)
  OBVIOUS
<1> QED BY <1>1, <1>2, <1>3

\* The first chunk and the rest of them make up the text.
LEMMA FlattenHead ==
  ASSUME NEW L, NEW s \in Seq(Seq(L)), s # <<>>
  PROVE  /\ FlattenSeq(s) \in Seq(L) /\ Head(s) \in Seq(L) /\ Tail(s) \in Seq(Seq(L))
         /\ Len(FlattenSeq(s)) = Len(Head(s)) + Rest(Tail(s))
<1>0. PICK n \in Nat \ {0} : n = Len(s)
  BY EmptySeq
<1> DEFINE t == Tail(s)
<1>1. n \in Nat \ {0} /\ n = Len(s) /\ t \in Seq(Seq(L)) /\ Len(t) = n - 1 /\ Head(s) = s[1]
      /\ \A i \in 1 .. n - 1 : t[i] = s[i + 1]
  BY <1>0
<1>2. \A i \in 1 .. n : s[i] \in Seq(L) /\ Len(s[i]) \in Nat
  BY <1>0, ElementOfSeq, LenProperties
<1> HIDE DEF t
<1>3. PICK f : Lengths(f, s, n) /\ FlattenSeq(s) = f[n] /\ f[n] \in Seq(L)
  BY <1>0, FlattenLengths
<1>4. FlattenSeq(s) \in Seq(L) /\ Head(s) \in Seq(L)
  BY <1>1, <1>2, <1>3
<1>5. f[1] = s[1] /\ \A i \in 2 .. n : Len(f[i]) = Len(f[i - 1]) + Len(s[i])
  BY <1>3 DEF Lengths
<1>6. CASE n = 1
  <2>1. t = <<>>
    BY <1>1, <1>6
  <2> QED BY <1>1, <1>2, <1>3, <1>4, <1>5, <1>6, <2>1 DEF Rest, t
<1>7. CASE n # 1
  <2>0. PICK m \in Nat \ {0} : m = n - 1
    BY <1>7
  <2>1. m = Len(t) /\ t # <<>> /\ n = m + 1
    BY <1>1, <2>0
  <2>2. PICK g : Lengths(g, t, m) /\ FlattenSeq(t) = g[m]
    BY <1>1, <2>1, FlattenLengths
  <2>3. g[1] = s[2] /\ \A i \in 2 .. m : Len(g[i]) = Len(g[i - 1]) + Len(s[i + 1])
    <3>1. g[1] = t[1] /\ \A i \in 2 .. m : Len(g[i]) = Len(g[i - 1]) + Len(t[i])
      BY <2>2 DEF Lengths
    <3>2. t[1] = s[2] /\ \A i \in 2 .. m : t[i] = s[i + 1]
      BY <1>1, <2>0
    <3> QED BY <3>1, <3>2
  <2>4. \A i \in 1 .. m : Len(g[i]) \in Nat
    BY <2>2 DEF Lengths
  <2> DEFINE Shifted(i) == Len(f[i + 1]) = Len(s[1]) + Len(g[i])
  <2>5. Shifted(1)
    <3>1. Len(f[2]) = Len(f[1]) + Len(s[2])
      <4>1. 2 \in 2 .. n /\ 2 - 1 = 1
        BY <2>1
      <4> QED BY <1>5, <4>1
    <3>2. 1 + 1 = 2
      OBVIOUS
    <3> QED BY <1>5, <2>3, <3>1, <3>2
  <2>6. ASSUME NEW i \in 2 .. m, Shifted(i - 1) PROVE Shifted(i)
    <3>1. i + 1 \in 2 .. n /\ (i + 1) - 1 = i /\ (i - 1) + 1 = i /\ i - 1 \in 1 .. m
          /\ i + 1 \in 1 .. n /\ i \in 2 .. m /\ 1 \in 1 .. n
      BY <2>1
    <3>2. Len(f[i + 1]) = Len(f[i]) + Len(s[i + 1])
      BY <1>5, <3>1
    <3>3. Len(f[i]) = Len(s[1]) + Len(g[i - 1])
      BY <2>6, <3>1
    <3>4. Len(g[i]) = Len(g[i - 1]) + Len(s[i + 1])
      BY <2>3
    <3>5. Len(s[1]) \in Nat /\ Len(g[i - 1]) \in Nat /\ Len(s[i + 1]) \in Nat
      BY <1>2, <2>4, <3>1
    <3> DEFINE a == Len(s[1])
               b == Len(g[i - 1])
               c == Len(s[i + 1])
    <3>6. a \in Nat /\ b \in Nat /\ c \in Nat
      BY <3>5, Zenon
    <3>7. Len(f[i + 1]) = (a + b) + c /\ Len(g[i]) = b + c
      BY <3>2, <3>3, <3>4, Zenon
    <3> HIDE DEF a, b, c
    <3>8. (a + b) + c = a + (b + c)
      BY <3>6
    <3>9. Len(f[i + 1]) = a + Len(g[i])
      BY <3>7, <3>8, Zenon
    <3> QED BY <3>9 DEF a
  <2> HIDE DEF Shifted
  <2>7. Shifted(m)
    <3> DEFINE D == {i \in 1 .. m : ~Shifted(i)}
    <3>1. D = {}
      <4> SUFFICES ASSUME D # {} PROVE FALSE
        OBVIOUS
      <4>1. D \in SUBSET Nat
        BY <1>1
      <4>2. PICK i \in D : \A j \in D : i <= j
        BY <4>1, LeastOfNat
      <4>3. i \in 2 .. m /\ i - 1 \notin D /\ i - 1 \in 1 .. m
        BY <1>1, <2>5, <4>2
      <4> QED BY <2>6, <4>2, <4>3
    <3>2. m \in 1 .. m
      OBVIOUS
    <3> QED BY <3>1, <3>2
  <2>8. m + 1 = n
    BY <2>1
  <2>9. Len(f[n]) = Len(s[1]) + Len(g[m])
    BY <2>7, <2>8 DEF Shifted
  <2> QED BY <1>1, <1>3, <1>4, <2>1, <2>2, <2>9 DEF Rest, t
<1> QED BY <1>6, <1>7

--------------------------------------------------------------------------------
(* The verdict.                                                             *)

\* What is read and what is left make up the text that was sent.
BodyRead ==
  /\ body = [status |-> body.status, whole |-> body.whole, unread |-> body.unread, read |-> body.read]
  /\ body.whole \in Seq(Letters) /\ body.unread \in Seq(Seq(Letters)) /\ body.read \in 0 .. CAP
  /\ body.read + Rest(body.unread) = Len(body.whole)

\* A verdict rests on what its response says.
OnEvidence(after) ==
  after.kind = "verdict" =>
    /\ after.success => seen.satisfied
    /\ Len(body.whole) <= CAP /\ seen.satisfied => after.success /\ ~after.truncated

\* The body is there from the headers on, and a verdict is on evidence as soon as it is given.
EvidenceInv ==
  /\ pc \in {"hop", "resolving", "connecting", "waiting", "discarding"} => body.status = NULL
  /\ pc = "reading" => BodyRead
  /\ pc = "closing" => OnEvidence(ahead)
  /\ pc = "done" /\ body.status # NULL => OnEvidence(outcome)

LEMMA EvidenceGives == EvidenceInv => VerdictOfBody
BY DEF EvidenceInv, OnEvidence, VerdictOfBody, UpOnEvidence, FittingBodyJudgedWhole, Judged

LEMMA EvidenceInit == Init => EvidenceInv
BY DEF Init, EvidenceInv, NoBody

\* A step that leaves the await, the body and the verdict alone.
LEMMA EvidenceKept ==
  ASSUME EvidenceInv, pc' = pc, UNCHANGED <<body, ahead, outcome>>,
         seen'.satisfied = seen.satisfied
  PROVE  EvidenceInv'
BY DEF EvidenceInv, OnEvidence, BodyRead

\* One before the response is read, or that ends a probe that read none.
LEMMA EvidenceBefore ==
  ASSUME body.status = NULL, body' = body, pc' \notin {"reading", "closing"}
  PROVE  EvidenceInv'
BY DEF EvidenceInv

\* One that ends in something else than a verdict.
LEMMA EvidenceAbsent ==
  ASSUME pc' = "closing", ahead'.kind # "verdict"
  PROVE  EvidenceInv'
BY DEF EvidenceInv, OnEvidence

LEMMA NoticedSatisfied ==
  ASSUME TypeOK, Noticed
  PROVE  seen'.satisfied = seen.satisfied
BY DEF TypeOK, Noticed

\* A verdict on what was read, all of it or as much as fits.
LEMMA JudgeEvidence ==
  ASSUME TypeOK, BodyRead, NEW total \in Nat, total <= Len(body.whole), Judge(Kept(total)),
         total <= CAP => total = Len(body.whole),
         body'.whole = body.whole
  PROVE  EvidenceInv'
<1> DEFINE kept == Kept(total)
           full == Len(body.whole)
<1>1. body.whole \in Seq(Letters) /\ full \in Nat /\ CAP \in Nat
  BY BudgetAssumption DEF BodyRead
<1>2. PICK expected \in Expected, assertions \in Assertions :
        LET class == IF ~StatusMatches(body.status, expected) THEN "STATUS_MISMATCH"
                     ELSE IF ~EvaluateAssertions(assertions, kept) THEN "ASSERTION_FAILED"
                     ELSE NULL
        IN /\ pc' = "closing"
           /\ ahead' = Verdict(class = NULL, class, NULL, kept.truncated)
           /\ seen' = [seen EXCEPT !.last = now,
                                   !.satisfied = /\ StatusMatches(body.status, expected)
                                                 /\ \A a \in assertions : Holds(a, body.whole)]
  BY DEF Judge, TearDown
<1>3. "STATUS_MISMATCH" # NULL /\ "ASSERTION_FAILED" # NULL
  BY NullAssumption DEF FailureClasses
<1> DEFINE matches == StatusMatches(body.status, expected)
           accepted == EvaluateAssertions(assertions, kept)
           holds == \A a \in assertions : Holds(a, body.whole)
<1>4. /\ pc' = "closing" /\ ahead'.kind = "verdict"
      /\ ahead'.success <=> (matches /\ accepted)
      /\ ahead'.truncated = kept.truncated
      /\ seen'.satisfied <=> (matches /\ holds)
  BY <1>2, <1>3 DEF Verdict, TypeOK
<1>5. kept.truncated <=> total > CAP
  BY DEF Kept, Truncated
<1>6. assertions \subseteq UNION Assertions
  OBVIOUS
<1>7. CASE total > CAP
  <2>1. Min({total, CAP}) = CAP
    BY <1>1, <1>7 DEF Min
  <2>2. kept = [text |-> SubSeq(body.whole, 1, CAP), truncated |-> TRUE]
    BY <1>7, <2>1 DEF Kept, Truncated
  <2>3. CAP <= full
    BY <1>1, <1>7
  <2>4. accepted => holds
    <3> SUFFICES ASSUME accepted, NEW a \in assertions PROVE Holds(a, body.whole)
      OBVIOUS
    <3>1. EvaluateAssertion(a, [text |-> SubSeq(body.whole, 1, CAP), truncated |-> TRUE])
      BY <2>2 DEF EvaluateAssertions
    <3> QED BY <1>1, <1>6, <2>3, <3>1, PartJudged
  <2>5. ~(full <= CAP)
    BY <1>1, <1>7
  <2> HIDE DEF matches, accepted, holds
  <2> QED BY <1>4, <2>4, <2>5 DEF EvidenceInv, OnEvidence
<1>8. CASE ~(total > CAP)
  <2>1. total = full /\ Min({total, CAP}) = full
    BY <1>1, <1>8 DEF Min
  <2>2. SubSeq(body.whole, 1, full) = body.whole
    BY <1>1, SubSeqFull
  <2>3. kept = [text |-> body.whole, truncated |-> FALSE]
    <3>1. kept = [text |-> SubSeq(body.whole, 1, full), truncated |-> Truncated(total)]
      BY <2>1 DEF Kept
    <3>2. Truncated(total) = FALSE
      BY <1>8 DEF Truncated
    <3> HIDE DEF kept
    <3> QED BY <2>2, <3>1, <3>2
  <2>4. accepted <=> holds
    BY <1>6, <2>3, WholeJudged DEF EvaluateAssertions
  <2>5. ~kept.truncated
    BY <1>5, <1>8
  <2> HIDE DEF matches, accepted, holds, kept
  <2> QED BY <1>4, <2>4, <2>5 DEF EvidenceInv, OnEvidence
<1> QED BY <1>7, <1>8

LEMMA HopEvidence == EvidenceInv /\ (HopAborted \/ HopWithoutDns \/ HopResolves) => EvidenceInv'
<1> SUFFICES ASSUME EvidenceInv, HopAborted \/ HopWithoutDns \/ HopResolves PROVE EvidenceInv'
  OBVIOUS
<1>1. body.status = NULL
  BY DEF EvidenceInv, HopAborted, HopWithoutDns, HopResolves
<1>2. body' = body /\ pc' \in {"done", "connecting", "resolving"}
  BY DEF HopAborted, HopWithoutDns, HopResolves, Report, Reject, Connect
<1> QED BY <1>1, <1>2, EvidenceBefore

LEMMA ResolveEvidence == EvidenceInv /\ (FamilyAnswered \/ Resolved) => EvidenceInv'
<1> SUFFICES ASSUME EvidenceInv, FamilyAnswered \/ Resolved PROVE EvidenceInv'
  OBVIOUS
<1>1. body.status = NULL
  BY DEF EvidenceInv, FamilyAnswered, Resolved
<1>2. body' = body /\ pc' \in {"done", "connecting", "resolving"}
  <2>1. CASE FamilyAnswered
    BY <2>1 DEF FamilyAnswered
  <2>2. CASE Resolved
    <3>1. \/ \E rejection, boundaries : Reject(rejection, boundaries, cert)
          \/ \E address, boundaries : Connect(address, boundaries)
      BY <2>2, Zenon DEF Resolved
    <3> QED BY <3>1 DEF Report, Reject, Connect
  <2> QED BY <2>1, <2>2
<1> QED BY <1>1, <1>2, EvidenceBefore

LEMMA ConnectEvidence ==
  TypeOK /\ EvidenceInv /\ (Connected \/ Secured \/ ConnectFails \/ ConnectorTimer) => EvidenceInv'
<1> SUFFICES ASSUME TypeOK, EvidenceInv, Connected \/ Secured \/ ConnectFails \/ ConnectorTimer
             PROVE  EvidenceInv'
  OBVIOUS
<1>1. body' = body /\ Noticed
  BY DEF Connected, Secured, ConnectFails, ConnectorTimer, SocketLost
<1>2. CASE Wanted
  <2>1. body.status = NULL
    BY <1>2 DEF EvidenceInv, Wanted
  <2>2. pc' \in {"connecting", "waiting", "done"}
    BY <1>2 DEF Connected, Secured, ConnectFails, ConnectorTimer, SocketLost, Send, FetchFails, Report, Wanted
  <2> QED BY <1>1, <2>1, <2>2, EvidenceBefore
<1>3. CASE ~Wanted
  <2>1. pc' = pc /\ UNCHANGED <<ahead, outcome>>
    BY <1>3 DEF Connected, Secured, ConnectFails, ConnectorTimer, SocketLost
  <2>2. seen'.satisfied = seen.satisfied
    BY <1>1, NoticedSatisfied
  <2> QED BY <1>1, <2>1, <2>2, EvidenceKept
<1> QED BY <1>2, <1>3

LEMMA AnsweredEvidence == EvidenceInv /\ Answered => EvidenceInv'
<1> SUFFICES ASSUME EvidenceInv, Answered PROVE EvidenceInv'
  OBVIOUS
<1>1. body.status = NULL
  BY DEF EvidenceInv, Answered
<1>2. \/ pc' = "discarding" /\ body' = body
      \/ /\ pc' = "reading"
         /\ \E status \in Statuses, chunks \in Bodies :
              body' = [status |-> status, whole |-> FlattenSeq(chunks), unread |-> chunks, read |-> 0]
  BY DEF Answered, TearDown
<1>3. CASE pc' = "discarding" /\ body' = body
  BY <1>1, <1>3, EvidenceBefore
<1>4. ASSUME pc' = "reading", NEW status \in Statuses, NEW chunks \in Bodies,
             body' = [status |-> status, whole |-> FlattenSeq(chunks), unread |-> chunks, read |-> 0]
      PROVE  EvidenceInv'
  <2>1. chunks \in Seq(Seq(Letters))
    BY ShapeAssumption
  <2>2. FlattenSeq(chunks) \in Seq(Letters) /\ Len(FlattenSeq(chunks)) = Rest(chunks)
    <3>1. CASE chunks = <<>>
      <4>1. FlattenSeq(chunks) = <<>>
        BY <3>1 DEF FlattenSeq
      <4> QED BY <3>1, <4>1, EmptySeq DEF Rest
    <3>2. CASE chunks # <<>>
      BY <2>1, <3>2, FlattenHead DEF Rest
    <3> QED BY <3>1, <3>2
  <2>3. Len(FlattenSeq(chunks)) \in Nat /\ CAP \in Nat
    BY <2>2, BudgetAssumption
  <2>4. BodyRead'
    BY <1>4, <2>1, <2>2, <2>3 DEF BodyRead
  <2> QED BY <1>4, <2>4 DEF EvidenceInv
<1> QED BY <1>2, <1>3, <1>4

LEMMA ChunkEvidence == TypeOK /\ EvidenceInv /\ ChunkRead => EvidenceInv'
<1> SUFFICES ASSUME TypeOK, EvidenceInv, ChunkRead PROVE EvidenceInv'
  OBVIOUS
<1> DEFINE total == body.read + Len(Head(body.unread))
<1>1. BodyRead /\ pc = "reading" /\ body.unread # <<>>
  BY DEF EvidenceInv, ChunkRead
<1>2. /\ FlattenSeq(body.unread) \in Seq(Letters) /\ Head(body.unread) \in Seq(Letters)
      /\ Tail(body.unread) \in Seq(Seq(Letters))
      /\ Len(FlattenSeq(body.unread)) = Len(Head(body.unread)) + Rest(Tail(body.unread))
  BY <1>1, FlattenHead DEF BodyRead
<1>3. Rest(Tail(body.unread)) \in Nat
  <2>1. CASE Tail(body.unread) = <<>>
    BY <2>1 DEF Rest
  <2>2. CASE Tail(body.unread) # <<>>
    BY <1>2, <2>2, FlattenHead DEF Rest
  <2> QED BY <2>1, <2>2
<1>4. /\ body.read \in 0 .. CAP /\ CAP \in Nat /\ Len(Head(body.unread)) \in Nat
      /\ body.read + (Len(Head(body.unread)) + Rest(Tail(body.unread))) = Len(body.whole)
  <2>1. body.read \in 0 .. CAP /\ body.read + Rest(body.unread) = Len(body.whole)
    BY <1>1 DEF BodyRead
  <2>2. Rest(body.unread) = Len(FlattenSeq(body.unread))
    BY <1>1 DEF Rest
  <2>3. Len(Head(body.unread)) \in Nat
    BY <1>2, LenProperties
  <2> QED BY <1>2, <2>1, <2>2, <2>3, BudgetAssumption
<1>5. total \in Nat /\ total + Rest(Tail(body.unread)) = Len(body.whole) /\ total <= Len(body.whole)
  BY <1>3, <1>4
<1>6. /\ body' = [body EXCEPT !.read = total, !.unread = Tail(@)]
      /\ IF Truncated(total) THEN Judge(Kept(total)) ELSE Noticed /\ pc' = pc
  BY DEF ChunkRead
<1>7. body' = [status |-> body.status, whole |-> body.whole, unread |-> Tail(body.unread), read |-> total]
  BY <1>1, <1>6 DEF BodyRead
<1> HIDE DEF total
<1>8. CASE Truncated(total)
  <2>1. Judge(Kept(total)) /\ ~(total <= CAP) /\ body'.whole = body.whole
    BY <1>4, <1>5, <1>6, <1>7, <1>8 DEF Truncated
  <2> QED BY <1>1, <1>5, <2>1, JudgeEvidence
<1>9. CASE ~Truncated(total)
  <2>1. total \in 0 .. CAP
    BY <1>4, <1>5, <1>9 DEF Truncated
  <2>2. BodyRead'
    BY <1>1, <1>2, <1>5, <1>7, <2>1 DEF BodyRead
  <2> QED BY <1>1, <1>6, <1>9, <2>2 DEF EvidenceInv
<1> QED BY <1>8, <1>9

LEMMA EndEvidence == TypeOK /\ EvidenceInv /\ BodyEnds => EvidenceInv'
<1> SUFFICES ASSUME TypeOK, EvidenceInv, BodyEnds PROVE EvidenceInv'
  OBVIOUS
<1>1. BodyRead /\ body.unread = <<>> /\ body' = body /\ Judge(Kept(body.read))
  BY DEF EvidenceInv, BodyEnds
<1>2. body.read \in Nat /\ body.read = Len(body.whole)
  BY <1>1, BudgetAssumption DEF BodyRead, Rest
<1> QED BY <1>1, <1>2, JudgeEvidence

LEMMA TeardownEvidence == EvidenceInv /\ (PeerCloses \/ Discarded \/ Closed) => EvidenceInv'
<1> SUFFICES ASSUME EvidenceInv, PeerCloses \/ Discarded \/ Closed PROVE EvidenceInv'
  OBVIOUS
<1>1. CASE PeerCloses
  <2>1. pc' = "closing" /\ ahead'.kind = "error"
    BY <1>1 DEF PeerCloses, Fails, TearDown, Error
  <2> QED BY <2>1, EvidenceAbsent
<1>2. CASE Discarded
  <2>1. body.status = NULL /\ body' = body /\ pc' \in {"hop", "done"}
    BY <1>2 DEF Discarded, EvidenceInv, Report
  <2> QED BY <2>1, EvidenceBefore
<1>3. CASE Closed
  <2>1. OnEvidence(ahead) /\ pc' = "done" /\ UNCHANGED <<body, seen>> /\ outcome'.kind = ahead.kind
    BY <1>3 DEF Closed, EvidenceInv, Report
  <2>2. ahead.kind = "verdict" => outcome'.success = ahead.success /\ outcome'.truncated = ahead.truncated
    BY <1>3 DEF Closed, Report, Classified
  <2>3. OnEvidence(outcome)'
    BY <2>1, <2>2 DEF OnEvidence
  <2> QED BY <2>1, <2>3 DEF EvidenceInv
<1> QED BY <1>1, <1>2, <1>3

LEMMA DeadlineEvidence == TypeOK /\ EvidenceInv /\ DeadlineFires => EvidenceInv'
<1> SUFFICES ASSUME TypeOK, EvidenceInv, DeadlineFires PROVE EvidenceInv'
  OBVIOUS
<1>1. body' = body
  BY DEF DeadlineFires
<1>2. CASE pc \notin Interrupted
  BY <1>1, <1>2, EvidenceKept DEF DeadlineFires
<1>3. CASE pc \in {"resolving", "connecting"}
  <2>1. body.status = NULL /\ pc' = "done"
    BY <1>3 DEF DeadlineFires, EvidenceInv, FetchFails, Report, Interrupted
  <2> QED BY <1>1, <2>1, EvidenceBefore
<1>4. CASE pc \in {"waiting", "reading"}
  <2>1. pc' = "closing" /\ ahead'.kind = "abort"
    BY <1>4 DEF DeadlineFires, Fails, TearDown, TimeoutError, Interrupted
  <2> QED BY <2>1, EvidenceAbsent
<1> QED BY <1>2, <1>3, <1>4 DEF Interrupted

LEMMA EvidenceNext == TypeOK /\ EvidenceInv /\ [Next]_vars => EvidenceInv'
<1> SUFFICES ASSUME TypeOK, EvidenceInv, [Next]_vars PROVE EvidenceInv'
  OBVIOUS
<1>1. CASE Environment
  BY <1>1, ResolveEvidence, ConnectEvidence, AnsweredEvidence, TeardownEvidence, ChunkEvidence,
     EndEvidence DEF Environment
<1>2. CASE Tick
  BY <1>2, EvidenceKept DEF Tick
<1>3. CASE Engine /\ ~Tick
  BY <1>3, HopEvidence, ConnectEvidence, TeardownEvidence, DeadlineEvidence DEF Engine
<1>4. CASE UNCHANGED vars
  BY <1>4, EvidenceKept DEF vars
<1> QED BY <1>1, <1>2, <1>3, <1>4 DEF Next

--------------------------------------------------------------------------------
(* The theorems.                                                            *)

\* Whatever the names resolve to by the time of a connection, no request is written to an address
\* the guard has not accepted, or over https to a peer whose certificate was refused
\* (pinned-connect.ts, createConnector).
THEOREM PeersAlwaysValidated == Spec => []OnlyValidatedPeers
<1>1. IInv => OnlyValidatedPeers
  BY DEF IInv, Steady
<1> QED BY <1>1, AlwaysInv, PTL

\* However long the chain and wherever it comes back, the headers stay at home, a method that was
\* rewritten carries no body, and only a redirect that leads on is refused for the length
\* (redirect-rules.ts and the loop of probe.ts).
THEOREM ChainAlwaysKeepsRules == Spec => []ChainKeepsRules
<1>1. IInv => BudgetRefusesRedirectsOnly
  <2> SUFFICES ASSUME IInv PROVE BudgetRefusesRedirectsOnly
    OBVIOUS
  <2>1. request.redirects \in 0 .. MAX_REDIRECTS /\ Len(wire) \in Nat /\ pc \in Phases
    BY Types DEF IInv, Hop
  <2>2. CASE pc = "done"
    BY <2>2 DEF IInv, AtDone
  <2>3. CASE pc # "done"
    <3>1. Len(wire) <= request.redirects + 1
      BY <2>1, <2>3 DEF Phases, IInv, AtHop, AtResolving, AtConnecting, AtWaiting, AtReading,
                        AtDiscarding, AtClosing, Handed, Sent, Unsent
    <3> QED BY <2>1, <2>3, <3>1, Constants DEF BudgetRefusesRedirectsOnly
  <2> QED BY <2>2, <2>3
<1>2. IInv => ChainKeepsRules
  BY <1>1 DEF IInv, Steady, ChainKeepsRules
<1> QED BY <1>2, AlwaysInv, PTL

\* A probe that is over leaves no open socket, and its attempts to connect end with its own budget,
\* however late in the chain they began (probe.ts, remainingBudget).
THEOREM SocketsAlwaysEndWithProbe == Spec => []SocketsEndWithProbe
<1>1. IInv => SocketsEndWithProbe
  BY DEF IInv, AtDone, Steady, SocketsSafe, SocketsEndWithProbe
<1> QED BY <1>1, AlwaysInv, PTL

\* Every probe that is over reports the boundaries and the certificate of the hop it ended in, the
\* phase its deadline fired in, and an end without the teardown (probe.ts, timing.ts and
\* failure-classes.ts).
THEOREM ReportAlwaysOfFinalHop == Spec => []ReportOfFinalHop
<1>1. IInv => ReportOfFinalHop
  <2> SUFFICES ASSUME IInv PROVE ReportOfFinalHop
    OBVIOUS
  <2>1. TypeOK /\ Steady /\ DOMAIN marks = Boundaries
    BY DEF IInv, TypeOK
  <2>2. CASE pc # "done"
    BY <2>1, <2>2 DEF ReportOfFinalHop, OutcomeOfFinalHop, DeadlineNamesPhase, EndExcludesTeardown
  <2>3. CASE pc = "done"
    <3>1. AtDone /\ OfThisHop
      BY <2>1, <2>3 DEF IInv, Steady
    <3>2. \A b \in Reached(marks) : b \in Boundaries /\ marks[b] # NULL
      BY <2>1 DEF Reached
    <3>3. marks["tls_done"] # NULL => "tls_done" \in Reached(marks)
      BY <2>1, ReachedIs DEF Boundaries
    <3>4. OutcomeOfFinalHop
      BY <3>1, <3>2, <3>3 DEF AtDone, OfThisHop, Sent, OutcomeOfFinalHop
    <3>5. DeadlineNamesPhase /\ EndExcludesTeardown
      BY <3>1 DEF AtDone, Concluded, EndExcludesTeardown
    <3> QED BY <2>1, <3>4, <3>5 DEF ReportOfFinalHop
  <2> QED BY <2>2, <2>3
<1> QED BY <1>1, AlwaysInv, PTL

\* A connection that fails, a deadline and a resolver that fails count against the endpoint, a
\* destination that is refused does not (failure-classes.ts, classifyGuardRejection).
THEOREM OutagesAlwaysCounted == Spec => []OutagesCounted
<1>1. IInv => OutagesCounted
  <2>1. CASE pc = "done"
    BY <2>1 DEF IInv, AtDone
  <2>2. CASE pc # "done"
    BY <2>2 DEF OutagesCounted
  <2> QED BY <2>1, <2>2
<1> QED BY <1>1, AlwaysInv, PTL

\* However a body is cut into chunks, "up" rests on what the response says, of a body beyond the
\* cap too, and a body that fits the cap is judged whole, by what is found at each path into it
\* (body-cap.ts, readCappedBody, and assertions/evaluate.ts).
THEOREM VerdictAlwaysOfBody == Spec => []VerdictOfBody
<1>1. Spec => []TypeOK
  <2>1. ReportOfFinalHop => TypeOK
    BY DEF ReportOfFinalHop
  <2> QED BY <2>1, ReportAlwaysOfFinalHop, PTL
<1>2. Spec => []EvidenceInv
  BY <1>1, EvidenceInit, EvidenceNext, PTL DEF Spec
<1> QED BY <1>2, EvidenceGives, PTL
================================================================================
