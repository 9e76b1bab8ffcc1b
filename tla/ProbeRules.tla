------------------------------ MODULE ProbeRules ------------------------------
(***************************************************************************)
(* The pure decisions a probe is made of: the guard's verdict on a URL and  *)
(* its addresses (core/ssrf), the rules of a redirect hop, the failure      *)
(* taxonomy, and the assertions on a body (src/src/worker/probing).         *)
(*                                                                         *)
(* An address is its sequence of octets (IPv4) or of 16-bit groups (IPv6).  *)
(* A text is the sequence of its letters, a JSON value a tree.              *)
(***************************************************************************)
EXTENDS Integers, Sequences, FiniteSets, FiniteSetsExt, SequencesExt

CONSTANTS
  NULL,
  Literal,        \* the address of each host name that is an IP literal
  BLOCKED_PORTS,  \* SSRF_BLOCKED_PORTS
  Json,           \* the value each text that is valid JSON parses to
  JsonValues      \* the values that occur, and theirs

--------------------------------------------------------------------------------
(* The guard: src/src/core/ssrf/host-validator.ts *)

V6(groups) == [i \in 1 .. 8 |-> IF i <= Len(groups) THEN groups[i] ELSE 0]
Subnet(address, bits) == [address |-> address, bits |-> bits]

\* BlockList.check for one subnet: the leading bits agree.
Covers(net, address) ==
  LET width == IF Len(address) = 4 THEN 8 ELSE 16 IN
  /\ Len(net.address) = Len(address)
  /\ \A i \in 1 .. Len(address) :
       LET kept == Max({0, Min({width, net.bits - width * (i - 1)})})
           unit == 2 ^ (width - kept)
       IN address[i] \div unit = net.address[i] \div unit

BlockedNets ==
  {Subnet(<<127, 0, 0, 0>>, 8), Subnet(<<10, 0, 0, 0>>, 8), Subnet(<<172, 16, 0, 0>>, 12),
   Subnet(<<192, 168, 0, 0>>, 16), Subnet(<<169, 254, 0, 0>>, 16), Subnet(<<100, 64, 0, 0>>, 10),
   Subnet(<<198, 18, 0, 0>>, 15), Subnet(<<224, 0, 0, 0>>, 4), Subnet(<<240, 0, 0, 0>>, 4),
   Subnet(<<0, 0, 0, 0>>, 8), Subnet(<<100, 100, 100, 200>>, 32), Subnet(<<192, 0, 0, 0>>, 24),
   Subnet(<<192, 0, 2, 0>>, 24), Subnet(<<198, 51, 100, 0>>, 24), Subnet(<<203, 0, 113, 0>>, 24),
   Subnet(<<192, 88, 99, 0>>, 24)}
  \cup
  {Subnet(V6(<<0, 0, 0, 0, 0, 0, 0, 1>>), 128), Subnet(V6(<<>>), 128), Subnet(V6(<<\hFC00>>), 7),
   Subnet(V6(<<\hFE80>>), 10), Subnet(V6(<<\hFEC0>>), 10), Subnet(V6(<<>>), 96),
   Subnet(V6(<<\hFD00, \hEC2, 0, 0, 0, 0, 0, \h254>>), 128), Subnet(V6(<<\h64, \hFF9B>>), 96),
   Subnet(V6(<<\h64, \hFF9B, 1>>), 48), Subnet(V6(<<\hFF00>>), 8),
   Subnet(V6(<<0, 0, 0, 0, \hFFFF>>), 96), Subnet(V6(<<\h2002>>), 16), Subnet(V6(<<\h2001>>), 23),
   Subnet(V6(<<\h2001, \hDB8>>), 32), Subnet(V6(<<\h3FFF>>), 20), Subnet(V6(<<\h5F00>>), 16),
   Subnet(V6(<<\h100>>), 64), Subnet(V6(<<\h100, 0, 0, 1>>), 64)}

GlobalExceptions ==
  {Subnet(<<192, 0, 0, 9>>, 32), Subnet(<<192, 0, 0, 10>>, 32)}
  \cup {Subnet(V6(<<\h2001, 1, 0, 0, 0, 0, 0, n>>), 128) : n \in 1 .. 3}
  \cup {Subnet(V6(<<\h2001, 3>>), 32), Subnet(V6(<<\h2001, 4, \h112>>), 48),
        Subnet(V6(<<\h2001, \h20>>), 28), Subnet(V6(<<\h2001, \h30>>), 28)}

\* net.BlockList matches an IPv4-mapped address against its IPv4 subnets too.
Forms(address) ==
  IF Len(address) = 8 /\ SubSeq(address, 1, 6) = <<0, 0, 0, 0, 0, \hFFFF>>
  THEN {address, <<address[7] \div 256, address[7] % 256, address[8] \div 256, address[8] % 256>>}
  ELSE {address}
Listed(nets, address) == \E net \in nets, form \in Forms(address) : Covers(net, form)

IsBlockedAddress(address) ==
  /\ ~Listed(GlobalExceptions, address)
  /\ Listed(BlockedNets, address)

BlockedHostnames == {"metadata.google.internal", "metadata.internal"}
IsLiteral(url) == url.host \in DOMAIN Literal

EffectivePort(url) ==
  IF url.port # NULL THEN url.port ELSE IF url.scheme = "https" THEN 443 ELSE 80

GuardCodes == {"SCHEME_NOT_ALLOWED", "CREDENTIALS_IN_URL", "PORT_NOT_ALLOWED", "ADDRESS_NOT_ALLOWED",
               "URL_UNRESOLVABLE"}
Rejection(code, cause) == [code |-> code, cause |-> cause]
NoCause == [kind |-> "absent", code |-> NULL]
Cause(code) == [kind |-> IF code = NULL THEN "unreadable" ELSE "code", code |-> code]

\* assertSaveableUrl up to the resolution: what the URL alone is refused for.
RefusedByUrl(url) ==
  IF url.scheme \notin {"http", "https"} THEN Rejection("SCHEME_NOT_ALLOWED", NoCause)
  ELSE IF url.credentials THEN Rejection("CREDENTIALS_IN_URL", NoCause)
  ELSE IF EffectivePort(url) \in BLOCKED_PORTS THEN Rejection("PORT_NOT_ALLOWED", NoCause)
  ELSE IF url.host \in BlockedHostnames THEN Rejection("ADDRESS_NOT_ALLOWED", NoCause)
  ELSE NULL

\* assertSaveableUrl after it: every address has to be public.
RefusedByAddress(addresses) ==
  IF addresses = <<>> THEN Rejection("URL_UNRESOLVABLE", NoCause)
  ELSE IF \E i \in DOMAIN addresses : IsBlockedAddress(addresses[i])
       THEN Rejection("ADDRESS_NOT_ALLOWED", NoCause)
  ELSE NULL

NoRecordCodes == {"ENOTFOUND", "ENODATA"}

\* What a family answered: its addresses, or the code it failed with.
Found(addresses) == [addresses |-> addresses, failed |-> FALSE, code |-> NULL]
Failed(code) == [addresses |-> <<>>, failed |-> TRUE, code |-> code]

\* A family the resolver cannot speak for, as opposed to one without a record.
Unknown(answer) == answer.failed /\ answer.code \notin NoRecordCodes

\* resolveAll, then the verdict on what it found.
RefusedByResolver(v4, v6) ==
  IF Unknown(v4) THEN Rejection("URL_UNRESOLVABLE", Cause(v4.code))
  ELSE IF Unknown(v6) THEN Rejection("URL_UNRESOLVABLE", Cause(v6.code))
  ELSE RefusedByAddress(v4.addresses \o v6.addresses)

--------------------------------------------------------------------------------
(* The failure taxonomy: failure-classes.ts, ssrf-pin.ts, outcome-mapping.ts *)

ConnectionClasses ==
  {"DNS_NXDOMAIN", "DNS_FAILURE", "CONNECTION_REFUSED", "CONNECTION_TIMEOUT", "CONNECTION_RESET",
   "TLS_EXPIRED", "TLS_UNTRUSTED", "TLS_HOSTNAME_MISMATCH", "TLS_HANDSHAKE_FAILED",
   "RESPONSE_TIMEOUT", "BODY_TIMEOUT"}
FailureClasses ==
  ConnectionClasses \cup {"STATUS_MISMATCH", "ASSERTION_FAILED", "TOO_MANY_REDIRECTS",
                          "BLOCKED_BY_POLICY", "UNKNOWN_ERROR"}

SignalToClass ==
  [ENOTFOUND |-> "DNS_NXDOMAIN", EAI_AGAIN |-> "DNS_FAILURE",
   ECONNREFUSED |-> "CONNECTION_REFUSED", UND_ERR_CONNECT_TIMEOUT |-> "CONNECTION_TIMEOUT",
   ETIMEDOUT |-> "CONNECTION_TIMEOUT", EHOSTUNREACH |-> "CONNECTION_TIMEOUT",
   ENETUNREACH |-> "CONNECTION_TIMEOUT", ECONNRESET |-> "CONNECTION_RESET",
   EPIPE |-> "CONNECTION_RESET", UND_ERR_SOCKET |-> "CONNECTION_RESET",
   CERT_HAS_EXPIRED |-> "TLS_EXPIRED", UNABLE_TO_VERIFY_LEAF_SIGNATURE |-> "TLS_UNTRUSTED",
   DEPTH_ZERO_SELF_SIGNED_CERT |-> "TLS_UNTRUSTED",
   ERR_TLS_CERT_ALTNAME_INVALID |-> "TLS_HOSTNAME_MISMATCH", EPROTO |-> "TLS_HANDSHAKE_FAILED",
   SELF_SIGNED_CERT_IN_CHAIN |-> "TLS_UNTRUSTED", UNABLE_TO_GET_ISSUER_CERT |-> "TLS_UNTRUSTED",
   UNABLE_TO_GET_ISSUER_CERT_LOCALLY |-> "TLS_UNTRUSTED",
   UND_ERR_HEADERS_TIMEOUT |-> "RESPONSE_TIMEOUT", UND_ERR_BODY_TIMEOUT |-> "BODY_TIMEOUT"]

\* The ERR_SSL_ family, by the members that occur.
SslProtocolCodes == {"ERR_SSL_WRONG_VERSION_NUMBER", "ERR_SSL_TLSV1_ALERT_PROTOCOL_VERSION"}
DocumentedCodes == DOMAIN SignalToClass \cup SslProtocolCodes

ResolverCodeToClass ==
  [ENOTFOUND |-> "DNS_NXDOMAIN", ENODATA |-> "DNS_NXDOMAIN", ESERVFAIL |-> "DNS_FAILURE",
   EREFUSED |-> "DNS_FAILURE", ETIMEOUT |-> "DNS_FAILURE", ECONNREFUSED |-> "DNS_FAILURE",
   EBADRESP |-> "DNS_FAILURE", ENOTIMP |-> "DNS_FAILURE", EFORMERR |-> "DNS_FAILURE",
   EAI_AGAIN |-> "DNS_FAILURE"]

\* Mutant: the resolver's codes are read through the transport's table.
ClassifyResolverCode_Signals(code) ==
  IF code \in DOMAIN SignalToClass THEN SignalToClass[code] ELSE "UNKNOWN_ERROR"

ClassifyResolverCode(code) ==
  IF code \in DOMAIN ResolverCodeToClass THEN ResolverCodeToClass[code] ELSE "UNKNOWN_ERROR"

Classification(class, code) == [class |-> class, code |-> code]

MAX_CAUSE_DEPTH == 8

\* The first code along a chain of causes; NULL stands for a link without one.
TransportCode(chain) ==
  LET coded == {i \in 1 .. Min({Len(chain), MAX_CAUSE_DEPTH}) : chain[i] # NULL} IN
  IF coded = {} THEN NULL ELSE chain[Min(coded)]

ClassifyError(chain) ==
  LET code == TransportCode(chain) IN
  Classification(IF code = NULL THEN "UNKNOWN_ERROR"
                 ELSE IF code \in DOMAIN SignalToClass THEN SignalToClass[code]
                 ELSE IF code \in SslProtocolCodes THEN "TLS_HANDSHAKE_FAILED"
                 ELSE "UNKNOWN_ERROR", code)

\* The boundaries a hop has come to: mark sets one, and it is NULL before.
Reached(marks) == {b \in DOMAIN marks : marks[b] # NULL}

\* Mutant: the later phase is looked at first.
ClassifyAbort_ConnectFirst(marks, https) ==
  LET reached == Reached(marks) IN
  IF "connect_done" \notin reached THEN "CONNECTION_TIMEOUT"
  ELSE IF "first_byte" \notin reached THEN "RESPONSE_TIMEOUT"
  ELSE "BODY_TIMEOUT"

\* Which phase the deadline fired in, by the boundaries reached.
ClassifyAbort(marks, https) ==
  LET reached == Reached(marks) IN
  IF "dns_done" \notin reached THEN "DNS_FAILURE"
  ELSE IF "connect_done" \notin reached THEN "CONNECTION_TIMEOUT"
  ELSE IF https /\ "tls_done" \notin reached THEN "CONNECTION_TIMEOUT"
  ELSE IF "first_byte" \notin reached THEN "RESPONSE_TIMEOUT"
  ELSE IF "transfer_done" \notin reached THEN "BODY_TIMEOUT"
  ELSE "UNKNOWN_ERROR"

ClassifyGuardRejection(rejection) ==
  IF rejection.code # "URL_UNRESOLVABLE" THEN Classification("BLOCKED_BY_POLICY", rejection.code)
  ELSE IF rejection.cause.kind = "absent" THEN Classification("DNS_NXDOMAIN", rejection.code)
  ELSE IF rejection.cause.kind = "unreadable" THEN Classification("UNKNOWN_ERROR", rejection.code)
  ELSE Classification(ClassifyResolverCode(rejection.cause.code), rejection.cause.code)

OutcomeLabel(success, class) ==
  IF success THEN "up"
  ELSE IF class \in {NULL, "BLOCKED_BY_POLICY", "UNKNOWN_ERROR"} THEN "unknown"
  ELSE "down"

--------------------------------------------------------------------------------
(* A redirect hop: redirect-rules.ts *)

FollowedStatuses == {301, 302, 303, 307, 308}

Lower == [name \in {"X-Api-Key", "Content-Type"} |->
            IF name = "Content-Type" THEN "content-type" ELSE "x-api-key"]
BodyHeaders == {"content-encoding", "content-language", "content-location", "content-type"}

MethodForRedirect(status, method) ==
  IF status = 303 THEN IF method \in {"GET", "HEAD"} THEN method ELSE "GET"
  ELSE IF status \in {301, 302} /\ method = "POST" THEN "GET"
  ELSE method

\* Mutant: the scheme is not part of the origin.
SameOrigin_AnyScheme(a, b) == a.host = b.host /\ a.port = b.port

SameOrigin(a, b) == a.scheme = b.scheme /\ a.host = b.host /\ EffectivePort(a) = EffectivePort(b)

HeadersForHop(headers, target, origin, alreadyDropped, rewrittenToGet) ==
  IF alreadyDropped \/ ~SameOrigin(target, origin) THEN [headers |-> {}, dropped |-> TRUE]
  ELSE [headers |-> {h \in headers : rewrittenToGet => Lower[h] \notin BodyHeaders},
        dropped |-> FALSE]

--------------------------------------------------------------------------------
(* Assertions on a body: assertions/evaluate.ts, assertions/json-path.ts *)

\* What a value is made of.
Parts(v) == IF v.kind = "atom" THEN {} ELSE DOMAIN v.items

\* What JSON.parse returns: a finite tree, where an object has each key once.
ASSUME JsonAssumption ==
  /\ \A text \in DOMAIN Json : Json[text] \in JsonValues
  /\ \A v \in JsonValues :
       \/ v.kind = "atom"
       \/ v.kind = "array" /\ v.items \in Seq(JsonValues)
       \/ /\ v.kind = "object" /\ v.items \in Seq(JsonValues)
          /\ v.keys \in Seq(ToSet(v.keys)) /\ Len(v.keys) = Len(v.items)
          /\ \A i, j \in DOMAIN v.keys : v.keys[i] = v.keys[j] => i = j
  /\ \A S \in SUBSET JsonValues :
       S # {} => \E v \in S : \A i \in Parts(v) : v.items[i] \notin S

\* A segment of a path, as the grammar reads it.
IsSegment(s) ==
  \/ s.kind = "name" /\ s = [kind |-> "name", name |-> s.name]
  \/ s.kind = "index" /\ s = [kind |-> "index", index |-> s.index] /\ s.index \in Nat

\* One step along a path; <<>> is a path that found nothing.
Descend(found, segment) ==
  IF found = <<>> THEN <<>>
  ELSE LET value == found[1] IN
       CASE segment.kind = "name" /\ value.kind = "object"
              /\ (\E i \in DOMAIN value.keys : value.keys[i] = segment.name) ->
              <<value.items[CHOOSE i \in DOMAIN value.keys : value.keys[i] = segment.name]>>
         [] segment.kind = "index" /\ value.kind = "array" /\ segment.index < Len(value.items) ->
              <<value.items[segment.index + 1]>>
         [] OTHER -> <<>>

\* readJsonPath: a path outside the grammar, NULL, is a miss.
ReadJsonPath(root, path) ==
  IF path = NULL THEN <<>>
  ELSE LET found[i \in 0 .. Len(path)] ==
             IF i = 0 THEN <<root>> ELSE Descend(found[i - 1], path[i])
       IN found[Len(path)]

\* Members are compared by key, elements in order.
StructurallyEqual[p \in JsonValues \X JsonValues] ==
  LET a == p[1] b == p[2] IN
  /\ a.kind = b.kind
  /\ CASE a.kind = "atom" -> a.is = b.is
       [] a.kind = "array" -> /\ Len(a.items) = Len(b.items)
                              /\ \A i \in DOMAIN a.items : StructurallyEqual[<<a.items[i], b.items[i]>>]
       [] a.kind = "object" -> /\ Len(a.keys) = Len(b.keys)
                               /\ \A i \in DOMAIN a.keys : \E j \in DOMAIN b.keys :
                                    /\ a.keys[i] = b.keys[j]
                                    /\ StructurallyEqual[<<a.items[i], b.items[j]>>]

\* Mutant: absence is concluded from the part that was read.
EvaluateAssertion_Prefix(assertion, body) ==
  CASE assertion.type = "body_contains" -> assertion.value \in Range(body.text)
    [] assertion.type = "body_not_contains" -> assertion.value \notin Range(body.text)
    [] assertion.type = "json_path" -> FALSE

EvaluateAssertion(assertion, body) ==
  CASE assertion.type = "body_contains" -> assertion.value \in Range(body.text)
    [] assertion.type = "body_not_contains" ->
         ~body.truncated /\ assertion.value \notin Range(body.text)
    [] assertion.type = "json_path" ->
         /\ ~body.truncated
         /\ body.text \in DOMAIN Json
         /\ LET found == ReadJsonPath(Json[body.text], assertion.path) IN
            found # <<>> /\ StructurallyEqual[<<found[1], assertion.equals>>]

EvaluateAssertions(assertions, body) == \A a \in assertions : EvaluateAssertion(a, body)

StatusMatches(status, expected) ==
  IF expected = {} THEN 200 <= status /\ status < 300
  ELSE \E range \in expected : range[1] <= status /\ status <= range[2]
================================================================================
