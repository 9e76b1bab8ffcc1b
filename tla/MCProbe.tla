--------------------------------- MODULE MCProbe ---------------------------------
(* Instances of Probe: an https origin, its plain form, another host, and what *)
(* the guard refuses by the URL alone; a body is a few letters.                *)
EXTENDS Probe

MCUrl(scheme, host) == [scheme |-> scheme, host |-> host, port |-> NULL, credentials |-> FALSE]
MCOrigin == MCUrl("https", "api")
MCUrls == {MCOrigin, MCUrl("http", "api"), MCUrl("http", "public"), MCUrl("http", "private"),
           [MCUrl("https", "api") EXCEPT !.port = 25]}
MCLiteral == [h \in {"public", "private"} |->
                IF h = "public" THEN <<192, 0, 0, 9>> ELSE <<192, 0, 0, 11>>]

MCPublic == <<93, 184, 216, 34>>
MCMapped == <<0, 0, 0, 0, 0, \hFFFF, 2560, 1>>  \* ::ffff:10.0.0.1
MCAnswers == {Found(<<MCPublic>>), Found(<<MCPublic, MCMapped>>), Failed("ENODATA"),
              Failed("ECONNREFUSED"), Failed(NULL)}

\* {"s":"ok"}, the same with a member more in two orders, and a text that parses to it.
MCAtom(x) == [kind |-> "atom", is |-> x]
MCObject(keys, items) == [kind |-> "object", keys |-> keys, items |-> items]
MCOk == MCObject(<<"s">>, <<MCAtom("ok")>>)
MCPair == MCObject(<<"s", "t">>, <<MCAtom("ok"), MCAtom("1")>>)
MCPairTurned == MCObject(<<"t", "s">>, <<MCAtom("1"), MCAtom("ok")>>)
MCList == [kind |-> "array", items |-> <<MCOk, MCAtom("1")>>]
MCJson == <<"o", "k">> :> MCPair @@ <<"l">> :> MCList
MCJsonValues == {MCOk, MCPair, MCPairTurned, MCList, MCAtom("ok"), MCAtom("1"), MCAtom("2")}

MCBodies == {<<>>, <<<<"o">>, <<"k">>>>, <<<<"o", "k">>, <<"x">>>>, <<<<"l">>>>}
MCName(n) == [kind |-> "name", name |-> n]
MCIndex(i) == [kind |-> "index", index |-> i]
MCJsonPath(path, value) == [type |-> "json_path", path |-> path, equals |-> value]
MCAssertions ==
  {{}, {[type |-> "body_contains", value |-> "k"]}, {[type |-> "body_not_contains", value |-> "x"]},
   {MCJsonPath(<<>>, MCPairTurned)}, {MCJsonPath(<<MCIndex(0), MCName("s")>>, MCAtom("ok"))},
   {MCJsonPath(<<MCName("length")>>, MCAtom("2"))}, {MCJsonPath(NULL, MCAtom("ok"))}}
MCSocketCodes == [connecting |-> {"ECONNREFUSED", "EHOSTUNREACH"},
                  handshake |-> {"ERR_SSL_WRONG_VERSION_NUMBER"}]
MCExpected == {{}, {<<302, 302>>}}
================================================================================
