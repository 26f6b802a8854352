---------------------------- MODULE MCSaslPlugin ----------------------------
(* Configuration files of up to three lines beside the mandatory ones, and   *)
(* messages put together from headers, fields and endings of every kind.     *)
EXTENDS SaslPlugin

bob  == <<"bob">>
root == <<"root">>
ROOT == <<"ROOT">>
odd  == <<",", "=", "2C">>
nul  == <<"bob", "%x00">>

tokenA == <<"A">>
tokenB == <<"B">>

MCNames   == {bob, root, ROOT, odd, nul, <<"=">>, <<",", "root">>, <<"=", "root">>, <<",", "=">>}
MCTokens  == {tokenA, tokenB}
MCNul     == {nul}
MCSubject == [t \in MCTokens |-> IF t = tokenA THEN bob ELSE root]
MCCanon   == [n \in MCNames |-> IF n \in {root, ROOT} THEN root ELSE bob]
MCFold    == [n \in MCNames |-> IF n = ROOT THEN root ELSE n]

RS == <<"RS256">>
ES == <<"ES256">>
MCAlgorithms == {RS, ES, <<"HS256">>}
MCLegacy     == {RS, ES}
MCAlg        == [t \in MCTokens |-> IF t = tokenA THEN RS ELSE ES]
MCNumerals   == {<<"1">>, <<"7">>}
MCValueOf    == [n \in MCNumerals |-> IF n = <<"1">> THEN 1 ELSE 7]

Line(base, index, value) == [base |-> base, index |-> index, value |-> value]

Mandatory == <<Line("trusted_iss", 0, <<"issuer">>), Line("trusted_jwks", 0, <<"keys">>),
               Line("trusted_aud", 0, <<"here">>)>>

Optional ==
    {Line("disallowed_username", 0, ROOT), Line("disallowed_username", 1, bob),
     Line("disallowed_username", -1, <<"root", ",", " ", "bob">>),
     Line("disallowed_alg", 0, ES), Line("disallowed_alg", 0, RS),
     Line("disallowed_alg", -1, <<"ES256", " ">>),
     Line("allowed_alg", 0, RS), Line("allowed_alg", 1, RS), Line("allowed_alg", -1, <<",">>),
     Line("allowed_alg", 0, <<"RSA-OAEP">>),
     Line("no_tls", -1, <<"1">>), Line("no_tls", -1, <<"yes">>),
     Line("trusted_aud", 2, <<"there">>), Line("grace", -1, <<"7">>), Line("grace", -1, <<"x">>),
     Line("userid", -1, <<"sub">>), Skipped, Broken}

\* Lines of different options do not touch each other, so a file has two of one
\* option; where the option is not part of the verifier's policy the file stands
\* alone, and is refused for want of an issuer.
Policy == {line \in Optional : line.base \in {"disallowed_username", "disallowed_alg", "allowed_alg"}}
Pairs(Lines) == {<<a, b>> : <<a, b>> \in {p \in Lines \X Lines : p[1].base = p[2].base}}

MCFiles ==
    {p \o Mandatory : p \in Pairs(Policy) \cup Pairs({l \in Optional : l.base = "no_tls"})}
    \cup {Mandatory \o <<a>> : a \in Policy \cup {Skipped, Broken, Line("no_tls", -1, <<"1">>)}}
    \cup {<<a>> : a \in Optional} \cup Pairs(Optional \ Policy)

------------------------------------------------------------------------------
Headers == {<<"n", ",", ",">>, <<"n", ",">>, <<"y", ",", ",">>, <<>>,
            <<"n", ",", "a", "=">>, <<"n", ",", "a", "=", ",">>,
            <<"n", ",", "a", "=", "root", ",">>, <<"n", ",", "a", "=", ",", "root", ",">>,
            <<"n", ",", "a", "=", "=", "2C", "=", "3D", "2C", ",">>,
            <<"n", ",", "a", "=", "=", ",">>, <<"n", ",", "a", "=", "=", "3D", "root", ",">>,
            <<"n", ",", "a", "=", "bob", "%x00", ",">>, <<"n", ",", "a", "=", "%xff", ",">>}

Auth(token) == <<KVSEP, "auth", "=", "Bearer ">> \o token
Fields == {<<>>, Auth(tokenA), Auth(<<>>), Auth(<<"%xff">>),
           <<KVSEP, "auth", "=", "Basic ", "B">>, <<KVSEP, "auth">>,
           <<KVSEP, "auth", "=", "bearer ", "B">>, <<KVSEP, "host", "=", "%xff", "=">>}

\* Headers and fields are read apart, so each goes with one of the others.
MCForeign ==
    {h \o Auth(tokenB) \o <<KVSEP, KVSEP>> : h \in Headers}
    \cup {<<"n", ",", ",">> \o f \o g \o <<KVSEP, KVSEP>> : f \in Fields, g \in {<<>>, Auth(tokenB)}}
    \cup {<<"n", ",", ",">> \o Auth(tokenA) \o <<KVSEP>>, <<KVSEP>>, <<>>, <<Big>>}

MCOffered ==
    [authzid: {<<>>, root, odd, <<"=">>, <<KVSEP>>, <<"root", ",", KVSEP>>}, token: {tokenA}]
    \cup [authzid: {<<>>, root}, token: {<<>>, tokenA \o Auth(tokenB), tokenA \o <<KVSEP>>, <<",", "=">>}]
==============================================================================
