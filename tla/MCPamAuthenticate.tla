-------------------------- MODULE MCPamAuthenticate --------------------------
(* A stack that lists the module with a file, with arguments of its own and  *)
(* with mistakes, for two users on two hosts.                                *)
EXTENDS PamAuthenticate

MCValueOf == [n \in {} |-> 0]

alice == <<"alice">>
bob   == <<"bob">>
MCUsers == {alice, bob}
MCHosts == {<<"inside">>, <<"outside">>}

here == <<"here">>
MCDocs == {None, {"k1"}, {"k2"}}
MCTokens == {[key |-> "k1", aud |-> here, name |-> alice],
             [key |-> "k1", aud |-> here, name |-> bob]}

Arg(key, value) == [key |-> key, value |-> value]
Issuer == <<Arg("iss", <<"issuer">>), Arg("jwks", <<"keys">>)>>

MCStack ==
    {<<Arg("config", <<"path">>)>>,
     <<Arg("config", <<"path">>), Arg("iss", <<"issuer">>)>>,
     Issuer \o <<Arg("trusted_aud", here), Arg("only_from", <<"inside", ",", "outside">>),
                 Arg("only_from", <<"inside">>)>>,
     Issuer,
     <<Arg("jwks", <<"keys">>), Arg("trusted_aud", here)>>}

Line(base, index, value) == [base |-> base, index |-> index, value |-> value]
Lines == <<Line("trusted_iss", 0, <<"issuer">>), Line("trusted_jwks", 0, <<"keys">>),
           Line("trusted_aud", 0, here)>>

MCFiles == {[lines |-> Lines, exposed |-> FALSE], [lines |-> Lines, exposed |-> TRUE],
            [lines |-> Lines \o <<Line("disallowed_username", -1, bob)>>, exposed |-> FALSE]}
==============================================================================
