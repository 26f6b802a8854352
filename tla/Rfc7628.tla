------------------------------- MODULE Rfc7628 -------------------------------
(***************************************************************************)
(* The client's message, core/src/rfc7628.rs: how it is built and how it   *)
(* is read, on strings of symbols.  The symbols that matter are those the  *)
(* code looks for; the two hexadecimal digits of an escape are one symbol, *)
(* and so is the scheme in either case.                                    *)
(***************************************************************************)
EXTENDS Text

KVSEP   == "%x01"
Bearers == {"Bearer ", "bearer "}
NotUtf8 == "%xff"
IsUtf8(s) == NotUtf8 \notin ToSet(s)

NoAuthzid == <<"(none)">>   \* no authzid, which is not the empty one

------------------------------------------------------------------------------
\* Mutant: only the comma is escaped.
encode_comma(name) ==
    FlattenSeq([i \in DOMAIN name |-> IF name[i] = "," THEN <<"=", "2C">> ELSE <<name[i]>>])

encode_saslname(name) ==
    FlattenSeq([i \in DOMAIN name |-> IF name[i] = "," THEN <<"=", "2C">>
                                      ELSE IF name[i] = "=" THEN <<"=", "3D">>
                                      ELSE <<name[i]>>])

\* An escape is read at once, so what it stands for is not read again.
decode_saslname(s) ==
    LET Then(c, rest) == IF rest.ok THEN Ok(<<c>> \o rest.value) ELSE Err
        from[i \in 1 .. Len(s) + 2] ==
            IF i > Len(s) THEN Ok(<<>>)
            ELSE IF s[i] # "=" THEN Then(s[i], from[i + 1])
            ELSE IF i = Len(s) THEN Err
            ELSE IF s[i + 1] = "2C" THEN Then(",", from[i + 2])
            ELSE IF s[i + 1] = "3D" THEN Then("=", from[i + 2])
            ELSE Err
    IN  from[1]

build_client_response(authzid, token) ==
    (IF authzid \in {NoAuthzid, <<>>}
     THEN <<"n", ",", ",">>
     ELSE <<"n", ",", "a", "=">> \o encode_saslname(authzid) \o <<",">>)
    \o <<KVSEP, "auth", "=", "Bearer ">> \o token \o <<KVSEP, KVSEP>>

------------------------------------------------------------------------------
\* Mutant: the name is taken as it is escaped.
authzid_raw(gs2) ==
    IF gs2 = <<"n", ",", ",">> THEN Ok(NoAuthzid)
    ELSE IF IsPrefix(<<"n", ",", "a", "=">>, gs2) /\ Last(gs2) = ","
    THEN Ok(SubSeq(gs2, 5, Len(gs2) - 1))
    ELSE Err

\* The header before the first separator: an authzid, NoAuthzid, or Err.
authzid_of(gs2) ==
    LET encoded == SubSeq(gs2, 5, Len(gs2) - 1)
    IN  IF gs2 = <<"n", ",", ",">> THEN Ok(NoAuthzid)
        ELSE IF IsPrefix(<<"n", ",", "a", "=">>, gs2) /\ Last(gs2) = "," /\ IsUtf8(encoded)
        THEN decode_saslname(encoded)
        ELSE Err

\* The key=value pairs between the separators.  The last auth counts.
FirstIn(s, c) == Min({i \in DOMAIN s : s[i] = c} \cup {Len(s) + 1})

parse_client_response(input) ==
    LET first   == FirstIn(input, KVSEP)
        authzid == authzid_of(SubSeq(input, 1, first - 1))
        fields  == Split(SubSeq(input, first + 1, Len(input) - 1), {KVSEP})
        auths   == {i \in DOMAIN fields : fields[i][1] = "auth" /\ FirstIn(fields[i], "=") = 2}
        last    == fields[Max(auths)]
        auth    == SubSeq(last, 3, Len(last))
    IN  IF \/ first > Len(input)
           \/ ~authzid.ok
           \/ ~IsSuffix(<<KVSEP, KVSEP>>, input)
           \/ \E i \in DOMAIN fields : "=" \notin ToSet(fields[i])
           \/ auths = {}
           \/ Len(auth) < 2
           \/ auth[1] \notin Bearers
           \/ ~IsUtf8(auth)
        THEN Err
        ELSE Ok([authzid |-> authzid.value, token |-> Tail(auth)])

==============================================================================
