------------------------------ MODULE SaslPlugin ------------------------------
(***************************************************************************)
(* The server plugin from its loading to its release, sasl/src/config.rs   *)
(* and the entry points of sasl/src/server.rs: it reads its options and    *)
(* the JWKS once, and then serves whatever clients of any make send, byte  *)
(* by byte.  libsasl finds the options in a file, by the line rules that   *)
(* parse_config of the PAM module follows; it creates contexts after the   *)
(* plugin is loaded and disposes of them before it is freed.               *)
(***************************************************************************)
EXTENDS SaslServer, PamOptions, Rfc7628

CONSTANTS
    Files,      \* the configuration files, sequences of lines
    Foreign,    \* what clients of other make send
    Offered,    \* what this client may be given to send, [authzid, token]
    Alg,        \* the algorithm of each token
    Legacy,     \* LEGACY_ALLOWED_ALGORITHMS
    Fold        \* each name in lower case

ASSUME AlgAssumption == Alg \in [Tokens -> Algorithms] /\ Legacy \subseteq Algorithms
ASSUME FoldAssumption == Fold \in [Names -> Names]
ASSUME InputsAssumption ==      \* the client is given strings, which are UTF-8
    /\ Foreign \subseteq Seq(STRING)
    /\ Offered \subseteq [authzid: Seq(STRING), token: Seq(STRING)]
    /\ \A r \in Offered : IsUtf8(r.authzid) /\ IsUtf8(r.token)
ASSUME FilesAssumption ==
    Files \subseteq Seq([base: STRING, index: Nat \cup {Unnumbered}, value: Seq(STRING)])

VARIABLES
    lines,      \* the file the plugin is loaded with
    plugin,     \* its ServerConfig: None, or the options of the verifier
    said,       \* what the file denies and whether it waives TLS (history)
    loaded,     \* what sasl_server_plug_init returned
    input       \* the last message of a client

pluginVars == <<lines, plugin, said, loaded, input>>
vars == <<serverVars, pluginVars>>

Init ==
    /\ lines \in Files
    /\ plugin = None /\ said = None /\ loaded = None /\ input = None
    /\ tls_required = TRUE /\ valid = {}
    /\ ssf \in Ssf \cup {None}
    /\ ctx = None /\ sout = None /\ sdone = FALSE /\ sids = NoIdentities /\ src = None

------------------------------------------------------------------------------
(* What a file says, read as a whole: the values of the options that count.*)

\* The lines of a base that are not repetitions of an earlier one.
Heeded(base) ==
    {lines[i] : i \in {k \in DOMAIN lines :
        lines[k].base = base /\ \A j \in 1 .. k - 1 : Option(lines[j]) # Option(lines[k])}}

\* Those with a number, up to the first number that is missing.
Numbered(base) ==
    {line \in Heeded(base) :
        line.index >= 0 /\ 0 .. line.index \subseteq {l.index : l \in Heeded(base)}}

\* One with none, if there is no number, with its pieces.
Lists(base) == {Split(line.value, {",", Blank}) :
                line \in {l \in Heeded(base) : l.index = Unnumbered}}

SaidOf(base) ==
    IF Numbered(base) # {} THEN {line.value : line \in Numbered(base)}
                           ELSE UNION {ToSet(list) : list \in Lists(base)}

Said == [users  |-> SaidOf("disallowed_username"),
         algs   |-> SaidOf("disallowed_alg"),
         no_tls |-> \E line \in Heeded("no_tls") : line.value = <<"1">>]

------------------------------------------------------------------------------
(* The plugin.                                                             *)

\* getopt of libsasl: an option that is not set has no value.
option(name) == Single(Entries(lines), name, Unset)

InitReturns(rc) ==
    /\ loaded = None
    /\ loaded' = rc
    /\ UNCHANGED <<valid, ssf, ctx, sout, sdone, sids, src, input>>

InitFails(rc) == InitReturns(rc) /\ UNCHANGED <<plugin, said, lines, tls_required>>

\* maxvers is smaller than SASL_SERVER_PLUG_VERSION.
VersionMismatch == InitFails("BADVERS")

\* The JWKS file cannot be read, or from_jwks_json refuses it.
JwksFails == InitFails("CONFIGERR")

Configured ==
    LET options == read(Entries(lines))
    IN  IF ~options.ok THEN FALSE
        ELSE /\ options.value.iss # Unset /\ options.value.jwks # Unset
             /\ options.value.trusted_aud # <<>>

ConfigFails == ~Configured /\ InitFails("CONFIGERR")

from_sasl ==
    /\ Configured
    /\ InitReturns("OK")
    /\ plugin' = read(Entries(lines)).value
    /\ tls_required' = (option(<<"no_tls", Unnumbered>>) # <<"1">>)
    /\ said' = Said /\ lines' = <<>>

sasl_server_plug_init == VersionMismatch \/ JwksFails \/ ConfigFails \/ from_sasl

\* The plugin is freed, and the process may load it again.
server_mech_free ==
    /\ loaded # None /\ ctx = None
    /\ plugin' = None /\ said' = None /\ loaded' = None /\ input' = None
    /\ lines' \in Files
    /\ tls_required' = TRUE /\ valid' = {}
    /\ sids' = NoIdentities /\ sdone' = FALSE /\ src' = None
    /\ UNCHANGED <<ssf, ctx, sout>>

------------------------------------------------------------------------------
(* What it does for clients.                                               *)

\* algorithm_allowed and check_username of the verifier.
Admits(t) ==
    /\ Alg[t] \in IF plugin.allowed_algorithms = {} THEN Legacy ELSE plugin.allowed_algorithms
    /\ Alg[t] \notin plugin.disallowed_algorithms
    /\ \A n \in ToSet(plugin.disallowed_usernames) : Fold[n] # Fold[Subject[t]]

\* Time passes: of the tokens the policy admits some are in their time.
TokensChange ==
    /\ plugin # None
    /\ valid' \in SUBSET {t \in Tokens : Admits(t)}
    /\ UNCHANGED <<tls_required, ssf, ctx, sout, sdone, sids, src, pluginVars>>

New     == plugin # None /\ server_mech_new /\ UNCHANGED pluginVars
Dispose == server_mech_dispose /\ UNCHANGED pluginVars

Big == "65537 bytes"
NotAResponse == [kind |-> "other"]

\* What server_step makes of the bytes.  An empty authzid is none.
Received(m) ==
    LET response == parse_client_response(m)
    IN  IF Big \in ToSet(m) THEN Oversized
        ELSE IF m = <<KVSEP>> THEN Terminator
        ELSE IF ~response.ok THEN NotAResponse
        ELSE Response(IF response.value.authzid \in {NoAuthzid, <<>>} THEN None
                      ELSE response.value.authzid, response.value.token)

server_mech_step(m) ==
    /\ \E received \in {Received(m)} : server_step(received)
    /\ input' = m
    /\ UNCHANGED <<lines, plugin, said, loaded>>

Inputs == Foreign \cup {build_client_response(r.authzid, r.token) : r \in Offered}

Next ==
    \/ sasl_server_plug_init \/ server_mech_free
    \/ TokensChange \/ New \/ Dispose
    \/ \E m \in Inputs : server_mech_step(m)

Spec == Init /\ [][Next]_vars

------------------------------------------------------------------------------
\* Nobody is let in whom the file denies, by name in either case or by the
\* algorithm of the token, from whatever form of the option to whatever bytes
\* the client sends (config.rs, get_list_option; server.rs, server_step).
DeniedStaysOut ==
    src = "OK" =>
        LET t == Received(input).token
        IN  /\ Alg[t] \notin said.algs
            /\ \A n \in said.users : Fold[n] # Fold[Subject[t]]

\* Nobody is let in over a connection without TLS unless the file waives it:
\* the option has to be 1, and a strength factor that is missing, or one short of
\* what TLS has, is none.
OnlyOverTls == src = "OK" => said.no_tls \/ (ssf # None /\ ssf >= 256)

\* The options of a file in the order in which they are read.
InOrder(base) ==
    [i \in {line.index + 1 : line \in Numbered(base)} |->
        (CHOOSE line \in Numbered(base) : line.index = i - 1).value]

Listed(base) == IF Numbered(base) # {} THEN InOrder(base) ELSE FlattenSeq(SetToSeq(Lists(base)))

\* The file as inline arguments of the PAM module.
AsInline ==
    LET Arg(key, values) == [i \in DOMAIN values |-> [key |-> key, value |-> values[i]]]
        One(key, base, n) == Arg(key, SetToSeq({l.value : l \in {h \in Heeded(base) : h.index = n}}))
    IN  One("userid", "userid", Unnumbered) \o One("grace", "grace", Unnumbered)
        \o One("iss", "trusted_iss", 0) \o One("jwks", "trusted_jwks", 0)
        \o Arg("trusted_aud", InOrder("trusted_aud"))
        \o Arg("trusted_azp", InOrder("trusted_azp"))
        \o Arg("required_scope", InOrder("required_scope"))
        \o Arg("disallowed_username", Listed("disallowed_username"))
        \o Arg("allowed_alg", Listed("allowed_alg"))
        \o Arg("disallowed_alg", Listed("disallowed_alg"))

\* A well-formed file is the same policy to the PAM module as the inline
\* arguments that say the same, and refused if these are: numbers, gaps, lists,
\* repeated lines and names of algorithms mean one thing (lib.rs, parse_config
\* and parse_inline_args).
FrontEndsAgree ==
    (\A i \in DOMAIN lines : lines[i] # Skipped => lines[i].value # <<>>) =>
        parse_config(lines) = parse_inline_args(AsInline)

\* What the server reads from a message, whoever wrote it, it also reads from
\* the message this client would have written for it: escapes, an empty authzid
\* or a second auth do not make a message mean two things (rfc7628.rs).
ReadIsWritten ==
    LET once  == parse_client_response(input)
        again == parse_client_response(build_client_response(once.value.authzid, once.value.token))
        Authzid(r) == IF r.value.authzid = <<>> THEN NoAuthzid ELSE r.value.authzid
    IN  input # None /\ once.ok =>
            again.ok /\ Authzid(again) = Authzid(once) /\ again.value.token = once.value.token

\* A name this client is given arrives as it is or its message is refused,
\* whatever it contains, and so does a token, unless it contains the separator
\* (then the last part that looks like one counts).  Without the separator and
\* with a token there is no refusal.
NamesSurvive ==
    \A r \in Offered :
        LET got == parse_client_response(input)
            clean == KVSEP \notin ToSet(r.authzid) \cup ToSet(r.token)
        IN  input = build_client_response(r.authzid, r.token) =>
                /\ clean /\ r.token # <<>> => got.ok
                /\ got.ok => /\ got.value.authzid = IF r.authzid = <<>> THEN NoAuthzid ELSE r.authzid
                             /\ got.value.token = r.token \/ KVSEP \in ToSet(r.token)

==============================================================================
