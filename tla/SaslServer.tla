------------------------------ MODULE SaslServer ------------------------------
(***************************************************************************)
(* The server side of the mechanism, sasl/src/server.rs: each call of      *)
(* server_mech_step is one action, named for the return it takes.          *)
(*                                                                         *)
(* The verifier is the one the plugin was loaded with; which tokens it     *)
(* accepts changes with the time.  A uid has no control characters, so the *)
(* check of the authcid for NUL never fires.                               *)
(***************************************************************************)
EXTENDS Sasl

CONSTANTS
    Ssf,    \* the strength factors a connection may have
    Nul     \* the names with a NUL, which only other clients send

ASSUME NoReturnAssumption == None # "OK"

VARIABLES
    tls_required,   \* ServerConfig
    valid,          \* the tokens the verifier accepts at this time
    ssf,            \* SASL_SSF_EXTERNAL, or None where getprop fails
    ctx,            \* ServerContext: None, or its server_out
    sout,           \* what *server_out points to
    sdone,          \* oparams.doneflag
    sids,           \* the identities in the oparams
    src             \* what the last step returned

serverVars == <<tls_required, valid, ssf, ctx, sout, sdone, sids, src>>

ServerTypeOK ==
    /\ tls_required \in BOOLEAN
    /\ valid \subseteq Tokens
    /\ ssf \in Ssf \cup {None}
    /\ ctx \in {None, [server_out |-> None], [server_out |-> Rejection]}
    /\ sout \in {None, Rejection}
    /\ sdone \in BOOLEAN
    /\ sids \in Identities
    /\ src \in {None, "OK", "CONTINUE", "ENCRYPT", "BADPARAM", "BADPROT", "BADAUTH",
                "FAIL", "canon"}

ServerInit ==
    /\ tls_required \in BOOLEAN
    /\ valid \in SUBSET (Tokens \ (Long \cup Empty))
    /\ ssf \in Ssf \cup {None}
    /\ ctx = None
    /\ sout = None
    /\ sdone = FALSE
    /\ sids = NoIdentities
    /\ src = None

------------------------------------------------------------------------------
\* Time passes: tokens expire and become valid.
Drift ==
    /\ valid' \in SUBSET (Tokens \ (Long \cup Empty))
    /\ UNCHANGED <<tls_required, ssf, ctx, sout, sdone, sids, src>>

\* The identities of an earlier exchange on the connection stay where they
\* are: libsasl resets the flag.
server_mech_new ==
    /\ ctx = None
    /\ ctx' = [server_out |-> None]
    /\ sdone' = FALSE
    /\ sout' = None
    /\ src' = None
    /\ UNCHANGED <<tls_required, valid, ssf, sids>>

server_mech_dispose ==
    /\ ctx # None
    /\ ctx' = None
    /\ sout' = None
    /\ UNCHANGED <<tls_required, valid, ssf, sdone, sids, src>>

\* Mutant: the strength factor of another cipher is enough.
EncryptedWeakly == tls_required => ssf # None /\ ssf >= 255

Encrypted == tls_required => ssf # None /\ ssf >= 256

\* A step that ends without output and without touching the context.
Return(rc) ==
    /\ ctx # None
    /\ src' = rc
    /\ sout' = None
    /\ UNCHANGED <<tls_required, valid, ssf, ctx>>

Refuse(rc) == Return(rc) /\ UNCHANGED <<sdone, sids>>

NoSsf    == tls_required /\ ssf = None /\ Refuse("BADPARAM")
NotTls   == tls_required /\ ssf # None /\ ssf < 256 /\ Refuse("ENCRYPT")

Sized(input) ==
    /\ Encrypted
    /\ input # Oversized /\ ~(input.kind = "response" /\ input.token \in Long)

TooBig(input) == Encrypted /\ ~Sized(input) /\ Refuse("BADPROT")

\* The client completes the error exchange.
Complete(input) ==
    /\ Sized(input)
    /\ input = Terminator
    /\ Return("BADAUTH")
    /\ sdone' = TRUE
    /\ UNCHANGED sids

Parses(input) == Sized(input) /\ input.kind = "response" /\ input.token \notin Empty

Malformed(input) == Sized(input) /\ ~Parses(input) /\ input # Terminator /\ Refuse("BADPROT")

\* Mutant: the error is not published.
RejectUnpublished(input) ==
    /\ Parses(input) /\ input.token \notin valid
    /\ Return("CONTINUE")
    /\ UNCHANGED <<sdone, sids>>

\* server_out is published out of the context, which replaces an older one.
Reject(input) ==
    /\ Parses(input) /\ input.token \notin valid
    /\ ctx # None
    /\ ctx' = [server_out |-> Rejection]
    /\ sout' = Rejection
    /\ src' = "CONTINUE"
    /\ UNCHANGED <<tls_required, valid, ssf, sdone, sids>>

\* Mutant: what the verifier says of the token is not looked at.
VerifiedAnyway(input) == Parses(input)

Verified(input) == Parses(input) /\ input.token \in valid

NoCanonUser(input) == Verified(input) /\ Refuse("FAIL")

AuthzidNul(input) == Verified(input) /\ input.authzid \in Nul /\ Refuse("BADPROT")

Named(input) == Verified(input) /\ input.authzid \notin Nul

\* canon_user refuses the one name, or the first of two, ...
CanonFails(input) == Named(input) /\ Refuse("canon")

\* ... or the second, after the first is in the out parameters.
CanonFailsLate(input) ==
    /\ Named(input)
    /\ input.authzid # None
    /\ Return("canon")
    /\ sids' = [sids EXCEPT !.user = Canon[input.authzid]]
    /\ UNCHANGED sdone

\* Mutant: without an authzid only the authid is set.
AcceptSubjectOnly(input) ==
    /\ Named(input)
    /\ Return("OK")
    /\ sids' = [authid |-> Canon[Subject[input.token]],
                user |-> IF input.authzid = None THEN sids.user ELSE Canon[input.authzid]]
    /\ sdone' = TRUE

Accept(input) ==
    /\ Named(input)
    /\ Return("OK")
    /\ sids' = [authid |-> Canon[Subject[input.token]], user |-> Canon[UserOf(input)]]
    /\ sdone' = TRUE

server_step(input) ==
    \/ NoSsf \/ NotTls \/ TooBig(input) \/ Complete(input) \/ Malformed(input)
    \/ Reject(input)
    \/ NoCanonUser(input) \/ AuthzidNul(input) \/ CanonFails(input) \/ CanonFailsLate(input) \/ Accept(input)

==============================================================================
