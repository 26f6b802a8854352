---------------------------- MODULE SaslExchange ----------------------------
(***************************************************************************)
(* A client and a server on one connection, each behind libsasl and an     *)
(* application protocol (LDAP, IMAP, ...), which are external: they carry  *)
(* what a step returns to the other end, CONTINUE as data, and the         *)
(* server's OK and errors as the outcome.  Between any two steps tokens    *)
(* expire and become valid, and the connection may be lost.                *)
(***************************************************************************)
EXTENDS SaslClient, SaslServer

CONSTANT MaxExchanges   \* bounds the attempts on a connection

ASSUME ExchangesAssumption == MaxExchanges \in Nat
ASSUME NoWireAssumption == None \notin [to: {"client", "server"}, body: Message]

VARIABLES
    app,        \* where the client application is
    cin,        \* the server_in of its next step
    wire,       \* the message under way, or None
    exchanges   \* the attempts so far

appVars == <<app, cin, wire, exchanges>>
vars == <<clientVars, serverVars, appVars>>

Outcomes == {"success", "failure", "aborted"}
Outcome(o) == [kind |-> o]

TypeOK ==
    /\ ClientTypeOK
    /\ ServerTypeOK
    /\ app \in {"idle", "call", "ask", "wait", "lost"} \cup Outcomes
    /\ cin \in {None, Rejection}
    /\ wire \in {None} \cup [to: {"client", "server"}, body: Message \cup {Outcome("success"), Outcome("failure")}]
    /\ exchanges \in 0 .. MaxExchanges

Init ==
    /\ ClientInit /\ ServerInit
    /\ app = "idle" /\ cin = None /\ wire = None /\ exchanges = 0

------------------------------------------------------------------------------
\* sasl_client_start: a context for a new attempt with its own credentials.
Start ==
    /\ app = "idle" /\ ctx = None /\ exchanges < MaxExchanges
    /\ client_mech_new
    /\ app' = "call" /\ cin' = None
    /\ exchanges' = exchanges + 1
    /\ UNCHANGED <<wire, serverVars>>

\* What the application makes of the return of a client step.
ClientCall ==
    /\ app = "call"
    /\ client_step(cin)
    /\ app' = CASE crc' \in {"OK", "CONTINUE"} -> "wait"
                [] crc' = "INTERACT"           -> "ask"
                [] OTHER                       -> "aborted"
    /\ wire' = IF app' = "wait" THEN [to |-> "server", body |-> cout'] ELSE None
    /\ UNCHANGED <<cin, exchanges, serverVars>>

\* It may leave a prompt open.
Prompt == app = "ask" /\ (\E id \in Ids : FillIn(id)) /\ UNCHANGED <<serverVars, appVars>>

Resume ==
    /\ app = "ask"
    /\ app' = "call"
    /\ UNCHANGED <<cin, wire, exchanges, clientVars, serverVars>>

ClientReceive ==
    /\ app = "wait" /\ wire # None /\ wire.to = "client"
    /\ wire' = None
    /\ IF wire.body.kind \in Outcomes
       THEN app' = wire.body.kind /\ UNCHANGED cin
       ELSE app' = "call" /\ cin' = wire.body
    /\ UNCHANGED <<exchanges, clientVars, serverVars>>

\* The application takes the outcome, frees what it holds, and may try again.
Leave ==
    /\ app \in Outcomes \cup {"lost"} /\ cctx # None
    /\ client_mech_dispose
    /\ UNCHANGED <<serverVars, appVars>>

TryAgain ==
    /\ app \in Outcomes /\ cctx = None /\ slot = None
    /\ app' = "idle"
    /\ UNCHANGED <<cin, wire, exchanges, clientVars, serverVars>>

Release == cctx = None /\ FreePrompts /\ UNCHANGED <<serverVars, appVars>>

------------------------------------------------------------------------------
ForServer == wire # None /\ wire.to = "server"

\* sasl_server_start
ServerStart == ForServer /\ server_mech_new /\ UNCHANGED <<clientVars, appVars>>

ServerCall ==
    /\ ForServer
    /\ server_step(wire.body)
    /\ wire' = [to |-> "client",
                body |-> CASE src' = "OK"       -> Outcome("success")
                           [] src' = "CONTINUE" -> sout'
                           [] OTHER             -> Outcome("failure")]
    /\ UNCHANGED <<app, cin, exchanges, clientVars>>

\* libsasl disposes of the context when the exchange is over, for either end.
ServerLeave ==
    /\ app \in Outcomes \cup {"lost", "idle"}
    /\ server_mech_dispose
    /\ UNCHANGED <<clientVars, appVars>>

\* The connection is lost, and what is under way with it.
Lose ==
    /\ app \in {"call", "ask", "wait"}
    /\ app' = "lost"
    /\ wire' = None
    /\ UNCHANGED <<cin, exchanges, clientVars, serverVars>>

\* A new connection: its oparams hold no identities.
Reconnect ==
    /\ app = "lost" /\ ctx = None /\ cctx = None /\ slot = None
    /\ app' = "idle"
    /\ sids' = NoIdentities /\ cids' = NoIdentities
    /\ UNCHANGED <<settings, wanted, cctx, heap, slot, cout, cdone, crc>>
    /\ UNCHANGED <<tls_required, valid, ssf, ctx, sout, sdone, src, cin, wire, exchanges>>

Pass == Drift /\ UNCHANGED <<clientVars, appVars>>

------------------------------------------------------------------------------
Next ==
    \/ Start \/ ClientCall \/ Prompt \/ Resume \/ ClientReceive \/ Leave \/ TryAgain
    \/ Release \/ ServerStart \/ ServerCall \/ ServerLeave \/ Lose \/ Reconnect \/ Pass

Spec == Init /\ [][Next]_vars

\* Both applications go on with an exchange that is under way.  Nobody has to
\* start one, to answer a prompt, or to lose the connection.
Fairness ==
    /\ WF_vars(ClientCall) /\ WF_vars(Resume) /\ WF_vars(ClientReceive)
    /\ WF_vars(ServerStart) /\ WF_vars(ServerCall)

FairSpec == Spec /\ Fairness

------------------------------------------------------------------------------
\* A client that is told of success is known to the server as the subject of the
\* token it sent in this attempt and as the user it asked to be, or as that
\* subject where it asked for none, whatever an earlier attempt left behind.
IdentitiesAgree ==
    app = "success" /\ cctx # None =>
        /\ cctx.output.kind = "response"
        /\ cctx.output.token = wanted.token
        /\ sids = [authid |-> Canon[Subject[wanted.token]],
                   user   |-> Canon[UserOf(cctx.output)]]

\* A client that has completed the error exchange is never let in by it: its
\* %x01 cannot be taken for the response again, not even when the token that
\* was rejected has become valid (client.rs, run; server.rs, server_step).
NoSplitOutcome ==
    app # "idle" /\ cdone => app # "success" /\ src # "OK"

\* Where the attempt is for both ends together, ...
Stage ==
    IF app \in {"call", "ask"} THEN IF cin = None THEN "open" ELSE "denied"
    ELSE IF app # "wait"        THEN app
    ELSE IF ForServer           THEN IF wire.body = Terminator THEN "denied" ELSE "asked"
    ELSE IF wire.body = Outcome("success") THEN "granted" ELSE "denied"

\* ... what the client has asked for, and whom the server has let in.
Request == IF cctx # None /\ Stage \in {"asked", "granted", "success"} THEN cctx.output ELSE None
Granted == IF ctx # None /\ src = "OK" THEN sids ELSE None

Auth == INSTANCE Authentication
        WITH stage <- Stage, request <- Request, granted <- Granted, secure <- Encrypted

\* The exchange implements Authentication: with messages that get lost, tokens
\* that change between the steps, error exchanges and retries the server still
\* decides once in an attempt, for what this client asked, and the client is told
\* just that (client.rs, run; server.rs, server_step).
IsAuthentication == Auth!Spec

\* Every attempt ends: neither end waits for the other for ever, and the
\* rejection of a token is at most one round trip.
AttemptsEnd == app \in {"call", "ask", "wait"} ~> app \in Outcomes \cup {"lost"}

==============================================================================
