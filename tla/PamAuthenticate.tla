--------------------------- MODULE PamAuthenticate ---------------------------
(***************************************************************************)
(* pam_sm_authenticate, pam/src/lib.rs and pam/src/ffi.rs: logins that run *)
(* in one process while the administrator edits the configuration file and *)
(* the JWKS.  A transaction of an application is one PAM handle, on which  *)
(* the stack may call the module more than once, with arguments of its own *)
(* each time, and other modules in between.                                *)
(*                                                                         *)
(* The two caches are what they promise, FreshRead (ConfigCache and        *)
(* VerifierCache show that cache.rs keeps it).  libpam, the application's  *)
(* conversation and the password database are external: each call of them  *)
(* may fail.                                                               *)
(***************************************************************************)
EXTENDS PamOptions

CONSTANTS
    Threads,
    Stack,      \* the arguments of the module in the PAM stack
    Files,      \* contents of the configuration file, [lines, exposed], or None
    Docs,       \* contents of the JWKS, the sets of their usable keys, or None
    Tokens,     \* [key, aud, name]
    Users,
    Hosts,      \* None where PAM_RHOST is not set, as where it cannot be read
    Garbage,    \* an answer that is not UTF-8, ...
    Replaced,   \* ... and what to_string_lossy makes of it
    None

ASSUME AnswersAssumption ==
    /\ None \notin Tokens /\ None \notin Users /\ None \notin Stack /\ Garbage # None
    /\ Garbage \notin Tokens /\ Replaced \notin Tokens

VARIABLES
    file, fileAt, fileSeen, config,     \* cache::config of the file
    jwks, jwksAt, jwksSeen, keys,       \* Config::verifier
    handle,     \* PAM_USER, PAM_RHOST and PAM_AUTHTOK of each transaction
    call,       \* the call of the module: arguments, place, token and result
    talk        \* the conversation of the transaction (history)

fileVars == <<file, fileAt, fileSeen, config>>
jwksVars == <<jwks, jwksAt, jwksSeen, keys>>
vars == <<fileVars, jwksVars, handle, call, talk>>

\* What cache::config may make of a file.  Any read may fail.  One that others
\* may write is refused, unless it was private when it was opened and exposed
\* before it was read.
Private(v) == v # None /\ ~v.exposed
Reading(v) == {Err} \cup IF v = None THEN {} ELSE {parse_config(v.lines)}
Readings == [v \in Files |-> Reading(v)]

Conf == INSTANCE FreshRead WITH
    Values <- Files, Answers <- Readings,
    value <- file, at <- fileAt, seen <- fileSeen, answer <- config

\* What Config::verifier reads, or None where that fails.
Echo == [v \in Docs |-> {v, None}]

Jwks == INSTANCE FreshRead WITH
    Values <- Docs, Answers <- Echo,
    value <- jwks, at <- jwksAt, seen <- jwksSeen, answer <- keys

------------------------------------------------------------------------------
Answers  == Tokens \cup {Garbage}
lossy(answer) == IF answer = Garbage THEN Replaced ELSE answer

Codes == {"SUCCESS", "AUTH_ERR", "SYSTEM_ERR", "OPEN_ERR", "IGNORE", "TRY_AGAIN",
          "CONV_ERR", "libpam"}
Places == {"out", "config", "only_from", "user", "account", "authtok", "ask",
           "verifier", "jwks", "verify", "done"}

Handle == [user: Users \cup {None}, rhost: Hosts, authtok: Answers \cup {None}]
Call   == [raw: Stack \cup {None}, pc: Places, rc: Codes \cup {None},
           token: Tokens \cup {None, Replaced}]
Talk   == [answer: Answers \cup {None}, stored: BOOLEAN, again: BOOLEAN]

TypeOK ==
    /\ file \in Files /\ jwks \in Docs
    /\ fileAt \in [Threads -> {"idle", "running", "done"}]
    /\ jwksAt \in [Threads -> {"idle", "running", "done"}]
    /\ fileSeen \in [Threads -> SUBSET Files]
    /\ jwksSeen \in [Threads -> SUBSET Docs]
    /\ config \in [Threads -> {None} \cup UNION {Readings[v] : v \in Files}]
    /\ keys \in [Threads -> {None} \cup Docs]
    /\ handle \in [Threads -> Handle]
    /\ call \in [Threads -> Call]
    /\ talk \in [Threads -> Talk]

NoCall == [raw |-> None, pc |-> "out", rc |-> None, token |-> None]
Silent == [answer |-> None, stored |-> FALSE, again |-> FALSE]

Init ==
    /\ Conf!Init /\ Jwks!Init
    /\ handle \in [Threads -> [user: Users \cup {None}, rhost: Hosts, authtok: {None}]]
    /\ call = [t \in Threads |-> NoCall]
    /\ talk = [t \in Threads |-> Silent]

------------------------------------------------------------------------------
(* The world around the calls.                                             *)

EditConfig == Conf!Change /\ UNCHANGED <<jwksVars, handle, call, talk>>
EditJwks   == Jwks!Change /\ UNCHANGED <<fileVars, handle, call, talk>>

\* Another module of the stack asks for a password, if there is none yet.
OtherModule(t) ==
    /\ call[t].pc = "out" /\ handle[t].authtok = None
    /\ \E a \in Answers : handle' = [handle EXCEPT ![t].authtok = a]
    /\ UNCHANGED <<fileVars, jwksVars, call, talk>>

\* The transaction ends, and its thread serves the next.
NextTransaction(t) ==
    /\ call[t].pc = "out"
    /\ \E u \in Users \cup {None}, h \in Hosts :
        handle' = [handle EXCEPT ![t] = [user |-> u, rhost |-> h, authtok |-> None]]
    /\ talk' = [talk EXCEPT ![t] = Silent]
    /\ UNCHANGED <<fileVars, jwksVars, call>>

------------------------------------------------------------------------------
(* The call.                                                               *)

\* What the arguments of each entry of the stack come to.
Path   == [raw \in Stack |-> config_path(raw)]
Inline == [raw \in Stack |-> parse_inline_args(raw)]

FromFile(raw)   == Path[raw] = Ok(TRUE)
FromInline(raw) == Path[raw] = Ok(FALSE) /\ Inline[raw].ok

Args(t) == IF FromFile(call[t].raw) THEN config[t].value ELSE Inline[call[t].raw].value

Goes(t, from, to) ==
    /\ call[t].pc = from
    /\ call' = [call EXCEPT ![t].pc = to]

Returns(t, from, code) ==
    /\ call[t].pc = from
    /\ call' = [call EXCEPT ![t].pc = "done", ![t].rc = code]

Quietly == UNCHANGED <<fileVars, jwksVars, handle, talk>>

Enters(t, raw, to, rc) ==
    /\ call[t].pc = "out"
    /\ call' = [call EXCEPT ![t] = [raw |-> raw, pc |-> to, rc |-> rc, token |-> None]]

\* pam_sm_authenticate with a handle that is NULL.
NoHandle(t) == Enters(t, None, "done", "SYSTEM_ERR") /\ Quietly

\* The other entry points: they look at nothing.
OtherEntry(t) == Enters(t, None, "done", "SUCCESS") /\ Quietly

\* The arguments do not go together, or one of them is wrong.
BadArgs(t) ==
    /\ \E raw \in Stack :
        /\ ~FromFile(raw) /\ ~FromInline(raw)
        /\ Enters(t, raw, "done", "SYSTEM_ERR")
    /\ Quietly

EnterInline(t) ==
    /\ \E raw \in Stack :
        /\ FromInline(raw)
        /\ Enters(t, raw, "only_from", None)
    /\ Quietly

EnterFile(t) ==
    /\ \E raw \in Stack :
        /\ FromFile(raw)
        /\ Enters(t, raw, "config", None)
    /\ Conf!Begin(t)
    /\ UNCHANGED <<jwksVars, handle, talk>>

ConfigFails(t) ==
    /\ Conf!Return(t) /\ ~config'[t].ok
    /\ Returns(t, "config", "SYSTEM_ERR")
    /\ UNCHANGED <<jwksVars, handle, talk>>

\* (NeverFromExposed of ConfigCache)
ConfigReturns(t) ==
    /\ Conf!Return(t) /\ config'[t].ok
    /\ \E v \in fileSeen[t] : Private(v)
    /\ Goes(t, "config", "only_from")
    /\ UNCHANGED <<jwksVars, handle, talk>>

\* The host, where pam_get_item does not fail.
Ignored(t) ==
    /\ call[t].pc = "only_from" /\ Args(t).only_from # <<>>
    /\ \E host \in {None, handle[t].rhost} :
        host = None \/ ~only_from_allows(Args(t).only_from, host)
    /\ Returns(t, "only_from", "IGNORE") /\ Quietly

HostAllowed(t) ==
    /\ call[t].pc = "only_from"
    /\ \/ Args(t).only_from = <<>>
       \/ handle[t].rhost # None /\ only_from_allows(Args(t).only_from, handle[t].rhost)
    /\ Goes(t, "only_from", "user") /\ Quietly

\* pam_get_user, which asks for the name if the application did not give it.
UserFails(t) == Returns(t, "user", "libpam") /\ Quietly
UserIsNull(t) == handle[t].user = None /\ Returns(t, "user", "AUTH_ERR") /\ Quietly

User(t) ==
    /\ Goes(t, "user", "account")
    /\ \E u \in Users :
        /\ handle[t].user \in {u, None}
        /\ handle' = [handle EXCEPT ![t].user = u]
    /\ UNCHANGED <<fileVars, jwksVars, talk>>

\* The account does not have to exist.
AccountFails(t)  == Returns(t, "account", "TRY_AGAIN") /\ Quietly
account_exists(t) == Goes(t, "account", "authtok") /\ Quietly

ItemFails(t) == Returns(t, "authtok", "libpam") /\ Quietly

\* Mutant: as it is.
StoredRaw(t) ==
    /\ call[t].pc = "authtok" /\ handle[t].authtok # None
    /\ call' = [call EXCEPT ![t].token = handle[t].authtok, ![t].pc = "verifier"]
    /\ Quietly

\* An answer from earlier in the stack, as a String.
Stored(t) ==
    /\ call[t].pc = "authtok" /\ handle[t].authtok # None
    /\ call' = [call EXCEPT ![t].token = lossy(handle[t].authtok), ![t].pc = "verifier"]
    /\ Quietly

NotStored(t) == handle[t].authtok = None /\ Goes(t, "authtok", "ask") /\ Quietly

\* There is no conversation, or it fails, or it has no answer.
ConvFails(t) == (\E rc \in {"libpam", "CONV_ERR"} : Returns(t, "ask", rc)) /\ Quietly

Told(t, a, stored) ==
    talk' = [talk EXCEPT ![t] = [answer |-> a, stored |-> stored,
                                 again |-> talk[t].again \/ talk[t].stored]]

\* Mutant: the answer is stored only once it is known to be UTF-8.
AnsweredUtf8(t) ==
    /\ call[t].pc = "ask"
    /\ \E a \in Answers, stored \in BOOLEAN :
        /\ handle' = [handle EXCEPT ![t].authtok = IF stored /\ a # Garbage THEN a ELSE None]
        /\ Told(t, a, stored)
        /\ call' = [call EXCEPT ![t] = IF a = Garbage THEN [@ EXCEPT !.pc = "done", !.rc = "AUTH_ERR"]
                                       ELSE [@ EXCEPT !.pc = "verifier", !.token = a]]
    /\ UNCHANGED <<fileVars, jwksVars>>

\* Mutant: the stack gets the String.
AnsweredLossy(t) ==
    /\ call[t].pc = "ask"
    /\ \E a \in Answers, stored \in BOOLEAN :
        /\ handle' = [handle EXCEPT ![t].authtok = IF stored THEN lossy(a) ELSE None]
        /\ Told(t, a, stored)
        /\ call' = [call EXCEPT ![t].pc = "verifier", ![t].token = lossy(a)]
    /\ UNCHANGED <<fileVars, jwksVars>>

\* converse_secret, set_authtok (which may fail) and into_string.
Answered(t) ==
    /\ call[t].pc = "ask"
    /\ \E a \in Answers, stored \in BOOLEAN :
        /\ handle' = [handle EXCEPT ![t].authtok = IF stored THEN a ELSE None]
        /\ Told(t, a, stored)
        /\ call' = [call EXCEPT ![t] = IF a = Garbage THEN [@ EXCEPT !.pc = "done", !.rc = "AUTH_ERR"]
                                       ELSE [@ EXCEPT !.pc = "verifier", !.token = a]]
    /\ UNCHANGED <<fileVars, jwksVars>>

\* Config::verifier without an issuer or a path: the JWKS is not looked at.
NoIssuer(t) ==
    /\ call[t].pc = "verifier" /\ Unset \in {Args(t).iss, Args(t).jwks}
    /\ Returns(t, "verifier", "OPEN_ERR") /\ Quietly

VerifierBegins(t) ==
    /\ call[t].pc = "verifier" /\ Unset \notin {Args(t).iss, Args(t).jwks}
    /\ Jwks!Begin(t)
    /\ Goes(t, "verifier", "jwks")
    /\ UNCHANGED <<fileVars, handle, talk>>

\* Mutant: it is tried again, until there is a file.
ReadRetried(t) ==
    /\ jwksAt[t] = "running" /\ None \in jwksSeen[t]
    /\ jwksAt' = [jwksAt EXCEPT ![t] = "idle"]
    /\ Goes(t, "jwks", "verifier")
    /\ UNCHANGED <<jwks, jwksSeen, keys, fileVars, handle, talk>>

ReadFails(t) ==
    /\ Jwks!Return(t) /\ keys'[t] = None
    /\ Returns(t, "jwks", "OPEN_ERR")
    /\ UNCHANGED <<fileVars, handle, talk>>

Builds(t) == keys'[t] # {} /\ Args(t).iss # <<>> /\ Args(t).trusted_aud # <<>>

BuildFails(t) ==
    /\ Jwks!Return(t) /\ keys'[t] # None /\ ~Builds(t)
    /\ Returns(t, "jwks", "SYSTEM_ERR")
    /\ UNCHANGED <<fileVars, handle, talk>>

VerifierReturns(t) ==
    /\ Jwks!Return(t) /\ keys'[t] # None /\ Builds(t)
    /\ Goes(t, "jwks", "verify")
    /\ UNCHANGED <<fileVars, handle, talk>>

\* What the verifier accepts, if the token is in its time and well signed
\* (module JwtVerifier).
Accepts(policy, doc, token) ==
    /\ token \in Tokens
    /\ token.key \in doc
    /\ token.aud \in ToSet(policy.trusted_aud)
    /\ token.name \notin ToSet(policy.disallowed_usernames)

Rejected(t) == Returns(t, "verify", "AUTH_ERR") /\ Quietly

OtherUser(t) ==
    /\ call[t].pc = "verify" /\ Accepts(Args(t), keys[t], call[t].token)
    /\ call[t].token.name # handle[t].user
    /\ Returns(t, "verify", "AUTH_ERR") /\ Quietly

Success(t) ==
    /\ call[t].pc = "verify" /\ Accepts(Args(t), keys[t], call[t].token)
    /\ call[t].token.name = handle[t].user
    /\ Returns(t, "verify", "SUCCESS") /\ Quietly

\* The Arcs of the configuration and of the verifier are dropped.
Leave(t) ==
    /\ call[t].pc = "done"
    /\ call' = [call EXCEPT ![t] = NoCall]
    /\ IF fileAt[t] = "done" THEN Conf!Finish(t) ELSE UNCHANGED fileVars
    /\ IF jwksAt[t] = "done" THEN Jwks!Finish(t) ELSE UNCHANGED jwksVars
    /\ UNCHANGED <<handle, talk>>

authenticate(t) ==
    \/ ConfigFails(t) \/ ConfigReturns(t) \/ Ignored(t) \/ HostAllowed(t)
    \/ UserFails(t) \/ UserIsNull(t) \/ User(t) \/ AccountFails(t) \/ account_exists(t)
    \/ ItemFails(t) \/ Stored(t) \/ NotStored(t) \/ ConvFails(t) \/ Answered(t)
    \/ NoIssuer(t) \/ VerifierBegins(t) \/ ReadFails(t) \/ BuildFails(t) \/ VerifierReturns(t)
    \/ Rejected(t) \/ OtherUser(t) \/ Success(t) \/ Leave(t)

Enter(t) == NoHandle(t) \/ OtherEntry(t) \/ BadArgs(t) \/ EnterInline(t) \/ EnterFile(t)

Next ==
    \/ EditConfig \/ EditJwks
    \/ \E t \in Threads : OtherModule(t) \/ NextTransaction(t) \/ Enter(t) \/ authenticate(t)

Spec == Init /\ [][Next]_vars

\* A thread inside a call goes on: what it waits for, the caches and the user
\* at the prompt, answers in the end.
FairSpec == Spec /\ \A t \in Threads : WF_vars(authenticate(t))

------------------------------------------------------------------------------
\* The configurations the call may have been under: the file's while it was
\* looked up, if it was private at all, or the arguments.
Policies(t) ==
    IF ~FromFile(call[t].raw) THEN {Inline[call[t].raw].value}
    ELSE IF \A v \in fileSeen[t] : ~Private(v) THEN {}
    ELSE {r.value : r \in {a \in UNION {Readings[v] : v \in fileSeen[t]} : a.ok}}

\* Whoever is let in gave a token for just that user, from a host of every
\* only_from list, that one configuration and one JWKS of the time of this call
\* accept: edits of either file while the user is at the prompt, a token left by
\* another module and a retry with other arguments included (lib.rs,
\* authenticate).
LetInByPolicy ==
    \A t \in Threads :
        (call[t].pc = "done" /\ call[t].rc = "SUCCESS" /\ call[t].raw # None) =>
            \E policy \in Policies(t), doc \in jwksSeen[t] \ {None} :
                /\ \A i \in DOMAIN policy.only_from : handle[t].rhost \in policy.only_from[i]
                /\ Unset \notin {policy.iss, policy.jwks} /\ policy.iss # <<>>
                /\ Accepts(policy, doc, call[t].token)
                /\ call[t].token.name = handle[t].user
                /\ call[t].token \in {handle[t].authtok, talk[t].answer}

\* However many calls the stack makes, the user is asked only once, unless
\* libpam could not keep the answer (lib.rs, set_authtok before into_string).
AskedOnce == \A t \in Threads : ~talk[t].again

\* The modules after this one get what the user typed, byte for byte, whatever
\* became of the call (lib.rs, set_authtok).
StackSeesAnswer ==
    \A t \in Threads : talk[t].stored => handle[t].authtok = talk[t].answer

\* Every call returns to libpam, and the thread is ready for the next one.
LoginEnds == \A t \in Threads : call[t].pc # "out" ~> call[t].pc = "out"

==============================================================================
