---------------------------- MODULE Authentication ----------------------------
(***************************************************************************)
(* What an exchange promises to both ends, whatever messages carry it: in  *)
(* an attempt the client asks once, the server decides once, and grants    *)
(* only what was asked for, by a token that is valid when it decides.  The *)
(* client is told what was decided, or the connection is lost.             *)
(***************************************************************************)
EXTENDS Sasl

VARIABLES
    stage,      \* of the attempt
    request,    \* the response the client has asked with, until it is denied
    granted,    \* the identities the server has let in, or None
    valid,      \* the tokens that are valid at this time
    secure      \* the connection is as safe as the server wants it

vars == <<stage, request, granted, valid, secure>>

Requests == {m \in Message : m.kind = "response"}
Over     == {"success", "failure", "aborted", "lost"}

Identity(m) == [authid |-> Canon[Subject[m.token]], user |-> Canon[UserOf(m)]]

Init ==
    /\ stage = "idle" /\ request = None /\ granted = None
    /\ valid \subseteq Tokens
    /\ secure \in BOOLEAN

\* The attempt goes on; the server's decision stays.
Moves(from, to) ==
    /\ stage \in from
    /\ stage' = to
    /\ UNCHANGED <<valid, secure>>

Begin == granted = None /\ Moves({"idle"}, "open") /\ UNCHANGED <<request, granted>>

Ask == request' \in Requests /\ Moves({"open"}, "asked") /\ UNCHANGED granted

Grant ==
    /\ Moves({"asked"}, "granted")
    /\ secure /\ request.token \in valid /\ granted = None
    /\ granted' = Identity(request)
    /\ UNCHANGED request

\* For whatever reason, and for good: from here there is no way to a grant.
Deny == request' = None /\ Moves({"asked"}, "denied") /\ UNCHANGED granted

Succeed == Moves({"granted"}, "success") /\ UNCHANGED <<request, granted>>
Fail    == Moves({"denied"}, "failure") /\ UNCHANGED <<request, granted>>
Abort   == Moves({"open"}, "aborted") /\ UNCHANGED <<request, granted>>

Lose ==
    /\ Moves({"open", "asked", "granted", "denied"}, "lost")
    /\ request' = None /\ UNCHANGED granted

\* Each end forgets the attempt by itself.
ClientForgets ==
    /\ stage = "success" /\ request' = None
    /\ UNCHANGED <<stage, granted, valid, secure>>

ServerForgets ==
    /\ stage \in Over \cup {"idle"} /\ granted' = None
    /\ UNCHANGED <<stage, request, valid, secure>>

Again == request = None /\ Moves(Over, "idle") /\ UNCHANGED <<request, granted>>

TimePasses == valid' \subseteq Tokens /\ UNCHANGED <<stage, request, granted, secure>>

Next ==
    \/ Begin \/ Ask \/ Grant \/ Deny \/ Succeed \/ Fail \/ Abort \/ Lose
    \/ ClientForgets \/ ServerForgets \/ Again \/ TimePasses

Spec == Init /\ [][Next]_vars

==============================================================================
