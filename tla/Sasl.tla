--------------------------------- MODULE Sasl ---------------------------------
(***************************************************************************)
(* What the two ends of an OAUTHBEARER exchange share: the messages, and   *)
(* the canon_user callback of Cyrus SASL, which is external.               *)
(***************************************************************************)
EXTENDS Integers

CONSTANTS
    Tokens,     \* access tokens
    Long,       \* those that make a response of more than 65536 bytes
    Empty,      \* the empty one, which makes a response that does not parse
    Names,      \* user names
    Subject,    \* the uid claim of each token
    Canon,      \* what canon_user makes of each name
    None

ASSUME TokensAssumption == Long \cup Empty \subseteq Tokens
ASSUME SubjectAssumption == Subject \in [Tokens -> Names]
ASSUME CanonAssumption == Canon \in [Names -> Names]

\* build_client_response and parse_client_response: an empty authzid is no
\* authzid, and what is built parses to what it was built from.  They are
\* inverse for tokens and names without the separator %x01.
Response(authzid, token) == [kind |-> "response", authzid |-> authzid, token |-> token]
Terminator == [kind |-> "%x01"]
Rejection  == [kind |-> "json"]
Oversized  == [kind |-> "oversized"]    \* anything of more than 65536 bytes

Message == [kind: {"response"}, authzid: Names \cup {None}, token: Tokens]
               \cup {Terminator, Rejection, Oversized}

ASSUME NoNameAssumption == None \notin Names \cup Tokens \cup Message

\* The authorization identity of the response, or the subject itself.
UserOf(input) == IF input.authzid = None THEN Subject[input.token] ELSE input.authzid

\* The identities canon_user leaves in the out parameters: SASL_CU_AUTHID sets
\* authid, SASL_CU_AUTHZID sets user.
Identities == [authid: Names \cup {None}, user: Names \cup {None}]
NoIdentities == [authid |-> None, user |-> None]

==============================================================================
