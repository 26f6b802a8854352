------------------------------ MODULE JwtVerifier ------------------------------
(***************************************************************************)
(* JwtVerifier::verify of core/src/jwt.rs: a verifier that was loaded from *)
(* a JWKS judges tokens, the same one again and again while time passes.   *)
(* Each check is a step of its own, in the order of the code.              *)
(*                                                                         *)
(* A signature is the key material and the algorithm it was made with: the *)
(* cryptography of jsonwebtoken is taken to be ideal.                      *)
(***************************************************************************)
EXTENDS Jwks, TokenDates

CONSTANTS
    Tokens,         \* the tokens presented
    Usernames,
    Trimmed,        \* a name without surrounding white space
    Lower,          \* a name in lower case
    WithControls,   \* the names with control characters
    MaxNow          \* bound on the clock

Claims == [iss: Names \cup {None}, aud: SUBSET Names, azp: Names \cup {None},
           exp: Claim \cup {Absent}, nbf: Claim \cup {Absent}, iat: Claim \cup {Absent},
           scope: SUBSET Names, uid: Usernames \cup {None}]

\* shape: long enough, with two dots.  header, claims: None if they do not
\* parse.  A claim of the wrong type is None, which no check tells from a
\* missing one; a date may be of type other.
Token == [shape: BOOLEAN,
          header: [alg: Algorithms, kid: Kids \cup {None}] \cup {None},
          signature: [key: Materials, alg: Algorithms],
          claims: Claims \cup {None}]

Policy == [trusted_issuer: Names \cup {None}, trusted_audiences: SUBSET Names,
           trusted_authorized_parties: SUBSET Names, required_scopes: SUBSET Names,
           disallowed_usernames: SUBSET Usernames, grace: I64,
           allowed_algorithms: SUBSET Algorithms \cup {None},
           disallowed_algorithms: SUBSET Algorithms]

ASSUME TokensAssumption == Tokens \subseteq Token
ASSUME PoliciesAssumption == Policies \subseteq Policy
ASSUME UsernamesAssumption ==
    /\ Trimmed \in [Usernames -> Usernames]
    /\ Lower \in [Usernames -> Usernames]
    /\ WithControls \subseteq Usernames
    /\ None \notin Usernames \cup [alg: Algorithms, kid: Kids \cup {None}] \cup Claims
ASSUME MaxNowAssumption == MaxNow \in 0 .. I64_MAX
ASSUME VerdictAssumption == None # "Ok"

VARIABLES
    now,        \* SystemTime::now(), in seconds
    token,      \* the token presented
    phase,      \* the next check, "ready" before and "done" after them
    verdict,    \* "Ok", the error of the check that failed, or None
    checkedAt,  \* when the dates were checked (history)
    window      \* what the same token met so far: "before", "inside" or
                \* "after" its acceptance (history)

verifyVars == <<token, phase, verdict, checkedAt, window>>
vars == <<jwksVars, now, verifyVars>>

Phases == {"shape", "algorithm", "kid", "metadata", "decode", "issuer", "audience",
           "party", "dates", "scopes", "uid", "username"}

Errors == {"ParseError", "InvalidSignature", "UnknownSigningKey", "InvalidIssuer",
           "InvalidAudience", "InvalidAuthorizedParty", "MissingExpiration",
           "ClaimExpired", "MissingScope", "MissingUidClaim", "InvalidUidClaim",
           "DisallowedUsername"}

TypeOK ==
    /\ JwksTypeOK
    /\ now \in 0 .. MaxNow
    /\ token \in Tokens
    /\ phase \in Phases \cup {"ready", "done"}
    /\ verdict \in Errors \cup {"Ok", None}
    /\ checkedAt \in 0 .. MaxNow
    /\ window \in {"before", "inside", "after"}

Init ==
    /\ JwksInit
    /\ now = 0
    /\ token \in Tokens
    /\ phase = "ready"
    /\ verdict = None
    /\ checkedAt = 0
    /\ window = "before"

------------------------------------------------------------------------------
LEGACY_ALLOWED_ALGORITHMS ==
    {"RS256", "RS384", "RS512", "PS256", "PS384", "PS512", "ES256", "ES384", "EdDSA"}

algorithm_allowed(alg) ==
    /\ alg \in IF policy.allowed_algorithms = None THEN LEGACY_ALLOWED_ALGORITHMS
                                                   ELSE policy.allowed_algorithms
    /\ alg \notin policy.disallowed_algorithms

algorithm_matches_key_type(alg, kty, crv) ==
    \/ kty = "RSA" /\ alg \in {"RS256", "RS384", "RS512", "PS256", "PS384", "PS512"}
    \/ kty = "EC"  /\ alg = "ES256" /\ crv \in {None, "P-256"}
    \/ kty = "EC"  /\ alg = "ES384" /\ crv \in {None, "P-384"}
    \/ kty = "OKP" /\ alg = "EdDSA" /\ crv \in {None, "Ed25519"}
    \/ kty = "oct" /\ alg \in {"HS256", "HS384", "HS512"}

JwkMetadataWithoutType(meta, alg) ==
    /\ ForSignatures(meta)
    /\ meta.alg # None => parse_algorithm_name(meta.alg) = alg

check_jwk_metadata(meta, alg) ==
    /\ ForSignatures(meta)
    /\ meta.alg # None => parse_algorithm_name(meta.alg) = alg
    /\ algorithm_matches_key_type(alg, meta.kty, meta.crv)

KeysOfKid(kid) == {k \in keys : k.kid = kid}
signing_key    == CHOOSE k \in keys : k.kid = token.header.kid

\* The signature check of jsonwebtoken.
SignatureValid == token.signature = [key |-> signing_key.key, alg |-> token.header.alg]

check_authorized_party(azp) ==
    policy.trusted_authorized_parties # {} => azp \in policy.trusted_authorized_parties

check_username(uid) ==
    \A name \in policy.disallowed_usernames : Lower[name] # Lower[uid]

------------------------------------------------------------------------------
\* The verdict is kept for the window: rejected by the dates after it was
\* accepted, the token is past its time.
NextWindow(result) ==
    IF result = "Ok" /\ window = "before" THEN "inside"
    ELSE IF result \in Errors /\ window = "inside" THEN "after" ELSE window

Decide(result) ==
    /\ phase' = "done"
    /\ verdict' = result
    /\ window' = NextWindow(result)

\* One check: on to the next one, or an early return with the error.
Check(at, passes, next, error) ==
    /\ phase = at
    /\ IF passes THEN phase' = next /\ UNCHANGED <<verdict, window>>
                 ELSE Decide(error)
    /\ UNCHANGED <<jwksVars, now, token, checkedAt>>

\* Header decoding is the last thing that may fail to parse before the key is
\* selected.
CheckShape == Check("shape", token.shape /\ token.header # None, "algorithm", "ParseError")

CheckAlgorithm ==
    Check("algorithm", algorithm_allowed(token.header.alg), "kid", "InvalidSignature")

SelectKey ==
    Check("kid", token.header.kid # None /\ KeysOfKid(token.header.kid) # {},
          "metadata", "UnknownSigningKey")

CheckMetadata ==
    Check("metadata", check_jwk_metadata(signing_key.meta, token.header.alg),
          "decode", "InvalidSignature")

\* decode verifies the signature before it looks at the claims.
CheckSignature ==
    Check("decode", SignatureValid /\ token.claims # None, "issuer",
          IF SignatureValid THEN "ParseError" ELSE "InvalidSignature")

CheckIssuer ==
    Check("issuer", token.claims.iss = policy.trusted_issuer, "audience", "InvalidIssuer")

CheckAudience ==
    Check("audience", token.claims.aud \cap policy.trusted_audiences # {},
          "party", "InvalidAudience")

CheckParty ==
    Check("party", check_authorized_party(token.claims.azp), "dates", "InvalidAuthorizedParty")

CheckDates ==
    /\ phase = "dates"
    /\ LET result == check_validity_dates(token.claims, now, policy.grace)
       IN  IF result = "Ok" THEN phase' = "scopes" /\ UNCHANGED <<verdict, window>>
                            ELSE Decide(result)
    /\ checkedAt' = now
    /\ UNCHANGED <<jwksVars, now, token>>

CheckScopes ==
    Check("scopes", policy.required_scopes \subseteq token.claims.scope, "uid", "MissingScope")

ExtractUid ==
    LET uid == token.claims.uid
    IN  Check("uid", uid # None /\ Trimmed[uid] = uid /\ uid \notin WithControls,
              "username", IF uid = None THEN "MissingUidClaim" ELSE "InvalidUidClaim")

CheckUsername ==
    /\ phase = "username"
    /\ Decide(IF check_username(token.claims.uid) THEN "Ok" ELSE "DisallowedUsername")
    /\ UNCHANGED <<jwksVars, now, token, checkedAt>>

\* The token is presented, and again once there is a verdict.
Verify ==
    /\ loading = "ok"
    /\ phase \in {"ready", "done"}
    /\ phase' = "shape"
    /\ verdict' = None
    /\ UNCHANGED <<jwksVars, now, token, checkedAt, window>>

PassTime ==
    /\ now < MaxNow
    /\ now' = now + 1
    /\ UNCHANGED <<jwksVars, verifyVars>>

from_jwks_json == Load /\ UNCHANGED <<now, verifyVars>>

verify ==
    \/ Verify
    \/ CheckShape \/ CheckAlgorithm \/ SelectKey \/ CheckMetadata \/ CheckSignature
    \/ CheckIssuer \/ CheckAudience \/ CheckParty \/ CheckDates \/ CheckScopes
    \/ ExtractUid \/ CheckUsername

Next == from_jwks_json \/ verify \/ PassTime

Spec == Init /\ [][Next]_vars

------------------------------------------------------------------------------
(* Properties.                                                             *)

\* The token was signed with the key of an entry of the document that is
\* meant for it, by an algorithm the policy allows.
SignedAsConfigured ==
    \E i \in DOMAIN raw_keys :
        LET k   == raw_keys[i]
            alg == token.header.alg
        IN  /\ Usable(k) /\ k.kid = token.header.kid
            /\ token.signature = [key |-> k.key, alg |-> alg]
            /\ k.alg \in {None, alg}
            /\ algorithm_matches_key_type(alg, k.kty, k.crv)
            /\ policy.allowed_algorithms # None => alg \in policy.allowed_algorithms
            /\ policy.allowed_algorithms = None => alg \notin {"HS256", "HS384", "HS512"}
            /\ alg \notin policy.disallowed_algorithms

\* In unbounded integers, with the dates rounded.
InTime(t) ==
    LET exp == numeric_date(token.claims.exp)
        grace == Grace(policy.grace)
    IN  /\ exp \in I64 /\ t <= exp + grace
        /\ \A c \in {token.claims.nbf, token.claims.iat} \ {Absent} :
              numeric_date(c) \in I64 /\ numeric_date(c) - grace <= t

ClaimsAsConfigured ==
    LET c == token.claims
    IN  /\ c.iss = policy.trusted_issuer
        /\ c.aud \cap policy.trusted_audiences # {}
        /\ \/ policy.trusted_authorized_parties = {}
           \/ c.azp \in policy.trusted_authorized_parties
        /\ policy.required_scopes \subseteq c.scope

\* Neither the name nor what Cyrus SASL makes of it, which trims it, differs
\* in case only from a disallowed one.
NameAsConfigured ==
    LET uid == token.claims.uid
    IN  /\ uid \in Usernames \ WithControls
        /\ Trimmed[uid] = uid
        /\ \A name \in policy.disallowed_usernames : Lower[name] # Lower[Trimmed[uid]]

\* A token is accepted exactly if it was signed, for a key of the document and
\* by an algorithm, as configured, its claims and name are as configured, and
\* its dates were in order when they were checked (jwt.rs:221-265).
VerdictIsPolicy ==
    phase = "done" =>
        (verdict = "Ok" <=> /\ token.shape /\ token.header # None
                            /\ SignedAsConfigured
                            /\ token.claims # None
                            /\ ClaimsAsConfigured
                            /\ InTime(checkedAt)
                            /\ NameAsConfigured)

\* A token that was accepted and then rejected is never accepted again,
\* whatever its dates and the grace: its time is one interval.
AcceptedOnce == window = "after" => verdict # "Ok"

\* The authorized party is optional: a token without one is not rejected for
\* it (sasl_oauthbearer.5:66-70, "a present azp claim must match").
OnlyPresentPartyRejects ==
    verdict = "InvalidAuthorizedParty" => token.claims.azp # None

==============================================================================
