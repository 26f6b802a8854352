-------------------------------- MODULE MCJwks --------------------------------
(* Documents of up to MaxKeys keys: signing keys of three kinds, duplicates *)
(* of their kids, and a key for each reason the loop has to ignore or to    *)
(* refuse one.                                                              *)
EXTENDS Jwks, FiniteSets

CONSTANTS a, b, m1, m2, MaxKeys

MCNames == Algorithms \cup
    {"sig", "enc", "verify", "encrypt", "RSA-OAEP", "RSA", "EC", "oct", "P-384",
     "issuer", "ldap", "other", "client", "openid"}

RsaA    == [kid |-> a, use |-> "sig", key_ops |-> {}, alg |-> "RS256",
            kty |-> "RSA", crv |-> None, key |-> m1]
AnyRsaB == [RsaA EXCEPT !.kid = b, !.use = None, !.alg = None, !.key = m2]
EncA    == [RsaA EXCEPT !.use = "enc", !.alg = "RSA-OAEP"]
OaepB   == [RsaA EXCEPT !.kid = b, !.use = None, !.alg = "RSA-OAEP"]
OpsB    == [AnyRsaB EXCEPT !.key_ops = {"encrypt"}]
VerifyA == [RsaA EXCEPT !.key_ops = {"encrypt", "verify"}]
EcB     == [AnyRsaB EXCEPT !.kty = "EC", !.crv = "P-384", !.key = m1]
OctB    == [AnyRsaB EXCEPT !.kty = "oct"]
NoKid   == [RsaA EXCEPT !.kid = None]
BrokenB == [AnyRsaB EXCEPT !.key = None]

RawKeys == {RsaA, AnyRsaB, EncA, OaepB, OpsB, VerifyA, EcB, OctB, NoKid, BrokenB, None}

MCDocuments == {None} \cup UNION {[1 .. n -> RawKeys] : n \in 0 .. MaxKeys}

APolicy == [trusted_issuer |-> "issuer", trusted_audiences |-> {"ldap"},
            trusted_authorized_parties |-> {}, required_scopes |-> {},
            disallowed_usernames |-> {}, grace |-> 1,
            allowed_algorithms |-> None, disallowed_algorithms |-> {}]

MCPolicies == {APolicy, [APolicy EXCEPT !.trusted_issuer = None],
               [APolicy EXCEPT !.trusted_audiences = {}],
               [APolicy EXCEPT !.allowed_algorithms = {}]}

==============================================================================
