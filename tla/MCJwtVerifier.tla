---------------------------- MODULE MCJwtVerifier ----------------------------
(* Tokens that differ from a good one in their header and signature, in     *)
(* their dates, or in one of their claims, for documents with one or two    *)
(* usable keys.                                                             *)
EXTENDS JwtVerifier, MCJwks

CONSTANTS alice, rooot, Root, spaced, control

MCVerifyDocuments ==
    {<<RsaA>>, <<AnyRsaB, EncA>>, <<VerifyA, OctB>>, <<EcB>>, <<OaepB, AnyRsaB>>, <<RsaA, BrokenB>>,
     <<RsaA, AnyRsaB, NoKid>>, <<EncA>>}

MCVerifyPolicies == {
    APolicy,
    [APolicy EXCEPT !.allowed_algorithms = {"HS256", "RS256"}],
    [APolicy EXCEPT !.disallowed_algorithms = {"RS256"}, !.grace = 0],
    [APolicy EXCEPT !.trusted_authorized_parties = {"client"},
                    !.required_scopes = {"openid"}, !.grace = -1],
    [APolicy EXCEPT !.disallowed_usernames = {rooot}, !.grace = 3]}

MCUsernames == {alice, rooot, Root, spaced, control}
MCTrimmed   == [u \in MCUsernames |-> IF u = spaced THEN rooot ELSE u]
MCLower     == [u \in MCUsernames |-> IF u = Root THEN rooot ELSE u]

Seconds(v) == [form |-> "integer", double |-> 2 * v]
Halves(d)  == [form |-> "float", double |-> d]
NoNumber   == [form |-> "other", double |-> 0]

GoodClaims == [iss |-> "issuer", aud |-> {"ldap", "other"}, azp |-> "client",
               exp |-> Seconds(2), nbf |-> Seconds(1), iat |-> Absent,
               scope |-> {"openid"}, uid |-> alice]

Good == [shape |-> TRUE, header |-> [alg |-> "RS256", kid |-> a],
         signature |-> [key |-> m1, alg |-> "RS256"], claims |-> GoodClaims]

With(c) == [Good EXCEPT !.claims = c]

BySignature ==
    {[Good EXCEPT !.header = [alg |-> alg, kid |-> k], !.signature = [key |-> m, alg |-> s]] :
        alg \in {"RS256", "HS256", "ES384"}, k \in {a, b, None}, m \in {m1, m2},
        s \in {"RS256", "HS256", "ES384"}}

ByDates ==
    {With([GoodClaims EXCEPT !.exp = e, !.nbf = n, !.iat = i]) :
        e \in {Seconds(1), Seconds(4), Halves(3), Halves(8), Halves(9), NoNumber, Absent},
        n \in {Absent, Seconds(2), Halves(5), NoNumber},
        i \in {Absent, Seconds(0), Seconds(3), Seconds(-3), Halves(-9)}}

ByClaims ==
    {[Good EXCEPT !.claims = None], [Good EXCEPT !.shape = FALSE], [Good EXCEPT !.header = None]}
    \cup {With([GoodClaims EXCEPT !.iss = i]) : i \in {None, "other"}}
    \cup {With([GoodClaims EXCEPT !.aud = s]) : s \in {{}, {"other"}}}
    \cup {With([GoodClaims EXCEPT !.azp = p]) : p \in {None, "other"}}
    \cup {With([GoodClaims EXCEPT !.scope = {}])}
    \cup {With([GoodClaims EXCEPT !.uid = u]) : u \in MCUsernames \cup {None}}

MCTokens   == BySignature \cup ByDates \cup ByClaims
ByPartyOnly == {With([GoodClaims EXCEPT !.azp = p]) : p \in {None, "client", "other"}}

==============================================================================
