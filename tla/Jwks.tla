--------------------------------- MODULE Jwks ---------------------------------
(***************************************************************************)
(* JwtVerifier::from_jwks_json of core/src/jwt.rs: the loop that turns a   *)
(* JWKS document into the keys a verifier selects by kid.                  *)
(*                                                                         *)
(* A key of the document is the metadata the loop looks at, and what       *)
(* jsonwebtoken makes of the rest: key is the key material, or None where  *)
(* its JWK parser or DecodingKey::from_jwk refuses.                        *)
(***************************************************************************)
EXTENDS Integers, Sequences

CONSTANTS
    Kids,
    Materials,      \* key material
    Names,          \* the values of use, alg, kty, crv and key_ops
    Documents,      \* the keys arrays that are loaded; None: there is none
    Policies,       \* the policies they are loaded for
    None

Algorithms == {"HS256", "HS384", "HS512", "ES256", "ES384", "RS256", "RS384",
               "RS512", "PS256", "PS384", "PS512", "EdDSA"}

ASSUME NamesAssumption == Algorithms \cup {"sig", "verify"} \subseteq Names
ASSUME NoKeyAssumption == None \notin Kids \cup Materials \cup Names

\* A raw key that is an object; None stands for one that is not.
Jwk == [kid: Kids \cup {None}, use: Names \cup {None}, key_ops: SUBSET Names,
        alg: Names \cup {None}, kty: Names, crv: Names \cup {None},
        key: Materials \cup {None}]

JwkMeta    == [alg: Names \cup {None}, use: Names \cup {None},
               key_ops: SUBSET Names, kty: Names, crv: Names \cup {None}]
SigningKey == [kid: Kids, key: Materials, meta: JwkMeta]

ASSUME DocumentsAssumption == Documents \subseteq Seq(Jwk \cup {None}) \cup {None}

VARIABLES
    policy,     \* JwtPolicy
    raw_keys,   \* the keys array, or None for a document without one
    index,      \* how many of the keys the loop is done with
    seen_kids,
    keys,       \* the verifier's map from kid to key
    loading     \* "start", "loop", "ok" or "ConfigError"

jwksVars == <<policy, raw_keys, index, seen_kids, keys, loading>>

JwksTypeOK ==
    /\ policy \in Policies
    /\ raw_keys \in Seq(Jwk \cup {None}) \cup {None}
    /\ index \in Nat
    /\ seen_kids \subseteq Kids
    /\ keys \subseteq SigningKey
    /\ loading \in {"start", "loop", "ok", "ConfigError"}

JwksInit ==
    /\ policy \in Policies
    /\ raw_keys \in Documents
    /\ index = 0
    /\ seen_kids = {}
    /\ keys = {}
    /\ loading = "start"

------------------------------------------------------------------------------
parse_algorithm_name(name) == IF name \in Algorithms THEN name ELSE None

\* use and key_ops allow the key to verify signatures.
ForSignatures(k) ==
    /\ k.use \in {None, "sig"}
    /\ k.key_ops # {} => "verify" \in k.key_ops

NamesAlgorithm(k) == k.alg # None => parse_algorithm_name(k.alg) # None

MetaOf(k) == [alg |-> k.alg, use |-> k.use, key_ops |-> k.key_ops,
              kty |-> k.kty, crv |-> k.crv]

SigningKeyOf(k) == [kid |-> k.kid, key |-> k.key, meta |-> MetaOf(k)]

\* keys.insert: a map, so a kid that is there is overwritten.
Insert(map, k) == {entry \in map : entry.kid # k.kid} \cup {SigningKeyOf(k)}

Key == raw_keys[index + 1]

InLoop == loading = "loop" /\ index < Len(raw_keys)

\* An issuer and an audience, and an algorithm if there is an allow-list.
Configured ==
    /\ policy.trusted_issuer # None
    /\ policy.trusted_audiences # {}
    /\ policy.allowed_algorithms # {}

Fail ==
    /\ loading' = "ConfigError"
    /\ UNCHANGED <<policy, raw_keys, index, seen_kids, keys>>

Refuse ==
    /\ loading = "start"
    /\ ~Configured \/ raw_keys = None \/ raw_keys = <<>>
    /\ Fail

EnterLoop ==
    /\ loading = "start"
    /\ Configured /\ raw_keys # None /\ raw_keys # <<>>
    /\ loading' = "loop"
    /\ UNCHANGED <<policy, raw_keys, index, seen_kids, keys>>

NotAnObject ==
    /\ InLoop
    /\ Key = None
    /\ Fail

SkipWithoutKid ==
    /\ InLoop
    /\ Key # None /\ Key.kid = None
    /\ index' = index + 1
    /\ UNCHANGED <<policy, raw_keys, seen_kids, keys, loading>>

DuplicateKid ==
    /\ InLoop
    /\ Key # None /\ Key.kid \in seen_kids
    /\ Fail

\* A kid not met before; the key may still be no signing key.
NewKid ==
    /\ InLoop
    /\ Key # None /\ Key.kid \notin seen_kids \cup {None}
    /\ seen_kids' = seen_kids \cup {Key.kid}
    /\ index' = index + 1
    /\ UNCHANGED <<policy, raw_keys, loading>>

SkipUnusableUnseen ==
    /\ InLoop
    /\ Key # None /\ Key.kid \notin seen_kids \cup {None}
    /\ ~ForSignatures(Key) \/ ~NamesAlgorithm(Key) \/ Key.key = None
    /\ index' = index + 1
    /\ UNCHANGED <<policy, raw_keys, seen_kids, keys, loading>>

SkipUnusable ==
    /\ NewKid
    /\ ~ForSignatures(Key) \/ ~NamesAlgorithm(Key) \/ Key.key = None
    /\ UNCHANGED keys

AddKeyUnparsed ==
    /\ NewKid
    /\ ForSignatures(Key) /\ NamesAlgorithm(Key)
    /\ keys' = Insert(keys, Key)

AddKey ==
    /\ NewKid
    /\ ForSignatures(Key) /\ NamesAlgorithm(Key) /\ Key.key # None
    /\ keys' = Insert(keys, Key)

EndLoop ==
    /\ loading = "loop" /\ index = Len(raw_keys)
    /\ loading' = IF keys = {} THEN "ConfigError" ELSE "ok"
    /\ UNCHANGED <<policy, raw_keys, index, seen_kids, keys>>

Load ==
    \/ Refuse \/ EnterLoop
    \/ NotAnObject \/ SkipWithoutKid \/ DuplicateKid \/ SkipUnusable \/ AddKey
    \/ EndLoop

LoadSpec == JwksInit /\ [][Load]_jwksVars

------------------------------------------------------------------------------
(* Properties.                                                             *)

\* The keys of the document a verifier may use, read off it at once.
Usable(k) ==
    /\ k # None /\ k.kid # None /\ k.key # None
    /\ k.use # None => k.use = "sig"
    /\ k.key_ops = {} \/ "verify" \in k.key_ops
    /\ k.alg # None => k.alg \in Algorithms

UsableKeys ==
    {SigningKeyOf(raw_keys[i]) : i \in {j \in DOMAIN raw_keys : Usable(raw_keys[j])}}

WellFormed ==
    /\ Configured
    /\ raw_keys # None
    /\ \A i \in DOMAIN raw_keys : raw_keys[i] # None
    /\ \A i, j \in DOMAIN raw_keys :
          raw_keys[i].kid # None /\ raw_keys[i].kid = raw_keys[j].kid => i = j
    /\ \E i \in DOMAIN raw_keys : Usable(raw_keys[i])

\* Whatever the order of its keys, a document is refused exactly if one is no
\* object, two share a kid or none is usable; and a verifier has exactly the
\* usable keys (jwt.rs:134-218).
LoadMatchesDocument ==
    /\ loading = "ok" => WellFormed /\ keys = UsableKeys
    /\ loading = "ConfigError" => ~WellFormed

\* A key that cannot verify signatures is ignored and never the reason to
\* refuse the document (README.md:42-43).
UnusableKeysAreHarmless ==
    loading = "ConfigError" =>
        ~ /\ Configured /\ raw_keys # None
          /\ \A i \in DOMAIN raw_keys : raw_keys[i] # None
          /\ \E i \in DOMAIN raw_keys : Usable(raw_keys[i])
          /\ \A i, j \in DOMAIN raw_keys :
                /\ Usable(raw_keys[i]) /\ Usable(raw_keys[j])
                /\ raw_keys[i].kid = raw_keys[j].kid
                => i = j

==============================================================================
