-------------------------- MODULE JwtVerifierProofs --------------------------
(***************************************************************************)
(* verify accepts exactly what the policy says, for tokens, documents and  *)
(* policies of any size, and for dates of any width.                       *)
(***************************************************************************)
EXTENDS JwtVerifier, TLAPS

------------------------------------------------------------------------------
(* What the time checks of a token compute, for integers of any width.     *)

\* Rounding is to a nearest integer.
LEMMA RoundNearest ==
    ASSUME NEW d \in Int
    PROVE  Round(d) \in Int /\ -1 <= 2 * Round(d) - d /\ 2 * Round(d) - d <= 1
BY DEF Round

\* A later number rounds to a later date.
LEMMA RoundMonotone ==
    ASSUME NEW d \in Int, NEW e \in Int, d <= e
    PROVE  Round(d) <= Round(e)
BY DEF Round

\* numeric_date (jwt.rs:401-416) yields an i64, within half a second of the
\* claim but for the float just beyond the largest i64.
THEOREM NumericDateNear ==
    ASSUME NEW c \in Claim, numeric_date(c) # Invalid
    PROVE  /\ numeric_date(c) \in I64
           /\ 2 * numeric_date(c) - c.double <= 1
           /\ -2 <= 2 * numeric_date(c) - c.double
<1>1. c # Absent
  BY AbsentAssumption
<1>2. CASE c \in Integer
  BY <1>1, <1>2, I64Assumption DEF Integer, numeric_date, I64, I64_MIN
<1>3. CASE c \in Float
  <2>1. c.double \in Int /\ c.form = "float" /\ FloatInRange(c.double)
    BY <1>1, <1>3 DEF Float, numeric_date
  <2>2. numeric_date(c) = Saturate(Round(c.double))
    BY <1>1, <2>1 DEF numeric_date
  <2>3. /\ Round(c.double) \in Int
        /\ -1 <= 2 * Round(c.double) - c.double /\ 2 * Round(c.double) - c.double <= 1
    BY <2>1, RoundNearest
  <2>4. I64_MIN <= Round(c.double) /\ Round(c.double) <= I64_MAX + 1
    BY <2>1, <2>3, I64Assumption DEF FloatInRange, I64_MIN
  <2>5. QED
    BY <2>1, <2>2, <2>3, <2>4, I64Assumption DEF Saturate, I64, I64_MIN, FloatInRange
<1>4. CASE c \in Other
  BY <1>1, <1>4 DEF Other, numeric_date
<1>5. QED
  BY <1>2, <1>3, <1>4 DEF Claim

\* Saturation never decides a check (jwt.rs:344-353): the comparisons give
\* what they would give in unbounded integers, whatever the grace.
THEOREM SaturationIsExact ==
    ASSUME NEW date \in I64, NEW n \in I64, NEW grace \in I64
    PROVE  /\ date > saturating_add(n, Grace(grace)) <=> date > n + Grace(grace)
           /\ date < saturating_sub(n, Grace(grace)) <=> date < n - Grace(grace)
BY I64Assumption
DEF I64, I64_MIN, Grace, Saturate, saturating_add, saturating_sub

\* The dates of a token as check_validity_dates sees them.
Dated(claims) ==
    /\ claims.exp \in Claim
    /\ claims.nbf \in Claim \cup {Absent}
    /\ claims.iat \in Claim \cup {Absent}

\* A date that is there and valid is an i64.
LEMMA NumericDateType ==
    ASSUME NEW c \in Claim \cup {Absent}, numeric_date(c) # Invalid
    PROVE  numeric_date(c) \in I64 \cup {Absent}
BY NumericDateNear DEF numeric_date

\* A token is accepted at a time exactly if exp is there, every date given is
\* valid, and the time is between the latest of nbf and iat less the grace and exp
\* plus the grace.
LEMMA AcceptedWhen ==
    ASSUME NEW claims, Dated(claims), NEW n \in I64, NEW grace \in I64
    PROVE  check_validity_dates(claims, n, grace) = "Ok" <=>
              /\ numeric_date(claims.exp) \in I64
              /\ Invalid \notin {numeric_date(claims.nbf), numeric_date(claims.iat)}
              /\ n - Grace(grace) <= numeric_date(claims.exp)
              /\ \A d \in {numeric_date(claims.nbf), numeric_date(claims.iat)} \ {Absent} :
                    d <= n + Grace(grace)
<1> DEFINE exp == numeric_date(claims.exp)
           nbf == numeric_date(claims.nbf)
           iat == numeric_date(claims.iat)
           g   == Grace(grace)
<1>1. /\ exp \notin {Invalid, Absent} <=> exp \in I64
      /\ nbf # Invalid => nbf \in I64 \cup {Absent}
      /\ iat # Invalid => iat \in I64 \cup {Absent}
  <2>1. exp # Absent
    <3>1. CASE exp = Invalid
      BY <3>1, InvalidAssumption
    <3>2. CASE exp # Invalid
      BY <3>2, NumericDateNear, AbsentAssumption DEF Dated, I64
    <3>3. QED
      BY <3>1, <3>2
  <2>2. QED
    BY <2>1, NumericDateType, InvalidAssumption DEF Dated, I64
<1>2. g \in Int /\ n \in Int
  BY I64Assumption DEF I64, I64_MIN, Grace
<1>3. exp \in I64 => (Expired(exp, n, grace) <=> ~(n - g <= exp))
  BY <1>2, SaturationIsExact DEF Expired, I64
<1>4. \A d \in I64 \cup {Absent} :
         InFuture(d, n, grace) <=> d # Absent /\ ~(d <= n + g)
  <2>1. \A d \in I64 : InFuture(d, n, grace) <=> ~(d <= n + g)
    BY <1>2, SaturationIsExact, AbsentAssumption DEF InFuture, I64
  <2>2. QED
    BY <2>1, AbsentAssumption DEF InFuture
<1>5. QED
  BY <1>1, <1>3, <1>4, AbsentAssumption, InvalidAssumption DEF check_validity_dates

\* The times at which a token is accepted are an interval: a token that was
\* accepted and then rejected by check_validity_dates (jwt.rs:332-360) is
\* never accepted again, and a larger grace only widens the interval.
THEOREM AcceptedInterval ==
    ASSUME NEW claims, Dated(claims),
           NEW n1 \in I64, NEW n2 \in I64, NEW n3 \in I64, n1 <= n2, n2 <= n3,
           NEW g \in I64, NEW h \in I64, g <= h,
           check_validity_dates(claims, n1, g) = "Ok",
           check_validity_dates(claims, n3, g) = "Ok"
    PROVE  check_validity_dates(claims, n2, h) = "Ok"
<1> DEFINE exp   == numeric_date(claims.exp)
           given == {numeric_date(claims.nbf), numeric_date(claims.iat)} \ {Absent}
<1>1. /\ exp \in I64
      /\ Invalid \notin {numeric_date(claims.nbf), numeric_date(claims.iat)}
      /\ n3 - Grace(g) <= exp
      /\ \A d \in given : d <= n1 + Grace(g)
  BY AcceptedWhen
<1>2. /\ n1 \in Int /\ n2 \in Int /\ n3 \in Int /\ exp \in Int
      /\ Grace(g) \in Int /\ Grace(h) \in Int /\ Grace(g) <= Grace(h)
  BY <1>1, I64Assumption DEF I64, I64_MIN, Grace
<1>3. given \subseteq Int
  <2>1. /\ numeric_date(claims.nbf) \in I64 \cup {Absent}
        /\ numeric_date(claims.iat) \in I64 \cup {Absent}
    BY <1>1, NumericDateType DEF Dated
  <2>2. QED
    BY <2>1, I64Assumption DEF I64, I64_MIN
<1>4. n2 - Grace(h) <= exp
  BY <1>1, <1>2
<1>5. \A d \in given : d <= n2 + Grace(h)
  BY <1>1, <1>2, <1>3
<1>6. QED
  BY <1>1, <1>4, <1>5, AcceptedWhen

------------------------------------------------------------------------------
(* from_jwks_json gives what the document says, for documents of any       *)
(* length, any keys and any policies.                                      *)

Done == 1 .. index      \* the keys the loop is done with

\* What the loop knows of the keys it is done with.
LoopInv ==
    /\ Configured
    /\ raw_keys \in Seq(Jwk \cup {None}) /\ raw_keys # None
    /\ index <= Len(raw_keys)
    /\ \A i \in Done : raw_keys[i] # None
    /\ seen_kids = {raw_keys[i].kid : i \in Done} \ {None}
    /\ \A i, j \in Done :
          raw_keys[i].kid # None /\ raw_keys[i].kid = raw_keys[j].kid => i = j
    /\ keys = {SigningKeyOf(raw_keys[i]) : i \in {j \in Done : Usable(raw_keys[j])}}

Inv ==
    /\ raw_keys \in Seq(Jwk \cup {None}) \cup {None}
    /\ index \in Nat
    /\ loading \in {"start", "loop", "ok", "ConfigError"}
    /\ loading = "start" => index = 0 /\ seen_kids = {} /\ keys = {}
    /\ loading \in {"loop", "ok"} => LoopInv
    /\ loading = "ok" => index = Len(raw_keys) /\ keys # {}
    /\ loading = "ConfigError" => ~WellFormed

\* The filters of the loop keep exactly the usable keys.
LEMMA FiltersKeepUsable ==
    ASSUME NEW k, k # None, k.kid # None
    PROVE  Usable(k) <=> ForSignatures(k) /\ NamesAlgorithm(k) /\ k.key # None
BY NoKeyAssumption, NamesAssumption
DEF Usable, ForSignatures, NamesAlgorithm, parse_algorithm_name

\* A document that is refused before the loop is not well formed.
LEMMA RefuseKeepsInv == Inv /\ Refuse => Inv'
<1> SUFFICES ASSUME Inv, Refuse PROVE Inv'
  OBVIOUS
<1>1. ~WellFormed
  BY DEF Refuse, WellFormed
<1>2. QED
  BY <1>1 DEF Refuse, Fail, Inv, LoopInv, WellFormed, Configured, Usable

\* Before the first key nothing is known.
LEMMA EnterKeepsInv == Inv /\ EnterLoop => Inv'
BY DEF EnterLoop, Inv, LoopInv, Done, Configured, WellFormed

\* An early return of the loop finds what makes the document ill formed.
LEMMA FailKeepsInv == Inv /\ (NotAnObject \/ DuplicateKid) => Inv'
<1> SUFFICES ASSUME Inv, NotAnObject \/ DuplicateKid PROVE Inv'
  OBVIOUS
<1>1. /\ raw_keys \in Seq(Jwk \cup {None}) /\ index \in Nat /\ index + 1 \in DOMAIN raw_keys
      /\ Done \subseteq DOMAIN raw_keys /\ index + 1 \notin Done
      /\ LoopInv
  <2>1. LoopInv /\ index \in Nat /\ index < Len(raw_keys)
    BY DEF Inv, NotAnObject, DuplicateKid, InLoop
  <2>2. raw_keys \in Seq(Jwk \cup {None}) /\ DOMAIN raw_keys = 1 .. Len(raw_keys)
        /\ Len(raw_keys) \in Nat
    BY <2>1 DEF LoopInv
  <2>3. QED
    BY <2>1, <2>2 DEF Done
<1>2. ~WellFormed
  <2>1. CASE NotAnObject
    BY <1>1, <2>1 DEF NotAnObject, Key, WellFormed
  <2>2. CASE DuplicateKid
    <3>1. PICK i \in Done : raw_keys[i].kid = raw_keys[index + 1].kid /\ raw_keys[i].kid # None
      BY <1>1, <2>2 DEF DuplicateKid, Key, LoopInv
    <3>2. QED
      BY <1>1, <3>1 DEF WellFormed
  <2>3. QED
    BY <2>1, <2>2
<1>3. QED
  BY <1>2 DEF NotAnObject, DuplicateKid, Fail, Inv, WellFormed, Configured, Usable

\* A key the loop is done with extends what the loop knows by that key.
LEMMA StepKeepsInv == Inv /\ (SkipWithoutKid \/ SkipUnusable \/ AddKey) => Inv'
<1> SUFFICES ASSUME Inv, SkipWithoutKid \/ SkipUnusable \/ AddKey PROVE Inv'
  OBVIOUS
<1> DEFINE k == raw_keys[index + 1]
<1>1. /\ LoopInv /\ index \in Nat /\ index + 1 \in 1 .. Len(raw_keys)
      /\ raw_keys \in Seq(Jwk \cup {None})
      /\ UNCHANGED <<policy, raw_keys, loading>> /\ loading = "loop"
      /\ index' = index + 1 /\ k # None
  BY DEF Inv, LoopInv, SkipWithoutKid, SkipUnusable, AddKey, NewKid, InLoop, Key
<1>2. Done' = Done \cup {index + 1} /\ index + 1 \notin Done
  BY <1>1 DEF Done
<1>3. \A i \in Done' : raw_keys[i] # None
  BY <1>1, <1>2 DEF LoopInv
<1>4. k.kid # None => k.kid \notin seen_kids
  BY <1>1 DEF SkipWithoutKid, SkipUnusable, AddKey, NewKid, Key
<1>5. seen_kids' = {raw_keys[i].kid : i \in Done'} \ {None}
  <2>1. seen_kids' = (seen_kids \cup {k.kid}) \ {None}
    BY <1>1 DEF SkipWithoutKid, SkipUnusable, AddKey, NewKid, Key, LoopInv
  <2>2. QED
    BY <1>1, <1>2, <2>1 DEF LoopInv
<1>6. \A i, j \in Done' : raw_keys[i].kid # None /\ raw_keys[i].kid = raw_keys[j].kid => i = j
  BY <1>1, <1>2, <1>4 DEF LoopInv
<1>7. keys' = {SigningKeyOf(raw_keys[i]) : i \in {j \in Done' : Usable(raw_keys[j])}}
  <2>1. CASE AddKey
    <3>1. Usable(k) /\ k.kid # None /\ k.kid \notin seen_kids
      BY <2>1, FiltersKeepUsable DEF AddKey, NewKid, Key
    <3>2. \A entry \in keys : entry.kid # k.kid
      BY <1>1, <3>1 DEF LoopInv, SigningKeyOf, Usable
    <3>3. keys' = keys \cup {SigningKeyOf(k)}
      BY <2>1, <3>2 DEF AddKey, Insert, Key
    <3>4. QED
      BY <1>1, <1>2, <3>1, <3>3 DEF LoopInv
  <2>2. CASE SkipWithoutKid \/ SkipUnusable
    <3>1. ~Usable(k) /\ keys' = keys
      <4>1. CASE SkipWithoutKid
        BY <4>1 DEF SkipWithoutKid, Key, Usable
      <4>2. CASE SkipUnusable
        BY <4>2, FiltersKeepUsable DEF SkipUnusable, NewKid, Key
      <4>3. QED
        BY <2>2, <4>1, <4>2
    <3>2. QED
      BY <1>1, <1>2, <3>1 DEF LoopInv
  <2>3. QED
    BY <2>1, <2>2
<1>8. LoopInv'
  BY <1>1, <1>3, <1>5, <1>6, <1>7 DEF LoopInv, Configured, Usable
<1>9. QED
  BY <1>1, <1>8 DEF Inv

\* At the end the prefix is the document.
LEMMA EndKeepsInv == Inv /\ EndLoop => Inv'
<1> SUFFICES ASSUME Inv, EndLoop PROVE Inv'
  OBVIOUS
<1>1. /\ LoopInv /\ index = Len(raw_keys) /\ raw_keys \in Seq(Jwk \cup {None})
      /\ UNCHANGED <<policy, raw_keys, index, seen_kids, keys>>
  BY DEF EndLoop, Inv, LoopInv
<1>2. Done = DOMAIN raw_keys
  BY <1>1 DEF Done
<1>3. keys = {} => ~WellFormed
  <2>1. ASSUME NEW i \in DOMAIN raw_keys, Usable(raw_keys[i]) PROVE keys # {}
    <3>1. SigningKeyOf(raw_keys[i]) \in keys
      BY <1>1, <1>2, <2>1 DEF LoopInv
    <3>2. QED
      BY <3>1
  <2>2. QED
    BY <2>1 DEF WellFormed
<1>4. QED
  BY <1>1, <1>3 DEF EndLoop, Inv, LoopInv, Done, WellFormed, Configured, Usable

\* The loop invariant holds through every step of the loading.
LEMMA LoadKeepsInv == Inv /\ [Load]_jwksVars => Inv'
<1> SUFFICES ASSUME Inv, [Load]_jwksVars PROVE Inv'
  OBVIOUS
<1>1. CASE UNCHANGED jwksVars
  <2>1. /\ WellFormed' <=> WellFormed
        /\ LoopInv => LoopInv'
    BY <1>1 DEF jwksVars, LoopInv, Done, WellFormed, Configured, Usable
  <2>2. QED
    BY <1>1, <2>1 DEF jwksVars, Inv
<1>2. QED
  BY <1>1, RefuseKeepsInv, EnterKeepsInv, FailKeepsInv, StepKeepsInv, EndKeepsInv DEF Load

\* The loop invariant holds before the first key.
LEMMA InitInv == JwksInit => Inv
BY DocumentsAssumption DEF JwksInit, Inv

\* A verifier that was built has exactly the usable keys of its document.
LEMMA LoadedKeys ==
    ASSUME Inv, loading = "ok"
    PROVE  WellFormed /\ keys = UsableKeys
<1>1. LoopInv /\ Done = DOMAIN raw_keys /\ keys # {}
  BY DEF Inv, LoopInv, Done
<1>2. keys = UsableKeys
  BY <1>1 DEF LoopInv, UsableKeys
<1>3. \E i \in DOMAIN raw_keys : Usable(raw_keys[i])
  BY <1>1, <1>2 DEF UsableKeys
<1>4. QED
  BY <1>1, <1>2, <1>3 DEF LoopInv, WellFormed

\* The entry of a usable key of the document is a signing key.
LEMMA SigningKeyType ==
    ASSUME NEW k \in Jwk, k.kid # None, k.key # None
    PROVE  SigningKeyOf(k) \in SigningKey
BY DEF SigningKeyOf, SigningKey, MetaOf, JwkMeta, Jwk

\* The loading keeps the types of its variables.
LEMMA LoadKeepsType == Inv /\ JwksTypeOK /\ [Load]_jwksVars => JwksTypeOK'
<1> SUFFICES ASSUME Inv, JwksTypeOK, [Load]_jwksVars PROVE JwksTypeOK'
  OBVIOUS
<1>1. CASE UNCHANGED jwksVars
  BY <1>1 DEF JwksTypeOK, jwksVars
<1>2. CASE Refuse \/ EnterLoop \/ NotAnObject \/ SkipWithoutKid \/ DuplicateKid \/ EndLoop
  BY <1>2
  DEF JwksTypeOK, Refuse, EnterLoop, NotAnObject, SkipWithoutKid, DuplicateKid, EndLoop, Fail
<1>3. CASE SkipUnusable \/ AddKey
  <2>1. NewKid /\ Inv /\ loading = "loop" /\ LoopInv
    BY <1>3 DEF SkipUnusable, AddKey, NewKid, InLoop, Inv
  <2>2. Key \in Jwk /\ Key.kid \in Kids
    <3>1. /\ index + 1 \in 1 .. Len(raw_keys) /\ raw_keys \in Seq(Jwk \cup {None})
      BY <2>1 DEF Inv, LoopInv, NewKid, InLoop
    <3>2. Key \in Jwk \cup {None} /\ Key # None /\ Key.kid # None
      BY <2>1, <3>1 DEF NewKid, Key
    <3>3. QED
      BY <3>2 DEF Jwk
  <2>3. seen_kids' \subseteq Kids
    BY <2>1, <2>2 DEF NewKid, JwksTypeOK
  <2>4. keys' \subseteq SigningKey
    <3>1. CASE SkipUnusable
      BY <3>1 DEF SkipUnusable, JwksTypeOK
    <3>2. CASE AddKey
      <4>1. SigningKeyOf(Key) \in SigningKey
        BY <2>1, <2>2, <3>2, SigningKeyType DEF AddKey, NewKid
      <4>2. QED
        BY <3>2, <4>1 DEF AddKey, Insert, JwksTypeOK
    <3>3. QED
      BY <1>3, <3>1, <3>2
  <2>5. QED
    BY <2>1, <2>3, <2>4 DEF NewKid, JwksTypeOK
<1>4. QED
  BY <1>1, <1>2, <1>3 DEF Load

\* Whatever the order of its keys, a document is refused exactly if one is no
\* object, two share a kid or none is usable, and a verifier has exactly the
\* usable keys (jwt.rs:134-218).
THEOREM LoadIsDocument == LoadSpec => []LoadMatchesDocument
<1>1. Inv => LoadMatchesDocument
  BY LoadedKeys DEF Inv, LoadMatchesDocument
<1>2. QED
  BY <1>1, InitInv, LoadKeepsInv, PTL DEF LoadSpec

------------------------------------------------------------------------------
(* The verifier on the keys that were loaded.                              *)

\* The tests of verify, each as the code writes it.
ShapeOK     == token.shape /\ token.header # None
AlgorithmOK == algorithm_allowed(token.header.alg)
KidOK       == token.header.kid # None /\ KeysOfKid(token.header.kid) # {}
MetadataOK  == check_jwk_metadata(signing_key.meta, token.header.alg)
SignatureOK == SignatureValid /\ token.claims # None
IssuerOK    == token.claims.iss = policy.trusted_issuer
AudienceOK  == token.claims.aud \cap policy.trusted_audiences # {}
PartyOK     == check_authorized_party(token.claims.azp)
DatesOK(t)  == check_validity_dates(token.claims, t, policy.grace) = "Ok"
ScopesOK    == policy.required_scopes \subseteq token.claims.scope
UidOK       == /\ token.claims.uid # None
               /\ Trimmed[token.claims.uid] = token.claims.uid
               /\ token.claims.uid \notin WithControls
UsernameOK  == check_username(token.claims.uid)

\* All of them but the one that depends on the time.
Timeless ==
    /\ ShapeOK /\ AlgorithmOK /\ KidOK /\ MetadataOK /\ SignatureOK
    /\ IssuerOK /\ AudienceOK /\ PartyOK
    /\ ScopesOK /\ UidOK /\ UsernameOK

\* A phase is reached by passing every test before it.
Passed ==
    /\ phase \in Phases \ {"shape"} => ShapeOK
    /\ phase \in Phases \ {"shape", "algorithm"} => AlgorithmOK
    /\ phase \in Phases \ {"shape", "algorithm", "kid"} => KidOK
    /\ phase \in Phases \ {"shape", "algorithm", "kid", "metadata"} => MetadataOK
    /\ phase \in {"issuer", "audience", "party", "dates", "scopes", "uid", "username"} => SignatureOK
    /\ phase \in {"audience", "party", "dates", "scopes", "uid", "username"} => IssuerOK
    /\ phase \in {"party", "dates", "scopes", "uid", "username"} => AudienceOK
    /\ phase \in {"dates", "scopes", "uid", "username"} => PartyOK
    /\ phase \in {"scopes", "uid", "username"} => DatesOK(checkedAt)
    /\ phase \in {"uid", "username"} => ScopesOK
    /\ phase = "username" => UidOK

\* What the verdicts so far say about the time.
WindowInv ==
    /\ window = "inside" => Timeless /\ \E t \in 0 .. now : DatesOK(t)
    /\ window = "after" => /\ phase \notin {"scopes", "uid", "username"}
                           /\ verdict # "Ok"
                           /\ Timeless
                           /\ \A t \in now .. MaxNow : ~DatesOK(t)

VInv ==
    /\ Inv
    /\ TypeOK
    /\ phase # "ready" => loading = "ok"
    /\ window # "before" => loading = "ok"
    /\ checkedAt <= now
    /\ Passed
    /\ phase # "done" => verdict = None
    /\ phase = "done" => (verdict = "Ok" <=> Timeless /\ DatesOK(checkedAt))
    /\ WindowInv

------------------------------------------------------------------------------
\* The tests look at the token, the policy and the keys only.
LEMMA TestsKept ==
    ASSUME UNCHANGED <<token, policy, keys>>
    PROVE  /\ ShapeOK' <=> ShapeOK
           /\ AlgorithmOK' <=> AlgorithmOK
           /\ KidOK' <=> KidOK
           /\ MetadataOK' <=> MetadataOK
           /\ SignatureOK' <=> SignatureOK
           /\ IssuerOK' <=> IssuerOK
           /\ AudienceOK' <=> AudienceOK
           /\ PartyOK' <=> PartyOK
           /\ ScopesOK' <=> ScopesOK
           /\ UidOK' <=> UidOK
           /\ UsernameOK' <=> UsernameOK
           /\ Timeless' <=> Timeless
           /\ \A t : DatesOK(t)' <=> DatesOK(t)
<1>1. signing_key' = signing_key
  BY DEF signing_key
<1>2. /\ ShapeOK' <=> ShapeOK
      /\ AlgorithmOK' <=> AlgorithmOK
      /\ KidOK' <=> KidOK
      /\ IssuerOK' <=> IssuerOK
      /\ AudienceOK' <=> AudienceOK
  BY DEF ShapeOK, AlgorithmOK, KidOK, IssuerOK, AudienceOK, algorithm_allowed, KeysOfKid
<1>3. /\ PartyOK' <=> PartyOK
      /\ ScopesOK' <=> ScopesOK
      /\ UidOK' <=> UidOK
      /\ UsernameOK' <=> UsernameOK
      /\ \A t : DatesOK(t)' <=> DatesOK(t)
  BY DEF PartyOK, ScopesOK, UidOK, UsernameOK, DatesOK, check_authorized_party, check_username
<1>4. MetadataOK' <=> MetadataOK
  BY <1>1 DEF MetadataOK, check_jwk_metadata
<1>5. SignatureOK' <=> SignatureOK
  BY <1>1 DEF SignatureOK, SignatureValid
<1>6. QED
  BY <1>2, <1>3, <1>4, <1>5 DEF Timeless

\* A verifier that was built is not loaded again.
LEMMA LoadedStays == loading = "ok" => ~Load
BY DEF Load, Refuse, EnterLoop, NotAnObject, SkipWithoutKid, DuplicateKid, SkipUnusable,
       AddKey, NewKid, InLoop, EndLoop

\* The time check returns one of its errors, or accepts.
LEMMA DatesResult ==
    ASSUME NEW c, NEW t, NEW g
    PROVE  check_validity_dates(c, t, g) \in {"Ok", "MissingExpiration", "ClaimExpired"}
BY DEF check_validity_dates

\* The claims of a token that was decoded are typed.
LEMMA ClaimsType ==
    ASSUME TypeOK, SignatureOK
    PROVE  token.claims \in Claims /\ policy \in Policy
<1>1. token \in Token /\ policy \in Policy
  BY TokensAssumption, PoliciesAssumption DEF TypeOK, JwksTypeOK
<1>2. QED
  BY <1>1 DEF SignatureOK, Token

\* A token that is ever in time has an expiry.
LEMMA InTimeIsDated ==
    ASSUME TypeOK, SignatureOK, NEW t, DatesOK(t)
    PROVE  Dated(token.claims)
<1>1. token.claims \in Claims
  BY ClaimsType
<1>2. token.claims.exp # Absent
  BY DEF DatesOK, check_validity_dates, numeric_date
<1>3. QED
  BY <1>1, <1>2 DEF Claims, Dated

\* The clock stays within i64.
LEMMA ClockIsI64 ==
    ASSUME NEW t \in 0 .. MaxNow
    PROVE  t \in I64 /\ t \in Int
BY MaxNowAssumption, I64Assumption DEF I64, I64_MIN

\* Between two times at which a token is in time, it is.
LEMMA InTimeBetween ==
    ASSUME TypeOK, SignatureOK,
           NEW t1 \in 0 .. MaxNow, NEW t2 \in 0 .. MaxNow, NEW t3 \in 0 .. MaxNow,
           t1 <= t2, t2 <= t3, DatesOK(t1), DatesOK(t3)
    PROVE  DatesOK(t2)
<1>1. Dated(token.claims)
  BY InTimeIsDated
<1>2. policy.grace \in I64 /\ policy.grace <= policy.grace
  <2>1. policy.grace \in I64
    BY ClaimsType DEF Policy
  <2>2. QED
    BY <2>1, I64Assumption DEF I64, I64_MIN
<1>3. t1 \in I64 /\ t2 \in I64 /\ t3 \in I64
  BY ClockIsI64
<1>4. \A c, n1, n2, n3, g :
        /\ Dated(c) /\ {n1, n2, n3, g} \subseteq I64 /\ n1 <= n2 /\ n2 <= n3 /\ g <= g
        /\ check_validity_dates(c, n1, g) = "Ok" /\ check_validity_dates(c, n3, g) = "Ok"
        => check_validity_dates(c, n2, g) = "Ok"
  BY AcceptedInterval
<1>5. QED
  BY <1>1, <1>2, <1>3, <1>4 DEF DatesOK

------------------------------------------------------------------------------
(* Every step keeps the invariant.                                         *)

\* A step of verify leaves the loaded verifier and the clock alone.
LEMMA VerifyFrame ==
    ASSUME verify
    PROVE  UNCHANGED <<jwksVars, now, token>>
BY DEF verify, Verify, Check, CheckShape, CheckAlgorithm, SelectKey, CheckMetadata,
       CheckSignature, CheckIssuer, CheckAudience, CheckParty, CheckDates, CheckScopes,
       ExtractUid, CheckUsername

\* A token that is rejected after it was accepted is past its time: only the
\* dates can have changed.
LEMMA WindowMoves ==
    ASSUME VInv, phase \in Phases, NEW result \in Errors \cup {"Ok"}, Decide(result),
           UNCHANGED <<jwksVars, now, token>>, checkedAt' \in {checkedAt, now},
           result = "Ok" => Timeless /\ DatesOK(checkedAt),
           result = "Ok" => phase = "username",
           result # "Ok" => ~Timeless \/ ~DatesOK(now)
    PROVE  WindowInv'
<1>1. UNCHANGED <<token, policy, keys>>
  BY DEF jwksVars
<1>2. /\ Timeless' <=> Timeless
      /\ \A t : DatesOK(t)' <=> DatesOK(t)
  BY <1>1, TestsKept
<1>3. /\ phase' = "done" /\ verdict' = result /\ window' = NextWindow(result)
      /\ now' = now /\ now \in 0 .. MaxNow /\ checkedAt \in 0 .. now
      /\ window \in {"before", "inside", "after"}
  BY MaxNowAssumption DEF Decide, VInv, TypeOK
<1>4. CASE result = "Ok"
  BY <1>2, <1>3, <1>4 DEF NextWindow, WindowInv, VInv, Errors
<1>5. CASE result \in Errors
  <2>1. result # "Ok"
    BY <1>5 DEF Errors
  <2>2. CASE window = "inside"
    <3>1. Timeless /\ ~DatesOK(now)
      BY <2>1, <2>2 DEF VInv, WindowInv
    <3>2. PICK t0 \in 0 .. now : DatesOK(t0)
      BY <2>2 DEF VInv, WindowInv
    <3>3. ASSUME NEW t \in now .. MaxNow PROVE ~DatesOK(t)
      <4>1. /\ TypeOK /\ SignatureOK
            /\ t0 \in 0 .. MaxNow /\ t \in 0 .. MaxNow /\ t0 <= now /\ now <= t
        BY <1>3, <3>1, MaxNowAssumption, I64Assumption DEF VInv, Timeless
      <4>2. QED
        BY <1>3, <3>1, <3>2, <4>1, InTimeBetween
    <3>4. window' = "after"
      BY <1>3, <1>5, <2>1, <2>2 DEF NextWindow
    <3>5. QED
      BY <1>2, <1>3, <2>1, <3>1, <3>3, <3>4 DEF WindowInv
  <2>3. CASE window # "inside"
    <3>1. window' = window
      BY <1>3, <2>1, <2>3 DEF NextWindow
    <3>2. QED
      BY <1>2, <1>3, <2>1, <2>3, <3>1 DEF WindowInv, VInv
  <2>4. QED
    BY <2>2, <2>3
<1>6. QED
  BY <1>4, <1>5

\* A verdict that is what the tests say keeps the invariant.
LEMMA DecideKeeps ==
    ASSUME VInv, phase \in Phases, NEW result \in Errors \cup {"Ok"}, Decide(result),
           UNCHANGED <<jwksVars, now, token>>, checkedAt' \in {checkedAt, now},
           result = "Ok" => Timeless /\ DatesOK(checkedAt) /\ phase = "username"
                            /\ checkedAt' = checkedAt,
           result # "Ok" => ~Timeless \/ (~DatesOK(now) /\ checkedAt' = now)
    PROVE  VInv'
<1>1. WindowInv'
  BY WindowMoves
<1>2. UNCHANGED <<token, policy, keys>>
  BY DEF jwksVars
<1>3. /\ Timeless' <=> Timeless
      /\ \A t : DatesOK(t)' <=> DatesOK(t)
  BY <1>2, TestsKept
<1>4. Inv'
  BY LoadKeepsInv DEF VInv
<1>5. JwksTypeOK'
  BY LoadKeepsType DEF VInv, TypeOK
<1>6. /\ phase' = "done" /\ verdict' = result /\ window' = NextWindow(result)
      /\ loading = "ok" /\ loading' = "ok"
      /\ now' = now /\ now \in 0 .. MaxNow /\ checkedAt \in 0 .. now
  BY MaxNowAssumption DEF Decide, VInv, TypeOK, jwksVars, Phases
<1>7. TypeOK'
  BY <1>5, <1>6, MaxNowAssumption, I64Assumption DEF TypeOK, VInv, NextWindow
<1>8. checkedAt' <= now'
  BY <1>6, MaxNowAssumption, I64Assumption
<1>9. Passed'
  BY <1>6 DEF Passed, Phases
<1>10. verdict' = "Ok" <=> Timeless' /\ (DatesOK(checkedAt))'
  <2>1. CASE result = "Ok"
    BY <1>3, <1>6, <2>1
  <2>2. CASE result # "Ok"
    BY <1>3, <1>6, <2>2
  <2>3. QED
    BY <2>1, <2>2
<1>11. QED
  BY <1>1, <1>4, <1>6, <1>7, <1>8, <1>9, <1>10 DEF VInv

\* The same for a check that failed whatever the time.
LEMMA DecideKeepsRejection ==
    ASSUME VInv, phase \in Phases, NEW error \in Errors, Decide(error), ~Timeless,
           UNCHANGED <<jwksVars, now, token, checkedAt>>
    PROVE  VInv'
<1>1. error # "Ok" /\ error \in Errors \cup {"Ok"} /\ checkedAt' \in {checkedAt, now}
  BY DEF Errors
<1>2. QED
  BY <1>1, DecideKeeps

\* A step that decides nothing keeps the invariant if the phase it goes to is
\* earned.
LEMMA MoveKeeps ==
    ASSUME VInv, UNCHANGED <<jwksVars, now, token, window>>, loading = "ok",
           phase' \in Phases, verdict' = None, checkedAt' \in {checkedAt, now}, Passed',
           window = "after" => phase' \notin {"scopes", "uid", "username"}
    PROVE  VInv'
<1>1. UNCHANGED <<token, policy, keys>>
  BY DEF jwksVars
<1>2. /\ Timeless' <=> Timeless
      /\ \A t : DatesOK(t)' <=> DatesOK(t)
  BY <1>1, TestsKept
<1>3. Inv'
  BY LoadKeepsInv DEF VInv
<1>4. JwksTypeOK'
  BY LoadKeepsType DEF VInv, TypeOK
<1>5. /\ now' = now /\ now \in 0 .. MaxNow /\ checkedAt \in 0 .. now /\ loading' = "ok"
      /\ phase' # "done" /\ phase' # "ready" /\ window' = window
  BY MaxNowAssumption DEF VInv, TypeOK, jwksVars, Phases
<1>6. TypeOK'
  BY <1>4, <1>5, MaxNowAssumption, I64Assumption DEF TypeOK, VInv
<1>7. checkedAt' <= now'
  BY <1>5, MaxNowAssumption, I64Assumption
<1>8. WindowInv'
  BY <1>2, <1>5, VerdictAssumption DEF WindowInv, VInv
<1>9. QED
  BY <1>3, <1>5, <1>6, <1>7, <1>8 DEF VInv

\* One check keeps the invariant if it is a test of Timeless, and passing it
\* earns the next phase.
LEMMA CheckKeeps ==
    ASSUME VInv, NEW at \in Phases, NEW passes, NEW next \in Phases, NEW error \in Errors,
           Check(at, passes, next, error),
           ~passes => ~Timeless,
           at \in {"scopes", "uid"} \/ next \notin {"scopes", "uid", "username"},
           passes /\ phase = at /\ phase' = next /\ checkedAt' = checkedAt => Passed'
    PROVE  VInv'
<1>1. /\ phase = at /\ UNCHANGED <<jwksVars, now, token, checkedAt>>
      /\ loading = "ok" /\ verdict = None
  BY DEF Check, VInv, Phases
<1>2. CASE passes
  <2>1. phase' = next /\ UNCHANGED <<verdict, window>>
    BY <1>2 DEF Check
  <2>2. Passed'
    BY <1>1, <1>2, <2>1
  <2>3. window = "after" => phase' \notin {"scopes", "uid", "username"}
    BY <1>1, <2>1 DEF VInv, WindowInv
  <2>4. QED
    BY <1>1, <2>1, <2>2, <2>3, MoveKeeps
<1>3. CASE ~passes
  <2>1. Decide(error) /\ error # "Ok"
    BY <1>3 DEF Check, Errors
  <2>2. QED
    BY <1>1, <1>3, <2>1, DecideKeepsRejection
<1>4. QED
  BY <1>2, <1>3

\* The checks that do not depend on the time.
LEMMA TimelessChecksKeep ==
    ASSUME VInv, CheckShape \/ CheckAlgorithm \/ SelectKey \/ CheckMetadata \/ CheckSignature
                 \/ CheckIssuer \/ CheckAudience \/ CheckParty \/ CheckScopes \/ ExtractUid
    PROVE  VInv'
<1>1. verify /\ UNCHANGED <<token, policy, keys>>
  BY VerifyFrame DEF verify, jwksVars
<1>2. /\ ShapeOK' <=> ShapeOK
      /\ AlgorithmOK' <=> AlgorithmOK
      /\ KidOK' <=> KidOK
      /\ MetadataOK' <=> MetadataOK
      /\ SignatureOK' <=> SignatureOK
      /\ IssuerOK' <=> IssuerOK
      /\ AudienceOK' <=> AudienceOK
      /\ PartyOK' <=> PartyOK
      /\ ScopesOK' <=> ScopesOK
      /\ UidOK' <=> UidOK
      /\ \A t : DatesOK(t)' <=> DatesOK(t)
  BY <1>1, TestsKept
<1>3. CASE CheckShape
  <2>1. Check("shape", ShapeOK, "algorithm", "ParseError")
    BY <1>3 DEF CheckShape, ShapeOK
  <2>2. QED
    BY <1>2, <2>1, CheckKeeps DEF Phases, Errors, Timeless, Passed, VInv
<1>4. CASE CheckAlgorithm
  <2>1. Check("algorithm", AlgorithmOK, "kid", "InvalidSignature")
    BY <1>4 DEF CheckAlgorithm, AlgorithmOK
  <2>2. QED
    BY <1>2, <2>1, CheckKeeps DEF Phases, Errors, Timeless, Passed, VInv
<1>5. CASE SelectKey
  <2>1. Check("kid", KidOK, "metadata", "UnknownSigningKey")
    BY <1>5 DEF SelectKey, KidOK
  <2>2. QED
    BY <1>2, <2>1, CheckKeeps DEF Phases, Errors, Timeless, Passed, VInv
<1>6. CASE CheckMetadata
  <2>1. Check("metadata", MetadataOK, "decode", "InvalidSignature")
    BY <1>6 DEF CheckMetadata, MetadataOK
  <2>2. QED
    BY <1>2, <2>1, CheckKeeps DEF Phases, Errors, Timeless, Passed, VInv
<1>7. CASE CheckSignature
  <2>1. PICK e \in Errors : Check("decode", SignatureOK, "issuer", e)
    BY <1>7 DEF CheckSignature, SignatureOK, Errors
  <2>2. QED
    BY <1>2, <2>1, CheckKeeps DEF Phases, Timeless, Passed, VInv
<1>8. CASE CheckIssuer
  <2>1. Check("issuer", IssuerOK, "audience", "InvalidIssuer")
    BY <1>8 DEF CheckIssuer, IssuerOK
  <2>2. QED
    BY <1>2, <2>1, CheckKeeps DEF Phases, Errors, Timeless, Passed, VInv
<1>9. CASE CheckAudience
  <2>1. Check("audience", AudienceOK, "party", "InvalidAudience")
    BY <1>9 DEF CheckAudience, AudienceOK
  <2>2. QED
    BY <1>2, <2>1, CheckKeeps DEF Phases, Errors, Timeless, Passed, VInv
<1>10. CASE CheckParty
  <2>1. Check("party", PartyOK, "dates", "InvalidAuthorizedParty")
    BY <1>10 DEF CheckParty, PartyOK
  <2>2. QED
    BY <1>2, <2>1, CheckKeeps DEF Phases, Errors, Timeless, Passed, VInv
<1>11. CASE CheckScopes
  <2>1. Check("scopes", ScopesOK, "uid", "MissingScope")
    BY <1>11 DEF CheckScopes, ScopesOK
  <2>2. QED
    BY <1>2, <2>1, CheckKeeps DEF Phases, Errors, Timeless, Passed, VInv
<1>12. CASE ExtractUid
  <2>1. PICK e \in Errors : Check("uid", UidOK, "username", e)
    BY <1>12 DEF ExtractUid, UidOK, Errors
  <2>2. QED
    BY <1>2, <2>1, CheckKeeps DEF Phases, Timeless, Passed, VInv
<1>13. QED
  BY <1>3, <1>4, <1>5, <1>6, <1>7, <1>8, <1>9, <1>10, <1>11, <1>12

\* The check of the dates, the only one that depends on the time.
LEMMA DatesKeep ==
    ASSUME VInv, CheckDates
    PROVE  VInv'
<1> DEFINE result == check_validity_dates(token.claims, now, policy.grace)
<1>1. verify /\ UNCHANGED <<token, policy, keys>>
  BY VerifyFrame DEF verify, jwksVars
<1>2. /\ phase = "dates" /\ checkedAt' = now /\ UNCHANGED <<jwksVars, now, token>>
      /\ loading = "ok" /\ verdict = None /\ now \in now .. MaxNow
  BY MaxNowAssumption, I64Assumption DEF CheckDates, VInv, TypeOK
<1>3. CASE result = "Ok"
  <2>1. phase' = "scopes" /\ UNCHANGED <<verdict, window>> /\ DatesOK(now)
    BY <1>3 DEF CheckDates, DatesOK
  <2>2. window # "after"
    BY <1>2, <2>1 DEF VInv, WindowInv
  <2>3. Passed'
    BY <1>1, <1>2, <2>1, TestsKept DEF Passed, VInv, Phases
  <2>4. QED
    BY <1>2, <2>1, <2>2, <2>3, MoveKeeps DEF Phases
<1>4. CASE result # "Ok"
  <2>1. Decide(result) /\ ~DatesOK(now)
    BY <1>4 DEF CheckDates, DatesOK
  <2>2. result \in Errors
    BY <1>4, DatesResult DEF Errors
  <2>3. QED
    BY <1>2, <1>4, <2>1, <2>2, DecideKeeps DEF Phases
<1>5. QED
  BY <1>3, <1>4

\* The last check.
LEMMA UsernameKeeps ==
    ASSUME VInv, CheckUsername
    PROVE  VInv'
<1>1. /\ phase = "username" /\ UNCHANGED <<jwksVars, now, token, checkedAt>>
      /\ Decide(IF UsernameOK THEN "Ok" ELSE "DisallowedUsername")
  BY DEF CheckUsername, UsernameOK
<1>2. UsernameOK => Timeless /\ DatesOK(checkedAt)
  BY <1>1 DEF VInv, Passed, Phases, Timeless
<1>3. CASE UsernameOK
  BY <1>1, <1>2, <1>3, DecideKeeps DEF Phases, Errors
<1>4. CASE ~UsernameOK
  <2>1. Decide("DisallowedUsername") /\ "DisallowedUsername" \in Errors /\ ~Timeless
    BY <1>1, <1>4 DEF Errors, Timeless
  <2>2. QED
    BY <1>1, <2>1, DecideKeepsRejection DEF Phases
<1>5. QED
  BY <1>3, <1>4

\* The token is presented again.
LEMMA VerifyKeeps ==
    ASSUME VInv, Verify
    PROVE  VInv'
<1>1. Passed'
  BY DEF Verify, Passed, Phases
<1>2. QED
  BY <1>1, MoveKeeps DEF Verify, Phases

\* Time passes: a token that is past its time stays so.
LEMMA PassTimeKeeps ==
    ASSUME VInv, PassTime
    PROVE  VInv'
<1>1. /\ UNCHANGED <<jwksVars, verifyVars>> /\ now' = now + 1 /\ now < MaxNow
      /\ UNCHANGED <<token, policy, keys, phase, verdict, checkedAt, window, loading>>
  BY DEF PassTime, jwksVars, verifyVars
<1>2. Inv'
  BY <1>1, LoadKeepsInv DEF VInv
<1>3. JwksTypeOK'
  BY <1>1, LoadKeepsType DEF VInv, TypeOK
<1>4. now \in 0 .. MaxNow /\ now' \in 0 .. MaxNow /\ 0 .. now \subseteq 0 .. now'
      /\ now' .. MaxNow \subseteq now .. MaxNow /\ checkedAt <= now'
  BY <1>1, MaxNowAssumption, I64Assumption DEF VInv, TypeOK
<1>5. TypeOK'
  BY <1>1, <1>3, <1>4 DEF TypeOK, VInv
<1>6. Passed'
  BY <1>1, TestsKept DEF Passed, VInv
<1>7. WindowInv'
  BY <1>1, <1>4, TestsKept DEF WindowInv, VInv
<1>8. phase' = "done" => (verdict' = "Ok" <=> Timeless' /\ (DatesOK(checkedAt))')
  BY <1>1, TestsKept DEF VInv
<1>9. QED
  BY <1>1, <1>2, <1>4, <1>5, <1>6, <1>7, <1>8 DEF VInv

\* The loading is over before the first token is presented.
LEMMA LoadKeeps ==
    ASSUME VInv, from_jwks_json
    PROVE  VInv'
<1>1. /\ Load /\ UNCHANGED <<now, token, phase, verdict, checkedAt, window>>
      /\ phase = "ready" /\ window = "before"
  BY LoadedStays DEF from_jwks_json, verifyVars, VInv, TypeOK
<1>2. Inv' /\ JwksTypeOK'
  BY <1>1, LoadKeepsInv, LoadKeepsType DEF VInv, TypeOK
<1>3. QED
  BY <1>1, <1>2 DEF VInv, TypeOK, Passed, WindowInv, Phases

\* The invariant is one.
LEMMA VInvInvariant == Spec => []VInv
<1>1. Init => VInv
  <2> SUFFICES ASSUME Init PROVE VInv
    OBVIOUS
  <2>1. Inv /\ JwksTypeOK
    BY InitInv, DocumentsAssumption DEF Init, JwksInit, JwksTypeOK
  <2>2. QED
    BY <2>1, MaxNowAssumption, I64Assumption
    DEF Init, VInv, TypeOK, Passed, WindowInv, Phases
<1>2. VInv /\ [Next]_vars => VInv'
  <2> SUFFICES ASSUME VInv, [Next]_vars PROVE VInv'
    OBVIOUS
  <2>1. CASE UNCHANGED vars
    <3>1. UNCHANGED <<jwksVars, token, policy, keys, loading, now, phase, verdict, checkedAt, window>>
      BY <2>1 DEF vars, jwksVars, verifyVars
    <3>2. Inv' /\ JwksTypeOK'
      BY <3>1, LoadKeepsInv, LoadKeepsType DEF VInv, TypeOK
    <3>3. TypeOK'
      BY <3>1, <3>2 DEF VInv, TypeOK
    <3>4. Passed' /\ WindowInv'
      BY <3>1, TestsKept DEF Passed, WindowInv, VInv
    <3>5. phase' = "done" => (verdict' = "Ok" <=> Timeless' /\ (DatesOK(checkedAt))')
      BY <3>1, TestsKept DEF VInv
    <3>6. QED
      BY <3>1, <3>2, <3>3, <3>4, <3>5 DEF VInv
  <2>2. QED
    BY <2>1, TimelessChecksKeep, DatesKeep, UsernameKeeps, VerifyKeeps, PassTimeKeeps, LoadKeeps
    DEF Next, verify
<1>3. QED
  BY <1>1, <1>2, PTL DEF Spec

------------------------------------------------------------------------------
(* What the tests of verify say is what the policy says.                   *)

\* The key selected by kid is the only usable key of the document with it.
LEMMA SelectedKey ==
    ASSUME Inv, loading = "ok", NEW i \in DOMAIN raw_keys, Usable(raw_keys[i]),
           raw_keys[i].kid = token.header.kid
    PROVE  signing_key = SigningKeyOf(raw_keys[i])
<1>1. WellFormed /\ keys = UsableKeys
  BY LoadedKeys
<1>2. /\ SigningKeyOf(raw_keys[i]) \in keys
      /\ SigningKeyOf(raw_keys[i]).kid = token.header.kid
  BY <1>1 DEF UsableKeys, SigningKeyOf
<1>3. ASSUME NEW k \in keys, k.kid = token.header.kid PROVE k = SigningKeyOf(raw_keys[i])
  <2>1. PICK j \in DOMAIN raw_keys : Usable(raw_keys[j]) /\ k = SigningKeyOf(raw_keys[j])
    BY <1>1 DEF UsableKeys
  <2>2. raw_keys[j].kid = raw_keys[i].kid /\ raw_keys[j].kid # None
    BY <1>3, <2>1 DEF SigningKeyOf, Usable
  <2>3. i = j
    BY <1>1, <2>2 DEF WellFormed
  <2>4. QED
    BY <2>1, <2>3
<1>4. signing_key \in keys /\ signing_key.kid = token.header.kid
  BY <1>2 DEF signing_key
<1>5. QED
  BY <1>3, <1>4

\* The policy's lists and the legacy default as the code reads them.
LEMMA AlgorithmIsPolicy ==
    ASSUME NEW alg \in Algorithms
    PROVE  algorithm_allowed(alg) <=>
              /\ policy.allowed_algorithms # None => alg \in policy.allowed_algorithms
              /\ policy.allowed_algorithms = None => alg \notin {"HS256", "HS384", "HS512"}
              /\ alg \notin policy.disallowed_algorithms
<1>1. alg \in LEGACY_ALLOWED_ALGORITHMS <=> alg \notin {"HS256", "HS384", "HS512"}
  BY DEF LEGACY_ALLOWED_ALGORITHMS, Algorithms
<1>2. QED
  BY <1>1 DEF algorithm_allowed

\* The metadata of a usable key, as it is checked for a token.
LEMMA MetadataIsPolicy ==
    ASSUME NEW alg \in Algorithms, NEW k, Usable(k)
    PROVE  check_jwk_metadata(SigningKeyOf(k).meta, alg) <=>
              k.alg \in {None, alg} /\ algorithm_matches_key_type(alg, k.kty, k.crv)
<1> DEFINE meta == SigningKeyOf(k).meta
<1>1. /\ meta.alg = k.alg /\ meta.use = k.use /\ meta.key_ops = k.key_ops
      /\ meta.kty = k.kty /\ meta.crv = k.crv
  BY DEF SigningKeyOf, MetaOf
<1>2. ForSignatures(meta)
  BY <1>1 DEF ForSignatures, Usable
<1>3. (meta.alg # None => parse_algorithm_name(meta.alg) = alg) <=> k.alg \in {None, alg}
  BY <1>1, NoKeyAssumption, NamesAssumption DEF parse_algorithm_name, Usable
<1>4. QED
  BY <1>1, <1>2, <1>3 DEF check_jwk_metadata

\* The choice of the key and the checks up to the signature.
LEMMA SignatureIsPolicy ==
    ASSUME TypeOK, Inv, loading = "ok", ShapeOK
    PROVE  AlgorithmOK /\ KidOK /\ MetadataOK /\ SignatureValid <=> SignedAsConfigured
<1> DEFINE alg == token.header.alg
<1>1. alg \in Algorithms
  BY TokensAssumption DEF TypeOK, Token, ShapeOK
<1>2. keys = UsableKeys
  BY LoadedKeys
<1>3. ASSUME NEW i \in DOMAIN raw_keys, Usable(raw_keys[i]), raw_keys[i].kid = token.header.kid
      PROVE  /\ KidOK
             /\ MetadataOK <=> /\ raw_keys[i].alg \in {None, alg}
                               /\ algorithm_matches_key_type(alg, raw_keys[i].kty, raw_keys[i].crv)
             /\ SignatureValid <=> token.signature = [key |-> raw_keys[i].key, alg |-> alg]
  <2>1. signing_key = SigningKeyOf(raw_keys[i])
    BY <1>3, SelectedKey
  <2>2. KidOK
    <3>1. SigningKeyOf(raw_keys[i]) \in KeysOfKid(token.header.kid)
      BY <1>2, <1>3 DEF KeysOfKid, UsableKeys, SigningKeyOf
    <3>2. QED
      BY <1>3, <3>1 DEF KidOK, Usable
  <2>3. MetadataOK <=> /\ raw_keys[i].alg \in {None, alg}
                       /\ algorithm_matches_key_type(alg, raw_keys[i].kty, raw_keys[i].crv)
    BY <1>1, <1>3, <2>1, MetadataIsPolicy DEF MetadataOK
  <2>4. signing_key.key = raw_keys[i].key
    BY <2>1 DEF SigningKeyOf
  <2>5. QED
    BY <2>2, <2>3, <2>4 DEF SignatureValid
<1>4. ASSUME KidOK
      PROVE  \E i \in DOMAIN raw_keys : Usable(raw_keys[i]) /\ raw_keys[i].kid = token.header.kid
  <2>1. PICK k \in keys : k.kid = token.header.kid
    BY <1>4 DEF KidOK, KeysOfKid
  <2>2. PICK i \in DOMAIN raw_keys : Usable(raw_keys[i]) /\ k = SigningKeyOf(raw_keys[i])
    BY <1>2 DEF UsableKeys
  <2>3. QED
    BY <2>1, <2>2 DEF SigningKeyOf
<1>5. AlgorithmOK <=>
        /\ policy.allowed_algorithms # None => alg \in policy.allowed_algorithms
        /\ policy.allowed_algorithms = None => alg \notin {"HS256", "HS384", "HS512"}
        /\ alg \notin policy.disallowed_algorithms
  BY <1>1, AlgorithmIsPolicy DEF AlgorithmOK
<1>6. ASSUME AlgorithmOK, KidOK, MetadataOK, SignatureValid PROVE SignedAsConfigured
  <2>1. PICK i \in DOMAIN raw_keys : Usable(raw_keys[i]) /\ raw_keys[i].kid = token.header.kid
    BY <1>4, <1>6
  <2>2. QED
    BY <1>3, <1>5, <1>6, <2>1 DEF SignedAsConfigured
<1>7. ASSUME SignedAsConfigured PROVE AlgorithmOK /\ KidOK /\ MetadataOK /\ SignatureValid
  <2>1. PICK i \in DOMAIN raw_keys :
          /\ Usable(raw_keys[i]) /\ raw_keys[i].kid = token.header.kid
          /\ token.signature = [key |-> raw_keys[i].key, alg |-> alg]
          /\ raw_keys[i].alg \in {None, alg}
          /\ algorithm_matches_key_type(alg, raw_keys[i].kty, raw_keys[i].crv)
          /\ policy.allowed_algorithms # None => alg \in policy.allowed_algorithms
          /\ policy.allowed_algorithms = None => alg \notin {"HS256", "HS384", "HS512"}
          /\ alg \notin policy.disallowed_algorithms
    BY <1>7 DEF SignedAsConfigured
  <2>2. QED
    BY <1>3, <1>5, <2>1
<1>8. QED
  BY <1>6, <1>7

\* A valid date is there exactly if its claim is.
LEMMA DateGiven ==
    ASSUME NEW c \in Claim \cup {Absent}
    PROVE  /\ numeric_date(c) = Absent <=> c = Absent
           /\ c # Absent => (numeric_date(c) \in I64 <=> numeric_date(c) # Invalid)
           /\ c = Absent => numeric_date(c) # Invalid /\ numeric_date(c) \notin I64
<1>1. Absent \notin I64 /\ Invalid \notin I64 /\ Invalid # Absent
  BY AbsentAssumption, InvalidAssumption, I64Assumption DEF I64, I64_MIN
<1>2. CASE c = Absent
  BY <1>1, <1>2 DEF numeric_date
<1>3. CASE c \in Claim
  <2>1. c # Absent
    BY <1>3, AbsentAssumption
  <2>2. numeric_date(c) # Invalid => numeric_date(c) \in I64
    BY <1>3, NumericDateNear
  <2>3. QED
    BY <1>1, <2>1, <2>2
<1>4. QED
  BY <1>2, <1>3

\* The dates are in order as the policy has it: saturation and rounding do
\* not show.
LEMMA DatesArePolicy ==
    ASSUME TypeOK, SignatureOK, NEW t \in 0 .. MaxNow
    PROVE  DatesOK(t) <=> InTime(t)
<1> DEFINE c     == token.claims
           exp   == numeric_date(c.exp)
           grace == Grace(policy.grace)
<1>1. /\ c.exp \in Claim \cup {Absent} /\ c.nbf \in Claim \cup {Absent}
      /\ c.iat \in Claim \cup {Absent} /\ policy.grace \in I64
  BY ClaimsType DEF Claims, Policy
<1>2. t \in I64 /\ t \in Int /\ grace \in Int /\ I64 \subseteq Int
  BY <1>1, ClockIsI64, I64Assumption DEF I64, I64_MIN, Grace
<1>3. CASE c.exp = Absent
  <2>1. ~DatesOK(t)
    BY <1>3 DEF DatesOK, check_validity_dates, numeric_date
  <2>2. ~InTime(t)
    BY <1>1, <1>3, DateGiven DEF InTime
  <2>3. QED
    BY <2>1, <2>2
<1>4. CASE c.exp # Absent
  <2>1. Dated(c)
    BY <1>1, <1>4 DEF Dated
  <2>2. DatesOK(t) <=>
          /\ exp \in I64
          /\ Invalid \notin {numeric_date(c.nbf), numeric_date(c.iat)}
          /\ t - grace <= exp
          /\ \A d \in {numeric_date(c.nbf), numeric_date(c.iat)} \ {Absent} : d <= t + grace
    BY <1>1, <1>2, <2>1, AcceptedWhen DEF DatesOK
  <2>3. ASSUME NEW x \in {c.nbf, c.iat}
        PROVE  (x # Absent => numeric_date(x) \in I64 /\ numeric_date(x) - grace <= t) <=>
               /\ numeric_date(x) # Invalid
               /\ numeric_date(x) # Absent => numeric_date(x) <= t + grace
    <3>1. /\ numeric_date(x) = Absent <=> x = Absent
          /\ x # Absent => (numeric_date(x) \in I64 <=> numeric_date(x) # Invalid)
          /\ x = Absent => numeric_date(x) # Invalid
      BY <1>1, DateGiven
    <3>2. numeric_date(x) \in I64 => (numeric_date(x) - grace <= t <=> numeric_date(x) <= t + grace)
      <4>1. \A d, u, g \in Int : d - g <= u <=> d <= u + g
        OBVIOUS
      <4>2. QED
        BY <1>2, <4>1
    <3>3. QED
      BY <3>1, <3>2
  <2>4. exp \in I64 => (t <= exp + grace <=> t - grace <= exp)
    <3>1. \A d, u, g \in Int : u <= d + g <=> u - g <= d
      OBVIOUS
    <3>2. QED
      BY <1>2, <3>1
  <2>5. InTime(t) <=>
          /\ exp \in I64 /\ t <= exp + grace
          /\ \A x \in {c.nbf, c.iat} :
                x # Absent => numeric_date(x) \in I64 /\ numeric_date(x) - grace <= t
    BY DEF InTime
  <2>6. QED
    BY <2>2, <2>3, <2>4, <2>5
<1>5. QED
  BY <1>3, <1>4

\* The tests of verify, taken together, are the policy.
LEMMA TestsArePolicy ==
    ASSUME TypeOK, Inv, loading = "ok", NEW t \in 0 .. MaxNow
    PROVE  Timeless /\ DatesOK(t) <=>
              /\ token.shape /\ token.header # None
              /\ SignedAsConfigured
              /\ token.claims # None
              /\ ClaimsAsConfigured
              /\ InTime(t)
              /\ NameAsConfigured
<1>1. CASE ~ShapeOK
  BY <1>1 DEF Timeless, ShapeOK
<1>2. CASE token.claims = None
  BY <1>2 DEF Timeless, SignatureOK
<1>3. CASE ShapeOK /\ token.claims # None
  <2>1. AlgorithmOK /\ KidOK /\ MetadataOK /\ SignatureValid <=> SignedAsConfigured
    BY <1>3, SignatureIsPolicy
  <2>2. IssuerOK /\ AudienceOK /\ PartyOK /\ ScopesOK <=> ClaimsAsConfigured
    BY DEF IssuerOK, AudienceOK, PartyOK, ScopesOK, ClaimsAsConfigured, check_authorized_party
  <2>3. SignatureOK => (DatesOK(t) <=> InTime(t))
    BY DatesArePolicy
  <2>4. SignatureOK => (UidOK /\ UsernameOK <=> NameAsConfigured)
    <3> SUFFICES ASSUME SignatureOK PROVE UidOK /\ UsernameOK <=> NameAsConfigured
      OBVIOUS
    <3>1. token.claims.uid \in Usernames \cup {None} /\ None \notin Usernames
      BY ClaimsType, UsernamesAssumption DEF Claims
    <3>2. QED
      BY <3>1 DEF UidOK, UsernameOK, NameAsConfigured, check_username
  <2>5. QED
    BY <1>3, <2>1, <2>2, <2>3, <2>4 DEF Timeless, SignatureOK, ShapeOK
<1>4. QED
  BY <1>1, <1>2, <1>3

------------------------------------------------------------------------------
\* Every variable of the verifier keeps its type, the errors and phases of
\* verify included (jwt.rs:221-265).
THEOREM TypeCorrect == Spec => []TypeOK
BY VInvInvariant, PTL DEF VInv

\* verify (jwt.rs:221-265) accepts a token exactly if it was signed as
\* configured, by the one usable key of the document with its kid, its claims
\* and its name are as configured, and its dates were in order when they were
\* checked.
THEOREM VerdictCorrect == Spec => []VerdictIsPolicy
<1>1. VInv => VerdictIsPolicy
  <2> SUFFICES ASSUME VInv, phase = "done" PROVE VerdictIsPolicy
    BY DEF VerdictIsPolicy
  <2>1. TypeOK /\ Inv /\ loading = "ok" /\ checkedAt \in 0 .. MaxNow
    BY DEF VInv, TypeOK
  <2>2. QED
    BY <2>1, TestsArePolicy DEF VInv, VerdictIsPolicy
<1>2. QED
  BY <1>1, VInvInvariant, PTL

\* A token that was accepted and then rejected by the same verifier is never
\* accepted again (jwt.rs:332-360): its time is one interval and nothing else
\* can have changed.
THEOREM OneWindow == Spec => []AcceptedOnce
<1>1. VInv => AcceptedOnce
  BY DEF VInv, WindowInv, AcceptedOnce
<1>2. QED
  BY <1>1, VInvInvariant, PTL

==============================================================================
