---------------------------- MODULE PolicyOptions ----------------------------
(***************************************************************************)
(* core/src/config.rs: the oauthbearer_* options of a SASL configuration.  *)
(* An option is named by its base and a number, Unnumbered for none; get   *)
(* is the function from the names that are set to their values.  What      *)
(* `read` returns is its record of options, or Err.                        *)
(***************************************************************************)
EXTENDS Text

CONSTANTS
    Algorithms,     \* the values parse_algorithm_name knows
    Numerals,       \* the values i64::from_str accepts
    ValueOf         \* the number each of them stands for

ASSUME NumeralsAssumption == ValueOf \in [Numerals -> Int]

Unnumbered == -1
Blank      == " "

\* The first index that is not set.
EndOf(get, base) ==
    CHOOSE n \in 0 .. Cardinality(DOMAIN get) :
        /\ <<base, n>> \notin DOMAIN get
        /\ \A i \in 0 .. n - 1 : <<base, i>> \in DOMAIN get

\* Mutant: counts from one.
get_indexed_from_one(get, base) ==
    LET values == [i \in 1 .. EndOf(get, base) - 1 |-> get[<<base, i>>]]
    IN  IF <<>> \in ToSet(values) THEN Err ELSE Ok(values)

get_indexed(get, base) ==
    LET values == [i \in 1 .. EndOf(get, base) |-> get[<<base, i - 1>>]]
    IN  IF <<>> \in ToSet(values) THEN Err ELSE Ok(values)

\* Mutant: the unnumbered list is overlooked.
get_list_numbered(get, base) == get_indexed(get, base)

get_list_option(get, base) ==
    LET indexed == get_indexed(get, base)
    IN  IF ~indexed.ok \/ indexed.value # <<>> THEN indexed
        ELSE IF <<base, Unnumbered>> \in DOMAIN get
             THEN Ok(Split(get[<<base, Unnumbered>>], {",", Blank}))
             ELSE Ok(<<>>)

\* A list without repetitions, whose order nobody looks at: a set.
parse_algorithms(names) ==
    IF ToSet(names) \subseteq Algorithms THEN Ok(ToSet(names)) ELSE Err

\* An option with one value, and what it is if it is not set or empty.
Single(get, name, default) ==
    IF name \in DOMAIN get /\ get[name] # <<>> THEN get[name] ELSE default

DefaultUserid == <<"preferred_username">>
DefaultGrace  == 3
Unset         == <<"(unset)">>     \* None, for an issuer or a path

\* PolicyOptions::read.  An option that is set to nothing is as unset, where
\* only one value is asked for, except grace: nothing is no number.  Without
\* allowed_alg the list is None, which is the empty one here: the list that is
\* given is never empty.
read(get) ==
    LET graceSet == <<"grace", Unnumbered>> \in DOMAIN get
        allowed  == get_list_option(get, "allowed_alg")
        denied   == get_list_option(get, "disallowed_alg")
        lists    == [base \in {"trusted_aud", "trusted_azp", "required_scope"} |->
                         get_indexed(get, base)]
        users    == get_list_option(get, "disallowed_username")
    IN  IF \/ graceSet /\ get[<<"grace", Unnumbered>>] \notin Numerals
           \/ ~allowed.ok \/ ~denied.ok \/ ~users.ok
           \/ \E base \in DOMAIN lists : ~lists[base].ok
        THEN Err
        ELSE IF ~parse_algorithms(allowed.value).ok \/ ~parse_algorithms(denied.value).ok
        THEN Err
        ELSE Ok([userid  |-> Single(get, <<"userid", Unnumbered>>, DefaultUserid),
                 grace   |-> IF graceSet THEN ValueOf[get[<<"grace", Unnumbered>>]]
                                         ELSE DefaultGrace,
                 iss     |-> Single(get, <<"trusted_iss", 0>>, Unset),
                 jwks    |-> Single(get, <<"trusted_jwks", 0>>, Unset),
                 trusted_aud    |-> lists["trusted_aud"].value,
                 trusted_azp    |-> lists["trusted_azp"].value,
                 required_scope |-> lists["required_scope"].value,
                 disallowed_usernames  |-> users.value,
                 allowed_algorithms    |-> parse_algorithms(allowed.value).value,
                 disallowed_algorithms |-> parse_algorithms(denied.value).value])

==============================================================================
