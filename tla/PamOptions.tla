------------------------------ MODULE PamOptions ------------------------------
(***************************************************************************)
(* The options of the PAM module, pam/src/lib.rs: the arguments of the PAM *)
(* stack, or the file config= names.                                       *)
(*                                                                         *)
(* An argument is a key and a value; one without `=` has the key "flag".   *)
(* A line of a file is an option's name and its value, with the key in     *)
(* lower case and the value trimmed; a line of white space or a comment is *)
(* Skipped, one without a colon or with a key of other characters Broken.  *)
(***************************************************************************)
EXTENDS PolicyOptions

Skipped == [base |-> "#", index |-> Unnumbered, value |-> <<>>]
Broken  == [base |-> "!", index |-> Unnumbered, value |-> <<>>]

\* Err for several config=, or for config= and anything else; otherwise
\* whether the arguments name a file.
config_path(raw) ==
    LET paths == {i \in DOMAIN raw : raw[i].key = "config"}
    IN  IF Cardinality(paths) > 1 \/ paths \notin {{}, DOMAIN raw} THEN Err
        ELSE Ok(paths # {})

------------------------------------------------------------------------------
\* The values of a key, in their order.
Given(raw, key) ==
    LET at == Ascending({i \in DOMAIN raw : raw[i].key = key})
    IN  [n \in DOMAIN at |-> raw[at[n]].value]

LastOr(list, default) == IF list = <<>> THEN default ELSE Last(list)

\* A second value is an error.
set_once(list) == IF Len(list) > 1 THEN Err ELSE Ok(LastOr(list, Unset))

\* add_algorithm and add_disallowed_algorithm: the first unknown name is an error.
add_algorithm(raw, key) == parse_algorithms(Given(raw, key))

\* parse_inline_args: default_args, and apply_option for each argument.  Lists
\* grow, userid and grace are overwritten, iss and jwks may not be given twice,
\* and an unknown key is ignored.
parse_inline_args(raw) ==
    LET iss     == set_once(Given(raw, "iss"))
        jwks    == set_once(Given(raw, "jwks"))
        grace   == Given(raw, "grace")
        allowed == add_algorithm(raw, "allowed_alg")
        denied  == add_algorithm(raw, "disallowed_alg")
        hosts   == Given(raw, "only_from")
    IN  IF \/ ~iss.ok \/ ~jwks.ok \/ ~allowed.ok \/ ~denied.ok
           \/ ~(ToSet(grace) \subseteq Numerals)
        THEN Err
        ELSE Ok([userid  |-> LastOr(Given(raw, "userid"), DefaultUserid),
                 grace   |-> IF grace = <<>> THEN DefaultGrace ELSE ValueOf[Last(grace)],
                 iss     |-> iss.value,
                 jwks    |-> jwks.value,
                 trusted_aud    |-> Given(raw, "trusted_aud"),
                 trusted_azp    |-> Given(raw, "trusted_azp"),
                 required_scope |-> Given(raw, "required_scope"),
                 disallowed_usernames  |-> Given(raw, "disallowed_username"),
                 allowed_algorithms    |-> allowed.value,
                 disallowed_algorithms |-> denied.value,
                 only_from |-> [i \in DOMAIN hosts |-> ToSet(Split(hosts[i], {","}))]])

\* Mutant: one list is enough.
only_from_any(lists, host) == \E i \in DOMAIN lists : host \in lists[i]

\* Every list has to hold the host.
only_from_allows(lists, host) == \A i \in DOMAIN lists : host \in lists[i]

------------------------------------------------------------------------------
Option(line) == <<line.base, line.index>>

\* The first occurrence of a key wins.
Entries(lines) ==
    LET entries  == {i \in DOMAIN lines : lines[i] # Skipped}
        Of(name) == {i \in entries : Option(lines[i]) = name}
    IN  [name \in {Option(lines[i]) : i \in entries} |-> lines[Min(Of(name))].value]

\* Every line has to be well formed, the ones that do not count included.
parse_config(lines) ==
    LET options == read(Entries(lines))
    IN  IF \E i \in DOMAIN lines : lines[i] # Skipped /\ lines[i].value = <<>> THEN Err
        ELSE IF ~options.ok THEN Err
        ELSE Ok([x \in DOMAIN options.value \cup {"only_from"} |->
                    IF x = "only_from" THEN <<>> ELSE options.value[x]])

==============================================================================
