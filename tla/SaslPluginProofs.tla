-------------------------- MODULE SaslPluginProofs --------------------------
(***************************************************************************)
(* Proofs about SaslPlugin, for any configuration files, tokens, names and *)
(* bytes: whom the file denies is not let in, without TLS nobody is unless *)
(* the file says so, both front ends read one policy in a file, and a name *)
(* arrives as it is or not at all.                                         *)
(***************************************************************************)
EXTENDS SaslPlugin, Rfc7628Proofs

------------------------------------------------------------------------------
(* The first index that is not set.                                        *)

\* Among more indices than there are options one is not set.
LEMMA SomeUnset ==
    ASSUME NEW D, IsFiniteSet(D), NEW base
    PROVE  \E n \in 0 .. Cardinality(D) : <<base, n>> \notin D
<1> DEFINE C == Cardinality(D)
           f == [n \in 0 .. C |-> <<base, n>>]
<1>1. C \in Nat
  BY FS_CardinalityType
<1>2. SUFFICES ASSUME \A n \in 0 .. C : <<base, n>> \in D PROVE FALSE
  OBVIOUS
<1>3. f \in Injection(0 .. C, D)
  BY <1>2 DEF Injection, IsInjective
<1>4. Cardinality(0 .. C) <= C
  BY <1>3, FS_Injection
<1>5. Cardinality(0 .. C) = C + 1
  BY <1>1, FS_Interval
<1>6. QED
  BY <1>1, <1>4, <1>5

\* EndOf is the length of the numbered options without a gap.
LEMMA EndIs ==
    ASSUME NEW get, IsFiniteSet(DOMAIN get), NEW base
    PROVE  /\ EndOf(get, base) \in Nat
           /\ <<base, EndOf(get, base)>> \notin DOMAIN get
           /\ \A i \in 0 .. EndOf(get, base) - 1 : <<base, i>> \in DOMAIN get
<1> DEFINE C == Cardinality(DOMAIN get)
           U == {n \in 0 .. C : <<base, n>> \notin DOMAIN get}
<1>1. C \in Nat
  BY FS_CardinalityType
<1>2. U # {}
  BY SomeUnset
<1>3. Min(U) \in U /\ \A y \in U : Min(U) <= y
  <2>1. U \subseteq Nat
    BY <1>1
  <2>2. QED
    BY <1>2, <2>1, LeastExists
<1> DEFINE m == Min(U)
<1> HIDE DEF m
<1>4. m \in 0 .. C /\ <<base, m>> \notin DOMAIN get
  BY <1>3 DEF m
<1>5. \A i \in 0 .. m - 1 : <<base, i>> \in DOMAIN get
  <2> SUFFICES ASSUME NEW i \in 0 .. m - 1, <<base, i>> \notin DOMAIN get PROVE FALSE
    OBVIOUS
  <2>1. i \in U
    BY <1>1, <1>4
  <2>2. m <= i
    BY <1>3, <2>1 DEF m
  <2>3. QED
    BY <1>1, <1>4, <2>2
<1>6. \E n \in 0 .. C : <<base, n>> \notin DOMAIN get /\ \A i \in 0 .. n - 1 : <<base, i>> \in DOMAIN get
  BY <1>4, <1>5
<1>7. QED
  BY <1>1, <1>6 DEF EndOf

------------------------------------------------------------------------------
(* What the options of the file are.                                       *)

Line == [base: STRING, index: Nat \cup {Unnumbered}, value: Seq(STRING)]

Get == Entries(lines)

\* The lines that count, and among them those of an option.
Counted  == {i \in DOMAIN lines : lines[i] # Skipped}
Of(name) == {i \in Counted : Option(lines[i]) = name}

\* An option that some line sets has the value of the first such line.
LEMMA GetIs ==
    /\ DOMAIN Get = {Option(lines[i]) : i \in Counted}
    /\ \A name \in DOMAIN Get : Get[name] = lines[Min(Of(name))].value
BY DEF Get, Entries, Counted, Of

\* A file sets finitely many options.
LEMMA GetFinite ==
    ASSUME lines \in Seq(Line)
    PROVE  IsFiniteSet(DOMAIN Get)
<1> DEFINE f == [i \in Counted |-> Option(lines[i])]
<1>1. IsFiniteSet(DOMAIN lines)
  BY FS_Interval
<1>2. IsFiniteSet(Counted)
  BY <1>1, FS_Subset DEF Counted
<1>3. f \in Surjection(Counted, DOMAIN Get)
  BY GetIs DEF Surjection
<1>4. QED
  BY <1>2, <1>3, FS_Surjection

\* Of the lines of an option the first is the one that is heeded.
LEMMA HeededIsSet ==
    ASSUME lines \in Seq(Line), NEW base, base # "#", NEW l \in Heeded(base)
    PROVE  <<base, l.index>> \in DOMAIN Get /\ Get[<<base, l.index>>] = l.value
<1>1. PICK k \in DOMAIN lines :
         /\ l = lines[k] /\ lines[k].base = base
         /\ \A j \in 1 .. k - 1 : Option(lines[j]) # Option(lines[k])
  BY DEF Heeded
<1>2. Option(lines[k]) = <<base, l.index>>
  BY <1>1 DEF Option
<1>3. k \in Of(<<base, l.index>>)
  BY <1>1, <1>2 DEF Of, Counted, Skipped
<1>4. Of(<<base, l.index>>) \subseteq Nat
  BY DEF Of, Counted
<1>5. \A y \in Of(<<base, l.index>>) : k <= y
  BY <1>1, <1>2 DEF Of, Counted
<1>6. Min(Of(<<base, l.index>>)) = k
  BY <1>3, <1>4, <1>5, LeastIs
<1>7. <<base, l.index>> \in DOMAIN Get
  BY <1>2, <1>3, GetIs DEF Of
<1>8. QED
  BY <1>1, <1>6, <1>7, GetIs

\* And an option that is set was set by a line that is heeded.
LEMMA SetIsHeeded ==
    ASSUME lines \in Seq(Line), NEW base, base # "#", NEW i, <<base, i>> \in DOMAIN Get
    PROVE  \E l \in Heeded(base) : l.index = i /\ l.value = Get[<<base, i>>]
<1> DEFINE k == Min(Of(<<base, i>>))
<1>1. Of(<<base, i>>) # {} /\ Of(<<base, i>>) \subseteq Nat
  BY GetIs DEF Of, Counted
<1>2. k \in Of(<<base, i>>) /\ \A y \in Of(<<base, i>>) : k <= y
  BY <1>1, LeastExists
<1>3. Get[<<base, i>>] = lines[k].value
  BY GetIs
<1> HIDE DEF k
<1>4. k \in DOMAIN lines /\ Option(lines[k]) = <<base, i>>
  BY <1>2 DEF Of, Counted
<1>5. lines[k].base = base /\ lines[k].index = i
  BY <1>4 DEF Option
<1>6. ASSUME NEW j \in 1 .. k - 1 PROVE Option(lines[j]) # Option(lines[k])
  <2> SUFFICES ASSUME Option(lines[j]) = <<base, i>> PROVE FALSE
    BY <1>4
  <2>1. j \in DOMAIN lines /\ k \in Nat /\ j \in Nat /\ j < k
    BY <1>4
  <2>2. lines[j].base = base
    BY DEF Option
  <2>3. lines[j] # Skipped
    BY <2>2 DEF Skipped
  <2>4. j \in Of(<<base, i>>)
    BY <2>1, <2>3 DEF Of, Counted
  <2>5. QED
    BY <1>2, <2>1, <2>4
<1>7. lines[k] \in Heeded(base)
  BY <1>4, <1>5, <1>6 DEF Heeded
<1>8. QED
  BY <1>3, <1>5, <1>7

\* The lines that count of a numbered option have its numbers and values.
LEMMA NumberedIs ==
    ASSUME lines \in Seq(Line), NEW base, base # "#"
    PROVE  /\ EndOf(Get, base) \in Nat
           /\ \A i \in 0 .. EndOf(Get, base) - 1 : <<base, i>> \in DOMAIN Get
           /\ \A l \in Numbered(base) :
                  l.index \in 0 .. EndOf(Get, base) - 1 /\ Get[<<base, l.index>>] = l.value
           /\ \A i \in 0 .. EndOf(Get, base) - 1 : \E l \in Numbered(base) : l.index = i
<1> DEFINE n == EndOf(Get, base)
<1>1. /\ n \in Nat /\ <<base, n>> \notin DOMAIN Get
      /\ \A i \in 0 .. n - 1 : <<base, i>> \in DOMAIN Get
  BY GetFinite, EndIs
<1> HIDE DEF n
<1>2. ASSUME NEW l \in Heeded(base) PROVE l.index \in Nat \cup {Unnumbered}
  <2>1. PICK k \in DOMAIN lines : l = lines[k]
    BY DEF Heeded
  <2>2. lines[k] \in Line
    OBVIOUS
  <2>3. QED
    BY <2>1, <2>2 DEF Line
<1>3. ASSUME NEW l \in Numbered(base)
      PROVE  l.index \in 0 .. n - 1 /\ Get[<<base, l.index>>] = l.value
  <2>1. l \in Heeded(base) /\ l.index \in Nat
    BY <1>2 DEF Numbered, Unnumbered
  <2>2. ASSUME NEW i \in 0 .. l.index PROVE <<base, i>> \in DOMAIN Get
    <3>1. PICK h \in Heeded(base) : h.index = i
      BY <1>3 DEF Numbered
    <3>2. QED
      BY <3>1, HeededIsSet
  <2>3. n \notin 0 .. l.index
    BY <1>1, <2>2
  <2>4. QED
    BY <1>1, <2>1, <2>3, HeededIsSet
<1>4. ASSUME NEW i \in 0 .. n - 1 PROVE \E l \in Numbered(base) : l.index = i
  <2>1. PICK l \in Heeded(base) : l.index = i
    BY <1>1, SetIsHeeded
  <2>2. ASSUME NEW j \in 0 .. i PROVE j \in {h.index : h \in Heeded(base)}
    <3>1. j \in 0 .. n - 1
      BY <1>1
    <3>2. PICK h \in Heeded(base) : h.index = j
      BY <1>1, <3>1, SetIsHeeded
    <3>3. QED
      BY <3>2
  <2>3. l \in Numbered(base)
    BY <1>1, <2>1, <2>2 DEF Numbered
  <2>4. QED
    BY <2>1, <2>3
<1>5. QED
  BY <1>1, <1>3, <1>4 DEF n

\* What the file says of a list option, by numbers or in one line, is in the
\* list the plugin reads.
LEMMA ListHasSaid ==
    ASSUME lines \in Seq(Line), NEW base, base # "#", get_list_option(Get, base).ok
    PROVE  SaidOf(base) \subseteq ToSet(get_list_option(Get, base).value)
<1> DEFINE n == EndOf(Get, base)
           values == [i \in 1 .. n |-> Get[<<base, i - 1>>]]
           list == get_list_option(Get, base)
<1>1. /\ n \in Nat /\ <<base, n>> \notin DOMAIN Get
      /\ \A i \in 0 .. n - 1 : <<base, i>> \in DOMAIN Get
  BY GetFinite, EndIs
<1>2. ASSUME NEW l \in Heeded(base) PROVE l.index \in Nat \cup {Unnumbered}
  <2>1. PICK k \in DOMAIN lines : l = lines[k]
    BY DEF Heeded
  <2>2. lines[k] \in Line
    OBVIOUS
  <2>3. QED
    BY <2>1, <2>2 DEF Line
<1>3. get_indexed(Get, base) = IF <<>> \in ToSet(values) THEN Err ELSE Ok(values)
  BY DEF get_indexed
<1> HIDE DEF n
<1>4. CASE Numbered(base) # {}
  <2>1. ASSUME NEW l \in Numbered(base)
        PROVE  l.index \in 0 .. n - 1 /\ Get[<<base, l.index>>] = l.value
    <3>1. l \in Heeded(base) /\ l.index \in Nat
      BY <1>2 DEF Numbered, Unnumbered
    <3>2. ASSUME NEW i \in 0 .. l.index PROVE <<base, i>> \in DOMAIN Get
      <4>1. PICK h \in Heeded(base) : h.index = i
        BY <2>1 DEF Numbered
      <4>2. QED
        BY <4>1, HeededIsSet
    <3>3. n \notin 0 .. l.index
      BY <1>1, <3>2
    <3>4. QED
      BY <1>1, <3>1, <3>3, HeededIsSet
  <2>2. values # <<>>
    <3>1. 1 \in 1 .. n
      <4>1. PICK l \in Numbered(base) : TRUE
        BY <1>4
      <4>2. l.index \in 0 .. n - 1
        BY <2>1
      <4>3. QED
        BY <1>1, <4>2
    <3>2. DOMAIN values = 1 .. n
      OBVIOUS
    <3>3. QED
      BY <3>1, <3>2
  <2> HIDE DEF values
  <2>3. list = Ok(values)
    <3>1. CASE <<>> \in ToSet(values)
      <4>1. get_indexed(Get, base) = Err
        BY <1>3, <3>1
      <4>2. list = Err
        BY <4>1 DEF get_list_option, Err
      <4>3. QED
        BY <4>2 DEF Err
    <3>2. CASE <<>> \notin ToSet(values)
      <4>1. get_indexed(Get, base) = Ok(values)
        BY <1>3, <3>2
      <4>2. Ok(values).value = values
        BY DEF Ok
      <4>3. QED
        BY <2>2, <4>1, <4>2 DEF get_list_option
    <3>3. QED
      BY <3>1, <3>2
  <2>4. ASSUME NEW l \in Numbered(base) PROVE l.value \in ToSet(values)
    <3> DEFINE i == l.index + 1
    <3>1. i \in 1 .. n /\ i - 1 = l.index
      <4>1. n \in Nat /\ l.index \in 0 .. n - 1
        BY <1>1, <2>1
      <4>2. \A x \in 0 .. n - 1 : x + 1 \in 1 .. n /\ x + 1 - 1 = x
        BY <4>1
      <4>3. QED
        BY <4>1, <4>2
    <3> HIDE DEF i
    <3>2. values[i] = Get[<<base, i - 1>>]
      BY <3>1 DEF values
    <3>3. values[i] = l.value /\ i \in DOMAIN values
      BY <2>1, <3>1, <3>2 DEF values
    <3>4. QED
      BY <3>3 DEF ToSet
  <2>5. QED
    BY <1>4, <2>3, <2>4 DEF SaidOf, Ok
<1>5. CASE Numbered(base) = {}
  <2>1. n = 0
    <3> SUFFICES ASSUME n # 0 PROVE FALSE
      OBVIOUS
    <3>1. 0 \in 0 .. n - 1
      BY <1>1
    <3>2. PICK l \in Heeded(base) : l.index = 0
      BY <1>1, <3>1, SetIsHeeded
    <3>3. l \in Numbered(base)
      BY <3>2 DEF Numbered
    <3>4. QED
      BY <1>5, <3>3
  <2>2. values = <<>> /\ ToSet(values) = {}
    BY <2>1 DEF ToSet
  <2>3. get_indexed(Get, base) = Ok(<<>>)
    BY <1>3, <2>2
  <2>4. ASSUME NEW l \in Heeded(base), l.index = Unnumbered
        PROVE  list.value = Split(l.value, {",", Blank})
    <3>1. <<base, Unnumbered>> \in DOMAIN Get /\ Get[<<base, Unnumbered>>] = l.value
      BY <2>4, HeededIsSet
    <3>2. Ok(<<>>).ok /\ Ok(<<>>).value = <<>>
      BY DEF Ok
    <3>3. list = Ok(Split(l.value, {",", Blank}))
      BY <2>3, <3>1, <3>2 DEF get_list_option
    <3>4. \A v : Ok(v).value = v
      BY DEF Ok
    <3>5. QED
      BY <3>3, <3>4
  <2>5. QED
    BY <1>5, <2>4 DEF SaidOf, Lists
<1>6. QED
  BY <1>4, <1>5

\* What is read of the options that deny.
LEMMA ReadDenies ==
    ASSUME read(Get).ok
    PROVE  /\ get_list_option(Get, "disallowed_username").ok
           /\ get_list_option(Get, "disallowed_alg").ok
           /\ read(Get).value.disallowed_usernames =
                  get_list_option(Get, "disallowed_username").value
           /\ read(Get).value.disallowed_algorithms =
                  ToSet(get_list_option(Get, "disallowed_alg").value)
BY DEF read, parse_algorithms, Ok, Err

\* The value 1 of no_tls is that of a line that is heeded.
LEMMA WaiverIsSaid ==
    ASSUME lines \in Seq(Line), option(<<"no_tls", Unnumbered>>) = <<"1">>
    PROVE  Said.no_tls
<1>1. Unset # <<"1">>
  BY DEF Unset
<1>2. <<"no_tls", Unnumbered>> \in DOMAIN Get /\ Get[<<"no_tls", Unnumbered>>] = <<"1">>
  BY <1>1 DEF option, Single, Get
<1>3. \E l \in Heeded("no_tls") : l.value = <<"1">>
  BY <1>2, SetIsHeeded
<1>4. QED
  BY <1>3 DEF Said

------------------------------------------------------------------------------
(* The plugin.                                                             *)

\* The policy of the plugin is at least as strict as what the file says.
AsStrict ==
    /\ said.users \subseteq ToSet(plugin.disallowed_usernames)
    /\ said.algs \subseteq plugin.disallowed_algorithms
    /\ tls_required \/ said.no_tls

\* A plugin that is not loaded has nothing from an earlier load; one that is
\* accepts what its own policy admits, and has let in nobody else.
PInv ==
    /\ lines \in Seq(Line)
    /\ loaded # "OK" => plugin = None /\ ctx = None /\ valid = {} /\ src # "OK"
    /\ loaded = "OK" => AsStrict /\ \A t \in valid : Admits(t)
    /\ src = "OK" => Admits(Received(input).token) /\ Encrypted

\* Nothing is loaded and nobody is let in at first.
LEMMA InitPInv == Init => PInv
BY FilesAssumption, NoReturnAssumption DEF Init, PInv, Line

\* Loading makes the policy of the file that of the plugin.
LEMMA LoadKeepsPInv == PInv /\ sasl_server_plug_init => PInv'
<1> SUFFICES ASSUME PInv, sasl_server_plug_init PROVE PInv'
  OBVIOUS
<1>1. /\ loaded = None /\ loaded # "OK"
      /\ UNCHANGED <<valid, ssf, ctx, src, input>>
  BY NoReturnAssumption
  DEF sasl_server_plug_init, VersionMismatch, JwksFails, ConfigFails, from_sasl, InitFails, InitReturns
<1>2. ctx = None /\ valid = {} /\ src # "OK" /\ plugin = None
  BY <1>1 DEF PInv
<1>3. CASE VersionMismatch \/ JwksFails \/ ConfigFails
  BY <1>1, <1>2, <1>3 DEF VersionMismatch, JwksFails, ConfigFails, InitFails, InitReturns, PInv
<1>4. CASE from_sasl
  <2>1. /\ plugin' = read(Get).value /\ read(Get).ok /\ said' = Said /\ lines' = <<>>
        /\ tls_required' = (option(<<"no_tls", Unnumbered>>) # <<"1">>)
        /\ loaded' = "OK"
    BY <1>4 DEF from_sasl, Configured, InitReturns, Get
  <2>2. /\ Said.users \subseteq ToSet(read(Get).value.disallowed_usernames)
        /\ Said.algs \subseteq read(Get).value.disallowed_algorithms
    BY <2>1, ReadDenies, ListHasSaid DEF Said, PInv
  <2>3. tls_required' \/ Said.no_tls
    BY <2>1, WaiverIsSaid DEF PInv
  <2>4. AsStrict'
    BY <2>1, <2>2, <2>3 DEF AsStrict
  <2>5. QED
    BY <1>1, <1>2, <2>1, <2>4 DEF PInv
<1>5. QED
  BY <1>3, <1>4 DEF sasl_server_plug_init

\* Only a token that is valid is let in, over a connection that will do.
LEMMA StepLetsIn ==
    ASSUME NEW received, server_step(received)
    PROVE  /\ UNCHANGED <<tls_required, valid, ssf>>
           /\ ctx # None
           /\ src' = "OK" => Encrypted /\ received.token \in valid
<1>1. CASE Accept(received)
  BY <1>1 DEF Accept, Named, Verified, Parses, Sized, Return
<1>2. CASE Reject(received)
  BY <1>2 DEF Reject
<1>3. CASE ~Accept(received) /\ ~Reject(received)
  BY <1>3
  DEF server_step, NoSsf, NotTls, TooBig, Complete, Malformed, NoCanonUser, AuthzidNul,
      CanonFails, CanonFailsLate, Refuse, Return
<1>4. QED
  BY <1>1, <1>2, <1>3

\* While the plugin is loaded its policy does not change.
LEMMA ServeKeepsPInv ==
    ASSUME PInv, UNCHANGED <<lines, plugin, said, loaded, tls_required, ssf>>, loaded = "OK",
           \A t \in valid' : Admits(t),
           src' = "OK" => Admits(Received(input').token) /\ Encrypted
    PROVE  PInv'
<1>1. AsStrict'
  BY DEF PInv, AsStrict
<1>2. \A t : Admits(t)' <=> Admits(t)
  BY DEF Admits
<1>3. Encrypted' <=> Encrypted
  BY DEF Encrypted
<1>4. Received(input)' = Received(input')
  BY DEF Received
<1>5. QED
  BY <1>1, <1>2, <1>3, <1>4 DEF PInv

\* Every step of Next, one case each.
LEMMA NextKeepsPInv == PInv /\ [Next]_vars => PInv'
<1> SUFFICES ASSUME PInv, [Next]_vars PROVE PInv'
  OBVIOUS
<1>1. CASE sasl_server_plug_init
  BY <1>1, LoadKeepsPInv
<1>2. CASE server_mech_free
  BY <1>2, FilesAssumption, NoReturnAssumption DEF server_mech_free, PInv, Line
<1>3. CASE TokensChange
  BY <1>3, ServeKeepsPInv DEF TokensChange, pluginVars, PInv
<1>4. CASE New
  BY <1>4, ServeKeepsPInv, NoReturnAssumption DEF New, server_mech_new, pluginVars, PInv
<1>5. CASE Dispose
  BY <1>5, ServeKeepsPInv DEF Dispose, server_mech_dispose, pluginVars, PInv
<1>6. ASSUME NEW m \in Inputs, server_mech_step(m) PROVE PInv'
  <2>1. /\ server_step(Received(m)) /\ input' = m
        /\ UNCHANGED <<lines, plugin, said, loaded>>
    BY <1>6 DEF server_mech_step
  <2>2. /\ UNCHANGED <<tls_required, valid, ssf>> /\ ctx # None
        /\ src' = "OK" => Encrypted /\ Received(m).token \in valid
    BY <2>1, StepLetsIn
  <2>3. loaded = "OK" /\ \A t \in valid : Admits(t)
    BY <2>2 DEF PInv
  <2>4. QED
    BY <2>1, <2>2, <2>3, ServeKeepsPInv
<1>7. CASE UNCHANGED vars
  <2>1. CASE loaded = "OK"
    BY <1>7, <2>1, ServeKeepsPInv DEF vars, serverVars, pluginVars, PInv
  <2>2. CASE loaded # "OK"
    BY <1>7, <2>2 DEF vars, serverVars, pluginVars, PInv
  <2>3. QED
    BY <2>1, <2>2
<1>8. QED
  BY <1>1, <1>2, <1>3, <1>4, <1>5, <1>6, <1>7 DEF Next

\* Whatever the file, with numbers, gaps, repetitions or lists, and whatever
\* bytes a client sends, nobody is let in whom the file denies.
THEOREM DeniedAreOut == Spec => []DeniedStaysOut
<1>1. PInv => DeniedStaysOut
  <2> SUFFICES ASSUME PInv, src = "OK"
               PROVE  /\ Alg[Received(input).token] \notin said.algs
                      /\ \A n \in said.users : Fold[n] # Fold[Subject[Received(input).token]]
    BY DEF DeniedStaysOut
  <2>1. AsStrict /\ Admits(Received(input).token)
    BY DEF PInv
  <2>2. QED
    BY <2>1 DEF AsStrict, Admits
<1>2. QED
  BY <1>1, InitPInv, NextKeepsPInv, PTL DEF Spec

\* Whatever the file, nobody is let in over a connection without TLS unless
\* the line of no_tls that counts is 1.
THEOREM TlsUnlessWaived == Spec => []OnlyOverTls
<1>1. PInv => OnlyOverTls
  BY DEF PInv, AsStrict, OnlyOverTls, Encrypted
<1>2. QED
  BY <1>1, InitPInv, NextKeepsPInv, PTL DEF Spec

------------------------------------------------------------------------------
(* The values of a key among inline arguments.                             *)

\* The keys of arguments: strings too.
Key == STRING \cup {"userid", "grace", "iss", "jwks", "trusted_aud", "trusted_azp", "required_scope",
                    "disallowed_username", "allowed_alg", "disallowed_alg", "only_from"}

Argument == [key: Key, value: Seq(STRING)]

PlacesOf(raw, key) == {i \in DOMAIN raw : raw[i].key = key}

\* Each is that of an argument with the key.
LEMMA GivenIs ==
    ASSUME NEW raw \in Seq(Argument), NEW key
    PROVE  /\ PlacesOf(raw, key) \subseteq Nat /\ IsFiniteSet(PlacesOf(raw, key))
           /\ Cardinality(PlacesOf(raw, key)) \in Nat
           /\ Given(raw, key) = [n \in 1 .. Cardinality(PlacesOf(raw, key)) |->
                                    raw[Ascending(PlacesOf(raw, key))[n]].value]
           /\ Given(raw, key) \in Seq(Seq(STRING))
           /\ Len(Given(raw, key)) = Cardinality(PlacesOf(raw, key))
<1> DEFINE P == PlacesOf(raw, key)
           C == Cardinality(P)
<1>1. P \subseteq Nat /\ P \subseteq DOMAIN raw
  BY DEF PlacesOf
<1>2. IsFiniteSet(P)
  BY <1>1, FS_Interval, FS_Subset
<1>3. C \in Nat /\ DOMAIN Ascending(P) = 1 .. C /\ \A n \in 1 .. C : Ascending(P)[n] \in P
  BY <1>1, <1>2, AscendingIs
<1>4. Given(raw, key) = [n \in 1 .. C |-> raw[Ascending(P)[n]].value]
  BY <1>3 DEF Given, PlacesOf
<1> HIDE DEF C, P
<1>5. \A n \in 1 .. C : raw[Ascending(P)[n]].value \in Seq(STRING)
  <2> TAKE n \in 1 .. C
  <2>1. raw[Ascending(P)[n]] \in Argument
    BY <1>1, <1>3, ElementOfSeq, LenProperties
  <2>2. QED
    BY <2>1 DEF Argument
<1>6. Given(raw, key) \in Seq(Seq(STRING)) /\ Len(Given(raw, key)) = C
  BY <1>3, <1>4, <1>5
<1>7. QED
  BY <1>1, <1>2, <1>3, <1>4, <1>6 DEF C, P

\* Of two rows of arguments the values of the first come first.
LEMMA GivenConcat ==
    ASSUME NEW a \in Seq(Argument), NEW b \in Seq(Argument), NEW key
    PROVE  Given(a \o b, key) = Given(a, key) \o Given(b, key)
<1> DEFINE m == Len(a)
           A == PlacesOf(a, key)
           B == PlacesOf(b, key)
           AB == PlacesOf(a \o b, key)
           Ca == Cardinality(A)
           Cb == Cardinality(B)
<1>1. /\ a \o b \in Seq(Argument) /\ Len(a \o b) = m + Len(b) /\ m \in Nat /\ Len(b) \in Nat
      /\ \A i \in 1 .. m : (a \o b)[i] = a[i]
      /\ \A j \in 1 .. Len(b) : (a \o b)[m + j] = b[j]
  OBVIOUS
<1>2. /\ A \subseteq 1 .. m /\ IsFiniteSet(A) /\ Ca \in Nat
      /\ B \subseteq 1 .. Len(b) /\ IsFiniteSet(B) /\ Cb \in Nat
      /\ AB \subseteq Nat /\ IsFiniteSet(AB)
  <2>1. A \subseteq 1 .. m /\ B \subseteq 1 .. Len(b)
    BY DEF PlacesOf
  <2>2. QED
    BY <1>1, <2>1, GivenIs
<1>2a. A \subseteq Nat /\ B \subseteq Nat
  BY <1>2
<1>3. AB = A \cup {m + j : j \in B}
  <2>1. ASSUME NEW i \in 1 .. m PROVE i \in AB <=> i \in A
    BY <1>1 DEF PlacesOf
  <2>2. ASSUME NEW j \in 1 .. Len(b) PROVE m + j \in AB <=> j \in B
    BY <1>1 DEF PlacesOf
  <2>3. AB \subseteq 1 .. m + Len(b)
    BY <1>1 DEF PlacesOf
  <2> HIDE DEF A, B, AB, m
  <2>4. ASSUME NEW i \in AB PROVE i \in A \cup {m + j : j \in B}
    <3>1. CASE i <= m
      BY <1>1, <2>1, <2>3, <3>1
    <3>2. CASE ~(i <= m)
      <4>1. i - m \in 1 .. Len(b) /\ m + (i - m) = i
        BY <1>1, <2>3, <3>2
      <4>2. QED
        BY <2>2, <4>1
    <3>3. QED
      BY <3>1, <3>2
  <2>5. ASSUME NEW i \in A PROVE i \in AB
    BY <1>2, <2>1
  <2>6. ASSUME NEW j \in B PROVE m + j \in AB
    BY <1>2, <2>2
  <2>7. QED
    BY <2>4, <2>5, <2>6
<1> HIDE DEF A, B, AB, m, Ca, Cb
<1>4. ASSUME NEW T, T \subseteq B
      PROVE  /\ IsFiniteSet(T)
             /\ Cardinality(A \cup {m + j : j \in T}) = Ca + Cardinality(T)
  <2>1. IsFiniteSet(T) /\ Cardinality(T) \in Nat
    BY <1>2, <1>4, FS_Subset, FS_CardinalityType
  <2>2. IsFiniteSet({m + j : j \in T}) /\ Cardinality({m + j : j \in T}) = Cardinality(T)
    <3>1. T \subseteq Nat
      BY <1>2, <1>4
    <3>2. QED
      BY <1>1, <2>1, <3>1, Moved
  <2>3. A \cap {m + j : j \in T} = {}
    <3>1. ASSUME NEW j \in T PROVE m + j \notin 1 .. m
      BY <1>1, <1>2, <1>4
    <3>2. QED
      BY <1>2, <3>1
  <2>4. Cardinality(A \cap {m + j : j \in T}) = 0
    BY <2>3, FS_EmptySet
  <2>5. Cardinality(A \cup {m + j : j \in T}) = Ca + Cardinality(T) - 0
    BY <1>2, <2>2, <2>4, FS_Union DEF Ca
  <2>6. QED
    BY <1>2, <2>1, <2>5
<1>5. Cardinality(AB) = Ca + Cb
  BY <1>3, <1>4 DEF Cb
<1>6. ASSUME NEW i \in A PROVE i \in AB /\ Rank(AB, i) = Rank(A, i)
  <2>1. \A j \in B : ~(m + j <= i)
    BY <1>1, <1>2
  <2>2. {x \in AB : x <= i} = {x \in A : x <= i}
    BY <1>3, <2>1
  <2>3. QED
    BY <1>3, <2>2 DEF Rank
<1>7. ASSUME NEW j \in B PROVE m + j \in AB /\ Rank(AB, m + j) = Ca + Rank(B, j)
  <2> DEFINE T == {y \in B : y <= j}
  <2>1. \A x \in A : x <= m + j
    <3>1. \A x \in 1 .. m, y \in Nat : x <= m + y
      BY <1>1
    <3>2. QED
      BY <1>2, <1>2a, <3>1
  <2>2. \A y \in B : m + y <= m + j <=> y <= j
    BY <1>1, <1>2
  <2>3. {x \in AB : x <= m + j} = A \cup {m + y : y \in T}
    BY <1>3, <2>1, <2>2
  <2>4. QED
    BY <1>3, <1>4, <2>3 DEF Rank
<1> DEFINE G == Given(a \o b, key)
           H == Given(a, key) \o Given(b, key)
<1>8. /\ G \in Seq(Seq(STRING)) /\ Len(G) = Ca + Cb
      /\ \A n \in 1 .. Ca + Cb : G[n] = (a \o b)[Ascending(AB)[n]].value
  <2>1. /\ G = [n \in 1 .. Cardinality(AB) |-> (a \o b)[Ascending(AB)[n]].value]
        /\ G \in Seq(Seq(STRING)) /\ Len(G) = Cardinality(AB)
    BY <1>1, GivenIs DEF AB
  <2> HIDE DEF G
  <2>2. QED
    BY <1>5, <2>1
<1>9. /\ Given(a, key) \in Seq(Seq(STRING)) /\ Len(Given(a, key)) = Ca
      /\ \A n \in 1 .. Ca : Given(a, key)[n] = a[Ascending(A)[n]].value
  BY GivenIs DEF A, Ca
<1>10. /\ Given(b, key) \in Seq(Seq(STRING)) /\ Len(Given(b, key)) = Cb
       /\ \A n \in 1 .. Cb : Given(b, key)[n] = b[Ascending(B)[n]].value
  BY GivenIs DEF B, Cb
<1>11. H \in Seq(Seq(STRING)) /\ Len(H) = Ca + Cb
  BY <1>9, <1>10, ConcatProperties
<1>12. ASSUME NEW n \in 1 .. Ca + Cb PROVE G[n] = H[n]
  <2>1. CASE n <= Ca
    <3>1. n \in 1 .. Ca
      BY <1>2, <2>1
    <3>2. PICK i \in A : Ascending(A)[n] = i /\ Rank(A, i) = n
      BY <1>2, <1>2a, <3>1, AscendingIs DEF Ca
    <3>3. Ascending(AB)[n] = i
      BY <1>2, <1>6, <3>2, AscendingAt
    <3>4. G[n] = a[i].value
      BY <1>1, <1>2, <1>8, <3>3 DEF m
    <3>5. H[n] = Given(a, key)[n]
      BY <1>9, <1>10, <2>1, ConcatProperties
    <3>6. QED
      BY <1>9, <3>1, <3>2, <3>4, <3>5
  <2>2. CASE ~(n <= Ca)
    <3> DEFINE k == n - Ca
    <3>1. k \in 1 .. Cb /\ Ca + k = n
      BY <1>2, <2>2
    <3> HIDE DEF k
    <3>2. PICK j \in B : Ascending(B)[k] = j /\ Rank(B, j) = k
      BY <1>2, <1>2a, <3>1, AscendingIs DEF Cb
    <3>3. Ascending(AB)[n] = m + j
      BY <1>2, <1>7, <3>1, <3>2, AscendingAt
    <3>4. G[n] = b[j].value
      BY <1>1, <1>2, <1>8, <3>3 DEF m
    <3>5. H[n] = Given(b, key)[k]
      BY <1>2, <1>9, <1>10, <2>2, ConcatProperties DEF k
    <3>6. QED
      BY <1>10, <3>1, <3>2, <3>4, <3>5
  <2>3. QED
    BY <2>1, <2>2
<1>13. QED
  BY <1>8, <1>11, <1>12, SeqEqual

\* A row of arguments that share their key has the values for that key only.
LEMMA GivenRow ==
    ASSUME NEW values \in Seq(Seq(STRING)), NEW k \in Key, NEW key \in Key
    PROVE  LET row == [i \in DOMAIN values |-> [key |-> k, value |-> values[i]]]
           IN  /\ row \in Seq(Argument)
               /\ Given(row, key) = IF k = key THEN values ELSE <<>>
<1> DEFINE row == [i \in DOMAIN values |-> [key |-> k, value |-> values[i]]]
           n == Len(values)
<1>1. n \in Nat /\ DOMAIN values = 1 .. n /\ \A i \in 1 .. n : values[i] \in Seq(STRING)
  OBVIOUS
<1>2. /\ row \in Seq(Argument) /\ DOMAIN row = 1 .. n
      /\ \A i \in 1 .. n : row[i].key = k /\ row[i].value = values[i]
  BY <1>1 DEF Argument
<1> HIDE DEF row
<1>3. CASE k = key
  <2>1. PlacesOf(row, key) = 1 .. n
    BY <1>2, <1>3 DEF PlacesOf
  <2>2. Cardinality(1 .. n) = n
    BY <1>1, CountUpTo
  <2>3. Given(row, key) = [i \in 1 .. n |-> row[i].value]
    <3>1. Given(row, key) = [i \in 1 .. n |-> row[Ascending(1 .. n)[i]].value]
      BY <1>2, <2>1, <2>2, GivenIs
    <3>2. \A i \in 1 .. n : Ascending(1 .. n)[i] = i
      BY <1>1, AscendingUpTo
    <3>3. QED
      BY <3>1, <3>2
  <2>4. Given(row, key) = [i \in 1 .. n |-> values[i]]
    BY <1>2, <2>3
  <2>5. QED
    BY <1>1, <1>2, <1>3, <2>4 DEF row
<1>4. CASE k # key
  <2>1. PlacesOf(row, key) = {}
    BY <1>2, <1>4 DEF PlacesOf
  <2>2. Len(Given(row, key)) = 0 /\ Given(row, key) \in Seq(Seq(STRING))
    BY <1>2, <2>1, GivenIs, FS_EmptySet
  <2>3. Given(row, key) = <<>>
    BY <2>2
  <2>4. QED
    BY <1>2, <1>4, <2>3 DEF row
<1>5. QED
  BY <1>3, <1>4

------------------------------------------------------------------------------
(* The options of a file, and the arguments that say the same.             *)

\* A set of one as a sequence, and the empty one.
LEMMA SetToSeqOne == ASSUME NEW x PROVE SetToSeq({x}) = <<x>>
<1>1. Cardinality({x}) = 1
  BY FS_Singleton
<1> DEFINE f == [i \in 1 .. 1 |-> x]
<1>2. f \in [1 .. 1 -> {x}] /\ IsInjective(f)
  <2>1. \A i, j \in 1 .. 1 : i = j
    OBVIOUS
  <2>2. QED
    BY <2>1 DEF IsInjective
<1>3. \A g \in [1 .. 1 -> {x}] : g = f
  OBVIOUS
<1>4. SetToSeq({x}) = CHOOSE g \in [1 .. 1 -> {x}] : IsInjective(g)
  BY <1>1 DEF SetToSeq
<1>5. SetToSeq({x}) \in [1 .. 1 -> {x}]
  BY <1>2, <1>4
<1>6. SetToSeq({x}) = f
  BY <1>3, <1>5
<1>7. QED
  BY <1>6

\* ... and none is no sequence.
LEMMA SetToSeqNone == SetToSeq({}) = <<>>
<1>1. Cardinality({}) = 0
  BY FS_EmptySet
<1> DEFINE f == [i \in 1 .. 0 |-> i]
<1>2. f \in [1 .. 0 -> {}] /\ IsInjective(f)
  BY DEF IsInjective
<1>3. SetToSeq({}) = CHOOSE g \in [1 .. 0 -> {}] : IsInjective(g)
  BY <1>1 DEF SetToSeq
<1>4. SetToSeq({}) \in [1 .. 0 -> {}]
  BY <1>2, <1>3
<1>5. QED
  BY <1>4

\* An option that is set has a value of a line.
LEMMA GetType ==
    ASSUME lines \in Seq(Line), NEW name \in DOMAIN Get
    PROVE  /\ Get[name] \in Seq(STRING)
           /\ (\A i \in DOMAIN lines : lines[i] # Skipped => lines[i].value # <<>>) => Get[name] # <<>>
<1> DEFINE k == Min(Of(name))
<1>1. Of(name) # {} /\ Of(name) \subseteq Nat
  BY GetIs DEF Of, Counted
<1>2. k \in Of(name)
  BY <1>1, LeastExists
<1>3. Get[name] = lines[k].value
  BY GetIs
<1> HIDE DEF k
<1>4. k \in DOMAIN lines /\ lines[k] # Skipped
  BY <1>2 DEF Of, Counted
<1>5. lines[k] \in Line
  BY <1>4
<1>6. QED
  BY <1>3, <1>4, <1>5 DEF Line

\* InOrder is what get_indexed reads.
LEMMA InOrderIs ==
    ASSUME lines \in Seq(Line), NEW base, base # "#"
    PROVE  /\ InOrder(base) = [i \in 1 .. EndOf(Get, base) |-> Get[<<base, i - 1>>]]
           /\ InOrder(base) \in Seq(Seq(STRING))
           /\ Numbered(base) = {} <=> InOrder(base) = <<>>
<1> DEFINE n == EndOf(Get, base)
           values == [i \in 1 .. n |-> Get[<<base, i - 1>>]]
<1>1. /\ n \in Nat
      /\ \A i \in 0 .. n - 1 : <<base, i>> \in DOMAIN Get
      /\ \A l \in Numbered(base) : l.index \in 0 .. n - 1 /\ Get[<<base, l.index>>] = l.value
      /\ \A i \in 0 .. n - 1 : \E l \in Numbered(base) : l.index = i
  BY NumberedIs
<1> HIDE DEF n
<1>2. {l.index + 1 : l \in Numbered(base)} = 1 .. n
  <2>1. ASSUME NEW l \in Numbered(base) PROVE l.index + 1 \in 1 .. n
    <3>1. l.index \in 0 .. n - 1 /\ n \in Nat
      BY <1>1
    <3>2. \A x \in 0 .. n - 1 : x + 1 \in 1 .. n
      BY <3>1
    <3>3. QED
      BY <3>1, <3>2
  <2>2. ASSUME NEW i \in 1 .. n PROVE \E l \in Numbered(base) : i = l.index + 1
    <3>1. i - 1 \in 0 .. n - 1 /\ (i - 1) + 1 = i
      BY <1>1
    <3>2. PICK l \in Numbered(base) : l.index = i - 1
      BY <1>1, <3>1
    <3>3. QED
      BY <3>1, <3>2
  <2>3. QED
    BY <2>1, <2>2
<1>3. ASSUME NEW i \in 1 .. n
      PROVE  (CHOOSE l \in Numbered(base) : l.index = i - 1).value = Get[<<base, i - 1>>]
  <2>1. i - 1 \in 0 .. n - 1
    BY <1>1
  <2>2. PICK l \in Numbered(base) : l = (CHOOSE x \in Numbered(base) : x.index = i - 1) /\ l.index = i - 1
    BY <1>1, <2>1
  <2>3. QED
    BY <1>1, <2>2
<1>4. InOrder(base) = values
  BY <1>2, <1>3 DEF InOrder
<1>5. values \in Seq(Seq(STRING)) /\ Len(values) = n
  <2>1. \A i \in 1 .. n : i - 1 \in 0 .. n - 1
    BY <1>1
  <2>2. \A i \in 1 .. n : Get[<<base, i - 1>>] \in Seq(STRING)
    BY <1>1, <2>1, GetType
  <2>3. QED
    BY <1>1, <2>2
<1> HIDE DEF values
<1>6. Numbered(base) = {} <=> n = 0
  <2>1. n = 0 => Numbered(base) = {}
    BY <1>1
  <2>2. n # 0 => 0 \in 0 .. n - 1
    BY <1>1
  <2>3. QED
    BY <1>1, <2>1, <2>2
<1>7. n = 0 <=> values = <<>>
  BY <1>5, EmptySeq
<1>8. QED
  BY <1>4, <1>5, <1>6, <1>7 DEF values, n

WellFormed == \A i \in DOMAIN lines : lines[i] # Skipped => lines[i].value # <<>>

\* Numbered options without an empty value are read as they are.
LEMMA IndexedIs ==
    ASSUME lines \in Seq(Line), WellFormed, NEW base, base # "#"
    PROVE  get_indexed(Get, base) = Ok(InOrder(base))
<1> DEFINE n == EndOf(Get, base)
           values == [i \in 1 .. n |-> Get[<<base, i - 1>>]]
<1>1. n \in Nat /\ \A i \in 0 .. n - 1 : <<base, i>> \in DOMAIN Get
  BY NumberedIs
<1>2. InOrder(base) = values
  BY InOrderIs
<1>3. get_indexed(Get, base) = IF <<>> \in ToSet(values) THEN Err ELSE Ok(values)
  BY DEF get_indexed
<1> HIDE DEF n
<1>4. \A i \in 1 .. n : values[i] # <<>>
  <2>1. \A i \in 1 .. n : i - 1 \in 0 .. n - 1
    BY <1>1
  <2>2. \A i \in 1 .. n : Get[<<base, i - 1>>] # <<>>
    BY <1>1, <2>1, GetType DEF WellFormed
  <2>3. QED
    BY <2>2
<1>5. <<>> \notin ToSet(values)
  BY <1>4 DEF ToSet
<1>6. QED
  BY <1>2, <1>3, <1>5

\* The lines of one option that is set agree on its value.
LEMMA ValuesAre ==
    ASSUME lines \in Seq(Line), NEW base, base # "#", NEW i
    PROVE  {l.value : l \in {h \in Heeded(base) : h.index = i}} =
               IF <<base, i>> \in DOMAIN Get THEN {Get[<<base, i>>]} ELSE {}
<1>1. \A l \in Heeded(base) : l.index = i =>
          <<base, i>> \in DOMAIN Get /\ Get[<<base, i>>] = l.value
  BY HeededIsSet
<1>2. <<base, i>> \in DOMAIN Get => \E l \in Heeded(base) : l.index = i /\ l.value = Get[<<base, i>>]
  BY SetIsHeeded
<1>3. QED
  BY <1>1, <1>2

\* Listed is what get_list_option reads.
LEMMA ListedIs ==
    ASSUME lines \in Seq(Line), WellFormed, NEW base, base # "#"
    PROVE  get_list_option(Get, base) = Ok(Listed(base)) /\ Listed(base) \in Seq(Seq(STRING))
<1> DEFINE listed == Listed(base)
<1>1. get_indexed(Get, base) = Ok(InOrder(base))
  BY IndexedIs
<1>2. Ok(InOrder(base)).ok /\ Ok(InOrder(base)).value = InOrder(base)
  BY DEF Ok
<1>3. InOrder(base) \in Seq(Seq(STRING)) /\ (Numbered(base) = {} <=> InOrder(base) = <<>>)
  BY InOrderIs
<1>4. CASE Numbered(base) # {}
  BY <1>1, <1>2, <1>3, <1>4 DEF get_list_option, Listed
<1>5. CASE Numbered(base) = {}
  <2> DEFINE name == <<base, Unnumbered>>
             piece(s) == Split(s, {",", Blank})
  <2>1. get_list_option(Get, base) = IF name \in DOMAIN Get THEN Ok(piece(Get[name])) ELSE Ok(<<>>)
    BY <1>1, <1>2, <1>3, <1>5 DEF get_list_option
  <2>2. listed = FlattenSeq(SetToSeq(Lists(base)))
    BY <1>5 DEF Listed
  <2>3. Lists(base) = {piece(v) : v \in {l.value : l \in {h \in Heeded(base) : h.index = Unnumbered}}}
    BY DEF Lists
  <2>4. {l.value : l \in {h \in Heeded(base) : h.index = Unnumbered}} =
            IF name \in DOMAIN Get THEN {Get[name]} ELSE {}
    BY ValuesAre
  <2> HIDE DEF listed, piece, name
  <2>5. CASE name \in DOMAIN Get
    <3>1. Lists(base) = {piece(Get[name])}
      BY <2>3, <2>4, <2>5
    <3>2. piece(Get[name]) \in Seq(Seq(STRING))
      <4>1. Get[name] \in Seq(STRING)
        BY <2>5, GetType
      <4>2. piece(Get[name]) \in Seq(Seq(STRING \ {",", Blank}))
        BY <4>1, SplitIs DEF piece
      <4>3. STRING \ {",", Blank} \subseteq STRING
        OBVIOUS
      <4> DEFINE V == STRING \ {",", Blank}
      <4> HIDE DEF V
      <4>4. Seq(V) \subseteq Seq(STRING)
        BY <4>3, SeqMonotonic DEF V
      <4>5. Seq(Seq(V)) \subseteq Seq(Seq(STRING))
        BY <4>4, SeqMonotonic
      <4>6. QED
        BY <4>2, <4>5 DEF V
    <3>3. listed = piece(Get[name])
      <4>1. SetToSeq(Lists(base)) = <<piece(Get[name])>>
        BY <3>1, SetToSeqOne
      <4>2. QED
        BY <2>2, <3>2, <4>1, FlattenOne
    <3>4. QED
      BY <2>1, <2>5, <3>2, <3>3 DEF listed
  <2>6. CASE name \notin DOMAIN Get
    <3>1. Lists(base) = {}
      BY <2>3, <2>4, <2>6
    <3>2. listed = <<>>
      BY <2>2, <3>1, SetToSeqNone, FlattenNone
    <3>3. <<>> \in Seq(Seq(STRING))
      OBVIOUS
    <3>4. QED
      BY <2>1, <2>6, <3>2, <3>3 DEF listed
  <2>7. QED
    BY <2>5, <2>6
<1>6. QED
  BY <1>4, <1>5

\* An option with one value, as a list.
OneOf(name) == IF name \in DOMAIN Get THEN <<Get[name]>> ELSE <<>>

\* The lines heeded for an option say its one value.
LEMMA OneOfIs ==
    ASSUME lines \in Seq(Line), NEW base, base # "#", NEW i
    PROVE  /\ SetToSeq({l.value : l \in {h \in Heeded(base) : h.index = i}}) = OneOf(<<base, i>>)
           /\ OneOf(<<base, i>>) \in Seq(Seq(STRING))
<1> DEFINE values == {l.value : l \in {h \in Heeded(base) : h.index = i}}
           name == <<base, i>>
<1>1. values = IF name \in DOMAIN Get THEN {Get[name]} ELSE {}
  BY ValuesAre
<1> HIDE DEF values, name
<1>2. CASE name \in DOMAIN Get
  <2>1. SetToSeq(values) = <<Get[name]>>
    BY <1>1, <1>2, SetToSeqOne
  <2>2. Get[name] \in Seq(STRING)
    BY <1>2, GetType
  <2>3. OneOf(name) = <<Get[name]>>
    BY <1>2 DEF OneOf
  <2>4. OneOf(name) \in Seq(Seq(STRING))
    BY <2>2, <2>3, Tuple1
  <2>5. QED
    BY <2>1, <2>3, <2>4 DEF values, name
<1>3. CASE name \notin DOMAIN Get
  <2>1. SetToSeq(values) = <<>>
    BY <1>1, <1>3, SetToSeqNone
  <2>2. OneOf(name) = <<>> /\ <<>> \in Seq(Seq(STRING))
    BY <1>3 DEF OneOf
  <2>3. QED
    BY <2>1, <2>2 DEF values, name
<1>4. QED
  BY <1>2, <1>3

\* The last of one or none is the option, or what it is by default.
LEMMA LastOfOne ==
    ASSUME lines \in Seq(Line), WellFormed, NEW name, NEW default
    PROVE  /\ LastOr(OneOf(name), default) = Single(Get, name, default)
           /\ Len(OneOf(name)) <= 1
<1>1. CASE name \in DOMAIN Get
  <2>1. OneOf(name) = <<Get[name]>> /\ Get[name] # <<>>
    BY <1>1, GetType DEF OneOf, WellFormed
  <2>2. \A v : <<v>> # <<>> /\ Len(<<v>>) = 1 /\ Last(<<v>>) = v
    BY DEF Last
  <2> HIDE DEF Get
  <2>3. QED
    BY <1>1, <2>1, <2>2 DEF LastOr, Single
<1>2. CASE name \notin DOMAIN Get
  <2>1. OneOf(name) = <<>> /\ Len(<<>>) = 0
    BY <1>2 DEF OneOf
  <2>2. QED
    BY <1>2, <2>1 DEF LastOr, Single
<1>3. QED
  BY <1>1, <1>2

\* One argument for each value of a key.
Row(key, values) == [i \in DOMAIN values |-> [key |-> key, value |-> values[i]]]

\* The arguments raw are those of the keys of U, with the values V says.
Holds(raw, U, V) ==
    /\ raw \in Seq(Argument)
    /\ \A key \in Key : Given(raw, key) = IF key \in U THEN V[key] ELSE <<>>

\* One row.
LEMMA FirstRow ==
    ASSUME NEW k \in Key, NEW values \in Seq(Seq(STRING)), NEW V, V[k] = values
    PROVE  Holds(Row(k, values), {k}, V)
<1>1. Row(k, values) \in Seq(Argument)
  BY GivenRow DEF Row
<1>2. ASSUME NEW key \in Key
      PROVE  Given(Row(k, values), key) = IF key \in {k} THEN V[key] ELSE <<>>
  <2>1. Given(Row(k, values), key) = IF k = key THEN values ELSE <<>>
    BY GivenRow DEF Row
  <2>2. QED
    BY <2>1
<1>3. QED
  BY <1>1, <1>2 DEF Holds

\* One row more, of a new key.
LEMMA OneRowMore ==
    ASSUME NEW raw, NEW U, NEW V, Holds(raw, U, V),
           NEW k \in Key, k \notin U, NEW values \in Seq(Seq(STRING)), V[k] = values
    PROVE  Holds(raw \o Row(k, values), U \cup {k}, V)
<1> DEFINE row == Row(k, values)
<1>1. raw \in Seq(Argument) /\ \A key \in Key : Given(raw, key) = IF key \in U THEN V[key] ELSE <<>>
  BY DEF Holds
<1>2. row \in Seq(Argument)
  BY GivenRow DEF Row
<1>3. \A key \in Key : Given(row, key) = IF k = key THEN values ELSE <<>>
  BY GivenRow DEF Row
<1> HIDE DEF row
<1>4. ASSUME NEW key \in Key
      PROVE  Given(raw \o row, key) = IF key \in U \cup {k} THEN V[key] ELSE <<>>
  <2>1. Given(raw \o row, key) = Given(raw, key) \o Given(row, key)
    BY <1>1, <1>2, GivenConcat
  <2>2. CASE key = k
    <3>1. Given(raw, key) = <<>> /\ Given(row, key) = values
      BY <1>1, <1>3, <2>2
    <3>2. <<>> \o values = values
      BY ConcatEmptySeq
    <3>3. QED
      BY <2>1, <2>2, <3>1, <3>2
  <2>3. CASE key # k
    <3>1. Given(row, key) = <<>> /\ Given(raw, key) \in Seq(Seq(STRING))
      BY <1>1, <1>3, <2>3, GivenIs
    <3>2. Given(raw, key) \o <<>> = Given(raw, key)
      BY <3>1, ConcatEmptySeq
    <3>3. QED
      BY <1>1, <2>1, <2>3, <3>1, <3>2
  <2>4. QED
    BY <2>2, <2>3
<1>5. raw \o row \in Seq(Argument)
  BY <1>1, <1>2, ConcatProperties
<1>6. QED
  BY <1>4, <1>5 DEF Holds, row

\* What the file says under each key of the PAM module.
Means ==
    [key \in Key |->
        CASE key = "userid" -> OneOf(<<"userid", Unnumbered>>)
          [] key = "grace" -> OneOf(<<"grace", Unnumbered>>)
          [] key = "iss" -> OneOf(<<"trusted_iss", 0>>)
          [] key = "jwks" -> OneOf(<<"trusted_jwks", 0>>)
          [] key = "trusted_aud" -> InOrder("trusted_aud")
          [] key = "trusted_azp" -> InOrder("trusted_azp")
          [] key = "required_scope" -> InOrder("required_scope")
          [] key = "disallowed_username" -> Listed("disallowed_username")
          [] key = "allowed_alg" -> Listed("allowed_alg")
          [] key = "disallowed_alg" -> Listed("disallowed_alg")
          [] OTHER -> <<>>]

\* Means, key by key.
LEMMA MeansIs ==
    /\ Means["userid"] = OneOf(<<"userid", Unnumbered>>)
    /\ Means["grace"] = OneOf(<<"grace", Unnumbered>>)
    /\ Means["iss"] = OneOf(<<"trusted_iss", 0>>)
    /\ Means["jwks"] = OneOf(<<"trusted_jwks", 0>>)
    /\ Means["trusted_aud"] = InOrder("trusted_aud")
    /\ Means["trusted_azp"] = InOrder("trusted_azp")
    /\ Means["required_scope"] = InOrder("required_scope")
    /\ Means["disallowed_username"] = Listed("disallowed_username")
    /\ Means["allowed_alg"] = Listed("allowed_alg")
    /\ Means["disallowed_alg"] = Listed("disallowed_alg")
    /\ Means["only_from"] = <<>>
BY DEF Means, Key

\* The keys a file can set.
KeysOfFile == {"userid"} \cup {"grace"} \cup {"iss"} \cup {"jwks"} \cup {"trusted_aud"}
           \cup {"trusted_azp"} \cup {"required_scope"} \cup {"disallowed_username"}
           \cup {"allowed_alg"} \cup {"disallowed_alg"}

\* The arguments give each key what the file says.
LEMMA AsInlineHolds ==
    ASSUME lines \in Seq(Line), WellFormed
    PROVE  Holds(AsInline, KeysOfFile, Means)
<1> DEFINE b1 == "userid"  b2 == "grace"  b3 == "iss"  b4 == "jwks"
           b5 == "trusted_aud"  b6 == "trusted_azp"  b7 == "required_scope"
           b8 == "disallowed_username"  b9 == "allowed_alg"  b10 == "disallowed_alg"
           v1 == OneOf(<<"userid", Unnumbered>>)
           v2 == OneOf(<<"grace", Unnumbered>>)
           v3 == OneOf(<<"trusted_iss", 0>>)
           v4 == OneOf(<<"trusted_jwks", 0>>)
           v5 == InOrder("trusted_aud")
           v6 == InOrder("trusted_azp")
           v7 == InOrder("required_scope")
           v8 == Listed("disallowed_username")
           v9 == Listed("allowed_alg")
           v10 == Listed("disallowed_alg")
           a1 == Row(b1, v1)
           a2 == a1 \o Row(b2, v2)
           a3 == a2 \o Row(b3, v3)
           a4 == a3 \o Row(b4, v4)
           a5 == a4 \o Row(b5, v5)
           a6 == a5 \o Row(b6, v6)
           a7 == a6 \o Row(b7, v7)
           a8 == a7 \o Row(b8, v8)
           a9 == a8 \o Row(b9, v9)
           a10 == a9 \o Row(b10, v10)
           U1 == {b1}
           U2 == U1 \cup {b2}
           U3 == U2 \cup {b3}
           U4 == U3 \cup {b4}
           U5 == U4 \cup {b5}
           U6 == U5 \cup {b6}
           U7 == U6 \cup {b7}
           U8 == U7 \cup {b8}
           U9 == U8 \cup {b9}
           U10 == U9 \cup {b10}
<1>1. AsInline = a10
  <2>1. /\ SetToSeq({l.value : l \in {h \in Heeded("userid") : h.index = Unnumbered}}) = v1
        /\ SetToSeq({l.value : l \in {h \in Heeded("grace") : h.index = Unnumbered}}) = v2
        /\ SetToSeq({l.value : l \in {h \in Heeded("trusted_iss") : h.index = 0}}) = v3
        /\ SetToSeq({l.value : l \in {h \in Heeded("trusted_jwks") : h.index = 0}}) = v4
    <3>1. "userid" # "#" /\ "grace" # "#" /\ "trusted_iss" # "#" /\ "trusted_jwks" # "#"
      OBVIOUS
    <3>2. QED
      BY <3>1, OneOfIs
  <2>2. QED
    BY <2>1 DEF AsInline, Row
<1>2. KeysOfFile = U10
  BY DEF KeysOfFile
<1>3. /\ b1 \in Key /\ b2 \in Key /\ b3 \in Key /\ b4 \in Key /\ b5 \in Key
      /\ b6 \in Key /\ b7 \in Key /\ b8 \in Key /\ b9 \in Key /\ b10 \in Key
  BY DEF Key
<1>4. /\ b2 \notin U1 /\ b3 \notin U2 /\ b4 \notin U3 /\ b5 \notin U4 /\ b6 \notin U5
      /\ b7 \notin U6 /\ b8 \notin U7 /\ b9 \notin U8 /\ b10 \notin U9
  OBVIOUS
<1>5. /\ Means[b1] = v1 /\ Means[b2] = v2 /\ Means[b3] = v3 /\ Means[b4] = v4 /\ Means[b5] = v5
      /\ Means[b6] = v6 /\ Means[b7] = v7 /\ Means[b8] = v8 /\ Means[b9] = v9 /\ Means[b10] = v10
  BY MeansIs
<1>6. v1 \in Seq(Seq(STRING)) /\ v2 \in Seq(Seq(STRING)) /\ v3 \in Seq(Seq(STRING)) /\ v4 \in Seq(Seq(STRING))
  <2>1. "userid" # "#" /\ "grace" # "#" /\ "trusted_iss" # "#" /\ "trusted_jwks" # "#"
    OBVIOUS
  <2>2. QED
    BY <2>1, OneOfIs
<1>7. v5 \in Seq(Seq(STRING)) /\ v6 \in Seq(Seq(STRING)) /\ v7 \in Seq(Seq(STRING))
  <2>1. "trusted_aud" # "#" /\ "trusted_azp" # "#" /\ "required_scope" # "#"
    OBVIOUS
  <2>2. QED
    BY <2>1, InOrderIs
<1>8. v8 \in Seq(Seq(STRING)) /\ v9 \in Seq(Seq(STRING)) /\ v10 \in Seq(Seq(STRING))
  <2>1. "disallowed_username" # "#" /\ "allowed_alg" # "#" /\ "disallowed_alg" # "#"
    OBVIOUS
  <2>2. QED
    BY <2>1, ListedIs
<1> HIDE DEF b1, b2, b3, b4, b5, b6, b7, b8, b9, b10, v1, v2, v3, v4, v5, v6, v7, v8, v9, v10
<1> HIDE DEF a1, a2, a3, a4, a5, a6, a7, a8, a9, a10, U1, U2, U3, U4, U5, U6, U7, U8, U9, U10
<1>11. Holds(a1, U1, Means)
  BY <1>3, <1>5, <1>6, FirstRow DEF a1, U1
<1>12. Holds(a2, U2, Means)
  BY <1>3, <1>4, <1>5, <1>6, <1>11, OneRowMore DEF a2, U2
<1>13. Holds(a3, U3, Means)
  BY <1>3, <1>4, <1>5, <1>6, <1>12, OneRowMore DEF a3, U3
<1>14. Holds(a4, U4, Means)
  BY <1>3, <1>4, <1>5, <1>6, <1>13, OneRowMore DEF a4, U4
<1>15. Holds(a5, U5, Means)
  BY <1>3, <1>4, <1>5, <1>7, <1>14, OneRowMore DEF a5, U5
<1>16. Holds(a6, U6, Means)
  BY <1>3, <1>4, <1>5, <1>7, <1>15, OneRowMore DEF a6, U6
<1>17. Holds(a7, U7, Means)
  BY <1>3, <1>4, <1>5, <1>7, <1>16, OneRowMore DEF a7, U7
<1>18. Holds(a8, U8, Means)
  BY <1>3, <1>4, <1>5, <1>8, <1>17, OneRowMore DEF a8, U8
<1>19. Holds(a9, U9, Means)
  BY <1>3, <1>4, <1>5, <1>8, <1>18, OneRowMore DEF a9, U9
<1>20. Holds(a10, U10, Means)
  BY <1>3, <1>4, <1>5, <1>8, <1>19, OneRowMore DEF a10, U10
<1>21. QED
  BY <1>1, <1>2, <1>20

\* ... key by key, and nothing else.
LEMMA AsInlineIs ==
    ASSUME lines \in Seq(Line), WellFormed
    PROVE  /\ Given(AsInline, "userid") = OneOf(<<"userid", Unnumbered>>)
           /\ Given(AsInline, "grace") = OneOf(<<"grace", Unnumbered>>)
           /\ Given(AsInline, "iss") = OneOf(<<"trusted_iss", 0>>)
           /\ Given(AsInline, "jwks") = OneOf(<<"trusted_jwks", 0>>)
           /\ Given(AsInline, "trusted_aud") = InOrder("trusted_aud")
           /\ Given(AsInline, "trusted_azp") = InOrder("trusted_azp")
           /\ Given(AsInline, "required_scope") = InOrder("required_scope")
           /\ Given(AsInline, "disallowed_username") = Listed("disallowed_username")
           /\ Given(AsInline, "allowed_alg") = Listed("allowed_alg")
           /\ Given(AsInline, "disallowed_alg") = Listed("disallowed_alg")
           /\ Given(AsInline, "only_from") = <<>>
<1>1. \A key \in Key : Given(AsInline, key) = IF key \in KeysOfFile THEN Means[key] ELSE <<>>
  BY AsInlineHolds DEF Holds
<1>2. "only_from" \in Key /\ "only_from" \notin KeysOfFile
  BY DEF Key, KeysOfFile
<1>3. KeysOfFile \subseteq Key
  BY DEF KeysOfFile, Key
<1>4. \A key \in KeysOfFile : Given(AsInline, key) = Means[key]
  BY <1>1, <1>3
<1>5. QED
  BY <1>1, <1>2, <1>4, MeansIs DEF KeysOfFile

\* The record both front ends make of the parts.
Options(userid, grace, iss, jwks, aud, azp, scope, users, allowed, denied) ==
    [userid |-> userid, grace |-> grace, iss |-> iss, jwks |-> jwks,
     trusted_aud |-> aud, trusted_azp |-> azp, required_scope |-> scope,
     disallowed_usernames |-> users,
     allowed_algorithms |-> allowed, disallowed_algorithms |-> denied]

\* ... and with the key only the PAM module has.
Extended(userid, grace, iss, jwks, aud, azp, scope, users, allowed, denied) ==
    [userid |-> userid, grace |-> grace, iss |-> iss, jwks |-> jwks,
     trusted_aud |-> aud, trusted_azp |-> azp, required_scope |-> scope,
     disallowed_usernames |-> users,
     allowed_algorithms |-> allowed, disallowed_algorithms |-> denied, only_from |-> <<>>]

\* The one is the other with that key.
LEMMA Extending ==
    ASSUME NEW a, NEW b, NEW c, NEW d, NEW e, NEW f, NEW g, NEW h, NEW i, NEW j
    PROVE  LET r == Options(a, b, c, d, e, f, g, h, i, j)
           IN  [x \in DOMAIN r \cup {"only_from"} |-> IF x = "only_from" THEN <<>> ELSE r[x]]
                   = Extended(a, b, c, d, e, f, g, h, i, j)
BY DEF Options, Extended

\* grace, read of a file.
GraceOf == LET name == <<"grace", Unnumbered>>
           IN  IF name \in DOMAIN Get THEN ValueOf[Get[name]] ELSE DefaultGrace

\* ... which is refused when it is no number.
GraceFails == LET name == <<"grace", Unnumbered>>
              IN  name \in DOMAIN Get /\ Get[name] \notin Numerals

\* What read refuses of a well-formed file.
ReadFails == \/ GraceFails
             \/ ~parse_algorithms(Listed("allowed_alg")).ok
             \/ ~parse_algorithms(Listed("disallowed_alg")).ok

\* read, option by option.
LEMMA ReadIs ==
    ASSUME lines \in Seq(Line), WellFormed
    PROVE  read(Get) =
               IF ReadFails THEN Err
               ELSE Ok(Options(Single(Get, <<"userid", Unnumbered>>, DefaultUserid), GraceOf,
                               Single(Get, <<"trusted_iss", 0>>, Unset),
                               Single(Get, <<"trusted_jwks", 0>>, Unset),
                               InOrder("trusted_aud"), InOrder("trusted_azp"), InOrder("required_scope"),
                               Listed("disallowed_username"),
                               parse_algorithms(Listed("allowed_alg")).value,
                               parse_algorithms(Listed("disallowed_alg")).value))
<1>1. /\ get_list_option(Get, "allowed_alg") = Ok(Listed("allowed_alg"))
      /\ get_list_option(Get, "disallowed_alg") = Ok(Listed("disallowed_alg"))
      /\ get_list_option(Get, "disallowed_username") = Ok(Listed("disallowed_username"))
  <2>1. "disallowed_username" # "#" /\ "allowed_alg" # "#" /\ "disallowed_alg" # "#"
    OBVIOUS
  <2>2. QED
    BY <2>1, ListedIs
<1> DEFINE bases == {"trusted_aud", "trusted_azp", "required_scope"}
           lists == [base \in bases |-> get_indexed(Get, base)]
<1>2. \A base \in bases : lists[base] = Ok(InOrder(base))
  <2>1. \A base \in bases : base # "#"
    OBVIOUS
  <2>2. QED
    BY <2>1, IndexedIs
<1>3. \A v : Ok(v).ok /\ Ok(v).value = v
  BY DEF Ok
<1>4. /\ DOMAIN lists = bases
      /\ ~(\E base \in DOMAIN lists : ~lists[base].ok)
      /\ lists["trusted_aud"].value = InOrder("trusted_aud")
      /\ lists["trusted_azp"].value = InOrder("trusted_azp")
      /\ lists["required_scope"].value = InOrder("required_scope")
  <2>1. "trusted_aud" \in bases /\ "trusted_azp" \in bases /\ "required_scope" \in bases
    OBVIOUS
  <2>2. DOMAIN lists = bases
    OBVIOUS
  <2> HIDE DEF bases, lists
  <2>3. QED
    BY <1>2, <1>3, <2>1, <2>2
<1>5. read(Get) =
        LET graceSet == <<"grace", Unnumbered>> \in DOMAIN Get
            allowed  == get_list_option(Get, "allowed_alg")
            denied   == get_list_option(Get, "disallowed_alg")
            users    == get_list_option(Get, "disallowed_username")
        IN  IF \/ graceSet /\ Get[<<"grace", Unnumbered>>] \notin Numerals
               \/ ~allowed.ok \/ ~denied.ok \/ ~users.ok
               \/ \E base \in DOMAIN lists : ~lists[base].ok
            THEN Err
            ELSE IF ~parse_algorithms(allowed.value).ok \/ ~parse_algorithms(denied.value).ok
            THEN Err
            ELSE Ok(Options(Single(Get, <<"userid", Unnumbered>>, DefaultUserid),
                     IF graceSet THEN ValueOf[Get[<<"grace", Unnumbered>>]] ELSE DefaultGrace,
                     Single(Get, <<"trusted_iss", 0>>, Unset),
                     Single(Get, <<"trusted_jwks", 0>>, Unset),
                     lists["trusted_aud"].value, lists["trusted_azp"].value,
                     lists["required_scope"].value, users.value,
                     parse_algorithms(allowed.value).value, parse_algorithms(denied.value).value))
  BY DEF read, Options
<1> HIDE DEF lists, bases
<1>6. QED
  BY <1>1, <1>3, <1>4, <1>5 DEF ReadFails, GraceFails, GraceOf

\* parse_inline_args of these arguments.
LEMMA InlineIs ==
    ASSUME lines \in Seq(Line), WellFormed
    PROVE  parse_inline_args(AsInline) =
               IF ReadFails THEN Err
               ELSE Ok(Extended(Single(Get, <<"userid", Unnumbered>>, DefaultUserid), GraceOf,
                               Single(Get, <<"trusted_iss", 0>>, Unset),
                               Single(Get, <<"trusted_jwks", 0>>, Unset),
                               InOrder("trusted_aud"), InOrder("trusted_azp"), InOrder("required_scope"),
                               Listed("disallowed_username"),
                               parse_algorithms(Listed("allowed_alg")).value,
                               parse_algorithms(Listed("disallowed_alg")).value))
<1> DEFINE raw == AsInline
           grace == OneOf(<<"grace", Unnumbered>>)
<1>1. /\ Given(raw, "userid") = OneOf(<<"userid", Unnumbered>>)
      /\ Given(raw, "grace") = grace
      /\ Given(raw, "iss") = OneOf(<<"trusted_iss", 0>>)
      /\ Given(raw, "jwks") = OneOf(<<"trusted_jwks", 0>>)
      /\ Given(raw, "trusted_aud") = InOrder("trusted_aud")
      /\ Given(raw, "trusted_azp") = InOrder("trusted_azp")
      /\ Given(raw, "required_scope") = InOrder("required_scope")
      /\ Given(raw, "disallowed_username") = Listed("disallowed_username")
      /\ Given(raw, "allowed_alg") = Listed("allowed_alg")
      /\ Given(raw, "disallowed_alg") = Listed("disallowed_alg")
      /\ Given(raw, "only_from") = <<>>
  BY AsInlineIs
<1> HIDE DEF raw
<1>2. \A v : Ok(v).ok /\ Ok(v).value = v
  BY DEF Ok
<1>3. ASSUME NEW name PROVE set_once(OneOf(name)) = Ok(Single(Get, name, Unset))
  <2>1. LastOr(OneOf(name), Unset) = Single(Get, name, Unset) /\ Len(OneOf(name)) <= 1
    BY LastOfOne
  <2>2. Len(OneOf(name)) \in Nat
    BY DEF OneOf
  <2>3. ~(Len(OneOf(name)) > 1)
    BY <2>1, <2>2
  <2>4. QED
    BY <2>1, <2>3 DEF set_once
<1>4. LastOr(OneOf(<<"userid", Unnumbered>>), DefaultUserid) =
          Single(Get, <<"userid", Unnumbered>>, DefaultUserid)
  BY LastOfOne
<1>5. /\ ~(ToSet(grace) \subseteq Numerals) <=> GraceFails
      /\ (IF grace = <<>> THEN DefaultGrace ELSE ValueOf[Last(grace)]) = GraceOf
  <2> DEFINE name == <<"grace", Unnumbered>>
  <2>1. CASE name \in DOMAIN Get
    <3>1. grace = <<Get[name]>>
      BY <2>1 DEF OneOf
    <3>2. \A v : ToSet(<<v>>) = {v} /\ <<v>> # <<>> /\ Last(<<v>>) = v
      BY DEF ToSet, Last
    <3> DEFINE g == Get[name]
    <3> HIDE DEF g
    <3>3. ToSet(grace) = {g} /\ grace # <<>> /\ Last(grace) = g
      BY <3>1, <3>2 DEF g
    <3>4. QED
      BY <2>1, <3>3 DEF GraceFails, GraceOf, g
  <2>2. CASE name \notin DOMAIN Get
    <3>1. grace = <<>>
      BY <2>2 DEF OneOf
    <3>2. ToSet(<<>>) = {}
      BY DEF ToSet
    <3>3. QED
      BY <2>2, <3>1, <3>2 DEF GraceFails, GraceOf
  <2>3. QED
    BY <2>1, <2>2
<1>6. [i \in DOMAIN <<>> |-> ToSet(Split(<<>>[i], {","}))] = <<>>
  OBVIOUS
<1> HIDE DEF grace
<1>7. parse_inline_args(raw) =
        LET iss     == set_once(OneOf(<<"trusted_iss", 0>>))
            jwks    == set_once(OneOf(<<"trusted_jwks", 0>>))
            allowed == parse_algorithms(Listed("allowed_alg"))
            denied  == parse_algorithms(Listed("disallowed_alg"))
        IN  IF \/ ~iss.ok \/ ~jwks.ok \/ ~allowed.ok \/ ~denied.ok
               \/ ~(ToSet(grace) \subseteq Numerals)
            THEN Err
            ELSE Ok(Extended(LastOr(OneOf(<<"userid", Unnumbered>>), DefaultUserid),
                     IF grace = <<>> THEN DefaultGrace ELSE ValueOf[Last(grace)],
                     iss.value, jwks.value,
                     InOrder("trusted_aud"), InOrder("trusted_azp"), InOrder("required_scope"),
                     Listed("disallowed_username"), allowed.value, denied.value))
  BY <1>1, <1>6 DEF parse_inline_args, add_algorithm, Extended
<1>8. QED
  BY <1>2, <1>3, <1>4, <1>5, <1>7 DEF ReadFails, raw

\* Both front ends make the same of a well-formed file.
LEMMA Agree ==
    ASSUME lines \in Seq(Line), WellFormed
    PROVE  parse_config(lines) = parse_inline_args(AsInline)
<1>1. ~(\E i \in DOMAIN lines : lines[i] # Skipped /\ lines[i].value = <<>>)
  BY DEF WellFormed
<1>2. parse_config(lines) =
        IF ~read(Get).ok THEN Err
        ELSE Ok([x \in DOMAIN read(Get).value \cup {"only_from"} |->
                    IF x = "only_from" THEN <<>> ELSE read(Get).value[x]])
  BY <1>1 DEF parse_config, Get
<1>3. \A v : Ok(v).ok /\ Ok(v).value = v
  BY DEF Ok
<1>4. CASE ReadFails
  <2>1. read(Get) = Err /\ ~Err.ok
    BY <1>4, ReadIs DEF Err
  <2>2. QED
    BY <1>2, <1>4, <2>1, InlineIs
<1>5. CASE ~ReadFails
  <2> DEFINE a == Single(Get, <<"userid", Unnumbered>>, DefaultUserid)
             b == GraceOf
             c == Single(Get, <<"trusted_iss", 0>>, Unset)
             d == Single(Get, <<"trusted_jwks", 0>>, Unset)
             e == InOrder("trusted_aud")
             f == InOrder("trusted_azp")
             g == InOrder("required_scope")
             h == Listed("disallowed_username")
             i == parse_algorithms(Listed("allowed_alg")).value
             j == parse_algorithms(Listed("disallowed_alg")).value
             r == Options(a, b, c, d, e, f, g, h, i, j)
  <2>1. read(Get) = Ok(r)
    BY <1>5, ReadIs
  <2>2. parse_inline_args(AsInline) = Ok(Extended(a, b, c, d, e, f, g, h, i, j))
    BY <1>5, InlineIs
  <2> HIDE DEF a, b, c, d, e, f, g, h, i, j
  <2>3. [x \in DOMAIN r \cup {"only_from"} |-> IF x = "only_from" THEN <<>> ELSE r[x]]
            = Extended(a, b, c, d, e, f, g, h, i, j)
    BY Extending
  <2> HIDE DEF r
  <2>4. read(Get).ok /\ read(Get).value = r
    BY <1>3, <2>1
  <2>5. QED
    BY <1>2, <2>2, <2>3, <2>4
<1>6. QED
  BY <1>4, <1>5

\* Both front ends read one policy in a configuration file: what read makes of
\* the options and what parse_inline_args makes of the same lines as arguments
\* are equal, or both refuse them (server.rs read and lib.rs parse_inline_args).
THEOREM FrontEndsMeet == Spec => []FrontEndsAgree
<1>1. PInv => FrontEndsAgree
  BY Agree DEF PInv, FrontEndsAgree, WellFormed
<1>2. QED
  BY <1>1, InitPInv, NextKeepsPInv, PTL DEF Spec

------------------------------------------------------------------------------
(* What is sent and what is read.                                          *)

\* What the client is given.
LEMMA OfferedIs ==
    ASSUME NEW r \in Offered
    PROVE  /\ r.authzid \in Seq(Symbol) /\ r.token \in Seq(Symbol)
           /\ IsUtf8(r.authzid) /\ IsUtf8(r.token)
<1>1. r.authzid \in Seq(STRING) /\ r.token \in Seq(STRING)
  BY InputsAssumption
<1>2. QED
  BY <1>1, StringsAreSymbols, InputsAssumption

\* Messages are made of symbols.
LEMMA InputsAreSymbols == Inputs \subseteq Seq(Symbol)
<1>1. Foreign \subseteq Seq(Symbol)
  BY StringsAreSymbols, InputsAssumption
<1>2. ASSUME NEW r \in Offered PROVE build_client_response(r.authzid, r.token) \in Seq(Symbol)
  BY OfferedIs, BuildHas DEF Built
<1>3. QED
  BY <1>1, <1>2 DEF Inputs

\* The message of a client is one of those it may send.
SomeInput == input \in Inputs \cup {None}

\* It is so from the start,
LEMMA InitSomeInput == Init => SomeInput
BY DEF Init, SomeInput

\* ... and after every step.
LEMMA NextKeepsSomeInput == SomeInput /\ [Next]_vars => SomeInput'
<1> SUFFICES ASSUME SomeInput, [Next]_vars PROVE SomeInput'
  OBVIOUS
<1>1. Inputs' = Inputs
  BY DEF Inputs
<1>2. CASE sasl_server_plug_init
  BY <1>1, <1>2 DEF sasl_server_plug_init, VersionMismatch, JwksFails, ConfigFails, from_sasl,
      InitFails, InitReturns, SomeInput
<1>3. CASE server_mech_free
  BY <1>3 DEF server_mech_free, SomeInput
<1>4. CASE TokensChange
  BY <1>1, <1>4 DEF TokensChange, pluginVars, SomeInput
<1>5. CASE New
  BY <1>1, <1>5 DEF New, pluginVars, SomeInput
<1>6. CASE Dispose
  BY <1>1, <1>6 DEF Dispose, pluginVars, SomeInput
<1>7. ASSUME NEW mm \in Inputs, server_mech_step(mm) PROVE SomeInput'
  BY <1>1, <1>7 DEF server_mech_step, SomeInput
<1>8. CASE UNCHANGED vars
  BY <1>1, <1>8 DEF vars, pluginVars, SomeInput
<1>9. QED
  BY <1>2, <1>3, <1>4, <1>5, <1>6, <1>7, <1>8 DEF Next

\* What the server reads of a message, the client can write and the server reads
\* again: a stray escape, an empty part or a second auth do not give a message
\* two meanings (parse_client_response and build_client_response).
THEOREM ReadingIsWriting == Spec => []ReadIsWritten
<1>1. SomeInput => ReadIsWritten
  <2> SUFFICES ASSUME SomeInput, input # None, parse_client_response(input).ok PROVE ReadIsWritten
    BY DEF ReadIsWritten
  <2>1. input \in Seq(Symbol)
    BY InputsAreSymbols DEF SomeInput
  <2>2. QED
    BY <2>1, ReadAgain DEF ReadIsWritten
<1>2. QED
  BY <1>1, InitSomeInput, NextKeepsSomeInput, PTL DEF Spec

\* A name the client is given reaches the server as it is or not at all,
\* whatever is in it (build_client_response and parse_client_response).
THEOREM NamesArrive == Spec => []NamesSurvive
<1>1. NamesSurvive
  BY OfferedIs, NameArrives DEF NamesSurvive
<1>2. QED
  BY <1>1, PTL

==============================================================================
