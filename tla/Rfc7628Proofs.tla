---------------------------- MODULE Rfc7628Proofs ----------------------------
(***************************************************************************)
(* Proofs about Rfc7628, for strings of any length: what is escaped is     *)
(* unescaped to what it was, what is written is read or refused, and what  *)
(* is read can be written.  A recursive function and a fold are followed   *)
(* step by step with an induction over sets of numbers (Induction).        *)
(***************************************************************************)
EXTENDS Rfc7628, TLAPS, FiniteSetTheorems, WellFoundedInduction, SequenceTheorems

------------------------------------------------------------------------------
(* The least number of a set.                                              *)

\* Min is what its name says, of numbers.
LEMMA LeastExists ==
    ASSUME NEW S, S \subseteq Nat, S # {}
    PROVE  Min(S) \in S /\ \A y \in S : Min(S) <= y
<1>1. PICK x \in S : \A y \in S : ~(<<y, x>> \in OpToRel(<, Nat))
  BY NatLessThanWellFounded, WFMin
<1>2. ASSUME NEW y \in S PROVE x <= y
  <2>1. x \in Nat /\ y \in Nat
    OBVIOUS
  <2>2. <<y, x>> \in Nat \X Nat /\ <<y, x>>[1] = y /\ <<y, x>>[2] = x
    BY <2>1
  <2>3. ~(y < x)
    BY <1>1, <2>2 DEF OpToRel
  <2>4. QED
    BY <2>1, <2>3
<1>3. QED
  BY <1>2 DEF Min

\* A member that is below all others is the one Min picks.
LEMMA LeastIs ==
    ASSUME NEW S, S \subseteq Nat, NEW k \in S, \A y \in S : k <= y
    PROVE  Min(S) = k
<1>1. Min(S) \in S /\ \A y \in S : Min(S) <= y
  BY LeastExists
<1>2. Min(S) \in Nat /\ k \in Nat /\ Min(S) <= k /\ k <= Min(S)
  BY <1>1
<1>3. QED
  BY <1>2

------------------------------------------------------------------------------
(* Induction over a number, with what is to hold as a set.                 *)

\* What holds of 0, and of a number if it holds of the one before, holds.
LEMMA Induction ==
    ASSUME NEW K, NEW n \in Nat, 0 \in K, \A k \in 0 .. n - 1 : k \in K => k + 1 \in K
    PROVE  \A k \in 0 .. n : k \in K
<1> DEFINE bad == {k \in 0 .. n : k \notin K}
<1> SUFFICES ASSUME bad # {} PROVE FALSE
  OBVIOUS
<1>1. Min(bad) \in bad /\ \A y \in bad : Min(bad) <= y
  BY LeastExists
<1>2. PICK m \in bad : \A y \in bad : m <= y
  BY <1>1
<1>3. m \in 0 .. n /\ m \notin K /\ m # 0
  BY <1>2
<1>4. m - 1 \in 0 .. n - 1 /\ m - 1 \notin bad
  BY <1>2, <1>3
<1>5. m - 1 \in K
  BY <1>4
<1>6. m - 1 + 1 \in K
  BY <1>4, <1>5
<1>7. QED
  BY <1>3, <1>6

\* Max is what its name says, of numbers that are bounded.
LEMMA GreatestExists ==
    ASSUME NEW S, NEW n \in Nat, S \subseteq 1 .. n, S # {}
    PROVE  Max(S) \in S /\ \A y \in S : y <= Max(S)
<1> DEFINE below == {n - x : x \in S}
<1>1. below \subseteq Nat /\ below # {}
  <2>1. \A x \in S : n - x \in Nat
    OBVIOUS
  <2>2. QED
    BY <2>1
<1>2. Min(below) \in below /\ \A y \in below : Min(below) <= y
  BY <1>1, LeastExists
<1>3. PICK x \in S : Min(below) = n - x
  BY <1>2
<1>4. \A y \in S : n - x <= n - y
  BY <1>2, <1>3
<1>5. \A y \in S : x >= y
  BY <1>4
<1>6. Max(S) \in S /\ \A y \in S : Max(S) >= y
  BY <1>5 DEF Max
<1>7. QED
  BY <1>6

------------------------------------------------------------------------------
(* The numbers of a set in their order.                                    *)

Rank(S, i) == Cardinality({j \in S : j <= i})

\* The rank grows with the number.
LEMMA RankGrows ==
    ASSUME NEW S, S \subseteq Nat, IsFiniteSet(S), NEW i \in S
    PROVE  /\ Rank(S, i) \in 1 .. Cardinality(S)
           /\ \A k \in S : i < k => Rank(S, i) < Rank(S, k)
<1> DEFINE Upto(x) == {j \in S : j <= x}
<1>1. ASSUME NEW x \in S
      PROVE  IsFiniteSet(Upto(x)) /\ Cardinality(Upto(x)) \in Nat /\ Cardinality(Upto(x)) <= Cardinality(S)
  BY FS_Subset, FS_CardinalityType
<1>2. Cardinality(Upto(i)) # 0
  <2>1. i \in Upto(i)
    OBVIOUS
  <2>2. QED
    BY <1>1, <2>1, FS_EmptySet
<1>3. Cardinality(S) \in Nat
  BY FS_CardinalityType
<1>4. ASSUME NEW k \in S, i < k PROVE Cardinality(Upto(i)) < Cardinality(Upto(k))
  <2>1. Upto(i) \subseteq Upto(k) /\ k \in Upto(k) /\ k \notin Upto(i)
    <3>1. i \in Nat /\ k \in Nat /\ \A j \in S : j \in Nat /\ (j <= i => j <= k)
      BY <1>4
    <3>2. ~(k <= i) /\ k <= k
      BY <1>4, <3>1
    <3>3. QED
      BY <3>1, <3>2
  <2>2. Upto(i) # Upto(k)
    BY <2>1
  <2> HIDE DEF Upto
  <2>3. Cardinality(Upto(i)) <= Cardinality(Upto(k)) /\ Cardinality(Upto(i)) # Cardinality(Upto(k))
    BY <1>1, <2>1, <2>2, FS_Subset
  <2>4. QED
    BY <1>1, <2>3
<1>5. QED
  BY <1>1, <1>2, <1>3, <1>4 DEF Rank

\* So a number is where its rank says.
LEMMA AscendingAt ==
    ASSUME NEW S, S \subseteq Nat, IsFiniteSet(S), NEW i \in S
    PROVE  Ascending(S)[Rank(S, i)] = i
<1>1. Rank(S, i) \in 1 .. Cardinality(S)
  BY RankGrows
<1>2. ASSUME NEW k \in S, Rank(S, k) = Rank(S, i) PROVE k = i
  <2>1. k \in Nat /\ i \in Nat /\ Rank(S, k) \in Nat
    BY <1>1, <1>2
  <2>2. (i < k => Rank(S, i) < Rank(S, k)) /\ (k < i => Rank(S, k) < Rank(S, i))
    BY RankGrows
  <2>3. QED
    BY <1>2, <2>1, <2>2
<1>3. Ascending(S)[Rank(S, i)] = CHOOSE k \in S : Rank(S, k) = Rank(S, i)
  BY <1>1 DEF Ascending, Rank
<1>4. QED
  BY <1>2, <1>3

\* And every place is some number's.
LEMMA AscendingIs ==
    ASSUME NEW S, S \subseteq Nat, IsFiniteSet(S)
    PROVE  /\ Cardinality(S) \in Nat
           /\ DOMAIN Ascending(S) = 1 .. Cardinality(S)
           /\ \A n \in 1 .. Cardinality(S) :
                  Ascending(S)[n] \in S /\ Rank(S, Ascending(S)[n]) = n
<1> DEFINE C == Cardinality(S)
           f == [i \in S |-> Rank(S, i)]
<1>1. C \in Nat
  BY FS_CardinalityType
<1>2. f \in Injection(S, 1 .. C)
  <2>1. f \in [S -> 1 .. C]
    BY RankGrows
  <2>2. ASSUME NEW i \in S, NEW k \in S, f[i] = f[k] PROVE i = k
    BY <2>2, AscendingAt
  <2>3. QED
    BY <2>1, <2>2 DEF Injection, IsInjective
<1>3. IsFiniteSet(1 .. C) /\ Cardinality(1 .. C) = C
  BY <1>1, FS_Interval
<1>4. f \in Surjection(S, 1 .. C)
  BY <1>2, <1>3, FS_Injection
<1>5. ASSUME NEW n \in 1 .. C PROVE Ascending(S)[n] \in S /\ Rank(S, Ascending(S)[n]) = n
  <2>1. PICK i \in S : Rank(S, i) = n
    BY <1>4 DEF Surjection
  <2>2. QED
    BY <2>1, AscendingAt
<1>6. DOMAIN Ascending(S) = 1 .. C
  BY DEF Ascending
<1>7. QED
  BY <1>1, <1>5, <1>6

\* There are n of the numbers up to n, ...
LEMMA CountUpTo ==
    ASSUME NEW n \in Nat
    PROVE  IsFiniteSet(1 .. n) /\ Cardinality(1 .. n) = n
BY FS_Interval

\* ... and they are in their order.
LEMMA AscendingUpTo ==
    ASSUME NEW n \in Nat
    PROVE  Ascending(1 .. n) = [i \in 1 .. n |-> i]
<1>1. IsFiniteSet(1 .. n) /\ Cardinality(1 .. n) = n
  BY CountUpTo
<1>2. ASSUME NEW i \in 1 .. n PROVE Ascending(1 .. n)[i] = i
  <2>1. {j \in 1 .. n : j <= i} = 1 .. i
    OBVIOUS
  <2>2. Rank(1 .. n, i) = i
    <3>1. Cardinality(1 .. i) = i
      BY CountUpTo
    <3>2. QED
      BY <2>1, <3>1 DEF Rank
  <2>3. QED
    BY <1>1, <2>2, AscendingAt
<1>3. QED
  BY <1>1, <1>2 DEF Ascending

\* There are as many numbers after they are moved.
LEMMA Moved ==
    ASSUME NEW T, IsFiniteSet(T), T \subseteq Nat, NEW m \in Nat
    PROVE  IsFiniteSet({m + y : y \in T}) /\ Cardinality({m + y : y \in T}) = Cardinality(T)
<1> DEFINE U == {m + y : y \in T}
           f == [y \in T |-> m + y]
<1>1. f \in Surjection(T, U)
  BY DEF Surjection
<1>2. f \in Injection(T, U)
  BY DEF Injection, IsInjective
<1>3. QED
  BY <1>1, <1>2, FS_Surjection

------------------------------------------------------------------------------
(* A sequence of sequences put together.                                   *)

\* FlattenSeq appends them one by one.
LEMMA FlattenIs ==
    ASSUME NEW S, NEW seqs \in Seq(Seq(S)), Len(seqs) # 0
    PROVE  \E F \in [1 .. Len(seqs) -> Seq(S)] :
               /\ \A i \in 1 .. Len(seqs) : F[i] = IF i = 1 THEN seqs[i] ELSE F[i - 1] \o seqs[i]
               /\ FlattenSeq(seqs) = F[Len(seqs)]
<1> DEFINE n == Len(seqs)
           Flattens(f, k) == \A i \in 1 .. k : f[i] = IF i = 1 THEN seqs[i] ELSE f[i - 1] \o seqs[i]
           K == {k \in 0 .. n : \E f \in [1 .. k -> Seq(S)] : Flattens(f, k)}
<1>1. n \in Nat /\ \A i \in 1 .. n : seqs[i] \in Seq(S)
  OBVIOUS
<1> HIDE DEF n
<1>2. 0 \in K
  <2>1. [i \in 1 .. 0 |-> <<>>] \in [1 .. 0 -> Seq(S)] /\ Flattens([i \in 1 .. 0 |-> <<>>], 0)
    OBVIOUS
  <2> HIDE DEF Flattens
  <2>2. \E f \in [1 .. 0 -> Seq(S)] : Flattens(f, 0)
    BY <2>1
  <2>3. 0 \in 0 .. n
    BY <1>1
  <2>4. QED
    BY <2>2, <2>3
<1>3. ASSUME NEW k \in 0 .. n - 1, k \in K PROVE k + 1 \in K
  <2>1. PICK f \in [1 .. k -> Seq(S)] : Flattens(f, k)
    BY <1>3
  <2> DEFINE x == IF k = 0 THEN seqs[1] ELSE f[k] \o seqs[k + 1]
             g == [i \in 1 .. k + 1 |-> IF i = k + 1 THEN x ELSE f[i]]
  <2>2. x \in Seq(S)
    BY <1>1
  <2> HIDE DEF x
  <2>3. g \in [1 .. k + 1 -> Seq(S)]
    BY <1>1, <2>2
  <2>4. Flattens(g, k + 1)
    <3> SUFFICES ASSUME NEW i \in 1 .. k + 1
                 PROVE  g[i] = IF i = 1 THEN seqs[i] ELSE g[i - 1] \o seqs[i]
      OBVIOUS
    <3>1. CASE i = k + 1
      <4>1. g[i] = x
        BY <3>1
      <4>2. i # 1 => g[i - 1] = f[k] /\ k # 0
        BY <1>1, <3>1
      <4>3. QED
        BY <1>1, <3>1, <4>1, <4>2 DEF x
    <3>2. CASE i # k + 1
      <4>1. i \in 1 .. k /\ g[i] = f[i]
        BY <1>1, <3>2
      <4>2. i # 1 => g[i - 1] = f[i - 1]
        BY <1>1, <4>1
      <4>3. QED
        BY <2>1, <4>1, <4>2
    <3>3. QED
      BY <3>1, <3>2
  <2> HIDE DEF g, Flattens
  <2>5. \E h \in [1 .. k + 1 -> Seq(S)] : Flattens(h, k + 1)
    BY <2>3, <2>4
  <2>6. QED
    BY <1>1, <2>5
<1>4. \A k \in 0 .. n : k \in K
  <2> HIDE DEF K
  <2>1. QED
    BY <1>1, <1>2, <1>3, Induction
<1>5. PICK F \in [1 .. n -> Seq(S)] :
         \A i \in 1 .. n : F[i] = IF i = 1 THEN seqs[i] ELSE F[i - 1] \o seqs[i]
  <2>1. n \in 0 .. n
    BY <1>1
  <2>2. QED
    BY <1>4, <2>1
<1>6. F = [i \in 1 .. n |-> IF i = 1 THEN seqs[i] ELSE F[i - 1] \o seqs[i]]
  BY <1>5
<1> DEFINE G == CHOOSE f : f = [i \in 1 .. n |-> IF i = 1 THEN seqs[i] ELSE f[i - 1] \o seqs[i]]
<1>7. G = [i \in 1 .. n |-> IF i = 1 THEN seqs[i] ELSE G[i - 1] \o seqs[i]]
  BY <1>6
<1>8. FlattenSeq(seqs) = G[n]
  BY DEF FlattenSeq, n
<1> HIDE DEF G
<1>9. \A i \in 1 .. n : G[i] = IF i = 1 THEN seqs[i] ELSE G[i - 1] \o seqs[i]
  BY <1>7
<1>10. \A k \in 0 .. n : k # 0 => G[k] = F[k]
  <2> DEFINE L == {k \in 0 .. n : k # 0 => G[k] = F[k]}
  <2>1. 0 \in L
    BY <1>1
  <2>2. ASSUME NEW k \in 0 .. n - 1, k \in L PROVE k + 1 \in L
    <3>1. PICK j \in 1 .. n : j = k + 1 /\ j - 1 = k
      BY <1>1
    <3>2. G[j] = IF j = 1 THEN seqs[j] ELSE G[j - 1] \o seqs[j]
      BY <1>9
    <3>3. F[j] = IF j = 1 THEN seqs[j] ELSE F[j - 1] \o seqs[j]
      BY <1>5
    <3>4. j # 1 => G[j - 1] = F[j - 1]
      BY <2>2, <3>1
    <3>5. G[j] = F[j] /\ j \in 0 .. n
      BY <1>1, <3>2, <3>3, <3>4
    <3>6. QED
      BY <3>1, <3>5
  <2>3. \A k \in 0 .. n : k \in L
    <3> HIDE DEF L
    <3>1. QED
      BY <1>1, <2>1, <2>2, Induction
  <2>4. QED
    BY <2>3
<1>11. FlattenSeq(seqs) = F[n]
  <2>1. n # 0
    BY DEF n
  <2>2. QED
    BY <1>1, <1>8, <1>10, <2>1
<1>12. QED
  BY <1>5, <1>11 DEF n

\* One sequence flattens to itself,
LEMMA FlattenOne == ASSUME NEW W, NEW s \in Seq(W) PROVE FlattenSeq(<<s>>) = s
<1> DEFINE seqs == <<s>>
<1>1. seqs \in Seq(Seq(W)) /\ Len(seqs) = 1 /\ seqs[1] = s
  OBVIOUS
<1> HIDE DEF seqs
<1>2. PICK F \in [1 .. 1 -> Seq(W)] :
         /\ \A i \in 1 .. 1 : F[i] = IF i = 1 THEN seqs[i] ELSE F[i - 1] \o seqs[i]
         /\ FlattenSeq(seqs) = F[1]
  <2>1. Len(seqs) # 0
    BY <1>1
  <2>2. QED
    BY <1>1, <2>1, FlattenIs
<1>3. 1 \in 1 .. 1
  OBVIOUS
<1>4. F[1] = s
  BY <1>1, <1>2, <1>3
<1>5. QED
  BY <1>2, <1>4 DEF seqs

\* ... and none to nothing.
LEMMA FlattenNone == FlattenSeq(<<>>) = <<>>
<1>1. Len(<<>>) = 0
  OBVIOUS
<1>2. QED
  BY <1>1 DEF FlattenSeq

------------------------------------------------------------------------------
(* Escaping and unescaping a name.                                         *)

\* The symbols of messages: they are all strings, which the provers do not
\* know of a literal.
Symbol == STRING \cup {"=", "2C", "3D", ",", "n", "a", "auth", "Bearer ", KVSEP, "(none)"}

Escaped(c) == IF c = "," THEN <<"=", "2C">> ELSE IF c = "=" THEN <<"=", "3D">> ELSE <<c>>

\* Short sequences.
LEMMA Tuple1 == ASSUME NEW W, NEW a \in W PROVE <<a>> \in Seq(W)
OBVIOUS

\* ... and two.
LEMMA Tuple2 == ASSUME NEW W, NEW a \in W, NEW b \in W PROVE <<a, b>> \in Seq(W)
OBVIOUS

\* Escapes are made of three symbols, none a comma.
LEMMA EscapedIs ==
    ASSUME NEW W, {"=", "2C", "3D"} \subseteq W, NEW c, c # "," => c \in W
    PROVE  Escaped(c) \in Seq(W)
<1>1. \A a, b \in W : <<a, b>> \in Seq(W)
  BY Tuple2
<1>2. \A a \in W : <<a>> \in Seq(W)
  BY Tuple1
<1>3. CASE c \in {",", "="}
  <2>1. Escaped(c) = <<"=", "2C">> \/ Escaped(c) = <<"=", "3D">>
    BY <1>3 DEF Escaped
  <2>2. <<"=", "2C">> \in Seq(W) 
    BY <1>1
  <2>3. <<"=", "3D">> \in Seq(W)
    BY <1>1
  <2>4. QED
    BY <2>1, <2>2, <2>3
<1>4. CASE c \notin {",", "="}
  <2>1. Escaped(c) = <<c>> /\ c \in W
    BY <1>4 DEF Escaped
  <2>2. QED
    BY <1>2, <2>1
<1>5. QED
  BY <1>3, <1>4

\* A name is escaped symbol by symbol.
LEMMA EncodeIs ==
    ASSUME NEW name \in Seq(Symbol)
    PROVE  \E F \in [0 .. Len(name) -> Seq(Symbol)] :
               /\ F[0] = <<>>
               /\ \A k \in 0 .. Len(name) - 1 : F[k + 1] = F[k] \o Escaped(name[k + 1])
               /\ encode_saslname(name) = F[Len(name)]
<1> DEFINE n == Len(name)
           seqs == [i \in DOMAIN name |-> Escaped(name[i])]
<1>1. n \in Nat /\ DOMAIN name = 1 .. n /\ \A i \in 1 .. n : name[i] \in Symbol
  OBVIOUS
<1>2. \A i \in 1 .. n : Escaped(name[i]) \in Seq(Symbol)
  <2> TAKE i \in 1 .. n
  <2>1. name[i] \in Symbol
    BY <1>1
  <2>2. {"=", "2C", "3D"} \subseteq Symbol
    BY DEF Symbol
  <2>3. QED
    BY <2>1, <2>2, EscapedIs
<1>3. seqs \in Seq(Seq(Symbol)) /\ Len(seqs) = n /\ \A i \in 1 .. n : seqs[i] = Escaped(name[i])
  BY <1>1, <1>2
<1>4. encode_saslname(name) = FlattenSeq(seqs)
  BY DEF encode_saslname, Escaped
<1> HIDE DEF seqs, n
<1>5. CASE n = 0
  <2> DEFINE F == [k \in 0 .. n |-> <<>>]
  <2>1. encode_saslname(name) = <<>>
    BY <1>3, <1>4, <1>5 DEF FlattenSeq
  <2>2. F \in [0 .. n -> Seq(Symbol)] /\ F[0] = <<>> /\ F[n] = <<>>
    BY <1>5
  <2>3. \A k \in 0 .. n - 1 : F[k + 1] = F[k] \o Escaped(name[k + 1])
    BY <1>5
  <2> HIDE DEF F
  <2>4. QED
    BY <2>1, <2>2, <2>3 DEF n
<1>6. CASE n # 0
  <2>1. PICK G \in [1 .. n -> Seq(Symbol)] :
           /\ \A i \in 1 .. n : G[i] = IF i = 1 THEN seqs[i] ELSE G[i - 1] \o seqs[i]
           /\ FlattenSeq(seqs) = G[n]
    BY <1>3, <1>6, FlattenIs
  <2> DEFINE F == [k \in 0 .. n |-> IF k = 0 THEN <<>> ELSE G[k]]
  <2>2. F \in [0 .. n -> Seq(Symbol)]
    <3>1. \A k \in 0 .. n : k # 0 => k \in 1 .. n
      BY <1>1
    <3>2. <<>> \in Seq(Symbol)
      OBVIOUS
    <3>3. QED
      BY <3>1, <3>2
  <2>3. F[0] = <<>> /\ F[n] = G[n] /\ \A k \in 1 .. n : F[k] = G[k]
    BY <1>1, <1>6
  <2> HIDE DEF F
  <2>4. ASSUME NEW k \in 0 .. n - 1 PROVE F[k + 1] = F[k] \o Escaped(name[k + 1])
    <3>1. k + 1 \in 1 .. n /\ k + 1 - 1 = k /\ (k # 0 => k \in 1 .. n)
      BY <1>1
    <3>2. G[k + 1] = IF k = 0 THEN seqs[k + 1] ELSE G[k] \o seqs[k + 1]
      <4>1. PICK j \in 1 .. n : j = k + 1 /\ j - 1 = k
        BY <3>1
      <4>2. G[j] = IF j = 1 THEN seqs[j] ELSE G[j - 1] \o seqs[j]
        BY <2>1
      <4>3. k = 0 <=> j = 1
        BY <4>1
      <4>4. QED
        BY <4>1, <4>2, <4>3
    <3>3. seqs[k + 1] = Escaped(name[k + 1]) /\ seqs[k + 1] \in Seq(Symbol)
      BY <1>2, <1>3, <3>1
    <3>4. <<>> \o seqs[k + 1] = seqs[k + 1]
      BY <3>3, ConcatEmptySeq
    <3>5. QED
      BY <2>3, <3>1, <3>2, <3>3, <3>4
  <2>5. QED
    BY <1>4, <2>1, <2>2, <2>3, <2>4 DEF n
<1>7. QED
  BY <1>5, <1>6

\* What is escaped has no comma, and what was not in the name is of an escape.
LEMMA EncodeHas ==
    ASSUME NEW name \in Seq(Symbol)
    PROVE  /\ encode_saslname(name) \in Seq(Symbol)
           /\ \A i \in 1 .. Len(encode_saslname(name)) :
                  encode_saslname(name)[i] \in (ToSet(name) \ {","}) \cup {"=", "2C", "3D"}
<1> DEFINE n == Len(name)
           V == (ToSet(name) \ {","}) \cup {"=", "2C", "3D"}
<1>1. PICK F \in [0 .. n -> Seq(Symbol)] :
         /\ F[0] = <<>>
         /\ \A k \in 0 .. n - 1 : F[k + 1] = F[k] \o Escaped(name[k + 1])
         /\ encode_saslname(name) = F[n]
  BY EncodeIs
<1>2. n \in Nat /\ \A k \in 1 .. n : Escaped(name[k]) \in Seq(V)
  <2>1. n \in Nat /\ \A k \in 1 .. n : name[k] \in ToSet(name)
    BY DEF ToSet
  <2>2. \A k \in 1 .. n : name[k] # "," => name[k] \in V
    BY <2>1
  <2>3. {"=", "2C", "3D"} \subseteq V
    OBVIOUS
  <2> HIDE DEF V
  <2>4. QED
    BY <2>1, <2>2, <2>3, EscapedIs
<1> DEFINE K == {k \in 0 .. n : F[k] \in Seq(V)}
<1> HIDE DEF V, n
<1>3. 0 \in K
  <2>1. F[0] \in Seq(V)
    BY <1>1, EmptySeq
  <2>2. QED
    BY <1>2, <2>1
<1>4. ASSUME NEW k \in 0 .. n - 1, k \in K PROVE k + 1 \in K
  <2>1. k + 1 \in 1 .. n
    BY <1>2
  <2>2. F[k + 1] = F[k] \o Escaped(name[k + 1])
    BY <1>1
  <2>3. F[k + 1] \in Seq(V)
    BY <1>2, <1>4, <2>1, <2>2, ConcatProperties
  <2>4. QED
    BY <1>2, <2>1, <2>3
<1>5. \A k \in 0 .. n : k \in K
  <2> HIDE DEF K
  <2>1. QED
    BY <1>2, <1>3, <1>4, Induction
<1>6. n \in 0 .. n
  BY <1>2
<1>7. encode_saslname(name) \in Seq(V) /\ encode_saslname(name) \in Seq(Symbol)
  BY <1>1, <1>5, <1>6
<1>8. QED
  BY <1>7, ElementOfSeq DEF V

\* What decode_saslname makes of the symbols from the i-th on, from what it
\* makes of those after it.
DecodeStep(f, s, i) ==
    IF i > Len(s) THEN Ok(<<>>)
    ELSE IF s[i] # "=" THEN IF f[i + 1].ok THEN Ok(<<s[i]>> \o f[i + 1].value) ELSE Err
    ELSE IF i = Len(s) THEN Err
    ELSE IF s[i + 1] = "2C" THEN IF f[i + 2].ok THEN Ok(<<",">> \o f[i + 2].value) ELSE Err
    ELSE IF s[i + 1] = "3D" THEN IF f[i + 2].ok THEN Ok(<<"=">> \o f[i + 2].value) ELSE Err
    ELSE Err

Signed(W) == "," \in W /\ "=" \in W

\* Names made of symbols of W, or none.
NameOf(W) == {Err} \cup {Ok(v) : v \in Seq(W)}

\* A step keeps to the symbols of what is read, commas and equals signs.
LEMMA DecodeStepType ==
    ASSUME NEW W, NEW s \in Seq(W), Signed(W), NEW f, NEW i \in 1 .. Len(s) + 2,
           i <= Len(s) => f[i + 1] \in NameOf(W) /\ f[i + 2] \in NameOf(W)
    PROVE  DecodeStep(f, s, i) \in NameOf(W)
<1>1. <<>> \in Seq(W) /\ Err \in NameOf(W) /\ \A v \in Seq(W) : Ok(v) \in NameOf(W)
  BY EmptySeq DEF NameOf
<1>2. ASSUME NEW c \in W, NEW r \in NameOf(W), r.ok PROVE Ok(<<c>> \o r.value) \in NameOf(W)
  <2>1. r # Err
    BY <1>2 DEF Err
  <2>2. PICK v \in Seq(W) : r = Ok(v)
    BY <2>1 DEF NameOf
  <2>3. r.value = v
    BY <2>2 DEF Ok
  <2>4. <<c>> \in Seq(W)
    BY Tuple1
  <2>5. <<c>> \o v \in Seq(W)
    BY <2>4, ConcatProperties
  <2>6. QED
    BY <1>1, <2>3, <2>5
<1>3. i <= Len(s) => s[i] \in W
  BY ElementOfSeq
<1>4. "," \in W /\ "=" \in W
  BY DEF Signed
<1>5. CASE i > Len(s)
  BY <1>1, <1>5 DEF DecodeStep
<1>6. CASE ~(i > Len(s))
  <2>1. i <= Len(s)
    BY <1>6
  <2>2. f[i + 1] \in NameOf(W) /\ f[i + 2] \in NameOf(W) /\ s[i] \in W
    BY <1>3, <2>1
  <2> HIDE DEF NameOf
  <2>3. QED
    BY <1>1, <1>2, <1>4, <1>6, <2>2 DEF DecodeStep
<1>7. QED
  BY <1>5, <1>6

\* The places after the i-th decide.
LEMMA DecodeStepLooksOn ==
    ASSUME NEW s, Len(s) \in Nat, NEW i \in 1 .. Len(s) + 2, NEW f, NEW g,
           i <= Len(s) => f[i + 1] = g[i + 1] /\ f[i + 2] = g[i + 2]
    PROVE  DecodeStep(f, s, i) = DecodeStep(g, s, i)
<1>1. CASE i > Len(s)
  BY <1>1 DEF DecodeStep
<1>2. CASE ~(i > Len(s))
  <2>1. f[i + 1] = g[i + 1] /\ f[i + 2] = g[i + 2]
    BY <1>2
  <2>2. QED
    BY <2>1 DEF DecodeStep
<1>3. QED
  BY <1>1, <1>2

\* decode_saslname goes from step to step.
LEMMA DecodeIs ==
    ASSUME NEW W, NEW s \in Seq(W), Signed(W)
    PROVE  \E f \in [1 .. Len(s) + 2 -> NameOf(W)] :
               /\ \A i \in 1 .. Len(s) + 2 : f[i] = DecodeStep(f, s, i)
               /\ decode_saslname(s) = f[1]
<1> DEFINE L == Len(s)
           From(d) == L + 2 - d .. L + 2
           Decodes(f, d) == \A i \in From(d) : f[i] = DecodeStep(f, s, i)
           K == {d \in 0 .. L + 1 : \E f \in [From(d) -> NameOf(W)] : Decodes(f, d)}
<1>1. L \in Nat
  OBVIOUS
<1> HIDE DEF L
<1>2. 0 \in K
  <2> DEFINE f == [i \in From(0) |-> Ok(<<>>)]
  <2>1. Ok(<<>>) \in NameOf(W)
    BY EmptySeq DEF NameOf
  <2>2. f \in [From(0) -> NameOf(W)]
    BY <2>1
  <2>3. ASSUME NEW i \in From(0) PROVE f[i] = DecodeStep(f, s, i)
    <3>1. i > Len(s)
      BY <1>1 DEF L
    <3>2. f[i] = Ok(<<>>)
      OBVIOUS
    <3>3. QED
      BY <3>1, <3>2 DEF DecodeStep
  <2> HIDE DEF f
  <2>4. Decodes(f, 0)
    BY <2>3
  <2> HIDE DEF Decodes, From
  <2>5. 0 \in 0 .. L + 1
    BY <1>1
  <2>6. QED
    BY <2>2, <2>4, <2>5
<1>3. ASSUME NEW d \in 0 .. L, d \in K PROVE d + 1 \in K
  <2>1. PICK f \in [From(d) -> NameOf(W)] : Decodes(f, d)
    BY <1>3
  <2> DEFINE m == L + 1 - d
             g == [i \in From(d + 1) |-> IF i = m THEN DecodeStep(f, s, m) ELSE f[i]]
  <2>2. /\ m \in 1 .. L + 1 /\ From(d + 1) = m .. L + 2 /\ From(d) = m + 1 .. L + 2
    BY <1>1
  <2>3. From(d + 1) = {m} \cup From(d) /\ m \notin From(d) /\ From(d) \subseteq 1 .. L + 2
    BY <1>1, <2>2
  <2>4. m <= L => m + 1 \in From(d) /\ m + 2 \in From(d)
    BY <1>1, <2>2
  <2>5. \A i \in From(d) : i <= L => i + 1 \in From(d) /\ i + 2 \in From(d)
    BY <1>1, <2>2
  <2> HIDE DEF m, From
  <2>6. DecodeStep(f, s, m) \in NameOf(W)
    <3>1. m \in 1 .. L + 2
      BY <1>1, <2>2
    <3>2. m <= L => f[m + 1] \in NameOf(W) /\ f[m + 2] \in NameOf(W)
      BY <2>4
    <3>3. QED
      BY <3>1, <3>2, DecodeStepType DEF L
  <2>7. g \in [From(d + 1) -> NameOf(W)]
    BY <2>3, <2>6
  <2>8. g[m] = DecodeStep(f, s, m) /\ \A i \in From(d) : g[i] = f[i]
    BY <2>3
  <2> HIDE DEF g
  <2>9. DecodeStep(g, s, m) = DecodeStep(f, s, m)
    <3>1. m \in 1 .. L + 2 /\ (m <= L => f[m + 1] = g[m + 1] /\ f[m + 2] = g[m + 2])
      BY <1>1, <2>2, <2>4, <2>8
    <3>2. QED
      BY <1>1, <3>1, DecodeStepLooksOn DEF L
  <2>10. ASSUME NEW i \in From(d) PROVE g[i] = DecodeStep(g, s, i)
    <3>1. i \in 1 .. L + 2 /\ (i <= L => f[i + 1] = g[i + 1] /\ f[i + 2] = g[i + 2])
      BY <2>3, <2>5, <2>8
    <3>2. DecodeStep(g, s, i) = DecodeStep(f, s, i)
      BY <1>1, <3>1, DecodeStepLooksOn DEF L
    <3>3. QED
      BY <2>1, <2>8, <3>2
  <2>11. Decodes(g, d + 1)
    BY <2>3, <2>8, <2>9, <2>10
  <2> HIDE DEF Decodes
  <2>12. d + 1 \in 0 .. L + 1
    BY <1>1
  <2>13. QED
    BY <2>7, <2>11, <2>12
<1>4. \A d \in 0 .. L + 1 : d \in K
  <2> DEFINE t == L + 1
  <2>1. t \in Nat
    BY <1>1
  <2> HIDE DEF K
  <2>2. \A d \in 0 .. t - 1 : d \in K => d + 1 \in K
    <3>1. \A d \in 0 .. t - 1 : d \in 0 .. L
      BY <1>1
    <3>2. QED
      BY <1>3, <3>1
  <2> HIDE DEF t
  <2>3. \A d \in 0 .. t : d \in K
    BY <1>2, <2>1, <2>2, Induction
  <2>4. QED
    BY <2>3 DEF t
<1>5. PICK F \in [1 .. L + 2 -> NameOf(W)] : \A i \in 1 .. L + 2 : F[i] = DecodeStep(F, s, i)
  <2>1. L + 1 \in 0 .. L + 1 /\ From(L + 1) = 1 .. L + 2
    BY <1>1
  <2> HIDE DEF From
  <2>2. QED
    BY <1>4, <2>1
<1> DEFINE G == CHOOSE f : f = [i \in 1 .. L + 2 |-> DecodeStep(f, s, i)]
<1>6. F = [i \in 1 .. L + 2 |-> DecodeStep(F, s, i)]
  BY <1>5
<1>7. G = [i \in 1 .. L + 2 |-> DecodeStep(G, s, i)]
  BY <1>6
<1>8. decode_saslname(s) = G[1]
  BY DEF decode_saslname, DecodeStep, L
<1> HIDE DEF G
<1>9. \A i \in 1 .. L + 2 : G[i] = DecodeStep(G, s, i)
  BY <1>7
<1>10. \A d \in 0 .. L + 1 : G[L + 2 - d] = F[L + 2 - d] /\ (d > 0 => G[L + 3 - d] = F[L + 3 - d])
  <2> DEFINE J == {d \in 0 .. L + 1 : G[L + 2 - d] = F[L + 2 - d] /\ (d > 0 => G[L + 3 - d] = F[L + 3 - d])}
  <2>1. ASSUME NEW i \in 1 .. L + 2, i <= L => G[i + 1] = F[i + 1] /\ G[i + 2] = F[i + 2]
        PROVE  G[i] = F[i]
    <3>1. DecodeStep(G, s, i) = DecodeStep(F, s, i)
      BY <1>1, <2>1, DecodeStepLooksOn DEF L
    <3>2. QED
      BY <1>5, <1>9, <3>1
  <2>2. 0 \in J
    <3>1. L + 2 - 0 = L + 2 /\ L + 2 \in 1 .. L + 2 /\ ~(L + 2 <= L)
      BY <1>1
    <3>2. G[L + 2] = F[L + 2]
      BY <2>1, <3>1
    <3>3. QED
      BY <1>1, <3>1, <3>2
  <2>3. ASSUME NEW d \in 0 .. L, d \in J PROVE d + 1 \in J
    <3>1. PICK i \in 1 .. L + 2 : i = L + 2 - (d + 1) /\ i + 1 = L + 2 - d /\ i + 1 = L + 3 - (d + 1)
                                  /\ i + 2 = L + 3 - d
      <4>1. L + 2 - (d + 1) \in 1 .. L + 2
        BY <1>1
      <4>2. QED
        BY <1>1, <4>1
    <3>2. i <= L => d > 0
      BY <1>1, <3>1
    <3>3. G[i + 1] = F[i + 1] /\ (i <= L => G[i + 2] = F[i + 2])
      BY <2>3, <3>1, <3>2
    <3>4. G[i] = F[i]
      BY <2>1, <3>3
    <3>5. d + 1 \in 0 .. L + 1
      BY <1>1
    <3>6. QED
      BY <3>1, <3>3, <3>4, <3>5
  <2>4. \A d \in 0 .. L + 1 : d \in J
    <3> DEFINE t == L + 1
    <3>1. t \in Nat
      BY <1>1
    <3> HIDE DEF J
    <3>2. \A d \in 0 .. t - 1 : d \in J => d + 1 \in J
      <4>1. \A d \in 0 .. t - 1 : d \in 0 .. L
        BY <1>1
      <4>2. QED
        BY <2>3, <4>1
    <3> HIDE DEF t
    <3>3. \A d \in 0 .. t : d \in J
      BY <2>2, <3>1, <3>2, Induction
    <3>4. QED
      BY <3>3 DEF t
  <2>5. QED
    BY <2>4
<1>11. decode_saslname(s) = F[1]
  <2>1. L + 1 \in 0 .. L + 1 /\ L + 2 - (L + 1) = 1
    BY <1>1
  <2>2. QED
    BY <1>8, <1>10, <2>1
<1>12. QED
  BY <1>5, <1>11 DEF L

\* The escape of c stands at place p of e, and what follows is decoded to r.
EscapeAt(f, e, p, c, r) ==
    /\ Len(e) \in Nat /\ p \in 1 .. Len(e)
    /\ p + Len(Escaped(c)) <= Len(e) + 1
    /\ \A i \in 1 .. Len(Escaped(c)) : e[p + i - 1] = Escaped(c)[i]
    /\ f[p + Len(Escaped(c))] = Ok(r)

\* A step of the decoder undoes the escape that it finds.
LEMMA Unescaped ==
    ASSUME NEW f, NEW e, NEW p, NEW c, NEW r, EscapeAt(f, e, p, c, r)
    PROVE  DecodeStep(f, e, p) = Ok(<<c>> \o r)
<1>0. /\ Len(e) \in Nat /\ p \in 1 .. Len(e) /\ p + Len(Escaped(c)) <= Len(e) + 1
      /\ \A i \in 1 .. Len(Escaped(c)) : e[p + i - 1] = Escaped(c)[i]
      /\ f[p + Len(Escaped(c))] = Ok(r)
  BY DEF EscapeAt
<1>1. Ok(r).ok /\ Ok(r).value = r
  BY DEF Ok
<1>2. ~(p > Len(e))
  BY <1>0
<1>3. ASSUME NEW h, Escaped(c) = <<"=", h>>
      PROVE  e[p] = "=" /\ e[p + 1] = h /\ p # Len(e) /\ f[p + 2] = Ok(r)
  <2>1. Len(Escaped(c)) = 2 /\ Escaped(c)[1] = "=" /\ Escaped(c)[2] = h
    BY <1>3
  <2>2. p + 1 - 1 = p /\ p + 2 - 1 = p + 1
    BY <1>0
  <2>3. e[p + 1 - 1] = Escaped(c)[1] /\ e[p + 2 - 1] = Escaped(c)[2]
    BY <1>0, <2>1
  <2>4. p # Len(e)
    BY <1>0, <2>1
  <2>5. QED
    BY <1>0, <2>1, <2>2, <2>3, <2>4
<1>4. CASE c = ","
  <2>1. e[p] = "=" /\ e[p + 1] = "2C" /\ p # Len(e) /\ f[p + 2] = Ok(r)
    BY <1>3, <1>4 DEF Escaped
  <2>2. QED
    BY <1>1, <1>2, <1>4, <2>1 DEF DecodeStep
<1>5. CASE c = "="
  <2>1. e[p] = "=" /\ e[p + 1] = "3D" /\ p # Len(e) /\ f[p + 2] = Ok(r)
    BY <1>3, <1>5 DEF Escaped
  <2>2. QED
    BY <1>1, <1>2, <1>5, <2>1 DEF DecodeStep
<1>6. CASE c \notin {",", "="}
  <2>1. Escaped(c) = <<c>>
    BY <1>6 DEF Escaped
  <2>2. Len(Escaped(c)) = 1 /\ Escaped(c)[1] = c
    BY <2>1
  <2>3. e[p] = c /\ f[p + 1] = Ok(r)
    <3>1. e[p + 1 - 1] = c /\ p + 1 - 1 = p
      BY <1>0, <2>2
    <3>2. QED
      BY <1>0, <2>2, <3>1
  <2>4. QED
    BY <1>1, <1>2, <1>6, <2>3 DEF DecodeStep
<1>7. QED
  BY <1>4, <1>5, <1>6

\* What is escaped is decoded to what it was: no name, whatever commas, equals
\* signs and escapes are in it, becomes another or is refused
\* (encode_saslname and decode_saslname).
THEOREM DecodeEncode ==
    ASSUME NEW name \in Seq(Symbol)
    PROVE  decode_saslname(encode_saslname(name)) = Ok(name)
<1> DEFINE n == Len(name)
           e == encode_saslname(name)
           L == Len(e)
<1>1. PICK F \in [0 .. n -> Seq(Symbol)] :
         /\ F[0] = <<>>
         /\ \A k \in 0 .. n - 1 : F[k + 1] = F[k] \o Escaped(name[k + 1])
         /\ e = F[n]
  BY EncodeIs
<1>2. n \in Nat /\ e \in Seq(Symbol) /\ L \in Nat
  <2>1. n \in Nat
    OBVIOUS
  <2>2. e \in Seq(Symbol)
    BY EncodeHas
  <2>3. QED
    BY <2>1, <2>2, LenProperties
<1>3. PICK f \in [1 .. L + 2 -> NameOf(Symbol)] :
         /\ \A i \in 1 .. L + 2 : f[i] = DecodeStep(f, e, i)
         /\ decode_saslname(e) = f[1]
  <2>1. Signed(Symbol)
    BY DEF Signed, Symbol
  <2>2. QED
    BY <1>2, <2>1, DecodeIs
<1> HIDE DEF e
<1> DEFINE P(k) == /\ Len(F[k]) <= L
                   /\ \A i \in 1 .. Len(F[k]) : e[i] = F[k][i]
                   /\ f[Len(F[k]) + 1] = Ok(SubSeq(name, k + 1, n))
           J == {d \in 0 .. n : P(n - d)}
<1>4. 0 \in J
  <2>1. F[n] = e /\ n - 0 = n /\ 0 \in 0 .. n
    BY <1>1, <1>2
  <2>2. L + 1 \in 1 .. L + 2 /\ L + 1 > L
    BY <1>2
  <2>3. f[L + 1] = Ok(<<>>)
    BY <1>3, <2>2 DEF DecodeStep
  <2>4. SubSeq(name, n + 1, n) = <<>>
    BY <1>2, SubSeqEmpty
  <2>5. P(n)
    <3>1. Len(F[n]) = L /\ L <= L
      BY <1>2, <2>1
    <3>2. \A i \in 1 .. Len(F[n]) : e[i] = F[n][i]
      BY <2>1
    <3>3. QED
      BY <2>3, <2>4, <3>1, <3>2
  <2> HIDE DEF P
  <2>6. QED
    BY <2>1, <2>5
<1>5. ASSUME NEW k \in 0 .. n - 1, P(k + 1) PROVE P(k)
  <2> DEFINE c == name[k + 1]
             u == Escaped(c)
             a == F[k]
             p == Len(a) + 1
             r == SubSeq(name, k + 2, n)
  <2>1. k + 1 \in 1 .. n /\ k \in 0 .. n /\ k + 1 \in 0 .. n /\ k + 1 + 1 = k + 2
    BY <1>2
  <2>2. c \in Symbol /\ u \in Seq(Symbol) /\ a \in Seq(Symbol)
    <3>1. c \in Symbol
      BY <2>1
    <3>2. {"=", "2C", "3D"} \subseteq Symbol
      BY DEF Symbol
    <3>3. u \in Seq(Symbol)
      BY <3>1, <3>2, EscapedIs
    <3>4. QED
      BY <2>1, <3>1, <3>3
  <2>3. F[k + 1] = a \o u
    BY <1>1
  <2> HIDE DEF c, u, a, r
  <2>4. /\ Len(a) \in Nat /\ Len(u) \in Nat /\ Len(F[k + 1]) = Len(a) + Len(u)
        /\ \A i \in 1 .. Len(a) : F[k + 1][i] = a[i]
        /\ \A i \in 1 .. Len(u) : F[k + 1][Len(a) + i] = u[i]
    BY <2>2, <2>3
  <2>5. /\ Len(a) + Len(u) <= L
        /\ \A i \in 1 .. Len(a) + Len(u) : e[i] = F[k + 1][i]
        /\ f[Len(a) + Len(u) + 1] = Ok(r)
    BY <1>5, <2>1, <2>4 DEF r
  <2>6. Len(u) > 0
    BY DEF u, Escaped
  <2>7. p \in 1 .. L /\ p \in 1 .. L + 2 /\ p + Len(u) <= L + 1 /\ Len(a) + Len(u) + 1 = p + Len(u)
    BY <1>2, <2>4, <2>5, <2>6
  <2>8. \A i \in 1 .. Len(u) : e[p + i - 1] = u[i]
    <3> TAKE i \in 1 .. Len(u)
    <3>1. p + i - 1 = Len(a) + i /\ Len(a) + i \in 1 .. Len(a) + Len(u)
      BY <2>4
    <3>2. QED
      BY <2>4, <2>5, <3>1
  <2>9. f[p + Len(u)] = Ok(r)
    BY <2>5, <2>7
  <2>10. DecodeStep(f, e, p) = Ok(<<c>> \o r)
    <3> HIDE DEF p, L
    <3>1. Len(e) \in Nat /\ p \in 1 .. Len(e) /\ p + Len(u) <= Len(e) + 1
      BY <1>2, <2>7 DEF L
    <3>2. EscapeAt(f, e, p, c, r)
      BY <2>8, <2>9, <3>1 DEF u, EscapeAt
    <3>3. QED
      BY <3>2, Unescaped
  <2>11. <<c>> \o r = SubSeq(name, k + 1, n)
    BY <1>2, <2>1, SubSeqRecursiveFirst DEF c, r
  <2>12. f[p] = Ok(SubSeq(name, k + 1, n))
    BY <1>3, <2>7, <2>10, <2>11
  <2>13. Len(a) <= L /\ \A i \in 1 .. Len(a) : e[i] = a[i]
    <3>1. Len(a) <= L
      BY <1>2, <2>4, <2>5
    <3>2. ASSUME NEW i \in 1 .. Len(a) PROVE e[i] = a[i]
      <4>1. i \in 1 .. Len(a) + Len(u)
        BY <2>4
      <4>2. QED
        BY <2>4, <2>5, <4>1
    <3>3. QED
      BY <3>1, <3>2
  <2>14. QED
    BY <2>12, <2>13 DEF a
<1> HIDE DEF P
<1>6. ASSUME NEW d \in 0 .. n - 1, d \in J PROVE d + 1 \in J
  <2>1. PICK k \in 0 .. n - 1 : k + 1 = n - d /\ k = n - (d + 1)
    <3>1. n - (d + 1) \in 0 .. n - 1 /\ n - (d + 1) + 1 = n - d
      BY <1>2
    <3>2. QED
      BY <3>1
  <2>2. P(k)
    BY <1>5, <1>6, <2>1
  <2>3. QED
    BY <1>2, <2>1, <2>2
<1>7. \A d \in 0 .. n : d \in J
  <2> HIDE DEF J, n
  <2>1. QED
    BY <1>2, <1>4, <1>6, Induction
<1>8. P(0)
  <2>1. n \in 0 .. n /\ n - n = 0
    BY <1>2
  <2>2. QED
    BY <1>7, <2>1
<1>9. f[1] = Ok(SubSeq(name, 1, n))
  BY <1>1, <1>8 DEF P
<1>10. SubSeq(name, 1, n) = name
  BY SubSeqFull
<1>11. QED
  BY <1>3, <1>9, <1>10 DEF e

------------------------------------------------------------------------------
(* The pieces of a string.                                                 *)

Apart(s, separators, i) == i \notin DOMAIN s \/ s[i] \in separators
Starts(s, separators) ==
    {i \in DOMAIN s : ~Apart(s, separators, i) /\ Apart(s, separators, i - 1)}
EndFrom(s, separators, i) == Min({j \in i .. Len(s) : Apart(s, separators, j + 1)})

\* A piece reaches from a start to the next separator.
LEMMA SplitBy ==
    ASSUME NEW s, NEW separators
    PROVE  Split(s, separators) =
               [n \in DOMAIN Ascending(Starts(s, separators)) |->
                   SubSeq(s, Ascending(Starts(s, separators))[n],
                          EndFrom(s, separators, Ascending(Starts(s, separators))[n]))]
BY DEF Split, Starts, EndFrom, Apart

\* It has no separators in it.
LEMMA PieceIs ==
    ASSUME NEW W, NEW s \in Seq(W), NEW separators, NEW a \in Starts(s, separators)
    PROVE  LET b == EndFrom(s, separators, a)
           IN  /\ a \in 1 .. Len(s) /\ b \in a .. Len(s)
               /\ \A j \in a .. b : s[j] \in W /\ s[j] \notin separators
<1> DEFINE b == EndFrom(s, separators, a)
           U == {j \in a .. Len(s) : Apart(s, separators, j + 1)}
<1>1. Len(s) \in Nat /\ DOMAIN s = 1 .. Len(s)
  OBVIOUS
<1>2. a \in 1 .. Len(s) /\ s[a] \notin separators
  BY <1>1 DEF Starts, Apart
<1>3. Len(s) \in U
  <2>1. Len(s) \in a .. Len(s) /\ Len(s) + 1 \notin DOMAIN s
    BY <1>1, <1>2
  <2>2. QED
    BY <2>1 DEF Apart
<1>4. U \subseteq Nat
  BY <1>1, <1>2
<1>5. b \in U /\ \A y \in U : b <= y
  BY <1>3, <1>4, LeastExists DEF EndFrom
<1> HIDE DEF b
<1>6. b \in a .. Len(s)
  BY <1>5
<1>7. ASSUME NEW j \in a .. b PROVE s[j] \in W /\ s[j] \notin separators
  <2>1. j \in 1 .. Len(s)
    BY <1>1, <1>2, <1>6
  <2>2. s[j] \in W
    BY <2>1, ElementOfSeq
  <2>3. s[j] \notin separators
    <3>1. CASE j = a
      BY <1>2, <3>1
    <3>2. CASE j # a
      <4>1. j - 1 \in a .. Len(s) /\ j - 1 + 1 = j /\ ~(b <= j - 1)
        BY <1>1, <1>2, <1>6, <3>2
      <4>2. j - 1 \notin U
        BY <1>5, <4>1
      <4>3. ~Apart(s, separators, j)
        BY <4>1, <4>2
      <4>4. QED
        BY <4>3 DEF Apart
    <3>3. QED
      BY <3>1, <3>2
  <2>4. QED
    BY <2>2, <2>3
<1>8. QED
  BY <1>2, <1>6, <1>7 DEF b

\* So no piece is empty and none has a separator.
LEMMA SplitIs ==
    ASSUME NEW W, NEW s \in Seq(W), NEW separators
    PROVE  /\ Split(s, separators) \in Seq(Seq(W \ separators))
           /\ \A n \in DOMAIN Split(s, separators) : Split(s, separators)[n] # <<>>
<1> DEFINE S == Starts(s, separators)
           C == Cardinality(S)
           at == Ascending(S)
           Piece(n) == SubSeq(s, at[n], EndFrom(s, separators, at[n]))
<1>1. S \subseteq Nat /\ IsFiniteSet(S)
  <2>1. S \subseteq 1 .. Len(s) /\ Len(s) \in Nat
    BY DEF Starts
  <2>2. QED
    BY <2>1, CountUpTo, FS_Subset
<1>2. C \in Nat /\ DOMAIN at = 1 .. C /\ \A n \in 1 .. C : at[n] \in S
  BY <1>1, AscendingIs
<1>3. Split(s, separators) = [n \in 1 .. C |-> Piece(n)]
  BY <1>2, SplitBy
<1> HIDE DEF S, C, at
<1>4. ASSUME NEW n \in 1 .. C PROVE Piece(n) \in Seq(W \ separators) /\ Piece(n) # <<>>
  <2> DEFINE a == at[n]
             b == EndFrom(s, separators, a)
  <2>1. /\ a \in 1 .. Len(s) /\ b \in a .. Len(s)
        /\ \A j \in a .. b : s[j] \in W \ separators
    BY <1>2, PieceIs DEF S
  <2> HIDE DEF a, b
  <2>2. a \in Int /\ b \in Int /\ a <= b
    BY <2>1
  <2>3. SubSeq(s, a, b) \in Seq(W \ separators) /\ Len(SubSeq(s, a, b)) = b - a + 1
    BY <2>1, <2>2, SubSeqProperties
  <2>4. Len(SubSeq(s, a, b)) # 0
    BY <2>2, <2>3
  <2>5. \A v : Len(v) # 0 => v # <<>>
    BY EmptySeq
  <2>6. QED
    BY <2>3, <2>4, <2>5 DEF a, b
<1> HIDE DEF Piece
<1>5. QED
  BY <1>2, <1>3, <1>4

\* Without a separator but at its end a string is one piece.
LEMMA SplitOne ==
    ASSUME NEW W, NEW t \in Seq(W), NEW c \in W, t # <<>>, \A i \in 1 .. Len(t) : t[i] # c
    PROVE  Split(t \o <<c>>, {c}) = <<t>>
<1> DEFINE s == t \o <<c>>
           n == Len(t)
<1>1. <<c>> \in Seq(W) /\ Len(<<c>>) = 1 /\ <<c>>[1] = c
  BY Tuple1
<1>2. n \in Nat /\ n # 0
  OBVIOUS
<1>3. /\ s \in Seq(W) /\ Len(s) = n + 1 /\ DOMAIN s = 1 .. n + 1
      /\ \A i \in 1 .. n : s[i] = t[i]
      /\ s[n + 1] = c
  OBVIOUS
<1> HIDE DEF s, n
<1>4. \A i \in 1 .. n : ~Apart(s, {c}, i)
  <2> TAKE i \in 1 .. n
  <2>1. i \in DOMAIN s /\ s[i] # c
    BY <1>2, <1>3 DEF n
  <2>2. QED
    BY <2>1 DEF Apart
<1>5. Apart(s, {c}, 0) /\ Apart(s, {c}, n + 1)
  <2>1. 0 \notin DOMAIN s
    BY <1>2, <1>3
  <2>2. QED
    BY <1>3, <2>1 DEF Apart
<1>6. Starts(s, {c}) = 1 .. 1
  <2>1. ASSUME NEW i \in 1 .. n + 1, i # 1, ~Apart(s, {c}, i) PROVE ~Apart(s, {c}, i - 1)
    <3>1. i - 1 \in 1 .. n
      BY <1>2, <2>1
    <3>2. QED
      BY <1>4, <3>1
  <2>2. 1 \in 1 .. n /\ 1 \in DOMAIN s /\ 1 - 1 = 0
    BY <1>2, <1>3
  <2>3. 1 \in Starts(s, {c})
    BY <1>4, <1>5, <2>2 DEF Starts
  <2>4. \A i \in Starts(s, {c}) : i = 1
    BY <1>3, <2>1 DEF Starts
  <2>5. 1 .. 1 = {1}
    OBVIOUS
  <2>6. QED
    BY <2>3, <2>4, <2>5
<1>7. EndFrom(s, {c}, 1) = n
  <2> DEFINE U == {j \in 1 .. Len(s) : Apart(s, {c}, j + 1)}
  <2>1. n \in U /\ U \subseteq Nat
    BY <1>2, <1>3, <1>5
  <2>2. ASSUME NEW j \in U PROVE n <= j
    <3>1. j \in 1 .. n + 1 /\ (j < n => j + 1 \in 1 .. n)
      BY <1>2, <1>3
    <3>2. ~(j < n)
      BY <1>4, <3>1
    <3>3. QED
      BY <1>2, <3>1, <3>2
  <2>3. Min(U) = n
    BY <2>1, <2>2, LeastIs
  <2>4. QED
    BY <2>3 DEF EndFrom
<1>8. SubSeq(s, 1, n) = t
  <2>1. SubSeq(s, 1, n) = SubSeq(t, 1, n)
    BY <1>1, <1>2, SubSeqOfConcat1 DEF s, n
  <2>2. QED
    BY <2>1, SubSeqFull DEF n
<1>9. DOMAIN Ascending(1 .. 1) = 1 .. 1 /\ Ascending(1 .. 1)[1] = 1
  <2>1. 1 \in Nat /\ 1 \in 1 .. 1
    OBVIOUS
  <2>2. Ascending(1 .. 1) = [i \in 1 .. 1 |-> i]
    BY <2>1, AscendingUpTo
  <2>3. QED
    BY <2>1, <2>2
<1>10. Split(s, {c}) = [k \in 1 .. 1 |-> SubSeq(s, Ascending(1 .. 1)[k], EndFrom(s, {c}, Ascending(1 .. 1)[k]))]
  BY <1>6, <1>9, SplitBy
<1>11. Split(s, {c}) = [k \in 1 .. 1 |-> t]
  <2>1. \A k \in 1 .. 1 : k = 1
    OBVIOUS
  <2>2. \A k \in 1 .. 1 : SubSeq(s, Ascending(1 .. 1)[k], EndFrom(s, {c}, Ascending(1 .. 1)[k])) = t
    BY <1>7, <1>8, <1>9, <2>1
  <2>3. QED
    BY <1>10, <2>2
<1>12. QED
  BY <1>11 DEF s

------------------------------------------------------------------------------
(* The client's message.                                                   *)

\* What parse_client_response takes from a message.
First(m)  == FirstIn(m, KVSEP)
Gs2(m)    == SubSeq(m, 1, First(m) - 1)
Fields(m) == Split(SubSeq(m, First(m) + 1, Len(m) - 1), {KVSEP})
Auths(fields) == {i \in DOMAIN fields : fields[i][1] = "auth" /\ FirstIn(fields[i], "=") = 2}
From3(s)  == SubSeq(s, 3, Len(s))
AuthOf(fields) == From3(fields[Max(Auths(fields))])

\* And what it refuses.
Refused(m) ==
    \/ First(m) > Len(m)
    \/ ~authzid_of(Gs2(m)).ok
    \/ ~IsSuffix(<<KVSEP, KVSEP>>, m)
    \/ \E i \in DOMAIN Fields(m) : "=" \notin ToSet(Fields(m)[i])
    \/ Auths(Fields(m)) = {}
    \/ Len(AuthOf(Fields(m))) < 2
    \/ AuthOf(Fields(m))[1] \notin Bearers
    \/ ~IsUtf8(AuthOf(Fields(m)))

\* The message is refused, or has the name and the last token in it.
LEMMA ParseIs ==
    ASSUME NEW m
    PROVE  parse_client_response(m) =
               IF Refused(m) THEN Err
               ELSE Ok([authzid |-> authzid_of(Gs2(m)).value, token |-> Tail(AuthOf(Fields(m)))])
BY DEF parse_client_response, Refused, First, Gs2, Fields, Auths, AuthOf, From3

\* FirstIn is the place of the first, or the one after the end.
LEMMA FirstInHas ==
    ASSUME NEW W, NEW s \in Seq(W), NEW c
    PROVE  /\ FirstIn(s, c) \in 1 .. Len(s) + 1
           /\ FirstIn(s, c) <= Len(s) => s[FirstIn(s, c)] = c
           /\ \A i \in 1 .. FirstIn(s, c) - 1 : s[i] # c
<1> DEFINE U == {i \in DOMAIN s : s[i] = c} \cup {Len(s) + 1}
           p == Min(U)
<1>1. Len(s) \in Nat /\ DOMAIN s = 1 .. Len(s)
  OBVIOUS
<1>2. U \subseteq 1 .. Len(s) + 1 /\ U # {}
  BY <1>1
<1>3. U \subseteq Nat
  BY <1>1, <1>2
<1>4. p \in U /\ \A y \in U : p <= y
  BY <1>2, <1>3, LeastExists
<1> HIDE DEF p
<1>5. p \in 1 .. Len(s) + 1
  BY <1>2, <1>4
<1>6. p <= Len(s) => s[p] = c
  BY <1>1, <1>4, <1>5
<1>7. ASSUME NEW i \in 1 .. p - 1, s[i] = c PROVE FALSE
  <2>1. i \in DOMAIN s /\ ~(p <= i)
    BY <1>1, <1>5
  <2>2. i \in U
    BY <1>7, <2>1
  <2>3. QED
    BY <1>4, <2>1, <2>2
<1>8. p = FirstIn(s, c)
  BY DEF p, FirstIn
<1>9. QED
  BY <1>5, <1>6, <1>7, <1>8

\* A place with none before it is the first.
LEMMA FirstInIs ==
    ASSUME NEW W, NEW s \in Seq(W), NEW c, NEW p \in 1 .. Len(s), s[p] = c,
           \A i \in 1 .. p - 1 : s[i] # c
    PROVE  FirstIn(s, c) = p
<1> DEFINE q == FirstIn(s, c)
<1>1. /\ q \in 1 .. Len(s) + 1
      /\ q <= Len(s) => s[q] = c
      /\ \A i \in 1 .. q - 1 : s[i] # c
  BY FirstInHas
<1> HIDE DEF q
<1>2. Len(s) \in Nat
  OBVIOUS
<1>3. ~(q < p)
  <2> SUFFICES ASSUME q < p PROVE FALSE
    OBVIOUS
  <2>1. q \in 1 .. p - 1 /\ q <= Len(s)
    BY <1>1, <1>2
  <2>2. QED
    BY <1>1, <2>1
<1>4. ~(p < q)
  <2> SUFFICES ASSUME p < q PROVE FALSE
    OBVIOUS
  <2>1. p \in 1 .. q - 1
    BY <1>1, <1>2
  <2>2. QED
    BY <1>1, <2>1
<1>5. QED
  BY <1>1, <1>2, <1>3, <1>4 DEF q

\* One sequence after another.
Joins(W, u, s, t, m, n) ==
    /\ u \in Seq(W) /\ Len(u) = m + n /\ m \in Nat /\ n \in Nat
    /\ \A i \in 1 .. m : u[i] = s[i]
    /\ \A i \in 1 .. n : u[m + i] = t[i]

\* Two sequences of W are joined, each in its place.
LEMMA Concat ==
    ASSUME NEW W, NEW s \in Seq(W), NEW t \in Seq(W)
    PROVE  Joins(W, s \o t, s, t, Len(s), Len(t))
<1> DEFINE m == Len(s)
           n == Len(t)
           u == s \o t
<1>1. m \in Nat /\ n \in Nat
  OBVIOUS
<1>2. /\ u \in Seq(W) /\ Len(u) = m + n
      /\ \A i \in 1 .. m + n : u[i] = IF i <= m THEN s[i] ELSE t[i - m]
  BY ConcatProperties
<1> HIDE DEF m, n, u
<1>3. \A i \in 1 .. m : u[i] = s[i]
  BY <1>1, <1>2
<1>4. ASSUME NEW i \in 1 .. n PROVE u[m + i] = t[i]
  <2>1. m + i \in 1 .. m + n /\ ~(m + i <= m) /\ m + i - m = i
    BY <1>1
  <2>2. PICK j \in 1 .. m + n : j = m + i
    BY <2>1
  <2>3. u[j] = IF j <= m THEN s[j] ELSE t[j - m]
    BY <1>2
  <2>4. ~(j <= m) /\ j - m = i
    BY <1>1, <2>2
  <2>5. u[j] = t[i]
    BY <2>3, <2>4
  <2>6. QED
    BY <2>2, <2>5
<1>5. Joins(W, u, s, t, m, n)
  BY <1>1, <1>2, <1>3, <1>4 DEF Joins
<1>6. QED
  BY <1>5 DEF m, n, u

\* Longer sequences.
LEMMA Tuple3 == ASSUME NEW W, NEW a \in W, NEW b \in W, NEW c \in W PROVE <<a, b, c>> \in Seq(W)
OBVIOUS

\* ... and four.
LEMMA Tuple4 ==
    ASSUME NEW W, NEW a \in W, NEW b \in W, NEW c \in W, NEW d \in W
    PROVE  <<a, b, c, d>> \in Seq(W)
OBVIOUS

\* The header build_client_response writes.
NamedMark == <<"n", ",", "a", "=">>
Header(A) ==
    IF A \in {NoAuthzid, <<>>} THEN <<"n", ",", ",">> ELSE NamedMark \o encode_saslname(A) \o <<",">>

Framed(H, e) ==
    /\ H[1] = "n" /\ H[2] = "," /\ H[3] = "a" /\ H[4] = "="
    /\ \A i \in 1 .. Len(e) : H[4 + i] = e[i]
    /\ H[Len(e) + 5] = ","

\* A header with a name.
LEMMA NamedHeader ==
    ASSUME NEW e \in Seq(Symbol)
    PROVE  LET H == NamedMark \o e \o <<",">>
           IN  H \in Seq(Symbol) /\ Len(H) = Len(e) + 5 /\ Framed(H, e)
<1> DEFINE c == <<",">>
           a == NamedMark \o e
           H == a \o c
           k == Len(e)
<1>1. /\ NamedMark \in Seq(Symbol) /\ Len(NamedMark) = 4
      /\ NamedMark[1] = "n" /\ NamedMark[2] = "," /\ NamedMark[3] = "a" /\ NamedMark[4] = "="
  <2>1. "n" \in Symbol /\ "," \in Symbol /\ "a" \in Symbol /\ "=" \in Symbol
    BY DEF Symbol
  <2>2. QED
    BY <2>1, Tuple4 DEF NamedMark
<1>2. c \in Seq(Symbol) /\ Len(c) = 1 /\ c[1] = ","
  <2>1. "," \in Symbol
    BY DEF Symbol
  <2>2. QED
    BY <2>1, Tuple1
<1> HIDE DEF c
<1>3. k \in Nat /\ e \in Seq(Symbol) /\ Len(e) = k
  OBVIOUS
<1> HIDE DEF k
<1>4. /\ a \in Seq(Symbol) /\ Len(a) = k + 4
      /\ \A i \in 1 .. 4 : a[i] = NamedMark[i]
      /\ \A i \in 1 .. k : a[4 + i] = e[i]
  <2>1. Joins(Symbol, a, NamedMark, e, 4, k)
    BY <1>1, <1>3, Concat
  <2> HIDE DEF a
  <2>2. QED
    BY <1>3, <2>1 DEF Joins
<1> HIDE DEF a
<1>5. /\ H \in Seq(Symbol) /\ Len(H) = k + 4 + 1
      /\ \A i \in 1 .. k + 4 : H[i] = a[i]
      /\ H[k + 4 + 1] = c[1]
  <2>1. Joins(Symbol, H, a, c, k + 4, 1)
    BY <1>2, <1>4, Concat
  <2> HIDE DEF H
  <2>2. 1 \in 1 .. 1
    OBVIOUS
  <2>3. QED
    BY <2>1, <2>2 DEF Joins
<1> HIDE DEF H
<1>6. k + 4 + 1 = k + 5 /\ \A i \in 1 .. 4 : i \in 1 .. k + 4
  BY <1>3
<1>7. \A i \in 1 .. k : H[4 + i] = e[i]
  <2> TAKE i \in 1 .. k
  <2>1. 4 + i \in 1 .. k + 4
    BY <1>3
  <2>2. QED
    BY <1>4, <1>5, <2>1
<1>8. H[1] = "n" /\ H[2] = "," /\ H[3] = "a" /\ H[4] = "="
  <2>1. 1 \in 1 .. 4 /\ 2 \in 1 .. 4 /\ 3 \in 1 .. 4 /\ 4 \in 1 .. 4
    OBVIOUS
  <2>2. QED
    BY <1>1, <1>4, <1>5, <1>6, <2>1
<1>9. Framed(H, e)
  BY <1>2, <1>5, <1>6, <1>7, <1>8 DEF Framed, k
<1>10. QED
  BY <1>5, <1>6, <1>9 DEF H, a, c, k

\* What is escaped has no symbol that is not in the name nor of an escape.
LEMMA EncodeAvoids ==
    ASSUME NEW A \in Seq(Symbol), NEW c, c \notin ToSet(A) \/ c = ",", c # "=", c # "2C", c # "3D"
    PROVE  /\ encode_saslname(A) \in Seq(Symbol)
           /\ \A i \in 1 .. Len(encode_saslname(A)) : encode_saslname(A)[i] # c
<1>1. c \notin (ToSet(A) \ {","}) \cup {"=", "2C", "3D"}
  OBVIOUS
<1>2. encode_saslname(A) \in Seq(Symbol)
  BY EncodeHas
<1>3. \A i \in 1 .. Len(encode_saslname(A)) : encode_saslname(A)[i] # c
  BY <1>1, EncodeHas
<1>4. QED
  BY <1>2, <1>3

NamelessHeader == <<"n", ",", ",">>
Nameless(A) == A \in {NoAuthzid, <<>>}

\* A header has a name or is the fixed one.
LEMMA HeaderCases ==
    ASSUME NEW A
    PROVE  /\ Nameless(A) => Header(A) = NamelessHeader
           /\ ~Nameless(A) => Header(A) = NamedMark \o encode_saslname(A) \o <<",">>
BY DEF Header, Nameless, NamelessHeader

\* What the headers begin with is made of symbols and separates nothing.
LEMMA MarksAre ==
    /\ NamelessHeader \in Seq(Symbol) /\ Len(NamelessHeader) = 3
    /\ \A i \in 1 .. 3 : NamelessHeader[i] # KVSEP
    /\ NamedMark \in Seq(Symbol) /\ Len(NamedMark) = 4
    /\ SubSeq(NamedMark, 1, 4) = NamedMark
<1>1. "n" \in Symbol /\ "," \in Symbol /\ "a" \in Symbol /\ "=" \in Symbol
  BY DEF Symbol
<1>2. NamelessHeader \in Seq(Symbol)
  BY <1>1, Tuple3 DEF NamelessHeader
<1>3. Len(NamelessHeader) = 3
  BY DEF NamelessHeader
<1>4. NamedMark \in Seq(Symbol)
  BY <1>1, Tuple4 DEF NamedMark
<1>5. Len(NamedMark) = 4
  BY DEF NamedMark
<1>6. \A i \in 1 .. 3 : NamelessHeader[i] # KVSEP
  <2>1. \A i \in 1 .. 3 : i = 1 \/ i = 2 \/ i = 3
    OBVIOUS
  <2>2. NamelessHeader[1] # KVSEP /\ NamelessHeader[2] # KVSEP /\ NamelessHeader[3] # KVSEP
    BY DEF NamelessHeader, KVSEP
  <2>3. QED
    BY <2>1, <2>2
<1>7. SubSeq(NamedMark, 1, 4) = NamedMark
  BY <1>4, <1>5, SubSeqFull
<1>8. QED
  BY <1>2, <1>3, <1>4, <1>5, <1>6, <1>7

NotFixed(c) == c # "n" /\ c # "," /\ c # "a" /\ c # "="

\* The symbols of a header with a name.
LEMMA FramedHas ==
    ASSUME NEW H, NEW e, Len(e) \in Nat, Framed(H, e), NEW i \in 1 .. Len(e) + 5, NEW c,
           NotFixed(c), \A j \in 1 .. Len(e) : e[j] # c
    PROVE  H[i] # c
<1> DEFINE k == Len(e)
<1>1. k \in Nat /\ i \in 1 .. k + 5
  OBVIOUS
<1> HIDE DEF k
<1>2. i = 1 \/ i = 2 \/ i = 3 \/ i = 4 \/ i = k + 5 \/ i - 4 \in 1 .. k
  BY <1>1
<1>3. H[1] # c /\ H[2] # c /\ H[3] # c /\ H[4] # c /\ H[k + 5] # c
  BY DEF Framed, k, NotFixed
<1>4. ASSUME i - 4 \in 1 .. k PROVE H[i] # c
  <2>1. PICK j \in 1 .. k : i = 4 + j
    <3>1. i = 4 + (i - 4)
      BY <1>1
    <3>2. QED
      BY <1>4, <3>1
  <2>2. H[4 + j] = e[j]
    BY DEF Framed, k
  <2>3. QED
    BY <2>1, <2>2 DEF k
<1>5. QED
  BY <1>2, <1>3, <1>4

\* A header is of symbols, and no other than those of the name.
LEMMA HeaderIs ==
    ASSUME NEW A \in Seq(Symbol)
    PROVE  /\ Header(A) \in Seq(Symbol) /\ Len(Header(A)) >= 3
           /\ KVSEP \notin ToSet(A) => \A i \in 1 .. Len(Header(A)) : Header(A)[i] # KVSEP
<1>1. CASE Nameless(A)
  <2>1. Header(A) = NamelessHeader
    BY <1>1, HeaderCases
  <2>2. QED
    BY <2>1, MarksAre
<1>2. CASE ~Nameless(A)
  <2> DEFINE e == encode_saslname(A)
             H == NamedMark \o e \o <<",">>
  <2>1. e \in Seq(Symbol)
    BY EncodeHas
  <2>2. Header(A) = H
    BY <1>2, HeaderCases
  <2>3. H \in Seq(Symbol) /\ Len(H) = Len(e) + 5 /\ Framed(H, e)
    BY <2>1, NamedHeader
  <2> HIDE DEF H
  <2>4. Len(e) \in Nat
    BY <2>1
  <2>5. ASSUME KVSEP \notin ToSet(A), NEW i \in 1 .. Len(H) PROVE H[i] # KVSEP
    <3>1. NotFixed(KVSEP) /\ KVSEP # "=" /\ KVSEP # "2C" /\ KVSEP # "3D"
      BY DEF KVSEP, NotFixed
    <3>2. \A j \in 1 .. Len(e) : e[j] # KVSEP
      BY <2>5, <3>1, EncodeAvoids
    <3> HIDE DEF e
    <3>3. QED
      BY <2>3, <2>4, <3>1, <3>2, FramedHas
  <2> HIDE DEF e
  <2>6. Len(H) >= 3
    BY <2>3, <2>4
  <2>7. QED
    BY <2>2, <2>3, <2>5, <2>6
<1>3. QED
  BY <1>1, <1>2

\* A sequence within another.
LEMMA Within ==
    ASSUME NEW W, NEW s \in Seq(W), NEW t \in Seq(W), NEW a \in Nat, a + Len(t) <= Len(s),
           \A i \in 1 .. Len(t) : s[a + i] = t[i]
    PROVE  SubSeq(s, a + 1, a + Len(t)) = t
<1> DEFINE k == Len(t)
           L == Len(s)
<1>1. k \in Nat /\ L \in Nat /\ a + k <= L
  OBVIOUS
<1>2. \A i \in 1 .. L : s[i] \in W
  BY ElementOfSeq
<1>3. \A i \in 1 .. k : s[a + i] = t[i]
  OBVIOUS
<1> HIDE DEF k, L
<1>4. PICK x \in Int, y \in Int : x = a + 1 /\ y = a + k
  BY <1>1
<1> DEFINE u == SubSeq(s, x, y)
<1>5. /\ u \in Seq(W) /\ Len(u) = IF x <= y THEN y - x + 1 ELSE 0
      /\ \A i \in 1 .. y - x + 1 : u[i] = s[x + i - 1]
  <2>1. \A i \in x .. y : s[i] \in W
    BY <1>1, <1>2, <1>4
  <2>2. QED
    BY <2>1, SubSeqProperties
<1> HIDE DEF u
<1>6. Len(u) = k
  BY <1>1, <1>4, <1>5
<1>7. ASSUME NEW i \in 1 .. k PROVE u[i] = t[i]
  <2>1. i \in 1 .. y - x + 1
    BY <1>1, <1>4
  <2>2. x + i - 1 = a + i
    BY <1>1, <1>4
  <2>3. QED
    BY <1>3, <1>5, <2>1, <2>2
<1>8. u = t
  BY <1>5, <1>6, <1>7, SeqEqual DEF k
<1>9. QED
  BY <1>4, <1>8 DEF u, k

\* The name is read from the header it was written to.
LEMMA HeaderRead ==
    ASSUME NEW A \in Seq(Symbol), IsUtf8(A)
    PROVE  authzid_of(Header(A)) = Ok(IF Nameless(A) THEN NoAuthzid ELSE A)
<1>1. CASE Nameless(A)
  <2>1. Header(A) = NamelessHeader
    BY <1>1, HeaderCases
  <2>2. QED
    BY <1>1, <2>1 DEF authzid_of, NamelessHeader
<1>2. CASE ~Nameless(A)
  <2> DEFINE e == encode_saslname(A)
             H == NamedMark \o e \o <<",">>
             k == Len(e)
  <2>1. e \in Seq(Symbol)
    BY EncodeHas
  <2>2. Header(A) = H /\ decode_saslname(e) = Ok(A)
    BY <1>2, DecodeEncode, HeaderCases
  <2>3. H \in Seq(Symbol) /\ Len(H) = k + 5 /\ Framed(H, e)
    BY <2>1, NamedHeader
  <2>4. k \in Nat
    BY <2>1
  <2>5. IsUtf8(e)
    <3>1. /\ NotUtf8 \notin ToSet(A)
          /\ NotUtf8 # "=" /\ NotUtf8 # "2C" /\ NotUtf8 # "3D"
      BY DEF IsUtf8, NotUtf8
    <3>2. \A i \in 1 .. Len(e) : e[i] # NotUtf8
      BY <3>1, EncodeAvoids
    <3> HIDE DEF e
    <3>3. DOMAIN e = 1 .. Len(e)
      BY <2>1
    <3>4. QED
      BY <3>2, <3>3 DEF IsUtf8, ToSet
  <2> HIDE DEF e, H, k
  <2>6. SubSeq(H, 5, Len(H) - 1) = e
    <3>1. SubSeq(H, 4 + 1, 4 + Len(e)) = e
      <4>1. 4 \in Nat /\ 4 + Len(e) <= Len(H)
        BY <2>3, <2>4 DEF k
      <4>2. \A i \in 1 .. Len(e) : H[4 + i] = e[i]
        BY <2>3 DEF Framed
      <4>3. QED
        BY <2>1, <2>3, <4>1, <4>2, Within
    <3>2. 4 + 1 = 5 /\ 4 + Len(e) = Len(H) - 1
      BY <2>3, <2>4 DEF k
    <3>3. QED
      BY <3>1, <3>2
  <2>7. H # NamelessHeader
    <3>1. H[3] = "a"
      BY <2>3 DEF Framed
    <3>2. NamelessHeader[3] = ","
      BY DEF NamelessHeader
    <3>3. QED
      BY <3>1, <3>2
  <2>8. IsPrefix(NamedMark, H)
    <3>1. Len(NamedMark) = 4 /\ 0 + Len(NamedMark) <= Len(H)
      BY <2>3, <2>4, MarksAre
    <3>2. \A i \in 1 .. Len(NamedMark) : H[0 + i] = NamedMark[i]
      <4>1. \A i \in 1 .. 4 : (i = 1 \/ i = 2 \/ i = 3 \/ i = 4) /\ 0 + i = i
        OBVIOUS
      <4>2. H[1] = NamedMark[1] /\ H[2] = NamedMark[2] /\ H[3] = NamedMark[3] /\ H[4] = NamedMark[4]
        BY <2>3 DEF Framed, NamedMark
      <4>3. QED
        BY <3>1, <4>1, <4>2
    <3>3. SubSeq(H, 0 + 1, 0 + Len(NamedMark)) = NamedMark
      <4>1. 0 \in Nat
        OBVIOUS
      <4>2. QED
        BY <2>3, <3>1, <3>2, <4>1, MarksAre, Within
    <3>4. SubSeq(H, 1, 4) = NamedMark /\ Len(NamedMark) <= Len(H)
      <4>1. 0 + 1 = 1 /\ 0 + 4 = 4
        OBVIOUS
      <4>2. QED
        BY <3>1, <3>3, <4>1
    <3>5. QED
      BY <3>1, <3>4, MarksAre DEF IsPrefix
  <2>9. Last(H) = ","
    BY <2>3 DEF Last, Framed, k
  <2>10. authzid_of(H) = decode_saslname(SubSeq(H, 5, Len(H) - 1))
    <3>1. IsUtf8(SubSeq(H, 5, Len(H) - 1))
      BY <2>5, <2>6
    <3>2. QED
      BY <2>7, <2>8, <2>9, <3>1 DEF authzid_of, NamedMark, NamelessHeader
  <2>11. QED
    BY <1>2, <2>2, <2>6, <2>10
<1>3. QED
  BY <1>1, <1>2

TokenMark == <<KVSEP, "auth", "=", "Bearer ">>
AuthMark == <<"auth", "=", "Bearer ">>
EndMark == <<KVSEP, KVSEP>>
SchemeMark == <<"Bearer ">>
SepMark == <<KVSEP>>

\* What stands around the token is made of symbols.
LEMMA PartsAre ==
    /\ TokenMark \in Seq(Symbol) /\ Len(TokenMark) = 4
    /\ AuthMark \in Seq(Symbol) /\ Len(AuthMark) = 3
    /\ EndMark \in Seq(Symbol) /\ Len(EndMark) = 2
    /\ SchemeMark \in Seq(Symbol) /\ Len(SchemeMark) = 1
    /\ SepMark \in Seq(Symbol) /\ Len(SepMark) = 1
<1>1. KVSEP \in Symbol /\ "auth" \in Symbol /\ "=" \in Symbol /\ "Bearer " \in Symbol
  BY DEF Symbol
<1> DEFINE kv == KVSEP
<1> HIDE DEF kv
<1>2. kv \in Symbol
  BY <1>1 DEF kv
<1>3. TokenMark \in Seq(Symbol)
  BY <1>1, Tuple4 DEF TokenMark
<1>4. AuthMark \in Seq(Symbol)
  BY <1>1, Tuple3 DEF AuthMark
<1>5. EndMark \in Seq(Symbol)
  BY <1>1, Tuple2 DEF EndMark
<1>6. SchemeMark \in Seq(Symbol)
  BY <1>1, Tuple1 DEF SchemeMark
<1>7. SepMark \in Seq(Symbol)
  BY <1>1, Tuple1 DEF SepMark
<1>8. Len(TokenMark) = 4 /\ Len(AuthMark) = 3 /\ Len(EndMark) = 2 /\ Len(SchemeMark) = 1 /\ Len(SepMark) = 1
  BY DEF TokenMark, AuthMark, EndMark, SchemeMark, SepMark
<1>9. QED
  BY <1>3, <1>4, <1>5, <1>6, <1>7, <1>8

\* The message, part by part.
Built(m, H, T, h, k) ==
    /\ m \in Seq(Symbol) /\ h \in Nat /\ k \in Nat /\ Len(m) = h + 4 + k + 2
    /\ \A i \in 1 .. h : m[i] = H[i]
    /\ \A i \in 1 .. 4 : m[h + i] = TokenMark[i]
    /\ \A i \in 1 .. k : m[h + 4 + i] = T[i]
    /\ \A i \in 1 .. 2 : m[h + 4 + k + i] = EndMark[i]

\* This client writes header, mark, token and end one after another.
LEMMA BuildHas ==
    ASSUME NEW A \in Seq(Symbol), NEW T \in Seq(Symbol)
    PROVE  Built(build_client_response(A, T), Header(A), T, Len(Header(A)), Len(T))
<1> DEFINE H == Header(A)
           a == H \o TokenMark
           b == a \o T
           m == b \o EndMark
           h == Len(H)
           k == Len(T)
<1>1. build_client_response(A, T) = m
  BY DEF build_client_response, Header, TokenMark, EndMark, NamedMark
<1>2. H \in Seq(Symbol)
  BY HeaderIs
<1> HIDE DEF H
<1>3. Joins(Symbol, a, H, TokenMark, h, 4)
  BY <1>2, PartsAre, Concat
<1> HIDE DEF a, h
<1>4. a \in Seq(Symbol) /\ Len(a) = h + 4 /\ h \in Nat
  BY <1>3 DEF Joins
<1>5. Joins(Symbol, b, a, T, h + 4, k)
  BY <1>4, Concat
<1> HIDE DEF b, k
<1>6. b \in Seq(Symbol) /\ Len(b) = h + 4 + k /\ k \in Nat
  BY <1>5 DEF Joins
<1>7. Joins(Symbol, m, b, EndMark, h + 4 + k, 2)
  BY <1>6, PartsAre, Concat
<1> HIDE DEF m
<1>8. m \in Seq(Symbol) /\ Len(m) = h + 4 + k + 2
  BY <1>7 DEF Joins
<1>9. \A i \in 1 .. h + 4 + k : m[i] = b[i]
  BY <1>7 DEF Joins
<1>10. \A i \in 1 .. h + 4 : b[i] = a[i]
  BY <1>5 DEF Joins
<1>11. \A i \in 1 .. h : m[i] = H[i]
  <2>1. \A i \in 1 .. h : a[i] = H[i]
    BY <1>3 DEF Joins
  <2>2. \A i \in 1 .. h : i \in 1 .. h + 4 /\ i \in 1 .. h + 4 + k
    BY <1>4, <1>6
  <2>3. QED
    BY <1>9, <1>10, <2>1, <2>2
<1>12. \A i \in 1 .. 4 : m[h + i] = TokenMark[i]
  <2>1. \A i \in 1 .. 4 : a[h + i] = TokenMark[i]
    BY <1>3 DEF Joins
  <2>2. \A i \in 1 .. 4 : h + i \in 1 .. h + 4 /\ h + i \in 1 .. h + 4 + k
    BY <1>4, <1>6
  <2>3. QED
    BY <1>9, <1>10, <2>1, <2>2
<1>13. \A i \in 1 .. k : m[h + 4 + i] = T[i]
  <2>1. \A i \in 1 .. k : b[h + 4 + i] = T[i]
    BY <1>5 DEF Joins
  <2>2. \A i \in 1 .. k : h + 4 + i \in 1 .. h + 4 + k
    BY <1>4, <1>6
  <2>3. QED
    BY <1>9, <2>1, <2>2
<1>14. \A i \in 1 .. 2 : m[h + 4 + k + i] = EndMark[i]
  BY <1>7 DEF Joins
<1>15. Built(m, H, T, h, k)
  BY <1>4, <1>6, <1>8, <1>11, <1>12, <1>13, <1>14 DEF Built
<1>16. QED
  BY <1>1, <1>15 DEF H, h, k

\* The header ends at the first separator, if there is none in it.
LEMMA BuiltFirst ==
    ASSUME NEW m, NEW H \in Seq(Symbol), NEW T, NEW h, NEW k, Built(m, H, T, h, k), Len(H) = h,
           \A i \in 1 .. h : H[i] # KVSEP
    PROVE  First(m) = h + 1 /\ First(m) <= Len(m) /\ Gs2(m) = H
<1>1. m \in Seq(Symbol) /\ h \in Nat /\ k \in Nat /\ Len(m) = h + 4 + k + 2
  BY DEF Built
<1>2. First(m) = h + 1
  <2>1. h + 1 \in 1 .. Len(m) /\ h + 1 - 1 = h /\ 1 \in 1 .. 4
    BY <1>1
  <2>2. m[h + 1] = KVSEP
    <3>1. m[h + 1] = TokenMark[1]
      BY <2>1 DEF Built
    <3>2. TokenMark[1] = KVSEP
      BY DEF TokenMark
    <3>3. QED
      BY <3>1, <3>2
  <2>3. \A i \in 1 .. h : m[i] # KVSEP
    BY DEF Built
  <2>4. \A i \in 1 .. h + 1 - 1 : m[i] # KVSEP
    BY <2>1, <2>3
  <2> DEFINE p == h + 1
  <2> HIDE DEF p
  <2>5. FirstIn(m, KVSEP) = p
    BY <1>1, <2>1, <2>2, <2>4, FirstInIs DEF p
  <2>6. QED
    BY <2>5 DEF First, p
<1>3. First(m) <= Len(m) /\ First(m) - 1 = h
  BY <1>1, <1>2
<1>4. SubSeq(m, 0 + 1, 0 + Len(H)) = H
  <2>1. 0 \in Nat /\ 0 + Len(H) <= Len(m)
    BY <1>1
  <2>2. \A i \in 1 .. Len(H) : m[0 + i] = H[i]
    <3>1. \A i \in 1 .. h : 0 + i = i
      BY <1>1
    <3>2. QED
      BY <3>1 DEF Built
  <2>3. QED
    BY <1>1, <2>1, <2>2, Within
<1>5. 0 + 1 = 1 /\ 0 + Len(H) = h
  BY <1>1
<1>6. QED
  BY <1>2, <1>3, <1>4, <1>5 DEF Gs2

\* Two separators at the end are seen.
LEMMA EndsSeen ==
    ASSUME NEW m \in Seq(Symbol), NEW L \in Nat, Len(m) = L, L >= 2, m[L - 1] = KVSEP, m[L] = KVSEP
    PROVE  IsSuffix(EndMark, m)
<1> DEFINE r == Reverse(m)
           e == Reverse(EndMark)
<1>1. e \in Seq(Symbol) /\ Len(e) = 2 /\ e[1] = KVSEP /\ e[2] = KVSEP
  <2>1. Len(EndMark) = 2 /\ EndMark[1] = KVSEP /\ EndMark[2] = KVSEP
    BY DEF EndMark
  <2>2. e = [i \in 1 .. 2 |-> EndMark[(2 - i) + 1]]
    BY <2>1 DEF Reverse
  <2>3. \A i \in 1 .. 2 : e[i] = KVSEP
    <3>1. \A i \in 1 .. 2 : (2 - i) + 1 = 1 \/ (2 - i) + 1 = 2
      OBVIOUS
    <3>2. QED
      BY <2>1, <2>2, <3>1
  <2>4. KVSEP \in Symbol
    BY DEF Symbol
  <2>5. e = [i \in 1 .. 2 |-> KVSEP]
    BY <2>2, <2>3
  <2>6. 1 \in 1 .. 2 /\ 2 \in 1 .. 2 /\ 2 \in Nat
    OBVIOUS
  <2>7. QED
    BY <2>3, <2>4, <2>5, <2>6
<1>2. r \in Seq(Symbol) /\ Len(r) = L /\ r[1] = m[L] /\ r[2] = m[L - 1]
  <2>1. \A i \in 1 .. L : (L - i) + 1 \in 1 .. L
    OBVIOUS
  <2>2. \A i \in 1 .. L : m[(L - i) + 1] \in Symbol
    BY <2>1, ElementOfSeq
  <2>3. r = [i \in 1 .. L |-> m[(L - i) + 1]]
    BY DEF Reverse
  <2>4. r \in Seq(Symbol) /\ Len(r) = L
    BY <2>2, <2>3
  <2>5. 1 \in 1 .. L /\ 2 \in 1 .. L /\ (L - 1) + 1 = L /\ (L - 2) + 1 = L - 1
    OBVIOUS
  <2>6. QED
    BY <2>3, <2>4, <2>5
<1> HIDE DEF r, e
<1>3. SubSeq(r, 0 + 1, 0 + Len(e)) = e
  <2>1. 0 \in Nat /\ 0 + Len(e) <= Len(r)
    BY <1>1, <1>2
  <2>2. \A i \in 1 .. Len(e) : r[0 + i] = e[i]
    <3>1. \A i \in 1 .. 2 : (i = 1 \/ i = 2) /\ 0 + i = i
      OBVIOUS
    <3>2. QED
      BY <1>1, <1>2, <3>1
  <2>3. QED
    BY <1>1, <1>2, <2>1, <2>2, Within
<1>4. SubSeq(e, 1, Len(e)) = e
  BY <1>1, SubSeqFull
<1>5. 0 + 1 = 1 /\ 0 + Len(e) = Len(e) /\ Len(e) <= Len(r)
  BY <1>1, <1>2
<1>6. SubSeq(r, 1, Len(e)) = e
  BY <1>3, <1>5
<1>7. IsPrefix(e, r)
  BY <1>4, <1>5, <1>6 DEF IsPrefix
<1>8. QED
  BY <1>7 DEF IsSuffix, e, r

\* Its message ends as parse_client_response wants it.
LEMMA BuiltEnds ==
    ASSUME NEW m, NEW H, NEW T, NEW h, NEW k, Built(m, H, T, h, k)
    PROVE  IsSuffix(EndMark, m)
<1>1. m \in Seq(Symbol) /\ h \in Nat /\ k \in Nat /\ Len(m) = h + 4 + k + 2
  BY DEF Built
<1> DEFINE L == h + 4 + k + 2
<1>2. L \in Nat /\ L >= 2 /\ L - 1 = h + 4 + k + 1 /\ 1 \in 1 .. 2 /\ 2 \in 1 .. 2
  BY <1>1
<1>3. m[h + 4 + k + 1] = KVSEP /\ m[h + 4 + k + 2] = KVSEP
  <2>1. m[h + 4 + k + 1] = EndMark[1] /\ m[h + 4 + k + 2] = EndMark[2]
    BY <1>2 DEF Built
  <2>2. EndMark[1] = KVSEP /\ EndMark[2] = KVSEP
    BY DEF EndMark
  <2>3. QED
    BY <2>1, <2>2
<1>4. m[L - 1] = KVSEP /\ m[L] = KVSEP /\ Len(m) = L
  BY <1>1, <1>2, <1>3
<1> HIDE DEF L
<1>5. QED
  BY <1>1, <1>2, <1>4, EndsSeen

\* The only part is the one with the token.
Part(T) == AuthMark \o T

\* It is the mark and the token.
LEMMA PartIs ==
    ASSUME NEW T \in Seq(Symbol), NEW k \in Nat, Len(T) = k
    PROVE  /\ Part(T) \in Seq(Symbol) /\ Len(Part(T)) = k + 3
           /\ Part(T)[1] = "auth" /\ Part(T)[2] = "=" /\ Part(T)[3] = "Bearer "
           /\ \A i \in 1 .. k : Part(T)[3 + i] = T[i]
<1> DEFINE t == Part(T)
<1>1. Joins(Symbol, t, AuthMark, T, 3, k)
  BY PartsAre, Concat DEF Part
<1> HIDE DEF t
<1>2. t \in Seq(Symbol) /\ Len(t) = k + 3
  BY <1>1 DEF Joins
<1>3. \A i \in 1 .. 3 : t[i] = AuthMark[i]
  BY <1>1 DEF Joins
<1>4. \A i \in 1 .. k : t[3 + i] = T[i]
  BY <1>1 DEF Joins
<1>5. t[1] = "auth" /\ t[2] = "=" /\ t[3] = "Bearer "
  <2>1. 1 \in 1 .. 3 /\ 2 \in 1 .. 3 /\ 3 \in 1 .. 3
    OBVIOUS
  <2>2. AuthMark[1] = "auth" /\ AuthMark[2] = "=" /\ AuthMark[3] = "Bearer "
    BY DEF AuthMark
  <2>3. QED
    BY <1>3, <2>1, <2>2
<1>6. QED
  BY <1>2, <1>4, <1>5 DEF t

\* Split at the separators, the message has that part alone after the header.
LEMMA BuiltFields ==
    ASSUME NEW m, NEW H \in Seq(Symbol), NEW T \in Seq(Symbol), NEW h, NEW k, Built(m, H, T, h, k),
           Len(H) = h, Len(T) = k,
           \A i \in 1 .. h : H[i] # KVSEP, \A i \in 1 .. k : T[i] # KVSEP
    PROVE  Fields(m) = <<Part(T)>>
<1>1. m \in Seq(Symbol) /\ h \in Nat /\ k \in Nat /\ Len(m) = h + 4 + k + 2
  BY DEF Built
<1> DEFINE t == Part(T)
           s == t \o SepMark
<1>2. t \in Seq(Symbol) /\ Len(t) = k + 3
  BY <1>1, PartIs
<1>3. \A i \in 1 .. 3 : m[h + 1 + i] = t[i]
  <2>1. \A i \in 1 .. 3 : m[h + 1 + i] = TokenMark[i + 1]
    <3>1. \A i \in 1 .. 3 : i + 1 \in 1 .. 4 /\ h + (i + 1) = h + 1 + i
      BY <1>1
    <3>2. \A j \in 1 .. 4 : m[h + j] = TokenMark[j]
      BY DEF Built
    <3>3. QED
      BY <3>1, <3>2
  <2>2. TokenMark[2] = t[1] /\ TokenMark[3] = t[2] /\ TokenMark[4] = t[3]
    <3>1. TokenMark[2] = "auth" /\ TokenMark[3] = "=" /\ TokenMark[4] = "Bearer "
      BY DEF TokenMark
    <3>2. QED
      BY <1>1, <3>1, PartIs
  <2>3. \A i \in 1 .. 3 : (i = 1 /\ i + 1 = 2) \/ (i = 2 /\ i + 1 = 3) \/ (i = 3 /\ i + 1 = 4)
    OBVIOUS
  <2>4. QED
    BY <2>1, <2>2, <2>3
<1>4. \A i \in 1 .. k : t[3 + i] = T[i] /\ m[h + 1 + (3 + i)] = T[i]
  <2>1. \A i \in 1 .. k : h + 1 + (3 + i) = h + 4 + i
    BY <1>1
  <2>2. \A i \in 1 .. k : m[h + 4 + i] = T[i]
    BY DEF Built
  <2>3. \A i \in 1 .. k : t[3 + i] = T[i]
    BY <1>1, PartIs
  <2> HIDE DEF t
  <2>4. \A i \in 1 .. k : m[h + 1 + (3 + i)] = T[i]
    BY <2>1, <2>2
  <2>5. QED
    BY <2>3, <2>4
<1>5. \A i \in 1 .. k + 3 : t[i] # KVSEP /\ m[h + 1 + i] = t[i]
  <2> TAKE i \in 1 .. k + 3
  <2>1. CASE i \in 1 .. 3
    <3>1. i = 1 \/ i = 2 \/ i = 3
      BY <2>1
    <3>2. "auth" # KVSEP /\ "=" # KVSEP /\ "Bearer " # KVSEP
      BY DEF KVSEP
    <3>3. t[1] # KVSEP /\ t[2] # KVSEP /\ t[3] # KVSEP
      BY <1>1, <3>2, PartIs
    <3>4. QED
      BY <1>3, <2>1, <3>1, <3>3
  <2>2. CASE i \notin 1 .. 3
    <3>1. PICK j \in 1 .. k : i = 3 + j
      <4>1. i - 3 \in 1 .. k /\ i = 3 + (i - 3)
        BY <1>1, <2>2
      <4>2. QED
        BY <4>1
    <3>2. T[j] # KVSEP
      OBVIOUS
    <3>3. QED
      BY <1>4, <3>1, <3>2
  <2>3. QED
    BY <2>1, <2>2
<1> HIDE DEF t
<1>6. Joins(Symbol, s, t, SepMark, k + 3, 1)
  BY <1>2, PartsAre, Concat
<1> HIDE DEF s
<1>7. s \in Seq(Symbol) /\ Len(s) = k + 4
  BY <1>1, <1>6 DEF Joins
<1>8. \A i \in 1 .. k + 4 : m[h + 1 + i] = s[i]
  <2> TAKE i \in 1 .. k + 4
  <2>1. CASE i \in 1 .. k + 3
    <3>1. s[i] = t[i]
      BY <2>1, <1>6 DEF Joins
    <3>2. QED
      BY <1>5, <2>1, <3>1
  <2>2. CASE i \notin 1 .. k + 3
    <3>1. i = k + 3 + 1 /\ h + 1 + i = h + 4 + k + 1 /\ 1 \in 1 .. 1 /\ 1 \in 1 .. 2
      BY <1>1, <2>2
    <3>2. s[i] = SepMark[1]
      BY <1>6, <3>1 DEF Joins
    <3>3. m[h + 1 + i] = EndMark[1]
      BY <3>1 DEF Built
    <3>4. SepMark[1] = KVSEP /\ EndMark[1] = KVSEP
      BY DEF SepMark, EndMark
    <3>5. QED
      BY <3>2, <3>3, <3>4
  <2>3. QED
    BY <2>1, <2>2
<1>9. SubSeq(m, h + 1 + 1, h + 1 + Len(s)) = s
  <2>1. h + 1 \in Nat /\ h + 1 + Len(s) <= Len(m)
    BY <1>1, <1>7
  <2> DEFINE a == h + 1
  <2>2. \A i \in 1 .. Len(s) : m[a + i] = s[i]
    BY <1>7, <1>8
  <2> HIDE DEF a
  <2>3. a \in Nat /\ a + Len(s) <= Len(m)
    BY <2>1 DEF a
  <2>4. SubSeq(m, a + 1, a + Len(s)) = s
    BY <1>1, <1>7, <2>2, <2>3, Within
  <2>5. QED
    BY <2>4 DEF a
<1>10. First(m) + 1 = h + 1 + 1 /\ Len(m) - 1 = h + 1 + Len(s)
  <2>1. First(m) = h + 1
    BY BuiltFirst
  <2>2. QED
    BY <1>1, <1>7, <2>1
<1>11. SubSeq(m, First(m) + 1, Len(m) - 1) = s
  BY <1>9, <1>10
<1>12. Split(s, {KVSEP}) = <<t>>
  <2>1. KVSEP \in Symbol /\ s = t \o <<KVSEP>>
    BY DEF Symbol, s, SepMark
  <2>2. t # <<>>
    BY <1>1, <1>2
  <2>3. \A i \in 1 .. Len(t) : t[i] # KVSEP
    BY <1>2, <1>5
  <2> DEFINE kv == KVSEP
  <2> HIDE DEF kv
  <2>4. QED
    BY <1>2, <2>1, <2>2, <2>3, SplitOne
<1>13. QED
  BY <1>11, <1>12 DEF Fields, t

\* The part is taken for the token's, and the token is what follows the scheme.
LEMMA PartRead ==
    ASSUME NEW T \in Seq(Symbol), NEW fields, fields = <<Part(T)>>
    PROVE  /\ \A i \in DOMAIN fields : "=" \in ToSet(fields[i])
           /\ Auths(fields) = {1}
           /\ AuthOf(fields) = SchemeMark \o T
<1> DEFINE t == Part(T)
           k == Len(T)
<1>1. k \in Nat
  OBVIOUS
<1>2. /\ t \in Seq(Symbol) /\ Len(t) = k + 3
      /\ t[1] = "auth" /\ t[2] = "=" /\ t[3] = "Bearer "
      /\ \A i \in 1 .. k : t[3 + i] = T[i]
  BY <1>1, PartIs
<1>3. DOMAIN fields = {1} /\ fields[1] = t
  <2>1. 1 .. 1 = {1}
    OBVIOUS
  <2> HIDE DEF t
  <2>2. DOMAIN <<t>> = 1 .. 1 /\ <<t>>[1] = t
    OBVIOUS
  <2>3. QED
    BY <2>1, <2>2 DEF t
<1>0. t \in Seq(Symbol) /\ Len(t) = k + 3
  BY <1>2
<1> HIDE DEF t, k
<1>4. "=" \in ToSet(t)
  <2>1. 2 \in DOMAIN t
    BY <1>0, <1>1
  <2>2. QED
    BY <1>2, <2>1 DEF ToSet
<1>5. FirstIn(t, "=") = 2
  <2>1. 2 \in 1 .. Len(t) /\ \A i \in 1 .. 2 - 1 : i = 1
    BY <1>0, <1>1
  <2>2. \A i \in 1 .. 2 - 1 : t[i] # "="
    BY <1>2, <2>1
  <2>3. t \in Seq(Symbol) /\ t[2] = "="
    BY <1>2
  <2> DEFINE eq == "="
  <2> HIDE DEF eq
  <2>4. FirstIn(t, eq) = 2
    BY <2>1, <2>2, <2>3, FirstInIs DEF eq
  <2>5. QED
    BY <2>4 DEF eq
<1>6. Auths(fields) = {1}
  BY <1>2, <1>3, <1>5 DEF Auths
<1>7. Max({1}) = 1
  <2>1. 1 \in Nat /\ {1} \subseteq 1 .. 1 /\ {1} # {}
    OBVIOUS
  <2>2. Max({1}) \in {1}
    BY <2>1, GreatestExists
  <2>3. QED
    BY <2>2
<1>8. AuthOf(fields) = From3(t)
  BY <1>3, <1>6, <1>7 DEF AuthOf
<1> DEFINE u == SchemeMark \o T
<1>9. Joins(Symbol, u, SchemeMark, T, 1, k)
  BY PartsAre, Concat DEF k
<1> HIDE DEF u
<1>10. u \in Seq(Symbol) /\ Len(u) = k + 1
  BY <1>1, <1>9 DEF Joins
<1>11. SubSeq(t, 2 + 1, 2 + Len(u)) = u
  <2>1. 2 \in Nat /\ 2 + Len(u) <= Len(t)
    BY <1>0, <1>1, <1>10
  <2>2. \A i \in 1 .. k + 1 : t[2 + i] = u[i]
    <3> TAKE i \in 1 .. k + 1
    <3>1. CASE i = 1
      <4>1. 1 \in 1 .. 1 /\ 2 + 1 = 3
        OBVIOUS
      <4>2. u[1] = SchemeMark[1]
        BY <1>9, <4>1 DEF Joins
      <4>3. SchemeMark[1] = "Bearer "
        BY DEF SchemeMark
      <4>4. QED
        BY <1>2, <3>1, <4>1, <4>2, <4>3
    <3>2. CASE i # 1
      <4>1. PICK j \in 1 .. k : i = 1 + j /\ 2 + i = 3 + j
        <5>1. i - 1 \in 1 .. k /\ i = 1 + (i - 1) /\ 2 + i = 3 + (i - 1)
          BY <1>1, <3>2
        <5>2. QED
          BY <5>1
      <4>2. u[1 + j] = T[j]
        BY <1>9 DEF Joins
      <4>3. t[3 + j] = T[j]
        BY <1>2
      <4>4. QED
        BY <4>1, <4>2, <4>3
    <3>3. QED
      BY <3>1, <3>2
  <2>3. QED
    BY <1>2, <1>10, <2>1, <2>2, Within
<1>12. 2 + 1 = 3 /\ 2 + Len(u) = Len(t)
  BY <1>0, <1>1, <1>10
<1>13. From3(t) = u
  BY <1>11, <1>12 DEF From3
<1>14. QED
  BY <1>3, <1>4, <1>6, <1>8, <1>13 DEF u

\* The scheme and the token.
LEMMA SchemeIs ==
    ASSUME NEW T \in Seq(Symbol)
    PROVE  /\ Len(SchemeMark \o T) = Len(T) + 1
           /\ (SchemeMark \o T)[1] \in Bearers
           /\ Tail(SchemeMark \o T) = T
           /\ IsUtf8(T) => IsUtf8(SchemeMark \o T)
<1> DEFINE u == SchemeMark \o T
           k == Len(T)
<1>1. k \in Nat
  OBVIOUS
<1>2. Joins(Symbol, u, SchemeMark, T, 1, k)
  BY PartsAre, Concat
<1> HIDE DEF u
<1>3. u \in Seq(Symbol) /\ Len(u) = k + 1
  BY <1>1, <1>2 DEF Joins
<1>4. u[1] = "Bearer "
  <2>1. 1 \in 1 .. 1 /\ SchemeMark[1] = "Bearer "
    BY DEF SchemeMark
  <2>2. QED
    BY <1>2, <2>1 DEF Joins
<1>5. u[1] \in Bearers
  BY <1>4 DEF Bearers
<1>6. Tail(u) = T
  <2> DEFINE v == Tail(u)
  <2>1. u # <<>>
    BY <1>1, <1>3
  <2>2. v \in Seq(Symbol) /\ Len(v) = Len(u) - 1 /\ \A i \in 1 .. Len(v) : v[i] = u[i + 1]
    BY <1>3, <2>1, HeadTailProperties
  <2> HIDE DEF v
  <2>3. Len(v) = k
    BY <1>1, <1>3, <2>2
  <2>4. \A i \in 1 .. k : v[i] = T[i]
    <3>1. \A i \in 1 .. k : u[1 + i] = T[i]
      BY <1>2 DEF Joins
    <3>2. \A i \in 1 .. k : 1 + i = i + 1
      BY <1>1
    <3>3. QED
      BY <2>2, <2>3, <3>1, <3>2
  <2>5. v = T
    BY <2>2, <2>3, <2>4, SeqEqual
  <2>6. QED
    BY <2>5 DEF v
<1>7. ASSUME IsUtf8(T) PROVE IsUtf8(u)
  <2>1. \A i \in 1 .. k : T[i] # NotUtf8
    BY <1>7 DEF IsUtf8, ToSet
  <2>2. "Bearer " # NotUtf8
    BY DEF NotUtf8
  <2>3. \A i \in 1 .. k + 1 : u[i] # NotUtf8
    <3> TAKE i \in 1 .. k + 1
    <3>1. CASE i = 1
      BY <1>4, <2>2, <3>1
    <3>2. CASE i # 1
      <4>1. PICK j \in 1 .. k : i = 1 + j
        <5>1. i - 1 \in 1 .. k /\ i = 1 + (i - 1)
          BY <1>1, <3>2
        <5>2. QED
          BY <5>1
      <4>2. u[1 + j] = T[j]
        BY <1>2 DEF Joins
      <4>3. QED
        BY <2>1, <4>1, <4>2
    <3>3. QED
      BY <3>1, <3>2
  <2>4. DOMAIN u = 1 .. k + 1
    BY <1>1, <1>3
  <2>5. QED
    BY <2>3, <2>4 DEF IsUtf8, ToSet
<1>8. QED
  BY <1>3, <1>5, <1>6, <1>7 DEF u

Unseparated(T) == \A i \in 1 .. Len(T) : T[i] # KVSEP

\* What the parser sees of a message of this client whose header has no separator.
LEMMA BuiltRead ==
    ASSUME NEW A \in Seq(Symbol), NEW T \in Seq(Symbol), IsUtf8(A),
           \A i \in 1 .. Len(Header(A)) : Header(A)[i] # KVSEP
    PROVE  LET m == build_client_response(A, T)
           IN  /\ First(m) <= Len(m)
               /\ authzid_of(Gs2(m)) = Ok(IF Nameless(A) THEN NoAuthzid ELSE A)
               /\ IsSuffix(EndMark, m)
               /\ Unseparated(T) => Fields(m) = <<Part(T)>>
<1> DEFINE m == build_client_response(A, T)
           H == Header(A)
           h == Len(H)
           k == Len(T)
<1>1. H \in Seq(Symbol) /\ Built(m, H, T, h, k)
  BY HeaderIs, BuildHas
<1>2. authzid_of(H) = Ok(IF Nameless(A) THEN NoAuthzid ELSE A)
  BY HeaderRead
<1>3. \A i \in 1 .. h : H[i] # KVSEP
  OBVIOUS
<1> HIDE DEF m, H, h
<1>4. First(m) <= Len(m) /\ Gs2(m) = H
  BY <1>1, <1>3, BuiltFirst DEF h
<1>5. IsSuffix(EndMark, m)
  BY <1>1, BuiltEnds
<1>6. ASSUME Unseparated(T) PROVE Fields(m) = <<Part(T)>>
  <2>1. \A i \in 1 .. k : T[i] # KVSEP
    BY <1>6 DEF Unseparated
  <2>2. QED
    BY <1>1, <1>3, <2>1, BuiltFields DEF h
<1>7. QED
  BY <1>2, <1>4, <1>5, <1>6 DEF m

\* What of such a message is read, if it has a token.
LEMMA RoundTrip ==
    ASSUME NEW A \in Seq(Symbol), NEW T \in Seq(Symbol), IsUtf8(A),
           \A i \in 1 .. Len(Header(A)) : Header(A)[i] # KVSEP,
           Unseparated(T)
    PROVE  LET r == parse_client_response(build_client_response(A, T))
           IN  /\ T # <<>> /\ IsUtf8(T) =>
                      r = Ok([authzid |-> IF Nameless(A) THEN NoAuthzid ELSE A, token |-> T])
               /\ r # Err => r = Ok([authzid |-> IF Nameless(A) THEN NoAuthzid ELSE A, token |-> T])
<1> DEFINE m == build_client_response(A, T)
           B == IF Nameless(A) THEN NoAuthzid ELSE A
           r == parse_client_response(m)
<1>1. /\ First(m) <= Len(m) /\ authzid_of(Gs2(m)) = Ok(B) /\ IsSuffix(EndMark, m)
      /\ Fields(m) = <<Part(T)>>
  BY BuiltRead
<1>2. r = IF Refused(m) THEN Err
          ELSE Ok([authzid |-> authzid_of(Gs2(m)).value, token |-> Tail(AuthOf(Fields(m)))])
  BY ParseIs
<1> HIDE DEF m, B, r
<1> DEFINE fields == Fields(m)
<1>3. /\ \A i \in DOMAIN fields : "=" \in ToSet(fields[i])
      /\ Auths(fields) = {1}
      /\ AuthOf(fields) = SchemeMark \o T
  BY <1>1, PartRead
<1>4. /\ Len(AuthOf(fields)) = Len(T) + 1
      /\ AuthOf(fields)[1] \in Bearers
      /\ Tail(AuthOf(fields)) = T
      /\ IsUtf8(T) => IsUtf8(AuthOf(fields))
  BY <1>3, SchemeIs
<1>5. authzid_of(Gs2(m)).ok /\ authzid_of(Gs2(m)).value = B
  BY <1>1 DEF Ok
<1>6. ~(First(m) > Len(m))
  <2>1. m \in Seq(Symbol)
    BY BuildHas DEF Built, m
  <2>2. First(m) \in Int /\ Len(m) \in Int
    BY <2>1, FirstInHas DEF First
  <2>3. QED
    BY <1>1, <2>2
<1>7. ASSUME T # <<>>, IsUtf8(T) PROVE ~Refused(m)
  <2>1. ~(Len(AuthOf(fields)) < 2)
    <3>1. Len(T) \in Nat /\ Len(T) # 0
      BY <1>7
    <3>2. QED
      BY <1>4, <3>1
  <2>2. Auths(fields) # {}
    BY <1>3
  <2>3. IsUtf8(AuthOf(fields))
    BY <1>4, <1>7
  <2> HIDE DEF fields
  <2>4. QED
    BY <1>1, <1>3, <1>4, <1>5, <1>6, <2>1, <2>2, <2>3 DEF Refused, EndMark, fields
<1>8. ASSUME ~Refused(m) PROVE r = Ok([authzid |-> B, token |-> T])
  BY <1>2, <1>4, <1>5, <1>8
<1>9. r # Err => ~Refused(m)
  BY <1>2
<1>10. QED
  BY <1>7, <1>8, <1>9 DEF r, m, B

\* Symbols that neither separate nor break the encoding.
Clean == Symbol \ {KVSEP, NotUtf8}

\* They are the sequences that are UTF-8 and hold no separator.
LEMMA CleanIs ==
    ASSUME NEW s
    PROVE  s \in Seq(Clean) <=> s \in Seq(Symbol) /\ IsUtf8(s) /\ Unseparated(s)
<1>1. Clean \subseteq Symbol
  BY DEF Clean
<1>2. ASSUME s \in Seq(Clean) PROVE s \in Seq(Symbol) /\ IsUtf8(s) /\ Unseparated(s)
  <2>1. s \in Seq(Symbol)
    BY <1>1, <1>2, SeqMonotonic
  <2>2. \A i \in 1 .. Len(s) : s[i] \in Clean
    BY <1>2, ElementOfSeq
  <2>3. DOMAIN s = 1 .. Len(s)
    BY <2>1
  <2>4. QED
    BY <2>1, <2>2, <2>3 DEF IsUtf8, Unseparated, ToSet, Clean
<1>3. ASSUME s \in Seq(Symbol), IsUtf8(s), Unseparated(s) PROVE s \in Seq(Clean)
  <2>1. DOMAIN s = 1 .. Len(s) /\ Len(s) \in Nat /\ s = [i \in 1 .. Len(s) |-> s[i]]
    BY <1>3
  <2>2. \A i \in 1 .. Len(s) : s[i] \in Symbol
    BY <1>3, ElementOfSeq
  <2>3. \A i \in 1 .. Len(s) : s[i] # NotUtf8 /\ s[i] # KVSEP
    BY <1>3, <2>1 DEF IsUtf8, Unseparated, ToSet
  <2>4. \A i \in 1 .. Len(s) : s[i] \in Clean
    BY <2>2, <2>3 DEF Clean
  <2> HIDE DEF Clean
  <2>5. QED
    BY <2>1, <2>4
<1>4. QED
  BY <1>2, <1>3

\* The name that stands for none is one of them.
LEMMA NoAuthzidIsClean == NoAuthzid \in Seq(Clean)
<1>1. "(none)" \in Clean
  BY DEF Clean, Symbol, KVSEP, NotUtf8
<1>2. QED
  BY <1>1, Tuple1 DEF NoAuthzid

\* The name that is read has only symbols that can be sent.
LEMMA NameRead ==
    ASSUME NEW gs2 \in Seq(Symbol), \A i \in 1 .. Len(gs2) : gs2[i] # KVSEP, authzid_of(gs2).ok
    PROVE  authzid_of(gs2).value \in Seq(Clean)
<1>1. CASE gs2 = NamelessHeader
  <2>1. authzid_of(gs2) = Ok(NoAuthzid)
    BY <1>1 DEF authzid_of, NamelessHeader
  <2>2. authzid_of(gs2).value = NoAuthzid
    BY <2>1 DEF Ok
  <2>3. QED
    BY <2>2, NoAuthzidIsClean
<1>2. CASE gs2 # NamelessHeader
  <2> DEFINE e == SubSeq(gs2, 5, Len(gs2) - 1)
  <2>1. IsUtf8(e) /\ authzid_of(gs2) = decode_saslname(e)
    BY <1>2 DEF authzid_of, NamelessHeader, Err
  <2>2. e \in Seq(Symbol) /\ Unseparated(e)
    <3>1. PICK z \in Int : z = Len(gs2) - 1
      OBVIOUS
    <3>2. Len(gs2) \in Nat /\ 5 \in Int /\ \A i \in 5 .. z : i \in 1 .. Len(gs2)
      BY <3>1
    <3>3. \A i \in 5 .. z : gs2[i] \in Symbol
      BY <3>2, ElementOfSeq
    <3> DEFINE u == SubSeq(gs2, 5, z)
    <3>4. /\ u \in Seq(Symbol) /\ Len(u) = IF 5 <= z THEN z - 5 + 1 ELSE 0
          /\ \A i \in 1 .. z - 5 + 1 : u[i] = gs2[5 + i - 1]
      BY <3>2, <3>3, SubSeqProperties
    <3> HIDE DEF u
    <3>5. \A i \in 1 .. Len(u) : u[i] # KVSEP
      <4> TAKE i \in 1 .. Len(u)
      <4>1. i \in 1 .. z - 5 + 1
        BY <3>4
      <4>2. PICK j \in 1 .. Len(gs2) : j = 5 + i - 1
        BY <3>1, <3>2, <4>1
      <4>3. QED
        BY <3>4, <4>1, <4>2
    <3>6. QED
      BY <3>1, <3>4, <3>5 DEF u, Unseparated
  <2> HIDE DEF e
  <2>3. e \in Seq(Clean)
    BY <2>1, <2>2, CleanIs
  <2>4. Signed(Clean)
    BY DEF Signed, Clean, Symbol, KVSEP, NotUtf8
  <2>5. decode_saslname(e) \in NameOf(Clean)
    <3>1. PICK f \in [1 .. Len(e) + 2 -> NameOf(Clean)] : decode_saslname(e) = f[1]
      BY <2>3, <2>4, DecodeIs
    <3>2. 1 \in 1 .. Len(e) + 2
      BY <2>3
    <3>3. QED
      BY <3>1, <3>2
  <2>6. decode_saslname(e) # Err
    BY <2>1 DEF Err
  <2>7. PICK v \in Seq(Clean) : decode_saslname(e) = Ok(v)
    BY <2>5, <2>6 DEF NameOf
  <2>8. QED
    BY <2>1, <2>7 DEF Ok
<1>3. QED
  BY <1>1, <1>2

\* The rest of a part is of its symbols.
LEMMA From3Is ==
    ASSUME NEW W, NEW s \in Seq(W)
    PROVE  From3(s) \in Seq(W)
<1>1. Len(s) \in Int /\ 3 \in Int /\ \A i \in 3 .. Len(s) : i \in 1 .. Len(s)
  OBVIOUS
<1>2. \A i \in 3 .. Len(s) : s[i] \in W
  BY <1>1, ElementOfSeq
<1>3. QED
  BY <1>1, <1>2, SubSeqProperties DEF From3

\* The part that is taken for the token's has no separator.
LEMMA AuthIs ==
    ASSUME NEW m \in Seq(Symbol), Auths(Fields(m)) # {}
    PROVE  AuthOf(Fields(m)) \in Seq(Symbol) /\ Unseparated(AuthOf(Fields(m)))
<1> DEFINE p == First(m)
           z == Len(m) - 1
           s == SubSeq(m, p + 1, z)
           fields == Fields(m)
           W == Symbol \ {KVSEP}
<1>1. p \in Nat /\ Len(m) \in Nat
  BY FirstInHas DEF First
<1> HIDE DEF p
<1>2. s \in Seq(Symbol)
  <2>1. PICK x \in Int, y \in Int : x = p + 1 /\ y = z
    BY <1>1
  <2>2. \A i \in x .. y : i \in 1 .. Len(m)
    BY <1>1, <2>1
  <2>3. \A i \in x .. y : m[i] \in Symbol
    BY <2>2, ElementOfSeq
  <2>4. SubSeq(m, x, y) \in Seq(Symbol)
    BY <2>3, SubSeqProperties
  <2>5. QED
    BY <2>1, <2>4
<1>3. fields = Split(s, {KVSEP})
  BY DEF Fields, p
<1> HIDE DEF s, fields
<1>4. fields \in Seq(Seq(W))
  BY <1>2, <1>3, SplitIs
<1> HIDE DEF W
<1>5. Auths(fields) \subseteq 1 .. Len(fields) /\ Len(fields) \in Nat
  BY <1>4 DEF Auths
<1> DEFINE top == Max(Auths(fields))
<1>6. top \in Auths(fields)
  BY <1>5, GreatestExists DEF fields
<1>7. top \in 1 .. Len(fields)
  BY <1>5, <1>6
<1> HIDE DEF top
<1>8. fields[top] \in Seq(W)
  BY <1>4, <1>7, ElementOfSeq
<1>9. AuthOf(fields) = From3(fields[top])
  BY DEF AuthOf, top
<1> DEFINE auth == AuthOf(fields)
<1>10. auth \in Seq(W)
  BY <1>8, <1>9, From3Is
<1> HIDE DEF auth
<1>11. auth \in Seq(Symbol)
  <2>1. W \subseteq Symbol
    BY DEF W
  <2>2. QED
    BY <1>10, <2>1, SeqMonotonic
<1>12. \A i \in 1 .. Len(auth) : auth[i] # KVSEP
  <2>1. \A i \in 1 .. Len(auth) : auth[i] \in W
    BY <1>10, ElementOfSeq
  <2>2. QED
    BY <2>1 DEF W
<1>13. QED
  BY <1>11, <1>12 DEF Unseparated, auth, fields

\* What is read can be sent.
LEMMA ReadIsClean ==
    ASSUME NEW m \in Seq(Symbol), parse_client_response(m).ok
    PROVE  /\ parse_client_response(m).value.authzid \in Seq(Clean)
           /\ parse_client_response(m).value.token \in Seq(Clean)
           /\ parse_client_response(m).value.token # <<>>
<1>1. ~Refused(m)
  BY ParseIs DEF Err
<1> DEFINE auth == AuthOf(Fields(m))
           name == authzid_of(Gs2(m))
<1>2. parse_client_response(m) = Ok([authzid |-> name.value, token |-> Tail(auth)])
  BY <1>1, ParseIs
<1>3. /\ parse_client_response(m).value.authzid = name.value
      /\ parse_client_response(m).value.token = Tail(auth)
  BY <1>2 DEF Ok
<1>4. /\ First(m) <= Len(m) \/ First(m) > Len(m)
      /\ ~(First(m) > Len(m)) /\ name.ok /\ Auths(Fields(m)) # {}
      /\ ~(Len(auth) < 2) /\ IsUtf8(auth)
  <2>1. First(m) \in Int /\ Len(m) \in Int
    BY FirstInHas DEF First
  <2>2. QED
    BY <1>1, <2>1 DEF Refused
<1>5. name.value \in Seq(Clean)
  <2>1. /\ First(m) \in 1 .. Len(m) + 1 /\ Len(m) \in Nat
        /\ \A i \in 1 .. First(m) - 1 : m[i] # KVSEP
    BY FirstInHas DEF First
  <2>2. PICK z \in Int : z = First(m) - 1 /\ z \in 0 .. Len(m)
    BY <2>1
  <2> DEFINE g == SubSeq(m, 1, z)
  <2>3. 1 \in Int /\ \A i \in 1 .. z : m[i] \in Symbol
    <3>1. \A i \in 1 .. z : i \in 1 .. Len(m)
      BY <2>1, <2>2
    <3>2. QED
      BY <3>1, ElementOfSeq
  <2>4. /\ g \in Seq(Symbol) /\ Len(g) = IF 1 <= z THEN z - 1 + 1 ELSE 0
        /\ \A i \in 1 .. z - 1 + 1 : g[i] = m[1 + i - 1]
    BY <2>3, SubSeqProperties
  <2> HIDE DEF g
  <2>5. \A i \in 1 .. Len(g) : g[i] # KVSEP
    <3> TAKE i \in 1 .. Len(g)
    <3>1. i \in 1 .. z - 1 + 1 /\ 1 + i - 1 = i /\ i \in 1 .. z
      BY <2>2, <2>4
    <3>2. QED
      BY <2>1, <2>2, <2>4, <3>1
  <2>6. Gs2(m) = g
    BY <2>2 DEF Gs2, g
  <2>7. QED
    BY <1>4, <2>4, <2>5, <2>6, NameRead
<1>6. auth \in Seq(Symbol) /\ Unseparated(auth)
  BY <1>4, AuthIs
<1>7. auth \in Seq(Clean)
  BY <1>4, <1>6, CleanIs
<1> HIDE DEF auth
<1>8. auth # <<>> /\ Len(auth) \in Nat /\ Len(auth) >= 2
  <2>1. Len(auth) \in Nat
    BY <1>7
  <2>2. Len(<<>>) = 0
    OBVIOUS
  <2>3. QED
    BY <1>4, <2>1, <2>2
<1> DEFINE T == Tail(auth)
<1>9. T \in Seq(Clean) /\ Len(T) = Len(auth) - 1
  BY <1>7, <1>8, HeadTailProperties
<1> HIDE DEF T
<1>10. T # <<>>
  <2>1. Len(T) # 0
    BY <1>8, <1>9
  <2>2. QED
    BY <2>1, EmptySeq
<1>11. QED
  BY <1>3, <1>5, <1>9, <1>10 DEF T

\* A name with a separator ends the header too early, where no comma is.
LEMMA SeparatorRefused ==
    ASSUME NEW A \in Seq(Symbol), NEW T \in Seq(Symbol),
           NEW x \in 1 .. Len(Header(A)), Header(A)[x] = KVSEP
    PROVE  parse_client_response(build_client_response(A, T)) = Err
<1> DEFINE e == encode_saslname(A)
           H == NamedMark \o e \o <<",">>
           m == build_client_response(A, T)
           k == Len(e)
           h == k + 5
<1>1. ~Nameless(A)
  <2>1. Nameless(A) => Header(A) = NamelessHeader
    BY HeaderCases
  <2>2. QED
    BY <2>1, MarksAre
<1>2. Header(A) = H
  BY <1>1, HeaderCases
<1>3. e \in Seq(Symbol)
  BY EncodeHas
<1>4. H \in Seq(Symbol) /\ Len(H) = h /\ Framed(H, e)
  BY <1>3, NamedHeader
<1>5. \A j \in 1 .. k : e[j] # ","
  <2>1. "," # "=" /\ "," # "2C" /\ "," # "3D"
    OBVIOUS
  <2>2. QED
    BY <2>1, EncodeAvoids
<1>6. Built(m, H, T, h, Len(T))
  BY <1>2, <1>4, BuildHas
<1> HIDE DEF e, H, m
<1>7. k \in Nat
  BY <1>3
<1>8. m \in Seq(Symbol) /\ Len(T) \in Nat /\ Len(m) = h + 4 + Len(T) + 2
  BY <1>6 DEF Built
<1>9. \A i \in 1 .. h : m[i] = H[i]
  BY <1>6 DEF Built
<1>10. NotFixed(KVSEP)
  BY DEF NotFixed, KVSEP
<1>11. \E j \in 1 .. k : e[j] = KVSEP
  <2>1. x \in 1 .. k + 5 /\ H[x] = KVSEP
    BY <1>2, <1>4
  <2>2. QED
    BY <1>4, <1>7, <1>10, <2>1, FramedHas
<1> DEFINE p == FirstIn(e, KVSEP)
<1>12. /\ p \in 1 .. k + 1
       /\ p <= k => e[p] = KVSEP
       /\ \A i \in 1 .. p - 1 : e[i] # KVSEP
  BY <1>3, FirstInHas
<1> HIDE DEF p, k
<1>13. p \in 1 .. k /\ e[p] = KVSEP
  <2>1. PICK j \in 1 .. k : e[j] = KVSEP
    BY <1>11
  <2>2. ~(j \in 1 .. p - 1)
    BY <1>12, <2>1
  <2>3. p <= j /\ p \in Nat /\ p <= k
    BY <1>7, <1>12, <2>2
  <2>4. QED
    BY <1>7, <1>12, <2>3
<1>14. H[1] # KVSEP /\ H[2] # KVSEP /\ H[3] # KVSEP /\ H[4] # KVSEP
  BY <1>4, <1>10 DEF Framed, NotFixed
<1>15. \A j \in 1 .. k : H[4 + j] = e[j]
  BY <1>4 DEF Framed, k
<1>16. First(m) = 4 + p
  <2> DEFINE q == 4 + p
  <2>1. q \in 1 .. Len(m) /\ q \in 1 .. h
    BY <1>7, <1>8, <1>13
  <2>2. m[q] = KVSEP
    BY <1>9, <1>13, <1>15, <2>1
  <2>3. ASSUME NEW i \in 1 .. q - 1 PROVE m[i] # KVSEP
    <3>1. i \in 1 .. h /\ (i = 1 \/ i = 2 \/ i = 3 \/ i = 4 \/ i - 4 \in 1 .. p - 1)
      BY <1>7, <1>13
    <3>2. ASSUME i - 4 \in 1 .. p - 1 PROVE H[i] # KVSEP
      <4>1. PICK j \in 1 .. p - 1 : i = 4 + j
        <5>1. i = 4 + (i - 4)
          BY <1>13
        <5>2. QED
          BY <3>2, <5>1
      <4>2. j \in 1 .. k
        BY <1>7, <1>13, <4>1
      <4>3. QED
        BY <1>12, <1>15, <4>1, <4>2
    <3>3. H[i] # KVSEP
      BY <1>14, <3>1, <3>2
    <3>4. QED
      BY <1>9, <3>1, <3>3
  <2> HIDE DEF q
  <2>4. FirstIn(m, KVSEP) = q
    BY <1>8, <2>1, <2>2, <2>3, FirstInIs
  <2>5. QED
    BY <2>4 DEF First, q
<1>17. PICK z \in Int : z = First(m) - 1 /\ z = 3 + p
  BY <1>13, <1>16
<1> DEFINE g == SubSeq(m, 1, z)
<1>18. Len(g) = z /\ \A i \in 1 .. z : g[i] = m[1 + i - 1]
  <2>1. 1 \in Int /\ \A i \in 1 .. z : i \in 1 .. Len(m)
    BY <1>7, <1>8, <1>13, <1>17
  <2>2. \A i \in 1 .. z : m[i] \in Symbol
    BY <1>8, <2>1, ElementOfSeq
  <2>3. /\ Len(g) = IF 1 <= z THEN z - 1 + 1 ELSE 0
        /\ \A i \in 1 .. z - 1 + 1 : g[i] = m[1 + i - 1]
    BY <2>1, <2>2, SubSeqProperties
  <2> HIDE DEF g
  <2>4. z - 1 + 1 = z /\ 1 <= z
    BY <1>13, <1>17
  <2>5. QED
    BY <2>3, <2>4
<1>19. Gs2(m) = g
  BY <1>17 DEF Gs2
<1> HIDE DEF g
<1>20. Last(g) # ","
  <2>1. z \in 1 .. z /\ 1 + z - 1 = z /\ z \in 1 .. h
    BY <1>7, <1>13, <1>17
  <2>2. Last(g) = H[z]
    BY <1>9, <1>18, <2>1 DEF Last
  <2>3. CASE p = 1
    <3>1. z = 4
      <4>1. z = 3 + p /\ p \in 1 .. k
        BY <1>13, <1>17
      <4>2. z = 3 + 1 /\ 3 + 1 = 4
        BY <2>3, <4>1
      <4>3. QED
        BY <4>2
    <3>2. H[4] = "="
      BY <1>4 DEF Framed
    <3>3. QED
      BY <2>2, <3>1, <3>2
  <2>4. CASE p # 1
    <3>1. PICK j \in 1 .. k : z = 4 + j
      <4>1. p - 1 \in 1 .. k /\ z = 4 + (p - 1)
        BY <1>7, <1>13, <1>17, <2>4
      <4>2. QED
        BY <4>1
    <3>2. H[z] = e[j]
      BY <1>15, <3>1
    <3>3. QED
      BY <1>5, <2>2, <3>2 DEF k
  <2>5. QED
    BY <2>3, <2>4
<1>21. g # NamelessHeader
  <2>1. Len(g) # 3
    BY <1>13, <1>17, <1>18
  <2>2. QED
    BY <2>1, MarksAre
<1>22. authzid_of(g) = Err
  BY <1>20, <1>21 DEF authzid_of, NamelessHeader
<1>23. Refused(m)
  BY <1>19, <1>22 DEF Refused, Err
<1>24. parse_client_response(m) = Err
  BY <1>23, ParseIs
<1>25. QED
  BY <1>24 DEF m

------------------------------------------------------------------------------
(* What is written and what is read.                                       *)

\* Strings are made of symbols.
LEMMA StringsAreSymbols == Seq(STRING) \subseteq Seq(Symbol)
<1>1. STRING \subseteq Symbol
  BY DEF Symbol
<1>2. QED
  BY <1>1, SeqMonotonic

\* A name written for the wire arrives as it is or its message is refused,
\* and so does a token, unless it holds the separator; without separators and
\* with a token nothing is refused (build_client_response and
\* parse_client_response).
THEOREM NameArrives ==
    ASSUME NEW A \in Seq(Symbol), NEW T \in Seq(Symbol), IsUtf8(A), IsUtf8(T)
    PROVE  LET got == parse_client_response(build_client_response(A, T))
               clean == KVSEP \notin ToSet(A) \cup ToSet(T)
           IN  /\ clean /\ T # <<>> => got.ok
               /\ got.ok => /\ got.value.authzid = IF A = <<>> THEN NoAuthzid ELSE A
                            /\ got.value.token = T \/ KVSEP \in ToSet(T)
<1> DEFINE H == Header(A)
           m == build_client_response(A, T)
           got == parse_client_response(m)
           B == IF Nameless(A) THEN NoAuthzid ELSE A
<1>1. A \in Seq(Symbol) /\ T \in Seq(Symbol) /\ IsUtf8(A) /\ IsUtf8(T)
  OBVIOUS
<1>2. KVSEP \notin ToSet(T) <=> Unseparated(T)
  <2>1. DOMAIN T = 1 .. Len(T)
    BY <1>1
  <2>2. QED
    BY <2>1 DEF ToSet, Unseparated
<1>3. B = IF A = <<>> THEN NoAuthzid ELSE A
  BY DEF Nameless
<1>4. CASE \E x \in 1 .. Len(H) : H[x] = KVSEP
  <2>1. got = Err
    BY <1>1, <1>4, SeparatorRefused
  <2>2. KVSEP \in ToSet(A)
    BY <1>1, <1>4, HeaderIs
  <2>3. ~got.ok
    BY <2>1 DEF Err
  <2>4. QED
    BY <2>2, <2>3
<1>5. CASE \A x \in 1 .. Len(H) : H[x] # KVSEP
  <2>1. Unseparated(T) =>
           /\ T # <<>> /\ IsUtf8(T) => got = Ok([authzid |-> B, token |-> T])
           /\ got # Err => got = Ok([authzid |-> B, token |-> T])
    BY <1>1, <1>5, RoundTrip
  <2>2. got.ok => got.value.authzid = B
    <3>1. First(m) <= Len(m) /\ authzid_of(Gs2(m)) = Ok(B)
      BY <1>1, <1>5, BuiltRead
    <3>2. got = IF Refused(m) THEN Err
                ELSE Ok([authzid |-> authzid_of(Gs2(m)).value, token |-> Tail(AuthOf(Fields(m)))])
      BY ParseIs
    <3>3. authzid_of(Gs2(m)).value = B
      BY <3>1 DEF Ok
    <3> HIDE DEF got, B, m
    <3>4. QED
      BY <3>2, <3>3 DEF Ok, Err
  <2> HIDE DEF got, B
  <2>3. Unseparated(T) /\ got.ok => got.value.token = T
    BY <2>1 DEF Ok, Err
  <2>4. Unseparated(T) /\ T # <<>> => got.ok
    BY <1>1, <2>1 DEF Ok
  <2>5. QED
    BY <1>2, <1>3, <2>2, <2>3, <2>4 DEF got, m
<1>6. QED
  BY <1>4, <1>5

\* What is read of any message is read of the one this client writes for it:
\* whatever parse_client_response accepts, build_client_response can say.
THEOREM ReadAgain ==
    ASSUME NEW m \in Seq(Symbol), parse_client_response(m).ok
    PROVE  LET once  == parse_client_response(m)
               again == parse_client_response(build_client_response(once.value.authzid, once.value.token))
               Authzid(r) == IF r.value.authzid = <<>> THEN NoAuthzid ELSE r.value.authzid
           IN  again.ok /\ Authzid(again) = Authzid(once) /\ again.value.token = once.value.token
<1> DEFINE A == parse_client_response(m).value.authzid
           T == parse_client_response(m).value.token
           B == IF Nameless(A) THEN NoAuthzid ELSE A
           again == parse_client_response(build_client_response(A, T))
<1>1. A \in Seq(Clean) /\ T \in Seq(Clean) /\ T # <<>>
  BY ReadIsClean
<1> HIDE DEF A, T
<1>2. /\ A \in Seq(Symbol) /\ IsUtf8(A) /\ Unseparated(A)
      /\ T \in Seq(Symbol) /\ IsUtf8(T) /\ Unseparated(T)
  BY <1>1, CleanIs
<1>3. KVSEP \notin ToSet(A)
  <2>1. DOMAIN A = 1 .. Len(A)
    BY <1>2
  <2>2. QED
    BY <1>2, <2>1 DEF Unseparated, ToSet
<1>4. again = Ok([authzid |-> B, token |-> T])
  BY <1>1, <1>2, <1>3, HeaderIs, RoundTrip
<1> HIDE DEF again, B
<1>5. again.ok /\ again.value.authzid = B /\ again.value.token = T
  BY <1>4 DEF Ok
<1>6. B # <<>> /\ B = IF A = <<>> THEN NoAuthzid ELSE A
  BY DEF B, Nameless, NoAuthzid
<1>7. QED
  BY <1>5, <1>6 DEF A, T, again

==============================================================================
