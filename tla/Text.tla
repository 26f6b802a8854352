--------------------------------- MODULE Text ---------------------------------
(***************************************************************************)
(* Strings are sequences of symbols: a word, a separator, a control        *)
(* character.  These are the string operations of Rust's library that the  *)
(* parsers of the repository use (external), and its Result.               *)
(***************************************************************************)
EXTENDS Integers, Sequences, SequencesExt, FiniteSets, FiniteSetsExt

Ok(v) == [ok |-> TRUE, value |-> v]
Err   == [ok |-> FALSE]

\* The numbers of a finite set in their order.
Ascending(S) ==
    [n \in 1 .. Cardinality(S) |-> CHOOSE i \in S : Cardinality({j \in S : j <= i}) = n]

\* split on any of the separators, without the pieces that are empty
Split(s, separators) ==
    LET Apart(i) == i \notin DOMAIN s \/ s[i] \in separators
        starts   == Ascending({i \in DOMAIN s : ~Apart(i) /\ Apart(i - 1)})
        End(i)   == Min({j \in i .. Len(s) : Apart(j + 1)})
    IN  [n \in DOMAIN starts |-> SubSeq(s, starts[n], End(starts[n]))]

==============================================================================
