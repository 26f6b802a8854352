--------------------------- MODULE MCVerifierCache ---------------------------
(* Small instances of VerifierCache: usable JWKS files of the same length,  *)
(* one that is empty (a torn write) and, in one run, one that is not UTF-8. *)
EXTENDS VerifierCache, TLC

CONSTANTS k1, k2, empty

MCSize == [c \in Contents |-> IF c = empty THEN 0 ELSE 1]

MCSymmetry == Permutations(Threads) \cup Permutations(Inodes)
              \cup Permutations({k1, k2})
==============================================================================
