-------------------------------- MODULE MCSasl --------------------------------
(* Two users, one of them known under a nickname, which is what a token     *)
(* names; a token that is too long and an empty one.                        *)
EXTENDS Sasl

CONSTANTS alice, bob, nickname, tokenA, longToken, emptyToken

MCSubject == [t \in Tokens |-> IF t = tokenA THEN nickname ELSE bob]
MCCanon   == [n \in Names |-> IF n = nickname THEN alice ELSE n]
==============================================================================
