---------------------------- MODULE MCConfigCache ----------------------------
(* A file with one policy, with another and permissions that are refused,   *)
(* or that does not parse, all of one length, so that only the time tells   *)
(* versions of an inode apart; arguments of each kind.                      *)
EXTENDS ConfigCache

CONSTANTS p1, p2exposed, cut, policy1, policy2

MCSize   == [c \in Contents |-> 1]
MCParsed == [c \in Contents |-> IF c = p1 THEN policy1
                                ELSE IF c = p2exposed THEN policy2 ELSE None]
==============================================================================
