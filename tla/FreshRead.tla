------------------------------ MODULE FreshRead ------------------------------
(***************************************************************************)
(* What a cache of a file promises its callers: every call is answered     *)
(* from a value the file had at some moment of that call, as if the caller *)
(* had read it itself.  A reader may also fail whatever the file contains; *)
(* whoever instantiates the module says so in Answers, by an answer that   *)
(* every value has.  No clock, no stamp, no lock and no cache appear here. *)
(* Config::verifier and cache::config of pam/src/cache.rs implement it     *)
(* (VerifierCache, ConfigCache), and authenticate of pam/src/lib.rs is     *)
(* built on it (PamAuthenticate).                                          *)
(***************************************************************************)
CONSTANTS
    Threads,
    Values,     \* what a reader of the file may get
    Answers,    \* what a caller may be told of each value
    None

VARIABLES
    value,      \* what a reader would get now
    at,         \* where each caller is: "idle", "running" or "done"
    seen,       \* the values of the call so far
    answer      \* what it was told, or None

vars == <<value, at, seen, answer>>

Init ==
    /\ value \in Values
    /\ at = [t \in Threads |-> "idle"]
    /\ seen = [t \in Threads |-> {}]
    /\ answer = [t \in Threads |-> None]

\* The file changes under the calls that are running.
Change ==
    /\ value' \in Values
    /\ seen' = [t \in Threads |-> IF at[t] = "running" THEN seen[t] \cup {value'}
                                                       ELSE seen[t]]
    /\ UNCHANGED <<at, answer>>

Begin(t) ==
    /\ at[t] = "idle"
    /\ at' = [at EXCEPT ![t] = "running"]
    /\ seen' = [seen EXCEPT ![t] = {value}]
    /\ UNCHANGED <<value, answer>>

Return(t) ==
    /\ at[t] = "running"
    /\ at' = [at EXCEPT ![t] = "done"]
    /\ \E v \in seen[t] : \E a \in Answers[v] : answer' = [answer EXCEPT ![t] = a]
    /\ UNCHANGED <<value, seen>>

\* The caller is done with the answer.
Finish(t) ==
    /\ at[t] = "done"
    /\ at' = [at EXCEPT ![t] = "idle"]
    /\ seen' = [seen EXCEPT ![t] = {}]
    /\ answer' = [answer EXCEPT ![t] = None]
    /\ UNCHANGED value

Next == Change \/ \E t \in Threads : Begin(t) \/ Return(t) \/ Finish(t)

Spec == Init /\ [][Next]_vars

==============================================================================
