---------------------------- MODULE VerifierCache ----------------------------
(***************************************************************************)
(* Config::verifier of pam/src/cache.rs: the threads of one process share  *)
(* a verifier built from the JWKS file, and revalidate it on every call    *)
(* against the stamp of the file.                                          *)
(*                                                                         *)
(*   stat the path; lock the slot; on a stamp match return the verifier    *)
(*   of the slot; otherwise open, fstat and read the file, build the       *)
(*   verifier, date the stamp's age, store both, unlock.                   *)
(*                                                                         *)
(* The configuration has an issuer and a JWKS path (without them verifier  *)
(* fails before it looks at the file or at the slot).  Its policy is fixed,*)
(* so a verifier is the contents of the file it was built from.  A panic   *)
(* while building leaves what BuildFails leaves: the slot as it was and    *)
(* the lock released, since the next caller ignores the poisoning.  The    *)
(* file is a few kilobytes and one read(2) returns it whole.               *)
(*                                                                         *)
(* The system may refuse any call on the file at any time, whatever the    *)
(* file is (a permission, a descriptor table that is full, a disk error),  *)
(* so the stat, the open, the fstat and the read may each fail where they  *)
(* are.                                                                    *)
(***************************************************************************)
EXTENDS FileStamps

CONSTANTS
    Usable,         \* contents from which from_jwks_json builds a verifier
    Unreadable,     \* contents read_to_string refuses: not UTF-8
    SETTLE_TIME,
    Stall           \* longest time from a read to the dating of its stamp,
                    \* a bound on the scheduler

ASSUME ContentsAssumption ==
    /\ Usable \subseteq Contents
    /\ Unreadable \subseteq Contents \ Usable
ASSUME SettleAssumption == SETTLE_TIME \in Nat /\ Stall \in Nat

\* What SETTLE_TIME has to cover, and not an assumption of the module: the
\* code bounds no stall.
Prompt == Stall + Tick <= SETTLE_TIME

VARIABLES
    slot,       \* Config.verifier: None, or a verifier and its stamp
    lock,       \* the thread that holds the mutex of the slot, or None
    pc,         \* where each thread is in its call
    current,    \* the stamp a call got from its stat of the path
    meta,       \* the stamp of the file it opened
    text,       \* what it read
    readAt,     \* when it read it (history)
    outcome,    \* how its call ended
    verifier,   \* the verifier it returned
    window      \* all a reader of the path could have got during the call
                \* (history)

slotVars   == <<slot, lock>>
callVars   == <<pc, current, meta, text, readAt, outcome, verifier, window>>
vars       == <<fileVars, slotVars, callVars>>

Critical == {"open", "fstat", "read", "build"}
Running  == {"stat", "lock"} \cup Critical

Slot == [stamp: Stamp \cup {None}, keys: Usable]

TypeOK ==
    /\ FileTypeOK
    /\ slot \in Slot \cup {None}
    /\ lock \in Threads \cup {None}
    /\ pc \in [Threads -> {"idle", "done"} \cup Running]
    /\ current \in [Threads -> Stamp \cup {None}]
    /\ meta \in [Threads -> Stamp \cup {None}]
    /\ text \in [Threads -> Contents \cup {None}]
    /\ readAt \in [Threads -> Nat]
    /\ outcome \in [Threads -> {"none", "ok", "Read", "Build"}]
    /\ verifier \in [Threads -> Usable \cup {None}]
    /\ window \in [Threads -> SUBSET (Contents \cup {None})]

Init ==
    /\ FileInit
    /\ slot = None
    /\ lock = None
    /\ pc = [t \in Threads |-> "idle"]
    /\ current = [t \in Threads |-> None]
    /\ meta = [t \in Threads |-> None]
    /\ text = [t \in Threads |-> None]
    /\ readAt = [t \in Threads |-> 0]
    /\ outcome = [t \in Threads |-> "none"]
    /\ verifier = [t \in Threads |-> None]
    /\ window = [t \in Threads |-> {}]

------------------------------------------------------------------------------
(* The environment: time and whoever maintains the JWKS file.              *)

\* A thread is not held up for longer than Stall between reading the file
\* and dating its stamp.
PassTime ==
    /\ Advance
    /\ \A t \in Threads : pc[t] = "build" => now < readAt[t] + Stall
    /\ UNCHANGED <<slotVars, callVars>>

Maintain ==
    /\ ChangeFile
    /\ window' = [t \in Threads |-> IF pc[t] \in Running
                                    THEN window[t] \cup {Value'}
                                    ELSE window[t]]
    /\ UNCHANGED <<slotVars, pc, current, meta, text, readAt, outcome, verifier>>

------------------------------------------------------------------------------
(* The steps of a call.                                                    *)

\* Leaving the function drops the descriptor and the lock guard; the locals
\* die with the call.
ReturnFrom(t, how, v) ==
    /\ pc' = [pc EXCEPT ![t] = "done"]
    /\ outcome' = [outcome EXCEPT ![t] = how]
    /\ verifier' = [verifier EXCEPT ![t] = v]
    /\ current' = [current EXCEPT ![t] = None]
    /\ meta' = [meta EXCEPT ![t] = None]
    /\ text' = [text EXCEPT ![t] = None]
    /\ readAt' = [readAt EXCEPT ![t] = 0]
    /\ fd' = [fd EXCEPT ![t] = None]
    /\ lock' = IF lock = t THEN None ELSE lock
    /\ UNCHANGED <<now, coarse, file, window>>

Begin(t) ==
    /\ pc[t] = "idle"
    /\ pc' = [pc EXCEPT ![t] = "stat"]
    /\ window' = [window EXCEPT ![t] = {Value}]
    /\ UNCHANGED <<fileVars, slotVars, current, meta, text, readAt, outcome, verifier>>

\* fs::metadata(jwks_path), before the lock is taken.
Stat(t) ==
    /\ pc[t] = "stat"
    /\ file # None
    /\ current' = [current EXCEPT ![t] = StampOf(file)]
    /\ pc' = [pc EXCEPT ![t] = "lock"]
    /\ UNCHANGED <<fileVars, slotVars, meta, text, readAt, outcome, verifier, window>>

\* Mutant: a path that cannot be looked at answers from the slot.
StatServesStale(t) ==
    /\ pc[t] = "stat"
    /\ lock = None
    /\ IF slot = None THEN ReturnFrom(t, "Read", None)
                      ELSE ReturnFrom(t, "ok", slot.keys)
    /\ UNCHANGED slot

\* The path is missing, or cannot be looked at.
StatFails(t) ==
    /\ pc[t] = "stat"
    /\ ReturnFrom(t, "Read", None)
    /\ UNCHANGED slot

MatchesUpToTime(s, stamp) ==
    s # None /\ s.stamp # None /\ s.stamp.ino = stamp.ino /\ s.stamp.len = stamp.len

\* *stamp == Some(current)
Matches(s, stamp) == s # None /\ s.stamp = stamp

\* Nobody else looks at the slot between the lock and the comparison, so
\* they are one step; so are a hit and the unlock.
Hit(t) ==
    /\ pc[t] = "lock"
    /\ lock = None
    /\ Matches(slot, current[t])
    /\ ReturnFrom(t, "ok", slot.keys)
    /\ UNCHANGED slot

Miss(t) ==
    /\ pc[t] = "lock"
    /\ lock = None
    /\ ~Matches(slot, current[t])
    /\ lock' = t
    /\ pc' = [pc EXCEPT ![t] = "open"]
    /\ UNCHANGED <<fileVars, slot, current, meta, text, readAt, outcome, verifier, window>>

Open(t) ==
    /\ pc[t] = "open"
    /\ file # None
    /\ fd' = [fd EXCEPT ![t] = file]
    /\ pc' = [pc EXCEPT ![t] = "fstat"]
    /\ UNCHANGED <<now, coarse, file, slotVars, current, meta, text, readAt,
                   outcome, verifier, window>>

\* Mutant: with the lock held, wait for the file to come back.
OpenAwaitsFile(t) ==
    /\ pc[t] = "open"
    /\ file = None
    /\ UNCHANGED vars

OpenFails(t) ==
    /\ pc[t] = "open"
    /\ ReturnFrom(t, "Read", None)
    /\ UNCHANGED slot

Fstat(t) ==
    /\ pc[t] = "fstat"
    /\ meta' = [meta EXCEPT ![t] = StampOf(fd[t])]
    /\ pc' = [pc EXCEPT ![t] = "read"]
    /\ UNCHANGED <<fileVars, slotVars, current, text, readAt, outcome, verifier, window>>

FstatFails(t) ==
    /\ pc[t] = "fstat"
    /\ ReturnFrom(t, "Read", None)
    /\ UNCHANGED slot

Read(t) ==
    /\ pc[t] = "read"
    /\ fd[t].data \notin Unreadable
    /\ text' = [text EXCEPT ![t] = fd[t].data]
    /\ readAt' = [readAt EXCEPT ![t] = now]
    /\ pc' = [pc EXCEPT ![t] = "build"]
    /\ UNCHANGED <<fileVars, slotVars, current, meta, outcome, verifier, window>>

\* read(2) fails, or the contents are not UTF-8.
ReadFails(t) ==
    /\ pc[t] = "read"
    /\ ReturnFrom(t, "Read", None)
    /\ UNCHANGED slot

BuildFails(t) ==
    /\ pc[t] = "build"
    /\ text[t] \notin Usable
    /\ ReturnFrom(t, "Build", None)
    /\ UNCHANGED slot

SettledAtOnce(stamp) == stamp

\* Stamp::settled: the age is taken from the clock now, after the build.
Settled(stamp) == IF now >= stamp.ctime + SETTLE_TIME THEN stamp ELSE None

StoreUnchecked(t) ==
    /\ pc[t] = "build"
    /\ slot' = [stamp |-> Settled(meta[t]), keys |-> text[t]]
    /\ ReturnFrom(t, "ok", text[t])

Store(t) ==
    /\ pc[t] = "build"
    /\ text[t] \in Usable
    /\ slot' = [stamp |-> Settled(meta[t]), keys |-> text[t]]
    /\ ReturnFrom(t, "ok", text[t])

Finish(t) ==
    /\ pc[t] = "done"
    /\ pc' = [pc EXCEPT ![t] = "idle"]
    /\ outcome' = [outcome EXCEPT ![t] = "none"]
    /\ verifier' = [verifier EXCEPT ![t] = None]
    /\ window' = [window EXCEPT ![t] = {}]
    /\ UNCHANGED <<fileVars, slotVars, current, meta, text, readAt>>

\* What a thread does once it has called verifier.
Step(t) ==
    \/ Stat(t) \/ StatFails(t)
    \/ Hit(t) \/ Miss(t)
    \/ Open(t) \/ OpenFails(t)
    \/ Fstat(t) \/ FstatFails(t)
    \/ Read(t) \/ ReadFails(t)
    \/ BuildFails(t) \/ Store(t)

Next ==
    \/ PassTime
    \/ Maintain
    \/ \E t \in Threads : Begin(t) \/ Step(t) \/ Finish(t)

Spec == Init /\ [][Next]_vars

\* Threads that run are scheduled; nothing makes them call, and nothing
\* makes the mutex prefer the one that waits longest.
Fairness == \A t \in Threads : WF_vars(Step(t))

FairSpec == Spec /\ Fairness

------------------------------------------------------------------------------
(* Properties.                                                             *)

\* A stamp that is cached proves that a file with this stamp still has the
\* contents the cached verifier was built from: what SETTLE_TIME is for
\* (pam/src/cache.rs:132-133).  It holds under Prompt.
StampProvesContents ==
    slot # None /\ file # None /\ slot.stamp = StampOf(file)
        => slot.keys = file.data

\* A verifier that a call returns was built from contents the path had at some
\* moment of that call, whatever calls failed, filled the slot or changed the
\* file meanwhile: a key removed before the call is not accepted by it.
CallsAreFresh ==
    \A t \in Threads : pc[t] = "done" /\ outcome[t] = "ok" => verifier[t] \in window[t]

\* What a caller may be told of the contents of the file, as if it had read
\* them.  A read may fail whatever they are; a failure to build comes only
\* from contents that were read and are unusable.
AnswersOf ==
    [v \in Contents \cup {None} |->
        {[how |-> "Read", keys |-> None]} \cup
        IF v \in Usable THEN {[how |-> "ok", keys |-> v]}
        ELSE IF v \in Unreadable \cup {None} THEN {}
        ELSE {[how |-> "Build", keys |-> None]}]

Fresh == INSTANCE FreshRead WITH
    Values <- Contents \cup {None},
    Answers <- AnswersOf,
    value  <- Value,
    at     <- [t \in Threads |-> IF pc[t] \in Running THEN "running" ELSE pc[t]],
    seen   <- window,
    answer <- [t \in Threads |-> IF pc[t] = "done"
                                 THEN [how |-> outcome[t], keys |-> verifier[t]]
                                 ELSE None]

\* With its stamps, its slot and its lock, Config::verifier is a read of the
\* file, which may fail: every step of a thread is a step of FreshRead or none.
IsFreshRead == Fresh!Spec

\* A call comes to its end unless other threads keep calling: no path through
\* the function keeps the lock, and only a stream of overtakers can hold a
\* waiter back.
EveryCallReturns ==
    \A t \in Threads :
        \/ []<>(pc[t] \notin Running)
        \/ []<>(\E u \in Threads \ {t} : pc[u] = "stat")

==============================================================================
