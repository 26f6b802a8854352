----------------------------- MODULE ConfigCache -----------------------------
(***************************************************************************)
(* cache::config of pam/src/cache.rs: the configurations of a process, in  *)
(* a map keyed by the arguments of the PAM stack, under one mutex for all  *)
(* services and threads.                                                   *)
(*                                                                         *)
(*   take the config= path from the arguments and stat it; lock the map;   *)
(*   on a stamp match, or for inline arguments that are there already,     *)
(*   return the entry; otherwise read the file or the arguments, insert    *)
(*   the new entry over the old one, unlock.                               *)
(*                                                                         *)
(* An inline configuration is its arguments.  The arguments select at      *)
(* most one file (config= stands alone), so of all the arguments one,      *)
(* FileArgs, is about the file of FileStamps.  A configuration that is     *)
(* replaced lives on in the threads that hold it.  A panic while parsing   *)
(* leaves the map as an error does, and the next caller ignores that the   *)
(* mutex is poisoned.  The system may refuse any call on the file at any   *)
(* time, so stat, open, fstat and read may each fail whatever the file is. *)
(***************************************************************************)
EXTENDS FileStamps

CONSTANTS
    FileArgs,       \* config=path
    InlineArgs,     \* arguments parse_inline_args accepts
    FaultyArgs,     \* those it refuses
    ConflictArgs,   \* those config_path refuses
    Exposed,        \* a file its group or others may write, or no regular one
    Configs,        \* what parse_config may make of a file,
    Parsed,         \* and what it makes of each: None is an error, of
                    \* read_to_string for a file that is not UTF-8
    SETTLE_TIME,
    Stall           \* longest time from an fstat to the dating of its stamp: the
                    \* permissions that count are those of the fstat

ASSUME FilesAssumption ==
    /\ Exposed \subseteq Contents
    /\ None \notin Configs
    /\ Parsed \in [Contents -> Configs \cup {None}]
ASSUME TimesAssumption == SETTLE_TIME \in Nat /\ Stall \in Nat

Args == {FileArgs} \cup InlineArgs \cup FaultyArgs \cup ConflictArgs

ASSUME ArgsAssumption ==
    /\ FileArgs \notin InlineArgs \cup FaultyArgs \cup ConflictArgs
    /\ None \notin Args
    /\ "error" \notin Configs

\* What SETTLE_TIME has to cover, and not an assumption of the module: the
\* code bounds no stall.
Prompt == Stall + Tick <= SETTLE_TIME

VARIABLES
    cache,      \* CACHE: for each arguments an entry or None
    lock,       \* the thread that holds its mutex, or None
    call,       \* where each thread is in config, and its locals
    config,     \* how its call ended: a configuration, "error", or None
    window      \* all a reader of the path could have got during the call
                \* (history)

vars == <<fileVars, cache, lock, call, config, window>>

Running == {"path", "lock", "open", "fstat", "read", "parse"}
Entry   == [stamp: Stamp \cup {None}, config: Configs \cup InlineArgs]
Locals  == [at: Running \cup {"idle", "done"}, args: Args \cup {None},
            current: Stamp \cup {None}, meta: Stamp \cup {None},
            text: Contents \cup {None}, metaAt: Nat]
AtRest  == [at |-> "idle", args |-> None, current |-> None, meta |-> None,
            text |-> None, metaAt |-> 0]

TypeOK ==
    /\ FileTypeOK
    /\ cache \in [Args -> Entry \cup {None}]
    /\ lock \in Threads \cup {None}
    /\ call \in [Threads -> Locals]
    /\ config \in [Threads -> Configs \cup InlineArgs \cup {"error", None}]
    /\ window \in [Threads -> SUBSET (Contents \cup {None})]

Init ==
    /\ FileInit
    /\ cache = [a \in Args |-> None]
    /\ lock = None
    /\ call = [t \in Threads |-> AtRest]
    /\ config = [t \in Threads |-> None]
    /\ window = [t \in Threads |-> {}]

------------------------------------------------------------------------------
\* Calls with inline arguments do not concern the file.
OnFile(t) == call[t].args = FileArgs

PassTime ==
    /\ Advance
    /\ \A t \in Threads : call[t].at \in {"read", "parse"} => now < call[t].metaAt + Stall
    /\ UNCHANGED <<cache, lock, call, config, window>>

Maintain ==
    /\ ChangeFile
    /\ window' = [t \in Threads |-> IF OnFile(t) /\ call[t].at \in Running
                                    THEN window[t] \cup {Value'} ELSE window[t]]
    /\ UNCHANGED <<cache, lock, call, config>>

------------------------------------------------------------------------------
\* A step on the way through the function.
Goes(t, from, to) == call[t].at = from /\ call' = [call EXCEPT ![t] = to]

Begin(t, a) ==
    /\ Goes(t, "idle", [call[t] EXCEPT !.at = "path", !.args = a])
    /\ window' = [window EXCEPT ![t] = IF a = FileArgs THEN {Value} ELSE {}]
    /\ UNCHANGED <<fileVars, cache, lock, config>>

\* Leaving the function drops its locals, its descriptor and the lock guard.
Returns(t, from, result) ==
    /\ Goes(t, from, [AtRest EXCEPT !.at = "done", !.args = call[t].args])
    /\ config' = [config EXCEPT ![t] = result]
    /\ fd' = [fd EXCEPT ![t] = None]
    /\ lock' = IF lock = t THEN None ELSE lock
    /\ UNCHANGED <<now, coarse, file, window>>

\* config_path refuses the arguments, or the stat of the path fails, for a
\* file that is missing or for any other reason: nothing is locked yet.
PathFails(t) ==
    /\ call[t].args \in ConflictArgs \/ OnFile(t)
    /\ Returns(t, "path", "error")
    /\ UNCHANGED cache

\* The stat, or none for inline arguments.
Stat(t) ==
    /\ call[t].args \notin ConflictArgs
    /\ OnFile(t) => file # None
    /\ Goes(t, "path", [call[t] EXCEPT
                !.at = "lock",
                !.current = IF OnFile(t) THEN StampOf(file) ELSE None])
    /\ UNCHANGED <<fileVars, cache, lock, config, window>>

\* Mutant: an entry counts as fresh because it is there.
FreshOnceCached(t) == cache[call[t].args] # None

\* An entry is there, and for a file it has the stamp of the stat.
Fresh(t) ==
    /\ cache[call[t].args] # None
    /\ OnFile(t) => cache[FileArgs].stamp = call[t].current

\* It gets the mutex, and nobody looks at the map before it has compared.
AtLock(t) == call[t].at = "lock" /\ lock = None

Hit(t) ==
    /\ AtLock(t)
    /\ Fresh(t)
    /\ Returns(t, "lock", cache[call[t].args].config)
    /\ UNCHANGED cache

\* parse_inline_args looks at nothing but the arguments, so it is one step
\* with the lock and the insert.
Inline(t) ==
    /\ AtLock(t)
    /\ ~Fresh(t) /\ call[t].args \in InlineArgs
    /\ cache' = [cache EXCEPT ![call[t].args] = [stamp |-> None, config |-> call[t].args]]
    /\ Returns(t, "lock", call[t].args)

InlineFails(t) ==
    /\ AtLock(t)
    /\ ~Fresh(t) /\ call[t].args \in FaultyArgs
    /\ Returns(t, "lock", "error")
    /\ UNCHANGED cache

Miss(t) ==
    /\ AtLock(t)
    /\ ~Fresh(t) /\ OnFile(t)
    /\ lock' = t
    /\ Goes(t, "lock", [call[t] EXCEPT !.at = "open", !.current = None])
    /\ UNCHANGED <<fileVars, cache, config, window>>

\* read_config_file
Open(t) ==
    /\ file # None
    /\ Goes(t, "open", [call[t] EXCEPT !.at = "fstat"])
    /\ fd' = [fd EXCEPT ![t] = file]
    /\ UNCHANGED <<now, coarse, file, cache, lock, config, window>>

\* Mutant: with the lock held, wait for the file to come back.
OpenWaits(t) == file = None /\ call[t].at = "open" /\ UNCHANGED vars

OpenFails(t) == Returns(t, "open", "error") /\ UNCHANGED cache

\* Mutant: the permissions are not looked at.
FstatOnly(t) ==
    /\ Goes(t, "fstat", [call[t] EXCEPT !.at = "read", !.meta = StampOf(fd[t]),
                         !.metaAt = now])
    /\ UNCHANGED <<fileVars, cache, lock, config, window>>

Fstat(t) ==
    /\ call[t].at = "fstat" /\ fd[t].data \notin Exposed
    /\ Goes(t, "fstat", [call[t] EXCEPT !.at = "read", !.meta = StampOf(fd[t]),
                         !.metaAt = now])
    /\ UNCHANGED <<fileVars, cache, lock, config, window>>

FstatRefuses(t) ==
    /\ call[t].at = "fstat" /\ fd[t].data \in Exposed
    /\ Returns(t, "fstat", "error")
    /\ UNCHANGED cache

FstatFails(t) == Returns(t, "fstat", "error") /\ UNCHANGED cache

\* A file that is exposed since the fstat is read all the same.
Read(t) ==
    /\ Goes(t, "read", [call[t] EXCEPT !.at = "parse", !.text = fd[t].data])
    /\ UNCHANGED <<fileVars, cache, lock, config, window>>

ReadFails(t) == Returns(t, "read", "error") /\ UNCHANGED cache

\* The text is not UTF-8, or parse_config refuses it.
ParseFails(t) ==
    /\ call[t].at = "parse" /\ Parsed[call[t].text] = None
    /\ Returns(t, "parse", "error")
    /\ UNCHANGED cache

\* Mutant: every stamp counts as settled.
SettledAtOnce(stamp) == stamp

\* Stamp::settled, at the time of the insert.
Settled(stamp) == IF now >= stamp.ctime + SETTLE_TIME THEN stamp ELSE None

\* Mutant: an entry is inserted before the parse may fail.
InsertUnparsed(t) ==
    /\ call[t].at = "parse"
    /\ cache' = [cache EXCEPT ![FileArgs] = [stamp  |-> Settled(call[t].meta),
                                             config |-> Parsed[call[t].text]]]
    /\ Returns(t, "parse", Parsed[call[t].text])

Insert(t) ==
    /\ call[t].at = "parse" /\ Parsed[call[t].text] # None
    /\ cache' = [cache EXCEPT ![FileArgs] = [stamp  |-> Settled(call[t].meta),
                                             config |-> Parsed[call[t].text]]]
    /\ Returns(t, "parse", Parsed[call[t].text])

\* The thread drops its Arc.
Finish(t) ==
    /\ call[t].at = "done"
    /\ call' = [call EXCEPT ![t] = AtRest]
    /\ config' = [config EXCEPT ![t] = None]
    /\ window' = [window EXCEPT ![t] = {}]
    /\ UNCHANGED <<fileVars, cache, lock>>

Step(t) ==
    \/ PathFails(t) \/ Stat(t)
    \/ Hit(t) \/ Inline(t) \/ InlineFails(t) \/ Miss(t)
    \/ Open(t) \/ OpenFails(t)
    \/ Fstat(t) \/ FstatRefuses(t) \/ FstatFails(t)
    \/ Read(t) \/ ReadFails(t)
    \/ ParseFails(t) \/ Insert(t)

Next ==
    \/ PassTime
    \/ Maintain
    \/ \E t \in Threads : Step(t) \/ Finish(t) \/ \E a \in Args : Begin(t, a)

Spec == Init /\ [][Next]_vars

\* Threads that run are scheduled; the mutex prefers nobody.
FairSpec == Spec /\ \A t \in Threads : WF_vars(Step(t))

------------------------------------------------------------------------------
\* A configuration is served from the map only for a file that has the contents
\* and the permissions it was read with: a change the stamp does not show, of
\* either, would let a stale policy decide, or one that others may write.
CachedIsCurrent ==
    cache[FileArgs] # None /\ file # None /\ cache[FileArgs].stamp = StampOf(file) =>
        file.data \notin Exposed /\ cache[FileArgs].config = Parsed[file.data]

\* The permissions are those of the fstat and the text is read later, so each
\* is of some moment of the call: a configuration is never taken from a file
\* that others could write all along, however calls and changes interleave.
NeverFromExposed ==
    \A t \in Threads : OnFile(t) /\ config[t] \in Configs =>
        ~(window[t] \subseteq Exposed \cup {None})

\* What a caller may be told of the contents of the file: a read may fail
\* whatever they are.  Of a file that is exposed it may get the text, if the
\* exposure came after the fstat.
AnswersOf ==
    [v \in Contents \cup {None} |->
        {"error"} \cup IF v = None THEN {} ELSE {Parsed[v]} \ {None}]

FileReads == INSTANCE FreshRead WITH
    Values  <- Contents \cup {None},
    Answers <- AnswersOf,
    value   <- Value,
    at      <- [t \in Threads |-> IF ~OnFile(t) THEN "idle"
                                   ELSE IF call[t].at = "done" THEN "done" ELSE "running"],
    seen    <- window,
    answer  <- [t \in Threads |-> IF OnFile(t) THEN config[t] ELSE None]

\* A call of config with config= is a read of the file, which may fail, whatever
\* is in the map: every step of a thread is a step of FreshRead or none.
ConfigIsFreshRead == FileReads!Spec

\* A call returns unless others keep calling: no way through the function, and
\* no error under the lock, keeps the mutex that all logins of the process need.
EveryConfigReturns ==
    \A t \in Threads :
        \/ []<>(call[t].at \notin Running)
        \/ []<>(\E u \in Threads \ {t} : call[u].at = "path")
==============================================================================
