-------------------------- MODULE ConfigCacheProofs --------------------------
(***************************************************************************)
(* Proofs about ConfigCache, for any threads, arguments, contents and      *)
(* clock constants: a configuration of the map is the one of the file, and *)
(* a call of config is a read of the file.  Both need Prompt.              *)
(***************************************************************************)
EXTENDS ConfigCache, FileStampsProofs

\* What a thread has where it is.
ThreadOK(t) ==
    /\ call[t].at = "idle" => call[t].args = None
    /\ call[t].at # "idle" => call[t].args \in Args
    /\ call[t].at \in {"open", "fstat", "read", "parse"} => OnFile(t)
    /\ call[t].at = "lock" /\ OnFile(t) => call[t].current \in Stamp
    /\ call[t].at \in {"fstat", "read"} => fd[t] \in File
    /\ call[t].at \in {"read", "parse"} => call[t].meta \in Stamp
    /\ call[t].at = "parse" => call[t].text \in Contents
    /\ call[t].at # "done" => config[t] = None
    /\ ~OnFile(t) => window[t] = {}

\* The entry of the file is what parse_config made of one.
FileEntry == cache[FileArgs] # None => cache[FileArgs].config \in Configs

TInv == TypeOK /\ FileEntry /\ \A t \in Threads : ThreadOK(t)

\* What a step of t does not touch of the others.
Others(t) ==
    \A u \in Threads \ {t} :
        /\ call'[u] = call[u] /\ config'[u] = config[u]
        /\ fd'[u] = fd[u] /\ window'[u] = window[u]

\* The types hold at the start.
LEMMA TInvInit == Init => TInv
<1> SUFFICES ASSUME Init PROVE TInv
  OBVIOUS
<1>1. FileTypeOK
  BY DEF Init, FileInit, FileTypeOK, File
<1>2. AtRest \in Locals /\ AtRest.at = "idle" /\ AtRest.args = None
  BY DEF Locals, AtRest, Running
<1>3. TypeOK
  BY <1>1, <1>2 DEF Init, TypeOK
<1>4. FileEntry
  BY DEF Init, FileEntry, Args
<1>5. \A t \in Threads : ThreadOK(t)
  BY <1>2, ArgsAssumption DEF Init, ThreadOK, OnFile, Args
<1>6. QED
  BY <1>3, <1>4, <1>5 DEF TInv

\* The steps inside a call, each as the thread and the rest of the state see it.
LEMMA BeginEffect ==
    ASSUME TypeOK, NEW t \in Threads, NEW a \in Args, Begin(t, a)
    PROVE  /\ call[t].at = "idle"
           /\ call' \in [Threads -> Locals]
           /\ call'[t].at = "path" /\ call'[t].args = a
           /\ window' \in [Threads -> SUBSET (Contents \cup {None})]
           /\ window'[t] = IF a = FileArgs THEN {Value} ELSE {}
           /\ UNCHANGED <<now, coarse, file, fd, cache, lock, config>>
           /\ Others(t)
<1>1. Value \in Contents \cup {None}
  BY DEF TypeOK, FileTypeOK, File, Value
<1>2. [call[t] EXCEPT !.at = "path", !.args = a] \in Locals
  BY DEF TypeOK, Locals, Running
<1>3. call'[t] = [call[t] EXCEPT !.at = "path", !.args = a]
  BY DEF Begin, Goes, TypeOK
<1>4. call'[t].at = "path" /\ call'[t].args = a
  BY <1>3 DEF TypeOK, Locals
<1>5. QED
  BY <1>1, <1>2, <1>4 DEF Begin, Goes, Others, fileVars, TypeOK

\* The stat of the path keeps the stamp of the file there.
LEMMA StatEffect ==
    ASSUME TypeOK, NEW t \in Threads, Stat(t)
    PROVE  /\ call[t].at = "path"
           /\ call' \in [Threads -> Locals]
           /\ call'[t].at = "lock" /\ call'[t].args = call[t].args
           /\ call'[t].current = IF OnFile(t) THEN StampOf(file) ELSE None
           /\ call[t].args \notin ConflictArgs
           /\ OnFile(t) => file \in File
           /\ UNCHANGED <<now, coarse, file, fd, cache, lock, config, window>>
           /\ Others(t)
<1> DEFINE c == IF OnFile(t) THEN StampOf(file) ELSE None
<1>1. OnFile(t) => file \in File
  BY DEF Stat, TypeOK, FileTypeOK
<1>2. c \in Stamp \cup {None}
  BY <1>1, StampOfType
<1>3. [call[t] EXCEPT !.at = "lock", !.current = c] \in Locals
  BY <1>2 DEF TypeOK, Locals, Running
<1>4. call'[t] = [call[t] EXCEPT !.at = "lock", !.current = c]
  BY DEF Stat, Goes, TypeOK
<1>5. call'[t].at = "lock" /\ call'[t].args = call[t].args /\ call'[t].current = c
  BY <1>4 DEF TypeOK, Locals
<1>6. call' \in [Threads -> Locals]
  BY <1>3 DEF Stat, Goes, TypeOK
<1>7. QED
  BY <1>1, <1>5, <1>6 DEF Stat, Goes, Others, fileVars, TypeOK

\* No entry with that stamp: the thread goes on to open the file, with the lock.
LEMMA MissEffect ==
    ASSUME TypeOK, NEW t \in Threads, Miss(t)
    PROVE  /\ call[t].at = "lock" /\ OnFile(t)
           /\ call' \in [Threads -> Locals]
           /\ call'[t].at = "open" /\ call'[t].args = call[t].args
           /\ lock' = t
           /\ UNCHANGED <<now, coarse, file, fd, cache, config, window>>
           /\ Others(t)
<1>1. [call[t] EXCEPT !.at = "open", !.current = None] \in Locals
  BY DEF TypeOK, Locals, Running
<1>2. call'[t] = [call[t] EXCEPT !.at = "open", !.current = None]
  BY DEF Miss, Goes, TypeOK
<1>3. call'[t].at = "open" /\ call'[t].args = call[t].args
  BY <1>2 DEF TypeOK, Locals
<1>4. QED
  BY <1>1, <1>3 DEF Miss, Goes, Others, fileVars, TypeOK

\* The descriptor is of the file the path names at this moment.
LEMMA OpenEffect ==
    ASSUME TypeOK, NEW t \in Threads, Open(t)
    PROVE  /\ call[t].at = "open"
           /\ call' \in [Threads -> Locals]
           /\ call'[t].at = "fstat" /\ call'[t].args = call[t].args
           /\ file \in File /\ fd'[t] = file
           /\ fd' \in [Threads -> File \cup {None}]
           /\ UNCHANGED <<now, coarse, file, cache, lock, config, window>>
           /\ Others(t)
<1>1. [call[t] EXCEPT !.at = "fstat"] \in Locals
  BY DEF TypeOK, Locals, Running
<1>2. call'[t] = [call[t] EXCEPT !.at = "fstat"]
  BY DEF Open, Goes, TypeOK
<1>3. call'[t].at = "fstat" /\ call'[t].args = call[t].args
  BY <1>2 DEF TypeOK, Locals
<1>4. file \in File
  BY DEF Open, TypeOK, FileTypeOK
<1>5. QED
  BY <1>1, <1>3, <1>4 DEF Open, Goes, Others, TypeOK, FileTypeOK

\* Stamp and permissions are those of the file behind the descriptor.
LEMMA FstatEffect ==
    ASSUME TypeOK, NEW t \in Threads, fd[t] \in File, Fstat(t)
    PROVE  /\ call[t].at = "fstat" /\ fd[t].data \notin Exposed
           /\ call' \in [Threads -> Locals]
           /\ call'[t].at = "read" /\ call'[t].args = call[t].args
           /\ call'[t].meta = StampOf(fd[t]) /\ call'[t].metaAt = now
           /\ UNCHANGED <<now, coarse, file, fd, cache, lock, config, window>>
           /\ Others(t)
<1>1. StampOf(fd[t]) \in Stamp /\ now \in Nat
  BY StampOfType DEF TypeOK, FileTypeOK
<1> DEFINE to == [call[t] EXCEPT !.at = "read", !.meta = StampOf(fd[t]), !.metaAt = now]
<1>2. to \in Locals
  BY <1>1 DEF TypeOK, Locals, Running
<1>3. call'[t] = to
  BY DEF Fstat, Goes, TypeOK
<1>4. /\ call'[t].at = "read" /\ call'[t].args = call[t].args
      /\ call'[t].meta = StampOf(fd[t]) /\ call'[t].metaAt = now
  BY <1>3 DEF TypeOK, Locals
<1>5. call' \in [Threads -> Locals]
  BY <1>2 DEF Fstat, Goes, TypeOK
<1>6. QED
  BY <1>4, <1>5 DEF Fstat, Goes, Others, fileVars, TypeOK

\* So is the text, at a later moment.
LEMMA ReadEffect ==
    ASSUME TypeOK, NEW t \in Threads, fd[t] \in File, Read(t)
    PROVE  /\ call[t].at = "read"
           /\ call' \in [Threads -> Locals]
           /\ call'[t].at = "parse" /\ call'[t].args = call[t].args
           /\ call'[t].meta = call[t].meta /\ call'[t].metaAt = call[t].metaAt
           /\ call'[t].text = fd[t].data /\ fd[t].data \in Contents
           /\ UNCHANGED <<now, coarse, file, fd, cache, lock, config, window>>
           /\ Others(t)
<1>1. fd[t].data \in Contents
  BY DEF File
<1> DEFINE to == [call[t] EXCEPT !.at = "parse", !.text = fd[t].data]
<1>2. to \in Locals
  BY <1>1 DEF TypeOK, Locals, Running
<1>3. call'[t] = to
  BY DEF Read, Goes, TypeOK
<1>4. /\ call'[t].at = "parse" /\ call'[t].args = call[t].args
      /\ call'[t].meta = call[t].meta /\ call'[t].metaAt = call[t].metaAt
      /\ call'[t].text = fd[t].data
  BY <1>3 DEF TypeOK, Locals
<1>5. call' \in [Threads -> Locals]
  BY <1>2 DEF Read, Goes, TypeOK
<1>6. QED
  BY <1>1, <1>4, <1>5 DEF Read, Goes, Others, fileVars, TypeOK

\* Whatever the result, a thread that returns keeps only its arguments.
LEMMA ReturnsEffect ==
    ASSUME TypeOK, NEW t \in Threads, NEW from, NEW result, Returns(t, from, result)
    PROVE  /\ call[t].at = from
           /\ call' \in [Threads -> Locals]
           /\ call'[t].at = "done" /\ call'[t].args = call[t].args
           /\ config'[t] = result /\ fd'[t] = None
           /\ lock' \in Threads \cup {None}
           /\ fd' \in [Threads -> File \cup {None}]
           /\ UNCHANGED <<now, coarse, file, window>>
           /\ Others(t)
<1> DEFINE to == [AtRest EXCEPT !.at = "done", !.args = call[t].args]
<1>1. to \in Locals /\ to.at = "done" /\ to.args = call[t].args
  BY DEF TypeOK, Locals, AtRest, Running
<1>2. call'[t] = to /\ call' \in [Threads -> Locals]
  BY <1>1 DEF Returns, Goes, TypeOK
<1>3. QED
  BY <1>1, <1>2 DEF Returns, Goes, Others, TypeOK, FileTypeOK

\* The caller has taken the result.
LEMMA FinishEffect ==
    ASSUME TypeOK, NEW t \in Threads, Finish(t)
    PROVE  /\ call[t].at = "done"
           /\ call' \in [Threads -> Locals]
           /\ call'[t].at = "idle" /\ call'[t].args = None
           /\ config'[t] = None /\ window'[t] = {}
           /\ UNCHANGED <<now, coarse, file, fd, cache, lock>>
           /\ Others(t)
<1>1. AtRest \in Locals /\ AtRest.at = "idle" /\ AtRest.args = None
  BY DEF Locals, AtRest, Running
<1>2. QED
  BY <1>1 DEF Finish, Others, fileVars, TypeOK

\* A step of one thread leaves the locals of the others as they should be.
LEMMA OthersStay ==
    ASSUME TInv, NEW t \in Threads, Others(t), NEW u \in Threads \ {t}
    PROVE  ThreadOK(u)'
BY DEF TInv, Others, ThreadOK, OnFile

\* How a call fails while it reads the file, with the lock held.
FileFails(t) ==
    \/ OpenFails(t) \/ FstatFails(t) \/ FstatRefuses(t)
    \/ ReadFails(t) \/ ParseFails(t)

\* How a call comes to its end.
Ends(t) ==
    \/ PathFails(t) \/ Hit(t) \/ Inline(t) \/ InlineFails(t)
    \/ Insert(t) \/ FileFails(t)

\* Each end is a return, with an error, with the entry of the map, with the
\* arguments or with what was parsed, and only the last two write to the map.
LEMMA EndsReturn ==
    ASSUME TInv, NEW t \in Threads, Ends(t)
    PROVE  \E from \in Running, r \in Configs \cup InlineArgs \cup {"error"} :
               /\ Returns(t, from, r)
               /\ r # "error" /\ call[t].at = "lock" /\ OnFile(t) => r = cache[FileArgs].config
<1>1. call[t].at \in Running => call[t].args \in Args
  BY DEF TInv, ThreadOK, Running
<1>2. CASE Hit(t)
  <2>1. cache[call[t].args] \in Entry
    BY <1>1, <1>2 DEF Hit, AtLock, Fresh, TInv, TypeOK, Running
  <2>2. QED
    BY <1>2, <2>1 DEF Hit, Entry, OnFile, Running
<1>3. CASE Inline(t)
  BY <1>3, ArgsAssumption DEF Inline, OnFile, Running
<1>4. CASE Insert(t)
  <2>1. Parsed[call[t].text] \in Configs
    BY <1>4, FilesAssumption DEF Insert, TInv, ThreadOK
  <2>2. QED
    BY <1>4, <2>1 DEF Insert, Running
<1>5. CASE PathFails(t) \/ InlineFails(t) \/ FileFails(t)
  BY <1>5 DEF PathFails, InlineFails, FileFails, OpenFails, FstatFails, FstatRefuses, ReadFails,
              ParseFails, Running
<1>6. QED
  BY <1>2, <1>3, <1>4, <1>5 DEF Ends

\* Of the ways out only Insert changes the entry of the file, to what was parsed.
LEMMA EndsEffect ==
    ASSUME TInv, NEW t \in Threads, Ends(t)
    PROVE  \/ ~Insert(t) /\ cache'[FileArgs] = cache[FileArgs] /\ cache' \in [Args -> Entry \cup {None}]
           \/ /\ Insert(t)
              /\ cache' \in [Args -> Entry \cup {None}]
              /\ cache'[FileArgs] = [stamp  |-> Settled(call[t].meta),
                                     config |-> Parsed[call[t].text]]
              /\ Parsed[call[t].text] \in Configs
<1>0. FileArgs \in Args /\ InlineArgs \subseteq Args
  BY DEF Args
<1>1. CASE Insert(t)
  <2>1. Parsed[call[t].text] \in Configs
    BY <1>1, FilesAssumption DEF Insert, TInv, ThreadOK
  <2>2. Settled(call[t].meta) \in Stamp \cup {None}
    BY <1>1 DEF Insert, TInv, ThreadOK, Settled
  <2>3. [stamp |-> Settled(call[t].meta), config |-> Parsed[call[t].text]] \in Entry
    BY <2>1, <2>2 DEF Entry
  <2>4. QED
    BY <1>0, <1>1, <2>1, <2>3 DEF Insert, TInv, TypeOK
<1>2. CASE Inline(t) /\ ~Insert(t)
  <2>1. [stamp |-> None, config |-> call[t].args] \in Entry
    BY <1>2 DEF Inline, Entry
  <2>2. call[t].args # FileArgs
    BY <1>2, ArgsAssumption DEF Inline
  <2>3. QED
    BY <1>0, <1>2, <2>1, <2>2 DEF Inline, TInv, TypeOK
<1>3. CASE ~Inline(t) /\ ~Insert(t)
  BY <1>3 DEF Ends, PathFails, Hit, InlineFails, FileFails, OpenFails, FstatFails, FstatRefuses,
              ReadFails, ParseFails, TInv, TypeOK
<1>4. QED
  BY <1>1, <1>2, <1>3

\* Every way out, with the lock and the descriptor given back, keeps the types.
LEMMA EndsKeepTInv ==
    ASSUME TInv, NEW t \in Threads, Ends(t)
    PROVE  TInv'
<1>1. PICK from \in Running, r \in Configs \cup InlineArgs \cup {"error"} : Returns(t, from, r)
  BY EndsReturn
<1>2. /\ call' \in [Threads -> Locals]
      /\ call'[t].at = "done" /\ call'[t].args = call[t].args
      /\ call[t].at = from
      /\ fd' \in [Threads -> File \cup {None}]
      /\ lock' \in Threads \cup {None}
      /\ UNCHANGED <<now, coarse, file, window>>
      /\ Others(t)
  BY <1>1, ReturnsEffect DEF TInv
<1>3. config' \in [Threads -> Configs \cup InlineArgs \cup {"error", None}]
  BY <1>1 DEF Returns, TInv, TypeOK
<1>4. TypeOK'
  BY <1>2, <1>3, EndsEffect DEF TInv, TypeOK, FileTypeOK
<1>5. FileEntry'
  <2>1. CASE cache'[FileArgs] = cache[FileArgs]
    BY <2>1 DEF TInv, FileEntry
  <2>2. CASE /\ cache'[FileArgs] = [stamp  |-> Settled(call[t].meta),
                                    config |-> Parsed[call[t].text]]
             /\ Parsed[call[t].text] \in Configs
    BY <2>2 DEF FileEntry
  <2>3. QED
    BY <2>1, <2>2, EndsEffect
<1>6. ThreadOK(t)'
  BY <1>2 DEF TInv, ThreadOK, OnFile, Running
<1>7. QED
  BY <1>2, <1>4, <1>5, <1>6, OthersStay DEF TInv

\* The steps that do not return.
LEMMA StepsKeepTInv ==
    ASSUME TInv, NEW t \in Threads,
           \/ \E a \in Args : Begin(t, a)
           \/ Stat(t) \/ Miss(t) \/ Open(t) \/ Fstat(t) \/ Read(t) \/ Finish(t)
    PROVE  TInv'
<1> USE DEF TInv
<1>1. ASSUME NEW a \in Args, Begin(t, a) PROVE TInv'
  <2>1. TypeOK' /\ FileEntry'
    BY <1>1, BeginEffect DEF TypeOK, FileTypeOK, FileEntry
  <2>2. ThreadOK(t)'
    BY <1>1, BeginEffect DEF ThreadOK, OnFile
  <2>3. QED
    BY <1>1, <2>1, <2>2, BeginEffect, OthersStay
<1>2. CASE Stat(t)
  <2>1. TypeOK' /\ FileEntry'
    BY <1>2, StatEffect DEF TypeOK, FileTypeOK, FileEntry
  <2>2. ThreadOK(t)'
    BY <1>2, StatEffect, StampOfType DEF ThreadOK, OnFile
  <2>3. QED
    BY <1>2, <2>1, <2>2, StatEffect, OthersStay
<1>3. CASE Miss(t)
  <2>1. TypeOK' /\ FileEntry'
    BY <1>3, MissEffect DEF TypeOK, FileTypeOK, FileEntry
  <2>2. ThreadOK(t)'
    BY <1>3, MissEffect DEF ThreadOK, OnFile
  <2>3. QED
    BY <1>3, <2>1, <2>2, MissEffect, OthersStay
<1>4. CASE Open(t)
  <2>1. TypeOK' /\ FileEntry'
    BY <1>4, OpenEffect DEF TypeOK, FileTypeOK, FileEntry
  <2>2. ThreadOK(t)'
    BY <1>4, OpenEffect DEF ThreadOK, OnFile
  <2>3. QED
    BY <1>4, <2>1, <2>2, OpenEffect, OthersStay
<1>5. CASE Fstat(t)
  <2>0. fd[t] \in File
    BY <1>5 DEF Fstat, ThreadOK
  <2>1. TypeOK' /\ FileEntry'
    BY <1>5, <2>0, FstatEffect DEF TypeOK, FileTypeOK, FileEntry
  <2>2. ThreadOK(t)'
    BY <1>5, <2>0, FstatEffect, StampOfType DEF ThreadOK, OnFile
  <2>3. QED
    BY <1>5, <2>0, <2>1, <2>2, FstatEffect, OthersStay
<1>6. CASE Read(t)
  <2>0. fd[t] \in File
    BY <1>6 DEF Read, Goes, ThreadOK
  <2>1. TypeOK' /\ FileEntry'
    BY <1>6, <2>0, ReadEffect DEF TypeOK, FileTypeOK, FileEntry
  <2>2. ThreadOK(t)'
    BY <1>6, <2>0, ReadEffect DEF ThreadOK, OnFile
  <2>3. QED
    BY <1>6, <2>0, <2>1, <2>2, ReadEffect, OthersStay
<1>7. CASE Finish(t)
  <2>1. TypeOK' /\ FileEntry'
    BY <1>7, FinishEffect DEF Finish, TypeOK, FileTypeOK, FileEntry
  <2>2. ThreadOK(t)'
    BY <1>7, FinishEffect, ArgsAssumption DEF ThreadOK, OnFile, Args
  <2>3. QED
    BY <1>7, <2>1, <2>2, FinishEffect, OthersStay
<1>8. QED
  BY <1>1, <1>2, <1>3, <1>4, <1>5, <1>6, <1>7

\* Whatever the threads and the file do, the types stay.
LEMMA TInvNext == TInv /\ [Next]_vars => TInv'
<1> SUFFICES ASSUME TInv, [Next]_vars PROVE TInv'
  OBVIOUS
<1> USE DEF TInv
<1>1. CASE PassTime
  <2>1. FileTypeOK' /\ UNCHANGED <<file, fd, cache, lock, call, config, window>>
    BY <1>1 DEF PassTime, Advance, TypeOK, FileTypeOK
  <2>2. QED
    BY <2>1 DEF TypeOK, FileEntry, ThreadOK, OnFile
<1>2. CASE Maintain
  <2>1. FileTypeOK' /\ \A t \in Threads : fd[t] \in File => fd'[t] \in File
    BY <1>2, ChangeFileType DEF Maintain, TypeOK
  <2>2. Value' \in Contents \cup {None}
    BY <2>1 DEF Value, FileTypeOK, File
  <2>3. /\ window' \in [Threads -> SUBSET (Contents \cup {None})]
        /\ \A t \in Threads : ~OnFile(t) => window'[t] = window[t]
    BY <1>2, <2>2 DEF Maintain, TypeOK
  <2>4. TypeOK' /\ FileEntry'
    BY <1>2, <2>1, <2>3 DEF Maintain, TypeOK, FileEntry
  <2>5. QED
    BY <1>2, <2>1, <2>3, <2>4 DEF Maintain, ThreadOK, OnFile
<1>3. ASSUME NEW t \in Threads, Step(t) \/ Finish(t) \/ \E a \in Args : Begin(t, a)
      PROVE  TInv'
  BY <1>3, EndsKeepTInv, StepsKeepTInv DEF Step, Ends, FileFails
<1>4. CASE UNCHANGED vars
  BY <1>4 DEF vars, fileVars, TypeOK, FileTypeOK, FileEntry, ThreadOK, OnFile
<1>5. QED
  BY <1>1, <1>2, <1>3, <1>4 DEF Next

\* Every variable of cache::config keeps its type; in particular a map entry
\* is a configuration, never the failure to parse one.
THEOREM TypeCorrect == Spec => []TypeOK
<1>1. Init => TInv
  BY TInvInit
<1>2. TInv /\ [Next]_vars => TInv'
  BY TInvNext
<1>3. TInv => TypeOK
  BY DEF TInv
<1>4. QED
  BY <1>1, <1>2, <1>3, PTL DEF Spec

------------------------------------------------------------------------------
(* The invariant behind the properties.                                    *)

\* Between the fstat and the insert.
Dating(t) == call[t].at \in {"read", "parse"}

StallOK(t) == Dating(t) => call[t].metaAt <= now /\ now <= call[t].metaAt + Stall

\* The fstat came a whole tick after the change its stamp records, so that a
\* later change cannot have the same stamp.
FstatSettled(t) == call[t].metaAt >= call[t].meta.ctime + Tick

\* What was fstat'ed is the inode that is read, ...
DescriptorOK(t) == call[t].at = "read" => call[t].meta.ino = fd[t].ino

\* ... so a settled stamp proves the permissions, and then what was read.
FillOK(t) ==
    Dating(t) /\ FstatSettled(t) /\ file # None /\ StampOf(file) = call[t].meta =>
        /\ file.data \notin Exposed
        /\ call[t].at = "parse" => file.data = call[t].text

\* The same for the entry of the map.
EntryOK ==
    cache[FileArgs] # None /\ cache[FileArgs].stamp # None =>
        /\ cache[FileArgs].stamp.ctime < coarse
        /\ file # None /\ StampOf(file) = cache[FileArgs].stamp =>
              file.data \notin Exposed /\ cache[FileArgs].config = Parsed[file.data]

\* At some moment of the call the file was one that is not refused.
Unexposed(t) == ~(window[t] \subseteq Exposed \cup {None})

\* A call has a window with the present value, what its descriptor sees and
\* what it read.
WindowOK(t) ==
    /\ OnFile(t) /\ call[t].at \in Running => Value \in window[t]
    /\ call[t].at \in {"fstat", "read"} => fd[t].data \in window[t]
    /\ call[t].at = "parse" => call[t].text \in window[t]
    /\ Dating(t) => Unexposed(t)

\* A result that some version of the file of the call explains.
Explains(t, result) ==
    /\ \E v \in window[t] : result \in AnswersOf[v]
    /\ result \in Configs => Unexposed(t)

AnswerOK(t) == OnFile(t) /\ call[t].at = "done" => Explains(t, config[t])

\* A caller that waits for the lock with the stamp of inode i was there when
\* the path named i, so whatever i was since is in its window: as another
\* thread has it open, has read it, ...
CoveredBy(w, u) ==
    /\ fd[u] # None /\ fd[u].ino = call[w].current.ino => fd[u].data \in window[w]
    /\ Dating(u) /\ call[u].meta = call[w].current /\ FstatSettled(u) =>
          /\ Unexposed(w)
          /\ call[u].at = "parse" => call[u].text \in window[w]

\* ... or as it is in the map.
CoveredByEntry(w) ==
    cache[FileArgs] # None /\ cache[FileArgs].stamp = call[w].current =>
        /\ Unexposed(w)
        /\ \E x \in window[w] \ {None} : cache[FileArgs].config = Parsed[x]

Waits(w) == OnFile(w) /\ call[w].at = "lock"

WaiterOK(w) == Waits(w) => CoveredByEntry(w) /\ \A u \in Threads : CoveredBy(w, u)

IInv ==
    /\ TInv
    /\ ClockOK
    /\ DescriptorsShare
    /\ EntryOK
    /\ \A t \in Threads : /\ StallOK(t) /\ DescriptorOK(t) /\ FillOK(t)
                          /\ WindowOK(t) /\ AnswerOK(t) /\ WaiterOK(t)

\* With an empty map and nobody calling there is nothing to explain.
LEMMA IInvInit == Init => IInv
<1> SUFFICES ASSUME Init PROVE IInv
  OBVIOUS
<1>1. TInv
  BY TInvInit
<1>2. ClockOK
  BY TickAssumption DEF Init, FileInit, ClockOK
<1>3. \A t \in Threads : call[t].at = "idle"
  BY DEF Init, AtRest
<1>4. DescriptorsShare /\ EntryOK
  BY DEF Init, FileInit, DescriptorsShare, EntryOK, Args
<1>5. QED
  BY <1>1, <1>2, <1>3, <1>4
  DEF IInv, StallOK, Dating, DescriptorOK, FillOK, WindowOK, AnswerOK, WaiterOK, Waits, Running

\* What has to be shown of a step of t that leaves the clocks and the file
\* alone: the parts about t, about the map and about who waits for t.
LEMMA OneThread ==
    ASSUME IInv, TInv', NEW t \in Threads, Others(t), UNCHANGED <<now, coarse, file>>,
           DescriptorsShare', EntryOK',
           StallOK(t)', DescriptorOK(t)', FillOK(t)', WindowOK(t)', AnswerOK(t)', WaiterOK(t)',
           \A w \in Threads \ {t} : Waits(w) => CoveredByEntry(w)' /\ CoveredBy(w, t)'
    PROVE  IInv'
<1>1. Value' = Value /\ ClockOK'
  BY DEF Value, IInv, ClockOK
<1>2. ASSUME NEW u \in Threads \ {t}
      PROVE  StallOK(u)' /\ DescriptorOK(u)' /\ FillOK(u)'
  BY DEF IInv, Others, StallOK, DescriptorOK, FillOK, FstatSettled, Dating, StampOf
<1>3. ASSUME NEW u \in Threads \ {t}
      PROVE  WindowOK(u)' /\ AnswerOK(u)'
  BY <1>1 DEF IInv, Others, WindowOK, AnswerOK, Explains, Unexposed, Dating, OnFile, AnswersOf
<1>4. ASSUME NEW w \in Threads \ {t}, Waits(w)'
      PROVE  CoveredByEntry(w)' /\ \A u \in Threads : CoveredBy(w, u)'
  <2>1. Waits(w)
    BY <1>4 DEF Others, Waits, OnFile
  <2>2. \A u \in Threads \ {t} : CoveredBy(w, u)'
    BY <2>1 DEF IInv, WaiterOK, Others, CoveredBy, Unexposed, Dating, FstatSettled
  <2>3. QED
    BY <2>1, <2>2
<1>5. QED
  BY <1>1, <1>2, <1>3, <1>4 DEF IInv, WaiterOK

\* An entry that is not replaced goes on covering who waits.
LEMMA EntryStays ==
    ASSUME IInv, NEW t \in Threads, Others(t), UNCHANGED <<coarse, file>>,
           cache'[FileArgs] = cache[FileArgs]
    PROVE  /\ EntryOK'
           /\ \A w \in Threads \ {t} : Waits(w) => CoveredByEntry(w)'
<1>1. EntryOK'
  BY DEF IInv, EntryOK, StampOf
<1>2. \A w \in Threads \ {t} : Waits(w) => CoveredByEntry(w)'
  BY DEF IInv, WaiterOK, CoveredByEntry, Others, Unexposed
<1>3. QED
  BY <1>1, <1>2

\* A call begins with what the path names as its window.
LEMMA BeginKeepsIInv ==
    ASSUME IInv, TInv', NEW t \in Threads, NEW a \in Args, Begin(t, a)
    PROVE  IInv'
<1>1. /\ call'[t].at = "path" /\ call'[t].args = a
      /\ window'[t] = IF a = FileArgs THEN {Value} ELSE {}
      /\ UNCHANGED <<now, coarse, file, fd, cache>>
      /\ Others(t)
      /\ Value' = Value
  BY BeginEffect DEF IInv, TInv, Value
<1>2. StallOK(t)' /\ DescriptorOK(t)' /\ FillOK(t)' /\ AnswerOK(t)' /\ WaiterOK(t)' /\ WindowOK(t)'
  BY <1>1 DEF StallOK, DescriptorOK, FillOK, AnswerOK, WaiterOK, WindowOK, Waits, OnFile, Dating
<1>3. \A w \in Threads \ {t} : Waits(w) => CoveredBy(w, t)'
  BY <1>1 DEF IInv, WaiterOK, CoveredBy, Others, Dating
<1>4. DescriptorsShare'
  BY <1>1 DEF IInv, DescriptorsShare
<1>5. QED
  BY <1>1, <1>2, <1>3, <1>4, OneThread, EntryStays

\* Who comes to the lock has just seen the file that the stamp is of.
LEMMA StatKeepsIInv ==
    ASSUME IInv, TInv', NEW t \in Threads, Stat(t)
    PROVE  IInv'
<1>1. /\ call[t].at = "path" /\ call'[t].at = "lock" /\ call'[t].args = call[t].args
      /\ call'[t].current = IF OnFile(t) THEN StampOf(file) ELSE None
      /\ OnFile(t) => file \in File
      /\ UNCHANGED <<now, coarse, file, fd, cache, window>>
      /\ Others(t)
      /\ Value' = Value
  BY StatEffect DEF IInv, TInv, Value
<1>2. StallOK(t)' /\ DescriptorOK(t)' /\ FillOK(t)' /\ AnswerOK(t)' /\ WindowOK(t)'
  BY <1>1 DEF IInv, StallOK, DescriptorOK, FillOK, AnswerOK, WindowOK, OnFile, Dating, Running
<1>3. \A w \in Threads \ {t} : Waits(w) => CoveredBy(w, t)'
  BY <1>1 DEF IInv, WaiterOK, CoveredBy, Others, Dating
<1>4. DescriptorsShare'
  BY <1>1 DEF IInv, DescriptorsShare
<1>5. ASSUME Waits(t)'
      PROVE  CoveredByEntry(t)' /\ \A u \in Threads : CoveredBy(t, u)'
  <2>1. /\ file \in File /\ file # None /\ call'[t].current = StampOf(file)
        /\ file.data \in window[t] /\ file.data # None
    BY <1>1, <1>5, NoneAssumption DEF Waits, OnFile, IInv, WindowOK, Running, Value, File
  <2>2. file.data \notin Exposed => Unexposed(t)'
    BY <1>1, <2>1 DEF Unexposed
  <2>3. StampOf(file) # None /\ StampOf(file).ino = file.ino
    BY <2>1, StampOfType, NoneAssumption DEF StampOf
  <2>4. CoveredByEntry(t)'
    BY <1>1, <2>1, <2>2, <2>3 DEF IInv, EntryOK, CoveredByEntry
  <2>5. ASSUME NEW u \in Threads PROVE CoveredBy(t, u)'
    <3>1. fd[u] # None /\ fd[u].ino = file.ino => fd[u].data \in window[t]
      BY <2>1 DEF IInv, DescriptorsShare
    <3>2. Dating(u)' => u # t /\ Dating(u) /\ call'[u] = call[u]
      BY <1>1 DEF Others, Dating
    <3>3. Dating(u) /\ FstatSettled(u) /\ call[u].meta = StampOf(file) =>
             file.data \notin Exposed /\ (call[u].at = "parse" => file.data = call[u].text)
      BY <2>1 DEF IInv, FillOK
    <3>4. QED
      BY <1>1, <2>1, <2>2, <2>3, <3>1, <3>2, <3>3 DEF CoveredBy, FstatSettled
  <2>6. QED
    BY <2>4, <2>5
<1>6. WaiterOK(t)'
  BY <1>5 DEF WaiterOK
<1>7. QED
  BY <1>1, <1>2, <1>3, <1>4, <1>6, OneThread, EntryStays

\* A miss takes the lock and changes nothing others rely on.
LEMMA MissKeepsIInv ==
    ASSUME IInv, TInv', NEW t \in Threads, Miss(t)
    PROVE  IInv'
<1>1. /\ call[t].at = "lock" /\ call'[t].at = "open" /\ call'[t].args = call[t].args
      /\ UNCHANGED <<now, coarse, file, fd, cache, window>>
      /\ Others(t)
      /\ Value' = Value
  BY MissEffect DEF IInv, TInv, Value
<1>2. /\ StallOK(t)' /\ DescriptorOK(t)' /\ FillOK(t)' /\ AnswerOK(t)' /\ WindowOK(t)'
      /\ WaiterOK(t)'
  BY <1>1 DEF IInv, StallOK, DescriptorOK, FillOK, AnswerOK, WindowOK, WaiterOK, Waits,
              OnFile, Dating, Running
<1>3. \A w \in Threads \ {t} : Waits(w) => CoveredBy(w, t)'
  BY <1>1 DEF IInv, WaiterOK, CoveredBy, Others, Dating
<1>4. DescriptorsShare'
  BY <1>1 DEF IInv, DescriptorsShare
<1>5. QED
  BY <1>1, <1>2, <1>3, <1>4, OneThread, EntryStays

\* What is opened is what the path names, which every window has.
LEMMA OpenKeepsIInv ==
    ASSUME IInv, TInv', NEW t \in Threads, Open(t)
    PROVE  IInv'
<1>1. /\ call[t].at = "open" /\ call'[t].at = "fstat" /\ call'[t].args = call[t].args
      /\ file \in File /\ file # None /\ fd'[t] = file
      /\ UNCHANGED <<now, coarse, file, cache, window>>
      /\ Others(t)
      /\ Value' = Value /\ Value = file.data
  BY OpenEffect, NoneAssumption DEF IInv, TInv, Value
<1>2. OnFile(t)
  BY <1>1 DEF IInv, TInv, ThreadOK
<1>3. /\ StallOK(t)' /\ DescriptorOK(t)' /\ FillOK(t)' /\ AnswerOK(t)' /\ WindowOK(t)'
      /\ WaiterOK(t)'
  BY <1>1, <1>2 DEF IInv, StallOK, DescriptorOK, FillOK, AnswerOK, WindowOK, WaiterOK, Waits,
              OnFile, Dating, Running
<1>4. \A w \in Threads \ {t} : Waits(w) => CoveredBy(w, t)'
  BY <1>1 DEF IInv, WindowOK, Waits, CoveredBy, Others, Dating, Running
<1>5. DescriptorsShare'
  BY <1>1 DEF IInv, DescriptorsShare, Others
<1>6. QED
  BY <1>1, <1>3, <1>4, <1>5, OneThread, EntryStays

\* The stamp is of the inode whose permissions were looked at.
LEMMA FstatKeepsIInv ==
    ASSUME IInv, TInv', NEW t \in Threads, Fstat(t)
    PROVE  IInv'
<1>0. fd[t] \in File /\ fd[t] # None /\ fd[t].data # None /\ OnFile(t)
  BY NoneAssumption DEF Fstat, IInv, TInv, ThreadOK, File
<1>1. /\ call[t].at = "fstat" /\ call'[t].at = "read" /\ call'[t].args = call[t].args
      /\ fd[t].data \notin Exposed
      /\ call'[t].meta = StampOf(fd[t]) /\ call'[t].metaAt = now
      /\ UNCHANGED <<now, coarse, file, fd, cache, window>>
      /\ Others(t)
      /\ Value' = Value
  BY <1>0, FstatEffect DEF IInv, TInv, Value
<1>2. StampOf(fd[t]).ino = fd[t].ino
  BY DEF StampOf
<1>3. StallOK(t)'
  BY <1>1, TimesAssumption DEF StallOK, IInv, TInv, TypeOK, FileTypeOK
<1>4. DescriptorOK(t)' /\ AnswerOK(t)' /\ WaiterOK(t)'
  BY <1>1, <1>2 DEF DescriptorOK, AnswerOK, WaiterOK, Waits
<1>5. FillOK(t)'
  BY <1>0, <1>1 DEF IInv, FillOK, DescriptorsShare, StampOf
<1>6. WindowOK(t)'
  BY <1>0, <1>1 DEF IInv, WindowOK, Unexposed, OnFile, Running
<1>7. ASSUME NEW w \in Threads \ {t}, Waits(w) PROVE CoveredBy(w, t)'
  <2>1. fd[t].ino = call[w].current.ino => fd[t].data \in window[w]
    BY <1>0, <1>7 DEF IInv, WaiterOK, CoveredBy
  <2>2. call'[w].current = call[w].current
    BY <1>1, <1>7 DEF Others
  <2>3. QED
    BY <1>0, <1>1, <1>2, <2>1, <2>2 DEF CoveredBy, Unexposed
<1>8. DescriptorsShare'
  BY <1>1 DEF IInv, DescriptorsShare
<1>9. QED
  BY <1>1, <1>3, <1>4, <1>5, <1>6, <1>7, <1>8, OneThread, EntryStays

\* The text is that of the inode that was fstat'ed, so its stamp proves it.
LEMMA ReadKeepsIInv ==
    ASSUME IInv, TInv', NEW t \in Threads, Read(t)
    PROVE  IInv'
<1>0. fd[t] \in File /\ fd[t] # None /\ OnFile(t)
  BY NoneAssumption DEF Read, Goes, IInv, TInv, ThreadOK, File
<1>1. /\ call[t].at = "read" /\ call'[t].at = "parse" /\ call'[t].args = call[t].args
      /\ call'[t].meta = call[t].meta /\ call'[t].metaAt = call[t].metaAt
      /\ call'[t].text = fd[t].data
      /\ UNCHANGED <<now, coarse, file, fd, cache, window>>
      /\ Others(t)
      /\ Value' = Value
  BY <1>0, ReadEffect DEF IInv, TInv, Value
<1>2. call[t].meta.ino = fd[t].ino
  BY <1>1 DEF IInv, DescriptorOK
<1>3. StallOK(t)'
  BY <1>1 DEF StallOK, IInv, Dating
<1>4. DescriptorOK(t)' /\ AnswerOK(t)' /\ WaiterOK(t)'
  BY <1>1 DEF DescriptorOK, AnswerOK, WaiterOK, Waits
<1>5. FillOK(t)'
  <2>1. file # None /\ StampOf(file) = call[t].meta => fd[t] = file
    BY <1>0, <1>2 DEF IInv, DescriptorsShare, StampOf
  <2>2. QED
    BY <1>1, <2>1 DEF IInv, FillOK, FstatSettled, Dating, StampOf
<1>6. WindowOK(t)'
  BY <1>0, <1>1 DEF IInv, WindowOK, Unexposed, OnFile, Running, Dating
<1>7. ASSUME NEW w \in Threads \ {t}, Waits(w) PROVE CoveredBy(w, t)'
  <2>1. CoveredBy(w, t)
    BY <1>7 DEF IInv, WaiterOK
  <2>2. call'[w].current = call[w].current
    BY <1>1, <1>7 DEF Others
  <2>3. QED
    BY <1>0, <1>1, <1>2, <2>1, <2>2 DEF CoveredBy, Unexposed, FstatSettled, Dating
<1>8. DescriptorsShare'
  BY <1>1 DEF IInv, DescriptorsShare
<1>9. QED
  BY <1>1, <1>3, <1>4, <1>5, <1>6, <1>7, <1>8, OneThread, EntryStays

\* A thread at rest is covered by nobody and covers nobody.
LEMMA FinishKeepsIInv ==
    ASSUME IInv, TInv', NEW t \in Threads, Finish(t)
    PROVE  IInv'
<1>1. /\ call'[t].at = "idle"
      /\ UNCHANGED <<now, coarse, file, fd, cache>>
      /\ Others(t)
  BY FinishEffect DEF IInv, TInv
<1>2. /\ StallOK(t)' /\ DescriptorOK(t)' /\ FillOK(t)' /\ AnswerOK(t)' /\ WindowOK(t)'
      /\ WaiterOK(t)'
  BY <1>1 DEF StallOK, DescriptorOK, FillOK, AnswerOK, WindowOK, WaiterOK, Waits,
              Dating, Running
<1>3. \A w \in Threads \ {t} : Waits(w) => CoveredBy(w, t)'
  BY <1>1 DEF IInv, WaiterOK, CoveredBy, Others, Dating
<1>4. DescriptorsShare'
  BY <1>1 DEF IInv, DescriptorsShare
<1>5. QED
  BY <1>1, <1>2, <1>3, <1>4, OneThread, EntryStays

\* A return gives up the caller's locals and its descriptor: what it has to
\* show is where its result comes from, and what it leaves in the map.
LEMMA ReturnKeepsIInv ==
    ASSUME IInv, TInv', NEW t \in Threads, NEW from, NEW r, Returns(t, from, r),
           OnFile(t) => Explains(t, r),
           EntryOK', \A w \in Threads \ {t} : Waits(w) => CoveredByEntry(w)'
    PROVE  IInv'
<1>1. /\ call'[t].at = "done" /\ call'[t].args = call[t].args
      /\ config'[t] = r /\ fd'[t] = None
      /\ UNCHANGED <<now, coarse, file, window>>
      /\ Others(t)
  BY ReturnsEffect DEF IInv, TInv
<1>2. /\ StallOK(t)' /\ DescriptorOK(t)' /\ FillOK(t)' /\ WindowOK(t)' /\ WaiterOK(t)'
  BY <1>1 DEF StallOK, DescriptorOK, FillOK, WindowOK, WaiterOK, Waits, Dating, Running
<1>3. AnswerOK(t)'
  BY <1>1 DEF AnswerOK, Explains, Unexposed, OnFile, AnswersOf
<1>4. \A w \in Threads \ {t} : Waits(w) => CoveredBy(w, t)'
  BY <1>1 DEF CoveredBy, Dating
<1>5. DescriptorsShare'
  BY <1>1 DEF IInv, DescriptorsShare, Others
<1>6. QED
  BY <1>1, <1>2, <1>3, <1>4, <1>5, OneThread

\* What each version of the file lets a caller be told.
LEMMA AnswersAre ==
    /\ \A v \in Contents \cup {None} : "error" \in AnswersOf[v]
    /\ \A v \in Contents : Parsed[v] # None => Parsed[v] \in AnswersOf[v]
BY NoneAssumption DEF AnswersOf

\* An end that leaves the entry of the file alone.
LEMMA EndsKeepIInv ==
    ASSUME IInv, TInv', NEW t \in Threads, Ends(t), ~Insert(t)
    PROVE  IInv'
<1>1. cache'[FileArgs] = cache[FileArgs]
  BY EndsEffect DEF IInv
<1>2. /\ "error" \notin Configs
      /\ window[t] \subseteq Contents \cup {None}
  BY ArgsAssumption DEF IInv, TInv, TypeOK
<1>3. ASSUME NEW from, NEW r, Returns(t, from, r), OnFile(t) => Explains(t, r)
      PROVE  IInv'
  <2>1. UNCHANGED <<coarse, file>> /\ Others(t)
    BY <1>3, ReturnsEffect DEF IInv, TInv
  <2>2. EntryOK' /\ \A w \in Threads \ {t} : Waits(w) => CoveredByEntry(w)'
    BY <1>1, <2>1, EntryStays
  <2>3. QED
    BY <1>3, <2>2, ReturnKeepsIInv
<1>4. CASE PathFails(t) \/ FileFails(t)
  <2>1. PICK from \in Running : Returns(t, from, "error")
    BY <1>4 DEF PathFails, FileFails, OpenFails, FstatFails, FstatRefuses, ReadFails, ParseFails,
                Running
  <2>2. OnFile(t) => Value \in window[t]
    BY <2>1 DEF Returns, Goes, IInv, WindowOK
  <2>3. OnFile(t) => Explains(t, "error")
    BY <1>2, <2>2, AnswersAre DEF Explains
  <2>4. QED
    BY <1>3, <2>1, <2>3
<1>5. CASE Hit(t)
  <2>1. ASSUME OnFile(t) PROVE Explains(t, cache[call[t].args].config)
    <3>1. /\ Waits(t) /\ call[t].args = FileArgs
          /\ cache[FileArgs] # None /\ cache[FileArgs].stamp = call[t].current
      BY <1>5, <2>1 DEF Hit, AtLock, Fresh, Waits, OnFile
    <3>2. /\ Unexposed(t)
          /\ \E x \in window[t] \ {None} : cache[FileArgs].config = Parsed[x]
      BY <3>1 DEF IInv, WaiterOK, CoveredByEntry
    <3>3. cache[FileArgs].config \in Configs /\ None \notin Configs
      BY <3>1, FilesAssumption DEF IInv, TInv, FileEntry
    <3>4. PICK x \in window[t] \ {None} : cache[FileArgs].config = Parsed[x]
      BY <3>2
    <3>5. cache[FileArgs].config \in AnswersOf[x]
      BY <1>2, <3>3, <3>4, AnswersAre
    <3>6. QED
      BY <3>1, <3>2, <3>5 DEF Explains
  <2>2. QED
    BY <1>3, <1>5, <2>1 DEF Hit
<1>6. CASE Inline(t)
  <2>1. ~OnFile(t)
    BY <1>6, ArgsAssumption DEF Inline, OnFile
  <2>2. QED
    BY <1>3, <1>6, <2>1 DEF Inline
<1>7. CASE InlineFails(t)
  <2>1. ~OnFile(t)
    BY <1>7, ArgsAssumption DEF InlineFails, OnFile
  <2>2. QED
    BY <1>3, <1>7, <2>1 DEF InlineFails
<1>8. QED
  BY <1>4, <1>5, <1>6, <1>7 DEF Ends

\* A stamp that is settled was taken a tick after the change it records.
LEMMA SettledStamps ==
    ASSUME IInv, Prompt, NEW t \in Threads, call[t].at = "parse", Settled(call[t].meta) # None
    PROVE  /\ Settled(call[t].meta) = call[t].meta
           /\ FstatSettled(t)
           /\ call[t].meta.ctime < coarse
<1>1. /\ call[t].meta.ctime \in Nat /\ call[t].metaAt \in Nat /\ now \in Nat /\ coarse \in Nat
  BY DEF IInv, TInv, TypeOK, FileTypeOK, ThreadOK, Stamp, Locals
<1>2. now <= call[t].metaAt + Stall /\ now < coarse + Tick
  BY DEF IInv, StallOK, Dating, ClockOK
<1>3. Settled(call[t].meta) = call[t].meta /\ now >= call[t].meta.ctime + SETTLE_TIME
  BY DEF Settled
<1>4. \A m, at, n, c \in Nat : 
         n <= at + Stall /\ n < c + Tick /\ n >= m + SETTLE_TIME => at >= m + Tick /\ m < c
  BY TimesAssumption, TickAssumption DEF Prompt
<1>5. QED
  BY <1>1, <1>2, <1>3, <1>4 DEF FstatSettled

\* What is inserted is sound, and in the window of whoever waits with its stamp.
LEMMA InsertKeepsIInv ==
    ASSUME IInv, TInv', Prompt, NEW t \in Threads, Insert(t)
    PROVE  IInv'
<1>1. /\ call[t].at = "parse" /\ Dating(t)
      /\ Returns(t, "parse", Parsed[call[t].text])
  BY DEF Insert, Dating
<1>2. /\ cache'[FileArgs] = [stamp |-> Settled(call[t].meta), config |-> Parsed[call[t].text]]
      /\ Parsed[call[t].text] \in Configs
      /\ Parsed[call[t].text] # None
  BY EndsEffect, FilesAssumption DEF Ends, IInv, Insert
<1>3. /\ cache'[FileArgs].stamp = Settled(call[t].meta)
      /\ cache'[FileArgs].config = Parsed[call[t].text]
  BY <1>2
<1>4. UNCHANGED <<now, coarse, file, window>> /\ Others(t)
  BY <1>1, ReturnsEffect DEF IInv, TInv
<1>5. call[t].text \in window[t] /\ Unexposed(t) /\ call[t].text \in Contents \ {None}
  BY <1>1, NoneAssumption DEF IInv, TInv, ThreadOK, WindowOK
<1>6. Explains(t, Parsed[call[t].text])
  BY <1>2, <1>5, AnswersAre DEF Explains
<1>7. EntryOK'
  <2> SUFFICES ASSUME Settled(call[t].meta) # None
               PROVE  /\ Settled(call[t].meta).ctime < coarse
                      /\ file # None /\ StampOf(file) = Settled(call[t].meta) =>
                            /\ file.data \notin Exposed
                            /\ Parsed[call[t].text] = Parsed[file.data]
    BY <1>3, <1>4 DEF EntryOK, StampOf
  <2>1. /\ Settled(call[t].meta) = call[t].meta /\ FstatSettled(t)
        /\ call[t].meta.ctime < coarse
    BY <1>1, SettledStamps
  <2>2. QED
    BY <1>1, <2>1 DEF IInv, FillOK
<1>8. ASSUME NEW w \in Threads \ {t}, Waits(w) PROVE CoveredByEntry(w)'
  <2> SUFFICES ASSUME Settled(call[t].meta) = call[w].current
               PROVE  /\ Unexposed(w)
                      /\ \E x \in window[w] \ {None} : Parsed[call[t].text] = Parsed[x]
    BY <1>3, <1>4 DEF CoveredByEntry, Others, Unexposed
  <2>1. call[w].current # None
    BY <1>8, NoneAssumption DEF Waits, IInv, TInv, ThreadOK
  <2>2. call[t].meta = call[w].current /\ FstatSettled(t)
    BY <1>1, <2>1, SettledStamps
  <2>3. CoveredBy(w, t)
    BY <1>8 DEF IInv, WaiterOK
  <2>4. QED
    BY <1>1, <1>5, <2>2, <2>3 DEF CoveredBy
<1>9. QED
  BY <1>1, <1>6, <1>7, <1>8, ReturnKeepsIInv

\* Time only moves the coarse clock away from the stamps in use.
LEMMA PassTimeKeepsIInv ==
    ASSUME IInv, TInv', PassTime
    PROVE  IInv'
<1>1. /\ UNCHANGED <<file, fd, cache, call, config, window>> /\ Value' = Value
      /\ ClockOK' /\ coarse <= coarse' /\ now' = now + 1
  BY AdvanceKeepsClock DEF PassTime, IInv, TInv, TypeOK, Value
<1>2. now \in Nat /\ coarse \in Nat /\ coarse' \in Nat
  BY DEF IInv, TInv, TypeOK, FileTypeOK
<1>3. ASSUME NEW t \in Threads PROVE StallOK(t)'
  <2>1. call[t].metaAt \in Nat
    BY DEF IInv, TInv, TypeOK, Locals
  <2>2. Dating(t) => call[t].metaAt <= now /\ now < call[t].metaAt + Stall
    BY DEF IInv, StallOK, PassTime, Dating
  <2>3. QED
    BY <1>1, <1>2, <2>1, <2>2, TimesAssumption DEF StallOK, Dating
<1>4. EntryOK'
  <2>1. cache[FileArgs] # None /\ cache[FileArgs].stamp # None => cache[FileArgs].stamp.ctime \in Nat
    BY DEF IInv, TInv, TypeOK, Args, Entry, Stamp
  <2>2. QED
    BY <1>1, <1>2, <2>1 DEF IInv, EntryOK, StampOf
<1>5. ASSUME NEW t \in Threads
      PROVE  DescriptorOK(t)' /\ FillOK(t)' /\ WindowOK(t)' /\ AnswerOK(t)'
  BY <1>1 DEF IInv, DescriptorOK, FillOK, FstatSettled, StampOf, WindowOK, AnswerOK, Explains,
              Unexposed, Dating, OnFile, AnswersOf
<1>6. ASSUME NEW w \in Threads PROVE WaiterOK(w)'
  BY <1>1 DEF IInv, WaiterOK, Waits, CoveredByEntry, CoveredBy, Unexposed, Dating, FstatSettled,
              OnFile
<1>7. DescriptorsShare'
  BY <1>1 DEF IInv, DescriptorsShare
<1>8. QED
  BY <1>1, <1>3, <1>4, <1>5, <1>6, <1>7 DEF IInv

\* A changed file has a stamp nobody has proved anything about, and what it
\* changed to is in every window.
LEMMA MaintainKeepsIInv ==
    ASSUME IInv, TInv', Maintain
    PROVE  IInv'
<1>1. /\ UNCHANGED <<now, coarse, cache, call, config>>
      /\ file' # None => file'.ctime = coarse
      /\ DescriptorsShare'
      /\ \A t \in Threads : fd'[t] # None =>
            /\ fd[t] # None
            /\ fd'[t].ino = fd[t].ino
            /\ fd'[t].data \in {fd[t].data, Value'}
  BY ChangeFileEffect DEF Maintain, IInv, TInv, TypeOK
<1>2. /\ \A t \in Threads : window[t] \subseteq window'[t]
      /\ \A t \in Threads : OnFile(t) /\ call[t].at \in Running => Value' \in window'[t]
      /\ \A t \in Threads : call[t].at = "done" => window'[t] = window[t]
  BY DEF Maintain, IInv, TInv, TypeOK, Running
<1>3. \A t \in Threads : Unexposed(t) => Unexposed(t)'
  BY <1>2 DEF Unexposed
<1>4. now \in Nat /\ coarse \in Nat
  BY DEF IInv, TInv, TypeOK, FileTypeOK
<1>5. ClockOK' /\ \A t \in Threads : StallOK(t)'
  BY <1>1 DEF IInv, ClockOK, StallOK, Dating
<1>6. ASSUME NEW t \in Threads PROVE DescriptorOK(t)' /\ WindowOK(t)'
  <2>1. call[t].at \in {"fstat", "read"} => fd[t] # None /\ fd'[t] # None
    BY <1>1, NoneAssumption DEF IInv, TInv, ThreadOK
  <2>2. call[t].at \in {"open", "fstat", "read", "parse"} => OnFile(t)
    BY DEF IInv, TInv, ThreadOK
  <2>3. DescriptorOK(t)'
    BY <1>1, <2>1 DEF IInv, DescriptorOK
  <2>4. QED
    BY <1>1, <1>2, <1>3, <2>1, <2>2, <2>3 DEF IInv, WindowOK, Dating, OnFile, Running
<1>7. ASSUME NEW t \in Threads PROVE FillOK(t)'
  <2> SUFFICES ASSUME Dating(t), FstatSettled(t), file' # None, StampOf(file') = call[t].meta
               PROVE  FALSE
    BY <1>1 DEF FillOK, FstatSettled, Dating, StampOf
  <2>1. call[t].meta.ctime = coarse
    BY <1>1 DEF StampOf
  <2>2. call[t].metaAt \in Nat /\ call[t].metaAt <= now /\ now < coarse + Tick
    BY DEF IInv, TInv, TypeOK, Locals, StallOK, ClockOK
  <2>3. QED
    BY <1>4, <2>1, <2>2, TickAssumption DEF FstatSettled
<1>8. EntryOK'
  <2>1. ASSUME cache[FileArgs] # None, cache[FileArgs].stamp # None, file' # None
        PROVE  StampOf(file') # cache[FileArgs].stamp
    <3>1. cache[FileArgs].stamp.ctime \in Nat
      BY <2>1 DEF IInv, TInv, TypeOK, Args, Entry, Stamp
    <3>2. StampOf(file').ctime = coarse
      BY <1>1, <2>1 DEF StampOf
    <3>3. QED
      BY <1>4, <2>1, <3>1, <3>2 DEF IInv, EntryOK
  <2>2. QED
    BY <1>1, <2>1 DEF IInv, EntryOK
<1>9. ASSUME NEW t \in Threads PROVE AnswerOK(t)'
  BY <1>1, <1>2, <1>3 DEF IInv, AnswerOK, Explains, OnFile, AnswersOf
<1>10. ASSUME NEW w \in Threads PROVE WaiterOK(w)'
  <2> SUFFICES ASSUME Waits(w) PROVE CoveredByEntry(w)' /\ \A u \in Threads : CoveredBy(w, u)'
    BY <1>1 DEF WaiterOK, Waits, OnFile
  <2>1. CoveredByEntry(w) /\ \A u \in Threads : CoveredBy(w, u)
    BY DEF IInv, WaiterOK
  <2>2. Value' \in window'[w]
    BY <1>2 DEF Waits, Running
  <2>3. CoveredByEntry(w)'
    BY <1>1, <1>2, <1>3, <2>1 DEF CoveredByEntry
  <2>4. ASSUME NEW u \in Threads PROVE CoveredBy(w, u)'
    BY <1>1, <1>2, <1>3, <2>1, <2>2 DEF CoveredBy, Dating, FstatSettled
  <2>5. QED
    BY <2>3, <2>4
<1>11. QED
  BY <1>1, <1>5, <1>6, <1>7, <1>8, <1>9, <1>10 DEF IInv

\* Every step of Next, one case each; Prompt is for Insert.
LEMMA IInvNext == Prompt /\ IInv /\ [Next]_vars => IInv'
<1> SUFFICES ASSUME Prompt, IInv, [Next]_vars PROVE IInv'
  OBVIOUS
<1>1. TInv'
  BY TInvNext DEF IInv
<1>2. CASE PassTime
  BY <1>1, <1>2, PassTimeKeepsIInv
<1>3. CASE Maintain
  BY <1>1, <1>3, MaintainKeepsIInv
<1>4. ASSUME NEW t \in Threads, Step(t) PROVE IInv'
  BY <1>1, <1>4, StatKeepsIInv, MissKeepsIInv, OpenKeepsIInv, FstatKeepsIInv, ReadKeepsIInv,
     EndsKeepIInv, InsertKeepsIInv DEF Step, Ends, FileFails
<1>5. ASSUME NEW t \in Threads, Finish(t) \/ \E a \in Args : Begin(t, a) PROVE IInv'
  BY <1>1, <1>5, FinishKeepsIInv, BeginKeepsIInv
<1>6. CASE UNCHANGED vars
  <2>1. UNCHANGED <<now, coarse, file, fd, cache, call, config, window>> /\ Value' = Value
    BY <1>6 DEF vars, fileVars, Value
  <2>2. ASSUME NEW t \in Threads
        PROVE  /\ StallOK(t)' /\ DescriptorOK(t)' /\ FillOK(t)' /\ WindowOK(t)' /\ AnswerOK(t)'
    BY <2>1 DEF IInv, StallOK, DescriptorOK, FillOK, FstatSettled, StampOf, WindowOK, AnswerOK,
                Explains, Unexposed, Dating, OnFile, AnswersOf
  <2>3. ASSUME NEW w \in Threads PROVE WaiterOK(w)'
    BY <2>1 DEF IInv, WaiterOK, Waits, CoveredByEntry, CoveredBy, Unexposed, Dating,
                FstatSettled, OnFile
  <2>4. ClockOK' /\ DescriptorsShare' /\ EntryOK'
    BY <2>1 DEF IInv, ClockOK, DescriptorsShare, EntryOK, StampOf
  <2>5. QED
    BY <1>1, <2>2, <2>3, <2>4 DEF IInv
<1>7. QED
  BY <1>2, <1>3, <1>4, <1>5, <1>6 DEF Next

\* If an insert comes within SETTLE_TIME less a tick of the fstat, a stamp of
\* the map that matches the file proves that the file has the text the
\* configuration was parsed from, and permissions that were not refused.
THEOREM EntriesCurrent == Prompt => (Spec => []CachedIsCurrent)
<1> SUFFICES ASSUME Prompt PROVE Spec => []CachedIsCurrent
  OBVIOUS
<1>1. Init => IInv
  BY IInvInit
<1>2. IInv /\ [Next]_vars => IInv'
  BY IInvNext
<1>3. IInv => CachedIsCurrent
  <2> SUFFICES ASSUME IInv, file # None PROVE CachedIsCurrent
    BY DEF CachedIsCurrent
  <2>1. StampOf(file) # None
    BY StampOfType, NoneAssumption DEF IInv, TInv, TypeOK, FileTypeOK
  <2>2. QED
    BY <2>1 DEF IInv, EntryOK, CachedIsCurrent
<1>4. QED
  BY <1>1, <1>2, <1>3, PTL DEF Spec

\* Under the same condition no configuration, cached or read, is taken from a
\* file that was open to writes by others during all of the call: the
\* permissions of a cached one need no second look.
THEOREM ExposedNeverUsed == Prompt => (Spec => []NeverFromExposed)
<1> SUFFICES ASSUME Prompt PROVE Spec => []NeverFromExposed
  OBVIOUS
<1>1. Init => IInv
  BY IInvInit
<1>2. IInv /\ [Next]_vars => IInv'
  BY IInvNext
<1>3. IInv => NeverFromExposed
  <2> SUFFICES ASSUME IInv, NEW t \in Threads, OnFile(t), config[t] \in Configs
               PROVE  Unexposed(t)
    BY DEF NeverFromExposed, Unexposed
  <2>1. call[t].at = "done"
    BY FilesAssumption DEF IInv, TInv, ThreadOK
  <2>2. QED
    BY <2>1 DEF IInv, AnswerOK, Explains
<1>4. QED
  BY <1>1, <1>2, <1>3, PTL DEF Spec

------------------------------------------------------------------------------
(* cache::config implements FreshRead.                                     *)

\* Where a thread is, and what it was told, as FreshRead has it.
ReadAt  == [t \in Threads |-> IF ~OnFile(t) THEN "idle"
                              ELSE IF call[t].at = "done" THEN "done" ELSE "running"]
ReadAnswer == [t \in Threads |-> IF OnFile(t) THEN config[t] ELSE None]

\* The initial states are those of a reader that has not called.
LEMMA InitIsRead == Init => FileReads!Init
<1> SUFFICES ASSUME Init PROVE FileReads!Init
  OBVIOUS
<1>1. Value \in Contents \cup {None}
  BY TInvInit DEF TInv, TypeOK, FileTypeOK, File, Value
<1>2. \A t \in Threads : ~OnFile(t)
  BY ArgsAssumption DEF Init, OnFile, AtRest, Args
<1>3. ReadAt = [t \in Threads |-> "idle"] /\ ReadAnswer = [t \in Threads |-> None]
  BY <1>2 DEF ReadAt, ReadAnswer
<1>4. QED
  BY <1>1, <1>3 DEF Init, FileReads!Init, ReadAt, ReadAnswer

\* A call that is about the file is on its way or done.
LEMMA RunningReads ==
    ASSUME TInv
    PROVE  \A t \in Threads : ReadAt[t] = "running" <=> OnFile(t) /\ call[t].at \in Running
<1> SUFFICES ASSUME NEW t \in Threads
             PROVE  ReadAt[t] = "running" <=> OnFile(t) /\ call[t].at \in Running
  OBVIOUS
<1>1. call[t].at \in Running \cup {"idle", "done"} /\ (OnFile(t) => call[t].at # "idle")
  BY ArgsAssumption DEF TInv, TypeOK, Locals, ThreadOK, OnFile, Args
<1>2. QED
  BY <1>1 DEF ReadAt, Running

\* Any change of the file is a Change.
LEMMA MaintainIsChange == TInv /\ TInv' /\ Maintain => FileReads!Change
<1> SUFFICES ASSUME TInv, TInv', Maintain PROVE FileReads!Change
  OBVIOUS
<1>1. Value' \in Contents \cup {None}
  BY DEF TInv, TypeOK, FileTypeOK, File, Value
<1>2. window' = [t \in Threads |-> IF ReadAt[t] = "running" THEN window[t] \cup {Value'}
                                                             ELSE window[t]]
  BY RunningReads DEF Maintain
<1>3. ReadAt' = ReadAt /\ ReadAnswer' = ReadAnswer
  BY DEF Maintain, ReadAt, ReadAnswer, OnFile
<1>4. QED
  BY <1>1, <1>2, <1>3 DEF FileReads!Change, ReadAt, ReadAnswer

\* A call with config= begins a read; any other does not show.
LEMMA BeginReads ==
    ASSUME TInv, NEW t \in Threads, NEW a \in Args, Begin(t, a)
    PROVE  FileReads!Begin(t) \/ UNCHANGED FileReads!vars
<1>1. /\ call[t].at = "idle" /\ call'[t].at = "path" /\ call'[t].args = a
      /\ window'[t] = IF a = FileArgs THEN {Value} ELSE {}
      /\ UNCHANGED <<file, config>> /\ Others(t)
  BY BeginEffect DEF TInv
<1>2. ~OnFile(t) /\ window[t] = {} /\ config[t] = None
  BY <1>1, ArgsAssumption DEF TInv, ThreadOK, OnFile, Args
<1>3. Value' = Value
  BY <1>1 DEF Value
<1>4. CASE a = FileArgs
  <2>1. ReadAt[t] = "idle" /\ ReadAt' = [ReadAt EXCEPT ![t] = "running"]
    BY <1>1, <1>2, <1>4 DEF ReadAt, OnFile, Others
  <2>2. ReadAnswer' = ReadAnswer
    BY <1>1, <1>2 DEF ReadAnswer, OnFile, Others
  <2>3. window' = [window EXCEPT ![t] = {Value}]
    BY <1>4 DEF Begin
  <2>4. QED
    BY <1>3, <2>1, <2>2, <2>3 DEF FileReads!Begin, ReadAt, ReadAnswer
<1>5. CASE a # FileArgs
  <2>1. ReadAt' = ReadAt /\ ReadAnswer' = ReadAnswer
    BY <1>1, <1>2, <1>5 DEF ReadAt, ReadAnswer, OnFile, Others
  <2>2. window' = window
    BY <1>2, <1>5 DEF Begin, TInv, TypeOK
  <2>3. QED
    BY <1>3, <2>1, <2>2 DEF FileReads!vars, ReadAt, ReadAnswer
<1>6. QED
  BY <1>4, <1>5

\* Finish is the end of the abstract call.
LEMMA FinishReads ==
    ASSUME TInv, NEW t \in Threads, Finish(t)
    PROVE  FileReads!Finish(t) \/ UNCHANGED FileReads!vars
<1>1. /\ call[t].at = "done" /\ call'[t].args = None
      /\ UNCHANGED file /\ Others(t)
  BY FinishEffect DEF TInv
<1>2. Value' = Value /\ ~OnFile(t)'
  BY <1>1, ArgsAssumption DEF Value, OnFile, Args
<1>3. window' = [window EXCEPT ![t] = {}]
  BY DEF Finish
<1>4. CASE OnFile(t)
  <2>1. ReadAt[t] = "done" /\ ReadAt' = [ReadAt EXCEPT ![t] = "idle"]
    BY <1>1, <1>2, <1>4 DEF ReadAt, OnFile, Others
  <2>2. ReadAnswer' = [ReadAnswer EXCEPT ![t] = None]
    BY <1>1, <1>2, <1>4 DEF ReadAnswer, OnFile, Others
  <2>3. QED
    BY <1>2, <1>3, <2>1, <2>2 DEF FileReads!Finish, ReadAt, ReadAnswer
<1>5. CASE ~OnFile(t)
  <2>1. ReadAt' = ReadAt /\ ReadAnswer' = ReadAnswer
    BY <1>1, <1>2, <1>5 DEF ReadAt, ReadAnswer, OnFile, Others
  <2>2. window' = window
    BY <1>3, <1>5 DEF TInv, TypeOK, ThreadOK
  <2>3. QED
    BY <1>2, <2>1, <2>2 DEF FileReads!vars, ReadAt, ReadAnswer
<1>6. QED
  BY <1>4, <1>5

\* The steps inside a call do not show.
LEMMA InnerStepsHide ==
    ASSUME TInv, NEW t \in Threads, Stat(t) \/ Miss(t) \/ Open(t) \/ Fstat(t) \/ Read(t)
    PROVE  UNCHANGED FileReads!vars
<1>1. /\ call[t].at # "done" /\ call'[t].at # "done" /\ call'[t].args = call[t].args
      /\ UNCHANGED <<file, config, window>> /\ Others(t)
  <2>1. call[t].at \in {"fstat", "read"} => fd[t] \in File
    BY DEF TInv, ThreadOK
  <2>2. CASE Stat(t)
    BY <2>2, StatEffect DEF TInv
  <2>3. CASE Miss(t)
    BY <2>3, MissEffect DEF TInv
  <2>4. CASE Open(t)
    BY <2>4, OpenEffect DEF TInv
  <2>5. CASE Fstat(t)
    <3>1. fd[t] \in File
      BY <2>1, <2>5 DEF Fstat
    <3>2. QED
      BY <2>5, <3>1, FstatEffect DEF TInv
  <2>6. CASE Read(t)
    <3>1. fd[t] \in File
      BY <2>1, <2>6 DEF Read, Goes
    <3>2. QED
      BY <2>6, <3>1, ReadEffect DEF TInv
  <2>7. QED
    BY <2>2, <2>3, <2>4, <2>5, <2>6
<1>2. ReadAt' = ReadAt /\ ReadAnswer' = ReadAnswer /\ Value' = Value
  BY <1>1 DEF ReadAt, ReadAnswer, OnFile, Others, Value
<1>3. QED
  BY <1>1, <1>2 DEF FileReads!vars, ReadAt, ReadAnswer

\* The end of a call about the file is a Return with an answer of its window;
\* that the invariant explains the result is all that is needed.
LEMMA EndsAreReturns ==
    ASSUME IInv, IInv', NEW t \in Threads, Ends(t)
    PROVE  FileReads!Return(t) \/ UNCHANGED FileReads!vars
<1>1. PICK from \in Running, r \in Configs \cup InlineArgs \cup {"error"} : Returns(t, from, r)
  BY EndsReturn DEF IInv
<1>2. /\ call[t].at \in Running /\ call'[t].at = "done" /\ call'[t].args = call[t].args
      /\ config'[t] = r
      /\ UNCHANGED <<file, window>> /\ Others(t)
  BY <1>1, ReturnsEffect DEF IInv, TInv
<1>3. Value' = Value
  BY <1>2 DEF Value
<1>4. CASE OnFile(t)
  <2>1. ReadAt[t] = "running" /\ ReadAt' = [ReadAt EXCEPT ![t] = "done"]
    BY <1>2, <1>4 DEF ReadAt, OnFile, Others, Running
  <2>2. ReadAnswer' = [ReadAnswer EXCEPT ![t] = r]
    BY <1>2, <1>4 DEF ReadAnswer, OnFile, Others
  <2>3. \E v \in window[t] : r \in AnswersOf[v]
    BY <1>2, <1>4 DEF IInv, AnswerOK, Explains, OnFile, AnswersOf
  <2>4. QED
    BY <1>2, <1>3, <2>1, <2>2, <2>3 DEF FileReads!Return, ReadAt, ReadAnswer
<1>5. CASE ~OnFile(t)
  <2>1. ReadAt' = ReadAt /\ ReadAnswer' = ReadAnswer
    BY <1>2, <1>5 DEF ReadAt, ReadAnswer, OnFile, Others
  <2>2. QED
    BY <1>2, <1>3, <2>1 DEF FileReads!vars, ReadAt, ReadAnswer
<1>6. QED
  BY <1>4, <1>5

\* Every step is one of the abstract reader or a stutter.
LEMMA NextIsRead == IInv /\ IInv' /\ [Next]_vars => [FileReads!Next]_(FileReads!vars)
<1> SUFFICES ASSUME IInv, IInv', [Next]_vars PROVE [FileReads!Next]_(FileReads!vars)
  OBVIOUS
<1>1. TInv /\ TInv'
  BY DEF IInv
<1>2. CASE PassTime \/ UNCHANGED vars
  <2>1. UNCHANGED <<file, call, config, window>>
    BY <1>2 DEF PassTime, Advance, vars, fileVars
  <2>2. QED
    BY <2>1 DEF FileReads!vars, Value, OnFile
<1>3. CASE Maintain
  BY <1>1, <1>3, MaintainIsChange DEF FileReads!Next
<1>4. ASSUME NEW t \in Threads, Step(t) \/ Finish(t) \/ \E a \in Args : Begin(t, a)
      PROVE  [FileReads!Next]_(FileReads!vars)
  <2>1. CASE \E a \in Args : Begin(t, a)
    BY <1>1, <2>1, BeginReads DEF FileReads!Next
  <2>2. CASE Finish(t)
    BY <1>1, <2>2, FinishReads DEF FileReads!Next
  <2>3. CASE Stat(t) \/ Miss(t) \/ Open(t) \/ Fstat(t) \/ Read(t)
    BY <1>1, <2>3, InnerStepsHide
  <2>4. CASE Ends(t)
    BY <2>4, EndsAreReturns DEF FileReads!Next
  <2>5. QED
    BY <1>4, <2>1, <2>2, <2>3, <2>4 DEF Step, Ends, FileFails
<1>5. QED
  BY <1>2, <1>3, <1>4 DEF Next

\* Under Prompt the map is invisible: what cache::config tells a caller with
\* config= is what a reader of the file, without map, stamp or lock, could be
\* told.
THEOREM ConfigReadsFresh == Prompt => (Spec => ConfigIsFreshRead)
<1> SUFFICES ASSUME Prompt PROVE Spec => ConfigIsFreshRead
  OBVIOUS
<1>1. Init => IInv
  BY IInvInit
<1>2. IInv /\ [Next]_vars => IInv'
  BY IInvNext
<1>3. Init => FileReads!Init
  BY InitIsRead
<1>4. IInv /\ IInv' /\ [Next]_vars => [FileReads!Next]_(FileReads!vars)
  BY NextIsRead
<1>5. QED
  BY <1>1, <1>2, <1>3, <1>4, PTL DEF Spec, ConfigIsFreshRead, FileReads!Spec

==============================================================================
