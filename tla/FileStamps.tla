------------------------------ MODULE FileStamps ------------------------------
(***************************************************************************)
(* A file named by a path, the descriptors threads hold on it, the clock   *)
(* and the coarse clock that dates the file's changes: what the caches of  *)
(* pam/src/cache.rs see of the operating system.  The file system itself   *)
(* is external to the repository; Stamp is the code's.                     *)
(*                                                                         *)
(* The kernel dates a change with a clock that is only refreshed once per  *)
(* timestamp tick, so every change within a tick carries the same time.    *)
(* A rewrite in place keeps the inode; a replacement by rename brings      *)
(* another one.  An inode number is reused once nothing refers to it.      *)
(* A torn rewrite is two rewrites, the first one with unusable contents.   *)
(***************************************************************************)
EXTENDS Integers

CONSTANTS
    Threads,    \* threads that may hold the file open
    Inodes,     \* inode numbers (with the device number)
    Contents,   \* what the file may contain
    Size,       \* the length of each of the contents
    Tick,       \* length of a timestamp tick, in units of the clock
    MaxTime,    \* bound on the clock
    None

VARIABLES
    now,        \* SystemTime::now()
    coarse,     \* the kernel's clock for timestamps
    file,       \* what the path names, or None
    fd          \* what each thread holds open, or None

fileVars == <<now, coarse, file, fd>>

File  == [ino: Inodes, data: Contents, ctime: Nat]
Stamp == [ino: Inodes, len: Nat, ctime: Nat]

ASSUME TickAssumption == Tick \in Nat \ {0} /\ MaxTime \in Nat
ASSUME SizeAssumption == Size \in [Contents -> Nat]
ASSUME NoneAssumption ==
    None \notin File \cup Stamp \cup Contents \cup Threads

\* Stamp::of.  A write dates mtime and ctime alike, and nothing sets mtime
\* back without moving ctime, so one time stands for the two.
StampOf(f) == [ino |-> f.ino, len |-> Size[f.data], ctime |-> f.ctime]

\* What a reader of the path would get.
Value == IF file = None THEN None ELSE file.data

FileTypeOK ==
    /\ now \in Nat
    /\ coarse \in Nat
    /\ file \in File \cup {None}
    /\ fd \in [Threads -> File \cup {None}]

FileInit ==
    /\ now = 0
    /\ coarse = 0
    /\ fd = [t \in Threads |-> None]
    /\ file \in [ino: Inodes, data: Contents, ctime: {0}]

------------------------------------------------------------------------------
\* Time passes; the coarse clock follows, less than a tick behind.
Advance ==
    /\ now < MaxTime
    /\ now' = now + 1
    /\ coarse' \in {coarse, now + 1}
    /\ now + 1 - coarse' < Tick
    /\ UNCHANGED <<file, fd>>

\* A descriptor on the inode the path names sees that inode become f.
Through(f) ==
    [t \in Threads |-> IF fd[t] # None /\ fd[t].ino = f.ino THEN f ELSE fd[t]]

\* The contents are rewritten in place.
Rewrite(c) ==
    /\ file # None
    /\ file' = [file EXCEPT !.data = c, !.ctime = coarse]
    /\ fd' = Through([file EXCEPT !.data = c, !.ctime = coarse])
    /\ UNCHANGED <<now, coarse>>

\* The path loses its inode; unlinking dates the inode's change.
Unlink ==
    IF file = None THEN UNCHANGED fd
                   ELSE fd' = Through([file EXCEPT !.ctime = coarse])

FreeInodes == {i \in Inodes : /\ file # None => file.ino # i
                              /\ \A t \in Threads : fd[t] # None => fd[t].ino # i}

\* Another file is renamed to the path, over the one that is there.
Replace(i, c) ==
    /\ i \in FreeInodes
    /\ file' = [ino |-> i, data |-> c, ctime |-> coarse]
    /\ Unlink
    /\ UNCHANGED <<now, coarse>>

Remove ==
    /\ file # None
    /\ file' = None
    /\ Unlink
    /\ UNCHANGED <<now, coarse>>

ChangeFile ==
    \/ \E c \in Contents : Rewrite(c)
    \/ \E i \in Inodes, c \in Contents : Replace(i, c)
    \/ Remove

==============================================================================
