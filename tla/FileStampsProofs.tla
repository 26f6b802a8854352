--------------------------- MODULE FileStampsProofs ---------------------------
(***************************************************************************)
(* What both caches of pam/src/cache.rs rest on: how the clocks, the file  *)
(* and the descriptors on it hang together.                                *)
(***************************************************************************)
EXTENDS FileStamps, TLAPS

\* The coarse clock is less than a tick behind.
ClockOK == coarse <= now /\ now < coarse + Tick

\* A descriptor on the inode the path names sees what the path names.
DescriptorsShare ==
    \A t \in Threads :
        fd[t] # None /\ file # None /\ fd[t].ino = file.ino => fd[t] = file

\* The stamp of a file is a stamp: the length is a number.
LEMMA StampOfType == \A f \in File : StampOf(f) \in Stamp
BY SizeAssumption DEF File, Stamp, StampOf

\* A change of the file, whoever makes it, leaves a file or nothing at the
\* path, and leaves every descriptor open or closed as it was.
LEMMA ChangeFileType ==
    ASSUME FileTypeOK, ChangeFile
    PROVE  /\ FileTypeOK'
           /\ \A t \in Threads : fd[t] \in File => fd'[t] \in File
<1>1. ASSUME NEW c \in Contents, Rewrite(c)
      PROVE  FileTypeOK' /\ \A t \in Threads : fd[t] \in File => fd'[t] \in File
  BY <1>1, NoneAssumption DEF Rewrite, Through, FileTypeOK, File
<1>2. ASSUME NEW i \in Inodes, NEW c \in Contents, Replace(i, c)
      PROVE  FileTypeOK' /\ \A t \in Threads : fd[t] \in File => fd'[t] \in File
  BY <1>2, NoneAssumption DEF Replace, Unlink, Through, FileTypeOK, File
<1>3. ASSUME Remove
      PROVE  FileTypeOK' /\ \A t \in Threads : fd[t] \in File => fd'[t] \in File
  BY <1>3, NoneAssumption DEF Remove, Unlink, Through, FileTypeOK, File
<1>4. QED
  BY <1>1, <1>2, <1>3 DEF ChangeFile

\* Time leaves the coarse clock less than a tick behind, and never behind
\* where it was.
LEMMA AdvanceKeepsClock ==
    ASSUME FileTypeOK, ClockOK, Advance
    PROVE  /\ FileTypeOK' /\ ClockOK' /\ coarse <= coarse'
           /\ now' = now + 1 /\ UNCHANGED <<file, fd>>
<1>1. now' = now + 1 /\ now \in Nat /\ coarse \in Nat /\ coarse' \in Nat
  BY DEF Advance, FileTypeOK
<1>2. CASE coarse' = coarse
  BY <1>1, <1>2, TickAssumption DEF Advance, ClockOK, FileTypeOK
<1>3. CASE coarse' = now + 1
  BY <1>1, <1>3, TickAssumption DEF Advance, ClockOK, FileTypeOK
<1>4. QED
  BY <1>2, <1>3 DEF Advance

\* A change dates the file with the coarse clock, and a descriptor sees what
\* it saw before or what the path now names.
LEMMA ChangeFileEffect ==
    ASSUME FileTypeOK, DescriptorsShare, ChangeFile
    PROVE  /\ UNCHANGED <<now, coarse>>
           /\ file' # None => file'.ctime = coarse
           /\ DescriptorsShare'
           /\ \A t \in Threads : fd'[t] # None =>
                 /\ fd[t] # None
                 /\ fd'[t].ino = fd[t].ino
                 /\ fd'[t].data \in {fd[t].data, Value'}
<1> DEFINE Effect ==
           /\ UNCHANGED <<now, coarse>>
           /\ file' # None => file'.ctime = coarse
           /\ DescriptorsShare'
           /\ \A t \in Threads : fd'[t] # None =>
                 /\ fd[t] # None
                 /\ fd'[t].ino = fd[t].ino
                 /\ fd'[t].data \in {fd[t].data, Value'}
<1> USE NoneAssumption DEF FileTypeOK, DescriptorsShare, Through, Value, File
<1>1. ASSUME NEW c \in Contents, Rewrite(c) PROVE Effect
  BY <1>1 DEF Rewrite
<1>2. ASSUME NEW i \in Inodes, NEW c \in Contents, Replace(i, c) PROVE Effect
  BY <1>2 DEF Replace, Unlink, FreeInodes
<1>3. ASSUME Remove PROVE Effect
  BY <1>3 DEF Remove, Unlink
<1>4. QED
  BY <1>1, <1>2, <1>3 DEF ChangeFile

==============================================================================
