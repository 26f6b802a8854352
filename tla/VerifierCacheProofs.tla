------------------------- MODULE VerifierCacheProofs -------------------------
(***************************************************************************)
(* Proofs about VerifierCache, for any threads, inodes, contents and clock *)
(* constants: its variables stay in their types, a cached stamp proves the *)
(* contents it was read with, and every call is fresh.  The last two need  *)
(* Prompt: without it a run of TLC refutes the first of them.              *)
(***************************************************************************)
EXTENDS VerifierCache, FileStampsProofs

------------------------------------------------------------------------------
(* Type correctness.  The locals a step reads have been assigned.          *)

LocalsOK ==
    \A t \in Threads :
        /\ pc[t] \in {"lock"} \cup Critical => current[t] \in Stamp
        /\ pc[t] \in {"fstat", "read"} => fd[t] \in File
        /\ pc[t] \in {"read", "build"} => meta[t] \in Stamp
        /\ pc[t] = "build" => text[t] \in Contents \ Unreadable

TInv == TypeOK /\ LocalsOK

\* The types hold at the start,
LEMMA TInvInit == Init => TInv
BY NoneAssumption DEF Init, FileInit, TInv, TypeOK, FileTypeOK, LocalsOK, File, Critical, Running

\* ... and every step keeps them.
LEMMA TInvNext == TInv /\ [Next]_vars => TInv'
<1> SUFFICES ASSUME TInv, [Next]_vars PROVE TInv'
  OBVIOUS
<1> USE DEF TInv, TypeOK, LocalsOK, Critical, Running
<1> USE NoneAssumption
<1>1. CASE PassTime
  BY <1>1 DEF PassTime, Advance, FileTypeOK, slotVars, callVars
<1>2. CASE Maintain
  <2>1. FileTypeOK' /\ \A t \in Threads : fd[t] \in File => fd'[t] \in File
    BY <1>2, ChangeFileType DEF Maintain
  <2>2. Value' \in Contents \cup {None}
    BY <2>1 DEF Value, FileTypeOK, File
  <2>3. window' \in [Threads -> SUBSET (Contents \cup {None})]
    BY <1>2, <2>2 DEF Maintain
  <2>4. QED
    BY <1>2, <2>1, <2>3 DEF Maintain, slotVars
<1>3. ASSUME NEW t \in Threads, Begin(t) PROVE TInv'
  BY <1>3 DEF Begin, fileVars, slotVars, FileTypeOK, Value, File
<1>4. ASSUME NEW t \in Threads, Stat(t) PROVE TInv'
  BY <1>4, StampOfType DEF Stat, fileVars, slotVars, FileTypeOK
<1>5. ASSUME NEW t \in Threads, StatFails(t) PROVE TInv'
  BY <1>5 DEF StatFails, ReturnFrom, FileTypeOK
<1>6. ASSUME NEW t \in Threads, Hit(t) PROVE TInv'
  BY <1>6 DEF Hit, ReturnFrom, Matches, FileTypeOK, Slot
<1>7. ASSUME NEW t \in Threads, Miss(t) PROVE TInv'
  BY <1>7 DEF Miss, fileVars, FileTypeOK
<1>8. ASSUME NEW t \in Threads, Open(t) PROVE TInv'
  BY <1>8 DEF Open, slotVars, FileTypeOK
<1>9. ASSUME NEW t \in Threads, OpenFails(t) PROVE TInv'
  BY <1>9 DEF OpenFails, ReturnFrom, FileTypeOK
<1>10. ASSUME NEW t \in Threads, Fstat(t) PROVE TInv'
  BY <1>10, StampOfType DEF Fstat, fileVars, slotVars, FileTypeOK
<1>11. ASSUME NEW t \in Threads, FstatFails(t) PROVE TInv'
  BY <1>11 DEF FstatFails, ReturnFrom, FileTypeOK
<1>12. ASSUME NEW t \in Threads, Read(t) PROVE TInv'
  BY <1>12 DEF Read, fileVars, slotVars, FileTypeOK, File
<1>13. ASSUME NEW t \in Threads, ReadFails(t) PROVE TInv'
  BY <1>13 DEF ReadFails, ReturnFrom, FileTypeOK
<1>14. ASSUME NEW t \in Threads, BuildFails(t) PROVE TInv'
  BY <1>14 DEF BuildFails, ReturnFrom, FileTypeOK
<1>15. ASSUME NEW t \in Threads, Store(t) PROVE TInv'
  <2>1. Settled(meta[t]) \in Stamp \cup {None}
    BY <1>15 DEF Store, Settled
  <2>2. slot' \in Slot
    BY <1>15, <2>1 DEF Store, Slot
  <2>3. QED
    BY <1>15, <2>2 DEF Store, ReturnFrom, FileTypeOK
<1>16. ASSUME NEW t \in Threads, Finish(t) PROVE TInv'
  BY <1>16 DEF Finish, fileVars, slotVars, FileTypeOK
<1>17. CASE UNCHANGED vars
  BY <1>17 DEF vars, fileVars, slotVars, callVars, FileTypeOK
<1>18. QED
  BY <1>1, <1>2, <1>3, <1>4, <1>5, <1>6, <1>7, <1>8, <1>9, <1>10, <1>11,
     <1>12, <1>13, <1>14, <1>15, <1>16, <1>17 DEF Next, Step

\* Every variable of Config::verifier keeps its type; in particular the slot
\* never holds a verifier built from unusable contents.
THEOREM TypeCorrect == Spec => []TypeOK
<1>1. Init => TInv
  BY TInvInit
<1>2. TInv /\ [Next]_vars => TInv'
  BY TInvNext
<1>3. TInv => TypeOK
  BY DEF TInv
<1>4. QED
  BY <1>1, <1>2, <1>3, PTL DEF Spec

------------------------------------------------------------------------------
(* The invariant behind freshness.                                         *)

\* Nobody is held up for longer than Stall before dating a stamp.
StallBound ==
    \A t \in Threads : pc[t] = "build" => readAt[t] <= now /\ now <= readAt[t] + Stall

\* The read came a whole tick after the change its stamp records, so that a
\* later change cannot have the same stamp.
ReadSettled(t) == readAt[t] >= meta[t].ctime + Tick

\* What was fstat'ed is the inode that is read, ...
StampIsOfDescriptor ==
    \A t \in Threads : pc[t] = "read" => meta[t].ino = fd[t].ino

\* ... so a settled stamp proves what was read, before it is stored
FillSound ==
    \A t \in Threads :
        pc[t] = "build" /\ ReadSettled(t) /\ file # None /\ StampOf(file) = meta[t]
            => file.data = text[t]

\* and afterwards.
SlotSound ==
    slot # None /\ slot.stamp # None =>
        /\ slot.stamp.ctime < coarse
        /\ file # None /\ StampOf(file) = slot.stamp => file.data = slot.keys

\* A call has a window that holds the present value, what its descriptor
\* sees and what it read.
WindowOpen ==
    \A t \in Threads :
        /\ pc[t] \in Running => Value \in window[t]
        /\ pc[t] \in {"fstat", "read"} => fd[t].data \in window[t]
        /\ pc[t] = "build" => text[t] \in window[t]

\* A caller that waits for the lock with the stamp of inode i was there when
\* the path named i, so whatever i contained since is in its window: on a
\* descriptor of the thread that has the lock, in its text, in the slot.
Covered(t) ==
    /\ \A u \in Threads :
          /\ fd[u] # None /\ fd[u].ino = current[t].ino => fd[u].data \in window[t]
          /\ pc[u] = "build" /\ meta[u] = current[t] /\ ReadSettled(u)
                => text[u] \in window[t]
    /\ slot # None /\ slot.stamp = current[t] => slot.keys \in window[t]

WaiterCovered == \A t \in Threads : pc[t] = "lock" => Covered(t)

IInv ==
    /\ TInv
    /\ ClockOK
    /\ DescriptorsShare
    /\ StallBound
    /\ StampIsOfDescriptor
    /\ FillSound
    /\ SlotSound
    /\ WindowOpen
    /\ WaiterCovered
    /\ CallsAreFresh

\* A verifier is one of t's window.
Explained(t, how, v) == how = "ok" => v \in window[t]

\* The invariant holds at the start,
LEMMA IInvInit == Init => IInv
<1> SUFFICES ASSUME Init PROVE IInv
  OBVIOUS
<1>1. TInv
  BY TInvInit
<1>2. ClockOK
  BY TickAssumption DEF Init, FileInit, ClockOK
<1>3. QED
  BY <1>1, <1>2, NoneAssumption
  DEF Init, FileInit, IInv, DescriptorsShare, StallBound, StampIsOfDescriptor,
      FillSound, SlotSound, WindowOpen, WaiterCovered, Covered, CallsAreFresh, Running, Critical

\* Time only moves the coarse clock away from the stamps in use.
LEMMA PassTimeKeepsIInv == IInv /\ TInv' /\ PassTime => IInv'
<1> SUFFICES ASSUME IInv, TInv', PassTime PROVE IInv'
  OBVIOUS
<1>1. UNCHANGED <<file, fd, slot, pc, current, meta, text, readAt, outcome, verifier, window>>
  BY DEF PassTime, Advance, slotVars, callVars
<1>2. now' = now + 1 /\ now \in Nat /\ coarse \in Nat /\ coarse' \in Nat
  BY DEF PassTime, Advance, IInv, TInv, TypeOK, FileTypeOK
<1>3. ClockOK' /\ coarse <= coarse'
  BY AdvanceKeepsClock DEF PassTime, IInv, TInv, TypeOK
<1>4. StallBound'
  BY <1>1, <1>2, SettleAssumption DEF PassTime, IInv, TInv, TypeOK, StallBound
<1>5. SlotSound'
  <2>1. slot # None /\ slot.stamp # None => slot.stamp.ctime \in Nat
    BY DEF IInv, TInv, TypeOK, Slot, Stamp
  <2>2. QED
    BY <1>1, <1>2, <1>3, <2>1 DEF IInv, SlotSound, StampOf
<1>6. Value' = Value
  BY <1>1 DEF Value
<1>7. QED
  BY <1>1, <1>3, <1>4, <1>5, <1>6
  DEF IInv, DescriptorsShare, StampIsOfDescriptor, FillSound, ReadSettled, StampOf,
      WindowOpen, WaiterCovered, Covered, CallsAreFresh

\* A changed file has a stamp nobody has proved anything about, and its
\* contents are in every window.
LEMMA MaintainKeepsIInv == IInv /\ TInv' /\ Maintain => IInv'
<1> SUFFICES ASSUME IInv, TInv', Maintain PROVE IInv'
  OBVIOUS
<1>1. /\ UNCHANGED <<now, coarse, slot, lock, pc, current, meta, text, readAt, outcome, verifier>>
      /\ file' # None => file'.ctime = coarse
      /\ DescriptorsShare'
      /\ \A t \in Threads : fd'[t] # None =>
            /\ fd[t] # None
            /\ fd'[t].ino = fd[t].ino
            /\ fd'[t].data \in {fd[t].data, Value'}
  BY ChangeFileEffect DEF Maintain, slotVars, IInv, TInv, TypeOK
<1>2. \A t \in Threads :
         IF pc[t] \in Running THEN window'[t] = window[t] \cup {Value'}
                              ELSE window'[t] = window[t]
  BY DEF Maintain, IInv, TInv, TypeOK
<1>3. \A t \in Threads : pc[t] \in {"fstat", "read"} => fd[t] # None /\ fd'[t] # None
  BY <1>1, NoneAssumption DEF IInv, TInv, LocalsOK
<1>4. ClockOK' /\ StallBound'
  BY <1>1 DEF IInv, ClockOK, StallBound
<1>5. StampIsOfDescriptor'
  BY <1>1, <1>3 DEF IInv, StampIsOfDescriptor
<1>6. FillSound'
  <2> SUFFICES ASSUME NEW t \in Threads, pc[t] = "build", ReadSettled(t),
                      file' # None, StampOf(file') = meta[t]
               PROVE  FALSE
    BY <1>1 DEF FillSound, ReadSettled, StampOf
  <2>1. meta[t].ctime = coarse
    BY <1>1 DEF StampOf
  <2>2. readAt[t] \in Nat /\ now \in Nat /\ coarse \in Nat
    BY DEF IInv, TInv, TypeOK, FileTypeOK
  <2>3. readAt[t] <= now /\ now < coarse + Tick
    BY DEF IInv, StallBound, ClockOK
  <2>4. QED
    BY <2>1, <2>2, <2>3, TickAssumption DEF ReadSettled
<1>7. SlotSound'
  <2>1. slot # None /\ slot.stamp # None /\ file' # None => StampOf(file') # slot.stamp
    <3>1. slot # None /\ slot.stamp # None => slot.stamp.ctime \in Nat /\ coarse \in Nat
      BY DEF IInv, TInv, TypeOK, FileTypeOK, Slot, Stamp
    <3>2. QED
      BY <1>1, <3>1 DEF IInv, SlotSound, StampOf
  <2>2. QED
    BY <1>1, <2>1 DEF IInv, SlotSound
<1>8. WindowOpen'
  BY <1>1, <1>2, <1>3 DEF IInv, WindowOpen, Running, Critical
<1>9. WaiterCovered'
  BY <1>1, <1>2 DEF IInv, WaiterCovered, Covered, ReadSettled, Running
<1>10. CallsAreFresh'
  BY <1>1, <1>2 DEF IInv, CallsAreFresh
<1>11. QED
  BY <1>1, <1>4, <1>5, <1>6, <1>7, <1>8, <1>9, <1>10 DEF IInv

\* Returning leaves the file, the slot and the other threads alone, and gives
\* up the caller's descriptor and locals: only its outcome has to be explained.
LEMMA ReturnKeepsIInv ==
    ASSUME IInv, TInv', NEW t \in Threads, NEW how, NEW v,
           ReturnFrom(t, how, v), UNCHANGED slot, Explained(t, how, v)
    PROVE  IInv'
<1>1. /\ UNCHANGED <<now, coarse, file, window, slot>>
      /\ Value' = Value
      /\ pc'[t] = "done" /\ outcome'[t] = how /\ verifier'[t] = v
      /\ fd'[t] = None
      /\ \A u \in Threads \ {t} :
            /\ pc'[u] = pc[u] /\ outcome'[u] = outcome[u] /\ verifier'[u] = verifier[u]
            /\ current'[u] = current[u] /\ meta'[u] = meta[u] /\ text'[u] = text[u]
            /\ readAt'[u] = readAt[u] /\ fd'[u] = fd[u]
  BY DEF ReturnFrom, IInv, TInv, TypeOK, FileTypeOK, Value
<1>2. CallsAreFresh'
  BY <1>1 DEF IInv, CallsAreFresh, Explained
<1>3. WaiterCovered'
  BY <1>1 DEF IInv, WaiterCovered, Covered, ReadSettled
<1>4. QED
  BY <1>1, <1>2, <1>3
  DEF IInv, ClockOK, DescriptorsShare, StallBound, StampIsOfDescriptor, FillSound,
      ReadSettled, StampOf, SlotSound, WindowOpen, Running, Critical

\* How a call fails.
Fails(t) ==
    StatFails(t) \/ OpenFails(t) \/ FstatFails(t) \/ ReadFails(t) \/ BuildFails(t)

\* A call that fails serves nothing, one that hits serves what its window has.
LEMMA EndsKeepIInv ==
    ASSUME IInv, TInv', NEW t \in Threads, Fails(t) \/ Hit(t)
    PROVE  IInv'
<1>1. CASE Fails(t)
  <2>1. PICK how \in {"Read", "Build"} : ReturnFrom(t, how, None) /\ UNCHANGED slot
    BY <1>1 DEF Fails, StatFails, OpenFails, FstatFails, ReadFails, BuildFails
  <2>2. Explained(t, how, None)
    BY DEF Explained
  <2>3. QED
    BY <2>1, <2>2, ReturnKeepsIInv
<1>2. CASE Hit(t)
  <2>1. Explained(t, "ok", slot.keys)
    BY <1>2 DEF Hit, Matches, Explained, IInv, WaiterCovered, Covered
  <2>2. QED
    BY <1>2, <2>1, ReturnKeepsIInv DEF Hit
<1>3. QED
  BY <1>1, <1>2

\* A stamp that is settled was read a tick after the change it records.
LEMMA SettledReads ==
    ASSUME IInv, Prompt, NEW t \in Threads, pc[t] = "build", Settled(meta[t]) # None
    PROVE  /\ Settled(meta[t]) = meta[t]
           /\ ReadSettled(t)
           /\ meta[t].ctime < coarse
<1>1. /\ meta[t].ctime \in Nat /\ readAt[t] \in Nat /\ now \in Nat /\ coarse \in Nat
      /\ now <= readAt[t] + Stall /\ now < coarse + Tick
  BY DEF IInv, TInv, TypeOK, FileTypeOK, LocalsOK, Stamp, StallBound, ClockOK
<1>2. Settled(meta[t]) = meta[t] /\ now >= meta[t].ctime + SETTLE_TIME
  BY DEF Settled
<1>3. QED
  BY <1>1, <1>2, SettleAssumption, TickAssumption DEF Prompt, ReadSettled

\* What is stored is sound, and in the window of whoever waits with its stamp.
LEMMA StoreKeepsIInv ==
    ASSUME IInv, TInv', Prompt, NEW t \in Threads, Store(t)
    PROVE  IInv'
<1>1. /\ UNCHANGED <<now, coarse, file, window>>
      /\ Value' = Value
      /\ pc[t] = "build" /\ pc'[t] = "done" /\ outcome'[t] = "ok" /\ verifier'[t] = text[t]
      /\ fd'[t] = None
      /\ slot' = [stamp |-> Settled(meta[t]), keys |-> text[t]]
      /\ \A u \in Threads \ {t} :
            /\ pc'[u] = pc[u] /\ outcome'[u] = outcome[u] /\ verifier'[u] = verifier[u]
            /\ current'[u] = current[u] /\ meta'[u] = meta[u] /\ text'[u] = text[u]
            /\ readAt'[u] = readAt[u] /\ fd'[u] = fd[u]
  BY DEF Store, ReturnFrom, IInv, TInv, TypeOK, FileTypeOK, Value
<1>2. SlotSound'
  <2>1. slot'.stamp # None =>
           slot'.stamp = meta[t] /\ ReadSettled(t) /\ meta[t].ctime < coarse
    BY <1>1, SettledReads
  <2>2. QED
    BY <1>1, <2>1 DEF IInv, SlotSound, FillSound, StampOf
<1>3. CallsAreFresh'
  BY <1>1 DEF IInv, CallsAreFresh, WindowOpen
<1>4. WaiterCovered'
  <2> SUFFICES ASSUME NEW w \in Threads, pc'[w] = "lock"
               PROVE  Covered(w)'
    BY DEF WaiterCovered
  <2>1. w # t /\ pc[w] = "lock" /\ current'[w] = current[w] /\ window'[w] = window[w]
    BY <1>1
  <2>2. current[w] # None
    BY <2>1, NoneAssumption DEF IInv, TInv, LocalsOK
  <2>3. slot'.stamp = current[w] => slot'.keys \in window[w]
    BY <1>1, <2>1, <2>2, SettledReads DEF IInv, WaiterCovered, Covered
  <2>4. \A u \in Threads :
           /\ fd'[u] # None /\ fd'[u].ino = current'[w].ino => fd'[u].data \in window'[w]
           /\ pc'[u] = "build" /\ meta'[u] = current'[w] /\ ReadSettled(u)'
                 => text'[u] \in window'[w]
    BY <1>1, <2>1 DEF IInv, WaiterCovered, Covered, ReadSettled
  <2>5. QED
    BY <2>1, <2>3, <2>4 DEF Covered
<1>5. QED
  BY <1>1, <1>2, <1>3, <1>4
  DEF IInv, ClockOK, DescriptorsShare, StallBound, StampIsOfDescriptor, FillSound,
      ReadSettled, StampOf, WindowOpen, Running, Critical

\* The steps of a call on the way to its end.
LEMMA StepsKeepIInv ==
    ASSUME IInv, TInv', NEW t \in Threads,
           Begin(t) \/ Stat(t) \/ Miss(t) \/ Open(t) \/ Fstat(t) \/ Read(t) \/ Finish(t)
    PROVE  IInv'
<1> DEFINE Others ==
       \A u \in Threads \ {t} :
            /\ pc'[u] = pc[u] /\ outcome'[u] = outcome[u] /\ verifier'[u] = verifier[u]
            /\ current'[u] = current[u] /\ meta'[u] = meta[u] /\ text'[u] = text[u]
            /\ readAt'[u] = readAt[u] /\ fd'[u] = fd[u] /\ window'[u] = window[u]
<1> USE DEF IInv
<1>1. UNCHANGED <<now, coarse, file, slot>> /\ Value' = Value /\ Others
  BY DEF Begin, Stat, Miss, Open, Fstat, Read, Finish, fileVars, slotVars, Value,
         TInv, TypeOK, FileTypeOK
<1>2. ClockOK' /\ SlotSound'
  BY <1>1 DEF ClockOK, SlotSound, StampOf
<1>3. DescriptorsShare'
  BY <1>1 DEF Begin, Stat, Miss, Open, Fstat, Read, Finish, fileVars, DescriptorsShare,
              TInv, TypeOK, FileTypeOK
<1>4. StallBound'
  BY <1>1, SettleAssumption
  DEF Begin, Stat, Miss, Open, Fstat, Read, Finish, StallBound, TInv, TypeOK, FileTypeOK
<1>5. StampIsOfDescriptor'
  BY <1>1 DEF Begin, Stat, Miss, Open, Fstat, Read, Finish, StampIsOfDescriptor, StampOf,
              fileVars, TInv, TypeOK, FileTypeOK
<1>6. FillSound'
  BY <1>1, NoneAssumption
  DEF Begin, Stat, Miss, Open, Fstat, Read, Finish, FillSound, ReadSettled, StampOf,
      DescriptorsShare, StampIsOfDescriptor, LocalsOK, TInv, TypeOK, FileTypeOK
<1>7. WindowOpen'
  BY <1>1 DEF Begin, Stat, Miss, Open, Fstat, Read, Finish, WindowOpen, Value, fileVars,
              Running, Critical, TInv, TypeOK, FileTypeOK
<1>8. CallsAreFresh'
  BY <1>1 DEF Begin, Stat, Miss, Open, Fstat, Read, Finish, CallsAreFresh, TInv, TypeOK
<1>9. WaiterCovered'
  <2> SUFFICES ASSUME NEW w \in Threads, pc'[w] = "lock" PROVE Covered(w)'
    BY DEF WaiterCovered
  <2>1. CASE Stat(t) /\ w = t
    <3>1. /\ file \in File /\ file # None /\ current'[w] = StampOf(file) /\ StampOf(file) # None
          /\ file.data \in window'[w]
      BY <2>1, NoneAssumption, StampOfType
      DEF Stat, WindowOpen, Running, Value, TInv, TypeOK, FileTypeOK
    <3>2. \A u \in Threads :
             fd'[u] # None /\ fd'[u].ino = current'[w].ino => fd'[u].data \in window'[w]
      BY <2>1, <3>1 DEF Stat, fileVars, DescriptorsShare, StampOf
    <3>3. \A u \in Threads :
             pc'[u] = "build" /\ meta'[u] = current'[w] /\ ReadSettled(u)' => text'[u] \in window'[w]
      BY <1>1, <2>1, <3>1 DEF Stat, FillSound, ReadSettled, TInv, TypeOK
    <3>4. slot # None /\ slot.stamp = current'[w] => slot.keys \in window'[w]
      BY <3>1 DEF SlotSound
    <3>5. QED
      BY <1>1, <3>2, <3>3, <3>4 DEF Covered
  <2>2. CASE ~(Stat(t) /\ w = t)
    <3>1. /\ pc[w] = "lock" /\ current'[w] = current[w] /\ window'[w] = window[w]
          /\ Value \in window[w]
      BY <1>1, <2>2 DEF Begin, Stat, Miss, Open, Fstat, Read, Finish, TInv, TypeOK,
                        WindowOpen, Running
    <3>2. \A u \in Threads :
             fd'[u] # None /\ fd'[u].ino = current[w].ino => fd'[u].data \in window[w]
      BY <1>1, <3>1 DEF Begin, Stat, Miss, Open, Fstat, Read, Finish, fileVars, WaiterCovered,
                        Covered, Value, TInv, TypeOK, FileTypeOK
    <3>3. \A u \in Threads :
             pc'[u] = "build" /\ meta'[u] = current[w] /\ ReadSettled(u)' => text'[u] \in window[w]
      <4>1. CASE Read(t)
        BY <1>1, <3>1, <4>1, NoneAssumption
        DEF Read, WaiterCovered, Covered, ReadSettled, StampIsOfDescriptor, LocalsOK,
            TInv, TypeOK, FileTypeOK
      <4>2. CASE ~Read(t)
        BY <1>1, <3>1, <4>2 DEF Begin, Stat, Miss, Open, Fstat, Finish, WaiterCovered,
                                Covered, ReadSettled, TInv, TypeOK
      <4>3. QED
        BY <4>1, <4>2
    <3>4. QED
      BY <1>1, <3>1, <3>2, <3>3 DEF WaiterCovered, Covered
  <2>3. QED
    BY <2>1, <2>2
<1>10. QED
  BY <1>2, <1>3, <1>4, <1>5, <1>6, <1>7, <1>8, <1>9

\* ... and every step keeps it, if threads are prompt.
LEMMA IInvNext == Prompt /\ IInv /\ [Next]_vars => IInv'
<1> SUFFICES ASSUME Prompt, IInv, [Next]_vars PROVE IInv'
  OBVIOUS
<1>1. TInv'
  BY TInvNext DEF IInv
<1>2. CASE PassTime
  BY <1>1, <1>2, PassTimeKeepsIInv
<1>3. CASE Maintain
  BY <1>1, <1>3, MaintainKeepsIInv
<1>4. ASSUME NEW t \in Threads, Begin(t) \/ Step(t) \/ Finish(t) PROVE IInv'
  BY <1>1, <1>4, StepsKeepIInv, EndsKeepIInv, StoreKeepsIInv DEF Step, Fails
<1>5. CASE UNCHANGED vars
  BY <1>1, <1>5
  DEF vars, fileVars, slotVars, callVars, IInv, ClockOK, DescriptorsShare, StallBound,
      StampIsOfDescriptor, FillSound, ReadSettled, StampOf, SlotSound, WindowOpen, Value,
      WaiterCovered, Covered, CallsAreFresh
<1>6. QED
  BY <1>2, <1>3, <1>4, <1>5 DEF Next

\* If a build is dated within SETTLE_TIME less a tick of the read, a cached
\* stamp proves the file still has the contents the verifier was built from
\* (pam/src/cache.rs:132-133).
THEOREM StampsProve == Prompt => (Spec => []StampProvesContents)
<1> SUFFICES ASSUME Prompt PROVE Spec => []StampProvesContents
  OBVIOUS
<1>1. Init => IInv
  BY IInvInit
<1>2. IInv /\ [Next]_vars => IInv'
  BY IInvNext
<1>3. IInv => StampProvesContents
  BY NoneAssumption, StampOfType
  DEF IInv, SlotSound, StampProvesContents, TInv, TypeOK, FileTypeOK
<1>4. QED
  BY <1>1, <1>2, <1>3, PTL DEF Spec

\* Under the same condition no call of Config::verifier serves the past: its
\* verifier was built from contents the path had between the call and its
\* return, whichever other calls failed, and at whichever of their steps.
THEOREM CallsFresh == Prompt => (Spec => []CallsAreFresh)
<1> SUFFICES ASSUME Prompt PROVE Spec => []CallsAreFresh
  OBVIOUS
<1>1. Init => IInv
  BY IInvInit
<1>2. IInv /\ [Next]_vars => IInv'
  BY IInvNext
<1>3. IInv => CallsAreFresh
  BY DEF IInv
<1>4. QED
  BY <1>1, <1>2, <1>3, PTL DEF Spec

------------------------------------------------------------------------------
(* Config::verifier implements FreshRead.                                  *)

\* Where a thread is, and what it was told, as FreshRead has it.
At     == [t \in Threads |-> IF pc[t] \in Running THEN "running" ELSE pc[t]]
Answer == [t \in Threads |-> IF pc[t] = "done" THEN [how |-> outcome[t], keys |-> verifier[t]]
                                               ELSE None]

\* The start is one of FreshRead,
LEMMA InitIsFresh == Init => Fresh!Init
BY NoneAssumption DEF Init, FileInit, Fresh!Init, Value, Running, Critical

\* Any change of the file is a Change.
LEMMA MaintainIsChange == TInv /\ TInv' /\ Maintain => Fresh!Change
<1> SUFFICES ASSUME TInv, TInv', Maintain PROVE Fresh!Change
  OBVIOUS
<1>1. Value' \in Contents \cup {None}
  BY DEF TInv, TypeOK, FileTypeOK, File, Value
<1>2. \A t \in Threads : At[t] = "running" <=> pc[t] \in Running
  BY DEF At, TInv, TypeOK, Running, Critical
<1>3. window' = [t \in Threads |-> IF At[t] = "running" THEN window[t] \cup {Value'} ELSE window[t]]
  BY <1>2 DEF Maintain
<1>4. At' = At /\ Answer' = Answer
  BY DEF Maintain, At, Answer
<1>5. QED
  BY <1>1, <1>3, <1>4 DEF Fresh!Change, At, Answer

\* The answer a version of the file explains is one FreshRead may give.
LEMMA ReturnIsReturn ==
    ASSUME TInv, NEW t \in Threads, NEW how, NEW v, pc[t] \in Running, ReturnFrom(t, how, v),
           \E x \in window[t] : [how |-> how, keys |-> v] \in AnswersOf[x]
    PROVE  Fresh!Return(t)
<1>1. At[t] = "running" /\ At' = [At EXCEPT ![t] = "done"]
  BY DEF ReturnFrom, At, TInv, TypeOK, Running, Critical
<1>2. Answer' = [Answer EXCEPT ![t] = [how |-> how, keys |-> v]]
  BY DEF ReturnFrom, Answer, TInv, TypeOK
<1>3. Value' = Value /\ window' = window
  BY DEF ReturnFrom, Value
<1>4. QED
  BY <1>1, <1>2, <1>3 DEF Fresh!Return, At, Answer

\* ... a call begins as one there,
LEMMA BeginIsBegin == \A t \in Threads : TInv /\ Begin(t) => Fresh!Begin(t)
<1> SUFFICES ASSUME NEW t \in Threads, TInv, Begin(t) PROVE Fresh!Begin(t)
  OBVIOUS
<1>1. At[t] = "idle" /\ At' = [At EXCEPT ![t] = "running"]
  BY DEF Begin, At, TInv, TypeOK, Running, Critical
<1>2. Answer' = Answer /\ Value' = Value
  BY DEF Begin, Answer, Value, fileVars, TInv, TypeOK
<1>3. QED
  BY <1>1, <1>2 DEF Begin, Fresh!Begin, At, Answer

\* ... returns as one there,
LEMMA FinishIsFinish == \A t \in Threads : TInv /\ Finish(t) => Fresh!Finish(t)
<1> SUFFICES ASSUME NEW t \in Threads, TInv, Finish(t) PROVE Fresh!Finish(t)
  OBVIOUS
<1>1. At[t] = "done" /\ At' = [At EXCEPT ![t] = "idle"]
  BY DEF Finish, At, TInv, TypeOK, Running, Critical
<1>2. Answer' = [Answer EXCEPT ![t] = None] /\ Value' = Value
  BY DEF Finish, Answer, Value, fileVars, TInv, TypeOK
<1>3. QED
  BY <1>1, <1>2 DEF Finish, Fresh!Finish, At, Answer

\* The steps inside a call do not show.
LEMMA InnerStepsHide ==
    ASSUME TInv, NEW t \in Threads, Stat(t) \/ Miss(t) \/ Open(t) \/ Fstat(t) \/ Read(t)
    PROVE  UNCHANGED Fresh!vars
<1>1. At' = At /\ Answer' = Answer
  BY DEF Stat, Miss, Open, Fstat, Read, At, Answer, TInv, TypeOK, Running, Critical
<1>2. Value' = Value /\ window' = window
  BY DEF Stat, Miss, Open, Fstat, Read, Value, fileVars
<1>3. QED
  BY <1>1, <1>2 DEF Fresh!vars, At, Answer

\* A verifier that is served is an answer of the window: that the call is fresh
\* (CallsAreFresh) in the state the step leads to is all that is needed.
LEMMA ServesAreReturns ==
    ASSUME TInv, CallsAreFresh', NEW t \in Threads, Hit(t) \/ Store(t)
    PROVE  Fresh!Return(t)
<1>1. PICK v \in Usable : ReturnFrom(t, "ok", v)
  <2>1. CASE Hit(t)
    BY <2>1 DEF Hit, Matches, TInv, TypeOK, Slot
  <2>2. CASE Store(t)
    BY <2>2 DEF Store
  <2>3. QED
    BY <2>1, <2>2
<1>2. pc[t] \in Running
  BY DEF Hit, Store, Running, Critical
<1>3. pc'[t] = "done" /\ outcome'[t] = "ok" /\ verifier'[t] = v /\ window' = window
  BY <1>1 DEF ReturnFrom, TInv, TypeOK
<1>4. v \in window[t] /\ v \in Contents
  BY <1>3, ContentsAssumption DEF CallsAreFresh
<1>5. [how |-> "ok", keys |-> v] \in AnswersOf[v]
  BY <1>4 DEF AnswersOf
<1>6. QED
  BY <1>1, <1>2, <1>4, <1>5, ReturnIsReturn

\* A failed read is an answer of any value, and the window has one; a failed
\* build is an answer of what was read.
LEMMA FailsAreReturns ==
    ASSUME IInv, NEW t \in Threads, Fails(t)
    PROVE  Fresh!Return(t)
<1>1. TInv /\ pc[t] \in Running /\ Value \in window[t]
  BY DEF Fails, StatFails, OpenFails, FstatFails, ReadFails, BuildFails, IInv, WindowOpen,
         Running, Critical
<1>2. CASE BuildFails(t)
  <2>1. /\ ReturnFrom(t, "Build", None)
        /\ text[t] \in Contents \ (Usable \cup Unreadable) /\ text[t] \in window[t]
    BY <1>2 DEF BuildFails, IInv, TInv, LocalsOK, WindowOpen
  <2>2. [how |-> "Build", keys |-> None] \in AnswersOf[text[t]]
    BY <2>1, NoneAssumption DEF AnswersOf
  <2>3. QED
    BY <1>1, <2>1, <2>2, ReturnIsReturn
<1>3. CASE ~BuildFails(t)
  <2>1. ReturnFrom(t, "Read", None)
    BY <1>3 DEF Fails, StatFails, OpenFails, FstatFails, ReadFails
  <2>2. Value \in Contents \cup {None}
    BY <1>1 DEF TInv, TypeOK
  <2>3. [how |-> "Read", keys |-> None] \in AnswersOf[Value]
    BY <2>2 DEF AnswersOf
  <2>4. QED
    BY <1>1, <2>1, <2>3, ReturnIsReturn
<1>4. QED
  BY <1>2, <1>3

\* ... and every step is one there or none.
LEMMA NextIsFresh == IInv /\ IInv' /\ [Next]_vars => [Fresh!Next]_(Fresh!vars)
<1> SUFFICES ASSUME IInv, IInv', [Next]_vars PROVE [Fresh!Next]_(Fresh!vars)
  OBVIOUS
<1>1. TInv /\ TInv' /\ CallsAreFresh'
  BY DEF IInv
<1>2. CASE PassTime
  BY <1>2 DEF PassTime, Advance, slotVars, callVars, Fresh!vars, Value
<1>3. CASE Maintain
  BY <1>1, <1>3, MaintainIsChange DEF Fresh!Next
<1>4. ASSUME NEW t \in Threads, Begin(t) \/ Step(t) \/ Finish(t)
      PROVE  [Fresh!Next]_(Fresh!vars)
  <2>1. CASE Begin(t)
    BY <1>1, <2>1, BeginIsBegin DEF Fresh!Next
  <2>2. CASE Finish(t)
    BY <1>1, <2>2, FinishIsFinish DEF Fresh!Next
  <2>3. CASE Stat(t) \/ Miss(t) \/ Open(t) \/ Fstat(t) \/ Read(t)
    BY <1>1, <2>3, InnerStepsHide
  <2>4. CASE Hit(t) \/ Store(t)
    BY <1>1, <2>4, ServesAreReturns DEF Fresh!Next
  <2>5. CASE Fails(t)
    BY <2>5, FailsAreReturns DEF Fresh!Next
  <2>6. QED
    BY <1>4, <2>1, <2>2, <2>3, <2>4, <2>5 DEF Step, Fails
<1>5. CASE UNCHANGED vars
  BY <1>5 DEF vars, fileVars, slotVars, callVars, Fresh!vars, Value
<1>6. QED
  BY <1>2, <1>3, <1>4, <1>5 DEF Next

\* Under Prompt the cache is invisible: what Config::verifier does is what a
\* reader of the file without stamp, slot or lock could do, whose read may fail
\* at any time but who fails to build only what it has read.
THEOREM ImplementsFreshRead == Prompt => (Spec => IsFreshRead)
<1> SUFFICES ASSUME Prompt PROVE Spec => IsFreshRead
  OBVIOUS
<1>1. Init => IInv
  BY IInvInit
<1>2. IInv /\ [Next]_vars => IInv'
  BY IInvNext
<1>3. Init => Fresh!Init
  BY InitIsFresh
<1>4. IInv /\ IInv' /\ [Next]_vars => [Fresh!Next]_(Fresh!vars)
  BY NextIsFresh
<1>5. QED
  BY <1>1, <1>2, <1>3, <1>4, PTL DEF Spec, IsFreshRead, Fresh!Spec

==============================================================================
