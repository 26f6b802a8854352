------------------------ MODULE PamAuthenticateProofs ------------------------
(***************************************************************************)
(* Proofs about PamAuthenticate, for any threads, PAM stack, files, JWKS   *)
(* documents, tokens, users and hosts.                                     *)
(***************************************************************************)
EXTENDS PamAuthenticate, TLAPS

\* Places behind the look-up of the configuration, and behind the host.
Inside  == {"user", "account", "authtok", "ask", "verifier", "jwks", "verify"}
Located == {"only_from"} \cup Inside

\* A file is being read only where the code reads it.
ReadsInPlace(t) ==
    /\ fileAt[t] = "running" => call[t].pc = "config"
    /\ jwksAt[t] = "running" => call[t].pc = "jwks"
    /\ call[t].pc = "jwks" => jwksAt[t] = "running"

\* The configuration in use is one of the call's.
ConfigOfCall(t) ==
    call[t].pc \in Located => Args(t) \in Policies(t)

HostOfPolicy(t) ==
    call[t].pc \in Inside =>
        \A i \in DOMAIN Args(t).only_from : handle[t].rhost \in Args(t).only_from[i]

\* Whoever asks has no answer; one that is stored is in the handle.
AnswerKept(t) ==
    /\ call[t].pc = "ask" => handle[t].authtok = None
    /\ talk[t].stored => talk[t].answer \in Answers /\ handle[t].authtok = talk[t].answer
    /\ ~talk[t].again

TokenOfCall(t) ==
    call[t].pc \in {"verifier", "jwks", "verify"} =>
        call[t].token \in {Replaced, handle[t].authtok, talk[t].answer}

KeysOfCall(t) ==
    /\ call[t].pc \in {"jwks", "verify"} => Unset \notin {Args(t).iss, Args(t).jwks}
    /\ call[t].pc = "verify" => keys[t] \in jwksSeen[t] \ {None} /\ Args(t).iss # <<>>

LetIn(t) ==
    (call[t].pc = "done" /\ call[t].rc = "SUCCESS" /\ call[t].raw # None) =>
        \E policy \in Policies(t), doc \in jwksSeen[t] \ {None} :
            /\ \A i \in DOMAIN policy.only_from : handle[t].rhost \in policy.only_from[i]
            /\ Unset \notin {policy.iss, policy.jwks} /\ policy.iss # <<>>
            /\ Accepts(policy, doc, call[t].token)
            /\ call[t].token.name = handle[t].user
            /\ call[t].token \in {handle[t].authtok, talk[t].answer}

ThreadInv(t) ==
    /\ ReadsInPlace(t) /\ ConfigOfCall(t) /\ HostOfPolicy(t) /\ AnswerKept(t)
    /\ TokenOfCall(t) /\ KeysOfCall(t) /\ LetIn(t)

PInv == TypeOK /\ \A t \in Threads : ThreadInv(t)

------------------------------------------------------------------------------
(* Types.                                                                  *)

\* A change of a file, a call of a cache and its return keep the types.
LEMMA ConfTypes ==
    ASSUME TypeOK, NEW t \in Threads,
           Conf!Change \/ Conf!Begin(t) \/ Conf!Return(t) \/ Conf!Finish(t) \/ UNCHANGED fileVars
    PROVE  /\ file' \in Files
           /\ fileAt' \in [Threads -> {"idle", "running", "done"}]
           /\ fileSeen' \in [Threads -> SUBSET Files]
           /\ config' \in [Threads -> {None} \cup UNION {Readings[v] : v \in Files}]
BY DEF TypeOK, Conf!Change, Conf!Begin, Conf!Return, Conf!Finish, fileVars

\* The same of the JWKS.
LEMMA JwksTypes ==
    ASSUME TypeOK, NEW t \in Threads,
           Jwks!Change \/ Jwks!Begin(t) \/ Jwks!Return(t) \/ Jwks!Finish(t) \/ UNCHANGED jwksVars
    PROVE  /\ jwks' \in Docs
           /\ jwksAt' \in [Threads -> {"idle", "running", "done"}]
           /\ jwksSeen' \in [Threads -> SUBSET Docs]
           /\ keys' \in [Threads -> {None} \cup Docs]
<1>1. CASE Jwks!Return(t)
  <2>1. PICK v \in jwksSeen[t] : \E a \in Echo[v] : keys' = [keys EXCEPT ![t] = a]
    BY <1>1 DEF Jwks!Return
  <2>2. v \in Docs
    BY DEF TypeOK
  <2>3. \E a \in {v, None} : keys' = [keys EXCEPT ![t] = a]
    BY <2>1, <2>2 DEF Echo
  <2>4. QED
    BY <1>1, <2>2, <2>3 DEF TypeOK, Jwks!Return
<1>2. CASE ~Jwks!Return(t)
  BY <1>2 DEF TypeOK, Jwks!Change, Jwks!Begin, Jwks!Finish, jwksVars
<1>3. QED
  BY <1>1, <1>2

\* What a cache answers comes from what it saw, and the other threads are not
\* concerned.
LEMMA ConfReturn ==
    ASSUME TypeOK, NEW t \in Threads, Conf!Return(t)
    PROVE  /\ \E v \in fileSeen[t] : config'[t] \in Readings[v]
           /\ fileAt'[t] = "done" /\ fileSeen' = fileSeen
           /\ \A u \in Threads \ {t} : fileAt'[u] = fileAt[u] /\ config'[u] = config[u]
BY DEF TypeOK, Conf!Return

\* The verifier is of a JWKS it saw, if there is one.
LEMMA JwksReturn ==
    ASSUME TypeOK, NEW t \in Threads, Jwks!Return(t)
    PROVE  /\ keys'[t] \in jwksSeen[t] \cup {None}
           /\ jwksAt'[t] = "done" /\ jwksSeen' = jwksSeen
           /\ \A u \in Threads \ {t} : jwksAt'[u] = jwksAt[u] /\ keys'[u] = keys[u]
<1>1. PICK v \in jwksSeen[t] : \E a \in Echo[v] : keys' = [keys EXCEPT ![t] = a]
  BY DEF Jwks!Return
<1>2. v \in Docs
  BY DEF TypeOK
<1>3. \E a \in {v, None} : keys' = [keys EXCEPT ![t] = a]
  BY <1>1, <1>2 DEF Echo
<1>4. QED
  BY <1>3 DEF TypeOK, Jwks!Return

------------------------------------------------------------------------------
(* What a step leaves alone keeps its invariant.                           *)

Same(u) ==
    /\ handle'[u] = handle[u] /\ call'[u] = call[u] /\ talk'[u] = talk[u]
    /\ fileAt'[u] = fileAt[u] /\ fileSeen'[u] = fileSeen[u] /\ config'[u] = config[u]
    /\ jwksAt'[u] = jwksAt[u] /\ jwksSeen'[u] = jwksSeen[u] /\ keys'[u] = keys[u]

\* A thread none of whose state changes keeps its invariant.
LEMMA SameKeeps ==
    ASSUME NEW u \in Threads, ThreadInv(u), Same(u)
    PROVE  ThreadInv(u)'
<1>1. Args(u)' = Args(u) /\ Policies(u)' = Policies(u)
  BY DEF Same, Args, Policies
<1>2. QED
  BY <1>1 DEF Same, ThreadInv, ReadsInPlace, ConfigOfCall, HostOfPolicy, AnswerKept,
              TokenOfCall, KeysOfCall, LetIn

\* Only threads that read a file see it change.
LEMMA EditsKeep == ASSUME PInv, EditConfig \/ EditJwks PROVE PInv'
<1>1. CASE EditConfig
  <2>1. TypeOK'
    BY <1>1 DEF PInv, EditConfig, TypeOK, Conf!Change, jwksVars
  <2>2. ASSUME NEW u \in Threads PROVE ThreadInv(u)'
    <3>1. CASE fileAt[u] # "running"
      <4>1. Same(u)
        BY <1>1, <3>1 DEF PInv, EditConfig, TypeOK, Conf!Change, jwksVars, Same
      <4>2. QED
        BY <4>1, SameKeeps DEF PInv
    <3>2. CASE fileAt[u] = "running"
      BY <1>1, <3>2
      DEF PInv, ThreadInv, EditConfig, TypeOK, Conf!Change, jwksVars, ReadsInPlace, ConfigOfCall,
          HostOfPolicy, AnswerKept, TokenOfCall, KeysOfCall, LetIn, Located, Inside
    <3>3. QED
      BY <3>1, <3>2
  <2>3. QED
    BY <2>1, <2>2 DEF PInv
<1>2. CASE EditJwks
  <2>1. TypeOK'
    BY <1>2 DEF PInv, EditJwks, TypeOK, Jwks!Change, fileVars
  <2>2. ASSUME NEW u \in Threads PROVE ThreadInv(u)'
    <3>1. CASE jwksAt[u] # "running"
      <4>1. Same(u)
        BY <1>2, <3>1 DEF PInv, EditJwks, TypeOK, Jwks!Change, fileVars, Same
      <4>2. QED
        BY <4>1, SameKeeps DEF PInv
    <3>2. CASE jwksAt[u] = "running"
      <4>1. Args(u)' = Args(u) /\ Policies(u)' = Policies(u)
        BY <1>2 DEF EditJwks, fileVars, Args, Policies
      <4>2. QED
        BY <1>2, <3>2, <4>1
        DEF PInv, ThreadInv, EditJwks, TypeOK, Jwks!Change, fileVars, ReadsInPlace, ConfigOfCall,
            HostOfPolicy, AnswerKept, TokenOfCall, KeysOfCall, LetIn, Located, Inside
    <3>3. QED
      BY <3>1, <3>2
  <2>3. QED
    BY <2>1, <2>2 DEF PInv
<1>3. QED
  BY <1>1, <1>2

\* A step that concerns one thread is judged by that thread.
LEMMA ByThread ==
    ASSUME PInv, NEW t \in Threads, TypeOK', ThreadInv(t)', \A u \in Threads \ {t} : Same(u)
    PROVE  PInv'
BY SameKeeps DEF PInv

\* A step of the call itself: of its thread, and with the caches untouched.
LEMMA QuietFrame ==
    ASSUME PInv, NEW t \in Threads, UNCHANGED <<fileVars, jwksVars>>,
           handle' \in [Threads -> Handle], call' \in [Threads -> Call], talk' \in [Threads -> Talk],
           \A u \in Threads \ {t} :
               handle'[u] = handle[u] /\ call'[u] = call[u] /\ talk'[u] = talk[u],
           ThreadInv(t)'
    PROVE  PInv'
<1>1. TypeOK'
  BY DEF PInv, TypeOK, fileVars, jwksVars
<1>2. \A u \in Threads \ {t} : Same(u)
  BY DEF Same, fileVars, jwksVars
<1>3. QED
  BY <1>1, <1>2, ByThread

\* What the two ways out of a place do to the calls.
LEMMA GoesEffect ==
    ASSUME TypeOK, NEW t \in Threads, NEW from, NEW to \in Places, Goes(t, from, to)
    PROVE  /\ call[t].pc = from /\ call' \in [Threads -> Call]
           /\ call'[t].pc = to /\ call'[t].raw = call[t].raw
           /\ call'[t].rc = call[t].rc /\ call'[t].token = call[t].token
           /\ \A u \in Threads \ {t} : call'[u] = call[u]
<1>1. call \in [Threads -> Call] /\ call[t] \in Call
  BY DEF TypeOK
<1>2. call' = [call EXCEPT ![t] = [call[t] EXCEPT !.pc = to]] /\ call[t].pc = from
  BY DEF Goes
<1>3. [call[t] EXCEPT !.pc = to] \in Call
  BY <1>1 DEF Call
<1>4. call' \in [Threads -> Call] /\ call'[t] = [call[t] EXCEPT !.pc = to]
      /\ \A u \in Threads \ {t} : call'[u] = call[u]
  BY <1>1, <1>2, <1>3
<1>5. QED
  BY <1>1, <1>2, <1>4 DEF Call

\* The same for a return.
LEMMA ReturnsEffect ==
    ASSUME TypeOK, NEW t \in Threads, NEW from, NEW code \in Codes, Returns(t, from, code)
    PROVE  /\ call[t].pc = from /\ call' \in [Threads -> Call]
           /\ call'[t].pc = "done" /\ call'[t].raw = call[t].raw
           /\ call'[t].rc = code /\ call'[t].token = call[t].token
           /\ \A u \in Threads \ {t} : call'[u] = call[u]
<1>1. call \in [Threads -> Call] /\ call[t] \in Call
  BY DEF TypeOK
<1>2. call' = [call EXCEPT ![t] = [call[t] EXCEPT !.pc = "done", !.rc = code]] /\ call[t].pc = from
  BY <1>1 DEF Returns
<1>3. [call[t] EXCEPT !.pc = "done", !.rc = code] \in Call
  BY <1>1 DEF Call, Places
<1>4. call' \in [Threads -> Call] /\ call'[t] = [call[t] EXCEPT !.pc = "done", !.rc = code]
      /\ \A u \in Threads \ {t} : call'[u] = call[u]
  BY <1>1, <1>2, <1>3
<1>5. QED
  BY <1>1, <1>2, <1>4 DEF Call

\* An early return that lets nobody in.
LEMMA EarlyReturn ==
    ASSUME PInv, NEW t \in Threads, NEW from \in Located \ {"jwks"}, NEW code \in Codes \ {"SUCCESS"},
           Returns(t, from, code), Quietly
    PROVE  PInv'
<1>1. /\ call[t].pc = from /\ call' \in [Threads -> Call] /\ call'[t].pc = "done"
      /\ call'[t].rc = code /\ \A u \in Threads \ {t} : call'[u] = call[u]
  BY ReturnsEffect DEF PInv
<1>2. ThreadInv(t)'
  BY <1>1 DEF PInv, ThreadInv, Quietly, fileVars, jwksVars, ReadsInPlace, ConfigOfCall, HostOfPolicy,
              AnswerKept, TokenOfCall, KeysOfCall, LetIn, Located, Inside
<1>3. QED
  BY <1>1, <1>2, QuietFrame DEF Quietly, PInv, TypeOK

\* Past only_from, the host is on every list.
LEMMA HostAllowedKeeps == ASSUME PInv, NEW t \in Threads, HostAllowed(t) PROVE PInv'
<1>1. /\ call[t].pc = "only_from" /\ call' \in [Threads -> Call] /\ call'[t].pc = "user"
      /\ call'[t].raw = call[t].raw /\ \A u \in Threads \ {t} : call'[u] = call[u]
  BY GoesEffect DEF HostAllowed, PInv, Places
<1>2. Args(t)' = Args(t) /\ Policies(t)' = Policies(t)
  BY <1>1 DEF HostAllowed, Quietly, fileVars, Args, Policies
<1>3. \A i \in DOMAIN Args(t).only_from : handle[t].rhost \in Args(t).only_from[i]
  BY DEF HostAllowed, only_from_allows
<1>4. ThreadInv(t)'
  BY <1>1, <1>2, <1>3
  DEF PInv, ThreadInv, HostAllowed, Quietly, fileVars, jwksVars, ReadsInPlace, ConfigOfCall,
      HostOfPolicy, AnswerKept, TokenOfCall, KeysOfCall, LetIn, Located, Inside
<1>5. QED
  BY <1>1, <1>4, QuietFrame DEF HostAllowed, Quietly, PInv, TypeOK

\* The account is looked up; without a stored answer the user is asked.
LEMMA OnwardKeeps ==
    ASSUME PInv, NEW t \in Threads, account_exists(t) \/ NotStored(t)
    PROVE  PInv'
<1>1. /\ call[t].pc \in {"account", "authtok"} /\ call' \in [Threads -> Call]
      /\ call'[t].pc \in {"authtok", "ask"} /\ (call'[t].pc = "ask" => handle[t].authtok = None)
      /\ call'[t].raw = call[t].raw /\ \A u \in Threads \ {t} : call'[u] = call[u]
  <2>1. CASE account_exists(t)
    BY <2>1, GoesEffect DEF account_exists, PInv, Places
  <2>2. CASE NotStored(t)
    BY <2>2, GoesEffect DEF NotStored, PInv, Places
  <2>3. QED
    BY <2>1, <2>2
<1>2. Quietly
  BY DEF account_exists, NotStored
<1>3. Args(t)' = Args(t) /\ Policies(t)' = Policies(t)
  BY <1>1, <1>2 DEF Quietly, fileVars, Args, Policies
<1>4. ThreadInv(t)'
  BY <1>1, <1>2, <1>3
  DEF PInv, ThreadInv, Quietly, fileVars, jwksVars, ReadsInPlace, ConfigOfCall,
      HostOfPolicy, AnswerKept, TokenOfCall, KeysOfCall, LetIn, Located, Inside
<1>5. QED
  BY <1>1, <1>2, <1>4, QuietFrame DEF Quietly, PInv, TypeOK

\* The user name is filled in.
LEMMA UserKeeps == ASSUME PInv, NEW t \in Threads, User(t) PROVE PInv'
<1>1. /\ call[t].pc = "user" /\ call' \in [Threads -> Call] /\ call'[t].pc = "account"
      /\ call'[t].raw = call[t].raw /\ \A u \in Threads \ {t} : call'[u] = call[u]
  BY GoesEffect DEF User, PInv, Places
<1>2. /\ handle' \in [Threads -> Handle] /\ \A u \in Threads \ {t} : handle'[u] = handle[u]
      /\ handle'[t].rhost = handle[t].rhost /\ handle'[t].authtok = handle[t].authtok
  BY DEF User, PInv, TypeOK, Handle
<1>3. Args(t)' = Args(t) /\ Policies(t)' = Policies(t)
  BY <1>1 DEF User, fileVars, Args, Policies
<1>4. ThreadInv(t)'
  BY <1>1, <1>2, <1>3
  DEF PInv, ThreadInv, User, fileVars, jwksVars, ReadsInPlace, ConfigOfCall,
      HostOfPolicy, AnswerKept, TokenOfCall, KeysOfCall, LetIn, Located, Inside
<1>5. QED
  BY <1>1, <1>2, <1>4, QuietFrame DEF User, PInv, TypeOK

\* A token from earlier in the stack, or what is left of it.
LEMMA StoredKeeps == ASSUME PInv, NEW t \in Threads, Stored(t) PROVE PInv'
<1>1. handle[t].authtok \in Answers /\ lossy(handle[t].authtok) \in {Replaced, handle[t].authtok}
      /\ lossy(handle[t].authtok) \in Tokens \cup {Replaced}
  BY DEF Stored, PInv, TypeOK, Handle, lossy, Answers
<1>2. /\ call[t].pc = "authtok" /\ call' \in [Threads -> Call] /\ call'[t].pc = "verifier"
      /\ call'[t].token \in {Replaced, handle[t].authtok}
      /\ call'[t].raw = call[t].raw /\ \A u \in Threads \ {t} : call'[u] = call[u]
  BY <1>1 DEF Stored, PInv, TypeOK, Call, Places
<1>3. Args(t)' = Args(t) /\ Policies(t)' = Policies(t)
  BY <1>2 DEF Stored, Quietly, fileVars, Args, Policies
<1>4. ThreadInv(t)'
  BY <1>2, <1>3
  DEF PInv, ThreadInv, Stored, Quietly, fileVars, jwksVars, ReadsInPlace, ConfigOfCall,
      HostOfPolicy, AnswerKept, TokenOfCall, KeysOfCall, LetIn, Located, Inside
<1>5. QED
  BY <1>2, <1>4, QuietFrame DEF Stored, Quietly, PInv, TypeOK

\* The answer, stored or not, and UTF-8 or not.
LEMMA AnsweredKeeps == ASSUME PInv, NEW t \in Threads, Answered(t) PROVE PInv'
<1>1. PICK a \in Answers, stored \in BOOLEAN :
        /\ handle' = [handle EXCEPT ![t].authtok = IF stored THEN a ELSE None]
        /\ Told(t, a, stored)
        /\ call' = [call EXCEPT ![t] = IF a = Garbage THEN [@ EXCEPT !.pc = "done", !.rc = "AUTH_ERR"]
                                       ELSE [@ EXCEPT !.pc = "verifier", !.token = a]]
  BY DEF Answered
<1>2. /\ handle \in [Threads -> Handle] /\ handle[t] \in Handle /\ call \in [Threads -> Call]
      /\ call[t] \in Call /\ talk \in [Threads -> Talk] /\ talk[t] \in Talk /\ call[t].pc = "ask"
      /\ handle[t].authtok = None
  BY DEF Answered, PInv, TypeOK, ThreadInv, AnswerKept
<1>3. a # None
  BY AnswersAssumption DEF Answers
<1>4. ~talk[t].again /\ ~talk[t].stored
  BY <1>2, AnswersAssumption DEF PInv, ThreadInv, AnswerKept, Answers
<1>5. /\ handle' \in [Threads -> Handle] /\ \A u \in Threads \ {t} : handle'[u] = handle[u]
      /\ handle'[t].rhost = handle[t].rhost /\ (stored => handle'[t].authtok = a)
  BY <1>1, <1>2 DEF Handle
<1>6. /\ talk' \in [Threads -> Talk] /\ \A u \in Threads \ {t} : talk'[u] = talk[u]
      /\ talk'[t].answer = a /\ talk'[t].stored = stored /\ ~talk'[t].again
  BY <1>1, <1>2, <1>4 DEF Told, Talk
<1>7. /\ call' \in [Threads -> Call] /\ \A u \in Threads \ {t} : call'[u] = call[u]
      /\ call'[t].raw = call[t].raw
      /\ \/ call'[t].pc = "done" /\ call'[t].rc = "AUTH_ERR"
         \/ call'[t].pc = "verifier" /\ call'[t].token = a
  <2>1. CASE a = Garbage
    BY <1>1, <1>2, <2>1 DEF Call, Places, Codes
  <2>2. CASE a # Garbage
    BY <1>1, <1>2, <2>2 DEF Call, Places, Answers
  <2>3. QED
    BY <2>1, <2>2
<1>8. UNCHANGED <<fileVars, jwksVars>>
  BY DEF Answered
<1>9. Args(t)' = Args(t) /\ Policies(t)' = Policies(t)
  BY <1>7, <1>8 DEF fileVars, Args, Policies
<1>10. ThreadInv(t)'
  BY <1>2, <1>5, <1>6, <1>7, <1>8, <1>9
  DEF PInv, ThreadInv, fileVars, jwksVars, ReadsInPlace, ConfigOfCall,
      HostOfPolicy, AnswerKept, TokenOfCall, KeysOfCall, LetIn, Located, Inside
<1>11. QED
  BY <1>5, <1>6, <1>7, <1>8, <1>10, QuietFrame

------------------------------------------------------------------------------
(* The call begins.                                                        *)

\* What an entry does to the calls.
LEMMA EntersEffect ==
    ASSUME TypeOK, NEW t \in Threads, NEW raw \in Stack \cup {None}, NEW to \in Places,
           NEW rc \in Codes \cup {None}, Enters(t, raw, to, rc)
    PROVE  /\ call[t].pc = "out" /\ call' \in [Threads -> Call]
           /\ call'[t].pc = to /\ call'[t].raw = raw /\ call'[t].rc = rc
           /\ \A u \in Threads \ {t} : call'[u] = call[u]
BY DEF TypeOK, Enters, Call

\* Entries that return at once, and the one that has its arguments.
LEMMA EnterKeeps ==
    ASSUME PInv, NEW t \in Threads, NEW raw \in Stack \cup {None}, NEW to \in {"done", "only_from"},
           NEW rc \in Codes \cup {None}, Enters(t, raw, to, rc), Quietly,
           to = "done" => rc # "SUCCESS" \/ raw = None,
           to = "only_from" => raw \in Stack /\ FromInline(raw)
    PROVE  PInv'
<1>1. /\ call[t].pc = "out" /\ call' \in [Threads -> Call]
      /\ call'[t].pc = to /\ call'[t].raw = raw /\ call'[t].rc = rc
      /\ \A u \in Threads \ {t} : call'[u] = call[u]
  BY EntersEffect DEF PInv, Places
<1>2. to = "only_from" => Args(t)' \in Policies(t)'
  <2>1. ASSUME to = "only_from" PROVE ~FromFile(raw)
    BY <2>1 DEF FromFile, FromInline, Ok
  <2>2. QED
    BY <1>1, <2>1 DEF Args, Policies
<1>3. ThreadInv(t)'
  BY <1>1, <1>2
  DEF PInv, ThreadInv, Quietly, fileVars, jwksVars, ReadsInPlace, ConfigOfCall,
      HostOfPolicy, AnswerKept, TokenOfCall, KeysOfCall, LetIn, Located, Inside
<1>4. QED
  BY <1>1, <1>3, QuietFrame DEF Quietly, PInv, TypeOK

\* The entry that looks up the file.
LEMMA EnterFileKeeps == ASSUME PInv, NEW t \in Threads, EnterFile(t) PROVE PInv'
<1>1. PICK raw \in Stack : Enters(t, raw, "config", None)
  BY DEF EnterFile
<1>2. /\ call[t].pc = "out" /\ call' \in [Threads -> Call]
      /\ call'[t].pc = "config" /\ call'[t].raw = raw
      /\ \A u \in Threads \ {t} : call'[u] = call[u]
  BY <1>1, EntersEffect DEF PInv, Places
<1>3. TypeOK'
  BY <1>2, ConfTypes DEF PInv, EnterFile, TypeOK, jwksVars
<1>4. \A u \in Threads \ {t} : Same(u)
  BY <1>2 DEF PInv, EnterFile, TypeOK, Conf!Begin, jwksVars, Same
<1>5. ThreadInv(t)'
  BY <1>2
  DEF PInv, ThreadInv, EnterFile, jwksVars, ReadsInPlace, ConfigOfCall,
      HostOfPolicy, AnswerKept, TokenOfCall, KeysOfCall, LetIn, Located, Inside
<1>6. QED
  BY <1>3, <1>4, <1>5, ByThread

\* Every entry point.
LEMMA EntriesKeep == ASSUME PInv, NEW t \in Threads, Enter(t) PROVE PInv'
<1>1. CASE NoHandle(t)
  BY <1>1, EnterKeeps DEF NoHandle, Codes
<1>2. CASE OtherEntry(t)
  BY <1>2, EnterKeeps DEF OtherEntry, Codes
<1>3. CASE BadArgs(t)
  BY <1>3, EnterKeeps DEF BadArgs, Codes
<1>4. CASE EnterInline(t)
  BY <1>4, EnterKeeps DEF EnterInline
<1>5. QED
  BY <1>1, <1>2, <1>3, <1>4, EnterFileKeeps DEF Enter

------------------------------------------------------------------------------
(* The two look-ups.                                                       *)

\* The configuration is refused.
LEMMA ConfigFailsKeeps == ASSUME PInv, NEW t \in Threads, ConfigFails(t) PROVE PInv'
<1>1. /\ call[t].pc = "config" /\ call' \in [Threads -> Call] /\ call'[t].pc = "done"
      /\ call'[t].rc = "SYSTEM_ERR" /\ \A u \in Threads \ {t} : call'[u] = call[u]
  BY ReturnsEffect DEF ConfigFails, PInv, Codes
<1>2. TypeOK'
  BY <1>1, ConfTypes DEF PInv, ConfigFails, TypeOK, jwksVars
<1>3. /\ fileAt'[t] = "done" /\ fileSeen' = fileSeen
      /\ \A u \in Threads \ {t} : fileAt'[u] = fileAt[u] /\ config'[u] = config[u]
  BY ConfReturn DEF PInv, ConfigFails
<1>4. \A u \in Threads \ {t} : Same(u)
  BY <1>1, <1>3 DEF ConfigFails, jwksVars, Same
<1>5. ThreadInv(t)'
  BY <1>1, <1>3
  DEF PInv, ThreadInv, ConfigFails, jwksVars, ReadsInPlace, ConfigOfCall,
      HostOfPolicy, AnswerKept, TokenOfCall, KeysOfCall, LetIn, Located, Inside
<1>6. QED
  BY <1>2, <1>4, <1>5, ByThread

\* The configuration is one of the call's.
LEMMA ConfigReturnsKeeps == ASSUME PInv, NEW t \in Threads, ConfigReturns(t) PROVE PInv'
<1>1. /\ call[t].pc = "config" /\ call' \in [Threads -> Call] /\ call'[t].pc = "only_from"
      /\ call'[t].raw = call[t].raw /\ \A u \in Threads \ {t} : call'[u] = call[u]
  BY GoesEffect DEF ConfigReturns, PInv, Places
<1>2. TypeOK'
  BY <1>1, ConfTypes DEF PInv, ConfigReturns, TypeOK, jwksVars
<1>3. /\ \E v \in fileSeen[t] : config'[t] \in Readings[v]
      /\ fileAt'[t] = "done" /\ fileSeen' = fileSeen
      /\ \A u \in Threads \ {t} : fileAt'[u] = fileAt[u] /\ config'[u] = config[u]
  BY ConfReturn DEF PInv, ConfigReturns
<1>4. \A u \in Threads \ {t} : Same(u)
  BY <1>1, <1>3 DEF ConfigReturns, jwksVars, Same
<1>5. Args(t)' \in Policies(t)'
  <2>1. CASE ~FromFile(call[t].raw)
    BY <1>1, <2>1 DEF Args, Policies
  <2>2. CASE FromFile(call[t].raw)
    <3>1. Args(t)' = config'[t].value
      BY <1>1, <2>2 DEF Args
    <3>2. config'[t] \in {a \in UNION {Readings[v] : v \in fileSeen[t]} : a.ok}
      BY <1>3 DEF ConfigReturns
    <3>3. Policies(t)' = {r.value : r \in {a \in UNION {Readings[v] : v \in fileSeen[t]} : a.ok}}
      BY <1>1, <1>3, <2>2 DEF ConfigReturns, Policies
    <3>4. QED
      BY <3>1, <3>2, <3>3
  <2>3. QED
    BY <2>1, <2>2
<1>6. ThreadInv(t)'
  BY <1>1, <1>3, <1>5
  DEF PInv, ThreadInv, ConfigReturns, jwksVars, ReadsInPlace, ConfigOfCall,
      HostOfPolicy, AnswerKept, TokenOfCall, KeysOfCall, LetIn, Located, Inside
<1>7. QED
  BY <1>2, <1>4, <1>6, ByThread

\* The JWKS is looked up only with an issuer and a path.
LEMMA VerifierBeginsKeeps == ASSUME PInv, NEW t \in Threads, VerifierBegins(t) PROVE PInv'
<1>1. /\ call[t].pc = "verifier" /\ call' \in [Threads -> Call] /\ call'[t].pc = "jwks"
      /\ call'[t].raw = call[t].raw /\ call'[t].token = call[t].token
      /\ \A u \in Threads \ {t} : call'[u] = call[u]
  BY GoesEffect DEF VerifierBegins, PInv, Places
<1>2. TypeOK'
  BY <1>1, JwksTypes DEF PInv, VerifierBegins, TypeOK, fileVars
<1>3. \A u \in Threads \ {t} : Same(u)
  BY <1>1 DEF PInv, VerifierBegins, TypeOK, Jwks!Begin, fileVars, Same
<1>4. jwksAt'[t] = "running"
  BY DEF PInv, VerifierBegins, TypeOK, Jwks!Begin
<1>5. Args(t)' = Args(t) /\ Policies(t)' = Policies(t)
  BY <1>1 DEF VerifierBegins, fileVars, Args, Policies
<1>6. ThreadInv(t)'
  BY <1>1, <1>4, <1>5
  DEF PInv, ThreadInv, VerifierBegins, fileVars, ReadsInPlace, ConfigOfCall,
      HostOfPolicy, AnswerKept, TokenOfCall, KeysOfCall, LetIn, Located, Inside
<1>7. QED
  BY <1>2, <1>3, <1>6, ByThread

\* No verifier.
LEMMA VerifierFailsKeeps ==
    ASSUME PInv, NEW t \in Threads, ReadFails(t) \/ BuildFails(t)
    PROVE  PInv'
<1>1. /\ call[t].pc = "jwks" /\ call' \in [Threads -> Call] /\ call'[t].pc = "done"
      /\ call'[t].rc # "SUCCESS" /\ \A u \in Threads \ {t} : call'[u] = call[u]
  <2>1. CASE ReadFails(t)
    BY <2>1, ReturnsEffect DEF ReadFails, PInv, Codes
  <2>2. CASE BuildFails(t)
    BY <2>2, ReturnsEffect DEF BuildFails, PInv, Codes
  <2>3. QED
    BY <2>1, <2>2
<1>2. Jwks!Return(t) /\ UNCHANGED <<fileVars, handle, talk>>
  BY DEF ReadFails, BuildFails
<1>3. TypeOK'
  BY <1>1, <1>2, JwksTypes DEF PInv, TypeOK, fileVars
<1>4. /\ jwksAt'[t] = "done" /\ jwksSeen' = jwksSeen
      /\ \A u \in Threads \ {t} : jwksAt'[u] = jwksAt[u] /\ keys'[u] = keys[u]
  BY <1>2, JwksReturn DEF PInv
<1>5. \A u \in Threads \ {t} : Same(u)
  BY <1>1, <1>2, <1>4 DEF fileVars, Same
<1>6. ThreadInv(t)'
  BY <1>1, <1>2, <1>4
  DEF PInv, ThreadInv, fileVars, ReadsInPlace, ConfigOfCall,
      HostOfPolicy, AnswerKept, TokenOfCall, KeysOfCall, LetIn, Located, Inside
<1>7. QED
  BY <1>3, <1>5, <1>6, ByThread

\* The keys are those of a JWKS of the call.
LEMMA VerifierReturnsKeeps == ASSUME PInv, NEW t \in Threads, VerifierReturns(t) PROVE PInv'
<1>1. /\ call[t].pc = "jwks" /\ call' \in [Threads -> Call] /\ call'[t].pc = "verify"
      /\ call'[t].raw = call[t].raw /\ call'[t].token = call[t].token
      /\ \A u \in Threads \ {t} : call'[u] = call[u]
  BY GoesEffect DEF VerifierReturns, PInv, Places
<1>2. TypeOK'
  BY <1>1, JwksTypes DEF PInv, VerifierReturns, TypeOK, fileVars
<1>3. /\ keys'[t] \in jwksSeen[t] \cup {None}
      /\ jwksAt'[t] = "done" /\ jwksSeen' = jwksSeen
      /\ \A u \in Threads \ {t} : jwksAt'[u] = jwksAt[u] /\ keys'[u] = keys[u]
  BY JwksReturn DEF PInv, VerifierReturns
<1>4. \A u \in Threads \ {t} : Same(u)
  BY <1>1, <1>3 DEF VerifierReturns, fileVars, Same
<1>5. Args(t)' = Args(t) /\ Policies(t)' = Policies(t)
  BY <1>1 DEF VerifierReturns, fileVars, Args, Policies
<1>6. keys'[t] # None /\ Args(t).iss # <<>>
  BY DEF VerifierReturns, Builds
<1>7. ThreadInv(t)'
  BY <1>1, <1>3, <1>5, <1>6
  DEF PInv, ThreadInv, VerifierReturns, fileVars, ReadsInPlace, ConfigOfCall,
      HostOfPolicy, AnswerKept, TokenOfCall, KeysOfCall, LetIn, Located, Inside
<1>8. QED
  BY <1>2, <1>4, <1>7, ByThread

------------------------------------------------------------------------------
(* The call ends, and the handle is used by others.                        *)

\* The one return that lets somebody in.
LEMMA SuccessKeeps == ASSUME PInv, NEW t \in Threads, Success(t) PROVE PInv'
<1>1. /\ call[t].pc = "verify" /\ call' \in [Threads -> Call] /\ call'[t].pc = "done"
      /\ call'[t].raw = call[t].raw /\ call'[t].token = call[t].token
      /\ \A u \in Threads \ {t} : call'[u] = call[u]
  BY ReturnsEffect DEF Success, PInv, Codes
<1>2. Args(t) \in Policies(t) /\ Policies(t)' = Policies(t)
  BY <1>1 DEF Success, Quietly, fileVars, Policies, PInv, ThreadInv, ConfigOfCall, Located, Inside
<1>3. keys[t] \in jwksSeen[t] \ {None}
  BY <1>1 DEF PInv, ThreadInv, KeysOfCall
<1>4. call[t].token \in {handle[t].authtok, talk[t].answer}
  BY <1>1, AnswersAssumption DEF PInv, ThreadInv, TokenOfCall, Success, Accepts
<1>5. LetIn(t)'
  <2>1. /\ \A i \in DOMAIN Args(t).only_from : handle[t].rhost \in Args(t).only_from[i]
        /\ Unset \notin {Args(t).iss, Args(t).jwks} /\ Args(t).iss # <<>>
        /\ Accepts(Args(t), keys[t], call[t].token)
        /\ call[t].token.name = handle[t].user
    BY <1>1 DEF PInv, ThreadInv, HostOfPolicy, KeysOfCall, Inside, Success
  <2>2. handle' = handle /\ talk' = talk /\ jwksSeen' = jwksSeen
    BY DEF Success, Quietly, jwksVars
  <2>3. QED
    BY <1>1, <1>2, <1>3, <1>4, <2>1, <2>2 DEF LetIn, Accepts
<1>6. ThreadInv(t)'
  BY <1>1, <1>5
  DEF PInv, ThreadInv, Success, Quietly, fileVars, jwksVars, ReadsInPlace, ConfigOfCall,
      HostOfPolicy, AnswerKept, TokenOfCall, KeysOfCall, Located, Inside
<1>7. QED
  BY <1>1, <1>6, QuietFrame DEF Success, Quietly, PInv, TypeOK

\* The call is over and its Arcs are dropped.
LEMMA LeaveKeeps == ASSUME PInv, NEW t \in Threads, Leave(t) PROVE PInv'
<1>1. /\ call[t].pc = "done" /\ call' \in [Threads -> Call] /\ call'[t].pc = "out"
      /\ \A u \in Threads \ {t} : call'[u] = call[u]
  BY DEF Leave, PInv, TypeOK, NoCall, Call, Places
<1>2. Conf!Finish(t) \/ UNCHANGED fileVars
  BY DEF Leave
<1>3. Jwks!Finish(t) \/ UNCHANGED jwksVars
  BY DEF Leave
<1>4. TypeOK'
  BY <1>1, <1>2, <1>3, ConfTypes, JwksTypes DEF PInv, Leave, TypeOK
<1>5. fileAt'[t] # "running" /\ jwksAt'[t] # "running"
  BY <1>1, <1>2, <1>3
  DEF PInv, TypeOK, ThreadInv, ReadsInPlace, Conf!Finish, Jwks!Finish, fileVars, jwksVars
<1>6. ASSUME NEW u \in Threads \ {t} PROVE Same(u)
  <2>1. fileAt'[u] = fileAt[u] /\ fileSeen'[u] = fileSeen[u] /\ config'[u] = config[u]
    BY <1>2 DEF PInv, TypeOK, Conf!Finish, fileVars
  <2>2. jwksAt'[u] = jwksAt[u] /\ jwksSeen'[u] = jwksSeen[u] /\ keys'[u] = keys[u]
    BY <1>3 DEF PInv, TypeOK, Jwks!Finish, jwksVars
  <2>3. QED
    BY <1>1, <2>1, <2>2 DEF Leave, Same
<1>7. ThreadInv(t)'
  BY <1>1, <1>5
  DEF PInv, ThreadInv, Leave, ReadsInPlace, ConfigOfCall,
      HostOfPolicy, AnswerKept, TokenOfCall, KeysOfCall, LetIn, Located, Inside
<1>8. QED
  BY <1>4, <1>6, <1>7, ByThread

\* Other modules, and the next transaction of the thread.
LEMMA OthersKeep ==
    ASSUME PInv, NEW t \in Threads, OtherModule(t) \/ NextTransaction(t)
    PROVE  PInv'
<1>1. call[t].pc = "out" /\ UNCHANGED <<fileVars, jwksVars, call>>
  BY DEF OtherModule, NextTransaction
<1>2. /\ handle' \in [Threads -> Handle] /\ talk' \in [Threads -> Talk]
      /\ \A u \in Threads \ {t} : handle'[u] = handle[u] /\ talk'[u] = talk[u]
  <2>1. /\ handle \in [Threads -> Handle] /\ handle[t] \in Handle
        /\ talk \in [Threads -> Talk] /\ Silent \in Talk
    BY DEF PInv, TypeOK, Talk, Silent
  <2>2. CASE OtherModule(t)
    BY <2>1, <2>2 DEF OtherModule, Handle
  <2>3. CASE NextTransaction(t)
    BY <2>1, <2>3 DEF NextTransaction, Handle
  <2>4. QED
    BY <2>2, <2>3
<1>3. AnswerKept(t)'
  <2>1. CASE OtherModule(t)
    <3>1. ~talk[t].stored
      BY <2>1, AnswersAssumption DEF OtherModule, PInv, ThreadInv, AnswerKept, Answers
    <3>2. QED
      BY <1>1, <2>1, <3>1 DEF OtherModule, PInv, ThreadInv, AnswerKept
  <2>2. CASE NextTransaction(t)
    BY <1>1, <2>2 DEF NextTransaction, PInv, TypeOK, AnswerKept, Silent
  <2>3. QED
    BY <2>1, <2>2
<1>4. ThreadInv(t)'
  BY <1>1, <1>3
  DEF PInv, ThreadInv, fileVars, jwksVars, ReadsInPlace, ConfigOfCall,
      HostOfPolicy, TokenOfCall, KeysOfCall, LetIn, Located, Inside
<1>5. QED
  BY <1>1, <1>2, <1>4, QuietFrame DEF PInv, TypeOK

\* The returns with nothing else to them.
LEMMA ErrorsKeep ==
    ASSUME PInv, NEW t \in Threads,
           \/ Ignored(t) \/ UserFails(t) \/ UserIsNull(t) \/ AccountFails(t) \/ ItemFails(t)
           \/ ConvFails(t) \/ NoIssuer(t) \/ Rejected(t) \/ OtherUser(t)
    PROVE  PInv'
<1>1. Quietly /\ \E from \in Located \ {"jwks"}, code \in Codes \ {"SUCCESS"} : Returns(t, from, code)
  BY DEF Ignored, UserFails, UserIsNull, AccountFails, ItemFails, ConvFails, NoIssuer, Rejected,
         OtherUser, Located, Inside, Codes
<1>2. QED
  BY <1>1, EarlyReturn

------------------------------------------------------------------------------
\* The invariant holds at the start, ...
LEMMA InitPInv == Init => PInv
<1> SUFFICES ASSUME Init PROVE PInv
  OBVIOUS
<1>1. TypeOK
  BY DEF Init, Conf!Init, Jwks!Init, TypeOK, NoCall, Silent, Handle, Call, Talk, Places
<1>2. ASSUME NEW t \in Threads PROVE ThreadInv(t)
  BY DEF Init, Conf!Init, Jwks!Init, NoCall, Silent, ThreadInv, ReadsInPlace, ConfigOfCall,
         HostOfPolicy, AnswerKept, TokenOfCall, KeysOfCall, LetIn, Located, Inside
<1>3. QED
  BY <1>1, <1>2 DEF PInv

\* ... is kept by every step, ...
LEMMA NextPInv == PInv /\ [Next]_vars => PInv'
<1> SUFFICES ASSUME PInv, [Next]_vars PROVE PInv'
  OBVIOUS
<1>1. CASE EditConfig \/ EditJwks
  BY <1>1, EditsKeep
<1>2. ASSUME NEW t \in Threads, OtherModule(t) \/ NextTransaction(t) PROVE PInv'
  BY <1>2, OthersKeep
<1>3. ASSUME NEW t \in Threads, Enter(t) PROVE PInv'
  BY <1>3, EntriesKeep
<1>4. ASSUME NEW t \in Threads, authenticate(t) PROVE PInv'
  BY <1>4, ConfigFailsKeeps, ConfigReturnsKeeps, HostAllowedKeeps, UserKeeps, OnwardKeeps, StoredKeeps,
     AnsweredKeeps, VerifierBeginsKeeps, VerifierFailsKeeps, VerifierReturnsKeeps, SuccessKeeps,
     LeaveKeeps, ErrorsKeep DEF authenticate
<1>5. CASE UNCHANGED vars
  <2>1. TypeOK'
    BY <1>5 DEF PInv, TypeOK, vars, fileVars, jwksVars
  <2>2. \A u \in Threads : Same(u)
    BY <1>5 DEF Same, vars, fileVars, jwksVars
  <2>3. QED
    BY <2>1, <2>2, SameKeeps DEF PInv
<1>6. QED
  BY <1>1, <1>2, <1>3, <1>4, <1>5 DEF Next

\* ... and so always holds.
LEMMA Invariance == Spec => []PInv
BY InitPInv, NextPInv, PTL DEF Spec

\* The calls, handles and conversations keep their types (lib.rs, authenticate).
THEOREM LoginTypes == Spec => []TypeOK
<1>1. PInv => TypeOK
  BY DEF PInv
<1>2. QED
  BY <1>1, Invariance, PTL

\* For any stack of modules, files, keys, tokens, users and number of logins,
\* and however the files change while a user is at the prompt: a call that
\* succeeds had a token for just that user, and one configuration and one JWKS
\* of the time of the call that accept it and the host (lib.rs, authenticate).
THEOREM LetInOnlyByPolicy == Spec => []LetInByPolicy
<1>1. PInv => LetInByPolicy
  BY DEF PInv, ThreadInv, LetIn, LetInByPolicy
<1>2. QED
  BY <1>1, Invariance, PTL

\* Any number of calls on one handle ask the user at most once, if libpam keeps
\* the answer (lib.rs, set_authtok).
THEOREM AskedAtMostOnce == Spec => []AskedOnce
<1>1. PInv => AskedOnce
  BY DEF PInv, ThreadInv, AnswerKept, AskedOnce
<1>2. QED
  BY <1>1, Invariance, PTL

\* What the rest of the stack finds in the handle is what the user typed, after
\* any number of calls and whatever they returned (lib.rs, set_authtok).
THEOREM AnswerReachesStack == Spec => []StackSeesAnswer
<1>1. PInv => StackSeesAnswer
  BY DEF PInv, ThreadInv, AnswerKept, StackSeesAnswer
<1>2. QED
  BY <1>1, Invariance, PTL

==============================================================================
