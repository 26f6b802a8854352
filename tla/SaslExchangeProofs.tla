-------------------------- MODULE SaslExchangeProofs --------------------------
(***************************************************************************)
(* What the two ends of a connection know of each other, for any tokens    *)
(* and names, any application and any number of attempts: the proofs of    *)
(* TypeOK, IdentitiesAgree and NoSplitOutcome of SaslExchange, and that it *)
(* implements Authentication.  Before that, for any allocator, who owns the*)
(* client's prompt array between two steps and that its answers are asked  *)
(* for once: PromptsAreOwned and NeverAsksTwice of SaslClient.             *)
(***************************************************************************)
EXTENDS SaslExchange, TLAPS

------------------------------------------------------------------------------
(* The prompts of the client.                                              *)

\* Prompts::release leaves no array behind, and a slot that may be cleared.
LEMMA ReleaseEmpties ==
    ASSUME PromptsAreOwned
    PROVE  DOMAIN Released = {}
<1>1. CASE slot = None
    BY <1>1 DEF PromptsAreOwned, Released
<1>2. CASE slot # None
    <2>1. DOMAIN Released = DOMAIN heap \ {slot}
        BY <1>2 DEF Released, Without
    <2> QED
        BY <2>1, <1>2 DEF PromptsAreOwned
<1> QED
    BY <1>1, <1>2

\* A step of the mechanism, whatever it returns, keeps the one array owned.
LEMMA StepKeepsOwnership ==
    ASSUME PromptsAreOwned, NEW server_in, client_step(server_in)
    PROVE  PromptsAreOwned'
<1>1. DOMAIN Released = {}
    BY ReleaseEmpties
<1>2. CASE \/ DataTooBig(server_in) \/ Conclude(server_in) \/ Weak(server_in)
           \/ NoSlot(server_in)
    BY <1>2 DEF PromptsAreOwned, DataTooBig, Conclude, Weak, NoSlot
<1>3. CASE NoMemory(server_in)
    BY <1>1, <1>3 DEF PromptsAreOwned, NoMemory
<1>4. CASE Ask(server_in)
    <2>1. PICK b \in Blocks : heap' = Allocated(b, Wants) /\ slot' = b
        BY <1>4 DEF Ask
    <2>2. DOMAIN heap' = {b}
        BY <1>1, <2>1 DEF Allocated
    <2> QED
        BY <2>1, <2>2, BlocksAssumption DEF PromptsAreOwned
<1>5. CASE Answered(server_in)
    BY <1>1, <1>5 DEF PromptsAreOwned, Answered
<1>6. CASE \/ UserFails(server_in) \/ NoToken(server_in) \/ NotText(server_in)
           \/ ClientNoCanon(server_in) \/ AnonymousRefused(server_in)
           \/ AuthzidRefused(server_in) \/ Respond(server_in)
    BY <1>5, <1>6
       DEF UserFails, NoToken, NotText, ClientNoCanon, AnonymousRefused, AuthzidRefused,
           Respond, Gives
<1> QED
    BY <1>2, <1>3, <1>4, <1>6 DEF client_step

\* The prompt array that is allocated is always the one the application holds:
\* nothing leaks and nothing is freed twice (sasl/src/ffi.rs:261-310).
THEOREM PromptsOwned == ClientSpec => []PromptsAreOwned
<1>1. ClientInit => PromptsAreOwned
    BY DEF ClientInit, PromptsAreOwned
<1>2. PromptsAreOwned /\ [ClientNext]_clientVars => PromptsAreOwned'
    <2> SUFFICES ASSUME PromptsAreOwned, [ClientNext]_clientVars
                 PROVE  PromptsAreOwned'
        OBVIOUS
    <2>1. CASE client_mech_new
        BY <2>1 DEF PromptsAreOwned, client_mech_new
    <2>2. CASE client_mech_dispose
        BY <2>2 DEF PromptsAreOwned, client_mech_dispose
    <2>3. CASE FreePrompts
        <3>1. DOMAIN heap' = DOMAIN heap \ {slot}
            BY <2>3 DEF FreePrompts, Without
        <3> QED
            BY <3>1, <2>3 DEF PromptsAreOwned, FreePrompts
    <2>4. ASSUME NEW id \in Ids, FillIn(id) PROVE PromptsAreOwned'
        BY <2>4 DEF PromptsAreOwned, FillIn
    <2>5. ASSUME NEW server_in, client_step(server_in) PROVE PromptsAreOwned'
        BY <2>5, StepKeepsOwnership
    <2>6. CASE UNCHANGED clientVars
        BY <2>6 DEF PromptsAreOwned, clientVars
    <2> QED
        BY <2>1, <2>2, <2>3, <2>4, <2>5, <2>6 DEF ClientNext
<1> QED
    BY <1>1, <1>2, PTL DEF ClientSpec

------------------------------------------------------------------------------
(* An array has a place for everything the application wants to be asked.  *)

HeapOK == heap \in [DOMAIN heap -> Array]

AskedAll ==
    slot # None => \A id \in Ids : ways[id] = "interact" => heap[slot][id] # "unasked"

AInv == PromptsAreOwned /\ HeapOK /\ AskedAll

\* So while there is an array nothing is left to ask for.
LEMMA NothingWanted ==
    ASSUME AInv, slot # None
    PROVE  Wants = {}
BY DEF AInv, AskedAll, Wants, Harvest, Prompted

\* A step releases the array, leaves it as it was, or puts one in the place
\* of none.
LEMMA StepKeepsAsked ==
    ASSUME AInv, NEW server_in, client_step(server_in)
    PROVE  AInv'
<1>1. PromptsAreOwned'
    BY StepKeepsOwnership DEF AInv
<1>2. ways' = ways
    BY DEF client_step, DataTooBig, Conclude, Weak, NoSlot, NoMemory, Ask, UserFails, NoToken,
           NotText, ClientNoCanon, AnonymousRefused, AuthzidRefused, Respond, Gives, Returns, settings
<1>3. DOMAIN Released = {} /\ Released \in [{} -> Array]
    <2>1. DOMAIN Released = {}
        BY ReleaseEmpties DEF AInv
    <2> QED
        BY <2>1 DEF Released, Without, AInv, HeapOK
<1>4. CASE UNCHANGED <<heap, slot>>
    BY <1>1, <1>2, <1>4 DEF AInv, HeapOK, AskedAll
<1>5. CASE heap' = Released /\ slot' = None
    BY <1>1, <1>3, <1>5 DEF AInv, HeapOK, AskedAll
<1>6. CASE Ask(server_in)
    <2>1. PICK b \in Blocks : heap' = Allocated(b, Wants) /\ slot' = b
        BY <1>6 DEF Ask
    <2>2. heap' = [a \in {b} |-> [id \in Ids |-> IF id \in Wants THEN "open" ELSE "unasked"]]
        BY <1>3, <2>1 DEF Allocated
    <2>3. slot = None
        BY <1>6, NothingWanted DEF Ask
    <2>4. \A id \in Ids : ways[id] = "interact" => id \in Wants
        BY <2>3 DEF Wants, Harvest, Prompted
    <2>5. HeapOK'
        BY <2>2 DEF HeapOK, Array
    <2>6. AskedAll'
        BY <1>2, <2>1, <2>2, <2>4 DEF AskedAll
    <2> QED
        BY <1>1, <2>5, <2>6 DEF AInv
<1> QED
    BY <1>4, <1>5, <1>6
       DEF client_step, DataTooBig, Conclude, Weak, NoSlot, NoMemory, UserFails, NoToken,
           NotText, ClientNoCanon, AnonymousRefused, AuthzidRefused, Respond, Gives, Answered

\* Neither the application nor libsasl takes a prompt out of the array.
LEMMA ClientKeepsAsked == AInv /\ [ClientNext]_clientVars => AInv'
<1> SUFFICES ASSUME AInv, [ClientNext]_clientVars
             PROVE  AInv'
    OBVIOUS
<1>1. CASE client_mech_new \/ client_mech_dispose \/ UNCHANGED clientVars
    BY <1>1 DEF AInv, PromptsAreOwned, HeapOK, AskedAll, client_mech_new, client_mech_dispose,
                clientVars, settings
<1>2. CASE FreePrompts
    BY <1>2 DEF FreePrompts, Without, AInv, PromptsAreOwned, HeapOK, AskedAll
<1>3. ASSUME NEW id \in Ids, FillIn(id) PROVE AInv'
    <2>1. slot \in DOMAIN heap /\ heap \in [DOMAIN heap -> Array]
        BY <1>3 DEF FillIn, AInv, PromptsAreOwned, HeapOK
    <2>2. DOMAIN heap' = DOMAIN heap /\ UNCHANGED <<slot, ways>>
        BY <1>3, <2>1 DEF FillIn, settings
    <2>3. heap'[slot] = [heap[slot] EXCEPT ![id] = "filled"] /\ heap[slot] \in Array
        BY <1>3, <2>1 DEF FillIn
    <2>4. heap'[slot] \in Array /\ \A i \in Ids : heap[slot][i] # "unasked" => heap'[slot][i] # "unasked"
        BY <2>3 DEF Array
    <2>5. heap' \in [DOMAIN heap' -> Array]
        BY <1>3, <2>1, <2>2, <2>3, <2>4 DEF FillIn
    <2> QED
        BY <2>2, <2>4, <2>5 DEF AInv, PromptsAreOwned, HeapOK, AskedAll
<1>4. ASSUME NEW server_in, client_step(server_in) PROVE AInv'
    BY <1>4, StepKeepsAsked
<1> QED
    BY <1>1, <1>2, <1>3, <1>4 DEF ClientNext

\* Nothing has been asked for at the start.
LEMMA InitAsked == ClientInit => AInv
BY DEF ClientInit, AInv, PromptsAreOwned, HeapOK, AskedAll

\* A step that has an array of answers harvests them before it releases it, and
\* so never returns INTERACT again (client.rs:71-92): an application that answers
\* is prompted once, even if the array is one an earlier exchange left.
THEOREM AsksOnce == ClientSpec => NeverAsksTwice
<1>1. AInv /\ [ClientNext]_clientVars =>
        [\A server_in \in {None, Rejection, Oversized} :
            crc = "INTERACT" /\ client_step(server_in) /\ slot # None => crc' # "INTERACT"]_clientVars
    <2> SUFFICES ASSUME AInv, NEW server_in, client_step(server_in), slot # None
                 PROVE  crc' # "INTERACT"
        OBVIOUS
    <2>1. Wants = {}
        BY NothingWanted
    <2> QED
        BY <2>1 DEF client_step, DataTooBig, Conclude, Weak, NoSlot, NoMemory, Ask, UserFails,
            NoToken, NotText, ClientNoCanon, AnonymousRefused, AuthzidRefused, Respond, Gives, Returns
<1> QED
    BY <1>1, InitAsked, ClientKeepsAsked, PTL DEF ClientSpec, NeverAsksTwice

------------------------------------------------------------------------------
(* The exchange.                                                           *)

\* The server knows the client as the subject of the token of this attempt, and
\* as the user it asked to be.
Agreed ==
    /\ cctx.output.kind = "response"
    /\ cctx.output.token = wanted.token
    /\ sids = [authid |-> Canon[Subject[wanted.token]], user |-> Canon[UserOf(cctx.output)]]

\* The client sends the token it has.
OwnToken ==
    cctx # None =>
        /\ wanted \in Wanted
        /\ cctx.output \in Message /\ cctx.output.kind = "response" =>
              cctx.output.token = wanted.token

\* What is on its way to the server is in the client's output buffer, ...
Sent ==
    ForServer =>
        app = "wait" /\ cctx # None /\ cctx.output \in Message /\ wire.body = cctx.output

ForClient == wire # None /\ wire.to = "client"

\* ... and what is on its way back is what the server's last step returned.
Answer ==
    ForClient =>
        /\ app = "wait" /\ cctx # None
        /\ wire.body \in {Outcome("success"), Outcome("failure"), Rejection}
        /\ wire.body = Outcome("success") => Agreed /\ src = "OK"
        /\ wire.body = Rejection => src = "CONTINUE"

LetIn == app = "success" /\ cctx # None => Agreed

\* The server of a client that was told of the rejection has not accepted it.
Rejected ==
    /\ app \in {"call", "ask"} /\ cin # None => src # "OK"
    /\ app # "idle" /\ cdone => /\ app # "success" /\ src # "OK" /\ cin # None
                                /\ cctx # None => cctx.output = Terminator

XInv ==
    /\ TypeOK /\ AInv
    /\ OwnToken /\ Sent /\ Answer /\ LetIn /\ Rejected

------------------------------------------------------------------------------
(* What a step of either end does, and the types it keeps.                 *)

\* The messages have kinds of their own.
LEMMA Kinds ==
    /\ Terminator.kind = "%x01" /\ Rejection.kind = "json" /\ Oversized.kind = "oversized"
    /\ \A o : Outcome(o).kind = o
    /\ {Terminator, Rejection, Oversized} \subseteq Message
    /\ None \notin Message
    /\ Terminator # Oversized /\ Rejection # Oversized
    /\ \A m \in Message : m.kind = "response" => m.token \in Tokens /\ m.authzid \in Names \cup {None}
    /\ \A m \in Message : m.kind \notin Outcomes
BY NoNameAssumption DEF Terminator, Rejection, Oversized, Outcome, Message, Outcomes

\* A client step answers the server with what is then in its buffer, or leaves
\* the buffer and the flag alone.
LEMMA ClientEffect ==
    ASSUME NEW server_in, client_step(server_in)
    PROVE  /\ cctx # None /\ wanted' = wanted /\ UNCHANGED settings
           /\ \/ /\ server_in # None /\ crc' = "OK" /\ cdone' = TRUE
                 /\ cctx' = [output |-> Terminator] /\ cout' = Terminator
              \/ /\ server_in = None /\ crc' = "CONTINUE" /\ cdone' = cdone
                 /\ cctx' = [output |-> Response(Authzid, wanted.token)] /\ cout' = cctx'.output
              \/ /\ crc' \in {"INTERACT", "TOOWEAK", "BADPARAM", "BADPROT", "FAIL", "NOMEM", "canon"}
                 /\ UNCHANGED <<cctx, cdone>> /\ cout' \in {cout, None}
<1>1. CASE DataTooBig(server_in)
    BY <1>1 DEF DataTooBig, Returns
<1>2. CASE Conclude(server_in)
    BY <1>2 DEF Conclude, Returns
<1>3. CASE Weak(server_in) \/ NoSlot(server_in) \/ NoMemory(server_in) \/ Ask(server_in)
    BY <1>3 DEF Weak, NoSlot, NoMemory, Ask, Returns, Harvested
<1>4. ASSUME NEW rc \in {"BADPARAM", "FAIL", "canon"}, Gives(server_in, rc)
      PROVE  /\ cctx # None /\ wanted' = wanted /\ UNCHANGED settings
             /\ crc' \in {"INTERACT", "TOOWEAK", "BADPARAM", "BADPROT", "FAIL", "NOMEM", "canon"}
             /\ UNCHANGED <<cctx, cdone>> /\ cout' = None
    BY <1>4 DEF Gives, Returns
<1>5. CASE \/ UserFails(server_in) \/ NoToken(server_in) \/ NotText(server_in)
           \/ ClientNoCanon(server_in) \/ AnonymousRefused(server_in) \/ AuthzidRefused(server_in)
    <2>1. \E rc \in {"BADPARAM", "FAIL", "canon"} : Gives(server_in, rc)
        BY <1>5 DEF UserFails, NoToken, NotText, ClientNoCanon, AnonymousRefused, AuthzidRefused
    <2> QED
        BY <1>4, <2>1
<1>6. CASE Respond(server_in)
    BY <1>6 DEF Respond, Returns, Answered
<1> QED
    BY <1>1, <1>2, <1>3, <1>5, <1>6 DEF client_step

\* The slot of the prompts and the identities of the client keep their types.
LEMMA ClientOutputs ==
    ASSUME ClientTypeOK, wanted \in Wanted, NEW server_in, client_step(server_in)
    PROVE  /\ slot' \in Blocks \cup {None}
           /\ cids' \in [authid: {Anonymous, None}, user: Names \cup {Anonymous, None}]
<1> DEFINE CIds == [authid: {Anonymous, None}, user: Names \cup {Anonymous, None}]
<1>1. slot' \in Blocks \cup {None}
    BY DEF client_step, DataTooBig, Conclude, Weak, NoSlot, NoMemory, Ask, UserFails, NoToken, NotText,
           ClientNoCanon, AnonymousRefused, AuthzidRefused, Respond, Gives, Answered, ClientTypeOK
<1>2. CASE cids' = cids
    BY <1>1, <1>2 DEF ClientTypeOK
<1>3. CASE AuthzidRefused(server_in)
    <2>1. cids \in CIds /\ cids' = [cids EXCEPT !.authid = Anonymous]
        BY <1>3 DEF AuthzidRefused, ClientTypeOK
    <2> QED
        BY <1>1, <2>1
<1>4. CASE Respond(server_in)
    <2>1. Authzid \in Names \cup {None}
        BY DEF Authzid, Wanted
    <2>2. Authzid # None => Canon[Authzid] \in Names
        BY <2>1, CanonAssumption
    <2>3. cids' = [authid |-> Anonymous, user |-> IF Authzid = None THEN Anonymous ELSE Canon[Authzid]]
        BY <1>4 DEF Respond
    <2> QED
        BY <1>1, <2>2, <2>3
<1>5. cids' = cids \/ AuthzidRefused(server_in) \/ Respond(server_in)
    BY DEF client_step, DataTooBig, Conclude, Weak, NoSlot, NoMemory, Ask, UserFails, NoToken, NotText,
           ClientNoCanon, AnonymousRefused
<1> QED
    BY <1>1, <1>2, <1>3, <1>4, <1>5

\* With the array owned, the heap has its type.
LEMMA HeapType ==
    ASSUME AInv, slot \in Blocks \cup {None}
    PROVE  DOMAIN heap \subseteq Blocks /\ \A b \in DOMAIN heap : heap[b] \in Array
BY DEF AInv, PromptsAreOwned, HeapOK

\* A response of the client is a message with the token it has.
LEMMA ResponseType ==
    ASSUME wanted \in Wanted
    PROVE  /\ Response(Authzid, wanted.token) \in Message
           /\ Response(Authzid, wanted.token).kind = "response"
           /\ Response(Authzid, wanted.token).token = wanted.token
<1>1. Authzid \in Names \cup {None} /\ wanted.token \in Tokens
    BY DEF Authzid, Wanted
<1> QED
    BY <1>1 DEF Response, Message

\* A step of the client keeps its part of the types.
LEMMA ClientStepType ==
    ASSUME ClientTypeOK, AInv, wanted \in Wanted, NEW server_in, client_step(server_in)
    PROVE  ClientTypeOK'
<1>1. AInv'
    BY StepKeepsAsked
<1>2. /\ slot' \in Blocks \cup {None}
      /\ cids' \in [authid: {Anonymous, None}, user: Names \cup {Anonymous, None}]
    BY ClientOutputs
<1>3. DOMAIN heap' \subseteq Blocks /\ \A b \in DOMAIN heap' : heap'[b] \in Array
    BY <1>1, <1>2 DEF AInv, PromptsAreOwned, HeapOK
<1>4. /\ wanted' = wanted /\ UNCHANGED <<ways, tooWeak, given>>
      /\ cctx' \in {None} \cup [output: Message \cup {None}]
      /\ cout' \in Message \cup {None} /\ cdone' \in BOOLEAN
      /\ crc' \in {None, "OK", "CONTINUE", "INTERACT", "TOOWEAK", "BADPARAM", "BADPROT",
                   "FAIL", "NOMEM", "canon"}
    <2>1. CASE cctx' = [output |-> Terminator] /\ cout' = Terminator /\ crc' = "OK" /\ cdone' = TRUE
        BY <2>1, ClientEffect, Kinds DEF ClientTypeOK, settings
    <2>2. CASE /\ crc' = "CONTINUE" /\ cdone' = cdone
               /\ cctx' = [output |-> Response(Authzid, wanted.token)] /\ cout' = cctx'.output
        <3>1. Response(Authzid, wanted.token) \in Message
            BY ResponseType
        <3>2. cout' = Response(Authzid, wanted.token)
            BY <2>2
        <3> QED
            BY <2>2, <3>1, <3>2, ClientEffect DEF ClientTypeOK, settings
    <2>3. CASE /\ crc' \in {"INTERACT", "TOOWEAK", "BADPARAM", "BADPROT", "FAIL", "NOMEM", "canon"}
               /\ UNCHANGED <<cctx, cdone>> /\ cout' \in {cout, None}
        BY <2>3, ClientEffect DEF ClientTypeOK, settings
    <2> QED
        BY <2>1, <2>2, <2>3, ClientEffect
<1> QED
    BY <1>2, <1>3, <1>4 DEF ClientTypeOK

\* The other client actions keep the types.
LEMMA ClientOtherType ==
    ASSUME ClientTypeOK, AInv,
           client_mech_new \/ client_mech_dispose \/ FreePrompts \/ \E id \in Ids : FillIn(id)
    PROVE  ClientTypeOK' /\ AInv'
<1>1. AInv'
    BY ClientKeepsAsked DEF ClientNext
<1>2. slot' \in Blocks \cup {None}
    BY DEF client_mech_new, client_mech_dispose, FreePrompts, FillIn, ClientTypeOK
<1>3. DOMAIN heap' \subseteq Blocks /\ \A b \in DOMAIN heap' : heap'[b] \in Array
    BY <1>1, <1>2 DEF AInv, PromptsAreOwned, HeapOK
<1>4. /\ UNCHANGED <<ways, tooWeak, given, cids>>
      /\ wanted' \in Wanted \cup {None}
      /\ cctx' \in {None} \cup [output: Message \cup {None}]
      /\ cout' \in Message \cup {None} /\ cdone' \in BOOLEAN
      /\ crc' \in {None, crc}
    <2>1. CASE client_mech_new
        BY <2>1 DEF client_mech_new, ClientTypeOK, settings
    <2>2. CASE client_mech_dispose
        BY <2>2 DEF client_mech_dispose, ClientTypeOK, settings
    <2>3. CASE FreePrompts \/ \E id \in Ids : FillIn(id)
        <3>1. UNCHANGED <<ways, tooWeak, given, cids, wanted, cctx, cout, cdone, crc>>
            BY <2>3 DEF FreePrompts, FillIn, settings
        <3> QED
            BY <3>1 DEF ClientTypeOK
    <2> QED
        BY <2>1, <2>2, <2>3
<1> QED
    BY <1>1, <1>2, <1>3, <1>4 DEF ClientTypeOK

\* A server step accepts a response and leaves the identities it names, rejects
\* one, or fails.
LEMMA ServerEffect ==
    ASSUME NEW input, server_step(input)
    PROVE  /\ ctx # None /\ UNCHANGED <<tls_required, valid, ssf>>
           /\ \/ Accept(input)
              \/ Reject(input)
              \/ /\ src' \in {"ENCRYPT", "BADPARAM", "BADPROT", "BADAUTH", "FAIL", "canon"}
                 /\ sout' = None /\ ctx' = ctx /\ sdone' \in {sdone, TRUE}
                 /\ sids' = sids \/ CanonFailsLate(input)
<1>1. CASE NoSsf \/ NotTls \/ TooBig(input) \/ Malformed(input)
    BY <1>1 DEF NoSsf, NotTls, TooBig, Malformed, Refuse, Return
<1>2. CASE Complete(input)
    BY <1>2 DEF Complete, Return
<1>3. CASE NoCanonUser(input) \/ AuthzidNul(input) \/ CanonFails(input)
    BY <1>3 DEF NoCanonUser, AuthzidNul, CanonFails, Refuse, Return
<1>4. CASE CanonFailsLate(input)
    BY <1>4 DEF CanonFailsLate, Return
<1>5. CASE Accept(input)
    BY <1>5 DEF Accept, Return
<1>6. CASE Reject(input)
    BY <1>6 DEF Reject
<1> QED
    BY <1>1, <1>2, <1>3, <1>4, <1>5, <1>6 DEF server_step

\* The names that canon_user makes of a response.
LEMMA CanonNames ==
    ASSUME NEW input \in Message, input.kind = "response"
    PROVE  /\ Canon[Subject[input.token]] \in Names
           /\ Canon[UserOf(input)] \in Names
           /\ input.authzid # None => Canon[input.authzid] \in Names
BY Kinds, SubjectAssumption, CanonAssumption DEF UserOf

\* And so does a step of the server.
LEMMA ServerStepType ==
    ASSUME ServerTypeOK, NEW input \in Message, server_step(input)
    PROVE  ServerTypeOK'
<1>1. CASE Accept(input)
    <2>1. input.kind = "response"
        BY <1>1 DEF Accept, Named, Verified, Parses
    <2>2. sids' \in Identities
        BY <1>1, <2>1, CanonNames DEF Accept, Identities
    <2> QED
        BY <1>1, <2>2 DEF Accept, Return, ServerTypeOK
<1>2. CASE Reject(input)
    BY <1>2 DEF Reject, ServerTypeOK
<1>3. CASE CanonFailsLate(input)
    <2>1. input.kind = "response" /\ input.authzid # None
        BY <1>3 DEF CanonFailsLate, Named, Verified, Parses
    <2>2. Canon[input.authzid] \in Names
        BY <2>1, CanonNames
    <2>3. sids \in Identities /\ sids' = [sids EXCEPT !.user = Canon[input.authzid]]
        BY <1>3 DEF CanonFailsLate, ServerTypeOK
    <2>4. sids' \in Identities
        BY <2>2, <2>3 DEF Identities
    <2> QED
        BY <1>3, <2>4 DEF CanonFailsLate, Return, ServerTypeOK
<1>4. CASE /\ src' \in {"ENCRYPT", "BADPARAM", "BADPROT", "BADAUTH", "FAIL", "canon"}
           /\ sout' = None /\ ctx' = ctx /\ sdone' \in {sdone, TRUE} /\ sids' = sids
    BY <1>4, ServerEffect DEF ServerTypeOK
<1> QED
    BY <1>1, <1>2, <1>3, <1>4, ServerEffect

\* The other server actions keep the types.
LEMMA ServerOtherType ==
    ASSUME ServerTypeOK, server_mech_new \/ server_mech_dispose \/ Drift
    PROVE  ServerTypeOK'
BY DEF server_mech_new, server_mech_dispose, Drift, ServerTypeOK

------------------------------------------------------------------------------
(* Every step keeps the invariant.                                         *)

\* The client's end of a new attempt.
LEMMA StartKeeps ==
    ASSUME XInv, Start
    PROVE  XInv'
<1>1. /\ client_mech_new /\ UNCHANGED serverVars /\ wire' = wire /\ app = "idle"
      /\ app' = "call" /\ cin' = None /\ cdone' = FALSE /\ cctx' = [output |-> None]
      /\ wanted' \in Wanted
    BY DEF Start, client_mech_new
<1>2. wire = None
    BY <1>1 DEF XInv, TypeOK, Sent, Answer, ForServer, ForClient
<1>3. ClientTypeOK' /\ AInv'
    BY <1>1, ClientOtherType DEF XInv, TypeOK
<1>4. ServerTypeOK'
    BY <1>1 DEF XInv, TypeOK, ServerTypeOK, serverVars
<1>5. exchanges' \in 0 .. MaxExchanges
    BY ExchangesAssumption DEF Start, XInv, TypeOK
<1>6. TypeOK'
    BY <1>1, <1>2, <1>3, <1>4, <1>5 DEF TypeOK
<1>7. OwnToken'
    BY <1>1, Kinds DEF OwnToken
<1>8. Sent' /\ Answer' /\ LetIn' /\ Rejected'
    BY <1>1, <1>2 DEF Sent, ForServer, Answer, ForClient, LetIn, Rejected
<1> QED
    BY <1>3, <1>6, <1>7, <1>8 DEF XInv

\* A step of the client, and where it leaves the application.
LEMMA ClientCallKeeps ==
    ASSUME XInv, ClientCall
    PROVE  XInv'
<1>1. /\ app = "call" /\ client_step(cin) /\ UNCHANGED <<cin, exchanges, serverVars>>
      /\ cctx # None /\ wanted \in Wanted /\ wanted' = wanted
    BY ClientEffect DEF ClientCall, XInv, OwnToken
<1>2. ClientTypeOK' /\ AInv'
    BY <1>1, ClientStepType, StepKeepsAsked DEF XInv, TypeOK
<1>3. ServerTypeOK' /\ src' = src
    BY <1>1 DEF XInv, TypeOK, ServerTypeOK, serverVars
<1>4. CASE /\ cin # None /\ crc' = "OK" /\ cdone' = TRUE
           /\ cctx' = [output |-> Terminator] /\ cout' = Terminator
    <2>1. app' = "wait" /\ wire' = [to |-> "server", body |-> Terminator]
        BY <1>4 DEF ClientCall
    <2>2. src # "OK"
        BY <1>1, <1>4 DEF XInv, Rejected
    <2>3. TypeOK'
        BY <1>1, <1>2, <1>3, <2>1, Kinds DEF TypeOK, XInv
    <2>4. OwnToken' /\ Sent'
        <3>1. cctx' # None /\ cctx'.output = Terminator
            BY <1>4, Kinds, NoContextAssumption
        <3> QED
            BY <1>1, <2>1, <3>1, Kinds DEF OwnToken, Sent, ForServer
    <2>5. Answer' /\ LetIn' /\ Rejected'
        BY <1>1, <1>3, <1>4, <2>1, <2>2 DEF Answer, ForClient, LetIn, Rejected
    <2> QED
        BY <1>2, <2>3, <2>4, <2>5 DEF XInv
<1>5. CASE /\ cin = None /\ crc' = "CONTINUE" /\ cdone' = cdone
           /\ cctx' = [output |-> Response(Authzid, wanted.token)] /\ cout' = cctx'.output
    <2> DEFINE r == Response(Authzid, wanted.token)
    <2>1. /\ app' = "wait" /\ wire' = [to |-> "server", body |-> r]
          /\ cctx'.output = r
        BY <1>5 DEF ClientCall
    <2>2. r \in Message /\ r.token = wanted.token
        BY <1>1, ResponseType
    <2> HIDE DEF r
    <2>3. TypeOK'
        BY <1>1, <1>2, <1>3, <2>1, <2>2 DEF TypeOK, XInv
    <2>4. OwnToken' /\ Sent'
        <3>1. cctx' # None
            BY <1>5, <2>2, NoContextAssumption DEF r
        <3> QED
            BY <1>1, <2>1, <2>2, <3>1 DEF OwnToken, Sent, ForServer
    <2>5. Answer' /\ LetIn'
        BY <2>1 DEF Answer, ForClient, LetIn
    <2>6. Rejected'
        BY <1>1, <1>3, <1>5, <2>1 DEF Rejected, XInv
    <2> QED
        BY <1>2, <2>3, <2>4, <2>5, <2>6 DEF XInv
<1>6. CASE /\ crc' \in {"INTERACT", "TOOWEAK", "BADPARAM", "BADPROT", "FAIL", "NOMEM", "canon"}
           /\ UNCHANGED <<cctx, cdone>>
    <2>1. app' \in {"ask", "aborted"} /\ wire' = None
        BY <1>6 DEF ClientCall
    <2>2. TypeOK'
        BY <1>1, <1>2, <1>3, <2>1 DEF TypeOK, XInv, Outcomes
    <2>3. OwnToken'
        BY <1>1, <1>6 DEF OwnToken, XInv
    <2>4. Sent' /\ Answer' /\ LetIn'
        BY <2>1 DEF Sent, ForServer, Answer, ForClient, LetIn
    <2>5. Rejected'
        BY <1>1, <1>3, <1>6, <2>1 DEF Rejected, XInv
    <2> QED
        BY <1>2, <2>2, <2>3, <2>4, <2>5 DEF XInv
<1>7. \/ /\ cin # None /\ crc' = "OK" /\ cdone' = TRUE
         /\ cctx' = [output |-> Terminator] /\ cout' = Terminator
      \/ /\ cin = None /\ crc' = "CONTINUE" /\ cdone' = cdone
         /\ cctx' = [output |-> Response(Authzid, wanted.token)] /\ cout' = cctx'.output
      \/ /\ crc' \in {"INTERACT", "TOOWEAK", "BADPARAM", "BADPROT", "FAIL", "NOMEM", "canon"}
         /\ UNCHANGED <<cctx, cdone>>
    BY <1>1, ClientEffect
<1> QED
    BY <1>4, <1>5, <1>6, <1>7

\* The steps of the client's application that neither start nor make a call.
LEMMA ApplicationKeeps ==
    ASSUME XInv, Prompt \/ Resume \/ Leave \/ TryAgain \/ Release \/ Lose \/ Reconnect
    PROVE  XInv'
<1>1. CASE Prompt \/ Release
    <2>1. /\ UNCHANGED <<serverVars, appVars>> /\ UNCHANGED <<wanted, cctx, cdone>>
          /\ FreePrompts \/ \E id \in Ids : FillIn(id)
        BY <1>1 DEF Prompt, Release, FreePrompts, FillIn
    <2>2. ClientTypeOK' /\ AInv'
        BY <2>1, ClientOtherType DEF XInv, TypeOK
    <2>3. TypeOK'
        BY <2>1, <2>2 DEF XInv, TypeOK, ServerTypeOK, serverVars, appVars
    <2> QED
        BY <2>1, <2>2, <2>3
        DEF XInv, serverVars, appVars, OwnToken, Sent, ForServer, Answer, ForClient, LetIn,
            Rejected, Agreed, UserOf
<1>2. CASE Leave
    <2>1. /\ UNCHANGED <<serverVars, appVars>> /\ UNCHANGED <<wanted, cdone>> /\ cctx' = None
          /\ client_mech_dispose /\ app # "wait"
        BY <1>2 DEF Leave, client_mech_dispose, Outcomes
    <2>2. ClientTypeOK' /\ AInv'
        BY <2>1, ClientOtherType DEF XInv, TypeOK
    <2>3. TypeOK'
        BY <2>1, <2>2 DEF XInv, TypeOK, ServerTypeOK, serverVars, appVars
    <2> QED
        BY <2>1, <2>2, <2>3
        DEF XInv, serverVars, appVars, OwnToken, Sent, ForServer, Answer, ForClient, LetIn, Rejected
<1>3. CASE Resume \/ TryAgain \/ Lose
    <2>1. /\ UNCHANGED <<clientVars, serverVars, cin, exchanges>>
          /\ \/ app = "ask" /\ app' = "call" /\ wire' = wire
             \/ app \in Outcomes /\ app' = "idle" /\ wire' = wire
             \/ app \in {"call", "ask", "wait"} /\ app' = "lost" /\ wire' = None
        BY <1>3 DEF Resume, TryAgain, Lose
    <2>2. UNCHANGED <<ways, tooWeak, given, wanted, cctx, heap, slot, cout, cdone, cids, crc>>
        BY <2>1 DEF clientVars, settings
    <2>3. ClientTypeOK' /\ AInv'
        BY <2>2 DEF XInv, TypeOK, ClientTypeOK, AInv, PromptsAreOwned, HeapOK, AskedAll
    <2>4. TypeOK'
        BY <2>1, <2>3 DEF XInv, TypeOK, ServerTypeOK, serverVars
    <2>5. wire' = None
        BY <2>1 DEF XInv, TypeOK, Sent, Answer, ForServer, ForClient, Outcomes
    <2> QED
        BY <2>1, <2>2, <2>3, <2>4, <2>5
        DEF XInv, serverVars, OwnToken, Sent, ForServer, Answer, ForClient, LetIn, Rejected
<1>4. CASE Reconnect
    <2>1. /\ UNCHANGED <<ways, tooWeak, given, wanted, cctx, heap, slot, cout, cdone, crc>>
          /\ cids' = NoIdentities /\ sids' = NoIdentities /\ app' = "idle" /\ app = "lost"
          /\ UNCHANGED <<tls_required, valid, ssf, ctx, sout, sdone, src, cin, wire, exchanges>>
        BY <1>4 DEF Reconnect, settings
    <2>2. ClientTypeOK' /\ AInv' /\ ServerTypeOK'
        BY <2>1 DEF XInv, TypeOK, ClientTypeOK, ServerTypeOK, AInv, PromptsAreOwned, HeapOK,
                    AskedAll, NoIdentities, Identities
    <2>3. TypeOK'
        BY <2>1, <2>2 DEF XInv, TypeOK
    <2>4. wire = None
        BY <2>1 DEF XInv, TypeOK, Sent, Answer, ForServer, ForClient
    <2> QED
        BY <2>1, <2>2, <2>3, <2>4
        DEF XInv, OwnToken, Sent, ForServer, Answer, ForClient, LetIn, Rejected
<1> QED
    BY <1>1, <1>2, <1>3, <1>4

\* The outcome or the rejection reaches the client.
LEMMA ReceiveKeeps ==
    ASSUME XInv, ClientReceive
    PROVE  XInv'
<1>1. /\ ForClient /\ app = "wait" /\ wire' = None /\ UNCHANGED <<exchanges, clientVars, serverVars>>
      /\ UNCHANGED <<ways, tooWeak, given, wanted, cctx, heap, slot, cout, cdone, cids, crc>>
    BY DEF ClientReceive, ForClient, clientVars, settings
<1>2. ClientTypeOK' /\ AInv' /\ ServerTypeOK'
    BY <1>1 DEF XInv, TypeOK, ClientTypeOK, ServerTypeOK, serverVars, AInv, PromptsAreOwned,
                HeapOK, AskedAll
<1>3. OwnToken' /\ Sent' /\ Answer'
    BY <1>1 DEF XInv, OwnToken, Sent, ForServer, Answer, ForClient
<1>4. CASE wire.body = Outcome("success")
    <2>1. app' = "success" /\ cin' = cin
        BY <1>4, Kinds DEF ClientReceive, Outcomes
    <2>2. TypeOK'
        BY <1>1, <1>2, <2>1 DEF XInv, TypeOK, Outcomes
    <2>3. Agreed /\ src = "OK"
        BY <1>1, <1>4 DEF XInv, Answer
    <2>4. LetIn'
        BY <1>1, <2>3 DEF LetIn, Agreed, UserOf, serverVars
    <2>5. ~cdone
        BY <1>1, <2>3 DEF XInv, Rejected
    <2>6. Rejected'
        BY <1>1, <2>1, <2>5 DEF Rejected
    <2> QED
        BY <1>2, <1>3, <2>2, <2>4, <2>6 DEF XInv
<1>5. CASE wire.body = Outcome("failure")
    <2>1. app' = "failure" /\ cin' = cin
        BY <1>5, Kinds DEF ClientReceive, Outcomes
    <2>2. TypeOK'
        BY <1>1, <1>2, <2>1 DEF XInv, TypeOK, Outcomes
    <2>3. LetIn' /\ Rejected'
        BY <1>1, <2>1 DEF XInv, LetIn, Rejected, serverVars
    <2> QED
        BY <1>2, <1>3, <2>2, <2>3 DEF XInv
<1>6. CASE wire.body = Rejection
    <2>1. app' = "call" /\ cin' = Rejection
        BY <1>6, Kinds DEF ClientReceive, Outcomes
    <2>2. TypeOK'
        BY <1>1, <1>2, <2>1 DEF XInv, TypeOK
    <2>3. src = "CONTINUE"
        BY <1>1, <1>6 DEF XInv, Answer
    <2>4. LetIn' /\ Rejected'
        BY <1>1, <2>1, <2>3, Kinds DEF XInv, LetIn, Rejected, serverVars
    <2> QED
        BY <1>2, <1>3, <2>2, <2>4 DEF XInv
<1> QED
    BY <1>1, <1>4, <1>5, <1>6 DEF XInv, Answer

\* The server's steps without an answer.
LEMMA ServerOtherKeeps ==
    ASSUME XInv, ServerStart \/ ServerLeave \/ Pass
    PROVE  XInv'
<1>1. /\ server_mech_new \/ server_mech_dispose \/ Drift
      /\ UNCHANGED <<clientVars, appVars>> /\ sids' = sids
      /\ src' = src \/ (ForServer /\ src' = None /\ ServerStart)
    BY DEF ServerStart, ServerLeave, Pass, server_mech_new, server_mech_dispose, Drift
<1>2. UNCHANGED <<ways, tooWeak, given, wanted, cctx, heap, slot, cout, cdone, cids, crc,
                  app, cin, wire, exchanges>>
    BY <1>1 DEF clientVars, settings, appVars
<1>3. ServerTypeOK'
    BY <1>1, ServerOtherType DEF XInv, TypeOK
<1>4. ClientTypeOK' /\ AInv'
    BY <1>2 DEF XInv, TypeOK, ClientTypeOK, AInv, PromptsAreOwned, HeapOK, AskedAll
<1>5. TypeOK'
    BY <1>2, <1>3, <1>4 DEF XInv, TypeOK
<1>6. OwnToken' /\ Sent' /\ LetIn'
    BY <1>1, <1>2 DEF XInv, OwnToken, Sent, ForServer, LetIn, Agreed, UserOf
<1>7. CASE src' = src
    <2>1. Answer' /\ Rejected'
        BY <1>1, <1>2, <1>7 DEF XInv, Answer, ForClient, Rejected, Agreed, UserOf
    <2> QED
        BY <1>4, <1>5, <1>6, <2>1 DEF XInv
<1>8. CASE ForServer /\ src' = None
    <2>1. ~ForClient' /\ app = "wait"
        BY <1>2, <1>8 DEF ForServer, ForClient, XInv, Sent
    <2>2. Answer' /\ Rejected'
        BY <1>2, <1>8, <2>1, NoReturnAssumption DEF XInv, Answer, Rejected
    <2> QED
        BY <1>4, <1>5, <1>6, <2>2 DEF XInv
<1> QED
    BY <1>1, <1>7, <1>8

\* A step of the server: what it accepts is the response the client sent.
LEMMA ServerCallKeeps ==
    ASSUME XInv, ServerCall
    PROVE  XInv'
<1> DEFINE input == cctx.output
<1>1. /\ app = "wait" /\ cctx # None /\ input \in Message /\ wire.body = input
      /\ server_step(input) /\ UNCHANGED <<app, cin, exchanges, clientVars>>
    BY DEF XInv, Sent, ServerCall
<1>2. UNCHANGED <<ways, tooWeak, given, wanted, cctx, heap, slot, cout, cdone, cids, crc>>
    BY <1>1 DEF clientVars, settings
<1>3. ServerTypeOK'
    BY <1>1, ServerStepType DEF XInv, TypeOK
<1>4. ClientTypeOK' /\ AInv'
    BY <1>2 DEF XInv, TypeOK, ClientTypeOK, AInv, PromptsAreOwned, HeapOK, AskedAll
<1>5. /\ wire' # None => wire'.to = "client"
      /\ wire' = [to |-> "client", body |-> CASE src' = "OK"       -> Outcome("success")
                                              [] src' = "CONTINUE" -> sout'
                                              [] OTHER             -> Outcome("failure")]
    BY DEF ServerCall
<1>6. OwnToken' /\ Sent' /\ LetIn'
    BY <1>1, <1>2, <1>5 DEF XInv, OwnToken, Sent, ForServer, LetIn
<1>7. CASE Accept(input)
    <2>1. /\ src' = "OK" /\ input.kind = "response"
          /\ sids' = [authid |-> Canon[Subject[input.token]], user |-> Canon[UserOf(input)]]
        BY <1>7 DEF Accept, Return, Named, Verified, Parses
    <2>2. wire' = [to |-> "client", body |-> Outcome("success")]
        BY <1>5, <2>1
    <2>3. input.token = wanted.token
        BY <1>1, <2>1 DEF XInv, OwnToken
    <2>4. Agreed'
        BY <1>2, <2>1, <2>3 DEF Agreed, UserOf
    <2>5. ~cdone
        <3>1. input # Terminator
            BY <2>1, Kinds
        <3> QED
            BY <1>1, <3>1 DEF XInv, Rejected
    <2>6. TypeOK'
        BY <1>1, <1>3, <1>4, <2>2 DEF TypeOK, XInv
    <2>7. Outcome("success") # Rejection
        BY Kinds
    <2>8. Answer' /\ Rejected'
        BY <1>1, <1>2, <2>1, <2>2, <2>4, <2>5, <2>7 DEF Answer, ForClient, Rejected
    <2> QED
        BY <1>4, <1>6, <2>6, <2>8 DEF XInv
<1>8. CASE Reject(input)
    <2>1. src' = "CONTINUE" /\ sout' = Rejection
        BY <1>8 DEF Reject
    <2>2. wire' = [to |-> "client", body |-> Rejection] /\ Outcome("success") # Rejection
        BY <1>5, <2>1, Kinds
    <2>3. TypeOK'
        BY <1>1, <1>3, <1>4, <2>2, Kinds DEF TypeOK, XInv
    <2>4. Answer' /\ Rejected'
        BY <1>1, <1>2, <2>1, <2>2 DEF Answer, ForClient, Rejected, XInv
    <2> QED
        BY <1>4, <1>6, <2>3, <2>4 DEF XInv
<1>9. CASE src' \in {"ENCRYPT", "BADPARAM", "BADPROT", "BADAUTH", "FAIL", "canon"}
    <2>1. /\ wire' = [to |-> "client", body |-> Outcome("failure")]
          /\ Outcome("failure") # Outcome("success") /\ Outcome("failure") # Rejection
        BY <1>5, <1>9, Kinds
    <2>2. TypeOK'
        BY <1>1, <1>3, <1>4, <2>1 DEF TypeOK, XInv
    <2>3. Answer' /\ Rejected'
        BY <1>1, <1>2, <1>9, <2>1 DEF Answer, ForClient, Rejected, XInv
    <2> QED
        BY <1>4, <1>6, <2>2, <2>3 DEF XInv
<1> QED
    BY <1>1, <1>7, <1>8, <1>9, ServerEffect

\* The invariant is one.
LEMMA XInvInvariant == Spec => []XInv
<1>1. Init => XInv
    <2> SUFFICES ASSUME Init PROVE XInv
        OBVIOUS
    <2>1. /\ AInv /\ cctx = None /\ wire = None /\ app = "idle" /\ cin = None
        BY InitAsked DEF Init, ClientInit
    <2>2. ClientTypeOK /\ ServerTypeOK
        BY DEF Init, ClientInit, ServerInit, ClientTypeOK, ServerTypeOK, NoIdentities, Identities
    <2>3. TypeOK
        BY <2>1, <2>2, ExchangesAssumption DEF Init, TypeOK
    <2> QED
        BY <2>1, <2>3
        DEF XInv, OwnToken, Sent, ForServer, Answer, ForClient, LetIn, Rejected
<1>2. XInv /\ [Next]_vars => XInv'
    <2> SUFFICES ASSUME XInv, [Next]_vars PROVE XInv'
        OBVIOUS
    <2>1. CASE UNCHANGED vars
        <3>1. UNCHANGED <<ways, tooWeak, given, wanted, cctx, heap, slot, cout, cdone, cids, crc,
                          app, cin, wire, exchanges, serverVars>>
            BY <2>1 DEF vars, clientVars, settings, appVars
        <3>2. ClientTypeOK' /\ AInv' /\ ServerTypeOK'
            BY <3>1 DEF XInv, TypeOK, ClientTypeOK, ServerTypeOK, serverVars, AInv,
                        PromptsAreOwned, HeapOK, AskedAll
        <3>3. TypeOK'
            BY <3>1, <3>2 DEF XInv, TypeOK
        <3> QED
            BY <3>1, <3>2, <3>3
            DEF XInv, OwnToken, Sent, ForServer, Answer, ForClient, LetIn, Rejected, Agreed,
                UserOf, serverVars
    <2> QED
        BY <2>1, StartKeeps, ClientCallKeeps, ApplicationKeeps, ReceiveKeeps, ServerOtherKeeps,
           ServerCallKeeps DEF Next
<1> QED
    BY <1>1, <1>2, PTL DEF Spec

------------------------------------------------------------------------------
\* Both ends and the wire keep their types, whatever is lost and however often
\* the client tries.
THEOREM ExchangeTypeCorrect == Spec => []TypeOK
BY XInvInvariant, PTL DEF XInv

\* A client that is told of success is known to the server as the subject of the
\* token it sent in this attempt and as the user it asked to be, or that subject
\* (server.rs:93-127), whatever an earlier attempt left in the oparams.
THEOREM ServerKnowsClient == Spec => []IdentitiesAgree
<1>1. XInv => IdentitiesAgree
    BY DEF XInv, LetIn, Agreed, IdentitiesAgree
<1> QED
    BY <1>1, XInvInvariant, PTL

\* A client that has completed the error exchange (client.rs:56-69) is not let in
\* by it, even if the token it was rejected with has become valid meanwhile.
THEOREM RejectionIsFinal == Spec => []NoSplitOutcome
<1>1. XInv => NoSplitOutcome
    BY DEF XInv, Rejected, NoSplitOutcome
<1> QED
    BY <1>1, XInvInvariant, PTL

------------------------------------------------------------------------------
(* The exchange implements Authentication.                                 *)

\* The server has not decided before it sees the response, and what a client
\* sends finds a server that has not let it in.
Undecided ==
    /\ app \in {"call", "ask"} /\ cin = None => ctx = None
    /\ ForServer /\ ctx # None => src # "OK"

\* It is kept along with XInv.
LEMMA UndecidedKept ==
    ASSUME XInv, Undecided, [Next]_vars
    PROVE  Undecided'
<1>1. CASE Start
    <2>1. wire = None
        BY <1>1 DEF Start, XInv, TypeOK, Sent, Answer, ForServer, ForClient
    <2> QED
        BY <1>1, <2>1 DEF Start, Undecided, ForServer, serverVars
<1>2. CASE ClientCall
    <2>1. /\ app = "call" /\ client_step(cin) /\ cin' = cin /\ UNCHANGED <<ctx, src>>
          /\ app' # "wait" => wire' = None
        BY <1>2 DEF ClientCall, serverVars
    <2>2. ctx = None \/ src # "OK"
        BY <2>1 DEF Undecided, XInv, Rejected
    <2> QED
        BY <2>1, <2>2 DEF Undecided
<1>3. CASE Prompt \/ Release \/ Leave
    BY <1>3 DEF Prompt, Release, Leave, Undecided, ForServer, serverVars, appVars
<1>4. CASE Resume \/ TryAgain \/ Lose \/ Reconnect
    BY <1>4 DEF Resume, TryAgain, Lose, Reconnect, Undecided, ForServer, serverVars
<1>5. CASE ClientReceive
    <2>1. ForClient /\ wire' = None /\ UNCHANGED <<ctx, src>>
        BY <1>5 DEF ClientReceive, ForClient, serverVars
    <2>2. CASE wire.body = Rejection
        BY <1>5, <2>1, <2>2, Kinds DEF ClientReceive, Undecided, ForServer
    <2>3. CASE wire.body \in {Outcome("success"), Outcome("failure")}
        <3>1. wire.body.kind \in {"success", "failure"}
            BY <2>3, Kinds
        <3>2. app' \in {"success", "failure"}
            BY <1>5, <3>1 DEF ClientReceive, Outcomes
        <3> QED
            BY <2>1, <3>2 DEF Undecided, ForServer
    <2> QED
        BY <2>1, <2>2, <2>3 DEF XInv, Answer
<1>6. CASE ServerStart
    <2>1. app = "wait" /\ src' = None /\ UNCHANGED <<app, cin, wire>>
        BY <1>6 DEF ServerStart, server_mech_new, appVars, XInv, Sent
    <2> QED
        BY <2>1, NoReturnAssumption DEF Undecided
<1>7. CASE ServerCall
    <2>1. app = "wait" /\ app' = app /\ wire'.to = "client"
        BY <1>7 DEF ServerCall, XInv, Sent
    <2> QED
        BY <2>1 DEF Undecided, ForServer
<1>8. CASE ServerLeave \/ Pass
    BY <1>8 DEF ServerLeave, Pass, server_mech_dispose, Drift, appVars, Undecided, ForServer
<1>9. CASE UNCHANGED vars
    BY <1>9 DEF vars, serverVars, appVars, Undecided, ForServer
<1> QED
    BY <1>1, <1>2, <1>3, <1>4, <1>5, <1>6, <1>7, <1>8, <1>9 DEF Next

\* The invariant of the refinement.
RInv == XInv /\ Undecided

\* What the abstract state depends on: a step that leaves that alone is none.
LEMMA Unmoved ==
    ASSUME UNCHANGED <<cctx, app, cin, wire, ctx, src, sids, valid, tls_required, ssf>>
    PROVE  UNCHANGED Auth!vars
BY DEF Auth!vars, Stage, Request, Granted, Encrypted, ForServer

\* The client's application, between its calls.
LEMMA ApplicationAuth ==
    ASSUME RInv, Start \/ Prompt \/ Resume \/ Leave \/ TryAgain \/ Release \/ Lose \/ Reconnect
    PROVE  [Auth!Next]_(Auth!vars)
<1>1. CASE Start
    <2>1. /\ Stage = "idle" /\ Stage' = "open" /\ Request = None /\ Request' = None
          /\ Granted = None /\ Granted' = None /\ Encrypted' = Encrypted /\ valid' = valid
        BY <1>1 DEF Start, Stage, Request, Granted, Encrypted, serverVars
    <2> QED
        BY <2>1 DEF Auth!Next, Auth!Begin, Auth!Moves
<1>2. CASE Prompt \/ Release
    BY <1>2, Unmoved DEF Prompt, Release, FillIn, FreePrompts, serverVars, appVars
<1>3. CASE Resume
    <2>1. UNCHANGED <<Stage, Granted, Encrypted, valid, cctx>>
        BY <1>3 DEF Resume, Stage, Granted, Encrypted, serverVars, clientVars
    <2> QED
        BY <2>1 DEF Auth!vars, Request
<1>4. CASE Leave
    <2>1. /\ Stage' = Stage /\ Stage \in {"success", "failure", "aborted", "lost"}
          /\ UNCHANGED <<Granted, Encrypted, valid>> /\ cctx' = None
        BY <1>4 DEF Leave, client_mech_dispose, Stage, Granted, Encrypted, serverVars, appVars,
                    ForServer, Outcomes
    <2>2. Request' = None
        BY <2>1 DEF Request
    <2>3. CASE Stage = "success"
        BY <2>1, <2>2, <2>3 DEF Auth!Next, Auth!ClientForgets
    <2>4. CASE Stage # "success"
        BY <2>1, <2>2, <2>4 DEF Auth!vars, Request
    <2> QED
        BY <2>3, <2>4
<1>5. CASE TryAgain \/ Reconnect
    <2>1. /\ Stage \in Auth!Over /\ Stage' = "idle" /\ Request = None /\ Request' = None
          /\ UNCHANGED <<Encrypted, valid>>
        BY <1>5 DEF TryAgain, Reconnect, Stage, Request, Encrypted, serverVars, clientVars,
                    Outcomes, Auth!Over
    <2>2. Granted' = Granted
        BY <1>5 DEF TryAgain, Reconnect, Granted, serverVars
    <2> QED
        BY <2>1, <2>2 DEF Auth!Next, Auth!Again, Auth!Moves
<1>6. CASE Lose
    <2>1. /\ Stage \in {"open", "asked", "granted", "denied"} /\ Stage' = "lost"
          /\ UNCHANGED <<Granted, Encrypted, valid>>
        BY <1>6 DEF Lose, Stage, Granted, Encrypted, serverVars
    <2>2. Request' = None
        BY <2>1 DEF Request
    <2> QED
        BY <2>1, <2>2 DEF Auth!Next, Auth!Lose, Auth!Moves
<1> QED
    BY <1>1, <1>2, <1>3, <1>4, <1>5, <1>6

\* A step with the rejection is the end of the error exchange.
LEMMA RejectionConcludes ==
    ASSUME client_step(Rejection)
    PROVE  crc' = "OK"
<1>1. Rejection # None /\ Rejection # Oversized
    BY Kinds
<1> QED
    BY <1>1
    DEF client_step, DataTooBig, Conclude, Weak, NoSlot, NoMemory, Ask, UserFails, NoToken, NotText,
        ClientNoCanon, AnonymousRefused, AuthzidRefused, Respond, Gives, Answered, Harvested, Returns

\* The client asks once; after a rejection it only says that it has seen it.
LEMMA ClientAuth ==
    ASSUME RInv, ClientCall
    PROVE  [Auth!Next]_(Auth!vars)
<1>1. /\ app = "call" /\ client_step(cin) /\ cin' = cin
      /\ UNCHANGED <<Granted, Encrypted, valid>> /\ wanted \in Wanted
      /\ Stage = IF cin = None THEN "open" ELSE "denied"
      /\ Request = None
    <2>1. app = "call" /\ client_step(cin) /\ cin' = cin /\ UNCHANGED serverVars
        BY DEF ClientCall
    <2>2. wanted \in Wanted
        BY <2>1, ClientEffect DEF RInv, XInv, OwnToken
    <2> QED
        BY <2>1, <2>2 DEF Stage, Request, Granted, Encrypted, serverVars
<1>2. CASE cin # None /\ crc' = "OK" /\ cout' = Terminator
    <2>1. app' = "wait" /\ wire' = [to |-> "server", body |-> Terminator]
        BY <1>2 DEF ClientCall
    <2>2. ForServer' /\ wire'.body = Terminator
        <3>1. wire' \in [to: {"client", "server"}, body: Message]
            BY <2>1, Kinds
        <3>2. None \notin [to: {"client", "server"}, body: Message]
            BY NoWireAssumption
        <3> QED
            BY <2>1, <3>1, <3>2 DEF ForServer
    <2>3. Stage' = "denied"
        BY <2>1, <2>2 DEF Stage
    <2> QED
        BY <1>1, <1>2, <2>3 DEF Auth!vars, Request
<1>3. CASE /\ cin = None /\ crc' = "CONTINUE"
           /\ cctx' = [output |-> Response(Authzid, wanted.token)] /\ cout' = cctx'.output
    <2> DEFINE r == Response(Authzid, wanted.token)
    <2>1. r \in Message /\ r.kind = "response" /\ r # Terminator
        BY <1>1, ResponseType, Kinds
    <2>2. cctx'.output = r /\ cctx' # None
        BY <1>3, <2>1, NoContextAssumption
    <2> HIDE DEF r
    <2>3. app' = "wait" /\ wire' = [to |-> "server", body |-> r]
        BY <1>3, <2>2 DEF ClientCall
    <2>4. ForServer' /\ wire'.body = r
        <3>1. wire' \in [to: {"client", "server"}, body: Message]
            BY <2>1, <2>3
        <3>2. None \notin [to: {"client", "server"}, body: Message]
            BY NoWireAssumption
        <3> QED
            BY <2>3, <3>1, <3>2 DEF ForServer
    <2>5. Stage' = "asked" /\ Request' = r
        BY <2>1, <2>2, <2>3, <2>4 DEF Stage, Request
    <2>6. r \in Auth!Requests
        BY <2>1 DEF Auth!Requests, Auth!Message, Auth!Terminator, Auth!Rejection, Auth!Oversized,
                    Message, Terminator, Rejection, Oversized
    <2>7. Stage = "open"
        BY <1>1, <1>3
    <2> QED
        BY <1>1, <2>5, <2>6, <2>7 DEF Auth!Next, Auth!Ask, Auth!Moves
<1>4. CASE /\ crc' \in {"INTERACT", "TOOWEAK", "BADPARAM", "BADPROT", "FAIL", "NOMEM", "canon"}
           /\ cctx' = cctx
    <2>1. app' = IF crc' = "INTERACT" THEN "ask" ELSE "aborted"
        BY <1>4 DEF ClientCall
    <2>2. Stage' = (IF crc' = "INTERACT" THEN Stage ELSE "aborted") /\ Request' = None
        BY <1>1, <2>1 DEF Stage, Request
    <2>3. CASE crc' = "INTERACT"
        BY <1>1, <2>2, <2>3 DEF Auth!vars
    <2>4. CASE crc' # "INTERACT"
        <3>1. cin = None
            BY <1>1, <1>4, <2>4, RejectionConcludes DEF RInv, XInv, TypeOK
        <3> QED
            BY <1>1, <2>2, <2>4, <3>1 DEF Auth!Next, Auth!Abort, Auth!Moves
    <2> QED
        BY <2>3, <2>4
<1> QED
    BY <1>1, <1>2, <1>3, <1>4, ClientEffect

\* The client is told what the server decided.
LEMMA ReceiveAuth ==
    ASSUME RInv, ClientReceive
    PROVE  [Auth!Next]_(Auth!vars)
<1>1. /\ ForClient /\ ~ForServer /\ app = "wait" /\ UNCHANGED <<Granted, Encrypted, valid, cctx>>
      /\ wire.body \in {Outcome("success"), Outcome("failure"), Rejection}
    BY DEF ClientReceive, RInv, XInv, Answer, ForClient, ForServer, Granted, Encrypted, serverVars,
           clientVars
<1>2. CASE wire.body = Outcome("success")
    <2>1. Stage = "granted" /\ app' = "success"
        BY <1>1, <1>2, Kinds DEF ClientReceive, Stage, Outcomes
    <2>2. Stage' = "success" /\ Request' = Request
        BY <1>1, <2>1 DEF Stage, Request
    <2> QED
        BY <1>1, <2>1, <2>2 DEF Auth!Next, Auth!Succeed, Auth!Moves
<1>3. CASE wire.body = Outcome("failure")
    <2>1. Stage = "denied" /\ app' = "failure"
        BY <1>1, <1>3, Kinds DEF ClientReceive, Stage, Outcomes
    <2>2. Stage' = "failure" /\ Request' = Request
        BY <2>1 DEF Stage, Request
    <2> QED
        BY <1>1, <2>1, <2>2 DEF Auth!Next, Auth!Fail, Auth!Moves
<1>4. CASE wire.body = Rejection
    <2>1. Stage = "denied" /\ app' = "call" /\ cin' = Rejection
        BY <1>1, <1>4, Kinds DEF ClientReceive, Stage, Outcomes
    <2>2. Stage' = "denied" /\ Request' = Request
        BY <2>1, Kinds DEF Stage, Request
    <2> QED
        BY <1>1, <2>1, <2>2 DEF Auth!vars
<1> QED
    BY <1>1, <1>2, <1>3, <1>4

\* The server decides once, for what the client asked.
LEMMA ServerAuth ==
    ASSUME RInv, ServerCall
    PROVE  [Auth!Next]_(Auth!vars)
<1> DEFINE input == cctx.output
<1>1. /\ app = "wait" /\ app' = "wait" /\ ForServer /\ ~ForServer' /\ cctx # None /\ cctx' = cctx
      /\ input \in Message /\ wire.body = input /\ server_step(input)
    BY DEF RInv, XInv, Sent, ServerCall, ForServer, clientVars
<1>2. /\ ctx # None /\ src # "OK" /\ UNCHANGED <<tls_required, valid, ssf>>
    BY <1>1, ServerEffect DEF RInv, Undecided
<1>3. Granted = None /\ UNCHANGED <<Encrypted, valid>>
    BY <1>2 DEF Granted, Encrypted
<1>4. Stage = IF input = Terminator THEN "denied" ELSE "asked"
    BY <1>1 DEF Stage
<1>5. CASE Accept(input)
    <2>1. /\ src' = "OK" /\ input.kind = "response" /\ input.token \in valid /\ Encrypted
          /\ ctx' = ctx
          /\ sids' = [authid |-> Canon[Subject[input.token]], user |-> Canon[UserOf(input)]]
        BY <1>5 DEF Accept, Return, Named, Verified, Parses, Sized
    <2>2. wire'.body = Outcome("success")
        BY <2>1 DEF ServerCall
    <2>3. Stage = "asked" /\ Request = input
        BY <1>1, <1>4, <2>1, Kinds DEF Request
    <2>4. Stage' = "granted" /\ Request' = input
        BY <1>1, <2>2 DEF Stage, Request
    <2>5. Granted' = Auth!Identity(input)
        BY <1>2, <2>1 DEF Granted, Auth!Identity, Auth!UserOf, UserOf
    <2> QED
        BY <1>3, <2>1, <2>3, <2>4, <2>5 DEF Auth!Next, Auth!Grant, Auth!Moves
<1>6. CASE src' # "OK"
    <2>1. wire'.body # Outcome("success")
        <3>1. CASE src' = "CONTINUE"
            <4>1. sout' = Rejection
                BY <1>1, <1>6, <3>1, ServerEffect DEF Accept, Return, Reject
            <4> QED
                BY <1>6, <3>1, <4>1, Kinds DEF ServerCall
        <3>2. CASE src' # "CONTINUE"
            BY <1>6, <3>2, Kinds DEF ServerCall
        <3> QED
            BY <3>1, <3>2
    <2>2. Stage' = "denied" /\ Request' = None /\ Granted' = None
        BY <1>1, <1>6, <2>1 DEF Stage, Request, Granted
    <2>3. CASE input = Terminator
        <3>1. Stage = "denied" /\ Request = None
            BY <1>4, <2>3 DEF Request
        <3> QED
            BY <1>3, <2>2, <3>1 DEF Auth!vars
    <2>4. CASE input # Terminator
        BY <1>3, <1>4, <2>2, <2>4 DEF Auth!Next, Auth!Deny, Auth!Moves
    <2> QED
        BY <2>3, <2>4
<1>7. Accept(input) \/ src' # "OK"
    BY <1>1, ServerEffect DEF Reject
<1> QED
    BY <1>5, <1>6, <1>7

\* The server begins and forgets an exchange, and time passes.
LEMMA ServerOtherAuth ==
    ASSUME RInv, ServerStart \/ ServerLeave \/ Pass
    PROVE  [Auth!Next]_(Auth!vars)
<1>1. UNCHANGED <<Stage, Request, Encrypted>>
    <2>1. UNCHANGED <<app, cin, wire, cctx, tls_required, ssf>>
        BY DEF ServerStart, ServerLeave, Pass, server_mech_new, server_mech_dispose, Drift,
               clientVars, appVars
    <2> QED
        BY <2>1 DEF Stage, Request, Encrypted, ForServer
<1>2. CASE ServerStart
    <2>1. Granted = None /\ Granted' = None /\ valid' = valid
        BY <1>2, NoReturnAssumption DEF ServerStart, server_mech_new, Granted
    <2> QED
        BY <1>1, <2>1 DEF Auth!vars
<1>3. CASE ServerLeave
    <2>1. Granted' = None /\ valid' = valid /\ Stage \in Auth!Over \cup {"idle"}
        BY <1>3 DEF ServerLeave, server_mech_dispose, Granted, Stage, Outcomes, Auth!Over
    <2> QED
        BY <1>1, <2>1 DEF Auth!Next, Auth!ServerForgets
<1>4. CASE Pass
    <2>1. Granted' = Granted /\ valid' \subseteq Tokens
        BY <1>4 DEF Pass, Drift, Granted
    <2> QED
        BY <1>1, <2>1 DEF Auth!Next, Auth!TimePasses
<1> QED
    BY <1>2, <1>3, <1>4

\* The exchange of a client and a server of this mechanism implements
\* Authentication, for any tokens, names and number of attempts, and whatever is
\* lost or fails on the way.
THEOREM ImplementsAuthentication == Spec => IsAuthentication
<1>1. Init => Auth!Init
    BY DEF Init, ClientInit, ServerInit, Auth!Init, Stage, Request, Granted, Encrypted
<1>2. RInv /\ [Next]_vars => [Auth!Next]_(Auth!vars)
    <2> SUFFICES ASSUME RInv, [Next]_vars PROVE [Auth!Next]_(Auth!vars)
        OBVIOUS
    <2>1. CASE UNCHANGED vars
        BY <2>1, Unmoved DEF vars, clientVars, serverVars, appVars
    <2> QED
        BY <2>1, ApplicationAuth, ClientAuth, ReceiveAuth, ServerAuth, ServerOtherAuth DEF Next
<1>3. Init => Undecided
    BY DEF Init, Undecided, ForServer
<1>4. XInv /\ Undecided /\ [Next]_vars => Undecided'
    BY UndecidedKept
<1> QED
    BY <1>1, <1>2, <1>3, <1>4, XInvInvariant, PTL DEF Spec, Auth!Spec, IsAuthentication, RInv

==============================================================================
