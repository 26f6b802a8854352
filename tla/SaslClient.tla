------------------------------ MODULE SaslClient ------------------------------
(***************************************************************************)
(* The client side of the mechanism, sasl/src/client.rs and the prompts of *)
(* sasl/src/ffi.rs: each call of client_mech_step is one action, named for *)
(* the return it takes.                                                    *)
(*                                                                         *)
(* The application answers SASL_CB_USER and SASL_CB_PASS by a callback, or *)
(* asks to be prompted: then the step allocates an array of prompts, the   *)
(* application fills it in, and the next step reads and frees it.          *)
(***************************************************************************)
EXTENDS Sasl

CONSTANTS
    Anonymous,  \* the name "anonymous"
    Blocks      \* what the SASL allocator may return, bounding its memory

ASSUME BlocksAssumption == None \notin Blocks
ASSUME NoContextAssumption == None \notin [output: Message \cup {None}]

Ids == {"user", "pass"}

\* How the application answers a callback: with a value, with NULL or no
\* callback (no callback for SASL_CB_PASS is a failure), ...
Ways == {"value", "none", "interact", "fail"}

VARIABLES
    ways,       \* how it answers each of the two
    wanted,     \* the authzid (or None) and the token it has
    tooWeak,    \* props.min_ssf > external_ssf
    cctx,       \* ClientContext: None, or its output
    heap,       \* the prompt arrays that are allocated, and what is in them
    slot,       \* *prompt_need: an array or None
    given,      \* the application passes a prompt_need
    cout,       \* what *client_out points to
    cdone,      \* oparams.doneflag
    cids,       \* the identities in the oparams
    crc         \* what the last step returned

settings   == <<ways, tooWeak, given>>
clientVars == <<settings, wanted, cctx, heap, slot, cout, cdone, cids, crc>>

Wanted == [authzid: Names \cup {None}, token: Tokens]

\* Each id is in the array or not, with a NULL result or with an answer.
Array == [Ids -> {"unasked", "open", "filled"}]

ClientTypeOK ==
    /\ ways \in [Ids -> Ways]
    /\ wanted \in Wanted \cup {None}
    /\ tooWeak \in BOOLEAN /\ given \in BOOLEAN /\ cdone \in BOOLEAN
    /\ cctx \in {None} \cup [output: Message \cup {None}]
    /\ slot \in Blocks \cup {None}
    /\ DOMAIN heap \subseteq Blocks /\ \A b \in DOMAIN heap : heap[b] \in Array
    /\ cout \in Message \cup {None}
    /\ cids \in [authid: {Anonymous, None}, user: Names \cup {Anonymous, None}]
    /\ crc \in {None, "OK", "CONTINUE", "INTERACT", "TOOWEAK", "BADPARAM", "BADPROT",
                "FAIL", "NOMEM", "canon"}

ClientInit ==
    /\ ways \in [Ids -> Ways]
    /\ wanted = None
    /\ tooWeak \in BOOLEAN
    /\ given \in BOOLEAN
    /\ cctx = None
    /\ heap = [b \in {} |-> None]
    /\ slot = None
    /\ cout = None
    /\ cdone = FALSE
    /\ cids = NoIdentities
    /\ crc = None

------------------------------------------------------------------------------
\* libsasl resets the flag; the application has credentials for this exchange.
client_mech_new ==
    /\ cctx = None
    /\ wanted' \in Wanted
    /\ cctx' = [output |-> None]
    /\ cout' = None /\ cdone' = FALSE /\ crc' = None
    /\ UNCHANGED <<settings, heap, slot, cids>>

client_mech_dispose ==
    /\ cctx # None
    /\ cctx' = None /\ cout' = None
    /\ UNCHANGED <<settings, wanted, heap, slot, cdone, cids, crc>>

\* The application's side of the prompts: it fills one in, or frees the array
\* once there is no exchange.
FillIn(id) ==
    /\ crc = "INTERACT" /\ slot # None
    /\ heap[slot][id] = "open"
    /\ heap' = [heap EXCEPT ![slot][id] = "filled"]
    /\ UNCHANGED <<settings, wanted, cctx, slot, cout, cdone, cids, crc>>

Without(b) == [a \in DOMAIN heap \ {b} |-> heap[a]]

FreePrompts ==
    /\ cctx = None /\ slot # None
    /\ heap' = Without(slot)
    /\ slot' = None
    /\ UNCHANGED <<settings, wanted, cctx, cout, cdone, cids, crc>>

------------------------------------------------------------------------------
Returns(rc) == cctx # None /\ crc' = rc /\ UNCHANGED <<settings, wanted>>

\* client_out is left as it is.
DataTooBig(server_in) ==
    /\ server_in = Oversized
    /\ Returns("BADPROT")
    /\ UNCHANGED <<cctx, heap, slot, cout, cdone, cids>>

\* Mutant: the output buffer is not cleared.
ConcludeWithResponse(server_in) ==
    /\ server_in \notin {None, Oversized}
    /\ Returns("OK")
    /\ cout' = cctx.output
    /\ cdone' = TRUE
    /\ UNCHANGED <<cctx, heap, slot, cids>>

\* The server rejected the token: complete the error exchange.
Conclude(server_in) ==
    /\ server_in \notin {None, Oversized}
    /\ Returns("OK")
    /\ cctx' = [output |-> Terminator]
    /\ cout' = Terminator
    /\ cdone' = TRUE
    /\ UNCHANGED <<heap, slot, cids>>

\* Every step from here on has no server_in, and clears client_out.
Weak(server_in) ==
    /\ server_in = None
    /\ tooWeak
    /\ Returns("TOOWEAK")
    /\ cout' = None
    /\ UNCHANGED <<cctx, heap, slot, cdone, cids>>

\* get_simple and get_password: a prompt comes before the callback.
Prompted(id) == slot # None /\ heap[slot][id] # "unasked"
HarvestAfterRelease(id) == ways[id]   \* mutant: the answers are gone
Harvest(id) ==
    IF Prompted(id)
    THEN IF heap[slot][id] = "filled" THEN "value" ELSE "none"
    ELSE ways[id]

Wants == {id \in Ids : Harvest(id) = "interact"}

\* Prompts::release
Released == IF slot = None THEN heap ELSE Without(slot)

\* A new array at b, with a NULL result for each of the ids.
Allocated(b, ids) ==
    [a \in DOMAIN Released \cup {b} |->
        IF a = b THEN [id \in Ids |-> IF id \in ids THEN "open" ELSE "unasked"]
                 ELSE Released[a]]

\* The results are harvested and the array of the round before is released.
Harvested(server_in) == server_in = None /\ ~tooWeak /\ cout' = None

\* Prompts::request
NoSlot(server_in) ==
    /\ Harvested(server_in) /\ Wants # {} /\ ~given
    /\ Returns("FAIL")
    /\ UNCHANGED <<cctx, heap, slot, cdone, cids>>

NoMemory(server_in) ==
    /\ Harvested(server_in) /\ Wants # {} /\ given
    /\ Returns("NOMEM")
    /\ heap' = Released
    /\ slot' = None
    /\ UNCHANGED <<cctx, cdone, cids>>

Ask(server_in) ==
    /\ Harvested(server_in) /\ Wants # {} /\ given
    /\ Returns("INTERACT")
    /\ \E b \in Blocks \ DOMAIN Released :
           /\ heap' = Allocated(b, Wants)
           /\ slot' = b
    /\ UNCHANGED <<cctx, cdone, cids>>

\* Mutant: the slot keeps the address of the array that was freed.
AnsweredDangling(server_in) ==
    /\ server_in = None /\ ~tooWeak
    /\ Wants = {}
    /\ heap' = Released
    /\ UNCHANGED slot

Answered(server_in) ==
    /\ server_in = None /\ ~tooWeak
    /\ Wants = {}
    /\ heap' = Released
    /\ slot' = None

\* An error return once the prompts are answered.
Gives(server_in, rc) ==
    /\ Answered(server_in) /\ Returns(rc)
    /\ cout' = None
    /\ UNCHANGED <<cctx, cdone>>

UserFails(server_in) == Harvest("user") = "fail" /\ Gives(server_in, "FAIL") /\ UNCHANGED cids

\* A NULL result or secret; no callback, or one that fails.
NoToken(server_in) ==
    /\ Harvest("user") # "fail"
    /\ \/ Harvest("pass") = "none" /\ Gives(server_in, "BADPARAM")
       \/ Harvest("pass") \in {"none", "fail"} /\ ~Prompted("pass") /\ Gives(server_in, "FAIL")
    /\ UNCHANGED cids

Ready == Harvest("user") # "fail" /\ Harvest("pass") = "value"

\* The token or the authzid is not UTF-8; canon_user is NULL; canon_user
\* refuses "anonymous".
NotText(server_in)          == Ready /\ Gives(server_in, "BADPARAM") /\ UNCHANGED cids
ClientNoCanon(server_in)    == Ready /\ Gives(server_in, "FAIL") /\ UNCHANGED cids
AnonymousRefused(server_in) == Ready /\ Gives(server_in, "canon") /\ UNCHANGED cids

\* The authzid has a NUL, or canon_user refuses it.
AuthzidRefused(server_in) ==
    /\ Ready
    /\ Gives(server_in, "BADPARAM") \/ Gives(server_in, "canon")
    /\ cids' = [cids EXCEPT !.authid = Anonymous]

Authzid == IF Harvest("user") = "value" THEN wanted.authzid ELSE None

Respond(server_in) ==
    /\ Ready /\ Answered(server_in) /\ Returns("CONTINUE")
    /\ cids' = [authid |-> Anonymous,
                user |-> IF Authzid = None THEN Anonymous ELSE Canon[Authzid]]
    /\ cctx' = [output |-> Response(Authzid, wanted.token)]
    /\ cout' = cctx'.output
    /\ UNCHANGED cdone

client_step(server_in) ==
    \/ DataTooBig(server_in) \/ Conclude(server_in) \/ Weak(server_in)
    \/ NoSlot(server_in) \/ NoMemory(server_in) \/ Ask(server_in)
    \/ UserFails(server_in) \/ NoToken(server_in) \/ NotText(server_in)
    \/ ClientNoCanon(server_in) \/ AnonymousRefused(server_in)
    \/ AuthzidRefused(server_in) \/ Respond(server_in)

------------------------------------------------------------------------------
ClientNext ==
    \/ client_mech_new \/ client_mech_dispose \/ FreePrompts
    \/ \E id \in Ids : FillIn(id)
    \/ \E server_in \in {None, Rejection, Oversized} : client_step(server_in)

ClientSpec == ClientInit /\ [][ClientNext]_clientVars

\* The prompt array that is allocated is the one the application holds: none is
\* lost, none is freed that the application can still reach, whatever the step
\* returns (Prompts::release and request, sasl/src/ffi.rs).
PromptsAreOwned == DOMAIN heap = {slot} \ {None}

\* A step that follows an INTERACT has its answers and does not ask again: the
\* results are harvested before the array is released (client.rs, run).
NeverAsksTwice ==
    [][\A server_in \in {None, Rejection, Oversized} :
           crc = "INTERACT" /\ client_step(server_in) /\ slot # None => crc' # "INTERACT"]_clientVars

==============================================================================
