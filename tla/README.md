# A TLA+ development of crudeoauth

crudeoauth authenticates users by OAuth access tokens (signed JWTs): a SASL
plugin with the OAUTHBEARER mechanism of RFC 7628 for client and server, and a
PAM module that takes the token as password. Both rest on a common crate that
loads a JWKS, verifies a token against a policy and returns the user name.

This directory models that program in TLA+, checks the models with TLC and
proves some of the results with TLAPS. It follows both front ends from their
options to the name of the user: the two caches of the PAM module and the calls
of a login over them, the verification of a token while time passes, the SASL
plugin with its options and its bytes, and the SASL exchange.

## The system

| part | state | operations | hard behaviour |
|---|---|---|---|
| `core/src/jwt.rs`, `from_jwks_json` | the keys by kid | load a JWKS document for a policy | a document mixes usable, unusable, broken and duplicate keys in any order |
| `core/src/jwt.rs`, `verify` | none; reads the clock | twelve checks in a fixed order, each an early return | the algorithm comes from the token; dates at the limits of i64, fractions, grace |
| `core/src/config.rs` | none | options to policy | holes in numbered options, two forms of a list, two front ends that have to agree |
| `core/src/rfc7628.rs` | none | parse and build the client response | the two are inverse only without %x01; escapes that stand for escapes |
| `pam/src/cache.rs`, `Config::verifier` | a slot under a mutex | stat, lock, compare, reread | threads, a file that changes meanwhile, timestamps with coarse ticks, errors under the lock |
| `pam/src/cache.rs`, `config` | a map under a process-wide mutex | the same for the `config=` file | the same, configurations replaced while in use, and permissions that are checked before the file is read |
| `pam/src/lib.rs`, `pam/src/ffi.rs` | the PAM items of the handle | `authenticate`, option parsing | files that change while the user is at the prompt, several calls on one handle, the token left for other modules |
| `sasl/src/config.rs` | the `ServerConfig` of the plugin | load and free | options in two forms, and a policy that stays while files change |
| `sasl/src/server.rs` | a context with the output buffer, the out parameters | `mech_new`, `mech_step`, `mech_dispose` | error exchange without state, partial failure of canon_user, retries |
| `sasl/src/client.rs`, `sasl/src/ffi.rs` | a context with the output buffer, a prompt array shared with the application | the same | who owns the array, results read after a free, a buffer that is reused |

The two front ends share nothing at run time. The PAM module calls
`cache::config`, then `Config::verifier`, then `verify`, in any number of
threads. The SASL server loads its verifier once, calls it in every step that
has a response, and hands names to libsasl's `canon_user`; libsasl and the
application protocol connect it to the client, whose application supplies
token and authzid by callbacks or prompts.

What makes each part correct:

* **Verifier cache.** A call returns a verifier for contents the file had
  during the call, so a withdrawn key is not used later; when the file cannot be
  read the call fails and does not fall back on the slot; a failure to build
  is one of contents the file had; the lock is given back on every path.
* **Configuration cache.** The same of a configuration; one from a file that
  others could write all along is never used; an error gives the process-wide
  mutex back.
* **PAM authentication.** Whoever is let in is so by one configuration and one
  JWKS of the call, for the very user of the handle; the user is asked once and
  the rest of the stack sees what was typed; every call returns.
* **Options.** A file means the same to both front ends as the arguments that
  say it; a name or algorithm that it denies stays denied.
* **JWKS loading.** The result depends on the document and not on the order of
  its keys; exactly the usable keys are used.
* **Verification.** A token is accepted exactly if it was signed with a key of
  the document meant for it, by an algorithm the policy allows, and its
  claims, dates and name are as configured; once over, it stays over.
* **SASL.** The prompt array is owned by one side at a time; both ends agree
  on who was let in; a rejection the client has acknowledged is final; each
  attempt ends; a message means one thing, whoever wrote it; without TLS nobody
  gets in unless the file says so.

## Modules

* `FileStamps` - the file system and clock the caches see (external), with the
  code's `Stamp::of`. Each change is dated with a clock refreshed once per
  tick, which is why two versions may carry one stamp. `FileStampsProofs` has
  the facts about it that both caches use.
* `FreshRead` - what a cache of a file promises: a call is answered from a value
  the file had at some moment of that call. `Answers` says what a caller may be
  told of each value, a failure included that any read may meet. Abstract: no
  clock, stamp or lock.
* `VerifierCache` - `Config::verifier`: `Begin`, `Stat`, `Hit`/`Miss` under the
  lock, `Open`, `Fstat`, `Read`, `Store`, and an error action for each `?`:
  `StatFails`, `OpenFails`, `FstatFails`, `ReadFails`, `BuildFails`. The first
  four may happen at any time, whatever the file is: the system has more reasons
  to refuse an access than the file shows. `BuildFails` depends on the contents.
  `pc` is the program point, `current`, `meta`, `text` are the locals, `slot`
  and `lock` the mutex and its contents. `readAt` and `window` are history.
  `IsFreshRead` maps it to `FreshRead`. `VerifierCacheProofs` proves about it.
* `ConfigCache` - `cache::config` with `read_config_file`: `Begin`, `Stat`, then
  `Hit`, `Inline` or `Miss` under the lock of the map, `Open`, `Fstat` (where the
  permissions are looked at), `Read`, `Insert`, and the errors: `PathFails`,
  `OpenFails`, `FstatFails` and `ReadFails` at any time, `FstatRefuses`,
  `ParseFails` and `InlineFails` for what the file or the arguments are.
  `cache` is the map, `call` the locals. `ConfigIsFreshRead` maps it to `FreshRead`.
  `ConfigCacheProofs` proves about it.
* `Text`, `PolicyOptions`, `PamOptions`, `Rfc7628` - pure code as operators: cutting
  a value at separators; `PolicyOptions::read` and its helpers; `config_path`,
  `parse_inline_args` and `parse_config`; the client response and the saslname
  coding. A text is a sequence of symbols of which the separators and escapes
  are told apart. A list of algorithms is a set: its order decides nothing
  (`jwt.rs:268-270`). `Split` and `Given` (the values of a repeated key) pick
  positions and put them in order with `Ascending`, instead of one symbol after
  another, so that they can be proved about; `decode_saslname` is a function of the
  place and `encode_saslname` a concatenation. `Rfc7628Proofs` proves about the
  messages.
* `PamAuthenticate` - `pam_sm_authenticate` over two instances of `FreshRead`,
  one action per call of a library and per return, in the code's order.
  `handle` are the PAM items, `call` the arguments, place and result of
  the call, `talk` the conversation of the transaction. Between the calls other
  modules of the stack ask for passwords and transactions begin; at any
  moment either file changes. `PamAuthenticateProofs` proves about it.
* `TokenDates` - `numeric_date` and `check_validity_dates` as operators over
  integers of any width.
* `Jwks` - the loop of `from_jwks_json`, one action per way through it.
* `JwtVerifier` extends `Jwks` and `TokenDates` with `verify`: `phase` is the
  next check, `Check...` and `ExtractUid` are the calls in the code's order, the
  clock moves between any two of them, and the token is presented again.
  `JwtVerifierProofs` proves about all three.
* `Sasl` - the messages of the exchange and `canon_user` (external).
* `Authentication` - what an exchange promises to both ends. Abstract: no messages
  and no contexts, an attempt is open, asked, granted or denied, and over. The server
  decides once, for what was asked and with a token that is valid then, and
  the client is told that decision or the connection is lost.
* `SaslServer` - `server_step`, one action per return.
* `SaslPlugin` composes `SaslServer`, `PolicyOptions` and `Rfc7628`: the plugin is
  loaded with a file, serves messages of any client as text, and is freed.
  `PamOptions` is there to compare the two front ends. `SaslPluginProofs` proves
  about it.
* `SaslClient` - `ClientStep::run`, one action per return, with the prompt
  arrays as a heap: `slot` is `*prompt_need`. `SaslExchangeProofs` proves about it.
* `SaslExchange` composes client and server over libsasl and an application
  protocol, with attempts, tokens that expire and become valid between any two
  steps, and a connection that may be lost. A message is a record here and a
  text in `SaslPlugin`. `IsAuthentication` maps it to `Authentication`: `stage` is
  read off the application, the wire and the server's return code, `granted` is
  the server's identities. `SaslExchangeProofs` proves about it.
* `MC...` - values for the constants of a run.

## Runs

| run | what it asks | bounds |
|---|---|---|
| `verifier_cache` | can a stamp be cached that does not prove the contents, or a call return a verifier of no version of its time? | two threads, two inodes (replacement needs a second), two usable contents of one length, tick 2, stall 1, `SETTLE_TIME` 3, four units of time: stamps settle, and ticks pass before and after |
| `verifier_returns` | is the cache a plain read of the file, which may fail at any access (`FreshRead`), is every call answered, and nothing unusable cached? | two threads, one inode, contents that are usable, empty (torn) or not UTF-8; `SETTLE_TIME` 1 lets stamps settle at once |
| `verifier_late_clock` | and if a thread is held up? | stall 2 with tick 1 and `SETTLE_TIME` 2: one unit more than fits |
| `config_cache` | is `cache::config` a plain read of the file, which may fail at any access, is the map current, is a file that is exposed all along never used, is the mutex given back? | two threads, one inode, contents that are good, exposed and not UTF-8, of one length (only time tells them apart), one argument list of each kind; `SETTLE_TIME` 1 in one unit of time, so a stamp is unsettled and then settled; stall 0, which is the condition `Prompt` again, measured from the fstat |
| `pam_login` | who is let in by which policy, who is asked how often, what does the stack see, does every call return? | one thread: logins meet only in the caches, which the runs above check with two. Five stack entries (file, file with arguments, complete, incomplete and faulty arguments), three files, three JWKS (one missing), two users, hosts and tokens, one answer that is not UTF-8 |
| `sasl_plugin` | do denied users stay out, is TLS required, do the front ends read one policy, does a message mean one thing? | files with the mandatory lines and up to two lines of one option, numbered, unnumbered, repeated, empty and broken (lines of different options do not touch each other), messages with each kind of header and each kind of field paired with one other, offers with every separator and escape, strength factors 255, 256 and none |
| `jwks` | does the loop agree with the document? | all documents of up to three keys out of eleven kinds, four policies; three keys suffice for any pair and a skipped one between |
| `jwks_duplicate` | are unusable keys harmless? | documents of up to two keys |
| `jwt_verify` | are exactly the right tokens accepted, and for one interval of time? | eight documents, five policies, tokens that differ from a good one in signature, dates or one claim; i64 ends at 3 and the clock as well, so the saturating sums are at their limit |
| `jwt_party` | is azp optional? | tokens that differ in azp |
| `sasl_client` | who owns the prompts, and is the application asked twice? | all sixteen ways to answer two callbacks, two blocks in the allocator, whatever a server may send |
| `sasl_exchange` | do both ends agree, is the whole one authentication (`Authentication`), and does each attempt end? | two attempts (one to leave something behind, one to meet it), three names of which two are one user, a valid, an oversized and an empty token, strength factors 255 and 256, and none |

`CHECK_DEADLOCK FALSE` is said for the runs of `Jwks` and `JwtVerifier` only: a
loaded document, a refused one and the end of the bounded clock stop them.
`verifier_cache` uses symmetry of threads, inodes and contents and checks no
liveness.

The time at which a thread runs is only bounded by `Stall`. `Prompt`, that is
`Stall + Tick <= SETTLE_TIME`, is no assumption of the module: the code
bounds no stall. It is a condition of the results, and `verifier_late_clock`
shows what happens without it.

Fairness:

* `verifier_returns`: weak fairness of each thread's `Step`. The threads
  belong to the host application and are scheduled; nothing makes the mutex
  fair. So `EveryCallReturns` promises a return unless others keep calling, and
  `Maintain` and `Begin` are not fair.
* `config_cache`: weak fairness of each thread's `Step`, with the same caution:
  `EveryConfigReturns` promises a return unless other calls keep coming.
* `pam_login`: weak fairness of `authenticate` of each thread, that is, of
  a call that is under way. What it waits for is the caches (the two runs above)
  and the conversation: that the user at the prompt answers or the application
  gives up is assumed, and the code has no time-out of its own. Entering,
  editing and other modules are not fair.
* `sasl_exchange`: weak fairness of the steps both applications take for an
  exchange that is under way, justified by libsasl being called once per message.
  No prompt need be answered: an open one is passed back with a NULL result.

### What the runs found

* **`verifier_late_clock`.** `Stamp::settled` reads the clock when the verifier
  has been built, so time spent after the fstat counts towards the two seconds
  `SETTLE_TIME` asks for. A stall of that length caches a stamp that cannot
  prove the contents, until the file changes again.
* **`jwks_duplicate`.** The check for duplicate kids comes before the filters: an
  encryption key with the kid of a signing key makes the document unusable,
  where the README says such keys are ignored.
* **`jwt_party`.** With trusted authorized parties, a token without azp is
  rejected; the manual page `sasl_oauthbearer.5` has a *present* claim match.

### How the runs fit together

`VerifierCache` and `ConfigCache` are shown to implement `FreshRead`, and
`PamAuthenticate` is built on two instances of it: so a login does
not have to be checked with every step of both caches in it. It uses one thing
more than `FreshRead` of `ConfigCache`, `NeverFromExposed`, as a guard of
`ConfigReturns`. Which tokens a verifier accepts is reduced there to key,
audience and deny-list (`Accepts`), as `JwtVerifier` has the rest; a token may
always be `Rejected`, since its time may be over.

In the same way `SaslPlugin` leaves the signature and dates to `valid`, and the
conversation with this client to `SaslExchange`.

### Seen on the way, without a run

`sasl_oauthbearer.5:110-117` says exp is checked
when present, and a token without it is rejected (`jwt.rs:338-341`); the
same page numbers several JWKS files, of which only the first is read
(`config.rs:53-54`). `pam_oauthbearer.5:123` has PAM_CRED_ERR for a token
without the user id, and the code never returns it: that is PAM_AUTH_ERR as well. `parse_algorithm_name` accepts the
HS* names, which the README does not list, for keys of type oct
(`jwt.rs:430-441`). An allow-list that comes to nothing, as from
`oauthbearer_allowed_alg: ,`, counts as not given, so that the legacy list is used,
and the error for an empty list (`jwt.rs:118-124`) is not reachable through
either front end. The permissions of the configuration file are those of the
fstat (`lib.rs:100-108`): a file that is made writable and rewritten before
the read is read all the same, and cached if its stamp settles in time, which is why
`NeverFromExposed` says no more than it does and `CachedIsCurrent` needs the stall
to be counted from the fstat.

## Proofs

TLC checks small instances; the following holds for all values of the
constants, under the named assumptions of the modules.

* `VerifierCacheProofs!TypeCorrect`: `Spec => []TypeOK`.
* `StampsProve`, `CallsFresh`: `Prompt => (Spec => []...)`. Neither property is
  inductive: while a thread is between fstat and `Store`, what it will
  store is in its locals. The invariant `IInv` adds: the coarse clock is less than
  a tick behind and no thread more than `Stall` behind its read (`ClockOK`,
  `StallBound`); an open descriptor on the inode of the path shows the
  file as it is, and a stamp is of the inode that is read (`DescriptorsShare`,
  `StampIsOfDescriptor`); a stamp belongs to what was read unless it is so recent
  that it will not be settled (`FillSound`, then `SlotSound` in the slot); and what a
  call has open or has read, and for a call at the lock all it may be served with, is
  in its `window` (`WindowOpen`, `WaiterCovered`). `Prompt` is used once, at
  `Store`: a settled stamp is older than a tick at the time of the read. A call that
  fails serves nothing, so the errors, which no state of the file limits, add
  nothing to the invariant.
* `ImplementsFreshRead`: `Prompt => (Spec => IsFreshRead)`. The mapped variables are
  the contents a reader would get, the place of each thread, `window` and
  what was returned; every step but `Begin`, a change of the file, a
  return and `Finish` maps to a stutter, and `IInv` explains each return: a verifier
  by `CallsAreFresh`, a failed read by any value of the window, which is never empty,
  and a failed build by what was read, which is in the window and unusable.
* `PamAuthenticateProofs`: `LoginTypes`, `LetInOnlyByPolicy`, `AskedAtMostOnce`,
  `AnswerReachesStack`, for any threads, stack, files, JWKS and tokens. The
  invariant `PInv` says of every place in the call what has been established
  there: the configuration in use is one of the call's (`ConfigOfCall`), the
  host is on its lists (`HostOfPolicy`), the token came from the handle or the prompt
  (`TokenOfCall`), issuer and keys are there (`KeysOfCall`); that a file is read
  only where the code reads it (`ReadsInPlace`), so an edit elsewhere does not
  reach the call; and that whoever is asked has no answer in the handle
  (`AnswerKept`). `Success` then has all of `LetInByPolicy` at hand.
  `AnswersAssumption` is used: no token is the absent one or the one the lossy
  conversion makes of other bytes.
* `ConfigCacheProofs`: `TypeCorrect`, and under `Prompt` `EntriesCurrent`,
  `ExposedNeverUsed` and the refinement `ConfigReadsFresh`. The argument is that for
  the verifier cache with three differences. Permissions are read by the
  fstat and the text later, so `FillOK` says of a thread that is filling the map
  that a stamp a tick old at the fstat proves the permissions, and once the text
  is read also the text. An entry outlives the call that made it, so
  a thread that waits for the mutex is covered against the entry there is
  (`CoveredByEntry`) and against the one each other thread may be about to insert
  (`CoveredBy`): whatever it will be served with is of a moment in its own
  window. An error may be told of any value, and a call under way has one in
  its window. And inline arguments share the map without a stamp, so `OnFile` keeps
  the two kinds of call apart. `ArgsAssumption` is used: the arguments
  with a `config=` file are no inline ones.
* `JwtVerifierProofs!LoadIsDocument`: the loop invariant `Inv` is that `seen_kids`
  and `keys` are those of the prefix read so far and that the prefix has no
  duplicate.
* `NumericDateNear` (a date that is accepted is near the number in the token),
  `SaturationIsExact` (saturation decides as unbounded arithmetic does),
  `AcceptedInterval` (the times of acceptance are an interval, and more grace does
  not shorten it).
* `TypeCorrect`, `VerdictCorrect`, `OneWindow`: `VInv` adds to the loop invariant
  what each check has established when the next one is reached (`Passed`), with
  the dates at `checkedAt`, as the clock has moved on since. Each of
  the code's tests is shown equivalent to its part of `VerdictIsPolicy`, so a
  rejection anywhere is one the policy asks for. `WindowInv` says of a
  token that is over that its dates are in order at no time from now on, which
  is `AcceptedInterval` again.
* `SaslExchangeProofs!PromptsOwned`: `PromptsAreOwned` is inductive; the lemma
  behind it is that a release always empties the heap. `AsksOnce` is an action
  property: `AInv` says that the array out with the application has a prompt for
  every id that needs one, so nothing is wanted when it comes back.
* `SaslExchangeProofs`: `ExchangeTypeCorrect`, `ServerKnowsClient`,
  `RejectionIsFinal`, for any names, tokens and number of attempts. `XInv`
  relates the two ends through the wire: the token in the client's buffer is the
  one it was given in this attempt (`OwnToken`), what is under way to the server
  is that buffer (`Sent`), an answer under way is what the server's last step
  returned, for success with the identities of that buffer (`Answer`, then `LetIn`), and a client that was told of a rejection faces a server that has not
  accepted (`Rejected`), with %x01 in the buffer from then on.
* `SaslExchangeProofs!ImplementsAuthentication`: `Spec => IsAuthentication`, for any
  names, tokens, timing and number of attempts. There is a lemma for each action.
  The message of the client is `Ask`; the server's step is `Grant`, `Deny` or nothing,
  as it accepts, refuses or starts the error exchange; the return to an
  application is `Succeed` or `Fail`; a lost connection is `Lose`; and disposing of
  a context is `ClientForgets` or `ServerForgets`, in either order. `RInv`
  is `XInv` and `Undecided`: while a response is on its way the server has
  let nobody in yet, which is what makes the decision the only one. `NoWireAssumption`
  is used: no message is the empty wire.
* `SaslPluginProofs`: `DeniedAreOut` and `TlsUnlessWaived`, for any file and any
  bytes. `ListHasSaid` is the lemma on the options: what the file says of a list
  is in the list that is read. It rests on `EndIs` (the numbers without a
  gap end where `get_indexed` stops looking, by counting: of more indices than options
  one is not set) and on `HeededIsSet` and `SetIsHeeded` (of repeated
  lines the first is the one that counts). `PInv` then says that the policy in
  use is as strict as the file it was loaded with, whose text is gone by then,
  that only tokens it admits are valid, and that a release leaves nothing behind
  for the next load.
* `Rfc7628Proofs!DecodeEncode`: a saslname decodes to what was encoded, for names of
  any length. What the prover lacks is induction over data with an operator; `Induction`
  has the statement as a set of numbers instead, and rests on the least number
  that is not in it (`LeastExists`). With it a fold and a recursive function are
  shown to be a table of values, one row from the next (`FlattenIs`, `EncodeIs`,
  `DecodeIs`), and the proof goes from the last symbol of the name to the first:
  at the place where a symbol's escape begins the decoder returns that symbol and
  what it makes of the rest (`Unescaped`).
* `Rfc7628Proofs!NameArrives` and `ReadAgain`, and from them `SaslPluginProofs!NamesArrive`
  and `ReadingIsWriting`, for strings of any length. A built message is its
  header, `auth=Bearer `, the token and two separators, each at its place (`BuildHas`),
  so its only field is the token's (`BuiltFields`, by `SplitOne`) and its header
  is read as the name (`RoundTrip`); a separator in the name ends the header
  too early, where it never ends with the comma it needs (`SeparatorRefused`). What is
  read of any message is free of separators and UTF-8 (`ReadIsClean`), so that
  `RoundTrip` holds of it in turn. `SomeInput` says that the input
  is a message or none. `InputsAssumption` is used: what a client is given is a
  string of UTF-8, and bytes from others are symbols.
* `SaslPluginProofs!FrontEndsMeet`, for files of any length. `Given` of a concatenation is
  that of both parts (`GivenConcat`), by the rank of a position in a union (`Moved`,
  `AscendingIs`), so the arguments a file amounts to give each key its own row and no
  other (`AsInlineHolds`). What both front ends take for an option is then the
  same sequence, option by option: `IndexedIs` for the numbered, `ListedIs` for the
  lists, `LastOfOne` for the single ones: repeated lines amount to one argument, that
  of the first, so it does not matter that of repeated arguments the last counts.

Assumptions that only a proof needs say that the absent value is none of the
others: `NoContextAssumption`, `NoReturnAssumption`, `VerdictAssumption`,
`ArgsAssumption`, `NoWireAssumption`. `ExchangesAssumption` makes the bound on attempts a number.
`FilesAssumption` of `SaslPlugin` gives the files their type, and
`InputsAssumption` the tokens, names and bytes theirs.

Only model-checked:

* Liveness: `EveryCallReturns`, `EveryConfigReturns`, `LoginEnds`, `AttemptsEnd`. It
  rests on fairness and ENABLED, which are not in the prover's reach.
* What the three runs show that end in a violation.

Every invariant the passing runs check, the action properties and
the three refinements are proved.

## What is abstracted, and what is not modelled

* The signature check is ideal, JSON parsing and `DecodingKey::from_jwk` are
  external, a claim of the wrong type is a missing one where no check tells.
* A read of the JWKS file returns it whole; torn writes are two rewrites. A
  panic while a verifier is built leaves what an error leaves. The clock only
  goes forward: the code has nothing to detect a ctime that repeats. Why the system
  refuses an access is left open: any may fail at any time.
* The clock is not before 1970: the error `jwt.rs:333-334` has for every token
  then is not modelled.
* In `SaslExchange` a token is free of %x01; an oversized and an empty one stand
  for the responses the server cannot read. `SaslPlugin` has the bytes.
* In `SaslPlugin` cutting a line at its colon and trimming it are left out: a
  line is an option and a value, skipped, or broken. libsasl reads the
  file by the same rules.
* In `PamAuthenticate` the user does not change in a transaction once it is known,
  and libpam keeps an item or fails to.
* The guards of the C entry points against NULL arguments, pointer conversion,
  initialisation of the client plugin and logging keep no state.
* A panic is turned into an error by `guard` (`pam/src/lib.rs:306`,
  `sasl/src/lib.rs:27`); no input that panics is known, and none is modelled.
* `mech_free` after the last context is disposed of: the order is libsasl's.

## Plan

The plan is carried out: the two caches, the login, loading and verification, both
SASL mechanisms, the options and messages are modelled, and what the runs check
of them is proved but for liveness. What is left:

1. The connection of `SaslPlugin` and `SaslExchange`: that the records of the
   exchange are what the bytes of a message are read as, so that
   `ImplementsAuthentication` speaks of bytes. `NameArrives` is the lemma for it.
2. The same connection between `Accepts` of `PamAuthenticate` and the verdict of
   `JwtVerifier`.
