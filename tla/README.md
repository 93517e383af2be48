# opnsense-mcp-server in TLA+

TLA+ models of the MCP server in `src/src/opnsense_mcp/`, model-checked with TLC,
and theorems about all of them, proved with TLAPS. Paths like
`confirmation.py:57` are relative to `src/src/opnsense_mcp/` (tools in `tools/`);
`README.md:100` is the repository's README.

    tlc -config MCHighRisk.cfg MCHighRisk      # any run of the table below
    tlapm StoreProofs.tla

## 1. Inventory

The server offers the REST API of one OPNsense firewall as MCP tools. One Python
process, one asyncio event loop; one `OPNsenseClient` and one
`PendingOperationStore` are made at startup and shared by every MCP session (one
over stdio, many over streamable HTTP). Tool calls are coroutines: they interleave
at their awaits and nowhere else. Nothing is persisted by the server; what lasts is
on the firewall.

| Component | State | Operations | What makes it correct |
|---|---|---|---|
| Confirmation store (`confirmation.py`) | `_pending`: token -> operation with a deadline | `create`, `consume`, lazy `_evict_expired` | tokens are single-use, bound to tool and arguments, dead at the deadline; no call costs another its token; dead entries do not pile up |
| High-risk gate (`highrisk.py` and the tools that use it) | none of its own | `run_high_risk`: preview, or consume and execute | one request per confirmation at most, as previewed; previews have no effect; the audit records correlate |
| Certificate revocation (`trust.py`) | local to the coroutine | look up, gate, read CRL, write CRL | nothing unconfirmed is revoked; the result is true of the CRL; revocations last |
| Zone disconnect (`captiveportal.py`) | local report | list, gate, list, one disconnect per session | the report is complete and says what the log says; the fan-out ends |
| Client, one exchange (`client.py`) | one log record per exchange | `get`, `get_list`, `get_text`, `post`, `log_preview` | what is logged is not taken back by what is still on its way; what took effect is known to somebody |
| Client, handle (`client.py`, `server.py`, `__main__.py`) | `_http` | `_client`, `__aenter__`, `__aexit__` | nobody uses a closed handle or one of a finished loop; shutdown forgets it |
| Stage-then-apply tools (`firewall`, `routes`, `dhcp`, `dns`, `ids`, `proxy`, `openvpn`, `ipsec`, `wireguard`, `captiveportal`, `interfaces`, `services`) | none; staged changes sit on the firewall | add, set, del, toggle, apply, start/stop/restart | apply covers what was staged, and only its own domain; toggles forced to a value converge |
| Configuration, startup (`config.py`, `__main__.py`) | `Config` | `load`, `from_env`, `from_toml`, `main` | the three ways to a configuration agree; TLS is used as told |
| Redaction (`redaction.py`) | none | `redact_private_keys`, `redact_rows`, `redact_wrapped` | what is dropped from a response is every key and nothing else |
| Tools that read, and tools that hold keys (`trust`, `openvpn`, `ipsec`, `wireguard`, `proxy` with redaction; the reads of all the others) | none; the objects are on the firewall | list, get, add, set, del; generate, issue and export keys; backup | no read shows a key; what a client was shown can be sent back without harm to the key; a key returned once arrives |
| Errors, validators, server wiring | none | | not modelled, see section 7 |

What is hard here: calls of several clients that interleave at awaits; requests
given up on that the firewall still carries out; a process that dies and takes the
store with it; lazy expiry; a read-modify-write without a lock; partial failure of a
fan-out; one handle shared by sessions that come and go; staged changes shared by
all; objects that are read without their keys and written back. `PROJECT.json` lists each of these under `hazards`, at its line, with the
properties about it.

Interactions: a tool calls `run_high_risk`, which calls the store (a step without an
await) and then the tool's `execute()`, which calls the client, which suspends. In
the models the store and the client are modules with actions that other modules
conjoin to their own; a conjunction is one step between two awaits.

## 2. Modules

    Dicts                          Python dicts as functions
    Confirmation  <--refines--  PendingOperationStore      store, clock, restarts
                                  StoreProofs              theorems about it
                                OPNsenseClient             one exchange
    ConfirmThenExecute <-refines- HighRisk                 store + client + eleven tools
                                  HighRiskProofs           theorems about it, on StoreProofs,
                                                           and the refinement
                                TrustRevoke                store + client + revocation
                                  TrustProofs              theorems about it, on StoreProofs,
                                                           and a refinement of ConfirmThenExecute
                                CaptivePortal              store + client + zone disconnect
                                  PortalProofs             theorems about it, on StoreProofs
                                StagedConfig               client + staging tools
                                  StagedProofs             theorems about it
                                Redaction                  the functions of redaction.py
                                KeyMaterial                client + redaction + tools that read
                                  KeyProofs                theorems about it
                                HttpLifecycle              the handle _http
                                  LifecycleProofs          theorems about it
                                Startup                    Config and main
                                  StartupProofs            theorems about it
    MC*                         instances of these for TLC

**PendingOperationStore.** `pending` is `_pending`. `Create`, `Consume` and `Reject`
are `create`, and `consume` when it returns and when it raises; each evicts what is
past its deadline first, as the code does, and is one step since neither method
awaits. `Tick` is the monotonic clock, `StoreRestart` the end of the process.
`issued` and `ledger` are history variables for the properties; they survive
restarts. A token is never returned twice by `secrets.token_urlsafe(32)`:
`t \notin DOMAIN issued` in `Create`.

**Confirmation** is the store as the documents describe it: an offer vanishes at its
deadline and a refused confirmation does nothing. `EagerSpec` says the lazy store
implements it under `offers <- Unexpired`.

**OPNsenseClient.** `Send` is a coroutine that posts and suspends; `wire` holds what
was sent and not yet processed, `replies` what is on its way back. The outcomes are
those of `post` (`client.py:179-217`), the same in `get` and `get_list`: `Succeed`,
`BodyIsNoJson` (a 200 logged as success whose `.json()` raises), `Refused` (an error
status), `ConnectFails` (the request never leaves), `ReadTimesOut` (logged as a
timeout; the request stays on the wire and may be processed at any later time), and
`Escapes` (an exception `client.py` does not catch, or cancellation: no record).
`Answer` is the firewall. Each outcome resumes the coroutine up to its next request
or its end in the same step.

**HighRisk.** `Preview`, `Confirm`, `RefuseToken`, `RefuseArguments` are
`run_high_risk` up to its first await, `Finish` the rest: what the tool returns is
the reply, and the stage of the call is what that says, "done" or "failed". The `Endpoint` tables say
what each of the eleven tools posts to. **ConfirmThenExecute** is the promise
without store, messages or clock: offered, taken once, carried out once or given up.

**TrustRevoke.** The calls' stages are the awaits of `trust_certificate_revoke`:
`LookUp` | `Preview`, `RefuseToken` or `Confirm` | `Write` | `Return`, and `Fail` at
each. The lookup comes before the gate, as in the code. Adding to the bucket of a
reason is a set union of pairs. A certificate no longer there is answered by `[]`
(`NotFound`), and `.get` raises AttributeError, the last disjunct of `Fail`; or by an
object without a `refid`, and then nothing is added. `Return` returns the reply to
the write as it is: "saved", or "failed" where the firewall's validation said so. `DeleteCert` is `trust_certificate_delete`.

**CaptivePortal.** `Describe`, `Preview`, `Confirm`, `RefuseToken`, then the loop:
`EntersLoop`, `Disconnected`, `DisconnectFails`, `Aborts`. The local variables of
the coroutine are in `job`. `Disconnected` is taken on every reply of status 200,
also on one that says that the session was not disconnected: the loop does not look
at it.

**StagedConfig.** Every tool that posts a change, an apply or a service action is an
element of `AllTools`, with its path, built by one definition per source region. A
call is `Post` or `RefuseArguments`, then `Finish`. `before` remembers what had been
acknowledged when the call was made.

**Redaction, KeyMaterial.** A JSON value carries its type, because `redaction.py` asks
for it (`isinstance`), and text is the call it comes from and whether it is key
material. A `Kind` is a controller of the firewall's API as a tool module uses it: its
path, the key its objects are wrapped in, the fields its reads drop, and which tools
there are; `Keyed` are the eight with secrets, `Unkeyed` the rest. A call is `Ask` (by
way of `Read`, `Add`, `Edit`, `Rotate` or `Delete`) or `RefuseUuid`, then `Finish`,
which returns `Returned(...)`: the response redacted as that tool redacts it, or an
AttributeError when the response is a list. `Edit` is a client that changes what a
get has shown it and sends all of it back. What the firewall calls its wrappers and
its key fields (`Wrapper`, `KeyFields`) is stated apart from what the tools take them
to be (`kind.wrapper`, `kind.secrets`). `seen` is a history variable: the objects as
they were while a call ran.

**HttpLifecycle.** Handles are numbered as they are made. The MCP SDK runs the
lifespan once per session, and `__aexit__` awaits `aclose()` between reading `_http`
and setting it to None: `BeginExit`, `EndExit`.

**Startup.** Text is opaque: what `float()`, `int()` and `lower()` make of it is a
parameter, given for the edge cases in `MCStartup`; `DefaultsAssumption` says it of
the five texts that `from_env` defaults to. `LoadConfig` and `RejectConfig` are
`Config.load` with `__post_init__`; the rest is `main`.

The definitions whose comment starts with "Mutation of" are deliberately wrong variants of the one
they name. They are part of no specification; each shows that a property notices
that mistake (`mutants` in `PROJECT.json`).

## 3. Assumptions about what is outside `src/src`

- The firewall processes each request at most once, at any time after it was sent,
  in any order, or never. Whether it carries a request out or not, it may answer with
  an error status or with a body that is no JSON.
- A reply of status 200 with a JSON body says whether a POST was carried out. A change
  that fails validation is such a reply that says so: this holds of the POSTs of the
  high-risk tools, revocation and disconnects as of all others. The tools return it
  as their result (the zone disconnect drops it), and the client logs it as a success.
- `trust/crl/set` replaces the CRL it names; `captiveportal/session/disconnect` ends
  the session it names.
- An apply, reconfigure or restart puts in force everything saved for its module
  (for `firewall/...`, its controller).
- A toggle endpoint with a value sets it, without one flips it.
- A search answers with a list of rows, all of one moment; a get with the object
  under the firewall's name for it, or with `[]` when there is none (for the certificate and
  the CRL of a revocation also with an object that lacks the fields asked for, which
  `trust.py:113-115` and `:123` provide for by their defaults); a set merges the
  posted fields into the object, and looks for them under its own name for it only.
  These names and those of the key fields (`Wrapper`, `KeyFields` of `KeyMaterial`)
  are from the documents of OPNsense's API, not from the tools.
- An issued key is kept by the firewall, or, with location "local", is in the reply
  and nowhere else. A generated key is in the reply only.
- httpx breaks requests whose client is closed under them, and refuses new ones.

## 4. Runs

| Run | Question | Instance |
|---|---|---|
| `MCPendingOperationStore` | is the store single-use, exact, tidy, and is its laziness invisible? | 3 tokens, 2 tools, 2 arguments, TTL 2, clock to 4 |
| `MCHighRisk` | is a confirmation worth one request at most, as previewed, and are result and log true, under timeouts, late effects, restarts and failures reported with status 200? | 4 calls, 2 tokens, 2 tools with 4 operations, TTL 2, clock to 3 |
| `MCTrustRevoke` | does the gate hold across three awaits; does the result say what became of the write; can interleaved read-modify-writes revoke what nobody confirmed? | 2 certificates, 1 CA, up to 4 calls and 2 tokens, see below |
| `MCCaptivePortal` | is the report complete, does it say what the log says, does the token buy only its zone, and does a fan-out end? | 2 zones, 2 sessions, 2 calls, 1 token, with fairness |
| `MCKeyMaterial` | does a read show all but the keys, of one moment; can an edit undo a rotation; does a key returned once arrive? | 3 calls about one of 5 kinds of objects or the backup, see below |
| `MCHttpLifecycle` | who uses which handle, and is it forgotten? | 3 sessions, 3 requests |
| `MCStagedConfig` | do applies cover what they should and no more; do toggles converge? | all tools, 2 calls |
| `MCStartup` | do `load`, `from_env` and `from_toml` agree, and is TLS what the source that counts says? | one telling setting beside the required ones, in each source |
| `MCHighRiskUnlogged` | violated: "every OPNsense API call is logged" | 3 calls |
| `MCTrustRevokeLost` | violated: "This cannot be undone via this tool" | as `MCTrustRevoke`, no clock |
| `MCCaptivePortalAbort` | violated: partial failure "must be reported per-session" | 1 zone, 2 sessions, 2 calls |
| `MCHttpLifecycleBroken` | violated: "multiple clients to share a single server instance" | 2 sessions, 1 request |

Bounds, and why they are enough:

- *Tokens, calls.* The properties relate at most two requests, records or tokens.
  Two tokens and four calls let two operations be previewed and confirmed at the
  same time, or one token be presented three times. Three tokens in the store run
  leave one that neither call of a pair is about.
- *Clock.* `TTL` of 1 or 2 ticks and `MaxTime` one to two ticks beyond: calls
  before, exactly at and after a deadline. Where the clock is fixed at 0 the
  question is not about expiry.
- *`OneTokenOrFewFailures`* (`MCTrustRevoke`): explored are all behaviours with one
  token, three calls, the clock and every failure; and those with two tokens and four
  calls in which no certificate is deleted and no step follows a second failure, be it
  an error or a reply that reports one.
- *`TokensWereIssued`* (`MCTrustRevoke`): what a call presents as its token was issued
  to somebody. It may be spent, of another certificate, past its deadline, or of a
  process that is gone, whose store knew it; a token nobody ever saw cannot be guessed.
- *`Related`* (`MCStagedConfig`): two calls of one domain, or of rules and NAT, the
  two domains with a common module of the firewall. Other domains touch no common
  state in the model: by their paths, which is a lemma of `StagedProofs`
  (`UnitIsDomain`).
- *`OneKind`, `FewFailures`, `ThirdEdits`* (`MCKeyMaterial`): the calls are about
  objects of one kind, besides the backup, since kinds meet in no object; one call
  fails at most; and of three calls one sends back what another was shown. The kinds
  are few, between them one of each shape (one secret field, two, none; generated,
  issued, exported, not deleted): that the others do as well is a theorem for all
  kinds.
- *Zone disconnect.* Two calls, one to preview and one to confirm, with users that
  come and go: three lists of sessions that differ. Several fan-outs at a time are
  covered by the theorems of `PortalProofs`.
- *Startup.* Settings are converted one by one, so one unusual setting at a time,
  in either source or both, reaches every branch of each conversion.
- *Symmetry* is over calls, tokens and certificates, which are only compared; the
  run with a liveness property has none.

`CHECK_DEADLOCK FALSE` is set for `HttpLifecycle` and `Startup`, where the process
ends or every session has left, and nothing is to happen after it. Elsewhere a step
(a restart at the least) is always possible.

## 5. Fairness

Only `FairPortalSpec` has any, for `FanOutsEnd`: weak fairness of `TimerFires(c)`, the read timeout of a
suspended request (`client.py:39-44`, `read_timeout` is validated to be positive).
Neither the firewall nor callers nor the clock are fair. Writing a request and
waiting for a connection of the pool have no timeout in the code; the model takes a
suspended request to be waiting for its reply.

## 6. What is proved

For every value of the constants that satisfies the named assumptions of the
modules (`TTLAssumption`: the TTL is a positive natural number; `MaxTimeAssumption`;
`ToolAssumption`, `ArgsAssumption`, `OpAssumption`: the operations called for are of
known tools; `IssuerAssumption`, `RevokedAssumption`: every certificate has an issuer
and the CRLs start with revocations; `OfferedAssumption`,
`MalformedAssumption`, `OldAssumption`; `NoneAssumption`, `StatusAssumption`: None is
no handle, no call and no status; `NotFoundAssumption`: `[]` is not None; `DefaultsAssumption`: `float("60.0")` is 60 and so
on for the other default texts, nan is no port, and no https:// url is empty):

| Module | Theorem | Statement |
|---|---|---|
| `StoreProofs` | `TypeCorrect` | `StoreSpec => []StoreTypeOK` |
| | `TokensAreSingleUse` | `StoreSpec => []SpentOnce` |
| | `ConfirmationsRepeatPreviews` | `StoreSpec => []SpentAsIssued` |
| | `CallsKeepTheOffersOfOthers` | `StoreSpec => OfferIsKept`, of every step |
| | `NoDeadEntries` | `StoreSpec => CallsEvict`, of every step |
| | `LazyExpiryIsEager` | `StoreSpec => EagerSpec`, the refinement of `Confirmation` |
| `HighRiskProofs` | `LayerTypeCorrect` | `HighRiskSpec => []HighRiskTypeOK` |
| | `ConfirmationsBuyOneRequest` | `HighRiskSpec => []OneRequestPerToken` |
| | `RequestsArePreviewed` | `HighRiskSpec => []RequestsAsPreviewed` |
| | `NothingBeforeConfirmation` | `HighRiskSpec => []PreviewsHaveNoEffect` |
| | `RecordsCorrelate` | `HighRiskSpec => []ExecutionsCorrelate` |
| | `WhatIsReportedIsTrue` | `HighRiskSpec => []ReportsAreTrue` |
| | `ThePerformedIsLogged` | `HighRiskSpec => []PerformedIsLogged` |
| | `LayerKeepsTheStore` | `HighRiskSpec => OfferIsKept /\ CallsEvict /\ EagerSpec` |
| | `LayerKeepsPromise` | `HighRiskSpec => PromiseSpec`, the refinement of `ConfirmThenExecute` |
| `TrustProofs` | `TrustTypes` | `TrustSpec => []TrustTypeOK` |
| | `ConfirmationsBuyOneWrite` | `TrustSpec => []OneWritePerToken` |
| | `ResultsMeanWhatTheySay` | `TrustSpec => []ResultsAreTrue` |
| | `OnlyConfirmedAreRevoked` | `TrustSpec => []RevokedOnlyIfConfirmed` |
| | `WritesDropNothingRead` | `TrustSpec => WritesKeepWhatTheyRead`, of every step |
| | `RevocationsKeepThePromise` | `TrustSpec => Promise!Spec`, again of `ConfirmThenExecute` |
| | `TrustKeepsTheStore` | `TrustSpec => OfferIsKept /\ CallsEvict /\ EagerSpec` |
| `PortalProofs` | `PortalTypes` | `PortalSpec => []PortalTypeOK` |
| | `ReportsAreComplete` | `PortalSpec => []ReportIsComplete` |
| | `TheReportAgreesWithTheLog` | `PortalSpec => []ReportAgreesWithLog` |
| | `ConfirmationsBuyOneFanOut` | `PortalSpec => []DisconnectsAsConfirmed` |
| | `PortalKeepsTheStore` | `PortalSpec => OfferIsKept /\ CallsEvict /\ EagerSpec` |
| `StagedProofs` | `StagedTypes` | `StagedSpec => []StagedTypeOK` |
| | `AppliesCover` | `StagedSpec => []AppliesCoverAcknowledged` |
| | `NothingRunsBeforeAnApply` | `StagedSpec => []NothingRunsUnapplied` |
| | `ForcedTogglesAgree` | `StagedSpec => []ForcedTogglesConverge` |
| `KeyProofs` | `KeyTypes` | `KeySpec => []KeyTypeOK` |
| | `NoReadShowsAKey` | `KeySpec => []ReadsHideKeys` |
| | `OnlyRotationChangesKeys` | `KeySpec => KeysChangeByRotation`, of every step |
| | `EveryReadIsASnapshot` | `KeySpec => []ReadsAreSnapshots` |
| | `OneShotKeysGoToTheirCallers` | `KeySpec => []OneShotKeysArrive` |
| `LifecycleProofs` | `HandlesTypeCorrect` | `LifecycleSpec => []LifecycleTypeOK` |
| | `StartupHandleIsUnused` | `LifecycleSpec => []StartupLoopIsLeft` |
| | `ClosedHandlesAreForgotten` | `LifecycleSpec => []ClosedIsForgotten` |
| | `ShutdownLeavesNoHandle` | `LifecycleSpec => []ShutdownForgets` |
| | `OneSessionIsSafe` | `LifecycleSpec => []RequestsOfOneSurvive` |
| `StartupProofs` | `ConstructorsAgree` | `StartupSpec => []LoadAgrees` |
| | `NoClearTextAndNoSilentTrust` | `StartupSpec => []TlsUnlessToldOtherwise` |

*Store.* `SpentOnce` is not inductive: a second `Consume` of a token is impossible
because the first deleted the entry and no `Create` brings it back. The inductive
invariant `StoreInv` therefore adds to the type invariant that what is pending is
exactly what was issued (`PendingAsIssued`), that a spent token is no longer pending
(`SpentIsGone`), and that nothing was issued with a deadline further than `TTL` from
now (`IssuedInThePast`, needed for the bound in `SpentAsIssued`). For the refinement
every action maps to the abstract action of its name, `Reject` to a stutter, and
`Tick` to the step that drops the offers whose deadline it reaches. Freshness of
tokens, across restarts too, is a guard of `Create`.

*Layer.* Every step of `HighRisk` is a step of the store or leaves it alone
(`StepsOfStore`), so `StoreInv` carries over, and so does everything proved of the
store alone (`LayerKeepsTheStore`; likewise for revocations and zone disconnects,
where `StepsOfStore` needs the invariant, since it is the coroutine's memory that
says what a resumed call hands to the store). `HighRiskInv` adds that each request's
token is in the ledger (part of `RequestsAsPreviewed`): since what is in the ledger
is not pending and only what is pending is consumed, a confirmation sends under a
token no request carries yet (`ConfirmSends`); every other step sends nothing
(`NothingSent`). In the refinement, a request that leaves the wire takes its
operation out of what is due because no other request carries its token
(`OffTheWire`).

*Audit log.* None of the four properties of the log is inductive by itself: a record
is written when a reply is there, and what it says of the firewall was decided when
the request was processed. `AuditInv` ties the stages together: a call awaits the
request its confirmation allows (`AwaitedAsConfirmed`), requests and records belong
to calls that have made them (`RequestsOfCalls`, `RecordsOfCalls`), every token that
was issued has its preview on record (`IssuedAreLogged`), what a reply says of its
request is so and the request is off the wire (`RepliesAreTrue`), and no request is
both on the wire and carried out. "Failed" is for good because a call has one request
and, once answered, that is not on its way any more. `ReportsAreTrue` does not claim
that a "success" in the log was one: it is the record of a status (section 8).

*Revocation.* `TrustInv` has, for each call, what its coroutine knows at its stage:
past the gate, that its token is spent on the certificate and reason it holds
(`SpentBy`); what it read, that every entry was there at first or is confirmed, and
is in the CRL of its issuer (`Lawful`). A write is determined by its call, and a call
past the gate by its token (`OneCallPerToken`), whence one write per token. `Lawful`
CRLs stay lawful when a stale one is written back, which is why interleaved
read-modify-writes lose revocations (section 8) and never invent one. What the result
says is so by `AnswersInv`: a request that was answered is off the wire, and if the
reply said "failed" it was not carried out, then or later. The tool also
implements `ConfirmThenExecute`, under a mapping of its own: what is due is what was
confirmed and no write has been carried out for, so that a step which loses a call
between its awaits is none of the promise. A confirmation takes what was not done
before because a spent token is out of the dict (`ConfirmTakes`), and a write that
arrives was made for something confirmed (`WritesAreConfirmed`). No run has this
refinement among its properties.

*Zone disconnect.* `PortalInv` is the invariant of the loop: what was listed is what
is still to do, the two columns, and the session whose request is awaited, all
disjoint (`Settled`, `AwaitingInv`). A column is entered for the awaited session
alone, in the step that writes the record of its request; `ReportInv` says so of each
session in a column, and that the first column's requests are off the wire, since
their replies had come. What those replies said is in neither. With `OneCallPerToken` as above, a disconnect is determined by its token
and its session.

*Staging.* First the tools: each is `Known`, constructor by constructor and domain by
domain. The path it posts to says which unit of the firewall it is about, one unit
per domain and one domain per unit, and whether it applies, stages or toggles. Then
the calls: `Done(c)` is what a call that is told "saved" may count on: its change is
in the configuration; what it had seen acknowledged in its domain is in force; the
value its like agree on is the current one. It holds from the moment the request of
`c` is carried out (`CarriedOutIsDone`), a reply "saved" comes from nowhere else, and
no request carried out later takes it back (`CarryOutKeepsDone`).

*Keys.* Nothing that is claimed of a result is inductive, because a result was a reply,
a reply was made from the objects of the firewall, and their fields came in requests
that may repeat what an earlier result showed. Three invariants follow a field around
that circle. `KeyInv` says at each place which fields may hold key material: those of
`KeyFields`, which for every kind of `Keyed` are those the code drops. `OriginInv` says
whose it may be: objects and posted fields hold keys only of calls that are not
one-shot (`Storers`), a response shows to `c` keys of such calls and of `c` alone
(`Owned`), and the reply to a one-shot call has its key (`Delivered`). What a read shows
goes into the next write, so `EditOrigin` needs that redaction adds nothing
(`RedactedShowsLess`) and that what an edit sends was heard in a call that was made.
`TablesInv` says that the table is among those seen by a call as long as the call
awaits (`SeenInv`), and that every reply and every result is what one of those tables
says of the kind (`ShowsTable`): the rows are a sequence as long as there are objects
and with just those as elements, first whole, then without the hidden fields. The
number of rows needs that there are finitely many objects (`FieldsInv`). Both rest
on two lemmas about all the kinds of the code: each has the wrapper the
firewall uses (`WrappersAgree`), and its reads drop the fields the firewall keeps keys in
(`CodeKnowsTheKeys`).

*Handle.* `LifecycleInv` adds which phases of the sessions go with which handle:
the startup handle is out of `_http` once a session has entered (`StartupIsOver`),
requests fly only while their session is in (`RequestsBySessions`), and handles are
closed by sessions that leave (`ClosedByLeaving`).

*Startup.* The invariant `ConfigInv` says that a loaded `Config` is still what the
sources made it, and was valid. Then each constructor is compared setting by setting:
`from_env` defaults to texts where `load` defaults to values, and converting the one
gives the other (`DefaultsAgree`); `from_toml` asks for two keys that `load` defaults
to the empty string, which validation refuses (`RequiredKeys`). For TLS it is enough
what `load` makes of `verify_tls` when the environment has it and when it has not.

Only model-checked: liveness (`FanOutsEnd`), since fairness and ENABLED are beyond the
prover. Every other property of a passing run is the subject of a theorem.

## 7. Not modelled

- Error texts (`errors.py`), the patterns of `_validators.py` (the sets of accepted
  strings are parameters), tool registration.
- Reads that concern no object: the status of services and of the firmware, the list
  of backups, the lookup helpers (`firewall_alias_get_uuid` among them); and
  `system_firmware_check`, a POST that changes nothing later calls depend on. Each is
  an exchange with nothing around it, as `OPNsenseClient` has it.
- Toggles of objects with keys are in `StagedConfig` and not in `KeyMaterial`: they
  post no body. The builder of WireGuard peers is an add like any other.
- Bodies of error replies, and of requests where no property tells them apart;
  wording and timestamps.
- httpx's connection pool and the MCP SDK, beyond what section 3 says.

## 8. Disagreements between the code and what is said of it

Shown by a run:

1. `EveryCallIsLogged`. `client.post` catches `ConnectTimeout`, `ReadTimeout` and
   `ConnectError`. After a `ReadError`, a `RemoteProtocolError` or a cancellation the
   firewall may have acted and there is no record (README.md:279).
2. `RevocationsStay`. The CRL is read, changed and written back whole; of two
   interleaved revocations under one CA the later write undoes the earlier
   (`trust.py:118`, "This cannot be undone via this tool").
3. `PartialFailuresAreReported`. A reply that is no JSON ends the fan-out and its
   report (contracts/captiveportal.md:74-75).
4. `RequestsSurvive`. `__aexit__` closes whatever handle is in `_http`, under the
   requests of other sessions, and leaves it there until `aclose()` is over: requests
   started on it meanwhile fail too (README.md:170).

Met while modelling, visible in the definitions, without a run of their own:

- `trust_certificate_revoke` and the zone disconnect send a GET when they preview
  (`LookUp`, `Describe`); README.md:100 says a preview makes no request. For the
  zone, contracts/captiveportal.md:71 says the contrary of the README.
- The token is spent before `execute()`; a revocation whose CRL read fails has sent
  nothing (`Fail` after `Confirm`), while contracts/confirmation.md:49-50 says the
  request is sent exactly once.
- A reply of status 200 that reports a failure is logged as "success"
  (`client.py:207-208`; `Succeed`), in every tool.
- The zone disconnect looks at no reply: a session whose disconnect failed with status
  200 is listed under `disconnected` (`captiveportal.py:127-132`; `Disconnected`),
  while the tool "reports per-session success/failure" (`captiveportal.py:107-108`).
- The revocation of a certificate, or under a CRL, that is not there ends in an
  AttributeError that nothing translates when the firewall answers `[]`
  (`trust.py:113`, `:123`; `Fail`), after the lookup was logged as a success.
- `confirmation.py:71` compares arguments by Python's `==`, for which True, 1 and 1.0
  are equal; the models compare by identity, so a token issued for one of these is
  refused for another where the code accepts it.
- A session that enters while another leaves puts its handle into `_http`, and the
  one that leaves forgets it unclosed (`EndExit`).
- `log_preview` is given the arguments and does not log them (`PreviewRecord`);
  contracts/confirmation.md:59-60 lists them.
- `system_config_restore` is bound to a host that is not part of the request
  (`SystemEndpoint`, `Path`).
- `__aenter__` overwrites `_http`; the handle of the startup check is never closed
  (`Enter`).
- `OPNSENSE_CONFIRM_TTL=nan` passes validation (`AtMost`, `Validated`), and no
  deadline computed from it is ever reached.

## 9. Plan

Done, in this order: store, its refinement and proofs; the exchange; the gate, its
promise and proofs, and those of its audit log; revocation and proofs; zone
disconnect and proofs; the handle and proofs; staging tools and proofs for all of
them; redaction with the tools that read and hold keys, and proofs, up to whose keys
they show and of which moment; startup and proofs; the store's theorems under each
of the three components that drive it; revocations as a refinement of the promise.

Next:

1. Zone disconnects as a refinement of what their contract promises, an operation
   carried out in parts, as `ConfirmThenExecute` is for the layer and revocations.
2. httpx's pool, so that the wait for a connection is part of `FanOutsEnd`.
