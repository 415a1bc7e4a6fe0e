# Verification of lotor-go

TLA+ models of the stateful parts of the lotor-go SDK, model-checked with TLC on
small instances, with safety theorems proved by TLAPS for every value of the
constants. `PROJECT.json` lists the components, the runs, the theorems, the
hazards each property answers, and for every definition the source lines it
models.

## The system

lotor-go is a client and server SDK around an external service (Control) and an
external runtime (lotord).

| Part | Source | State it keeps | What happens at the same time |
|---|---|---|---|
| Function bridge runtime | `bridge/runtime.go`, `validation.go`, `protocol.go` | none beyond a request; the journal | requests on any number of replicas, expiry, callers leaving, crashes |
| Execution journal | `bridge/sqlstore/postgres.go` | one row per operation | statements of all replicas; statements whose client saw an error |
| Function bridge client | `bridge/client`, `bridge/transport` | none | retries with renewed grants, lost and repeated messages |
| LWP connection | `lotor/client.go` | `nextID`, `pend`, `subs`, `closed` | callers, one reader, event handlers, timeouts, a breaking connection |
| LWP wire format | `lotor/wire.go` | the reader's buffer | the connection cuts the bytes anywhere |
| Owner routing | `lotor/ownership.go` | the cached assertion, the keys, one mutex | calls that share a resolver while ownership moves and assertions expire |
| Development connector | `bridge/development/connector.go` | slots, active requests, the lease | reader, heartbeat, one goroutine per request, several generations |
| Payload custody | `bridge/custody.go`, `resource.go`, `workload.go` | a key buffer and its mutex | goroutines that keep a cipher, commits, rewraps, expiry |
| Gateway assertions | `lotorhttp/gateway_assertion.go` | the replay store | replicas with skewed clocks, repeated requests, a failing store |
| Lifecycle gateway | `lotorhttp/handler.go`, `runtime.go`, `control.go` | the session store | browser retries, renewed sign-ins, lost answers, moves |
| Browser adapter | `lotorhttp/browseradapter` | cookies in the browser | overlapping requests of several tabs |
| Control and resource clients | `lotorhttp/control_client.go`, `resource_client.go`, `resource_links.go` | none; tokens, keys and fences in the callers' hands | callers that change one resource, requests that arrive late or twice, lost and mixed-up answers |

They meet in five places, each a composed model: the bridge client with the
runtime and its journal (`BridgeInvocation` extends `BridgeRuntime`, which
extends `ExecutionJournal`); the lifecycle gateway with the owner routing
(`LifecycleGateway` extends `OwnerRouting`); custody with the payload
operations of the Control client (`PayloadCustody`); the wire format with the
read loop (`WireFrames`, which `MCLwpConnection` checks beside the connection);
and the two kinds of change to a resource, by token and by fence, which make
each other's preconditions stale (`ResourceControl` extends `DurableOperations`,
which extends `ResourceCommits` and `ControlRequests`).

## Modules

**BridgeProtocol, ExecutionJournal, BridgeRuntime, OnceOnly.** A request is a
program counter through `Runtime.ServeHTTP`; a step is the code between two
points where another goroutine, the database, the clock or a crash can come in.
`ExecutionJournal` has the SQL statements of `Reserve` and `Complete` with their
conflict and where clauses. A statement that reports an error may have
committed, may commit later (`LateCommit`) or never. A digest is the record it
is taken of; the semantic digest leaves out the two times. `OnceOnly` is the
abstract ledger: one digest per operation, at most one run, at most one result.

**BridgeInvocation.** `Client.Invoke` with a network that loses, repeats and
damages messages, and with two clocks.

**LwpConnection, RequestReply.** `do`, `readLoop`, `dispatchEvent`, `Watch`,
`Unwatch`. Calls are numbered in the order of their registration; the wire carries
the number modulo `IdSpace`, which stands for 2^32. `RequestReply` is what `do`
promises its callers: a call ends once, a response ends at most one call, and it is
the call's own or that of a call `IdSpace` or more before it. The server may also
push an event frame with fewer than two arguments (`Short`), which `dispatchEvent`
drops; each handler runs in its own goroutine (`HandlerRuns`), in any order.

**WireIntegers, WireFrames.** The codecs as operators, every value kind included,
and the read loop's buffer as a function of the pieces in which the bytes arrive; no
state. `GarbledTypes` tells which streams some cut spoils. A byte has `GroupBits + 1`
bits and an integer `Width` bits, in the proportions of 7 and 64. `WireIntegers` has
the conversions of single integers, which are not recursive and can be proved about.

**OwnerRouting.** `Resolve`, `Invalidate`, `acceptMoved`, `DialOwned` and
`WithOwnerRetry`; the resolver's mutex is held over its fetches, as in the code.

**DevelopmentConnector, DevelopmentLease, RelayedRequests.** The first has `Run`, `Connect` and
the request goroutines without clock times; the second has the heartbeat
goroutine with integer time. They are separate because the heartbeat meets the
rest in one place only: it ends the generation (`HeartbeatEnds`).
`RelayedRequests` is the connector as the relay sees it: each request handled at most
once and within the capacity, each response to the request that is waited for, no
application code left running untold when the connection is lost.

**PayloadCustody, KeyLease.** `WithPayloadCustody`, `WithResourceKey`, `EncryptValue` and
`OpenPayload`, while writers upload and commit versions and the payload key is
rewrapped. `live[i]` stands for "the context is not done and the grant has not
expired"; `overtime[c]` counts the results that the cipher of a call returned after
that. `KeyLease` is the promise about the key alone: one stretch of time in
memory per call, one goroutine at a time, never cleared under its hands, never back.

**GatewayAssertion.** `Verify` and the middleware, with the replay store's
contract as the comment on `GatewayAssertionReplayStore` gives it.

**LifecycleGateway, KeyedCommands.** `accept` and `cancel` from the request checks
to the response. `KeyedCommands` is what they promise a browser: one effect with one
argument for each user, operation and key, and true answers; no session, owner or
retry appears in it. `ok` is read as "carried out": an outcome that the runtime
denies (no seats, say) is recorded under the key and answered with status 200 too.

**BrowserAdapter.** The cookies that each route reads, sets and clears, and the
session that the remote side has at the same time. Pages keep the CSRF values they
have read (`read`) while other tabs sign in and out. A capability cookie has the
path that the adapter derives from the preflight's URL, and the browser sends
it with the requests below that path. `last` is the request whose answer set or cleared the
session last.

**ControlRequests.** One request of `ControlClient` or `ResourceClient`:
`asked[c]` until Control has handled it, `reply[c]` until `request` has returned.
`Returns` has the four ways to end: success, a `ControlError`, an answer that
breaks off or cannot be decoded, and a failed `Do`, after which the request may
still arrive (`late`). `Replayable` is net/http's own repetition of a request.

**ResourceCommits.** Changes by preflight and commit: `PreflightExecution`,
`ProtectProviderRequest`, `CommitExecution` and `OpenProviderResponse`;
`SendResourceLinks` and `CommitResourceLinks`; `BeginResourcePayloadUpload` and
`CommitResourcePayload`. `job[c].doubt` and `job[c].risked` record what the
caller can and cannot know: a commit ended without a verdict, and a new
preflight was made all the same.

**DurableOperations.** `MoveResource`, `DisableResource`, `RestoreResource` and
`DeleteResource` with their key and fence, and the loop of `WaitForOperation`.

**ResourceControl.** The two together on one resource. Control is external: its
actions are what the clients rely on and what the repository's README says of
tokens, fences and idempotency keys (lines 265-284, 313 and 393-397). It may
refuse anything, and may mix up the answers to executions, which is what the
clients' comparisons are for.

`OnceOnly`, `RequestReply`, `KeyedCommands`, `RelayedRequests` and `KeyLease` are
abstract specifications. Each detailed module instantiates its own with a refinement
mapping (`Abstract`, `Promise`, `Lease`) and names the implementation `Implements...`.

Modules named `MC...` fix constants for TLC; modules named `...Proofs` hold
the theorems. Three of these are about more than one module: `BridgeProofs`
(runtime, journal and client), `DevelopmentProofs` (connector and lease, whose
specification is `LeaseSpec`) and `LifecycleGatewayProofs` (gateway and routing).

## Runs

Model sizes are distinct states; every run takes under five minutes on two
cores.

| Run | States | Bounds | Shows |
|---|---|---|---|
| `bridge_runtime` | 269,008 | 2 requests; 4 grants for one operation: original, renewed, other content, challenge; clock to 2 | at most one run per operation, durable answers, honest refusals, refinement of `OnceOnly`, every request ends, and what ran is recorded unless the process or the database fails |
| `bridge_invocation` | 1.09 million | 2 calls, 2 deliveries, clocks one apart | results given to two callers agree; a definite error means no effect |
| `lwp_connection` | 1.05 million | 4 requests over 2 ids, 1 event and short event frames; streams of 2 frames, every cut | refinement of `RequestReply`, the reader never blocks, frames are dispatched intact, only early events are missed, every written call ends |
| `lwp_missed_event` | violation | 2 requests, 2 events | the finding below |
| `owner_routing` | 2.35 million | 2 calls of 2 commands, 2 instances, 3 epochs, clock to 3 | a retry advances, only a prefix repeats, assertions are fresh when dialled |
| `development_connector` | 273,169 | 3 requests over 2 ids, 2 slots, 2 generations, 1 unread frame | refinement of `RelayedRequests`, slots balance and return, cancels hit their request |
| `development_lease` | 68,243 | leases to 10, clock to 30 | the connection ends with its lease |
| `lifecycle_gateway` | 235,276 | 2 requests sharing a key, six pairings | refinement of `KeyedCommands`, applied once, refusals without effect, every request answered |
| `gateway_assertion` | 1,518 | 3 requests, 6 assertions, skew 1 | served once through the expiry; repeats carry a key |
| `browser_adapter` | 522,659 | 3 requests, 2 sign-ins, 2 paths | cookies of one sign-in; a page acts in the session it has read and with tokens of its path; browser and remote side disagree only for a lost, refused or late answer |
| `payload_custody` | 594,335 | 2 calls, 2 invocations, 1 goroutine, 2 writers, 2 versions, 2 key versions | refinement of `KeyLease`; a cipher serves its own call, and one result at most comes after its invocation; values opened are of the planned version |
| `resource_control` | 821,432 | 2 callers (an execution or links; an execution with the same or another body, a payload or a lifecycle change), 3 tokens of which 2 of a kind, 2 polls | refusals mean nothing applied, once per intent, responses opened are the caller's own, waits end with the operation's end, every call whose requests are answered returns |

Why the bounds are enough to be interesting: each hazard needs two actors, so
there are two requests, calls or writers everywhere; a renewed grant and a
conflicting one are both present; ownership moves away and back within three
epochs; request ids go round while an answer is late; two generations of the
connector overlap, with a third request to reuse an id; the third assertion
request meets a store that has forgotten; three tokens are enough for one caller to
start over while another change makes its first preflight stale, and two polls for a
wait that goes on and one that runs out. Where a run is narrow the theorem is not:
`development_connector` has one unread frame on the wire, so that a cancel never
waits behind a request, and `payload_custody` one goroutine, while
`DevelopmentProofs` and `PayloadCustodyProofs` hold for any number of either.
`DispatchedIntact` takes every two frames that follow each other on the connection
of `lwp_connection` for every two wire frames of their types, with each kind of
value and every cut. Symmetry is used in runs without liveness only. Deadlock is not checked: every model has a bounded number of
requests and comes to rest.

Each property has a mutant in `PROJECT.json`: a plausible wrong version of one
mapped definition with which TLC finds the property violated.

## Fairness

* `BridgeRuntime.FairSpec`: weak fairness of each request's goroutine. The calls
  to Control, `Reserve` and `Complete` run under deadlines; a handler is assumed
  to honour its context. The database, the callers and crashes get no fairness.
* `LwpConnection.FairSpec`: weak fairness of the callers whose request is
  written; the five-second timer is what makes `EveryCallEnds` true whatever the
  reader and the server do. `conn.Write` has no deadline in the code, so nothing
  is assumed of it and nothing is claimed for a call that is still writing.
* `DevelopmentConnector.FairSpec`: the reader, timers, writes and the deferred
  releases; a handler is fair only once its context is done.
* `LifecycleGateway.GatewayFairSpec`: strong fairness of a handler's steps,
  since the resolver's mutex is taken and released by others; a Go mutex does
  not starve a waiter.
* `ResourceControl.FairSpec`: weak fairness of a caller's goroutine once its
  request has been answered. Nothing is assumed of a request without an answer:
  `http.DefaultClient` has no timeout, so `EveryCallReturns` excuses a caller that
  stays in `Do`. Nothing is assumed either of the operation that
  `WaitForOperation` polls, nor of its context.

No liveness is claimed for `GatewayAssertion` (`Consume` has no timeout of its
own), `OwnerRouting` alone, `BrowserAdapter` or `PayloadCustody`.

## Finding

`lwp_missed_event`. The comment on `Watch` (`lotor/client.go:921`) says "handler
fires on each matching EVENT". The handler is stored (935-937) only after the
WATCH response has been handed to the caller; an event that the reader takes in
between finds no handler (896-901) and is dropped. `OnlyEarlyEventsAreMissed`
shows that this is the only way to miss one.

Smaller divergences met while modelling, not runs of their own:

* `README.md:306` of the repository says "event handlers run from the connection
  reader"; each one runs in a goroutine of its own (`client.go:900`), so a slow
  handler does not hold up the reader, and handlers may run out of order.
* `connector.go:175`, "Never let a heartbeat or renewal outlive the current
  lease": the authenticate write is bounded by its own ten seconds, not by the
  lease; `LeaseBound` states the bound that holds.
* `ownership.go:145`, Invalidate "after a MOVED response or connection failure":
  a failed dial to the owner named by MOVED (204-207) leaves it cached.

## Proofs

All proofs are checked by `tlapm` with no step left open. They hold for any
sets of requests, operations, grants and calls and any bounds. The assumptions
are the named `ASSUME`s of the modules: numbers are naturals (positive for the
durations and sizes that are positive in the code), `None` is not a member of the
sets it is added to, in `LifecycleGateway` a session has a first sign-in and
an operation is one command, and in `WireIntegers` the three powers of two are
related as they are for every width (the provers know no exponentiation; TLC
evaluates the assumption). Every safety invariant and action property of the
runs has a theorem, except `DispatchedIntact`, and so has every refinement. Each
theorem about a specification rests on an inductive
invariant, defined at the end of the module it is about and model-checked on the
instance of the run before it was proved.

* `BridgeProofs`, the runtime over its journal: type correctness, `AtMostOnce`,
  `AnswersAreDurable`, `RefusalMeansNoEffect`, that the journal is write-once,
  that a recorded success is real, that an incomplete row is accounted for, and
  that `Spec` implements `OnceOnly`. `AtMostOnce` is not inductive: it says nothing
  of a request about to enter the handler. `IInv` adds what is known at each
  location (`LocationInv`), that only one request holds an operation and its row
  carries that request's digest (`OwnershipInv`), that an owned row has no
  result and no late update of another (`PendingInv`), that what was read for a
  replay is what the journal has (`ReplayInv`), and the accounts of successes and
  of incomplete rows (`SuccessInv`, `AccountInv`).
* `BridgeProofs`, the client: the composition implements the runtime's `Spec`, so
  all of the above carries over; on top of it `CallInv` relates what a call was
  given to the row of its operation, from which `ReturnedResultsAgree`,
  `ReturnedSuccessIsReal` and `DefiniteErrorMeansNoEffect` follow.
* `LwpConnectionProofs`: `ResponseMatchesRequest`, `ReaderCanDeliver`, that the
  closing sweep reaches every waiting call, and `OnlyEarlyEventsAreMissed`.
  `ConnectionInv` says which calls can share an id (`Window`, `Spaced`), that the
  map and the reader's hand hold calls whose channel is empty (`Pending`,
  `Delivering`), and that a call without a frame can still be reached (`Waiters`).
  `WatchInv`, on top of it, says that events on their way belong to WATCH requests
  and that a Watch with its own watch id is about to store its handler, has it
  stored, or was undone by Unwatch. The action property needs it: when the reader
  finds no handler, only the first of the three is left.
* `LwpConnectionProofs`, refinement: `Spec` implements `RequestReply`.
  `ResponseMatchesRequest` alone allows one response to end two calls; `ExchangeInv`
  says that a response is in one place at a time, on the wire, in the reader's hand,
  in a channel or returned (`OnePlace`), that there is one copy of it (`SentOnce`,
  `OneHolder`), and that a call that has not returned took none (`OpenCalls`). As a
  corollary, `OwnResponse`: with no more calls than request ids each response is the
  call's own.
* `LwpConnectionProofs`, integers: `ZigzagInverse`, that the signed integers of every
  width go one to one onto the unsigned ones and back, so that the guards in the
  conversions never replace a value; `FieldsRoundTrip`, that a two-byte field of a
  header is read as written, whatever the size of a byte.
* `LifecycleGatewayProofs`, the routing: `RetryAdvances`, `OnlyPrefixRepeats` and
  `FreshWhenDialled`. `OnlyPrefixRepeats` only bounds how often a command took
  effect; `RoutingInv` counts exactly, for each call and command, from the next
  command, the number of dials and the command that was moved (`Counted`,
  `Progress`), ties the dials to the location (`Dialled`), and bounds the age of a
  fetch (`InTime`).
* `LifecycleGatewayProofs`, the gateway over the routing: `AppliedOnce`,
  `ConflictIsDeserved`, `RefusalMeansNothingDone` and `SessionsEndByVerdict`, and
  that the routing properties hold for the calls it makes. A gateway is not an
  implementation of `OwnerRouting`'s `Spec`, since the scope check resolves without
  dialling; so `GatewayInv` contains `RoutingInv` and each step is shown to keep it.
  It adds what the stage of a request says of its bearer (`StageInv`), who can have
  had an effect (`EffectInv`), and that the runtime's ledger has one entry for each
  effect and a request that wrote it (`LedgerInv`), from which a conflict is traced
  back to the earlier request.
* `LifecycleGatewayProofs`, refinement: `GatewaySpec` implements `KeyedCommands`. The
  abstract request is the bearer's user with the operation, key and argument
  (`Request`), fixed once the session was read. `TruthInv` is needed besides: a call
  that returned ok has executed its command, and a conflict found stays one.
  Every step of the routing leaves the abstract state alone except the
  execution of a command and the answer.
* `DevelopmentProofs`, the lease: `LeaseBound`, from `LeaseInv`: no timer and no
  deadline lies beyond the lease unless it is already due.
* `DevelopmentProofs`, the connector: `SlotsBalance`, `CancelHitsItsRequest`,
  `UnfinishedAreCanceled` and `ResponsesAreAwaited`. For the balance each
  goroutine is followed into and out of the set that is counted. The other three
  depend on the whole way of an identifier, which `ConnectorInv` follows: the
  active map holds exactly the generation's goroutines (`ActiveInv`), a live
  context belongs to a live generation (`ContextInv`), the relay waits for each
  unanswered request (`WaitingInv`), a request is over before the next with its
  identifier is taken (`SuccessionInv`), and on the wire a cancel lies between its
  request and the next with that identifier (`FramesInv`, `CarriedInv`,
  `CancelInv`). The same invariant gives that `Spec` implements `RelayedRequests`:
  the abstract phase of a request is read off its goroutine's location, a slot taken
  is capacity used, and the disconnect finds every handler told to stop.
* `GatewayAssertionProofs`: `ServedOnce`, that what was served is remembered, and
  `RepeatsAreKeyed`. `AssertionInv` keeps the store's entry until the clock has
  passed it; `PolicyInv` adds that whoever was served passed the replay rule and
  that the clock has not gone back since.
* `PayloadCustodyProofs`: `KeyLivesWithItsCall`, `CipherServesItsCall` and
  `OpenedAsPlanned`. `CustodyInv` says that a call has the key of its binding from
  `WithResourceKey` to the deferred clear (`CallInv`), that the binding is of the
  object of the planned version (`BoundAsPlanned`), which no later commit or rewrap
  changes (`PayloadInv`), and that a goroutine at work holds the mutex and has
  compared its operation with the binding (`RightfulUse`). `OvertimeInv` says
  that once a result has come after the end of the invocation the mutex is free, and
  so, since nothing passes the checks any more, no second one can. From
  `CustodyInv` also follows that
  `Spec` implements `KeyLease`, for any number of goroutines that share the copies of
  a cipher (the run has one).
* `BrowserAdapterProofs`: `CookiesOfOneSignIn`, `PagesActInTheirSession` and
  `DisagreementIsExplained`. The last speaks only of sessions on which the two sides
  disagree; `AdapterInv` accounts for every session the remote side keeps, also
  one the browser has (`LiveInv`), and adds that a sign-in was started by one
  request (`StartedOnce`) and that nobody used one whose answer is on its way
  (`PendingInv`), so that a late answer never brings an ended session back.
* `ResourceControlProofs`: `RefusedMeansNotApplied`, `OncePerIntent`,
  `OpenedIsItsOwn` and `WaitTellsTheEnd`, for any callers, bodies, tokens and
  attempts. None is inductive: they speak of callers at rest, and what breaks them
  is a request still under way. `ControlInv` says of each caller that its request
  is the one its place calls for (`Requested`), what a waiting answer guarantees
  (`Answered`), that its token is one of its own request (`Committing`), that
  nothing was applied for it unless it is in doubt or about to be told
  (`Accounted`), and that its operation has its fence (`Fenced`); and of each late
  request that its caller is in doubt, or that it carries the caller's key and
  fence (`Late`). A step of one caller touches nobody else's part
  (`CallerMoves`), and a step of Control only makes tokens and revision grow
  (`Grows`, `ControlActs`).

Only model-checked: all liveness (fairness and ENABLED are out of the prover's
reach), and `DispatchedIntact`, since the codecs of `WireFrames` are recursive
operators over sequences, which the prover can neither load nor do induction over;
only the integers beneath them are proved about.

## Abstractions a reader should know

* Signatures, digests and encryption are ideal: a value verifies, matches or
  opens exactly when it was made for the purpose.
* `BridgeRuntime`: refusals for path, method and media type are one code;
  `Complete`'s validation error is one of its failures; an INSERT may commit
  after the grant expired although its context would usually stop it.
* `LwpConnection`: `Unwatch`'s delete and the registration of its request are one
  step. An ERR frame without arguments is not sent by the modelled server, and one
  whose code is out of range, for which `do` returns a plain error and not an
  `LWPError` (`client.go:159-161`), counts as any other, since no operation of the
  module tells them apart. A closed connection, a timeout and a failed write are one
  kind of error.
* `DevelopmentConnector`: the deferred cancels of one generation are one step; the
  active map of a past generation is dropped, since only its own goroutines
  still touch it. `DevelopmentLease` assumes that timers fire on time.
* `OwnerRouting`: all assertions are for one scope. `LifecycleGateway` runs
  without the clock; expiry is covered by `owner_routing`.
* `BrowserAdapter`: the browser applies all cookies of one answer at once.
* `ResourceControl`: one resource; an answer of the 5xx range counts as a lost
  one, one of 3xx or 4xx as a refusal; the provider's response is bound to what
  the fingerprint names, as the associated data is; token expiry is one of
  Control's refusals. Each caller has one intended change.
* `PayloadCustody`: revision, generation and slot are constant, value paths are
  left out, and the custodian may hand out a cipher of another call.

## Not modelled, and why

The typed LWP operations, the remaining calls of the Control and resource
clients (link searches, `UnlinkResource`, collaborators, resource events,
definitions, grants, listings) and the management wrappers of `lotorhttp`
validate their input and make one request each; they keep no state, and the
request is modelled once in `LwpConnection` and once in `ControlRequests`. The
event cursor of `ResourceEvents` is the caller's and goes through unchanged. The
signing-key cache of the resolver is refilled under the mutex that `OwnerRouting`
has, and decides only whether a fetched assertion verifies. The session provider,
the proof signature, the local handler, the Lambda adapter, discovery, the
dialer's address rules and the command's `main` are sequential and stateless.
`PROJECT.json` has one entry for each with its reason.

Three hazards have no property. A blocked `conn.Write` (`client.go:142`) has no
deadline, so nothing bounds it. Handlers of events run in goroutines of their
own (`client.go:900`) and the repository promises no order for them. The
assertion that a failed second dial leaves cached (`ownership.go:205`) costs one
more failing call.
