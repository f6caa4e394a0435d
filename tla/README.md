# opa-envoy-plugin: formal models, checks and proofs

The plugin runs inside OPA and answers Envoy's external authorization calls
(`Check`, ext_authz v3 and v2): every call is a goroutine that opens a read
transaction on OPA's policy store, turns the request into a policy input,
evaluates a query that all calls share, turns the decision into a
`CheckResponse`, writes the decision log and closes the transaction. Meanwhile
bundles and OPA's REST API commit new policies and documents to the same store.

This directory models that server in TLA+, from the configuration it is created
with and the request it parses to the shutdown of the process, checks the models
with TLC on small instances and proves their safety properties with TLAPS for all
instances.

## 1. The system

### 1.1 Components

| Component (source) | State it keeps | Operations | What makes it correct |
|---|---|---|---|
| Check calls (`internal/internal.go` 357-611, `internal/errors.go`) | per call: internal error, response, `EvalResult`; shared: two counters | `check`, its `stop` function, `log` | an allow only from a decision that allows; no error becomes an allow; every enforced answer logged; every failure counted once; every call returns |
| Evaluation (`envoyauth/evaluation.go`) | shared: `preparedQuery`, `preparedQueryDoOnce` | `Eval`, `constructPreparedQuery`, `getRevision` | a decision rests on one version of policies and documents; no data race on the two fields; nobody waits on a writer that waits on him |
| `EvalResult` (`envoyauth/response.go`) | decision, transaction, metrics | `NewEvalResult`, `GetTxn`, the accessors | the transaction is closed exactly once and never used after that; a malformed key is an error where it is used and only there; headers survive two map iterations |
| Response construction (`internal/internal.go` 448-580, 640-700) | none | allow, deny, dry-run override, v2 conversion | status and body agree; v2 and v3 agree; only dry-run turns a denial into an allow |
| Request to input (`envoyauth/request.go`) | none | path, query, JSON, form, multipart and gRPC body | truncation and frame length are recognised at every boundary |
| Decision log (`opa/decisionlog`; OPA's `plugins/logs`) | encoder, buffer, uploader (vendored) | `LogDecision`, `Log`, `oneShot`, `Stop` | the entry is the decision, or the error, of its call; an event that was accepted has one copy and is lost only with an encoder whose chunk is too large; shutdown returns |
| Lifecycle (`internal/internal.go` 143-355, `plugin/`) | plugin status, gRPC server, listener | `New`, `Start`, `listen`, `Stop`, `Reconfigure` (does nothing) | status follows the server; Stop returns and leaves nothing served |
| OPA's store, compiler and triggers (vendored) | policies, documents, `rmu`/`wmu`, compiler | `NewTransaction`, `Commit`, `Abort`, `onCommit` | external to the plugin, whose correctness rests on their locking |
| Configuration (`Validate`, `stringPathToRef`, `New`, `Reconfigure`; `main`; OPA's discovery) | `Config` of each plugin instance | validate all, create, start, reconfigure | one bad document touches no plugin; plugin, listener and log follow one configuration; one name is never instantiated twice |
| Example service (`examples/grpc/testsrv`) | none | 35 unary and streaming methods | an OK acknowledges everything sent; an echo loses nothing; calls end |
| Metrics, UUIDs, descriptor files, `main`, deployment | - | - | see `PROJECT.json` |

### 1.2 How they interact

* A call holds the store's reader lock (`rmu`) from `GetTxn` until `stop`.
  `Commit` takes the same lock for writing, applies the change, and runs the
  triggers *before* it unlocks: `Manager.onCommit` compiles the new policies,
  then calls `compilerUpdated`, which replaces the plugin's `sync.Once`. The
  plugin has no lock of its own for `preparedQuery` and `preparedQueryDoOnce`:
  OPA's lock and the Once together are the whole synchronisation.
* A Go `RWMutex` admits no reader once a writer waits, so a call that opened a
  second read transaction would deadlock with a waiting commit.
* `stop` runs after `check` has built its response, and the status it returns
  replaces the response's: the decision log can veto an allow.
* `plugins.Manager.Stop` stops plugins in the order of their registration: the
  decision logger before this plugin. Its uploader is gone while the server still
  answers, and `grpc.Server.Stop` does not wait for handlers in flight.
* OPA's discovery gives a new configuration to the manager
  (`manager.Reconfigure`), validates the documents of all plugins before it creates
  any, in the random order of a Go map, and calls `Reconfigure`, which is empty here,
  on those that exist.
* `Start` returns while `listen` still runs in a goroutine; `Stop` and `listen`
  both write the plugin status, and `Serve` and `Stop` of the gRPC server wait
  for each other in two places.

### 1.3 What is hard here

The replacement of the Once between a call's three uses of it; a preparation
that fails inside `Do`; a commit that arrives while calls are at any step;
cancellation before, during and after the evaluation; a decision log that fails
when the allow is already built; the early returns before `stop` exists;
`Stop` overtaking `listen`, with and without a listener; calls in flight when the logger and the server stop;
the length prefix of a gRPC payload at its boundaries; headers that pass through
Go maps; an encoder that cannot close its chunk while uploader, flush and calls
take events from each other; a transaction that `Eval` opens itself; a second instance of the plugin in
one process. `PROJECT.json` lists each at its line
("hazards") with the properties that would catch it going wrong.

## 2. The modules

| Module | Models | Role |
|---|---|---|
| `CheckResponse` | accessors of `response.go`, second half of `check`, v2 wrapper | pure operators, used by all the others |
| `ExtAuthz` | `check`, `stop`, `log`, `Eval`, `constructPreparedQuery`, `compilerUpdated`, `GetTxn`; the store's locking and triggers | the core: any number of calls against one writer |
| `AuthzService` | nothing of the code: what Envoy may rely on | abstract specification |
| `ExtAuthzRefinement` | the mapping from `ExtAuthz` to `AuthzService` | `ImplementsService` |
| `ExtAuthzProofs` | - | the theorems on `ExtAuthz`: snapshots, races and locking; answers and log entries; the refinement; the counters |
| `PluginLifecycle` | `New`, `Start`, `listen`, `Stop`, and grpc's `Serve`, `stop`, `handleRawConn` as far as listener and connections go | status and shutdown |
| `LifecycleProofs` | - | the theorems on `PluginLifecycle` |
| `RequestInput` | `request.go` | from a `CheckRequest` to the policy input |
| `RequestInputProofs` | - | the theorems on `RequestInput` |
| `HeaderValues` | `transformToHTTPHeaderFormat` and `transformHTTPHeaderToEnvoyHeaderValueOption` of `response.go` | header conversion in every iteration order |
| `ResponseProofs` | - | the theorems on responses and headers |
| `EvalTxn` | `Eval` and `GetTxn` as a program that imports `envoyauth` uses them | life of transactions against writers |
| `EvalTxnProofs` | - | the theorems on `EvalTxn` |
| `PluginConfig` | `Validate`, `stringPathToDataRef`, `New`, `Reconfigure`, the names of `main`, OPA's discovery | configuration, first and later |
| `ConfigProofs` | - | the theorems on `PluginConfig` |
| `Shutdown` | `Stop` of the plugin together with `Log`, `oneShot`, `flushDecisions`, `loop` and `Stop` of OPA's decision logger | composition of calls, logger and lifecycle |
| `ShutdownProofs` | - | the theorems on `Shutdown` |
| `KitchenSink` | `testsvr.go` and the stubs and handlers of `test.pb.go` | one call of the example service |
| `KitchenSinkProofs` | - | the theorems on `KitchenSink` |
| `MCExtAuthz`, `MCCheckResponse`, `MCRequestInput`, `MCPluginConfig`, `MCKitchenSink` | - | instances for TLC; `MCCheckResponse` composes `HeaderValues` with `CheckResponse` |

### 2.1 `ExtAuthz`

**State.** `policyRev` and `dataRev` number the contents of the store (modules;
base documents with the bundle manifests). `compiler` is the policy revision
`manager.compiler` was built from, `once` the identity of the current
`sync.Once`, `onceState` what each of them has done, `preparedQuery` the policy
revision the published query was prepared from (`NoQuery` before the first,
`ZeroQuery` after a failed preparation). `readers` and `writer` are the two
sides of `rmu`. Per call: `pc`, the context (`ctxDone`), and the local variables
of `check` and `Eval`. `snap` is a history variable: the store when the call
opened its transaction.

**Actions.** One per step another goroutine can come between:

| Action | Code |
|---|---|
| `NewEvalResult`, `GetTxn` | `response.go` 37-87; the two early returns of `check` before `stop` exists |
| `RequestToInput`, `BeforeEval` | `internal.go` 423-440 |
| `getRevision`, `LoadOnce`, `OnceDo`, `Prepare`, `SetPreparedQuery`, `LoadPreparedQuery`, `EvalQuery` | `evaluation.go` 38-151 |
| `Respond` | `internal.go` 448-580 |
| `LogDecision`, `CloseTxn` | the deferred `stop`, 397-421; `log`, 582-611 |
| `Cancel` | the call's context ends, at any moment |
| `BeginWrite`, `AbortWrite`, `CommitLock`, `CommitStore`, `onCommit`, `compilerUpdated`, `CommitUnlock` | the write transaction of OPA with its triggers |

`Faults` says which calls out of the plugin may fail: the UUID generator, the
opening of a transaction, request parsing, conversion of the input, reading the
manifests, evaluation (topdown error, no result), encoding of the builtin cache
for the log, the logger. `Preparable` is the set of policy revisions for which
`PrepareForEval` succeeds. A nil dereference ends the process (`crashed`): no
interceptor of the plugin recovers.

**Abstractions.** Contents are revisions; a decision is one of the documents of
`CheckResponse`; the request is only whether it parses; spans, logging text and
timing metrics are left out.

### 2.2 `CheckResponse`

A decision is a boolean, an object or something else; each key of an object is
absent, rejected by its accessor, or an opaque value; `http_status` ranges over
one representative of each class the two lookups tell apart (a number known to
`net/http`, to Envoy, to both, to neither). What is built is the status, the
HTTP response and the metadata.

### 2.3 `AuthzService` and the refinement

In `AuthzService` policies and documents change at once, a call at one instant
takes a decision from those in force, and is then answered with what the
decision supports or with an error. `ExtAuthz` implements it: a commit takes
effect at `CommitStore`, a call decides at `EvalQuery` and is answered when
`Check` returns. A query cached across a policy change, for example, has no
counterpart there.

### 2.4 `PluginLifecycle`

The manager's goroutine (`New`, `Start`, `Stop` in four steps), the `listen`
goroutine and the connections. `Stop` fires `quit`, closes the registered
listeners, waits for the accept loop and for connections being set up, closes
all connections and reports `NotReady`; `listen` reports `OK` before `Serve`
and `NotReady` after `Serve` returned nil. Without a listener `Serve` dereferences
nil: that ends the process, unless `Stop` has fired `quit` and not yet got `s.mu`.
Then the deferred function of `Serve`, which holds `s.mu`, waits for `done`, and
`Stop` waits for `s.mu`: `lpc = "hung"`. `StartAndStopComplete` allows this ending
only without a listener. `StatusFollowsServer` speaks of a server that did serve:
what Stop leaves behind when it overtakes `listen` is remark 5 of section 5.

### 2.5 `RequestInput`

`RequestToInput` keeps no state, so it is a tree of operators with the names of the
functions, and a behaviour is one conversion under any setting of the descriptor
set and of `skip-request-body-parse`. Bodies are sequences of bytes, because
lengths and prefixes are what can go wrong; a content type is the set of supported
types its header contains, in the order the code tries them; a content-length is
absent, not a number, or a number. A path is the sequence of its parts, each with the
separator before it, `/` or the escaped `%2F`: `url.Parse` takes `//a/b` for the host
`a` and the path `/b`, but `///a/b` for a path, refuses a host with `%2F` in it, and
unescapes, so that the segments of `/a%2Fb` are those of `/a/b` (`HasAuthority`,
`ParseFails`, `UrlPath`). A URL in absolute form (`http://host/path`) is not modelled.
The document holds the request itself, body and raw body included (`attributes`), next
to the keys that are parsed; `Parsed` is the latter. A text body that is not UTF-8
cannot be encoded in v3, the same bytes in `raw_body` can (`Encodable`). What `encoding/json`, `url.ParseQuery`,
`mime/multipart` and protobuf make of a complete payload are constant operators.
Widths are constants: `ByteBase` is 256 in the code and `IntLimit` 2^63; the
32-bit addition in `in[5 : size+5]` is computed modulo `ByteBase^4`, and a slice
expression outside its bounds is the value `OutOfBounds`, the panic.

### 2.6 `HeaderValues`

`response_headers_to_add` and `headers` of a decision become an `http.Header` and
then a list of options. Both loops range over Go maps, so each choice of the next
key is a step; `Canonical` maps the spellings of a name to one.

### 2.7 `EvalTxn`

`README.md` of the repository offers `envoyauth` as a Go module. A program then
owns `EvalResult`s and may call `Eval` with or without a transaction. Each result
has one goroutine; `Txn`, `held` and `own` are the field, the transaction the
program must close and the one `Eval` must close. Writers use the same lock as in
`ExtAuthz`.

### 2.8 `PluginConfig`

A configuration maps names to documents. The manager takes an update over as `config`
before anything is looked at; it is then validated document by document in any order,
and may still be refused because of its bundles, decision logs or status. If all is
valid the missing plugins are created (`New`, with the collectors it registers) and
started, the others reconfigured. `Listen` is the goroutine of `Start` as far as the
address goes: one that cannot be parsed ends it quietly, an unknown scheme or any
failure of `net.Listen`, an address in use or otherwise, ends the process
(`panicked = "listen"`; `PluginLifecycle` has the details). A path is the sequence of
its segments; `Atoi` says which are numbers.

### 2.9 `Shutdown`

Calls are reduced to where they log and whether they are answered. An event lives
in the encoder, in the full chunk a call has taken out of it and not yet buffered,
in the buffer, with the periodic upload, with the flush, or at the service. A
failed upload puts its chunks back, and may have arrived all the same. `Stop` goes
through flush (only with a grace period), stop of the uploader, `StopEnvoy`.

*The encoder* (`encoder.go`) counts what was written before compression, so a chunk may
turn out larger than the upload limit when it is closed. `Full`: the chunk of the
earlier events goes with the call that found it full, and the new event is the first
of the next chunk; of a chunk too large a rest stays behind, encoded again. `TooLarge`:
decoding or encoding again fails; an event that carries an error cannot be decoded,
because `EventV1.Error` is an interface, and the encoder is left closed with all its
events (`stuck`) and takes nothing more. `Take` and `Drop` are the two ways `oneShot`
goes on after it has taken encoder and buffer: the rest is lost with the old encoder,
or, when its `Flush` fails, everything that was taken. `discarded` records both.

*Events that never come into being*: `Log` returns nil without an event when the drop
policy says so, when drop or mask policy fail and when the event cannot be encoded
(`LogNothing`). Hence an answered call need not have an event, and no property says so.

Assumed, and the defaults: the buffer has no size limit, there is no rate limit, and
no cache of non-deterministic builtins (an event with one is tried again without it).

### 2.10 `KitchenSink`

Two flow-controlled channels, the client stub and the handler of one call. The
fifteen unary `Send...` methods and the fifteen `SendMultiple...` streams differ
only in the type of the message and are one method each. `IsTrailer` is the code's
`strings.HasSuffix("-t", k)`, whose arguments are in the unusual order: the
keys taken for trailers are the suffixes of "-t", not the keys that end in it.

## 3. The runs

| Run | Instance | Shows |
|---|---|---|
| `check_faults` | 2 calls, 2 commits, 4 kinds of decision, all faults, revision 1 not preparable | `TypeOK`, `Coherent`, `OneSnapshot`, `NoDataRace`, `WritersExcludeReaders`, `FailClosed`, `AnswersAreLogged`, `CountersAreExact`, and the refinement `ImplementsService` |
| `check_live` | 2 calls, 1 commit, request and log errors, cancellation, dry-run | `EveryCheckReturns`, `CommitCompletes`; `AnswersAreLogged`: the log has the policy's decision, not the override |
| `response` | three spellings of two names; all objects over six shapes of value, lists of two objects; all decision documents x dry-run x log failure | `ErrorIsDeterministic`, `HeadersArePreserved`, `OrderIsKept`; `VerdictMatchesBody`, `UnusedKeysIgnored`, `VersionsAgree`, `DryRunIsTheOnlyOverride` |
| `lifecycle` | 3 connections | `NothingServedAfterStop`, `StatusFollowsServer`, `StartAndStopComplete` |
| `request_input` | bytes of one bit (sizes below 16), frames up to 8 bytes, bodies up to 2, ten paths with `/`, `//`, `///` and `%2F` | `FramesWithinBounds`, `TruncationIsExact` against a reference definition, `FirstMessageOnly`, `ParsedAlike` |
| `plugin_config` | all updates of two names over eleven documents, in any number | `FollowsItsConfig`, `AllOrNothing`, `OneNameRegistersOnce` |
| `eval_txn` | 2 results, 3 transactions each, 2 commits | `NeverStale`, `OneOwner`, `NobodyIsStuck` |
| `shutdown` | 2 calls, with and without a grace period | `NoEventVanishes`, `SentOnce`, `LostOnlyWhenLate`, `CallsEnd`, `ShutdownReturns` |
| `kitchen_sink` | one call of each kind, window 1, 4 messages of 3 kinds | `RepliesAreExact`, `OKMeansAllRead`, `CallEnds` |
| `bad_query`, `ok_without_listener`, `upload_many` | the smallest instances | the disagreements of section 5 |

**Bounds.** `Requests`: two calls suffice for one to be inside `Do` and one to
wait, or for one to load the Once before and one after it was replaced; for any
number of calls the safety of the shared query is proved (section 4). `MaxCommits`
bounds the commits: two let a second change hit a query prepared after the
first, and mix a change of policy with one of documents; a further commit only
repeats these relations, since all that matters is equality of revisions.
`Decisions` has an allow, a denial with a body, an object with a malformed key
and a value that is neither boolean nor object; the full set of documents is
covered by the run `response`. Calls are interchangeable, hence the symmetry;
it is not used in `check_live`, where it would be unsound. `Conns`: one
connection for each of the stages (being set up, open, gone).
`request_input`: with bytes of one bit the sizes run from 0 to 15, so payloads of up
to 8 bytes (5 of header, 3 of message) meet sizes that are smaller, equal, larger by
one and so large that adding 5 wraps around; bodies of 0 to 2 bytes meet
content-lengths from -2 to 3. `response`: two objects and lists of two are the
least that can be reordered; two spellings the least that can collide. The two
plainest header documents, one accepted and one refused, meet every decision; the
others an allow and a denial that have nothing but headers.
`plugin_config` bounds nothing but the documents. `eval_txn`: a third transaction
follows one of each owner. `shutdown`: two calls let one carry the event of the
other out of the encoder. `kitchen_sink`: four messages are one more than the two
windows and the handler hold, so that everyone waits for the client.

**Deadlock** is checked in the safety runs on `ExtAuthz`: only a state with
all calls answered and no write under way, or a dead process, may have no other
step (`Quiescent`). It is off in `check_live`, where the liveness
properties are the stronger statement, in `response`, where a behaviour is one
call, in `lifecycle` and `shutdown`, because a stopped plugin does nothing more,
in `request_input` (one conversion), `kitchen_sink` (one call), `plugin_config`,
where a panic ends the process, and `eval_txn`, where the program may stop when its
transactions are used up.

**Fairness.** Weak fairness of each call's goroutine and of a commit that was
begun: Go's scheduler runs what can run, `RWMutex` and `Once` wake those who
wait, and a policy evaluation terminates. Nothing is assumed of
Envoy, of cancellation, or of the writer's decision to begin or to commit. In
`PluginLifecycle`, of the steps of `listen` and `Stop`, of connections being
set up (the gRPC server bounds the handshake by a deadline) and of `Accept`
returning once its listener is closed. `EveryCheckReturns` is
checked with preparable policies only; what happens otherwise is the first
finding. In `EvalTxn`, weak fairness of the goroutines, and strong fairness of
getting a read lock that is free again and again (Go's `RWMutex` hands the lock to
the waiting readers when a writer leaves) and of the program closing what it
opened, which is its obligation. In `Shutdown`, weak fairness of calls, uploads (the
client has a timeout), flush and grace period, and strong fairness of the uploader
taking `p.stop`: its `select` chooses at random among what is ready. Nobody has to
call Stop, and the process need not exit. In `KitchenSink`, of the handler and of a
client that reads; a client need not send, half-close or cancel.

**What `shutdown` does not show.** That an answered decision reaches the log
service. It need not: it may never have become an event; the logger is stopped first,
so an event that a call puts into the buffer afterwards, or carries in a full chunk
meanwhile, is lost with the process although Envoy got the answer, and so is one that
a periodic upload puts back behind the flush; and an encoder whose chunk is too large
takes events with it. `NoEventVanishes` and `LostOnlyWhenLate` say that there is no
other way to lose one.

**What some names mean.** The entry of `AnswersAreLogged` is what `check` hands to the
logger; what the logger then makes of it is the subject of `Shutdown`. `VersionsAgree`
compares status, status code, body and headers; headers to remove, response headers to
add and metadata, which v2 does not have, are left out. `EvalTxn` assumes a program
that puts the transaction it opens into the result, as `check` does: `GetTxn` does not.

Every property has a mutant in `PROJECT.json`: a plausible bug in the modelled
code (operators named `M_...`, next to what they replace) under which TLC finds
the property violated.

## 4. The proofs

Every invariant and every action property that a passing run checks is also a
theorem, and so is the refinement; only liveness stays with TLC. Each holds for
every value of the constants that satisfies the named assumptions, which TLC
evaluates on the runs.

| Module | Theorem | States |
|---|---|---|
| `ExtAuthzProofs` | `CoherentAlways` | `Spec => []Coherent`, the inductive invariant |
| | `TypeCorrect` | `Spec => []TypeOK` |
| | `DecisionsAreConsistent` | `Spec => []OneSnapshot` |
| | `RaceFree` | `Spec => []NoDataRace` |
| | `WritersWait` | `Spec => WritersExcludeReaders` |
| | `FailsClosed` | `Spec => []FailClosed` |
| | `EnforcedIsLogged` | `Spec => []AnswersAreLogged` |
| | `Implements` | `Spec => ImplementsService`: `ExtAuthz` implements `AuthzService` |
| | `CountersCountCalls` | `Spec => []CountersAreExact` |
| `EvalTxnProofs` | `TxnNeverStale` | `Spec => []NeverStale`: the field `Txn` is nil or an open transaction |
| | `TxnHasOneOwner` | `Spec => []OneOwner`: every open transaction has one who closes it |
| `RequestInputProofs` | `FramesAreSafe` | `Spec => []FramesWithinBounds`: the slice `in[5 : size+5]` never panics |
| | `TruncationIsDetected` | `Spec => []TruncationIsExact` |
| | `OnlyFirstMessageCounts` | `Spec => []FirstMessageOnly` |
| | `ParsingIgnoresPacking` | `Spec => []ParsedAlike` |
| `ResponseProofs` | `VerdictsMatchBodies` | `MCSpec => []VerdictMatchesBody` |
| | `VersionsNeverDiffer` | `MCSpec => []VersionsAgree` |
| | `OnlyDryRunOverrides` | `MCSpec => []DryRunIsTheOnlyOverride` |
| | `OnlyUsedKeysCount` | `MCSpec => []UnusedKeysIgnored` |
| | `ErrorsAreDeterministic` | `Spec => []ErrorIsDeterministic` (`Spec` of `HeaderValues`, which `MCSpec` implies: `Composed`) |
| | `HeadersSurvive` | `Spec => []HeadersArePreserved` |
| | `OrderSurvives` | `Spec => []OrderIsKept` |
| `LifecycleProofs` | `StopIsFinal` | `Spec => []NothingServedAfterStop` |
| | `StatusIsTrue` | `Spec => []StatusFollowsServer` |
| `ShutdownProofs` | `EventsAreKept` | `Spec => []NoEventVanishes` |
| | `EventsAreSentOnce` | `Spec => []SentOnce` |
| | `FlushLosesOnlyLate` | `Spec => []LostOnlyWhenLate` |
| `ConfigProofs` | `PluginFollowsItsConfig` | `Spec => []FollowsItsConfig` |
| | `RefusedTouchesNoPlugin` | `Spec => AllOrNothing`: no step creates, starts or changes a plugin while the configuration at hand has an invalid document |
| | `OnlyASecondNewPanics` | `Spec => []OneNameRegistersOnce` |
| `KitchenSinkProofs` | `AcknowledgedMeansRead` | `Spec => []OKMeansAllRead` |
| | `RepliesComplete` | `Spec => []RepliesAreExact` |

### 4.1 `ExtAuthz`

*Assumption.* `ConstantsAssumption` (the set of calls is finite, decisions are
decision documents, the flags are Booleans).

*Why the invariant is needed.* `OneSnapshot` speaks of a call that has its
result; whether it will hold was settled long before, when the call loaded the
Once. `Coherent` adds what connects these moments: `LockInv`, the reader lock
is held exactly by the calls with an open transaction, and by none while a
commit is applied; `StoreInv`, outside a commit the compiler and the Once are
those of the stored policies, and inside one they lag by exactly the step not
yet taken; `OnceInv`, a Once that is done has published the query of its own
compiler, and at most one call is inside `Do`; `CallInv`, as long as the
transaction is open, what the call loaded is still what the server has. The
argument: a commit changes the store only without readers, so it cannot touch
what an open call relies on; it replaces the Once before it lets readers in
again; so whoever passes `Do` finds a query of the current compiler.

*`FailsClosed` and `EnforcedIsLogged`.* Both speak of calls that have returned; the
invariant `Answers` follows error, response and log entry from the start: a call
that has not reached `stop` has no error and no response; a response exists only
without an error and is the one `BuildResponse` makes of the call's decision, with
the status of `stop` once the call is done; an entry is that of the call's own result
and revision, or a failure. `AnswerStatus` says what the status then is; for the
revision of the entry `OneSnapshot` is needed.

*`Implements`.* A step simulation under `Coherent`, `Answers` and `DecidesOnce` (a call
has no result before its evaluation). `SimCall`, `SimDecide`, `SimAnswer` and
`SimWrite` show which step of the service `NewEvalResult`, `EvalQuery`, the last step
of a call and `CommitStore` are; `HiddenStep` that the others change nothing Envoy can
see, apart from the nil dereference, which is `Crash`. The point of it is in
`SimDecide`: the query a call evaluates is the one of the policies in force then,
although it was loaded earlier from a field that recompilations replace.

*`CountersCountCalls`.* A counter is the cardinality of a set of calls. `Tallies` says
which calls cannot be in one of the sets yet, `Counted` is the property for the keys
apart; the step in which a call enters a set is the step that counts it, under one key,
and no step takes a call out.

### 4.2 `EvalTxn`

Assumption: `TxnAssumption` (`Nil` is no transaction). The invariant `Ownership`: what
a result has open is the transaction of the program or that of `Eval`, never both, and
the field holds that one.

### 4.3 `RequestInput`

*Assumptions.* `WidthAssumption`: an `int` holds every 32-bit size, a 64-bit build.
`RequestAssumption`: the fields of a request, the bodies being bytes, fewer than 2^32
of them (the server's limit is 4 MB by default); a path is a sequence of parts;
`contains` names supported types only; a content-length that is a number is
an integer. `ParserAssumption`: parsers fail by returning an error and do not return
the outcomes that stand for a panic or for truncation. `EmptyTextAssumption`: the
empty string is valid UTF-8.

*`FramesAreSafe`.* Four bytes are a number below `ByteBase^4` (`SizeRange`, by
`Digit`), so the conversion to `int` does not change it; a frame that is not short
ends within the payload, so the 32-bit addition does not wrap (`FrameFits`).
Without the first assumption the comparison at line 294 is made with a negative
number: on a 32-bit build sizes from 2^31 would pass it.

*The others* are facts about the operators, carried to the state by the invariant
`Converted` (the output is that of the request). Truncation: outside gRPC the code's
comparison is equivalent to the reference definition, the exempted -1 included
(`LengthDecides`); in gRPC it is `FrameFits` and its converse (`GRPCBodyIsExact`).
First message: cutting behind it keeps header, size and message (`CutKeepsFrame`).
Packing: `Alike` lists what the parsing reads of a request, and two requests alike in
it have the same parsed keys, whatever their attributes (`SameKeys`, `AlikeSameInput`);
bytes that can be text stay encodable when they are moved from the one field to the other.

### 4.4 Response and headers

*Assumption.* `DocumentsAssumption`, for the headers: a document is an object or a
list, and the values of an object are strings, lists of strings and other values, or
something else.

*The answers* are one step, so `AnswerInv` only says that v3 and v2 are the outcomes of
`v3Check` and `v2Check` on one decision. The work is in the operators: `BodyKinds` and
the lemmas after it follow a decision through `check`, the override, the v2 wrapper and
a failed log. `OnlyUsedKeysCount` compares two decisions that differ in a key.

*The headers.* The conversion takes its input apart in any order. `WalkInv` says that
the walk is at some subset of the keys and has met no bad one; `GoodInv` that a walk
past an object met a good one: so an error needs a bad key and the end needs none.
`HeaderInv` (`Placed`) says that every value taken so far has a place of its own under
its name, in the order of the document; `OptionInv` (`Block`), that the values of each
name already turned into options are a block of the list. Both places together give the
bijection `HeadersArePreserved` asks for and the order of `OrderIsKept`.

### 4.5 `PluginLifecycle`, `Shutdown`, `PluginConfig`

*`Lifecycle`.* Both properties are about the end of `Stop` and were decided when it
passed `serveWG.Wait`: `StopInv` says what `Stop` has done by then, `ServeInv` that no
accept loop and no live connection is behind it, `StatusInv` who wrote the status last.
No assumption.

*`Safe`.* `HolderInv`: a call carries events only while it pushes a chunk, uploader and
flush only while they upload, so that no swap overwrites one. `LoggedInv`: events are
those of calls that have been through the encoder, so that the event a call puts in is
not there yet. `OneCopy`: the places are disjoint, and what is at the service and
still in one of them was in an upload that failed; this is `SentOnce`, with what is
carried taken call by call. `FlushInv`: from the swap of the flush on, what is in
encoder and buffer was put there after Stop was called. No assumption.

*`Configured`.* What was validated is what `Validate` makes of the update at hand
(`ValidInv`); plugins are under way only after all of it was (`PhaseInv`); a plugin keeps
the config it was made from, one that `Validate` can return (`PluginInv`); a listener has
its plugin's address (`ListenInv`); collectors are registered only with a plugin that
has metrics (`PanicInv`). `AllOrNothing` follows because the phases in which plugins
are touched are reached only with every document validated. No assumption.

### 4.6 `KitchenSink`

Assumption: `MessagesAssumption` (nil is neither a message nor a number). The invariant
`Served`: the one request of a call without a client stream is on its way, or read, or did
not marshal and the client knows (`Requested`); the messages of an echo are in one of
four places, in order (`Echoed`); the copies out are as many as the handler's `count`,
which does not exceed what was asked for (`Downloaded`). OK is answered at the end of the
stream only, or for a request that `Requested` shows to be the only one.

### 4.7 What is only model-checked

Liveness (`EveryCheckReturns`, `CommitCompletes`, `StartAndStopComplete`,
`NobodyIsStuck`, `CallsEnd`, `ShutdownReturns`, `CallEnds`): the prover has no rules
for fairness and `ENABLED`. The three violations of section 5 are counterexamples of TLC.

*Layout.* Type lemmas for the operators; frame lemmas that say what a step cannot
touch; one lemma per conjunct of an invariant, with one step per action; then the
theorems.

## 5. Where code and documentation disagree

Numbers 1, 4 and 11 have a run of their own. Numbers 2, 3, 5 and 6 are stated as
properties of their modules, which TLC finds violated when they are added to the
configuration named here. Numbers 7 to 10 are behaviours the models have and
no property excludes.

1. **A query that cannot be prepared takes the process down** (`bad_query`,
   `evaluation.go:120`). `constructPreparedQuery` publishes the zero query
   although `PrepareForEval` failed; only the call inside `Do` sees the error;
   the next call evaluates the zero query and dereferences nil.
2. **Dry-run does not allow unconditionally** (`DryRunAllows` in
   `MCExtAuthz_live.cfg`, `internal.go:557`): failed checks and failed logs are still
   refused, though the comment at `internal.go:555` says "unconditionally Allow".
3. **Two kinds of error are not counted** (`EveryErrorIsCounted` in
   `MCExtAuthz_faults.cfg`, `internal.go:381` and `388`): the returns before `stop`
   exists pass by `error_counter`.
4. **OK without a listener** (`ok_without_listener`, `internal.go:346`): the
   status is reported, or left, OK when the listener cannot be made or fails.
5. **Stop before listen** (`NotReadyAfterStop` in `PluginLifecycle.cfg`,
   `internal.go:346`): when Stop overtakes the goroutine of Start, the stopped plugin
   reports OK for good.
6. **A valid configuration that cannot be instantiated** (`ValidConfigInstantiates`
   in `MCPluginConfig.cfg`, `internal.go:196`): configured under both names with metrics, the second
   instance panics in `MustRegister`.
7. **A Stop that hangs** (`internal.go:348`; the ending `lpc = "hung"` of
   `StartAndStopComplete`): when there is no listener and `Stop` comes before the
   panic of `Serve`, neither returns.
8. **parsed_path is not always the path** (`request.go:92`; `HasAuthority` in
   `RequestInput`): of `//a/b` it has only `b`, because `url.Parse` takes `a` for a
   host, and `/a%2Fb` becomes two segments. `examples/istio/README.md:217` says that it
   "provides the request path as a string array".
9. **"All decisions in buffer uploaded."** (OPA's `plugins/logs/plugin.go:630`) is also
   logged when the encoder kept a rest, or when an earlier attempt of the flush lost
   what it had taken (`discarded`).
10. **A refused configuration is in force in part** (OPA's `discovery.go:511`): the
   manager has it before a document is validated, and evaluation reads
   `nd_builtin_cache` there (`evaluation.go:75`), while the plugins follow the old one.
11. **UploadMany of the example refuses everything** (`upload_many`,
   `testsvr.go:98`): the read that ends the stream overwrites the last message with
   nil, and nil is taken for "no message".

## 6. Not modelled

The deployment files, the command line of OPA, tracing and log formatting, the
random bits of `UUID4`, the contents of protobuf descriptors, and the vendored
libraries beyond what the table of section 2 names. Of the example service: the
flags and the listener of `main`, `UnimplementedKitchenSinkServer`, which nothing
embeds, and the first half of `test.pb.go`, the generated message types with their
getters, descriptors and registration: data without control. Of the decision
logger: what masks and drop policies say, rate limit, buffer limit, sizes in bytes, the
second try without the cache of non-deterministic builtins, and its console and plugin
forms. Of `url.Parse`: URLs in absolute form.

## 7. Plan

Done: all modules of section 2, the runs of section 3, and a theorem for every safety
property of a passing run.

Next:

1. The properties behind the remarks of section 5 that have no run, in the weaker form
   in which they hold, where that says something new.
2. Shorter proofs: the steps of `ExtAuthzProofs` that repeat the frame of a call.
