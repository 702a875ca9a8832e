# A TLA+ model of lfx-v2-access-check

The access-check service answers two questions of an authenticated HTTP client:
may I do these things (`POST /access-check`), and what was I granted directly
(`GET /my-grants`). It validates a JWT, forwards the question to fga-sync over
one NATS connection, and maps the reply to an HTTP answer. This directory holds
TLA+ modules of that program, the TLC configurations that check them and proofs
for TLAPS. Paths below are relative to `src/`.

## Inventory

| Part | State it keeps | Operations | Talks to |
| --- | --- | --- | --- |
| Goa server (`gen/http/access_svc/server`) | none | decode and validate, encode answers and errors | endpoints |
| `AccessService` (`internal/service/access_service.go`) | none; claims in the request's context | `JWTAuth`, `CheckAccess`, `MyGrants`, `Readyz`, `Livez` | both repositories |
| `AccessCheckClient` (`internal/service/access_check_client.go`) | none | `CheckAccess`, `ReadTuples`, `buildMessage`, `parseResponse`, `HealthCheck` | messaging repository |
| Messaging repository (`internal/infrastructure/messaging`) | the NATS connection: status, reconnect attempts, reconnect buffer, waiting requests | `Request`, `Close`, `HealthCheck` | NATS, fga-sync |
| Auth repository (`internal/infrastructure/auth`) | the JWKS cache | `ValidateToken`, `HealthCheck` | JWKS endpoint of Heimdall |
| Process (`cmd/lfx-access-check`, `internal/container`) | goroutines of main, signals, server, shutdown | start, serve, stop | everything |
| OpenTelemetry (`pkg/utils/otel.go`) | providers | set up, clean up, shut down | collector |
| Logging, request id (`pkg/log`, `internal/middleware`) | attributes in contexts, held in Go slices | `AppendCtx`, `Handle` | |
| Configuration (`internal/infrastructure/config`) | none | `LoadConfig` | |
| Client and command line (`gen/access_svc`, `gen/http/access_svc/client`, `gen/http/cli`) | none | build a payload, encode and send, decode and validate | the server, through `http.Client` and the gateway |
| Design DSL (`design`), test doubles (`internal/mocks`), chart (`charts`) | | | |

Nothing is persisted. What is hard is concurrency around shared things: one
connection and one reply subscription for all requests, with timeouts, late
replies, reconnects and a close under way; one cache of keys with a lock that is
held through a fetch; health checks that look at the connection several times
while it changes; a shutdown that stops HTTP and NATS at the same time; contexts
that share backing arrays. `PROJECT.json` lists each such place at its line,
with the properties that watch it.

What makes each part correct:

* Request path: every wait ends; one HTTP request is at most one NATS message
  and one evaluation; what the service adds to a message is the caller whose
  token was validated, and every other line comes from that caller's own request;
  a reply reaches only its own request; a list of decisions fits its request, and
  unless fga-sync's reply was short lacks none but the blank resources; the
  answer is one that the error table of `docs/access-check-contract.md` allows.
* Client: the permissions it reports were computed for its own call; its
  error statuses tell how far the request got.
* Readiness: 200 only after a PONG of this probe, with a connection that was in
  order at one moment of it, and with keys that were fetched; never again once
  the connection drains or is closed; a probe's NATS half ends.
* JWKS cache: a withdrawn key never comes back; no validation is stuck behind a
  silent endpoint; a rotation takes hold.
* Process: waiting requests are answered before a regular exit, and once the
  shutdown has begun there is no other; the exit comes within the two timeouts,
  even with a hanging handler; drain begun and providers shut down.
* Start: every clean-up runs once; plaintext export only when asked for; an
  unusable sampling ratio loses no trace.
* Logging: no attribute moves from one request to another, and none is lost.

## Modules

| Module | Models | Uses |
| --- | --- | --- |
| `NatsConn` | status of `*nats.Conn` under the options of `NewMessagingRepository` | |
| `AccessData` | payloads, claims, messages, replies, answers and the pure functions on them | |
| `RequestPath` | the two business endpoints from arrival to answer, with NATS and fga-sync around them | `AccessData`, `NatsConn` |
| `AccessContract` | the abstract specification of one request | `AccessData` |
| `ClientPath` | the generated client and commands, in front of the whole request path | `RequestPath` |
| `JwksView` | the JWKS cache as the rest of the service sees it | |
| `Readiness` | `GET /readyz` | `NatsConn`, `JwksView` |
| `JwksCache` | the caching provider of `NewAuthRepository` and the validations that use it | implements `JwksView` |
| `HandlerView` | the handlers and their connection as the shutdown sees them | `NatsConn`; implemented by `RequestPath` |
| `Lifecycle` | `main`, `StartServer`, the concurrent shutdown, OTel's setup | `HandlerView` |
| `StopContract` | the abstract specification of the end of the process | implemented by `Lifecycle` |
| `Startup` | flags and environment, what becomes of them, OTel's setup in detail | implements the start of `Lifecycle` |
| `LogContext` | `AppendCtx` and `contextHandler.Handle` on Go slices | |
| `MCRequestPath`, `MCClientPath`, `MCStartup` | payloads, invocations and environments for TLC | the module they are named for |
| `...Proofs` | theorems | TLAPS |

**RequestPath.** `pc[r]` is the position of the goroutine of request `r`:
`decode` (Goa handler), `auth` (`JWTAuth`), `handler` (`CheckAccess` or
`MyGrants` up to the publish of `Request`), `waiting` (inside `RequestMsg`),
`answered`. `registered` and `mch` are nats.Conn's map of waiting requests and
their channels; `buffer`, `wire` and `inbox` are the messages in the reconnect
buffer, on the way out and on the way back. A request identifies its own reply
token, which NATS makes unique. `ctxDone` is the cancellation of the request's
context, which `Request` looks at once, before it publishes. `Place` forgets all of this but
what `HandlerView` keeps: whether the handler has begun, waits for NATS, or is
over. `ImplementsHandlers` says that what is left is what `Lifecycle` is built
on, so that the two models speak of the same handlers and the same connection.

**AccessData.** A resource is a model value or the empty string (the code tests
for it), a list is the set of its elements. The message on the check subject is
plain text, one line for each question, and `buildMessage` writes a resource into
it as it is. So of a resource string the model keeps how that text splits it:
`LastLine` is what follows its last newline, which the code completes with
`@user:` and the principal, `Written` the lines before it, each with the user it
names, if any. For a resource of one line (`OneLine`) `Written` is empty.
`parseResponse` looks at a reply in two ways, and the model keeps both: the
offset of its first space, against the 20 bytes of the check, and its lines. An
error text of fga-sync is that offset alone; the first space of a list of
decisions is that of its first line, which can be any of them (`FirstSpace`).
fga-sync may decide any part of the lines it was sent, none included, since the
client counts none. Two things are abstracted from. The principal is taken to be
one line without a user of its own, as Heimdall issues it. And `Query` has one
object and one user for a line: should the text before the appended `@user:`
hold another `@user:`, which of the two counts is for fga-sync to say, and the
model calls all of that text the object.

**AccessContract** knows no connection, token or timeout: a request is opened,
evaluated at most once for its own caller, and answered once, with its own
evaluation or with an error its state allows. `RequestPath` implements it under
the identity mapping of `payload`, `evaluation` and `answer`.

**ClientPath** extends `RequestPath`: all of its steps are still possible, and
requests that no call sent come from other HTTP clients. `call[c]` goes from
`new` over `ready` (payload built) and `sent` to `done`; `attempt[c]` is the HTTP
request that now stands for the call. A command refuses a bad payload before it
sends (`ParseEndpoint`), a program sends what it likes (`CallEndpoint`).
`http.Client` sends a GET again when its connection breaks (`Replay`), which the
first attempt's handler may survive. The gateway may answer in the service's
place, with a body that cannot be decoded or that lacks the required fields. An
empty token leaves only `Bearer` of the header, which the server takes for the
token. Probes have no request of their own; only their statuses are modelled.

**Readiness.** A probe is a goroutine that steps through
`IsConnected`, `IsClosed`, `IsDraining`, `FlushWithContext` and then the
validation of the test token, each a separate look at a connection and a cache
that others change. `startedGone`, `sawConnected` and `sawJwksUp` are history
variables: they record what the world was like while the probe ran, and no step
of a probe but the end of its own fetch looks at them. The JWKS endpoint is up, refuses (any of the four error
texts the code looks for), or fails in another way.

**JwksCache.** `pc[a]` is where a validation (of a request, or of the health
check's test token) or the background refresh is: `away`, `look` (at the cache),
`queue` (for the write lock), `fetch` (with the lock), and for the refresh
`failed`, before it deletes the keys in a critical section of its own. There is
no second look at the cache once the write lock is taken, so that validations
that miss together fetch one after the other. Key sets are numbered by the
rotation that made them; `signedBy` is the key set of a token, 0 for the test
token that none verifies. The endpoint is up, refuses, fails, or is silent:
the HTTP client has no timeout, and only the caller's context ends its fetch.

**Startup.** Settings are strings, as in the environment, and what the code does
with one is an operator given as a constant: `Normalized` (trimmed, lower case),
`Elements` (split at commas), `Scheme` (any text in front of `://`), `ParseFloat`.
An exporter takes an endpoint with a scheme as it is and connects in plaintext
for each scheme but `https`. `at` is the position of
`main`; `LoadConfig`, `OTelConfigFromEnv` and the three providers each take a
step, and so does each turn of the loop over the clean-ups. A ratio of NaN passes
a range check written with `<` and `>`, and samples all or nothing.
`StartsAsLifecycle` maps all this to the start of `Lifecycle`, up to the moment
`StartServer` returns.

**Lifecycle.** The main goroutine goes through OTel setup, container, serving,
stopping, flushing, exited; the signal goroutine, `ListenAndServe`,
`srv.Shutdown` and `cont.Close` are actions of their own. Time is discrete: a
tick decrements every running timer, and never passes one that has run out nor
a step of the shutdown that is ready to run. Handlers are `auth` (no deadline),
`nats` (`NatsTimeout`), `answered`, or `cut` by the exit. A wait for NATS can
return in any status of the connection, since the reply may already be in its
channel.

**StopContract** has neither goroutines nor connection nor timers: a phase, the
requests that are open, answered, and promised an answer, and what is left of
the time a stop may take. Once a stop has begun it can only end, with every
promise kept and in time. `Lifecycle` implements it (`Stopping`): the promised
requests are those that waited for NATS when the shutdown began, and the time is
that of both timeouts together.

**LogContext.** A context is a parent, the request context it descends from
(`root`) and a slice (array, length); `append`
writes in place when the array has room and copies to one of twice the capacity
otherwise, which is what the Go runtime does for the 40 bytes of `slog.Attr`
at the lengths that occur.

nats.go, nats-server, fga-sync, the JWKS cache and net/http are not code of the
repository. They are modelled from how the repository uses them and marked
external in `PROJECT.json`. What is assumed of nats.go: a connection that is
draining counts as connected; `Drain` returns at once, closes a connection that
is reconnecting and drains another in a goroutine; a close ends the waits of
`RequestMsg` and of a flush; a timeout removes the token; a publish while
reconnecting is buffered. A message is delivered at most once.

## Runs

| Run | Instance | Shows |
| --- | --- | --- |
| `request_path` | 2 requests, 2 resources of one line and 1 of two, 2 principals, 4 tokens (one forged, one without principal), 1 reconnect attempt | types, `WaiterInv`, `SingleRequest`, `OnBehalfOfCaller`, `ReplyInv`, `DecisionsFit`, `ClosedIsFinal`, `ContractSpec`, `ImplementsHandlers` |
| `request_answered` | 2 requests, one to each endpoint, 2 reconnect attempts | `AuthenticatedIsAnswered` |
| `client` | 1 call, 2 requests, 1 resource, 1 reconnect attempt | types, `ReportedIsComputed`, `StatusMeansStage` |
| `readiness` | 2 probes, 2 reconnect attempts | types, `ReadyMeansPong`, `NotReadyOnceGone`, `ReadyWasConnected`, `ReadyHasSeenKeys`, `NatsCheckEnds` |
| `jwks_cache` | 1 request, 1 prober, the refresh, 2 generations of keys | types, `WithdrawnStaysWithdrawn`, `ImplementsView`, `ValidationEnds`, `RotationTakesHold` |
| `lifecycle` | 2 requests, 2 exporters, timeouts 3, 5 and 5 ticks, 2 signals | types, `InFlightAnswered`, `ExitInTime`, `CleanExit`, `ImplementsStop`, `SignalStops` |
| `startup` | the chart's environment with one group of settings varied at a time, 10 command lines | types, `CleanedOnce`, `PlaintextOnlyWhenAsked`, `BadRatioSamplesAll`, `StartsAsLifecycle` |
| `log_context` | 7 contexts | types, `NoMixing`, `ChainsKeepAttributes` |
| `malformed_reply`, `ready_jwks`, `nothing_leaks`, `attributes_included` | as above, with 1 request or probe and 5 contexts | the disagreements below |

`client` and `request_path` take a few minutes, the others less.

**Bounds.** Two requests are what crossing replies and messages of another
caller need; the invariants speak of pairs. The payloads of `MCRequestPath` hold
each endpoint well-formed and with each kind of defect. The resource of two lines
has a first line that names the other principal, and a last line that is a
resource of its own. The error texts have
their first space at 19 and 20, the two sides of the limit, and so have the
decisions on the two objects. In `client` one error text, at 19, is enough, where
a reply is accepted or not, and so is a resource of one line: what several lines
ask is decided on the request path, which `request_path` has with two, and
`ReportedIsComputed` is proved for any. The code's
`MaxReconnects` is 3; `lifecycle` has it so. Two (`readiness`,
`request_answered`) are enough to see one attempt fail and the next close, and
for the safety of the request path one is: the connection still goes down, comes
back and closes, and nothing looks at the count. In
`client` the second request is the call's replay or another client's. Two
generations of keys are one rotation, before or in the middle of any fetch. One
tick of `Lifecycle` is five seconds, so 15, 25 and 25 seconds are 3, 5 and 5
ticks; two signals are what it takes to send one that is swallowed. The settings
of `Startup` are read one by one, and those that meet in one decision (sampler
and ratio; endpoint, protocol and insecure; the exporters; `DEBUG` and `-d`) are
varied together; the endpoints have no scheme, `http`, `https` and `grpc`. Seven contexts fill slices of capacity 1, 2 and 4 and reach into
the one of 8. `MaxReconnects`, `MaxGenerations`, `MaxSignals` and `MaxContexts`
are the only bounds in guards. `Lifecycle`, `Startup` and `LogContext` may stop
(the process exits; the bound is reached), so deadlock is not checked there.
Symmetry is used in `request_path` and `client` only, over the requests; those
runs have no liveness property, and no payload belongs to one of the requests.

**Fairness.** A goroutine that can run does run, and timers fire. Otherwise:

* `RequestPath`: nothing is assumed of fga-sync, NATS, the network or the
  clients, nor of `Decode` (the server sets no deadline for reading a body) nor
  `JWTAuth` (the HTTP client of the JWKS has no timeout). A handler's goroutine
  runs on, and its timer fires: `Request` passes a timeout of 15 seconds.
* `Readiness`: the looks at the connection and `FlushFails`, for the same
  reason; nothing of the validation of the test token.
* `Lifecycle`: the start is fair because `nats.Connect` has a timeout of its
  own, and ticks are; handlers that authenticate may hang.
* `JwksCache`: the lock is given to everyone who waits for it (a Go mutex does
  not starve), hence strong fairness of `Validate`; callers give up some time
  (`docs/access-check-contract.md` asks them to set a timeout of their own, and
  the kubelet has one); the refresh has five seconds; keys expire; the kubelet
  keeps probing. An endpoint that is up again and again answers one of the
  fetches in time: strong fairness of `Respond`.

**Disagreements** between the code and what the repository says of it, each a
run that TLC must find violated; `PROJECT.json` quotes the lines:

* `malformed_reply`: an error text with its first space beyond byte 20 is
  returned as a result.
* `ready_jwks`: readyz answers 200 with cached keys, or with an error text it
  does not know, while the endpoint is unreachable.
* `nothing_leaks`: `os.Exit(1)` skips the deferred shutdown of OTel. The property
  speaks of the providers, which is what the comment it quotes is about.
* `attributes_included`: siblings overwrite each other's log attribute. The
  service calls `AppendCtx` once per request, which cannot trigger it.

Further ones that the model makes plain and no run is spent on:

* a resource string of several lines is asked as several lines, and only the last
  is completed with the caller (`internal/service/access_check_client.go:117-125`);
  nothing checks that an entry is one `object#relation` token, as
  `docs/access-check-contract.md:28` has it. That every line, all the same, comes
  from the caller's own request, and that entries of one line are asked for the
  caller only, is proved (`OnBehalfOfCaller`);
* blank resources are skipped and the call is still 200
  (`internal/service/access_check_client.go:118`), against the contract's "never
  returns a partial-success body". That nothing else is ever missing, unless
  fga-sync's own reply was short, is proved (`DecisionsFit`);
* the wait group of `performConcurrentShutdown` waits for `Drain` to begin, not
  to end (`cmd/lfx-access-check/server.go:223` says it waits for the NATS
  shutdown to complete);
* a list of decisions whose first line has a space within its first 20 bytes is
  answered 500, as `ContractSpec` allows (`Answered` of `AccessContract`), and a
  list that is short or empty is answered 200
  (`internal/service/access_check_client.go:138-156`);
* the closed handler that reports exhausted reconnect attempts
  (`messaging_repository.go:81`) also runs at the end of every regular drain;
* `config.go:34` puts flags before the environment, but `DEBUG` in the
  environment turns debugging on against `-d=false` (`config.go:71`), and
  `README.md` calls it "Enable debug logging" while `LOG_LEVEL` alone sets the
  level;
* the generated client documents an error named `BadRequest`
  (`gen/access_svc/client.go:36-40`), while a 400 of the decoder carries Goa's
  own error names.

## Theorems

The proofs hold for every value of the constants that satisfies the
assumptions: `MaxReconnectsAssumption` (at least one attempt), `DataAssumption`
(payloads, resources, tokens and texts have the shapes above), `TimeoutsAssumption` (natural
numbers, `NatsTimeout < ShutdownTimeout`), `AgentsAssumption` (the refresh is
no caller), `SettingsAssumption` (what is started with is text, and what the
conversions return), `ClientAssumption` (what the server decodes of an encoded
payload is one of its payloads; the token `Bearer` is not genuine) and
`MaxContextsAssumption`.

* `RequestPathProofs`: `TypeOK`, `WaiterInv`, `SingleRequest`, `ReplyInv`,
  `OnBehalfOfCaller`, `DecisionsFit`, `ClosedIsFinal`, `Spec => ContractSpec` and
  `Spec => ImplementsHandlers`. The inductive
  invariant `IInv` adds what links the pieces: `PathInv` (what the position says
  of payload, claims and answer), `MessageInv` (a message is the one its request
  must send: the claims it was built from do not change while it is buffered),
  `EvaluationInv` (an evaluation is one of that message) and `ClosedInv`.
  `SingleRequest` is part of it because, with a second message about, an
  evaluation could change after its reply was sent. The refinement maps each
  action to one of the contract's or to a stutter, and needs `IInv` for the
  answers: what is reported must be the request's own evaluation
  (`AnswersFollowEvaluations`, by `AnswerInv`). `DecisionsFit` follows from
  it and from what `BuildMessage` asks (`DecisionsMatch`). The refinement of `HandlerView`
  needs the types only: each goroutine's step moves its own handler
  (`HandlerMoves`) or leaves it where it is (`HandlerStays`), and it enters the
  wait on a connection that takes its message.
* `ClientPathProofs`: `ClientSpec => Spec` (every call is a behaviour of the
  request path), then `ReportedIsComputed` and `StatusMeansStage`. `CInv` joins
  what was proved of the request path with `CallInv`: a call's request carries
  what the caller asked for, and an outcome that is no error is the answer of
  that request.
* `ReadinessProofs`: `TypeOK`, `ReadyMeansPong`, `NotReadyOnceGone`,
  `ReadyWasConnected`, `ReadyHasSeenKeys`. The connection never leaves `Gone`; a probe that began
  there either has recorded the failure or will at the next look (`GoneInv`);
  a probe that is past the look for a drain and has met no connection in order
  sits on one that is down, which comes back in order or not at all (`SawInv`);
  keys in the cache were fetched (`SeenInv`).
* `JwksCacheProofs`: `TypeOK`, `WithdrawnStaysWithdrawn` and
  `Spec => ImplementsView`. The argument is `LockInv` and `NewestInv`: there is
  one fetch at a time, and its answer, taken while the lock is held, is at least
  as new as anything that ever was in the cache.
* `LifecycleProofs`: `TypeOK`, `InFlightAnswered`, `ExitInTime`, `CleanExit`
  and `Spec => ImplementsStop`. `OwedInv`: a request owed an answer has strictly less
  time left than the shutdown, which is where `NatsTimeout < ShutdownTimeout`
  is used. `TimeInv`: time passed and time left add up. `StageInv`: what the
  position of `main` says of providers, timers and the listener. With these, each
  step maps to one of `StopContract`'s or to a stutter (`StopSteps`): the end
  needs `OwedInv`, the passing of time `TimeInv`, the arrival of requests
  `StageInv`.
* `StartupProofs`: all the invariants of the run, and `StartsAsLifecycle`.
  `CleanInv`: the list of clean-ups holds exactly the providers that are set up
  and not shut down, each once. `PlaceInv`: which providers the position of
  `main` leaves open. `ChoiceInv`: what was chosen is what the settings call for.
* `LogContextProofs`: `TypeOK`, `NoMixing`, `ChainsKeepAttributes`. `ArrayInv`:
  a backing array stays within the contexts of one request, although siblings
  share it. For the chains: a slice that is not the shortest in its array
  continues its parent's (`SharingInv`), a slice is as long as the chain that
  leads to it (`LengthInv`), and where a context's ancestors each have one child,
  the slices in its array that are no longer than its own belong to it and to
  them (`ChainInv`), so that no write in place hits what the chain reads. `Added` is a recursive function over the
  tree; that it solves its own equation, and is alone to do so, is proved as an
  invariant (`OneSolution`), because the tree grows by one context at a time.

Every invariant, every action property and every refinement the runs check is
proved. Only model-checked are the liveness properties (`AuthenticatedIsAnswered`,
`NatsCheckEnds`, `ValidationEnds`, `RotationTakesHold`, `SignalStops`), which rest
on fairness and so on ENABLED, and the four disagreements with a run, which are
counterexamples.

## Not modelled

The design DSL (it only generates `gen/`, which is modelled), test doubles, the
chart (its probes and its environment are what instances are chosen from), static
OpenAPI files and the mounting of routes, trace spans and headers, the generation
of request ids, usage texts and the wording of messages. `ExitInTime` bounds the
exit by the timeouts of the code, 50 seconds in all; the grace period of the
cluster (30 seconds by default) is not part of the model.

## Plan

Done: `NatsConn`, `AccessData`, `RequestPath` with `AccessContract`, `Readiness`,
`Lifecycle` with `HandlerView` and `StopContract`, `LogContext`, `JwksView` and
`JwksCache`, `Startup`, `ClientPath`, each with its proofs. Left:

1. `JWTAuth` of `RequestPath` with the validations of `JwksCache` in place of
   its own choice of results.
2. A process of `RequestPath` and `Lifecycle` in one module, with the end of the
   process cutting off what `RequestPath` has under way.
