# TLA+ verification of kubemq-nestjs

`@kubemq/nestjs-transport` connects a NestJS application to a KubeMQ broker through the
client library kubemq-js. This directory holds TLA+ models of the parts of it that run
concurrently or fail piecewise, the TLC runs that check them, and proofs checked by TLAPS.

Paths below are relative to the repository; `server.ts` is short for
`src/server/kubemq.server.ts` and `proxy.ts` for `src/client/kubemq-client.proxy.ts`.

## 1. The system

One process, one JavaScript event loop. Code runs to completion between two `await`s, so all
concurrency is interleaving at awaits: of messages in flight with each other, of connecting
with closing, of outcomes that arrive late with the state they were sent under. Nothing is
persisted; what survives a crash is the broker's, and the broker redelivers.

| Part | Code | State | Operations | Talks to |
|---|---|---|---|---|
| Backpressure semaphore | `server/backpressure-semaphore.ts` | `running`, the `queue` of resolvers | `acquire`, `release` | queue consumer |
| Idempotency cache | `server/idempotency-cache.ts` | `cache` (key to expiry), `order` | `has`, `add`, `clear` | `executeWithMiddleware` |
| Queue consumer | `server.ts` 722-905, 952-1095 | polls in flight, acks | `onMessages`, single and batch handling, settling | semaphore, cache, validator, DLQ, executor, stream |
| Handler executor | `server/handler-executor.ts` | set of promises in flight | `track`, `drain`, `executeRpc`, `executeWithDefault` | every handler path, `close()` |
| Server lifecycle | `server.ts` 53-345, 907-941 | `client`, `subscriptions`, `queueStreams`, maps, status, listeners | `listen`, connect and bind, rollback, `on`, `close` | kubemq-js, reconnect manager |
| Reconnect manager | `server/reconnect-manager.ts` | `closing`, timer, attempt | `startLoop`, `scheduleRetry`, `cancelLoop` | server lifecycle |
| Request and event pipeline | `server.ts` 457-720, 952-1095 | `subscriptionErrors` | respond, retry, dead-letter | executor, DLQ, kubemq-js |
| Dead letter handler | `server/dlq-handler.ts` | a counter | `routeToDlq` | kubemq-js, listeners |
| Message validator | `server/message-validator.ts` | loaded packages | `validate` | class-validator |
| Circuit breaker | `circuit-breaker/circuit-breaker.ts` | state, failures, probes left, timer | `guard`, `recordSuccess`, `recordFailure`, timer, `destroy` | client proxy |
| Client proxy | `client/kubemq-client.proxy.ts` | `client`, `connectPromise`, `closing` | `connect`, `publish`, `dispatchEvent`, `close` | breaker, kubemq-js |
| Scoped proxy, records, decorators, metadata | `client/`, `decorators/`, `interfaces/` | the tags and metadata of a record | builders, prefix, `resolvePatternType` | client proxy, `bindHandler` |
| Correlation and tracing | `correlation/`, `tracing/` | the store of a handling, OpenTelemetry loaded or not | `run`, `createFromTags`, `initialize`, inject, extract | server and proxy |
| Error mapping, serialization | `errors/`, `serialization/` | none | `mapErrorToRpcException`, `deserializeBody` | server and proxy |
| Health indicator | `health/` | its client | `isHealthy` | server, kubemq-js |
| Nest modules | `module/` | the providers | seven static methods | Nest's container |
| CQRS bridge | `cqrs/` | `sharedClient`, the publishers of three buses | `onModuleInit`, `onModuleDestroy`, `publish` | kubemq-js, `@nestjs/cqrs` |
| Testing doubles | `testing/` | recorded calls | run a handler, answer a call | handlers under test |
| Example applications | `examples/` | none | | all of the above |

What is hard, and what makes each part correct:

- **Semaphore.** A permit is handed over by *not* decrementing a counter, to a promise that
  resolves later. Correct: the counter is the number of holders, never above the limit; nobody
  waits beside a free permit; the line is served in order; every waiter is woken.
- **Cache.** Checked before and written after a handler that awaits; entries expire without
  leaving `order`. Correct: it only suppresses what was handled within the TTL, it is bounded,
  and every entry can be evicted.
- **Queue consumer.** Polls overlap; a work can end by overflow, failure, a throwing ack or
  nack, a dead letter; `close()` drains and clears maps underneath. Correct: permits follow
  the work, only processed messages are acknowledged, nothing is abandoned silently, and
  drain covers what was in flight.
- **Lifecycle and reconnection.** Connect, bind, roll back, retry and close all await and all
  write `client`. Correct: no client leaks, a server that is up is bound exactly once, closed is
  final, the loop neither dies of a lost connection nor overshoots, listeners are not lost before a rollback.
- **Breaker and proxy.** Outcomes of earlier requests arrive in any later state; callbacks and
  listeners throw in between. Correct: one answer per request, a circuit that opens, probes and
  closes by its rules and cannot get stuck, no client left behind by a `close()` during `connect()`.
- **Request pipeline.** Retries, dead letters and two catch blocks lie between a handler and its
  response, and every send may fail after it arrived. Correct: what a requester is told is what
  happened, a message is dead-lettered if and only if it was given up after the promised
  tries, a drained server has answered, and an error that health reports does not go away by itself.
- **The path of a message.** Which call is made, the label, the prefix, the decorator and the
  binding are decided in five places; ids and traces pass from one handling to what it
  sends. Correct: whoever was meant hears it, in its thread and trace, and errors say no more
  than they may.
- **Nest and CQRS.** Providers, hooks and the server start and stop in an order of Nest's.
  Correct: buses are wired together or not at all, no client outlives the application, and a handler
  that is waited for can still send.

`PROJECT.json` lists each hazard at the line where it bites, with the properties that cover it.

## 2. The modules

| Module | Role |
|---|---|
| `PermitPool` | abstract: a pool of permits and a bounded line, without counter or promises |
| `BackpressureSemaphore` | the semaphore as coded; refines `PermitPool` |
| `BackpressureSemaphore_proofs` | its theorems |
| `DedupWindow` | abstract: a set of remembered keys that may forget but never invents |
| `IdempotencyCache` | the cache as coded; refines `DedupWindow` |
| `IdempotencyCache_proofs` | its theorems |
| `QueueConsumer` | one queue handler with overlapping polls; INSTANCEs `BackpressureSemaphore` for its permits; its runs refine `DedupWindow` |
| `QueueConsumer_proofs` | its theorems, over those of `BackpressureSemaphore_proofs` |
| `ServerLifecycle` | `listen`, connect, bind, rollback, retry loop, `on`, `close` |
| `CircuitBreaker` | the operations of one breaker |
| `ClientProxy` | requests over `connect`, the breaker (INSTANCE) and `close` |
| `ServerLifecycle_proofs`, `ClientProxy_proofs` | their theorems |
| `RetryPolicy` | abstract: try up to a limit, then bury or give up |
| `MockServer` | what the request and event methods of `MockKubeMQServer` make of a handler, as operators |
| `RequestPipeline` | commands, queries, events and stored events inside the server; refines `RetryPolicy`, uses `MockServer` |
| `RequestPipeline_proofs` | its theorems |
| `MessagePath` | from a record through proxy, broker and server to handlers, and on to what they send; errors on the way back |
| `MessagePath_proofs` | its theorems |
| `Examples` | the repository's example applications as applications of `MessagePath` |
| `NestApplication` | modules, providers, hooks, the CQRS buses and closing |
| `NestApplication_proofs` | its theorems |
| `MC*` | the instances for TLC |

`PermitPool`, `DedupWindow` and `RetryPolicy` state promises, not code, and have no lines of their own. The
layers fit together as the code does: `QueueConsumer` calls the real semaphore operations and
takes the cache at what `DedupWindow` promises, while `IdempotencyCache` shows that the real
cache keeps that promise.

Conventions:

- *A step is what runs between two awaits.* In `QueueConsumer`, `ContinuationDue` keeps network
  events and signals from coming in while a continuation is due, as the event loop does; an
  `await` that is already settled is not a separate point for those. In `ServerLifecycle` and
  `ClientProxy` the awaits that end in a microtask are points of interleaving like the others:
  a superset of the real orders, so what is shown safe there is safe.
- *Faults.* A section "Faults" before the operations of a module holds variants of its
  definitions as a slip would have written them. No specification uses them; `PROJECT.json`
  says, for each property, which one breaks it, so that no property holds by accident.
- *History variables* (`fate`, `refused`, `unsettled`, `owed`; `handledAge`; `tries`,
  `lost`, `cause`; `probes`, `lost`, `streak`; `fate`, `faults`, `only`, `timedOut`; `thread`,
  `loaded`, `drained`) guard no action.
- *Data* is reduced to what decides: a message is a name with a key and a validity, an error is
  its kind (connection, validation, other), a response is good or undecodable. By which class, code
  or text `isConnectionError` tells the first kind from the others is left out.
- *External code* is modelled from how the repository uses it: the broker's queue
  (`Ready`, `Requeued`), `Date.now` (`Tick`), the event loop, and kubemq-js, which may succeed,
  reject, throw on subscribing, emit connection events, and call `onMessages` again while an
  earlier call has not returned.

### How the models correspond to the code

**BackpressureSemaphore.** `running` and `queue` are the fields; `promise[c]` is the promise
that `acquire` returned to the handling `c` (`none`, `pending`, `resolved`, `rejected`).
`AcquireFree`, `AcquireWait`, `AcquireOverflow` are the three ways through `acquire`,
`ReleaseHandOver` and `ReleaseIdle` the two through `release`. A caller asks again only after it
gave up or released (`MayAsk`). `acquire` is always called with `throwOnOverflow` true, as at
both call sites.

**IdempotencyCache.** `cache` maps a key to what is left of its life, which is all that
`Date.now() > expiresAt` can tell; `Ttl` is `ttlMs`. `HasMiss` and `HasExpired` are the ways
in which `has` is false (when it is true nothing changes), `AddPresent` and `AddNew` the ways
through `add`, with `Evictions` the `while` loop. `attempts` counts the handlers between a
negative `has` and their `add`.

**QueueConsumer.** `phase[p]` says where one call of `onMessages` is: `asking` (in
`await sem.acquire`), `validating`, `routing` (in `routeToDlq`), `handling`, `settling` (the answers
and the `finally`), `between` (the `for` loop of single handling) and `idle`. `todo[p]` are the
messages it still has. `batch` and `manualAck` are chosen at the start, so one run covers the four
modes. `Deliver` is the callback up to its first await; `Ask*` is the acquire; `SkipDuplicate`,
`PassCache`, `CallHandler`, `RejectToDlq`, `RejectWithWarning`, `FailBeforeHandler` and
`DlqAnswered` are the branches of `executeWithMiddleware`; `HandlerSucceeds` records the key;
`Settle` is everything after the `try` block: acks, nacks, where one may throw at any message,
the release, and the next round. `Close`, `DrainEnds`, `CloseEnds` are the three stretches of
`close()` that matter to a queue.

**ServerLifecycle.** `task` is where `connectAndBindHandlers` is, `by` who called it, `hand` the
client being closed by a discard or a rollback; `closer` is where `close()` is. `Bind(h)` and
`BindFails(h)` are the rounds of the loop over the handlers; the first one also attaches the
listeners (`Initialized`). `ThrowsToListen` and `ThrowsToRetry` are the two `catch` blocks that an
error can reach, `ScheduleRetry` and `RetryTimer` the loop. `misdeclared` is the set of handlers
whose declaration is refused. The delays (backoff, jitter) are left out: any delay is possible.
`lost` holds the listeners that were on a client which a rollback closed, `cause` the kind of error
that the last attempt ended with. `LoopAlive` asks nothing of the loop after an error of any other
kind than a lost connection: section 5 says why.

**CircuitBreaker, ClientProxy.** `GuardPasses` and `GuardRefuses`, `RecordSuccess`, `RecordFailure`,
`ResetTimeout` and `Destroy` are the methods; `failures` saturates at the threshold, beyond which
nothing looks at it. In the proxy `connecting` is where `doConnect` is, `phase[r]` where a
request is: `waiting` for `connectPromise`, `ready`, `sent`, `failing` (in the `catch` next),
`answered`, or `dropped`. The four send calls of kubemq-js are one. `made` records that the breaker
exists only after `TracePropagator.initialize`, while `client` is there earlier.

**RequestPipeline.** `phase[m]` is the await at which the handling of `m` is: `validating`,
`handling`, `refusing` and `burying` (in `routeToDlq`), `answering` (in `sendResponse`),
`apologizing` (the response of the outer catch block), `done`. `HandlerReturns`,
`HandlerFailsAgain`, `HandlerFailsForGood` are the ways round and out of the retry loop,
`ResponseUnserializable` the `serializeBody` that throws on a result; `Throws` is what
`executeWithMiddleware` throwing means to a request (a response) and to an event (a log line).
A send that rejects may have arrived (`reached`). A handler's execution ends as one of
`Behaviours` (a value, an empty stream, an error or timeout of the Observable, a handler that
rejects), the same set that `MockServer` is asked about. `MockAgrees` compares the `executed` of the
mock's answer with that of the server's response, wherever no send failed; the one difference it
allows is a result that cannot be serialized, where the server answers `executed: false` and the mock,
which never serializes, `true`. `dispatchEvent` rejects where the server counts a failure;
`dispatchEventWithTags` subscribes to nothing and is only asked not to reject what the server
handled. `subErrors` is `subscriptionErrors`.

**MessagePath.** An application is a record: its handlers as decorated, the options of its server and
of its proxy, and the sends its code may make, inside of handlers or not. `Wired` is `publish`
and `dispatchEvent`, step by step the operators named after the functions; `Entries` is what
`bindHandler` makes of Nest's table; `Deliver` is a subscription's callback up to the handler,
`HandlerEnds` what comes after it; `ServerConnects`, `ServerTraces`, `ProxyConnects` and
`OtelLoads` are the awaits at start-up. `own` holds the tags in the records that the
application keeps, to see whether sending changes them. The `for`, `early` and `dead` of a send are
not code: they say who is meant to hear it. `WiredAsMeant` says of an application, without running
it, that its sends match no other handlers; TLC evaluates it for every application of the run.

**Examples.** A handler definition per handler class, a set of sends per service, and the
application per `main.ts`; who is meant to hear comes from the "Expected output" at its end.
Sequences of sends are cut at two messages, in any order. The handler table is taken to
hold every decorated method (see section 5).

**NestApplication.** `Providers(m)` translates the static methods of `KubeMQModule`; `phase`
is where Nest is: making providers, `onModuleInit` (`initialising`, `creating`, `undoing`), ready, and
the closing hooks in the order in which Nest calls them. A hybrid application runs `onModuleDestroy`
before its servers close. A microservice closes its server first when `close()` is called on it, but
on a signal, with `enableShutdownHooks`, Nest runs `onModuleDestroy` first there too (`HooksFirst`);
a setup says in `signalled` which of the two ends it. `sdk[o]` is
the kubemq-js client of a proxy or of the shared one of the buses.

## 3. The runs

Every passing run explores its whole state space. Counters that have no bound in the code have
one in the model: `MaxRedeliveries`, `MaxAttempts`, `MaxOrder`; the semaphore, the lifecycle and
the proxy need none (`attempt` and `tries` are limited by the policy and stay 0 without one;
`streak` and `failures` saturate); the pipeline's are its messages and the retries of its
policies; `MessagePath` sends at most `max` messages, `NestApplication` makes `MaxCalls` calls
in `MaxHandlings` handlings.

| Run | Instance | States | Shows |
|---|---|---|---|
| `semaphore` | 5 callers, 2 permits, 2 places | 281 | `SemaphoreInv` (counter, limit, no idle permit, exact and bounded line), `FirstComeFirstServed`, `WaiterServed`, `ImplementsPool` |
| `idempotency_cache` | 3 keys, 2 entries, TTL 1 tick, 4 slots | 128,736 | `CacheSound` (it remembers only what was handled within the TTL, is bounded, every entry has a slot, slots follow ages), `ImplementsWindow` |
| `queue_consumer` | 3 messages (two share a key, one invalid), 3 polls of up to 2, 1 permit, 1 place, 1 redelivery | 1,374,065 | `PermitsSound`, `AckedSinglyWasProcessed`, `AbandonedOnlyByFault`, `DrainCoversInFlight`, `UsesWindow` |
| `queue_progress` | 2 polls, no dead letter channel, no redelivery | 227,258 | `PollEnds` |
| `server` | 2 handlers (one suspect), 2 clients, 1 listener, `maxAttempts` in {unlimited, 0, 2} | 11,251 | `NoClientLeak`, `BoundOnce`, `ClosedIsFinal`, `LoopAlive`, `AttemptsBounded`, `ListenersKept`, `RetriesUntilBound` |
| `client` | 3 `send`, 1 `emit`, threshold 2, 1 probe | 32,092 | `AnsweredOnce`, `NoClientLeak`, `CircuitSound`, `OpensOnConsecutiveFailures`, `EveryRequestAnswered` |
| `pipeline` | 2 messages of either kind; no dead letter channel and no retry but validation, a dead letter channel with its default of 1 retry, both with 0 retries | 617,128 | `AnswersTellTheOutcome`, `DeadLettersMatchLosses`, `DrainedMeansAnswered`, `MockAgrees`, `HealthTruthful`, `EveryMessageSettles`, `ImplementsRetryPolicy` |
| `message_path` | 9 applications built for it, up to 3 messages, and 29 examples, 2 messages each | 128,367 | `CausalChain`, `TraceUnbroken`, `DeliveredAsMeant`, `ToldTheTruth`, `HeardAsMeant` |
| `nest_application` | 12 applications (one of them ended by a signal), 2 handlings, 2 calls | 602,091 | `BusesTogether`, `NoClientOutlivesApp`, `HandlersCanSend` |

Why the bounds suffice. *Semaphore*: one caller more than permits and places together, so full,
overflowing and re-entered lines all occur. *Cache*: one key more than entries, a slot list twice
the capacity, so stale slots stand before, between and after live ones. *Queue*: one poll
handles, one waits, one is refused, and each may have a second message; the twin keys make a
duplicate in flight with its original. *Server*: the first or the second binding may fail, which
is all that a position in the loop can make different; two clients are one that is being closed
and its successor. *Client*: two failures open the circuit, one request probes and one outcome
arrives from before. *Pipeline*: two messages interleave at every await, of one channel or of
two; with one retry there is a try that is not the last and one that is, which is all that
the loop tells apart, and the proofs take any number. *Message path*: a message, what its handler sends, and what that
one's handler sends or a second message in between; the applications are one per kind of
disagreement. *Nest*: a handling may run across any of the hooks and beside a second one, and each
call falls before, during or after any of them, two of them in any order.

`SYMMETRY` over the polls is used in the safety runs of the queue; the run with liveness does
without. `CHECK_DEADLOCK FALSE` stands where the system really ends: a queue handler whose
messages are acknowledged and whose server is closed, a closed server, a proxy whose requests
are answered.

Runs that refute what the repository says of itself (each with one property):

| Run | Property | What happens |
|---|---|---|
| `queue_batch_loss` | `AckedWasProcessed` | the first message of a batch decides for all: its duplicate key, or its rejection, acknowledges messages nobody handled |
| `queue_overflow` | `OverflowIsNacked` | `acquire` throws outside the `try` block: a refused message is neither acked nor nacked |
| `client_probe` | `ProbesAllowed` | a probe is granted before serialization fails: no outcome, and a circuit half-open for ever |

`PROJECT.json` quotes, under `findings`, the sentence each of them contradicts.

### Fairness

- Semaphore: `WF(Release(c))`, because every holder releases in a `finally`, provided its handler
  settles. Nobody is obliged to ask.
- Queue: `WF(Proceed(p))`: the event loop runs every continuation, and handlers, validators and
  the dead letter send settle. An async handler that never settles is outside this assumption
  (the timeout covers only the Observable it returns). Delivery, forgetting and `close()` are
  not obliged to happen.
- Server: `WF` on connecting and closing steps (promises settle, timers fire), and
  `BrokerComesBack`, strong fairness of `CreateSucceeds` and of each `Bind(h)`: a broker that can
  be reached again and again is reached once. It is an assumption on the environment that
  only `RetriesUntilBound` needs; without it the loop may fail for ever, rightly.
- Pipeline: `WF(Proceed(m))`: handlers, validators and sends settle (`executeRpc` and the
  sends have timeouts). Messages need not come, nor the server close.
- Message path: the server starts, the broker delivers what it has, a request ends with an
  answer or an error of kubemq-js (its timeout). Handlers need not end, so a stuck one takes nothing
  from the others.
- `NestApplication` has safety properties only, and no fairness.
- Client: `WF` on connecting, closing, the timer and the outcome of every request; kubemq-js
  bounds requests by their timeout.

## 4. The proofs

Eight modules prove, for every value of the constants that the named assumptions allow, every
safety and action property and every refinement that the passing runs check. Each proof has the
same shape: an inductive invariant `IInv`, a lemma per action (or per group of actions that
disturb the same variables) with a step per conjunct, a step lemma, and theorems that combine
them. TLC has checked each `IInv` as an invariant of the instance first.

**`BackpressureSemaphore_proofs`** (any finite set of callers, `MaxConcurrent >= 1`, any
`MaxQueueDepth`): `TypeCorrect`, `SemaphoreSafe`, `ServedInOrder`, `SemaphoreImplementsPool`.
`IInv == TypeOK /\ SemaphoreInv`. The code's claim, "never more than `MaxConcurrent` inside", is not
inductive alone: a release hands over without touching the counter, so one must know that the
counter is the number of holders (`PermitConservation`) and that the head of the line is a
pending promise that stands there once (`LineIsExact`). `NoIdlePermit` is what lets the refinement
map a queueing step to the pool's `Queue`, whose guard is that all permits are out.
`LineAppend` and `LineTail` are lemmas about sequences without repetition.
The server makes a semaphore only for a truthy limit and does not check its sign; the
assumption that it is positive is the documented use.

**`ServerLifecycle_proofs`** (any number of handlers, listeners and clients, any policies):
`TypeCorrect`, `ClientsDoNotLeak`, `BoundExactlyOnce`, `ClosedForGood`, `LoopNeverStops`,
`AttemptsWithinLimit`, `ListenersNotLost`. What makes them inductive: while an attempt is
creating, or one is scheduled, there is no client (`PhaseInv`), so that the one that arrives is the
only one; a rollback holds `this.client` or what `close()` has already taken away, and
discarding happens under `closing` only (`ClientInv`); the subscriptions are `1 .. bound` on the
present client (`SubsInv`); a retry in progress is the one attempt that `tries` is ahead of
`attempt` by (`AttemptInv`). That a closing server's timer stays off and its client stays null
(`ClosingInv`) is what makes closed final. `LoopAlive` and `ListenersKept` are kept beside these:
the first because a `catch` of a lost connection schedules, the second because only a rollback or
`close()` takes the client of an attached listener away, and a rollback records in `lost` whose it was.

**`ClientProxy_proofs`** (any disjoint sets of requests, any positive threshold and number of
probes): `TypeCorrect`, `RequestsAnsweredOnce`, `ClientsDoNotLeak`, `TimerOnlyWhileOpen`,
`ProbesAccountedFor`, `HalfOpenHasAWayOut`, `CircuitStaysSound`, `OpensOnlyAtThreshold`. Late outcomes make the breaker
delicate: every outcome, of whatever age, ends a half-open circuit, and therefore a probe that was
sent is still out as long as the circuit is half-open (`ProbeInv`), which with `ProbeBudget` gives
the way out; the breaker's counter is the streak of failures in every state, half-open included
(`StreakInv`), so that the threshold is met by consecutive failures only.

**`RequestPipeline_proofs`** (any set of messages, any policies, any `DefaultRetries`):
`TypeCorrect`, `AnswersAreTrue`, `LettersMatchLosses`, `DrainWaits`, `RetriesRefinePolicy`,
`TheMockAgrees`, `HealthIsTruthful`. The
messages do not touch each other, so `IInv` is `MsgInv(m)` for each of them and `DrainInv` for
the server; a step changes one message and `OthersKeep` settles the rest. Within `MsgInv`, `FateInv`
ties what became of a message to the await it is at, `TriesInv` the loop variable to both,
`PlaceInv` says who can be in `routeToDlq` and who can be answered. `AnswersInv` is the delicate one: after
the first response has failed to be sent, though it may have arrived, a second, negative one is
sent, so that "one response, and the right one" holds only of a message without a failed send, and
otherwise at most two with the second negative; `apologizing` without a fault means that the handler
did not succeed. `LettersInv` counts dead letters past `routeToDlq` only. `DrainWaits` needs that `draining`
is fixed when `close()` begins and that its members are never back at `idle`. `TheMockAgrees`
adds to `IInv` that a message tried once has the fate its handler's behaviour deserves (`Mirrors`),
and that a response sent without trouble tells that fate, unless the result could not be serialized (`ToldInv`); `MockInv` is both;
`HealthIsTruthful` is an action property: whatever clears a channel's error either is `CloseEnds`
or moves a message of that channel out of the await it was at.

**`IdempotencyCache_proofs`** (any set of keys, any `MaxSize`, `Ttl`, `MaxAttempts` and `MaxOrder`):
`CacheStaysSound`, `CacheImplementsWindow`. `IInv` is `CacheSound`, whose conjuncts need each other, with
`LifeInv` (the age of an entry and what is left of its life are within the TTL together), which
makes "handled within the TTL" survive a tick, and the finiteness of the map. The delicate step is
`AddNew`: how many slots the `while` loop takes away is the least number that makes room, and that
there is one follows from `EveryEntryEvictable` (`EvictionsMakeRoom`); the last slot of a key
moves with the slots that are gone (`LastOfShifted`). Both are choices of a least number, which
`LeastNumber` proves to exist from the library's theorem on finite subsets, because induction over
an operator is out of reach.

**`QueueConsumer_proofs`** (any finite set of messages, finite set of keys and polls; any poll
size, permits, redeliveries, options): `TypeCorrect`, `PermitsStaySound`, `AckOnlyProcessed`,
`NothingElseAbandons`, `DrainIsComplete`, `RunsKeepTheWindow`. The semaphore's part of `IInv` is the
invariant of `BackpressureSemaphore_proofs`, instantiated: a poll asks and releases by the semaphore's
operations only, so the lemmas there carry it over (`SemaphoreKept`). `HoldInv` ties permits to
work, and from it and the semaphore's limit follows that no more handlers run than there are permits
(`HandlersHoldPermits`, by an injection). `PlaceInv` and `DrainInv` say what a poll has in hand and what
`drain` waits for; `ProcessedInv` is what single handling needs: a rejected message is never the
one in the handler, and a remembered key stands for a handled message. For batches it is false,
which is the finding of `queue_batch_loss`. The permits must be positive, as for the semaphore
(`PermitsAssumption`), and the keys finite, because the window counts the runs of a key
(`KeysAssumption`).

**`MessagePath_proofs`** (any applications: handlers, options, records, tags, failures, and any number
of messages): `ChainOfCausation`, `TracesContinue`, `LabelsAreTrue`, `RequestersAreToldTheTruth`,
`WiringDecides`. `CausalChain` is an induction over messages and handlings that beget each other, which
`StoreInv` (the store of a handling names its thread and its message) closes;
`TagsOfMessage` says what `mergeWireTags`, `publish` and `injectIntoTags` leave of any record's tags.
`TraceUnbroken` needs `ActiveInv`: what is loaded stays loaded, so a handling that runs in its message's trace
passes it on. A record that names a cause or a trace of its own keeps it, and the two
properties leave that out. For `ToldTheTruth`, `WireInv` and `ToldInv` list what can be on the wire
and be told; a value is traced back to a handler that ended well, through the broker's cache too, and
`FailureInv` traces an error back to a handling that failed or a body that could not be
decoded; a failure lasts (`FailureLasts`). Nothing is claimed of the status that a lost connection is
mapped to (section 5). Who
hears a message depends on the application's wiring, so `WiringDecides` is stated as
`WiredAsMeant(app) => DeliveredAsMeant`: the static check of sends against handlers decides
for every interleaving of start-up, sending, refusal and rerouting. That the applications of
the run pass the check is an `ASSUME` of `MCMessagePath`. The one assumption on constants is that
`MaxMessages` bounds the messages of each application.

**`NestApplication_proofs`** (any applications that `SetupsAssumption` allows, any number of handlings
and calls): `BusesGoTogether`, `ClientsAreClosed`, `WaitedForCanSend`. They rest on the order of the
hooks: `OrderInv` says what each phase has behind it, in either order of them (`HooksFirst`). The
proxies can send until the server has drained in both; the buses only where the server closes first.
That a scoped proxy is never left with a proxy nobody closes is `MadeInv` over `ProviderMakes`,
which goes through the static methods of `KubeMQModule` one by one. `SetupsAssumption` says that
an application uses these imports, makes proxies by no others, and does not name a client like
the shared one.

Proving corrected the model in places where TLC happened to see nothing: `CASE`s whose guards
overlapped, so that the model was free to take either branch (`CallBus`, `ResolvePatternType`; the
code takes the first), are written as disjoint alternatives now.

Only model-checked: all liveness (`WaiterServed`, `PollEnds`, `RetriesUntilBound`,
`EveryRequestAnswered`, `EveryMessageSettles`, `HeardAsMeant`), which with ENABLED and fairness is
out of the prover's reach. The abstract specifications' own fairness is not part of the
refinements: they state safety only.

## 5. Observations that are not properties

Seen while modelling, each present in the model's behaviours or read in the code, with no run of its
own. Three are at odds with a comment or a document:

- The retry loop retries validation errors, though a misdeclared handler cannot start to bind.
  `utils/error-helpers.ts` 22-23 says that such errors "should not enter the reconnect loop"; `listen`
  keeps them out (`server.ts` 87-106), but the loop takes one that comes while it is retrying as any
  other. `LoopAlive` leaves open which of the two it should do.
- `interfaces/decorator-options.interface.ts` 6 calls `concurrency` an alias for `maxConcurrent` that takes
  precedence; only queues honour it (`server.ts` 332), the other handlers look at `maxConcurrent` (401,
  432, 569, 633). The model of requests and events has no limit, so no run shows it.

- `README.md` 421-422 gives `forTest` another default token, and another default of `isGlobal`, than the code
  has (`module/kubemq.module.ts` 92, 96).

For the others we know of no document that says otherwise:

- `listen()` with `waitForConnection: false` whose attempt fails after `close()` has ended sets
  DISCONNECTED and RECONNECTING after CLOSED, and stays there (`server.ts` 105).
- The rollback's own `client.close()` reports CLOSED while the loop goes on retrying, and after
  the loop has given up the status stays what the last event made it.
- A handler that is bound while `close()` awaits `client.close` leaves an entry in
  `subscriptions` of a closed server.
- A cache that was cleared by `close()` is not written any more, but a poll under way goes on
  without limit, since the semaphore map is cleared too (`AskUnlimited`).
- When the send to the dead letter channel fails, the message is acknowledged all the same.
- `maxCacheSize: 0` keeps one entry.
- In batch mode the validator is given the array of the payloads, and the correlation, the trace
  and the key are those of the first message.
- A key that expired and is added again leaves its old slot in `order`; the next eviction finds that
  slot first and removes the young entry.
- `drain` takes a snapshot: the subscriptions are cancelled after it, so a handler that began later may
  still run when the client is closed.
- A listener that was replayed onto a client is not on the next one after a rollback.
- A timeout covers the Observable only. A promise that a handler returns goes on after it, and with
  retries a second execution may overlap the first.
- A negative `maxRetries` means no try at all: the handler is not called, and the requester is told
  of a success. The model takes retries to be natural numbers.
- What `isConnectionError` takes for a lost connection is not what the error mapper answers 503 for: a
  timeout is a 408, throttling a 429, an error of no kubemq-js class a 500, though their codes or
  texts start the reconnect loop (`utils/error-helpers.ts` 40-51, `errors/error-mapper.ts` 54-84).
- The mock server never serializes a result; its `dispatchEventWithTags` does not subscribe to an
  Observable that the handler returns, and throws for a pattern without a handler
  (`testing/mock-kubemq-server.ts` 86-94); its batch dispatch does not acknowledge, though its
  dispatch of one message does (254).
- A dead letter carries the `x-dlq-*` tags and none of the message's own.
- A dead letter handler is made anew on reconnecting, its counter too, and a health indicator from
  `fromServer` keeps the client it was made with.
- A record's type that does not fit the call (`emit` of a query, `send` of a queue record) is ignored, and
  the message goes as an event or a command.
- A `policy` in a record, which `withDelay` writes, replaces `defaultQueuePolicy` as a whole, its dead
  letter queue included.
- The refusal of an open circuit reaches the requester as it is, not as a `KubeMQRpcException`.
- The scoped proxy prefixes channels given as strings, not as objects.
- The handling of a message without a correlation tag gets a fresh id in its store, while
  `ctx.getCorrelationId()` is undefined in it.
- Of two event handlers on one channel the first one's options, its group among them, hold for both; of
  two command handlers the later replaces the earlier. What the examples say of groups
  (`examples/events/consumer-group`, `examples/rpc/command-group`, `examples/decorators/custom-groups`) holds across
  processes.
- The examples list the classes of their handlers under `providers`, where Nest looks for
  injectables, not for message handlers. `Examples` takes the decorated methods as registered.
- `forFeatureAsync` with `useExisting` needs the class in `inject`; `forRootAsync` and `registerAsync` do not.
- With `forTest` and the CQRS bridge, a real client is created on the mock's address.
- Once the event bus's publisher is replaced, local event handlers hear nothing.
- After a rollback or `onModuleDestroy` the three publishers keep the closed client; an error of its `close()`
  rejects `app.close()`.
- In a hybrid application messages may be handled before `onModuleInit` has replaced the publishers,
  and the client of the buses closes before the server has drained; so it does in a microservice ended by
  a signal. Closing while
  `onModuleInit` is still creating that client leaves it open.

## 6. What is not modelled

- Timing: delays, backoff, jitter and the lengths of timeouts; a timeout is an outcome.
- Encodings: a body is decoded or is not, by its codec. Logging, its bridge, and wording, except
  whether an error's own text is shown.
- `class-validator` and the loading of its package, the wiring of Terminus, the calls that the test
  doubles record, the mock server's four methods for queue messages and its patterns without a handler.
- The classes, codes and texts by which `isConnectionError` knows an error: its answer is the error's kind.
- The server-wide default `eventsStore.startFrom`, and start positions given as numbers.
- The peeking, purging and channel management of kubemq-js, which the library does not wrap: the examples of
  `queues-stream`, `management` and a part of `queues` call kubemq-js directly. The
  examples that replay stored events send none. The others (`configuration`, `connection`, `cqrs`,
  `error-handling`, `health-check`, `module-config`, `observability`, `testing`) show options and start-up; the
  library's side of that is in the other modules. Requeueing in `decorators/manual-ack` is the broker's.
- Interfaces, index files and build configuration, which have no behaviour.
- Several servers on one broker and groups across processes: the choice within a group is the broker's.
- A handler bound anew after a rollback gets a new semaphore and a new cache; `QueueConsumer` is
  the life of one binding.

## 7. Plan

The parts of the library that have behaviour are modelled, and the safety properties of the runs
are proved. What may still be added is proof of more than the runs check:

1. that a dead letter queue's handler hears only what was refused, as an invariant of
   `MessagePath` with `RoutesInv`;
2. the safety halves of the liveness properties: that a poll, a message or a request that is not
   at its end has an action that is not blocked by another's.

## 8. Running it

    tlc -workers 2 -config MCQueueConsumer.cfg MCQueueConsumer
    tlapm BackpressureSemaphore_proofs.tla
    tlapm ServerLifecycle_proofs.tla
    tlapm ClientProxy_proofs.tla
    tlapm RequestPipeline_proofs.tla
    tlapm IdempotencyCache_proofs.tla
    tlapm QueueConsumer_proofs.tla
    tlapm NestApplication_proofs.tla
    tlapm MessagePath_proofs.tla

`PROJECT.json` names the module and the configuration of every run.
