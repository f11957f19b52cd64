# Blazingly: verification project

TLA+ models of Blazingly (a Rust web framework: contract-first operations served
over HTTP/1, HTTP/2, MCP and queues), aimed at what makes the code hard to test:
concurrency, failure, ordering, and facts that several parts derive separately and
must agree on; TLC configurations that check them on small instances; and TLAPS
proofs of the core's safety properties for every value of the constants.
`PROJECT.json` maps every definition to the source lines it was translated from.
All paths below are relative to the repository, crates are under `crates/`.

To run it: `tlc -config <X>.cfg <module>` for the runs of section 3, and
`tlapm <module>Proofs.tla` for the proofs of section 4.

## 1. Inventory of the system

For each component: the state it keeps, its operations, what is hard, what must
hold.

### Execution core (`blazingly-executor`, `blazingly-di`)

* **Blocking pool** (executor `lib.rs:98-330`). State: a bounded channel of jobs, a
  mutex-protected vector of idle threads with an atomic copy of its length, a
  token per thread. Operations: `submit`, `run_worker`, `wake_one`, `wake_all`,
  `PoolHandle::drop`. Hard: a hand-written parking protocol without condition
  variables (a job queued between a worker's empty look and its park), drop at
  any time, spawn failure half way. Must hold: no job is stranded, each accepted
  job runs exactly once in order of claims, no more than the capacity is
  accepted, every worker leaves.
* **Blocking call and cancellation** (executor `lib.rs:341-650`). State: one result
  slot and waker per call; a cancellation flag with a list of wakers; the
  process-wide pool in a `OnceLock`. Hard: registration racing completion and
  cancellation, executors that poll with another waker, two first callers that
  both create a pool. Must hold: no wake-up and no result is lost, one pool
  serves everybody, cancellation ends the call even when the job never returns.
* **Invocation pipeline** (executor `lib.rs:1722-2330`). State per invocation: the
  resolved provider values and the outcome; per operation: the cached
  classification `sync_chain`. Operations: hooks, decoding, provider resolution,
  handler, serialisation, finalizers, under an optional abort signal. Hard: a
  dozen early returns which each finalize a prefix of the values, an abort between
  any two awaits. Must hold: exactly the values that were made are finalized, in
  reverse, with the outcome the client is told; cleanup cannot be aborted; a
  signal always ends the call.
* **Dependency graph** (`blazingly-di`, executor `ExecutableApp`). State: providers of
  each plugin, overrides, singletons; per operation the compiled plan. Operations:
  validation, selection along the plugins, compilation, construction of singletons,
  resolution synchronous or awaited. Hard: the check and the compilation select
  separately; the first resolution probes whether the chain needs to wait. Must
  hold: what is accepted can be run, a factory never runs twice, lifetimes are kept.

### Transports (`blazingly-native`)

* **HTTP/1 connection** (`lib.rs:1488-2950`). State: input buffer, pipelined output
  buffer and its count, number of completed requests. Operations: parse, admit,
  relay a streamed body, dispatch, encode, flush, stream, upgrade. Hard: responses
  wait in a buffer while the loop may wait for the peer; 100-continue and
  streaming responses bypass the buffer; shutdown at any await. Must hold: whole
  responses in order, nothing held back, nothing after a close, the connection
  ends after shutdown.
* **Upload channel of HTTP/1** (`lib.rs:2057-2190, 3019-3220`). State: bounded queue
  of chunks, two wakers, error and close flags. Hard: back-pressure with either
  side going away. Must hold: chunks in order, neither side waits for ever.
* **HTTP/2 streams** (`http2.rs`). State: seven collections of streams, window
  credit, work in flight, cancellation tokens. Hard: every way a stream can end
  crossed with work and credit polls in flight. Must hold: credit is returned
  exactly once, nothing is sent on a reset stream, no record survives its stream.
* **Server lifecycle and drain** (`lib.rs:312-402, 754-1330`). State: worker threads,
  connection slots, counters of work, the shutdown flag and its one waker slot.
  Operations: start and confirm workers, hooks, accept, hand to the least loaded
  worker, drain with a deadline. Hard: a worker that fails to start or dies, the
  waker slot, a guard that is not dropped. Must hold: hooks frame the work, in
  reverse; caps and counts are right; a requested shutdown returns.

### Around the request

* **HTTP application and router** (`blazingly-http`, mounting in
  `blazingly-executor`). State: table of static paths, tree of segments, chain of
  layers. Operations: mount, register, recognise, dispatch, extract, respond. Hard:
  backtracking, precedence independent of registration order, prefixes nested in
  prefixes. Must hold: the most specific route is found, every request is counted out once.
* **Contract, macros, OpenAPI** (`blazingly-core`, `-macros`, `-openapi`). No state over
  time, but one signature is turned by separate code into a descriptor, a schema, a
  decoder, a validator, a document and a tool. Must hold: what is published is what
  is accepted and answered, over both transports.
* **Multipart readers** (`blazingly-core lib.rs:1300-1650`, executor's
  `parse_multipart`). Must hold: the streaming and the buffered reader agree
  however the body is cut.
* **Pattern syntax, matcher and its automaton** (`blazingly-validation`, lint in
  `-macros`). Must hold: all engines answer what the pattern means, the lint agrees
  with the parser, reused marks never leak.
* **Sessions and credentials** (`blazingly-security`). State: session store, clock,
  cookies. Hard: one session used by overlapping requests; expiry read under one
  lock and removal under another; security declared in one crate and enforced in
  another. Must hold: a session that was ended stays ended, access is earned.
* **Rate limits and HTTP policy** (`blazingly-middleware`). State: bucket table with a
  bound; the request's context that layers hand on; the file system. Must hold: one
  token bucket per key, forwarded addresses only from trusted hops, bodies decode
  to what was produced, copies of a file are of one version.
* **WebSocket sessions** (`blazingly-realtime`). State: fragment under assembly, close
  handshake. Hard: an error ends a call of `receive` and not the session, so what it
  leaves behind is what the next call finds. Must hold: messages whole and in order but
  for what was refused with an error, one Close of the session's own making.
* **MCP over HTTP and stdio** (`blazingly-mcp`, `blazingly-mcp-stdio`). State: session
  table, lifecycle of each session, audit log, frame reader. Must hold: no call before
  initialize, one reply per request, frames cut anywhere.
* **Metrics and telemetry** (`blazingly-observability`). State: counters, in-flight
  gauge, labelled families with a cap. Must hold: balance on every path, nothing
  counted twice or lost at the cap.
* **Queue and worker** (`blazingly-queue`). State: pending deliveries with visibility
  times, deliveries in flight, attempt counts. Hard: competing workers, workers that
  stop between two calls, adapters that redeliver, overflow in the backoff. Must hold: no
  message is lost or doubled, retries are bounded and not early, only hopeless
  messages are buried.
* **Database transactions and migrations** (`blazingly-database`). State: pooled
  connections with an open transaction; the ledger of applied migrations. Hard:
  failure of commit and rollback, panics, callers that give up, racing migrators. Must
  hold: all or nothing, no connection returns inside a transaction, each migration once and in order.
* **Development loop** (`cargo-blazingly`). State: child process, digest of the tree.
  Must hold: the last change is built in the end, one child at a time, Ctrl-C returns.
* **Templates, configuration, deployment files, facade**: conversions of text and
  data at start-up; only what a template's page becomes as an answer is modelled.

### How the components interact

A connection task (HTTP/1 or HTTP/2) parses a request and calls the HTTP
application, which passes it through the layers, routes it to an operation, checks
its security and runs its *invocation pipeline*. The pipeline decodes arguments, calls
providers and the handler; a synchronous handler goes through a *blocking call* to
the *blocking pool*, whose worker wakes the connection's task again. The server
cancels an invocation through a `CancellationToken` (HTTP/2 reset, timeout, drain), or
by dropping its future. Streamed bodies cross from the connection to the handler
through a bounded channel whose consumption returns window credit in HTTP/2. MCP
servers run the same pipeline for tool calls. Queue workers call handlers of their
own, outside HTTP. Every worker thread owns an application; pool, session store,
metrics, shutdown flag and connection counts are shared between them.

## 2. What is modelled

| Component | Modules | Run |
|---|---|---|
| Blocking pool | `JobPool` (promise), `BlockingPool` | `blocking_pool` |
| Blocking call and cancellation | `BlockingCall` | `services`, `progress` |
| Invocation pipeline | `InvocationPipeline` | `pipeline`, `pipeline_abort` |
| Dependency graph and application lifecycle | `ProviderGraph`, `ProviderChain`; hooks in `ServerLifecycle` | `requests` |
| HTTP/1 connection | `Http1Connection` | `http1`, `http1_tasks` |
| Upload channel | `UploadChannel` | `progress`, `upload_early` |
| HTTP/2 streams | `Http2Streams` | `http2`, `progress`, `http2_late` |
| Server lifecycle and drain | `ServerLifecycle` | `progress` |
| HTTP application and router | `HttpDispatch`, `Router`, `OperationInputs`, `OperationResponses` | `requests`, `services` |
| Contract, macros, OpenAPI | `ApiModels`, `OperationInputs`, `OperationResponses` | `requests`, `services` |
| Multipart readers | `MultipartStream` | `requests`, `multipart_limit` |
| Patterns | `PatternSyntax`, `PatternMatcher` | `requests` |
| Sessions and credentials | `SessionLayer`, `SecurityChecks` | `services` |
| Rate limits and HTTP policy | `TokenBuckets` (promise), `RateLimitStore`, `HttpLayers`, `CompressionLayer`, `StaticFiles` | `requests`, `services` |
| WebSocket sessions | `WebSocketSession` | `requests` |
| MCP | `McpProtocol`, `McpHttp`, `McpStdio` | `services` |
| Metrics and telemetry | `HttpDispatch`, `MetricsRegistry` | `requests`, `services` |
| Queue and worker | `RetryPolicy`, `QueueWorker` | `requests`, `progress` |
| Transactions and migrations | `Transactions`, `Migrations` | `progress`, `requests` |
| Development loop | `DevLoop` | `progress` |

`MCProgress`, `MCRequests` and `MCServices` give constants for TLC to modules that share
no state. Their product would show nothing more, so each behaviour runs one of them,
the variable `part` chosen in the initial state, and the others rest. Where a component's
theorem is about a property that such a run checks, the MC module EXTENDS the component, so
that both speak of one definition: `MCRequests` extends `QueueWorker`, `HttpDispatch`,
`RateLimitStore`, `Migrations` and `WebSocketSession`, `MCServices` extends `BlockingCall`,
`SessionLayer`, `SecurityChecks`, `McpHttp`, `McpStdio`, `MetricsRegistry`, `HttpLayers`,
`CompressionLayer` and `StaticFiles`, `MCProgress` extends `Transactions`. Definitions of these
modules carry the component's name (`LimitInit`, `McpTypeOK`, `HeadNext`) because they meet there; their
properties hold of the parts at rest as well, which stay in initial states. The remaining
runs check a module directly. Operators marked *Mutant* are deliberately wrong variants
of the definition that follows them: replacing that definition by its mutant must
make TLC refute the property that `PROJECT.json` names, which shows the property can
fail. They are used by no specification.

### BlockingPool and JobPool

`JobPool` is what the pool promises: a bounded FIFO from which each accepted job is
taken by one worker and executed once; jobs submitted to a full queue are
refused. `BlockingPool` is the code: `wpc` is a worker's position in `run_worker`
(`take` the first `try_recv`, `register`, `retake` the second, `park`, `woken`,
`run`), `cpc` a caller's in `submit`/`wake_one`, `owner` the builder's and dropper's.
Each region under the `parked` mutex is one action, everything between two regions is
another step, so that all interleavings of the lock-free parts are explored; the
accesses to the counter are `SeqCst`, so interleaving is exact. `token` is
`thread::park`'s token; parks may return spuriously. `BlockingPool` implements
`JobPool` under `waiting <- queue, hands <- job, open <- sender`.

### BlockingCall

Several tasks share one token and each awaits one job. `tpc` is a task's position
in its poll: cancellation first (`signal`, and `register` under the lock), then the
pool lookup and submission on the first poll, then the result slot (`future`).
`woken` says the executor will poll the task; it is set only through the waker of
its latest poll (`mine`), which may change from poll to poll. `CancelSwaps` and
`CancelDrains` are the two halves of `cancel`. `SetsPool` is `OnceLock::set`.

### InvocationPipeline, ProviderGraph and ProviderChain

In `InvocationPipeline` each await of `invoke_pipeline` and
`invoke_pipeline_controlled` is a `stage`. `made` counts resolved providers (the code's
vector is a prefix of the chain, so a number is enough); `held` is the value
that a synchronous factory has put in a future nobody has polled yet, `told` what
each finalizer was told. `Abort` is the branch of `InvocationControl::run` where a
signal is polled ready before the future; `Drop` is the adapter dropping the whole
future at an await.

`ProviderGraph` is `from_plugin_with_overrides`: what the graph check refuses, in its
order, the singletons that are built, and the plan that `compile` selects. Whatever a
plan says of a provider is looked up again by a reference definition (`BuildIsSound`).
`ProviderChain` runs the plan: the four constructors of `Provider` and the `#[provider]`
slots, `resolve`, `resolve_from` and `resolve_controlled`, the probe of the first
synchronous resolution that falls back to awaiting from the provider that waits, and
teardown, for two invocations that interleave (`SlotsFit`).

### Http1Connection, UploadChannel, Http2Streams, ServerLifecycle

`Http1Connection` is one connection on either path, chosen initially by `native`:
`serve_native_connection` (pipelining) or `serve_connection` (TLS and other
transports). Bytes are units: two make a head, each further one is a body chunk. `pc`
is the await the task is at. `wire` is the pending output, `out` what was written, as
entries that name their request, their kind and whether they announced
`keep-alive`. `Serves` is everything the server does when its peer does nothing.
`Owned` is whether an upgrade can take the transport; `FALSE` in the runs.

`UploadChannel` is the relay inside such a request: `relay` is the position of
`dispatch_streaming`, `queued` the channel, `holder` who owns the body (the handler,
the response's stream, a task), the two wakers as in the code.

`Http2Streams` is one connection's loop: at most one activity (a frame, a completion, a
credit poll) between two tests of `shutdown` (`LoopTop`). The collections of the code
are the variables of the same names; `windows` counts the credit returned for each
stream's data, on the connection's and on the stream's window. The codec is external:
it reports events and ignores writes to streams that were reset.

`ServerLifecycle` has both hosts (`kind`), with hooks as counters `up` and `down`, workers
that fail to start or die, connections that are opaque and may never end, background
tasks, and the shutdown flag with `waker`. `AcceptLoop` is the loop's own progress;
`DeadlinePasses` the drain's deadline.

### Router, HttpDispatch, OperationInputs, OperationResponses

`Router` composes modules mounted under prefixes and names (`Mounted`, `Compose`), inserts
operations one after the other, and recognises a path by the static table and the
backtracking walk; the reference is the most specific fitting route. `HttpDispatch` is
`Dispatcher::dispatch` with layers in chain order and in reverse, the telemetry shared by
workers, and requests dropped at any await.

`OperationInputs` follows an argument from the signature (what the macro refuses), through
the inputs providers add and the name checks, to the three places that derive it again:
the document, the HTTP extraction by source and index, the tool call by key.
`OperationResponses` follows a return type: published status, headers and failures, the
outcome made by the wrappers at run time, HTTP's rework by error handlers, and the tool
result with its schema.

### ApiModels, PatternSyntax, PatternMatcher, MultipartStream

`ApiModels` has, for every declared field, the macro's refusals, the descriptor and
schema, the generated validation with its probes for value types, items, nested
models and options, the decoder, and the meaning of the schema; `ContractAgrees` puts
payloads to each. `PatternSyntax` compares the macro's one-scan lint with the
recursive parser on typed texts. `PatternMatcher` has the compiled program, its simulation
with marks and a generation, literals and the lazy automaton, against set semantics. The
scratch memory is whatever earlier matches left: any generation up to `MaxGeneration`, which
stands for `u64::MAX`, and any marks of epochs until then. `Begin` clears the marks when the
generation is at its maximum; every character raises it (`Read`), without looking, so that it
may begin again inside a value, or panic in a build that checks overflow (`ReadPanics`).
`repeats` remembers whether it did, in this value (`here`) or an earlier one since the marks
were last cleared (`before`). `SimulationIsTheLanguage` and `EnginesAgree` speak of answers
given while no epoch has been used twice: those are right. Of the others they say that no match
is invented; that matches can be lost is how the code differs from its comment (section 6).
`MultipartStream` compares the streaming reader, fed in chunks of any size, with
the buffered one.

### SessionLayer, SecurityChecks, rate limit and policy layers

`SessionLayer` lets requests with one session's cookie overlap: load (two locks when
the record is expired), handler, save, removal. `SecurityChecks` goes from
`AppDefinition::build` and the coverage check to the layers' verifiers and the guard; an
application is a constant, so `SecurityAssumption` says what a record of it looks like.
`RateLimitStore` is the slab with its list by age and implements `TokenBuckets`, one bucket
per key. `HttpLayers` has ProxyHeaders, TrustedHost, Cors and RateLimit in any order;
`CompressionLayer` the choice of a coding and a stream encoded chunk by chunk; `StaticFiles`
the resolution of a path, metadata, ranges and bytes while files are replaced.

### WebSocketSession, McpProtocol, McpHttp, McpStdio, MetricsRegistry

`WebSocketSession` cuts the peer's frames anywhere. A call of `receive` is `CallReceive`, the
chunks it reads and the frames it takes, until it returns a message or an error. No error
ends the session: the application may call `receive`, `send` or `close` again, and the frame
that was refused is still in the buffer (`RefuseHeader`: `decode_frame` refuses before it
drains) or gone, with the message in progress as it was (`ReturnError`: `process_frame` and
`decode_close` refuse behind the drain; `dropped` remembers which). A chunk that would overfill
the buffer is lost (`ReadTooMuch`), and the bytes behind it are taken for other frames
(`Misread`). Writes may fail, `send` writes data, Ping and Pong (`sent`) and Close
(`sent close`), the last without asking for the flag that `close` and the answer to a Close
ask for. `McpProtocol` says what one message of
a session means; `McpHttp` adds the table of sessions, dropped requests and the audit log,
`McpStdio` the frame reader and the supervised loop (`FramesAreAnswered`). `MetricsRegistry`
has the locks of the labelled families as steps and the cap on label sets: a request is first
in the histogram (`ObserveDuration`) and then in its route counter (`CountRouteResponse`).

### QueueWorker, Transactions, Migrations, DevLoop

`RetryPolicy` has the arithmetic with `Width` for 32 bits, so that overflow happens on
small numbers; in `MCProgress` one policy fails again and again (`ScheduleStarts`,
`Retry`, `BackoffIsRight`). `QueueWorker` is a
`MemoryQueue` topic (`pending`, `inFlight`, the clock as a remaining `wait` per delivery), its
dead-letter topic, and workers whose `step` is cut at every adapter call. A worker may
`Stop` before any call and `Restart`. `Expire` is external: a broker that redelivers
unsettled messages, as the crate's docs say adapters may; properties that rely on the
in-memory queue say `expiries = 0`.

`Transactions` has each driver call as a step that may fail, the closure that may fail or
panic, pool refusals and callers that give up while their job runs on. `Migrations` lets
releases race on one ledger and stop between two calls; a history is only appended to, which
`HistoryAssumption` says of the releases, not of the code. `DevLoop` is the watch loop with
edits, exits and Ctrl-C at any moment; `apps` are the processes alive.

## 3. Runs and bounds

| Run | Instance | Shows |
|---|---|---|
| `blocking_pool` | 3 callers, 2 workers, capacity 1 | No job is stranded, no sleeper after shutdown, exactly-once FIFO (refinement of `JobPool`), accepted jobs run and workers leave. Capacity 1 with 3 callers makes the queue full, a worker busy and another parking at once. |
| `pipeline` | 2 invocations, 2 providers, hooks; controlled and async ones chosen initially | Teardown on every path, lifetimes nest, cleanup is shielded, a signal ends the call. Two invocations publish `sync_chain` while the other is in the chain; two providers have an order. |
| `http1` | batch 2, 3 requests, body up to 1, 7 units, both paths | Order, nothing held back, close is last, few after shutdown, end after shutdown. Seven units are three heads and a chunk: one more request than a batch. |
| `http2` | 2 streams, limit 1, 2 units each | Credit conserved, held credit is what is unread, silence after a reset, no leftover record. One unit over the limit is possible. |
| `progress` | `MCProgress`, eight parts: queue (2 messages, 3 attempts), retry schedule (3 bits, every policy of small sets), call (1 task, 2 cancellers, 2 wakers), server (2 workers, 2 hooks, 2 connections, cap 1), upload (3 windows of which 2 queue), stream (3 units, limit 2), dev loop (3 edits, one broken), database (2 callers, 1 connection) | Every liveness property, each beside the safety of its part; the backoff is exact until it overflows and never decreases. |
| `requests` | `MCRequests`, eleven parts: 2 requests, one of every kind and one of every route in scope, through 3 chains of up to 3 layers; up to 3 routes of 11 templates and nested mounts; 3 keys in a table of 2; multipart bodies cut in chunks of up to 3; all lists of up to 3 of 6 WebSocket frames and seven longer or refused ones, in chunks of 1, 7 and 16 bytes, messages of up to 4, one message sent by the application, five ways to misread what follows a lost chunk; patterns of up to 2 atoms, one of them quantified, from every generation up to the last, which is 4; 3 releases; applications of up to 3 plugins; 2 messages with 2 workers, a stop and an expiry; every type under every pair of rules, an optional one under each; texts of 3 typed characters after 4 starts | Each part against its reference or abstract specification. |
| `services` | `MCServices`, eleven parts: 2 tasks, 1 canceller, 2 wakers (symmetric); 2 overlapping requests; applications of 6 requirements by 19 chains; MCP sessions over HTTP and stdio; 3 threads' recordings at a cap of one label set; heads, bodies and files; 26 handlers; return types | Safety of what threads and requests share, and that arguments and answers are alike in the document, over HTTP and in tools. |
| `pipeline_abort`, `http1_tasks`, `http2_late`, `upload_early`, `multipart_limit` | small | The divergences of section 6. |

Bounds on otherwise unbounded inputs are named constants (`MaxUnits`, `MaxData`,
`MaxStops`, `MaxExpiries`, `MaxEdits`, `MaxTime`, ...) and finite sets of inputs. They limit
what the *environment* does, never what the code does. `CHECK_DEADLOCK FALSE` is set
throughout because each of these systems really comes to rest: pools are dropped,
connections close, messages are settled, one request has been answered.

The properties, by run. Names in parentheses are the conjuncts a name stands for; a
type invariant is checked beside the first property of each part.

* `blocking_pool`: `NobodyIsStranded` (`NoLostWakeup`, `NoSleeperAfterShutdown`),
  `ImplementsJobPool`, `PoolDrains`.
* `pipeline`: `EveryValueIsTornDown`, `LifetimesNest` (`TornDownInReverse`,
  `HandlerHasEveryValue`), `CleanupIsShielded`, `SignalEndsInvocation`.
* `http1`: `AnsweredInOrder`, `NothingIsHeldBack`, `CloseIsFinal` (`CloseIsLast`,
  `FewAfterShutdown`), `ShutdownCloses`.
* `http2`: `CreditIsRight` (`CreditConserved`, `HeldIsUnread`), `StreamsEndQuietly`
  (`QuietAfterPeerReset`, `StreamsAreForgotten`).
* `progress`: `LifecycleIsSound` (`CountsAreKept`, `HooksFrameTheWork`),
  `AnswersMatchTheDatabase`, `BackoffIsRight`, `WaitsEnd` (`InvocationsEnd`,
  `CreditReturns`, `EveryMessageSettles`, `UploadSettles`, `ShutdownReturns`, `DevReturns`),
  `RelayIsSound` (`QueueIsAPrefix`, `NobodySleepsBesideWork`), `RestartsAreSound`
  (`AppsDoNotOverlap`, `RestIsCurrent`).
* `requests`: `StatesAreSound` (types, and `TableIsConsistent` of the bucket table),
  `MetricsBalance`, `RequestsAreUnderstood` (the router's `RecognizesTheBest` and
  `MountsStayApart`; multipart's `ReadersAgree` and `LookAheadIsBounded`), `SessionIsOrderly`
  (`MessagesAreWhole`, `CloseIsSaidOnce`), `MatchingIsRight` (`SimulationIsTheLanguage`, `EnginesAgree`,
  `LintAgrees`), `MigrationsAgree`, `BuildIsSound` (of providers `ValidatesExactly`,
  `PlanIsExecutable`, and `SlotsFit` once the plan runs; of the contract `ContractAgrees`:
  `EnforcesItsSchema`, `PublishesItsRules`, `PathsNameTheField`, `ExamplesSatisfy`),
  `MessagesAreSafe` (`KeptOnce`, `TriesDecide`), `ImplementsTokenBuckets`, `DeliveredInTurn`.
* `services`: `AwaitIsSound` (`NoLostWakeup`, `ResultIsDelivered`, `OnePool`),
  `AccessIsEarned`, `McpIsOrderly`, `FramesAreAnswered`, `NothingIsMiscounted`,
  `HeadsDecide` (`ClientIsReported`, `HostIsAllowed`, `ChargedAsSeen`, `OriginsAreAllowed`,
  `OriginsAreTold`), `BodiesAreFaithful` (`BodiesDecode`, `EncodedAsTold`),
  `FilesAreWhole` (`ServedIsInside`, `AnswersAreExact`, `CopiesAreWhole`, `DatesDecide`),
  `DocumentIsHonest` (of the arguments, and of the answers: `AnswersArePublished`,
  `TasksFollowTheAnswer`), `TransportsAgree` (with `ToolsAnswerAlike`),
  `RevivedOnlyByOverlap`.

### Fairness

* `BlockingPool`: threads that can run are scheduled and jobs return. Nothing
  obliges the owner to drop the pool.
* `InvocationPipeline`: the worker polls what is ready and cleanup terminates.
  No provider, hook or handler need ever complete.
* `QueueWorker`: handlers return, workers are polled, the clock advances. Stops
  and expiries are never required.
* `BlockingCall`: an executor polls a woken task, a canceller that swapped the flag
  goes on to drain, a finished job's thread goes on to wake. No job need finish.
* `Http1Connection`: weak fairness of `Serves` as a whole: handlers and response streams
  end, and the configured read deadlines fire. The peer may stall for ever.
* `Http2Streams`: the loop is polled (`WF` of `LoopTop`); it polls all work it holds
  fairly, so a stream's completion or credit poll that is ready again and again
  is taken (`SF`): `FuturesUnordered` serves ready work in turn, and `race` polls
  input and work in random order, so frames that keep arriving do not starve work.
* `ServerLifecycle`: the accept loop, the thread that requested the shutdown, each
  worker and a connection that was handed over get on, hooks end, the deadline
  passes. No connection and no task need end; no worker need live.
* `UploadChannel`: the relay gets on because every read has a deadline; the response
  becomes ready because a request timeout is configured; a reader that is awake polls.
  The reader may stop reading and keep the body, or drop it.
* `DevLoop`: the command's own steps, builds included, get on. The application may
  ignore the request to stop; the kill after the grace period works.

## 4. What is proved

TLAPS checks these for every number of callers, workers, messages, providers,
invocations, streams, units and connections and every capacity or policy that the
named `ASSUME`s allow.

* **BlockingPoolProofs**: `TypeCorrect`, `StrandsNobody` (from `JobsAreNotStranded` and
  `ShutdownWakesEverybody`), `WorkersDrainFirst`, and `PoolKeepsItsPromise`
  (`Spec => ImplementsJobPool`). The argument: `NoLostWakeup` is not inductive,
  because it does not say who will wake a worker that has seen an empty queue and is
  about to park. `WakeInv` says it: such a worker is on the idle list, or a caller
  or the owner already holds its thread. It is inductive because registration comes
  before the second look. `OwnerInv` ties the owner's position to who may still
  submit, `SleeperInv` is the same argument for the disconnect, and `JobInv` says which
  jobs are in which hands, which the simulation of `JobPool` needs.
* **InvocationPipelineProofs**: `TypeCorrect`, `EveryPathTearsDown`,
  `LifetimesAreNested` (from `TeardownIsReversed` and `HandlerIsServed`),
  `CleanupIsNotAborted`. `Once` counts the factory calls by stage (with one more while a
  value is held by an unpolled future); `Teardown` says which finalizers have been told
  what at each stage: exactly those between `left` and `made` during teardown. `Frame`
  reduces every step to the one invocation it belongs to.
* **QueueWorkerProofs**: `MessagesStaySafe` (from `MessagesAreKept`,
  `MessagesAreNotDoubled`, `TriesStayBounded`, `AttemptsAreRight`,
  `BurialsAreJustified`), `TurnsAreKept`. The invariant says a message is unsent, queued
  once, or checked out (`Copies`), that until a lease expires a busy worker alone holds
  what is checked out (`Holders`), that attempt numbers are the calls made (`Counts`), and
  what has been judged and buried when a worker is about to settle (`Verdict`); without
  `Verdict` the step from `settle` to acknowledged could lose a message.
* **QueueWorkerProofs**, on `WebSocketSession`: `SessionStaysOrderly` (`SessionIsOrderly`). Whose
  parts a message is made of is said of the frames alone (`PartsBetween`): its first frame and
  every continuation up to the last that was not refused with an error. The invariant `TalkInv`
  says that the fragments that wait are exactly the parts among the frames decoded so far, none
  of them final (`Assembles`); that every message returned is whole, made of frames decoded,
  and older than the next frame, which keeps messages in order (`Delivered`); and that
  `closeSent` is the account of the Closes written, whoever wrote them (`ClosesWritten`,
  `ClosesReturned`). A step that refuses a frame adds it to `dropped`, and a lost chunk changes
  which frames follow; both leave the frames decoded before as they were (`SamePast`), so that
  `WholeStays` and `KeepsAssembling` carry the invariant over every error. The parts move by one
  frame at a time (`PartsGrow`), so that no recursion over the frames is needed. It assumes
  `FramesAssumption`.
* **ThreadProofs**, on `HttpLayers`: `HeadsStayTyped`, `HeadsStayDecided` (`HeadsDecide`), for
  every chain with at most one layer of a kind. `HeadInv` says which layers a request has
  passed and under what: nothing but the connection's own address and host is in effect until
  ProxyHeaders is met (`Untouched`), so what a layer before it saw is still known after it has
  changed both; a host layer passed under the host it saw (`HostsChecked`); a layer that has
  charged is behind the request (`ChargedOnce`); a response that an origin is named in was
  allowed to (`NamesSoundly`, `Permits`), and each Cors layer the response has passed has
  named one (`OriginsNamed`). `ClientIsTraced` follows the loop of `trusted_client_ip`, a
  recursive function, hop by hop: that it exists is `LoopRuns`, by the least number at which
  it would not. `LayersAssumption` is what the layers' constructors establish (credentials
  never go with the wildcard origin) and that `NotGiven` is nothing else.
* **ThreadProofs**, on `CompressionLayer`: `BodiesStayFaithful` (`BodiesAreFaithful`). `BodyInv`
  says that while the encoder is there, all that was produced can be decoded, the producer has
  more to come and no trailer is out (`Encoding`, `Remains`), that nothing is pulled before the
  layers are done (`Unpulled`), and that a poll in progress has the encoder; without the last a
  failure could leave a poll that encodes. What the chunks decode to is the library's
  `FlattenSeq`, a recursive function: `FlattenAppends` shows by the least number at which it
  would fail that a further chunk comes after what the others give. `PreferredIsBest` is about
  the choice of the coding. `BodiesAssumption` says that a source ends, and only at its end, by an
  end or an error, and that chunks are sequences of bytes.
* **ThreadProofs**, on `BlockingCall`: `TypeCorrect`, `AwaitsAreSound` (from `NoWakeupIsLost`,
  `ResultsAreDelivered`, `PoolIsUnique`). `NoLostWakeup` only speaks of a task that
  sleeps, but the wakers are stored earlier in the poll, so `TokenWillWake` states the
  token's half from the registration on: the latest waker is in the list, and if the
  token is cancelled somebody is about to drain it (the flag is read again under the
  lock that the drain takes). `JobWillWake` is the job's half, and `JobStage` shows that a
  future found pending belongs to a queued job, so storing the waker is in time.
* **ThreadProofs**, on `MetricsRegistry`: `NothingGetsMiscounted` (`NothingIsMiscounted`).
  Label sets are compared by themselves, never summed over, so that no fold is needed: a
  series says how many of the threads' calls it was made of. `MetricsInv` adds what the steps
  need: a family warns only at its cap (`FamilyShape`), so that a label set which was lost once
  stays out and the calls lost stay lost, and each thread is in the call its lock belongs to
  (`RegistryShape`). `LabelsGrow` says what one more request does to the label sets: the
  overflow's routes begin only when the others have filled the cap, and from then on none is
  added, so nobody already counted moves. `HistogramGrows`, `CountersGrow` and `SeriesGrows` do
  the same for the values. Assumed are `CallsAreWellFormed` (routes begin with a slash) and
  `RegistryIsBounded` (bounds ascend, as `sanitized_buckets` makes them).
* **Http1ConnectionProofs**: `TypeCorrect`, `ResponsesAreInOrder`, `NoResponseIsHeldBack`,
  `CloseEndsTheConnection` (from `NothingFollowsClose` and `ShutdownIsNear`),
  `BatchIsBounded` (a theorem without a run of its own: a batch never exceeds its limit).
  Each step is first shown to be `Quiet`, to add an entry of the current request
  (`Adds`) or to finish it (`Finishes`): `StepOutcome` is the only lemma that looks at the
  actions. The properties then follow from these three shapes with `EntriesUpToCurrent`
  (entries of the current request are not final while it is served), `CloseIsNear` (a
  close was announced only if all that is left is the body of that response) and `Closing`.
* **Http1ConnectionProofs**, on `StaticFiles`: `FilesStayWhole` (`FilesAreWhole`). `FilesInv`
  follows one answer from its metadata to its bytes (`Held`, `RangeFits`, `BodyTold`,
  `StillGood`): metadata that was read is of a version that was written, a range lies within
  it, and a body is of it unless the file was replaced between the two. `CopyFits` and
  `AskedOfCopy` are the client's half: a copy that nothing excuses is of one written version
  with its tag, and a request under way asks for the byte behind the copy, or for the tag of
  the whole of it; without the latter a part could be joined at the wrong place, or a copy be
  taken for current by another copy's tag. `JoinsOneVersion` uses that a tag without twins
  names one version. Where links lead is a fold and stays closed (`Followed`): that a file is
  below the root follows from the test `resolve_file` makes of it, wherever they lead.
  `FilesAssumption` says that a range has at least one of its two ends and that lengths are
  numbers.
* **Http2StreamsProofs**: `TypeCorrect`, `CreditStaysRight` (from `NoCreditLeaks` and
  `HeldCreditIsUnread`), `StreamsEnd` (from `PeerResetIsFinal` and `NoRecordOutlives`). The
  invariant is one of single streams: `Ledger` (the windows, the body's two counters and
  its channel agree), `Fresh` (a stream nobody has heard of has zeros, an ended one
  receives nothing more) and `Records` (which tables name a stream, by its state).
  `CreditConserved` alone is not inductive: without the channel's part of `Ledger` a poll
  could credit more than was received, and without `Records` a reset could find work that
  no token reaches. `FrameIsLocal` and `WorkIsLocal` show that a step leaves every other
  stream as it was, so each action is argued for its own stream only.
* **ServerProofs**, on `Transactions`: `TypeCorrect`, `TransactionsAreAtomic`
  (`AnswersMatchTheDatabase`), `LeasesAreExclusive`. That a connection in the pool is clean
  is not inductive by itself: the invariant says what a lease is worth, that it is
  exclusive and its connection is out of the pool, and what the connection holds in each
  phase of the job that leases it (nothing before `begin`, the caller's writes until
  commit or rollback), so that the step that returns it is known to return it clean.
* **ServerProofs**, on `Migrations`: `MigratorsAgree` (`MigrationsAgree`). The invariant
  `MigrationInv` says that the ledger is sorted, without duplicates and holds what ran
  (`LedgerOK`), and what a migrator between two statements may rely on (`Applying`): it has
  the lock, its plan is a tail of its set, and what precedes the tail is recorded. Assumed are
  `VersionsAssumption`, `NoVersionAssumption`, `SetsAssumption` and `HistoryAssumption`.
* **ServerProofs**, on `ServerLifecycle`: `ServerFramesItsWork` (`LifecycleIsSound`), for both
  servers. No part of it is inductive by itself. The counts need `HeldByLoop` (what the loop
  holds between the counting and the dispatch of a connection). The hooks need the
  position of the accept loop beside the state of each application (`LoopOK`: a worker not
  yet sent its startup has nothing to do, all are up while connections are accepted, those
  already awaited have stopped), what may stand in a channel (`ChannelsOK`: the startup
  first, the stop last and only after the drain), and that a background batch that is not
  counted can only be scheduled past the deadline (`ConnsOK` with `CounterInstalled`: the
  drain counter is cleared before the hooks run, while connections may still be there). A
  drain that found `active = 0` leaves nothing behind because the counters are right
  (`NothingLeft`): the two halves of the property need each other. `AppSteps`,
  `ChannelSteps`, `LoopSteps` and `ConnSteps` say what any step does to one application, one
  channel, the loop and one connection; the conjuncts follow from these. `ConnsAssumption`
  has `Conns` finite, as the connections opened within one run are.
* **ServerProofs**, on `UploadChannel`: `UploadsAreSound` (`RelayIsSound`). `Filled` is the
  number of data chunks in the channel (a failure, if there is one, is last) and `Edge` the
  last byte they reach, or what was read if there are none. Everything hangs on `Edge`: the
  queued size is `Edge - received`, and what the relay has in hand begins right after it as
  long as it believes in its receiver (`Relayed`). `ChunkSent`, `FailureSent`, `ChunkTaken` and
  `FailureTaken` say what the four operations on the channel do to the two; every other step
  leaves them alone.
* **ServerProofs**, on `DevLoop`: `RestartsStaySound` (`RestartsAreSound`). Only the child can
  run (`OneApp`), and nothing is started while there is one. A build begins on the tree the
  last poll saw, so that with nothing pending the last build compiled that tree or a later one
  (`Watched`); if the tree still is what the poll saw, no edit came in between.
* **HttpProofs** has six independent parts that share no state: the module
  extends the six components, whose names are disjoint.
  * `MetricsStayBalanced` (`MetricsBalance`) and `DispatchIsTyped`. That the gauge counts the
    requests in flight needs to know that one layer alone does the counting (`OneObserver`,
    from `ChainsAssumption`) and that a request which has not come to it is not counted
    (`CountedInOrder`); a step then moves the gauge, the counters or neither by the one
    request it is about, and the rest is the cardinality of a set that gains or loses it.
  * `SessionsRevivedOnlyByOverlap` (`SessionsAreSound`). The action property follows from
    `SessionInv`: whoever still has a removed id in hand is among those that `held` names for
    it, so that a save that revives it comes from one of them.
  * `McpStaysOrderly` (`McpIsOrderly`), from `TableInv` (which sessions exist and how far
    their lifecycle is), `CallsInv` (a call in progress was admitted with a confirmation where
    its tool asks for one) and `LogInv` (the log is a suffix of the answers and is full once
    it has dropped one).
  * `EveryFrameIsAnswered` (`FramesAreAnswered`). The buffer holds what was consumed of the
    frame until that is more than the limit and an end of line (`Buffered`), so that the frame
    is rejected exactly when it is too long, however it was cut (`RejectsRightly`). Every frame
    served has its line or is a notification (`LinesFit`), and the session is beyond its
    beginning only if a line greeted it (`Opened`). It assumes that `NoValue` is no reply.
  * `AccessStaysEarned` (`AccessIsEarned`). `StartupInv` keeps what the contract, the layers
    and the coverage check have established, `PassedInv` what each layer already met has made
    of the requirements, `HeldInv` where each identity in the context comes from. Without
    `StartupInv` a requirement could name a scheme no verifier knows, and the 500 of that case
    would look like one of the application's own making.
  * `RateLimitsHold` (`ImplementsTokenBuckets`). The slab, its free list and its list by age
    are `Sound`: every live slot is on the list once (`Linked`), by its last turn (`Ordered`),
    and under its key (`Filed`). `Link`, `Unlink`, `EvictForgets` and `InsertFills` say what the
    operations on it do; the sweep is a recursive function that the proof follows by its least
    turn. A swept bucket is full because `IdleTtl` is at least the period (`TtlAssumption`), and a
    full one is what the promise gives a key it has never seen. `LimitsAssumption` has `Keys`
    finite: the keys that come within one run are.

Proving found the model at fault twice. `Authenticate`, `McpProtocol`'s refusals and four
other definitions were written as a `CASE` whose arms overlap and rely on their order; TLA+
leaves the choice between two true arms open, although TLC takes the first. They are `IF`
chains now, in the order of the code. And nothing had said that releases share a history, which
`MigrationsAgree` needs.

Only model-checked: all liveness properties (TLAPS has no rules for fairness and
`ENABLED` here); `TypeOK` of `QueueWorker`, because it says `Backoff` is a number and the
provers know nothing of `^` (the proofs leave the type of `wait` open instead, so that they
hold whatever `Backoff` returns), and the schedule of retries (`BackoffIsRight`) for the same
reason; `TableIsConsistent` of `RateLimitStore`, which walks the list by recursion, although
`Sound` says as much of the links; the number of bytes `WebSocketSession` has consumed, which is
a fold over the frames; and the modules that no bullet above names. Many of these compare the
code with a reference definition by recursion over data (patterns, graphs, schemas, routes),
where induction over the data is out of the provers' reach.

## 5. Hazards

`PROJECT.json` lists the hazards with the line where each bites and the properties that
would catch it going wrong; every one is covered by a property of a run. Smaller ones
noticed and not listed: a token keeps the wakers of tasks that have ended; an idle
HTTP/2 read has no deadline; MCP sessions are never evicted.

## 6. Where the code and its words differ

Five runs are expected to find a violation.

1. `pipeline_abort`: `docs/dependency-injection.md:192` says that created dependencies are
   finalized after cancellation. A synchronous factory is called before the signals are
   polled; if one is ready, its value is dropped unseen.
2. `http1_tasks`: background work is documented to start after the response was sent; on
   the pipelining path it starts when the response is encoded, while the response waits
   for its batch.
3. `http2_late`: data for a handler that let its body go is documented to be discarded at
   the cost of its credit; once a credit poll has removed the body's record, the same data
   resets the stream, although its handler is still working.
4. `upload_early`: `docs/architecture.md:313-315` says a truncated upload cannot be reported
   as a complete one; when the response is ready first, the relay stops and closes the
   channel without an error, and a reader that the response or a task still owns sees the end.
5. `multipart_limit`: both multipart readers are said to share the limit on a header block
   (core `lib.rs:1052`); the streaming one counts part of the terminator when the rest of it
   comes with a later chunk.

Met while modelling, not part of a run, and left out of the properties where they would fail:

* **Execution.** `wake_one` may hand its wake-up to a registered worker that has already
  found a job, so an idle worker stays parked while a job waits for a busy one (executor
  `lib.rs:178`, `189`); the worker looks again after its job. A dropped invocation future
  skips finalizers (`docs/dependency-injection.md:126`). A synchronous provider that itself
  returns `internal("async_singleton_provider")` would be taken for an async runner and run
  twice (executor 2115). Inputs of one source and name but different types in a handler and
  a provider are decoded twice and only the handler's is published.
* **Connections.** With a pipeline batch of one, a streamed request's response is still
  coalesced with the next (native 2634), hence `MaxBatch = 2`. Shutdown requested while a
  response streams leaves the connection open for one more request (2787), hence `at + 2` in
  `FewAfterShutdown`; the HTTP/2 loop returns at shutdown with work in flight (`http2.rs:83`),
  although `docs/deployment.md:70` promises a drain. Errors while reading or decoding an upload
  return by `?` without failing or closing the body. If one worker fails to start, the others
  are joined without running the shutdown hooks of what they started.
* **Database, sessions, queue.** Two overlapping saves of one session: the last wins, and one
  may revive a session that was logged out meanwhile (`SessionsAreSound` says only so); a
  renewal between the expiry check and the removal is lost; `clear` followed by
  `set_subject` keeps the id.
* **Layers.** The in-flight gauge leaks when a dispatch is dropped; a 101 is counted among
  the 5xx responses; two `Observability` layers share one telemetry; overflow series exceed
  the cap on label sets by one per method and status (observability 29-35). `Security::build`
  does not compare the kinds of verifier and scheme; the coverage check compares prefixes with
  the template while the guard uses the request's path; layers claim to verify by default; tool
  calls run the pipeline without the HTTP layers. A short `idle_ttl` may forget a bucket that is
  not full (excluded by `TtlAssumption`), and every worker has a store of its own. Denied
  origins and uncompressed variants get no `Vary`; hops that do not parse are left out of the
  chain. A file replaced between metadata and read by one with enough bytes is sent under
  the old tag, `If-Range` by date accepts any change within its second (middleware 1961), and
  two files of equal length and time have one tag.
* **Streams.** WebSocket: a `pong`, data or a second Close may be sent after a Close, the last
  by `send` only; a continuation that is too much for its message is refused after its bytes
  were drained (507, 664), and the next call of `receive` goes on with the message and returns it,
  without that fragment, as the "next complete message" of its documentation (436):
  `MessagesAreWhole` excuses the frames for which a call returned an error, and no others; a
  session that goes on after a chunk was lost makes messages of misaligned bytes; a Close that does not decode is not answered; an end of input inside a fragment
  is `Ok(None)`; a whole data frame inside a fragmented message is accepted; the size limit is
  first applied to the buffer (realtime 458, 579). `next_field` is not cancel-safe while it
  reads a part's beginning.
* **Patterns.** matcher.rs 789-791 clears the marks before an epoch could repeat, since "a wrong
  answer is not something to leave to arithmetic luck". The maximum is looked for before the
  first character only (788); each character then adds one (805). When it is reached inside a
  value, a build without overflow checks goes on with epoch zero, the mark of every address
  not visited yet, and refuses a value that matches; a build with them panics.
* **Mounts.** Tool names replace `.` and `-` by `_`, so namespaces that differ only there
  give two tools one name, although executor 2397-2400 says both stay callable.
* **Schemas.** Rules below the reach of the probes are published and not enforced; null of an
  optional enumeration is accepted without being in the schema; a default may break its own
  rules; the scan for duplicates stops at a limit (`docs/getting-started.md:406-412` says the
  two cannot drift); `additionalProperties: false` is published while unknown keys are dropped;
  bounds of different kinds are not compared; examples ignore some rules; OpenAPI keys
  components by the model's name only. The lint lets stray brackets, empty and oversized
  classes and reversed ranges through.
* **Inputs and answers.** Of two error variants of one status only the last is documented, and
  a declared 422 hides the rejection codes; `missing_input` is published for path arguments
  that always have a value; optional bodies are published as such but refused without a content
  type; aliases are ignored by multipart models over HTTP and may collide between inputs; a form
  silently loses the pairs after one it cannot decode. Streams and HTML as tools can only fail
  after they ran; tool results of optional outputs do not fit their schema; a tool call drops a
  response's tasks and headers; a tool's file argument that is omitted takes another argument
  named `base64`, `data` or `content`. A rejection by a provider answers codes the document
  does not list (http 1691-1694); `Html`, `Sse` and upgrades are documented as 200 with JSON.
* **Development.** An edit during the very first build is not noticed (cargo-blazingly
  1017-1022, against `docs/developer-workflow.md:45`); an error of build or spawn drops the child.
* A call dropped while it is awaited is not audited by MCP, and MCP sessions never expire.

## 7. Abstractions and what is not modelled

Names, payloads, headers and encodings are model values or members of small sets. The HTTP
grammar is reduced to "a whole head is there", "it is malformed", and what the head asks for. A
finalizer that fails is left out, since the crate constructs none. In `Http1Connection` the
HTTP/2 preface switch, `HEAD` and bodiless statuses and the stage metrics are left out. In
`Http2Streams` a connection error, which ends the loop at once, and send windows, which the
codec owns, are left out. `MultipartStream` reduces header lines to the blocks it accepts,
`WebSocketSession` leaves out payloads, so that whether a text is UTF-8 and a Close decodes is
a choice where the size leaves one, and a call of `receive` that is itself dropped
half-way; `RateLimitStore` leaves out the rounding of `f64`,
`SecurityChecks` signatures, hashes and the `require_subject` of a token's default policy,
`McpStdio` errors of the two streams, `CompressionLayer` the encoders. Memory orderings weaker
than `SeqCst` do not occur in the modelled regions. Time is a choice: a deadline may pass
whenever its await is pending.

Two definitions do harmlessly more or otherwise than the code: `JoinWorker` goes on joining
workers after one join has failed, where the code returns; and of several errors in one
dependency graph `ProviderGraph` does not always name the one the code meets first.

External, modelled from how the code uses them: the HTTP/2 codec, database drivers, a
redelivering broker, the encoders, the file system's calls.

Not modelled, and why: configuration, deployment files and the facade are conversions or
re-exports at start-up; the pages and the body of the OpenAPI document, the text of the
metrics, templates and most of the error texts are formatting; the wire parsers, cookies, token
formats and format checks (e-mail, URL) are parsing without state; scaffolding writes files once;
channels and server-sent events of `blazingly-realtime`, borrowed views, settings and the
snapshot of the contract are plain data; the cache of compiled patterns is a list
of one thread's own, searched by the pattern's text and trimmed at its oldest end.

The map covers about 30 % of the implementation's lines, counting each definition's first 150
lines; of the rest, more than 8 600 lines are unit tests inside the source files, and most of
the remainder is the code generation and text just named.

## 8. Plan

Done: all modules of section 2, in this order of importance: the blocking pool, the pipeline,
the queue, blocking calls, both connections (each with proofs); then the server's lifecycle,
transactions and migrations, uploads, and the development loop (proved); the dispatch's
metrics, sessions, declared security, rate limits, both MCP servers, the registry of
metrics, WebSocket sessions, the layers that read a request's head, compression and static
files (proved); and what the macros, the document and the transports
derive from one declaration.

Left, for whoever continues:

1. The composition of `Http1Connection` with `UploadChannel`: the relay's end as one of the
   events of the connection instead of a free choice.
2. A larger `http1` instance with `Owned = TRUE`, and the HTTP/2 preface switch.
3. The channels of `blazingly-realtime` and the cache of compiled patterns.
