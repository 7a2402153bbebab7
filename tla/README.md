# A TLA+ model of the API gateway

This directory holds TLA+ specifications of the gateway in `crates/`, TLC
configurations that check them on small instances, and TLAPS proofs of the
properties that matter most. Every definition is translated from the Rust source;
`PROJECT.json` maps definitions to lines, lists the hazards the properties are
aimed at, and gives for every checked property a mutant of the code that breaks it.

## 1. Inventory of the system

A request enters through Axum (`server.rs`), is matched to a route, authenticated,
rate limited, looked up in the route's cache, buffered, and sent to an upstream the
route's balancer picks, with retries over other upstreams (`proxy.rs`). Handlers run
concurrently on Tokio's thread pool and share state through atomics and short mutex
sections that are never held across an `await`.

| Part | State | Operations | Interacts with |
|---|---|---|---|
| Circuit breaker (`breaker.rs`) | state, consecutive failures (u32), deadline; one mutex | `allow`, `record_success`, `record_failure`, `state` | asked by the balancer, told verdicts by the handler |
| Balancer (`balancer.rs`) | per upstream: active count, health flag, breaker; a round-robin cursor | `pick` (two strategies), `ActiveGuard` | called by handlers, flags written by health checks |
| Request handler (`proxy.rs`) | locals of the attempt loop; metrics | `handle`, `route_and_proxy`, `finish_response` | everything below and above |
| Rate limiters (`ratelimit.rs`) | map of windows under a mutex; or a counter in Redis | `check` | handler; Redis shared by many gateways |
| Response cache (`cache.rs`) | map with deadlines under a mutex | `get`, `put` | handler |
| Health checks (`health.rs`) | a supervisor, one task with a ticker per upstream | tick, probe, `set_healthy`, stop, join | balancer flags, shutdown token |
| Servers, shutdown (`server.rs`, `main.rs`) | cancellation token, tasks, listeners, connections | bind, serve, drain, await | all |
| Routing (`router.rs`) | none; locals of a loop | `match_route`, `forward_path` | handler, table of runtimes |
| Configuration (`config.rs`), gateway state (`state.rs`) | routes; runtimes by name | `from_file`, `validate`, `build`, `route` | start-up, handler |
| Authentication (`auth.rs`), headers (`transform.rs`) | none | `authorize`, `forwarded_request_headers`, `apply_transforms` | handler, limiter key, cache |
| Telemetry (`telemetry`) | counters, gauges, histograms | `inc`, `set`, `observe` | handler |

What is hard here:

* **Concurrency without a common lock.** `pick` reads the cursor, flags, breakers
  and counts one at a time; each breaker and cache has its own mutex; clock readings
  are taken before the mutex.
* **Late results.** A verdict reaches a breaker that has opened, half-opened or
  closed since the call was admitted; a response is stored in the cache after a newer
  one.
* **Dropped futures.** A client that disconnects ends the handler at any `await`;
  nothing after it runs, only destructors do.
* **Retries.** A timeout does not say whether the upstream executed the request, and
  since the client follows redirects a failed connection does not say so either.
* **Partial failure of Redis.** Three commands, each of which can fail, between
  which a handler can vanish.
* **Shutdown.** Five kinds of task share a token and a chain of awaits; a prober sees
  the token only between probes and may prefer a due tick to it.
* **The same data read twice by different rules.** Credentials by authentication and
  by the rate key; the configuration as a list for matching and as a map by name;
  headers by `finish_response` and again by `cached_response`.

What makes each part correct: the breaker trips exactly at its threshold, sends
nothing while open and honours the cooldown; the balancer finds an eligible upstream
if there is one and keeps exact counts; the handler does not replay what was executed,
always ends, counts each answer once and leaks nothing; the limiters bound bursts and deny only with
cause; the cache keeps its capacity, serves nothing stale and gives every client its
own answer; a request reaches the most specific route and that route's own runtime,
with a path and headers the upstream can trust; a signal ends the process after the
last request and the last probe.

## 2. Modules

| Module | Models | State and actions |
|---|---|---|
| `BreakerOps` | the value behind the breaker's mutex | operators `new`, `allow_at`, `record_success`, `record_failure_at`, `code`; used by the next three |
| `CircuitBreaker` | one breaker and its callers | `breaker`, `call`; `Allow`, `RecordSuccess`, `RecordFailure`, `Abandon`, `Tick` |
| `Balancer` | one route's balancer under concurrent picks | one action per atomic access of `pick` (`DrawTicket`, `LoadHealth`, `AskBreaker`, `LoadActive`, `Acquire`), the end of a call (`Succeed`, `Fail`, `DropGuard`, `Disconnect`), `SetHealthy` |
| `Proxy` | the request handler, composed with breakers, health, guards, cache and metrics | one action per stretch of code between two awaits: `Enter`, `Limit`, `Lookup`, `Body`, `Pick`, `Respond`, `Read`; `StreamEnd`; `Disconnect` |
| `UpstreamCalls` | abstract: what guards and exclusion promise | `Take`, `Fail`, `Release`, `GiveUp`; implemented by `Proxy` and by `Balancer` |
| `HeaderOps` | header maps and `transform.rs` | operators `get`, `insert`, `end_to_end`, `forwarded_request_headers`, `apply_transforms` |
| `RateLimit` | the `rate_limit` settings of a route, given to both limiters | |
| `InMemoryLimiter` | the fixed-window limiter | `check` with its `reset_secs`, `Tick` |
| `Admission` | from the matched route to the first upstream call; composes authentication, `InMemoryLimiter` and `HeaderOps` | `route`, `last`; `Reject` (401), `Admit` (429, or the headers sent) |
| `RedisLimiter` | the Redis limiter of several gateways, with faults | `Incr`, `IncrFails`, `Expire`, `ExpireFails`, `Ttl`, `Vanish`, `RedisTick` |
| `ResponseCache` | the cache, the handlers filling it and the headers it keeps; uses `HeaderOps` | `Hit`, `Miss`, `Produce`, `Put`, `GiveUp`, `Tick` |
| `Router` | start-up validation, the table of runtimes, matching and path rewriting | `Load`, `Receive`, `Consider` (one iteration of the loop), `Dispatch`, `Done` |
| `Lifecycle` | the process: main, signal task, supervisor and probers, two servers and their connections | `Start`, `Bind`, `Await`; `InstallHandlers`, `Signal`, `Cancel`; `SpawnProbers`, `TickerFires`, `StartProbe`, `ProbeEnds`, `StopProber`, `JoinProbers`; `StopListening`, `Drained` and the connections |
| `MCBalancer`, `MCAdmission`, `MCResponseCache`, `MCRouter` | instances for TLC | |
| `CircuitBreakerProofs`, `BalancerProofs`, `ProxyProofs`, `UpstreamCallsProofs`, `ResponseCacheProofs`, `RouterProofs`, `LifecycleProofs` | proofs about the module of that name | |
| `LimiterProofs` | proofs about `InMemoryLimiter`, `Admission`, `HeaderOps` as `Admission` uses it, and `RedisLimiter`, which share the lemmas on sums | |

Conventions. `Option<T>` is a set of at most one element. Time is discrete and
stored instants are offsets from the present which `Tick` moves, clipped where every
comparison the code can make has the same result; time therefore needs no bound. A
clock read before a lock is an `age` of up to `Stall` ticks. Variables and record
fields called auxiliary exist only to state properties. Definitions with an
underscore and a capitalised suffix (`record_failure_at_Late`) are mutants: a
plausible bug in the definition before the underscore, used by no specification.

In `Proxy`, `pick` is one step that takes any eligible upstream and may turn
half-open any breaker it asks; this covers both strategies but not interleavings
inside a pick, which `Balancer` has. The limiter's decision, the route match and the
auth result are free choices there; `Router`, `Admission` and the limiters say which
are taken. A handler that returned a body it did not buffer
is `streaming`.

The client of `state.rs` is built without a redirect policy, so reqwest follows up to
ten redirects inside `send()`. A followed redirect that ends in an answer, a timeout or
too many hops is one of the other outcomes of a call. The outcome `redirect` is the one
that differs: the upstream has executed the request, and the connection to the host it
named failed, which `e.is_connect()` does not tell from a connection to the upstream
itself. What the hosts named in redirects execute is outside the model; `executed`
speaks of the upstreams the handler called.

Header values are sequences of the parts the code splits them into, and a header map
is a function from names to the values of that name in order, so that "the first
value" (`get`) and "all values" (the copying loop) differ as they do in the `http`
crate; one value stands for those `to_str` refuses. In `Router`, hosts, prefixes and
paths are sequences of characters, because ports, letter case, segment boundaries and
closing slashes are what the code looks at.

In `Lifecycle`, what axum's graceful shutdown does is taken from its use: the listener
closes, idle connections close, busy ones after their answer, and the server
completes when none is left. Signals, failures to bind and clients that leave can
happen at any time.

## 3. Runs

| Run | Checks | Bounds and why they suffice |
|---|---|---|
| `circuit_breaker` | `TripExact`, `OnlyStragglersWhileOpen`, `CooldownHonoured`, `NeverStuckOpen` | 3 callers (a tripping one, a straggler, a trial), threshold 2, cooldown 3 ticks, counter of 5 values so that it wraps while open, clock delay 1 |
| `balancer` | `ActiveExact`, `NoSpuriousUnavailable`, `RetriesAvoidFailed`, `LeastLoaded` | either strategy, 2 handlers, 2 upstreams with weights 2 and 1, cursor of 4 values (a power of two that the 3 tickets do not divide, as on the real machine), threshold 1, cooldown 1; handlers are symmetric |
| `proxy` | `NoReplayAfterServerError`, `LoopBounded`, `CountedOnce`, `GaugeErrsByDisconnectsOnly`, `ImplementsCalls`, `EveryRequestEnds` | 2 requests, 2 upstreams, 1 retry: the loop ends by success, by attempts, and by having no upstream |
| `admission` | `BurstBounded`, `DenialJustified`, `CountedUnderItsKey`, `RetryAfterTight`, `HeadersFaithful` | three routes (no auth and limit by address; API keys; tokens and a shared limit), 15 requests with each header absent, empty, repeated and unreadable; limit 1, window of 4 ticks, 2 ticks a second so that seconds are really truncated, clock delay 1; `MaxUsed` is limit + 1, beyond which all checks are denied alike. With limit 1 the two windows of `BurstBounded` meet only through a late reading; the burst of larger limits at a boundary is left to the theorem, which has every limit |
| `redis_limiter` | `RedisBurstBounded`, `ExpiryLostOnlyByFault`, `BlockEnds` | 3 handlers, limit 2, window 2, at most 4 INCRs per counter (two past the limit) and 2 faults |
| `response_cache` | `CapacityKept`, `HitsAreFresh`, `HitsReplayMisses`, `LiveEntriesKept` | 3 keys for 2 places, 2 handlers, ttl 2, request timeout 2, answers with repeated, unreadable and uncacheable headers |
| `router` | `MostSpecificWins`, `RuntimeOfMatch`, `ForwardedRestores` | all 1000 tables of three routes over `/`, `//`, `/a`, `/a/`, `/a/a`, each with and without a host, and a table that breaks each rule of `validate`; three Host headers and all paths of up to four characters |
| `lifecycle` | `DrainComplete`, `ShutdownEnds`, `FlagFollows` | 2 upstreams, one connection on each server: every task can be ahead of or behind every other |

Deadlock is checked except in `router`, where a configuration that fails validation
ends the program, and in `lifecycle`, where the process ends.

Four more runs state what comments or documents of the repository say and end in a
counterexample:

| Run | Statement | What the code does |
|---|---|---|
| `single_trial` | "allowing a single trial" (`breaker.rs:55`) | admits every caller while half-open |
| `replay` | "Don't replay non-idempotent request bodies on retry" (`CONTRIBUTING.md:26`), retries only for "pure connection errors before a response" (`docs/interview-guide.md:33`) | a POST that an upstream executed and redirected to a host that cannot be connected is sent to the next upstream |
| `metrics` | "In-flight requests" (`telemetry/src/lib.rs:38`), "gauge exposes the state" (`ARCHITECTURE.md:54`), "final status code" (`telemetry/src/lib.rs:32`) | see below |
| `redis_blip` | "a Redis blip can't take down traffic" (`docs/design-decisions.md:40`) | an INCR whose reply is lost (the trace TLC finds), or a lost EXPIRE, blocks the key for ever |

`metrics` asks for a state that refutes three descriptions at once: `SomeMetricIsRight`
says that with no request on its way at least one of them is true. In the state TLC finds
none is. One client has left during an await, so `gw_active_connections` stays at 1
(`InFlightShown`; `handle` decrements after the await, without a guard). A failed call has
opened a breaker whose gauge shows closed (`CircuitStateShown`; the gauge is set before
the verdict). And the retry of that call was counted as a 200 before its body was read,
the read failed and the client got 502 (`FinalStatusCounted`). The passing run bounds the
first: `GaugeErrsByDisconnectsOnly` says that nothing but disconnections makes the gauge
wrong. `CountedOnce` says nothing of which status is counted.

Further disagreements with the documents, shown by the passing runs or the models:

* `record_success` closes the breaker whatever its state, so a call admitted before the
  breaker opened closes it without a cooldown, though `open_secs` is "how long the breaker
  stays open before a half-open trial" (`config.rs:195`) and the state machine at the
  top of `breaker.rs` has no such edge. `CooldownHonoured` names this exception and shows
  that it is the only one. `TripExact` holds with it: a success ends the streak.
* The guard of an upstream is dropped when a streamed response begins, so
  "least-connections reflects true in-flight load" (`ARCHITECTURE.md:47`) does not hold
  for long downloads: `ImplementsCalls` maps a `streaming` request to one that is with no
  upstream.
* "Append to any existing X-Forwarded-For chain" (`transform.rs:42`): the handler passes
  `client_ip`, which is the chain's own first address if there is one, so a request from
  p1 with `a1` leaves with `a1, a1` and p1 is nowhere in it. The test at
  `transform.rs:107-112` expects the peer at the end. `HeaderOps` and `Admission` have
  the behaviour; no property is stated about it.
* "LRU-ish eviction" (`config.rs:181`): `put` takes out some expired entry or else any
  entry, in the order of a hash map; use plays no part. `LiveEntriesKept` is what holds:
  a live entry goes only when the cache is full and has no expired one.
* An empty `X-Api-Key` beside a good `Authorization` is skipped by authentication and
  taken by `rate_key`, so such requests share the limit of the empty key.
  `CountedUnderItsKey` has it as its exception.

Fairness. `CircuitBreaker`: time passes, every call ends because reqwest enforces the
request timeout, and clients keep calling; the last is needed because the code leaves
the open state only when asked. `Proxy`: each await ends. Calls and buffered reads do
by the timeout; the code sets no timeout on reading the request body or on Redis, so
there the fairness is an assumption on the client and on Redis. Nothing is assumed
about health checks, expiry or disconnections. `RedisLimiter`: time passes and Redis
answers commands; no fairness on new requests or faults. `Lifecycle`: weak fairness for
every task, which Tokio's scheduler gives, for tickers, for probes (they have a
timeout) and for answers, which is an assumption on clients, since the graceful shutdown
has no time limit. Strong fairness only for a prober taking the shutdown: `select!`
polls its branches in random order, so a prober that finds the token again and again
takes it with probability one; with a biased `select!` it need not, which is the mutant
of `ShutdownEnds`. Signals, failures and upstream changes are not fair.

## 4. Proofs

Every invariant and every action property of the passing runs is a theorem, for every
value of the constants; liveness is left to TLC. What each proof assumes beyond the
ASSUMEs of the modules is a hypothesis of its theorem and is named below.

`CircuitBreakerProofs` proves `TypeOK`, `TripExact`, `OnlyStragglersWhileOpen` and
`CooldownHonoured` for every threshold, cooldown, counter width above the threshold,
clock delay and set of callers (the four ASSUMEs of `BreakerOps`; the threshold is a
u32 itself, so it is below the width). The invariants are not inductive as they
stand. `TripExact` needs `CounterIsStreak`: while closed the wrapping counter equals
the streak of failures, which is below the threshold and so has not wrapped.
`CooldownHonoured`, an action property, needs `DeadlineAfterTrip`: while open, the
deadline plus the time since the trip is at least `open_for - Stall`; a late failure may
move the deadline in either direction but keeps this. So `allow` cannot leave the open
state early, a failure does not leave it at all, and a success while open comes from a
straggler by `OnlyStragglersWhileOpen`. One lemma per action shows that the conjunction
is preserved, from lemmas on what each operator of `BreakerOps` does.

`ProxyProofs` proves `NoReplayAfterServerError` and `LoopBounded` for every set of requests and
upstreams and every number of retries. The inductive invariant `LoopInv` speaks of one
handler at a time: before the loop nothing is excluded or executed; in the loop every
upstream that may have executed the request is excluded, each of them has redirected it
when the method is not idempotent, and there are as many excluded upstreams as attempts; an upstream
being called is not excluded; an upstream is held exactly while it is called, read from
or streamed.

It also proves the refinement `ImplementsCalls`: under the mapping that calls a request
"with" an upstream while it is `calling` or `reading`, every step of `Proxy` is a step
of `UpstreamCalls` or leaves it alone. `LoopInv` is what makes it go through: `Pick` is
a `Take` because the upstream is not excluded, `Respond` a `Fail` or a `Release`
because the handler holds exactly one. `UpstreamCallsProofs` proves, for a finite set of
handlers, that the abstract specification keeps its promise: the count of every
upstream is the number of handlers with it (by counting how one step changes that
set), and no handler is with an upstream that failed it. `TypeOK` of `Proxy`, with its
bounds on the counts, follows from both.

For the metrics, one lemma (`NextMoves`) says that every step moves at most one handler
from one point to another, and that the move decides whether the request is counted and
how the gauge changes. `CountedOnce` and the value of the gauge (`GaugeExact`, for
finitely many requests: those in the handler and those whose client left) follow by
looking at the moves instead of the actions, and `GaugeErrsByDisconnectsOnly` from that
value.

`BalancerProofs` proves all properties of `Balancer`, with its atomic accesses. The
invariant `BalInv` has a part on what a pick has still to look at: for round robin, each
ticket of an upstream that was eligible throughout is either ahead of the pick or behind
it with the pick ended there; for least connections, `best` is no worse than the peak load
of every upstream the scan has passed. `NoSpuriousUnavailable` and `LeastLoaded` are what
is left of it when the scan is over. `ActiveExact` comes from `UpstreamCalls`, which
`Balancer` implements too (`PicksImplementCalls`); this needs finitely many handlers.

`ResponseCacheProofs` proves all properties of `ResponseCache`. `CapacityKept` follows
from how many keys `Put` takes out before it puts one in. `HitsAreFresh` needs the age
of what is being stored: an answer is no older than the request timeout, and an entry's
age is at most that plus the time since it was stored. `HitsReplayMisses` needs that
every stored entry is made from some answer, and that a second pass of the transforms
changes nothing, which rests on configured values being text (`to_str` accepts them); there is at least
one key.

`RouterProofs` proves all properties of `Router`, for paths and tables of any length
over any alphabet. `RouteInv` says of the loop that `best` is the most specific of the
matching routes looked at so far, and of the table that names are distinct, which is what
`validate` gives `RuntimeOfMatch`. `ForwardedRestores` is a fact about sequences.

`LimiterProofs` first shows what sums over the recent ticks do when a request is counted
and when time passes. The bounds of the in-memory limiter then follow from what a window
says of the past: the requests allowed since it began are at most its count and, with
those of the window before, at most the limit more (`AtMost`); and they are at least its
count (`AtLeast`). The first gives `BurstBounded`, the second `DenialJustified`; both
allow for readings of the clock that are late. `BurstBounded` assumes a positive window:
`validate` accepts `window_secs: 0`, with which every check starts a new window and
nothing is limited. `Admission` implies the limiter's specification
(`AdmissionUsesLimiter`, with the invariant `HandledInv` on the last decision), so the
bounds hold for it as they are; its own properties need that an `X-Api-Key` value is one
part, since the code never splits it, and that `Key` holds the rate keys of the requests.

For the Redis limiter the invariant `RedisBurst` says that the counter was made at most
some j ticks ago, that what passed in these ticks is within its count and what passed
before is at most one limit, and that its time to live ends no sooner than a window after
it was made. Faults and late EXPIREs only make j larger, which is why the bound holds
with them. `ExpiryLostOnlyByFault` is inductive together with the types. The bounds
of the model are any numbers with `limit < MaxCount` (`BoundsAssumption`).

`LifecycleProofs` proves `TypeOK` and `DrainComplete` for any upstreams and connections.
The invariant `LifeInv` records what each await of main establishes (`Awaited`), that
the supervisor is done only when every prober is (`Joined`), and that a server without a
listener has no connection (`NoConnection`).

Only model-checked: liveness (`NeverStuckOpen`, `EveryRequestEnds`, `BlockEnds`,
`ShutdownEnds`, `FlagFollows`), which is beyond the prover.

Induction over data. The library's induction theorems cannot be used by the provers that
are installed. Where an induction is needed (sums over finite sets, the segments of a
path, the tickets of a scan) the proofs take a least counterexample instead: the set of
numbers at which the claim fails, if not empty, has a least element, and that is
contradicted. The models use no operator the provers cannot read (`@@`, `:>`,
`SelectSeq`); header maps are written as explicit functions for that reason.

## 5. Not modelled

The choice between the two limiters at start-up, which is made once and leaves each of
them as it is modelled; the syntax of the configuration and the defaults of its fields;
what `jsonwebtoken` does to decode a token (a free assignment of claims and validity);
bodies, error texts, logging, the other counters, histograms and metric rendering;
the constant answers of the admin endpoints; the reset value of the Redis limiter;
Redis losing its data. The in-memory limiter's u32 count is capped by `MaxUsed` rather
than wrapped, and the Redis count is compared before `as u32` would cut it. Configured
header names and values that do not parse, which `apply_transforms` skips, are not in the
transforms of the model. Tests and mock upstreams are not part of the system.

Noticed on the way and not stated as a property, because no line of the repository says
what should happen: `strip_port` cuts at the first colon, so bracketed IPv6 hosts all
compare alike; only the first Cache-Control line of an answer is read, and the cache key
knows neither `Vary` nor any header but Host; a signal before the signal task first runs
ends the process without draining; a gateway that finds Redis down at start-up counts on
its own until it is restarted.

## 6. Plan

Done, in this order because the later parts rest on the earlier: the breaker with its
proofs, the balancer, the handler with its proofs, the limiters, the cache; then
routing, admission, headers and the life of the process, the abstract `UpstreamCalls`
and its refinements; then the proofs of all remaining invariants and action properties.

Next: what the theorems leave to the bounds of a model. `MaxUsed`, `MaxCount` and
`MaxFaults` cap counters that the code lets grow; without them the limiters' theorems
would hold for any run of the code up to the width of its u32. And an abstract limiter,
one allowance per key and period, that both limiters implement.
