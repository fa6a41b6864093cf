# throttleGate: TLA+ models, model checking and proofs

throttleGate is an API gateway: an Express process that puts rate limiting (Lua
scripts in Redis), a circuit breaker per route, retries, health checks and hot
configuration reload in front of a set of upstream services.  This directory holds
TLA+ models of its stateful parts, the TLC configurations that check them on
small instances, and TLAPS proofs of the properties that matter most.

`src/...` below is relative to the repository root.

- [1. The system](#1-the-system)
- [2. The modules](#2-the-modules)
- [3. The runs](#3-the-runs)
- [4. The proofs](#4-the-proofs)
- [5. Findings](#5-findings)
- [6. Not modelled](#6-not-modelled)
- [7. What is left](#7-what-is-left)

## 1. The system

A gateway is one Node.js process.  JavaScript runs one callback at a time, so
there are no data races inside a process: what interleaves is callbacks (requests,
response and error events, timers, promise continuations).  Several gateways
(`infra/k8s/deployment.yaml` runs three) share one Redis, and nothing else.

| component | state it keeps | operations | what makes it correct | modelled in |
|---|---|---|---|---|
| circuit breaker (`services/circuit-breaker-manager.ts`) | state, openedAt, requestLog, totalCount, two half-open counters; one per route | allowRequest, record, reset | opens exactly on the windowed error rate, leaves the backend alone for the recovery timeout, lets a bounded number of probes through, always gets out of half-open | `Breaker`, `CircuitBreaker`, `BreakerContract` |
| proxy (`routing/proxy.ts`) | per request: remaining retries, whether headers are sent | attempt, response callback, error handler, retry timer | one answer per client, bounded attempts, only idempotent methods repeated, one result per attempt, faults stay with their route | `Proxy` |
| sliding-window limiter (`lua/sliding_window_log.lua`) | a sorted set per key, its TTL | one atomic script | no window holds more than capacity; Retry-After suffices | `SlidingWindowLog` |
| token-bucket limiter (`lua/token_bucket.lua`) | tokens and lastRefillTime per key, its TTL | one atomic script | capacity + rate × time bounds what is admitted | `TokenBucket` |
| rate-limiter middleware (`middleware/rate-limiter.ts`) | SCRIPT_SHA; per request the rule it is at | choose Redis, the fallback or the catch clause; stack rules | the limit holds, fails open or closed on purpose, nobody waits for ever | `RateLimiter` |
| Redis link (`services/redis.ts`, `index.ts`) | one availability flag, script SHAs, a reconnection counter per client | connect, close, retryStrategy, script load | a healthy Redis is used, a lost one is noticed | `RedisLink` |
| configuration (`config/`) and router (`routing/router.ts`) | current configuration; route table | poll, parse, merge, notify; rebuild, match | the newest valid configuration wins, an invalid one changes nothing | `ConfigReload` |
| service registry, load balancer (`services/service-registry.ts`, `load-balancer.ts`) | instances by service and id; a counter per service | register, deregister, mark; select | every healthy instance gets its weight, when weights are positive | `ServiceRegistry` |
| health checker (`services/health-checker.ts`) | a timer and two counters per id | start, stop, result, passive failure | thresholds are respected, timers match the registered instances | `HealthChecker` |
| request coalescer (`middleware/request-coalescer.ts`) | in-flight map | lead, follow, clean up | one upstream call per key, every follower settled | `Coalescer` |
| security middleware (`middleware/security.ts`) | header and body timers, rule lists | slowRequestProtection, ipFilter, size limit | complete requests are out of its timers' reach; signed 32-bit words decide a range by its leading bits | `IpFilter`, `Edge` |
| HTTP application (`app.ts`), shutdown (`utils/graceful-shutdown.ts`, `index.ts`) | the process's phase, drain timer, a socket's idle timer | the middleware stack; SIGTERM, uncaughtException | the process always ends; requests drain | `Edge` |
| dashboard (`apps/dashboard`) | React state of the page that is shown | copy, create, revoke, edit, save, navigate | a mark goes away again, Save hits the rule it was opened for | `AdminPages` |
| API-key cache, JWT, retry helper, metrics, tracing, deployment | | | | no (section 6) |

**How they interact.**  A request passes the middleware stack (tracing, security,
CORS, validation), then the rate limiter of its route, which calls a script in
Redis with the clock it has just read, then `proxyRequest`.  That asks the route's
breaker (`allowRequest`), sends the upstream request and, in callbacks, records the
outcome in the breaker (`record`), reports connection errors to the health checker
and either answers or sets a retry timer.  The registry's events start and stop
the health checker's polls; the configuration poller opens a Redis client of its own
every time, applies what it reads to the configuration, and a subscriber rebuilds
the route table in place, under requests that are waiting for Redis.

**What is hard about it.**  Results of calls arrive in another order than the calls
were admitted, and in another state of the breaker; an attempt can report a
success and later an error; the clock is read in one process, the script runs in
another, and in an order of its own; keys expire; half-open is left only by
results, and a result that never comes is not noticed; a request that was answered
can still be retried; all Redis clients write one flag; scripts are loaded once; a
command is sent again after a reconnection; polls overlap; a timed-out check is
counted twice; a leader's end deletes the entry of its successor.  `PROJECT.json`
lists every such hazard at its line under `hazards`, with the property that
would catch it.

## 2. The modules

Operators whose comment starts with "Faulty" are variants used to test the
properties; no specification calls them.

### Breaker, CircuitBreaker, BreakerContract

`Breaker.tla` is the class `CircuitBreaker` as operators on one record, in the
order of the source: `TransitionTo`, `AllowRequest` (with `Allows` for what it
returns), `Record`, `Reset`.  Two things are abstracted.  `requestLog` is a bag
(outcome × timestamp → number of entries) because the array's order is never
read.  `latency`, `failureCount` and `halfOpenFailCount` are left out because they
are written and never read.  `totalCount` is kept, unbounded as in the code.

`CircuitBreaker.tla` shares one record between the calls of a route.  One action is one
callback of `routing/proxy.ts` that touches the breaker:

| action | code |
|---|---|
| `Admit` | `attempt()`: allowRequest says yes, the request is sent |
| `Throw` | `attempt()` throws between allowRequest and the registration of its handlers |
| `Respond` | the response callback; a status below 500 is a success |
| `Fail` | the `error` handler, also after the response has arrived |
| `Finish` | the end of the body |
| `ManualReset` | `reset()` |
| `Tick` | `Date.now()` advances |

`probes`, `trippedAt` and `since` are history variables: no guard reads them.
`since` is the log of everything recorded since the last close, without pruning, so
that the pruned log can be compared with it.

`BreakerContract.tla` is the state diagram of the README's "Circuit Breaking"
section: three phases, the moment of the opening, and the two counters of the
half-open arrow.  It has no log and no calls.  `CircuitBreaker!ImplementsContract`
maps the class to it field by field.

### Proxy

`Proxy.tla` models `proxyRequest` for the requests of one route, which share the
breaker (the operators of `Breaker`) and the process.

| action | code |
|---|---|
| `Start` | the first `attempt(maxRetries)`: 503, sent, or thrown (502 from the catch) |
| `Retry` | the retry timer: `attempt(remaining - 1)`, refused by the breaker or sent |
| `Respond` | the response callback: `record`, `writeHead`, `pipe` |
| `StreamEnd` | the piped body ends, or the upstream closes in mid-body |
| `UpstreamError` | the `error` handler: `record`, mark the instance unhealthy, retry or 502 |
| `Exit` | `process.exit(1)` one second after an uncaught exception |
| `CheckPasses` | a successful poll of the health checker, as seen from here |

`answer` is what the client has been sent (`res.headersSent` is
`answer # "none"`).  A second `writeHead` throws in an event callback: no promise
catches it, so `gateway` becomes `"dying"`.  A second `res.status(503).json()`
throws inside a promise whose rejection is only logged.  Backoff delays are not
timed: the timer may fire at any later moment, which includes every jittered delay.

### SlidingWindowLog

`SlidingWindowLog.tla` is one key of the Lua script as several gateways call it.
`Send` is the gateway reading its clock and sending the call; `Run` is the
script, atomic, working with that old clock; `Expire` is Redis dropping the key.
Calls of one gateway keep their order (one connection), calls of different ones do
not.  The sorted set is a set of scores, not of members: the member is
`now:math.random()`, Redis (version 7 in `docker-compose.yml`) seeds the
generator alike for each script, so equal milliseconds give equal members.

### TokenBucket

`TokenBucket.tla` is one key of `lua/token_bucket.lua`, called as in
`SlidingWindowLog`, with timestamps in whole seconds.  The script is split by its
outcome, `Admit` and `Reject`; both refill, set `lastRefillTime` to the caller's clock
and renew the TTL.  `last = Never` is a missing key, which the script reads as a
full bucket.  Tokens are counted in the unit in which the rate per second is
whole (for 0.5 tokens per second, half tokens), so the script's fractions are
integers; the rounding of doubles is left out.  `RetryAfter` includes the conversion
that Redis applies to a Lua number in a reply: it keeps the integer part.

### RedisLink, RateLimiter

`RedisLink.tla` has the clients of `services/redis.ts`: the limiter's, and one for
each configuration poll, which `hotReloadConfig` creates, connects, reads with
and quits.  What ioredis does is modelled from how `redis.ts` configures it:
`retryStrategy` gives up after `MaxReconnects` (5), a command is rejected or sent
again when the link comes back.  `flag` is `_isAvailable`, which every client's
`connect` and `close` handlers set.  A connection is lost in two ways: Redis stops
(`RedisStops`), and its script cache with it, or the connection alone is reset
(`LinkResets`), after which a command that had run unanswered runs again.

`RateLimiter.tla` puts the boot of `index.ts` and the stacked rules of
`middleware/rate-limiter.ts` on top.  What a script answers is any verdict here.

| action | code |
|---|---|
| `BootConnected`, `BootLoads`, `BootGivesUp` | `bootstrap()`: connect, ping and loadScript, or give up and serve |
| `Arrive` | the middleware of a route's rules, up to the first awaited reply |
| `ScriptRuns` | Redis runs the script of EVALSHA, or answers NOSCRIPT |
| `Reply` | the continuation behind `await`: next rule, 429, or the catch clause |
| `Rejected` | the command is given up; the catch clause |
| `LimiterCloses` | the limiter's `close` event; commands in flight will be sent again |
| `LinkStep` | every other event of the link: polls, reconnections, resets of a connection, Redis stopping and starting |

`Checked(i)` is the code between two awaits: flag, sha and link decide for every
further rule whether a call goes out, the fallback answers (429, or the request goes
through under `redisFailOpen`), or the catch clause does.

### ServiceRegistry, HealthChecker

`ServiceRegistry.tla` is the registry as one sequence in the order of
`getAllInstances`, with the `/register` endpoints' operations and the
load balancer's weighted round robin (`Select`, `NextTurn`, `Chosen`).  Weights are
integers other than 0, since `/register` takes whatever is truthy (`app.ts:95`): `%` is
JavaScript's, which keeps the sign of the counter, and a total of 0 makes the counter
`NaN`, for which the first instance is chosen ever after.  Fractions, which the schema
of the configuration allows (`schema.ts:91`), and strings, which `/register` would also
take, are not modelled.
`HealthChecker.tla` adds the polls.

| action | code |
|---|---|
| `Register`, `Deregister` | `POST` and `DELETE /register`, with `startChecking` and `stopChecking` |
| `CheckStarts` | the interval's callback: the first instance with the id, at the timer's url |
| `CheckAnswered` | the response callback and `recordResult` |
| `CheckUnanswered` | `error`, or `timeout`, which records and then destroys: a second failure |
| `CheckEnds` | the connection closes, or the unread response times out late |
| `PassiveFailure` | `recordPassiveFailure` from the proxy's error handler |
| `Selected` | `select()` |

The counters saturate at their thresholds: the code compares with `>=` only.
`Cumulative` is the running sum of the load balancer's two loops.  The specification
is `DiscoverySpec`: its names differ from those of `Coalescer`, with which it shares
a module of proofs, and so do those of `AdminPages` (`DashboardSpec`).

### ConfigReload

`ConfigReload.tla` counts documents: the value of a field is the number of the
document it came from.  A document has some of the fields, is accepted by the
schema or not, and has a number of routes that can be registered before one throws.

| action | code |
|---|---|
| `Push` | `pushConfigToRedis`, or another writer of the key |
| `PollStarts`, `PollReads`, `PollFails` | the interval of `startConfigPolling`; `GET` answered; the swallowed error |
| `PollApplies` | parse, `updateConfig`, and the subscriber of `buildRouter`, in one go |
| `Match` | the express router finds the route as the table is now |
| `Proxy` | the limiter's `next()`: `proxyRequest` with the route it was registered with, and `getOrCreate` for its breaker |

### Coalescer

`Arrive` leads or follows; `End` and `Destroy` are the hooks on the leader's
response, and `LateEnd` is the first of them again, which stays in place when a
response is destroyed and then takes away the entry of whoever leads by that time.
(In the gateway only `req.destroy` of `security.ts` leads there: nobody calls
`res.destroy`.)  `ClientLeaves` is the disconnect that undoes a pipe; `Cleanup` the interval
of `index.ts`.  `Settle` is what they share: entries removed, promises settled, and
the followers' handlers, which run before the next event.  A follower whose leader
failed is left `"unanswered"`: its handler calls a `logger` the module does
not export.

### IpFilter, Edge

`IpFilter.tla` is `ipFilter` with the three kinds of rules.  An address is a dotted
quad, the number of `Width` bits that `ipToNumber` makes of it (32 in the code), or one
of `Unparsed`, of which it makes `null`: IPv6, and IPv4 mapped into it, as a dual-stack
socket reports it.  A range is decided as in the code: `~`, `&` and the mask are
operations on signed words of `Width` bits, a length of 0 or more than `Width` is no
match, and one that does not parse (`NaN`) slips through both comparisons and masks
nothing off.  A rule with an asterisk is the set of addresses that its regular
expression matches.  `Covers` is what rules mean, bit by bit.

`Edge.tla` passes requests of every kind (`Kinds`) through the stack of `createApp`.

| action | code |
|---|---|
| `Arrive` | the middleware stack in its order (`Verdict`), and the start of the timers |
| `Chunk`, `BodyEnds` | the `data` and `end` listeners of `slowRequestProtection` and the body parser |
| `ParserRefuses` | `express.json` refuses the body (charset, syntax, size); the error handler answers 500 |
| `Responds`, `Streams`, `Fails`, `Finishes` | `proxyRequest`'s response, its piped chunks, the last error, the end of the body |
| `TimerFires` | either timer of `slowRequestProtection`: 408 unless headers are sent, and the connection is destroyed |
| `SocketTimesOut` | `server.timeout` (`index.ts:49`): nothing was read or written for so long, and Node destroys the socket, whatever it waits for |
| `Leaves` | the client goes |
| `Sigterm`, `ServerCloses`, `QuitsRedis`, `DrainTimerFires` | `shutdown()` |
| `DiesOfException` | the `uncaughtException` handler's `process.exit(1)` |

`client` says whether the client is there, has gone, or was cut off; an exchange that
waits for its upstream goes on without it (`Disconnected`), as `proxyRequest` does.

### AdminPages

The React state of `ApiKeys.tsx` and `RateLimits.tsx` under the router of
`App.tsx`; one action per handler, a click and its rendering being one step.
`Copy`, `CopyWritten` and `CopyRefused` are `handleCopy` before and after its
`await`, `Unmark` its timer.  `Navigate` mounts a page afresh.  What is typed into the
key dialog and which keys are shown in clear are left out.

## 3. The runs

`tlc -config X.cfg M` in this directory.

| run | module | checks | bounds, and why they are enough |
|---|---|---|---|
| `breaker` | `MCCircuitBreaker` | quiet period, probe limit, no wedge without a cause, an open circuit left alone, trips exactly on the windowed rate; an open circuit is probed, half-open resolves unless a probe threw; the contract is implemented | 4 calls, 2 probe slots, 3 ticks: one call can trip the circuit alone (an error status and then a broken body), two are probes, and the fourth knocks while both slots are taken, or its late result arrives; recovery takes one tick, so the circuit can open again and be probed again; the window (1) is shorter than the run, so entries are pruned |
| `proxy` | `MCProxy` | attempt bound, all attempts recorded, no attempt while open, what can bring the process down, everyone is answered | a GET with two retries, a POST and one unsendable request; the circuit opens after two results, so one request's failures refuse another's retry |
| `window_one` | `MCSlidingWindowLog` | the pruned and expiring log decides as the whole history would; Retry-After suffices | window 3, capacity 2, 5 requests, 9 ticks: two windows fill, and the TTL (6) passes within the run |
| `bucket_one` | `MCTokenBucket` | no interval gives out more than capacity and flow; a request is refused only for that; Retry-After is short by less than a second | capacity 4, rate 2, cost 3, 5 requests, 13 ticks: fractions of a second are missing, the bucket fills and spills, the TTL (10) passes within the run |
| `limiter` | `MCRateLimiter` | fail-closed counts by every rule, fail-open refuses only on a verdict, how often a request is charged; everyone is decided | 2 requests, 2 rules, a poll's client, 2 losses (Redis stops, or a connection is reset with Redis up), 1 reconnection: two resets charge a rule three times, a stop loses the scripts between two rules, and the client can have given up for good |
| `discovery` | `MCHealthChecker` | only registered ids are polled; a turn gives each instance its weight; a dead instance is taken out, a well one taken in again | 2 services sharing 2 ids and 2 urls, thresholds 2 and 3, 3 calls of `/register`, 1 change of a server: re-registration under another url, one id in two services, deregistration under a check in flight; weights 1, 2 and -2, so that a total may be 0 or negative |
| `reload` | `MCConfigReload` | breaker options, what can take a field back to an older document, the newest takes effect | 2 polls, 3 documents (whole, partial, half registered, refused), 2 routes, 2 requests: a poll reads, another overtakes it, and it applies what it has |
| `coalescer` | `MCCoalescer` | one request of a key at a time; who waits is timed; who waits is settled | 3 requests of one key (a leader that stays too long, or ends after its destruction, its successor, a third) and one of another whose end cleans up; maximal age 1 |
| `edge` | `MCEdge` | rules against their meaning, why a complete request is cut off, what can end the process; a signal does | 1 request: the properties speak of each request by itself, or of the process, which any one request can end or delay, and the theorems cover several.  It has no body and comes from one of 8 quads or a mapped address, or is of any of 8 kinds from one of them.  Header, body, socket and drain timeouts are 1, 2, 2, 2, in the order of the code's 10 s and three times 30 s: a socket can time out before, with and after the other timers.  Every pair of 22 lists: none, ranges of subnets 1, 6 and the mapped address with 0 to 4 bits or `NaN`, a wildcard, an exact rule, three rules at once; 3 bits are enough for a word with its sign, a mask in its middle, and subnets with host bits set |
| `admin` | `MCAdminPages` | the mark of a copy, which rule Save touches | 3 copies with timers of 2 ticks, 1 key and 1 rule with room for one more each |
| `proxy_crash`, `limiter_flag` | of the family | one statement of the repository each, which the code does not keep (section 5) | the smallest instance that shows it |

Ten more configurations are to be run by hand with the module of their family
(section 5).

With one gateway a connection keeps calls in order; `DecidesByHistory` and the
bounds of the two scripts need that, as `window_replicas.cfg` and
`bucket_replicas.cfg` show (section 5).  `MaxDelay` is the longest a call may take from reading the clock to
running; the bounds hold as long as the TTL is longer than what it protects by
at least that much.

**Bounds.**  `MaxTime` bounds the clock in the guard of `Tick`; `Calls` and `Reqs`
the number of calls; `MaxLosses`, `MaxCalls`, `MaxTurns`, `MaxPushes` and
`MaxCopies` how often the environment acts; nothing else is bounded.
`CHECK_DEADLOCK` is off where the instance really stops (all requests decided, the
process gone), and on in `reload`, whose polls go on for ever.

**Symmetry.**  Calls are interchangeable; requests are within their kind
(`KindSymmetry`).  Only configurations without liveness use it.

**Fairness.**

- `CircuitBreaker!Fairness`: time passes; clients keep asking (weak fairness on
  "some call is admitted"); each sent call ends in a response, an error or the end
  of its body, because `route.timeout` destroys every stalled request
  (`routing/proxy.ts`, the `timeout` handler).  `Throw` has no fairness.
  `OpenIsProbed` asks only for openings whose timeout ends within `MaxTime` and
  while a call is left to knock.
- `Proxy!Fairness`: the same for each attempt, and timers fire.  Nothing is
  assumed of clients.
- `RateLimiter!Fairness`: sockets report their end, timers fire, the poll's interval
  goes on, a connected Redis answers what it is sent.  Whether Redis stops or
  starts, or a connection is reset, is nobody's duty, and a client that has given up stays so.
- `HealthChecker!DiscoveryFairSpec`: intervals fire, and a check comes to its end because of
  its idle timeout.  Nothing is assumed of servers, the proxy or `/register`.
- `ConfigReload!FairSpec`: the interval fires and replies are applied; strong
  fairness for the read, which a failing connection can keep interrupting but
  which is tried for ever.
- `Coalescer!FairSpec`: a response whose client is there ends (the proxy answers
  everyone, `EveryRequestAnswered`); the interval of `index.ts` fires.  Nothing is
  assumed of a response whose client has left.
- `Edge!FairSpec`: timers fire and callbacks run; nothing is assumed of clients
  and upstreams.  `AdminPages!DashboardFairSpec`: timers fire; nothing is assumed of the operator.

Each component has a type invariant (`TypeOK`, `DiscoveryTypeOK`, `DashboardTypeOK`).
All of them are proved (section 4) and none is checked by a run as well.  TLC
checked them, and the inductive invariants, before they were proved, by adding
them to a run's `INVARIANTS`.

## 4. The proofs

`tlapm M.tla` in this directory.  All is proved for every value of the constants
that the modules' assumptions allow: the number of calls, requests, gateways,
services and rules, the widths, weights, windows and timeouts included.  Every
safety invariant and action property that a passing run checks has a theorem.

| module | theorem | says |
|---|---|---|
| `CircuitBreakerProofs` | `TypeCorrect` | types, and the bounds of the half-open counters |
| | `QuietPeriodHolds` | no probe within the recovery timeout |
| | `ProbeLimitHolds` | at most `HalfOpenMaxRequests` probes per episode, and the counter is their number |
| | `NoWedgeHolds` | a half-open breaker that refuses everyone has a probe without a result |
| | `OpenLeftAlone` | late results do not move `openedAt` of an open circuit |
| | `TripsExactlyOnErrorRateHolds` | a closed circuit opens exactly on the number recorded and the rate of the window |
| | `Refinement` | `Spec => ImplementsContract` |
| `ProxyProofs` | `TypeCorrect` | types, and the bounds on attempts and results |
| | `AttemptBoundHolds` | 1 + maxRetries attempts, 1 if the method is not idempotent |
| | `BadGatewayIsLastHolds` | 502 only when every retry has failed |
| | `AttemptsRecordedHolds` | every attempt sent tells the breaker once or twice |
| | `FallsOnlyToAnsweredRetryHolds` | what can end the process |
| | `RetriesAskTheBreakerHolds` | no attempt while the circuit is open |
| `SlidingWindowLogProofs` | `TypeCorrect` | types |
| | `StampsWithinLimitHolds` | no window holds more timestamps than the capacity (1, 2) |
| | `DecidesByHistoryHolds` | the pruned, expiring log decides as the whole history would (1, 2) |
| | `RetryAfterSufficesHolds` | who waits as told finds room (3) |
| `TokenBucketProofs` | `TypeCorrect` | tokens stay between 0 and capacity |
| | `IntervalBoundHolds` | no interval gives out more than capacity and flow (1, 2) |
| | `DecidesByHistoryHolds` | that bound is the only reason to refuse (1, 2) |
| | `RetryAfterWithinASecondHolds` | who waits a second more than told is served (4) |
| `RateLimiterProofs` | `TypeCorrect` | types of the link and the requests |
| | `FailClosedChecksHolds` | fail-closed: who gets through was counted by every rule |
| | `FailOpenAdmitsHolds` | fail-open: only a script's verdict refuses |
| | `ChargeBoundHolds` | one call of a rule's script, and one more for each loss of a connection |
| | `FlagLostHolds` | a ready limiter loses the flag to a poll's client only |
| `EdgeProofs` | `TypeCorrect` | types |
| | `CompleteIsCutOnlyIdleHolds` | a request whose body has arrived gets no 408, and is cut off for idleness only |
| | `FallsOnlyToSlowUploadHolds` | what can end the process here |
| | `ExitZeroMeansDrainedHolds` | exit 0 leaves nobody connected |
| | `AdmittedByRangeHolds` | signed words and masks admit by the leading bits, at any width; wildcards, exact rules and addresses that are no quad as they are |
| `UpstreamProofs` | `CoalescerTypeCorrect` | types |
| | `SingleFlightHolds` | one request of a key at a time, while none overstays or ends after its destruction |
| | `WaitersAreTimedHolds` | who waits is found by `cleanup()`, with the same exception |
| | `DiscoveryTypeCorrect` | types of the registry, the turns and the checks |
| | `PolledIffRegisteredHolds` | timers and registered ids correspond |
| | `TurnIsFairHolds` | a round of the load balancer gives each instance its weight, all weights being positive integers and the counter a natural number |
| `AdminProofs` | `ReloadTypeCorrect` | types |
| | `TableFollowsConfigHolds` | the table is of the configuration in force |
| | `OptionsOfAnEarlierRequestHolds` | where other breaker options come from |
| | `BackOnlyByOverlapHolds` | polls one after the other never go back |
| | `DashboardTypeCorrect` | types of the pages |
| | `SaveKeepsToItsButtonHolds` | an open rule editor changes the rule of its button only |

**Hypotheses** beyond the modules' assumptions, where the table has a number:

1. `OneGateway`.  Necessary: `window_replicas.cfg` and `bucket_replicas.cfg` (section 5)
   violate the bounds with two.
2. `PromptCalls`.  A call runs no later after its timestamp than the TTL allows:
   `MaxDelay <= Second` for the log, whose TTL is the window rounded up and one
   second more; for the bucket `Rate * MaxDelay <= 4 * Capacity`, since its TTL is
   five times the time an empty bucket takes to fill, and a rate that is not below
   the floor in the formula of the TTL.  An ordinary call to Redis takes milliseconds;
   one that ioredis queues while reconnecting can be later, and the theorems say nothing of it.
3. `OneRule` and `Cost = 1`, the schema's default.  `window_rules.cfg` (section 5) needs two rules on one
   key; with a larger cost the code's answer is about one slot where several are needed.
   Any number of gateways.
4. `Rate # 0` and `Cost <= Capacity`.  Without them no waiting helps.

Two components share `UpstreamProofs`, and two `AdminProofs`; each half has its
own invariant and uses nothing of the other.

### Circuit breaker

**The invariant.**  None of the first properties is inductive.  `IndInv` adds to the type:

- `CountersAtRest`: outside half-open both probe counters are 0, so an episode
  starts from nothing.
- `Stamped`: `openedAt` is set exactly when the circuit is not closed, equals
  `trippedAt` then, and half-open is entered late enough.  `QuietPeriod` is
  lost without the equality, since the code checks its own stamp.
- `ProbesSent`: no call that is still `new` is a probe, so a newly admitted
  call adds one to the cardinality.
- `ProbesCounted`: the counter equals the number of probes.
- `OverMeansPassed`: in half-open, the probes that are over number no more than
  the passes.  A success raises both; an error leaves half-open; a stale success
  raises the passes only.  Together with "passes are below the limit" this
  gives `NoWedge`.

The lemmas on the operators of `Breaker` come first: what `Record` and `AllowRequest`
leave in the fields that matter, so that the state machine's proofs never unfold them.
There is a lemma for admissions and one for records; `Inductive` assembles them.  `Refinement` maps every
action to an arrow of the diagram or a stutter, and uses `CountersAtRest` for the
arrows into half-open.

**The log.**  `TripsExactlyOnErrorRate` compares what the code looks at, a log that
is pruned at every record and a count that never is, with the history since the
last close.  `LogFollows` relates them: the count is the size of the history, and the
log agrees with it on every timestamp that is still within the window.  Since
windows only move forward, pruning loses nothing (`LoggedIsWindow`).  The sizes are
folds over a bag; `TakingInduction` and `SumsExist` unfold the fold once, by
choosing the least number of entries for which a claim fails (`LeastNatural`), and
`OneMoreRecorded` is what is needed of it: one more entry raises the sum by one.

### Proxy

`IndInv` is an account per request (`Account`), which relates its phase to the
attempts sent and left, its results, and what its client knows.  An attempt under
way satisfies sent + left = retries + 1, a backoff sent + left = retries; an attempt
whose response has come has one result and room for another; headers can only be
sent already when a later attempt is waiting (`AnswerFits`), which is why a fall of
the process has an answered, retried request behind it.  A step touches one
account (`OneAccount`).

### Sliding-window log

The set of scores forgets in two ways: a call prunes it by its own clock, and
Redis drops the key.  `Remembered` says what it must not forget: for every
timestamp t that a call may still carry (`MayCome`), the log pruned at t is the
admitted part of the window at t.  A call's own pruning takes away nothing that a
later timestamp would count, because with one gateway timestamps run in order
(`Ordered`).  When the key is dropped, `KeyLives` says that every score is older
than its TTL, which is the window and a second, so that no call that is prompt
can count it.  `DecidesByHistory` is `Remembered` at the timestamp of the call that runs;
`StampsWithinLimit` is one conjunct more, since a decision by the whole history
admits only into a window with room, whose newest timestamp is the call's.

### Token bucket

`IntervalBound` alone is not inductive, since it says nothing of what is still in the
bucket.  `Covered` strengthens it: what was given out since second i and what is
left fit in a full bucket and the flow since i.  When the key is gone there is
nothing left to speak of; `Repaid` then says that for every timestamp that may still
come all that was given out has flowed back.  `ExpireInd` passes from one to the
other, from `KeyOutlivesRefill`: the TTL, less the delay of a call, fills the bucket.
`Ordered` is where one gateway is needed.

`DecidesByHistory` needs the other direction as well.  `Tight`: there is a second i
since which the account is exact, what was given out and what is left being the
full bucket and the flow.  It is the last second in which the bucket was full; the cap
moves it, and a missing key counts as full.  A refusal therefore has an interval, that
from i on, which the request would overdraw.

### Rate limiter

`IndInv` is an account per request and rule.  Rules before the one a request is at
have run for it, those behind have not.  `ChargeBound` alone is lost when a command
is sent again: `Charged` says that while the command is not answered, or the link
that carried its answer is lost, the rule ran at most as often as a connection was lost,
so that one more run stays within the bound.  `Placed` says that a link being set up
carries no answers.  `LinkKept` is all that the proof needs of the link's other
steps: they do not take the limiter's link away, and when they lose it the loss is
counted.

### Edge

`Fits` relates kind, stage, body, answer, client and timers of one request: a timer
of `slowRequestProtection` runs for an open body only, only a body that nobody waits
for is open while the upstream is asked, and a complete request whose client is cut
off has been idle for `SocketTimeout`.  The last is inductive because a socket that is
gone counts no more bytes (`Active`).  `OneRequest` is the frame: a step touches one
request and does not connect it to a closed server.

`AdmittedByRange` is arithmetic.  `And` is the word whose bits are the products of its
arguments' bits; that there is one for a mask is `Prefix`, which builds the word
that has the first k bits of another.  `MaskBits` says which bits a mask has, as
a negative number in two's complement, and `ToIntFacts` that a quad and its signed word have
the same bits; `MaskedAgree` concludes that two words
agree under a mask exactly if their leading bits do, and `MatchesIffCovers` adds the
ranges that the code refuses and the other rules.  The library knows no powers
beyond their type, so 2^n enters as the number of subsets of 1..n (`FS_SUBSET`), from
which doubling and monotonicity follow.  `Filtered` is the invariant: who is past the
stack was admitted, by lists that never change.

### Coalescer

`Entered`: whoever is in flight holds its key's entry, or the key is overdue.  It
makes both properties inductive, since the end of a response deletes the entry of
its key whoever's it is.  `TakenAway` writes down when that happens to an entry whose
leader has not ended: it was too old, or the response that ends had been destroyed.
`SettleKeeps` is proved once for all the ways in which promises are settled.

### Service discovery

`PolledIffRegistered` is `Polled`, and `Polled` is lost without `Apart`: two entries
of the registry with one id are of different services, and that id is marked as
shared.  Deregistering one of them stops the timer of both, which is the exception
that the property makes; with `Apart`, an id that was never shared has one entry,
so what removes it and what stops its timer agree.

`TurnIsFair` holds in every state in which the types do, of arithmetic.  With positive
weights (`Positive`) and a counter in Nat, JavaScript's `%` is the remainder
(`RoundTurn`).  In one round the counter meets every value below the total weight once (n steps from c on it is
(c + n) mod total, `Turns`); `Chosen` picks the instance whose stretch of the values the counter falls
into, and the stretches, from one value of `Cumulative` to the next, are as long as
the weights.  A bijection between the turns of an instance and its stretch gives the
cardinality.

### Configuration reload

`PollsAreFresh` is the heart of `BackOnlyByOverlap`: a poll that nobody has
overtaken since it started holds nothing older than what is in force.  When a reply
is applied all others in flight are overtaken, so it holds of nobody else.
`BreakersAreOfRequests` says that a breaker's options are those of a request that was
proxied, which gives `OptionsOfAnEarlierRequest` its witness.

### Dashboard

`EditorIsAskedFor` is all that has to be added to the types: an open editor edits the
rule whose button opened it, or none if that was Add Rule.  Save then writes that rule, or a new one.
Two assumptions of `AdminPages` were found by the proof: that `null` is nobody's
id, and that a rule's form with the other value of `active` is a form too, without which
`toggleActive` leaves the type.

### Model-checked only

- Liveness: `OpenIsProbed`, `HalfOpenResolves`, `EveryRequestAnswered`,
  `EveryRequestDecided`, `DeadIsEjected`, `WellIsReadmitted`, `NewestTakesEffect`,
  `FollowersSettle`, `ShutdownEnds`, `MarkEnds`.  It is out of the prover's reach, fairness and
  `ENABLED` included.
- The two statements that a run refutes, and the configurations of section 5.
- The two limiters' properties outside the hypotheses above.

## 5. Findings

Two runs end in a counterexample to what the repository says.

| run | what the code does | what the repository says |
|---|---|---|
| `proxy_crash` | an answered attempt whose body stalls is retried; its second `writeHead` throws and ends the process | `README.md:297` |
| `limiter_flag` | the close of a poll's client marks Redis as away for the limiter too; nothing sets the flag again while the limiter's client stays connected | `tests/integration/chaos.test.ts:56` |

Further configurations end in a counterexample too, and are kept beside the runs,
to be run by hand with the module of their family (the last two contradict one
reading of what the repository says):

| configuration | property | what the code does | what the repository says |
|---|---|---|---|
| `breaker_wedge` | `CircuitRecovers` | an attempt that throws after `allowRequest` keeps its half-open slot for ever; when the slots are gone, the route answers 503 from then on.  `http.request` throws for a request without a Host header, whose `X-Forwarded-Host` is undefined | `tests/integration/chaos.test.ts:9` |
| `proxy_post` | `OptedInIsRetried` | the retries of a method outside `IdempotentMethods` are 0 whatever the route configures: nobody can opt into POST retries through `retry.maxRetries` | `README.md:168` |
| `window_replicas` | `StampsWithinLimit` | a call that overtakes another gateway's has a later clock and prunes what the other still has to count, which is then admitted over the limit | `README.md:29` |
| `window_collision` | `RequestsWithinLimit` | requests of one millisecond share an entry, and count once | `README.md:147` |
| `window_rules` | `RetryAfterSuffices` | Retry-After is that of the first entry of a range whose last it needs, when two rules of different capacity have one key | `lua/sliding_window_log.lua:45` |
| `bucket_replicas` | `IntervalBound` | an older clock sets `lastRefillTime` back, and the same second refills twice | `README.md:29`, `README.md:191` |
| `edge_upload` | `CutByBodyTimeout` | the header timer starts when the headers are there and is not cleared by chunks: every upload is cut after ten seconds, however short its pauses | `README.md:357` |
| `revocation` | `RevocationLasts` | a key revoked on the page is active again on the next visit: no handler calls the server | `apps/dashboard/src/pages/ApiKeys.tsx:271` |
| `breaker_samples` | `TripsOnlyWithEnoughSamples` | `minRequests` is compared with a count that is never pruned, the error rate with the window | `circuit-breaker-manager.ts:105`, `tests/unit/circuit-breaker.test.ts:93` |
| `bucket_retry` | `RetryAfterSuffices` | Redis cuts the wait to whole seconds; below one second it is 0 | `README.md:251`, `tests/lua/token_bucket.test.ts:76` |

Seen while modelling, without a configuration of their own:

- An answered attempt whose body stalls is recorded as a success and as a failure
  (`AttemptsRecorded` allows two results for that reason).
- With `refillRate` 0 the bucket is full again when its key expires, although
  `lua/token_bucket.lua:46` tells the client "never".
- `evalsha()` looks a script up under its SHA in a cache that is filled under the
  scripts' names, so NOSCRIPT is never repaired.
- `quit()` on a link that is not ready is refused, so each failed poll leaks a
  client that goes on reconnecting.
- The fallback of a fail-closed limiter answers 429 where the chaos test says 503.
- Breaker thresholds, the poll interval, `bodyLimit` and the timeouts are fixed at
  boot or at a breaker's creation; the README's hot-reload section promises the
  thresholds.
- A check's response is never read: with a keep-alive upstream the request times out
  after it passed, the failure clears `consecutiveSuccesses`, and the instance never
  reaches `healthyThreshold` (`WellIsReadmitted` asks for servers that close the
  connection).
- `upstreams` are read once at boot, when they are `[]`; `/ready` answers 200 always.
- `server.timeout` (30 s) is the same as a route's default timeout for one attempt, and
  below what all attempts may take: a client that waits for a second attempt is
  cut off while the gateway goes on for nobody (`SocketTimesOut`).
- A weight below zero, which `/register` takes, can bring the total of a service to 0;
  the counter is then `NaN` for good and every turn the first instance's.
- A deny range does not match the same address mapped into IPv6.
- The header blacklist of `inputSanitizer` refuses ordinary User-Agents.

## 6. Not modelled

- `middleware/auth.ts` (API-key cache, JWT): not mounted by `app.ts`.
- `utils/retry.ts`, the registry's connection counters, `recordPassiveSuccess`,
  least-connections and random selection, `validateBody` and `validateQuery`: no
  caller in the gateway.  The coalescer's middleware is not mounted either; it is
  modelled because its cleanup runs and its protocol is the most intricate one.
- Rewriting of headers and paths, the agent pool and the backoff formula of the
  proxy, metrics, logging and tracing: they decide nothing that a property speaks of.
- Fractional weights and weights that are strings, which the load balancer would add and
  concatenate.
- The dashboard's other pages: at most one handler that sets local state; but for
  `fetchMetrics`, the functions of `lib/api.ts` have no caller.
- Configuration files and the load test.

## 7. What is left

- An inductive argument for what several gateways do keep: how far
  `StampsWithinLimit` and `IntervalBound` can be missed is known from the
  counterexamples only.
- What the configurations of section 5 show is possible has no theorem for the
  conditions under which it is not: `CutByBodyTimeout` for requests that stay
  below the header timeout, `RequestsWithinLimit` for calls of distinct
  milliseconds.
- One specification in which `RateLimiter` calls the scripts of `SlidingWindowLog`
  and `TokenBucket` instead of taking any verdict.
- The server socket's idle timeout is in `Edge`, where an exchange is one wait for the
  upstream, and not around the attempts of `Proxy`.
