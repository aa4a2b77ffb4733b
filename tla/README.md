# hedera-rest-client: formal models

TLA+ models of `hedera-rest-client`, a TypeScript client for Hedera mirror nodes
(`src/`), model-checked with TLC on small instances and proved with TLAPS for every value of
the constants: the routing of requests, one HTTP exchange, the rate limiter, the three caches,
the page limits, and the queries that are sent. Paths below are relative to
the repository's `src/` directory unless they say otherwise.

The client is single threaded, so its concurrency is that of promises: every
`await` is a point where other calls, timers, abort signals and the answers of
servers and stores run. The models make one action of what runs between two such
points.

## 1. Inventory

| Component (code) | State | Operations | What is hard | What makes it correct |
|---|---|---|---|---|
| Provider routing, `core/provider.ts` | `attempted`, `capacityBlocked`, `lastError` of a request; a limiter registry and a page configuration per provider | `getWithTarget`, `get`, `post`; inside them `preemptiveGet/Post`, `failoverGet/Post`, `captureGet/Post`, `attemptDispatcher`, `observeAbort` | three passes over the providers (probing, failover probes, queued), each of which may stop at any member; abort while a job is in a bucket | no provider twice, nobody left out, saturated last, nothing starts after an abort, the call settles |
| HTTP transport, `core/http.ts` | the locals of `request` and `performAttempt`: attempt, physical attempt, URL, method, body, hops, visited | `request`, `createAttemptSignal`, `waitForRetry` | a retry after a redirect; the timer against the caller's abort; a body that breaks after its status is known | the request is replayed, a status is kept, fetches are bounded, the first cause of a cancellation wins |
| Rate limiter, `core/limiter.ts` | per bucket: `pendingRegistration`, `version`, `overflowQueue`, `overflowFlushScheduled`; the Bottleneck instance | `schedule` in mode queue or overflow, `submit`, `flushOverflow`, the `scheduled` listener | Bottleneck's asynchronous `check` while calls are submitted; bursts that overlap | an admitted probe never waits, every probe is decided once |
| Network cache, `core/network-cache.ts`, `core/cache.ts`, `core/cache-ttl.ts` | the adapter's records | `get`, `set`, the expiration sweep, `delete`, `clear` | the builder, the clock and the serving provider change during an `await`; aliasing of stored objects | a key describes its response, no expired data, snapshots are isolated |
| Redis cache, `core/cache-redis.ts` | `friendlyMutationTails` per client and key | `get`, `set`, `delete`, `clear` | SET and its expiry are two commands on a friendly client; failures with unknown effect | no live record evicted, calls on a key take effect in order |
| IndexedDB cache, `core/cache-indexeddb.ts` | `db`, `opening`, `sweepAfterKey` | `getDb`, `get`, `set`, `delete`, `clear`, the sweep | shared open, version change, checkpoint shared by transactions | no closed connection kept, no fresh record deleted, the sweep reaches every record |
| Pagination and limits, `core/paging.ts`, `core/limits.ts` | a page's target and next link; the remembered symbolic limits | `wrapPaged`, `next`, `prepareQueryLimit`, `resolvedQueryLimit` | the provider changes from page to page; parameters shared by concurrent calls | a page follows the provider that served the one before it, with that provider's limit |
| Resource builders, `resources/*/builder.ts`, `resources/base.ts` | `currentProvider`, `currentNetwork` | `provider`, `network`, `one().get`, `list().get`, `post` | the target is mutable while calls run | a call answers for the target it resolved |
| Queries: DSL builders `dsl/*`, mappers `resources/*/mapper.ts`, validators `core/utils.ts` | the fields of the query being written | 47 builder classes with their methods and `build()`, as many mapper methods, some forty validators | every check is written twice, once for each form of a query, by hand; ranges whose bounds may be given in any order and in several calls; keys that leave fields out, sort or fold them | both forms accept the same queries; a window or range that is accepted can be met; one key, one answer |
| Facade, configuration, URL and JSON helpers, errors, logger, types | none that changes after construction | construction, validation of options, pure functions | none of the behaviours below | out of scope, see section 9 |

How they interact. A query reaches a resource as a chain of DSL calls or as a plain object; the mapper
turns it into a path, parameters and a cache key. A builder resolves its target, may answer from the
network cache, and otherwise calls `ProviderRegistry.getWithTarget` or `post`.
The registry visits providers; each visit is one captured attempt, a call of
`HttpTransport.request` with a dispatcher. The transport hands every physical
attempt (the first, each retry, each redirect hop) to that dispatcher, which
passes it through `LimiterRegistry.schedule` when the provider has a bucket. The
first dispatch may be a probe and come back as `LimiterCapacityError`, which the
registry takes as "saturated". The caller's `AbortSignal` reaches all of them: the
registry's `observeAbort`, the attempt's own signal, and the wait for a retry.

`PROJECT.json` lists the hazards of this code, each at its line, with the
properties that would catch it going wrong.

## 2. Modules

| Module | Models | Lines of behaviour it stands for |
|---|---|---|
| `Routing` | one routed request over the providers of a network | `core/provider.ts` |
| `RoutingContract` | abstract: what a routed request promises | (specification) |
| `Capture` | abstract: what the routing assumes of one captured attempt | (specification) |
| `Transport` | one `HttpTransport.request` with its dispatcher | `core/http.ts`, `attemptDispatcher` |
| `Limiter` | one bucket with its burst decisions, over Bottleneck | `core/limiter.ts` |
| `RedisCache` | `set`, `delete` and `clear` on one shared client | `core/cache-redis.ts` |
| `CachedReads` | concurrent `one(...).get()` calls over a cache adapter | `core/network-cache.ts`, `core/cache.ts`, `resources/accounts/builder.ts`, `resources/base.ts` |
| `Paging` | `list().get()` and `next()`: which page limit each URL carries | `core/limits.ts`, `core/paging.ts`, `ProviderRegistry.url` |
| `IndexedDbCache` | all calls of one adapter, its connection, its sweep | `core/cache-indexeddb.ts` |
| `Filters` | the validators of query parameters, as predicates over lists of filters | `core/utils.ts` |
| `Builders` | one table per DSL class: what each method checks and what `build()` does | `dsl/*.ts` |
| `Mappers` | one table per mapper method: rule, parameter and part in the cache key of each field | `resources/*/mapper.ts` |
| `Queries` | composes the three: a query of any endpoint written in both forms | |
| `Routing_proofs`, `Transport_proofs`, `Limiter_proofs`, `CachedReads_proofs`, `RedisCache_proofs`, `Paging_proofs`, `IndexedDbCache_proofs`, `Queries_proofs` | the proofs about the module of that name | |
| `MC*` | small instances for TLC | |

The decomposition is assume and guarantee. `Routing` treats the HTTP exchange as a job
that ends with a class of outcome, asks for a retry, or follows a redirect;
`Transport` implements `Capture`, which says exactly that. `Routing` treats the
bucket as one that may refuse or hold any probe; that is weaker than what `Limiter`
does, so what holds of `Routing` holds with any bucket. `CachedReads` lets any
provider of the network serve, which is weaker than `Routing`.

### Routing

`phase` is the position in the code: `single` (no overflow routing), `probe` (the
loop of `preemptiveGet`), `original` (its last resort, the requested provider in
queue mode), `failover` and `blocked` (the two loops of `failoverGet`), `settled`.
`todo` and `origin` stand for the rest of `providersForNetwork`; `blocked` is
`capacityBlocked`; `current`, `stage`, `attempt` and `hops` are the captured
attempt; `orphans` are jobs whose caller was rejected by `observeAbort` while
they stay in Bottleneck. `runs` and `tries` count what reached `fetch`, and no guard
reads them: `runs` once per captured attempt, `tries` also for each retry. `Budget` is the retry limit a captured
attempt is given, one for an alternate. GET and POST run the same loops and share the module.

### Transport

`stage` is the point of `request` that is awaited. `locals` are the variables of
`performAttempt`, reset by each attempt. `cause` is the first reason the
attempt's signal was aborted with. `redirect` is a redirect response whose
body is being discarded, `answer` the status class of the last response. Status 301
behaves like 302 and 308 like 307. `delay` is the wait before the next attempt, as `computeDelay` and
`retryAfterDelayMs` compute it: from `Retry-After` (seconds, a date, or junk) or the backoff, within the policy's and the
timer's maximum. The wait itself ends when the environment likes. `physical` is `physicalAttempt`, which the
dispatcher and the errors read; `fetches` counts what really went out, and no guard reads it. The two
differ by the one job that is in the bucket, or was left there (`FetchesArePaid`).

### Limiter

`pending`, `version`, `probes` and `flush` are the fields of a bucket's entry,
`batch`, `snapshot` and `verdicts` the locals of `flushOverflow`. Bottleneck is the
environment, modelled as `limiter.ts` relies on it: a FIFO of received jobs,
registration as soon as reservoir and concurrency allow, `minTime` after
registration, `check` answering from the capacity of the moment.

### RedisCache

`tails` is the map of `friendlyMutationTails`, `prev` the promise a call was chained on.
`api` says what the client exposes: raw commands, `pExpire`, or only `expire` with its
precision of seconds. A command takes effect and is answered, takes effect and its
answer is lost, or fails without effect; what may be sent a second time through
the raw API is. Commands of one client that are not chained may take
effect in any order.

`clear` is the loop of `RedisCacheAdapter.clear`: a page of SCAN (any keys that exist, those without the prefix skipped, `last`
when the cursor is back at zero), then the DEL of that page in chunks; any of these may
fail. SCAN and DEL are raw commands sent outside the queues, beside whatever `set` and `delete`
have under way; a client without them makes the first page throw. `old` are the keys whose record was
there when `clear()` began and has not been replaced, `unseen` those SCAN has yet to return, which it does before its
cursor ends.

### CachedReads

`req` is what a call captured when it started, `held` the record or response it has in
hand between two awaits, `store` the adapter's records with the set of callers
that own the same object (`owners`), `version` the server's data. The adapter is any
`CacheAdapter`: it may fail, forget, keep expired records, and answer late.

### Paging

`intent` is the limit the caller wrote, `param` the `query.limit` that
`prepareQueryLimit` overwrites, `remembered` the weak map `requestedQueryLimits`. A query object belongs to
what `list()` returned, so two `get()` calls on it share the object. `at` is the provider
visited, `sent` the limit in its URL, `page` the page a call holds: the provider that
served it, the limit its link carries and the one `next.url()` shows. A visit may move to any
provider, which is weaker than `Routing`; the link's limit is what was sent, or what
else a server writes into it.

### IndexedDbCache

`db`, `opening` and `checkpoint` (`sweepAfterKey`) are the adapter's fields; `conn` says
where each open request and its connection stands: `pending`, `blocked` (rejected by
`onblocked`, though it may still succeed), `open`, `lost` (closed by the browser, its close
event still to come), `closed`. A transaction is one step or is rolled back (`Abort`, or `Lose` of its
connection), which changes no record, though a sweep may have moved the checkpoint by then, before the commit
(`core/cache-indexeddb.ts:376-379`). `Write` is the put with its sweep,
`Read` and `Cleanup` are the two transactions of a `get()` that meets a stale record. A record is its
deadline. `Reload` forgets everything but the store.

### Queries

`endpoint` is the method of the client, `query` the values given so far to each field, `alive` says that
no call of the chain has thrown. `Give`, `GiveArray` and `Compare` are the three ways a builder method is
called: `field("gte:3")`, `field([..., ...])`, `field.gte(3)`. A chain that threw may go on as an object, so
that both forms are compared on queries the builder refuses, too. `Next` stops a query only when its mapper
refuses a field of it; that this loses nothing is `RefusalIsFinal`.

A filter is a comparator and a payload, with a mark when the comparator, or a word, is in capitals. The payload is a kind
(decimal parts, EVM address, alias, hash, ...), a number of parts and a number. The text
patterns that tell the kinds apart are the abstraction; what a validator does with
a kind, and with a list of filters, is its code: who may repeat a parameter and how often, which comparators
a parameter takes, ranges and their order, time windows, and edges of 64-bit integers.
A rule is a validator with the options its caller passes, and `Accepts` is that call returning.
Words that the code takes in any case (orders, modes, types, free texts) are a `Choice`; flags, numbers and
words compared exactly are a `Word`. A request and most keys keep the caller's spelling; the key of network supply
folds it (`resources/network/mapper.ts:104`), as the Mirror Node does when it reads the parameter.
`Builders` and `Mappers` are tables of such rules because the code is: each method or
field names its validator and options. What looks at several fields at once
(`results_across`, `ContractLogs_build`, ...) is an operator next to its table.

`CacheKey` is what enters a mapper's `cacheKey` array, and `Answer` is what of a
query the Mirror Node may tell apart; comparing the two over pairs of queries
is `CachedAnswersFit`.

## 3. What each run checks

| Run | Question |
|---|---|
| `routing` | `NobodyTwice` (`ExecutesAtMostOnce` and `AlternatesTryOnce`), `NobodyLeftOut` (`ExhaustsBeforeFailing` and `SaturatedLast`), `AbortStopsWork`, `Settles` of one request over three providers, and that `Routing` implements `RoutingContract` |
| `routing_abort` | with only the client's own steps fair, an abort settles the request (`AbortIsPrompt`) |
| `routing_redirect` | expected violation, see Findings |
| `transport` | `RequestIsReplayed`, `StatusIsPreserved`, `FetchesArePaid` (each fetch is dispatched once and counted, within the two limits), `AbortStopsFetching`, `FirstCauseWins`, `Settles` and `AbortIsPrompt` of one call, and that `Transport` implements `Capture` |
| `transport_no_response` | expected violation, see Findings |
| `limiter` | `OverflowNeverWaits` and `CallsAreAccounted` (every call is in exactly one place, and the counters say so) for four calls |
| `limiter_live` | `EveryProbeIsDecided` for three calls |
| `redis_cache` | `LiveRecordsAreKept`, `LastCallWins` and `ClearIsThorough` for mutations beside a `clear()` |
| `paging` | `LimitsFollowTheProvider` for two calls that share a query object, and their pages |
| `indexed_db_cache` | `ConnectionsAreKept`, `OnlyStaleRecordsAreSwept` and `StaleRecordsAreReclaimed` for two calls over two connections |
| `cached_reads` | `KeysDescribeTheirRecords`, `AnswersFitTheCall`, `SnapshotsAreIsolated`, `ReadsAreFresh` for two reads |
| `queries` | `BothFormsAgree` (at the end, `EndsAgree`; at every call, `ChainHolds`; on what is beyond repair, `RefusalIsFinal`), `TopicQueriesAreBounded`, `BoundsAreSatisfiable`, `CachedAnswersFit` for queries of all 47 endpoints |

The safety runs also check the type invariant of their module; that of `Transport` bounds every
delay, attempt and redirect. Each property has a mutant, a definition with
the name of the one it changes and of the bug it plants (a dropped recheck, an
off-by-one, a missing reset), which the same run refutes.

## 4. Bounds

- Routing: three providers. Two loops over the providers meet a first, a middle and a
  last one; the queued pass can hold two members. `MaxAttempts = 2` and
  `MaxHops = 1` let a retry and a redirect happen, and a retry after a redirect. Any
  subset of providers has a bucket.
- Transport: three URLs and one redirect per attempt meet a loop, the limit and
  a foreign origin; one policy allows three attempts. The code's limit is 20 hops: `MaxRedirects`
  only scales the chain. A timer of three seconds (`MaxTimer`) and `Retry-After` of one and four seconds, or of
  dates in the past, within and beyond it, put the delay on both sides of each limit.
- Limiter: four calls, so that two bursts overlap and a submission falls between
  check and decision; buckets limited by reservoir, by concurrency, by `minTime`.
  The liveness run has three, enough for a burst that arrives during another's check.
- RedisCache: three mutations of one key are the fewest for which a lost tail lets two
  run together (one that finishes, its successor, and one that finds no tail). Two keys, so that
  a page of SCAN holds one or both. The constraint `Bound` keeps the friendly clients to mutations
  of one key, since queues of different keys do not meet, and the raw client, the only one `clear()` gets
  past its first page with, to two mutations: one before it and one beside it. Ttls of one and
  three ticks with two ticks to a second make `expire` round both. `MaxTime = 1` lets the shorter ttl run out.
- CachedReads: two reads over two networks and two providers with different limits;
  `MaxVersion = 1` and `MaxTime = 1` give one change of data and one tick; a ttl of zero
  stores nothing and one of a tick runs out.
- Paging: two calls that share one query object; two providers with (default, maximum) of (10, 25) and (25, 100),
  so that the default of one is the maximum of the other; the sizes 0 and 500, below and
  above every range. Neither calls nor pages are counted.
- IndexedDbCache: two calls, so that a set falls between a read and its cleanup; two
  connections, so that one can be blocked while the next is requested; keys 1 and 3 with a
  key of another prefix between them; batches of one (the code's are 16), the smallest that leave records for the next
  sweep; two instants and a ttl of one, so that a record of the first instant becomes stale and one of
  the second stays.
- Queries: the limits of numbers are scaled to `MaxPacked = 4`, `MaxInt32 = 4`, `MaxEntity = 5`,
  `MaxLong = 6`, `MaxKey = 8`, a parameter may be repeated `Most = 3` times, seven days are a `Window` of two.
  The first value of a query is any of: two neighbouring numbers under every comparator, both
  ends of every range and one past them, comparators and words in capitals, one payload of every kind. Later values are the ones that
  interact with a first one. A query has two values besides its required fields, three
  where the code relates three (topics with a window of time, the pairs of allowances), four for NFT
  allowances. The required fields that are not being tried have a typical accepted value. Which values are tried is
  `First`, `Later` and `MaxValues`; the proofs assume nothing of them but `QueriesAssumption`.

Symmetry is used where no property and no initial state names a member, and never
in a run that checks liveness. `CHECK_DEADLOCK FALSE` is set because every
modelled call really ends.

## 5. Fairness

- `Routing!FairSpec` and, as the antecedent of `Settles`, `Transport!Progress`: code that is ready
  runs (the event loop), a bucket decides a probe and drains (its reservoir is refreshed), and a fetch or
  body ends. Retries and redirects need no fairness: they are optional and bounded.
- `Routing!AbortFairSpec` and, as the antecedent of `AbortIsPrompt`, `Transport!AbortProgress`:
  only the client's steps. No bucket drains, no
  server answers, no retry timer runs out; a fetch whose signal is aborted rejects,
  which is what the platform's `fetch` does.
- `Limiter!FairSpec`: the flush and its checks run, Bottleneck registers what it can,
  its timers run, tasks end. Nobody has to make a request.

`StaleRecordsAreReclaimed` has its assumption in the property, since it is the
application's and not the scheduler's: writes go on committing, and from some time
on no transaction aborts, no connection is lost and the page is not reloaded. All are needed: a sweep that is
rolled back, by an abort or with its connection, leaves the checkpoint past records that came back, and a reload
starts the sweep from the first key, so that each, repeated for ever, may starve a record (leave one out of the
property, and TLC finds the loop).

RedisCache, CachedReads, Paging and Queries have safety properties only and assume no fairness.

## 6. What is proved

All theorems are proved without fairness and without any bound but the constants'.

`Routing_proofs` proves, for every finite nonempty set of providers, every order of
them, every attempt budget and every redirect limit (`RankAssumption`,
`BudgetAssumption`):

| Theorem | Statement |
|---|---|
| `TypeCorrect` | `Spec => []TypeOK` |
| `AtMostOnce` | `Spec => []NobodyTwice` |
| `Exhausts` | `Spec => []NobodyLeftOut` |
| `AbortStops` | `Spec => AbortStopsWork` |
| `Refinement` | `Spec => ImplementsContract` |

None of the safety invariants is inductive alone. `IndInv` adds what the code
keeps implicitly: `StageInv` (which stages occur in which phase, and that an
attempt count belongs to a running attempt), `RunsInv` (a provider runs at most once, and the
current one has run exactly when its attempt has begun), and one part for each
pass, `FirstPassInv`, `FailoverPassInv`, `BlockedPassInv`, which say how `todo`,
`blocked`, `current` and `runs` divide the providers. The partition is what makes
`ExecutesAtMostOnce` and `ExhaustsBeforeFailing` two sides of one fact:
a provider is executed exactly when it is in none of the sets that are still to be visited.
`AlternatesTryOnce` counts retries, which `IndInv` leaves open. `TriesInv` adds what ties the count of the current
provider to its call (`tries[current] = attempt`) and that nobody was tried who has not executed; then a step
that starts nothing (`Unstarted`) keeps the counts, and a retry is possible only where the passes say that
nobody else has executed.

The proof follows the code: `SettlePreserves`, `NextAlternatePreserves`,
`FailPreserves`, `BeginPreserves` and `RefusePreserves` are about the pieces steps
share, and `StepPreserves` has one case per action. `FirstIsMember` shows that the
rotation visits a provider of every nonempty set, from the well-foundedness
of the naturals. `Refinement` maps each step to one of the contract's or to a stutter.

`Paging_proofs` proves `TypeCorrect` (no URL leaves the range of the provider it goes to)
and `LimitsFollow` for all providers, limits and sizes (`PageAssumption`) and any number
of calls that share query objects. The invariant behind them is `IntentKept`: whatever
`prepareQueryLimit` did to a query object, what it asks for is what its caller wrote. It is an
invariant because a limit is resolved to nothing exactly if there was none
(`ResolvedInRange`). `SentInv` and `ShownInv` relate what was sent and shown to that intent, or to the
link of the page.

`IndexedDbCache_proofs` proves `TypeCorrect`, `ConnectionsKept` and `SweepsAreSafe` for any calls,
connections, keys, prefix, batch size and clock (`IndexedDbAssumption`). `ConnectionsAreKept` is
inductive together with `PendingIsOpening`: the only request that may still succeed in time is the
one the adapter waits for, so it opens while no other connection is open. `SweepsAreSafe` needs that a call works on
a key of the adapter (`JobInv`); for a `set()` it divides what leaves the store into what the put
replaced and what the sweep inspected. The checkpoint is well typed because a full batch is a finite nonempty set,
which has a greatest key (`FiniteHasGreatest`).

`Transport_proofs` proves, for all URLs, policies, redirect limits and headers (`TransportAssumption`),
`TypeCorrect`, `Replay`, `StatusKept`, `FetchesPaid`, `FirstCause`, `AbortStops` and `Refinement`: every transport is a
`Capture`, which states what `Routing` assumes of an attempt. The invariant says what the locals of an attempt
mean at each await. It rests on one argument: each way an attempt can end settles the request, or waits
with another attempt left in the budget. `FetchesPaid` bounds a sum by a product of two constants: `PaidInv` keeps
`physical` at most one above `Spent`, `attempt * (MaxRedirects + 1) + hop`, what the earlier attempts and the hops of this one may
have used; a hop and a new attempt each raise `Spent` (`NextAttemptSpends`), and the last attempt's
is below the product (`AttemptsBound`).

`Limiter_proofs` proves `TypeCorrect`, `Accounting` and `AdmittedNeverWait`, for any calls and settings.
The last rests on an explicit assumption, `NeverLowered`: every setting's reservoir is at most its refresh amount. The
argument is `VerdictsHold`: a verdict that a probe fits keeps holding as long as the version
it was taken under is the bucket's, and the re-check before the decision is what compares the two.

`CachedReads_proofs` proves `TypeCorrect`, `KeysDescribe`, `AnswersFit`, `Isolated` and `Fresh`, for any calls,
networks and providers. `Fits` says that a record carries the network and limit of the key it is
under and that no caller owns the stored object; `Consistent` relates what a call holds to what it captured when it
started.

`RedisCache_proofs` proves `TypeCorrect`, `LeasesCover`, `LastWins` and `Thorough`, for any calls, keys, ttls
and precision (`RedisAssumption`). `Queued` is the heart: in the queue of a key, a mutation that has begun has
only settled ones before it. Leases are rounded up, never down. For `clear()`, `Cleared`: a record
that was there before is one SCAN has yet to return, or on the page being deleted.

`Queries_proofs` proves `TypeCorrect`, `TopicsAreBounded`, `BoundsAreMet`, `CacheIsHonest` and `TwoFormsAreOne` over every query of every length, with every filter, for all limits (`FiltersAssumption`,
`QueriesAssumption`: the values to try are filters, and each required field has an accepted one).

- Ranges. That the greatest lower and the least upper bound of a list exist comes from well-foundedness; a list that is
  compared only through them is met between them (`AllSatisfyBetween`, `MeetingBounds`). `Tables` shows of each entry of the
  47 tables that it is unordered or one of the two kinds of range, and `FieldsAgree` that builder and mapper have the same fields.
- Cache keys. `KeysTell` is the argument for one field: what the key keeps of
  its list (all, sorted, the set, the last value) determines what the server reads of it. `Keys` shows that each field of each mapper is of such a kind, and
  `KeysDetermineAnswers` puts the fields together.
- Two forms. `EndsAgree` is not inductive: it says what a whole chain accepts, and a step adds one call.
  `ChainHolds` is: a chain that goes on holds in every field what its builder takes, and one that has thrown holds what
  its mapper refuses. `Agreement` is the lemma about the tables: each builder takes what its mapper
  takes, and its comparator methods are enough (`Offers`). It covers all 47 pairs of tables, written by hand on both sides.
- Refusals. `Next` writes a query no further once its chain has thrown and its mapper refuses a field. Nothing is lost by
  that, as a list that is refused cannot be saved by a longer one. `PrefixesPass` is that fact: every check of a list (counts,
  shape, meeting bounds, the order of account IDs) is inherited by its prefixes.

Proving these found one definition that was wrong: `Part`, what of a field enters the cache key, was a CASE of which two
guards could hold at once, so that for an empty list its value was not determined. The guards are disjoint now.

## 7. What is only model-checked

Every safety invariant and every action property that a passing run checks is also a theorem. What is left to TLC is
liveness (`Settles` and `AbortIsPrompt` of the routing and of the transport, `EveryProbeIsDecided`,
`StaleRecordsAreReclaimed`), which needs fairness or ENABLED and is out of the prover's reach, and that the two
findings are real (their runs show the violations).

## 8. Findings

- `routing_redirect`: the README (415-416) says an alternate gets one physical attempt.
  The code numbers redirect hops as physical attempts too (`core/http.ts:533`) and
  follows them in failover as well, since `{ enabled: false }` disables retries only.
- `transport_no_response`: `core/errors.ts:85-86` says an `HttpNetworkError`
  represents a request that received no HTTP response. It is also thrown after a response of
  status 200 that is not JSON or breaks off, and for a refused redirect; the comment of
  `request` itself (`core/http.ts:455-458`) lists those cases.

## 9. Assumptions and what is not modelled

- All providers of a request share one retry policy in `Routing`; the code lets
  them differ, and only the first one's is used.
- A bucket's refresh never lowers its reservoir. The validation (`core/provider.ts:207-245`)
  accepts configurations where it does, and a probe admitted just before such a refresh may wait (the hazard at `core/provider.ts:212`, which no property covers).
- Two fresh reads of one key may answer out of order, and the older then overwrites the
  newer (`resources/blocks/builder.ts:181`). `CacheAdapter` has no compare-and-set and no document promises
  more, so `CachedReads` keeps this behaviour and no property forbids it.
- IndexedDB runs the transactions that write one store one after the other, and a sweep starts inside its own, once the
  put has run (`core/cache-indexeddb.ts:446-448`). `IndexedDbCache` takes that as given: a put with its sweep is one step.
- One Redis client. A command that failed without effect does not take effect later.
- An adapter's `set` is one step, and cloning a record that was replaced meanwhile
  gives a record nobody shares.
- IndexedDB runs the transactions that write one store one after the other, and serves the open
  requests of one database in their order. `IndexedDbCache` lets them commit in any order.
- `Paging` is about one logical endpoint: limits per endpoint are looked up alike for a builder's
  path and for the links of its pages.
- In a query, the third and fourth log topic behave as the second, `topic1`; the query of the
  network stake has no fields and is left out, as are the setters `limit` (modelled in `Paging`) and `useCache`.
- Not modelled: the text patterns behind the kinds of a payload, byte payloads and the numbers of
  JavaScript; the format of parameters; the sweep cursor of the memory cache (it may forget
  any record); an IndexedDB connection given by the caller; how links are resolved and validated as URLs;
  header and body normalisation, JSON; the facade, the merging and validation of configurations and
  the options of a request, which run once and keep no state; errors, logger and type declarations.

## 10. Plan

In the order of what matters most:

1. Routing with its contract and its proofs; Transport; Limiter; the two caches. (Done.)
2. `Paging` with the limits, `IndexedDbCache`, and their proofs. (Done.)
3. `clear` in `RedisCache`; the delays of retries in `Transport`. (Done.)
4. The queries: validators, builders, mappers and cache keys. (Done.)
5. Proofs about `CachedReads`, `Transport`, `RedisCache`, `Limiter` and `Queries`. (Done.)
6. The remaining safety properties of `Queries`, and what retries and redirects cost in `Routing` and `Transport`, as theorems. (Done.)
7. Left: measures that the steps of `Routing` and `Transport` lower, the part of their termination a prover can check; the validation and merging of provider configurations.
