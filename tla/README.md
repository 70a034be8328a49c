# A TLA+ model of the URL shortener

The repository is a URL shortener in Go: stateless API replicas behind Nginx,
PostgreSQL as the store of record, Redis as cache, lock store, limiter and event
stream, and a worker that turns click events into counters. This directory
models the parts that keep or share state, checks them with TLC on small
instances, and proves every safety property that those runs check, invariants,
action properties and refinements, with TLAPS for every instance. `PROJECT.json` maps every definition to the lines it models and
lists runs, mutants, findings, hazards and theorems.

## The system

| Component | State | Operations | Talks to |
|---|---|---|---|
| link service (`internal/service`, `handler/url.go`, `repository/url_repo.go`, `cache/url_cache.go`) | `urls` table; `url:{code}` keys with TTL | Create, Get/Redirect (Resolve), Delete | PostgreSQL (one statement at a time, no transactions), Redis (200 ms per command, fails open) |
| idempotent create (`service/url.go` createIdempotent, `idempotency/store.go`) | `idem:resp:{key}` (24 h), `idem:lock:{key}` (10 s, SET NX) | Get, Claim, Set, Release, replay, waiting | the link service's createOne |
| analytics recorder (`analytics/recorder.go`) | a channel of 4096 events per process | Push, run | redirects; the Redis stream |
| analytics worker (`consumer/consumer.go`, `cmd/worker`) | consumer group (position, pending list); `analytics_daily`, `idempotency_records` | EnsureGroup, ProcessOnce, handle, claim, ack | the stream; PostgreSQL over one connection; links deleted under it |
| rate limiter (`middleware/ratelimit.go`) | `rl:ip:{ip}:{minute}` counters with TTL | allow | Redis; Nginx's address instead of the client's |
| migrator (`repository/migrate.go`, `cmd/server`, `cmd/migrate`) | `schema_migrations`, the schema, an advisory lock | Apply | PostgreSQL, other processes that boot |
| code generator (`service/base62.go`) | a buffer of 11 bytes | EncodeBase62 | createOne |
| input validation (`handler/url.go` Create, `service/url.go`) | none; what it lets through reaches the `urls` table and its constraints | validateLongURL, parseExpiry, validateCustomCode | createOne, the router's static paths and Nginx's |
| statistics queries (`repository/stats_repo.go`, GetStats) | none; reads `analytics_daily` | StatsByURLID, three statements | the worker that writes, links deleted under it |
| router, other middleware, health, metrics, configuration, Nginx | none of their own, or only written | | |

What is hard in it, and hard to test:

- every handler is a sequence of round trips to two stores between which other
  replicas move: fills that follow an invalidation, creates and deletes of one
  code, a delete by code after a stale resolve, a check of an idempotency key
  or a migration that is stale when it is used;
- commands fail after their execution, are sent twice by the Redis client
  (`MaxRetries`), or outlive the lock or counter they rely on;
- processes die between two statements that belong together (row and code,
  claim and count, INCR and EXPIRE, migration and record);
- Redis runs with `--appendonly no`: a restart brings back an older snapshot,
  with deleted cache entries and an older position of the consumer group;
- things that must go on: deleted links must fade out, keys be freed, waiting
  requests be answered, clicks be dealt with end to end, boots end;
- integers wrap, buffers are exactly large enough, lengths are checked before they
  grow, and one list of words has to agree with another in a different file.

What makes each component correct is stated as the properties below.

## Modules

| Module | Models |
|---|---|
| `LinkService` | the link service; `LinkRegistry` is the abstract specification that it implements |
| `IdempotentCreate` | creates with an `Idempotency-Key` |
| `AnalyticsWorker` | the worker, the stream's consumer group and the counters; `CountLedger` is the abstract specification that the counters implement |
| `StatsQuery` | a statistics query beside the workers (extends `AnalyticsWorker`) |
| `Recorder` | the recorder inside a server process |
| `ClickPipeline` | recorder, stream and worker composed (extends `AnalyticsWorker`, instantiates `Recorder`) |
| `RateLimiter` | the limiter |
| `Migrator` | schema migration at boot |
| `Base62` | EncodeBase62 |
| `CreateInput` | the input of a create, from the body to the table (extends `Base62`) |
| `LinkServiceProofs`, `IdempotentCreateProofs`, `AnalyticsWorkerProofs`, `StatsQueryProofs`, `ClickPipelineProofs`, `RateLimiterProofs`, `MigratorProofs`, `CreateInputProofs` | theorems |
| `MC*` | instances for TLC; each `.cfg` is one question |

Conventions. A request, worker or process is a slot with a program counter;
every SQL statement and every Redis command is an action, and so is a reading of
the clock where time matters. A fault is a disjunct of the action that it
strikes, enabled by a Boolean constant (`RedisFaults`, `PgFaults`, `Crashes`,
`Faults`...): the command may have been executed or not. Variables marked
*history* are read by properties only. Operators called "a variant that ..."
are the mutated forms that show each property can fail; no specification uses
them.

**LinkService.** `row`, `code`, `life` are the `urls` table (an id stands for
the long URL, which never changes); `cacheId`, `cacheLeft` the cache; `snapId`,
`snapLeft` the snapshot of Redis. `CacheHit` ... `Fill` are Resolve, `DeleteRow`
and `Invalidate` are Delete, `InsertCustom`, `InsertAuto`, `SetCode`, `ReadBack`
are createOne. A Get's 200 stands for Redirect's 301 too. Refused inputs change
nothing and are not begun (`CreateInput`). `EncodeBase62` is a constant, assumed
injective, which `CodesDecode` proves of `Base62`. `LinkRegistry` knows
neither requests nor a cache: codes are bound to links that never had a code, and
freed.

**IdempotentCreate.** `Get`, `Claim`, `Record`, `Release`, `Poll`, `Replay` are
createIdempotent; `RefuseCode`, `Insert` and `ReadBack` are createOne, whose two
statements for a generated code are taken as one here, since LinkService has them
apart. A custom code is refused after the key has been claimed, as in the code.
A lock is the number of ticks it has left (`LockTTL` at first): `SetNX` starts it
with the claim that sets the key, and no other claim touches it; `LockTick` is time.

**AnalyticsWorker.** `Start`, `Read`, `Skip`, `Claim`, `Lookup`, `CountTotal`,
`CountRef`, `Ack` are main, ProcessOnce and handle. A counter is unfolded by
event, so that "counted once" can be said. `conn` is the worker's only
PostgreSQL connection. Links come and go by `CreateLink` and `DeleteLink`; a redirect publishes
a click only on a code that a link has, or has had (the cache may still answer
then): `given`, `Visited`. Malformed events, which no redirect makes, come at any time.
`CountLedger` says what counting promises without workers, deliveries or claims:
an event is taken up once for ever, and while it is, counted under one link or
given up; `ImplementsLedger` maps claimed events to those taken up, and the
events between claim and count to those that may still be counted.

**StatsQuery.** `Resolve` is GetStats' lookup, which may come from the cache and
be stale, `Statement` one of the three statements, `Respond` the answer or a
failure. The ten top referrers are taken as all of them.

**RateLimiter.** A minute has `W` seconds. `Begin` reads the clock, `Incr` and
`Expire` are the commands, `Pass` and `Refuse` the decision, which reads the
clock again for Retry-After. `Lag` is how many ticks a request may see in allow:
its context lives 200 ms, hence at most one. Redis is taken to keep its counters
(a restart loses them, which only lets more through). `faulty` remembers which
counters a fault has hit.

**Migrator.** `Files[p]` are the migrations embedded in p's binary; releases only
append to them. The open transaction is part of the program counter. A session
may end without its process knowing: the lock is free then, and the process
finds out by its next statement. Every statement may fail with its session alive:
`LockFails` before the unlock is deferred, `StatementFails` under the lock, and
`Unlock` itself, which then leaves the lock with a process that serves or exits.

**Recorder.** `Push` is the select of Push, `Receive` and `XAdd` the goroutine,
`Stop` and `Exit` the graceful shutdown of `cmd/server`. It is checked as part of
**ClickPipeline**, whose steps are the recorder's and the worker's; the two meet
in `XAdd` and `Gone`, where what the recorder adds for a click becomes entries of
the worker's stream (`Enter`): none, one, or two when the command was sent again.
`of` relates entries to clicks. A redirect is resolved when its code is that of a
link, or has been.

**Base62, CreateInput.** A number's digits are written from the end of a buffer;
base, width and buffer length are parameters. `CreateInput` is one request, in the
order of the code: `Body`, `ValidateURL`, `ParseExpiry`, `CheckKey`, `CheckCode`,
`Insert`, `Encode` (the rounds of `Base62`), `Name`. A text is its length and the
facts that the checks tell apart; a URL that is stored is the parsed one written
out again, so it may be longer than the one that was checked (`Growths`). The
expiry is a machine integer of `2 * Half` values that wraps (`Wrap`). Reading the row back, failing
statements and other requests are LinkService's.

## Runs

Passing runs (bounds in the `.cfg`):

| Run | Checks | Bounds |
|---|---|---|
| `links` | type; `OneLiveRowPerCode`; `MappingAuthentic`; `ExpiredNeverServed`; `ImplementsRegistry` | 2 concurrent requests, 2 codes, 2 rows, the second row's generated code also a custom code; every fault, a restart of Redis empties the cache |
| `links_live` | `DeletedFadesOut`, `DeadStaysDead` | the same, and a restart brings back an older cache; links do not expire |
| `analytics_redelivery` | `AtMostOnce`; `LossNeedsFailure`; `RefsWithinTotal`; `ImplementsLedger` | 2 workers, 2 events, malformed or with a referrer, in batches of 2, 2 links in turn under one code; failing statements, deaths, restarts of Redis; failing Redis commands are in the next run |
| `analytics_stats` | `CountsOfStoredLinks`; `DaysCoverTotal`; `EveryEventDealtWith` | 1 worker and 1 query, 2 events, malformed ones too, 2 codes; every fault except a restart of Redis |
| `pipeline` | the worker's, the recorder's and the pipeline's type; `CountersTruthful`; `ClicksConserved`; `RedirectNeverStalls`; `EveryClickSettled` | 2 clicks in flight, a channel of 1, 3 entries, 2 links in turn; every fault except a restart of Redis |
| `idempotency` | type; `RecordAuthentic`; `RecordedNeverRecreated`; `OneOwner`; `EveryRequestAnswered`; `KeyFreed` | 2 requests at a time, any number of replays, 1 key, 2 links, 2 polls, a lock of 2 ticks; every fault, creates slower than the lock too |
| `limiter` | type; `WindowLimit`; `RetryLeavesWindow`; `RefusedOnlyWhenFull`; `CountersExpire` | 2 requests at a time, 2 windows of 2 seconds, limit 1, every fault |
| `migrator` | type; `ExactlyOnce`; `CheckStaysValid`; `ServingMigrated`; `InOrder`; `EveryBootEnds` | 3 processes of 3 releases, one with an ill-named file, every fault |
| `inputs` | type; `BufferSuffices`; `Decodable`; `HiddenCodesRefused` | every class of URL, lengths around the limit; 6-bit durations with units of 1, 3 and 12; every id of a small integer that fills the buffer; custom codes at the edges of what is accepted, and every hidden path. A request ends, so deadlock is not checked |

Why the bounds are enough: the races are between two actors, and a third slot
adds only more of the same; two rows under one code suffice for "deleted and
created again"; a TTL of one or two ticks is long enough to expire before, during
and after any other step, and to be renewed by a step that should not; two windows have the one boundary that matters; a channel
of 1 with two redirects under way is empty, full and overflowing, and three
entries are two clicks of which one was added twice; a 6-bit product of a number
and a unit wraps to every value in and out of range, as 64 bits do. Where a property is also proved, it holds beyond every bound.

The remaining runs each show a statement of the repository's documents or
comments that the code does not keep ("findings" quotes them):

| Run | What the counterexample shows |
|---|---|
| `links_collision` | a custom code may be the code generated later; that create fails with 500 |
| `analytics_loss` | a click on a link that stays stored is never counted when its worker dies with the event read: nothing re-reads pending entries |
| `idempotency_twice` | two creates with one key, because Get and Claim are separate commands |

### Other behaviours of the code that its documents deny

The models follow the code in these as well; no run is spent on them, since each
is plain from the lines named.

- A row and its generated code are written by two autocommitted statements
  (`service/url.go:221`), where docs/DECISIONS.md:110 has "in the same
  transaction": a death in between leaves a row without a code
  (`InsertAuto`, then `Crash`).
- A create does not touch the cache (`service/url.go:202`), where
  docs/DECISIONS.md:32 has "Writes (create/delete) invalidate or refresh the
  cache synchronously": a stale entry of a deleted link is served for the code
  until its TTL (`DeletedFadesOut` bounds it).
- A malformed event is passed over without an ack (`consumer.go:108`, whose
  comment says "malformed event; ack it") and stays pending (`Skip`).
- The consumer group is created at start only (`consumer.go:89`): after a Redis
  restart that loses it a running worker reads nothing, though docs/API.md:127
  promises "eventual consistency, bounded by stream lag" (`Restart`; that is why
  `analytics_stats` has no restarts).
- A replay looks the code up again (`service/url.go:190`): if the link has been
  deleted it is answered 500, where docs/DECISIONS.md:532 has "surfaces `404`",
  and if the code has been given to another client's link it shows that one,
  where docs/API.md:169 has "the **exact original** response" (`Replay`).
- Release deletes the lock whoever holds it (`idempotency/store.go:81`, "Safe to
  call blindly"): after a create that outlived its lock two owners may run, which
  is what `lapsed` excepts from `OneOwner`.
- The limiter looks at the connection's address (`ratelimit.go:63`), which is
  Nginx's for every client, where docs/API.md:155 has "per client
  (`X-Forwarded-For` first hop behind Nginx, falls back to remote IP)" and
  deploy/nginx.conf:21-22 "so per-IP rate limiting and logs see the caller, not
  the proxy": all clients share one counter, hence `Addresses` and not clients.
- The limiter's window is fixed (`ratelimit.go:62`), where docs/API.md:155 has
  "Sliding window": `WindowLimit` speaks of one window, and twice the limit may
  pass around a boundary.
- A graceful shutdown does not flush the recorder's channel
  (`cmd/server/main.go:110`), where docs/API.md:64 has "flush analytics buffer":
  `ClicksConserved` excepts what goes with the process (`Exit`).
- An XADD that is sent again adds an event twice (`recorder.go:55`), where
  docs/API.md:134 has "exactly one analytics event per check" (`XAdd`).
- An expiry whose product wraps is accepted when it wraps into range
  (`service/url.go:355`): "213504d" is stored as some 25 minutes, where
  docs/API.md:107 has "max 365d" (`ParseExpiry`; the type invariant holds, for
  what is stored is in range).
- The length of a URL is checked before the prefix and the escaping make it longer
  (`service/url.go:306`, `:326`): the table then refuses it, and the answer is 500,
  where docs/API.md:105 has "≤ 2048 chars" among the rules that are "enforced in
  service" (`Insert` of `CreateInput`).
- An invalid custom code is refused after the key has been claimed
  (`service/url.go:205`): for the lock's 10 seconds a corrected retry is answered
  `idempotency_in_progress`, where docs/API.md:98-99 has "another request with the
  same `Idempotency-Key` is mid-flight" (`RefuseCode`).
- A click is counted for the link that bears its code when it is handled
  (`consumer.go:127`), which may be a later one than was visited; `CountsOfStoredLinks`
  says no more than that the link bears the code now.
- The three statements of a statistics answer see three states
  (`stats_repo.go:16-46`): `DaysCoverTotal` holds because the total is read first,
  and the referrers, read last, may exceed both. For a deleted link that is still
  cached the answer is zeros, where docs/API.md:126 has 404.
- Generated codes are not compared with the reserved words
  (`service/url.go:220`): "ready" is the code of an id near 783 million, and its
  link is never reached (`HiddenCodesRefused` is about custom codes).
- `reservedCodes` (`service/url.go:50`) lacks the proxy's own path `/nginx_status`
  (`deploy/nginx.conf:34`): the custom code `nginx_status` is accepted with 201, and
  its redirect is answered 403 by Nginx, where docs/API.md:106 names api, health,
  ready and metrics only. `HiddenCodesRefused` excepts it by name.
- The error of the deferred pg_advisory_unlock is discarded (`migrate.go:35-37`): if
  the session is alive the lock stays with a connection in the pool of a process
  that serves, and whoever boots waits until the pool closes it (`Unlock`,
  `SessionEnds`; the fairness below says what `EveryBootEnds` takes for granted).

## Fairness

- Handlers, workers and the migrator's steps are weakly fair:
  goroutines are scheduled, and every Redis command returns within its timeout
  (200 ms, 250 ms, 500 ms). Faults are never fair, nor are clients.
- The recorder's goroutine is not fair in `ClickPipeline`, and neither are the
  workers: redirects must not depend on Redis at all, so only `Push` is.
  `EveryClickSettled` assumes in its own formula that goroutine and workers run
  (`GoroutineRuns`, `WorkersRun`), the workers as in `AnalyticsWorker`.
- Time passes (`Tick`, `LockTick`); what ends a claim is then that no step renews
  its TTL.
- Workers are started again (`restart: unless-stopped` in docker-compose.yml);
  `Read` is strongly fair, since a worker that is started over and over does
  not always die before its first read.
- `Lock` of the migrator is strongly fair: PostgreSQL grants a lock in the order
  of the requests. It also ends the sessions of dead processes.
- `SessionEnds` is fair for a process that serves: `NewPool` sets neither
  MaxConnLifetime nor MaxConnIdleTime, so by pgxpool's defaults (an hour, 30
  minutes) a connection is closed in the end, also one whose unlock has failed. This
  is a property of the library and of a DSN that does not override it; with an
  unlimited lifetime `EveryBootEnds` would not hold.

## Proofs

Each proof is by an inductive invariant, one lemma per part, one step per
action; assumptions are the named ASSUMEs of the modules, which TLC evaluates on
every instance.

- `LinkServiceProofs`: `TypeInv` (types and what a request holds at each step:
  the types alone are not inductive, because rows are looked up by what requests
  hold) and `DataInv` (`TableInv`, unique codes, authentic cache and snapshot,
  `RequestInv`, `SoleCreator`). The two-statement create needs `SoleCreator` and
  the fact that a row at "setCode" is stored without a code. From them:
  `TypeCorrect`, `CodesUnique`, `OnlyAuthenticMappings`, `NoExpiredAnswer`,
  `DeadLinksStayDead` (an action property) and `ServiceImplementsRegistry` (the
  refinement). Assumed: codes generated for different ids differ.
- `IdempotentCreateProofs`: `TypeInv`, `RecordInv` (what an owner is about to
  record was created for its key), `OwnerInv` (an owner's key is locked unless a
  lock of that key has expired under its owner, and only owners record and
  release), `KeptInv`. Nothing is assumed about faults or the speed of creates.
- `AnalyticsWorkerProofs`: `OwnersInv` (an event that somebody is about to count is
  claimed and owned by one worker only; the link it was looked up under still
  bears its code or is gone for ever, which needs `LinksInv`: ids are not given
  again), `CountsInv` (an owned event has contributed nothing yet, or its total
  only), `DealtWithInv` (a claimed event is settled, given up or owned) and
  `EventsInv` (what is read or claimed was published, so that an event that is
  published is new). `AtMostOnce` alone is not inductive: it says nothing of who
  may still count. From them: `CountedAtMostOnce`, `ReferrersWithinTotal`,
  `CountsBelongToStoredLinks`, `NoLossWithoutFailure` and the refinement
  `LedgerImplemented`. A worker takes the least event of its batch: that it
  exists is proved from the library's facts about finite sets (`LeastElement`).
- `StatsQueryProofs`: what a query has read of its link's total is counted still
  until the days are read, since the counters of a link that stays stored never
  decrease (`TotalGrows`); hence `StatisticsAddUp`.
- `ClickPipelineProofs`: the worker's invariant, with `ServerInv` (a click is in
  one place at a time, and leaves the server with an entry or a reason; one that has
  an entry has been counted, or was with the process at its end),
  `EntriesInv` (a click has as many entries as XADDs were executed for it) and
  `DeliveredInv` (what the group has delivered is in a batch or dealt with).
  From them: `PipelineTypeCorrect`, `CountersAreTruthful`, `ClicksAreConserved`.
  The worker's guarantees are proved again under `PipelineSpec`
  (`WorkerGuaranteesInPipeline`, `LedgerImplementedInPipeline`), with the same
  lemma for each of the worker's steps.
- `RateLimiterProofs`: the types include `TTLsRun` (a counter that expires does so
  at most a TTL from now), and `AdmittedInv`. As long as the counter of a window is there,
  those who have passed, or have been told a count within the limit and will
  pass, are no more than were counted, and without a fault no fewer while they
  are below the limit. `CountersInv` says that a counter outlives its window by a
  second, `RequestsInv` that no request is in allow for longer: together they
  keep a request from being counted in a fresh counter of an old window. Assumed:
  finitely many requests at a time, for they are counted, and `Lag` at most 1.
- `MigratorProofs`: `LockInv` (who is past Lock with a live session holds the
  lock), `LoopInv` (what is before the current file is applied), and the
  properties themselves: `CheckStaysValid` is what makes `ExactlyOnce`
  inductive, and `LoopInv` with the assumption that releases only append makes
  `InOrder` so.
- `CreateInputProofs`: `Fits` (what is left of the number is less than the base to
  the unused length of the buffer, so a number that is not yet zero has room for
  its digit: `BufferNeverOverrun`) and `Quotients` (there are numbers, from what is
  left to the argument, each of which divided by the base is the one before, the
  digits being the remainders: `CodesDecode`). `Decode` is a recursive function;
  the quotients are one that satisfies its equation, and two such functions
  cannot differ at a least position (`DecodeReads`). `InputInv` adds what each
  check has let pass, and what the row holds: `TypeCorrect`,
  `HiddenCodesAreRefused`, `RowsBearTheirCode`, and the two properties of the
  loop for the ids that a create encodes. Assumed: the largest number is less
  than the base to the buffer's length, `Power` is given by its recurrence, and
  the lower-case form of a hiding path is that path (`LowerCase`).

Only model-checked: the liveness properties `DeletedFadesOut`,
`EveryEventDealtWith`, `EveryClickSettled`, `RedirectNeverStalls`,
`EveryRequestAnswered`, `KeyFreed`, `CountersExpire` and `EveryBootEnds`; they rest
on fairness and ENABLED, which TLAPS does not handle.

## Not modelled

- Construction of the parts, router and Nginx apart from their fixed paths, other
  middleware, health, metrics, configuration: they keep no state that outlives a
  request, or state that is only written; see "components" in `PROJECT.json`.
- A Redis command that is executed long after its client has given up; clocks
  that differ between replicas; a restart of Redis that brings back a released
  idempotency lock or loses rate counters; gaps in the id sequence in
  IdempotentCreate (LinkService has them).

## Plan

The components that keep or share state are modelled, and their safety
properties proved. What could follow:

1. `Recorder` by itself, under its own specification, as an abstract queue with
   counted losses that the pipeline implements (`RecorderImplemented` shows that
   the pipeline's server half is the recorder).
2. An abstract specification of idempotent creation, implemented by
   `IdempotentCreate` as long as no create outlives its lock.
3. An abstract limiter that counts each window exactly, implemented by
   `RateLimiter` for counters that no fault has hit.
4. Action properties of the worker: an event that is settled stays settled, and a
   link's counters decrease only when it is deleted, which `TotalGrows` has for
   one step.
