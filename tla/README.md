# Verification of the backend projects

TLA+ specifications, TLC configurations and TLAPS proofs for the programs of
this repository. `PROJECT.json` holds the same information for tools: which
definition models which lines, which run checks which property, which hazards
the code is exposed to.

## The system

The repository holds fifteen independent programs (paths are under `src/`).
They share no process or store; each is a small backend around one hard
problem. What each keeps as state, what changes it, and what makes it hard:

| program | state and operations | what is hard | status |
|---|---|---|---|
| `microservice/order` | orders, idempotency index, transactional outbox; `Place`, `ClaimDue`, calls to the margin service and the exchange, `Finalize`/`Retry`/`Abandon` | leases that lapse under a live worker, calls with an unknown outcome, compensation, crashes | modelled, checked, proved |
| `livescale-control-plane` | a slot per streaming device, sessions, requests in flight, registers of an estimator; authorize, heartbeat, stop, stats, sweeper | two stores changed one after the other, expiry racing requests, lock-free counters | modelled, checked, partly proved |
| `ttd` | Redis holds and counters, booking file; hold, confirm, expire, recover | a file write between two Redis scripts, crashes, failed `Sync`, two workers | modelled, checked |
| `cricket-stadium-booking` | seat bookings, idempotency keys, refund outbox, seat map cache, a browser page; hold, confirm, release, expire, cancel | transactions against partial unique indexes, replays, expiry, refund leases, replies out of order | modelled, checked |
| `subscription-core` | subscriptions, processed events, entitlement cache, usage counters; webhooks, reconciler, flusher | duplicated, reordered and failing webhooks, cache fills racing busts | modelled, checked, partly proved |
| `kafkaeda` | rides, drivers, outbox, inbox; ride requests, driver locations, dispatch, projection | at-least-once delivery, reservation of one driver by two rides | modelled, checked |
| `food-delivery-kafka` | orders, outbox, inbox, read model; relay, consumers, services | redelivery after a crash, events in any order | modelled, checked |
| `food-delivery-eda` | in-memory bus and read model; the services | retries that reorder events | modelled, checked |
| `railcache` | search cache, lock, breaker; social outbox and counters | lock overrun, invalidation racing a fill, half-open probes | modelled, checked |
| `fintech-gateway-go` | circuit breaker, response cache, backend pool, rate limiter | lock-free transitions by stalled callers | modelled, checked |
| `fintech-ledger-go` | accounts, idempotency store, shards; transfer, debit, withdraw | lock order, ambiguous payouts, cancelled calls | modelled, checked, partly proved |
| `distributed-primitives-go` | election terms, fence line, clocks, CRDTs | partitions, stale leaders, merge order | modelled, checked, elections proved |
| `instascale-observability` | like counts in Redis and Postgres, client breaker | two stores, warm-up racing increments | modelled, checked |
| `golangdebugging` | event ring buffer, failure lab, feed cache | ring arithmetic, resets racing experiments, clients that leave | modelled, checked |
| `secure-multitenant-go` | tenant stores, roles, encryption | none that a model checker reaches: single-step operations | not modelled |

HTTP decoding, rendering, metrics, configuration and command-line wiring are
left out everywhere: they hold no state a property could be about.

## Modules

| module | models |
|---|---|
| `OrderOutbox` | `microservice/order`: service, store and dispatcher |
| `OrderSaga` | the saga `OrderOutbox` implements: what one order may go through, without outbox, leases and workers |
| `OrderOutboxLemmas` | what each step of `OrderOutbox` that settles no event keeps, and what a settlement keeps |
| `OrderOutboxProofs` | the settling and claiming steps, and the proof that the inductive invariant always holds |
| `OrderOutboxTheorems` | the safety properties, the action property and the refinement, from the inductive invariant |
| `LiveSessions` | `livescale-control-plane`: manager, session store, handlers, sweeper, for one account |
| `TtdQueue` | `ttd/internal/queue`: service, booking file, timer workers, for one slot |
| `SubscriptionSync` | `subscription-core`: webhook processor, reconciler, store and entitlement cache, for one customer |
| `SubscriptionProofs` | the inductive invariant of `SubscriptionSync` and the theorems that follow |
| `UsageFlush` | `subscription-core/usage`: meter, in-memory counter, flusher |
| `SeatHolds` | `cricket-stadium-booking`: bookings and idempotency keys of one match |
| `RefundOutbox` | `cricket-stadium-booking/cmd/worker`: the refund outbox and its workers |
| `Ledger` | `fintech-ledger-go`: accounts, idempotent debits, withdrawal saga |
| `LedgerProofs` | the inductive invariant of the idempotency keys of `Ledger`, and `DebitedOnce` |
| `ShardOwner` | `fintech-ledger-go/internal/partition`: one shard and the callers of `Do` |
| `ReconcilePool` | `fintech-ledger-go/internal/reconciliation`: the worker pool |
| `SeatMapCache` | `cricket-stadium-booking/internal/booking`: the cached seat map and the retried writes that drop it |
| `SeatPicker` | `cricket-stadium-booking/web/app.js`: the page, its timers and its requests |
| `EventRelay` | `kafkaeda/internal/platform`: outbox relay, topic, consumer groups |
| `RideDispatch` | `kafkaeda`: rides, dispatcher, ride projection |
| `SocialPulse` | `railcache/internal/social`: likes, outbox with leases, projections |
| `FoodOrders` | `food-delivery-kafka`: one order through outbox, consumers and services |
| `FoodBus` | `food-delivery-eda`: the bus, the services, the read model |
| `GatewayBreaker`, `GatewayFetch`, `GatewayCache` | `fintech-gateway-go`: breaker, proxied requests over the backend pool, response cache |
| `SearchCache`, `CacheBreaker` | `railcache/internal/search` and `cache`: the read path of a key, the breaker around Redis |
| `RateLimits` | the token buckets of `fintech-gateway-go`, `railcache` and the stadium |
| `EdgeFeed`, `LikeCounts` | `instascale-observability`: the composed feed and its client, the cached counts |
| `FeedApi`, `FailureLab`, `IncidentSnapshots` | `golangdebugging`: feed API, failure lab, event ring and snapshot endpoint |
| `LiveTraffic` | `livescale-control-plane`: admission guard and HyperLogLog registers |
| `LiveTrafficProofs` | the registers' and the guard's invariants and theorems |
| `Election`, `LogicalClocks`, `Replicas` | `distributed-primitives-go`: elections with fencing, clocks, replicated registers and counters |
| `ElectionProofs` | the inductive invariant of `Election` and its two theorems |
| `MC...` | the constants TLC instantiates each of these with |
| `MCClaims` | what the repository says of ten of the services and their code does not do |

### OrderOutbox

A `MemoryStore` method runs under one mutex on a copy of the state, so it is
one step; a `Dispatcher` worker takes a step per store method and per gateway
call, and anything may happen between two of them. `orders` and `events` are
the store's maps, with ids as indices of a sequence; `hold` and `exchange` are
what the external services did under each operation id (they deduplicate by
operation id, as the gateway interfaces of `service.go` require); `batch` is what a worker claimed
and has not settled, `reply` the answer it holds. A call may take effect and
still return an error. `Stop` loses a worker's batch (a crash, or an error that
aborts it); `Tick` may carry the clock past a lease its worker still uses
(`MaxOverruns`). Tokens are claim counts, fresh as `newID` makes them. `Place`
of a replayed or conflicting key changes nothing and is a stuttering step. The
clock read of `ClaimDue` is taken with the claim; an older reading would only
shorten the lease.

### LiveSessions

The two stores lock per shard, so each of their methods is one step. A handler
reads the clock, then changes the slots, then the sessions (`call` remembers
how far it is), and may stall for ever between any two. The sweeper reaps the
sessions, releases the device of each, then reaps the slots. Sharding spreads
accounts and is left out; reaping all expired sessions is one step, because
the reaps of single sessions commute with everything but each other.

### TtdQueue

Each Lua script is one step, the booking file is written between two of them.
`durable` counts a hold's synced lines and `unsynced` those whose `Sync` failed
or never ran; a crash of the process keeps the latter, one of the machine may
lose them; `seen` is rebuilt from whatever lines the file then has. A write
that a crash cuts off leaves part of a line (`torn`), with which the service
does not start again (`booking_store.go:41`). Confirming
visitors and timer workers (any number, as the comment on
`ReleaseExpiredHolds` allows) interleave. `Abort` ends a request at any point,
as a Redis error does.

### SubscriptionSync

`Handle` and `ReconcileOne` are the same three statements on the store and the
cache: get the row, upsert it if the snapshot is accepted, bust the cache.
`task` holds where a webhook request or the reconciler is and what it has read,
and every statement is a step, so calls interleave as concurrent requests do.
Of a row the model keeps the status, the plan and the watermark; seats and the
cancel flag travel with the plan, and the period dates, which neither access
nor `drifted` depends on, are left out. An event is its instant: the provider's clock advances
with each change, as the watermark assumes. `GetBySubject` is the one of
`store/postgres` (the latest row; the in-memory one keeps one row per
customer). A store call may fail before or after its effect. `applied` counts
the writes of an event. `raced` records that a bust found a reader between
`GetBySubject` and `Set`, or that an upsert was not followed by a bust: the
entry it leaves has no expiry. The provider is external: `Change` is what it
does, with an event whose implied status is what `FetchSubscription` returns
afterwards. `Tick` is a call of `ReconcileAll` for every subscription; nothing
says that it comes, since the reference daemon's loop only logs
(`main.go:160-164`). `calm` says that since the last call nothing failed and
nobody else wrote.

### UsageFlush

`Record`, the snapshot, each append and each return of `Run` is a step; `used`
counts what was ever recorded, `ledger` what was appended. A restart empties
the counter and the flushed totals, which are both in memory.

### SeatHolds and RefundOutbox

`placeHold` is two steps: `Begin` is the lookup of the key and the start of the
transaction, whose instant is `now()` for all its statements (`past` remembers
which holds had expired then); `Place` is the transaction at its commit, when
both unique indexes and the primary key of `idempotency_keys` have let it
through, and `Rollback` is every other end of it. Transactions of one buyer
exclude each other by the advisory lock, and rows that conflict wait for each
other, so no more steps can be told apart. A row keeps the key it was made
under, for `KeyedOnce`. An expiry is ahead, exactly now, or past, as `< now()`
and `> now()` in the statements differ on the instant itself. `CancelBooking`,
the sweep and the pruning are store methods that the repository calls and does
not contain; they are modelled from those calls. `RefundOutbox` takes the
events of cancelled bookings through claim, refund, processed, one statement a
step; a lease lapses when nobody uses the claim, or, counted as a trouble,
while somebody does.

### Ledger, ShardOwner and ReconcilePool

A `Transfer` is a step per lock and one under both; `Debit` and `Credit` lock,
change and unlock in one step, which waits for the lock. `Reserve`, the debit
and `Complete` or `Release` are steps of their own, so requests with one key
interleave. A payout may take effect and still fail; `gained` adds these up,
for the saga then credits the wallet (only completed steps are compensated, so
`ReversePayout` is never called). In `ShardOwner` a caller can give up in both
selects of `Do`; what it sent runs all the same. `ReconcilePool` has a step per
rendezvous on `jobs` and `results`.

### SeatMapCache and SeatPicker

The cached seat map is the number of writes it reflects; a load, a put, a drop
and each attempt of `withRetry` are steps on a clock, so that the one-second
TTL and the request timeout can be compared with the age of an answer. A step
of `SeatPicker` is one run of the event loop: a handler and the continuations
it releases. Of the server it keeps who holds and who has booked each seat;
other buyers and the refund worker act on it too, and replies arrive in any
order or fail. Drawing is left out, but a click is possible only where the
drawn page offers it.

### EventRelay, RideDispatch, SocialPulse, FoodOrders and FoodBus

The three Kafka programs share a shape, and the models keep what differs. In
`EventRelay` the relay holds its rows locked while it publishes and marks them
in one transaction; a group's inbox row, its effect and its emitted events
commit together, the offset afterwards. A failed handler is not retried: the
loop fetches the next message, whose commit covers the failed one (`skipped`).
A relay or a group may be stopped and started again (`down`), and stays down if
nobody does. `RideDispatch` builds on that delivery: an event takes
effect once, at any time, and each transaction of the dispatcher is split where
it takes its row lock. `SocialPulse` has relay replicas that claim rows under
leases; a lease may lapse in use; the message of a handler that failed comes
back at a rebalance (`uncommitted`) unless a later commit has covered it
(`lost`). In `FoodOrders` the inbox row is written
after the handler's effects, so a crash between the two repeats them, and a
crashed service comes back when somebody starts it (`down`); ten
groups at once are out of reach, so a deployment names the groups that run and
what the stopped ones had emitted. `FoodBus` has a queue per subscription,
retries by timer and dead letters.

### Breakers, caches and limits

`GatewayBreaker` has a step per atomic operation, and callers that stall
anywhere; `CacheBreaker` one per critical section. A request whose body
breaks off ends in the panic of `ReverseProxy` and reports nothing
(`unreported`, `leaked`). `GatewayFetch` leaves the
breaker's answers free, the weights of the random strategy too, and pins the
consistent hash to one backend. In `GatewayCache` a load runs under the shard's
lock, as it does in the code; `behind` marks a caller whose key another loaded
while it waited for that lock. `SearchCache` follows one key through lookup, lock, fill,
refresh and invalidation, one Redis command a step, while Redis fails and
returns, and while clients leave; a row's version stands for the rows.
`RateLimits` has the gateway's bucket, which takes time back when a request read
the clock earlier than the one before it, and the `rate.Limiter` of the two
middlewares, which does not; both read the clock before the lock, and `MaxStall`
bounds that delay.
`EdgeFeed` has two calls per feed through breakers all requests share.
`LikeCounts` keeps which of the two keys are cached and whether the count has a
TTL (an `INCR` on a missing key starts one without). `FeedApi` keeps which of
the three parts a feed has; `IncidentSnapshots` numbers the records;
`FailureLab` has a step on each side of every unlock; the fallback of
`boundedInt` is not clamped, so a default may be above the maximum.

### LiveTraffic

A request adds itself to the count and compares the value it got, one step;
`Add` is its load and its compare-and-swap, `Estimate` a step per register. An
account hashes to a register and a rank. The estimate's formula is left out;
what it is computed from is kept.

### Election, LogicalClocks and Replicas

`Cluster` runs every operation under its lock, so each is a step; an election
without a quorum still raises the candidate's term. Messages between clocks
and states between replicas stay available for ever, which covers loss,
repetition and reordering; wall clocks are free, and two writes of one leader
may carry the same timestamp.

### MCClaims

The claims are taken up one after the other: the part a claim is about runs, from
its initial state or where the claim before left it, until the claim is refuted;
then the next is taken up. A state is told apart by the claim and the part it is
about (`VIEW Seen`). `SomeClaimStands` says that this never gets past the last
claim, so its counterexample is a behaviour that refutes each of the twelve.

## Runs

| run | instance | properties |
|---|---|---|
| `order_saga` | one order, two workers, two attempts, one crash, two overrun leases | `CompensationIsSafe`, `AcceptedIsBacked`, `LocalFollowsRemote`: what the order says, what was released and what the services decided agree; `SettledIsFinal`: late workers change nothing; `ImplementsSaga`; `OrdersSettle` |
| `order_batches` | two orders, batches of two, one overrun | `OneOrderPerKey`, `SagaIsLinear`, `LeaseIsExclusive` and the inductive invariant `IndInv` |
| `live_slots` | three devices, two slots, two handlers, three sessions | `SlotsWithinLimit`, `SlotOwnsSession`, `SlotKeepsSession`, `SlotsReclaimed` |
| `live_limit` | two devices, one slot, one handler, no heartbeats | violation of `DeviceLimit` |
| `ttd_queue` | two holds for one place, two visitors, two workers, a crash, a failed sync | `UsedIsExact`: the counter is the number of places taken, never above the peak; `BookedIsTaken`, `OneLine`, `ConfirmedIsDurable`, `HoldsResolve` |
| `subscription` | two subscriptions, three kinds of change and two instants, one request, the reconciler, one reader, one fault; two usage keys, two units each, two errors | `AppliedOnce`, `CacheFollowsStore`; `ReconcileRepairs`: after a call of `ReconcileAll` that nothing disturbed every row agrees with the provider; `NeverDoubleBills` |
| `subscription_watermark` | one subscription, two requests | violation of `WatermarkAdvances` |
| `bookings` | the same key for two seats and a keyless request, three rows; three refunds, two workers, batches of two, two troubles; two accounts, two goroutines, a known and an unknown account to debit; two callers with two calls, a channel of one; three transactions, two workers | `OnceEach`: a key makes one booking and a call runs once, in order; `RefundsComplete`; `MoneyConserved`, `DebitedOnce`; `CallsReturn`: no deadlock between transfers, every `Do` and `Reconcile` returns |
| `usage_retry` | one failed append | violation of `UsageReachesLedger` |
| `seat_picker` | one seat, two names, two writes, two lists under way | `BookingsAreOwn`, `MapFollowsWrites`, `PollingGoesOn` |
| `services` | the other twenty-one modules, each by itself (`part`), with the constants of `MCServices` | see below |
| `claims` | the parts of `services` and one visitor and one worker of `TtdQueue` | violation of `SomeClaimStands` |

The properties of `services` each join what several modules promise:

| property | joins |
|---|---|
| `EffectsOnce` | `EventRelay!EffectOnce`, `SocialPulse!LikeCountsOnce`, `FoodOrders!UninterruptedOnce` (until a handler is interrupted) |
| `OneOwner` | `RideDispatch!DriverServesOne`, `Election!OneWriter` |
| `BreakersDecide` | `GatewayBreaker!HalfOpenDecides`, `CacheBreaker!HalfOpenHasProbe`, `EdgeFeed!StormIsCapped` |
| `LimitsHold` | `RateLimits!WithinRate`, `IncidentSnapshots!WindowsHold`, `GatewayFetch!ConnsMatchRequests`, `FailureLab!LeakIsCounted`, `LiveTraffic!AdmissionHolds` |
| `AnswersAreSound` | `FeedApi!GapsAreReal`, `SeatMapCache!StaleIsBounded`, `IncidentSnapshots!ShowsNewest`, `LiveTraffic!EstimateMissesNobody` |
| `ReplicasAgree` | `LogicalClocks!ClocksRespectCausality`, `Replicas!CountsEveryWrite` |
| `StepsForward` | `RideDispatch!StatusAdvances`, `Election!WritesAdvance`, `FoodBus!ChainInOrder`, `SearchCache!LockIsOwned` |
| `WorkCompletes` | again and again: `Delivered`, `LikesProjected`, `RejectedIsRefunded`, `OrdersEnd`, `RequestsAnswered`, `ShardReleased`, `FeedsAnswered`, `ConnsComeBack`, `StaleIsReplaced`; in the end: `CountsCatchUp`, `DegradationEnds` |

Bounds. Two actors of each kind are enough for every race the code has (each
operation conflicts with at most one other on the same key), and one more
device or hold than there are places makes the limit bite. Clocks run long
enough for a lease, a session or a hold to lapse, be taken over and lapse
again; faults are counted so that each can happen during the recovery from the
one before. `order_saga` and `order_batches` allow the system to stop
(`CHECK_DEADLOCK FALSE`): with all orders settled and the clock at its bound
nothing is left to do. `subscription` allows it because `Run` of the flusher
returns, `bookings` because the pool does, `ttd_queue` because the service may
not start again, and `services` and `claims` because most parts
end when the events, writes and faults their bounds allow are used up. The
other runs check deadlock.
The halves of `subscription` and the five parts of `bookings` share no state,
and a behaviour is one of either (`half`, `part` in the MC modules). Three rows
of `bookings` let two requests find one dead booking and both try to replace
it. Three devices for two slots let one device keep its slot while the two others
compete. `live_limit`, `subscription_watermark` and `usage_retry` are
as small as their counterexamples allow. In `services` thresholds, capacities
and buckets are one or two, so that each is reached, passed and reset within
the requests allowed; breakers are configured with fewer trials than successes
needed, the case `newWithClock` corrects; and each part has at least one fault,
crash, outage or lapse more than its recovery consumes.

Fairness. `order_saga`: a worker that can poll, call or settle does (its loop
never blocks for ever: calls have contexts), and time passes. `live_slots`:
the sweeper's ticker and the clock; handlers may stall for ever. `ttd_queue`:
the workers' tickers and the clock; visitors need not come back. `subscription`
and `claims` check safety only and assume none.
`usage_retry`: the flusher's ticker and its loop. `bookings`: the workers'
tickers and leases that nobody uses; `sync.Mutex` and channels serve those who
wait in turn (strong fairness of a goroutine's step and of a send); `process`
and the commands of a shard return. Failures are bounded by `MaxTroubles`, so
`RefundsComplete` says that a refund is made once statements succeed again.
`seat_picker`: replies and timers come; the user need not do anything.
`services`: relays, consumers and retry timers that run go on (their loops and
tickers; nobody need start what has stopped), requests under way run on and are answered or time out, keys with a TTL expire,
leases that nobody uses lapse, and a waiting goroutine gets the shard's mutex
in the end (strong fairness, as `sync.Mutex` serves in turn). Since a behaviour
belongs to one part, one fairness condition serves an action of several parts.

## What the checks show to be wrong

* `live_limit`. The sweeper releases slots by device name. A device that
  authorizes again after its session expired and before the sweep loses the
  slot of its new session, and the next device is admitted: two devices stream
  under a limit of one, which `manager.go:75-76` rules out.
* `subscription_watermark`. `Handle` checks the watermark on a row it read
  earlier and upserts unconditionally. Two requests that read before either
  writes leave the older state in the store, against `README.md:24` and
  `reconciler.go:62`. `ReconcileRepairs` shows that a reconciliation repairs it.
* `usage_retry`. A failed append is not "retried next tick"
  (`flusher.go:59`): `Run` returns the error and no tick follows. That it
  returns is also what keeps `NeverDoubleBills` true when the failed append
  took effect.
* `claims`. Each line quoted in the comment on the claim; what holds instead is
  the property of the other runs named last.

| claim | said in | what the code does | what holds |
|---|---|---|---|
| `FoodOrders!EffectivelyOnce` | `dedup.ts:9-10`, `chaos.ts:7-8` | a consumer killed between its effects and its inbox row repeats them | `UninterruptedOnce` |
| `FoodOrders!RefundCompensates` | `payment-svc/index.ts:44-45` | the saga takes the amount from the read model, which may not have the order yet, and refunds 0 | `RejectedIsRefunded` |
| `FoodBus!NothingAfterTerminal` | `InMemoryBus.ts:23`, `orderStateMachine.ts:35-40` | a retried event is delivered after later ones of its order | `ChainInOrder` |
| `SeatMapCache!StaleWithinTTL` | `hold.go:35-37`, `seatcache.go:11` | a load that started before the write may put its map until its own timeout, and that map lives a TTL more | `StaleIsBounded` |
| `GatewayBreaker!OutcomesReported` | `breaker.go:84-85` | a proxied request that panics reports nothing, and a half-open breaker may run out of trials | `HalfOpenDecides` |
| `GatewayFetch!ConnsReleased` | `pool.go:69-70` | nor does it release its connection | `ConnsMatchRequests` |
| `GatewayCache!NoDuplicateLoad` | `cache.go:117-120` | a caller that waited behind a load whose entry expired or was evicted by then loads again | `ShardReleased` |
| `EventRelay!CommittedIsProcessed` | `consumer.go:26`, `64` | the commit of the next message covers the failed one | `EffectOnce`, `Delivered` |
| `SocialPulse!NothingLost` | `kafka.go:81`, `118` | the same | `LikesProjected` |
| `Replicas!RegistersAgree` | `lww.go:26-28` | with equal timestamps and node ids each replica keeps its own value | `CountsEveryWrite` |
| `TtdQueue!RecordIsIdempotent` | `booking_store.go:14` | a line whose `Sync` failed is written again by the retry | `OneLine`, while no write lacks its `Sync` |
| `TtdQueue!AlwaysDurable` | `ttd/README.md:10-11` | after a restart a line counts as recorded whether it was synced or not | `ConfirmedIsDurable`, likewise |

`CacheFollowsStore` names the one race the cache is open to: a reader that
fills it after the bust of an upsert it has not seen. `MoneyConserved` names
the one way money is created: a payout that failed after the bank had paid.
`StormIsCapped` is what holds of the client of `instascale`: an open breaker
lets one more attempt of each call through.

## Proofs

`OrderOutbox`, for every set of workers, keys and hashes and all bounds, retry policies and
batch sizes (assumptions `BoundsAssumption`, `PolicyAssumption`):

* `Agreement`: `Spec => []IndInv`. None of the safety properties is inductive:
  whether a settlement is safe depends on the token in the worker's hands, on
  the order's progress, on the events created so far and on what the services
  have done. `IndInv` ties these together: a claim with the event's current
  token agrees with the event (`ClaimsInv`), an open event is the next step of
  its order (`EventsInv`), what an order has reached was reached by events of
  its own (`OrdersInv`), services decided only operations of the right kind
  (`ServicesInv`), and a definite answer in a worker's hands is what the
  service decided (`RepliesInv`). One lemma per action proves that it is kept.
* `TypeCorrect`, `OneOrderPerKeyHolds`, `SagaIsLinearHolds`,
  `LeaseIsExclusiveHolds`, `CompensationIsSafeHolds`, `AcceptedIsBackedHolds`,
  `LocalFollowsRemoteHolds`: the invariants of the runs, from `IndInv`.
* `SettledIsFinalHolds`: the action property.
* `ImplementsSagaHolds`: `Spec => ImplementsSaga`, step by step under the
  mapping of `OrderOutbox`.

`SubscriptionSync`, for every set of subscriptions, requests and readers, every
set of provider changes and all bounds (assumptions `SyncAssumption`,
`SnapshotsAssumption`, `NoneAssumption`):

* `SyncInvHolds`: `Spec => []SyncInv`. `AppliedOnce` needs `MarkedInv`: a
  request holds an event that is marked, no two requests hold the same one, and
  an event that is not marked or still waits for its write was never written.
  `CacheFollowsStore` needs `FreshInv`: what readers are about to cache follows
  the store too.
* `AppliedOnceHolds` and `CacheHolds`: the two properties of the run.

`Ledger`, for every set of goroutines, accounts and keys:

* `KeyInvHolds`: `Spec => []KeyInv`. `DebitedOnce` alone is not inductive: a
  pending key says nothing of the debit. `KeyInv` adds that a key has at most
  one holder, that it is pending while held, and that it has been debited just
  when its holder is about to complete it.
* `DebitedOnceHolds`: the property of the run.

`Election`, for every set of nodes and all bounds (`MaxTerm` a number):

* `OneWriterHolds` and `WritesAdvanceHolds`, from `FenceInv`: leaders have
  different terms, none above the fence line, and some node has reached the
  fence line. The last is what makes the term of an election new although only
  the terms of nodes are looked at; without it `OneWriter` is not inductive.
  They are the parts of `OneOwner` and `StepsForward` about elections.

`LiveTraffic`, for every set of workers and accounts, number of registers, hash
and limits with `SoftMax <= HardMax` (`Configured`; `config.go:91-93` raises a
hard limit that is below the soft one):

* `EstimateMissesNobodyHolds`, from `RegisterInv`: what a finished `Add`, a
  pending compare-and-swap or a scan has seen in a register bounds it from
  below, since registers only grow.
* `AdmissionHoldsAlways`: the count is the number of requests inside, so a
  request that is let in finds no more than its limit.

Liveness (`OrdersSettle`, `SlotsReclaimed`, `HoldsResolve`,
`RefundsComplete`, `CallsReturn`, `PollingGoesOn`, `WorkCompletes`) and
`MoneyConserved`, whose sums need induction, are model-checked only: the prover
has no rules for fairness or for such induction. The other properties of
`services`, `seat_picker`, `live_slots` and `ttd_queue` are model-checked.

## Not modelled

* `secure-multitenant-go`, and authentication and the WAF of
  `fintech-gateway-go`: access control, encryption and pattern matching, each a
  single step without state of its own to interleave.
* HTTP routing, decoding and rendering, metrics, tracing, configuration,
  migrations, demo commands, load generators and front ends other than the
  stadium's page: no state a property could be about. They are more than half
  of the repository's lines.
* Within modelled parts: `Set` of the gateway's cache and `Merge` of the
  estimator (nothing calls them), the hash ring and the weights of the backend
  pool, jitter and date-dependent freshness of the search cache, notifications
  and simulations of the food services, the retry loop and the balance cache of
  `fintech-ledger-go`, retry storms and slow dependencies of the failure lab,
  the floating-point estimate of livescale.
