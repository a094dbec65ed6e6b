----------------------------- MODULE MCServices -----------------------------
(* Instances of the smaller services and libraries for TLC.  They share no   *)
(* state: a behaviour is one of a single part, chosen at the start, while    *)
(* the variables of the others keep their initial values.                    *)
EXTENDS Naturals

CONSTANT None

VARIABLES
  part,
  unpublished, locked, wrote, topic, outboxReader, ack, committed, processed, recorded, outboxDown, added, skipped, outboxFaults,
  socialLikes, row, claimed, acked, stopped, topics, uncommitted, socialInbox, likesCount, notifications, lost, mishaps,
  up, foodDown, emitted, foodInbox, foodWork, dead, foodOrder, refunds, foodFaults,
  placed, queue, handling, backoff, deadLetters, timeline,
  rides, rideDrivers, availability, pendingRides, assignments, matchEvents, pings, matchOpen,
  state, consecutiveFail, consecutiveOK, halfOpenIssued, elapsed, breakerMu, breakerAt, breakerRequests, unreported,
  strategy, healthy, activeConns, rrCounter, fetchAt, attempt, backend, fetchReply, leakedConns, probes,
  shardClock, shardOrder, shardMu, shardCall, shardRequests,
  probeFailures, probeOpen, cooled, halfOpen, probeCall,
  searchDb, entry, lock, redisUp, searchAt, searchRead, tries, searchFailures,
  kind, ratesClock, buckets, global, ratesWork, log, back, ratesRequests,
  seatsNow, commits, item, flight, seatsRead, write,
  edgeReply, edgeCall, edgeFailures, opened, closes,
  countLikes, followers, countDb, countReader, liker, held, fail503, leaks, resetting, posts, countFaults,
  cache, req, feedFailed, feedFailures, cancels,
  snapEvents, next, count, logged, snapNow, snapSeen, overflow, stackMu, request, grants,
  gate, leaked, memory, blocked, waiting, holding, labCall,
  State, Term, group, nextGroup, committedTrm, writer,
  lamport, vec, hlc, clockEvents, clockSeen,
  inflight, liveWork, regs, counted,
  counts, reg, sent, writes

Accepted == {"order.placed", "payment.requested", "payment.authorized",
             "restaurant.notified", "restaurant.accepted"}

\* Ten groups at once are out of reach: some run while the others are stopped,
\* after the types those had emitted.
Deployments ==
  {[groups |-> {"orchestrator", "payment", "saga", "restaurant"}, emitted |-> {"order.placed"}],
   [groups |-> {"delivery", "kitchen", "lastmile"}, emitted |-> Accepted],
   [groups |-> {"projection"}, emitted |-> Accepted],
   [groups |-> {"projection", "saga"},
    emitted |-> {"order.placed", "payment.requested", "payment.authorized",
                 "restaurant.notified", "restaurant.rejected"}]}

Strategies == {"RoundRobin", "LeastConnections", "WeightedRandom", "ConsistentHash"}

Outbox == INSTANCE EventRelay WITH
  Event <- {"e1", "e2"}, Group <- {"g"}, MaxFaults <- 2, reader <- outboxReader,
  down <- outboxDown, faults <- outboxFaults
Social == INSTANCE SocialPulse WITH
  Actor <- {"a1", "au"}, Author <- "au", Relay <- {"r1", "r2"}, MaxMishaps <- 1,
  likes <- socialLikes, inbox <- socialInbox
Food == INSTANCE FoodOrders WITH
  MaxAttempts <- 2, Deployment <- Deployments, MaxFaults <- 1, down <- foodDown, inbox <- foodInbox,
  work <- foodWork, order <- foodOrder, faults <- foodFaults
Bus == INSTANCE FoodBus WITH
  Order <- {"o1"}, MaxAttempts <- 2
Match == INSTANCE RideDispatch WITH
  Ride <- {"q1", "q2"}, Driver <- {"d1", "d2"}, MaxPings <- 1, events <- matchEvents,
  open <- matchOpen
Breaker == INSTANCE GatewayBreaker WITH
  Caller <- {"c1", "c2"}, FailureThreshold <- 1, HalfOpenSuccessThreshold <- 2,
  ConfiguredHalfOpen <- 1, MaxRequests <- 3, mu <- breakerMu, at <- breakerAt,
  requests <- breakerRequests
Fetch == INSTANCE GatewayFetch WITH
  Request <- {"q1"}, N <- 2, Strategy <- Strategies, Pinned <- 0, MaxProbes <- 2,
  at <- fetchAt, reply <- fetchReply, leaked <- leakedConns
Shard == INSTANCE GatewayCache WITH
  Client <- {"c1", "c2"}, Key <- {"k1", "k2"}, Capacity <- 1, TTL <- 1,
  MaxClock <- 2, MaxRequests <- 3, clock <- shardClock, order <- shardOrder,
  mu <- shardMu, call <- shardCall, requests <- shardRequests
Probe == INSTANCE CacheBreaker WITH
  Caller <- {"c1", "c2", "c3"}, Threshold <- 2, failures <- probeFailures,
  open <- probeOpen, call <- probeCall
Search == INSTANCE SearchCache WITH
  Client <- {"c1", "c2"}, Refresher <- {"f"},
  Instance <- [c \in {"c1", "c2"} |-> "f"], WaitTries <- 1, MaxWrites <- 1,
  MaxFailures <- 1, db <- searchDb, at <- searchAt, read <- searchRead,
  failures <- searchFailures
Rates == INSTANCE RateLimits WITH
  Client <- {"c1"}, Worker <- {"w1", "w2"}, Rate <- 1, Burst <- 2, IdleTTL <- 3,
  MaxStall <- 1, GlobalBurst <- 1, MaxClock <- 5, MaxRequests <- 4,
  clock <- ratesClock, work <- ratesWork, requests <- ratesRequests
Seats == INSTANCE SeatMapCache WITH
  Reader <- {"r1"}, Writer <- {"w1"}, TTL <- 1, Timeout <- 1, MaxRetries <- 1,
  MaxTime <- 3, now <- seatsNow, read <- seatsRead
Edge == INSTANCE EdgeFeed WITH
  Request <- {"q1", "q2"}, MaxRetries <- 2, FailThreshold <- 2, MaxCloses <- 1,
  reply <- edgeReply, call <- edgeCall, failures <- edgeFailures
Count == INSTANCE LikeCounts WITH
  Reader <- {"r1"}, Liker <- {"k1"}, MaxConns <- 1, MaxLikes <- 2, MaxFaults <- 1,
  likes <- countLikes, db <- countDb, reader <- countReader, faults <- countFaults
Feed == INSTANCE FeedApi WITH
  Request <- {"q1", "q2"}, MaxFailures <- 1, MaxCancels <- 1, failed <- feedFailed,
  failures <- feedFailures
Snap == INSTANCE IncidentSnapshots WITH
  Client <- {"c1", "c2"}, Capacity <- 2, MaxEvents <- 2, Limit <- 1, Minute <- 1,
  MaxTracked <- 1, MaxClock <- 2, MaxRecords <- 3, events <- snapEvents,
  now <- snapNow, seen <- snapSeen
Lab == INSTANCE FailureLab WITH
  Call <- {"k1", "k2", "k3"}, MaxLeakedGoroutines <- 2, MaxMemoryMiB <- 1,
  MaxDBHolders <- 2, Conns <- 1,
  Fallback <- [count |-> 3, mib |-> 2, connections |-> 3], MaxResets <- 2, call <- labCall
Raft == INSTANCE Election WITH
  Node <- {"n1", "n2", "n3"}, MaxTerm <- 3, MaxGroup <- 1
Clock == INSTANCE LogicalClocks WITH
  Process <- {"p1", "p2"}, Wall <- {1, 2}, MaxEvents <- 4, events <- clockEvents,
  seen <- clockSeen
Live == INSTANCE LiveTraffic WITH
  Worker <- {"w1", "w2", "w3"}, Account <- {"a1", "a2"}, Registers <- 2,
  Hash <- [a \in {"a1", "a2"} |-> [idx |-> 2, rank |-> IF a = "a1" THEN 1 ELSE 2]],
  SoftMax <- 1, HardMax <- 2, work <- liveWork
Repl == INSTANCE Replicas WITH
  Leader <- {1, 2}, Time <- {1, 2}, MaxWrites <- 3

(* The variables of each part. *)
relayVars == <<unpublished, locked, wrote, topic, outboxReader, ack, committed, processed, recorded, outboxDown, added, skipped, outboxFaults>>
socialVars == <<socialLikes, row, claimed, acked, stopped, topics, uncommitted, socialInbox, likesCount, notifications, lost, mishaps>>
foodVars == <<up, foodDown, emitted, foodInbox, foodWork, dead, foodOrder, refunds, foodFaults>>
busVars == <<placed, queue, handling, backoff, deadLetters, timeline>>
ridesVars == <<rides, rideDrivers, availability, pendingRides, assignments, matchEvents, pings, matchOpen>>
breakerVars == <<state, consecutiveFail, consecutiveOK, halfOpenIssued, elapsed, breakerMu, breakerAt, breakerRequests, unreported>>
fetchVars == <<strategy, healthy, activeConns, rrCounter, fetchAt, attempt, backend, fetchReply, leakedConns, probes>>
shardVars == <<shardClock, shardOrder, shardMu, shardCall, shardRequests>>
probeVars == <<probeFailures, probeOpen, cooled, halfOpen, probeCall>>
searchVars == <<searchDb, entry, lock, redisUp, searchAt, searchRead, tries, searchFailures>>
limitsVars == <<kind, ratesClock, buckets, global, ratesWork, log, back, ratesRequests>>
seatsVars == <<seatsNow, commits, item, flight, seatsRead, write>>
edgeVars == <<edgeReply, edgeCall, edgeFailures, opened, closes>>
countsVars == <<countLikes, followers, countDb, countReader, liker, held, fail503, leaks, resetting, posts, countFaults>>
feedVars == <<cache, req, feedFailed, feedFailures, cancels>>
snapshotsVars == <<snapEvents, next, count, logged, snapNow, snapSeen, overflow, stackMu, request, grants>>
labVars == <<gate, leaked, memory, blocked, waiting, holding, labCall>>
raftVars == <<State, Term, group, nextGroup, committedTrm, writer>>
clocksVars == <<lamport, vec, hlc, clockEvents, clockSeen>>
trafficVars == <<inflight, liveWork, regs, counted>>
replicasVars == <<counts, reg, sent, writes>>
parts == <<relayVars, socialVars, foodVars, busVars, ridesVars, breakerVars, fetchVars,
           shardVars, probeVars, searchVars, limitsVars, seatsVars, edgeVars, countsVars,
           feedVars, snapshotsVars, labVars, raftVars, clocksVars, trafficVars, replicasVars>>
all == <<part, parts>>

Keep(p) ==
  /\ UNCHANGED part
  /\ p # "relay" => UNCHANGED relayVars
  /\ p # "social" => UNCHANGED socialVars
  /\ p # "food" => UNCHANGED foodVars
  /\ p # "bus" => UNCHANGED busVars
  /\ p # "rides" => UNCHANGED ridesVars
  /\ p # "breaker" => UNCHANGED breakerVars
  /\ p # "fetch" => UNCHANGED fetchVars
  /\ p # "shard" => UNCHANGED shardVars
  /\ p # "probe" => UNCHANGED probeVars
  /\ p # "search" => UNCHANGED searchVars
  /\ p # "limits" => UNCHANGED limitsVars
  /\ p # "seats" => UNCHANGED seatsVars
  /\ p # "edge" => UNCHANGED edgeVars
  /\ p # "counts" => UNCHANGED countsVars
  /\ p # "feed" => UNCHANGED feedVars
  /\ p # "snapshots" => UNCHANGED snapshotsVars
  /\ p # "lab" => UNCHANGED labVars
  /\ p # "raft" => UNCHANGED raftVars
  /\ p # "clocks" => UNCHANGED clocksVars
  /\ p # "traffic" => UNCHANGED trafficVars
  /\ p # "replicas" => UNCHANGED replicasVars

In(p, A) == part = p /\ A /\ Keep(p)

MCInit ==
  /\ part \in {"relay", "social", "food", "bus", "rides", "breaker", "fetch", "shard", "probe",
              "search", "limits", "seats", "edge", "counts", "feed", "snapshots",
              "lab", "raft", "clocks", "traffic", "replicas"}
  /\ Outbox!Init /\ Social!Init /\ Food!Init /\ Bus!Init /\ Match!Init
  /\ Breaker!Init /\ Fetch!Init /\ Shard!Init /\ Probe!Init /\ Search!Init
  /\ Rates!Init /\ Seats!Init /\ Edge!Init /\ Count!Init /\ Feed!Init
  /\ Snap!Init /\ Lab!Init /\ Raft!Init /\ Clock!Init /\ Live!Init
  /\ Repl!Init
  /\ part # "food" => up = {"projection"}
  /\ part # "fetch" => strategy = "RoundRobin"
  /\ part # "counts" => countDb = None
  /\ part # "limits" => kind = "gateway"

MCNext ==
  \/ In("relay", Outbox!Next) \/ In("social", Social!Next) \/ In("food", Food!Next)
  \/ In("bus", Bus!Next) \/ In("rides", Match!Next) \/ In("breaker", Breaker!Next)
  \/ In("fetch", Fetch!Next) \/ In("shard", Shard!Next) \/ In("probe", Probe!Next)
  \/ In("search", Search!Next) \/ In("limits", Rates!Next) \/ In("seats", Seats!Next)
  \/ In("edge", Edge!Next) \/ In("counts", Count!Next) \/ In("feed", Feed!Next)
  \/ In("snapshots", Snap!Next) \/ In("lab", Lab!Next) \/ In("raft", Raft!Next)
  \/ In("clocks", Clock!Next) \/ In("traffic", Live!Next) \/ In("replicas", Repl!Next)

\* The fairness of each module's FairSpec.  A behaviour is one of a single part,
\* so one condition can serve an action of each; and two groups of "food" share
\* one when no deployment has both.
Clocks == In("relay", Outbox!publishBatch) \/ In("bus", Bus!TimerFires)
          \/ In("fetch", Fetch!Fetch("q1")) \/ In("search", Search!LogicalExpiry)
          \/ In("feed", Feed!Expire) \/ In("counts", Count!ExpireLikes)
          \/ In("lab", Lab!HoldEnds)
Runners == In("relay", Outbox!Run("g")) \/ In("search", Search!LockTTL)
           \/ In("counts", Count!ExpireFollowers) \/ In("lab", Lab!Acquire \/ Lab!GiveUp)
Callers(w, c, q) ==
  \/ In("social", Social!relayBatch(w)) \/ In("shard", Shard!Finish(c))
  \/ In("search", Search!Search(c)) \/ In("edge", Edge!Compose(q)) \/ In("feed", Feed!Call(q))
Servers(a, c) == In("social", Social!Consume(a)) \/ In("search", Search!Serve(c))
Groups == {{"orchestrator", "delivery", "projection"}, {"payment", "kitchen"},
           {"saga", "lastmile"}, {"restaurant"}}

MCSpec ==
  /\ MCInit /\ [][MCNext]_all
  /\ WF_all(Clocks) /\ WF_all(Runners)
  /\ WF_all(Callers("r1", "c1", "q1")) /\ WF_all(Callers("r2", "c2", "q2"))
  /\ WF_all(Servers("a1", "c1")) /\ WF_all(Servers("au", "c2"))
  /\ WF_all(In("search", Search!Serve("f")))
  /\ \A e \in Social!Event : WF_all(In("social", ~Social!InUse(e) /\ Social!LeaseLapses(e)))
  /\ \A G \in Groups : WF_all(In("food", \E g \in G \cap up : Food!Consume(g)))
  /\ \A c \in Bus!Consumer : WF_all(In("bus", Bus!deliver(c)))
  /\ \A c \in {"c1", "c2"} : SF_all(In("shard", Shard!Get(c))) /\ SF_all(In("shard", Shard!Lock(c)))
  /\ \A q \in {"q1", "q2"}, d \in Edge!Downstream :
       WF_all(In("edge", Edge!Succeed(q, d) \/ Edge!Fail(q, d) \/ Edge!Retry(q, d)))
  /\ WF_all(In("counts", Count!Query("r1") \/ Count!WarmLikes("r1") \/ Count!WarmFollowers("r1")))
  /\ WF_all(In("counts", Count!Upsert("k1")))
  /\ WF_all(In("counts", resetting # "no" /\ Count!Reset))

-----------------------------------------------------------------------------
\* The variables of every module keep their types.
TypesOK ==
  /\ Outbox!TypeOK /\ Social!TypeOK /\ Food!TypeOK /\ Bus!TypeOK /\ Match!TypeOK
  /\ Breaker!TypeOK /\ Fetch!TypeOK /\ Shard!TypeOK /\ Probe!TypeOK /\ Search!TypeOK
  /\ Rates!TypeOK /\ Seats!TypeOK /\ Edge!TypeOK /\ Count!TypeOK /\ Feed!TypeOK
  /\ Snap!TypeOK /\ Lab!TypeOK /\ Raft!TypeOK /\ Clock!TypeOK /\ Repl!TypeOK
  /\ Live!TypeOK

\* However often an event is published, delivered or handled, its effect happens
\* once, where the inbox row comes after the effect as long as nothing crashes
\* (EventRelay, SocialPulse, FoodOrders).
EffectsOnce == Outbox!EffectOnce /\ Social!LikeCountsOnce /\ Food!UninterruptedOnce

\* A driver serves one ride at a time and the ride shows that driver; at most one
\* node of a partitioned cluster may write (RideDispatch, Election).
OneOwner == Match!DriverServesOne /\ Raft!OneWriter

\* A breaker that has opened neither stays half-open for ever nor lets a storm
\* of retries through (GatewayBreaker, CacheBreaker, EdgeFeed).
BreakersDecide == Breaker!HalfOpenDecides /\ Probe!HalfOpenHasProbe /\ Edge!StormIsCapped

\* What a limit counts stays within it and is counted exactly: requests of a
\* client, in its bucket or its window, connections of a backend, goroutines of
\* the failure lab, requests in flight (RateLimits, IncidentSnapshots,
\* GatewayFetch, FailureLab, LiveTraffic).
LimitsHold ==
  /\ Rates!WithinRate /\ Snap!WindowsHold /\ Fetch!ConnsMatchRequests
  /\ Lab!LeakIsCounted /\ Live!AdmissionHolds

\* What a cache or a buffer answers is what it should be able to: no gap that a
\* client left in a feed, no seat map older than its bound, the newest records,
\* every account that was added (FeedApi, SeatMapCache, IncidentSnapshots,
\* LiveTraffic).
AnswersAreSound ==
  /\ Feed!GapsAreReal /\ Seats!StaleIsBounded
  /\ Snap!ShowsNewest /\ Live!EstimateMissesNobody

\* Stamps respect causality, and counters that merge lose no write and count none
\* twice (LogicalClocks, Replicas).
ReplicasAgree == Clock!ClocksRespectCausality /\ Repl!CountsEveryWrite

\* What a step never takes back: the status of a ride, the term of the last
\* write, the place of a status in an order's timeline, the lock of another
\* filler (RideDispatch, Election, FoodBus, SearchCache).
StepsForward ==
  /\ Match!StatusAdvances /\ Raft!WritesAdvance /\ []Bus!ChainInOrder
  /\ Search!LockIsOwned

\* What has begun ends, again and again: events arrive, requests are answered,
\* connections come back and stale entries are replaced (EventRelay, SocialPulse,
\* FoodOrders, FoodBus, GatewayFetch, GatewayCache, EdgeFeed, FailureLab,
\* SearchCache); and once likes and failures stop, the caches of counts and of
\* feeds hold what they should for good (LikeCounts, FeedApi).
WorkCompletes ==
  /\ []<>(/\ Outbox!Delivered /\ Social!LikesProjected /\ Food!RejectedIsRefunded
          /\ Bus!OrdersEnd /\ (part = "fetch" => Fetch!RequestsAnswered)
          /\ Shard!ShardReleased /\ Edge!FeedsAnswered /\ Lab!ConnsComeBack
          /\ Search!StaleIsReplaced)
  /\ <>[](Count!CountsCatchUp /\ Feed!DegradationEnds)
=============================================================================
