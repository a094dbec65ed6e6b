---------------------------- MODULE SocialPulse ----------------------------
(* railcache/internal/social: likes of a post, the outbox that relay replicas *)
(* drain under leases, the engagement projection and the notification writer. *)
EXTENDS Integers, FiniteSets

CONSTANTS
  Actor, Author,      \* who likes the post; Author likes their own
  Relay,
  MaxMishaps          \* bound on failures, crashes and leases that lapse in use

VARIABLES
  likes,              \* post_likes
  row,                \* outbox_events: state and lease of an event
  claimed, acked,     \* of a relay: what it has still to publish; published, to be marked
  stopped,            \* relays whose process has ended
  topics,             \* messages that a consumer will still fetch
  uncommitted,        \* fetched, and their offsets neither committed nor passed
  inbox,              \* processed_events
  likesCount,         \* post_counters
  notifications,
  lost,               \* history: events a later commit passed after their handler failed
  mishaps

socialVars == <<likes, row, claimed, acked, stopped, topics, uncommitted, inbox, likesCount,
                notifications, lost, mishaps>>
rows   == <<row, claimed, acked, stopped>>
reads  == <<topics, uncommitted, lost>>
tables == <<likes, inbox, likesCount, notifications>>

Kind  == {"engagement", "notification", "delivered"}
Event == Kind \X Actor

Nobody == "nobody"

Init ==
  /\ likes = {} /\ inbox = {} /\ likesCount = 0 /\ notifications = {}
  /\ row = [e \in Event |-> [state |-> "none", lockedBy |-> Nobody]]
  /\ claimed = [w \in Relay |-> {}] /\ acked = [w \in Relay |-> {}]
  /\ stopped = {} /\ topics = {} /\ uncommitted = {} /\ lost = {} /\ mishaps = 0

Mishap == mishaps < MaxMishaps /\ mishaps' = mishaps + 1

insertOutbox(e) == row' = [row EXCEPT ![e].state = "ready"]

\* The like and its event, in one transaction; a second like changes nothing.
RecordLike(a) ==
  /\ a \notin likes
  /\ likes' = likes \cup {a}
  /\ insertOutbox(<<"engagement", a>>)
  /\ UNCHANGED <<claimed, acked, stopped, reads, inbox, likesCount, notifications, mishaps>>

---------------------------------------------------------------------------
(* relayBatch, statement by statement. *)

ClaimOutbox(w) ==
  LET free == {e \in Event : row[e].state = "ready"} IN
  /\ w \notin stopped /\ claimed[w] = {} /\ acked[w] = {} /\ free # {}
  /\ row' = [e \in Event |-> IF e \in free THEN [state |-> "leased", lockedBy |-> w] ELSE row[e]]
  /\ claimed' = [claimed EXCEPT ![w] = free]
  /\ UNCHANGED <<acked, stopped, reads, tables, mishaps>>

Publish(w) ==
  /\ acked[w] = {}
  /\ \E e \in claimed[w] :
       /\ topics' = topics \cup {e}
       /\ claimed' = [claimed EXCEPT ![w] = @ \ {e}]
       /\ acked' = [acked EXCEPT ![w] = {e}]
  /\ UNCHANGED <<row, stopped, uncommitted, lost, tables, mishaps>>

\* Only while the row is still this relay's.
MarkOutboxPublished(w) ==
  \E e \in acked[w] :
    /\ row' = IF row[e].lockedBy = w
                THEN [row EXCEPT ![e] = [state |-> "published", lockedBy |-> Nobody]] ELSE row
    /\ acked' = [acked EXCEPT ![w] = {}]
    /\ UNCHANGED <<claimed, stopped, reads, tables, mishaps>>

\* Mutant: a row that could not be published is marked as if it was.
ReleaseOutbox_Published(w) ==
  /\ Mishap
  /\ acked[w] = {}
  /\ \E e \in claimed[w] :
       row' = IF row[e].lockedBy = w
                THEN [row EXCEPT ![e] = [state |-> "published", lockedBy |-> Nobody]] ELSE row
  /\ claimed' = [claimed EXCEPT ![w] = {}]
  /\ UNCHANGED <<acked, stopped, reads, tables>>

\* Publishing failed: the row is released, the rest of the batch stays leased.
ReleaseOutbox(w) ==
  /\ Mishap
  /\ acked[w] = {}
  /\ \E e \in claimed[w] :
       row' = IF row[e].lockedBy = w
                THEN [row EXCEPT ![e] = [state |-> "ready", lockedBy |-> Nobody]] ELSE row
  /\ claimed' = [claimed EXCEPT ![w] = {}]
  /\ UNCHANGED <<acked, stopped, reads, tables>>

\* The row cannot be marked, or the process ends, for good as far as the
\* deployment goes: the batch is left to its leases.
Abandon(w) ==
  /\ Mishap
  /\ claimed[w] \cup acked[w] # {}
  /\ \/ acked[w] # {} /\ UNCHANGED stopped
     \/ stopped' = stopped \cup {w}
  /\ claimed' = [claimed EXCEPT ![w] = {}] /\ acked' = [acked EXCEPT ![w] = {}]
  /\ UNCHANGED <<row, reads, tables>>

InUse(e) == \E w \in Relay : e \in claimed[w] \cup acked[w]

\* locked_until < now(): anybody may claim the row, locked_by stays.
LeaseLapses(e) ==
  /\ row[e].state = "leased"
  /\ IF InUse(e) THEN Mishap ELSE UNCHANGED mishaps
  /\ row' = [row EXCEPT ![e].state = "ready"]
  /\ UNCHANGED <<claimed, acked, stopped, reads, tables>>

---------------------------------------------------------------------------
(* The consumers: the inbox row and its effects in one transaction. *)

\* The events of a topic are those of one post, in one partition: a committed
\* offset passes every message that was fetched before.
Passed(e) == {f \in uncommitted : f[1] = e[1]}

\* The offset is committed, or that fails.
Fetched(e) ==
  /\ e \in topics /\ topics' = topics \ {e}
  /\ \/ /\ uncommitted' = uncommitted \ Passed(e) /\ lost' = lost \cup (Passed(e) \ (inbox \cup {e}))
        /\ UNCHANGED mishaps
     \/ uncommitted' = uncommitted \cup {e} /\ Mishap /\ UNCHANGED lost

\* Mutant: the projection does not ask the inbox.
isNew_Always(e) == TRUE

isNew(e) == e \notin inbox

ApplyEngagement(a) ==
  LET e == <<"engagement", a>> IN
  /\ Fetched(e)
  /\ inbox' = inbox \cup {e}
  /\ likesCount' = IF isNew(e) THEN likesCount + 1 ELSE likesCount
  /\ IF isNew(e) /\ a # Author THEN insertOutbox(<<"notification", a>>) ELSE UNCHANGED row
  /\ UNCHANGED <<likes, claimed, acked, stopped, notifications>>

PersistNotification(a) ==
  LET e == <<"notification", a>> IN
  /\ Fetched(e)
  /\ inbox' = inbox \cup {e}
  /\ IF isNew(e)
       THEN notifications' = notifications \cup {a} /\ insertOutbox(<<"delivered", a>>)
       ELSE UNCHANGED <<notifications, row>>
  /\ UNCHANGED <<likes, claimed, acked, stopped, likesCount>>

\* The handler fails. The offset is not committed, but the reader goes on.
HandlerFails(e) ==
  /\ Mishap
  /\ e \in topics /\ e[1] # "delivered"
  /\ topics' = topics \ {e} /\ uncommitted' = uncommitted \cup {e}
  /\ UNCHANGED <<rows, lost, tables>>

\* The partition goes to another reader, which starts at the committed offset.
Rebalance(k) ==
  LET back == {e \in uncommitted : e[1] = k} IN
  /\ back # {} /\ topics' = topics \cup back /\ uncommitted' = uncommitted \ back
  /\ UNCHANGED <<rows, lost, tables, mishaps>>

---------------------------------------------------------------------------
relayBatch(w) == ClaimOutbox(w) \/ Publish(w) \/ MarkOutboxPublished(w)

Next ==
  \/ \E a \in Actor : RecordLike(a) \/ ApplyEngagement(a) \/ PersistNotification(a)
  \/ \E w \in Relay : relayBatch(w) \/ ReleaseOutbox(w) \/ Abandon(w)
  \/ \E e \in Event : LeaseLapses(e) \/ HandlerFails(e)
  \/ \E k \in Kind : Rebalance(k)

Consume(a) == ApplyEngagement(a) \/ PersistNotification(a)

\* The tickers of the relays that run tick, unused leases lapse and the consumers
\* fetch. Nothing promises a rebalance.
FairSpec ==
  /\ Init /\ [][Next]_socialVars
  /\ \A w \in Relay : WF_socialVars(relayBatch(w))
  /\ \A e \in Event : WF_socialVars(~InUse(e) /\ LeaseLapses(e))
  /\ \A a \in Actor : WF_socialVars(Consume(a))

---------------------------------------------------------------------------
\* Every variable has its type.
TypeOK ==
  /\ \A e \in Event : /\ row[e].state \in {"none", "ready", "leased", "published"}
                      /\ row[e].lockedBy \in Relay \cup {Nobody}
  /\ topics \subseteq Event /\ notifications \subseteq Actor \ {Author}

\* The counter of a post is the number of likes projected, each like counts and
\* notifies once, and nothing is projected that was not liked, however often an
\* event is published or delivered (ApplyEngagement, PersistNotification).
LikeCountsOnce ==
  LET counted == {a \in Actor : <<"engagement", a>> \in inbox} IN
  /\ likesCount = Cardinality(counted)
  /\ counted \subseteq likes
  /\ notifications \subseteq counted \ {Author}
  /\ \A e \in Event : row[e].state = "published" => e \in topics \cup uncommitted \cup inbox \cup lost
                                                    \/ e[1] = "delivered"

\* What becomes true again and again: a like that was answered with 202 is
\* counted, and its author notified, unless a handler failed on its event
\* (the outbox and Consume).
LikesProjected ==
  \A a \in likes :
    \/ <<"engagement", a>> \in inbox /\ (a = Author \/ a \in notifications)
    \/ \E e \in lost \cup (uncommitted \ inbox) : e[2] = a

\* What is said of Consume: it "commits only after the handler's Postgres
\* transaction succeeds" (kafka.go:81), and of a handler that fails, "Deliberately
\* leave the offset uncommitted" (kafka.go:118): no commit passes an event that
\* was not applied.
NothingLost == lost = {}
===========================================================================
