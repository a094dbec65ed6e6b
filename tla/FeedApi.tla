------------------------------ MODULE FeedApi ------------------------------
(* golangdebugging cmd/feed-api: a feed is put together from three calls made *)
(* side by side, of which only the posts are required, and kept in the cache. *)
(* Any call may fail, and the client may go away at any moment.               *)
EXTENDS Naturals, FiniteSets

CONSTANTS
  Request,               \* the requests served side by side
  MaxFailures,           \* bound: calls that fail
  MaxCancels,            \* bound: clients that go away
  None                   \* the cache holds nothing

VARIABLES
  cache,                 \* None, or the parts of the feed under the user's key
  req,                   \* of a request: where it is
  failed,                \* history: the dependencies that failed so far
  failures, cancels

feedVars == <<cache, req, failed, failures, cancels>>

Parts == {"posts", "profile", "recommendations"}
Idle == [at |-> "idle", parts |-> {}, open |-> {}, err |-> FALSE, gone |-> FALSE]

Init ==
  /\ cache = None /\ req = [q \in Request |-> Idle]
  /\ failed = {} /\ failures = 0 /\ cancels = 0

Go(q, to) == req' = [req EXCEPT ![q] = to]

\* A dependency fails of itself: an error, a timeout, a bad answer.
Fault(d) ==
  /\ failures < MaxFailures /\ failures' = failures + 1
  /\ failed' = failed \cup {d}
NoFault == UNCHANGED <<failed, failures>>

feed(q) ==
  /\ req[q].at = "idle" /\ Go(q, [Idle EXCEPT !.at = "cache"])
  /\ UNCHANGED <<cache, failed, failures, cancels>>

\* A hit is the answer; a miss, an error or a value that does not parse starts
\* the three calls.
cachedFeed(q) ==
  /\ req[q].at = "cache"
  /\ \/ cache # None /\ ~req[q].gone /\ NoFault /\ Go(q, Idle)
     \/ /\ cache = None \/ req[q].gone
        /\ NoFault /\ Go(q, [req[q] EXCEPT !.at = "build", !.open = Parts])
     \/ Fault("redis") /\ Go(q, [req[q] EXCEPT !.at = "build", !.open = Parts])
  /\ UNCHANGED <<cache, cancels>>

\* Mutant: the posts degrade as the other parts do.
Lost_Posts(r, p) == [r EXCEPT !.open = @ \ {p}]
\* A part without its call: the posts fail the group, the others leave a gap.
Lost(r, p) == [r EXCEPT !.open = @ \ {p}, !.err = @ \/ p = "posts"]

Returned(q, p) ==
  /\ req[q].at = "build" /\ p \in req[q].open
  /\ ~req[q].err /\ ~req[q].gone
  /\ Go(q, [req[q] EXCEPT !.open = @ \ {p}, !.parts = @ \cup {p}])
  /\ NoFault /\ UNCHANGED <<cache, cancels>>

getJSON(q, p) ==
  /\ req[q].at = "build" /\ p \in req[q].open \ {"posts"}
  /\ Fault(p) /\ Go(q, Lost(req[q], p)) /\ UNCHANGED <<cache, cancels>>

posts(q) ==
  /\ req[q].at = "build" /\ "posts" \in req[q].open
  /\ Fault("posts") /\ Go(q, Lost(req[q], "posts")) /\ UNCHANGED <<cache, cancels>>

\* The group's context is cancelled by an error of the group or by the client.
Aborted(q, p) ==
  /\ req[q].at = "build" /\ p \in req[q].open
  /\ req[q].err \/ req[q].gone
  /\ Go(q, Lost(req[q], p)) /\ NoFault /\ UNCHANGED <<cache, cancels>>

\* group.Wait: an error is answered 503, anything else goes on to the cache.
Wait(q) ==
  /\ req[q].at = "build" /\ req[q].open = {}
  /\ Go(q, IF req[q].err THEN Idle ELSE [req[q] EXCEPT !.at = "save"])
  /\ UNCHANGED <<cache, failed, failures, cancels>>

\* Mutant: the cache is written in a context that outlives the client.
Usable_Always(q) == TRUE
Usable(q) == ~req[q].gone

cacheFeed(q) ==
  /\ req[q].at = "save" /\ Go(q, Idle)
  /\ \/ Usable(q) /\ cache' = req[q].parts /\ NoFault
     \/ req[q].gone /\ UNCHANGED cache /\ NoFault
     \/ Fault("redis") /\ UNCHANGED cache
  /\ UNCHANGED cancels

Disconnect(q) ==
  /\ req[q].at # "idle" /\ ~req[q].gone
  /\ cancels < MaxCancels /\ cancels' = cancels + 1
  /\ Go(q, [req[q] EXCEPT !.gone = TRUE])
  /\ UNCHANGED <<cache, failed, failures>>

Call(q) == \/ posts(q) \/ Wait(q) \/ cachedFeed(q) \/ cacheFeed(q)
           \/ \E p \in Parts : Returned(q, p) \/ getJSON(q, p) \/ Aborted(q, p)

\* The entry's fifteen seconds are over.
Expire ==
  /\ cache # None /\ cache' = None
  /\ UNCHANGED <<req, failed, failures, cancels>>

Next == (\E q \in Request : feed(q) \/ Call(q) \/ Disconnect(q)) \/ Expire

Spec == Init /\ [][Next]_feedVars

\* A call ends or times out, and an entry outlives its fifteen seconds only in
\* a cache that stands still.
FeedFair == (\A q \in Request : WF_feedVars(Call(q))) /\ WF_feedVars(Expire)
FairSpec == Spec /\ FeedFair

\* Every variable has its type.
TypeOK ==
  /\ cache = None \/ cache \subseteq Parts
  /\ \A q \in Request :
       /\ req[q].at \in {"idle", "cache", "build", "save"}
       /\ req[q].parts \cap req[q].open = {}
  /\ failed \subseteq Parts \cup {"redis"}

\* What the cache serves to everyone always has its posts, and lacks a part only
\* because that part's service failed: a client that goes away in the middle of
\* the calls never leaves its own gaps in the feed of the next one.
GapsAreReal ==
  cache # None => "posts" \in cache /\ Parts \ cache \subseteq failed

\* What holds in the end: once the dependencies work again the cache has whole
\* feeds only (cacheFeed's fifteen seconds).
DegradationEnds == cache = None \/ cache = Parts
=============================================================================
