----------------------------- MODULE LikeCounts -----------------------------
(* instascale counter-service: one user's counts, cached in Redis under two   *)
(* keys that expire on their own, with Postgres behind them through a small   *)
(* pool, and the chaos registry that fails requests and drains the pool.      *)
EXTENDS Naturals, FiniteSets

CONSTANTS
  Reader, Liker,
  MaxConns,     \* the size of the pool
  MaxLikes,     \* bound: likes requested
  MaxFaults,    \* bound: failing Redis and Postgres calls, chaos triggers
  None

VARIABLES
  likes,        \* the key "likes": None or its value and whether it expires
  followers,    \* whether the key "followers" is there
  db,           \* like_count, None before the user's row exists
  reader,       \* where each GET is, and the count it read in Postgres
  liker,        \* where each POST is
  held,         \* the connections the chaos mode keeps
  fail503, leaks,   \* the other chaos state
  resetting,    \* where a Reset is
  posts, faults

countVars == <<likes, followers, db, reader, liker, held, fail503, leaks, resetting,
               posts, faults>>
chaos == <<held, fail503, leaks, resetting>>

Row == IF db = None THEN 0 ELSE db

Init ==
  /\ likes = None /\ followers = FALSE /\ db \in {None, 0}
  /\ reader = [r \in Reader |-> [at |-> "idle", n |-> 0]]
  /\ liker = [k \in Liker |-> "idle"]
  /\ held = 0 /\ fail503 = FALSE /\ leaks = FALSE /\ resetting = "no"
  /\ posts = 0 /\ faults = 0

Fault == faults < MaxFaults /\ faults' = faults + 1

\* A statement runs on a connection that nobody keeps: each is given back at
\* its end, so only the kept ones count.
Acquirable == held < MaxConns

RGo(r, at, n) == reader' = [reader EXCEPT ![r] = [at |-> at, n |-> n]]
LGo(k, at) == liker' = [liker EXCEPT ![k] = at]

(* Counts *)

\* GetCounts refuses while the retry storm is on; a hit needs both keys.
GetCounts(r) ==
  /\ reader[r].at = "idle"
  /\ \/ /\ fail503 /\ RGo(r, "idle", 0) /\ UNCHANGED faults
     \/ /\ ~fail503 /\ likes # None /\ followers /\ RGo(r, "idle", 0) /\ UNCHANGED faults
     \/ /\ ~fail503 /\ (likes = None \/ ~followers) /\ RGo(r, "query", 0) /\ UNCHANGED faults
     \/ /\ ~fail503 /\ Fault /\ RGo(r, "query", 0)
  /\ UNCHANGED <<likes, followers, db, liker, chaos, posts>>

\* The row, or none, which is not cached; or the request's context ends
\* while it waits for a connection.
Query(r) ==
  /\ reader[r].at = "query"
  /\ \/ Acquirable /\ db = None /\ RGo(r, "idle", 0) /\ UNCHANGED faults
     \/ Acquirable /\ db # None /\ RGo(r, "warmLikes", db) /\ UNCHANGED faults
     \/ ~Acquirable /\ RGo(r, "idle", 0) /\ UNCHANGED faults
     \/ Fault /\ RGo(r, "idle", 0)
  /\ UNCHANGED <<likes, followers, db, liker, chaos, posts>>

Warm(n) == likes' = [n |-> n, ttl |-> TRUE]

\* The two keys are set one after the other, and a failure goes unnoticed.
WarmLikes(r) ==
  /\ reader[r].at = "warmLikes" /\ RGo(r, "warmFollowers", 0)
  /\ \/ Warm(reader[r].n) /\ UNCHANGED faults
     \/ Fault /\ UNCHANGED likes
  /\ UNCHANGED <<followers, db, liker, chaos, posts>>

WarmFollowers(r) ==
  /\ reader[r].at = "warmFollowers" /\ RGo(r, "idle", 0)
  /\ \/ followers' = TRUE /\ UNCHANGED faults
     \/ Fault /\ UNCHANGED followers
  /\ UNCHANGED <<likes, db, liker, chaos, posts>>

(* Like *)

\* INCR keeps the expiry of a key that is there and starts one that is not.
Incr == likes' = IF likes = None THEN [n |-> 1, ttl |-> FALSE] ELSE [likes EXCEPT !.n = @ + 1]

PostLike(k) ==
  /\ liker[k] = "idle" /\ posts < MaxLikes /\ posts' = posts + 1
  /\ \/ fail503 /\ UNCHANGED <<likes, liker, faults>>
     \/ ~fail503 /\ Incr /\ LGo(k, "exec") /\ UNCHANGED faults
     \/ ~fail503 /\ Fault /\ UNCHANGED <<likes, liker>>
  /\ UNCHANGED <<followers, db, reader, chaos>>

\* The upsert; when it fails the increment in Redis stays.
Upsert(k) ==
  /\ liker[k] = "exec" /\ LGo(k, "idle")
  /\ \/ Acquirable /\ db' = Row + 1 /\ UNCHANGED faults
     \/ ~Acquirable /\ UNCHANGED <<db, faults>>
     \/ Fault /\ UNCHANGED db
  /\ UNCHANGED <<likes, followers, reader, chaos, posts>>

\* Redis drops a key whose time has come.
ExpireLikes ==
  /\ likes # None /\ likes.ttl /\ likes' = None
  /\ UNCHANGED <<followers, db, reader, liker, chaos, posts, faults>>
ExpireFollowers ==
  /\ followers /\ followers' = FALSE
  /\ UNCHANGED <<likes, db, reader, liker, chaos, posts, faults>>

(* The chaos registry. *)

RetryStorm == Fault /\ fail503' = TRUE /\ UNCHANGED <<held, leaks>>
GoroutineLeak == Fault /\ leaks' = TRUE /\ UNCHANGED <<held, fail503>>
\* HoldConns takes what it can get and stops at the first wait that is too long.
HoldConns == Fault /\ (\E n \in held..MaxConns : held' = n) /\ UNCHANGED <<fail503, leaks>>

trigger ==
  /\ RetryStorm \/ GoroutineLeak \/ HoldConns
  /\ UNCHANGED <<likes, followers, db, reader, liker, resetting, posts>>

ReleaseConns == held' = 0

\* Reset clears the flags, then the leaks under mu, then the connections under
\* holdMu: triggers may come in between.
Reset ==
  /\ \/ resetting = "no" /\ (held > 0 \/ fail503 \/ leaks)
        /\ resetting' = "leaks" /\ fail503' = FALSE /\ UNCHANGED <<held, leaks>>
     \/ resetting = "leaks" /\ resetting' = "conns" /\ leaks' = FALSE /\ UNCHANGED <<held, fail503>>
     \/ resetting = "conns" /\ resetting' = "no" /\ ReleaseConns /\ UNCHANGED <<fail503, leaks>>
  /\ UNCHANGED <<likes, followers, db, reader, liker, posts, faults>>

Next ==
  \/ \E r \in Reader : GetCounts(r) \/ Query(r) \/ WarmLikes(r) \/ WarmFollowers(r)
  \/ \E k \in Liker : PostLike(k) \/ Upsert(k)
  \/ ExpireLikes \/ ExpireFollowers \/ trigger \/ Reset

Spec == Init /\ [][Next]_countVars

\* Requests and resets under way go on, and keys expire.
CountFair ==
  /\ \A r \in Reader : WF_countVars(Query(r) \/ WarmLikes(r) \/ WarmFollowers(r))
  /\ \A k \in Liker : WF_countVars(Upsert(k))
  /\ WF_countVars(ExpireLikes) /\ WF_countVars(ExpireFollowers) 
  /\ WF_countVars(resetting # "no" /\ Reset)
FairSpec == Spec /\ CountFair

\* Every variable has its type.
TypeOK ==
  /\ likes \in [n : 0..(2 * MaxLikes), ttl : BOOLEAN] \union {None}
  /\ db \in 0..MaxLikes \union {None} /\ held \in 0..MaxConns
  /\ \A r \in Reader : reader[r].at \in {"idle", "query", "warmLikes", "warmFollowers"}
  /\ \A k \in Liker : liker[k] \in {"idle", "exec"}

\* What holds in the end: once likes stop, what the cache answers is what Postgres
\* holds. A count put back by a read that overlapped a like, an INCR that started
\* a key without an expiry or one whose upsert failed are all forgotten with a TTL.
CountsCatchUp == likes # None /\ followers => likes.n = Row
=============================================================================
