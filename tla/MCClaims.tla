------------------------------ MODULE MCClaims ------------------------------
(* What the repository says of its services and their code does not do.      *)
(* The claims are taken up one after the other: the part a claim is about    *)
(* runs, from its initial state or where the claim before left it, until the *)
(* claim is refuted.                                                         *)
EXTENDS MCServices, Sequences

VARIABLES
  turn,     \* the claim that is taken up
  capacity, used, status, deadline, pending, peak, sets, durable, unsynced, torn,
  seen, ttdUp, lapses, call, worker, now, crashes

Ttd == INSTANCE TtdQueue WITH
  Hold <- {"a", "b"}, Client <- {"c1"}, Worker <- {"t1"}, Capacities <- {1}, TTL <- 1,
  MaxNow <- 3, MaxSets <- 1, MaxCrashes <- 1, MaxUnsynced <- 2, up <- ttdUp

ttdVars == <<capacity, used, status, deadline, pending, peak, sets, durable,
             unsynced, torn, seen, ttdUp, lapses, call, worker, now, crashes>>

\* The part each claim is about.
About == <<"food", "food", "bus", "seats", "breaker", "fetch", "shard", "relay",
           "social", "replicas", "ttd", "ttd">>

Claim ==
  CASE turn = 1  -> Food!EffectivelyOnce
    [] turn = 2  -> Food!RefundCompensates
    [] turn = 3  -> Bus!NothingAfterTerminal
    [] turn = 4  -> Seats!StaleWithinTTL
    [] turn = 5  -> Breaker!OutcomesReported
    [] turn = 6  -> Fetch!ConnsReleased
    [] turn = 7  -> Shard!NoDuplicateLoad
    [] turn = 8  -> Outbox!CommittedIsProcessed
    [] turn = 9  -> Social!NothingLost
    [] turn = 10 -> Repl!RegistersAgree
    [] turn = 11 -> Ttd!RecordIsIdempotent
    [] turn = 12 -> Ttd!AlwaysDurable

ClaimsInit ==
  /\ MCInit /\ Ttd!Init
  /\ turn = 1 /\ part = About[1]
  /\ up = {"projection", "saga"} /\ strategy = "RoundRobin"

Explore ==
  /\ Claim
  /\ \/ MCNext /\ UNCHANGED ttdVars
     \/ part = "ttd" /\ Ttd!Next /\ UNCHANGED all
  /\ UNCHANGED turn

Refuted ==
  /\ ~Claim
  /\ turn' = turn + 1
  /\ part' = IF turn < Len(About) THEN About[turn + 1] ELSE part
  /\ UNCHANGED <<parts, ttdVars>>

ClaimsNext == turn <= Len(About) /\ (Explore \/ Refuted)
ClaimsSpec == ClaimsInit /\ [][ClaimsNext]_<<all, ttdVars, turn>>

\* What a part that is done with leaves behind does not tell states apart.
Seen ==
  <<turn, CASE part = "food" -> foodVars [] part = "bus" -> busVars
            [] part = "seats" -> seatsVars [] part = "breaker" -> breakerVars
            [] part = "fetch" -> fetchVars [] part = "shard" -> shardVars
            [] part = "relay" -> relayVars [] part = "social" -> socialVars
            [] part = "replicas" -> replicasVars [] part = "ttd" -> ttdVars>>

\* One of the claims stands: a counterexample is a behaviour that refutes each of
\* them in turn.  The comment on each quotes what the repository says.
SomeClaimStands == turn <= Len(About)
=============================================================================
