---------------------------- MODULE EventRelay ----------------------------
(* kafkaeda: the transactional outbox and its relay, a topic, and the        *)
(* consumer groups that read it, with offsets and a table of processed       *)
(* events. The handler is the activity log's.                                *)
EXTENDS Integers, Sequences

CONSTANTS
  Event, Group,
  MaxFaults    \* bound on failed publications, failed handlers and processes that stop

VARIABLES
  unpublished, locked, wrote,  \* outbox rows; the relay's batch; what it has written of it
  topic,
  reader, ack, committed,      \* of a group: its reader, the message to commit, its offset
  processed,                   \* platform.processed_events
  recorded,                    \* of a group: its handler's effects on an event
  down,                        \* the processes that have stopped
  added, skipped,              \* history: events put in the outbox; those whose handler failed
  faults

outboxRows == <<unpublished, locked, wrote, topic>>
offsets    == <<reader, ack, committed, skipped>>
effects    == <<processed, recorded>>
relayVars  == <<outboxRows, offsets, effects, down, added, faults>>

Init ==
  /\ unpublished = {} /\ locked = {} /\ wrote = {} /\ topic = <<>>
  /\ reader = [g \in Group |-> 0] /\ ack = [g \in Group |-> 0]
  /\ committed = [g \in Group |-> 0]
  /\ processed = [g \in Group |-> {}] /\ skipped = [g \in Group |-> {}]
  /\ recorded = [g \in Group |-> [e \in Event |-> 0]]
  /\ down = {} /\ added = {} /\ faults = 0

Fault == faults < MaxFaults /\ faults' = faults + 1

\* With the transaction of a service that changes its own rows.
Add(e) ==
  /\ e \notin added /\ added' = added \cup {e}
  /\ unpublished' = unpublished \cup {e}
  /\ UNCHANGED <<locked, wrote, topic, offsets, effects, down, faults>>

---------------------------------------------------------------------------
(* The relay writes its locked rows one by one inside one transaction. *)

LockRows ==
  /\ "relay" \notin down /\ locked = {} /\ unpublished # {}
  /\ locked' = unpublished
  /\ UNCHANGED <<unpublished, wrote, topic, offsets, effects, down, added, faults>>

WriteMessages ==
  \E e \in locked \ wrote :
    /\ topic' = Append(topic, e)
    /\ wrote' = wrote \cup {e}
    /\ UNCHANGED <<unpublished, locked, offsets, effects, down, added, faults>>

\* Mutant: the rows are marked published before they are written.
CommitBatch_Early ==
  /\ locked # {} /\ unpublished' = unpublished \ locked
  /\ locked' = {} /\ wrote' = {}
  /\ UNCHANGED <<topic, offsets, effects, down, added, faults>>

CommitBatch ==
  /\ locked # {} /\ wrote = locked
  /\ unpublished' = unpublished \ locked
  /\ locked' = {} /\ wrote' = {}
  /\ UNCHANGED <<topic, offsets, effects, down, added, faults>>

\* A write or the commit fails: what it has written of the batch will be written
\* again.
RollbackBatch ==
  /\ Fault
  /\ locked # {}
  /\ locked' = {} /\ wrote' = {}
  /\ UNCHANGED <<unpublished, topic, offsets, effects, down, added>>

publishBatch == LockRows \/ WriteMessages \/ CommitBatch

---------------------------------------------------------------------------
(* One consumer: fetch, process in a transaction, commit the offset. *)

message(g) == topic[reader[g] + 1]
Fetched(g) == g \notin down /\ ack[g] = 0 /\ reader[g] < Len(topic)

\* Mutant: the handler runs whether the event was recorded or not.
isNew_Always(g) == TRUE

\* INSERT INTO platform.processed_events affected a row.
isNew(g) == message(g) \notin processed[g]

process(g) ==
  /\ Fetched(g)
  /\ processed' = [processed EXCEPT ![g] = @ \cup {message(g)}]
  /\ recorded' = IF isNew(g) THEN [recorded EXCEPT ![g][message(g)] = @ + 1] ELSE recorded
  /\ reader' = [reader EXCEPT ![g] = @ + 1]
  /\ ack' = [ack EXCEPT ![g] = reader[g] + 1]
  /\ UNCHANGED <<outboxRows, committed, skipped, down, added, faults>>

CommitMessages(g) ==
  /\ ack[g] > 0
  /\ committed' = [committed EXCEPT ![g] = ack[g]]
  /\ ack' = [ack EXCEPT ![g] = 0]
  /\ UNCHANGED <<outboxRows, reader, skipped, effects, down, added, faults>>

\* The transaction fails and is rolled back. The offset is not committed, but
\* the reader has moved on and the next commit passes the message.
ProcessFails(g) ==
  /\ Fault
  /\ Fetched(g)
  /\ reader' = [reader EXCEPT ![g] = @ + 1]
  /\ skipped' = [skipped EXCEPT ![g] = @ \cup {message(g)}]
  /\ UNCHANGED <<outboxRows, ack, committed, effects, down, added>>

\* Run returns, when a fetch or a commit has failed too, and its process ends
\* with it.
Stop(g) ==
  /\ Fault
  /\ g \notin down /\ down' = down \cup {g}
  /\ ack' = [ack EXCEPT ![g] = 0]
  /\ UNCHANGED <<outboxRows, reader, committed, skipped, effects, added>>

StopRelay ==
  /\ Fault
  /\ "relay" \notin down /\ down' = down \cup {"relay"}
  /\ locked' = {} /\ wrote' = {}
  /\ UNCHANGED <<unpublished, topic, offsets, effects, added>>

\* Somebody starts the process again, which nothing in the deployment promises;
\* a consumer reads on from the committed offset.
Start(p) ==
  /\ p \in down /\ down' = down \ {p}
  /\ reader' = IF p \in Group THEN [reader EXCEPT ![p] = committed[p]] ELSE reader
  /\ UNCHANGED <<outboxRows, ack, committed, skipped, effects, added, faults>>

---------------------------------------------------------------------------
Run(g) == process(g) \/ CommitMessages(g)

Next ==
  \/ \E e \in Event : Add(e)
  \/ publishBatch \/ RollbackBatch \/ StopRelay
  \/ \E g \in Group : Run(g) \/ ProcessFails(g) \/ Stop(g)
  \/ \E p \in Group \cup {"relay"} : Start(p)

\* The relay's ticker ticks and every consumer keeps fetching, while they run.
FairSpec ==
  /\ Init /\ [][Next]_relayVars
  /\ WF_relayVars(publishBatch)
  /\ \A g \in Group : WF_relayVars(Run(g))

---------------------------------------------------------------------------
\* Every variable has its type.
TypeOK ==
  /\ wrote \subseteq locked /\ locked \subseteq unpublished /\ unpublished \subseteq Event
  /\ \A g \in Group : ack[g] <= reader[g] /\ committed[g] <= Len(topic)
  /\ faults \in 0..MaxFaults

\* A group's handler takes effect once for an event, however often the event is
\* written to the topic or read from it, and a message below the committed
\* offset has been processed or failed (platform/consumer, platform/outbox).
EffectOnce ==
  \A g \in Group :
    /\ \A e \in Event : recorded[g][e] = IF e \in processed[g] THEN 1 ELSE 0
    /\ \A i \in 1..committed[g] : topic[i] \in processed[g] \cup skipped[g]

\* What becomes true again and again: every event put in the outbox has taken
\* effect in every group that runs, while the relay does, unless the group's
\* handler failed on it (outbox.publishBatch, consumer.Run).
Delivered ==
  \A g \in Group : {g, "relay"} \cap down = {} => added \subseteq processed[g] \cup skipped[g]

\* What is said of the consumer: "Kafka offsets advance only after the state
\* transaction commits" (consumer.go:26), and of a handler that fails, "Do not
\* commit the offset. Retrying is intentional" (consumer.go:64).
CommittedIsProcessed ==
  \A g \in Group : \A i \in 1..committed[g] : topic[i] \in processed[g]
===========================================================================
