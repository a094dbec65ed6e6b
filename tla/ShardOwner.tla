---------------------------- MODULE ShardOwner ----------------------------
(* fintech-ledger-go: a partition.Shard, whose goroutine runs the commands *)
(* that the callers of Do put into a bounded channel.                      *)
EXTENDS Integers, Sequences

CONSTANTS
  Caller,
  Owned, Foreign,  \* accounts of this shard, and of others
  Capacity,        \* of the channel of commands
  MaxCalls         \* bound on the calls of a caller

Command == [caller: Caller, call: 1..MaxCalls, account: Owned \cup Foreign]

VARIABLES
  commands,   \* the channel
  closed,     \* Close has been called
  calls,      \* how often a caller has called Do
  doing,      \* where in Do a caller is, with the account
  answers,    \* the done channels: answers sent and not received
  applied,    \* the calls whose fn has run, in order
  reported    \* the calls for which Do returned no error

shardVars == <<commands, closed, calls, doing, answers, applied, reported>>

Idle == [at |-> "idle"]

Init ==
  /\ commands = <<>> /\ closed = FALSE
  /\ calls = [c \in Caller |-> 0] /\ doing = [c \in Caller |-> Idle]
  /\ answers = {} /\ applied = <<>> /\ reported = {}

Sending(c) == doing[c].at = "sending"
Waiting(c) == doing[c].at = "waiting"

\* Callers must not call Do after Close.
Do(c, a) ==
  /\ doing[c] = Idle /\ ~closed /\ calls[c] < MaxCalls
  /\ calls' = [calls EXCEPT ![c] = @ + 1]
  /\ doing' = [doing EXCEPT ![c] = [at |-> "sending", account |-> a]]
  /\ UNCHANGED <<commands, closed, answers, applied, reported>>

Send(c) ==
  /\ Sending(c) /\ Len(commands) < Capacity
  /\ commands' = Append(commands,
       [caller |-> c, call |-> calls[c], account |-> doing[c].account])
  /\ doing' = [doing EXCEPT ![c].at = "waiting"]
  /\ UNCHANGED <<closed, calls, answers, applied, reported>>

\* ctx is done in either select: a command that was sent still runs.
GiveUp(c) ==
  /\ Sending(c) \/ Waiting(c)
  /\ doing' = [doing EXCEPT ![c] = Idle]
  /\ UNCHANGED <<commands, closed, calls, answers, applied, reported>>

Receive(c) ==
  /\ Waiting(c)
  /\ \E d \in answers :
       /\ d.caller = c /\ d.call = calls[c]
       /\ answers' = answers \ {d}
       /\ reported' = IF d.err = "none" THEN reported \cup {<<c, d.call>>}
                      ELSE reported
  /\ doing' = [doing EXCEPT ![c] = Idle]
  /\ UNCHANGED <<commands, closed, calls, applied>>

\* Mutant: a command stays in the channel while it is run.
run_Again ==
  /\ commands # <<>>
  /\ LET cmd == Head(commands) IN
     /\ applied' = Append(applied, <<cmd.caller, cmd.call>>)
     /\ answers' = answers \cup
          {[caller |-> cmd.caller, call |-> cmd.call, err |-> "none"]}
  /\ Len(applied) < 4
  /\ UNCHANGED <<commands, closed, calls, doing, reported>>

\* done has room for the one answer, so run does not wait for the caller.
run ==
  /\ commands # <<>>
  /\ LET cmd == Head(commands)
         owned == cmd.account \in Owned IN
     /\ applied' = IF owned THEN Append(applied, <<cmd.caller, cmd.call>>)
                   ELSE applied
     /\ answers' = answers \cup
          {[caller |-> cmd.caller, call |-> cmd.call,
            err |-> IF owned THEN "none" ELSE "unknown"]}
  /\ commands' = Tail(commands)
  /\ UNCHANGED <<closed, calls, doing, reported>>

\* Nobody is in the first select any more.
Close ==
  /\ ~closed /\ \A c \in Caller : ~Sending(c)
  /\ closed' = TRUE
  /\ UNCHANGED <<commands, calls, doing, answers, applied, reported>>

Next ==
  \/ \E c \in Caller : \/ \E a \in Owned \cup Foreign : Do(c, a)
                       \/ Send(c) \/ GiveUp(c) \/ Receive(c)
  \/ run \/ Close

Spec == Init /\ [][Next]_shardVars

\* A channel serves its senders in turn, and no caller need give up.
FairSpec ==
  /\ Spec
  /\ WF_shardVars(run)
  /\ \A c \in Caller : SF_shardVars(Send(c)) /\ WF_shardVars(Receive(c))

---------------------------------------------------------------------------
TypeOK ==
  /\ commands \in Seq(Command) /\ Len(commands) <= Capacity
  /\ closed \in BOOLEAN
  /\ calls \in [Caller -> 0..MaxCalls]
  /\ doing \in [Caller -> {Idle} \cup
                  [at: {"sending", "waiting"}, account: Owned \cup Foreign]]
  /\ answers \subseteq [caller: Caller, call: 1..MaxCalls, err: {"none", "unknown"}]
  /\ applied \in Seq(Caller \X (1..MaxCalls))
  /\ reported \subseteq Caller \X (1..MaxCalls)

\* A command runs at most once, in the order of its caller's calls, and has run
\* when Do reports no error: the shard's goroutine owns its accounts.
RunsInOrder ==
  /\ \A i, j \in DOMAIN applied :
       i < j /\ applied[i][1] = applied[j][1] => applied[i][2] < applied[j][2]
  /\ \A d \in reported : \E i \in DOMAIN applied : applied[i] = d

\* Every call of Do returns, also one that follows a call given up.
DoReturns == \A c \in Caller : Sending(c) \/ Waiting(c) ~> doing[c] = Idle
===========================================================================
