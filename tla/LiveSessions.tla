---------------------------- MODULE LiveSessions ----------------------------
(***************************************************************************)
(* The device limit of livescale-control-plane for one account: the        *)
(* concurrency.Manager keeps a slot per streaming device, session.Memory   *)
(* keeps the sessions, and the HTTP handlers and the sweeper change the    *)
(* two one after the other.  Each method of either store runs under its    *)
(* shard's lock and is one step; a handler may stall between two of them,  *)
(* and between reading the clock and using what it read.                   *)
(***************************************************************************)
EXTENDS Integers, FiniteSets

CONSTANTS
  Device,       \* the account's devices
  Handler,      \* goroutines that serve its requests
  Limit,        \* the token's DeviceLimit claim
  TTL,          \* Config.SessionTTL
  MaxSessions,  \* bound: sessions created
  MaxBeats,     \* bound: heartbeats
  MaxNow        \* bound: clock readings

ASSUME LimitAssumption ==
  Limit \in Nat \ {0} /\ TTL \in Nat \ {0}
  /\ MaxSessions \in Nat /\ MaxBeats \in Nat /\ MaxNow \in Nat

VARIABLES
  slots,     \* account.devices; session 0 where the device has no slot
  store,     \* session.Memory, by session id
  minted,    \* session ids issued so far
  beats,     \* heartbeats served so far
  call,      \* what each handler is doing
  sweeper,   \* what the sweeper is doing
  now        \* the clock

vars == <<slots, store, minted, beats, call, sweeper, now>>

SessionID == 1..MaxSessions
Session   == [device: Device, expiresAt: Nat]
NoSlot    == [expiresAt |-> 0, session |-> 0]
NoSession == [device |-> "none", expiresAt |-> 0]
Idle      == [op |-> "idle", device |-> "none", session |-> 0, at |-> 0]

TypeOK ==
  /\ slots \in [Device -> {NoSlot} \cup [expiresAt: Nat, session: SessionID]]
  /\ store \in [SessionID -> {NoSession} \cup Session]
  /\ minted \in 0..MaxSessions /\ beats \in 0..MaxBeats
  /\ call \in [Handler -> [op: {"idle", "admit", "put", "reuse", "extend",
                                "refresh", "release"},
                           device: Device \cup {"none"},
                           session: SessionID \cup {0}, at: Nat]]
  /\ sweeper \in [op: {"idle", "release"}, at: Nat,
                  expired: SUBSET (SessionID \X Device)]
  /\ now \in 0..MaxNow

Init ==
  /\ slots = [d \in Device |-> NoSlot]
  /\ store = [s \in SessionID |-> NoSession]
  /\ minted = 0 /\ beats = 0
  /\ call = [h \in Handler |-> Idle]
  /\ sweeper = [op |-> "idle", at |-> 0, expired |-> {}]
  /\ now = 0

Occupied     == {d \in Device : slots[d].session # 0}
Stored(s)    == store[s].device # "none"
Live(s)      == Stored(s) /\ store[s].expiresAt > now
At(h, op)    == call[h].op = op
Become(h, c) == call' = [call EXCEPT ![h] = c]

----------------------------------------------------------------------------
(* POST /v1/authorize.                                                     *)

\* now := time.Now()
Authorize(h, d) ==
  /\ At(h, "idle")
  /\ minted < MaxSessions
  /\ Become(h, [op |-> "admit", device |-> d, session |-> 0, at |-> now])
  /\ UNCHANGED <<slots, store, minted, beats, sweeper, now>>

\* Mutant: admission lets one device too many in.
HasRoom_OneMore(open) == Cardinality(open) <= Limit

HasRoom(open) == Cardinality(open) < Limit

\* account.reapExpiredLocked: the slots left at time t.
Unexpired(t) == [d \in Device |-> IF slots[d].expiresAt <= t THEN NoSlot
                                                             ELSE slots[d]]

\* Mutant: every session gets the same id.
NewID_Constant == 1

NewID == minted + 1

\* Mutant: a re-authorized device gets a new session.
Admit_NewSession(h) ==
  /\ At(h, "admit")
  /\ LET d    == call[h].device
         t    == call[h].at
         left == Unexpired(t)
         open == {e \in Device : left[e].session # 0}
     IN  \/ /\ d \in open \/ HasRoom(open)
            /\ minted < MaxSessions
            /\ minted' = minted + 1
            /\ slots' = [left EXCEPT ![d] = [expiresAt |-> t + TTL,
                                             session |-> NewID]]
            /\ Become(h, [op |-> "put", device |-> d,
                          session |-> NewID, at |-> t])
         \/ /\ d \notin open /\ ~HasRoom(open)
            /\ slots' = left
            /\ Become(h, Idle)
            /\ UNCHANGED minted
  /\ UNCHANGED <<store, beats, sweeper, now>>

\* Manager.Admit: a device that has a slot keeps its session, a new one gets
\* a slot if there is room, otherwise the request is denied.
Admit(h) ==
  /\ At(h, "admit")
  /\ LET d    == call[h].device
         t    == call[h].at
         left == Unexpired(t)
         open == {e \in Device : left[e].session # 0}
     IN  \/ /\ d \in open
            /\ slots' = [left EXCEPT ![d].expiresAt = t + TTL]
            /\ Become(h, [op |-> "reuse", device |-> d,
                          session |-> left[d].session, at |-> t])
            /\ UNCHANGED minted
         \/ /\ d \notin open /\ HasRoom(open)
            /\ minted < MaxSessions
            /\ minted' = minted + 1
            /\ slots' = [left EXCEPT ![d] = [expiresAt |-> t + TTL,
                                             session |-> NewID]]
            /\ Become(h, [op |-> "put", device |-> d,
                          session |-> NewID, at |-> t])
         \/ /\ d \notin open /\ ~HasRoom(open)
            /\ slots' = left
            /\ Become(h, Idle)
            /\ UNCHANGED minted
  /\ UNCHANGED <<store, beats, sweeper, now>>

\* store.Put of the new session.
Put(h) ==
  /\ At(h, "put")
  /\ store' = [store EXCEPT ![call[h].session] =
                 [device |-> call[h].device, expiresAt |-> call[h].at + TTL]]
  /\ Become(h, Idle)
  /\ UNCHANGED <<slots, minted, beats, sweeper, now>>

\* Mutant: Extend does not look for the session.
Extended_Unchecked(s, until) == [store EXCEPT ![s].expiresAt = until]

\* Memory.Extend: nothing when the session is gone.
Extended(s, until) ==
  IF Stored(s) THEN [store EXCEPT ![s].expiresAt = until] ELSE store

\* store.Extend of the session the device already had.
Reuse(h) ==
  /\ At(h, "reuse")
  /\ store' = Extended(call[h].session, call[h].at + TTL)
  /\ Become(h, Idle)
  /\ UNCHANGED <<slots, minted, beats, sweeper, now>>

----------------------------------------------------------------------------
(* POST /v1/heartbeat.                                                     *)

\* store.Get: an expired session is refused.
Heartbeat(h, s) ==
  /\ At(h, "idle")
  /\ Live(s)
  /\ beats < MaxBeats
  /\ beats' = beats + 1
  /\ Become(h, [op |-> "extend", device |-> store[s].device, session |-> s,
                at |-> now])
  /\ UNCHANGED <<slots, store, minted, sweeper, now>>

Extend(h) ==
  /\ At(h, "extend")
  /\ store' = Extended(call[h].session, call[h].at + TTL)
  /\ Become(h, [call[h] EXCEPT !.op = "refresh"])
  /\ UNCHANGED <<slots, minted, beats, sweeper, now>>

\* Manager.Refresh; its result is ignored.
Refresh(h) ==
  /\ At(h, "refresh")
  /\ slots' = IF call[h].device \in Occupied
              THEN [slots EXCEPT ![call[h].device].expiresAt = call[h].at + TTL]
              ELSE slots
  /\ Become(h, Idle)
  /\ UNCHANGED <<store, minted, beats, sweeper, now>>

----------------------------------------------------------------------------
(* POST /v1/stop.                                                          *)

\* store.Delete
Stop(h, s) ==
  /\ At(h, "idle")
  /\ Stored(s)
  /\ store' = [store EXCEPT ![s] = NoSession]
  /\ Become(h, [op |-> "release", device |-> store[s].device, session |-> s,
                at |-> now])
  /\ UNCHANGED <<slots, minted, beats, sweeper, now>>

\* Manager.Release
Release(h) ==
  /\ At(h, "release")
  /\ slots' = [slots EXCEPT ![call[h].device] = NoSlot]
  /\ Become(h, Idle)
  /\ UNCHANGED <<store, minted, beats, sweeper, now>>

----------------------------------------------------------------------------
(* The sweeper.                                                            *)

\* store.ReapExpired
Sweep ==
  /\ sweeper.op = "idle"
  /\ LET gone == {s \in SessionID : Stored(s) /\ ~Live(s)} IN
     /\ store' = [s \in SessionID |-> IF s \in gone THEN NoSession
                                                    ELSE store[s]]
     /\ sweeper' = [op |-> "release", at |-> now,
                    expired |-> {<<s, store[s].device>> : s \in gone}]
  /\ UNCHANGED <<slots, minted, beats, call, now>>

\* mgr.Release for one of the sessions reaped.
SweepRelease(s, d) ==
  /\ <<s, d>> \in sweeper.expired
  /\ slots' = [slots EXCEPT ![d] = NoSlot]
  /\ sweeper' = [sweeper EXCEPT !.expired = @ \ {<<s, d>>}]
  /\ UNCHANGED <<store, minted, beats, call, now>>

\* Mutant: the sweeper reaps sessions only.
SweepDone_NoReap ==
  /\ sweeper.op = "release" /\ sweeper.expired = {}
  /\ sweeper' = [op |-> "idle", at |-> 0, expired |-> {}]
  /\ UNCHANGED <<slots, store, minted, beats, call, now>>

\* mgr.ReapExpired, with the clock read before store.ReapExpired.
SweepDone ==
  /\ sweeper.op = "release" /\ sweeper.expired = {}
  /\ slots' = Unexpired(sweeper.at)
  /\ sweeper' = [op |-> "idle", at |-> 0, expired |-> {}]
  /\ UNCHANGED <<store, minted, beats, call, now>>

----------------------------------------------------------------------------
Tick ==
  /\ now < MaxNow
  /\ now' = now + 1
  /\ UNCHANGED <<slots, store, minted, beats, call, sweeper>>

Serve(h) == Admit(h) \/ Put(h) \/ Reuse(h) \/ Extend(h) \/ Refresh(h)
            \/ Release(h)

Sweeping ==
  \/ Sweep
  \/ \E s \in SessionID, d \in Device : SweepRelease(s, d)
  \/ SweepDone

Next ==
  \/ \E h \in Handler :
       \/ \E d \in Device : Authorize(h, d)
       \/ \E s \in SessionID : Heartbeat(h, s) \/ Stop(h, s)
       \/ Serve(h)
  \/ Sweeping
  \/ Tick

Spec == Init /\ [][Next]_vars

\* The sweeper's ticker fires and time passes.  Nothing is assumed of the
\* handlers: a request may stall for ever between two of its steps.
FairSpec == Spec /\ WF_vars(Sweeping) /\ WF_vars(Tick)

----------------------------------------------------------------------------
(* Properties.                                                             *)

\* The manager never holds more slots than the limit, whatever expired,
\* was refreshed late or released twice (Manager.Admit), and every variable has
\* its type.
SlotsWithinLimit == TypeOK /\ Cardinality(Occupied) <= Limit

\* A slot keeps the session it was created for as long as it exists: a device
\* that authorizes again, however its requests race, does not get a second
\* session (H1 in Manager.Admit).
SlotKeepsSession ==
  [][\A d \in Device : slots[d].session # 0 /\ slots'[d].session # 0
       => \/ slots'[d].session = slots[d].session
          \/ slots[d].expiresAt <= now]_vars

\* Two slots never share a session, and a session that is stored belongs to
\* the device that has its slot (authorize stores the id Admit returned).
SlotOwnsSession ==
  /\ \A d, e \in Occupied : slots[d].session = slots[e].session => d = e
  /\ \A d \in Occupied :
       Stored(slots[d].session) => store[slots[d].session].device = d

\* No slot is leaked: one that is past its expiry is reclaimed or refreshed,
\* even when the request that created it never gets to store its session
\* (sweep reaps both stores).
SlotsReclaimed ==
  \A d \in Device :
    (d \in Occupied /\ slots[d].expiresAt <= now)
      ~> (d \notin Occupied \/ slots[d].expiresAt > now)

\* The devices that can go on streaming, their sessions being live, do not
\* exceed the limit (the guardrail Manager.Admit documents).
DeviceLimit ==
  Cardinality({store[s].device : s \in {t \in SessionID : Live(t)}}) <= Limit
=============================================================================
