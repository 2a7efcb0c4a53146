------------------------------ MODULE Scheduler -----------------------------
(***************************************************************************)
(* Scheduler.runOnce on several nodes, with the SQLite lease it starts     *)
(* from: JobStore.AcquireLease takes the time, then runs one upsert, which *)
(* a busy database may delay (withBusyRetry). A node that got the lease    *)
(* performs its duties one after the other and never looks at the lease    *)
(* again; most failing duties end the round.                               *)
(* Times are relative to the present, in scheduler ticks.                  *)
(***************************************************************************)
EXTENDS Integers, Sequences, FiniteSets

CONSTANTS Nodes,
          Gone,       \* the holder of a row no running node owns
          TTL,        \* schedulerLeaseTTL
          BusyTicks,  \* the longest wait of withBusyRetry
          Broken,     \* duties that fail every time
          MaxFaults   \* how many crashes and failed calls

Duties == <<"requeue", "backfill", "retention", "reports", "monitors", "uptime", "metrics">>
\* The duties whose error does not end the round.
Tolerated == {"uptime", "metrics"}

ASSUME ConstantsAssumption ==
  /\ Gone \notin Nodes
  /\ TTL \in Nat \ {0} /\ BusyTicks \in Nat /\ MaxFaults \in Nat
  /\ Broken \subseteq {Duties[d] : d \in DOMAIN Duties}

VARIABLES holder, until, \* the row of runtime_leases; until is lease_until - now
          pc,      \* pc[n]: "idle", "acquire" or "work"
          age,     \* age[n]: how long ago AcquireLease took the time
          duty,    \* duty[n]: the next duty of the round
          claim,   \* claim[n]: what is left of the lease n acquired
          faults

vars == <<holder, until, pc, age, duty, claim, faults>>
row == <<holder, until>>

Max2(a, b) == IF a > b THEN a ELSE b

Init ==
  /\ holder = Gone /\ until = -BusyTicks
  /\ pc = [n \in Nodes |-> "idle"]
  /\ age = [n \in Nodes |-> 0]
  /\ duty = [n \in Nodes |-> 1]
  /\ claim = [n \in Nodes |-> 0]
  /\ faults = 0

-----------------------------------------------------------------------------
\* AcquireLease

\* The ticker fires and AcquireLease reads the clock.
Begin(n) ==
  /\ pc[n] = "idle"
  /\ pc' = [pc EXCEPT ![n] = "acquire"]
  /\ age' = [age EXCEPT ![n] = 0]
  /\ UNCHANGED <<row, duty, claim, faults>>

\* Variant: anyone may take the row at any time.
FreeForAll(n) == TRUE

\* The WHERE clause of the upsert: a row that ended by the time that was read, or
\* a row of one's own. (No row at all is a row that ended long ago.)
Free(n) == until + age[n] <= 0 \/ holder = n

\* Variant: the lease ends a tick too late.
UpsertLonger(n) ==
  /\ pc[n] = "acquire" /\ Free(n)
  /\ holder' = n
  /\ until' = TTL + 1 - age[n]
  /\ claim' = [claim EXCEPT ![n] = Max2(TTL + 1 - age[n], 0)]
  /\ pc' = [pc EXCEPT ![n] = "work"]
  /\ duty' = [duty EXCEPT ![n] = 1]
  /\ UNCHANGED <<age, faults>>

\* The upsert writes the time that was read plus the time to live.
Upsert(n) ==
  /\ pc[n] = "acquire" /\ Free(n)
  /\ holder' = n
  /\ until' = TTL - age[n]
  /\ claim' = [claim EXCEPT ![n] = Max2(TTL - age[n], 0)]
  /\ pc' = [pc EXCEPT ![n] = "work"]
  /\ duty' = [duty EXCEPT ![n] = 1]
  /\ UNCHANGED <<age, faults>>

NotAcquired(n) ==
  /\ pc[n] = "acquire" /\ ~Free(n)
  /\ pc' = [pc EXCEPT ![n] = "idle"]
  /\ UNCHANGED <<row, age, duty, claim, faults>>

\* The statement fails, at the latest when withBusyRetry gives up.
AcquireFails(n) ==
  /\ pc[n] = "acquire"
  /\ age[n] = BusyTicks \/ faults < MaxFaults
  /\ faults' = IF age[n] = BusyTicks THEN faults ELSE faults + 1
  /\ pc' = [pc EXCEPT ![n] = "idle"]
  /\ UNCHANGED <<row, age, duty, claim>>

-----------------------------------------------------------------------------
\* The round

\* The duty ends, and with the last one the round does.
Advance(n) ==
  /\ duty' = [duty EXCEPT ![n] = IF @ = Len(Duties) THEN 1 ELSE @ + 1]
  /\ pc' = [pc EXCEPT ![n] = IF duty[n] = Len(Duties) THEN "idle" ELSE "work"]

DutyDone(n) ==
  /\ pc[n] = "work" /\ Duties[duty[n]] \notin Broken
  /\ Advance(n)
  /\ UNCHANGED <<row, age, claim, faults>>

\* Variant: every error ends the round.
DutyFailsAlwaysReturns(n) ==
  /\ pc[n] = "work"
  /\ Duties[duty[n]] \in Broken \/ faults < MaxFaults
  /\ faults' = IF Duties[duty[n]] \in Broken THEN faults ELSE faults + 1
  /\ pc' = [pc EXCEPT ![n] = "idle"] /\ duty' = [duty EXCEPT ![n] = 1]
  /\ UNCHANGED <<row, age, claim>>

\* The duty fails: the error is logged and, unless it is tolerated, the round ends.
DutyFails(n) ==
  /\ pc[n] = "work"
  /\ Duties[duty[n]] \in Broken \/ faults < MaxFaults
  /\ faults' = IF Duties[duty[n]] \in Broken THEN faults ELSE faults + 1
  /\ IF Duties[duty[n]] \in Tolerated
     THEN Advance(n)
     ELSE /\ pc' = [pc EXCEPT ![n] = "idle"]
          /\ duty' = [duty EXCEPT ![n] = 1]
  /\ UNCHANGED <<row, age, claim>>

\* The node dies and starts again under a new holder id: its row must lapse.
Crash(n) ==
  /\ faults < MaxFaults
  /\ faults' = faults + 1
  /\ holder' = IF holder = n THEN Gone ELSE holder
  /\ UNCHANGED until
  /\ pc' = [pc EXCEPT ![n] = "idle"]
  /\ duty' = [duty EXCEPT ![n] = 1]
  /\ claim' = [claim EXCEPT ![n] = 0]
  /\ UNCHANGED age

\* A tick passes; no statement waits longer than withBusyRetry lets it.
Tick ==
  /\ \A n \in Nodes : pc[n] = "acquire" => age[n] < BusyTicks
  /\ until' = Max2(until - 1, -BusyTicks)
  /\ age' = [n \in Nodes |-> IF pc[n] = "acquire" THEN age[n] + 1 ELSE 0]
  /\ claim' = [n \in Nodes |-> Max2(claim[n] - 1, 0)]
  /\ UNCHANGED <<holder, pc, duty, faults>>

NodeStep(n) ==
  \/ Begin(n) \/ Upsert(n) \/ NotAcquired(n) \/ AcquireFails(n)
  \/ DutyDone(n) \/ DutyFails(n)

Next == Tick \/ \E n \in Nodes : NodeStep(n) \/ Crash(n)

Spec == Init /\ [][Next]_vars

\* Nodes and time go on; the database is not busy on every attempt.
FairSpec ==
  /\ Spec
  /\ \A n \in Nodes : WF_vars(NodeStep(n)) /\ SF_vars(Upsert(n))
  /\ WF_vars(Tick)

-----------------------------------------------------------------------------
\* Properties

\* Every variable has its type.
TypeOK ==
  /\ holder \in Nodes \cup {Gone}
  /\ until \in -BusyTicks..TTL
  /\ pc \in [Nodes -> {"idle", "acquire", "work"}]
  /\ age \in [Nodes -> 0..BusyTicks]
  /\ duty \in [Nodes -> 1..Len(Duties)]
  /\ claim \in [Nodes -> 0..TTL]
  /\ faults \in 0..MaxFaults

\* AcquireLease on SQLite keeps the promise of LeaseStore, although the time it
\* compares with and writes may be old when the statement runs.
L == INSTANCE Lease WITH Holders <- Nodes
LeaseSpec == L!Spec

\* Two nodes are in their rounds at the same time only when the lease of one of
\* them has ended in the middle of its round.
RoundsExclusive ==
  \A m, n \in Nodes : pc[m] = "work" /\ pc[n] = "work" /\ claim[m] > 0 /\ claim[n] > 0
                        => m = n

\* Every duty is started again and again by some node, as long as no duty before
\* it fails for ever with an error that ends the round; crashes of the leader do
\* not stop the others from taking over.
Reached(d) == \A e \in 1..d - 1 : Duties[e] \in Broken => Duties[e] \in Tolerated
DutiesRecur ==
  \A d \in DOMAIN Duties :
    Reached(d) => []<>(\E n \in Nodes : pc[n] = "work" /\ duty[n] = d)

=============================================================================
