--------------------------- MODULE AppendOnlyQueue ---------------------------
(***************************************************************************)
(* sqlite.AppendOnlyEventQueue, the event queue of Tiny mode: rows of      *)
(* ingest_log carry growing sequence numbers, ingest_consumers keeps one   *)
(* watermark below which everything counts as consumed, and ingest_retries *)
(* delays rows that failed. One durableWorker consumes it (with this queue *)
(* the pipeline is forced to one worker); requests append concurrently.    *)
(* Jobs of other kinds go to the fallback queue, which is JobQueue.        *)
(***************************************************************************)
EXTENDS Integers, FiniteSets

CONSTANTS Clients,      \* the request handlers that may be in Enqueue at one time
          MaxEvents,    \* bound: how many events are appended in all
          Limit,        \* Pipeline.queueSize
          TrimInterval, \* appendOnlyTrimInterval
          Poison,       \* sequence numbers whose processing always fails
          MaxFaults     \* how many crashes and failed statements

\* newPipeline and Enqueue replace a limit that is not positive.
ASSUME LogAssumption ==
  /\ IsFiniteSet(Clients) /\ Limit \in Nat \ {0}
  /\ MaxEvents \in Nat /\ TrimInterval \in Nat \ {0} /\ MaxFaults \in Nat

\* Sequence numbers; AUTOINCREMENT never hands one out twice.
Seqs == 1..MaxEvents

VARIABLES log,      \* the sequence numbers in ingest_log
          nextSeq,  \* the next AUTOINCREMENT value
          lastSeq,  \* ingest_consumers.last_seq
          retry,    \* retry[s]: "none" (no row), "delayed" or "due" (available_at <= now)
          appending,\* the clients between the two statements of Enqueue
          pc, cur,  \* the worker's step and the row it claimed
          faults,
          handled,  \* history: rows processed or found permanently bad
          requeued  \* history: rows that were requeued

vars == <<log, nextSeq, lastSeq, retry, appending, pc, cur, faults, handled, requeued>>
storeVars == <<log, nextSeq, lastSeq, retry>>

\* COALESCE(MAX(seq), 0) over the log.
MaxSeq == IF log = {} THEN 0 ELSE CHOOSE s \in log : \A t \in log : t <= s

\* appendOnlyBacklog, the answer of Len and the check of Enqueue.
Backlog == MaxSeq - lastSeq

Init ==
  /\ log = {} /\ nextSeq = 1 /\ lastSeq = 0
  /\ retry = [s \in Seqs |-> "none"]
  /\ appending = {}
  /\ pc = "idle" /\ cur = 0
  /\ faults = 0
  /\ handled = {} /\ requeued = {}

-----------------------------------------------------------------------------
\* Bound: no more than MaxEvents appends are ever under way or done.
Room == nextSeq + Cardinality(appending) <= MaxEvents

\* Variant: the backlog is not looked at.
CountBacklogIgnoresLimit(c) ==
  /\ c \notin appending /\ Room
  /\ appending' = appending \cup {c}
  /\ UNCHANGED <<storeVars, pc, cur, faults, handled, requeued>>

\* The first statement of Enqueue reads the backlog; at the limit the request is
\* turned away, which changes nothing ...
CountBacklog(c) ==
  /\ c \notin appending /\ Room
  /\ Backlog < Limit
  /\ appending' = appending \cup {c}
  /\ UNCHANGED <<storeVars, pc, cur, faults, handled, requeued>>

\* ... and the second, in no transaction with it, inserts.
AppendRow(c) ==
  /\ c \in appending
  /\ log' = log \cup {nextSeq}
  /\ nextSeq' = nextSeq + 1
  /\ appending' = appending \ {c}
  /\ UNCHANGED <<lastSeq, retry, pc, cur, faults, handled, requeued>>

-----------------------------------------------------------------------------
\* The worker

\* Variant: takes any row past the watermark, not the first one.
ClaimableAnyOrder == {s \in log : s > lastSeq /\ retry[s] # "delayed"}
\* Variant: waits for the first row past the watermark while it is delayed.
ClaimableHeadOnly ==
  {s \in log : s > lastSeq /\ retry[s] # "delayed" /\ \A t \in log : t > lastSeq => s <= t}

\* The smallest sequence number past the watermark that is not delayed.
Claimable ==
  LET Ready == {s \in log : s > lastSeq /\ retry[s] # "delayed"}
  IN  {s \in Ready : \A t \in Ready : s <= t}

\* ClaimNext is a SELECT: it leaves no trace in the database.
ClaimNext ==
  /\ pc = "idle"
  /\ cur' \in Claimable
  /\ pc' = "claimed"
  /\ UNCHANGED <<storeVars, appending, faults, handled, requeued>>

\* The item is processed, or is found permanently bad, and will be marked done.
ProcessOk ==
  /\ pc = "claimed" /\ cur \notin Poison
  /\ pc' = "done"
  /\ handled' = handled \cup {cur}
  /\ UNCHANGED <<storeVars, appending, cur, faults, requeued>>

ProcessFails ==
  /\ pc = "claimed"
  /\ pc' = "retry"
  /\ cur \in Poison \/ faults < MaxFaults
  /\ faults' = IF cur \in Poison THEN faults ELSE faults + 1
  /\ UNCHANGED <<storeVars, appending, cur, handled, requeued>>

\* The first statement of MarkDone moves the watermark.
MarkDone ==
  /\ pc = "done"
  /\ lastSeq' = IF cur > lastSeq THEN cur ELSE lastSeq
  /\ pc' = "trim"
  /\ UNCHANGED <<log, nextSeq, retry, appending, cur, faults, handled, requeued>>

\* The other statements of MarkDone: the retry row goes, and every TrimInterval
\* rows everything up to here.
Trim ==
  LET Cut == IF cur % TrimInterval = 0 THEN 1..cur ELSE {} IN
  /\ pc = "trim"
  /\ log' = log \ Cut
  /\ retry' = [s \in Seqs |-> IF s = cur \/ s \in Cut THEN "none" ELSE retry[s]]
  /\ pc' = "idle" /\ cur' = 0
  /\ UNCHANGED <<nextSeq, lastSeq, appending, faults, handled, requeued>>

Requeue ==
  /\ pc = "retry"
  /\ retry' = [retry EXCEPT ![cur] = "delayed"]
  /\ requeued' = requeued \cup {cur}
  /\ pc' = "idle" /\ cur' = 0
  /\ UNCHANGED <<log, nextSeq, lastSeq, appending, faults, handled>>

\* The worker dies, or a statement of MarkDone or Requeue fails and is logged.
Interrupt ==
  /\ pc # "idle" /\ faults < MaxFaults
  /\ faults' = faults + 1
  /\ pc' = "idle" /\ cur' = 0
  /\ UNCHANGED <<storeVars, appending, handled, requeued>>

\* available_at of a retry row passes.
BecomeDue(s) ==
  /\ retry[s] = "delayed"
  /\ retry' = [retry EXCEPT ![s] = "due"]
  /\ UNCHANGED <<log, nextSeq, lastSeq, appending, pc, cur, faults, handled, requeued>>

\* Nothing is claimable: the loop sleeps for idlePollInterval.
IdlePoll ==
  /\ pc = "idle" /\ Claimable = {}
  /\ UNCHANGED vars

WorkerStep ==
  \/ ClaimNext \/ ProcessOk \/ ProcessFails \/ MarkDone \/ Trim \/ Requeue

Next ==
  \/ \E c \in Clients : CountBacklog(c) \/ AppendRow(c)
  \/ WorkerStep
  \/ Interrupt
  \/ \E s \in Seqs : BecomeDue(s)
  \/ IdlePoll

Spec == Init /\ [][Next]_vars

\* The worker loop runs and delays end; requests and faults need not happen. A
\* delay lasts at least a second and the loop claims again at once, so when rows
\* behind a failing one are first in line again and again, they are claimed.
ClaimHealthy == ClaimNext /\ cur' \notin Poison
FairSpec ==
  /\ Spec
  /\ WF_vars(WorkerStep)
  /\ SF_vars(ClaimHealthy)
  /\ \A s \in Seqs : WF_vars(BecomeDue(s))

-----------------------------------------------------------------------------
\* Properties

\* Every variable has its type.
TypeOK ==
  /\ log \subseteq Seqs
  /\ nextSeq \in 1..MaxEvents + 1
  /\ lastSeq \in 0..MaxEvents
  /\ retry \in [Seqs -> {"none", "delayed", "due"}]
  /\ appending \subseteq Clients
  /\ pc \in {"idle", "claimed", "done", "trim", "retry"}
  /\ cur \in 0..MaxEvents
  /\ faults \in 0..MaxFaults
  /\ handled \subseteq Seqs
  /\ requeued \subseteq Seqs

\* The watermark and the trim pass a row that was never processed only when that
\* row failed and was requeued: crashes and failed statements alone lose nothing.
SkippedOnlyAfterRequeue ==
  \A s \in 1..nextSeq - 1 : (s <= lastSeq \/ s \notin log) =>
                               s \in handled \/ s \in requeued

\* Enqueue checks the limit and inserts in two statements, so the rows past the
\* watermark may exceed the limit, by fewer rows than there are clients at a time.
BacklogBounded == nextSeq - 1 - lastSeq < Limit + Cardinality(Clients)

\* Again and again the worker catches up: every event of the log that does not
\* fail for ever is processed or passed by the watermark, also behind one that does.
Passed == \A s \in log \ Poison : s \in handled \/ s <= lastSeq
AppendedIsPassed == []<>Passed

\* A requeued event is offered again until it is processed (what the queue's
\* lifecycle test expects of the retried job).
RequeuedNotSkipped == \A s \in requeued : s <= lastSeq => s \in handled

=============================================================================
