------------------------------ MODULE JobQueue ------------------------------
(***************************************************************************)
(* The durable work queue of a single urgentry process: the SQLite table   *)
(* "jobs" behind sqlite.JobStore, the ingest requests that enqueue into it *)
(* through Pipeline.EnqueueContext, the pipeline's durableWorker loops and *)
(* the scheduler's RequeueExpiredProcessing sweep.                         *)
(*                                                                         *)
(* Timestamps are kept relative to the present: "due" is available_at -    *)
(* now and "lease" is lease_until - now, in ticks, and Tick lowers both.   *)
(* An overdue available_at is only ever compared with others, so Tick      *)
(* keeps the order of the overdue rows and not how long they have waited.  *)
(***************************************************************************)
EXTENDS Integers, FiniteSets

CONSTANTS Jobs,             \* the items that requests may submit, one row id each
          Workers,          \* the durableWorker goroutines
          KindOf,           \* KindOf[j]: the kind column of the row
          Outcomes,         \* Outcomes[j]: how processing the item may end
          NativeConfigured, \* whether SetNativeJobProcessor was called
          QueueSize,        \* Pipeline.queueSize, the limit given to Enqueue
          LeaseTicks,       \* defaultLeaseDuration
          BusyTicks,        \* how long a claim may wait for a busy database
          MaxDelay,         \* the cap of retryDelay
          AttemptCap,       \* attempts saturate here (retryDelay is constant above)
          MaxFaults         \* how many crashes, shutdowns and failed statements

Kinds == {"event", "native_stackwalk", "bridge_projection", "unknown"}
Verdicts == {"none", "processed", "filtered", "permanent", "discarded"}

ASSUME ConstantsAssumption ==
  /\ Jobs # {} /\ IsFiniteSet(Jobs)
  /\ Workers # {}
  /\ KindOf \in [Jobs -> Kinds]
  /\ Outcomes \in [Jobs -> SUBSET {"ok", "filtered", "transient", "permanent"}]
  /\ \A j \in Jobs : Outcomes[j] # {}
  /\ NativeConfigured \in BOOLEAN
  /\ QueueSize \in Nat \ {0}
  /\ LeaseTicks \in Nat \ {0}
  /\ BusyTicks \in 0..LeaseTicks
  /\ MaxDelay \in Nat \ {0}
  /\ AttemptCap \in Nat \ {0}
  /\ MaxFaults \in Nat

VARIABLES row,      \* row[j]: the row of the jobs table
          req,      \* req[j]: the request that submits item j
          wk,       \* wk[w]: the control state of a durableWorker
          up,       \* "running", "stopping" (Stop cancelled the context) or "down"
          completed,\* items whose event is stored with status completed
          faults,   \* how many faults happened so far
          verdict,  \* history: how the item was disposed of, "none" while it was not
          counted,  \* history: how often the event was counted in its group
          alerted,  \* history: how often the event reached the alert callback
          cut,      \* history: events whose processing was cut short or misled
          overrun   \* history: items some worker held when its lease had ended

storeVars == <<row, completed>>
effectVars == <<counted, alerted, cut>>
historyVars == <<verdict, effectVars, overrun>>
vars == <<row, req, wk, up, completed, faults, historyVars>>

-----------------------------------------------------------------------------

Min2(a, b) == IF a < b THEN a ELSE b
Max2(a, b) == IF a > b THEN a ELSE b

RowStatus == {"new", "pending", "processing", "deleted"}
Row == [status : RowStatus, attempts : 0..AttemptCap, due : Int, lease : Int]
NewRow == [status |-> "new", attempts |-> 0, due |-> 0, lease |-> 0]

\* A row that goes back to pending and becomes available in d ticks.
PendingRow(j, d) ==
  [status |-> "pending", attempts |-> row[j].attempts, due |-> d, lease |-> 0]

\* A worker's local state: its step and the job it claimed, with the number of
\* attempts the claim returned and what is left of the lease it asked for.
WorkerSteps == {"idle", "claimed", "checked", "counted", "saved", "done", "retry", "exited"}
Holding == WorkerSteps \ {"idle", "exited"}
Worker == [pc : WorkerSteps, job : Jobs, attempts : 0..AttemptCap, left : Int]
Holders(j) == {w \in Workers : wk[w].pc \in Holding /\ wk[w].job = j}
At(w, pc) == [wk[w] EXCEPT !.pc = pc]
Free(pc) == [pc |-> pc, job |-> CHOOSE j \in Jobs : TRUE, attempts |-> 0, left |-> 0]

\* time.Second << minInt(attempts-1, 5), cut off at the cap.
Shifts == <<1, 2, 4, 8, 16, 32>>
RetryDelay(attempts) ==
  LET a == IF attempts < 1 THEN 1 ELSE attempts
  IN  Min2(Shifts[Min2(a, 6)], MaxDelay)

\* The rows that the COUNT of Enqueue and Len see.
Active(j) == row[j].status \in {"pending", "processing"}
ActiveJobs == {j \in Jobs : Active(j)}

\* The pending rows that are due, and among them the oldest available_at
\* (rows of one second are ordered by created_at: here in any order).
Claimable == {j \in Jobs : row[j].status = "pending" /\ row[j].due <= 0}
\* Variant: newest first (ORDER BY available_at DESC).
OldestNewestFirst == {j \in Claimable : \A i \in Claimable : row[j].due >= row[i].due}

Oldest == {j \in Claimable : \A i \in Claimable : row[j].due <= row[i].due}

Init ==
  /\ row = [j \in Jobs |-> NewRow]
  /\ req = [j \in Jobs |-> "none"]
  /\ wk = [w \in Workers |-> Free("idle")]
  /\ up = "running"
  /\ completed = {}
  /\ faults = 0
  /\ verdict = [j \in Jobs |-> "none"]
  /\ counted = [j \in Jobs |-> 0]
  /\ alerted = [j \in Jobs |-> 0]
  /\ cut = {}
  /\ overrun = {}

-----------------------------------------------------------------------------
\* Requests: EnqueueContext

\* The stopped check at the head of EnqueueContext.
Submit(j) ==
  /\ req[j] = "none" /\ up # "down"
  /\ req' = [req EXCEPT ![j] = IF up = "stopping" THEN "rejected" ELSE "waiting"]
  /\ UNCHANGED <<row, wk, up, completed, faults, historyVars>>

\* Variant: the limit counts the pending rows only.
EnqueueCountsPending(j) ==
  /\ req[j] = "waiting"
  /\ Cardinality({i \in Jobs : row[i].status = "pending"}) < QueueSize
  /\ row' = [row EXCEPT ![j].status = "pending"]
  /\ req' = [req EXCEPT ![j] = "accepted"]
  /\ UNCHANGED <<wk, up, completed, faults, historyVars>>

\* One turn of the loop that finds room: a single INSERT ... WHERE COUNT < limit.
Enqueue(j) ==
  /\ req[j] = "waiting"
  /\ Cardinality(ActiveJobs) < QueueSize
  /\ row' = [row EXCEPT ![j].status = "pending"]
  /\ req' = [req EXCEPT ![j] = "accepted"]
  /\ UNCHANGED <<wk, up, completed, faults, historyVars>>

\* A turn that finds the table full and the deadline or the request's context
\* over (the turns that sleep and try again change nothing).
GiveUp(j) ==
  /\ req[j] = "waiting"
  /\ Cardinality(ActiveJobs) >= QueueSize
  /\ req' = [req EXCEPT ![j] = "rejected"]
  /\ UNCHANGED <<row, wk, up, completed, faults, historyVars>>

-----------------------------------------------------------------------------
\* Workers: durableWorker

\* JobStore.ClaimNext: one UPDATE ... RETURNING. The end of the lease is worked
\* out before withBusyRetry waits, so the wait comes off the lease and a claim can
\* succeed with none left (available_at is compared with that older time too;
\* here any due row may be claimed).
ClaimNext(w, j) ==
  /\ wk[w].pc = "idle" /\ up = "running"
  /\ j \in Oldest
  /\ \E waited \in 0..BusyTicks :
       LET n == Min2(row[j].attempts + 1, AttemptCap)
           lease == LeaseTicks - waited
       IN /\ row' = [row EXCEPT ![j] = [status |-> "processing", attempts |-> n,
                                        due |-> row[j].due, lease |-> lease]]
          /\ wk' = [wk EXCEPT ![w] = [pc |-> "claimed", job |-> j,
                                      attempts |-> n, left |-> lease]]
          /\ overrun' = IF lease > 0 THEN overrun ELSE overrun \cup {j}
  /\ UNCHANGED <<req, up, completed, faults, verdict, effectVars>>

\* The kinds this loop marks done without processing them.
Discard(w) ==
  LET j == wk[w].job IN
  /\ wk[w].pc = "claimed"
  /\ KindOf[j] \in {"bridge_projection", "unknown"}
  /\ wk' = [wk EXCEPT ![w] = At(w, "done")]
  /\ verdict' = [verdict EXCEPT ![j] = "discarded"]
  /\ UNCHANGED <<storeVars, req, up, faults, effectVars, overrun>>

\* Variant: the completed status is not looked at.
CheckDuplicateNever(w) ==
  /\ wk[w].pc = "claimed" /\ KindOf[wk[w].job] = "event"
  /\ wk' = [wk EXCEPT ![w] = At(w, "checked")]
  /\ UNCHANGED <<storeVars, req, up, faults, historyVars>>

\* isDuplicateCompleted, the first thing processItem does: a stored event whose
\* status is completed makes the item succeed with nothing done.
CheckDuplicate(w) ==
  LET j == wk[w].job IN
  /\ wk[w].pc = "claimed" /\ KindOf[j] = "event"
  /\ wk' = [wk EXCEPT ![w] = At(w, IF j \in completed THEN "done" ELSE "checked")]
  /\ UNCHANGED <<storeVars, req, up, faults, historyVars>>

\* The stored event cannot be read, which counts as not completed.
CheckDuplicateFails(w) ==
  /\ wk[w].pc = "claimed" /\ KindOf[wk[w].job] = "event"
  /\ faults < MaxFaults /\ faults' = faults + 1
  /\ wk' = [wk EXCEPT ![w] = At(w, "checked")]
  /\ cut' = cut \cup {wk[w].job}
  /\ UNCHANGED <<storeVars, req, up, verdict, counted, alerted, overrun>>

\* How Processor.Process or ProcessNativeJob may end. A native job without a
\* configured processor always fails.
ProcessOutcomes(j) ==
  IF KindOf[j] = "native_stackwalk" /\ ~NativeConfigured THEN {"transient"}
                                                         ELSE Outcomes[j]
Processable(w) ==
  \/ wk[w].pc = "checked"
  \/ wk[w].pc = "claimed" /\ KindOf[wk[w].job] = "native_stackwalk"

ProcessNativeJob(w) ==
  LET j == wk[w].job IN
  /\ wk[w].pc = "claimed" /\ KindOf[j] = "native_stackwalk"
  /\ "ok" \in ProcessOutcomes(j)
  /\ wk' = [wk EXCEPT ![w] = At(w, "done")]
  /\ completed' = completed \cup {j}
  /\ verdict' = [verdict EXCEPT ![j] = "processed"]
  /\ UNCHANGED <<row, req, up, faults, effectVars, overrun>>

\* Processor.Process writes the group first (times_seen + 1) ...
UpsertGroup(w) ==
  LET j == wk[w].job IN
  /\ wk[w].pc = "checked" /\ "ok" \in ProcessOutcomes(j)
  /\ wk' = [wk EXCEPT ![w] = At(w, "counted")]
  /\ counted' = [counted EXCEPT ![j] = Min2(@ + 1, 2)]
  /\ UNCHANGED <<storeVars, req, up, faults, verdict, alerted, cut, overrun>>

\* ... and then the event, with status completed.
SaveEvent(w) ==
  LET j == wk[w].job IN
  /\ wk[w].pc = "counted"
  /\ wk' = [wk EXCEPT ![w] = At(w, "saved")]
  /\ completed' = completed \cup {j}
  /\ verdict' = [verdict EXCEPT ![j] = "processed"]
  /\ UNCHANGED <<row, req, up, faults, effectVars, overrun>>

\* The end of processItem: the projection job and the alert, which dispatchAlert
\* drops when the alert queue stays full, or during Stop.
Dispatch(w) ==
  LET j == wk[w].job IN
  /\ wk[w].pc = "saved"
  /\ wk' = [wk EXCEPT ![w] = At(w, "done")]
  /\ \/ alerted' = [alerted EXCEPT ![j] = Min2(@ + 1, 2)] /\ UNCHANGED cut
     \/ cut' = cut \cup {j} /\ UNCHANGED alerted
  /\ UNCHANGED <<storeVars, req, up, faults, verdict, counted, overrun>>

\* checkFilters names a filter that drops the event: processItem succeeds.
DropFiltered(w) ==
  LET j == wk[w].job IN
  /\ wk[w].pc = "checked" /\ "filtered" \in ProcessOutcomes(j)
  /\ wk' = [wk EXCEPT ![w] = At(w, "done")]
  /\ verdict' = [verdict EXCEPT ![j] = "filtered"]
  /\ UNCHANGED <<storeVars, req, up, faults, effectVars, overrun>>

ProcessPermanent(w) ==
  LET j == wk[w].job IN
  /\ Processable(w) /\ "permanent" \in ProcessOutcomes(j)
  /\ wk' = [wk EXCEPT ![w] = At(w, "done")]
  /\ verdict' = [verdict EXCEPT ![j] = "permanent"]
  /\ UNCHANGED <<storeVars, req, up, faults, effectVars, overrun>>

\* Variant: every error is treated as permanent.
ProcessTransientMarksDone(w) ==
  /\ Processable(w) \/ wk[w].pc = "counted"
  /\ "transient" \in ProcessOutcomes(wk[w].job) \/ up = "stopping"
  /\ wk' = [wk EXCEPT ![w] = At(w, "done")]
  /\ UNCHANGED <<storeVars, req, up, faults, historyVars>>

\* Any other error, before the group was written or because the event could not
\* be. Once Stop has cancelled the context, any processing may end this way.
ProcessTransient(w) ==
  /\ Processable(w) \/ wk[w].pc = "counted"
  /\ "transient" \in ProcessOutcomes(wk[w].job) \/ up = "stopping"
  /\ wk' = [wk EXCEPT ![w] = At(w, "retry")]
  /\ cut' = IF wk[w].pc = "counted" THEN cut \cup {wk[w].job} ELSE cut
  /\ UNCHANGED <<storeVars, req, up, faults, verdict, counted, alerted, overrun>>

\* JobStore.MarkDone: DELETE by id, whoever holds the row now. The statement
\* runs under the worker's context and fails once Stop has cancelled it.
MarkDone(w) ==
  /\ wk[w].pc = "done" /\ up = "running"
  /\ row' = [row EXCEPT ![wk[w].job] = [NewRow EXCEPT !.status = "deleted"]]
  /\ wk' = [wk EXCEPT ![w] = Free("idle")]
  /\ UNCHANGED <<req, up, completed, faults, historyVars>>

\* Variants: an upsert instead of an UPDATE, and a status no reader knows.
RequeueUpserts(w) ==
  LET j == wk[w].job IN
  /\ wk[w].pc = "retry" /\ up = "running"
  /\ row' = [row EXCEPT ![j] = PendingRow(j, RetryDelay(wk[w].attempts))]
  /\ wk' = [wk EXCEPT ![w] = Free("idle")]
  /\ UNCHANGED <<req, up, completed, faults, historyVars>>
RequeueAsFailed(w) ==
  LET j == wk[w].job IN
  /\ wk[w].pc = "retry" /\ up = "running"
  /\ row' = IF Active(j) THEN [row EXCEPT ![j].status = "failed"] ELSE row
  /\ wk' = [wk EXCEPT ![w] = Free("idle")]
  /\ UNCHANGED <<req, up, completed, faults, historyVars>>

\* JobStore.Requeue: UPDATE by id, whoever holds the row now; no row is left to
\* update when another worker has deleted it.
Requeue(w) ==
  LET j == wk[w].job IN
  /\ wk[w].pc = "retry" /\ up = "running"
  /\ row' = IF Active(j)
            THEN [row EXCEPT ![j] = PendingRow(j, RetryDelay(wk[w].attempts))]
            ELSE row
  /\ wk' = [wk EXCEPT ![w] = Free("idle")]
  /\ UNCHANGED <<req, up, completed, faults, historyVars>>

\* MarkDone or Requeue fails: logged, and the loop goes on with the row leased.
SettleFails(w) ==
  /\ wk[w].pc \in {"done", "retry"}
  /\ up = "stopping" \/ faults < MaxFaults
  /\ faults' = IF up = "stopping" THEN faults ELSE faults + 1
  /\ wk' = [wk EXCEPT ![w] = Free("idle")]
  /\ UNCHANGED <<storeVars, req, up, historyVars>>

\* The ctx.Done() check at the head of the loop.
Exit(w) ==
  /\ wk[w].pc = "idle" /\ up = "stopping"
  /\ wk' = [wk EXCEPT ![w] = Free("exited")]
  /\ UNCHANGED <<storeVars, req, up, faults, historyVars>>

-----------------------------------------------------------------------------
\* The scheduler, the process and time

\* Variant: requeues every processing row, whatever its lease.
RequeueAllProcessing ==
  LET Leased(j) == row[j].status = "processing" IN
  /\ up = "running" /\ \E j \in Jobs : Leased(j)
  /\ row' = [j \in Jobs |-> IF Leased(j) THEN PendingRow(j, 0) ELSE row[j]]
  /\ UNCHANGED <<req, wk, up, completed, faults, historyVars>>

RequeueExpiredProcessing ==
  LET Expired(j) == row[j].status = "processing" /\ row[j].lease <= 0 IN
  /\ up = "running" /\ \E j \in Jobs : Expired(j)
  /\ row' = [j \in Jobs |-> IF Expired(j) THEN PendingRow(j, 0) ELSE row[j]]
  /\ UNCHANGED <<req, wk, up, completed, faults, historyVars>>

\* Pipeline.Stop cancels the workers' context and waits for them.
Stop ==
  /\ up = "running" /\ faults < MaxFaults
  /\ up' = "stopping"
  /\ faults' = faults + 1
  /\ UNCHANGED <<storeVars, req, wk, historyVars>>

\* The process ends, killed at any point or after Stop returned: requests in
\* flight get no answer and what the workers held is forgotten.
Terminate ==
  /\ \/ up = "running" /\ faults < MaxFaults /\ faults' = faults + 1
     \/ /\ up = "stopping" /\ \A w \in Workers : wk[w].pc = "exited"
        /\ UNCHANGED faults
  /\ up' = "down"
  /\ wk' = [w \in Workers |-> Free("exited")]
  /\ req' = [j \in Jobs |-> IF req[j] = "waiting" THEN "rejected" ELSE req[j]]
  /\ cut' = cut \cup {wk[w].job : w \in {v \in Workers : wk[v].pc \in {"counted", "saved"}}}
  /\ UNCHANGED <<storeVars, verdict, counted, alerted, overrun>>

Start ==
  /\ up = "down"
  /\ up' = "running"
  /\ wk' = [w \in Workers |-> Free("idle")]
  /\ UNCHANGED <<storeVars, req, faults, historyVars>>

\* The order of the overdue rows as small numbers, equal when due at the same time.
Overdue(j) == row[j].status = "pending" /\ row[j].due <= 0
Rank(j) == -Cardinality({i \in Jobs : Overdue(i) /\ row[i].due >= row[j].due})

Aged(j) == [status |-> row[j].status, attempts |-> row[j].attempts,
            due |-> IF Overdue(j) THEN Rank(j) ELSE Max2(row[j].due - 1, 0),
            lease |-> Max2(row[j].lease - 1, 0)]

\* A second passes.
Tick ==
  /\ row' = [j \in Jobs |-> Aged(j)]
  /\ wk' = [w \in Workers |-> [wk[w] EXCEPT !.left = Max2(@ - 1, 0)]]
  /\ overrun' = overrun \cup {j \in Jobs : \E w \in Holders(j) : wk[w].left <= 1}
  /\ UNCHANGED <<req, up, completed, faults, verdict, effectVars>>

WorkerStep(w) ==
  \/ \E j \in Jobs : ClaimNext(w, j)
  \/ Discard(w) \/ CheckDuplicate(w) \/ CheckDuplicateFails(w)
  \/ ProcessNativeJob(w) \/ UpsertGroup(w) \/ SaveEvent(w) \/ Dispatch(w)
  \/ DropFiltered(w) \/ ProcessPermanent(w) \/ ProcessTransient(w)
  \/ MarkDone(w) \/ Requeue(w) \/ SettleFails(w)
  \/ Exit(w)

Next ==
  \/ \E j \in Jobs : Submit(j) \/ Enqueue(j) \/ GiveUp(j)
  \/ \E w \in Workers : WorkerStep(w)
  \/ RequeueExpiredProcessing
  \/ Stop \/ Terminate \/ Start
  \/ Tick

Spec == Init /\ [][Next]_vars

\* The goroutines keep running, the scheduler ticks, time passes and a stopped
\* process is started again; requests and faults need not happen.
Fairness ==
  /\ \A w \in Workers : WF_vars(WorkerStep(w))
  /\ WF_vars(RequeueExpiredProcessing)
  /\ WF_vars(Terminate /\ up = "stopping")
  /\ WF_vars(Start)
  /\ WF_vars(Tick)

FairSpec == Spec /\ Fairness

-----------------------------------------------------------------------------
\* Properties

\* Every variable has its type.
TypeOK ==
  /\ row \in [Jobs -> Row]
  /\ req \in [Jobs -> {"none", "waiting", "accepted", "rejected"}]
  /\ wk \in [Workers -> Worker]
  /\ up \in {"running", "stopping", "down"}
  /\ completed \in SUBSET Jobs
  /\ faults \in 0..MaxFaults
  /\ verdict \in [Jobs -> Verdicts]
  /\ counted \in [Jobs -> 0..2]
  /\ alerted \in [Jobs -> 0..2]
  /\ cut \in SUBSET Jobs
  /\ overrun \in SUBSET Jobs

\* An item whose request was answered "accepted" is in the table until a worker
\* has processed it, found it permanently bad or discarded its kind: no crash,
\* shutdown, failed statement or late worker makes MarkDone delete it earlier.
AcceptedNotLost ==
  \A j \in Jobs : req[j] = "accepted" => Active(j) \/ verdict[j] # "none"

\* Pending and leased rows together never exceed the limit of Enqueue, however
\* rows move between the two.
QueueBounded == Cardinality(ActiveJobs) <= QueueSize

\* Two workers handle one job at the same time only after the first of them
\* overran its lease: MarkDone and Requeue do not check ownership, so it is the
\* lease alone that keeps workers apart.
ExclusiveUnlessOverrun ==
  \A j \in Jobs : \A v, w \in Holders(j) : v # w => j \in overrun

\* An event is counted in its group and handed to the alerts once, neither twice
\* nor never, through redeliveries and failed MarkDone calls, thanks to
\* isDuplicateCompleted. The exceptions are a lease that ended under its worker, a
\* lookup of the stored event that failed, an alert dropped under backpressure,
\* and a crash, shutdown or error between the writes of processItem: after the
\* group it leads to a second count, after the event to no alert at all.
EffectsOnceUnlessCut ==
  \A j \in Jobs : KindOf[j] = "event" /\ j \notin overrun \cup cut =>
    /\ counted[j] <= 1 /\ alerted[j] <= 1
    /\ row[j].status = "deleted" /\ verdict[j] = "processed" =>
         counted[j] = 1 /\ alerted[j] = 1

\* A deleted row is never brought back: the late Requeue of a worker that lost
\* its lease does not resurrect a job another worker finished.
DeletedStaysDeleted ==
  [][\A j \in Jobs : row[j].status = "deleted" => row'[j].status = "deleted"]_vars

\* An accepted item that processing does not always fail with a transient error
\* is eventually off the queue, also next to a poison item that is retried for
\* ever, and through every crash and shutdown.
Healthy(j) == "transient" \notin ProcessOutcomes(j)
Finished ==
  \A j \in Jobs : Healthy(j) /\ req[j] = "accepted" => row[j].status = "deleted"
AcceptedFinishes == []<>Finished

=============================================================================
