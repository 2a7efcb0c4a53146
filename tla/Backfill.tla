------------------------------ MODULE Backfill ------------------------------
(***************************************************************************)
(* Backfill runs: BackfillStore keeps at most one active run per scope and *)
(* hands runs to workers under a lease; BackfillController works off a     *)
(* native reprocessing run one event at a time. The lease is compared when *)
(* a worker writes its progress and never while it changes events. One     *)
(* organization; a telemetry rebuild is a run whose scope bounds neither   *)
(* release nor time, and its work is in module Rebuild.                    *)
(* Times of a scope are in half seconds (0: unbounded), the database keeps *)
(* whole seconds.                                                          *)
(***************************************************************************)
EXTENDS Integers, FiniteSets, FiniteSetsExt

CONSTANTS Clients, Workers,
          NoWorker,   \* the worker id of a row nobody running owns
          Requests,   \* the scopes that are asked for
          MaxRuns,
          Events,     \* sequence of [project, release, time]: the events in rowid order
          LeaseTicks, \* backfillLeaseDuration
          MaxFaults   \* crashes, errors and leases outlived

Ids == 1..MaxRuns
Rows == DOMAIN Events
Unset == ""

\* What the constants are. No bound lies in the first second of time.
ConstantsTyped ==
  /\ NoWorker \notin Workers
  /\ MaxRuns \in Nat /\ LeaseTicks \in Nat \ {0} /\ MaxFaults \in Nat
  /\ Requests # {} /\ \A q \in Requests : q.from \in Nat \ {1} /\ q.to \in Nat \ {1}
  /\ IsFiniteSet(Rows) /\ Rows \subseteq Nat \ {0}
  /\ \A e \in Rows : Events[e].time \in Nat

ASSUME ConstantsAssumption == ConstantsTyped

VARIABLES scope, status, owner, left, prog, \* the rows of backfill_runs
          event,    \* event[e]: "absent", "receipt" (of a minidump), "native" or "gone"
          step, asked, \* step[c]: where CreateRun of client c is, or its answer; asked[c]: the scope
          job,      \* job[w]: the worker's copy of its run and where it is
          faults,
          counted, passed, \* history, per run: events in its count, events it passed
          matured,  \* history, per run: a receipt became an event while it ran
          ended     \* history, per client: a run ended since its insert was refused

runs == <<scope, status, owner, left, prog>>
client == <<step, asked>>
vars == <<runs, event, client, job, faults, counted, passed, matured, ended>>

Active(i) == status[i] \in {"pending", "running"}
Finished(i) == status[i] \in {"completed", "failed", "cancelled"}
Fresh == [cursor |-> 0, total |-> 0, processed |-> 0]
Idle == [pc |-> "idle", run |-> 0, cursor |-> 0, total |-> 0, processed |-> 0, row |-> 0]

-----------------------------------------------------------------------------
\* Scopes

\* timeValue formats with whole seconds.
Seconds(t) == t - (t % 2)
Stored(q) ==
  [project |-> q.project, release |-> q.release, from |-> Seconds(q.from), to |-> Seconds(q.to)]

Overlap(a, b) == a = Unset \/ b = Unset \/ a = b

\* Variant: the windows are compared the wrong way round at one end.
SQLConflictOneEnd(a, b) ==
  /\ Overlap(a.project, b.project)
  /\ Overlap(a.release, b.release)
  /\ a.from = 0 \/ b.to = 0 \/ a.from <= b.to
  /\ b.from = 0 \/ a.to = 0 \/ a.to <= b.from

\* The condition of the INSERT and of the claim, on stored scopes.
SQLConflict(a, b) ==
  /\ Overlap(a.project, b.project)
  /\ Overlap(a.release, b.release)
  /\ a.from = 0 \/ b.to = 0 \/ a.from <= b.to
  /\ b.from = 0 \/ a.to = 0 \/ b.from <= a.to

\* Variant: windows that only touch are taken to be apart.
ScopesConflictStrict(a, b) ==
  /\ Overlap(a.project, b.project)
  /\ Overlap(a.release, b.release)
  /\ ~(a.from # 0 /\ b.to # 0 /\ a.from >= b.to)
  /\ ~(b.from # 0 /\ a.to # 0 /\ b.from >= a.to)

\* backfillScopesConflict, on a request and a stored scope.
ScopesConflict(a, b) ==
  /\ Overlap(a.project, b.project)
  /\ Overlap(a.release, b.release)
  /\ ~(a.from # 0 /\ b.to # 0 /\ a.from > b.to)
  /\ ~(b.from # 0 /\ a.to # 0 /\ b.from > a.to)

\* nativeReprocessBaseQuery.
Matches(e, s) ==
  /\ s.project \in {Unset, e.project}
  /\ s.release \in {Unset, e.release}
  /\ s.from = 0 \/ e.time >= s.from
  /\ s.to = 0 \/ e.time <= s.to

Candidates(s) == {e \in Rows : event[e] = "native" /\ Matches(Events[e], s)}

Init ==
  /\ scope = [i \in Ids |-> Stored(CHOOSE q \in Requests : TRUE)]
  /\ status = [i \in Ids |-> "none"]
  /\ owner = [i \in Ids |-> NoWorker]
  /\ left = [i \in Ids |-> 0]
  /\ prog = [i \in Ids |-> Fresh]
  /\ event \in {f \in [Rows -> {"absent", "receipt", "native"}] :
                  \A d, e \in Rows : d < e /\ f[d] = "absent" => f[e] = "absent"}
  /\ step = [c \in Clients |-> "idle"]
  /\ asked = [c \in Clients |-> CHOOSE q \in Requests : TRUE]
  /\ job = [w \in Workers |-> Idle]
  /\ faults = 0
  /\ counted = [i \in Ids |-> {}] /\ passed = [i \in Ids |-> {}]
  /\ matured = [i \in Ids |-> FALSE]
  /\ ended = [c \in Clients |-> FALSE]

-----------------------------------------------------------------------------
\* CreateRun: each lookup and the insert is a statement of its own

Duplicate(q) == \E i \in Ids : Active(i) /\ scope[i] = Stored(q)

\* A client asks, and the first lookup finds an active run of the same scope or not.
Request(c, q) ==
  /\ step[c] \in {"idle", "done", "conflict", "error"}
  /\ asked' = [asked EXCEPT ![c] = q]
  /\ step' = [step EXCEPT ![c] = IF Duplicate(q) THEN "done" ELSE "insert"]
  /\ ended' = [ended EXCEPT ![c] = FALSE]
  /\ UNCHANGED <<runs, event, job, faults, counted, passed, matured>>

Blocked(q) == \E i \in Ids : Active(i) /\ SQLConflict(scope[i], Stored(q))

\* insertRunIfNoConflict: one statement tests and inserts.
Insert(c, i) ==
  LET q == asked[c]
  IN /\ step[c] = "insert"
     /\ status[i] = "none" /\ \A k \in Ids : k < i => status[k] # "none"
     /\ ~Blocked(q)
     /\ scope' = [scope EXCEPT ![i] = Stored(q)]
     /\ status' = [status EXCEPT ![i] = "pending"]
     /\ step' = [step EXCEPT ![c] = "done"]
     /\ UNCHANGED <<asked, owner, left, prog, event, job, faults, counted, passed, matured, ended>>

InsertRefused(c) ==
  /\ step[c] = "insert" /\ Blocked(asked[c])
  /\ step' = [step EXCEPT ![c] = "again"]
  /\ UNCHANGED <<asked, runs, event, job, faults, counted, passed, matured, ended>>

FindAgain(c) ==
  /\ step[c] = "again"
  /\ step' = [step EXCEPT ![c] = IF Duplicate(asked[c]) THEN "done" ELSE "explain"]
  /\ UNCHANGED <<asked, runs, event, job, faults, counted, passed, matured, ended>>

\* findActiveConflict: a conflict is reported when it still finds one, otherwise
\* the caller gets "no row inserted".
FindConflict(c) ==
  /\ step[c] = "explain"
  /\ LET q == asked[c]
     IN step' = [step EXCEPT ![c] =
          IF \E i \in Ids : Active(i) /\ scope[i] # q /\ ScopesConflict(q, scope[i])
          THEN "conflict" ELSE "error"]
  /\ UNCHANGED <<asked, runs, event, job, faults, counted, passed, matured, ended>>

\* Every client that is between its insert and its answer sees that run i ended.
RunEnds(i) ==
  ended' = [c \in Clients |-> ended[c] \/ step[c] \in {"again", "explain"}]

\* worker_id and lease_until become NULL.
Release(i) ==
  /\ owner' = [owner EXCEPT ![i] = NoWorker]
  /\ left' = [left EXCEPT ![i] = 0]

\* Variant: whatever the status, the run is cancelled.
CancelRunAny(i) ==
  /\ status[i] # "none"
  /\ status' = [status EXCEPT ![i] = "cancelled"]
  /\ Release(i)
  /\ RunEnds(i)
  /\ UNCHANGED <<scope, prog, event, client, job, faults, counted, passed, matured>>

CancelRun(i) ==
  /\ status[i] = "pending"
  /\ status' = [status EXCEPT ![i] = "cancelled"]
  /\ Release(i)
  /\ RunEnds(i)
  /\ UNCHANGED <<scope, prog, event, client, job, faults, counted, passed, matured>>

-----------------------------------------------------------------------------
\* RunOnce and processRun

\* Variant: an expired lease is not taken over.
RunnablePending(i) ==
  /\ status[i] = "pending"
  /\ \A k \in Ids \ {i} : status[k] = "running" /\ left[k] > 0 => ~SQLConflict(scope[k], scope[i])

Runnable(i) ==
  /\ status[i] = "pending" \/ (status[i] = "running" /\ left[i] = 0)
  /\ \A k \in Ids \ {i} : status[k] = "running" /\ left[k] > 0 => ~SQLConflict(scope[k], scope[i])

\* ClaimNextRunnable: the oldest runnable run; the worker keeps the row it returned.
Claim(w, i) ==
  /\ job[w].pc = "idle"
  /\ Runnable(i) /\ \A k \in Ids : k < i => ~Runnable(k)
  /\ status' = [status EXCEPT ![i] = "running"]
  /\ owner' = [owner EXCEPT ![i] = w]
  /\ left' = [left EXCEPT ![i] = LeaseTicks]
  /\ job' = [job EXCEPT ![w] = [pc |-> IF prog[i].total = 0 /\ prog[i].processed = 0
                                        THEN "count" ELSE "select",
                                run |-> i, cursor |-> prog[i].cursor, total |-> prog[i].total,
                                processed |-> prog[i].processed, row |-> 0]]
  /\ UNCHANGED <<scope, prog, event, client, faults, counted, passed, matured, ended>>

\* Nothing to claim: the worker sleeps and polls again.
IdlePoll(w) ==
  /\ job[w].pc = "idle" /\ \A i \in Ids : ~Runnable(i)
  /\ UNCHANGED vars

\* The guard of SetTotalItems, AdvanceRun and MarkFailed.
Held(w) ==
  LET i == job[w].run IN status[i] = "running" /\ owner[i] = w /\ left[i] > 0

\* CountNativeReprocessCandidates.
Count(w) ==
  /\ job[w].pc = "count"
  /\ LET found == Candidates(scope[job[w].run])
     IN /\ job' = [job EXCEPT ![w] = [@ EXCEPT !.pc = "total", !.total = Cardinality(found)]]
        /\ counted' = IF Held(w) THEN [counted EXCEPT ![job[w].run] = found] ELSE counted
  /\ UNCHANGED <<runs, event, client, faults, passed, matured, ended>>

\* SetTotalItems; a lost lease ends the step without an error.
SetTotalItems(w) ==
  /\ job[w].pc = "total"
  /\ IF Held(w)
     THEN /\ prog' = [prog EXCEPT ![job[w].run].total = job[w].total]
          /\ job' = [job EXCEPT ![w].pc = "select"]
     ELSE /\ job' = [job EXCEPT ![w] = Idle]
          /\ UNCHANGED prog
  /\ UNCHANGED <<scope, status, owner, left, event, client, faults, counted, passed, matured, ended>>

\* Variant: the row at the cursor is read again.
SelectFromCursor(w) ==
  /\ job[w].pc = "select"
  /\ LET found == {e \in Candidates(scope[job[w].run]) : e >= job[w].cursor}
     IN job' = [job EXCEPT ![w] = [@ EXCEPT !.pc = IF found = {} THEN "advance" ELSE "apply",
                                            !.row = IF found = {} THEN 0 ELSE Min(found)]]
  /\ UNCHANGED <<runs, event, client, faults, counted, passed, matured, ended>>

\* ReprocessNativeEventBatch reads the next candidate after the cursor it copied.
Select(w) ==
  /\ job[w].pc = "select"
  /\ LET found == {e \in Candidates(scope[job[w].run]) : e > job[w].cursor}
     IN job' = [job EXCEPT ![w] = [@ EXCEPT !.pc = IF found = {} THEN "advance" ELSE "apply",
                                            !.row = IF found = {} THEN 0 ELSE Min(found)]]
  /\ UNCHANGED <<runs, event, client, faults, counted, passed, matured, ended>>

\* The event is symbolicated and regrouped, or skipped when its payload is unusable.
Apply(w) ==
  /\ job[w].pc = "apply"
  /\ job' = [job EXCEPT ![w].pc = "advance"]
  /\ UNCHANGED <<runs, event, client, faults, counted, passed, matured, ended>>

\* Variant: the run is done one event before as many as counted were processed.
DoneTooEarly(w) ==
  job[w].row = 0 \/ (job[w].total > 0 /\ job[w].processed + 2 >= job[w].total)

\* The batch was empty, or as many events as were counted have been processed.
Done(w) ==
  job[w].row = 0 \/ (job[w].total > 0 /\ job[w].processed + 1 >= job[w].total)

\* AdvanceRun: back to pending for the next step, or completed.
AdvanceRun(w) ==
  /\ job[w].pc = "advance"
  /\ job' = [job EXCEPT ![w] = Idle]
  /\ IF Held(w)
     THEN LET i == job[w].run  n == IF job[w].row = 0 THEN 0 ELSE 1
          IN /\ status' = [status EXCEPT ![i] = IF Done(w) THEN "completed" ELSE "pending"]
             /\ Release(i)
             /\ prog' = [prog EXCEPT ![i] = [@ EXCEPT !.cursor = job[w].row,
                                                   !.processed = prog[i].processed + n]]
             /\ passed' = [passed EXCEPT ![i] = @ \cup ({job[w].row} \ {0})]
             /\ IF Done(w) THEN RunEnds(i) ELSE UNCHANGED ended
     ELSE UNCHANGED <<status, owner, left, prog, passed, ended>>
  /\ UNCHANGED <<scope, event, client, faults, counted, matured>>

\* A statement of the step fails.
Error(w) ==
  /\ job[w].pc \notin {"idle", "fail"} /\ faults < MaxFaults
  /\ faults' = faults + 1
  /\ job' = [job EXCEPT ![w].pc = "fail"]
  /\ UNCHANGED <<runs, event, client, counted, passed, matured, ended>>

\* MarkFailed; a lost lease is ignored.
MarkFailed(w) ==
  /\ job[w].pc = "fail"
  /\ job' = [job EXCEPT ![w] = Idle]
  /\ IF Held(w)
     THEN LET i == job[w].run
          IN /\ status' = [status EXCEPT ![i] = "failed"]
             /\ Release(i)
             /\ RunEnds(i)
     ELSE UNCHANGED <<status, owner, left, ended>>
  /\ UNCHANGED <<scope, prog, event, client, faults, counted, passed, matured>>

\* The worker dies and comes back under a new id.
Crash(w) ==
  /\ job[w].pc # "idle" /\ faults < MaxFaults
  /\ faults' = faults + 1
  /\ job' = [job EXCEPT ![w] = Idle]
  /\ owner' = [i \in Ids |-> IF owner[i] = w THEN NoWorker ELSE owner[i]]
  /\ UNCHANGED <<scope, status, left, prog, event, client, counted, passed, matured, ended>>

-----------------------------------------------------------------------------
\* The events and time

\* A native event, or the receipt of a minidump, gets the next rowid.
Arrive(e) ==
  /\ event[e] = "absent" /\ \A d \in Rows : d < e => event[d] # "absent"
  /\ \E kind \in {"receipt", "native"} : event' = [event EXCEPT ![e] = kind]
  /\ UNCHANGED <<runs, client, job, faults, counted, passed, matured, ended>>

\* The stackwalk writes the frames into the row of the receipt.
Mature(e) ==
  /\ event[e] = "receipt"
  /\ event' = [event EXCEPT ![e] = "native"]
  /\ matured' = [i \in Ids |-> matured[i] \/ Active(i)]
  /\ UNCHANGED <<runs, client, job, faults, counted, passed, ended>>

\* Retention or an operator deletes the event.
Delete(e) ==
  /\ event[e] = "native"
  /\ event' = [event EXCEPT ![e] = "gone"]
  /\ UNCHANGED <<runs, client, job, faults, counted, passed, matured, ended>>

\* Time passes. That a worker outlives its lease is a fault.
Tick ==
  /\ \E i \in Ids : left[i] > 0
  /\ LET outlived == \E w \in Workers : job[w].pc # "idle" /\ Held(w) /\ left[job[w].run] = 1
     IN /\ outlived => faults < MaxFaults
        /\ faults' = IF outlived THEN faults + 1 ELSE faults
  /\ left' = [i \in Ids |-> IF left[i] = 0 THEN 0 ELSE left[i] - 1]
  /\ UNCHANGED <<scope, status, owner, prog, event, client, job, counted, passed, matured, ended>>

ClientStep(c) ==
  \/ \E q \in Requests : Request(c, q)
  \/ \E i \in Ids : Insert(c, i)
  \/ InsertRefused(c) \/ FindAgain(c) \/ FindConflict(c)

WorkerStep(w) ==
  \/ \E i \in Ids : Claim(w, i)
  \/ IdlePoll(w) \/ Count(w) \/ SetTotalItems(w) \/ Select(w) \/ Apply(w)
  \/ AdvanceRun(w) \/ MarkFailed(w)

Next ==
  \/ \E c \in Clients : ClientStep(c)
  \/ \E i \in Ids : CancelRun(i)
  \/ \E w \in Workers : WorkerStep(w) \/ Error(w) \/ Crash(w)
  \/ \E e \in Rows : Arrive(e) \/ Mature(e) \/ Delete(e)
  \/ Tick

Spec == Init /\ [][Next]_vars

\* Workers poll and work on, and time passes.
FairSpec == Spec /\ WF_vars(Tick) /\ \A w \in Workers : WF_vars(WorkerStep(w))

-----------------------------------------------------------------------------
\* Properties

Statuses == {"none", "pending", "running", "completed", "failed", "cancelled"}

\* Every variable has its type; a lease belongs to a running run.
TypeOK ==
  /\ status \in [Ids -> Statuses]
  /\ owner \in [Ids -> Workers \cup {NoWorker}]
  /\ left \in [Ids -> 0..LeaseTicks]
  /\ \A i \in Ids : left[i] > 0 => status[i] = "running"
  /\ prog \in [Ids -> [cursor : {0} \cup Rows, total : 0..Cardinality(Rows),
                        processed : 0..Cardinality(Rows)]]
  /\ event \in [Rows -> {"absent", "receipt", "native", "gone"}]
  /\ asked \in [Clients -> Requests]
  /\ faults \in 0..MaxFaults

\* No event belongs to two active runs: what CreateRun and its INSERT are for.
ActiveRunsDisjoint ==
  \A i, k \in Ids :
    i # k /\ Active(i) /\ Active(k) =>
      \A e \in Rows : ~(Matches(Events[e], scope[i]) /\ Matches(Events[e], scope[k]))

\* processed_items counts every event once, although a step whose lease ran out is
\* repeated by another worker.
ProcessedCountsEvents == \A i \in Ids : prog[i].processed = Cardinality(passed[i])

Covered(i) == \A e \in counted[i] : event[e] = "gone" \/ e \in passed[i]

\* When no receipt turned into an event meanwhile, a completed run has passed every
\* event it counted and that still exists, whatever arrived or was deleted and
\* however often its workers changed.
CompletedCoversUnlessMatured ==
  \A i \in Ids : status[i] = "completed" /\ ~matured[i] => Covered(i)

\* The start of the request has a fraction of a second.
Fractional(q) == q.from # Seconds(q.from)

\* "no row inserted" is answered only when a run ended between the insert and the
\* lookup: otherwise the Go comparison finds the conflict the SQL one saw. Except for a
\* request with a fractional start, which findActiveConflict does not round: it can begin
\* within the second in which the conflicting run ends.
RefusalExplained == \A c \in Clients : step[c] = "error" => ended[c] \/ Fractional(asked[c])

FinishedKept == \A i \in Ids : Finished(i) => status'[i] = status[i] /\ prog'[i] = prog[i]

\* A run that ended is never changed again, not even by a worker that still holds
\* a copy of it.
FinishedStays ==
  [][FinishedKept]_vars

\* Every run has ended.
Settled == \A i \in Ids : status[i] = "none" \/ Finished(i)

=============================================================================
