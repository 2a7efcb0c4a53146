------------------------------- MODULE Rebuild -------------------------------
(***************************************************************************)
(* The bridge projection: telemetrybridge.Projector copies source rows     *)
(* into the telemetry bridge in batches and keeps, for each scope and      *)
(* family, a cursor in the bridge database and a copy of it in the memory  *)
(* of each Projector. The ProjectionWorkers step their own Projector once  *)
(* for each projection job; the BackfillControllers, one on each node,     *)
(* step theirs to work off a telemetry rebuild run, which begins by        *)
(* emptying its scope (ResetScope).                                        *)
(*                                                                         *)
(* The organization has one project, whose rows both scopes cover; a row   *)
(* is its rowid and every family projects every row. How runs are created, *)
(* claimed and cancelled is in module Backfill: here one run is active at  *)
(* a time, and nobody cancels it.                                          *)
(***************************************************************************)
EXTENDS Integers, FiniteSets

CONSTANTS Appliers,     \* the Projectors of the ProjectionWorkers
          Controllers,  \* the Projectors of the BackfillControllers
          NoController,
          MaxRow,       \* how many rows are written
          Batch,        \* batchSize
          Families,     \* the families are 1..Families, in projectorFamilyOrder
          MaxRebuilds,
          RBMaxFaults   \* crashes, failed statements and outlived leases

ASSUME ProjectorsAssumption ==
  /\ MaxRow \in Nat /\ Batch \in Nat \ {0} /\ Families \in Nat \ {0}
  /\ Appliers \cap Controllers = {}

Projectors == Appliers \cup Controllers
Scopes == {"project", "organization"}
Family == 1..Families

VARIABLES rbSrc,      \* rows 1..rbSrc are in the source
          rbJobs,     \* projection jobs on the queue, the claimed ones included
          rbFacts,    \* rbFacts[f]: the rows in the bridge
          rbCursor,   \* rbCursor[s][f]: projector_cursors, 0 when there is no row
          rbCache,    \* rbCache[p][s][f]: cursorMap, 0 when there is no entry
          rbStepMap,  \* rbStepMap[p][s]: the family the next step starts with
          rbAt,       \* rbAt[p]: what the Projector's caller is doing
          rbRun,      \* the rebuild run
          rbRuns, rbFaults,
          rbCrossed   \* history: the run's reset met a Projector with older state

rbVars == <<rbSrc, rbJobs, rbFacts, rbCursor, rbCache, rbStepMap, rbAt, rbRun, rbRuns, rbFaults, rbCrossed>>

At(pc, s, f, from, upto) == [pc |-> pc, scope |-> s, fam |-> f, from |-> from, upto |-> upto]
AtRest == At("idle", "project", 1, 0, 0)
RunRow(status, s, total, begun, owner, leased) ==
  [status |-> status, scope |-> s, total |-> total, begun |-> begun, owner |-> owner, leased |-> leased]
Smaller(a, b) == IF a < b THEN a ELSE b

\* The cursors that clearCursors deletes for a scope.
Cleared(s) == IF s = "project" THEN {"project"} ELSE Scopes

RBInit ==
  /\ rbSrc = 0 /\ rbJobs = 0
  /\ rbFacts = [f \in Family |-> {}]
  /\ rbCursor = [s \in Scopes |-> [f \in Family |-> 0]]
  /\ rbCache = [p \in Projectors |-> rbCursor]
  /\ rbStepMap = [p \in Projectors |-> [s \in Scopes |-> 1]]
  /\ rbAt = [p \in Projectors |-> AtRest]
  /\ rbRun = RunRow("none", "project", 0, FALSE, NoController, FALSE)
  /\ rbRuns = 0 /\ rbFaults = 0
  /\ rbCrossed = FALSE

-----------------------------------------------------------------------------
\* The source, and the projection job that follows each write

\* EnqueueProjection ignores that the queue was full: the job may be lost.
WriteRow ==
  /\ rbSrc < MaxRow
  /\ rbSrc' = rbSrc + 1
  /\ \/ rbJobs' = rbJobs + 1 /\ UNCHANGED rbFaults
     \/ rbFaults < RBMaxFaults /\ rbFaults' = rbFaults + 1 /\ UNCHANGED rbJobs
  /\ UNCHANGED <<rbFacts, rbCursor, rbCache, rbStepMap, rbAt, rbRun, rbRuns, rbCrossed>>

\* ProjectionWorker.Run claims a job; processJob steps the project first.
ClaimJob(p) ==
  /\ p \in Appliers /\ rbAt[p].pc = "idle" /\ rbJobs > 0
  /\ rbAt' = [rbAt EXCEPT ![p] = At("read", "project", rbStepMap[p]["project"], 0, 0)]
  /\ UNCHANGED <<rbSrc, rbJobs, rbFacts, rbCursor, rbCache, rbStepMap, rbRun, rbRuns, rbFaults, rbCrossed>>

\* The organization's step of processJob, and MarkDone after it.
NextScope(p) ==
  /\ p \in Appliers /\ rbAt[p].pc = "stepped"
  /\ IF rbAt[p].scope = "project"
     THEN /\ rbAt' = [rbAt EXCEPT ![p] = At("read", "organization", rbStepMap[p]["organization"], 0, 0)]
          /\ UNCHANGED rbJobs
     ELSE rbAt' = [rbAt EXCEPT ![p] = AtRest] /\ rbJobs' = IF rbJobs > 0 THEN rbJobs - 1 ELSE 0
  /\ UNCHANGED <<rbSrc, rbFacts, rbCursor, rbCache, rbStepMap, rbRun, rbRuns, rbFaults, rbCrossed>>

-----------------------------------------------------------------------------
\* Projector.StepFamilies

\* Some Projector is between deleting family f of scope s and clearing its cursors.
Resetting(p, s, f) ==
  \E q \in Controllers \ {p} : rbAt[q].pc = "clear" /\ rbAt[q].fam = f /\ s \in Cleared(rbAt[q].scope)

\* Projector.cursor: the cached value, or else the stored one, which it caches.
ReadCursor(p) ==
  LET s == rbAt[p].scope
      f == rbAt[p].fam
      c == IF rbCache[p][s][f] > 0 THEN rbCache[p][s][f] ELSE rbCursor[s][f]
  IN /\ rbAt[p].pc = "read"
     /\ rbCache' = [rbCache EXCEPT ![p][s][f] = c]
     /\ rbAt' = [rbAt EXCEPT ![p] = At("copy", s, f, c, @.upto)]
     /\ rbCrossed' = (rbCrossed \/ Resetting(p, s, f))
     /\ UNCHANGED <<rbSrc, rbJobs, rbFacts, rbCursor, rbStepMap, rbRun, rbRuns, rbFaults>>

\* Where StepFamilies goes after a batch: it stops at a family that filled its
\* batch, and forgets its place after the last family.
AfterBatch(p, done) ==
  LET s == rbAt[p].scope
      f == rbAt[p].fam
      last == f = Families
      fwd == IF ~done THEN f ELSE IF last THEN 1 ELSE f + 1
  IN /\ rbStepMap' = [rbStepMap EXCEPT ![p][s] = fwd]
     /\ rbAt' = [rbAt EXCEPT ![p] =
          IF done /\ ~last THEN At("read", s, fwd, @.from, @.upto)
          ELSE At(IF done /\ p \in Controllers THEN "finished" ELSE "stepped", s, f, @.from, @.upto)]

\* The family's sync function: the rows after the checkpoint are upserted.
BatchEnd(p) == Smaller(rbAt[p].from + Batch, rbSrc)
CopyBatch(p) ==
  /\ rbAt[p].pc = "copy"
  /\ rbFacts' = [rbFacts EXCEPT ![rbAt[p].fam] = @ \cup (rbAt[p].from + 1)..BatchEnd(p)]
  /\ IF BatchEnd(p) <= rbAt[p].from
     THEN AfterBatch(p, TRUE)
     ELSE /\ rbAt' = [rbAt EXCEPT ![p] = At("cursor", @.scope, @.fam, @.from, BatchEnd(p))]
          /\ UNCHANGED rbStepMap
  /\ UNCHANGED <<rbSrc, rbJobs, rbCursor, rbCache, rbRun, rbRuns, rbFaults, rbCrossed>>

\* The end of withBridgeBatch: the cursor, then the cached copy of it.
SetCursor(p) ==
  LET s == rbAt[p].scope
      f == rbAt[p].fam
  IN /\ rbAt[p].pc = "cursor"
     /\ rbCursor' = [rbCursor EXCEPT ![s][f] = rbAt[p].upto]
     /\ rbCache' = [rbCache EXCEPT ![p][s][f] = rbAt[p].upto]
     /\ AfterBatch(p, rbAt[p].upto - rbAt[p].from < Batch)
     /\ UNCHANGED <<rbSrc, rbJobs, rbFacts, rbRun, rbRuns, rbFaults, rbCrossed>>

-----------------------------------------------------------------------------
\* The rebuild run: BackfillController.RunOnce

CreateRun(s) ==
  /\ rbRuns < MaxRebuilds /\ rbRun.status \in {"none", "completed", "failed"}
  /\ rbRun' = RunRow("pending", s, 0, FALSE, NoController, FALSE)
  /\ rbRuns' = rbRuns + 1
  /\ rbCrossed' = FALSE
  /\ UNCHANGED <<rbSrc, rbJobs, rbFacts, rbCursor, rbCache, rbStepMap, rbAt, rbFaults>>

\* The statements of a worker are conditional on its lease.
HoldsRun(p) == rbRun.status = "running" /\ rbRun.owner = p /\ rbRun.leased

\* Variant: pending runs only.
RebuildRunnablePending == rbRun.status = "pending"

\* What ClaimNextRunnable selects.
RebuildRunnable == rbRun.status = "pending" \/ (rbRun.status = "running" /\ ~rbRun.leased)

\* The test for a run that has no counts yet.
NothingDone == rbRun.total = 0 /\ ~rbRun.begun

\* ClaimNextRunnable, and the test at the head of processRun: a run with no
\* counts yet is begun by ResetScope, any other is stepped.
ClaimRebuild(p) ==
  /\ p \in Controllers /\ rbAt[p].pc = "idle"
  /\ RebuildRunnable
  /\ rbRun' = RunRow("running", rbRun.scope, rbRun.total, rbRun.begun, p, TRUE)
  /\ rbAt' = [rbAt EXCEPT ![p] = IF NothingDone THEN At("delete", rbRun.scope, 1, 0, 0)
                                 ELSE At("read", rbRun.scope, rbStepMap[p][rbRun.scope], 0, 0)]
  /\ UNCHANGED <<rbSrc, rbJobs, rbFacts, rbCursor, rbCache, rbStepMap, rbRuns, rbFaults, rbCrossed>>

\* Another node is still at work on the run, or another Projector has state of
\* family f in scope s from before this moment.
Stale(p, s, f) ==
  \E q \in Projectors \ {p} :
    \/ q \in Controllers /\ rbAt[q].pc # "idle"
    \/ \E t \in Cleared(s) :
         \/ rbCache[q][t][f] > 0 \/ rbStepMap[q][t] > f
         \/ rbAt[q].pc \in {"copy", "cursor"} /\ rbAt[q].scope = t /\ rbAt[q].fam = f

\* ResetScope, first statement of a family: the rows of the scope are deleted.
DeleteFamily(p) ==
  LET f == rbAt[p].fam
  IN /\ rbAt[p].pc = "delete"
     /\ rbFacts' = [rbFacts EXCEPT ![f] = {}]
     /\ rbAt' = [rbAt EXCEPT ![p].pc = "clear"]
     /\ rbCrossed' = (rbCrossed \/ ~HoldsRun(p) \/ Stale(p, rbAt[p].scope, f))
     /\ UNCHANGED <<rbSrc, rbJobs, rbCursor, rbCache, rbStepMap, rbRun, rbRuns, rbFaults>>

\* Variant: the stored cursors stay.
ClearCursorsCacheOnly(p) ==
  LET s == rbAt[p].scope
      f == rbAt[p].fam
      last == f = Families
  IN /\ rbAt[p].pc = "clear"
     /\ rbCache' = [rbCache EXCEPT ![p] =
          [t \in Scopes |-> IF t \in Cleared(s) THEN [@[t] EXCEPT ![f] = 0] ELSE @[t]]]
     /\ rbStepMap' = IF last THEN [rbStepMap EXCEPT ![p][s] = 1] ELSE rbStepMap
     /\ rbAt' = [rbAt EXCEPT ![p] = IF last THEN At("count", s, 1, @.from, @.upto)
                                   ELSE At("delete", s, f + 1, @.from, @.upto)]
     /\ UNCHANGED <<rbSrc, rbJobs, rbFacts, rbCursor, rbRun, rbRuns, rbFaults, rbCrossed>>

\* ResetScope, second statement: the stored cursors and the own copies of them,
\* and after the last family the own place in the families.
ClearCursors(p) ==
  LET s == rbAt[p].scope
      f == rbAt[p].fam
      last == f = Families
      Without(c) == [t \in Scopes |-> IF t \in Cleared(s) THEN [c[t] EXCEPT ![f] = 0] ELSE c[t]]
  IN /\ rbAt[p].pc = "clear"
     /\ rbCursor' = Without(rbCursor)
     /\ rbCache' = [rbCache EXCEPT ![p] = Without(@)]
     /\ rbStepMap' = IF last THEN [rbStepMap EXCEPT ![p][s] = 1] ELSE rbStepMap
     /\ rbAt' = [rbAt EXCEPT ![p] = IF last THEN At("count", s, 1, @.from, @.upto)
                                   ELSE At("delete", s, f + 1, @.from, @.upto)]
     /\ UNCHANGED <<rbSrc, rbJobs, rbFacts, rbRun, rbRuns, rbFaults, rbCrossed>>

\* EstimateFamilies and SetTotalItems; a worker without its lease stops here.
CountRows(p) ==
  /\ rbAt[p].pc = "count"
  /\ IF HoldsRun(p)
     THEN /\ rbRun' = [rbRun EXCEPT !.total = rbSrc]
          /\ rbAt' = [rbAt EXCEPT ![p] = At("read", @.scope, rbStepMap[p][@.scope], @.from, @.upto)]
     ELSE rbAt' = [rbAt EXCEPT ![p] = AtRest] /\ UNCHANGED rbRun
  /\ UNCHANGED <<rbSrc, rbJobs, rbFacts, rbCursor, rbCache, rbStepMap, rbRuns, rbFaults, rbCrossed>>

\* AdvanceRun: done when the step was, else pending again for any node.
AdvanceRebuild(p) ==
  /\ p \in Controllers /\ rbAt[p].pc \in {"stepped", "finished"}
  /\ rbRun' = IF ~HoldsRun(p) THEN rbRun
            ELSE RunRow(IF rbAt[p].pc = "finished" THEN "completed" ELSE "pending", rbRun.scope,
                        rbRun.total, rbRun.begun \/ rbAt[p].upto > 0, NoController, FALSE)
  /\ rbAt' = [rbAt EXCEPT ![p] = AtRest]
  /\ UNCHANGED <<rbSrc, rbJobs, rbFacts, rbCursor, rbCache, rbStepMap, rbRuns, rbFaults, rbCrossed>>

-----------------------------------------------------------------------------
\* Faults

\* Variant: the cursor is moved although the batch failed.
ErrorAdvances(p) ==
  /\ rbAt[p].pc # "idle" /\ rbFaults < RBMaxFaults
  /\ rbFaults' = rbFaults + 1
  /\ rbCursor' = IF rbAt[p].pc = "copy" THEN [rbCursor EXCEPT ![rbAt[p].scope][rbAt[p].fam] = BatchEnd(p)]
                                    ELSE rbCursor
  /\ rbRun' = IF HoldsRun(p)
              THEN RunRow("failed", rbRun.scope, rbRun.total, rbRun.begun, NoController, FALSE)
              ELSE rbRun
  /\ rbAt' = [rbAt EXCEPT ![p] = AtRest]
  /\ UNCHANGED <<rbSrc, rbJobs, rbFacts, rbCache, rbStepMap, rbRuns, rbCrossed>>

\* A statement fails. A batch may have been copied in part; the job goes back to
\* the queue, the run is marked failed.
RBError(p) ==
  /\ rbAt[p].pc # "idle" /\ rbFaults < RBMaxFaults
  /\ rbFaults' = rbFaults + 1
  /\ \E m \in rbAt[p].from..BatchEnd(p) \cup {rbAt[p].from} :
       rbFacts' = IF rbAt[p].pc = "copy"
                THEN [rbFacts EXCEPT ![rbAt[p].fam] = @ \cup (rbAt[p].from + 1)..m] ELSE rbFacts
  /\ rbRun' = IF HoldsRun(p)
              THEN RunRow("failed", rbRun.scope, rbRun.total, rbRun.begun, NoController, FALSE)
              ELSE rbRun
  /\ rbAt' = [rbAt EXCEPT ![p] = AtRest]
  /\ UNCHANGED <<rbSrc, rbJobs, rbCursor, rbCache, rbStepMap, rbRuns, rbCrossed>>

\* The process of a Projector ends and starts again: its memory is lost, its job
\* is delivered again and its lease runs on.
RBCrash(p) ==
  /\ rbFaults < RBMaxFaults
  /\ rbFaults' = rbFaults + 1
  /\ rbCache' = [rbCache EXCEPT ![p] = [s \in Scopes |-> [f \in Family |-> 0]]]
  /\ rbStepMap' = [rbStepMap EXCEPT ![p] = [s \in Scopes |-> 1]]
  /\ rbAt' = [rbAt EXCEPT ![p] = AtRest]
  /\ UNCHANGED <<rbSrc, rbJobs, rbFacts, rbCursor, rbRun, rbRuns, rbCrossed>>

\* The lease of a worker that died or gave the run up ends with time, that of a
\* worker that is still at it as a fault.
LeaseRunning == rbRun.status = "running" /\ rbRun.leased
DeadLeaseEnds ==
  /\ LeaseRunning /\ rbAt[rbRun.owner].pc = "idle"
  /\ rbRun' = [rbRun EXCEPT !.leased = FALSE]
  /\ UNCHANGED <<rbSrc, rbJobs, rbFacts, rbCursor, rbCache, rbStepMap, rbAt, rbRuns, rbFaults, rbCrossed>>
LeaseOutlived ==
  /\ LeaseRunning /\ rbAt[rbRun.owner].pc # "idle" /\ rbFaults < RBMaxFaults
  /\ rbFaults' = rbFaults + 1
  /\ rbRun' = [rbRun EXCEPT !.leased = FALSE]
  /\ UNCHANGED <<rbSrc, rbJobs, rbFacts, rbCursor, rbCache, rbStepMap, rbAt, rbRuns, rbCrossed>>

Work(p) ==
  \/ ClaimJob(p) \/ NextScope(p)
  \/ ReadCursor(p) \/ CopyBatch(p) \/ SetCursor(p)
  \/ ClaimRebuild(p) \/ DeleteFamily(p) \/ ClearCursors(p) \/ CountRows(p) \/ AdvanceRebuild(p)

\* Workers with nothing to do poll.
RBPoll ==
  /\ \A p \in Projectors : rbAt[p].pc = "idle"
  /\ rbJobs = 0 /\ rbRun.status \notin {"pending", "running"}
  /\ UNCHANGED rbVars

RBNext ==
  \/ WriteRow
  \/ \E s \in Scopes : CreateRun(s)
  \/ \E p \in Projectors : Work(p) \/ RBError(p) \/ RBCrash(p)
  \/ DeadLeaseEnds \/ LeaseOutlived
  \/ RBPoll

RBSpec == RBInit /\ [][RBNext]_rbVars

\* The worker loops run and leases end with time.
RBFairness == (\A p \in Projectors : WF_rbVars(Work(p))) /\ WF_rbVars(DeadLeaseEnds)

RBFairSpec == RBSpec /\ RBFairness

-----------------------------------------------------------------------------
\* Properties

\* Every variable has its type; only the owner of a running run has a lease.
RBTypeOK ==
  /\ rbSrc \in 0..MaxRow /\ rbJobs \in 0..rbSrc
  /\ rbFacts \in [Family -> SUBSET (1..rbSrc)]
  /\ rbCursor \in [Scopes -> [Family -> 0..rbSrc]]
  /\ rbCache \in [Projectors -> [Scopes -> [Family -> 0..rbSrc]]]
  /\ rbStepMap \in [Projectors -> [Scopes -> Family]]
  /\ rbAt \in [Projectors -> [pc : {"idle", "read", "copy", "cursor", "stepped", "finished",
                                   "delete", "clear", "count"},
                              scope : Scopes, fam : Family, from : 0..rbSrc, upto : 0..rbSrc]]
  /\ rbRun \in [status : {"none", "pending", "running", "completed", "failed"}, scope : Scopes,
                total : 0..rbSrc, begun : BOOLEAN,
                owner : Controllers \cup {NoController}, leased : BOOLEAN]
  /\ rbRun.leased => rbRun.status = "running" /\ rbRun.owner \in Controllers
  /\ rbCrossed \in BOOLEAN

\* While no rebuild is under way no cursor, stored or cached, is past a row that
\* is missing in the bridge: whatever crashes between the copy and the cursor,
\* and whichever of the workers' cursor writes comes last, no row is skipped.
CursorsCovered ==
  rbRun.status \in {"none", "completed"} /\ ~rbCrossed =>
    \A s \in Scopes, f \in Family :
      /\ 1..rbCursor[s][f] \subseteq rbFacts[f]
      /\ \A p \in Projectors : 1..rbCache[p][s][f] \subseteq rbFacts[f]

\* A completed rebuild has brought back every row it counted.
RebuildRestores ==
  rbRun.status = "completed" => \A f \in Family : 1..rbRun.total \subseteq rbFacts[f]

\* The same for rebuilds whose reset met no other Projector with a cursor of the
\* scope in memory, through crashes, takeovers, concurrent projection jobs of
\* freshly started workers, and workers that outlive their lease.
RebuildRestoresUnlessCrossed == ~rbCrossed => RebuildRestores

\* No cursor of the Projectors is past a row that the bridge misses, and a rebuild that
\* crossed no other Projector brings back what it counted.
BridgeRestored == RebuildRestoresUnlessCrossed /\ CursorsCovered

\* Every rebuild ends: its steps come to the end of each family although jobs
\* and other nodes move the same cursors, and a lost worker is replaced.
RebuildSettled == rbRun.status \notin {"pending", "running"}
RebuildEnds == []<>RebuildSettled

=============================================================================
