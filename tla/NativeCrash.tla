----------------------------- MODULE NativeCrash -----------------------------
(***************************************************************************)
(* The minidump of one crash: uploads of it (a client may repeat them),    *)
(* which stage a row of native_crashes, the dump, a pending event and a    *)
(* stackwalk job, and the worker that turns it into an event of an issue.  *)
(* Every statement of IngestMinidump and of ProcessStackwalkJob commits by *)
(* itself, except the transitions of the status, which set the crash and   *)
(* its event together.                                                     *)
(***************************************************************************)
EXTENDS Integers, FiniteSets

CONSTANTS Uploads,    \* 1..n
          NCMaxFaults \* bound: errors, full queues and crashes

\* The uploads' numbers are the ids of the rows they insert; 0 is no row.
ASSUME UploadsAssumption == Uploads \subseteq Nat \ {0}

WorkersRow == Cardinality(Uploads) + 1   \* the id of an event row that a worker inserts

VARIABLES ncBad,      \* is the dump malformed?
          ncRow,      \* the row of native_crashes: its id is 0 when there is none; status, is
                      \* the dump bound, event_row_id
          ncEvent,    \* the row of events with this event_id: its id is 0 when there is none
          ncJobs,     \* ncJobs[c]: pending stackwalk jobs of the crash with the id c
          ncWk,       \* the worker, with what it read of the crash
          ncUp,       \* the uploads
          ncAnswer,   \* the latest answer to an upload
          ncFaults,
          ncCrossed   \* history: has one of the exceptions below happened?

ncVars == <<ncBad, ncRow, ncEvent, ncJobs, ncWk, ncUp, ncAnswer, ncFaults, ncCrossed>>

NoCrash == [id |-> 0, status |-> "none", dump |-> FALSE, ev |-> 0]
NoEventRow == [id |-> 0, status |-> "none", grouped |-> FALSE]
AtRest == [pc |-> "idle", crash |-> 0, dump |-> FALSE, ev |-> 0]
NotUploaded == [pc |-> "idle", crash |-> 0, new |-> FALSE, ev |-> 0]

NCInit ==
  /\ ncBad \in BOOLEAN /\ ncRow = NoCrash /\ ncEvent = NoEventRow /\ ncJobs = [c \in Uploads |-> 0] /\ ncWk = AtRest
  /\ ncUp = [u \in Uploads |-> NotUploaded] /\ ncAnswer = "none" /\ ncFaults = 0 /\ ncCrossed = FALSE

Uploading(u) == ncUp[u].pc \notin {"idle", "accepted", "refused"}
UpAt(u, pc) == ncUp[u].pc = pc
UpSet(u, c) ==
  /\ ncUp' = [ncUp EXCEPT ![u] = c]
  /\ ncAnswer' = IF c.pc \in {"accepted", "refused"} THEN c.pc ELSE ncAnswer
UpGo(u, pc) == UpSet(u, [ncUp[u] EXCEPT !.pc = pc])
Fault == ncFaults < NCMaxFaults /\ ncFaults' = ncFaults + 1

\* transitionNativeCrash: the row of the caller's crash, and its event's if it knows it.
Transition(c, s) ==
  /\ ncRow' = IF ncRow.id = c.crash THEN [ncRow EXCEPT !.status = s] ELSE ncRow
  /\ ncEvent' = IF c.ev # 0 /\ ncEvent.id = c.ev THEN [ncEvent EXCEPT !.status = s] ELSE ncEvent

-----------------------------------------------------------------------------
\* IngestMinidump

\* INSERT OR IGNORE.
insertNativeCrash(u) ==
  /\ UpAt(u, "idle")
  /\ IF ncRow.id = 0
     THEN /\ ncRow' = [id |-> u, status |-> "pending", dump |-> FALSE, ev |-> 0]
          /\ UpSet(u, [pc |-> "store", crash |-> u, new |-> TRUE, ev |-> 0])
     ELSE UpGo(u, "look") /\ UNCHANGED ncRow
  /\ ncCrossed' = (ncCrossed \/ \E v \in Uploads : Uploading(v))
  /\ UNCHANGED <<ncBad, ncEvent, ncJobs, ncWk, ncFaults>>

\* An upload was cut short, or is still at it: the crash has no dump or no event yet.
HalfStaged == ncRow.id # 0 /\ ncRow.status # "failed" /\ (~ncRow.dump \/ ncRow.ev = 0)

\* Variant: a crash that is pending is taken to have its job.
GetByEventIDTrusting(u) ==
  /\ UpAt(u, "look")
  /\ UpSet(u, [crash |-> ncRow.id, new |-> FALSE, ev |-> ncRow.ev,
               pc |-> IF ncRow.status = "failed" THEN "store" ELSE "accepted"])
  /\ ncCrossed' = (ncCrossed \/ HalfStaged)
  /\ UNCHANGED <<ncBad, ncRow, ncEvent, ncJobs, ncWk, ncFaults>>

\* The crash is known. Completed: nothing is left to do. Failed: it is staged again.
\* Otherwise its job is made sure of. (Gone since: the upload is answered without one.)
GetByEventID(u) ==
  /\ UpAt(u, "look")
  /\ UpSet(u, [crash |-> ncRow.id, new |-> FALSE, ev |-> ncRow.ev,
               pc |-> CASE ncRow.status \in {"none", "completed"} -> "accepted"
                        [] ncRow.status = "failed" -> "store"
                        [] OTHER -> "count"])
  /\ ncCrossed' = (ncCrossed \/ HalfStaged)
  /\ UNCHANGED <<ncBad, ncRow, ncEvent, ncJobs, ncWk, ncFaults>>

\* The dump is saved and bound, and the images of the crash are refreshed.
storeRawMinidumpAttachment(u) ==
  /\ UpAt(u, "store") /\ UpGo(u, "event")
  /\ ncRow' = IF ncRow.id = ncUp[u].crash THEN [ncRow EXCEPT !.dump = TRUE] ELSE ncRow
  /\ UNCHANGED <<ncBad, ncEvent, ncJobs, ncWk, ncFaults, ncCrossed>>

\* cleanupNativeCrashIngest, for the upload that inserted the crash.
Refuse(u) ==
  /\ UpGo(u, "refused")
  /\ IF ncUp[u].new
     THEN /\ ncRow' = IF ncRow.id = u THEN NoCrash ELSE ncRow
          /\ ncEvent' = IF ncUp[u].ev # 0 /\ ncEvent.id = ncUp[u].ev THEN NoEventRow ELSE ncEvent
     ELSE UNCHANGED <<ncRow, ncEvent>>

\* An upsert by the row's id; another row with the same event_id is an error.
savePendingNativeEvent(u) ==
  LET id == IF ncUp[u].ev = 0 THEN u ELSE ncUp[u].ev IN
  /\ UpAt(u, "event")
  /\ IF ncEvent.id \in {0, id}
     THEN /\ ncEvent' = [id |-> id, status |-> "pending", grouped |-> FALSE]
          /\ UpSet(u, [pc |-> IF ncUp[u].ev # id THEN "bind" ELSE "reset", crash |-> ncUp[u].crash,
                       new |-> ncUp[u].new, ev |-> id])
          /\ UNCHANGED ncRow
     ELSE Refuse(u)
  /\ UNCHANGED <<ncBad, ncJobs, ncWk, ncFaults, ncCrossed>>
bindNativeCrashEvent(u) ==
  /\ UpAt(u, "bind") /\ UpGo(u, IF ncUp[u].new THEN "count" ELSE "reset")
  /\ ncRow' = IF ncRow.id = ncUp[u].crash THEN [ncRow EXCEPT !.ev = ncUp[u].ev] ELSE ncRow
  /\ UNCHANGED <<ncBad, ncEvent, ncJobs, ncWk, ncFaults, ncCrossed>>

\* restageNativeCrash: back to pending.
restageNativeCrash(u) ==
  /\ UpAt(u, "reset") /\ UpGo(u, "count") /\ Transition(ncUp[u], "pending")
  /\ UNCHANGED <<ncBad, ncJobs, ncWk, ncFaults, ncCrossed>>

\* EnqueueKeyed looks for a job of this crash, pending or processing, then enqueues one.
ensureNativeStackwalkJob(u) ==
  /\ UpAt(u, "count")
  /\ UpGo(u, IF ncJobs[ncUp[u].crash] > 0 \/ ncWk.crash = ncUp[u].crash THEN "accepted" ELSE "enqueue")
  /\ ncCrossed' = (ncCrossed \/ (ncWk.crash = ncUp[u].crash /\ ncWk.pc = "done"))
  /\ UNCHANGED <<ncBad, ncRow, ncEvent, ncJobs, ncWk, ncFaults>>
Enqueue(u) ==
  /\ UpAt(u, "enqueue") /\ UpGo(u, "accepted")
  /\ ncJobs' = [ncJobs EXCEPT ![ncUp[u].crash] = @ + 1]
  /\ UNCHANGED <<ncBad, ncRow, ncEvent, ncWk, ncFaults, ncCrossed>>

\* An error of a statement, or ErrNativeCrashQueueFull.
UploadFails(u) ==
  /\ Uploading(u) /\ Fault /\ Refuse(u)
  /\ UNCHANGED <<ncBad, ncJobs, ncWk, ncCrossed>>
UploadCrashes(u) ==
  /\ Uploading(u) /\ Fault /\ UpGo(u, "refused")
  /\ UNCHANGED <<ncBad, ncRow, ncEvent, ncJobs, ncWk, ncCrossed>>

-----------------------------------------------------------------------------
\* ProcessStackwalkJob

WkGo(pc) == ncWk' = [ncWk EXCEPT !.pc = pc]

ClaimNext(c) ==
  /\ ncWk.pc = "idle" /\ ncJobs[c] > 0
  /\ ncJobs' = [ncJobs EXCEPT ![c] = @ - 1]
  /\ ncWk' = [pc |-> IF ncRow.id # c \/ ncRow.status = "completed" THEN "done" ELSE "receipt",
              crash |-> c, dump |-> ncRow.dump, ev |-> ncRow.ev]
  /\ UNCHANGED <<ncBad, ncRow, ncEvent, ncUp, ncAnswer, ncFaults, ncCrossed>>
\* An event that an earlier attempt has completed only has to be marked.
GetEventByRowID ==
  /\ ncWk.pc = "receipt"
  /\ WkGo(IF ncWk.ev # 0 /\ ncEvent.id = ncWk.ev /\ ncEvent.status = "completed" /\ ncEvent.grouped
          THEN "complete" ELSE "start")
  /\ UNCHANGED <<ncBad, ncRow, ncEvent, ncJobs, ncUp, ncAnswer, ncFaults, ncCrossed>>
markNativeCrashProcessing ==
  /\ ncWk.pc = "start" /\ Transition(ncWk, "processing")
  /\ WkGo(IF ncWk.dump /\ ~ncBad THEN "process" ELSE "fail")
  /\ UNCHANGED <<ncBad, ncJobs, ncUp, ncAnswer, ncFaults, ncCrossed>>
\* No dump, or a malformed one: a permanent error, the job is done.
failNativeCrashPermanent ==
  /\ ncWk.pc = "fail" /\ Transition(ncWk, "failed") /\ WkGo("done")
  /\ UNCHANGED <<ncBad, ncJobs, ncUp, ncAnswer, ncFaults, ncCrossed>>
\* ProcessExisting: an upsert of the row it knows; without one, INSERT OR IGNORE.
ProcessExisting ==
  /\ ncWk.pc = "process"
  /\ \/ /\ ncWk.ev # 0 /\ ncEvent.id \in {0, ncWk.ev} /\ WkGo("complete")
        /\ ncEvent' = [id |-> ncWk.ev, status |-> "completed", grouped |-> TRUE]
     \/ ncWk.ev # 0 /\ ncEvent.id \notin {0, ncWk.ev} /\ WkGo("again") /\ UNCHANGED ncEvent
     \/ /\ ncWk.ev = 0 /\ WkGo("complete")
        /\ ncEvent' = IF ncEvent.id = 0 THEN [id |-> WorkersRow, status |-> "completed", grouped |-> TRUE]
                      ELSE ncEvent
  /\ UNCHANGED <<ncBad, ncRow, ncJobs, ncUp, ncAnswer, ncFaults, ncCrossed>>
markNativeCrashCompleted ==
  /\ ncWk.pc = "complete" /\ Transition(ncWk, "completed") /\ WkGo("done")
  /\ UNCHANGED <<ncBad, ncJobs, ncUp, ncAnswer, ncFaults, ncCrossed>>
MarkDone ==
  /\ ncWk.pc = "done" /\ ncWk' = AtRest
  /\ UNCHANGED <<ncBad, ncRow, ncEvent, ncJobs, ncUp, ncAnswer, ncFaults, ncCrossed>>

\* An error puts the crash back to pending and the job on the queue.
markNativeCrashPending ==
  /\ \/ ncWk.pc = "again" /\ UNCHANGED ncFaults
     \/ ncWk.pc = "process" /\ Fault
  /\ Transition(ncWk, "pending") /\ ncJobs' = [ncJobs EXCEPT ![ncWk.crash] = @ + 1] /\ ncWk' = AtRest
  /\ UNCHANGED <<ncBad, ncUp, ncAnswer, ncCrossed>>
\* A crash of the worker, or an error that is only returned: the job is delivered again.
WorkerCrashes ==
  /\ ncWk.pc # "idle" /\ Fault /\ ncJobs' = [ncJobs EXCEPT ![ncWk.crash] = @ + 1] /\ ncWk' = AtRest
  /\ UNCHANGED <<ncBad, ncRow, ncEvent, ncUp, ncAnswer, ncCrossed>>

NCQuiet == (\A c \in Uploads : ncJobs[c] = 0) /\ ncWk.pc = "idle" /\ \A u \in Uploads : ~Uploading(u)
NCOver == NCQuiet /\ (\A u \in Uploads : ~UpAt(u, "idle")) /\ UNCHANGED ncVars

NCNext ==
  \/ \E u \in Uploads :
       \/ insertNativeCrash(u) \/ GetByEventID(u) \/ storeRawMinidumpAttachment(u)
       \/ savePendingNativeEvent(u) \/ bindNativeCrashEvent(u) \/ restageNativeCrash(u)
       \/ ensureNativeStackwalkJob(u) \/ Enqueue(u) \/ UploadFails(u) \/ UploadCrashes(u)
  \/ \E c \in Uploads : ClaimNext(c)
  \/ GetEventByRowID \/ markNativeCrashProcessing \/ failNativeCrashPermanent
  \/ ProcessExisting \/ markNativeCrashCompleted \/ MarkDone \/ markNativeCrashPending
  \/ WorkerCrashes \/ NCOver

NCSpec == NCInit /\ [][NCNext]_ncVars

-----------------------------------------------------------------------------
\* Properties

\* Every variable has its type.
NCTypeOK ==
  /\ ncRow.status \in {"none", "pending", "processing", "completed", "failed"}
  /\ ncEvent.id \in Uploads \cup {0, WorkersRow} /\ ncRow.ev \in Uploads \cup {0}
  /\ ncJobs \in [Uploads -> 0..Cardinality(Uploads)] /\ ncFaults \in 0..NCMaxFaults
  /\ ncCrossed \in BOOLEAN

\* Once everything is at rest and the latest upload was accepted, its dump has become an
\* event of an issue, or is marked failed if it is malformed, whatever failed and was tried
\* again on the way.
\* Exceptions: uploads of the crash beside each other; one that found it staged in part,
\* which an upload that is cut short leaves behind; and one that counted on a job whose
\* worker had already failed the crash and was about to mark the job done.
AcceptedDumpSettlesUnlessCrossed ==
  NCQuiet /\ ncAnswer = "accepted" /\ ~ncCrossed =>
    IF ncBad THEN ncRow.status = "failed"
    ELSE ncRow.status = "completed" /\ ncEvent.grouped /\ ncEvent.status = "completed"
=============================================================================
