------------------------------ MODULE Retention ------------------------------
(***************************************************************************)
(* Retention of old telemetry: the sweeps of the scheduler (Apply) and of  *)
(* the API (ExecuteSurface), which delete a surface or move it to the      *)
(* archive; RestoreSurface; and readers that fetch an archived payload     *)
(* back (restoreArchivedBlob). A record is a row, an object in the blob    *)
(* store, and when archived a row of telemetry_archives and an object      *)
(* under the archive key. No step is in a transaction. Each record is      *)
(* older than the cutoff and is the only one of its surface, in a project  *)
(* of its own.                                                             *)
(***************************************************************************)
EXTENDS Integers, Sequences

CONSTANTS Order,      \* the records, in the order in which Apply comes to them
          Files,      \* those that are attachments or debug files, the others are events
          Noted,      \* events whose issue has activity, comments or bookmarks
          Sweepers, Scheduler, NoRecord,
          Boundary,   \* ArchiveRetentionDays
          RTMaxSteps  \* bound: users, the clock and faults

Records == {Order[i] : i \in DOMAIN Order}

ASSUME OrderAssumption == Order \in Seq(Records) /\ Len(Order) > 0 /\ NoRecord \notin Records

VARIABLES rtTier,     \* the policy's storage tier
          rtRow,      \* is the record's row there?
          rtObj,      \* is its object?
          rtArc,      \* is there an object under its archive key?
          rtEntry,    \* the last row of telemetry_archives: active while restored_at IS NULL
          rtSw,       \* the sweepers
          rtRs,       \* a RestoreSurface
          rtRd,       \* a reader
          rtSteps,
          rtGone,     \* history: records that were to be deleted
          rtCrossed   \* history: records whose archiving was cut short or crossed

rest == <<rtSteps, rtGone>>
rtVars == <<rtTier, rtRow, rtObj, rtArc, rtEntry, rtSw, rtRs, rtRd, rtCrossed, rest>>

NoEntry == [id |-> 0, active |-> FALSE, keyed |-> FALSE, age |-> 0]
Resting == [pc |-> "idle", left |-> <<>>, found |-> FALSE]
IdleAt == [pc |-> "idle", rec |-> NoRecord, id |-> 0, keyed |-> FALSE]

RTInit ==
  /\ rtTier \in [Records -> {"archive", "delete"}]
  /\ rtRow = [r \in Records |-> TRUE] /\ rtObj = [r \in Records |-> TRUE]
  /\ rtArc = [r \in Records |-> FALSE] /\ rtEntry = [r \in Records |-> NoEntry]
  /\ rtSw = [s \in Sweepers |-> Resting] /\ rtRs = IdleAt /\ rtRd = IdleAt
  /\ rtSteps = 0 /\ rtGone = {} /\ rtCrossed = {}

RTCounted == rtSteps < RTMaxSteps /\ rtSteps' = rtSteps + 1

SweepAt(s, pc) == rtSw[s].pc = pc
Rec(s) == Head(rtSw[s].left)
SweepGo(s, pc) == rtSw' = [rtSw EXCEPT ![s].pc = pc]

\* The database has one connection. A sweep that asks for it while it is reading rows
\* waits for itself, and everyone for the sweep.
Connected == \A s \in Sweepers : ~SweepAt(s, "stuck")

\* The records that someone is at work on.
SweptBy(s) == IF rtSw[s].pc \in {"load", "put", "drop", "insert", "row", "expire"} THEN {Rec(s)} ELSE {}
Swept == UNION {SweptBy(s) : s \in Sweepers}
Busy == Swept \cup {rtRs.rec, rtRd.rec}
Cross(r, others) == rtCrossed' = IF r \in others THEN rtCrossed \cup {r} ELSE rtCrossed

-----------------------------------------------------------------------------
\* The sweep of one record's surface

\* On to deleteOrphanGroups, which only Apply does.
SurfaceDone(s) ==
  rtSw' = [rtSw EXCEPT ![s] = IF s = Scheduler THEN [@ EXCEPT !.pc = "orphans"] ELSE Resting]

Begin(s) ==
  /\ SweepAt(s, "idle")
  /\ \E left \in IF s = Scheduler THEN {Order} ELSE {<<r>> : r \in Records} :
       rtSw' = [rtSw EXCEPT ![s] = [pc |-> "list", left |-> left, found |-> FALSE]]
  /\ s # Scheduler => RTCounted
  /\ s = Scheduler => UNCHANGED rtSteps
  /\ UNCHANGED <<rtTier, rtRow, rtObj, rtArc, rtEntry, rtRs, rtRd, rtCrossed, rtGone>>

\* applyPolicy and the query for old rows; the delete tier deletes their objects as it
\* reads them.
List(s) ==
  LET r == Rec(s) IN
  /\ SweepAt(s, "list") /\ Connected
  /\ \/ rtTier[r] = "hot" /\ SurfaceDone(s) /\ UNCHANGED <<rtObj, rtGone>>
     \/ rtTier[r] = "delete" /\ ~rtRow[r] /\ SurfaceDone(s) /\ UNCHANGED <<rtObj, rtGone>>
     \/ /\ rtTier[r] = "delete" /\ rtRow[r] /\ SweepGo(s, "purge")
        /\ rtObj' = [rtObj EXCEPT ![r] = FALSE] /\ rtGone' = rtGone \cup {r}
     \/ /\ rtTier[r] = "archive" /\ SweepGo(s, IF rtRow[r] THEN "load" ELSE "boundary")
        /\ UNCHANGED <<rtObj, rtGone>>
  /\ Cross(r, Busy)
  /\ UNCHANGED <<rtTier, rtRow, rtArc, rtEntry, rtRs, rtRd, rtSteps>>
Purge(s) ==
  /\ SweepAt(s, "purge") /\ Connected
  /\ rtRow' = [rtRow EXCEPT ![Rec(s)] = FALSE] /\ SurfaceDone(s)
  /\ UNCHANGED <<rtTier, rtObj, rtArc, rtEntry, rtRs, rtRd, rtCrossed, rest>>

\* archiveRecord: the object is copied, deleted, and the entry inserted. An object that is
\* not there leaves the entry without a key.
Load(s) ==
  /\ SweepAt(s, "load")
  /\ rtSw' = [rtSw EXCEPT ![s] = [pc |-> IF rtObj[Rec(s)] THEN "put" ELSE "insert", left |-> @.left,
                                     found |-> rtObj[Rec(s)]]]
  /\ UNCHANGED <<rtTier, rtRow, rtObj, rtArc, rtEntry, rtRs, rtRd, rtCrossed, rest>>
Put(s) ==
  /\ SweepAt(s, "put")
  /\ rtArc' = [rtArc EXCEPT ![Rec(s)] = TRUE] /\ SweepGo(s, "drop")
  /\ UNCHANGED <<rtTier, rtRow, rtObj, rtEntry, rtRs, rtRd, rtCrossed, rest>>
Drop(s) ==
  /\ SweepAt(s, "drop")
  /\ rtObj' = [rtObj EXCEPT ![Rec(s)] = FALSE] /\ SweepGo(s, "insert")
  /\ UNCHANGED <<rtTier, rtRow, rtArc, rtEntry, rtRs, rtRd, rtCrossed, rest>>

\* One active entry for a record: a second insert fails, and with it the sweep. The rows
\* of attachments and debug files stay.
InsertEntry(s) ==
  LET r == Rec(s) IN
  /\ SweepAt(s, "insert") /\ Connected
  /\ IF rtEntry[r].active
     THEN rtSw' = [rtSw EXCEPT ![s] = Resting] /\ UNCHANGED rtEntry
     ELSE /\ rtEntry' = [rtEntry EXCEPT ![r] = [id |-> @.id + 1, active |-> TRUE,
                                                keyed |-> rtSw[s].found, age |-> 0]]
          /\ SweepGo(s, IF r \in Files THEN "boundary" ELSE "row")
  /\ UNCHANGED <<rtTier, rtRow, rtObj, rtArc, rtRs, rtRd, rtCrossed, rest>>
DeleteArchivedRow(s) ==
  /\ SweepAt(s, "row") /\ Connected
  /\ rtRow' = [rtRow EXCEPT ![Rec(s)] = FALSE] /\ SweepGo(s, "boundary")
  /\ UNCHANGED <<rtTier, rtObj, rtArc, rtEntry, rtRs, rtRd, rtCrossed, rest>>

\* deleteArchivedSurfacePastBoundary deletes the archived objects as it reads the old
\* entries. For a file it also wants to delete its row, for which it needs the
\* connection that the query holds.
Expired(r) == rtEntry[r].active /\ rtEntry[r].age > Boundary
PastBoundary(s) ==
  LET r == Rec(s) IN
  /\ SweepAt(s, "boundary") /\ Connected
  /\ \/ ~Expired(r) /\ SurfaceDone(s) /\ UNCHANGED <<rtArc, rtGone>>
     \/ Expired(r) /\ r \in Files /\ SweepGo(s, "stuck") /\ UNCHANGED <<rtArc, rtGone>>
     \/ /\ Expired(r) /\ r \notin Files /\ SweepGo(s, "expire")
        /\ rtArc' = [rtArc EXCEPT ![r] = rtArc[r] /\ ~rtEntry[r].keyed]
        /\ rtGone' = rtGone \cup {r}
  /\ UNCHANGED <<rtTier, rtRow, rtObj, rtEntry, rtRs, rtRd, rtSteps, rtCrossed>>
Expire(s) ==
  /\ SweepAt(s, "expire") /\ Connected
  /\ rtEntry' = [rtEntry EXCEPT ![Rec(s)].active = @ /\ ~Expired(Rec(s))]
  /\ SurfaceDone(s)
  /\ UNCHANGED <<rtTier, rtRow, rtObj, rtArc, rtRs, rtRd, rtCrossed, rest>>

\* An issue without events that has notes of users cannot be deleted: they refer to it.
sweepOrphanGroups(s) ==
  /\ SweepAt(s, "orphans") /\ Connected
  /\ rtSw' = [rtSw EXCEPT ![s] =
                IF Rec(s) \in Noted /\ ~rtRow[Rec(s)] THEN Resting
                ELSE IF Len(@.left) = 1 THEN [pc |-> "swept", left |-> <<>>, found |-> FALSE]
                ELSE [pc |-> "list", left |-> Tail(@.left), found |-> @.found]]
  /\ UNCHANGED <<rtTier, rtRow, rtObj, rtArc, rtEntry, rtRs, rtRd, rtCrossed, rest>>
Finish(s) ==
  /\ SweepAt(s, "swept") /\ rtSw' = [rtSw EXCEPT ![s] = Resting]
  /\ UNCHANGED <<rtTier, rtRow, rtObj, rtArc, rtEntry, rtRs, rtRd, rtCrossed, rest>>

SweepStep(s) ==
  \/ Begin(s) \/ List(s) \/ Purge(s) \/ Load(s) \/ Put(s) \/ Drop(s) \/ InsertEntry(s)
  \/ DeleteArchivedRow(s) \/ PastBoundary(s) \/ Expire(s) \/ sweepOrphanGroups(s) \/ Finish(s)

-----------------------------------------------------------------------------
\* RestoreSurface

RestoreAt(pc) == rtRs.pc = pc
RestoreGo(pc) == rtRs' = [rtRs EXCEPT !.pc = pc]
store == <<rtTier, rtRow, rtObj, rtArc, rtEntry>>

\* Variant: the object of an archived record is not fetched back.
RestoreSurfaceRowOnly(r) ==
  /\ RestoreAt("idle") /\ Connected /\ rtEntry[r].active /\ RTCounted
  /\ rtRs' = [pc |-> "insert", rec |-> r, id |-> rtEntry[r].id, keyed |-> rtEntry[r].keyed]
  /\ Cross(r, Swept)
  /\ UNCHANGED <<store, rtSw, rtRd, rtGone>>

RestoreSurface(r) ==
  /\ RestoreAt("idle") /\ Connected /\ rtEntry[r].active /\ RTCounted
  /\ rtRs' = [pc |-> IF rtEntry[r].keyed THEN "load" ELSE "insert", rec |-> r,
              id |-> rtEntry[r].id, keyed |-> rtEntry[r].keyed]
  /\ Cross(r, Swept)
  /\ UNCHANGED <<store, rtSw, rtRd, rtGone>>
\* restoreObject.
RestoreLoad ==
  /\ RestoreAt("load")
  /\ IF rtArc[rtRs.rec] THEN RestoreGo("put") ELSE rtRs' = IdleAt
  /\ UNCHANGED <<store, rtSw, rtRd, rtCrossed, rest>>
RestorePut ==
  /\ RestoreAt("put") /\ RestoreGo("insert")
  /\ rtObj' = [rtObj EXCEPT ![rtRs.rec] = TRUE]
  /\ UNCHANGED <<rtTier, rtRow, rtArc, rtEntry, rtSw, rtRd, rtCrossed, rest>>
\* The row comes back (ON CONFLICT DO NOTHING), the entry goes, then its object.
RestoreInsert ==
  /\ RestoreAt("insert") /\ Connected /\ RestoreGo("entry")
  /\ rtRow' = [rtRow EXCEPT ![rtRs.rec] = TRUE]
  /\ UNCHANGED <<rtTier, rtObj, rtArc, rtEntry, rtSw, rtRd, rtCrossed, rest>>
RestoreEntry ==
  /\ RestoreAt("entry") /\ Connected
  /\ rtEntry' = [rtEntry EXCEPT ![rtRs.rec].active = @ /\ rtEntry[rtRs.rec].id # rtRs.id]
  /\ IF rtRs.keyed THEN RestoreGo("drop") ELSE rtRs' = IdleAt
  /\ UNCHANGED <<rtTier, rtRow, rtObj, rtArc, rtSw, rtRd, rtCrossed, rest>>
RestoreDrop ==
  /\ RestoreAt("drop") /\ rtRs' = IdleAt
  /\ rtArc' = [rtArc EXCEPT ![rtRs.rec] = FALSE]
  /\ UNCHANGED <<rtTier, rtRow, rtObj, rtEntry, rtSw, rtRd, rtCrossed, rest>>

RestoreStep ==
  \/ \E r \in Records : RestoreSurface(r)
  \/ RestoreLoad \/ RestorePut \/ RestoreInsert \/ RestoreEntry \/ RestoreDrop

-----------------------------------------------------------------------------
\* A reader of a file, which moves an archived object back

ReadAt(pc) == rtRd.pc = pc
ReadGo(pc) == rtRd' = [rtRd EXCEPT !.pc = pc]

GetFile(r) ==
  /\ ReadAt("idle") /\ r \in Files /\ rtRow[r] /\ Connected /\ RTCounted
  /\ rtRd' = [pc |-> "get", rec |-> r, id |-> 0, keyed |-> FALSE]
  /\ Cross(r, Swept)
  /\ UNCHANGED <<store, rtSw, rtRs, rtGone>>
ReadObject ==
  /\ ReadAt("get")
  /\ IF rtObj[rtRd.rec] THEN rtRd' = IdleAt ELSE ReadGo("find")
  /\ UNCHANGED <<store, rtSw, rtRs, rtCrossed, rest>>
latestActiveTelemetryArchive ==
  /\ ReadAt("find") /\ Connected
  /\ IF rtEntry[rtRd.rec].active /\ rtEntry[rtRd.rec].keyed THEN ReadGo("load") ELSE rtRd' = IdleAt
  /\ UNCHANGED <<store, rtSw, rtRs, rtCrossed, rest>>
ReadArchived ==
  /\ ReadAt("load")
  /\ IF rtArc[rtRd.rec] THEN ReadGo("put") ELSE rtRd' = IdleAt
  /\ UNCHANGED <<store, rtSw, rtRs, rtCrossed, rest>>
ReadPut ==
  /\ ReadAt("put") /\ ReadGo("drop")
  /\ rtObj' = [rtObj EXCEPT ![rtRd.rec] = TRUE]
  /\ UNCHANGED <<rtTier, rtRow, rtArc, rtEntry, rtSw, rtRs, rtCrossed, rest>>
ReadDrop ==
  /\ ReadAt("drop") /\ ReadGo("mark")
  /\ rtArc' = [rtArc EXCEPT ![rtRd.rec] = FALSE]
  /\ UNCHANGED <<rtTier, rtRow, rtObj, rtEntry, rtSw, rtRs, rtCrossed, rest>>
\* The update finds the active entry by its key, which is the same for every entry.
ReadMark ==
  /\ ReadAt("mark") /\ Connected /\ rtRd' = IdleAt
  /\ rtEntry' = [rtEntry EXCEPT ![rtRd.rec].active = @ /\ ~rtEntry[rtRd.rec].keyed]
  /\ UNCHANGED <<rtTier, rtRow, rtObj, rtArc, rtSw, rtRs, rtCrossed, rest>>

ReadStep ==
  \/ \E r \in Records : GetFile(r)
  \/ ReadObject \/ latestActiveTelemetryArchive \/ ReadArchived \/ ReadPut \/ ReadDrop \/ ReadMark

-----------------------------------------------------------------------------
\* Users, the clock and faults

SetTier(r) ==
  /\ RTCounted
  /\ \E t \in {"hot", "delete", "archive"} \ {rtTier[r]} : rtTier' = [rtTier EXCEPT ![r] = t]
  /\ UNCHANGED <<rtRow, rtObj, rtArc, rtEntry, rtSw, rtRs, rtRd, rtCrossed, rtGone>>
\* A user deletes the issue, with its events and their attachments.
DeleteRecord(r) ==
  /\ rtRow[r] /\ Connected /\ RTCounted
  /\ rtRow' = [rtRow EXCEPT ![r] = FALSE] /\ rtGone' = rtGone \cup {r}
  /\ UNCHANGED <<rtTier, rtObj, rtArc, rtEntry, rtSw, rtRs, rtRd, rtCrossed>>
RTTick ==
  /\ RTCounted
  /\ rtEntry' = [r \in Records |->
       IF rtEntry[r].active /\ rtEntry[r].age <= Boundary THEN [rtEntry[r] EXCEPT !.age = @ + 1] ELSE rtEntry[r]]
  /\ UNCHANGED <<rtTier, rtRow, rtObj, rtArc, rtSw, rtRs, rtRd, rtCrossed, rtGone>>
\* An error, a request that is cancelled, or a crash.
RTInterrupt ==
  /\ RTCounted
  /\ \/ \E s \in Sweepers : /\ ~SweepAt(s, "idle") /\ rtSw' = [rtSw EXCEPT ![s] = Resting]
                            /\ rtCrossed' = rtCrossed \cup SweptBy(s) /\ UNCHANGED <<rtRs, rtRd>>
     \/ ~RestoreAt("idle") /\ rtRs' = IdleAt /\ UNCHANGED <<rtSw, rtRd, rtCrossed>>
     \/ ~ReadAt("idle") /\ rtRd' = IdleAt /\ UNCHANGED <<rtSw, rtRs, rtCrossed>>
  /\ UNCHANGED <<store, rtGone>>

RTOver ==
  /\ rtSteps = RTMaxSteps /\ UNCHANGED rtVars

RTNext ==
  \/ \E s \in Sweepers : SweepStep(s)
  \/ RestoreStep \/ ReadStep
  \/ \E r \in Records : SetTier(r) \/ DeleteRecord(r)
  \/ RTTick \/ RTInterrupt \/ RTOver

RTSpec == RTInit /\ [][RTNext]_rtVars

-----------------------------------------------------------------------------
\* Properties

\* Every variable has its type.
RTTypeOK ==
  /\ rtTier \in [Records -> {"hot", "archive", "delete"}]
  /\ rtRow \in [Records -> BOOLEAN] /\ rtObj \in [Records -> BOOLEAN] /\ rtArc \in [Records -> BOOLEAN]
  /\ \A r \in Records : rtEntry[r].active \in BOOLEAN /\ rtEntry[r].age \in 0..Boundary + 1
  /\ rtGone \subseteq Records /\ rtCrossed \subseteq Records

\* A record that nobody wanted deleted can still be had once nobody is at work on it: its
\* object is there or an active entry leads to the archived one; an event without a row
\* has such an entry. A restore or a read may be cut short anywhere. Exceptions: a sweep
\* that is cut short while it archives the record, and one beside another sweep, a restore
\* or a reader of the record.
PayloadKeptUnlessCrossed ==
  \A r \in Records \ (rtGone \cup rtCrossed \cup Busy) :
    LET archived == rtEntry[r].active /\ rtEntry[r].keyed /\ rtArc[r]
    IN  IF rtRow[r] THEN rtObj[r] \/ archived ELSE archived

\* The scheduler's sweep has come to the end of the projects and their surfaces.
SweepFinished == SweepAt(Scheduler, "swept")
=============================================================================
