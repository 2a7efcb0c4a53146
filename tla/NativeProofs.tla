---------------------------- MODULE NativeProofs ----------------------------
(***************************************************************************)
(* Native crashes and the runs that reprocess them.                        *)
(*                                                                         *)
(* An accepted minidump is settled, for any number of uploads, errors and  *)
(* crashes: while uploads do not cross, the one at work has staged row,    *)
(* dump and event before there is a job, and an accepted crash is settled, *)
(* queued or with the worker.                                              *)
(*                                                                         *)
(* No event ever belongs to two active runs, for any requests, number of   *)
(* runs and workers, and times with fractions of a second included. The    *)
(* inductive invariant is about scopes and not about events: the stored    *)
(* scopes of two active runs never conflict. It is kept because a run only *)
(* becomes active by the insert, which tests it against all active runs,   *)
(* and a scope never changes.                                              *)
(*                                                                         *)
(* With it, a request is refused without naming a run only when a run      *)
(* ended meanwhile, because the comparison in Go finds whatever the one in *)
(* SQL saw; and a run that ended stays as it is. The work of a run is in   *)
(* module BackfillWorkProofs.                                              *)
(***************************************************************************)
EXTENDS NativeCrash, Backfill, TLAPS

-----------------------------------------------------------------------------
\* The minidump of a crash

\* Types.
CrashRow ==
  [id : Uploads \cup {0}, status : {"none", "pending", "processing", "completed", "failed"},
   dump : BOOLEAN, ev : Uploads \cup {0}]
EventRow ==
  [id : Uploads \cup {0, WorkersRow},
   status : {"none", "pending", "processing", "completed", "failed"}, grouped : BOOLEAN]
UploadState ==
  [pc : {"idle", "look", "store", "event", "bind", "reset", "count", "enqueue", "accepted", "refused"},
   crash : Uploads \cup {0}, new : BOOLEAN, ev : Uploads \cup {0}]
StackwalkState ==
  [pc : {"idle", "receipt", "start", "process", "fail", "complete", "again", "done"},
   crash : Uploads \cup {0}, dump : BOOLEAN, ev : Uploads \cup {0}]

DumpType ==
  /\ ncBad \in BOOLEAN /\ ncRow \in CrashRow /\ ncEvent \in EventRow
  /\ ncJobs \in [Uploads -> Nat] /\ ncWk \in StackwalkState
  /\ ncUp \in [Uploads -> UploadState] /\ ncCrossed \in BOOLEAN
  /\ ncWk.pc = "idle" <=> ncWk.crash = 0
  /\ \A u \in Uploads : ncUp[u].pc = "idle" => ~ncUp[u].new

\* The crash has its dump and its event.
Staged == ncRow.id # 0 /\ ncRow.dump /\ ncRow.ev # 0
HasWork == ncWk.pc # "idle" \/ \E c \in Uploads : ncJobs[c] > 0
\* Its job is queued, or a worker has yet to settle it.
InProgress == ncWk.pc \notin {"idle", "done"} \/ \E c \in Uploads : ncJobs[c] > 0

OneUpload == \A u, v \in Uploads : Uploading(u) /\ Uploading(v) => u = v

\* The upload that inserted the crash stages it before there is work on it.
Staging(u) ==
  /\ ncRow.id = u /\ ncUp[u].crash = u /\ ncRow.status = "pending" /\ ~HasWork
  /\ ncUp[u].pc \in {"store", "event", "bind", "count", "enqueue"}
  /\ ncUp[u].pc # "store" => ncRow.dump
  /\ ncUp[u].pc \in {"store", "event"} => ncUp[u].ev = 0 /\ ncRow.ev = 0 /\ ncEvent.id = 0
  /\ ncUp[u].pc = "bind" => ncUp[u].ev = u /\ ncRow.ev = 0 /\ ncEvent.id = u
  /\ ncUp[u].pc \in {"count", "enqueue"} => ncUp[u].ev = u /\ ncRow.ev = u
\* A later upload finds it staged; only a malformed dump is staged again.
Repeating(u) ==
  /\ ncRow.id # 0 /\ ncUp[u].pc # "bind"
  /\ ncUp[u].pc # "look" => Staged /\ ncUp[u].crash = ncRow.id /\ ncUp[u].ev = ncRow.ev
  /\ ncUp[u].pc \in {"store", "event", "reset"} => ncBad
UploadsInOrder == \A u \in Uploads : Uploading(u) => IF ncUp[u].new THEN Staging(u) ELSE Repeating(u)

\* Rows, events and work belong together.
RowsMatch ==
  /\ ncRow.id = 0 => ncRow = NoCrash /\ ncEvent.id = 0 /\ ~HasWork
  /\ ncRow.id # 0 => ncRow.status # "none"
  /\ ncRow.ev # 0 => ncEvent.id = ncRow.ev
  /\ ncRow.status = "failed" => Staged
  /\ \A c \in Uploads : ncJobs[c] > 0 => ncRow.id = c /\ Staged
  /\ ncWk.pc # "idle" => Staged /\ ncWk.crash = ncRow.id /\ ncWk.dump /\ ncWk.ev = ncRow.ev

\* A malformed dump is never completed, any other never failed.
Verdict ==
  /\ ncWk.pc # "again"
  /\ ncBad => /\ ncWk.pc \notin {"process", "complete"}
              /\ ncRow.status # "completed" /\ ncEvent.status # "completed"
  /\ ~ncBad => /\ ncWk.pc # "fail" /\ ncRow.status # "failed"
               /\ ncWk.pc = "complete" \/ ncRow.status = "completed"
                    => ncEvent.status = "completed" /\ ncEvent.grouped

DumpSettled ==
  IF ncBad THEN ncRow.status = "failed"
  ELSE ncRow.status = "completed" /\ ncEvent.grouped /\ ncEvent.status = "completed"
AcceptedIsInHand ==
  ncAnswer = "accepted" /\ (\A u \in Uploads : ~Uploading(u)) => DumpSettled \/ InProgress

DumpInv ==
  /\ DumpType
  /\ ~ncCrossed => OneUpload /\ UploadsInOrder /\ RowsMatch /\ Verdict /\ AcceptedIsInHand

USE UploadsAssumption

\* The rows and states as the code first writes them.
LEMMA FreshRows ==
  /\ NoCrash \in CrashRow
  /\ NoEventRow \in EventRow
  /\ AtRest \in StackwalkState
  /\ NotUploaded \in UploadState
  /\ \A u \in Uploads :
       /\ [id |-> u, status |-> "pending", dump |-> FALSE, ev |-> 0] \in CrashRow
       /\ [pc |-> "store", crash |-> u, new |-> TRUE, ev |-> 0] \in UploadState
       /\ [id |-> u, status |-> "pending", grouped |-> FALSE] \in EventRow
       /\ [id |-> u, status |-> "completed", grouped |-> TRUE] \in EventRow
  /\ [id |-> WorkersRow, status |-> "completed", grouped |-> TRUE] \in EventRow
  BY Zenon DEF CrashRow, EventRow, StackwalkState, UploadState, NoCrash, NoEventRow, AtRest, NotUploaded

\* A job more is a job.
LEMMA OneMoreJob ==
  ASSUME NEW f \in [Uploads -> Nat], NEW c
  PROVE  /\ [f EXCEPT ![c] = @ + 1] \in [Uploads -> Nat]
         /\ c \in Uploads => [f EXCEPT ![c] = @ + 1][c] > 0
<1>1. CASE c \in Uploads
  <2>1. f[c] \in Nat
    BY <1>1, Zenon
  <2>2. PICK n \in Nat : n = f[c] + 1 /\ n > 0
    BY <2>1
  <2> QED
    BY <1>1, <2>2, Zenon
<1>2. CASE c \notin Uploads
  BY <1>2, Zenon
<1> QED
  BY <1>1, <1>2, Zenon

\* Initially there is nothing.
LEMMA DumpInvInit == NCInit => DumpInv
<1> SUFFICES ASSUME NCInit PROVE DumpInv
  OBVIOUS
<1>1. DumpType
  BY FreshRows, Zenon DEF NCInit, DumpType, AtRest, NotUploaded
<1>2. \A u \in Uploads : ~Uploading(u)
  BY Zenon DEF NCInit, NotUploaded, Uploading
<1>3. RowsMatch
  BY DEF NCInit, RowsMatch, HasWork, NoCrash, NoEventRow, AtRest
<1>4. Verdict
  BY Zenon DEF NCInit, Verdict, NoCrash, NoEventRow, AtRest
<1>5. AcceptedIsInHand
  BY Zenon DEF NCInit, AcceptedIsInHand
<1> QED
  BY <1>1, <1>2, <1>3, <1>4, <1>5, Zenon DEF DumpInv, OneUpload, UploadsInOrder

\* The upload finds the row or inserts one; a crash without a row has no work on it.
LEMMA InsertNativeCrashKeepsDump ==
  ASSUME NEW u \in Uploads, DumpInv, insertNativeCrash(u) PROVE DumpInv'
<1>1. DumpType'
  <2>1. ncRow' \in CrashRow
    BY FreshRows, Zenon DEF DumpInv, DumpType, insertNativeCrash
  <2>2. ncEvent' \in EventRow
    BY Zenon DEF DumpInv, DumpType, CrashRow, EventRow, UploadState, StackwalkState, insertNativeCrash, UpAt,
      UpGo, UpSet, Uploading
  <2>3. ncJobs' \in [Uploads -> Nat]
    BY Zenon DEF DumpInv, DumpType, CrashRow, EventRow, UploadState, StackwalkState, insertNativeCrash, UpAt,
      UpGo, UpSet, Uploading
  <2>4. ncWk' \in StackwalkState /\ (ncWk.pc = "idle" <=> ncWk.crash = 0)'
    BY Zenon DEF DumpInv, DumpType, CrashRow, EventRow, UploadState, StackwalkState, insertNativeCrash, UpAt,
      UpGo, UpSet, Uploading
  <2>5. ncUp' \in [Uploads -> UploadState]
    <3>1. CASE ncRow.id = 0
      BY <3>1, FreshRows, Zenon DEF DumpInv, DumpType, insertNativeCrash, UpSet
    <3>2. CASE ncRow.id # 0
      BY <3>2 DEF DumpInv, DumpType, UploadState, insertNativeCrash, UpGo, UpSet
    <3> QED
      BY <3>1, <3>2, Zenon
  <2>6. \A v \in Uploads : ncUp'[v].pc = "idle" => ~ncUp'[v].new
    BY DEF DumpInv, DumpType, UploadState, insertNativeCrash, UpAt, UpGo, UpSet, Uploading
  <2>7. (ncBad \in BOOLEAN /\ ncCrossed \in BOOLEAN)'
    BY Zenon DEF DumpInv, DumpType, CrashRow, EventRow, UploadState, StackwalkState, insertNativeCrash, UpAt,
      UpGo, UpSet, Uploading
  <2> QED
    BY <2>1, <2>2, <2>3, <2>4, <2>5, <2>6, <2>7, Zenon DEF DumpType
<1>2. ASSUME ~ncCrossed' PROVE ~ncCrossed /\ OneUpload /\ UploadsInOrder /\ RowsMatch /\ Verdict /\
  AcceptedIsInHand
  BY <1>2, Zenon DEF DumpInv, DumpType, insertNativeCrash, UpAt, UpGo, UpSet
<1>3. ASSUME ~ncCrossed' PROVE OneUpload'
  <2>1. \A v \in Uploads : ~Uploading(v)
    BY <1>3, Zenon DEF insertNativeCrash
  <2>2. \A v \in Uploads \ {u} : ncUp'[v] = ncUp[v]
    BY Zenon DEF DumpInv, DumpType, insertNativeCrash, UpGo, UpSet
  <2> QED
    BY <2>1, <2>2, Zenon DEF OneUpload, Uploading
<1>4. ASSUME ~ncCrossed' PROVE UploadsInOrder'
  <2>1. \A v \in Uploads : ~Uploading(v)
    BY <1>4, Zenon DEF insertNativeCrash
  <2>2. \A v \in Uploads \ {u} : ncUp'[v] = ncUp[v]
    BY Zenon DEF DumpInv, DumpType, insertNativeCrash, UpGo, UpSet
  <2>3. CASE ncRow.id = 0
    <3>1. ncUp'[u] = [pc |-> "store", crash |-> u, new |-> TRUE, ev |-> 0]
      BY <2>3, Zenon DEF DumpInv, DumpType, insertNativeCrash, UpSet
    <3>2. Staging(u)'
      BY <1>2, <1>4, <2>3, <3>1 DEF insertNativeCrash, RowsMatch, Staging, HasWork
    <3>3. ncUp'[u].new
      BY <3>1
    <3>4. \A v \in Uploads : Uploading(v)' => v = u
      BY <2>1, <2>2, Zenon DEF Uploading
    <3> QED
      BY <3>2, <3>3, <3>4, Zenon DEF UploadsInOrder
  <2>4. CASE ncRow.id # 0
    <3>1. ncUp'[u].pc = "look"
      BY <2>4 DEF DumpInv, DumpType, UploadState, insertNativeCrash, UpGo, UpSet
    <3>2. Repeating(u)'
      BY <1>2, <1>4, <2>4, <3>1, Zenon DEF insertNativeCrash, Repeating
    <3>3. ~ncUp'[u].new
      BY <2>4 DEF DumpInv, DumpType, UploadState, insertNativeCrash, UpAt, UpGo, UpSet
    <3> QED
      BY <2>1, <2>2, <3>1, <3>2, <3>3, Zenon DEF UploadsInOrder, Uploading
  <2> QED
    BY <2>3, <2>4, Zenon
<1>5. ASSUME ~ncCrossed' PROVE RowsMatch'
  BY <1>2, <1>5 DEF DumpInv, DumpType, CrashRow, EventRow, UploadState, StackwalkState, insertNativeCrash,
    UpAt, UpGo, UpSet, OneUpload, Uploading, UploadsInOrder, Staging, Repeating, Staged, HasWork, RowsMatch,
    Verdict, NoCrash
<1>6. ASSUME ~ncCrossed' PROVE Verdict'
  BY <1>2, <1>6, SMTT(30) DEF DumpInv, DumpType, CrashRow, EventRow, UploadState, StackwalkState, insertNativeCrash,
    UpAt, UpGo, UpSet, OneUpload, Uploading, UploadsInOrder, Staging, Repeating, Staged, HasWork, RowsMatch,
    Verdict
<1>7. ASSUME ~ncCrossed' PROVE AcceptedIsInHand'
  BY <1>2, <1>7 DEF DumpInv, DumpType, CrashRow, EventRow, UploadState, StackwalkState, insertNativeCrash,
    UpAt, UpGo, UpSet, OneUpload, Uploading, UploadsInOrder, Staging, Repeating, Staged, HasWork, RowsMatch,
    Verdict, AcceptedIsInHand, DumpSettled, InProgress
<1> QED
  BY <1>1, <1>3, <1>4, <1>5, <1>6, <1>7, Zenon DEF DumpInv

\* Seen whole, the crash has its dump and its event.
LEMMA GetByEventIDKeepsDump ==
  ASSUME NEW u \in Uploads, DumpInv, GetByEventID(u) PROVE DumpInv'
<1>1. DumpType'
  BY DEF DumpInv, DumpType, CrashRow, EventRow, UploadState, StackwalkState, GetByEventID, UpAt, UpGo,
    UpSet, HalfStaged, Uploading
<1>2. ASSUME ~ncCrossed' PROVE ~ncCrossed /\ OneUpload /\ UploadsInOrder /\ RowsMatch /\ Verdict /\
  AcceptedIsInHand
  BY <1>2, Zenon DEF DumpInv, DumpType, GetByEventID, UpAt, UpGo, UpSet, HalfStaged
<1>3. ASSUME ~ncCrossed' PROVE OneUpload'
  BY <1>2, <1>3 DEF DumpInv, DumpType, CrashRow, EventRow, UploadState, StackwalkState, GetByEventID, UpAt,
    UpGo, UpSet, HalfStaged, OneUpload, Uploading
<1>4. ASSUME ~ncCrossed' PROVE UploadsInOrder'
  <2>1. \A v \in Uploads \ {u} : ~Uploading(v) /\ ncUp'[v] = ncUp[v]
    BY <1>2, <1>4, Zenon DEF DumpInv, DumpType, GetByEventID, UpAt, UpSet, OneUpload, Uploading
  <2>2. ncRow.id # 0 /\ (ncRow.status # "completed" => Staged)
    BY <1>2, <1>4, Zenon DEF DumpInv, DumpType, GetByEventID, UpAt, HalfStaged, UploadsInOrder, Staging, Repeating,
                      Uploading, RowsMatch, Staged
  <2>3. ncUp'[u].pc \in {"accepted", "store", "count"} /\ ~ncUp'[u].new
    BY Zenon DEF DumpInv, DumpType, GetByEventID, UpSet
  <2>4. ncUp'[u].pc # "accepted" => ncRow.status # "completed" /\ (ncUp'[u].pc = "store" => ncRow.status =
    "failed")
    BY Zenon DEF DumpInv, DumpType, GetByEventID, UpSet
  <2>5. ncUp'[u].crash = ncRow.id /\ ncUp'[u].ev = ncRow.ev
    BY Zenon DEF DumpInv, DumpType, GetByEventID, UpSet
  <2>6. ncUp'[u].pc # "accepted" => Repeating(u)'
    BY <1>2, <1>4, <2>2, <2>3, <2>4, <2>5, Zenon DEF GetByEventID, Repeating, Staged, Verdict
  <2> QED
    BY <2>1, <2>3, <2>6, Zenon DEF UploadsInOrder, Uploading
<1>5. ASSUME ~ncCrossed' PROVE RowsMatch'
  BY <1>2, <1>5, Zenon DEF DumpInv, DumpType, CrashRow, EventRow, UploadState, StackwalkState, GetByEventID, UpAt,
    UpGo, UpSet, HalfStaged, OneUpload, Uploading, UploadsInOrder, Staging, Repeating, Staged, HasWork,
    RowsMatch, Verdict, NoCrash
<1>6. ASSUME ~ncCrossed' PROVE Verdict'
  BY <1>2, <1>6, Zenon DEF DumpInv, DumpType, CrashRow, EventRow, UploadState, StackwalkState, GetByEventID, UpAt,
    UpGo, UpSet, HalfStaged, OneUpload, Uploading, UploadsInOrder, Staging, Repeating, Staged, HasWork,
    RowsMatch, Verdict
<1>7. ASSUME ~ncCrossed' PROVE AcceptedIsInHand'
  BY <1>2, <1>7 DEF DumpInv, DumpType, CrashRow, EventRow, UploadState, StackwalkState, GetByEventID, UpAt,
    UpGo, UpSet, HalfStaged, OneUpload, Uploading, UploadsInOrder, Staging, Repeating, Staged, HasWork,
    RowsMatch, Verdict, AcceptedIsInHand, DumpSettled, InProgress
<1> QED
  BY <1>1, <1>3, <1>4, <1>5, <1>6, <1>7, Zenon DEF DumpInv

\* The dump is bound to the row of the upload.
LEMMA StoreRawMinidumpAttachmentKeepsDump ==
  ASSUME NEW u \in Uploads, DumpInv, storeRawMinidumpAttachment(u) PROVE DumpInv'
<1>1. DumpType'
  <2>1. ncRow' \in CrashRow
    BY Zenon DEF DumpInv, DumpType, CrashRow, EventRow, UploadState, StackwalkState, storeRawMinidumpAttachment,
      UpAt, UpGo, UpSet, Uploading
  <2>2. ncEvent' \in EventRow
    BY Zenon DEF DumpInv, DumpType, CrashRow, EventRow, UploadState, StackwalkState, storeRawMinidumpAttachment,
      UpAt, UpGo, UpSet, Uploading
  <2>3. ncJobs' \in [Uploads -> Nat]
    BY Zenon DEF DumpInv, DumpType, CrashRow, EventRow, UploadState, StackwalkState, storeRawMinidumpAttachment,
      UpAt, UpGo, UpSet, Uploading
  <2>4. ncWk' \in StackwalkState /\ (ncWk.pc = "idle" <=> ncWk.crash = 0)'
    BY Zenon DEF DumpInv, DumpType, CrashRow, EventRow, UploadState, StackwalkState, storeRawMinidumpAttachment,
      UpAt, UpGo, UpSet, Uploading
  <2>5. ncUp' \in [Uploads -> UploadState]
    BY DEF DumpInv, DumpType, CrashRow, EventRow, UploadState, StackwalkState, storeRawMinidumpAttachment,
      UpAt, UpGo, UpSet, Uploading
  <2>6. \A v \in Uploads : ncUp'[v].pc = "idle" => ~ncUp'[v].new
    BY DEF DumpInv, DumpType, UploadState, storeRawMinidumpAttachment, UpAt, UpGo, UpSet, Uploading
  <2>7. (ncBad \in BOOLEAN /\ ncCrossed \in BOOLEAN)'
    BY Zenon DEF DumpInv, DumpType, CrashRow, EventRow, UploadState, StackwalkState, storeRawMinidumpAttachment,
      UpAt, UpGo, UpSet, Uploading
  <2> QED
    BY <2>1, <2>2, <2>3, <2>4, <2>5, <2>6, <2>7, Zenon DEF DumpType
<1>2. ASSUME ~ncCrossed' PROVE ~ncCrossed /\ OneUpload /\ UploadsInOrder /\ RowsMatch /\ Verdict /\
  AcceptedIsInHand
  BY <1>2, Zenon DEF DumpInv, DumpType, storeRawMinidumpAttachment, UpAt, UpGo, UpSet
<1>3. ASSUME ~ncCrossed' PROVE OneUpload'
  BY <1>2, <1>3, Zenon DEF DumpInv, DumpType, CrashRow, EventRow, UploadState, StackwalkState,
    storeRawMinidumpAttachment, UpAt, UpGo, UpSet, OneUpload, Uploading
<1>4. ASSUME ~ncCrossed' PROVE UploadsInOrder'
  BY <1>2, <1>4 DEF DumpInv, DumpType, CrashRow, EventRow, UploadState, StackwalkState,
    storeRawMinidumpAttachment, UpAt, UpGo, UpSet, OneUpload, Uploading, UploadsInOrder, Staging, Repeating,
    Staged, HasWork, RowsMatch, Verdict
<1>5. ASSUME ~ncCrossed' PROVE RowsMatch'
  BY <1>2, <1>5 DEF DumpInv, DumpType, CrashRow, EventRow, UploadState, StackwalkState,
    storeRawMinidumpAttachment, UpAt, UpGo, UpSet, OneUpload, Uploading, UploadsInOrder, Staging, Repeating,
    Staged, HasWork, RowsMatch, Verdict, NoCrash
<1>6. ASSUME ~ncCrossed' PROVE Verdict'
  BY <1>2, <1>6 DEF DumpInv, DumpType, CrashRow, EventRow, UploadState, StackwalkState,
    storeRawMinidumpAttachment, UpAt, UpGo, UpSet, OneUpload, Uploading, UploadsInOrder, Staging, Repeating,
    Staged, HasWork, RowsMatch, Verdict
<1>7. ASSUME ~ncCrossed' PROVE AcceptedIsInHand'
  BY <1>2, <1>7, SMTT(30) DEF DumpInv, DumpType, CrashRow, EventRow, UploadState, StackwalkState,
    storeRawMinidumpAttachment, UpAt, UpGo, UpSet, OneUpload, Uploading, UploadsInOrder, Staging, Repeating,
    Staged, HasWork, RowsMatch, Verdict, AcceptedIsInHand, DumpSettled, InProgress
<1> QED
  BY <1>1, <1>3, <1>4, <1>5, <1>6, <1>7, Zenon DEF DumpInv

\* The event is the crash's own, or there is none yet.
LEMMA SavePendingNativeEventKeepsDump ==
  ASSUME NEW u \in Uploads, DumpInv, savePendingNativeEvent(u) PROVE DumpInv'
<1>1. DumpType'
  <2>1. ncRow' \in CrashRow
    BY FreshRows, Zenon DEF DumpInv, DumpType, savePendingNativeEvent, Refuse
  <2>2. ncEvent' \in EventRow
    <3>1. ncUp[u].ev \in Uploads \cup {0}
      BY Zenon DEF DumpInv, DumpType, UploadState
    <3> QED
      BY <3>1, FreshRows, Zenon DEF DumpInv, DumpType, savePendingNativeEvent, Refuse
  <2>3. ncJobs' \in [Uploads -> Nat]
    BY Zenon DEF DumpInv, DumpType, CrashRow, EventRow, UploadState, StackwalkState, savePendingNativeEvent, UpAt,
      UpGo, UpSet, Refuse, NoCrash, NoEventRow, Uploading
  <2>4. ncWk' \in StackwalkState /\ (ncWk.pc = "idle" <=> ncWk.crash = 0)'
    BY Zenon DEF DumpInv, DumpType, CrashRow, EventRow, UploadState, StackwalkState, savePendingNativeEvent, UpAt,
      UpGo, UpSet, Refuse, NoCrash, NoEventRow, Uploading
  <2>5. ncUp' \in [Uploads -> UploadState]
    BY DEF DumpInv, DumpType, CrashRow, EventRow, UploadState, StackwalkState, savePendingNativeEvent, UpAt,
      UpGo, UpSet, Refuse, NoCrash, NoEventRow, Uploading
  <2>6. \A v \in Uploads : ncUp'[v].pc = "idle" => ~ncUp'[v].new
    BY DEF DumpInv, DumpType, UploadState, savePendingNativeEvent, Refuse, UpAt, UpGo, UpSet, Uploading
  <2>7. (ncBad \in BOOLEAN /\ ncCrossed \in BOOLEAN)'
    BY Zenon DEF DumpInv, DumpType, CrashRow, EventRow, UploadState, StackwalkState, savePendingNativeEvent, UpAt,
      UpGo, UpSet, Refuse, NoCrash, NoEventRow, Uploading
  <2> QED
    BY <2>1, <2>2, <2>3, <2>4, <2>5, <2>6, <2>7, Zenon DEF DumpType
<1>2. ASSUME ~ncCrossed' PROVE ~ncCrossed /\ OneUpload /\ UploadsInOrder /\ RowsMatch /\ Verdict /\
  AcceptedIsInHand
  BY <1>2, Zenon DEF DumpInv, DumpType, savePendingNativeEvent, UpAt, UpGo, UpSet, Refuse, NoCrash, NoEventRow
<1>3. ASSUME ~ncCrossed' PROVE OneUpload'
  BY <1>2, <1>3, SMTT(30) DEF DumpInv, DumpType, CrashRow, EventRow, UploadState, StackwalkState,
    savePendingNativeEvent, UpAt, UpGo, UpSet, Refuse, NoCrash, NoEventRow, OneUpload, Uploading
<1>4. ASSUME ~ncCrossed' PROVE UploadsInOrder'
  BY <1>2, <1>4, SMTT(30) DEF DumpInv, DumpType, CrashRow, EventRow, UploadState, StackwalkState,
    savePendingNativeEvent, UpAt, UpGo, UpSet, Refuse, NoCrash, NoEventRow, OneUpload, Uploading,
    UploadsInOrder, Staging, Repeating, Staged, HasWork, RowsMatch, Verdict
<1>5. ASSUME ~ncCrossed' PROVE RowsMatch'
  BY <1>2, <1>5, SMTT(30) DEF DumpInv, DumpType, CrashRow, EventRow, UploadState, StackwalkState,
    savePendingNativeEvent, UpAt, UpGo, UpSet, Refuse, NoCrash, NoEventRow, OneUpload, Uploading,
    UploadsInOrder, Staging, Repeating, Staged, HasWork, RowsMatch, Verdict, NoCrash
<1>6. ASSUME ~ncCrossed' PROVE Verdict'
  BY <1>2, <1>6, SMTT(30) DEF DumpInv, DumpType, CrashRow, EventRow, UploadState, StackwalkState,
    savePendingNativeEvent, UpAt, UpGo, UpSet, Refuse, NoCrash, NoEventRow, OneUpload, Uploading,
    UploadsInOrder, Staging, Repeating, Staged, HasWork, RowsMatch, Verdict
<1>7. ASSUME ~ncCrossed' PROVE AcceptedIsInHand'
  BY <1>2, <1>7 DEF DumpInv, DumpType, CrashRow, EventRow, UploadState, StackwalkState,
    savePendingNativeEvent, UpAt, UpGo, UpSet, Refuse, NoCrash, NoEventRow, OneUpload, Uploading,
    UploadsInOrder, Staging, Repeating, Staged, HasWork, RowsMatch, Verdict, AcceptedIsInHand, DumpSettled,
    InProgress
<1> QED
  BY <1>1, <1>3, <1>4, <1>5, <1>6, <1>7 DEF DumpInv

\* Now the row has its dump and its event.
LEMMA BindNativeCrashEventKeepsDump ==
  ASSUME NEW u \in Uploads, DumpInv, bindNativeCrashEvent(u) PROVE DumpInv'
<1>1. DumpType'
  BY DEF DumpInv, DumpType, CrashRow, EventRow, UploadState, StackwalkState, bindNativeCrashEvent, UpAt,
    UpGo, UpSet, Uploading
<1>2. ASSUME ~ncCrossed' PROVE ~ncCrossed /\ OneUpload /\ UploadsInOrder /\ RowsMatch /\ Verdict /\
  AcceptedIsInHand
  BY <1>2, Zenon DEF DumpInv, DumpType, bindNativeCrashEvent, UpAt, UpGo, UpSet
<1>3. ASSUME ~ncCrossed' PROVE OneUpload'
  BY <1>2, <1>3, SMTT(30) DEF DumpInv, DumpType, CrashRow, EventRow, UploadState, StackwalkState,
    bindNativeCrashEvent, UpAt, UpGo, UpSet, OneUpload, Uploading
<1>4. ASSUME ~ncCrossed' PROVE UploadsInOrder'
  BY <1>2, <1>4, SMTT(30) DEF DumpInv, DumpType, CrashRow, EventRow, UploadState, StackwalkState,
    bindNativeCrashEvent, UpAt, UpGo, UpSet, OneUpload, Uploading, UploadsInOrder, Staging, Repeating, Staged,
    HasWork, RowsMatch, Verdict
<1>5. ASSUME ~ncCrossed' PROVE RowsMatch'
  BY <1>2, <1>5 DEF DumpInv, DumpType, CrashRow, EventRow, UploadState, StackwalkState,
    bindNativeCrashEvent, UpAt, UpGo, UpSet, OneUpload, Uploading, UploadsInOrder, Staging, Repeating, Staged,
    HasWork, RowsMatch, Verdict, NoCrash
<1>6. ASSUME ~ncCrossed' PROVE Verdict'
  BY <1>2, <1>6 DEF DumpInv, DumpType, CrashRow, EventRow, UploadState, StackwalkState,
    bindNativeCrashEvent, UpAt, UpGo, UpSet, OneUpload, Uploading, UploadsInOrder, Staging, Repeating, Staged,
    HasWork, RowsMatch, Verdict
<1>7. ASSUME ~ncCrossed' PROVE AcceptedIsInHand'
  BY <1>2, <1>7 DEF DumpInv, DumpType, CrashRow, EventRow, UploadState, StackwalkState,
    bindNativeCrashEvent, UpAt, UpGo, UpSet, OneUpload, Uploading, UploadsInOrder, Staging, Repeating, Staged,
    HasWork, RowsMatch, Verdict, AcceptedIsInHand, DumpSettled, InProgress
<1> QED
  BY <1>1, <1>3, <1>4, <1>5, <1>6, <1>7, Zenon DEF DumpInv

\* Only a malformed dump goes back from failed to pending.
LEMMA RestageNativeCrashKeepsDump ==
  ASSUME NEW u \in Uploads, DumpInv, restageNativeCrash(u) PROVE DumpInv'
<1>1. DumpType'
  BY DEF DumpInv, DumpType, CrashRow, EventRow, UploadState, StackwalkState, restageNativeCrash, UpAt, UpGo,
    UpSet, Transition, Uploading
<1>2. ASSUME ~ncCrossed' PROVE ~ncCrossed /\ OneUpload /\ UploadsInOrder /\ RowsMatch /\ Verdict /\
  AcceptedIsInHand
  BY <1>2, Zenon DEF DumpInv, DumpType, restageNativeCrash, UpAt, UpGo, UpSet, Transition
<1>3. ASSUME ~ncCrossed' PROVE OneUpload'
  BY <1>2, <1>3, SMTT(30) DEF DumpInv, DumpType, CrashRow, EventRow, UploadState, StackwalkState, restageNativeCrash,
    UpAt, UpGo, UpSet, Transition, OneUpload, Uploading
<1>4. ASSUME ~ncCrossed' PROVE UploadsInOrder'
  BY <1>2, <1>4, SMTT(30) DEF DumpInv, DumpType, CrashRow, EventRow, UploadState, StackwalkState, restageNativeCrash,
    UpAt, UpGo, UpSet, Transition, OneUpload, Uploading, UploadsInOrder, Staging, Repeating, Staged, HasWork,
    RowsMatch, Verdict
<1>5. ASSUME ~ncCrossed' PROVE RowsMatch'
  BY <1>2, <1>5, SMTT(30) DEF DumpInv, DumpType, CrashRow, EventRow, UploadState, StackwalkState, restageNativeCrash,
    UpAt, UpGo, UpSet, Transition, OneUpload, Uploading, UploadsInOrder, Staging, Repeating, Staged, HasWork,
    RowsMatch, Verdict, NoCrash
<1>6. ASSUME ~ncCrossed' PROVE Verdict'
  BY <1>2, <1>6, SMTT(30) DEF DumpInv, DumpType, CrashRow, EventRow, UploadState, StackwalkState, restageNativeCrash,
    UpAt, UpGo, UpSet, Transition, OneUpload, Uploading, UploadsInOrder, Staging, Repeating, Staged, HasWork,
    RowsMatch, Verdict
<1>7. ASSUME ~ncCrossed' PROVE AcceptedIsInHand'
  BY <1>2, <1>7, SMTT(30) DEF DumpInv, DumpType, CrashRow, EventRow, UploadState, StackwalkState, restageNativeCrash,
    UpAt, UpGo, UpSet, Transition, OneUpload, Uploading, UploadsInOrder, Staging, Repeating, Staged, HasWork,
    RowsMatch, Verdict, AcceptedIsInHand, DumpSettled, InProgress
<1> QED
  BY <1>1, <1>3, <1>4, <1>5, <1>6, <1>7, Zenon DEF DumpInv

\* An upload that counts on a job finds it before it settles the crash.
LEMMA EnsureNativeStackwalkJobKeepsDump ==
  ASSUME NEW u \in Uploads, DumpInv, ensureNativeStackwalkJob(u) PROVE DumpInv'
<1>1. DumpType'
  BY DEF DumpInv, DumpType, CrashRow, EventRow, UploadState, StackwalkState, ensureNativeStackwalkJob, UpAt,
    UpGo, UpSet, Uploading
<1>2. ASSUME ~ncCrossed' PROVE ~ncCrossed /\ OneUpload /\ UploadsInOrder /\ RowsMatch /\ Verdict /\
  AcceptedIsInHand
  BY <1>2, Zenon DEF DumpInv, DumpType, ensureNativeStackwalkJob, UpAt, UpGo, UpSet
<1>3. ASSUME ~ncCrossed' PROVE OneUpload'
  BY <1>2, <1>3, SMTT(30) DEF DumpInv, DumpType, CrashRow, EventRow, UploadState, StackwalkState,
    ensureNativeStackwalkJob, UpAt, UpGo, UpSet, OneUpload, Uploading
<1>4. ASSUME ~ncCrossed' PROVE UploadsInOrder'
  BY <1>2, <1>4, SMTT(30) DEF DumpInv, DumpType, CrashRow, EventRow, UploadState, StackwalkState,
    ensureNativeStackwalkJob, UpAt, UpGo, UpSet, OneUpload, Uploading, UploadsInOrder, Staging, Repeating,
    Staged, HasWork, RowsMatch, Verdict
<1>5. ASSUME ~ncCrossed' PROVE RowsMatch'
  BY <1>2, <1>5, SMTT(30) DEF DumpInv, DumpType, CrashRow, EventRow, UploadState, StackwalkState,
    ensureNativeStackwalkJob, UpAt, UpGo, UpSet, OneUpload, Uploading, UploadsInOrder, Staging, Repeating,
    Staged, HasWork, RowsMatch, Verdict, NoCrash
<1>6. ASSUME ~ncCrossed' PROVE Verdict'
  BY <1>2, <1>6, SMTT(30) DEF DumpInv, DumpType, CrashRow, EventRow, UploadState, StackwalkState,
    ensureNativeStackwalkJob, UpAt, UpGo, UpSet, OneUpload, Uploading, UploadsInOrder, Staging, Repeating,
    Staged, HasWork, RowsMatch, Verdict
<1>7. ASSUME ~ncCrossed' PROVE AcceptedIsInHand'
  BY <1>2, <1>7, SMTT(30) DEF DumpInv, DumpType, CrashRow, EventRow, UploadState, StackwalkState,
    ensureNativeStackwalkJob, UpAt, UpGo, UpSet, OneUpload, Uploading, UploadsInOrder, Staging, Repeating,
    Staged, HasWork, RowsMatch, Verdict, AcceptedIsInHand, DumpSettled, InProgress
<1> QED
  BY <1>1, <1>3, <1>4, <1>5, <1>6, <1>7, Zenon DEF DumpInv

\* The job is in the queue.
LEMMA EnqueueKeepsDump ==
  ASSUME NEW u \in Uploads, DumpInv, Enqueue(u) PROVE DumpInv'
<1>1. DumpType'
  <2>1. ncRow' \in CrashRow
    BY Zenon DEF DumpInv, DumpType, CrashRow, EventRow, UploadState, StackwalkState, Enqueue, UpAt, UpGo, UpSet,
      Uploading
  <2>2. ncEvent' \in EventRow
    BY Zenon DEF DumpInv, DumpType, CrashRow, EventRow, UploadState, StackwalkState, Enqueue, UpAt, UpGo, UpSet,
      Uploading
  <2>3. ncJobs' \in [Uploads -> Nat]
    BY OneMoreJob, Zenon DEF DumpInv, DumpType, Enqueue
  <2>4. ncWk' \in StackwalkState /\ (ncWk.pc = "idle" <=> ncWk.crash = 0)'
    BY Zenon DEF DumpInv, DumpType, CrashRow, EventRow, UploadState, StackwalkState, Enqueue, UpAt, UpGo, UpSet,
      Uploading
  <2>5. ncUp' \in [Uploads -> UploadState]
    BY DEF DumpInv, DumpType, CrashRow, EventRow, UploadState, StackwalkState, Enqueue, UpAt, UpGo, UpSet,
      Uploading
  <2>6. \A v \in Uploads : ncUp'[v].pc = "idle" => ~ncUp'[v].new
    BY DEF DumpInv, DumpType, UploadState, Enqueue, UpAt, UpGo, UpSet, Uploading
  <2>7. (ncBad \in BOOLEAN /\ ncCrossed \in BOOLEAN)'
    BY Zenon DEF DumpInv, DumpType, CrashRow, EventRow, UploadState, StackwalkState, Enqueue, UpAt, UpGo, UpSet,
      Uploading
  <2> QED
    BY <2>1, <2>2, <2>3, <2>4, <2>5, <2>6, <2>7, Zenon DEF DumpType
<1>2. ASSUME ~ncCrossed' PROVE ~ncCrossed /\ OneUpload /\ UploadsInOrder /\ RowsMatch /\ Verdict /\
  AcceptedIsInHand
  BY <1>2, Zenon DEF DumpInv, DumpType, Enqueue, UpAt, UpGo, UpSet
<1>3. ASSUME ~ncCrossed' PROVE OneUpload'
  BY <1>2, <1>3, SMTT(30) DEF DumpInv, DumpType, CrashRow, EventRow, UploadState, StackwalkState, Enqueue, UpAt, UpGo,
    UpSet, OneUpload, Uploading
<1>4. ASSUME ~ncCrossed' PROVE UploadsInOrder'
  BY <1>2, <1>4, SMTT(30) DEF DumpInv, DumpType, CrashRow, EventRow, UploadState, StackwalkState, Enqueue, UpAt, UpGo,
    UpSet, OneUpload, Uploading, UploadsInOrder, Staging, Repeating, Staged, HasWork, RowsMatch, Verdict
<1>5. ASSUME ~ncCrossed' PROVE RowsMatch'
  BY <1>2, <1>5, SMTT(30) DEF DumpInv, DumpType, CrashRow, EventRow, UploadState, StackwalkState, Enqueue, UpAt, UpGo,
    UpSet, OneUpload, Uploading, UploadsInOrder, Staging, Repeating, Staged, HasWork, RowsMatch, Verdict,
    NoCrash
<1>6. ASSUME ~ncCrossed' PROVE Verdict'
  BY <1>2, <1>6, SMTT(30) DEF DumpInv, DumpType, CrashRow, EventRow, UploadState, StackwalkState, Enqueue, UpAt, UpGo,
    UpSet, OneUpload, Uploading, UploadsInOrder, Staging, Repeating, Staged, HasWork, RowsMatch, Verdict
<1>7. ASSUME ~ncCrossed' PROVE AcceptedIsInHand'
  BY <1>2, <1>7, SMTT(30) DEF DumpInv, DumpType, CrashRow, EventRow, UploadState, StackwalkState, Enqueue, UpAt, UpGo,
    UpSet, OneUpload, Uploading, UploadsInOrder, Staging, Repeating, Staged, HasWork, RowsMatch, Verdict,
    AcceptedIsInHand, DumpSettled, InProgress
<1> QED
  BY <1>1, <1>3, <1>4, <1>5, <1>6, <1>7, Zenon DEF DumpInv

\* The upload that inserted the crash takes it back.
LEMMA UploadFailsKeepsDump ==
  ASSUME NEW u \in Uploads, DumpInv, UploadFails(u) PROVE DumpInv'
<1>1. DumpType'
  <2>1. ncRow' \in CrashRow
    BY FreshRows, Zenon DEF DumpInv, DumpType, UploadFails, Refuse
  <2>2. ncEvent' \in EventRow
    BY FreshRows, Zenon DEF DumpInv, DumpType, UploadFails, Refuse
  <2>3. ncJobs' \in [Uploads -> Nat]
    BY Zenon DEF DumpInv, DumpType, CrashRow, EventRow, UploadState, StackwalkState, UploadFails, UpAt, UpGo,
      UpSet, Refuse, NoCrash, NoEventRow, Fault, Uploading
  <2>4. ncWk' \in StackwalkState /\ (ncWk.pc = "idle" <=> ncWk.crash = 0)'
    BY Zenon DEF DumpInv, DumpType, CrashRow, EventRow, UploadState, StackwalkState, UploadFails, UpAt, UpGo,
      UpSet, Refuse, NoCrash, NoEventRow, Fault, Uploading
  <2>5. ncUp' \in [Uploads -> UploadState]
    BY DEF DumpInv, DumpType, CrashRow, EventRow, UploadState, StackwalkState, UploadFails, UpAt, UpGo,
      UpSet, Refuse, NoCrash, NoEventRow, Fault, Uploading
  <2>6. \A v \in Uploads : ncUp'[v].pc = "idle" => ~ncUp'[v].new
    BY Zenon DEF DumpInv, DumpType, UploadState, UploadFails, Refuse, UpAt, UpGo, UpSet, Uploading
  <2>7. (ncBad \in BOOLEAN /\ ncCrossed \in BOOLEAN)'
    BY Zenon DEF DumpInv, DumpType, CrashRow, EventRow, UploadState, StackwalkState, UploadFails, UpAt, UpGo,
      UpSet, Refuse, NoCrash, NoEventRow, Fault, Uploading
  <2> QED
    BY <2>1, <2>2, <2>3, <2>4, <2>5, <2>6, <2>7, Zenon DEF DumpType
<1>2. ASSUME ~ncCrossed' PROVE ~ncCrossed /\ OneUpload /\ UploadsInOrder /\ RowsMatch /\ Verdict /\
  AcceptedIsInHand
  BY <1>2, Zenon DEF DumpInv, DumpType, UploadFails, UpAt, UpGo, UpSet, Refuse, NoCrash, NoEventRow, Fault
<1>3. ASSUME ~ncCrossed' PROVE OneUpload'
  BY <1>2, <1>3, SMTT(30) DEF DumpInv, DumpType, CrashRow, EventRow, UploadState, StackwalkState, UploadFails, UpAt,
    UpGo, UpSet, Refuse, NoCrash, NoEventRow, Fault, OneUpload, Uploading
<1>4. ASSUME ~ncCrossed' PROVE UploadsInOrder'
  BY <1>2, <1>4, SMTT(30) DEF DumpInv, DumpType, CrashRow, EventRow, UploadState, StackwalkState, UploadFails, UpAt,
    UpGo, UpSet, Refuse, NoCrash, NoEventRow, Fault, OneUpload, Uploading, UploadsInOrder, Staging, Repeating,
    Staged, HasWork, RowsMatch, Verdict
<1>5. ASSUME ~ncCrossed' PROVE RowsMatch'
  BY <1>2, <1>5, SMTT(30) DEF DumpInv, DumpType, CrashRow, EventRow, UploadState, StackwalkState, UploadFails, UpAt,
    UpGo, UpSet, Refuse, NoCrash, NoEventRow, Fault, OneUpload, Uploading, UploadsInOrder, Staging, Repeating,
    Staged, HasWork, RowsMatch, Verdict, NoCrash
<1>6. ASSUME ~ncCrossed' PROVE Verdict'
  BY <1>2, <1>6, SMTT(30) DEF DumpInv, DumpType, CrashRow, EventRow, UploadState, StackwalkState, UploadFails, UpAt,
    UpGo, UpSet, Refuse, NoCrash, NoEventRow, Fault, OneUpload, Uploading, UploadsInOrder, Staging, Repeating,
    Staged, HasWork, RowsMatch, Verdict
<1>7. ASSUME ~ncCrossed' PROVE AcceptedIsInHand'
  BY <1>2, <1>7 DEF DumpInv, DumpType, CrashRow, EventRow, UploadState, StackwalkState, UploadFails, UpAt,
    UpGo, UpSet, Refuse, NoCrash, NoEventRow, Fault, OneUpload, Uploading, UploadsInOrder, Staging, Repeating,
    Staged, HasWork, RowsMatch, Verdict, AcceptedIsInHand, DumpSettled, InProgress
<1> QED
  BY <1>1, <1>3, <1>4, <1>5, <1>6, <1>7, Zenon DEF DumpInv

\* A crash leaves what is staged; the upload is not accepted.
LEMMA UploadCrashesKeepsDump ==
  ASSUME NEW u \in Uploads, DumpInv, UploadCrashes(u) PROVE DumpInv'
<1>1. DumpType'
  BY DEF DumpInv, DumpType, CrashRow, EventRow, UploadState, StackwalkState, UploadCrashes, UpAt, UpGo,
    UpSet, Fault, Uploading
<1>2. ASSUME ~ncCrossed' PROVE ~ncCrossed /\ OneUpload /\ UploadsInOrder /\ RowsMatch /\ Verdict /\
  AcceptedIsInHand
  BY <1>2, Zenon DEF DumpInv, DumpType, UploadCrashes, UpAt, UpGo, UpSet, Fault
<1>3. ASSUME ~ncCrossed' PROVE OneUpload'
  BY <1>2, <1>3, SMTT(30) DEF DumpInv, DumpType, CrashRow, EventRow, UploadState, StackwalkState, UploadCrashes, UpAt,
    UpGo, UpSet, Fault, OneUpload, Uploading
<1>4. ASSUME ~ncCrossed' PROVE UploadsInOrder'
  BY <1>2, <1>4, SMTT(30) DEF DumpInv, DumpType, CrashRow, EventRow, UploadState, StackwalkState, UploadCrashes, UpAt,
    UpGo, UpSet, Fault, OneUpload, Uploading, UploadsInOrder, Staging, Repeating, Staged, HasWork, RowsMatch,
    Verdict
<1>5. ASSUME ~ncCrossed' PROVE RowsMatch'
  BY <1>2, <1>5, SMTT(30) DEF DumpInv, DumpType, CrashRow, EventRow, UploadState, StackwalkState, UploadCrashes, UpAt,
    UpGo, UpSet, Fault, OneUpload, Uploading, UploadsInOrder, Staging, Repeating, Staged, HasWork, RowsMatch,
    Verdict, NoCrash
<1>6. ASSUME ~ncCrossed' PROVE Verdict'
  BY <1>2, <1>6, SMTT(30) DEF DumpInv, DumpType, CrashRow, EventRow, UploadState, StackwalkState, UploadCrashes, UpAt,
    UpGo, UpSet, Fault, OneUpload, Uploading, UploadsInOrder, Staging, Repeating, Staged, HasWork, RowsMatch,
    Verdict
<1>7. ASSUME ~ncCrossed' PROVE AcceptedIsInHand'
  BY <1>2, <1>7 DEF DumpInv, DumpType, CrashRow, EventRow, UploadState, StackwalkState, UploadCrashes, UpAt,
    UpGo, UpSet, Fault, OneUpload, Uploading, UploadsInOrder, Staging, Repeating, Staged, HasWork, RowsMatch,
    Verdict, AcceptedIsInHand, DumpSettled, InProgress
<1> QED
  BY <1>1, <1>3, <1>4, <1>5, <1>6, <1>7, Zenon DEF DumpInv

\* The worker reads a crash that is staged.
LEMMA ClaimNextKeepsDump ==
  ASSUME NEW c \in Uploads, DumpInv, ClaimNext(c) PROVE DumpInv'
<1>1. DumpType'
  BY DEF DumpInv, DumpType, CrashRow, EventRow, UploadState, StackwalkState, ClaimNext, Uploading
<1>2. ASSUME ~ncCrossed' PROVE ~ncCrossed /\ OneUpload /\ UploadsInOrder /\ RowsMatch /\ Verdict /\
  AcceptedIsInHand
  BY <1>2, Zenon DEF DumpInv, DumpType, ClaimNext
<1>3. ASSUME ~ncCrossed' PROVE OneUpload'
  BY <1>2, <1>3, SMTT(30) DEF DumpInv, DumpType, CrashRow, EventRow, UploadState, StackwalkState, ClaimNext,
    OneUpload, Uploading
<1>4. ASSUME ~ncCrossed' PROVE UploadsInOrder'
  BY <1>2, <1>4, SMTT(30) DEF DumpInv, DumpType, CrashRow, EventRow, UploadState, StackwalkState, ClaimNext,
    OneUpload, Uploading, UploadsInOrder, Staging, Repeating, Staged, HasWork, RowsMatch, Verdict
<1>5. ASSUME ~ncCrossed' PROVE RowsMatch'
  BY <1>2, <1>5, SMTT(30) DEF DumpInv, DumpType, CrashRow, EventRow, UploadState, StackwalkState, ClaimNext,
    OneUpload, Uploading, UploadsInOrder, Staging, Repeating, Staged, HasWork, RowsMatch, Verdict, NoCrash
<1>6. ASSUME ~ncCrossed' PROVE Verdict'
  BY <1>2, <1>6, SMTT(30) DEF DumpInv, DumpType, CrashRow, EventRow, UploadState, StackwalkState, ClaimNext,
    OneUpload, Uploading, UploadsInOrder, Staging, Repeating, Staged, HasWork, RowsMatch, Verdict
<1>7. ASSUME ~ncCrossed' PROVE AcceptedIsInHand'
  BY <1>2, <1>7, Zenon DEF DumpInv, DumpType, CrashRow, EventRow, UploadState, StackwalkState, ClaimNext,
    OneUpload, Uploading, UploadsInOrder, Staging, Repeating, Staged, HasWork, RowsMatch, Verdict,
    AcceptedIsInHand, DumpSettled, InProgress
<1> QED
  BY <1>1, <1>3, <1>4, <1>5, <1>6, <1>7, Zenon DEF DumpInv

\* An event completed by an earlier attempt is complete.
LEMMA GetEventByRowIDKeepsDump ==
  ASSUME DumpInv, GetEventByRowID PROVE DumpInv'
<1>1. DumpType'
  BY DEF DumpInv, DumpType, CrashRow, EventRow, UploadState, StackwalkState, GetEventByRowID, WkGo, Uploading
<1>2. ASSUME ~ncCrossed' PROVE ~ncCrossed /\ OneUpload /\ UploadsInOrder /\ RowsMatch /\ Verdict /\
  AcceptedIsInHand
  BY <1>2, Zenon DEF DumpInv, DumpType, GetEventByRowID, WkGo
<1>3. ASSUME ~ncCrossed' PROVE OneUpload'
  BY <1>2, <1>3, Zenon DEF DumpInv, DumpType, CrashRow, EventRow, UploadState, StackwalkState, GetEventByRowID,
    WkGo, OneUpload, Uploading
<1>4. ASSUME ~ncCrossed' PROVE UploadsInOrder'
  BY <1>2, <1>4, SMTT(30) DEF DumpInv, DumpType, CrashRow, EventRow, UploadState, StackwalkState, GetEventByRowID,
    WkGo, OneUpload, Uploading, UploadsInOrder, Staging, Repeating, Staged, HasWork, RowsMatch, Verdict
<1>5. ASSUME ~ncCrossed' PROVE RowsMatch'
  BY <1>2, <1>5, Zenon DEF DumpInv, DumpType, CrashRow, EventRow, UploadState, StackwalkState, GetEventByRowID,
    WkGo, OneUpload, Uploading, UploadsInOrder, Staging, Repeating, Staged, HasWork, RowsMatch, Verdict,
    NoCrash
<1>6. ASSUME ~ncCrossed' PROVE Verdict'
  BY <1>2, <1>6, SMTT(30) DEF DumpInv, DumpType, CrashRow, EventRow, UploadState, StackwalkState, GetEventByRowID,
    WkGo, OneUpload, Uploading, UploadsInOrder, Staging, Repeating, Staged, HasWork, RowsMatch, Verdict
<1>7. ASSUME ~ncCrossed' PROVE AcceptedIsInHand'
  BY <1>2, <1>7, Zenon DEF DumpInv, DumpType, CrashRow, EventRow, UploadState, StackwalkState, GetEventByRowID,
    WkGo, OneUpload, Uploading, UploadsInOrder, Staging, Repeating, Staged, HasWork, RowsMatch, Verdict,
    AcceptedIsInHand, DumpSettled, InProgress
<1> QED
  BY <1>1, <1>3, <1>4, <1>5, <1>6, <1>7, Zenon DEF DumpInv

\* A dump that is not malformed is processed.
LEMMA MarkNativeCrashProcessingKeepsDump ==
  ASSUME DumpInv, markNativeCrashProcessing PROVE DumpInv'
<1>1. DumpType'
  BY Zenon DEF DumpInv, DumpType, CrashRow, EventRow, UploadState, StackwalkState, markNativeCrashProcessing,
    Transition, WkGo, Uploading
<1>2. ASSUME ~ncCrossed' PROVE ~ncCrossed /\ OneUpload /\ UploadsInOrder /\ RowsMatch /\ Verdict /\
  AcceptedIsInHand
  BY <1>2, Zenon DEF DumpInv, DumpType, markNativeCrashProcessing, Transition, WkGo
<1>3. ASSUME ~ncCrossed' PROVE OneUpload'
  BY <1>2, <1>3, SMTT(30) DEF DumpInv, DumpType, CrashRow, EventRow, UploadState, StackwalkState,
    markNativeCrashProcessing, Transition, WkGo, OneUpload, Uploading
<1>4. ASSUME ~ncCrossed' PROVE UploadsInOrder'
  BY <1>2, <1>4, SMTT(30) DEF DumpInv, DumpType, CrashRow, EventRow, UploadState, StackwalkState,
    markNativeCrashProcessing, Transition, WkGo, OneUpload, Uploading, UploadsInOrder, Staging, Repeating,
    Staged, HasWork, RowsMatch, Verdict
<1>5. ASSUME ~ncCrossed' PROVE RowsMatch'
  BY <1>2, <1>5, SMTT(30) DEF DumpInv, DumpType, CrashRow, EventRow, UploadState, StackwalkState,
    markNativeCrashProcessing, Transition, WkGo, OneUpload, Uploading, UploadsInOrder, Staging, Repeating,
    Staged, HasWork, RowsMatch, Verdict, NoCrash
<1>6. ASSUME ~ncCrossed' PROVE Verdict'
  BY <1>2, <1>6, SMTT(30) DEF DumpInv, DumpType, CrashRow, EventRow, UploadState, StackwalkState,
    markNativeCrashProcessing, Transition, WkGo, OneUpload, Uploading, UploadsInOrder, Staging, Repeating,
    Staged, HasWork, RowsMatch, Verdict
<1>7. ASSUME ~ncCrossed' PROVE AcceptedIsInHand'
  BY <1>2, <1>7, Zenon DEF DumpInv, DumpType, CrashRow, EventRow, UploadState, StackwalkState,
    markNativeCrashProcessing, Transition, WkGo, OneUpload, Uploading, UploadsInOrder, Staging, Repeating,
    Staged, HasWork, RowsMatch, Verdict, AcceptedIsInHand, DumpSettled, InProgress
<1> QED
  BY <1>1, <1>3, <1>4, <1>5, <1>6, <1>7, Zenon DEF DumpInv

\* Only a malformed dump is failed.
LEMMA FailNativeCrashPermanentKeepsDump ==
  ASSUME DumpInv, failNativeCrashPermanent PROVE DumpInv'
<1>1. DumpType'
  BY Zenon DEF DumpInv, DumpType, CrashRow, EventRow, UploadState, StackwalkState, failNativeCrashPermanent,
    Transition, WkGo, Uploading
<1>2. ASSUME ~ncCrossed' PROVE ~ncCrossed /\ OneUpload /\ UploadsInOrder /\ RowsMatch /\ Verdict /\
  AcceptedIsInHand
  BY <1>2, Zenon DEF DumpInv, DumpType, failNativeCrashPermanent, Transition, WkGo
<1>3. ASSUME ~ncCrossed' PROVE OneUpload'
  BY <1>2, <1>3, SMTT(30) DEF DumpInv, DumpType, CrashRow, EventRow, UploadState, StackwalkState,
    failNativeCrashPermanent, Transition, WkGo, OneUpload, Uploading
<1>4. ASSUME ~ncCrossed' PROVE UploadsInOrder'
  BY <1>2, <1>4, SMTT(30) DEF DumpInv, DumpType, CrashRow, EventRow, UploadState, StackwalkState,
    failNativeCrashPermanent, Transition, WkGo, OneUpload, Uploading, UploadsInOrder, Staging, Repeating,
    Staged, HasWork, RowsMatch, Verdict
<1>5. ASSUME ~ncCrossed' PROVE RowsMatch'
  BY <1>2, <1>5, SMTT(30) DEF DumpInv, DumpType, CrashRow, EventRow, UploadState, StackwalkState,
    failNativeCrashPermanent, Transition, WkGo, OneUpload, Uploading, UploadsInOrder, Staging, Repeating,
    Staged, HasWork, RowsMatch, Verdict, NoCrash
<1>6. ASSUME ~ncCrossed' PROVE Verdict'
  BY <1>2, <1>6, SMTT(30) DEF DumpInv, DumpType, CrashRow, EventRow, UploadState, StackwalkState,
    failNativeCrashPermanent, Transition, WkGo, OneUpload, Uploading, UploadsInOrder, Staging, Repeating,
    Staged, HasWork, RowsMatch, Verdict
<1>7. ASSUME ~ncCrossed' PROVE AcceptedIsInHand'
  BY <1>2, <1>7, Zenon DEF DumpInv, DumpType, CrashRow, EventRow, UploadState, StackwalkState,
    failNativeCrashPermanent, Transition, WkGo, OneUpload, Uploading, UploadsInOrder, Staging, Repeating,
    Staged, HasWork, RowsMatch, Verdict, AcceptedIsInHand, DumpSettled, InProgress
<1> QED
  BY <1>1, <1>3, <1>4, <1>5, <1>6, <1>7, Zenon DEF DumpInv

\* The event is the crash's own: the upsert succeeds.
LEMMA ProcessExistingKeepsDump ==
  ASSUME DumpInv, ProcessExisting PROVE DumpInv'
<1>1. DumpType'
  <2>1. ncRow' \in CrashRow
    BY Zenon DEF DumpInv, DumpType, CrashRow, EventRow, UploadState, StackwalkState, ProcessExisting, WkGo, Uploading
  <2>2. ncEvent' \in EventRow
    <3>1. ncWk.ev \in Uploads \cup {0}
      BY Zenon DEF DumpInv, DumpType, StackwalkState
    <3> QED
      BY <3>1, FreshRows, Zenon DEF DumpInv, DumpType, ProcessExisting
  <2>3. ncJobs' \in [Uploads -> Nat]
    BY Zenon DEF DumpInv, DumpType, CrashRow, EventRow, UploadState, StackwalkState, ProcessExisting, WkGo, Uploading
  <2>4. ncWk' \in StackwalkState /\ (ncWk.pc = "idle" <=> ncWk.crash = 0)'
    BY DEF DumpInv, DumpType, CrashRow, EventRow, UploadState, StackwalkState, ProcessExisting, WkGo, Uploading
  <2>5. ncUp' \in [Uploads -> UploadState]
    BY Zenon DEF DumpInv, DumpType, CrashRow, EventRow, UploadState, StackwalkState, ProcessExisting, WkGo, Uploading
  <2>6. \A v \in Uploads : ncUp'[v].pc = "idle" => ~ncUp'[v].new
    BY Zenon DEF DumpInv, DumpType, UploadState, ProcessExisting, UpAt, UpGo, UpSet, Uploading
  <2>7. (ncBad \in BOOLEAN /\ ncCrossed \in BOOLEAN)'
    BY Zenon DEF DumpInv, DumpType, CrashRow, EventRow, UploadState, StackwalkState, ProcessExisting, WkGo, Uploading
  <2> QED
    BY <2>1, <2>2, <2>3, <2>4, <2>5, <2>6, <2>7, Zenon DEF DumpType
<1>2. ASSUME ~ncCrossed' PROVE ~ncCrossed /\ OneUpload /\ UploadsInOrder /\ RowsMatch /\ Verdict /\
  AcceptedIsInHand
  BY <1>2, Zenon DEF DumpInv, DumpType, ProcessExisting, WkGo
<1>3. ASSUME ~ncCrossed' PROVE OneUpload'
  BY <1>2, <1>3, SMTT(30) DEF DumpInv, DumpType, CrashRow, EventRow, UploadState, StackwalkState, ProcessExisting,
    WkGo, OneUpload, Uploading
<1>4. ASSUME ~ncCrossed' PROVE UploadsInOrder'
  BY <1>2, <1>4, SMTT(30) DEF DumpInv, DumpType, CrashRow, EventRow, UploadState, StackwalkState, ProcessExisting,
    WkGo, OneUpload, Uploading, UploadsInOrder, Staging, Repeating, Staged, HasWork, RowsMatch, Verdict
<1>5. ASSUME ~ncCrossed' PROVE RowsMatch'
  BY <1>2, <1>5, SMTT(30) DEF DumpInv, DumpType, CrashRow, EventRow, UploadState, StackwalkState, ProcessExisting,
    WkGo, OneUpload, Uploading, UploadsInOrder, Staging, Repeating, Staged, HasWork, RowsMatch, Verdict,
    NoCrash
<1>6. ASSUME ~ncCrossed' PROVE Verdict'
  BY <1>2, <1>6, SMTT(30) DEF DumpInv, DumpType, CrashRow, EventRow, UploadState, StackwalkState, ProcessExisting,
    WkGo, OneUpload, Uploading, UploadsInOrder, Staging, Repeating, Staged, HasWork, RowsMatch, Verdict
<1>7. ASSUME ~ncCrossed' PROVE AcceptedIsInHand'
  BY <1>2, <1>7 DEF DumpInv, DumpType, CrashRow, EventRow, UploadState, StackwalkState, ProcessExisting,
    WkGo, OneUpload, Uploading, UploadsInOrder, Staging, Repeating, Staged, HasWork, RowsMatch, Verdict,
    AcceptedIsInHand, DumpSettled, InProgress
<1> QED
  BY <1>1, <1>3, <1>4, <1>5, <1>6, <1>7, Zenon DEF DumpInv

\* The event is complete before its crash is.
LEMMA MarkNativeCrashCompletedKeepsDump ==
  ASSUME DumpInv, markNativeCrashCompleted PROVE DumpInv'
<1>1. DumpType'
  BY Zenon DEF DumpInv, DumpType, CrashRow, EventRow, UploadState, StackwalkState, markNativeCrashCompleted,
    Transition, WkGo, Uploading
<1>2. ASSUME ~ncCrossed' PROVE ~ncCrossed /\ OneUpload /\ UploadsInOrder /\ RowsMatch /\ Verdict /\
  AcceptedIsInHand
  BY <1>2, Zenon DEF DumpInv, DumpType, markNativeCrashCompleted, Transition, WkGo
<1>3. ASSUME ~ncCrossed' PROVE OneUpload'
  BY <1>2, <1>3, SMTT(30) DEF DumpInv, DumpType, CrashRow, EventRow, UploadState, StackwalkState,
    markNativeCrashCompleted, Transition, WkGo, OneUpload, Uploading
<1>4. ASSUME ~ncCrossed' PROVE UploadsInOrder'
  BY <1>2, <1>4, SMTT(30) DEF DumpInv, DumpType, CrashRow, EventRow, UploadState, StackwalkState,
    markNativeCrashCompleted, Transition, WkGo, OneUpload, Uploading, UploadsInOrder, Staging, Repeating,
    Staged, HasWork, RowsMatch, Verdict
<1>5. ASSUME ~ncCrossed' PROVE RowsMatch'
  BY <1>2, <1>5, SMTT(30) DEF DumpInv, DumpType, CrashRow, EventRow, UploadState, StackwalkState,
    markNativeCrashCompleted, Transition, WkGo, OneUpload, Uploading, UploadsInOrder, Staging, Repeating,
    Staged, HasWork, RowsMatch, Verdict, NoCrash
<1>6. ASSUME ~ncCrossed' PROVE Verdict'
  BY <1>2, <1>6, SMTT(30) DEF DumpInv, DumpType, CrashRow, EventRow, UploadState, StackwalkState,
    markNativeCrashCompleted, Transition, WkGo, OneUpload, Uploading, UploadsInOrder, Staging, Repeating,
    Staged, HasWork, RowsMatch, Verdict
<1>7. ASSUME ~ncCrossed' PROVE AcceptedIsInHand'
  BY <1>2, <1>7, SMTT(30) DEF DumpInv, DumpType, CrashRow, EventRow, UploadState, StackwalkState,
    markNativeCrashCompleted, Transition, WkGo, OneUpload, Uploading, UploadsInOrder, Staging, Repeating,
    Staged, HasWork, RowsMatch, Verdict, AcceptedIsInHand, DumpSettled, InProgress
<1> QED
  BY <1>1, <1>3, <1>4, <1>5, <1>6, <1>7, Zenon DEF DumpInv

\* The job goes when its crash is settled.
LEMMA MarkDoneKeepsDump ==
  ASSUME DumpInv, MarkDone PROVE DumpInv'
<1>1. DumpType'
  BY DEF DumpInv, DumpType, CrashRow, EventRow, UploadState, StackwalkState, MarkDone, AtRest, Uploading
<1>2. ASSUME ~ncCrossed' PROVE ~ncCrossed /\ OneUpload /\ UploadsInOrder /\ RowsMatch /\ Verdict /\
  AcceptedIsInHand
  BY <1>2, Zenon DEF DumpInv, DumpType, MarkDone, AtRest
<1>3. ASSUME ~ncCrossed' PROVE OneUpload'
  BY <1>2, <1>3, SMTT(30) DEF DumpInv, DumpType, CrashRow, EventRow, UploadState, StackwalkState, MarkDone, AtRest,
    OneUpload, Uploading
<1>4. ASSUME ~ncCrossed' PROVE UploadsInOrder'
  BY <1>2, <1>4, SMTT(30) DEF DumpInv, DumpType, CrashRow, EventRow, UploadState, StackwalkState, MarkDone, AtRest,
    OneUpload, Uploading, UploadsInOrder, Staging, Repeating, Staged, HasWork, RowsMatch, Verdict
<1>5. ASSUME ~ncCrossed' PROVE RowsMatch'
  BY <1>2, <1>5, SMTT(30) DEF DumpInv, DumpType, CrashRow, EventRow, UploadState, StackwalkState, MarkDone, AtRest,
    OneUpload, Uploading, UploadsInOrder, Staging, Repeating, Staged, HasWork, RowsMatch, Verdict, NoCrash
<1>6. ASSUME ~ncCrossed' PROVE Verdict'
  BY <1>2, <1>6, SMTT(30) DEF DumpInv, DumpType, CrashRow, EventRow, UploadState, StackwalkState, MarkDone, AtRest,
    OneUpload, Uploading, UploadsInOrder, Staging, Repeating, Staged, HasWork, RowsMatch, Verdict
<1>7. ASSUME ~ncCrossed' PROVE AcceptedIsInHand'
  BY <1>2, <1>7, Zenon DEF DumpInv, DumpType, CrashRow, EventRow, UploadState, StackwalkState, MarkDone, AtRest,
    OneUpload, Uploading, UploadsInOrder, Staging, Repeating, Staged, HasWork, RowsMatch, Verdict,
    AcceptedIsInHand, DumpSettled, InProgress
<1> QED
  BY <1>1, <1>3, <1>4, <1>5, <1>6, <1>7, Zenon DEF DumpInv

\* The job is back on the queue.
LEMMA MarkNativeCrashPendingKeepsDump ==
  ASSUME DumpInv, markNativeCrashPending PROVE DumpInv'
<1>1. DumpType'
  BY DEF DumpInv, DumpType, CrashRow, EventRow, UploadState, StackwalkState, markNativeCrashPending, Fault,
    Transition, AtRest, Uploading
<1>2. ASSUME ~ncCrossed' PROVE ~ncCrossed /\ OneUpload /\ UploadsInOrder /\ RowsMatch /\ Verdict /\
  AcceptedIsInHand
  BY <1>2, Zenon DEF DumpInv, DumpType, markNativeCrashPending, Fault, Transition, AtRest
<1>3. ASSUME ~ncCrossed' PROVE OneUpload'
  BY <1>2, <1>3, SMTT(30) DEF DumpInv, DumpType, CrashRow, EventRow, UploadState, StackwalkState,
    markNativeCrashPending, Fault, Transition, AtRest, OneUpload, Uploading
<1>4. ASSUME ~ncCrossed' PROVE UploadsInOrder'
  BY <1>2, <1>4, SMTT(30) DEF DumpInv, DumpType, CrashRow, EventRow, UploadState, StackwalkState,
    markNativeCrashPending, Fault, Transition, AtRest, OneUpload, Uploading, UploadsInOrder, Staging,
    Repeating, Staged, HasWork, RowsMatch, Verdict
<1>5. ASSUME ~ncCrossed' PROVE RowsMatch'
  BY <1>2, <1>5, SMTT(30) DEF DumpInv, DumpType, CrashRow, EventRow, UploadState, StackwalkState,
    markNativeCrashPending, Fault, Transition, AtRest, OneUpload, Uploading, UploadsInOrder, Staging,
    Repeating, Staged, HasWork, RowsMatch, Verdict, NoCrash
<1>6. ASSUME ~ncCrossed' PROVE Verdict'
  BY <1>2, <1>6, SMTT(30) DEF DumpInv, DumpType, CrashRow, EventRow, UploadState, StackwalkState,
    markNativeCrashPending, Fault, Transition, AtRest, OneUpload, Uploading, UploadsInOrder, Staging,
    Repeating, Staged, HasWork, RowsMatch, Verdict
<1>7. ASSUME ~ncCrossed' PROVE AcceptedIsInHand'
  BY <1>2, <1>7, SMTT(30) DEF DumpInv, DumpType, CrashRow, EventRow, UploadState, StackwalkState,
    markNativeCrashPending, Fault, Transition, AtRest, OneUpload, Uploading, UploadsInOrder, Staging,
    Repeating, Staged, HasWork, RowsMatch, Verdict, AcceptedIsInHand, DumpSettled, InProgress
<1> QED
  BY <1>1, <1>3, <1>4, <1>5, <1>6, <1>7, Zenon DEF DumpInv

\* So it is after a crash.
LEMMA WorkerCrashesKeepsDump ==
  ASSUME DumpInv, WorkerCrashes PROVE DumpInv'
<1>1. DumpType'
  <2>1. ncRow' \in CrashRow
    BY Zenon DEF DumpInv, DumpType, CrashRow, EventRow, UploadState, StackwalkState, WorkerCrashes, Fault, AtRest,
      Uploading
  <2>2. ncEvent' \in EventRow
    BY Zenon DEF DumpInv, DumpType, CrashRow, EventRow, UploadState, StackwalkState, WorkerCrashes, Fault, AtRest,
      Uploading
  <2>3. ncJobs' \in [Uploads -> Nat]
    BY OneMoreJob, Zenon DEF DumpInv, DumpType, WorkerCrashes
  <2>4. ncWk' \in StackwalkState /\ (ncWk.pc = "idle" <=> ncWk.crash = 0)'
    BY Zenon DEF DumpInv, DumpType, CrashRow, EventRow, UploadState, StackwalkState, WorkerCrashes, Fault, AtRest,
      Uploading
  <2>5. ncUp' \in [Uploads -> UploadState]
    BY Zenon DEF DumpInv, DumpType, CrashRow, EventRow, UploadState, StackwalkState, WorkerCrashes, Fault, AtRest,
      Uploading
  <2>6. \A v \in Uploads : ncUp'[v].pc = "idle" => ~ncUp'[v].new
    BY Zenon DEF DumpInv, DumpType, UploadState, WorkerCrashes, UpAt, UpGo, UpSet, Uploading
  <2>7. (ncBad \in BOOLEAN /\ ncCrossed \in BOOLEAN)'
    BY Zenon DEF DumpInv, DumpType, CrashRow, EventRow, UploadState, StackwalkState, WorkerCrashes, Fault, AtRest,
      Uploading
  <2> QED
    BY <2>1, <2>2, <2>3, <2>4, <2>5, <2>6, <2>7, Zenon DEF DumpType
<1>2. ASSUME ~ncCrossed' PROVE ~ncCrossed /\ OneUpload /\ UploadsInOrder /\ RowsMatch /\ Verdict /\
  AcceptedIsInHand
  BY <1>2, Zenon DEF DumpInv, DumpType, WorkerCrashes, Fault, AtRest
<1>3. ASSUME ~ncCrossed' PROVE OneUpload'
  BY <1>2, <1>3, SMTT(30) DEF DumpInv, DumpType, CrashRow, EventRow, UploadState, StackwalkState, WorkerCrashes,
    Fault, AtRest, OneUpload, Uploading
<1>4. ASSUME ~ncCrossed' PROVE UploadsInOrder'
  BY <1>2, <1>4, SMTT(30) DEF DumpInv, DumpType, CrashRow, EventRow, UploadState, StackwalkState, WorkerCrashes,
    Fault, AtRest, OneUpload, Uploading, UploadsInOrder, Staging, Repeating, Staged, HasWork, RowsMatch,
    Verdict
<1>5. ASSUME ~ncCrossed' PROVE RowsMatch'
  BY <1>2, <1>5, SMTT(30) DEF DumpInv, DumpType, CrashRow, EventRow, UploadState, StackwalkState, WorkerCrashes,
    Fault, AtRest, OneUpload, Uploading, UploadsInOrder, Staging, Repeating, Staged, HasWork, RowsMatch,
    Verdict, NoCrash
<1>6. ASSUME ~ncCrossed' PROVE Verdict'
  BY <1>2, <1>6, Zenon DEF DumpInv, DumpType, CrashRow, EventRow, UploadState, StackwalkState, WorkerCrashes,
    Fault, AtRest, OneUpload, Uploading, UploadsInOrder, Staging, Repeating, Staged, HasWork, RowsMatch,
    Verdict
<1>7. ASSUME ~ncCrossed' PROVE AcceptedIsInHand'
  <2>1. ncJobs'[ncWk.crash] > 0 /\ ncWk.crash \in Uploads
    <3>1. ncWk.crash \in Uploads
      BY Zenon DEF DumpInv, DumpType, StackwalkState, WorkerCrashes
    <3> QED
      BY <3>1, OneMoreJob, Zenon DEF DumpInv, DumpType, WorkerCrashes
  <2> QED
    BY <2>1, Zenon DEF AcceptedIsInHand, InProgress
<1> QED
  BY <1>1, <1>3, <1>4, <1>5, <1>6, <1>7, Zenon DEF DumpInv

\* Every step of an upload or of the worker keeps the invariant.
LEMMA DumpInvNext == DumpInv /\ [NCNext]_ncVars => DumpInv'
<1> SUFFICES ASSUME DumpInv, [NCNext]_ncVars PROVE DumpInv'
  OBVIOUS
<1>1. CASE UNCHANGED ncVars
  BY <1>1, ZenonT(30) DEF ncVars, DumpInv, DumpType, OneUpload, UploadsInOrder, Staging, Repeating, Staged,
    HasWork,
    Uploading, RowsMatch, Verdict, AcceptedIsInHand, DumpSettled, InProgress
<1>2. ASSUME NEW u \in Uploads,
             \/ insertNativeCrash(u) \/ GetByEventID(u) \/ storeRawMinidumpAttachment(u)
             \/ savePendingNativeEvent(u) \/ bindNativeCrashEvent(u) \/ restageNativeCrash(u)
             \/ ensureNativeStackwalkJob(u) \/ Enqueue(u) \/ UploadFails(u) \/ UploadCrashes(u)
      PROVE DumpInv'
  BY <1>2, Zenon, InsertNativeCrashKeepsDump, GetByEventIDKeepsDump, StoreRawMinidumpAttachmentKeepsDump,
    SavePendingNativeEventKeepsDump, BindNativeCrashEventKeepsDump, RestageNativeCrashKeepsDump,
    EnsureNativeStackwalkJobKeepsDump, EnqueueKeepsDump, UploadFailsKeepsDump, UploadCrashesKeepsDump
<1>3. CASE NCNext
  BY <1>1, <1>2, <1>3, Zenon, ClaimNextKeepsDump, GetEventByRowIDKeepsDump,
    MarkNativeCrashProcessingKeepsDump, FailNativeCrashPermanentKeepsDump, ProcessExistingKeepsDump,
    MarkNativeCrashCompletedKeepsDump, MarkDoneKeepsDump, MarkNativeCrashPendingKeepsDump,
    WorkerCrashesKeepsDump
     DEF NCNext, NCOver
<1> QED
  BY <1>1, <1>3, Zenon

\* Type correctness of the crash, its event, the uploads and the worker.
THEOREM DumpTypeAlways == NCSpec => []DumpType
<1>1. DumpInv => DumpType
  BY Zenon DEF DumpInv
<1> QED
  BY <1>1, DumpInvInit, DumpInvNext, PTL DEF NCSpec

\* IngestMinidump and ProcessStackwalkJob, for any number of uploads, errors and crashes: once everything is
\* at rest and the latest upload was accepted, its dump is an event of an issue or is marked failed, unless
\* uploads crossed.
THEOREM AcceptedDumpAlwaysSettles == NCSpec => []AcceptedDumpSettlesUnlessCrossed
<1>1. DumpInv => AcceptedDumpSettlesUnlessCrossed
  BY DEF DumpInv, DumpType, AcceptedIsInHand, AcceptedDumpSettlesUnlessCrossed, NCQuiet, DumpSettled,
    InProgress
<1> QED
  BY <1>1, DumpInvInit, DumpInvNext, PTL DEF NCSpec

HIDE UploadsAssumption

-----------------------------------------------------------------------------
\* The runs of a backfill

ScopesTyped ==
  /\ scope = [i \in Ids |-> scope[i]]
  /\ status = [i \in Ids |-> status[i]]
  /\ \A i \in Ids : scope[i].from \in Nat /\ scope[i].to \in Nat
  /\ asked \in [Clients -> Requests]

NoConflict ==
  \A i, k \in Ids : i # k /\ Active(i) /\ Active(k) => ~SQLConflict(scope[i], scope[k])

BInv == ScopesTyped /\ NoConflict

\* The stored bounds are numbers again.
LEMMA SecondsType == ASSUME NEW t \in Nat PROVE Seconds(t) \in Nat
  BY DEF Seconds

\* The SQL condition does not depend on which run came first.
LEMMA ConflictSymmetric ==
  ASSUME NEW a, NEW b, SQLConflict(a, b) PROVE SQLConflict(b, a)
  BY Zenon DEF SQLConflict, Overlap

\* The SQL condition misses nothing: two scopes that match one event conflict.
LEMMA ConflictComplete ==
  ASSUME NEW a, NEW b, NEW e,
         a.from \in Nat, a.to \in Nat, b.from \in Nat, b.to \in Nat, e.time \in Nat,
         Matches(e, a), Matches(e, b)
  PROVE  SQLConflict(a, b)
  BY DEF Matches, SQLConflict, Overlap

\* Initially no run is active.
LEMMA BInvInit == Init => BInv
<1> SUFFICES ASSUME Init PROVE BInv
  OBVIOUS
<1> DEFINE first == CHOOSE q \in Requests : TRUE
<1>1. first \in Requests
  BY ConstantsAssumption, SMTT(30) DEF ConstantsTyped
<1> HIDE DEF first
<1>2. Stored(first).from \in Nat /\ Stored(first).to \in Nat
  BY <1>1, SecondsType, ConstantsAssumption, Zenon DEF Stored, ConstantsTyped
<1>3. scope = [i \in Ids |-> Stored(first)] /\ status = [i \in Ids |-> "none"]
      /\ asked = [c \in Clients |-> first]
  BY Zenon DEF Init, first
<1> QED
  BY <1>1, <1>2, <1>3, Zenon DEF BInv, ScopesTyped, NoConflict, Active

\* Steps that leave the scopes alone, make no run active and change no request
\* keep the invariant.
LEMMA BInvKept ==
  ASSUME BInv, scope' = scope, status' = [i \in Ids |-> status'[i]],
         \A i \in Ids : Active(i)' => Active(i),
         asked' = asked
  PROVE  BInv'
  BY Zenon DEF BInv, ScopesTyped, NoConflict

\* The steps of CreateRun that insert nothing.
LEMMA BInvClient ==
  ASSUME BInv, UNCHANGED runs, asked' \in [Clients -> Requests]
  PROVE  BInv'
  BY Zenon DEF BInv, ScopesTyped, NoConflict, Active, runs

\* The insert activates one run, whose scope conflicts with no active one.
LEMMA BInvInsert ==
  ASSUME BInv, NEW c \in Clients, NEW j \in Ids, Insert(c, j)
  PROVE  BInv'
<1> DEFINE q == asked[c]
<1>1. q \in Requests
  BY SMTT(30) DEF BInv, ScopesTyped
<1>2. Stored(q).from \in Nat /\ Stored(q).to \in Nat
  BY <1>1, SecondsType, ConstantsAssumption, Zenon DEF Stored, ConstantsTyped
<1>3. \A i \in Ids : Active(i) => ~SQLConflict(scope[i], Stored(q)) /\ ~SQLConflict(Stored(q), scope[i])
  BY ConflictSymmetric, Zenon DEF Insert, Blocked
<1>4. scope' = [scope EXCEPT ![j] = Stored(q)] /\ status' = [status EXCEPT ![j] = "pending"]
      /\ asked' = asked
  BY Zenon DEF Insert
<1> HIDE DEF q
<1>5. ScopesTyped'
  <2>1. scope' = [i \in Ids |-> scope'[i]] /\ status' = [i \in Ids |-> status'[i]]
    BY <1>4, Zenon DEF BInv, ScopesTyped
  <2>2. \A i \in Ids : scope'[i].from \in Nat /\ scope'[i].to \in Nat
    BY <1>2, <1>4, Zenon DEF BInv, ScopesTyped
  <2>3. asked' \in [Clients -> Requests]
    BY <1>4, Zenon DEF BInv, ScopesTyped
  <2> QED BY <2>1, <2>2, <2>3, Zenon DEF BInv, ScopesTyped
<1>6. NoConflict'
  <2> SUFFICES ASSUME NEW i \in Ids, NEW k \in Ids, i # k, Active(i)', Active(k)'
               PROVE  ~SQLConflict(scope'[i], scope'[k])
    BY Zenon DEF NoConflict, SQLConflict, Overlap
  <2>1. \A m \in Ids : m # j => scope'[m] = scope[m] /\ (Active(m)' => Active(m))
    BY <1>4, Zenon DEF BInv, ScopesTyped, Active
  <2>2. scope'[j] = Stored(q)
    BY <1>4, SMTT(30) DEF BInv, ScopesTyped
  <2>3. CASE i = j
    BY <2>1, <2>2, <2>3, <1>3, SMTT(30)
  <2>4. CASE k = j
    BY <2>1, <2>2, <2>4, <1>3, SMTT(30)
  <2>5. CASE i # j /\ k # j
    BY <2>1, <2>5, Zenon DEF BInv, NoConflict
  <2> QED BY <2>3, <2>4, <2>5, SMTT(30)
<1> QED BY <1>5, <1>6, Zenon DEF BInv

\* Every step keeps the scopes of active runs apart.
LEMMA BInvNext == BInv /\ [Next]_vars => BInv'
<1> SUFFICES ASSUME BInv, [Next]_vars PROVE BInv'
  OBVIOUS
<1>1. ASSUME NEW c \in Clients, NEW q \in Requests, Request(c, q) PROVE BInv'
  BY <1>1, BInvClient, Zenon DEF Request, BInv, ScopesTyped
<1>2. ASSUME NEW c \in Clients, NEW i \in Ids, Insert(c, i) PROVE BInv'
  BY <1>2, BInvInsert, Zenon
<1>3. ASSUME NEW c \in Clients, InsertRefused(c) \/ FindAgain(c) \/ FindConflict(c) PROVE BInv'
  <2>1. CASE InsertRefused(c)
    BY <2>1, BInvClient, Zenon DEF BInv, ScopesTyped, InsertRefused
  <2>2. CASE FindAgain(c)
    BY <2>2, BInvClient, Zenon DEF BInv, ScopesTyped, FindAgain
  <2>3. CASE FindConflict(c)
    BY <2>3, BInvClient, Zenon DEF BInv, ScopesTyped, FindConflict
  <2> QED BY <1>3, <2>1, <2>2, <2>3, SMTT(30)
<1>4. ASSUME NEW i \in Ids, CancelRun(i) PROVE BInv'
  BY <1>4, BInvKept, Zenon DEF CancelRun, Release, client, Active, BInv, ScopesTyped
<1>5. ASSUME NEW w \in Workers, NEW i \in Ids, Claim(w, i) PROVE BInv'
  BY <1>5, BInvKept, Zenon DEF Claim, Runnable, client, Active, BInv, ScopesTyped
<1>6. ASSUME NEW w \in Workers, AdvanceRun(w) PROVE BInv'
  BY <1>6, BInvKept, SMTT(30) DEF AdvanceRun, Held, client, Active, BInv, ScopesTyped
<1>7. ASSUME NEW w \in Workers, MarkFailed(w) PROVE BInv'
  BY <1>7, BInvKept, Zenon DEF MarkFailed, Held, client, Active, BInv, ScopesTyped
<1>8. ASSUME NEW w \in Workers, Count(w) \/ SetTotalItems(w) \/ Select(w) \/ Apply(w)
                                  \/ Error(w) \/ Crash(w) \/ IdlePoll(w)
      PROVE BInv'
  <2>1. UNCHANGED <<scope, status, asked>>
    BY <1>8, Zenon DEF Count, SetTotalItems, Select, Apply, Error, Crash, IdlePoll, runs, client, vars
  <2> QED BY <2>1, BInvKept, SMTT(30) DEF BInv, ScopesTyped, Active
<1>9. ASSUME NEW e \in Rows, Arrive(e) \/ Mature(e) \/ Delete(e) PROVE BInv'
  <2>1. UNCHANGED <<scope, status, asked>>
    BY <1>9, Zenon DEF Arrive, Mature, Delete, runs, client
  <2> QED BY <2>1, BInvKept, Zenon DEF BInv, ScopesTyped, Active
<1>10. CASE Tick \/ UNCHANGED vars
  <2>1. UNCHANGED <<scope, status, asked>>
    BY <1>10, Zenon DEF Tick, runs, client, vars
  <2> QED BY <2>1, BInvKept, Zenon DEF BInv, ScopesTyped, Active
<1> QED
  BY <1>1, <1>2, <1>3, <1>4, <1>5, <1>6, <1>7, <1>8, <1>9, <1>10, Zenon
     DEF Next, ClientStep, WorkerStep

\* CreateRun never lets two active runs reprocess the same event.
THEOREM RunsAreDisjoint == Spec => []ActiveRunsDisjoint
<1>1. BInv => ActiveRunsDisjoint
  <2> SUFFICES ASSUME BInv, NEW i \in Ids, NEW k \in Ids, i # k, Active(i), Active(k),
                      NEW e \in Rows, Matches(Events[e], scope[i]), Matches(Events[e], scope[k])
               PROVE  FALSE
    BY Zenon DEF ActiveRunsDisjoint
  <2>1. SQLConflict(scope[i], scope[k])
    BY ConflictComplete, ConstantsAssumption, SMTT(30) DEF BInv, ScopesTyped, ConstantsTyped
  <2> QED BY <2>1, Zenon DEF BInv, NoConflict
<1> QED
  BY <1>1, BInvInit, BInvNext, PTL DEF Spec

-----------------------------------------------------------------------------
\* The answers of CreateRun

\* As long as no run ended, the run that refused the insert of client c is still there;
\* and between the two lookups after the refusal nobody could insert the scope c asked for.
RefusedFor(c) ==
  /\ step[c] \in {"again", "explain"} /\ ~ended[c] => Blocked(asked[c])
  /\ step[c] = "explain" /\ ~ended[c] => ~Duplicate(asked[c])
  /\ step[c] = "error" => ended[c] \/ Fractional(asked[c])

RInv ==
  /\ step = [c \in Clients |-> step[c]]
  /\ ended = [c \in Clients |-> ended[c]]
  /\ \A i \in Ids : \E q \in Requests : scope[i] = Stored(q)
  /\ \A c \in Clients : RefusedFor(c)

\* A stored scope is its own stored form.
LEMMA StoredTwice == ASSUME NEW q \in Requests PROVE Stored(Stored(q)) = Stored(q)
<1>1. ASSUME NEW t \in Nat PROVE Seconds(Seconds(t)) = Seconds(t)
  BY DEF Seconds
<1>2. q.from \in Nat /\ q.to \in Nat
  BY ConstantsAssumption, SMTT(30) DEF ConstantsTyped
<1> QED BY <1>1, <1>2, Zenon DEF Stored

\* The Go comparison of a request finds the conflict the SQL comparison of its stored
\* form saw, when the start of the request is a whole second.
LEMMA ComparisonsAgree ==
  ASSUME NEW q \in Requests, NEW s, s.from \in Nat, s.to \in Nat,
         SQLConflict(s, Stored(q)), ~Fractional(q)
  PROVE  ScopesConflict(q, s)
<1>1. q.from \in Nat \ {1} /\ q.to \in Nat \ {1}
  BY ConstantsAssumption, SMTT(30) DEF ConstantsTyped
<1>2. /\ Overlap(s.project, q.project) /\ Overlap(s.release, q.release)
      /\ s.from = 0 \/ Seconds(q.to) = 0 \/ s.from <= Seconds(q.to)
      /\ q.from = 0 \/ s.to = 0 \/ q.from <= s.to
  BY Zenon DEF SQLConflict, Stored, Fractional
<1>3. Overlap(q.project, s.project) /\ Overlap(q.release, s.release)
  BY <1>2, Zenon DEF Overlap
<1>4. Seconds(q.to) <= q.to /\ Seconds(q.to) \in Nat /\ (Seconds(q.to) = 0 => q.to = 0)
  BY <1>1, SMTT(30) DEF Seconds
<1>5. ~(q.from # 0 /\ s.to # 0 /\ q.from > s.to)
  BY <1>1, <1>2, SMTT(30)
<1>6. ~(s.from # 0 /\ q.to # 0 /\ s.from > q.to)
  BY <1>1, <1>2, <1>4
<1> QED BY <1>3, <1>5, <1>6, SMTT(30) DEF ScopesConflict

\* Initially nobody was refused.
LEMMA RInvInit == Init => RInv
<1> SUFFICES ASSUME Init PROVE RInv
  OBVIOUS
<1> DEFINE first == CHOOSE q \in Requests : TRUE
<1>1. first \in Requests
  BY ConstantsAssumption, Zenon DEF ConstantsTyped
<1> HIDE DEF first
<1>2. scope = [i \in Ids |-> Stored(first)]
  BY Zenon DEF Init, first
<1>3. step = [c \in Clients |-> "idle"] /\ ended = [c \in Clients |-> FALSE]
  BY Zenon DEF Init
<1>4. \A c \in Clients : step[c] = "idle"
  BY <1>3, Zenon
<1> QED BY <1>1, <1>2, <1>3, <1>4, Zenon DEF RInv, RefusedFor

\* What a client that does not move sees of a step that ends no run, or tells it.
LEMMA OnlooksKept ==
  ASSUME RInv, NEW c \in Clients, scope' = scope,
         asked'[c] = asked[c], step'[c] = step[c],
         \A i \in Ids : Active(i)' => Active(i),
         \/ ended'[c] = ended[c] /\ \A i \in Ids : Active(i) => Active(i)'
         \/ ended'[c] = (ended[c] \/ step[c] \in {"again", "explain"})
  PROVE  RefusedFor(c)'
<1>1. RefusedFor(c)
  BY Zenon DEF RInv
<1>2. Duplicate(asked[c])' => Duplicate(asked[c])
  BY ZenonT(60) DEF Duplicate
<1>3. CASE ended'[c] = ended[c] /\ \A i \in Ids : Active(i) => Active(i)'
  <2>1. Blocked(asked[c]) => Blocked(asked[c])'
    BY <1>3, Zenon DEF Blocked
  <2> QED BY <1>1, <1>2, <1>3, <2>1, ZenonT(60) DEF RefusedFor
<1>4. CASE ended'[c] = (ended[c] \/ step[c] \in {"again", "explain"})
  BY <1>1, <1>4, Zenon DEF RefusedFor
<1> QED BY <1>3, <1>4, Zenon

\* A step of the others that leaves the clients where they are.
LEMMA RInvKept ==
  ASSUME RInv, scope' = scope, UNCHANGED client,
         \A i \in Ids : Active(i)' => Active(i),
         \/ ended' = ended /\ \A i \in Ids : Active(i) => Active(i)'
         \/ ended' = [c \in Clients |-> ended[c] \/ step[c] \in {"again", "explain"}]
  PROVE  RInv'
<1>1. \A c \in Clients : RefusedFor(c)'
  BY OnlooksKept, Zenon DEF client
<1>2. ended' = [c \in Clients |-> ended'[c]]
  BY Zenon DEF RInv
<1> QED BY <1>1, <1>2, Zenon DEF RInv, client

\* Client c moves, and inserts nothing.
LEMMA RInvMoves ==
  ASSUME BInv, RInv, NEW c \in Clients, UNCHANGED runs,
         NEW a, NEW q, NEW b, step' = [step EXCEPT ![c] = a],
         \/ asked' = asked
         \/ asked' = [asked EXCEPT ![c] = q],
         \/ ended' = ended
         \/ ended' = [ended EXCEPT ![c] = b],
         RefusedFor(c)'
  PROVE  RInv'
<1>1. \A d \in Clients \ {c} : step'[d] = step[d] /\ asked'[d] = asked[d] /\ ended'[d] = ended[d]
  BY Zenon DEF RInv, BInv, ScopesTyped
<1>2. scope' = scope /\ status' = status
  BY Zenon DEF runs
<1>3. \A d \in Clients \ {c} : RefusedFor(d)'
  BY <1>1, <1>2, OnlooksKept, Zenon DEF Active
<1>4. step' = [d \in Clients |-> step'[d]] /\ ended' = [d \in Clients |-> ended'[d]]
  BY Zenon DEF RInv
<1> QED BY <1>2, <1>3, <1>4, Zenon DEF RInv

\* The insert: it is another client's blocker, and never another client's duplicate.
LEMMA RInvInsert ==
  ASSUME BInv, RInv, NEW c \in Clients, NEW j \in Ids, Insert(c, j)
  PROVE  RInv'
<1> DEFINE q == asked[c]
<1>1. /\ status[j] = "none" /\ ~Blocked(q) /\ step[c] = "insert"
      /\ scope' = [scope EXCEPT ![j] = Stored(q)] /\ status' = [status EXCEPT ![j] = "pending"]
      /\ step' = [step EXCEPT ![c] = "done"] /\ asked' = asked /\ ended' = ended
  BY Zenon DEF Insert
<1>2. q \in Requests
  BY Zenon DEF BInv, ScopesTyped
<1> HIDE DEF q
<1>3. \A i \in Ids : i # j => scope'[i] = scope[i] /\ status'[i] = status[i]
  BY <1>1, Zenon DEF BInv, ScopesTyped
<1>4. scope'[j] = Stored(q) /\ status'[j] = "pending"
  BY <1>1, Zenon DEF BInv, ScopesTyped
<1>5. ASSUME NEW d \in Clients PROVE RefusedFor(d)'
  <2>1. RefusedFor(d)
    BY Zenon DEF RInv
  <2>2. CASE d = c
    <3>1. step'[d] = "done"
      BY <1>1, <2>2, SMTT(30) DEF RInv
    <3> QED BY <3>1, Zenon DEF RefusedFor
  <2>3. CASE d # c
    <3>1. step'[d] = step[d]
      BY <1>1, <2>3, SMTT(30) DEF RInv
    <3>2. Blocked(asked[d]) => Blocked(asked[d])'
      <4> SUFFICES ASSUME Blocked(asked[d]) PROVE Blocked(asked[d])'
        OBVIOUS
      <4>1. PICK i \in Ids : Active(i) /\ SQLConflict(scope[i], Stored(asked[d]))
        BY Zenon DEF Blocked
      <4>2. i # j
        BY <1>1, <4>1, SMTT(30) DEF Active
      <4>3. Active(i)' /\ scope'[i] = scope[i]
        BY <1>3, <4>1, <4>2, Zenon DEF Active
      <4>4. SQLConflict(scope'[i], Stored(asked'[d]))
        BY <1>1, <4>1, <4>3, SMTT(30)
      <4> QED BY <4>3, <4>4, SMTT(30) DEF Blocked
    <3>3. Blocked(asked[d]) /\ Duplicate(asked[d])' => Duplicate(asked[d])
      <4> SUFFICES ASSUME Blocked(asked[d]), Duplicate(asked[d])' PROVE Duplicate(asked[d])
        BY SMTT(30)
      <4>1. PICK i \in Ids : Active(i)' /\ scope'[i] = Stored(asked[d])
        BY <1>1, Zenon DEF Duplicate
      <4>2. i # j
        BY <1>1, <1>4, <4>1, SMTT(30) DEF Blocked
      <4>3. Active(i) /\ scope[i] = Stored(asked[d])
        BY <1>3, <4>1, <4>2, Zenon DEF Active
      <4> QED BY <4>3, SMTT(30) DEF Duplicate
    <3> QED BY <1>1, <2>1, <3>1, <3>2, <3>3, SMTT(30) DEF RefusedFor
  <2> QED BY <2>2, <2>3, Zenon
<1>6. step' = [d \in Clients |-> step'[d]] /\ ended' = [d \in Clients |-> ended'[d]]
  BY <1>1, Zenon DEF RInv
<1>7. ASSUME NEW i \in Ids PROVE \E p \in Requests : scope'[i] = Stored(p)
  BY <1>2, <1>3, <1>4, Zenon DEF RInv
<1> QED BY <1>5, <1>6, <1>7, Zenon DEF RInv

\* The last lookup: a client that is told nothing was refused by a run that ended, or
\* asked for a fractional start.
LEMMA RInvFindConflict ==
  ASSUME BInv, RInv, NEW c \in Clients, FindConflict(c)
  PROVE  RInv'
<1> DEFINE q == asked[c]
           found == \E i \in Ids : Active(i) /\ scope[i] # q /\ ScopesConflict(q, scope[i])
<1>1. /\ step[c] = "explain" /\ UNCHANGED runs /\ asked' = asked /\ ended' = ended
      /\ step' = [step EXCEPT ![c] = IF found THEN "conflict" ELSE "error"]
  BY Zenon DEF FindConflict
<1>2. q \in Requests
  BY SMTT(30) DEF BInv, ScopesTyped
<1>3. found \/ ended[c] \/ Fractional(q)
  <2> SUFFICES ASSUME ~ended[c], ~Fractional(q) PROVE found
    OBVIOUS
  <2>1. Blocked(q) /\ ~Duplicate(q)
    BY <1>1, SMTT(30) DEF RInv, RefusedFor
  <2>2. PICK i \in Ids : Active(i) /\ SQLConflict(scope[i], Stored(q))
    BY <2>1, SMTT(30) DEF Blocked
  <2>3. scope[i] # Stored(q)
    BY <2>1, <2>2, Zenon DEF Duplicate
  <2>4. PICK p \in Requests : scope[i] = Stored(p)
    BY Zenon DEF RInv
  <2>5. scope[i] # q
    BY <2>3, <2>4, StoredTwice, Zenon
  <2>6. scope[i].from \in Nat /\ scope[i].to \in Nat
    BY SMTT(30) DEF BInv, ScopesTyped
  <2>7. ScopesConflict(q, scope[i])
    BY <1>2, <2>2, <2>6, ComparisonsAgree, Zenon
  <2> QED BY <2>2, <2>5, <2>7, SMTT(30)
<1> HIDE DEF q, found
<1>4. step'[c] = IF found THEN "conflict" ELSE "error"
  BY <1>1, SMTT(30) DEF RInv
<1>5. RefusedFor(c)'
  BY <1>1, <1>3, <1>4 DEF RefusedFor, q
<1> QED BY <1>1, <1>5, RInvMoves, Zenon

\* Every step of the runs, of the clients and of the workers.
LEMMA RInvNext == BInv /\ RInv /\ [Next]_vars => RInv'
<1> SUFFICES ASSUME BInv, RInv, [Next]_vars PROVE RInv'
  OBVIOUS
<1>0. \A c \in Clients : step = [d \in Clients |-> step[d]] /\ RefusedFor(c)
  BY Zenon DEF RInv
<1>1. ASSUME NEW c \in Clients, NEW q \in Requests, Request(c, q) PROVE RInv'
  <2> DEFINE a == IF Duplicate(q) THEN "done" ELSE "insert"
  <2>1. /\ UNCHANGED runs /\ asked' = [asked EXCEPT ![c] = q]
        /\ step' = [step EXCEPT ![c] = a] /\ ended' = [ended EXCEPT ![c] = FALSE]
    BY <1>1, Zenon DEF Request
  <2>2. step'[c] \in {"done", "insert"}
    BY <1>0, <2>1, SMTT(30)
  <2>3. RefusedFor(c)'
    BY <2>2, Zenon DEF RefusedFor
  <2> HIDE DEF a
  <2> QED BY <2>1, <2>3, RInvMoves, Zenon
<1>2. ASSUME NEW c \in Clients, NEW i \in Ids, Insert(c, i) PROVE RInv'
  BY <1>2, RInvInsert, Zenon
<1>3. ASSUME NEW c \in Clients, InsertRefused(c) PROVE RInv'
  <2>1. /\ UNCHANGED runs /\ asked' = asked /\ ended' = ended /\ Blocked(asked[c])
        /\ step' = [step EXCEPT ![c] = "again"]
    BY <1>3, Zenon DEF InsertRefused
  <2>2. step'[c] = "again" /\ Blocked(asked[c])'
    BY <1>0, <2>1, SMTT(30) DEF Blocked, Active, runs
  <2>3. RefusedFor(c)'
    BY <2>2, Zenon DEF RefusedFor
  <2> QED BY <2>1, <2>3, RInvMoves, Zenon
<1>4. ASSUME NEW c \in Clients, FindAgain(c) PROVE RInv'
  <2> DEFINE a == IF Duplicate(asked[c]) THEN "done" ELSE "explain"
  <2>1. /\ UNCHANGED runs /\ asked' = asked /\ ended' = ended /\ step[c] = "again"
        /\ step' = [step EXCEPT ![c] = a]
    BY <1>4, SMTT(30) DEF FindAgain
  <2>2. step'[c] = a /\ (Blocked(asked[c])' <=> Blocked(asked[c]))
        /\ (Duplicate(asked[c])' <=> Duplicate(asked[c]))
    BY <1>0, <2>1, SMTT(30) DEF Blocked, Duplicate, Active, runs
  <2>3. RefusedFor(c)'
    BY <1>0, <2>1, <2>2, Zenon DEF RefusedFor
  <2> HIDE DEF a
  <2> QED BY <2>1, <2>3, RInvMoves, Zenon
<1>5. ASSUME NEW c \in Clients, FindConflict(c) PROVE RInv'
  BY <1>5, RInvFindConflict, SMTT(30)
<1>6. ASSUME NEW i \in Ids, CancelRun(i) PROVE RInv'
  <2>1. \A k \in Ids : Active(k)' => Active(k)
    BY <1>6, Zenon DEF CancelRun, Active, BInv, ScopesTyped
  <2> QED BY <1>6, <2>1, RInvKept, Zenon DEF CancelRun, RunEnds
<1>7. ASSUME NEW w \in Workers, NEW i \in Ids, Claim(w, i) PROVE RInv'
  <2>1. \A k \in Ids : Active(k)' <=> Active(k)
    BY <1>7, Zenon DEF Claim, Runnable, Active, BInv, ScopesTyped
  <2> QED BY <1>7, <2>1, RInvKept, ZenonT(60) DEF Claim
<1>8. ASSUME NEW w \in Workers, AdvanceRun(w) PROVE RInv'
  <2>1. \A k \in Ids : Active(k)' => Active(k)
    BY <1>8, Zenon DEF AdvanceRun, Held, Active, BInv, ScopesTyped
  <2>2. CASE Held(w) /\ Done(w)
    BY <1>8, <2>1, <2>2, RInvKept, Zenon DEF AdvanceRun, RunEnds
  <2>3. CASE ~(Held(w) /\ Done(w))
    <3>1. ended' = ended /\ \A k \in Ids : Active(k) => Active(k)'
      BY <1>8, <2>3, Zenon DEF AdvanceRun, Active, BInv, ScopesTyped
    <3> QED BY <1>8, <2>1, <3>1, RInvKept, Zenon DEF AdvanceRun
  <2> QED BY <2>2, <2>3, Zenon
<1>9. ASSUME NEW w \in Workers, MarkFailed(w) PROVE RInv'
  <2>1. \A k \in Ids : Active(k)' => Active(k)
    BY <1>9, SMTT(30) DEF MarkFailed, Held, Active, BInv, ScopesTyped
  <2>2. CASE Held(w)
    BY <1>9, <2>1, <2>2, RInvKept, SMTT(30) DEF MarkFailed, RunEnds
  <2>3. CASE ~Held(w)
    BY <1>9, <2>3, RInvKept, SMTT(30) DEF MarkFailed, Active
  <2> QED BY <2>2, <2>3, SMTT(30)
<1>10. CASE UNCHANGED <<scope, status, client, ended>>
  BY <1>10, RInvKept, Zenon DEF Active
<1> QED
  BY <1>1, <1>2, <1>3, <1>4, <1>5, <1>6, <1>7, <1>8, <1>9, <1>10, Zenon
     DEF Next, ClientStep, WorkerStep, IdlePoll, Count, SetTotalItems, Select, Apply, Error, Crash,
         Arrive, Mature, Delete, Tick, runs, vars

\* CreateRun tells its caller "no row inserted" only when a run ended between the refused
\* insert and the lookup, or the request starts within a second: otherwise the comparison
\* in Go finds the conflict the comparison in SQL saw.
THEOREM RefusalsAreExplained == Spec => []RefusalExplained
<1>1. BInv /\ RInv => RefusalExplained
  BY Zenon DEF RInv, RefusedFor, RefusalExplained
<1> QED BY <1>1, BInvInit, BInvNext, RInvInit, RInvNext, PTL DEF Spec

-----------------------------------------------------------------------------
RowsTyped ==
  /\ status = [i \in Ids |-> status[i]]
  /\ prog = [i \in Ids |-> prog[i]]

\* The rows keep their shape.
LEMMA RowsTypedNext == RowsTyped /\ [Next]_vars => RowsTyped'
<1> SUFFICES ASSUME RowsTyped, [Next]_vars PROVE RowsTyped'
  OBVIOUS
<1>1. status' = [i \in Ids |-> status'[i]]
  BY ZenonT(30) DEF RowsTyped, Next, ClientStep, WorkerStep, Request, Insert, InsertRefused, FindAgain,
         FindConflict, CancelRun, Claim, IdlePoll, Count, SetTotalItems, Select, Apply, AdvanceRun,
         Error, MarkFailed, Crash, Arrive, Mature, Delete, Tick, runs, vars
<1>2. prog' = [i \in Ids |-> prog'[i]]
  BY ZenonT(30) DEF RowsTyped, Next, ClientStep, WorkerStep, Request, Insert, InsertRefused, FindAgain,
         FindConflict, CancelRun, Claim, IdlePoll, Count, SetTotalItems, Select, Apply, AdvanceRun,
         Error, MarkFailed, Crash, Arrive, Mature, Delete, Tick, runs, vars
<1> QED BY <1>1, <1>2, Zenon DEF RowsTyped

\* A step changes the row of no run that ended.
LEMMA FinishedStep ==
  ASSUME RowsTyped, [Next]_vars, NEW i \in Ids, Finished(i)
  PROVE  status'[i] = status[i] /\ prog'[i] = prog[i]
<1> USE DEF RowsTyped, Finished
<1>1. ASSUME NEW c \in Clients, NEW k \in Ids, Insert(c, k)
      PROVE  status'[i] = status[i] /\ prog'[i] = prog[i]
  BY <1>1, Zenon DEF Insert
<1>2. ASSUME NEW k \in Ids, CancelRun(k)
      PROVE  status'[i] = status[i] /\ prog'[i] = prog[i]
  BY <1>2, SMTT(30) DEF CancelRun
<1>3. ASSUME NEW w \in Workers, NEW k \in Ids, Claim(w, k)
      PROVE  status'[i] = status[i] /\ prog'[i] = prog[i]
  BY <1>3, Zenon DEF Claim, Runnable
<1>4. ASSUME NEW w \in Workers, SetTotalItems(w)
      PROVE  status'[i] = status[i] /\ prog'[i] = prog[i]
  BY <1>4, Zenon DEF SetTotalItems, Held
<1>5. ASSUME NEW w \in Workers, AdvanceRun(w)
      PROVE  status'[i] = status[i] /\ prog'[i] = prog[i]
  BY <1>5, SMTT(30) DEF AdvanceRun, Held
<1>6. ASSUME NEW w \in Workers, MarkFailed(w)
      PROVE  status'[i] = status[i] /\ prog'[i] = prog[i]
  BY <1>6, Zenon DEF MarkFailed, Held
<1>7. ASSUME UNCHANGED <<status, prog>>
      PROVE  status'[i] = status[i] /\ prog'[i] = prog[i]
  BY <1>7, Zenon
<1> QED
  BY <1>1, <1>2, <1>3, <1>4, <1>5, <1>6, <1>7, ZenonT(60)
     DEF Next, ClientStep, WorkerStep, Request, InsertRefused, FindAgain, FindConflict, IdlePoll,
         Count, Select, Apply, Error, Crash, Arrive, Mature, Delete, Tick, runs, vars

\* The guards of SetTotalItems, AdvanceRun and MarkFailed keep a worker that lost
\* its lease, however late, from changing a run that ended.
THEOREM FinishedRunsStay == Spec => FinishedStays
<1>1. Init => RowsTyped
  BY SMTT(30) DEF Init, RowsTyped
<1>2. RowsTyped /\ [Next]_vars => [FinishedKept]_vars
  BY FinishedStep, Zenon DEF FinishedKept
<1> QED
  BY <1>1, <1>2, RowsTypedNext, PTL DEF Spec, FinishedStays

=============================================================================
