------------------------------- MODULE Replays -------------------------------
(***************************************************************************)
(* Session replays: persistEnvelopeSideEffects handles an envelope of a    *)
(* replay (its replay_event and its recordings), ReplayStore keeps the     *)
(* receipt, a row and a blob of each segment, and the manifest that        *)
(* IndexReplay builds from them. Envelopes of one replay are handled       *)
(* concurrently; each statement below is a step of its own.                *)
(*                                                                         *)
(* event_id and replay_id are the same, as the SDK sends them, and the     *)
(* receipt is well-formed. Attachments of replays (videos, and recordings  *)
(* of earlier versions) and the retention of blobs are left out. The       *)
(* lookup of the manifest's id is part of the transaction that follows it. *)
(***************************************************************************)
EXTENDS Integers, Sequences, FiniteSets, FiniteSetsExt

CONSTANTS Envelopes,
          WithEvent,      \* of each envelope: is there a replay_event before the recordings?
          Recordings,     \* of each envelope: its recordings, records of a segment and a size
          Segments,
          Undecodable,    \* segments whose payload cannot be decoded
          MaxBytes,       \* of the project's ReplayIngestPolicy
          MaxSends        \* bound: how often each envelope is sent

VARIABLES rySize,      \* replay_segments: of each segment its size_bytes, 0 when there is no row
          ryBlobs,     \* segments whose blob is there
          ryReceipt,   \* the event of type replay: "none", "clean", or "dropped" (policy_drop_reason)
          ryFailed,    \* is the receipt's processing_status failed?
          ryManifest,  \* the row of replay_manifests, with the segments of its timeline and assets
          ryReq,       \* of each envelope, the state of its request
          rySent,
          ryDropped,   \* history: did the policy drop a recording of the latest replay_event?
          ryRaced,     \* history: were two recordings measured before either was saved?
          ryTorn,      \* history: segments whose blob a failed save has removed
          ryBehind     \* history: has no envelope been indexed alone since one failed or crossed?

vars == <<rySize, ryBlobs, ryReceipt, ryFailed, ryManifest, ryReq, rySent, ryDropped, ryRaced, ryTorn, ryBehind>>

NoManifest == [status |-> "none", assets |-> {}]
AtRest == [pc |-> "idle", ix |-> 1, drop |-> FALSE, known |-> FALSE, others |-> 0,
           error |-> FALSE, assets |-> {}, mixed |-> FALSE]

Init ==
  /\ rySize = [s \in Segments |-> 0] /\ ryBlobs = {} /\ ryReceipt = "none" /\ ryFailed = FALSE
  /\ ryManifest = NoManifest /\ ryReq = [e \in Envelopes |-> AtRest] /\ rySent = [e \in Envelopes |-> 0]
  /\ ryDropped = FALSE /\ ryRaced = FALSE /\ ryTorn = {} /\ ryBehind = FALSE

Active == {e \in Envelopes : ryReq[e].pc # "idle"}
At(e, pc) == ryReq[e].pc = pc
Goto(e, pc) == ryReq' = [ryReq EXCEPT ![e].pc = pc]
Recording(e) == Recordings[e][ryReq[e].ix]
Stored == {s \in Segments : rySize[s] > 0}
Bytes(S) == FoldSet(LAMBDA s, n : rySize[s] + n, 0, S)

\* The request ends with an error, before or after it has recorded a drop.
Ended(e) ==
  /\ ryReq' = [ryReq EXCEPT ![e] = AtRest] /\ ryBehind' = TRUE
  /\ ryDropped' = (ryDropped /\ ~(ryReq[e].drop /\ ryReq[e].pc \in {"find", "receipt"}))

-----------------------------------------------------------------------------
\* The request of an envelope

\* After the items: the receipt is saved again with the reason of a drop, if there is one.
AfterItems(e, drop, ix) ==
  IF drop /\ WithEvent[e] THEN "find"
  ELSE IF WithEvent[e] \/ ix > 1 THEN "index" ELSE "idle"

NextItem(e, ix) == IF ix <= Len(Recordings[e]) THEN "measure" ELSE AfterItems(e, FALSE, ix)

\* From here on the requests in progress are not alone.
Begin(e) ==
  /\ At(e, "idle") /\ rySent[e] < MaxSends
  /\ rySent' = [rySent EXCEPT ![e] = @ + 1]
  /\ ryReq' = [o \in Envelopes |->
       IF o = e THEN [AtRest EXCEPT !.pc = IF WithEvent[e] THEN "find" ELSE NextItem(e, 1)]
       ELSE [ryReq[o] EXCEPT !.mixed = ryReq[o].pc # "idle"]]
  /\ UNCHANGED <<rySize, ryBlobs, ryReceipt, ryFailed, ryManifest, ryDropped, ryRaced, ryTorn, ryBehind>>

\* SaveEnvelopeReplay looks for the receipt ...
FindReceipt(e) ==
  /\ At(e, "find")
  /\ ryReq' = [ryReq EXCEPT ![e].pc = "receipt", ![e].known = ryReceipt # "none"]
  /\ UNCHANGED <<rySize, ryBlobs, ryReceipt, ryFailed, ryManifest, rySent, ryDropped, ryRaced, ryTorn, ryBehind>>

\* ... and writes it. A receipt that came meanwhile has another id: UNIQUE(project_id,
\* event_id) refuses this one.
UpsertEvent(e) ==
  /\ At(e, "receipt")
  /\ IF ~ryReq[e].known /\ ryReceipt # "none"
     THEN Ended(e) /\ UNCHANGED <<ryReceipt, ryFailed>>
     ELSE /\ ryReceipt' = IF ryReq[e].drop THEN "dropped" ELSE "clean"
          /\ ryFailed' = FALSE /\ ryDropped' = ryReq[e].drop
          /\ Goto(e, "manifest") /\ UNCHANGED ryBehind
  /\ UNCHANGED <<rySize, ryBlobs, ryManifest, rySent, ryRaced, ryTorn>>

\* SaveEnvelopeReplay's upsertManifest has neither assets nor a timeline.
ClearManifest(e) ==
  /\ At(e, "manifest")
  /\ ryManifest' = [status |-> "partial", assets |-> {}]
  /\ Goto(e, IF ryReq[e].drop THEN "index" ELSE NextItem(e, ryReq[e].ix))
  /\ UNCHANGED <<rySize, ryBlobs, ryReceipt, ryFailed, rySent, ryDropped, ryRaced, ryTorn, ryBehind>>

\* Variant: the segment at hand is not measured.
ProjectedStored(e) == Bytes(Segments \ {Recording(e).segment})

ProjectedReplayRecordingBytes(e) == Bytes(Segments \ {Recording(e).segment}) + Recording(e).size

\* Over the limit, this and the later recordings of the envelope are dropped.
Measure(e) ==
  /\ At(e, "measure")
  /\ LET drop == ProjectedReplayRecordingBytes(e) > MaxBytes
     IN  /\ ryReq' = [ryReq EXCEPT ![e].pc = IF drop THEN AfterItems(e, TRUE, ryReq[e].ix) ELSE "put",
                                   ![e].drop = drop, ![e].others = Bytes(Segments \ {Recording(e).segment})]
         /\ ryDropped' = (ryDropped \/ (drop /\ WithEvent[e]))
  /\ UNCHANGED <<rySize, ryBlobs, ryReceipt, ryFailed, ryManifest, rySent, ryRaced, ryTorn, ryBehind>>

\* SaveReplayRecording puts the blob ...
PutBlob(e) ==
  /\ At(e, "put")
  /\ ryBlobs' = ryBlobs \cup {Recording(e).segment} /\ ryTorn' = ryTorn \ {Recording(e).segment}
  /\ Goto(e, "row")
  /\ UNCHANGED <<rySize, ryReceipt, ryFailed, ryManifest, rySent, ryDropped, ryRaced, ryBehind>>

\* Variant: the row is written before the blob.
SaveRowFirst(e) ==
  /\ At(e, "put") \/ At(e, "row")
  /\ LET r == Recording(e)
     IN  /\ rySize' = [rySize EXCEPT ![r.segment] = r.size]
         /\ ryRaced' = (ryRaced \/ ryReq[e].others # Bytes(Segments \ {r.segment}))
         /\ ryReq' = IF At(e, "put") THEN ryReq
                     ELSE [ryReq EXCEPT ![e].ix = @ + 1, ![e].pc = NextItem(e, ryReq[e].ix + 1)]
  /\ UNCHANGED <<ryBlobs, ryReceipt, ryFailed, ryManifest, rySent, ryDropped, ryTorn, ryBehind>>

\* ... and inserts or updates the row.
SaveRow(e) ==
  /\ At(e, "row")
  /\ LET r == Recording(e)
     IN  /\ rySize' = [rySize EXCEPT ![r.segment] = r.size]
         /\ ryRaced' = (ryRaced \/ ryReq[e].others # Bytes(Segments \ {r.segment}))
         /\ ryReq' = [ryReq EXCEPT ![e].ix = @ + 1, ![e].pc = NextItem(e, ryReq[e].ix + 1)]
  /\ UNCHANGED <<ryBlobs, ryReceipt, ryFailed, ryManifest, rySent, ryDropped, ryTorn, ryBehind>>

\* The row cannot be written: the blob is deleted, also that of an earlier row or of
\* another request that is about to write the row.
SaveRowFails(e) ==
  /\ At(e, "row")
  /\ ryBlobs' = ryBlobs \ {Recording(e).segment}
  /\ ryTorn' = ryTorn \cup
       ({Recording(e).segment} \cap (Stored \cup {Recording(o).segment : o \in {o \in Active \ {e} : At(o, "row")}}))
  /\ Ended(e)
  /\ UNCHANGED <<rySize, ryReceipt, ryFailed, ryManifest, rySent, ryRaced>>

-----------------------------------------------------------------------------
\* IndexReplay

\* Without a receipt there is nothing to index.
LoadReceipt(e) ==
  /\ At(e, "index")
  /\ ryReq' = [ryReq EXCEPT ![e] =
       IF ryReceipt = "none" THEN AtRest
       ELSE [@ EXCEPT !.pc = "assets", !.error = ryReceipt = "dropped", !.mixed = Active # {e}]]
  /\ UNCHANGED <<rySize, ryBlobs, ryReceipt, ryFailed, ryManifest, rySent, ryDropped, ryRaced, ryTorn, ryBehind>>

loadReplayAssets(e) ==
  /\ At(e, "assets")
  /\ ryReq' = [ryReq EXCEPT ![e].pc = "blobs", ![e].assets = Stored]
  /\ UNCHANGED <<rySize, ryBlobs, ryReceipt, ryFailed, ryManifest, rySent, ryDropped, ryRaced, ryTorn, ryBehind>>

\* A blob that is missing ends the request.
buildReplayTimeline(e) ==
  /\ At(e, "blobs")
  /\ IF ryReq[e].assets \subseteq ryBlobs THEN Goto(e, "write") /\ UNCHANGED <<ryBehind, ryDropped>> ELSE Ended(e)
  /\ UNCHANGED <<rySize, ryBlobs, ryReceipt, ryFailed, ryManifest, rySent, ryRaced, ryTorn>>

\* Variant: a segment that cannot be decoded does not count beside others.
IndexedStatusLenient(assets, error) ==
  IF assets = {} THEN "partial"
  ELSE IF assets \subseteq Undecodable THEN "failed"
  ELSE IF error THEN "partial" ELSE "ready"

\* A segment that can be decoded has items of the timeline.
IndexedStatus(assets, error) ==
  IF assets = {} THEN "partial"
  ELSE IF assets \subseteq Undecodable THEN "failed"
  ELSE IF error \/ assets \cap Undecodable # {} THEN "partial" ELSE "ready"

upsertManifest(e) ==
  /\ At(e, "write")
  /\ ryManifest' = [status |-> IndexedStatus(ryReq[e].assets, ryReq[e].error), assets |-> ryReq[e].assets]
  /\ Goto(e, "status")
  /\ UNCHANGED <<rySize, ryBlobs, ryReceipt, ryFailed, rySent, ryDropped, ryRaced, ryTorn, ryBehind>>

\* The receipt gets the status of the manifest this request has written.
UpdateProcessingStatus(e) ==
  /\ At(e, "status")
  /\ ryFailed' = (IndexedStatus(ryReq[e].assets, ryReq[e].error) = "failed")
  /\ ryReq' = [ryReq EXCEPT ![e] = AtRest] /\ ryBehind' = ryReq[e].mixed
  /\ UNCHANGED <<rySize, ryBlobs, ryReceipt, ryManifest, rySent, ryDropped, ryRaced, ryTorn>>

-----------------------------------------------------------------------------

\* A statement or the blob store fails, the client goes away, or the process crashes.
Interrupt(e) ==
  /\ ~At(e, "idle")
  /\ Ended(e)
  /\ UNCHANGED <<rySize, ryBlobs, ryReceipt, ryFailed, ryManifest, rySent, ryRaced, ryTorn>>

\* The receipt and the segments stay: the next envelope brings the replay back.
DeleteReplay ==
  /\ ryManifest # NoManifest
  /\ ryManifest' = NoManifest
  /\ UNCHANGED <<rySize, ryBlobs, ryReceipt, ryFailed, ryReq, rySent, ryDropped, ryRaced, ryTorn, ryBehind>>

\* The behaviours are cut when every envelope has been sent MaxSends times.
Over == Active = {} /\ (\A e \in Envelopes : rySent[e] = MaxSends) /\ UNCHANGED vars

Next ==
  \/ DeleteReplay \/ Over
  \/ \E e \in Envelopes :
       \/ Begin(e) \/ FindReceipt(e) \/ UpsertEvent(e) \/ ClearManifest(e) \/ Measure(e) \/ PutBlob(e)
       \/ SaveRow(e) \/ SaveRowFails(e) \/ LoadReceipt(e) \/ loadReplayAssets(e) \/ buildReplayTimeline(e)
       \/ upsertManifest(e) \/ UpdateProcessingStatus(e) \/ Interrupt(e)

Spec == Init /\ [][Next]_vars

-----------------------------------------------------------------------------

\* Every variable has its type.
TypeOK ==
  /\ rySize \in [Segments -> Nat] /\ ryBlobs \subseteq Segments /\ ryTorn \subseteq Segments
  /\ ryReceipt \in {"none", "clean", "dropped"}
  /\ ryManifest.status \in {"none", "partial", "ready", "failed"} /\ ryManifest.assets \subseteq Segments
  /\ rySent \in [Envelopes -> 0..MaxSends]
  /\ {ryFailed, ryDropped, ryRaced, ryBehind} \subseteq BOOLEAN
  /\ \A e \in Envelopes : ryReq[e].ix \in 1..Len(Recordings[e]) + 1 /\ ryReq[e].assets \subseteq Segments

\* Between requests the manifest is of the segments that are stored, all of them: it is
\* ready if each can be decoded and the policy dropped none since the latest replay_event,
\* failed (with the receipt) if none can be decoded, else partial. One envelope that is
\* indexed alone restores this after any errors, crashes, deletions and crossed requests.
\* A row has its blob, unless a save of the segment failed over another one; and the
\* rows are within max_bytes, unless two requests measured the replay before either saved.
ReplayAsStoredUnlessCrossed ==
  /\ Active = {} /\ ~ryBehind /\ ryManifest # NoManifest =>
       /\ ryManifest.assets = Stored
       /\ ryManifest.status = "ready" <=> Stored # {} /\ Stored \cap Undecodable = {} /\ ~ryDropped
       /\ ryManifest.status = "failed" <=> Stored # {} /\ Stored \subseteq Undecodable
       /\ ryFailed <=> ryManifest.status = "failed"
  /\ Stored \subseteq ryBlobs \cup ryTorn
  /\ ryRaced \/ Bytes(Segments) <= MaxBytes

=============================================================================
