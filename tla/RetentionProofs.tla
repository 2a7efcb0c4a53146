--------------------------- MODULE RetentionProofs ---------------------------
(***************************************************************************)
(* No payload is lost to retention, for any records, sweepers and faults.  *)
(* Of a record that no sweep crossed, the copy in the archive is there     *)
(* before the object goes, and the object is back before the entry or the  *)
(* copy goes. The invariant follows a sweep through the stages of          *)
(* archiveRecord: meanwhile it is alone with the record, since whoever     *)
(* comes to it crosses it. A restore and a reader of one file may overlap, *)
(* for both bring the object back first.                                   *)
(***************************************************************************)
EXTENDS Retention, TLAPS

\* Types.
SweepState ==
  [pc : {"idle", "list", "purge", "load", "put", "drop", "insert", "row", "boundary", "expire", "stuck",
         "orphans", "swept"},
   left : Seq(Records), found : BOOLEAN]
Visit ==
  [pc : {"idle", "load", "put", "insert", "entry", "drop", "get", "find", "mark"},
   rec : Records \cup {NoRecord}, id : Nat, keyed : BOOLEAN]

LeftNonEmpty == \A s \in Sweepers : rtSw[s].pc \notin {"idle", "swept"} => Len(rtSw[s].left) > 0

RetentionType ==
  /\ rtRow \in [Records -> BOOLEAN] /\ rtObj \in [Records -> BOOLEAN] /\ rtArc \in [Records -> BOOLEAN]
  /\ rtEntry \in [Records -> [id : Nat, active : BOOLEAN, keyed : BOOLEAN, age : Int]]
  /\ rtSw \in [Sweepers -> SweepState]
  /\ LeftNonEmpty
  /\ rtRs \in Visit /\ (rtRs.pc = "idle" <=> rtRs.rec = NoRecord)
  /\ rtRd \in Visit /\ (rtRd.pc = "idle" <=> rtRd.rec = NoRecord)

Archived(r) == rtEntry[r].active /\ rtEntry[r].keyed /\ rtArc[r]
Kept(r) == IF rtRow[r] THEN rtObj[r] \/ Archived(r) ELSE Archived(r)

SweepOn(s, r, pcs) == rtSw[s].pc \in pcs /\ Rec(s) = r
Archiving(s, r) == SweepOn(s, r, {"load", "put", "drop", "insert", "row"})

\* The entry leads to the object; the row of a file stays.
EntryAndRow(r) == (rtEntry[r].active => rtEntry[r].keyed) /\ (r \in Files => rtRow[r])

\* A sweep archives the record alone, and has copied the object before it drops it.
Stage(s, r) ==
  /\ rtRow[r]
  /\ rtSw[s].pc \in {"put", "drop"} => rtSw[s].found /\ rtObj[r]
  /\ rtSw[s].pc = "drop" => rtArc[r]
  /\ rtSw[s].pc = "insert" => IF rtSw[s].found THEN rtArc[r] ELSE Archived(r)
  /\ rtSw[s].pc = "row" => Archived(r) /\ r \notin Files
ArchivedAlone(r) ==
  \A s \in Sweepers :
    /\ ~SweepOn(s, r, {"purge", "expire"})
    /\ Archiving(s, r) => /\ \A g \in Sweepers \ {s} : ~Archiving(g, r)
                          /\ rtRs.rec # r /\ rtRd.rec # r /\ Stage(s, r)
\* A restore and a reader have the object back before the entry or the archived one goes.
BackFirst(r) ==
  /\ rtRs.rec = r => /\ rtRs.keyed
                     /\ rtRs.pc \in {"insert", "entry", "drop"} => rtObj[r]
                     /\ rtRs.pc \in {"entry", "drop"} => rtRow[r]
  /\ rtRd.rec = r => r \in Files /\ (rtRd.pc \in {"drop", "mark"} => rtObj[r])

KeptThroughout(r) ==
  /\ EntryAndRow(r) /\ ArchivedAlone(r) /\ BackFirst(r)
  /\ Kept(r) \/ \E s \in Sweepers : SweepOn(s, r, {"insert"})

RetentionInv ==
  RetentionType /\ \A r \in Records \ (rtGone \cup rtCrossed) : KeptThroughout(r)

\* Sweeper s is at p now, the others are where they were.
SweepsTo(s, p) ==
  /\ rtSw' \in [Sweepers -> SweepState] /\ LeftNonEmpty' /\ rtSw'[s].pc = p
  /\ \A g \in Sweepers \ {s} : /\ rtSw'[g].pc = rtSw[g].pc /\ rtSw'[g].found = rtSw[g].found
                                /\ Rec(g)' = Rec(g)
\* With the same record before it.
SameSurface(s) == Rec(s)' = Rec(s) /\ rtSw'[s].found = rtSw[s].found
\* All are where they were.
SweepersStay ==
  /\ rtSw' \in [Sweepers -> SweepState] /\ LeftNonEmpty'
  /\ \A g \in Sweepers : /\ rtSw'[g].pc = rtSw[g].pc /\ rtSw'[g].found = rtSw[g].found
                          /\ Rec(g)' = Rec(g)

\* A sweep that goes on has a record before it.
LEMMA RecInRecords ==
  ASSUME RetentionType, NEW s \in Sweepers, rtSw[s].pc \notin {"idle", "swept"}
  PROVE  Rec(s) \in Records
<1>1. rtSw[s].left \in Seq(Records) /\ Len(rtSw[s].left) > 0
  BY Zenon DEF RetentionType, SweepState, LeftNonEmpty
<1> QED
  BY <1>1 DEF Rec

\* SweepGo moves one sweeper.
LEMMA GoFrame ==
  ASSUME RetentionType, NEW s \in Sweepers, rtSw[s].pc \notin {"idle", "swept"},
         NEW p \in {"list", "purge", "load", "put", "drop", "insert", "row", "boundary", "expire", "stuck",
           "orphans"},
         SweepGo(s, p)
  PROVE  SweepsTo(s, p) /\ SameSurface(s)
<1>1. rtSw' \in [Sweepers -> SweepState]
  BY Zenon DEF RetentionType, SweepState, SweepGo
<1>2. \A g \in Sweepers : rtSw'[g].left = rtSw[g].left /\ rtSw'[g].found = rtSw[g].found
  BY Zenon DEF RetentionType, SweepState, SweepGo
<1>3. rtSw'[s].pc = p /\ \A g \in Sweepers \ {s} : rtSw'[g].pc = rtSw[g].pc
  BY Zenon DEF RetentionType, SweepState, SweepGo
<1>4. LeftNonEmpty'
  BY <1>2, <1>3, Zenon DEF RetentionType, LeftNonEmpty
<1> QED
  BY <1>1, <1>2, <1>3, <1>4, Zenon DEF SweepsTo, SameSurface, Rec

\* A sweeper that is back at rest.
LEMMA RestFrame ==
  ASSUME RetentionType, NEW s \in Sweepers, rtSw' = [rtSw EXCEPT ![s] = Resting]
  PROVE  SweepsTo(s, "idle")
<1>1. Resting \in SweepState
  BY DEF Resting, SweepState
<1>2. rtSw' \in [Sweepers -> SweepState] /\ rtSw'[s] = Resting /\ \A g \in Sweepers \ {s} : rtSw'[g] = rtSw[g]
  BY <1>1, Zenon DEF RetentionType
<1>3. LeftNonEmpty'
  BY <1>2, Zenon DEF RetentionType, LeftNonEmpty, Resting
<1> QED
  BY <1>2, <1>3, Zenon DEF SweepsTo, Rec, Resting

\* After a surface Apply goes on, ExecuteSurface is done.
LEMMA DoneFrame ==
  ASSUME RetentionType, NEW s \in Sweepers, rtSw[s].pc \notin {"idle", "swept"}, SurfaceDone(s)
  PROVE  \E p \in {"idle", "orphans"} : SweepsTo(s, p)
<1>1. CASE s = Scheduler
  <2>1. SweepGo(s, "orphans")
    BY <1>1, Zenon DEF SurfaceDone, SweepGo
  <2> QED
    BY <2>1, GoFrame, Zenon
<1>2. CASE s # Scheduler
  <2>1. rtSw' = [rtSw EXCEPT ![s] = Resting]
    BY <1>2, Zenon DEF SurfaceDone
  <2> QED
    BY <2>1, RestFrame, Zenon
<1> QED
  BY <1>1, <1>2, Zenon

\* A step of somebody else.
LEMMA StayFrame ==
  ASSUME RetentionType, UNCHANGED rtSw PROVE SweepersStay
  BY Zenon DEF SweepersStay, RetentionType, LeftNonEmpty, Rec

\* Nobody is at work on no record.
LEMMA NotARecord == NoRecord \notin Records
  BY OrderAssumption, Zenon

\* What counts of the record is as it was.
SameRecord(r) ==
  /\ rtRow'[r] = rtRow[r] /\ rtObj'[r] = rtObj[r] /\ rtArc'[r] = rtArc[r]
  /\ rtEntry'[r].active = rtEntry[r].active /\ rtEntry'[r].keyed = rtEntry[r].keyed

\* A sweep does something to its record there.
Working == {"purge", "load", "put", "drop", "insert", "row", "expire"}

\* A step of a sweep, seen by a record it does not touch.
LEMMA SweptElsewhere ==
  ASSUME NEW r \in Records, KeptThroughout(r), NEW s \in Sweepers, NEW p, SweepsTo(s, p),
         p \notin Working \/ Rec(s)' # r, ~SweepOn(s, r, {"insert"}), SameRecord(r), UNCHANGED <<rtRs, rtRd>>
  PROVE  KeptThroughout(r)'
<1>1. \A g \in Sweepers : SweepOn(g, r, {"insert"}) => SweepOn(g, r, {"insert"})'
  BY Zenon DEF SweepsTo, SweepOn
<1>2. EntryAndRow(r)' /\ BackFirst(r)' /\ (Kept(r) => Kept(r)')
  BY Zenon DEF KeptThroughout, EntryAndRow, BackFirst, SameRecord, Kept, Archived
<1>3. ASSUME NEW g \in Sweepers, Archiving(g, r)' PROVE g # s /\ Archiving(g, r)
  BY <1>3, Zenon DEF SweepsTo, Working, Archiving, SweepOn
<1>4. ASSUME NEW g \in Sweepers, SweepOn(g, r, {"purge", "expire"})' PROVE FALSE
  BY <1>4, Zenon DEF SweepsTo, Working, SweepOn, KeptThroughout, ArchivedAlone
<1>5. ArchivedAlone(r)'
  BY <1>3, <1>4 DEF KeptThroughout, ArchivedAlone, SweepsTo, SameRecord, Archived, Stage
<1> QED
  BY <1>1, <1>2, <1>5, Zenon DEF KeptThroughout

\* A step of a restore, a reader or a user, seen by such a record.
LEMMA VisitedElsewhere ==
  ASSUME NEW r \in Records, KeptThroughout(r), SweepersStay, SameRecord(r), BackFirst(r)',
         rtRs'.rec = r \/ rtRd'.rec = r => \A s \in Sweepers : ~Archiving(s, r)
  PROVE  KeptThroughout(r)'
<1>1. \A g \in Sweepers : SweepOn(g, r, {"insert"}) => SweepOn(g, r, {"insert"})'
  BY Zenon DEF SweepersStay, SweepOn
<1>2. EntryAndRow(r)' /\ (Kept(r) => Kept(r)')
  BY Zenon DEF KeptThroughout, EntryAndRow, SameRecord, Kept, Archived
<1>3. ASSUME NEW g \in Sweepers, Archiving(g, r)' PROVE Archiving(g, r)
  BY <1>3, Zenon DEF SweepersStay, Archiving, SweepOn
<1>4. ASSUME NEW g \in Sweepers, SweepOn(g, r, {"purge", "expire"})' PROVE FALSE
  BY <1>4, Zenon DEF SweepersStay, SweepOn, KeptThroughout, ArchivedAlone
<1>5. ArchivedAlone(r)'
  BY <1>3, <1>4 DEF KeptThroughout, ArchivedAlone, SweepersStay, SameRecord, Archived, Stage
<1> QED
  BY <1>1, <1>2, <1>5, Zenon DEF KeptThroughout

\* A step of the only one that is at work on a record.
LEMMA SweptOn ==
  ASSUME NEW r \in Records, KeptThroughout(r), NEW s \in Sweepers, NEW p, SweepsTo(s, p), p \in Working =>
    Rec(s)' = r,
         p \notin {"purge", "expire"},
         Archiving(s, r) \/ ((\A g \in Sweepers : ~Archiving(g, r)) /\ rtRs.rec # r /\ rtRd.rec # r),
         UNCHANGED <<rtRs, rtRd>>, EntryAndRow(r)', Archiving(s, r)' => Stage(s, r)', Kept(r)' \/ p = "insert"
  PROVE  KeptThroughout(r)'
<1>1. rtRs.rec # r /\ rtRd.rec # r /\ \A g \in Sweepers \ {s} : ~Archiving(g, r)
  BY Zenon DEF KeptThroughout, ArchivedAlone
<1>2. BackFirst(r)'
  BY <1>1, Zenon DEF BackFirst
<1>3. \A g \in Sweepers \ {s} : ~Archiving(g, r)'
  BY <1>1, Zenon DEF SweepsTo, Archiving, SweepOn
<1>4. ASSUME NEW g \in Sweepers, SweepOn(g, r, {"purge", "expire"})' PROVE FALSE
  BY <1>4, Zenon DEF SweepsTo, SweepOn, KeptThroughout, ArchivedAlone
<1>5. ArchivedAlone(r)'
  BY <1>1, <1>3, <1>4, Zenon DEF ArchivedAlone
<1>6. p = "insert" => SweepOn(s, r, {"insert"})'
  BY Zenon DEF SweepsTo, SweepOn, Working
<1> QED
  BY <1>2, <1>5, <1>6, Zenon DEF KeptThroughout

\* The copy is there before the object is dropped.
LEMMA PutKeeps ==
  ASSUME RetentionInv, NEW s \in Sweepers, Put(s) PROVE RetentionInv'
<1>1. RetentionType /\ Rec(s) \in Records
  BY RecInRecords, Zenon DEF RetentionInv, Put, SweepAt
<1>2. SweepsTo(s, "drop") /\ SameSurface(s)
  BY <1>1, GoFrame, Zenon DEF Put, SweepAt
<1>3. RetentionType'
  BY <1>1, <1>2, Zenon DEF Put, RetentionType, SweepsTo
<1>4. ASSUME NEW r \in Records \ (rtGone \cup rtCrossed)' PROVE KeptThroughout(r)'
  <2>1. KeptThroughout(r)
    BY <1>4, Zenon DEF RetentionInv, Put, rest
  <2>2. CASE r # Rec(s)
    <3>1. SameRecord(r) /\ UNCHANGED <<rtRs, rtRd>> /\ ~SweepOn(s, r, {"insert"})
      BY <1>1, <2>2, Zenon DEF Put, SameRecord, RetentionType, SweepOn
    <3> QED
      BY <1>2, <2>1, <2>2, <3>1, SweptElsewhere, Zenon DEF SameSurface
  <2>3. CASE r = Rec(s)
    <3>1. Archiving(s, r)
      BY <2>3, Zenon DEF Put, SweepAt, Archiving, SweepOn
    <3>3. EntryAndRow(r)' /\ Stage(s, r)'
      BY <1>1, <1>2, <2>1, <2>3, <3>1, Zenon DEF Put, SweepAt, KeptThroughout, ArchivedAlone, EntryAndRow, Stage,
        Archived,
        RetentionType, SweepsTo, SameSurface
    <3>4. Kept(r)'
      BY <1>1, <1>2, <2>1, <2>3, <3>1, Zenon DEF Put, SweepAt, KeptThroughout, ArchivedAlone, Stage, Archived,
        Kept, RetentionType
    <3> QED
      BY <1>2, <2>1, <2>3, <3>1, <3>3, <3>4, SweptOn, Zenon DEF Put, SameSurface
  <2> QED
    BY <2>2, <2>3, Zenon
<1> QED
  BY <1>3, <1>4, Zenon DEF RetentionInv

\* The object goes, its copy is there.
LEMMA DropKeeps ==
  ASSUME RetentionInv, NEW s \in Sweepers, Drop(s) PROVE RetentionInv'
<1>1. RetentionType /\ Rec(s) \in Records
  BY RecInRecords, Zenon DEF RetentionInv, Drop, SweepAt
<1>2. SweepsTo(s, "insert") /\ SameSurface(s)
  BY <1>1, GoFrame, Zenon DEF Drop, SweepAt
<1>3. RetentionType'
  BY <1>1, <1>2, Zenon DEF Drop, RetentionType, SweepsTo
<1>4. ASSUME NEW r \in Records \ (rtGone \cup rtCrossed)' PROVE KeptThroughout(r)'
  <2>1. KeptThroughout(r)
    BY <1>4, Zenon DEF RetentionInv, Drop, rest
  <2>2. CASE r # Rec(s)
    <3>1. SameRecord(r) /\ UNCHANGED <<rtRs, rtRd>> /\ ~SweepOn(s, r, {"insert"})
      BY <1>1, <2>2, Zenon DEF Drop, SameRecord, RetentionType, SweepOn
    <3> QED
      BY <1>2, <2>1, <2>2, <3>1, SweptElsewhere, Zenon DEF SameSurface
  <2>3. CASE r = Rec(s)
    <3>1. Archiving(s, r)
      BY <2>3, Zenon DEF Drop, SweepAt, Archiving, SweepOn
    <3>3. EntryAndRow(r)' /\ Stage(s, r)'
      BY <1>1, <1>2, <2>1, <2>3, <3>1, Zenon DEF Drop, SweepAt, KeptThroughout, ArchivedAlone, EntryAndRow, Stage,
        Archived,
        RetentionType, SweepsTo, SameSurface
    <3>4. TRUE
      BY <1>1, <1>2, <2>1, <2>3, <3>1, Zenon DEF Drop, SweepAt, KeptThroughout, ArchivedAlone, Stage, Archived,
        Kept, RetentionType
    <3> QED
      BY <1>2, <2>1, <2>3, <3>1, <3>3, <3>4, SweptOn, Zenon DEF Drop, SameSurface
  <2> QED
    BY <2>2, <2>3, Zenon
<1> QED
  BY <1>3, <1>4, Zenon DEF RetentionInv

\* Where the object is not found, the record is archived already.
LEMMA LoadKeeps ==
  ASSUME RetentionInv, NEW s \in Sweepers, Load(s) PROVE RetentionInv'
<1>1. RetentionType /\ Rec(s) \in Records
  BY RecInRecords, Zenon DEF RetentionInv, Load, SweepAt
<1> DEFINE p == IF rtObj[Rec(s)] THEN "put" ELSE "insert"
<1>2. SweepsTo(s, p) /\ Rec(s)' = Rec(s) /\ rtSw'[s].found = rtObj[Rec(s)]
  <2>1. rtSw' = [rtSw EXCEPT ![s] = [pc |-> p, left |-> rtSw[s].left, found |-> rtObj[Rec(s)]]]
    BY Zenon DEF Load
  <2>2. rtObj[Rec(s)] \in BOOLEAN /\ p \in {"put", "insert"} /\ rtSw[s] \in SweepState
    BY <1>1, Zenon DEF RetentionType
  <2> HIDE DEF p
  <2>3. [pc |-> p, left |-> rtSw[s].left, found |-> rtObj[Rec(s)]] \in SweepState
    BY <2>2, Zenon DEF SweepState
  <2>4. /\ rtSw' \in [Sweepers -> SweepState]
        /\ rtSw'[s].pc = p /\ rtSw'[s].left = rtSw[s].left /\ rtSw'[s].found = rtObj[Rec(s)]
        /\ \A g \in Sweepers \ {s} : rtSw'[g] = rtSw[g]
    BY <1>1, <2>1, <2>3, Zenon DEF RetentionType
  <2>5. LeftNonEmpty'
    BY <1>1, <2>4, Zenon DEF RetentionType, LeftNonEmpty, Load, SweepAt
  <2> QED
    BY <2>4, <2>5, Zenon DEF SweepsTo, Rec
<1> HIDE DEF p
<1>3. RetentionType'
  BY <1>1, <1>2, Zenon DEF Load, RetentionType, SweepsTo
<1>4. ASSUME NEW r \in Records \ (rtGone \cup rtCrossed)' PROVE KeptThroughout(r)'
  <2>1. KeptThroughout(r)
    BY <1>4, Zenon DEF RetentionInv, Load, rest
  <2>2. CASE r # Rec(s)
    <3>1. SameRecord(r) /\ UNCHANGED <<rtRs, rtRd>> /\ ~SweepOn(s, r, {"insert"})
      BY <1>1, <2>2, Zenon DEF Load, SameRecord, RetentionType, SweepOn
    <3> QED
      BY <1>2, <2>1, <2>2, <3>1, SweptElsewhere, Zenon
  <2>3. CASE r = Rec(s)
    <3>1. Archiving(s, r)
      BY <2>3, Zenon DEF Load, SweepAt, Archiving, SweepOn
    <3>2. Kept(r) /\ rtRow[r] /\ EntryAndRow(r)
      BY <2>1, <3>1, Zenon DEF KeptThroughout, ArchivedAlone, Stage, Archiving, SweepOn, Load, SweepAt
    <3>3. EntryAndRow(r)' /\ Stage(s, r)' /\ Kept(r)'
      BY <1>2, <2>3, <3>2, Zenon DEF Load, EntryAndRow, Stage, Archived, Kept, SweepsTo, p
    <3>4. p \notin {"purge", "expire"}
      BY Zenon DEF p
    <3> QED
      BY <1>2, <2>1, <2>3, <3>1, <3>3, <3>4, SweptOn, Zenon DEF Load
  <2> QED
    BY <2>2, <2>3, Zenon
<1> QED
  BY <1>3, <1>4, Zenon DEF RetentionInv

\* The new entry, or the one that is there, leads to the copy.
LEMMA InsertEntryKeeps ==
  ASSUME RetentionInv, NEW s \in Sweepers, InsertEntry(s) PROVE RetentionInv'
<1>1. RetentionType /\ Rec(s) \in Records
  BY RecInRecords, Zenon DEF RetentionInv, InsertEntry, SweepAt
<1> DEFINE p == IF rtEntry[Rec(s)].active THEN "idle" ELSE IF Rec(s) \in Files THEN "boundary" ELSE "row"
<1>2. SweepsTo(s, p) /\ (p = "row" => SameSurface(s))
  <2>1. CASE rtEntry[Rec(s)].active
    BY <1>1, <2>1, RestFrame, Zenon DEF InsertEntry
  <2>2. CASE ~rtEntry[Rec(s)].active
    BY <1>1, <2>2, GoFrame, Zenon DEF InsertEntry, SweepAt
  <2> QED
    BY <2>1, <2>2, Zenon
<1>3. rtEntry' \in [Records -> [id : Nat, active : BOOLEAN, keyed : BOOLEAN, age : Int]]
  <2>1. rtSw[s].found \in BOOLEAN /\ rtEntry[Rec(s)].id + 1 \in Nat
    BY <1>1 DEF RetentionType, SweepState
  <2>2. [id |-> rtEntry[Rec(s)].id + 1, active |-> TRUE, keyed |-> rtSw[s].found, age |-> 0]
          \in [id : Nat, active : BOOLEAN, keyed : BOOLEAN, age : Int]
    BY <2>1
  <2> QED
    BY <1>1, <2>2, Zenon DEF InsertEntry, RetentionType
<1>4. /\ \A r \in Records \ {Rec(s)} : rtEntry'[r] = rtEntry[r]
      /\ rtEntry'[Rec(s)].active
      /\ IF rtEntry[Rec(s)].active THEN rtEntry'[Rec(s)].keyed = rtEntry[Rec(s)].keyed
         ELSE rtEntry'[Rec(s)].keyed = rtSw[s].found
  BY <1>1, SMTT(30) DEF InsertEntry, RetentionType
<1> HIDE DEF p
<1>5. RetentionType'
  BY <1>1, <1>2, <1>3, Zenon DEF InsertEntry, RetentionType, SweepsTo
<1>6. ASSUME NEW r \in Records \ (rtGone \cup rtCrossed)' PROVE KeptThroughout(r)'
  <2>1. KeptThroughout(r)
    BY <1>6, SMTT(30) DEF RetentionInv, InsertEntry, rest
  <2>2. CASE r # Rec(s)
    <3>1. SameRecord(r) /\ UNCHANGED <<rtRs, rtRd>> /\ ~SweepOn(s, r, {"insert"})
      BY <1>4, <2>2, SMTT(30) DEF InsertEntry, SameRecord, SweepOn
    <3> QED
      BY <1>2, <2>1, <2>2, <3>1, SweptElsewhere, Zenon DEF SameSurface, p, Working
  <2>3. CASE r = Rec(s)
    <3>1. Archiving(s, r)
      BY <2>3, SMTT(30) DEF InsertEntry, SweepAt, Archiving, SweepOn
    <3>2. rtRow[r] /\ EntryAndRow(r) /\ (rtSw[s].found => rtArc[r]) /\ (~rtSw[s].found => Archived(r))
      BY <2>1, <3>1, Zenon DEF KeptThroughout, ArchivedAlone, Stage, Archiving, SweepOn, InsertEntry, SweepAt
    <3>3. EntryAndRow(r)' /\ Archived(r)' /\ rtRow'[r]
      BY <1>4, <2>3, <3>2, Zenon DEF InsertEntry, EntryAndRow, Archived
    <3>4. Archiving(s, r)' => Stage(s, r)' /\ Rec(s)' = r
      BY <1>2, <2>3, <3>3, Zenon DEF Archiving, SweepOn, Stage, SweepsTo, p
    <3>5. Kept(r)'
      BY <3>3, Zenon DEF Kept
    <3> QED
      BY <1>2, <2>1, <2>3, <3>1, <3>3, <3>4, <3>5, SweptOn, Zenon DEF InsertEntry, SameSurface, p, Working
  <2> QED
    BY <2>2, <2>3, Zenon
<1> QED
  BY <1>5, <1>6, Zenon DEF RetentionInv

\* The row of an event goes once it is archived.
LEMMA DeleteArchivedRowKeeps ==
  ASSUME RetentionInv, NEW s \in Sweepers, DeleteArchivedRow(s) PROVE RetentionInv'
<1>1. RetentionType /\ Rec(s) \in Records
  BY RecInRecords, Zenon DEF RetentionInv, DeleteArchivedRow, SweepAt
<1>2. SweepsTo(s, "boundary") /\ SameSurface(s)
  BY <1>1, GoFrame, Zenon DEF DeleteArchivedRow, SweepAt
<1>3. RetentionType'
  BY <1>1, <1>2, Zenon DEF DeleteArchivedRow, RetentionType, SweepsTo
<1>4. ASSUME NEW r \in Records \ (rtGone \cup rtCrossed)' PROVE KeptThroughout(r)'
  <2>1. KeptThroughout(r)
    BY <1>4, SMTT(30) DEF RetentionInv, DeleteArchivedRow, rest
  <2>2. CASE r # Rec(s)
    <3>1. SameRecord(r) /\ UNCHANGED <<rtRs, rtRd>> /\ ~SweepOn(s, r, {"insert"})
      BY <1>1, <2>2, SMTT(30) DEF DeleteArchivedRow, SameRecord, RetentionType, SweepOn
    <3> QED
      BY <1>2, <2>1, <2>2, <3>1, SweptElsewhere, Zenon DEF SameSurface
  <2>3. CASE r = Rec(s)
    <3>1. Archiving(s, r)
      BY <2>3, SMTT(30) DEF DeleteArchivedRow, SweepAt, Archiving, SweepOn
    <3>2. Archived(r) /\ r \notin Files /\ EntryAndRow(r)
      BY <2>1, <3>1, SMTT(30) DEF KeptThroughout, ArchivedAlone, Stage, DeleteArchivedRow, SweepAt
    <3>3. EntryAndRow(r)' /\ Kept(r)' /\ ~Archiving(s, r)'
      BY <1>2, <3>2, Zenon DEF DeleteArchivedRow, EntryAndRow, Kept, Archived, SweepsTo, Archiving, SweepOn
    <3> QED
      BY <1>2, <2>1, <2>3, <3>1, <3>3, SweptOn, Zenon DEF DeleteArchivedRow, SameSurface
  <2> QED
    BY <2>2, <2>3, Zenon
<1> QED
  BY <1>3, <1>4, Zenon DEF RetentionInv

\* The rest of the surfaces.
LEMMA TailOfMore ==
  ASSUME NEW S, NEW q \in Seq(S), Len(q) > 0, Len(q) # 1
  PROVE  Tail(q) \in Seq(S) /\ Len(Tail(q)) > 0
<1>1. Len(q) \in Nat
  OBVIOUS
<1>2. Tail(q) \in Seq(S) /\ Len(Tail(q)) = Len(q) - 1
  OBVIOUS
<1> QED
  BY <1>1, <1>2

\* What is not crossed was not crossed.
LEMMA HistoryGrows ==
  ASSUME RetentionInv, rtGone \subseteq rtGone', rtCrossed \subseteq rtCrossed',
         NEW r \in Records \ (rtGone \cup rtCrossed)'
  PROVE  KeptThroughout(r)
  BY Zenon DEF RetentionInv

\* A sweep goes on without a record.
LEMMA PassesBy ==
  ASSUME RetentionInv, NEW s \in Sweepers, NEW p, p \notin Working, SweepsTo(s, p),
         ~SweepAt(s, "insert"), UNCHANGED <<rtRow, rtObj, rtArc, rtEntry, rtRs, rtRd>>,
         rtGone \subseteq rtGone', rtCrossed \subseteq rtCrossed'
  PROVE  RetentionInv'
<1>1. RetentionType'
  BY Zenon DEF RetentionInv, RetentionType, SweepsTo
<1>2. ASSUME NEW r \in Records \ (rtGone \cup rtCrossed)' PROVE KeptThroughout(r)'
  <2>1. KeptThroughout(r)
    BY HistoryGrows, Zenon
  <2>2. SameRecord(r) /\ ~SweepOn(s, r, {"insert"})
    BY Zenon DEF SameRecord, SweepOn, SweepAt
  <2> QED
    BY <2>1, <2>2, SweptElsewhere, Zenon
<1> QED
  BY <1>1, <1>2, Zenon DEF RetentionInv

\* A sweep is at work on a record that was to be deleted, or that it crossed.
LEMMA WorksOnGone ==
  ASSUME RetentionInv, NEW s \in Sweepers, NEW p, SweepsTo(s, p), p \notin Working \/ Rec(s)' = Rec(s),
         Rec(s) \in (rtGone \cup rtCrossed)', \A r \in Records \ {Rec(s)} : SameRecord(r),
         UNCHANGED <<rtRs, rtRd>>, RetentionType', rtGone \subseteq rtGone', rtCrossed \subseteq rtCrossed'
  PROVE  RetentionInv'
<1>1. ASSUME NEW r \in Records \ (rtGone \cup rtCrossed)' PROVE KeptThroughout(r)'
  <2>1. KeptThroughout(r)
    BY HistoryGrows, Zenon
  <2>2. r # Rec(s)
    OBVIOUS
  <2>3. ~SweepOn(s, r, {"insert"})
    BY <2>2, Zenon DEF SweepOn
  <2> QED
    BY <2>1, <2>2, <2>3, SweptElsewhere, Zenon
<1> QED
  BY <1>1, Zenon DEF RetentionInv

\* A sweep begins.
LEMMA BeginKeeps ==
  ASSUME RetentionInv, NEW s \in Sweepers, Begin(s) PROVE RetentionInv'
<1>1. PICK left \in Seq(Records) :
        Len(left) > 0 /\ rtSw' = [rtSw EXCEPT ![s] = [pc |-> "list", left |-> left, found |-> FALSE]]
  <2>1. \A r \in Records : <<r>> \in Seq(Records) /\ Len(<<r>>) > 0
    OBVIOUS
  <2>2. CASE s = Scheduler
    BY <2>2, OrderAssumption, Zenon DEF Begin
  <2>3. CASE s # Scheduler
    BY <2>1, <2>3, Zenon DEF Begin
  <2> QED
    BY <2>2, <2>3, Zenon
<1>2. RetentionType
  BY Zenon DEF RetentionInv
<1>3. [pc |-> "list", left |-> left, found |-> FALSE] \in SweepState
  BY Zenon DEF SweepState
<1>4. /\ rtSw' \in [Sweepers -> SweepState]
      /\ rtSw'[s].pc = "list" /\ Len(rtSw'[s].left) > 0 /\ \A g \in Sweepers \ {s} : rtSw'[g] = rtSw[g]
  BY <1>1, <1>2, <1>3, Zenon DEF RetentionType
<1>5. SweepsTo(s, "list")
  BY <1>2, <1>4, ZenonT(60) DEF SweepsTo, RetentionType, LeftNonEmpty, Rec
<1> QED
  BY <1>5, PassesBy, Zenon DEF Begin, SweepAt, Working

\* A sweep that comes to a record that somebody is at work on crosses it.
LEMMA ListKeeps ==
  ASSUME RetentionInv, NEW s \in Sweepers, List(s) PROVE RetentionInv'
<1>1. RetentionType /\ Rec(s) \in Records /\ rtSw[s].pc = "list"
  BY RecInRecords, Zenon DEF RetentionInv, List, SweepAt
<1>2. /\ rtCrossed \subseteq rtCrossed' /\ (Rec(s) \in Busy => Rec(s) \in rtCrossed')
      /\ UNCHANGED <<rtRow, rtArc, rtEntry, rtRs, rtRd>>
  BY SMTT(30) DEF List, Cross
<1>3. CASE SurfaceDone(s) /\ UNCHANGED <<rtObj, rtGone>>
  <2>1. PICK p \in {"idle", "orphans"} : SweepsTo(s, p)
    BY <1>1, <1>3, DoneFrame, Zenon
  <2> QED
    BY <1>1, <1>2, <1>3, <2>1, PassesBy, Zenon DEF Working, SweepAt
<1>4. CASE SweepGo(s, "purge") /\ rtObj' = [rtObj EXCEPT ![Rec(s)] = FALSE] /\ rtGone' = rtGone \cup {Rec(s)}
  <2>1. SweepsTo(s, "purge") /\ SameSurface(s)
    BY <1>1, <1>4, GoFrame, Zenon
  <2>2. RetentionType'
    BY <1>1, <1>2, <1>4, <2>1, Zenon DEF RetentionType, SweepsTo
  <2>3. \A r \in Records \ {Rec(s)} : SameRecord(r)
    BY <1>1, <1>2, <1>4, Zenon DEF RetentionType, SameRecord
  <2> QED
    BY <1>2, <1>4, <2>1, <2>2, <2>3, WorksOnGone, Zenon DEF SameSurface
<1>5. CASE ~rtRow[Rec(s)] /\ SweepGo(s, "boundary") /\ UNCHANGED <<rtObj, rtGone>>
  <2>1. SweepsTo(s, "boundary")
    BY <1>1, <1>5, GoFrame, Zenon
  <2> QED
    BY <1>1, <1>2, <1>5, <2>1, PassesBy, Zenon DEF Working, SweepAt
<1>6. CASE rtRow[Rec(s)] /\ SweepGo(s, "load") /\ UNCHANGED <<rtObj, rtGone>>
  <2>1. SweepsTo(s, "load") /\ SameSurface(s)
    BY <1>1, <1>6, GoFrame, Zenon
  <2>2. RetentionType'
    BY <1>1, <1>2, <1>6, <2>1, SMTT(30) DEF RetentionType, SweepsTo
  <2>3. ASSUME NEW r \in Records \ (rtGone \cup rtCrossed)' PROVE KeptThroughout(r)'
    <3>1. KeptThroughout(r) /\ SameRecord(r)
      BY <1>2, <1>6, HistoryGrows, SMTT(30) DEF SameRecord
    <3>2. CASE r # Rec(s)
      BY <1>2, <2>1, <3>1, <3>2, SweptElsewhere, SMTT(30) DEF SameSurface, SweepOn
    <3>3. CASE r = Rec(s)
      <4>1. rtRs.rec # r /\ rtRd.rec # r /\ \A g \in Sweepers : ~Archiving(g, r)
        BY <1>2, <3>3, Zenon DEF Busy, Swept, SweptBy, Archiving, SweepOn
      <4>2. Kept(r)
        BY <3>1, <4>1, SMTT(30) DEF KeptThroughout, Archiving, SweepOn
      <4>3. EntryAndRow(r)' /\ Kept(r)' /\ Stage(s, r)'
        BY <1>2, <1>6, <2>1, <3>1, <3>3, <4>2, Zenon DEF KeptThroughout, EntryAndRow, Kept, Archived, SweepsTo, Stage
      <4> QED
        BY <1>2, <2>1, <3>1, <3>3, <4>1, <4>3, SweptOn, Zenon DEF SameSurface
    <3> QED
      BY <3>2, <3>3, Zenon
  <2> QED
    BY <2>2, <2>3, Zenon DEF RetentionInv
<1> QED
  BY <1>3, <1>4, <1>5, <1>6, SMTT(30) DEF List

\* The delete tier.
LEMMA PurgeKeeps ==
  ASSUME RetentionInv, NEW s \in Sweepers, Purge(s) PROVE RetentionInv'
<1>1. RetentionType /\ Rec(s) \in Records
  BY RecInRecords, Zenon DEF RetentionInv, Purge, SweepAt
<1>2. PICK p \in {"idle", "orphans"} : SweepsTo(s, p)
  BY <1>1, DoneFrame, Zenon DEF Purge, SweepAt
<1>3. Rec(s) \in rtGone \cup rtCrossed
  BY <1>1, Zenon DEF RetentionInv, KeptThroughout, ArchivedAlone, SweepOn, Purge, SweepAt
<1>4. RetentionType'
  BY <1>1, <1>2, Zenon DEF RetentionType, SweepsTo, Purge
<1>5. \A r \in Records \ {Rec(s)} : SameRecord(r)
  BY <1>1, Zenon DEF RetentionType, SameRecord, Purge
<1> QED
  BY <1>2, <1>3, <1>4, <1>5, WorksOnGone, Zenon DEF Purge, Working, rest

\* An old entry is to go, with its object.
LEMMA PastBoundaryKeeps ==
  ASSUME RetentionInv, NEW s \in Sweepers, PastBoundary(s) PROVE RetentionInv'
<1>1. RetentionType /\ Rec(s) \in Records /\ rtSw[s].pc = "boundary"
  BY RecInRecords, Zenon DEF RetentionInv, PastBoundary, SweepAt
<1>2. UNCHANGED <<rtRow, rtObj, rtEntry, rtRs, rtRd, rtCrossed>>
  BY Zenon DEF PastBoundary
<1>3. CASE SurfaceDone(s) /\ UNCHANGED <<rtArc, rtGone>>
  <2>1. PICK p \in {"idle", "orphans"} : SweepsTo(s, p)
    BY <1>1, <1>3, DoneFrame, Zenon
  <2> QED
    BY <1>1, <1>2, <1>3, <2>1, PassesBy, Zenon DEF Working, SweepAt
<1>4. CASE SweepGo(s, "stuck") /\ UNCHANGED <<rtArc, rtGone>>
  <2>1. SweepsTo(s, "stuck")
    BY <1>1, <1>4, GoFrame, SMTT(30)
  <2> QED
    BY <1>1, <1>2, <1>4, <2>1, PassesBy, Zenon DEF Working, SweepAt
<1>5. CASE /\ SweepGo(s, "expire") /\ rtGone' = rtGone \cup {Rec(s)}
           /\ rtArc' = [rtArc EXCEPT ![Rec(s)] = rtArc[Rec(s)] /\ ~rtEntry[Rec(s)].keyed]
  <2>1. SweepsTo(s, "expire") /\ SameSurface(s)
    BY <1>1, <1>5, GoFrame, Zenon
  <2>2. rtArc' \in [Records -> BOOLEAN]
    BY <1>1, <1>5, Zenon DEF RetentionType
  <2>3. RetentionType'
    BY <1>1, <1>2, <2>1, <2>2, Zenon DEF RetentionType, SweepsTo
  <2>4. \A r \in Records \ {Rec(s)} : SameRecord(r)
    BY <1>1, <1>2, <1>5, Zenon DEF RetentionType, SameRecord
  <2> QED
    BY <1>2, <1>5, <2>1, <2>3, <2>4, WorksOnGone, SMTT(30) DEF SameSurface
<1> QED
  BY <1>3, <1>4, <1>5, SMTT(30) DEF PastBoundary

\* And it goes.
LEMMA ExpireKeeps ==
  ASSUME RetentionInv, NEW s \in Sweepers, Expire(s) PROVE RetentionInv'
<1>1. RetentionType /\ Rec(s) \in Records
  BY RecInRecords, Zenon DEF RetentionInv, Expire, SweepAt
<1>2. PICK p \in {"idle", "orphans"} : SweepsTo(s, p)
  BY <1>1, DoneFrame, Zenon DEF Expire, SweepAt
<1>3. Rec(s) \in rtGone \cup rtCrossed
  BY <1>1, Zenon DEF RetentionInv, KeptThroughout, ArchivedAlone, SweepOn, Expire, SweepAt
<1>4. rtEntry' \in [Records -> [id : Nat, active : BOOLEAN, keyed : BOOLEAN, age : Int]]
  BY <1>1, ZenonT(60) DEF RetentionType, Expire
<1>5. RetentionType'
  BY <1>1, <1>2, <1>4, Zenon DEF RetentionType, SweepsTo, Expire
<1>6. \A r \in Records \ {Rec(s)} : SameRecord(r)
  BY <1>1, Zenon DEF RetentionType, SameRecord, Expire
<1> QED
  BY <1>2, <1>3, <1>5, <1>6, WorksOnGone, Zenon DEF Expire, Working, rest

\* On to the next surface.
LEMMA SweepOrphanGroupsKeeps ==
  ASSUME RetentionInv, NEW s \in Sweepers, sweepOrphanGroups(s) PROVE RetentionInv'
<1>1. RetentionType /\ rtSw[s].pc = "orphans" /\ rtSw[s] \in SweepState /\ Len(rtSw[s].left) > 0
  BY Zenon DEF RetentionInv, RetentionType, LeftNonEmpty, sweepOrphanGroups, SweepAt
<1>2. PICK c \in SweepState : /\ rtSw' = [rtSw EXCEPT ![s] = c] /\ c.pc \in {"idle", "swept", "list"}
                              /\ c.pc = "list" => Len(c.left) > 0
  <2>1. Resting \in SweepState /\ Resting.pc = "idle"
    BY DEF Resting, SweepState
  <2> DEFINE z == [pc |-> "swept", left |-> <<>>, found |-> FALSE]
  <2>2. z \in SweepState /\ z.pc = "swept"
    BY DEF SweepState
  <2> DEFINE n == [pc |-> "list", left |-> Tail(rtSw[s].left), found |-> rtSw[s].found]
  <2>3. CASE Len(rtSw[s].left) # 1
    <3>1. Tail(rtSw[s].left) \in Seq(Records) /\ Len(Tail(rtSw[s].left)) > 0
      <4>1. rtSw[s].left \in Seq(Records)
        BY <1>1, Zenon DEF SweepState
      <4> QED
        BY <1>1, <2>3, <4>1, TailOfMore, Zenon
    <3>2. n \in SweepState
      BY <1>1, <3>1, Zenon DEF SweepState
    <3>3. n.pc = "list" /\ Len(n.left) > 0
      BY <3>1, Zenon
    <3>4. \/ rtSw' = [rtSw EXCEPT ![s] = Resting]
          \/ rtSw' = [rtSw EXCEPT ![s] = n]
      BY <2>3, Zenon DEF sweepOrphanGroups
    <3> HIDE DEF n
    <3> QED
      BY <2>1, <3>2, <3>3, <3>4, Zenon
  <2>4. CASE Len(rtSw[s].left) = 1
    <3>1. \/ rtSw' = [rtSw EXCEPT ![s] = Resting]
          \/ rtSw' = [rtSw EXCEPT ![s] = z]
      BY <2>4, Zenon DEF sweepOrphanGroups
    <3> HIDE DEF z
    <3> QED
      BY <2>1, <2>2, <3>1, Zenon
  <2> QED
    BY <2>3, <2>4, Zenon
<1>3. rtSw' \in [Sweepers -> SweepState] /\ rtSw'[s] = c /\ \A g \in Sweepers \ {s} : rtSw'[g] = rtSw[g]
  BY <1>1, <1>2, Zenon DEF RetentionType
<1>4. SweepsTo(s, c.pc)
  BY <1>1, <1>2, <1>3, Zenon DEF SweepsTo, RetentionType, LeftNonEmpty, Rec
<1> QED
  BY <1>1, <1>2, <1>4, PassesBy, Zenon DEF sweepOrphanGroups, SweepAt, Working, rest

\* The sweep is over.
LEMMA FinishKeeps ==
  ASSUME RetentionInv, NEW s \in Sweepers, Finish(s) PROVE RetentionInv'
<1>1. SweepsTo(s, "idle")
  BY RestFrame, Zenon DEF RetentionInv, Finish
<1> QED
  BY <1>1, PassesBy, Zenon DEF Finish, SweepAt, Working, rest

\* A step of a restore or a reader on its record, which no sweep archives meanwhile.
LEMMA VisitedOn ==
  ASSUME NEW r \in Records, KeptThroughout(r), SweepersStay, \A s \in Sweepers : ~Archiving(s, r),
         EntryAndRow(r)', BackFirst(r)', Kept(r)'
  PROVE  KeptThroughout(r)'
<1>1. \A g \in Sweepers : ~Archiving(g, r)'
  BY SMTT(30) DEF SweepersStay, Archiving, SweepOn
<1>2. ASSUME NEW g \in Sweepers, SweepOn(g, r, {"purge", "expire"})' PROVE FALSE
  BY <1>2, SMTT(30) DEF SweepersStay, SweepOn, KeptThroughout, ArchivedAlone
<1> QED
  BY <1>1, <1>2, SMTT(30) DEF KeptThroughout, ArchivedAlone

\* A restore or a reader goes on with its record.
LEMMA VisitKeeps ==
  ASSUME RetentionInv, NEW v \in Records, UNCHANGED rtSw, RetentionType',
         rtRs' = rtRs \/ (rtRs.rec = v /\ rtRs'.rec \in {v, NoRecord}),
         rtRd' = rtRd \/ (rtRd.rec = v /\ rtRd'.rec \in {v, NoRecord}),
         rtRs.rec = v \/ rtRd.rec = v,
         \A r \in Records \ {v} : SameRecord(r),
         rtGone \subseteq rtGone', rtCrossed \subseteq rtCrossed',
         EntryAndRow(v) /\ BackFirst(v) /\ Kept(v) => EntryAndRow(v)' /\ BackFirst(v)' /\ Kept(v)'
  PROVE  RetentionInv'
<1>1. SweepersStay
  BY StayFrame, SMTT(30) DEF RetentionInv
<1>2. ASSUME NEW r \in Records \ (rtGone \cup rtCrossed)' PROVE KeptThroughout(r)'
  <2>1. KeptThroughout(r)
    BY HistoryGrows, SMTT(30)
  <2>2. CASE r # v
    <3>1. (rtRs'.rec = r => rtRs' = rtRs) /\ (rtRd'.rec = r => rtRd' = rtRd)
      BY <2>2, NotARecord, SMTT(30)
    <3>2. BackFirst(r)'
      BY <2>1, <2>2, <3>1, SMTT(30) DEF KeptThroughout, BackFirst, SameRecord
    <3>3. rtRs'.rec = r \/ rtRd'.rec = r => \A s \in Sweepers : ~Archiving(s, r)
      BY <2>1, <3>1, SMTT(30) DEF KeptThroughout, ArchivedAlone
    <3> QED
      BY <1>1, <2>1, <2>2, <3>2, <3>3, VisitedElsewhere, SMTT(30)
  <2>3. CASE r = v
    <3>1. \A s \in Sweepers : ~Archiving(s, r)
      BY <2>1, <2>3, SMTT(30) DEF KeptThroughout, ArchivedAlone
    <3>2. Kept(r)
      BY <2>1, <3>1, Zenon DEF KeptThroughout, Archiving, SweepOn
    <3> QED
      BY <1>1, <2>1, <2>3, <3>1, <3>2, VisitedOn, SMTT(30) DEF KeptThroughout
  <2> QED
    BY <2>2, <2>3, SMTT(30)
<1> QED
  BY <1>2, SMTT(30) DEF RetentionInv

\* A restore or a reader begins, and crosses a record that is being swept.
LEMMA VisitBegins ==
  ASSUME RetentionInv, NEW v \in Records, UNCHANGED <<rtRow, rtObj, rtArc, rtEntry, rtSw>>, RetentionType',
         rtRs' = rtRs \/ rtRs'.rec = v, rtRd' = rtRd \/ rtRd'.rec = v,
         \/ v \in (rtGone \cup rtCrossed)'
         \/ /\ rtRs' = rtRs \/ (rtRs'.keyed /\ rtRs'.pc \notin {"insert", "entry", "drop"})
            /\ rtRd' = rtRd \/ (v \in Files /\ rtRd'.pc \notin {"drop", "mark"}),
         Cross(v, Swept), rtGone \subseteq rtGone'
  PROVE  RetentionInv'
<1>1. SweepersStay
  BY StayFrame, Zenon DEF RetentionInv
<1>2. rtCrossed \subseteq rtCrossed' /\ (v \in Swept => v \in rtCrossed')
  BY SMTT(30) DEF Cross
<1>3. ASSUME NEW r \in Records \ (rtGone \cup rtCrossed)' PROVE KeptThroughout(r)'
  <2>1. KeptThroughout(r)
    BY <1>2, HistoryGrows, Zenon
  <2>2. SameRecord(r)
    BY SMTT(30) DEF SameRecord
  <2>3. BackFirst(r)'
    BY <2>1, SMTT(30) DEF KeptThroughout, BackFirst
  <2>4. r = v => \A s \in Sweepers : ~Archiving(s, r)
    BY <1>2, SMTT(30) DEF Swept, SweptBy, Archiving, SweepOn
  <2>5. rtRs'.rec = r \/ rtRd'.rec = r => \A s \in Sweepers : ~Archiving(s, r)
    BY <2>1, <2>4, SMTT(30) DEF KeptThroughout, ArchivedAlone
  <2> QED
    BY <1>1, <2>1, <2>2, <2>3, <2>5, VisitedElsewhere, SMTT(30)
<1> QED
  BY <1>3, SMTT(30) DEF RetentionInv

\* The restore of an active entry.
LEMMA RestoreSurfaceKeeps ==
  ASSUME RetentionInv, NEW v \in Records, RestoreSurface(v) PROVE RetentionInv'
<1>1. RetentionType
  BY Zenon DEF RetentionInv
<1>2. rtEntry[v].id \in Nat /\ rtEntry[v].keyed \in BOOLEAN /\ rtEntry[v].active
  BY <1>1, SMTT(30) DEF RetentionType, RestoreSurface
<1>3. rtRs' \in Visit /\ rtRs'.rec = v /\ rtRs'.pc \in {"load", "insert"} /\ rtRs'.keyed = rtEntry[v].keyed
  BY <1>2, SMTT(30) DEF RestoreSurface, Visit
<1>4. rtRs'.keyed => rtRs'.pc = "load"
  BY <1>2, SMTT(30) DEF RestoreSurface
<1>5. RetentionType'
  BY <1>1, <1>3, NotARecord, SMTT(30) DEF RetentionType, RestoreSurface, store, LeftNonEmpty
<1>6. rtEntry[v].keyed \/ v \in rtGone \cup rtCrossed
  BY <1>2, Zenon DEF RetentionInv, KeptThroughout, EntryAndRow
<1>7. /\ UNCHANGED <<rtGone, rtRd, rtRow, rtObj, rtArc, rtEntry, rtSw>>
      /\ Cross(v, Swept) /\ rtCrossed \subseteq rtCrossed'
  BY SMTT(30) DEF RestoreSurface, Cross, store
<1> QED
  BY <1>3, <1>4, <1>5, <1>6, <1>7, VisitBegins, Zenon

\* The reader of a file.
LEMMA GetFileKeeps ==
  ASSUME RetentionInv, NEW v \in Records, GetFile(v) PROVE RetentionInv'
<1>1. RetentionType
  BY Zenon DEF RetentionInv
<1>2. rtRd' \in Visit /\ rtRd'.rec = v /\ rtRd'.pc = "get"
  BY SMTT(30) DEF GetFile, Visit
<1>3. RetentionType'
  BY <1>1, <1>2, NotARecord, Zenon DEF RetentionType, GetFile, store, LeftNonEmpty
<1> QED
  BY <1>2, <1>3, VisitBegins, Zenon DEF GetFile, store

\* Nobody restores, nobody reads.
LEMMA IdleVisit == IdleAt \in Visit /\ IdleAt.pc = "idle" /\ IdleAt.rec = NoRecord
  BY Zenon DEF IdleAt, Visit

\* The restore goes on.
LEMMA RestoreGoes ==
  ASSUME RetentionType, NEW p \in {"load", "put", "insert", "entry", "drop", "get", "find", "mark"},
    RestoreGo(p)
  PROVE  rtRs' \in Visit /\ rtRs'.pc = p /\ rtRs'.rec = rtRs.rec /\ rtRs'.keyed = rtRs.keyed
  BY Zenon DEF RetentionType, Visit, RestoreGo

\* The reader goes on.
LEMMA ReadGoes ==
  ASSUME RetentionType, NEW p \in {"load", "put", "insert", "entry", "drop", "get", "find", "mark"}, ReadGo(p)
  PROVE  rtRd' \in Visit /\ rtRd'.pc = p /\ rtRd'.rec = rtRd.rec
  BY SMTT(30) DEF RetentionType, Visit, ReadGo

\* The copy is read.
LEMMA RestoreLoadKeeps == RetentionInv /\ RestoreLoad => RetentionInv'
<1> SUFFICES ASSUME RetentionInv, RestoreLoad PROVE RetentionInv'
  OBVIOUS
<1>1. RetentionType /\ rtRs.rec \in Records
  BY Zenon DEF RetentionInv, RetentionType, Visit, RestoreLoad, RestoreAt
<1>2. rtRs' \in Visit /\ ((rtRs'.pc = "put" /\ rtRs'.rec = rtRs.rec /\ rtRs'.keyed = rtRs.keyed) \/
  (rtRs'.pc = "idle" /\ rtRs'.rec = NoRecord))
  BY <1>1, IdleVisit, RestoreGoes, Zenon DEF RestoreLoad
<1>3. RetentionType'
  BY <1>1, <1>2, Zenon DEF RetentionType, LeftNonEmpty, RestoreLoad, store, RestoreAt
<1>4. \A r \in Records \ {rtRs.rec} : SameRecord(r)
  BY <1>1, Zenon DEF RetentionType, SameRecord, RestoreLoad, store
<1>5. ASSUME NEW v \in Records, v = rtRs.rec, EntryAndRow(v), BackFirst(v), Kept(v)
      PROVE  EntryAndRow(v)' /\ BackFirst(v)' /\ Kept(v)'
  <2>1. EntryAndRow(v)'
    BY <1>1, <1>5, SMTT(30) DEF RetentionType, RestoreLoad, store, EntryAndRow
  <2>2. BackFirst(v)'
    BY <1>1, <1>2, <1>5, NotARecord, SMTT(30) DEF RetentionType, RestoreLoad, store, RestoreAt, BackFirst
  <2>3. Kept(v)'
    BY <1>1, <1>5, SMTT(30) DEF RetentionType, RestoreLoad, store, RestoreAt, EntryAndRow, BackFirst, Kept,
      Archived
  <2> QED
    BY <2>1, <2>2, <2>3, Zenon
<1> QED
  BY <1>1, <1>2, <1>3, <1>4, <1>5, VisitKeeps, Zenon DEF RestoreLoad, store, rest

\* The object is back.
LEMMA RestorePutKeeps == RetentionInv /\ RestorePut => RetentionInv'
<1> SUFFICES ASSUME RetentionInv, RestorePut PROVE RetentionInv'
  OBVIOUS
<1>1. RetentionType /\ rtRs.rec \in Records
  BY Zenon DEF RetentionInv, RetentionType, Visit, RestorePut, RestoreAt
<1>2. rtRs' \in Visit /\ rtRs'.pc = "insert" /\ rtRs'.rec = rtRs.rec /\ rtRs'.keyed = rtRs.keyed
  BY <1>1, IdleVisit, RestoreGoes, SMTT(30) DEF RestorePut
<1>3. RetentionType'
  BY <1>1, <1>2, Zenon DEF RetentionType, LeftNonEmpty, RestorePut, store, RestoreAt
<1>4. \A r \in Records \ {rtRs.rec} : SameRecord(r)
  BY <1>1, Zenon DEF RetentionType, SameRecord, RestorePut, store
<1>5. ASSUME NEW v \in Records, v = rtRs.rec, EntryAndRow(v), BackFirst(v), Kept(v)
      PROVE  EntryAndRow(v)' /\ BackFirst(v)' /\ Kept(v)'
  <2>1. EntryAndRow(v)'
    BY <1>1, <1>5, Zenon DEF RetentionType, RestorePut, store, EntryAndRow
  <2>2. BackFirst(v)'
    BY <1>1, <1>2, <1>5, NotARecord, SMTT(30) DEF RetentionType, RestorePut, store, RestoreAt, BackFirst
  <2>3. Kept(v)'
    BY <1>1, <1>5, Zenon DEF RetentionType, RestorePut, store, RestoreAt, EntryAndRow, BackFirst, Kept, Archived
  <2> QED
    BY <2>1, <2>2, <2>3, Zenon
<1> QED
  BY <1>1, <1>2, <1>3, <1>4, <1>5, VisitKeeps, SMTT(30) DEF RestorePut, store, rest

\* The row is back.
LEMMA RestoreInsertKeeps == RetentionInv /\ RestoreInsert => RetentionInv'
<1> SUFFICES ASSUME RetentionInv, RestoreInsert PROVE RetentionInv'
  OBVIOUS
<1>1. RetentionType /\ rtRs.rec \in Records
  BY SMTT(30) DEF RetentionInv, RetentionType, Visit, RestoreInsert, RestoreAt
<1>2. rtRs' \in Visit /\ rtRs'.pc = "entry" /\ rtRs'.rec = rtRs.rec /\ rtRs'.keyed = rtRs.keyed
  BY <1>1, IdleVisit, RestoreGoes, SMTT(30) DEF RestoreInsert
<1>3. RetentionType'
  BY <1>1, <1>2, Zenon DEF RetentionType, LeftNonEmpty, RestoreInsert, store, RestoreAt
<1>4. \A r \in Records \ {rtRs.rec} : SameRecord(r)
  BY <1>1, Zenon DEF RetentionType, SameRecord, RestoreInsert, store
<1>5. ASSUME NEW v \in Records, v = rtRs.rec, EntryAndRow(v), BackFirst(v), Kept(v)
      PROVE  EntryAndRow(v)' /\ BackFirst(v)' /\ Kept(v)'
  <2>1. EntryAndRow(v)'
    BY <1>1, <1>5, Zenon DEF RetentionType, RestoreInsert, store, EntryAndRow
  <2>2. BackFirst(v)'
    BY <1>1, <1>2, <1>5, NotARecord, SMTT(30) DEF RetentionType, RestoreInsert, store, RestoreAt, BackFirst
  <2>3. Kept(v)'
    BY <1>1, <1>5, Zenon DEF RetentionType, RestoreInsert, store, RestoreAt, EntryAndRow, BackFirst, Kept, Archived
  <2> QED
    BY <2>1, <2>2, <2>3, Zenon
<1> QED
  BY <1>1, <1>2, <1>3, <1>4, <1>5, VisitKeeps, Zenon DEF RestoreInsert, store, rest

\* The entry goes: row and object are there.
LEMMA RestoreEntryKeeps == RetentionInv /\ RestoreEntry => RetentionInv'
<1> SUFFICES ASSUME RetentionInv, RestoreEntry PROVE RetentionInv'
  OBVIOUS
<1>1. RetentionType /\ rtRs.rec \in Records
  BY Zenon DEF RetentionInv, RetentionType, Visit, RestoreEntry, RestoreAt
<1>2. rtRs' \in Visit /\ ((rtRs'.pc = "drop" /\ rtRs'.rec = rtRs.rec /\ rtRs'.keyed = rtRs.keyed) \/
  (rtRs'.pc = "idle" /\ rtRs'.rec = NoRecord))
  BY <1>1, IdleVisit, RestoreGoes, Zenon DEF RestoreEntry
<1>3. RetentionType'
  BY <1>1, <1>2, ZenonT(60) DEF RetentionType, LeftNonEmpty, RestoreEntry, store, RestoreAt
<1>4. \A r \in Records \ {rtRs.rec} : SameRecord(r)
  BY <1>1, Zenon DEF RetentionType, SameRecord, RestoreEntry, store
<1>5. ASSUME NEW v \in Records, v = rtRs.rec, EntryAndRow(v), BackFirst(v), Kept(v)
      PROVE  EntryAndRow(v)' /\ BackFirst(v)' /\ Kept(v)'
  <2>1. EntryAndRow(v)'
    BY <1>1, <1>5, Zenon DEF RetentionType, RestoreEntry, store, EntryAndRow
  <2>2. BackFirst(v)'
    BY <1>1, <1>2, <1>5, NotARecord, Zenon DEF RetentionType, RestoreEntry, store, RestoreAt, BackFirst
  <2>3. Kept(v)'
    BY <1>1, <1>5, Zenon DEF RetentionType, RestoreEntry, store, RestoreAt, EntryAndRow, BackFirst, Kept, Archived
  <2> QED
    BY <2>1, <2>2, <2>3, Zenon
<1> QED
  BY <1>1, <1>2, <1>3, <1>4, <1>5, VisitKeeps, Zenon DEF RestoreEntry, store, rest

\* The copy goes: row and object are there.
LEMMA RestoreDropKeeps == RetentionInv /\ RestoreDrop => RetentionInv'
<1> SUFFICES ASSUME RetentionInv, RestoreDrop PROVE RetentionInv'
  OBVIOUS
<1>1. RetentionType /\ rtRs.rec \in Records
  BY SMTT(30) DEF RetentionInv, RetentionType, Visit, RestoreDrop, RestoreAt
<1>2. rtRs' \in Visit /\ rtRs'.pc = "idle" /\ rtRs'.rec = NoRecord
  BY <1>1, IdleVisit, RestoreGoes, Zenon DEF RestoreDrop
<1>3. RetentionType'
  BY <1>1, <1>2, Zenon DEF RetentionType, LeftNonEmpty, RestoreDrop, store, RestoreAt
<1>4. \A r \in Records \ {rtRs.rec} : SameRecord(r)
  BY <1>1, Zenon DEF RetentionType, SameRecord, RestoreDrop, store
<1>5. ASSUME NEW v \in Records, v = rtRs.rec, EntryAndRow(v), BackFirst(v), Kept(v)
      PROVE  EntryAndRow(v)' /\ BackFirst(v)' /\ Kept(v)'
  <2>1. EntryAndRow(v)'
    BY <1>1, <1>5, SMTT(30) DEF RetentionType, RestoreDrop, store, EntryAndRow
  <2>2. BackFirst(v)'
    BY <1>1, <1>2, <1>5, NotARecord, SMTT(30) DEF RetentionType, RestoreDrop, store, RestoreAt, BackFirst
  <2>3. Kept(v)'
    BY <1>1, <1>5, SMTT(30) DEF RetentionType, RestoreDrop, store, RestoreAt, EntryAndRow, BackFirst, Kept, Archived
  <2> QED
    BY <2>1, <2>2, <2>3, Zenon
<1> QED
  BY <1>1, <1>2, <1>3, <1>4, <1>5, VisitKeeps, SMTT(30) DEF RestoreDrop, store, rest

\* The object is read.
LEMMA ReadObjectKeeps == RetentionInv /\ ReadObject => RetentionInv'
<1> SUFFICES ASSUME RetentionInv, ReadObject PROVE RetentionInv'
  OBVIOUS
<1>1. RetentionType /\ rtRd.rec \in Records
  BY Zenon DEF RetentionInv, RetentionType, Visit, ReadObject, ReadAt
<1>2. rtRd' \in Visit /\ ((rtRd'.pc = "find" /\ rtRd'.rec = rtRd.rec) \/ (rtRd'.pc = "idle" /\ rtRd'.rec =
  NoRecord))
  BY <1>1, IdleVisit, ReadGoes, SMTT(30) DEF ReadObject
<1>3. RetentionType'
  BY <1>1, <1>2, Zenon DEF RetentionType, LeftNonEmpty, ReadObject, store, ReadAt
<1>4. \A r \in Records \ {rtRd.rec} : SameRecord(r)
  BY <1>1, SMTT(30) DEF RetentionType, SameRecord, ReadObject, store
<1>5. ASSUME NEW v \in Records, v = rtRd.rec, EntryAndRow(v), BackFirst(v), Kept(v)
      PROVE  EntryAndRow(v)' /\ BackFirst(v)' /\ Kept(v)'
  <2>1. EntryAndRow(v)'
    BY <1>1, <1>5, SMTT(30) DEF RetentionType, ReadObject, store, EntryAndRow
  <2>2. BackFirst(v)'
    BY <1>1, <1>2, <1>5, NotARecord, SMTT(30) DEF RetentionType, ReadObject, store, ReadAt, BackFirst
  <2>3. Kept(v)'
    BY <1>1, <1>5, SMTT(30) DEF RetentionType, ReadObject, store, ReadAt, EntryAndRow, BackFirst, Kept,
      Archived
  <2> QED
    BY <2>1, <2>2, <2>3, Zenon
<1> QED
  BY <1>1, <1>2, <1>3, <1>4, <1>5, VisitKeeps, SMTT(30) DEF ReadObject, store, rest

\* It is looked for in the archive.
LEMMA LatestActiveTelemetryArchiveKeeps == RetentionInv /\ latestActiveTelemetryArchive => RetentionInv'
<1> SUFFICES ASSUME RetentionInv, latestActiveTelemetryArchive PROVE RetentionInv'
  OBVIOUS
<1>1. RetentionType /\ rtRd.rec \in Records
  BY SMTT(30) DEF RetentionInv, RetentionType, Visit, latestActiveTelemetryArchive, ReadAt
<1>2. rtRd' \in Visit /\ ((rtRd'.pc = "load" /\ rtRd'.rec = rtRd.rec) \/ (rtRd'.pc = "idle" /\ rtRd'.rec =
  NoRecord))
  BY <1>1, IdleVisit, ReadGoes, SMTT(30) DEF latestActiveTelemetryArchive
<1>3. RetentionType'
  BY <1>1, <1>2, SMTT(30) DEF RetentionType, LeftNonEmpty, latestActiveTelemetryArchive, store, ReadAt
<1>4. \A r \in Records \ {rtRd.rec} : SameRecord(r)
  BY <1>1, SMTT(30) DEF RetentionType, SameRecord, latestActiveTelemetryArchive, store
<1>5. ASSUME NEW v \in Records, v = rtRd.rec, EntryAndRow(v), BackFirst(v), Kept(v)
      PROVE  EntryAndRow(v)' /\ BackFirst(v)' /\ Kept(v)'
  <2>1. EntryAndRow(v)'
    BY <1>1, <1>5, SMTT(30) DEF RetentionType, latestActiveTelemetryArchive, store, EntryAndRow
  <2>2. BackFirst(v)'
    BY <1>1, <1>2, <1>5, NotARecord, SMTT(30) DEF RetentionType, latestActiveTelemetryArchive, store,
      ReadAt, BackFirst
  <2>3. Kept(v)'
    BY <1>1, <1>5, SMTT(30) DEF RetentionType, latestActiveTelemetryArchive, store, ReadAt, EntryAndRow,
      BackFirst, Kept, Archived
  <2> QED
    BY <2>1, <2>2, <2>3, Zenon
<1> QED
  BY <1>1, <1>2, <1>3, <1>4, <1>5, VisitKeeps, SMTT(30) DEF latestActiveTelemetryArchive, store, rest

\* The copy is read.
LEMMA ReadArchivedKeeps == RetentionInv /\ ReadArchived => RetentionInv'
<1> SUFFICES ASSUME RetentionInv, ReadArchived PROVE RetentionInv'
  OBVIOUS
<1>1. RetentionType /\ rtRd.rec \in Records
  BY Zenon DEF RetentionInv, RetentionType, Visit, ReadArchived, ReadAt
<1>2. rtRd' \in Visit /\ ((rtRd'.pc = "put" /\ rtRd'.rec = rtRd.rec) \/ (rtRd'.pc = "idle" /\ rtRd'.rec =
  NoRecord))
  BY <1>1, IdleVisit, ReadGoes, SMTT(30) DEF ReadArchived
<1>3. RetentionType'
  BY <1>1, <1>2, SMTT(30) DEF RetentionType, LeftNonEmpty, ReadArchived, store, ReadAt
<1>4. \A r \in Records \ {rtRd.rec} : SameRecord(r)
  BY <1>1, SMTT(30) DEF RetentionType, SameRecord, ReadArchived, store
<1>5. ASSUME NEW v \in Records, v = rtRd.rec, EntryAndRow(v), BackFirst(v), Kept(v)
      PROVE  EntryAndRow(v)' /\ BackFirst(v)' /\ Kept(v)'
  <2>1. EntryAndRow(v)'
    BY <1>1, <1>5, SMTT(30) DEF RetentionType, ReadArchived, store, EntryAndRow
  <2>2. BackFirst(v)'
    BY <1>1, <1>2, <1>5, NotARecord, SMTT(30) DEF RetentionType, ReadArchived, store, ReadAt, BackFirst
  <2>3. Kept(v)'
    BY <1>1, <1>5, SMTT(30) DEF RetentionType, ReadArchived, store, ReadAt, EntryAndRow, BackFirst, Kept,
      Archived
  <2> QED
    BY <2>1, <2>2, <2>3, Zenon
<1> QED
  BY <1>1, <1>2, <1>3, <1>4, <1>5, VisitKeeps, SMTT(30) DEF ReadArchived, store, rest

\* The object is back.
LEMMA ReadPutKeeps == RetentionInv /\ ReadPut => RetentionInv'
<1> SUFFICES ASSUME RetentionInv, ReadPut PROVE RetentionInv'
  OBVIOUS
<1>1. RetentionType /\ rtRd.rec \in Records
  BY Zenon DEF RetentionInv, RetentionType, Visit, ReadPut, ReadAt
<1>2. rtRd' \in Visit /\ rtRd'.pc = "drop" /\ rtRd'.rec = rtRd.rec
  BY <1>1, IdleVisit, ReadGoes, SMTT(30) DEF ReadPut
<1>3. RetentionType'
  BY <1>1, <1>2, SMTT(30) DEF RetentionType, LeftNonEmpty, ReadPut, store, ReadAt
<1>4. \A r \in Records \ {rtRd.rec} : SameRecord(r)
  BY <1>1, Zenon DEF RetentionType, SameRecord, ReadPut, store
<1>5. ASSUME NEW v \in Records, v = rtRd.rec, EntryAndRow(v), BackFirst(v), Kept(v)
      PROVE  EntryAndRow(v)' /\ BackFirst(v)' /\ Kept(v)'
  <2>1. EntryAndRow(v)'
    BY <1>1, <1>5, SMTT(30) DEF RetentionType, ReadPut, EntryAndRow
  <2>2. BackFirst(v)'
    BY <1>1, <1>2, <1>5, NotARecord, SMTT(30) DEF RetentionType, ReadPut, ReadAt, BackFirst
  <2>3. Kept(v)'
    BY <1>1, <1>5, SMTT(30) DEF RetentionType, ReadPut, ReadAt, EntryAndRow, BackFirst, Kept, Archived
  <2> QED
    BY <2>1, <2>2, <2>3, Zenon
<1> QED
  BY <1>1, <1>2, <1>3, <1>4, <1>5, VisitKeeps, SMTT(30) DEF ReadPut, store, rest

\* The copy goes: the object is there, and the row of a file stays.
LEMMA ReadDropKeeps == RetentionInv /\ ReadDrop => RetentionInv'
<1> SUFFICES ASSUME RetentionInv, ReadDrop PROVE RetentionInv'
  OBVIOUS
<1>1. RetentionType /\ rtRd.rec \in Records
  BY SMTT(30) DEF RetentionInv, RetentionType, Visit, ReadDrop, ReadAt
<1>2. rtRd' \in Visit /\ rtRd'.pc = "mark" /\ rtRd'.rec = rtRd.rec
  BY <1>1, IdleVisit, ReadGoes, SMTT(30) DEF ReadDrop
<1>3. RetentionType'
  BY <1>1, <1>2, Zenon DEF RetentionType, LeftNonEmpty, ReadDrop, store, ReadAt
<1>4. \A r \in Records \ {rtRd.rec} : SameRecord(r)
  BY <1>1, Zenon DEF RetentionType, SameRecord, ReadDrop, store
<1>5. ASSUME NEW v \in Records, v = rtRd.rec, EntryAndRow(v), BackFirst(v), Kept(v)
      PROVE  EntryAndRow(v)' /\ BackFirst(v)' /\ Kept(v)'
  <2>1. EntryAndRow(v)'
    BY <1>1, <1>5, SMTT(30) DEF RetentionType, ReadDrop, EntryAndRow
  <2>2. BackFirst(v)'
    BY <1>1, <1>2, <1>5, NotARecord, SMTT(30) DEF RetentionType, ReadDrop, ReadAt, BackFirst
  <2>3. Kept(v)'
    BY <1>1, <1>5, Zenon DEF RetentionType, ReadDrop, ReadAt, EntryAndRow, BackFirst, Kept, Archived
  <2> QED
    BY <2>1, <2>2, <2>3, Zenon
<1> QED
  BY <1>1, <1>2, <1>3, <1>4, <1>5, VisitKeeps, SMTT(30) DEF ReadDrop, store, rest

\* The entry goes.
LEMMA ReadMarkKeeps == RetentionInv /\ ReadMark => RetentionInv'
<1> SUFFICES ASSUME RetentionInv, ReadMark PROVE RetentionInv'
  OBVIOUS
<1>1. RetentionType /\ rtRd.rec \in Records
  BY Zenon DEF RetentionInv, RetentionType, Visit, ReadMark, ReadAt
<1>2. rtRd' \in Visit /\ rtRd'.pc = "idle" /\ rtRd'.rec = NoRecord
  BY <1>1, IdleVisit, ReadGoes, Zenon DEF ReadMark
<1>3. RetentionType'
  BY <1>1, <1>2, ZenonT(60) DEF RetentionType, LeftNonEmpty, ReadMark, store, ReadAt
<1>4. \A r \in Records \ {rtRd.rec} : SameRecord(r)
  BY <1>1, Zenon DEF RetentionType, SameRecord, ReadMark, store
<1>5. ASSUME NEW v \in Records, v = rtRd.rec, EntryAndRow(v), BackFirst(v), Kept(v)
      PROVE  EntryAndRow(v)' /\ BackFirst(v)' /\ Kept(v)'
  <2>1. EntryAndRow(v)'
    BY <1>1, <1>5, Zenon DEF RetentionType, ReadMark, EntryAndRow
  <2>2. BackFirst(v)'
    BY <1>1, <1>2, <1>5, NotARecord, Zenon DEF RetentionType, ReadMark, ReadAt, BackFirst
  <2>3. Kept(v)'
    BY <1>1, <1>5, Zenon DEF RetentionType, ReadMark, ReadAt, EntryAndRow, BackFirst, Kept, Archived
  <2> QED
    BY <2>1, <2>2, <2>3, Zenon
<1> QED
  BY <1>1, <1>2, <1>3, <1>4, <1>5, VisitKeeps, Zenon DEF ReadMark, store, rest

\* A user changes the policy.
LEMMA SetTierKeeps ==
  ASSUME RetentionInv, NEW v \in Records, SetTier(v) PROVE RetentionInv'
<1>1. RetentionType' /\ SweepersStay
  BY StayFrame, Zenon DEF RetentionInv, RetentionType, LeftNonEmpty, SetTier
<1>2. ASSUME NEW r \in Records \ (rtGone \cup rtCrossed)' PROVE KeptThroughout(r)'
  <2>1. KeptThroughout(r) /\ SameRecord(r)
    BY HistoryGrows, SMTT(30) DEF SetTier, SameRecord
  <2>2. BackFirst(r)'
    BY <2>1, SMTT(30) DEF KeptThroughout, BackFirst, SetTier
  <2> QED
    BY <1>1, <2>1, <2>2, VisitedElsewhere, Zenon DEF SetTier, KeptThroughout, ArchivedAlone
<1> QED
  BY <1>1, <1>2, Zenon DEF RetentionInv

\* A user deletes the record.
LEMMA DeleteRecordKeeps ==
  ASSUME RetentionInv, NEW v \in Records, DeleteRecord(v) PROVE RetentionInv'
<1>1. RetentionType' /\ SweepersStay
  BY StayFrame, SMTT(30) DEF RetentionInv, RetentionType, LeftNonEmpty, DeleteRecord
<1>2. ASSUME NEW r \in Records \ (rtGone \cup rtCrossed)' PROVE KeptThroughout(r)'
  <2>1. r # v /\ KeptThroughout(r)
    BY HistoryGrows, Zenon DEF DeleteRecord
  <2>2. SameRecord(r)
    BY <2>1, SMTT(30) DEF DeleteRecord, SameRecord, RetentionInv, RetentionType
  <2>3. BackFirst(r)'
    BY <2>1, <2>2, Zenon DEF KeptThroughout, BackFirst, DeleteRecord, SameRecord
  <2> QED
    BY <1>1, <2>1, <2>2, <2>3, VisitedElsewhere, Zenon DEF DeleteRecord, KeptThroughout, ArchivedAlone
<1> QED
  BY <1>1, <1>2, Zenon DEF RetentionInv

\* An entry ages.
LEMMA RTTickKeeps == RetentionInv /\ RTTick => RetentionInv'
<1> SUFFICES ASSUME RetentionInv, RTTick PROVE RetentionInv'
  OBVIOUS
<1>1. RetentionType
  BY Zenon DEF RetentionInv
<1>2. ASSUME NEW r \in Records
      PROVE  /\ rtEntry'[r] \in [id : Nat, active : BOOLEAN, keyed : BOOLEAN, age : Int]
             /\ rtEntry'[r].active = rtEntry[r].active /\ rtEntry'[r].keyed = rtEntry[r].keyed
  <2>1. rtEntry[r] \in [id : Nat, active : BOOLEAN, keyed : BOOLEAN, age : Int]
    BY <1>1, Zenon DEF RetentionType
  <2>2. ASSUME NEW e \in [id : Nat, active : BOOLEAN, keyed : BOOLEAN, age : Int]
        PROVE  /\ [e EXCEPT !.age = @ + 1] \in [id : Nat, active : BOOLEAN, keyed : BOOLEAN, age : Int]
               /\ [e EXCEPT !.age = @ + 1].active = e.active /\ [e EXCEPT !.age = @ + 1].keyed = e.keyed
    OBVIOUS
  <2>3. rtEntry'[r] \in {rtEntry[r], [rtEntry[r] EXCEPT !.age = @ + 1]}
    BY Zenon DEF RTTick
  <2> QED
    BY <2>1, <2>2, <2>3, Zenon
<1>3. rtEntry' \in [Records -> [id : Nat, active : BOOLEAN, keyed : BOOLEAN, age : Int]]
  BY <1>2, Zenon DEF RTTick
<1>4. RetentionType' /\ SweepersStay
  BY <1>1, <1>3, StayFrame, Zenon DEF RetentionType, LeftNonEmpty, RTTick
<1>5. ASSUME NEW r \in Records \ (rtGone \cup rtCrossed)' PROVE KeptThroughout(r)'
  <2>1. KeptThroughout(r) /\ SameRecord(r)
    BY <1>2, HistoryGrows, Zenon DEF RTTick, SameRecord
  <2>2. BackFirst(r)'
    BY <2>1, Zenon DEF KeptThroughout, BackFirst, RTTick
  <2> QED
    BY <1>4, <2>1, <2>2, VisitedElsewhere, Zenon DEF RTTick, KeptThroughout, ArchivedAlone
<1> QED
  BY <1>4, <1>5, Zenon DEF RetentionInv

\* A sweep that is cut short crosses the record it archives; a restore or a reader leaves what it has done.
LEMMA RTInterruptKeeps == RetentionInv /\ RTInterrupt => RetentionInv'
<1> SUFFICES ASSUME RetentionInv, RTInterrupt PROVE RetentionInv'
  OBVIOUS
<1>1. RetentionType /\ UNCHANGED <<rtRow, rtObj, rtArc, rtEntry, rtGone>>
  BY Zenon DEF RetentionInv, RTInterrupt, store
<1>2. ASSUME NEW s \in Sweepers, ~SweepAt(s, "idle"), rtSw' = [rtSw EXCEPT ![s] = Resting],
             rtCrossed' = rtCrossed \cup SweptBy(s), UNCHANGED <<rtRs, rtRd>>
      PROVE  RetentionInv'
  <2>1. SweepsTo(s, "idle")
    BY <1>1, <1>2, RestFrame, Zenon
  <2>2. RetentionType'
    BY <1>1, <1>2, <2>1, Zenon DEF RetentionType, SweepsTo
  <2>3. ASSUME NEW r \in Records \ (rtGone \cup rtCrossed)' PROVE KeptThroughout(r)'
    <3>1. KeptThroughout(r) /\ SameRecord(r)
      BY <1>1, <1>2, HistoryGrows, Zenon DEF SameRecord
    <3>2. ~SweepOn(s, r, {"insert"})
      BY <1>2, Zenon DEF SweepOn, SweptBy
    <3> QED
      BY <1>2, <2>1, <3>1, <3>2, SweptElsewhere, Zenon DEF Working
  <2> QED
    BY <2>2, <2>3, Zenon DEF RetentionInv
<1>3. ASSUME UNCHANGED <<rtSw, rtCrossed>>,
             \/ rtRs' = IdleAt /\ UNCHANGED rtRd
             \/ rtRd' = IdleAt /\ UNCHANGED rtRs
      PROVE  RetentionInv'
  <2>1. RetentionType' /\ SweepersStay
    BY <1>1, <1>3, StayFrame, IdleVisit, SMTT(30) DEF RetentionType, LeftNonEmpty
  <2>2. ASSUME NEW r \in Records \ (rtGone \cup rtCrossed)' PROVE KeptThroughout(r)'
    <3>1. KeptThroughout(r) /\ SameRecord(r)
      BY <1>1, <1>3, HistoryGrows, Zenon DEF SameRecord
    <3>2. (rtRs'.rec = r => rtRs' = rtRs) /\ (rtRd'.rec = r => rtRd' = rtRd)
      BY <1>3, IdleVisit, NotARecord, SMTT(30)
    <3>3. BackFirst(r)'
      BY <1>1, <3>1, <3>2, SMTT(30) DEF KeptThroughout, BackFirst
    <3>4. rtRs'.rec = r \/ rtRd'.rec = r => \A s \in Sweepers : ~Archiving(s, r)
      BY <3>1, <3>2, Zenon DEF KeptThroughout, ArchivedAlone
    <3> QED
      BY <2>1, <3>1, <3>3, <3>4, VisitedElsewhere, SMTT(30)
  <2> QED
    BY <2>1, <2>2, Zenon DEF RetentionInv
<1> QED
  BY <1>2, <1>3, Zenon DEF RTInterrupt

\* Initially every record has its row and its object, and nobody is at work.
LEMMA RetentionInvInit == RTInit => RetentionInv
<1> SUFFICES ASSUME RTInit PROVE RetentionInv
  OBVIOUS
<1>1. Resting \in SweepState /\ Resting.pc = "idle"
  BY DEF Resting, SweepState
<1>2. NoEntry \in [id : Nat, active : BOOLEAN, keyed : BOOLEAN, age : Int] /\ ~NoEntry.active
  BY DEF NoEntry
<1>3. RetentionType
  BY <1>1, <1>2, IdleVisit, Zenon DEF RTInit, RetentionType, LeftNonEmpty
<1>4. ASSUME NEW r \in Records PROVE KeptThroughout(r)
  <2>1. \A s \in Sweepers : rtSw[s].pc = "idle"
    BY <1>1, Zenon DEF RTInit
  <2>2. ArchivedAlone(r)
    BY <2>1, Zenon DEF ArchivedAlone, Archiving, SweepOn
  <2>3. EntryAndRow(r) /\ Kept(r)
    BY <1>2, Zenon DEF RTInit, EntryAndRow, Kept
  <2>4. BackFirst(r)
    BY IdleVisit, NotARecord, Zenon DEF RTInit, BackFirst
  <2> QED
    BY <2>2, <2>3, <2>4, Zenon DEF KeptThroughout
<1> QED
  BY <1>3, <1>4, Zenon DEF RetentionInv

\* Every step keeps the invariant.
LEMMA RetentionInvNext == RetentionInv /\ [RTNext]_rtVars => RetentionInv'
<1> SUFFICES ASSUME RetentionInv, [RTNext]_rtVars PROVE RetentionInv'
  OBVIOUS
<1>1. CASE UNCHANGED rtVars
  <2>1. UNCHANGED <<rtRow, rtObj, rtArc, rtEntry, rtSw, rtRs, rtRd, rtGone, rtCrossed>>
    BY <1>1, Zenon DEF rtVars, rest
  <2>2. RetentionType' /\ SweepersStay
    BY <2>1, StayFrame, SMTT(30) DEF RetentionInv, RetentionType, LeftNonEmpty
  <2>3. ASSUME NEW r \in Records \ (rtGone \cup rtCrossed)' PROVE KeptThroughout(r)'
    <3>1. KeptThroughout(r) /\ SameRecord(r)
      BY <2>1, HistoryGrows, SMTT(30) DEF SameRecord
    <3>2. BackFirst(r)'
      BY <2>1, <3>1, Zenon DEF KeptThroughout, BackFirst
    <3> QED
      BY <2>1, <2>2, <3>1, <3>2, VisitedElsewhere, ZenonT(60) DEF KeptThroughout, ArchivedAlone
  <2> QED
    BY <2>2, <2>3, Zenon DEF RetentionInv
<1>2. ASSUME NEW s \in Sweepers, SweepStep(s) PROVE RetentionInv'
  BY <1>2, Zenon, BeginKeeps, ListKeeps, PurgeKeeps, LoadKeeps, PutKeeps, DropKeeps, InsertEntryKeeps,
     DeleteArchivedRowKeeps, PastBoundaryKeeps, ExpireKeeps, SweepOrphanGroupsKeeps, FinishKeeps DEF SweepStep
<1>3. ASSUME RestoreStep PROVE RetentionInv'
  BY <1>3, Zenon, RestoreSurfaceKeeps, RestoreLoadKeeps, RestorePutKeeps, RestoreInsertKeeps,
     RestoreEntryKeeps, RestoreDropKeeps DEF RestoreStep
<1>4. ASSUME ReadStep PROVE RetentionInv'
  BY <1>4, Zenon, GetFileKeeps, ReadObjectKeeps, LatestActiveTelemetryArchiveKeeps, ReadArchivedKeeps,
     ReadPutKeeps, ReadDropKeeps, ReadMarkKeeps DEF ReadStep
<1> QED
  BY <1>1, <1>2, <1>3, <1>4, Zenon, SetTierKeeps, DeleteRecordKeeps, RTTickKeeps, RTInterruptKeeps
     DEF RTNext, RTOver

\* Type correctness of the rows, objects and entries, the sweepers, the restore and the reader.
THEOREM RetentionTypeAlways == RTSpec => []RetentionType
<1>1. RetentionInv => RetentionType
  BY Zenon DEF RetentionInv
<1> QED
  BY <1>1, RetentionInvInit, RetentionInvNext, PTL DEF RTSpec

\* Apply, ExecuteSurface, RestoreSurface and the readers of archived blobs, for any records, sweepers and
\* interruptions: a record that nobody wanted deleted and no sweep crossed can still be had once nobody is
\* at work on it.
THEOREM PayloadAlwaysKept == RTSpec => []PayloadKeptUnlessCrossed
<1>1. RetentionInv => PayloadKeptUnlessCrossed
  <2> SUFFICES ASSUME RetentionInv, NEW r \in Records \ (rtGone \cup rtCrossed \cup Busy) PROVE Kept(r)
    BY Zenon DEF PayloadKeptUnlessCrossed, Kept, Archived
  <2>1. KeptThroughout(r)
    BY Zenon DEF RetentionInv
  <2>2. \A s \in Sweepers : ~SweepOn(s, r, {"insert"})
    BY Zenon DEF Busy, Swept, SweptBy, SweepOn
  <2> QED
    BY <2>1, <2>2, Zenon DEF KeptThroughout
<1> QED
  BY <1>1, RetentionInvInit, RetentionInvNext, PTL DEF RTSpec

=============================================================================
