---------------------------- MODULE RecordsProofs ----------------------------
(***************************************************************************)
(* No stored event refers to an issue that is gone, for any events and any *)
(* number of steps, unless the issue was deleted while the event was on    *)
(* its way. The invariant adds that a worker past the upsert of the group  *)
(* has the id of the row that is there, and that only a worker that is     *)
(* done has stored its event.                                              *)
(* What users choose of an issue stays, and an issue resolved in the next  *)
(* release gets that release, for any events, releases and steps, unless   *)
(* something crossed. The invariant KInv adds the order of the releases,   *)
(* who is yet to bind one, and that a worker about to reopen or to assign  *)
(* looked the issue up after the choice. A step is first put under one of  *)
(* a few kinds, by what it does to the choice; the rest of the argument is *)
(* about the kinds.                                                        *)
(* A metric alert rule keeps its settings, notifies once per breach and is *)
(* never silently triggered, for any thresholds and any values, as long as *)
(* nothing crossed. That invariant adds where the scheduler stands: the    *)
(* rule it holds has the settings of the row, and an open notification     *)
(* means that the row says "triggered" and nothing is under way but its    *)
(* end.                                                                    *)
(***************************************************************************)
EXTENDS Issues, MetricAlerts, TLAPS

IssueRow == [id : Nat, status : {"unresolved", "resolved", "ignored"},
             sub : {"", "next_release", "merged"}, target : Versions \cup {""},
             merged : {"", "other"}, assignee : {"", "rule", "user"}, noted : BOOLEAN]
Late == {"reopen", "assign", "save"}
Worker == [pc : {"idle", "bind", "lookup", "upsert", "done"} \cup Late, gid : Nat,
           regress : BOOLEAN, assign : BOOLEAN, first : BOOLEAN]

IType ==
  /\ isRow \in IssueRow /\ isIds \in Nat /\ isEvent \in [Events -> Nat]
  /\ isWk \in [Events -> Worker] /\ isApi \in Versions \cup {""} /\ isLost \subseteq Events

\* What holds of event e and its worker w, whose row has this id.
Backed(e, w, stored, id, lost) ==
  /\ w.pc \in Late /\ e \notin lost => w.gid = id /\ id # 0
  /\ stored # 0 /\ e \notin lost => stored = id
  /\ w.pc # "done" => stored = 0

IInv == IType /\ \A e \in Events : Backed(e, isWk[e], isEvent[e], isRow.id, isLost)

\* The issue is new or without events.
LEMMA IInvInit == Init => IInv
<1> SUFFICES ASSUME Init PROVE IInv
  OBVIOUS
<1>1. isIds \in Nat
  <2>1. isIds \in {0, 1}
    BY Zenon DEF Init
  <2> QED BY <2>1
<1>2. isRow \in IssueRow
  BY <1>1, Zenon DEF Init, NoRow, IssueRow
<1>3. Idle \in Worker /\ Idle.pc = "idle"
  BY Zenon DEF Idle, Worker
<1>4. IType
  BY <1>1, <1>2, <1>3, Zenon DEF Init, IType
<1>5. \A e \in Events : Backed(e, isWk[e], isEvent[e], isRow.id, isLost)
  BY <1>3, Zenon DEF Init, Backed, Late
<1> QED BY <1>4, <1>5, Zenon DEF IInv

\* Users, releases and the clock: the row stays, and so do workers and events.
LEMMA RowStays ==
  ASSUME IInv, isRow' \in IssueRow, isRow'.id = isRow.id, isApi' \in Versions \cup {""},
         UNCHANGED <<isIds, isEvent, isWk, isLost>>
  PROVE  IInv'
<1>1. IType'
  BY Zenon DEF IInv, IType
<1>2. \A e \in Events : Backed(e, isWk[e], isEvent[e], isRow.id, isLost)'
  BY Zenon DEF IInv, Backed
<1> QED BY <1>1, <1>2, Zenon DEF IInv

\* One worker moves, but neither past the upsert nor to its end, and the row stays.
LEMMA WorkerMoves ==
  ASSUME IInv, NEW e \in Events, NEW w \in Worker, isWk' = [isWk EXCEPT ![e] = w],
         isRow' \in IssueRow, isRow'.id = isRow.id, isApi' = isApi,
         UNCHANGED <<isIds, isEvent, isLost>>,
         w.pc \in Late => isWk[e].pc \in Late /\ w.gid = isWk[e].gid,
         isWk[e].pc # "done"
  PROVE  IInv'
<1>1. IType'
  BY Zenon DEF IInv, IType
<1>2. ASSUME NEW f \in Events PROVE Backed(f, isWk[f], isEvent[f], isRow.id, isLost)'
  <2>1. Backed(f, isWk[f], isEvent[f], isRow.id, isLost)
    BY Zenon DEF IInv
  <2>2. isWk'[f] = IF f = e THEN w ELSE isWk[f]
    BY Zenon DEF IInv, IType
  <2> QED BY <2>1, <2>2, Zenon DEF Backed
<1> QED BY <1>1, <1>2, Zenon DEF IInv

\* The binding of a release keeps the row.
LEMMA BindStays ==
  ASSUME IInv, NEW v \in Versions \cup {""}, BindTo(v)
  PROVE  isRow' \in IssueRow /\ isRow'.id = isRow.id
<1>1. isRow \in IssueRow
  BY Zenon DEF IInv, IType
<1>2. [isRow EXCEPT !.target = v] \in IssueRow /\ [isRow EXCEPT !.target = v].id = isRow.id
  BY <1>1, Zenon DEF IssueRow
<1> QED BY <1>1, <1>2, Zenon DEF BindTo

\* The row goes: what was on its way is lost, and no other event refers to it.
LEMMA DeleteKeeps ==
  ASSUME IInv, DeleteRow, isEvent' \in [Events -> Nat],
         \A e \in Events : isEvent'[e] \in {0, isEvent[e]},
         \A e \in Events : isEvent'[e] # isRow.id \/ isRow.id = 0
  PROVE  IInv'
<1>1. NoRow \in IssueRow /\ NoRow.id = 0
  BY Zenon DEF NoRow, IssueRow
<1>2. IType'
  BY <1>1, Zenon DEF IInv, IType, DeleteRow
<1>3. ASSUME NEW e \in Events PROVE Backed(e, isWk[e], isEvent[e], isRow.id, isLost)'
  <2>1. Backed(e, isWk[e], isEvent[e], isRow.id, isLost)
    BY Zenon DEF IInv
  <2>2. /\ isRow'.id = 0 /\ isWk' = isWk
        /\ e \in isLost' <=> e \in isLost \/ isWk[e].pc \in Late
    BY <1>1, Zenon DEF DeleteRow, Late
  <2> QED BY <2>1, <2>2, Zenon DEF Backed
<1> QED BY <1>2, <1>3, Zenon DEF IInv

\* The steps of a worker: the id that UpsertGroup returns is of the row that is there.
LEMMA WorkerKeeps ==
  ASSUME IInv, NEW e \in Events,
         \/ EnsureRelease(e) \/ Bind(e) \/ EnsureFails(e) \/ Lookup(e) \/ UpsertGroup(e)
         \/ Reopen(e) \/ Assign(e) \/ UpdateFails(e) \/ SaveEvent(e) \/ Interrupt(e)
  PROVE  IInv'
<1>1. /\ isWk[e] \in Worker /\ isWk \in [Events -> Worker] /\ isRow \in IssueRow /\ isRow.id \in Nat
      /\ isIds \in Nat /\ isEvent \in [Events -> Nat] /\ isLost \subseteq Events
      /\ isApi \in Versions \cup {""}
  BY Zenon DEF IInv, IType, IssueRow
<1>2. ReleaseOf[e] \in Versions
  BY Zenon DEF Versions
<1>3. ASSUME NEW pc \in {"bind", "lookup"} \cup Late, Go(e, pc), isWk[e].pc # "done",
             pc \in Late => isWk[e].pc \in Late,
             isRow' \in IssueRow, isRow'.id = isRow.id,
             UNCHANGED <<isIds, isEvent, isLost, isApi>>
      PROVE  IInv'
  <2> DEFINE w == [isWk[e] EXCEPT !.pc = pc]
  <2>1. w \in Worker /\ w.pc = pc /\ w.gid = isWk[e].gid
    BY <1>1, Zenon DEF Worker
  <2>2. isWk' = [isWk EXCEPT ![e] = w]
    BY <1>3, Zenon DEF Go
  <2> HIDE DEF w
  <2> QED BY <1>3, <2>1, <2>2, WorkerMoves, Zenon
<1>4. isRow \in IssueRow /\ isRow.id = isRow.id
  BY <1>1, Zenon
<1>5. AfterReopen(isWk[e]) \in {"assign", "save"}
  BY Zenon DEF AfterReopen
<1>6. isIds + 1 \in Nat /\ isIds + 1 # 0
  <2>1. isIds \in Nat
    BY <1>1, Zenon
  <2> QED BY <2>1
<1>7. CASE EnsureRelease(e)
  <2>1. CASE Go(e, "lookup")
    BY <1>3, <1>4, <1>7, <2>1, Zenon DEF EnsureRelease, At, Late
  <2>2. CASE isWk' = [isWk EXCEPT ![e].pc = "bind", ![e].first = TRUE]
    <3> DEFINE w == [isWk[e] EXCEPT !.pc = "bind", !.first = TRUE]
    <3>1. w \in Worker /\ w.pc \notin Late
      BY <1>1, Zenon DEF Worker, Late
    <3>2. isWk' = [isWk EXCEPT ![e] = w]
      BY <2>2, Zenon
    <3> HIDE DEF w
    <3> QED BY <1>4, <1>7, <3>1, <3>2, WorkerMoves, Zenon DEF EnsureRelease, At
  <2> QED BY <1>7, <2>1, <2>2, Zenon DEF EnsureRelease
<1>8. CASE Bind(e)
  <2>1. isRow' \in IssueRow /\ isRow'.id = isRow.id
    BY <1>2, <1>8, BindStays, Zenon DEF Bind
  <2> QED BY <1>3, <1>8, <2>1, Zenon DEF Bind, At, Late
<1>9. CASE EnsureFails(e)
  BY <1>3, <1>4, <1>9, Zenon DEF EnsureFails, At, Late
<1>10. CASE Lookup(e)
  <2>1. Regression(e) \in BOOLEAN /\ (isRow.assignee = "") \in BOOLEAN
    BY Zenon DEF Regression
  <2>2. PICK r \in BOOLEAN, s \in BOOLEAN :
          isWk' = [isWk EXCEPT ![e].pc = "upsert", ![e].regress = r, ![e].assign = s]
    BY <1>10, <2>1, Zenon DEF Lookup
  <2> DEFINE w == [isWk[e] EXCEPT !.pc = "upsert", !.regress = r, !.assign = s]
  <2>3. w \in Worker /\ w.pc \notin Late
    BY <1>1, Zenon DEF Worker, Late
  <2>4. isWk' = [isWk EXCEPT ![e] = w]
    BY <2>2, Zenon
  <2> HIDE DEF w
  <2> QED BY <1>4, <1>10, <2>3, <2>4, WorkerMoves, Zenon DEF Lookup, At
<1>11. CASE UpsertGroup(e)
  <2> DEFINE gid == IF isRow.id = 0 THEN isIds + 1 ELSE isRow.id
             pc == IF isWk[e].regress THEN "reopen" ELSE AfterReopen(isWk[e])
             w == [isWk[e] EXCEPT !.gid = gid, !.pc = pc]
  <2>1. gid \in Nat /\ gid # 0 /\ pc \in Late
    <3>1. gid \in Nat /\ gid # 0
      BY <1>1, <1>6, Zenon
    <3>2. pc \in Late
      BY <1>5, Zenon DEF Late
    <3> QED BY <3>1, <3>2, Zenon
  <2>2. w \in Worker /\ w.gid = gid /\ w.pc = pc
    BY <1>1, <2>1, Zenon DEF Worker
  <2>3. isRow' \in IssueRow /\ isRow'.id = gid
    BY <1>1, <1>11, <2>1, Zenon DEF UpsertGroup, NoRow, IssueRow
  <2>4. isWk' = [isWk EXCEPT ![e] = w] /\ UNCHANGED <<isEvent, isLost, isApi>> /\ isIds' \in Nat
    <3>1. isWk' = [isWk EXCEPT ![e].gid = gid, ![e].pc = pc] /\ UNCHANGED <<isEvent, isLost, isApi>>
      BY <1>11, Zenon DEF UpsertGroup
    <3>2. isIds' \in Nat
      BY <1>1, <1>11, <2>1, Zenon DEF UpsertGroup, NoRow
    <3>3. isWk' = [isWk EXCEPT ![e] = w]
      BY <3>1, Zenon
    <3> QED BY <3>1, <3>2, <3>3, Zenon
  <2>5. IType'
    BY <1>1, <2>2, <2>3, <2>4, Zenon DEF IType
  <2>6. isWk[e].pc = "upsert" /\ (isRow.id # 0 => gid = isRow.id)
    BY <1>11, Zenon DEF UpsertGroup, At
  <2> HIDE DEF w, gid, pc
  <2>7. ASSUME NEW f \in Events PROVE Backed(f, isWk[f], isEvent[f], isRow.id, isLost)'
    <3>1. Backed(f, isWk[f], isEvent[f], isRow.id, isLost)
      BY Zenon DEF IInv
    <3>2. isWk'[f] = IF f = e THEN w ELSE isWk[f]
      BY <1>1, <2>4, Zenon
    <3> QED BY <2>1, <2>2, <2>3, <2>4, <2>6, <3>1, <3>2, Zenon DEF Backed
  <2> QED BY <2>5, <2>7, Zenon DEF IInv
<1>12. CASE Reopen(e)
  <2>1. isRow' \in IssueRow /\ isRow'.id = isRow.id
    BY <1>1, <1>12, ZenonT(60) DEF Reopen, IssueRow
  <2> QED BY <1>3, <1>5, <1>12, <2>1, Zenon DEF Reopen, At, Late
<1>13. CASE Assign(e)
  <2>1. isRow' \in IssueRow /\ isRow'.id = isRow.id
    BY <1>1, <1>13, Zenon DEF Assign, IssueRow
  <2> QED BY <1>3, <1>13, <2>1, Zenon DEF Assign, At, Late
<1>14. CASE UpdateFails(e)
  BY <1>3, <1>4, <1>5, <1>14, Zenon DEF UpdateFails, At, Late
<1>15. CASE SaveEvent(e)
  <2> DEFINE w == [Idle EXCEPT !.pc = "done"]
  <2>1. w \in Worker /\ w.pc = "done"
    BY Zenon DEF Worker, Idle
  <2>2. /\ isWk' = [isWk EXCEPT ![e] = w] /\ isEvent' = [isEvent EXCEPT ![e] = isWk[e].gid]
        /\ isWk[e].pc = "save" /\ UNCHANGED <<isRow, isIds, isApi, isLost>>
    BY <1>15, Zenon DEF SaveEvent, At
  <2>3. isWk[e].gid \in Nat
    BY <1>1, Zenon DEF Worker
  <2> HIDE DEF w
  <2>4. IType'
    BY <1>1, <2>1, <2>2, <2>3, Zenon DEF IType
  <2>5. ASSUME NEW f \in Events PROVE Backed(f, isWk[f], isEvent[f], isRow.id, isLost)'
    <3>1. Backed(f, isWk[f], isEvent[f], isRow.id, isLost)
      BY Zenon DEF IInv
    <3>2. /\ isWk'[f] = IF f = e THEN w ELSE isWk[f]
          /\ isEvent'[f] = IF f = e THEN isWk[e].gid ELSE isEvent[f]
      BY <1>1, <2>2, Zenon
    <3> QED BY <2>1, <2>2, <3>1, <3>2, Zenon DEF Backed, Late
  <2> QED BY <2>4, <2>5, Zenon DEF IInv
<1>16. CASE Interrupt(e)
  <2>1. Idle \in Worker /\ Idle.pc = "idle"
    BY Zenon DEF Worker, Idle
  <2>2. /\ isWk' = [isWk EXCEPT ![e] = Idle] /\ isLost' = isLost \ {e}
        /\ isWk[e].pc # "done" /\ UNCHANGED <<isRow, isIds, isEvent, isApi>>
    BY <1>16, Zenon DEF Interrupt
  <2>3. IType'
    BY <1>1, <2>1, <2>2, Zenon DEF IType
  <2>4. ASSUME NEW f \in Events PROVE Backed(f, isWk[f], isEvent[f], isRow.id, isLost)'
    <3>1. Backed(f, isWk[f], isEvent[f], isRow.id, isLost)
      BY Zenon DEF IInv
    <3>2. isWk'[f] = IF f = e THEN Idle ELSE isWk[f]
      BY <1>1, <2>2, Zenon
    <3> QED BY <2>1, <2>2, <3>1, <3>2, Zenon DEF Backed, Late
  <2> QED BY <2>3, <2>4, Zenon DEF IInv
<1> QED BY <1>7, <1>8, <1>9, <1>10, <1>11, <1>12, <1>13, <1>14, <1>15, <1>16, Zenon

\* Every step keeps the invariant.
LEMMA IInvNext == IInv /\ [Next]_vars => IInv'
<1> SUFFICES ASSUME IInv, [Next]_vars PROVE IInv'
  OBVIOUS
<1>1. /\ isRow \in IssueRow /\ isApi \in Versions \cup {""} /\ isEvent \in [Events -> Nat]
      /\ isRow.id \in Nat
  BY Zenon DEF IInv, IType, IssueRow
<1>2. ASSUME NEW e \in Events,
             \/ EnsureRelease(e) \/ Bind(e) \/ EnsureFails(e) \/ Lookup(e) \/ UpsertGroup(e)
             \/ Reopen(e) \/ Assign(e) \/ UpdateFails(e) \/ SaveEvent(e) \/ Interrupt(e)
      PROVE  IInv'
  BY <1>2, WorkerKeeps, Zenon
<1>3. ASSUME NEW v \in Created, CreateRelease(v) PROVE IInv'
  <2>1. v \in Versions
    BY Zenon DEF Versions
  <2> QED BY <1>1, <1>3, <2>1, RowStays, Zenon DEF CreateRelease
<1>4. CASE CreateReleaseBinds
  BY <1>1, <1>4, BindStays, RowStays, Zenon DEF CreateReleaseBinds
<1>5. CASE CreateReleaseFails
  BY <1>1, <1>5, RowStays, Zenon DEF CreateReleaseFails
<1>6. ASSUME NEW e \in Events, DeleteOldEvent(e) PROVE IInv'
  <2>1. isEvent' = [isEvent EXCEPT ![e] = 0] /\ UNCHANGED <<isRow, isIds, isWk, isApi, isLost>>
    BY <1>6, Zenon DEF DeleteOldEvent
  <2>2. IType'
    BY <2>1, Zenon DEF IInv, IType
  <2>3. ASSUME NEW f \in Events PROVE Backed(f, isWk[f], isEvent[f], isRow.id, isLost)'
    <3>1. Backed(f, isWk[f], isEvent[f], isRow.id, isLost)
      BY Zenon DEF IInv
    <3>2. isEvent'[f] \in {0, isEvent[f]}
      BY <1>1, <2>1, Zenon
    <3> QED BY <2>1, <3>1, <3>2, Zenon DEF Backed
  <2> QED BY <2>2, <2>3, Zenon DEF IInv
<1>7. ASSUME NEW c \in {"resolve", "resolve_next", "ignore", "reopen"}, updateIssueStatus(c)
      PROVE  IInv'
  <2>1. PICK n \in BOOLEAN, st \in {"unresolved", "resolved", "ignored"}, sub \in {"", "next_release"} :
          isRow' = [isRow EXCEPT !.noted = n, !.status = st, !.sub = sub, !.target = "", !.merged = ""]
    <3>1. isRow.noted \in BOOLEAN
      BY <1>1, Zenon DEF IssueRow
    <3> DEFINE st == CASE c = "ignore" -> "ignored"
                       [] c = "reopen" -> "unresolved"
                       [] OTHER -> "resolved"
               sub == IF c = "resolve_next" THEN "next_release" ELSE ""
    <3>2. PICK n \in {isRow.noted, TRUE} :
            isRow' = [isRow EXCEPT !.noted = n, !.status = st, !.sub = sub, !.target = "", !.merged = ""]
      BY <1>7, Zenon DEF updateIssueStatus
    <3>3. st \in {"unresolved", "resolved", "ignored"} /\ sub \in {"", "next_release"} /\ n \in BOOLEAN
      BY <3>1, <3>2, Zenon
    <3> HIDE DEF st, sub
    <3> QED BY <3>2, <3>3, Zenon
  <2>2. isRow' \in IssueRow /\ isRow'.id = isRow.id
    BY <1>1, <2>1, Zenon DEF IssueRow
  <2> QED BY <1>1, <1>7, <2>2, RowStays, ZenonT(60) DEF updateIssueStatus, Chosen
<1>8. CASE MergeIssue \/ UnmergeIssue
  <2>1. isRow' \in IssueRow /\ isRow'.id = isRow.id
    BY <1>1, <1>8, Zenon DEF MergeIssue, UnmergeIssue, IssueRow
  <2> QED BY <1>1, <1>8, <2>1, RowStays, Zenon DEF MergeIssue, UnmergeIssue, Chosen
<1>9. CASE updateIssueAssignee
  <2>1. isRow' \in IssueRow /\ isRow'.id = isRow.id
    BY <1>1, <1>9, Zenon DEF updateIssueAssignee, IssueRow
  <2> QED BY <1>1, <1>9, <2>1, RowStays, Zenon DEF updateIssueAssignee
<1>10. CASE deleteOrphanGroups
  BY <1>1, <1>10, DeleteKeeps, Zenon DEF deleteOrphanGroups
<1>11. CASE DeleteGroup
  <2>1. \A e \in Events : isEvent'[e] = IF isEvent[e] = isRow.id THEN 0 ELSE isEvent[e]
    BY <1>11, Zenon DEF DeleteGroup
  <2>2. isEvent' \in [Events -> Nat]
    BY <1>1, <1>11, Zenon DEF DeleteGroup
  <2> QED BY <1>1, <1>11, <2>1, <2>2, DeleteKeeps, Zenon DEF DeleteGroup
<1>12. CASE Tick
  BY <1>1, <1>12, RowStays, Zenon DEF Tick
<1>13. CASE Over \/ UNCHANGED vars
  BY <1>1, <1>13, RowStays, Zenon DEF Over, vars
<1> QED
  BY <1>2, <1>3, <1>4, <1>5, <1>6, <1>7, <1>8, <1>9, <1>10, <1>11, <1>12, <1>13, Zenon DEF Next

\* For any events, a stored event refers to the issue that exists, unless the issue was
\* deleted between UpsertGroup and SaveEvent of that event.
THEOREM SavedEventsHaveIssue == Spec => []SavedEventHasIssueUnlessCrossed
<1>1. IInv => SavedEventHasIssueUnlessCrossed
  BY Zenon DEF IInv, Backed, SavedEventHasIssueUnlessCrossed
<1> QED BY <1>1, IInvInit, IInvNext, PTL DEF Spec

-----------------------------------------------------------------------------
\* What users chose

\* The empty string, by a name.
Unset == ""

\* One release was registered before the other, or at the same time.
Earlier(a, b) == a.day < b.day \/ (a.day = b.day /\ a.time <= b.time)

\* The time of day as a release would get it now.
Clock == [day |-> isNow \div DayTicks, time |-> isNow % DayTicks]

Release == [version : Versions, day : Nat, sep : {Blank, LetterT}, time : Nat]

\* Versions are unique, and the rows are in the order of the clock.
RelOK ==
  /\ isNow \in Nat /\ isRel \in Seq(Release)
  /\ \A i, j \in 1..Len(isRel) :
       /\ isRel[i].version = isRel[j].version => i = j
       /\ i <= j => Earlier(isRel[i], isRel[j])
  /\ \A i \in 1..Len(isRel) : Earlier(isRel[i], Clock)

\* Who registered a release did so alone, and what a worker is about to write it was told
\* to by its lookup.
Flags ==
  /\ isApi # Unset => Registered(isApi)
  /\ \A e \in Events :
       /\ isWk[e].pc = "bind" => isWk[e].first
       /\ isWk[e].pc = "reopen" => isWk[e].regress
       /\ isWk[e].pc = "assign" => isWk[e].assign
       /\ isWk[e].first => ReleaseOf[e] # Unset /\ ReleaseOf[e] # isApi /\ Registered(ReleaseOf[e])
  /\ \A e, f \in Events : isWk[e].first /\ isWk[f].first /\ ReleaseOf[e] = ReleaseOf[f] => e = f

\* v is the first release registered after the choice.
IsNext(v) == Len(isRel) > isWanted.known /\ isRel[isWanted.known + 1].version = v

NextOK ==
  Waiting /\ "bind" \notin isCrossed =>
    /\ isWanted.choice = "resolve_next" /\ isWanted.known \in 0..Len(isRel)
    /\ isRow.target # Unset => IsNext(isRow.target)
    /\ isRow.target = Unset =>
         /\ Len(isRel) <= isWanted.known + 1 /\ (Binding <=> Len(isRel) > isWanted.known)
         /\ isApi # Unset => IsNext(isApi)
         /\ \A e \in Events : isWk[e].pc = "bind" => IsNext(ReleaseOf[e])
    /\ \A e \in Events :
         isWk[e].first /\ isWk[e].pc = "upsert" /\ IsNext(ReleaseOf[e]) => isWk[e].regress

\* Event e may reopen the issue.
MayReopen(e) == \E i \in 1..Len(isRel) : i > isWanted.known /\ isRel[i].version = ReleaseOf[e]
Pending(e) == isWk[e].pc \in {"upsert", "reopen"} /\ isWk[e].regress

\* What is chosen of an ignored or merged issue, of one resolved in the next release, and
\* of an assignee.
IgnoredOK ==
  isWanted.choice \in {"ignore", "merge"} /\ "status" \notin isCrossed =>
    /\ isRow.status = "ignored" /\ (isWanted.choice = "merge" => isRow.merged = "other")
    /\ \A e \in Events : ~Pending(e)
ReopenedOK ==
  isWanted.choice = "resolve_next" /\ isCrossed \cap {"status", "bind"} = {} /\ ~Mixed =>
    /\ Waiting \/ (isRow.status = "unresolved" /\ isReopener \in Events /\ MayReopen(isReopener))
    /\ \A e \in Events : Pending(e) => MayReopen(e)
AssigneeOK ==
  isWanted.assignee = "user" /\ "assign" \notin isCrossed =>
    isRow.assignee = "user" /\ ~AssignPending
ChoiceOK ==
  /\ isRow.id = 0 => isWanted = NoWanted
  /\ IgnoredOK /\ ReopenedOK /\ AssigneeOK

Choices == {"none", "resolve", "resolve_next", "ignore", "reopen", "merge"}
WantedType == isWanted \in [choice : Choices, known : Nat, assignee : {Unset, "user"}]

KInv == RelOK /\ WantedType /\ Flags /\ NextOK /\ ChoiceOK

-----------------------------------------------------------------------------
\* The clock

\* Quotient and remainder.
LEMMA DivMod ==
  ASSUME NEW m \in Nat, NEW d \in Nat \ {0}
  PROVE  m \div d \in Nat /\ m % d \in 0..(d - 1) /\ m = d * (m \div d) + (m % d)
  OBVIOUS

\* Multiples of d are at least d apart.
LEMMA Multiples ==
  ASSUME NEW a \in Nat, NEW b \in Nat, NEW d \in Nat \ {0}, a > b
  PROVE  d * a >= d * b + d
<1>1. PICK c \in Nat : a = b + 1 + c
  <2>1. a - b - 1 \in Nat /\ a = b + 1 + (a - b - 1)
    OBVIOUS
  <2> QED BY <2>1, Zenon
<1>2. d * a = d * b + d + d * c
  BY <1>1
<1>3. d * c \in Nat
  OBVIOUS
<1> QED BY <1>2, <1>3

\* Days and times of the day pass in order.
LEMMA NextTick ==
  ASSUME NEW m \in Nat, NEW d \in Nat \ {0}
  PROVE  \/ m \div d < (m + 1) \div d
         \/ m \div d = (m + 1) \div d /\ m % d <= (m + 1) % d
<1> DEFINE q == m \div d
           r == m % d
           p == (m + 1) \div d
           s == (m + 1) % d
<1>1. q \in Nat /\ r \in 0..(d - 1) /\ m = d * q + r
  BY DivMod, Zenon
<1>2. p \in Nat /\ s \in 0..(d - 1) /\ m + 1 = d * p + s
  <2>1. m + 1 \in Nat
    OBVIOUS
  <2> QED BY <2>1, DivMod, Zenon
<1> HIDE DEF q, r, p, s
<1>3. ~(q > p)
  <2> SUFFICES ASSUME q > p PROVE FALSE
    OBVIOUS
  <2>1. d * q >= d * p + d
    BY <1>1, <1>2, Multiples, Zenon
  <2> QED BY <1>1, <1>2, <2>1
<1>4. q = p => r <= s
  BY <1>1, <1>2
<1> QED BY <1>1, <1>2, <1>3, <1>4 DEF q, r, p, s

-----------------------------------------------------------------------------
\* Releases

\* Every moment has a day and a time.
LEMMA ClockParts ==
  ASSUME NEW m \in Nat
  PROVE  m \div DayTicks \in Nat /\ m % DayTicks \in Nat
<1>1. DayTicks \in Nat \ {0}
  BY ReleasesAssumption, Zenon
<1> QED BY <1>1

\* The stamp of a release is a release.
LEMMA StampType ==
  ASSUME NEW v \in Versions, NEW sep \in {Blank, LetterT}, isNow \in Nat
  PROVE  /\ Stamp(v, sep) \in Release /\ Stamp(v, sep).version = v
         /\ Stamp(v, sep).day = Clock.day /\ Stamp(v, sep).time = Clock.time
<1>1. isNow \div DayTicks \in Nat /\ isNow % DayTicks \in Nat
  BY ClockParts, Zenon
<1> QED BY <1>1, Zenon DEF Stamp, Release, Clock

\* A release is registered.
Registers(v) ==
  /\ v # Unset /\ ~Registered(v)
  /\ isRel \in Seq(Release) /\ Len(isRel') = Len(isRel) + 1
  /\ \A i \in 1..Len(isRel) : isRel'[i] = isRel[i]
  /\ isRel'[Len(isRel) + 1].version = v
  /\ \A u : Registered(u)' <=> Registered(u) \/ u = v
  /\ isCrossed' = IF Binding THEN isCrossed \cup {"bind"} ELSE isCrossed

\* A release that is inserted is the last one, and the order stays.
LEMMA InsertKeeps ==
  ASSUME RelOK, NEW v \in Versions, v # Unset, ~Registered(v), NEW sep \in {Blank, LetterT},
         Insert(v, sep), isNow' = isNow
  PROVE  RelOK' /\ Registers(v)
<1> DEFINE n == Len(isRel)
           s == Stamp(v, sep)
<1>1. /\ s \in Release /\ s.version = v /\ isNow \in Nat
      /\ s.day = Clock.day /\ s.time = Clock.time
  BY StampType, Zenon DEF RelOK
<1>2. isRel \in Seq(Release) /\ n \in Nat /\ DOMAIN isRel = 1..n
  BY DEF RelOK
<1>3. isRel' = Append(isRel, s) /\ isCrossed' = IF Binding THEN isCrossed \cup {"bind"} ELSE isCrossed
  BY Zenon DEF Insert
<1> HIDE DEF s
<1>4. /\ isRel' \in Seq(Release) /\ Len(isRel') = n + 1 /\ isRel'[n + 1] = s
      /\ \A i \in 1..n : isRel'[i] = isRel[i]
      /\ DOMAIN isRel' = 1..(n + 1)
  BY <1>1, <1>2, <1>3
<1> HIDE DEF n
<1>5. \A i \in 1..n : isRel[i].version # v
  BY <1>2, Zenon DEF Registered
<1>6. Clock' = Clock /\ Earlier(s, Clock)
      /\ \A i \in 1..n : Earlier(isRel[i], s)
  <2>1. s.day = Clock.day /\ s.time = Clock.time
    BY <1>1, Zenon
  <2>2. Clock' = Clock
    BY Zenon DEF Clock
  <2>3. s.day \in Nat /\ s.time \in Nat
    BY <1>1, Zenon DEF Release
  <2>4. \A i \in 1..n : Earlier(isRel[i], Clock)
    BY Zenon DEF RelOK, n
  <2> QED BY <2>1, <2>2, <2>3, <2>4 DEF Earlier
<1>7. ASSUME NEW i \in 1..(n + 1), NEW j \in 1..(n + 1)
      PROVE  /\ isRel'[i].version = isRel'[j].version => i = j
             /\ i <= j => Earlier(isRel'[i], isRel'[j])
  <2>1. /\ i \in 1..n \/ i = n + 1
        /\ j \in 1..n \/ j = n + 1
    BY <1>2
  <2>2. CASE i \in 1..n /\ j \in 1..n
    BY <1>4, <2>2, Zenon DEF RelOK, n
  <2>3. CASE i \in 1..n /\ j = n + 1
    BY <1>1, <1>4, <1>5, <1>6, <2>3, Zenon
  <2>4. CASE i = n + 1 /\ j \in 1..n
    <3>1. ~(i <= j)
      BY <1>2, <2>4
    <3> QED BY <1>1, <1>4, <1>5, <2>4, <3>1, Zenon
  <2>5. CASE i = n + 1 /\ j = n + 1
    <3>1. s.day \in Nat /\ s.time \in Nat
      BY <1>1, Zenon DEF Release
    <3> QED BY <1>4, <2>5, <3>1 DEF Earlier
  <2> QED BY <2>1, <2>2, <2>3, <2>4, <2>5, Zenon
<1>8. ASSUME NEW i \in 1..(n + 1) PROVE Earlier(isRel'[i], Clock')
  <2>1. i \in 1..n \/ i = n + 1
    BY <1>2
  <2>2. \A k \in 1..n : Earlier(isRel[k], Clock)
    BY Zenon DEF RelOK, n
  <2> QED BY <1>4, <1>6, <2>1, <2>2, Zenon
<1>9. RelOK'
  BY <1>1, <1>4, <1>7, <1>8, Zenon DEF RelOK
<1>10. ASSUME NEW u PROVE Registered(u)' <=> Registered(u) \/ u = v
  <2>1. Registered(u)' <=> \E i \in 1..(n + 1) : isRel'[i].version = u
    BY <1>4, Zenon DEF Registered
  <2>2. Registered(u) <=> \E i \in 1..n : isRel[i].version = u
    BY <1>2, Zenon DEF Registered
  <2>3. \A i : i \in 1..(n + 1) <=> i \in 1..n \/ i = n + 1
    BY <1>2
  <2> QED BY <1>1, <1>4, <2>1, <2>2, <2>3, Zenon
<1> QED BY <1>1, <1>2, <1>3, <1>4, <1>9, <1>10, Zenon DEF Registers, n

\* The clock goes on.
LEMMA TickKeeps ==
  ASSUME RelOK, isRel' = isRel, isNow' = isNow + 1 \/ isNow' = isNow
  PROVE  RelOK'
<1>1. isNow \in Nat /\ isNow' \in Nat
  BY DEF RelOK
<1>2. Earlier(Clock, Clock')
  <2>1. /\ isNow \div DayTicks \in Nat /\ isNow % DayTicks \in Nat
        /\ isNow' \div DayTicks \in Nat /\ isNow' % DayTicks \in Nat
    BY <1>1, ClockParts, Zenon
  <2>2. CASE isNow' = isNow
    BY <2>1, <2>2 DEF Earlier, Clock
  <2>3. CASE isNow' = isNow + 1
    <3>1. \/ isNow \div DayTicks < isNow' \div DayTicks
          \/ isNow \div DayTicks = isNow' \div DayTicks /\ isNow % DayTicks <= isNow' % DayTicks
      <4>1. DayTicks \in Nat \ {0}
        BY ReleasesAssumption, Zenon
      <4> QED BY <1>1, <2>3, <4>1, NextTick, Zenon
    <3> QED BY <3>1, Zenon DEF Earlier, Clock
  <2> QED BY <2>2, <2>3, Zenon
<1>3. ASSUME NEW i \in 1..Len(isRel) PROVE Earlier(isRel[i], Clock')
  <2>1. isRel[i].day \in Nat /\ isRel[i].time \in Nat
    <3>1. isRel[i] \in Release
      BY DEF RelOK
    <3> QED BY <3>1, Zenon DEF Release
  <2>2. /\ Clock.day \in Nat /\ Clock.time \in Nat
        /\ Clock'.day \in Nat /\ Clock'.time \in Nat
    BY <1>1, ClockParts, Zenon DEF Clock
  <2>3. Earlier(isRel[i], Clock)
    BY Zenon DEF RelOK
  <2> QED BY <1>2, <2>1, <2>2, <2>3 DEF Earlier
<1> QED BY <1>1, <1>3, Zenon DEF RelOK

-----------------------------------------------------------------------------
\* The steps, by what they do to the choice

Others(e) == \A f \in Events \ {e} : isWk'[f] = isWk[f]

\* Nothing that matters here.
Still == UNCHANGED <<isRel, isRow, isWk, isApi, isWanted, isReopener, isCrossed>>

\* The API, and the first event of a release.
ApiRegisters(v) ==
  /\ Registers(v) /\ isApi = Unset /\ isApi' = v
  /\ UNCHANGED <<isRow, isWk, isWanted, isReopener>>
ApiGivesUp ==
  /\ isApi' = Unset /\ isCrossed' = isCrossed \cup {"bind"}
  /\ UNCHANGED <<isRel, isRow, isWk, isWanted, isReopener>>
EventRegisters(e) ==
  /\ Registers(ReleaseOf[e]) /\ Others(e)
  /\ isWk[e].pc = "idle" /\ isWk'[e].pc = "bind" /\ isWk'[e].first
  /\ UNCHANGED <<isRow, isApi, isWanted, isReopener>>

Binds(v) ==
  /\ v # Unset
  /\ IF isRow.id # 0 /\ isRow.status = "resolved" /\ isRow.sub = "next_release" /\ isRow.target = Unset
     THEN /\ isRow'.id = isRow.id /\ isRow'.status = isRow.status /\ isRow'.sub = isRow.sub
          /\ isRow'.target = v /\ isRow'.merged = isRow.merged /\ isRow'.assignee = isRow.assignee
     ELSE isRow' = isRow
  /\ UNCHANGED <<isRel, isWanted, isReopener, isCrossed>>
ApiBinds == Binds(isApi) /\ isApi' = Unset /\ UNCHANGED isWk
EventBinds(e) ==
  /\ Binds(ReleaseOf[e]) /\ Others(e) /\ UNCHANGED isApi
  /\ isWk[e].pc = "bind" /\ isWk'[e].pc = "lookup"
  /\ isWk'[e].first = isWk[e].first

Looks(e) ==
  /\ Others(e) /\ UNCHANGED <<isRel, isRow, isApi, isWanted, isReopener, isCrossed>>
  /\ isWk[e].pc = "lookup" /\ isWk'[e].pc = "upsert"
  /\ isWk'[e].regress = Regression(e) /\ isWk'[e].assign = (isRow.assignee = Unset)
  /\ isWk'[e].first = isWk[e].first

\* A worker goes on, fails or is interrupted.
Calm(e) ==
  /\ Others(e) /\ UNCHANGED <<isRel, isApi, isWanted>>
  /\ isCrossed' = isCrossed \/ isCrossed' = isCrossed \cup {"bind"}
  /\ isWk[e].pc = "bind" => "bind" \in isCrossed'
  /\ isWk'[e].pc \notin {"bind", "upsert"}
  /\ isWk'[e].first => isWk[e].first
  /\ isWk'[e].pc = "reopen" => isWk[e].pc = "upsert" /\ isWk[e].regress /\ isWk'[e].regress
  /\ isWk'[e].pc = "assign" => isWk'[e].assign
  /\ isWk'[e].pc \in {"reopen", "assign"} /\ isWk'[e].assign =>
       isWk[e].pc \in {"upsert", "reopen"} /\ isWk[e].assign

\* What it may do to the row.
RowCalm(e) ==
  \/ UNCHANGED <<isRow, isReopener>>
  \/ isRow.id = 0 /\ isRow'.status = "unresolved" /\ UNCHANGED isReopener
  \/ /\ isWk[e].pc = "reopen" /\ isReopener' = e
     /\ isRow'.id = isRow.id /\ isRow'.status = "unresolved" /\ isRow'.assignee = isRow.assignee
  \/ /\ isWk[e].pc = "assign" /\ UNCHANGED isReopener
     /\ isRow'.id = isRow.id /\ isRow'.status = isRow.status /\ isRow'.sub = isRow.sub
     /\ isRow'.target = isRow.target /\ isRow'.merged = isRow.merged

Chooses(c) ==
  /\ isRow.id # 0 /\ isRow'.id = isRow.id /\ isRow'.assignee = isRow.assignee
  /\ c \in {"ignore", "merge"} => isRow'.status = "ignored"
  /\ c = "merge" => isRow'.merged = "other"
  /\ c = "resolve_next" =>
       isRow'.status = "resolved" /\ isRow'.sub = "next_release" /\ isRow'.target = Unset
  /\ c # "resolve_next" => isRow'.sub # "next_release"
  /\ isWanted' = [isWanted EXCEPT !.choice = c, !.known = Len(isRel)]
  /\ isWanted'.choice = c /\ isWanted'.known = Len(isRel) /\ isWanted'.assignee = isWanted.assignee
  /\ isCrossed' = (isCrossed \cap {"assign"}) \cup (IF Binding THEN {"bind"} ELSE {})
                  \cup (IF ReopenPending THEN {"status"} ELSE {})
  /\ UNCHANGED <<isRel, isWk, isApi>>

Assigns ==
  /\ isRow.id # 0
  /\ isRow'.id = isRow.id /\ isRow'.status = isRow.status /\ isRow'.sub = isRow.sub
  /\ isRow'.target = isRow.target /\ isRow'.merged = isRow.merged /\ isRow'.assignee = "user"
  /\ isWanted' = [isWanted EXCEPT !.assignee = "user"]
  /\ isWanted'.choice = isWanted.choice /\ isWanted'.known = isWanted.known
  /\ isCrossed' = (isCrossed \ {"assign"}) \cup (IF AssignPending THEN {"assign"} ELSE {})
  /\ UNCHANGED <<isRel, isWk, isApi, isReopener>>

Deletes ==
  /\ isRow' = NoRow /\ isWanted' = NoWanted
  /\ UNCHANGED <<isRel, isWk, isApi>>

\* A worker's program counter moves.
LEMMA GoMoves ==
  ASSUME IInv, NEW e \in Events, NEW pc, Go(e, pc)
  PROVE  /\ Others(e) /\ isWk'[e].pc = pc /\ isWk'[e].first = isWk[e].first
         /\ isWk'[e].regress = isWk[e].regress /\ isWk'[e].assign = isWk[e].assign
<1>1. isWk \in [Events -> Worker] /\ isWk[e] \in Worker
  BY Zenon DEF IInv, IType
<1>2. isWk'[e] = [isWk[e] EXCEPT !.pc = pc] /\ Others(e)
  BY <1>1, Zenon DEF Go, Others
<1> QED BY <1>1, <1>2, Zenon DEF Worker

\* The steps of a worker that neither register nor bind nor look up.
LEMMA CalmSteps ==
  ASSUME IInv, NEW e \in Events,
         \/ (EnsureRelease(e) /\ Go(e, "lookup")) \/ EnsureFails(e) \/ UpsertGroup(e)
         \/ Reopen(e) \/ Assign(e) \/ UpdateFails(e) \/ SaveEvent(e) \/ Interrupt(e)
  PROVE  Calm(e) /\ RowCalm(e)
<1>1. isWk \in [Events -> Worker] /\ isWk[e] \in Worker /\ isRow \in IssueRow
  BY Zenon DEF IInv, IType
<1>2. ASSUME Go(e, "lookup"), isWk[e].pc \in {"idle", "bind"},
             UNCHANGED <<isRow, isApi, isReopener, isRel, isWanted>>,
             isCrossed' = IF isWk[e].pc = "bind" THEN isCrossed \cup {"bind"} ELSE isCrossed
      PROVE  Calm(e) /\ RowCalm(e)
  <2>1. Others(e) /\ isWk'[e].pc = "lookup" /\ isWk'[e].first = isWk[e].first
    BY <1>2, GoMoves, Zenon
  <2> QED BY <1>2, <2>1, Zenon DEF Calm, RowCalm
<1>3. CASE EnsureRelease(e) /\ Go(e, "lookup")
  <2>1. isWk'[e].pc = "lookup"
    BY <1>3, GoMoves, Zenon
  <2>2. ~(isWk' = [isWk EXCEPT ![e].pc = "bind", ![e].first = TRUE])
    <3> SUFFICES ASSUME isWk' = [isWk EXCEPT ![e].pc = "bind", ![e].first = TRUE] PROVE FALSE
      OBVIOUS
    <3>1. isWk'[e] = [isWk[e] EXCEPT !.pc = "bind", !.first = TRUE]
      BY <1>1, Zenon
    <3>2. isWk'[e].pc = "bind"
      BY <1>1, <3>1, Zenon DEF Worker
    <3> QED BY <2>1, <3>2, Zenon
  <2> QED BY <1>2, <1>3, <2>2, Zenon DEF EnsureRelease, At, users
<1>4. CASE EnsureFails(e)
  BY <1>2, <1>4, Zenon DEF EnsureFails, At
<1>5. CASE UpsertGroup(e)
  <2> DEFINE gid == IF isRow.id = 0 THEN isIds + 1 ELSE isRow.id
             pc == IF isWk[e].regress THEN "reopen" ELSE AfterReopen(isWk[e])
  <2>1. /\ isWk[e].pc = "upsert" /\ isWk' = [isWk EXCEPT ![e].gid = gid, ![e].pc = pc]
        /\ UNCHANGED <<isRel, isApi, isWanted, isCrossed, isReopener>>
        /\ isRow' = IF isRow.id = 0 THEN [NoRow EXCEPT !.id = gid] ELSE isRow
    BY <1>5, Zenon DEF UpsertGroup, At, users
  <2>2. pc \in {"reopen", "assign", "save"} /\ (pc = "reopen" => isWk[e].regress)
        /\ (pc = "assign" => isWk[e].assign)
    BY Zenon DEF AfterReopen
  <2> HIDE DEF gid, pc
  <2>3. isWk'[e] = [isWk[e] EXCEPT !.gid = gid, !.pc = pc] /\ Others(e)
    BY <1>1, <2>1, Zenon DEF Others
  <2>4. /\ isWk'[e].pc = pc /\ isWk'[e].first = isWk[e].first
        /\ isWk'[e].regress = isWk[e].regress /\ isWk'[e].assign = isWk[e].assign
    BY <1>1, <2>3, Zenon DEF Worker
  <2>5. isRow' = isRow \/ (isRow.id = 0 /\ isRow'.status = "unresolved")
    BY <2>1, Zenon DEF NoRow
  <2>6. Calm(e)
    BY <2>1, <2>2, <2>3, <2>4, Zenon DEF Calm
  <2> QED BY <2>1, <2>5, <2>6, Zenon DEF RowCalm
<1>6. ASSUME NEW pc, pc = "save" \/ (pc = AfterReopen(isWk[e]) /\ isWk[e].pc = "reopen"), Go(e, pc),
             isWk[e].pc \in {"reopen", "assign"},
             UNCHANGED <<isRel, isApi, isCrossed, isWanted>>
      PROVE  Calm(e)
  <2>1. /\ Others(e) /\ isWk'[e].pc = pc /\ isWk'[e].first = isWk[e].first
        /\ isWk'[e].assign = isWk[e].assign
    BY <1>6, GoMoves, Zenon
  <2>2. pc = "save" \/ (pc = "assign" /\ isWk[e].assign /\ isWk[e].pc = "reopen")
    BY <1>6, Zenon DEF AfterReopen
  <2> QED BY <1>6, <2>1, <2>2, Zenon DEF Calm
<1>7. CASE Reopen(e)
  <2>1. Calm(e)
    BY <1>6, <1>7, Zenon DEF Reopen, At, users
  <2>2. RowCalm(e)
    BY <1>1, <1>7, Zenon DEF Reopen, At, RowCalm, IssueRow
  <2> QED BY <2>1, <2>2, Zenon
<1>8. CASE Assign(e)
  <2>1. Calm(e)
    BY <1>6, <1>8, Zenon DEF Assign, At, users
  <2>2. RowCalm(e)
    BY <1>1, <1>8, Zenon DEF Assign, At, RowCalm, IssueRow
  <2> QED BY <2>1, <2>2, Zenon
<1>9. CASE UpdateFails(e)
  <2>1. Calm(e)
    BY <1>6, <1>9, Zenon DEF UpdateFails, At
  <2>2. RowCalm(e)
    BY <1>9, Zenon DEF UpdateFails, RowCalm
  <2> QED BY <2>1, <2>2, Zenon
<1>10. CASE SaveEvent(e) \/ Interrupt(e)
  <2>1. PICK pc \in {"idle", "done"} : isWk' = [isWk EXCEPT ![e] = [Idle EXCEPT !.pc = pc]]
    <3>1. Idle = [Idle EXCEPT !.pc = "idle"]
      BY DEF Idle
    <3> QED BY <1>10, <3>1, Zenon DEF SaveEvent, Interrupt
  <2>2. isWk'[e].pc = pc /\ ~isWk'[e].first /\ Others(e)
    BY <1>1, <2>1, Zenon DEF Idle, Others
  <2>3. /\ UNCHANGED <<isRel, isApi, isWanted, isRow, isReopener>>
        /\ isCrossed' = isCrossed \/ isCrossed' = isCrossed \cup {"bind"}
        /\ isWk[e].pc = "bind" => "bind" \in isCrossed'
    BY <1>10, Zenon DEF SaveEvent, Interrupt, At, users
  <2> QED BY <2>1, <2>2, <2>3, Zenon DEF Calm, RowCalm
<1> QED BY <1>3, <1>4, <1>5, <1>7, <1>8, <1>9, <1>10, Zenon

\* A release binds the issues that wait for one.
LEMMA BindSteps ==
  ASSUME IInv, NEW v, v # Unset, BindTo(v), UNCHANGED <<isRel, isWanted, isReopener, isCrossed>>
  PROVE  Binds(v)
<1>1. isRow \in IssueRow
  BY Zenon DEF IInv, IType
<1> DEFINE d == [isRow EXCEPT !.target = v]
<1>2. /\ d.id = isRow.id /\ d.status = isRow.status /\ d.sub = isRow.sub
      /\ d.target = v /\ d.merged = isRow.merged /\ d.assignee = isRow.assignee
  BY <1>1, Zenon DEF IssueRow
<1>3. isRow' = IF isRow.id # 0 /\ isRow.status = "resolved" /\ isRow.sub = "next_release" /\ isRow.target = Unset
               THEN d ELSE isRow
  BY Zenon DEF BindTo, Unset
<1> HIDE DEF d
<1> QED BY <1>2, <1>3, Zenon DEF Binds

\* The steps that register, bind and look up.
LEMMA ReleaseSteps ==
  ASSUME IInv, RelOK, Flags, NEW e \in Events
  PROVE  /\ EnsureRelease(e) => RelOK' /\ (EventRegisters(e) \/ Go(e, "lookup"))
         /\ Bind(e) => EventBinds(e)
         /\ Lookup(e) => Looks(e)
<1>1. isWk \in [Events -> Worker] /\ isWk[e] \in Worker
  BY Zenon DEF IInv, IType
<1>2. ReleaseOf[e] \in Versions
  BY Zenon DEF Versions
<1>3. ASSUME EnsureRelease(e), ~Go(e, "lookup") PROVE RelOK' /\ EventRegisters(e)
  <2>1. /\ ReleaseOf[e] # Unset /\ ~Registered(ReleaseOf[e]) /\ Insert(ReleaseOf[e], Blank)
        /\ isNow' = isNow /\ isWk[e].pc = "idle"
        /\ isWk' = [isWk EXCEPT ![e].pc = "bind", ![e].first = TRUE]
        /\ UNCHANGED <<isRow, isApi, isWanted, isReopener>>
    BY <1>3, Zenon DEF EnsureRelease, Unset, At, users
  <2>2. isWk'[e] = [isWk[e] EXCEPT !.pc = "bind", !.first = TRUE] /\ Others(e)
    BY <1>1, <2>1, Zenon DEF Others
  <2>3. isWk'[e].pc = "bind" /\ isWk'[e].first
    BY <1>1, <2>2, Zenon DEF Worker
  <2>4. RelOK' /\ Registers(ReleaseOf[e])
    BY <1>2, <2>1, InsertKeeps, Zenon
  <2> QED BY <2>1, <2>2, <2>3, <2>4, Zenon DEF EventRegisters
<1>4. ASSUME EnsureRelease(e), Go(e, "lookup") PROVE RelOK'
  <2>1. isNow' = isNow /\ isRel' = isRel
    <3>1. isWk'[e].pc = "lookup"
      BY <1>4, GoMoves, Zenon
    <3>2. ASSUME isWk' = [isWk EXCEPT ![e].pc = "bind", ![e].first = TRUE] PROVE FALSE
      <4>1. isWk'[e] = [isWk[e] EXCEPT !.pc = "bind", !.first = TRUE]
        BY <1>1, <3>2, Zenon
      <4>2. isWk'[e].pc = "bind"
        BY <1>1, <4>1, Zenon DEF Worker
      <4> QED BY <3>1, <4>2, Zenon
    <3> QED BY <1>4, <3>2, Zenon DEF EnsureRelease
  <2> QED BY <2>1, TickKeeps, Zenon
<1>5. ASSUME Bind(e) PROVE EventBinds(e)
  <2>1. isWk[e].pc = "bind" /\ BindTo(ReleaseOf[e]) /\ Go(e, "lookup")
        /\ UNCHANGED <<isRel, isApi, isReopener, isCrossed, isWanted>>
    BY <1>5, Zenon DEF Bind, At, users
  <2>2. ReleaseOf[e] # Unset
    BY <2>1, Zenon DEF Flags
  <2>3. Binds(ReleaseOf[e])
    BY <2>1, <2>2, BindSteps, Zenon
  <2>4. Others(e) /\ isWk'[e].pc = "lookup" /\ isWk'[e].first = isWk[e].first
    BY <2>1, GoMoves, Zenon
  <2> QED BY <2>1, <2>3, <2>4, Zenon DEF EventBinds
<1>6. ASSUME Lookup(e) PROVE Looks(e)
  <2>1. PICK r, s : /\ r = Regression(e) /\ s = (isRow.assignee = Unset)
                    /\ isWk' = [isWk EXCEPT ![e].pc = "upsert", ![e].regress = r, ![e].assign = s]
    BY <1>6, Zenon DEF Lookup, Unset
  <2>2. /\ isWk[e].pc = "lookup"
        /\ UNCHANGED <<isRel, isRow, isApi, isWanted, isReopener, isCrossed>>
    BY <1>6, Zenon DEF Lookup, At, users
  <2>3. isWk'[e] = [isWk[e] EXCEPT !.pc = "upsert", !.regress = r, !.assign = s] /\ Others(e)
    BY <1>1, <2>1, Zenon DEF Others
  <2>4. /\ isWk'[e].pc = "upsert" /\ isWk'[e].regress = r /\ isWk'[e].assign = s
        /\ isWk'[e].first = isWk[e].first
    BY <1>1, <2>3, Zenon DEF Worker
  <2> QED BY <2>1, <2>2, <2>3, <2>4, Zenon DEF Looks
<1> QED BY <1>3, <1>4, <1>5, <1>6, Zenon

\* The steps of users.
LEMMA UserSteps ==
  ASSUME IInv, WantedType
  PROVE  /\ \A c \in {"resolve", "resolve_next", "ignore", "reopen"} : updateIssueStatus(c) => Chooses(c)
         /\ MergeIssue => Chooses("merge")
         /\ UnmergeIssue => Chooses("reopen")
         /\ updateIssueAssignee => Assigns
<1>1. isRow \in IssueRow
  BY Zenon DEF IInv, IType
<1>2. ASSUME NEW c \in Choices, NEW s, NEW u, NEW m, NEW n, isRow.id # 0, Chosen(c),
             isRow' = [isRow EXCEPT !.noted = n, !.status = s, !.sub = u, !.target = Unset, !.merged = m],
             c \in {"ignore", "merge"} => s = "ignored",
             c = "merge" => m = "other",
             c = "resolve_next" => s = "resolved" /\ u = "next_release",
             c # "resolve_next" => u # "next_release"
      PROVE  Chooses(c)
  <2>1. /\ isRow'.id = isRow.id /\ isRow'.assignee = isRow.assignee /\ isRow'.status = s
        /\ isRow'.sub = u /\ isRow'.target = Unset /\ isRow'.merged = m
    BY <1>1, <1>2, Zenon DEF IssueRow
  <2>2. /\ isWanted'.choice = c /\ isWanted'.known = Len(isRel)
        /\ isWanted'.assignee = isWanted.assignee
    BY <1>2, Zenon DEF Chosen, WantedType
  <2> QED BY <1>2, <2>1, <2>2, Zenon DEF Chooses, Chosen
<1>3. ASSUME NEW c \in {"resolve", "resolve_next", "ignore", "reopen"}, updateIssueStatus(c)
      PROVE  Chooses(c)
  <2> DEFINE s == CASE c = "ignore" -> "ignored" [] c = "reopen" -> "unresolved" [] OTHER -> "resolved"
             u == IF c = "resolve_next" THEN "next_release" ELSE Unset
  <2>1. c \in Choices /\ c # "merge"
    BY Zenon DEF Choices
  <2>2. isRow.id # 0 /\ Chosen(c)
    BY <1>3, Zenon DEF updateIssueStatus, Choice
  <2>3. PICK n : isRow' = [isRow EXCEPT !.noted = n, !.status = s, !.sub = u, !.target = Unset, !.merged = Unset]
    BY <1>3, Zenon DEF updateIssueStatus, Unset
  <2>4. /\ c = "ignore" => s = "ignored"
        /\ c = "resolve_next" => s = "resolved" /\ u = "next_release"
        /\ c # "resolve_next" => u # "next_release"
    <3>1. Unset # "next_release"
      BY Zenon DEF Unset
    <3> QED BY <3>1, Zenon
  <2> HIDE DEF s, u
  <2> QED BY <1>2, <2>1, <2>2, <2>3, <2>4, Zenon
<1>4. ASSUME MergeIssue PROVE Chooses("merge")
  <2>1. isRow.id # 0 /\ Chosen("merge") /\ "merge" \in Choices
    BY <1>4, Zenon DEF MergeIssue, Choice, Choices
  <2>2. isRow' = [isRow EXCEPT !.noted = TRUE, !.status = "ignored", !.sub = "merged", !.target = Unset,
                               !.merged = "other"]
    BY <1>1, <1>4, Zenon DEF MergeIssue, Unset, IssueRow
  <2>3. "merged" # "next_release" /\ "merge" # "resolve_next"
    OBVIOUS
  <2> QED BY <1>2, <2>1, <2>2, <2>3, Zenon
<1>5. ASSUME UnmergeIssue PROVE Chooses("reopen")
  <2>1. isRow.id # 0 /\ Chosen("reopen") /\ "reopen" \in Choices
    BY <1>5, Zenon DEF UnmergeIssue, Choice, Choices
  <2>2. isRow' = [isRow EXCEPT !.noted = TRUE, !.status = "unresolved", !.sub = Unset, !.target = Unset,
                               !.merged = Unset]
    BY <1>1, <1>5, Zenon DEF UnmergeIssue, Unset, IssueRow
  <2>3. Unset # "next_release"
    BY Zenon DEF Unset
  <2> QED BY <1>2, <2>1, <2>2, <2>3, Zenon
<1>6. ASSUME updateIssueAssignee PROVE Assigns
  <2>1. PICK n : isRow' = [isRow EXCEPT !.assignee = "user", !.noted = n]
    BY <1>6, Zenon DEF updateIssueAssignee
  <2>2. /\ isRow'.id = isRow.id /\ isRow'.status = isRow.status /\ isRow'.sub = isRow.sub
        /\ isRow'.target = isRow.target /\ isRow'.merged = isRow.merged /\ isRow'.assignee = "user"
    BY <1>1, <2>1, Zenon DEF IssueRow
  <2>3. isWanted'.choice = isWanted.choice /\ isWanted'.known = isWanted.known
    BY <1>6, Zenon DEF updateIssueAssignee, WantedType
  <2> QED BY <1>6, <2>2, <2>3, Zenon DEF updateIssueAssignee, Choice, Assigns
<1> QED BY <1>3, <1>4, <1>5, <1>6, Zenon

\* Every step is one of these, and the releases stay in order.
StepKind ==
  \/ Still \/ ApiGivesUp \/ ApiBinds \/ Assigns \/ Deletes
  \/ \E v \in Versions : ApiRegisters(v)
  \/ \E e \in Events : EventRegisters(e) \/ EventBinds(e) \/ Looks(e) \/ (Calm(e) /\ RowCalm(e))
  \/ \E c \in Choices : Chooses(c)

\* The classification of the steps.
LEMMA StepKinds ==
  ASSUME IInv, RelOK, Flags, WantedType, [Next]_vars
  PROVE  RelOK' /\ StepKind
<1>1. ASSUME isRel' = isRel, isNow' = isNow PROVE RelOK'
  BY <1>1, TickKeeps, Zenon
<1>2. ASSUME NEW v \in Created, CreateRelease(v) PROVE RelOK' /\ ApiRegisters(v)
  <2>1. v \in Versions /\ v # Unset
    BY ReleasesAssumption, Zenon DEF Versions, Unset
  <2>2. /\ ~Registered(v) /\ Insert(v, LetterT) /\ isNow' = isNow /\ isApi = Unset /\ isApi' = v
        /\ UNCHANGED <<isRow, isWk, isWanted, isReopener>>
    BY <1>2, Zenon DEF CreateRelease, Unset, users
  <2>3. LetterT \in {Blank, LetterT}
    BY Zenon
  <2>4. RelOK' /\ Registers(v)
    BY <2>1, <2>2, <2>3, InsertKeeps, Zenon
  <2> QED BY <2>2, <2>4, Zenon DEF ApiRegisters
<1>3. ASSUME CreateReleaseBinds PROVE RelOK' /\ ApiBinds
  <2>1. /\ isApi # Unset /\ BindTo(isApi) /\ isApi' = Unset /\ isWk' = isWk /\ isNow' = isNow
        /\ UNCHANGED <<isRel, isWanted, isReopener, isCrossed>>
    BY <1>3, Zenon DEF CreateReleaseBinds, Unset, users
  <2>2. Binds(isApi)
    BY <2>1, BindSteps, Zenon
  <2> QED BY <1>1, <2>1, <2>2, Zenon DEF ApiBinds
<1>4. ASSUME CreateReleaseFails PROVE RelOK' /\ ApiGivesUp
  BY <1>1, <1>4, Zenon DEF CreateReleaseFails, ApiGivesUp, Unset
<1>5. ASSUME NEW e \in Events,
             \/ EnsureRelease(e) \/ Bind(e) \/ EnsureFails(e) \/ Lookup(e) \/ UpsertGroup(e)
             \/ Reopen(e) \/ Assign(e) \/ UpdateFails(e) \/ SaveEvent(e) \/ Interrupt(e)
      PROVE  /\ RelOK'
             /\ EventRegisters(e) \/ EventBinds(e) \/ Looks(e) \/ (Calm(e) /\ RowCalm(e))
  <2>1. ASSUME ~EnsureRelease(e) PROVE isRel' = isRel /\ isNow' = isNow
    BY <1>5, <2>1, Zenon DEF Bind, EnsureFails, Lookup, UpsertGroup, Reopen, Assign, UpdateFails,
       SaveEvent, Interrupt
  <2>2. RelOK'
    BY <1>1, <2>1, ReleaseSteps, Zenon
  <2>3. \/ EventRegisters(e) \/ EventBinds(e) \/ Looks(e)
        \/ (EnsureRelease(e) /\ Go(e, "lookup")) \/ EnsureFails(e) \/ UpsertGroup(e)
        \/ Reopen(e) \/ Assign(e) \/ UpdateFails(e) \/ SaveEvent(e) \/ Interrupt(e)
    BY <1>5, ReleaseSteps, Zenon
  <2> QED BY <2>2, <2>3, CalmSteps, Zenon
<1>6. ASSUME \/ \E c \in {"resolve", "resolve_next", "ignore", "reopen"} : updateIssueStatus(c)
             \/ MergeIssue \/ UnmergeIssue \/ updateIssueAssignee
      PROVE  RelOK' /\ (Assigns \/ \E c \in Choices : Chooses(c))
  <2>1. isRel' = isRel /\ isNow' = isNow
    BY <1>6, Zenon DEF updateIssueStatus, MergeIssue, UnmergeIssue, updateIssueAssignee, Chosen
  <2>2. {"resolve", "resolve_next", "ignore", "reopen", "merge"} \subseteq Choices
    BY Zenon DEF Choices
  <2> QED BY <1>1, <1>6, <2>1, <2>2, UserSteps, Zenon
<1>7. ASSUME deleteOrphanGroups \/ DeleteGroup PROVE RelOK' /\ Deletes
  BY <1>1, <1>7, Zenon DEF deleteOrphanGroups, DeleteGroup, DeleteRow, Deletes
<1>8. ASSUME Tick PROVE RelOK' /\ Still
  <2>1. isRel' = isRel /\ isNow' = isNow + 1
    BY <1>8, Zenon DEF Tick
  <2> QED BY <1>8, <2>1, TickKeeps, Zenon DEF Tick, Still
<1>9. ASSUME (\E e \in Events : DeleteOldEvent(e)) \/ UNCHANGED vars PROVE RelOK' /\ Still
  BY <1>1, <1>9, Zenon DEF DeleteOldEvent, Still, vars, users
<1>10. Created \subseteq Versions
  BY Zenon DEF Versions
<1> QED BY <1>2, <1>3, <1>4, <1>5, <1>6, <1>7, <1>8, <1>9, <1>10, Zenon DEF Next, Over, StepKind

-----------------------------------------------------------------------------
\* The invariant is kept

\* The note of what users chose keeps its type.
LEMMA WantedNext ==
  ASSUME RelOK, WantedType, StepKind
  PROVE  WantedType'
<1>1. Len(isRel) \in Nat
  BY DEF RelOK
<1>2. CASE isWanted' = isWanted
  BY <1>2, Zenon DEF WantedType
<1>3. ASSUME NEW c \in Choices, Chooses(c) PROVE WantedType'
  BY <1>1, <1>3, Zenon DEF Chooses, WantedType
<1>4. CASE Assigns
  BY <1>4, Zenon DEF Assigns, WantedType
<1>5. CASE Deletes
  <2>1. 0 \in Nat /\ "none" \in Choices
    BY Zenon DEF Choices
  <2> QED BY <1>5, <2>1, Zenon DEF Deletes, WantedType, NoWanted, Unset
<1> QED BY <1>2, <1>3, <1>4, <1>5, Zenon DEF StepKind, Still, ApiGivesUp, ApiBinds, ApiRegisters,
       EventRegisters, EventBinds, Binds, Looks, Calm

\* The flags when nothing is registered, and every worker keeps them.
LEMMA FlagsKept ==
  ASSUME Flags, isRel' = isRel, isApi' = isApi \/ isApi' = Unset,
         \A e \in Events :
           /\ isWk'[e].first => isWk[e].first
           /\ isWk'[e].pc = "bind" => isWk'[e].first
           /\ isWk'[e].pc = "reopen" => isWk'[e].regress
           /\ isWk'[e].pc = "assign" => isWk'[e].assign
  PROVE  Flags'
<1>1. \A v : Registered(v)' <=> Registered(v)
  BY Zenon DEF Registered
<1> QED BY <1>1, Zenon DEF Flags

\* Every step keeps the flags.
LEMMA FlagsNext ==
  ASSUME Flags, StepKind
  PROVE  Flags'
<1>1. CASE isRel' = isRel /\ isWk' = isWk /\ (isApi' = isApi \/ isApi' = Unset)
  BY <1>1, FlagsKept, Zenon DEF Flags
<1>2. ASSUME NEW v \in Versions, ApiRegisters(v) PROVE Flags'
  BY <1>2, Zenon DEF Flags, ApiRegisters, Registers
<1>3. ASSUME NEW e \in Events, EventRegisters(e) PROVE Flags'
  <2>1. /\ ReleaseOf[e] # Unset /\ ~Registered(ReleaseOf[e]) /\ isApi' = isApi
        /\ \A u : Registered(u)' <=> Registered(u) \/ u = ReleaseOf[e]
        /\ isWk'[e].pc = "bind" /\ isWk'[e].first
        /\ \A f \in Events : f # e => isWk'[f] = isWk[f]
    BY <1>3, Zenon DEF EventRegisters, Registers, Others
  <2>2. isApi' # Unset => Registered(isApi)'
    BY <2>1, Zenon DEF Flags
  <2>3. \A f \in Events :
          /\ isWk'[f].pc = "bind" => isWk'[f].first
          /\ isWk'[f].pc = "reopen" => isWk'[f].regress
          /\ isWk'[f].pc = "assign" => isWk'[f].assign
    BY <2>1, Zenon DEF Flags
  <2>4. ASSUME NEW f \in Events, isWk'[f].first
        PROVE  ReleaseOf[f] # Unset /\ ReleaseOf[f] # isApi' /\ Registered(ReleaseOf[f])'
    BY <2>1, <2>4, Zenon DEF Flags
  <2>5. ASSUME NEW f \in Events, NEW g \in Events, isWk'[f].first, isWk'[g].first,
               ReleaseOf[f] = ReleaseOf[g]
        PROVE  f = g
    BY <2>1, <2>5, Zenon DEF Flags
  <2> QED BY <2>2, <2>3, <2>4, <2>5, Zenon DEF Flags
<1>4. ASSUME NEW e \in Events, EventBinds(e) \/ Looks(e) \/ Calm(e) PROVE Flags'
  <2>1. ASSUME NEW f \in Events
        PROVE  /\ isWk'[f].first => isWk[f].first
               /\ isWk'[f].pc = "bind" => isWk'[f].first
               /\ isWk'[f].pc = "reopen" => isWk'[f].regress
               /\ isWk'[f].pc = "assign" => isWk'[f].assign
    <3>1. CASE f = e
      BY <1>4, <3>1, Zenon DEF EventBinds, Looks, Calm
    <3>2. CASE f # e
      BY <1>4, <3>2, Zenon DEF EventBinds, Looks, Calm, Others, Flags
    <3> QED BY <3>1, <3>2, Zenon
  <2>2. isRel' = isRel /\ isApi' = isApi
    BY <1>4, Zenon DEF EventBinds, Looks, Calm, Binds
  <2> QED BY <2>1, <2>2, FlagsKept, Zenon
<1> QED BY <1>1, <1>2, <1>3, <1>4, Zenon DEF StepKind, Still, ApiGivesUp, ApiBinds, Binds, Chooses,
       Assigns, Deletes

\* The next release, when nothing that matters to it changes.
LEMMA NextKept ==
  ASSUME NextOK,
         Waiting' /\ "bind" \notin isCrossed' =>
           /\ Waiting /\ "bind" \notin isCrossed /\ isRel' = isRel /\ isApi' = isApi
           /\ isWanted'.choice = isWanted.choice /\ isWanted'.known = isWanted.known
           /\ isRow'.target = isRow.target
           /\ \A e \in Events : isWk'[e].pc = "bind" <=> isWk[e].pc = "bind"
           /\ \A e \in Events : isWk'[e].first /\ isWk'[e].pc = "upsert" =>
                isWk[e].first /\ isWk[e].pc = "upsert" /\ isWk'[e].regress = isWk[e].regress
  PROVE  NextOK'
<1> SUFFICES ASSUME Waiting', "bind" \notin isCrossed'
             PROVE  /\ isWanted'.choice = "resolve_next" /\ isWanted'.known \in 0..Len(isRel')
                    /\ isRow'.target # Unset => IsNext(isRow.target)'
                    /\ isRow'.target = Unset =>
                         /\ Len(isRel') <= isWanted'.known + 1
                         /\ (Binding' <=> Len(isRel') > isWanted'.known)
                         /\ isApi' # Unset => IsNext(isApi)'
                         /\ \A e \in Events : isWk'[e].pc = "bind" => IsNext(ReleaseOf[e])'
                    /\ \A e \in Events :
                         isWk'[e].first /\ isWk'[e].pc = "upsert" /\ IsNext(ReleaseOf[e])' => isWk'[e].regress
  BY Zenon DEF NextOK
<1>1. \A v : IsNext(v)' <=> IsNext(v)
  BY Zenon DEF IsNext
<1>2. Binding' <=> Binding
  BY Zenon DEF Binding
<1> QED BY <1>1, <1>2, Zenon DEF NextOK

\* Who binds the release binds the next one.
LEMMA NextBound ==
  ASSUME NextOK, NEW v, Binds(v), v = isApi \/ \E e \in Events : isWk[e].pc = "bind" /\ ReleaseOf[e] = v,
         \A e \in Events : isWk'[e].pc = "bind" => isWk[e].pc = "bind",
         \A e \in Events : isWk'[e].pc = "upsert" => isWk'[e] = isWk[e]
  PROVE  NextOK'
<1> SUFFICES ASSUME Waiting', "bind" \notin isCrossed'
             PROVE  /\ isWanted'.choice = "resolve_next" /\ isWanted'.known \in 0..Len(isRel')
                    /\ isRow'.target # Unset /\ IsNext(isRow.target)'
                    /\ \A e \in Events :
                         isWk'[e].first /\ isWk'[e].pc = "upsert" /\ IsNext(ReleaseOf[e])' => isWk'[e].regress
  BY Zenon DEF NextOK
<1>1. /\ Waiting /\ "bind" \notin isCrossed /\ v # Unset /\ isRel' = isRel /\ isWanted' = isWanted
      /\ isRow.target = Unset => isRow'.target = v
      /\ isRow.target # Unset => isRow'.target = isRow.target
  BY Zenon DEF Binds, Waiting
<1>2. \A u : IsNext(u)' <=> IsNext(u)
  BY <1>1, Zenon DEF IsNext
<1>3. isRow.target = Unset => IsNext(v)
  BY <1>1, Zenon DEF NextOK
<1> QED BY <1>1, <1>2, <1>3, Zenon DEF NextOK

\* A release is registered: it is the next one, if none was registered since the choice.
LEMMA NextRegistered ==
  ASSUME RelOK, Flags, NextOK, NEW v, Registers(v), UNCHANGED <<isRow, isWanted>>,
         \/ isApi' = v /\ isWk' = isWk
         \/ \E e \in Events : ReleaseOf[e] = v /\ isWk'[e].pc = "bind" /\ Others(e) /\ isApi' = isApi
  PROVE  NextOK'
<1> SUFFICES ASSUME Waiting', "bind" \notin isCrossed'
             PROVE  /\ isWanted'.choice = "resolve_next" /\ isWanted'.known \in 0..Len(isRel')
                    /\ isRow'.target # Unset => IsNext(isRow.target)'
                    /\ isRow'.target = Unset =>
                         /\ Len(isRel') <= isWanted'.known + 1
                         /\ (Binding' <=> Len(isRel') > isWanted'.known)
                         /\ isApi' # Unset => IsNext(isApi)'
                         /\ \A e \in Events : isWk'[e].pc = "bind" => IsNext(ReleaseOf[e])'
                    /\ \A e \in Events :
                         isWk'[e].first /\ isWk'[e].pc = "upsert" /\ IsNext(ReleaseOf[e])' => isWk'[e].regress
  BY Zenon DEF NextOK
<1> DEFINE n == Len(isRel)
           k == isWanted.known
<1>1. /\ Waiting /\ "bind" \notin isCrossed /\ ~Binding /\ v # Unset /\ ~Registered(v)
      /\ isWanted' = isWanted /\ isRow' = isRow
  BY Zenon DEF Registers, Waiting
<1>2. /\ n \in Nat /\ k \in 0..n /\ Len(isRel') = n + 1 /\ isWanted.choice = "resolve_next"
      /\ \A i \in 1..n : isRel'[i] = isRel[i]
      /\ isRel'[n + 1].version = v /\ DOMAIN isRel = 1..n
  <2>1. k \in 0..n /\ isWanted.choice = "resolve_next"
    BY <1>1, Zenon DEF NextOK
  <2>2. isRel \in Seq(Release)
    BY Zenon DEF RelOK
  <2>3. n \in Nat /\ DOMAIN isRel = 1..n
    BY <2>2
  <2> QED BY <2>1, <2>3, Zenon DEF Registers
<1>3. isRow.target = Unset => n = k
  <2>1. isRow.target = Unset => ~(n > k)
    BY <1>1, Zenon DEF NextOK
  <2> QED BY <1>2, <2>1
<1>4. \A u : IsNext(u) => IsNext(u)'
  BY <1>1, <1>2 DEF IsNext
<1>5. n = k => IsNext(v)'
  BY <1>1, <1>2 DEF IsNext
<1>6. ASSUME NEW u, IsNext(u)' PROVE IsNext(u) \/ (n = k /\ u = v)
  BY <1>1, <1>2, <1>6 DEF IsNext
<1>7. isWanted'.known \in 0..Len(isRel') /\ Len(isRel') > isWanted'.known
  BY <1>1, <1>2
<1>8. n = k => Len(isRel') <= isWanted'.known + 1
  BY <1>1, <1>2
<1> HIDE DEF n, k
<1>9. Binding' /\ (isApi' # Unset => isApi' = v)
      /\ \A e \in Events : isWk'[e].pc = "bind" => ReleaseOf[e] = v
  BY <1>1, Zenon DEF Binding, Others, Unset
<1>10. ASSUME NEW e \in Events, isWk'[e].first, isWk'[e].pc = "upsert", IsNext(ReleaseOf[e])'
       PROVE  isWk'[e].regress
  <2>1. isWk'[e] = isWk[e]
    BY <1>10, Zenon DEF Others
  <2>2. Registered(ReleaseOf[e])
    BY <1>10, <2>1, Zenon DEF Flags
  <2>3. IsNext(ReleaseOf[e])
    BY <1>1, <1>6, <1>10, <2>2, Zenon
  <2> QED BY <1>1, <1>10, <2>1, <2>3, Zenon DEF NextOK
<1> QED BY <1>1, <1>2, <1>3, <1>4, <1>5, <1>7, <1>8, <1>9, <1>10, Zenon DEF NextOK

\* The worker that looks the issue up and registered the next release takes its event for a
\* regression: nobody else can be the one who is yet to bind that release.
LEMMA NextLookedUp ==
  ASSUME Flags, NextOK, NEW e \in Events, Looks(e)
  PROVE  NextOK'
<1> SUFFICES ASSUME Waiting', "bind" \notin isCrossed'
             PROVE  /\ isWanted'.choice = "resolve_next" /\ isWanted'.known \in 0..Len(isRel')
                    /\ isRow'.target # Unset => IsNext(isRow.target)'
                    /\ isRow'.target = Unset =>
                         /\ Len(isRel') <= isWanted'.known + 1
                         /\ (Binding' <=> Len(isRel') > isWanted'.known)
                         /\ isApi' # Unset => IsNext(isApi)'
                         /\ \A f \in Events : isWk'[f].pc = "bind" => IsNext(ReleaseOf[f])'
                    /\ \A f \in Events :
                         isWk'[f].first /\ isWk'[f].pc = "upsert" /\ IsNext(ReleaseOf[f])' => isWk'[f].regress
  BY Zenon DEF NextOK
<1>1. /\ Waiting /\ "bind" \notin isCrossed
      /\ UNCHANGED <<isRel, isRow, isApi, isWanted>>
      /\ \A f \in Events : f # e => isWk'[f] = isWk[f]
      /\ isWk[e].pc = "lookup" /\ isWk'[e].pc = "upsert" /\ isWk'[e].first = isWk[e].first
      /\ isWk'[e].regress = Regression(e)
  BY Zenon DEF Looks, Others, Waiting
<1>2. \A v : IsNext(v)' <=> IsNext(v)
  BY <1>1, Zenon DEF IsNext
<1>3. \A f \in Events : isWk'[f].pc = "bind" <=> isWk[f].pc = "bind"
  BY <1>1, Zenon
<1>4. Binding' <=> Binding
  BY <1>1, <1>3, Zenon DEF Binding
<1>5. ASSUME isWk[e].first, IsNext(ReleaseOf[e]) PROVE Regression(e)
  <2>1. ReleaseOf[e] # Unset /\ ReleaseOf[e] # isApi
    BY <1>5, Zenon DEF Flags
  <2>2. ASSUME isRow.target = Unset PROVE FALSE
    <3>1. Binding
      BY <1>1, <1>5, <2>2, Zenon DEF NextOK, IsNext
    <3>2. isApi = Unset
      BY <1>1, <1>5, <2>1, <2>2, Zenon DEF NextOK, IsNext
    <3>3. PICK f \in Events : isWk[f].pc = "bind"
      BY <3>1, <3>2, Zenon DEF Binding, Unset
    <3>4. ReleaseOf[f] = ReleaseOf[e]
      BY <1>1, <1>5, <2>2, <3>3, Zenon DEF NextOK, IsNext
    <3>5. f = e
      BY <1>5, <3>3, <3>4, Zenon DEF Flags
    <3> QED BY <1>1, <3>3, <3>5, Zenon
  <2>3. ReleaseOf[e] = isRow.target
    BY <1>1, <1>5, <2>2, Zenon DEF NextOK, IsNext
  <2> QED BY <1>1, <2>1, <2>3, Zenon DEF Regression, ReleaseIsAtOrAfter, Waiting, Unset
<1> QED BY <1>1, <1>2, <1>3, <1>4, <1>5, Zenon DEF NextOK

\* Every step keeps what holds of the next release.
LEMMA NextNext ==
  ASSUME RelOK, Flags, NextOK, StepKind
  PROVE  NextOK'
<1>1. CASE Still \/ ApiGivesUp \/ Deletes
  <2>1. Deletes => ~Waiting'
    <3>1. NoRow.status = "unresolved"
      BY Zenon DEF NoRow
    <3> QED BY <3>1, Zenon DEF Deletes, Waiting
  <2>2. ApiGivesUp => "bind" \in isCrossed'
    BY Zenon DEF ApiGivesUp
  <2>3. Still => (Waiting' <=> Waiting)
    BY Zenon DEF Still, Waiting
  <2> QED BY <1>1, <2>1, <2>2, <2>3, NextKept, Zenon DEF Still
<1>2. CASE ApiBinds
  BY <1>2, NextBound, Zenon DEF ApiBinds
<1>3. ASSUME NEW e \in Events, EventBinds(e) PROVE NextOK'
  <2>1. \A f \in Events : isWk'[f].pc \in {"bind", "upsert"} => isWk'[f] = isWk[f]
    BY <1>3, Zenon DEF EventBinds, Others
  <2> QED BY <1>3, <2>1, NextBound, Zenon DEF EventBinds
<1>4. ASSUME NEW v \in Versions, ApiRegisters(v) PROVE NextOK'
  BY <1>4, NextRegistered, Zenon DEF ApiRegisters
<1>5. ASSUME NEW e \in Events, EventRegisters(e) PROVE NextOK'
  BY <1>5, NextRegistered, Zenon DEF EventRegisters
<1>6. ASSUME NEW e \in Events, Looks(e) PROVE NextOK'
  BY <1>6, NextLookedUp, Zenon
<1>7. CASE Assigns
  <2>1. Waiting' <=> Waiting
    BY <1>7, Zenon DEF Assigns, Waiting
  <2>2. "bind" \in isCrossed' <=> "bind" \in isCrossed
    BY <1>7, Zenon DEF Assigns
  <2> QED BY <1>7, <2>1, <2>2, NextKept, Zenon DEF Assigns
<1>8. ASSUME NEW c \in Choices, Chooses(c) PROVE NextOK'
  <2>1. CASE c # "resolve_next"
    <3>1. ~Waiting'
      BY <1>8, <2>1, Zenon DEF Chooses, Waiting
    <3> QED BY <3>1, Zenon DEF NextOK
  <2>2. CASE c = "resolve_next"
    <3> SUFFICES ASSUME "bind" \notin isCrossed' PROVE NextOK'
      BY Zenon DEF NextOK
    <3>1. /\ ~Binding /\ isRel' = isRel /\ isWk' = isWk /\ isApi' = isApi
          /\ isWanted'.choice = "resolve_next" /\ isWanted'.known = Len(isRel') /\ isRow'.target = Unset
      BY <1>8, <2>2, Zenon DEF Chooses
    <3>2. ~Binding'
      BY <3>1, Zenon DEF Binding
    <3>3. isApi' = Unset /\ \A e \in Events : isWk'[e].pc # "bind"
      BY <3>2, Zenon DEF Binding, Unset
    <3>4. /\ Len(isRel') \in 0..Len(isRel') /\ Len(isRel') <= Len(isRel') + 1
          /\ ~(Len(isRel') > Len(isRel'))
      <4>1. Len(isRel') \in Nat
        BY <3>1 DEF RelOK
      <4> QED BY <4>1
    <3>5. \A v : ~IsNext(v)'
      BY <3>1, <3>4, Zenon DEF IsNext
    <3> QED BY <3>1, <3>2, <3>3, <3>4, <3>5, Zenon DEF NextOK
  <2> QED BY <2>1, <2>2, Zenon
<1>9. ASSUME NEW e \in Events, Calm(e), RowCalm(e) PROVE NextOK'
  <2> SUFFICES ASSUME Waiting', "bind" \notin isCrossed' PROVE NextOK'
    BY Zenon DEF NextOK
  <2>1. Waiting /\ isRow'.target = isRow.target
    BY <1>9, Zenon DEF RowCalm, Waiting
  <2>2. "bind" \notin isCrossed
    BY <1>9, Zenon DEF Calm
  <2>3. \A f \in Events :
          /\ isWk'[f].pc = "bind" <=> isWk[f].pc = "bind"
          /\ isWk'[f].pc = "upsert" => isWk'[f] = isWk[f]
    BY <1>9, Zenon DEF Calm, Others
  <2> QED BY <1>9, <2>1, <2>2, <2>3, NextKept, Zenon DEF Calm
<1> QED BY <1>1, <1>2, <1>3, <1>4, <1>5, <1>6, <1>7, <1>8, <1>9, Zenon DEF StepKind

-----------------------------------------------------------------------------
\* What was chosen stays

\* Releases are only added.
Grows ==
  \/ isRel' = isRel
  \/ Len(isRel') = Len(isRel) + 1 /\ \A i \in 1..Len(isRel) : isRel'[i] = isRel[i]

\* More releases: mixed origins stay mixed, and who may reopen still may.
LEMMA GrowsKeeps ==
  ASSUME RelOK, RelOK', Grows
  PROVE  /\ Mixed => Mixed'
         /\ isWanted'.known = isWanted.known => \A e : MayReopen(e) => MayReopen(e)'
<1>1. /\ DOMAIN isRel = 1..Len(isRel) /\ DOMAIN isRel' = 1..Len(isRel')
      /\ Len(isRel) \in Nat /\ Len(isRel') \in Nat
  BY DEF RelOK
<1>2. \A i \in 1..Len(isRel) : i \in 1..Len(isRel') /\ isRel'[i] = isRel[i]
  <2>1. Len(isRel') >= Len(isRel)
    <3>1. Len(isRel') = Len(isRel) \/ Len(isRel') = Len(isRel) + 1
      BY Zenon DEF Grows
    <3>2. Len(isRel) \in Nat /\ Len(isRel') \in Nat
      BY <1>1, Zenon
    <3> QED BY ONLY <3>1, <3>2
  <2>2. \A i \in 1..Len(isRel) : i \in 1..Len(isRel')
    BY <1>1, <2>1
  <2> QED BY <2>2, Zenon DEF Grows
<1> QED BY <1>1, <1>2, ZenonT(60) DEF Mixed, MayReopen

\* Without releases of mixed origin, an event at or after the next release names a release
\* registered since the choice.
LEMMA AtOrAfterNext ==
  ASSUME RelOK, ~Mixed, NEW t, IsNext(t), NEW e \in Events, isWanted.known \in Nat,
         ReleaseIsAtOrAfter(ReleaseOf[e], t)
  PROVE  MayReopen(e)
<1> DEFINE v == ReleaseOf[e]
           k == isWanted.known + 1
<1>1. isRel \in Seq(Release) /\ Len(isRel) \in Nat /\ DOMAIN isRel = 1..Len(isRel)
  BY DEF RelOK
<1>2. k \in 1..Len(isRel) /\ k > isWanted.known /\ isRel[k].version = t
  BY <1>1 DEF IsNext
<1> HIDE DEF k, v
<1>3. CASE v = t
  BY <1>2, <1>3, Zenon DEF MayReopen, v
<1>4. CASE v # t
  <2>1. Registered(v) /\ Registered(t)
    BY <1>4, Zenon DEF ReleaseIsAtOrAfter, v
  <2> DEFINE i == RowId(v)
             j == RowId(t)
  <2>2. i \in DOMAIN isRel /\ isRel[i].version = v /\ j \in DOMAIN isRel /\ isRel[j].version = t
    BY <2>1, Zenon DEF Registered, RowId
  <2>3. TextAfter(isRel[i], isRel[j]) \/ i >= j
    BY <1>4, Zenon DEF ReleaseIsAtOrAfter, v
  <2> HIDE DEF i, j
  <2>4. j = k
    BY <1>1, <1>2, <2>2, Zenon DEF RelOK
  <2>5. i \in 1..Len(isRel) /\ k \in 1..Len(isRel)
    BY <1>1, <1>2, <2>2, Zenon
  <2>6. ASSUME i < k PROVE FALSE
    <3>1. Earlier(isRel[i], isRel[k])
      BY <1>1, <2>5, <2>6 DEF RelOK
    <3>2. isRel[i] \in Release /\ isRel[k] \in Release
      BY <1>1, <2>5
    <3>3. /\ isRel[i].day \in Nat /\ isRel[i].time \in Nat /\ isRel[i].sep \in Nat
          /\ isRel[k].day \in Nat /\ isRel[k].time \in Nat /\ isRel[k].sep \in Nat
      BY <3>2 DEF Release, Blank, LetterT
    <3>4. isRel[i].day = isRel[k].day => isRel[i].sep = isRel[k].sep
      BY <1>1, <2>5, Zenon DEF Mixed
    <3>5. ~(i >= k)
      BY <1>1, <2>5, <2>6
    <3>6. TextAfter(isRel[i], isRel[k])
      BY <2>3, <2>4, <3>5, Zenon
    <3> QED BY <3>1, <3>3, <3>4, <3>6 DEF Earlier, TextAfter
  <2>7. i > isWanted.known
    BY <1>1, <2>5, <2>6 DEF k
  <2> QED BY <2>2, <2>5, <2>7, Zenon DEF MayReopen, v
<1> QED BY <1>3, <1>4, Zenon

\* Nobody takes up a reopening or an assignment.
Quiet ==
  /\ \A f \in Events : Pending(f)' => Pending(f)
  /\ AssignPending' => AssignPending

\* The choice stays when nobody new is about to write and the row keeps what was chosen.
LEMMA ChoiceKept ==
  ASSUME RelOK, RelOK', Grows, ChoiceOK, Quiet, UNCHANGED <<isWanted, isReopener>>,
         isCrossed \subseteq isCrossed', isRow'.id = isRow.id, isRow'.status = isRow.status,
         isRow'.sub = isRow.sub, isRow'.merged = isRow.merged,
         isRow'.assignee = isRow.assignee \/ AssignPending
  PROVE  ChoiceOK'
<1>1. Mixed => Mixed'
  BY GrowsKeeps, Zenon
<1>2. \A e : MayReopen(e) => MayReopen(e)'
  BY GrowsKeeps, Zenon
<1>3. Waiting' <=> Waiting
  BY Zenon DEF Waiting
<1>4. IgnoredOK'
  BY Zenon DEF ChoiceOK, IgnoredOK, Quiet
<1>5. ReopenedOK'
  <2> SUFFICES ASSUME isWanted'.choice = "resolve_next", isCrossed' \cap {"status", "bind"} = {}, ~Mixed'
               PROVE  /\ \/ Waiting'
                         \/ isRow'.status = "unresolved" /\ isReopener' \in Events /\ MayReopen(isReopener)'
                      /\ \A e \in Events : Pending(e)' => MayReopen(e)'
    BY Zenon DEF ReopenedOK
  <2>1. isWanted.choice = "resolve_next" /\ isCrossed \cap {"status", "bind"} = {} /\ ~Mixed
    BY <1>1, Zenon
  <2>2. /\ \/ Waiting
           \/ isRow.status = "unresolved" /\ isReopener \in Events /\ MayReopen(isReopener)
        /\ \A e \in Events : Pending(e) => MayReopen(e)
    BY <2>1, Zenon DEF ChoiceOK, ReopenedOK
  <2>3. MayReopen(isReopener) => MayReopen(isReopener)'
    <3>1. isReopener' = isReopener /\ isWanted' = isWanted
      OBVIOUS
    <3>2. MayReopen(isReopener) => \E i \in 1..Len(isRel') : i > isWanted'.known /\ isRel'[i].version = ReleaseOf[isReopener]
      BY <1>2, Zenon DEF MayReopen
    <3> QED BY <3>1, <3>2, Zenon DEF MayReopen
  <2> QED BY <1>2, <1>3, <2>2, <2>3, Zenon DEF Quiet
<1>6. AssigneeOK'
  BY Zenon DEF ChoiceOK, AssigneeOK, Quiet
<1> QED BY <1>4, <1>5, <1>6, Zenon DEF ChoiceOK

\* The workers that were not about to write still are not.
LEMMA CalmQuiet ==
  ASSUME NEW e \in Events, Calm(e), Flags
  PROVE  Quiet
<1>1. ASSUME NEW f \in Events PROVE Pending(f)' => Pending(f)
  <2>1. CASE f = e
    BY <2>1, Zenon DEF Calm, Pending
  <2>2. CASE f # e
    BY <2>2, Zenon DEF Calm, Pending, Others
  <2> QED BY <2>1, <2>2, Zenon
<1>2. ASSUME NEW f \in Events, isWk'[f].pc \in {"upsert", "reopen", "assign"}, isWk'[f].assign
      PROVE  AssignPending
  <2>1. CASE f = e
    BY <1>2, <2>1, Zenon DEF Calm, AssignPending
  <2>2. CASE f # e
    BY <1>2, <2>2, Zenon DEF Calm, AssignPending, Others
  <2> QED BY <2>1, <2>2, Zenon
<1> QED BY <1>1, <1>2, Zenon DEF Quiet, AssignPending

\* A worker goes on: only one told to by its lookup reopens or assigns.
LEMMA ChoiceCalm ==
  ASSUME RelOK, RelOK', Flags, ChoiceOK, NEW e \in Events, Calm(e), RowCalm(e)
  PROVE  ChoiceOK'
<1>1. Quiet
  BY CalmQuiet, Zenon
<1>2. Grows /\ isCrossed \subseteq isCrossed' /\ isWanted' = isWanted
  BY Zenon DEF Calm, Grows
<1>3. CASE UNCHANGED <<isRow, isReopener>>
  BY <1>1, <1>2, <1>3, ChoiceKept, Zenon
<1>4. CASE isRow.id = 0
  <2>1. isWanted' = NoWanted
    BY <1>2, <1>4, Zenon DEF ChoiceOK
  <2>2. isWanted'.choice = "none" /\ isWanted'.assignee = Unset /\ Unset # "user"
    BY <2>1, Zenon DEF NoWanted, Unset
  <2> QED BY <2>1, <2>2, Zenon DEF ChoiceOK, IgnoredOK, ReopenedOK, AssigneeOK
<1>5. CASE /\ isWk[e].pc = "reopen" /\ isReopener' = e
           /\ isRow'.id = isRow.id /\ isRow'.status = "unresolved" /\ isRow'.assignee = isRow.assignee
  <2>1. Pending(e)
    BY <1>5, Zenon DEF Flags, Pending
  <2>2. IgnoredOK'
    BY <1>2, <2>1, Zenon DEF ChoiceOK, IgnoredOK
  <2>3. AssigneeOK'
    BY <1>1, <1>2, <1>5, Zenon DEF ChoiceOK, AssigneeOK, Quiet
  <2>4. ReopenedOK'
    <3> SUFFICES ASSUME isWanted'.choice = "resolve_next", isCrossed' \cap {"status", "bind"} = {}, ~Mixed'
                 PROVE  MayReopen(isReopener)' /\ \A f \in Events : Pending(f)' => MayReopen(f)'
      BY <1>5, Zenon DEF ReopenedOK
    <3>1. ~Mixed
      BY <1>2, GrowsKeeps, Zenon
    <3>2. isCrossed \cap {"status", "bind"} = {}
      BY <1>2, Zenon
    <3>3. \A f \in Events : Pending(f) => MayReopen(f)
      BY <1>2, <3>1, <3>2, Zenon DEF ChoiceOK, ReopenedOK
    <3>4. \A f \in Events : Pending(f) => MayReopen(f)'
      BY <1>2, <3>3, GrowsKeeps, Zenon
    <3>5. MayReopen(isReopener)'
      <4>1. \E i \in 1..Len(isRel') : i > isWanted'.known /\ isRel'[i].version = ReleaseOf[e]
        BY <2>1, <3>4, Zenon DEF MayReopen
      <4> QED BY <1>5, <4>1, Zenon DEF MayReopen
    <3> QED BY <1>1, <3>4, <3>5, Zenon DEF Quiet
  <2> QED BY <1>2, <1>5, <2>2, <2>3, <2>4, Zenon DEF ChoiceOK
<1>6. CASE /\ isWk[e].pc = "assign" /\ UNCHANGED isReopener
           /\ isRow'.id = isRow.id /\ isRow'.status = isRow.status /\ isRow'.sub = isRow.sub
           /\ isRow'.target = isRow.target /\ isRow'.merged = isRow.merged
  <2>1. AssignPending
    BY <1>6, Zenon DEF Flags, AssignPending
  <2> QED BY <1>1, <1>2, <1>6, <2>1, ChoiceKept, Zenon
<1> QED BY <1>3, <1>4, <1>5, <1>6, Zenon DEF RowCalm

\* A worker looks the issue up: what it is told fits the choice.
LEMMA ChoiceLookedUp ==
  ASSUME RelOK, NextOK, ChoiceOK, NEW e \in Events, Looks(e)
  PROVE  ChoiceOK'
<1>1. /\ UNCHANGED <<isRel, isRow, isApi, isWanted, isReopener, isCrossed>>
      /\ \A f \in Events : f # e => isWk'[f] = isWk[f]
      /\ isWk'[e].pc = "upsert" /\ isWk'[e].regress = Regression(e)
      /\ isWk'[e].assign = (isRow.assignee = Unset)
  BY Zenon DEF Looks, Others
<1>2. \A f \in Events : Pending(f)' => Pending(f) \/ (f = e /\ Regression(e))
  BY <1>1, Zenon DEF Pending
<1>3. /\ Mixed' <=> Mixed
      /\ Waiting' <=> Waiting
      /\ \A f \in Events : MayReopen(f)' <=> MayReopen(f)
      /\ MayReopen(isReopener)' <=> MayReopen(isReopener)
  BY <1>1, Zenon DEF Mixed, Waiting, MayReopen
<1>4. IgnoredOK'
  <2>1. isRow.status = "ignored" => ~Regression(e)
    BY Zenon DEF Regression
  <2> QED BY <1>1, <1>2, <2>1, Zenon DEF ChoiceOK, IgnoredOK
<1>5. ReopenedOK'
  <2> SUFFICES ASSUME isWanted.choice = "resolve_next", isCrossed \cap {"status", "bind"} = {}, ~Mixed,
                      Regression(e)
               PROVE  MayReopen(e)
    BY <1>1, <1>2, <1>3, Zenon DEF ChoiceOK, ReopenedOK
  <2>1. isRow.status = "resolved"
    BY Zenon DEF Regression
  <2>2. Waiting
    <3>1. Waiting \/ isRow.status = "unresolved"
      BY Zenon DEF ChoiceOK, ReopenedOK
    <3> QED BY <2>1, <3>1, Zenon
  <2>3. "bind" \notin isCrossed
    OBVIOUS
  <2>4. isRow.target # Unset /\ ReleaseIsAtOrAfter(ReleaseOf[e], isRow.target)
    BY <2>2, Zenon DEF Regression, Waiting, Unset
  <2>5. IsNext(isRow.target) /\ isWanted.known \in 0..Len(isRel)
    BY <2>2, <2>3, <2>4, Zenon DEF NextOK
  <2>6. isWanted.known \in Nat
    BY <2>5 DEF RelOK
  <2> QED BY <2>4, <2>5, <2>6, AtOrAfterNext, Zenon
<1>6. AssigneeOK'
  <2> SUFFICES ASSUME isWanted.assignee = "user", "assign" \notin isCrossed
               PROVE  isRow'.assignee = "user" /\ ~AssignPending'
    BY <1>1, Zenon DEF AssigneeOK
  <2>1. isRow.assignee = "user" /\ ~AssignPending
    BY Zenon DEF ChoiceOK, AssigneeOK
  <2>2. ~isWk'[e].assign
    <3>1. Unset # "user"
      BY Zenon DEF Unset
    <3> QED BY <1>1, <2>1, <3>1, Zenon
  <2> QED BY <1>1, <2>1, <2>2, Zenon DEF AssignPending
<1> QED BY <1>1, <1>4, <1>5, <1>6, Zenon DEF ChoiceOK

\* A new choice: who is about to write has crossed it.
LEMMA ChoiceChosen ==
  ASSUME ChoiceOK, NEW c \in Choices, Chooses(c)
  PROVE  ChoiceOK'
<1>1. /\ isRow'.id # 0 /\ isRow'.assignee = isRow.assignee /\ UNCHANGED <<isRel, isWk>>
      /\ isWanted'.choice = c /\ isWanted'.assignee = isWanted.assignee
  BY Zenon DEF Chooses
<1>2. /\ "assign" \in isCrossed' <=> "assign" \in isCrossed
      /\ "status" \notin isCrossed' => ~ReopenPending
  BY Zenon DEF Chooses
<1>3. AssigneeOK'
  <2>1. AssignPending' <=> AssignPending
    BY <1>1, Zenon DEF AssignPending
  <2> QED BY <1>1, <1>2, <2>1, Zenon DEF ChoiceOK, AssigneeOK
<1>4. ~ReopenPending => \A e \in Events : ~Pending(e)'
  BY <1>1, Zenon DEF ReopenPending, Pending
<1>5. IgnoredOK'
  BY <1>1, <1>2, <1>4, Zenon DEF IgnoredOK, Chooses
<1>6. ReopenedOK'
  <2>1. c = "resolve_next" => Waiting'
    BY <1>1, Zenon DEF Chooses, Waiting
  <2>2. isCrossed' \cap {"status", "bind"} = {} => "status" \notin isCrossed'
    OBVIOUS
  <2> QED BY <1>1, <1>2, <1>4, <2>1, <2>2, Zenon DEF ReopenedOK
<1> QED BY <1>1, <1>3, <1>5, <1>6, Zenon DEF ChoiceOK

\* Every step keeps what was chosen.
LEMMA ChoiceNext ==
  ASSUME RelOK, RelOK', Flags, NextOK, ChoiceOK, StepKind
  PROVE  ChoiceOK'
<1>1. ASSUME UNCHANGED <<isRow, isWk, isWanted, isReopener>>, isCrossed \subseteq isCrossed', Grows
      PROVE  ChoiceOK'
  <2>1. Quiet
    BY <1>1, Zenon DEF Quiet, Pending, AssignPending
  <2> QED BY <1>1, <2>1, ChoiceKept, Zenon
<1>2. CASE Still \/ ApiGivesUp
  <2>1. Grows /\ isCrossed \subseteq isCrossed'
    BY <1>2, Zenon DEF Still, ApiGivesUp, Grows
  <2> QED BY <1>1, <1>2, <2>1, Zenon DEF Still, ApiGivesUp
<1>3. ASSUME NEW v, Registers(v) PROVE Grows /\ isCrossed \subseteq isCrossed'
  BY <1>3, Zenon DEF Registers, Grows
<1>4. ASSUME NEW v \in Versions, ApiRegisters(v) PROVE ChoiceOK'
  BY <1>1, <1>3, <1>4, Zenon DEF ApiRegisters
<1>5. ASSUME NEW e \in Events, EventRegisters(e) \/ EventBinds(e) PROVE Quiet
  <2>1. /\ isWk'[e].pc \notin {"upsert", "reopen", "assign"}
        /\ \A f \in Events : f # e => isWk'[f] = isWk[f]
    BY <1>5, Zenon DEF EventRegisters, EventBinds, Others
  <2>2. \A f \in Events : Pending(f)' => Pending(f)
    BY <2>1, Zenon DEF Pending
  <2>3. AssignPending' => AssignPending
    BY <2>1, Zenon DEF AssignPending
  <2> QED BY <2>2, <2>3, Zenon DEF Quiet
<1>6. ASSUME NEW e \in Events, EventRegisters(e) PROVE ChoiceOK'
  BY <1>3, <1>5, <1>6, ChoiceKept, Zenon DEF EventRegisters
<1>7. ASSUME NEW v, Binds(v), Quiet PROVE ChoiceOK'
  <2>1. Grows /\ isCrossed \subseteq isCrossed' /\ UNCHANGED <<isWanted, isReopener>>
    BY <1>7, Zenon DEF Binds, Grows
  <2>2. /\ isRow'.id = isRow.id /\ isRow'.status = isRow.status /\ isRow'.sub = isRow.sub
        /\ isRow'.merged = isRow.merged /\ isRow'.assignee = isRow.assignee
    BY <1>7, Zenon DEF Binds
  <2> QED BY <1>7, <2>1, <2>2, ChoiceKept, Zenon
<1>8. CASE ApiBinds
  <2>1. Quiet
    BY <1>8, Zenon DEF Quiet, Pending, AssignPending, ApiBinds
  <2> QED BY <1>7, <1>8, <2>1, Zenon DEF ApiBinds
<1>9. ASSUME NEW e \in Events, EventBinds(e) PROVE ChoiceOK'
  BY <1>5, <1>7, <1>9, Zenon DEF EventBinds
<1>10. CASE Deletes
  <2>1. isWanted' = NoWanted
    BY <1>10, Zenon DEF Deletes
  <2>2. isWanted'.choice = "none" /\ isWanted'.assignee = Unset /\ Unset # "user"
    BY <2>1, Zenon DEF NoWanted, Unset
  <2> QED BY <2>1, <2>2, Zenon DEF ChoiceOK, IgnoredOK, ReopenedOK, AssigneeOK
<1>11. CASE Assigns
  <2>1. /\ isRow'.id = isRow.id /\ isRow.id # 0 /\ isRow'.status = isRow.status
        /\ isRow'.sub = isRow.sub /\ isRow'.merged = isRow.merged /\ isRow'.assignee = "user"
        /\ isWanted'.choice = isWanted.choice /\ isWanted'.known = isWanted.known
        /\ UNCHANGED <<isRel, isWk, isReopener>>
    BY <1>11, Zenon DEF Assigns
  <2>2. /\ "status" \in isCrossed' <=> "status" \in isCrossed
        /\ "bind" \in isCrossed' <=> "bind" \in isCrossed
        /\ "assign" \notin isCrossed' => ~AssignPending
    BY <1>11, Zenon DEF Assigns
  <2>3. isCrossed' \cap {"status", "bind"} = {} <=> isCrossed \cap {"status", "bind"} = {}
    BY <2>2, Zenon
  <2>4. /\ Mixed' <=> Mixed
        /\ Waiting' <=> Waiting
        /\ AssignPending' <=> AssignPending
        /\ \A f \in Events : Pending(f)' <=> Pending(f)
        /\ \A f \in Events : MayReopen(f)' <=> MayReopen(f)
        /\ MayReopen(isReopener)' <=> MayReopen(isReopener)
    BY <2>1, Zenon DEF Mixed, Waiting, AssignPending, Pending, MayReopen
  <2>5. IgnoredOK'
    BY <2>1, <2>2, <2>4, Zenon DEF ChoiceOK, IgnoredOK
  <2>6. ReopenedOK'
    BY <2>1, <2>3, <2>4, Zenon DEF ChoiceOK, ReopenedOK
  <2>7. AssigneeOK'
    BY <2>1, <2>2, <2>4, Zenon DEF AssigneeOK
  <2> QED BY <2>1, <2>5, <2>6, <2>7, Zenon DEF ChoiceOK
<1> QED BY <1>2, <1>4, <1>6, <1>8, <1>9, <1>10, <1>11, ChoiceCalm, ChoiceLookedUp, ChoiceChosen, Zenon
       DEF StepKind

-----------------------------------------------------------------------------

\* No releases, no choice, idle workers.
LEMMA KInvInit == Init => KInv
<1> SUFFICES ASSUME Init PROVE KInv
  OBVIOUS
<1>1. isRel = <<>> /\ isNow = 0 /\ isApi = Unset /\ isWanted = NoWanted
      /\ isRow.status = "unresolved" /\ \A e \in Events : isWk[e] = Idle
  <2>1. [NoRow EXCEPT !.id = isIds].status = "unresolved"
    BY Zenon DEF NoRow
  <2> QED BY <2>1, Zenon DEF Init, Unset
<1>2. RelOK
  BY <1>1 DEF RelOK
<1>3. WantedType
  <2>1. 0 \in Nat /\ "none" \in Choices
    BY Zenon DEF Choices
  <2> QED BY <1>1, <2>1, Zenon DEF WantedType, NoWanted, Unset
<1>4. \A e \in Events : isWk[e].pc = "idle" /\ ~isWk[e].first
  <2>1. Idle.pc = "idle" /\ Idle.first = FALSE
    BY Zenon DEF Idle
  <2> QED BY <1>1, <2>1, Zenon
<1>5. Flags
  BY <1>1, <1>4, Zenon DEF Flags
<1>6. NextOK
  BY <1>1, Zenon DEF NextOK, Waiting
<1>7. ChoiceOK
  <2>1. isWanted.choice = "none" /\ isWanted.assignee = Unset /\ Unset # "user"
    BY <1>1, Zenon DEF NoWanted, Unset
  <2> QED BY <1>1, <2>1, Zenon DEF ChoiceOK, IgnoredOK, ReopenedOK, AssigneeOK
<1> QED BY <1>2, <1>3, <1>5, <1>6, <1>7, Zenon DEF KInv

\* The invariant is inductive.
LEMMA KInvNext ==
  ASSUME IInv, KInv, [Next]_vars
  PROVE  KInv'
<1>1. RelOK' /\ StepKind
  BY StepKinds, Zenon DEF KInv
<1> QED BY <1>1, WantedNext, FlagsNext, NextNext, ChoiceNext, Zenon DEF KInv

\* An issue resolved in the next release is bound to the first release registered after the
\* choice, and the event that registered it reopens the issue, whatever the number of
\* events, of releases and of steps, unless a binding crossed the choice.
THEOREM NextReleaseIsBound == Spec => []NextReleaseUnlessCrossed
<1>1. IInv /\ KInv /\ [Next]_vars => (IInv /\ KInv)'
  BY IInvNext, KInvNext, Zenon
<1>2. KInv => NextReleaseUnlessCrossed
  <2> SUFFICES ASSUME KInv PROVE NextReleaseUnlessCrossed
    OBVIOUS
  <2> QED BY Zenon DEF KInv, NextOK, NextReleaseUnlessCrossed, IsNext, Unset
<1> QED BY <1>1, <1>2, IInvInit, KInvInit, PTL DEF Spec

\* What users chose of an issue stays until an event reopens it that may, for any events,
\* releases and steps, unless a worker had looked the issue up before the choice or, for
\* the releases, a binding was crossed or the origins of the releases are mixed.
THEOREM ChoicesAreKept == Spec => []ChoiceKeptUnlessCrossed
<1>1. IInv /\ KInv /\ [Next]_vars => (IInv /\ KInv)'
  BY IInvNext, KInvNext, Zenon
<1>2. KInv => ChoiceKeptUnlessCrossed
  <2> SUFFICES ASSUME KInv PROVE ChoiceKeptUnlessCrossed
    OBVIOUS
  <2>1. DOMAIN isRel = 1..Len(isRel)
    BY DEF KInv, RelOK
  <2> QED BY <2>1, Zenon DEF KInv, ChoiceOK, IgnoredOK, ReopenedOK, AssigneeOK, Waiting, MayReopen,
       ChoiceKeptUnlessCrossed
<1> QED BY <1>1, <1>2, IInvInit, KInvInit, PTL DEF Spec

-----------------------------------------------------------------------------
\* Metric alerts

States == {"ok", "triggered", "resolved"}
RuleRecord == [there : BOOLEAN, set : Settings, state : States]

AType ==
  /\ maRule \in RuleRecord /\ maValue \in Values
  /\ maEv \in [pc : {"idle", "persist", "notify"}, rule : RuleRecord]
  /\ maEd \in [pc : {"idle", "write"}, rule : RuleRecord]
  /\ maOpen \in BOOLEAN /\ maTold \in BOOLEAN /\ maTwice \in BOOLEAN /\ maCrossed \in BOOLEAN

\* The rule that EvaluateAll hands on is the row with its new state.
InHand ==
  /\ maEv.pc = "persist" =>
       /\ maEv.rule.set = maRule.set /\ maEv.rule.there
       /\ IF maEv.rule.state = "triggered" THEN maRule.state # "triggered"
          ELSE maEv.rule.state = "resolved" /\ maRule.state = "triggered" /\ ~maOpen
  /\ maEv.pc = "notify" => maRule.state = "triggered" /\ ~maOpen

Told == maRule.state = "triggered" /\ maEv.pc # "notify" => maTold

AInv ==
  /\ AType
  /\ ~maCrossed /\ maRule.there =>
       /\ maRule.set = maWanted /\ ~maTwice
       /\ InHand /\ Told
       /\ maOpen => maRule.state = "triggered"

\* A new rule is "ok" and nothing is under way.
LEMMA AInvInit == Thresholds /\ MAInit => AInv
<1> SUFFICES ASSUME Thresholds, MAInit PROVE AInv
  OBVIOUS
<1>1. PICK c \in Settings : maRule = [there |-> TRUE, set |-> c, state |-> "ok"] /\ maWanted = c
  BY Zenon DEF MAInit, Rule
<1>2. maRule \in RuleRecord
  BY <1>1, Zenon DEF RuleRecord, States
<1>3. /\ maEv = [pc |-> "idle", rule |-> maRule] /\ maEd = [pc |-> "idle", rule |-> maRule]
      /\ maValue = 0 /\ maOpen = FALSE /\ maTold = FALSE /\ maTwice = FALSE /\ maCrossed = FALSE
  BY Zenon DEF MAInit, MAIdle
<1>4. AType
  BY <1>2, <1>3, Zenon DEF AType, Thresholds
<1> QED BY <1>1, <1>3, <1>4, Zenon DEF AInv, InHand, Told

\* Neither the row nor anything else that the invariant looks at changes.
LEMMA AInvSame ==
  ASSUME AInv, maValue' \in Values,
         UNCHANGED <<maRule, maEv, maEd, maWanted, maOpen, maTold, maTwice, maCrossed>>
  PROVE  AInv'
  BY SMTT(30) DEF AInv, AType, InHand, Told

\* Every step keeps the invariant.
LEMMA AInvNext == Thresholds /\ AInv /\ [MANext]_maVars => AInv'
<1> SUFFICES ASSUME Thresholds, AInv, [MANext]_maVars PROVE AInv'
  OBVIOUS
<1> USE DEF AInv
<1>1. CASE EvaluateAll
  <2> DEFINE to == evaluateMetricRule(maRule, maValue)
             breached == thresholdBreached(maRule.set, maValue)
  <2>1. to \in States
    BY Zenon DEF AType, RuleRecord, evaluateMetricRule, States
  <2>2. to # maRule.state =>
          \/ to = "triggered" /\ maRule.state # "triggered"
          \/ to = "resolved" /\ maRule.state = "triggered" /\ shouldResolve(maRule.set, maValue)
    BY Zenon DEF evaluateMetricRule, AType, RuleRecord, States
  <2>3. shouldResolve(maRule.set, maValue) => ~breached \/ ~(maRule.set.low <= maRule.set.limit)
    BY DEF shouldResolve, thresholdBreached, AType, RuleRecord, Thresholds
  <2>4. /\ maEv.pc = "idle" /\ maRule.there
        /\ maEv' = IF to = maRule.state THEN maEv
                   ELSE [pc |-> "persist", rule |-> [maRule EXCEPT !.state = to]]
        /\ maOpen' = (maOpen /\ breached /\ maRule.set.low <= maRule.set.limit)
        /\ UNCHANGED <<maRule, maValue, maEd, maWanted, maTold, maTwice, maCrossed>>
    BY <1>1, Zenon DEF EvaluateAll
  <2> HIDE DEF to, breached
  <2>5. maOpen' \in BOOLEAN /\ (maOpen' => maOpen)
    BY <2>4, Zenon DEF AType
  <2>6. AType'
    BY <2>1, <2>4, <2>5, Zenon DEF AType, RuleRecord
  <2>7. CASE to = maRule.state
    BY <2>4, <2>5, <2>6, <2>7, Zenon DEF InHand, Told
  <2>8. CASE to # maRule.state
    <3>1. /\ maEv'.pc = "persist" /\ maEv'.rule.set = maRule.set
          /\ maEv'.rule.there = maRule.there /\ maEv'.rule.state = to
      BY <2>4, <2>8, Zenon DEF AType, RuleRecord
    <3>2. to = "resolved" => ~maOpen'
      BY <2>2, <2>3, <2>4, <2>8, Zenon
    <3> QED BY <2>2, <2>4, <2>5, <2>6, <2>8, <3>1, <3>2, Zenon DEF InHand, Told
  <2> QED BY <2>7, <2>8, Zenon
<1>2. CASE Persist
  <2>1. /\ maEv.pc = "persist" /\ maRule' = (IF maRule.there THEN maEv.rule ELSE maRule)
        /\ maEv' = IF maEv.rule.state = "triggered" THEN [maEv EXCEPT !.pc = "notify"]
                   ELSE [pc |-> "idle", rule |-> maEv.rule]
        /\ maTold' = (maTold /\ maEv.rule.state # "resolved")
        /\ UNCHANGED <<maValue, maEd, maWanted, maOpen, maTwice, maCrossed>>
    BY <1>2, Zenon DEF Persist, Write, Notifies, MAIdle
  <2>2. AType'
    BY <2>1, Zenon DEF AType, RuleRecord
  <2>3. ASSUME ~maCrossed, maRule.there
        PROVE  /\ maRule'.set = maWanted' /\ ~maTwice'
               /\ InHand' /\ Told' /\ (maOpen' => maRule'.state = "triggered")
    <3>1. maRule' = maEv.rule /\ maEv.rule.set = maRule.set
      BY <2>1, <2>3, Zenon DEF InHand
    <3>2. CASE maEv.rule.state = "triggered"
      <4>1. maEv'.pc = "notify" /\ maRule'.state = "triggered"
        BY <2>1, <3>1, <3>2, Zenon DEF AType
      <4>2. ~maOpen'
        BY <2>1, <2>3, <3>2, Zenon DEF InHand
      <4> QED BY <2>1, <2>3, <3>1, <4>1, <4>2, Zenon DEF InHand, Told
    <3>3. CASE maEv.rule.state # "triggered"
      <4>1. maEv'.pc = "idle" /\ maRule'.state = "resolved" /\ ~maOpen'
        BY <2>1, <2>3, <3>1, <3>3, Zenon DEF InHand
      <4> QED BY <2>1, <2>3, <3>1, <4>1, Zenon DEF InHand, Told
    <3> QED BY <3>2, <3>3, Zenon
  <2>4. maRule'.there /\ ~maCrossed' => maRule.there /\ ~maCrossed
    BY <2>1, Zenon
  <2> QED BY <2>2, <2>3, <2>4, Zenon
<1>3. CASE PersistFails
  <2>1. maCrossed'
    BY <1>3, Zenon DEF PersistFails
  <2>2. AType'
    BY <1>3, Zenon DEF PersistFails, Notifies, MAIdle, AType
  <2> QED BY <2>1, <2>2, Zenon
<1>4. CASE dispatchMetricAlertNotifications
  <2>1. /\ maEv.pc = "notify" /\ maEv' = [pc |-> "idle", rule |-> maEv.rule]
        /\ maTwice' = (maTwice \/ maOpen) /\ maOpen' = TRUE /\ maTold' = TRUE
        /\ UNCHANGED <<maRule, maValue, maEd, maWanted, maCrossed>>
    BY <1>4, Zenon DEF dispatchMetricAlertNotifications, MAIdle
  <2> QED BY <2>1, Zenon DEF AType, InHand, Told
<1>5. CASE GetMetricAlertRule
  <2>1. /\ maEd' = [pc |-> "write", rule |-> maRule]
        /\ maCrossed' = (maCrossed \/ maEv.pc # "idle")
        /\ UNCHANGED <<maRule, maValue, maEv, maWanted, maOpen, maTold, maTwice>>
    BY <1>5, Zenon DEF GetMetricAlertRule
  <2> QED BY <2>1, Zenon DEF AType, InHand, Told
<1>6. ASSUME NEW c \in Settings, handleUpdateMetricAlertRule(c) PROVE AInv'
  <2>1. /\ maRule' = (IF maRule.there THEN Rule(c, maEd.rule.state) ELSE maRule)
        /\ maEd' = [pc |-> "idle", rule |-> maRule'] /\ maWanted' = c
        /\ maCrossed' = (maCrossed \/ maEv.pc # "idle" \/ maEd.rule # maRule)
        /\ UNCHANGED <<maValue, maEv, maOpen, maTold, maTwice>>
    BY <1>6, Zenon DEF handleUpdateMetricAlertRule, Write, MAIdle
  <2>2. Rule(c, maEd.rule.state) \in RuleRecord
    BY Zenon DEF Rule, RuleRecord, AType
  <2>3. AType'
    BY <2>1, <2>2, Zenon DEF AType
  <2>4. ASSUME ~maCrossed', maRule'.there
        PROVE  /\ ~maCrossed /\ maRule.there /\ maEv'.pc = "idle"
               /\ maRule'.set = c /\ maRule'.state = maRule.state
    BY <2>1, <2>4, Zenon DEF Rule, AType
  <2> QED BY <2>1, <2>3, <2>4, Zenon DEF InHand, Told
<1>7. CASE handleDeleteMetricAlertRule
  <2>1. maRule' = [maRule EXCEPT !.there = FALSE]
        /\ UNCHANGED <<maValue, maEv, maEd, maWanted, maOpen, maTold, maTwice, maCrossed>>
    BY <1>7, Zenon DEF handleDeleteMetricAlertRule
  <2> QED BY <2>1, Zenon DEF AType, RuleRecord
<1>8. ASSUME NEW v \in Values, Change(v) PROVE AInv'
  BY <1>8, AInvSame, Zenon DEF Change
<1>9. CASE Crash
  <2>1. /\ maEv' = [pc |-> "idle", rule |-> maEv.rule]
        /\ maCrossed' = (maCrossed \/ maEv.pc = "notify")
        /\ UNCHANGED <<maRule, maValue, maEd, maWanted, maOpen, maTold, maTwice>>
    BY <1>9, Zenon DEF Crash, MAIdle
  <2> QED BY <2>1, Zenon DEF AType, InHand, Told
<1>10. CASE UNCHANGED maVars
  BY <1>10, AInvSame, Zenon DEF maVars, AType
<1>11. CASE MAOver
  BY <1>10, <1>11, Zenon DEF MAOver
<1> QED BY <1>1, <1>2, <1>3, <1>4, <1>5, <1>6, <1>7, <1>8, <1>9, <1>10, <1>11, Zenon DEF MANext

\* For any thresholds and values, what the users set stays set, a breach is notified once,
\* and a rule that says "triggered" was notified, unless one of the named exceptions.
THEOREM RuleAlwaysHolds == MASpec => []RuleHoldsUnlessCrossed
<1> USE ThresholdsAssumption
<1>1. AInv => RuleHoldsUnlessCrossed
  BY Zenon DEF AInv, Told, RuleHoldsUnlessCrossed
<1>2. MAInit => AInv
  BY AInvInit, Zenon
<1>3. AInv /\ [MANext]_maVars => AInv'
  BY AInvNext, Zenon
<1> QED BY <1>1, <1>2, <1>3, PTL DEF MASpec

=============================================================================
