------------------------------- MODULE Issues -------------------------------
(***************************************************************************)
(* One issue (a row of groups) between the workers that process its        *)
(* events, the users who resolve, ignore, merge or assign it, and the      *)
(* retention sweep. Every statement of Processor.process commits by        *)
(* itself: what a worker read of the issue may be old when it writes. A    *)
(* user may resolve the issue "in the next release"; the next release to   *)
(* be registered is then bound to it, and events of that release or of a   *)
(* later one reopen it.                                                    *)
(***************************************************************************)
EXTENDS Integers, Sequences

CONSTANTS Events, NoEvent, ReleaseOf,  \* ReleaseOf[e]: the release an event names, or ""
          Created,            \* the releases that the API registers
          DayTicks,           \* ticks in a day
          MaxSteps            \* bound: steps of users, of retention, of the clock, and faults

\* handleCreateRelease answers 400 to an empty version.
ASSUME ReleasesAssumption == "" \notin Created /\ DayTicks \in Nat \ {0}

VARIABLES isNow,
          isRel,      \* the rows of releases, in the order they were inserted
          isRow,      \* the row of groups; its id is 0 when there is none; noted: a row of
                      \* issue_activity refers to it
          isIds,      \* ids given out
          isEvent,    \* isEvent[e]: group_id of the event's row, 0 when there is none
          isWk,       \* isWk[e]: the worker that processes e
          isApi,      \* the version whose CreateRelease is to bind, or ""
          isSteps,
          isWanted,   \* history: the last choice of a user about this row, and the
                      \* releases known at the time; who the user assigned
          isReopener, \* history: the event that reopened the issue since
          isCrossed,  \* history: the kinds of write that crossed the last choice
          isLost      \* history: events whose issue was deleted before they were saved

users == <<isSteps, isWanted>>
vars == <<isNow, isRel, isRow, isIds, isEvent, isWk, isApi, isReopener, isCrossed,
          isLost, users>>

NoRow == [id |-> 0, status |-> "unresolved", sub |-> "", target |-> "", merged |-> "",
          assignee |-> "", noted |-> FALSE]
NoWanted == [choice |-> "none", known |-> 0, assignee |-> ""]
Idle == [pc |-> "idle", gid |-> 0, regress |-> FALSE, assign |-> FALSE, first |-> FALSE]

\* The issue is new, or known from events that retention has deleted since.
Init ==
  /\ isNow = 0 /\ isRel = <<>> /\ isIds \in {0, 1} /\ isRow = [NoRow EXCEPT !.id = isIds]
  /\ isEvent = [e \in Events |-> 0] /\ isWk = [e \in Events |-> Idle]
  /\ isApi = "" /\ isSteps = 0
  /\ isWanted = NoWanted /\ isReopener = NoEvent /\ isCrossed = {} /\ isLost = {}

Counted == isSteps < MaxSteps /\ isSteps' = isSteps + 1

-----------------------------------------------------------------------------
\* Releases

Registered(v) == \E i \in DOMAIN isRel : isRel[i].version = v
RowId(v) == CHOOSE i \in DOMAIN isRel : isRel[i].version = v

\* created_at as text: the column's default is "date time", CreateRelease writes
\* "dateTtime"; a blank comes before a T.
Stamp(v, sep) ==
  [version |-> v, day |-> isNow \div DayTicks, sep |-> sep, time |-> isNow % DayTicks]
Blank == 0
LetterT == 1

\* The order of the texts.
TextAfter(a, b) ==
  \/ a.day > b.day
  \/ a.day = b.day /\ a.sep > b.sep
  \/ a.day = b.day /\ a.sep = b.sep /\ a.time > b.time

\* Variant: the target release itself does not count.
ReleaseIsAtOrAfterStrict(v, baseline) ==
  /\ v # baseline /\ Registered(v) /\ Registered(baseline)
  /\ RowId(v) > RowId(baseline)

\* What isRegression becomes: the order of created_at, then of the rowid; an error of
\* the comparison (a release that is not registered) leaves the equality.
ReleaseIsAtOrAfter(v, baseline) ==
  \/ v = baseline
  \/ /\ Registered(v) /\ Registered(baseline)
     /\ LET a == isRel[RowId(v)]  b == isRel[RowId(baseline)]
        IN  \/ TextAfter(a, b)
            \/ ~TextAfter(b, a) /\ RowId(v) >= RowId(baseline)

\* Who has inserted a release and is yet to bind it.
Binding == isApi # "" \/ \E e \in Events : isWk[e].pc = "bind"

Insert(v, sep) ==
  /\ isRel' = Append(isRel, Stamp(v, sep))
  /\ isCrossed' = IF Binding THEN isCrossed \cup {"bind"} ELSE isCrossed

\* bindResolvedNextReleaseIssues.
BindTo(v) ==
  isRow' = IF isRow.id # 0 /\ isRow.status = "resolved" /\ isRow.sub = "next_release" /\ isRow.target = ""
           THEN [isRow EXCEPT !.target = v] ELSE isRow

CreateRelease(v) ==
  /\ isApi = "" /\ ~Registered(v)
  /\ Insert(v, LetterT) /\ isApi' = v
  /\ UNCHANGED <<isNow, isRow, isIds, isEvent, isWk, isReopener, isLost, users>>
CreateReleaseBinds ==
  /\ isApi # ""
  /\ BindTo(isApi) /\ isApi' = ""
  /\ UNCHANGED <<isNow, isRel, isIds, isEvent, isWk, isReopener, isCrossed, isLost, users>>

CreateReleaseFails ==
  /\ isApi # "" /\ Counted
  /\ isApi' = "" /\ isCrossed' = isCrossed \cup {"bind"}
  /\ UNCHANGED <<isNow, isRel, isRow, isIds, isEvent, isWk, isReopener, isLost, isWanted>>

-----------------------------------------------------------------------------
\* Processor.process

At(e, pc) == isWk[e].pc = pc
Go(e, pc) == isWk' = [isWk EXCEPT ![e].pc = pc]

\* Variant: the issues are bound although the release was there before.
EnsureReleaseBindsKnown(e) ==
  LET v == ReleaseOf[e] IN
  /\ At(e, "idle")
  /\ IF v = "" THEN Go(e, "lookup") /\ UNCHANGED <<isRel, isCrossed>>
     ELSE IF Registered(v) THEN Go(e, "bind") /\ UNCHANGED <<isRel, isCrossed>>
     ELSE /\ Insert(v, Blank)
          /\ isWk' = [isWk EXCEPT ![e].pc = "bind", ![e].first = TRUE]
  /\ UNCHANGED <<isNow, isRow, isIds, isEvent, isApi, isReopener, isLost, users>>

\* Variant: a plain INSERT, without a unique index.
EnsureReleaseAgain(e) ==
  LET v == ReleaseOf[e] IN
  /\ At(e, "idle")
  /\ IF v = "" THEN Go(e, "lookup") /\ UNCHANGED <<isRel, isCrossed>>
     ELSE /\ Insert(v, Blank)
          /\ isWk' = [isWk EXCEPT ![e].pc = "bind", ![e].first = TRUE]
  /\ UNCHANGED <<isNow, isRow, isIds, isEvent, isApi, isReopener, isLost, users>>

\* EnsureRelease: the insert, ...
EnsureRelease(e) ==
  LET v == ReleaseOf[e] IN
  /\ At(e, "idle")
  /\ IF v = "" \/ Registered(v) THEN Go(e, "lookup") /\ UNCHANGED <<isRel, isCrossed>>
     ELSE /\ Insert(v, Blank)
          /\ isWk' = [isWk EXCEPT ![e].pc = "bind", ![e].first = TRUE]
  /\ UNCHANGED <<isNow, isRow, isIds, isEvent, isApi, isReopener, isLost, users>>
\* ... and if a row was inserted, the binding; a failure of either is only logged.
Bind(e) ==
  /\ At(e, "bind")
  /\ BindTo(ReleaseOf[e]) /\ Go(e, "lookup")
  /\ UNCHANGED <<isNow, isRel, isIds, isEvent, isApi, isReopener, isCrossed, isLost, users>>
EnsureFails(e) ==
  /\ Counted
  /\ \/ At(e, "idle") /\ ReleaseOf[e] # "" /\ UNCHANGED isCrossed
     \/ At(e, "bind") /\ isCrossed' = isCrossed \cup {"bind"}
  /\ Go(e, "lookup")
  /\ UNCHANGED <<isNow, isRel, isRow, isIds, isEvent, isApi, isReopener, isLost, isWanted>>

\* Variant: a resolved issue regresses whatever it waits for.
RegressionAnyRelease(e) == isRow.id # 0 /\ isRow.status = "resolved"

Regression(e) ==
  /\ isRow.id # 0 /\ isRow.status = "resolved"
  /\ isRow.sub = "next_release" =>
       /\ isRow.target # "" /\ ReleaseOf[e] # ""
       /\ ReleaseIsAtOrAfter(ReleaseOf[e], isRow.target)

\* GetGroupByKey: what it returns decides on the reopening and the assignment below.
Lookup(e) ==
  /\ At(e, "lookup")
  /\ isWk' = [isWk EXCEPT ![e].pc = "upsert", ![e].regress = Regression(e),
                          ![e].assign = isRow.assignee = ""]
  /\ UNCHANGED <<isNow, isRel, isRow, isIds, isEvent, isApi, isReopener, isCrossed, isLost, users>>

AfterReopen(w) == IF w.assign THEN "assign" ELSE "save"

UpsertGroup(e) ==
  LET w == isWk[e]  gid == IF isRow.id = 0 THEN isIds + 1 ELSE isRow.id IN
  /\ At(e, "upsert")
  /\ isRow' = IF isRow.id = 0 THEN [NoRow EXCEPT !.id = gid] ELSE isRow
  /\ isIds' = IF isRow.id = 0 THEN gid ELSE isIds
  /\ isWk' = [isWk EXCEPT ![e].gid = gid, ![e].pc = IF w.regress THEN "reopen" ELSE AfterReopen(w)]
  /\ UNCHANGED <<isNow, isRel, isEvent, isApi, isReopener, isCrossed, isLost, users>>

\* UpdateStatus and UpdateAssignee write to the row with that id, whatever it says by
\* now. Their failure is only logged.
Reopen(e) ==
  /\ At(e, "reopen")
  /\ IF isRow.id = isWk[e].gid
     THEN /\ isRow' = [isRow EXCEPT !.status = "unresolved", !.sub = "", !.target = "", !.merged = ""]
          /\ isReopener' = e
     ELSE UNCHANGED <<isRow, isReopener>>
  /\ Go(e, AfterReopen(isWk[e]))
  /\ UNCHANGED <<isNow, isRel, isIds, isEvent, isApi, isCrossed, isLost, users>>
Assign(e) ==
  /\ At(e, "assign")
  /\ isRow' = IF isRow.id = isWk[e].gid THEN [isRow EXCEPT !.assignee = "rule"] ELSE isRow
  /\ Go(e, "save")
  /\ UNCHANGED <<isNow, isRel, isIds, isEvent, isApi, isReopener, isCrossed, isLost, users>>
UpdateFails(e) ==
  /\ Counted
  /\ \/ At(e, "reopen") /\ Go(e, AfterReopen(isWk[e]))
     \/ At(e, "assign") /\ Go(e, "save")
  /\ UNCHANGED <<isNow, isRel, isRow, isIds, isEvent, isApi, isReopener, isCrossed, isLost, isWanted>>

SaveEvent(e) ==
  /\ At(e, "save")
  /\ isEvent' = [isEvent EXCEPT ![e] = isWk[e].gid]
  /\ isWk' = [isWk EXCEPT ![e] = [Idle EXCEPT !.pc = "done"]]
  /\ UNCHANGED <<isNow, isRel, isRow, isIds, isApi, isReopener, isCrossed, isLost, users>>

\* A crash, or an error that process returns: the queue delivers the event again.
Interrupt(e) ==
  /\ Counted /\ isWk[e].pc \notin {"idle", "done"}
  /\ isCrossed' = IF At(e, "bind") THEN isCrossed \cup {"bind"} ELSE isCrossed
  /\ isWk' = [isWk EXCEPT ![e] = Idle]
  /\ isLost' = isLost \ {e}
  /\ UNCHANGED <<isNow, isRel, isRow, isIds, isEvent, isApi, isReopener, isWanted>>

-----------------------------------------------------------------------------
\* Users

Choice == Counted /\ isRow.id # 0
\* Workers that have yet to write what an older state of the row told them to.
ReopenPending == \E e \in Events : isWk[e].pc \in {"upsert", "reopen"} /\ isWk[e].regress
AssignPending == \E e \in Events : isWk[e].pc \in {"upsert", "reopen", "assign"} /\ isWk[e].assign

\* A choice is made: from here on it is the one that counts.
Chosen(c) ==
  /\ isWanted' = [isWanted EXCEPT !.choice = c, !.known = Len(isRel)]
  /\ isCrossed' = (isCrossed \cap {"assign"})
                  \cup (IF Binding THEN {"bind"} ELSE {})
                  \cup (IF ReopenPending THEN {"status"} ELSE {})
  /\ isReopener' = NoEvent
  /\ UNCHANGED <<isNow, isRel, isIds, isEvent, isWk, isApi, isLost>>

\* recordIssueActivityBestEffort notes the choice; a failure is only logged.
updateIssueStatus(c) ==
  /\ Choice
  /\ \E n \in {isRow.noted, TRUE} : isRow' = [isRow EXCEPT !.noted = n,
                            !.status = CASE c = "ignore" -> "ignored"
                                         [] c = "reopen" -> "unresolved"
                                         [] OTHER -> "resolved",
                            !.sub = IF c = "resolve_next" THEN "next_release" ELSE "",
                            !.target = "", !.merged = ""]
  /\ Chosen(c)
MergeIssue ==
  /\ Choice /\ isRow.merged = ""
  /\ isRow' = [isRow EXCEPT !.status = "ignored", !.sub = "merged", !.target = "", !.merged = "other",
                            !.noted = TRUE]
  /\ Chosen("merge")
UnmergeIssue ==
  /\ Choice /\ isRow.merged # ""
  /\ isRow' = [isRow EXCEPT !.status = "unresolved", !.sub = "", !.target = "", !.merged = "",
                            !.noted = TRUE]
  /\ Chosen("reopen")
updateIssueAssignee ==
  /\ Choice
  /\ \E n \in {isRow.noted, TRUE} : isRow' = [isRow EXCEPT !.assignee = "user", !.noted = n]
  /\ isWanted' = [isWanted EXCEPT !.assignee = "user"]
  /\ isCrossed' = (isCrossed \ {"assign"}) \cup (IF AssignPending THEN {"assign"} ELSE {})
  /\ UNCHANGED <<isNow, isRel, isIds, isEvent, isWk, isApi, isReopener, isLost>>

-----------------------------------------------------------------------------
\* Deletion

\* The row goes, and with it what users wanted of it.
DeleteRow ==
  /\ isRow' = NoRow /\ isWanted' = NoWanted /\ isReopener' = NoEvent /\ isCrossed' = {}
  /\ isLost' = isLost \cup {e \in Events : isWk[e].pc \in {"reopen", "assign", "save"}}
  /\ UNCHANGED <<isNow, isRel, isIds, isWk, isApi>>

\* Retention deletes an old event, ...
DeleteOldEvent(e) ==
  /\ Counted /\ isEvent[e] # 0
  /\ isEvent' = [isEvent EXCEPT ![e] = 0]
  /\ UNCHANGED <<isNow, isRel, isRow, isIds, isWk, isApi, isWanted, isReopener, isCrossed, isLost>>

\* Variant: issues that still have events go too.
deleteOrphanGroupsAny == Choice /\ ~isRow.noted /\ DeleteRow /\ UNCHANGED isEvent

\* ... and every issue that no event refers to. A row of issue_activity refers to its
\* issue by a foreign key: with one, the statement fails.
deleteOrphanGroups ==
  /\ Choice /\ ~isRow.noted /\ \A e \in Events : isEvent[e] # isRow.id
  /\ DeleteRow /\ UNCHANGED isEvent
DeleteGroup ==
  /\ Choice
  /\ isEvent' = [e \in Events |-> IF isEvent[e] = isRow.id THEN 0 ELSE isEvent[e]]
  /\ DeleteRow

Tick ==
  /\ Counted /\ isNow' = isNow + 1
  /\ UNCHANGED <<isRel, isRow, isIds, isEvent, isWk, isApi, isReopener, isCrossed, isLost, isWanted>>

Over == (\A e \in Events : At(e, "done")) /\ UNCHANGED vars

Next ==
  \/ \E v \in Created : CreateRelease(v)
  \/ CreateReleaseBinds \/ CreateReleaseFails
  \/ \E e \in Events :
       \/ EnsureRelease(e) \/ Bind(e) \/ EnsureFails(e) \/ Lookup(e) \/ UpsertGroup(e)
       \/ Reopen(e) \/ Assign(e) \/ UpdateFails(e) \/ SaveEvent(e) \/ Interrupt(e)
       \/ DeleteOldEvent(e)
  \/ \E c \in {"resolve", "resolve_next", "ignore", "reopen"} : updateIssueStatus(c)
  \/ MergeIssue \/ UnmergeIssue \/ updateIssueAssignee
  \/ deleteOrphanGroups \/ DeleteGroup
  \/ Tick \/ Over

Spec == Init /\ [][Next]_vars

-----------------------------------------------------------------------------
\* Properties

Versions == {ReleaseOf[e] : e \in Events} \cup Created

\* Every variable has its type.
TypeOK ==
  /\ isNow \in 0..MaxSteps /\ isSteps \in 0..MaxSteps
  /\ \A i \in DOMAIN isRel : isRel[i].version \in Versions
  /\ \A i, j \in DOMAIN isRel : isRel[i].version = isRel[j].version => i = j
  /\ isRow.status \in {"unresolved", "resolved", "ignored"}
  /\ isRow.sub \in {"", "next_release", "merged"} /\ isRow.target \in Versions \cup {""}
  /\ isRow.id <= isIds /\ \A e \in Events : isEvent[e] <= isIds /\ isWk[e].gid <= isIds
  /\ isCrossed \subseteq {"bind", "status", "assign"} /\ isLost \subseteq Events

Waiting == isRow.id # 0 /\ isRow.status = "resolved" /\ isRow.sub = "next_release"

\* An issue resolved in the next release gets the first release registered after the
\* choice, unless two registrations crossed, one crossed the choice, or a binding was cut
\* short. And the event that registered that release, the very first one, is taken for a
\* regression.
NextReleaseUnlessCrossed ==
  Waiting /\ "bind" \notin isCrossed =>
    /\ isRow.target = "" /\ Len(isRel) > isWanted.known => Binding
    /\ isRow.target # "" => Len(isRel) > isWanted.known /\ isRow.target = isRel[isWanted.known + 1].version
    /\ \A e \in Events :
         /\ isWk[e].first /\ isWk[e].pc = "upsert"
         /\ Len(isRel) > isWanted.known /\ isRel[isWanted.known + 1].version = ReleaseOf[e]
         => isWk[e].regress

\* Releases that the API and that events registered on one day: their texts compare by
\* who registered them.
Mixed ==
  \E i, j \in DOMAIN isRel : isRel[i].day = isRel[j].day /\ isRel[i].sep # isRel[j].sep

\* What users chose stays until it is reopened by an event that may do so, although the
\* workers write the row without looking at it again: an ignored or merged issue stays so;
\* one resolved in the next release is reopened only by an event of a release registered
\* after the choice; an assignee stays. Exceptions: a worker that had looked the issue up
\* before the choice, and, for the releases, a crossed binding or mixed origins.
ChoiceKeptUnlessCrossed ==
  isRow.id # 0 =>
    /\ isWanted.choice \in {"ignore", "merge"} /\ "status" \notin isCrossed =>
         isRow.status = "ignored" /\ (isWanted.choice = "merge" => isRow.merged = "other")
    /\ isWanted.choice = "resolve_next" /\ isCrossed \cap {"status", "bind"} = {} /\ ~Mixed =>
         \/ isRow.status = "resolved"
         \/ /\ isReopener \in Events
            /\ \E i \in DOMAIN isRel : i > isWanted.known /\ isRel[i].version = ReleaseOf[isReopener]
    /\ isWanted.assignee = "user" /\ "assign" \notin isCrossed => isRow.assignee = "user"

\* A stored event refers to the issue that exists, unless the issue was deleted between
\* the upsert of the group and the insert of the event.
SavedEventHasIssueUnlessCrossed ==
  \A e \in Events : isEvent[e] # 0 /\ e \notin isLost => isEvent[e] = isRow.id

\* ReleaseIsAtOrAfter "compares opaque release identifiers using the order in which
\* Urgentry first observed them".
OrderAsObserved ==
  \A i, j \in DOMAIN isRel :
    ReleaseIsAtOrAfter(isRel[i].version, isRel[j].version) <=> i >= j

=============================================================================
