------------------------------- MODULE Reports -------------------------------
(***************************************************************************)
(* Scheduled analytics reports: users create and delete a schedule, and    *)
(* the scheduler's runner (Runner.RunDue) lists it when it is due, freezes *)
(* a snapshot, records the mail in the outbox and then moves the schedule  *)
(* on. Nothing joins these steps and the runner ignores errors of the last *)
(* one. Rounds of two nodes overlap when one outlives its lease.           *)
(***************************************************************************)
EXTENDS Integers, FiniteSets

CONSTANTS Nodes,
          Cadences,          \* daily and weekly, in ticks
          MaxNow, MaxSteps   \* bounds: the clock; users and faults

VARIABLES rpNow,
          rpRow,      \* the row of analytics_report_schedules; its id is 0 when there is none;
                      \* last 0: no last_run_at
          rpIds,
          rpRun,      \* of each node, what RunDue has in hand: the row as listed, and its now
          rpMails,    \* the outbox
          rpSteps,
          rpCrossed   \* history: has one of the exceptions below happened?

vars == <<rpNow, rpRow, rpIds, rpRun, rpMails, rpSteps, rpCrossed>>

NoRow == [id |-> 0, cadence |-> 0, next |-> 0, last |-> 0, failed |-> FALSE]
AtRest == [pc |-> "idle", id |-> 0, cadence |-> 0, now |-> 0]

Init ==
  /\ rpNow = 1 /\ rpRow = NoRow /\ rpIds = 0 /\ rpRun = [n \in Nodes |-> AtRest]
  /\ rpMails = {} /\ rpSteps = 0 /\ rpCrossed = FALSE

Counted == rpSteps < MaxSteps /\ rpSteps' = rpSteps + 1

-----------------------------------------------------------------------------
\* Users

\* A new schedule is due at once; the unique index refuses a second one.
Create(c) ==
  /\ rpRow.id = 0 /\ Counted
  /\ rpRow' = [NoRow EXCEPT !.id = rpIds + 1, !.cadence = c, !.next = rpNow] /\ rpIds' = rpIds + 1
  /\ UNCHANGED <<rpNow, rpRun, rpMails, rpCrossed>>

Delete ==
  /\ rpRow.id # 0 /\ Counted
  /\ rpRow' = NoRow
  /\ UNCHANGED <<rpNow, rpIds, rpRun, rpMails, rpCrossed>>

-----------------------------------------------------------------------------
\* The runner

NextAnalyticsReportRun(now, c) == now + c

\* Variant: the next run is counted from the slot that was due, not from the attempt.
updateRunStateFromSlot(run, failed) ==
  IF rpRow.id # run.id THEN rpRow
  ELSE [rpRow EXCEPT !.next = NextAnalyticsReportRun(@, run.cadence),
                     !.last = IF failed THEN 0 ELSE run.now, !.failed = failed]

\* The UPDATE of updateRunState finds the row by its id, or changes nothing.
updateRunState(run, failed) ==
  IF rpRow.id # run.id THEN rpRow
  ELSE [rpRow EXCEPT !.next = NextAnalyticsReportRun(run.now, run.cadence),
                     !.last = IF failed THEN 0 ELSE run.now, !.failed = failed]

Busy(i) == \E n \in Nodes : rpRun[n].pc # "idle" /\ rpRun[n].id = i

Goto(n, pc) == rpRun' = [rpRun EXCEPT ![n].pc = pc]
Rest(n) == rpRun' = [rpRun EXCEPT ![n] = AtRest]

ListDue(n) ==
  /\ rpRun[n].pc = "idle" /\ rpRow.id # 0 /\ rpRow.next <= rpNow
  /\ rpRun' = [rpRun EXCEPT ![n] = [pc |-> "freeze", id |-> rpRow.id, cadence |-> rpRow.cadence, now |-> rpNow]]
  /\ rpCrossed' = (rpCrossed \/ Busy(rpRow.id))
  /\ UNCHANGED <<rpNow, rpRow, rpIds, rpMails, rpSteps>>

Freeze(n) ==
  /\ rpRun[n].pc = "freeze"
  /\ Goto(n, "mail")
  /\ UNCHANGED <<rpNow, rpRow, rpIds, rpMails, rpSteps, rpCrossed>>

\* The source is gone or its query fails, or the outbox refuses the mail.
Fail(n) ==
  /\ rpRun[n].pc \in {"freeze", "mail"} /\ Counted
  /\ Goto(n, "failed")
  /\ UNCHANGED <<rpNow, rpRow, rpIds, rpMails, rpCrossed>>

\* The record of the delivery, which follows the mail, may fail without effect.
RecordEmail(n) ==
  /\ rpRun[n].pc = "mail"
  /\ rpMails' = rpMails \cup {[id |-> rpRun[n].id, cadence |-> rpRun[n].cadence, at |-> rpRun[n].now, by |-> n]}
  /\ Goto(n, "sent")
  /\ UNCHANGED <<rpNow, rpRow, rpIds, rpSteps, rpCrossed>>

\* Variant: the schedule is moved on before the mail is recorded.
MarkDeliveredEarly(n) ==
  /\ rpRun[n].pc \in {"freeze", "sent"}
  /\ rpRow' = updateRunState(rpRun[n], FALSE) /\ Rest(n)
  /\ UNCHANGED <<rpNow, rpIds, rpMails, rpSteps, rpCrossed>>

MarkDelivered(n) ==
  /\ rpRun[n].pc = "sent"
  /\ rpRow' = updateRunState(rpRun[n], FALSE) /\ Rest(n)
  /\ UNCHANGED <<rpNow, rpIds, rpMails, rpSteps, rpCrossed>>

MarkFailed(n) ==
  /\ rpRun[n].pc = "failed"
  /\ rpRow' = updateRunState(rpRun[n], TRUE) /\ Rest(n)
  /\ UNCHANGED <<rpNow, rpIds, rpMails, rpSteps, rpCrossed>>

\* The UPDATE fails, which the runner ignores, or the process crashes anywhere.
Interrupt(n) ==
  /\ rpRun[n].pc # "idle" /\ Counted
  /\ Rest(n) /\ rpCrossed' = (rpCrossed \/ rpRun[n].pc = "sent")
  /\ UNCHANGED <<rpNow, rpRow, rpIds, rpMails>>

Tick ==
  /\ rpNow < MaxNow /\ rpNow' = rpNow + 1
  /\ UNCHANGED <<rpRow, rpIds, rpRun, rpMails, rpSteps, rpCrossed>>

\* The behaviours are cut at MaxNow.
Over == rpNow = MaxNow /\ UNCHANGED vars

Next ==
  \/ Delete \/ Tick \/ Over
  \/ \E c \in Cadences : Create(c)
  \/ \E n \in Nodes :
       ListDue(n) \/ Freeze(n) \/ Fail(n) \/ RecordEmail(n) \/ MarkDelivered(n) \/ MarkFailed(n) \/ Interrupt(n)

Spec == Init /\ [][Next]_vars

-----------------------------------------------------------------------------

\* Every variable has its type.
TypeOK ==
  /\ rpNow \in 1..MaxNow /\ rpIds \in Nat /\ rpSteps \in 0..MaxSteps /\ rpCrossed \in BOOLEAN
  /\ rpRow.id \in 0..rpIds /\ rpRow.cadence \in Cadences \cup {0} /\ rpRow.failed \in BOOLEAN
  /\ \A n \in Nodes : rpRun[n].pc \in {"idle", "freeze", "mail", "sent", "failed"} /\ rpRun[n].id \in 0..rpIds
  /\ \A m \in rpMails : m.id \in 1..rpIds /\ m.at \in 1..rpNow /\ m.by \in Nodes

\* The schedule moves on only behind its mail: a last_run_at is the time of a mail of this
\* schedule, and next_run_at lies one cadence behind the latest attempt, whatever crashes,
\* failures, overlapping rounds or deletions came between. Two mails of a schedule are a
\* cadence apart, unless two rounds had it in hand at once, or MarkDelivered did not happen
\* after the mail.
ReportOncePerCadenceUnlessCrossed ==
  /\ rpRow.last # 0 =>
       /\ \E m \in rpMails : m.id = rpRow.id /\ m.at = rpRow.last
       /\ rpRow.next = rpRow.last + rpRow.cadence
  /\ ~rpCrossed =>
       \A m, o \in rpMails : m.id = o.id /\ m # o => m.at + m.cadence <= o.at \/ o.at + o.cadence <= m.at

=============================================================================
