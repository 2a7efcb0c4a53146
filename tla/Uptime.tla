------------------------------- MODULE Uptime -------------------------------
(***************************************************************************)
(* An uptime monitor: users create and delete it (DeleteUptimeMonitor: its *)
(* results, then its row, each by itself), and the scheduler's poller      *)
(* lists it when it is due, sends the request, saves the result with the   *)
(* monitor's new state in one transaction and raises an alert when the     *)
(* check failed. Rounds of two nodes overlap when one outlives its lease.  *)
(* A result refers to its monitor by a foreign key.                        *)
(***************************************************************************)
EXTENDS Integers, Sequences, FiniteSets

CONSTANTS Nodes,
          Intervals,         \* interval_seconds, in ticks
          DayTicks,          \* ticks of a day
          MaxNow, MaxChecks, MaxSteps   \* bounds: the clock; polls; users and faults

VARIABLES upNow,
          upRow,      \* the row of uptime_monitors; its id is 0 when there is none; last 0 is NULL
          upIds,
          upRes,      \* the rows of uptime_check_results, in the order they were saved
          upPoll,     \* of each node, the poll in hand
          upDel,      \* DeleteUptimeMonitor between its statements: the id, 0 when there is none
          upSteps,
          upChecks,   \* polls so far, their numbers
          upAlerts,   \* history: the checks that an alert was raised for
          upCrossed,  \* history: has a deletion dropped results of a monitor that stays?
          upCut       \* history: the checks that were saved and crashed before the alert

vars == <<upNow, upRow, upIds, upRes, upPoll, upDel, upSteps, upChecks, upAlerts, upCrossed, upCut>>

NoMonitor == [id |-> 0, every |-> 0, last |-> 0, fails |-> 0]
AtRest == [pc |-> "idle", mon |-> 0, check |-> 0, ok |-> TRUE]

Init ==
  /\ upNow = 1 /\ upRow = NoMonitor /\ upIds = 0 /\ upRes = <<>> /\ upPoll = [n \in Nodes |-> AtRest]
  /\ upDel = 0 /\ upSteps = 0 /\ upChecks = 0 /\ upAlerts = {} /\ upCrossed = FALSE /\ upCut = {}

Counted == upSteps < MaxSteps /\ upSteps' = upSteps + 1

-----------------------------------------------------------------------------
\* Users

CreateUptimeMonitor(e) ==
  /\ upRow.id = 0 /\ Counted
  /\ upRow' = [NoMonitor EXCEPT !.id = upIds + 1, !.every = e] /\ upIds' = upIds + 1
  /\ upCrossed' = FALSE
  /\ UNCHANGED <<upNow, upRes, upPoll, upDel, upChecks, upAlerts, upCut>>

DeleteResults ==
  /\ upDel = 0 /\ upRow.id # 0 /\ Counted
  /\ upRes' = SelectSeq(upRes, LAMBDA r : r.mon # upRow.id) /\ upDel' = upRow.id
  /\ UNCHANGED <<upNow, upRow, upIds, upPoll, upChecks, upAlerts, upCrossed, upCut>>

Referenced(i) == \E k \in DOMAIN upRes : upRes[k].mon = i

\* The foreign key keeps a row that a result refers to: one saved since the results were
\* deleted.
DeleteMonitor ==
  /\ upDel # 0 /\ upDel' = 0
  /\ upRow' = IF Referenced(upDel) THEN upRow ELSE NoMonitor
  /\ upCrossed' = (upCrossed \/ Referenced(upDel))
  /\ UNCHANGED <<upNow, upIds, upRes, upPoll, upSteps, upChecks, upAlerts, upCut>>

DeleteInterrupted ==
  /\ upDel # 0 /\ Counted
  /\ upDel' = 0 /\ upCrossed' = TRUE
  /\ UNCHANGED <<upNow, upRow, upIds, upRes, upPoll, upChecks, upAlerts, upCut>>

-----------------------------------------------------------------------------
\* The poller

\* Variant: the due time must lie before the day of the poll.
TextAtMostStrict(due, now) == due \div DayTicks < now \div DayTicks

\* datetime() writes "day time" and the poller "dayTtime": on one day a blank comes before
\* the T, whatever the times are.
TextAtMost(due, now) == due \div DayTicks <= now \div DayTicks

ListDueUptimeMonitors == upRow.id # 0 /\ (upRow.last = 0 \/ TextAtMost(upRow.last + upRow.every, upNow))

PollDue(n) ==
  /\ upPoll[n].pc = "idle" /\ ListDueUptimeMonitors /\ upChecks < MaxChecks
  /\ upChecks' = upChecks + 1
  /\ upPoll' = [upPoll EXCEPT ![n] = [pc |-> "request", mon |-> upRow.id, check |-> upChecks', ok |-> TRUE]]
  /\ UNCHANGED <<upNow, upRow, upIds, upRes, upDel, upSteps, upAlerts, upCrossed, upCut>>

\* The target answers as expected or it does not.
Answer(n, ok) ==
  /\ upPoll[n].pc = "request"
  /\ upPoll' = [upPoll EXCEPT ![n].pc = "save", ![n].ok = ok]
  /\ UNCHANGED <<upNow, upRow, upIds, upRes, upDel, upSteps, upChecks, upAlerts, upCrossed, upCut>>

\* After the save, whether it succeeded or not.
Saved(n) == upPoll' = [upPoll EXCEPT ![n] = IF @.ok THEN AtRest ELSE [@ EXCEPT !.pc = "alert"]]

\* Variant: a check that succeeds leaves the counter.
ConsecutiveFailKept(p) == IF p.ok THEN upRow.fails ELSE upRow.fails + 1

ConsecutiveFail(p) == IF p.ok THEN 0 ELSE upRow.fails + 1

\* One transaction. The insert fails when the monitor is gone, and with it the update.
SaveCheckResult(n) ==
  LET p == upPoll[n] IN
  /\ p.pc = "save" /\ upRow.id = p.mon
  /\ upRes' = Append(upRes, [mon |-> p.mon, check |-> p.check, ok |-> p.ok])
  /\ upRow' = [upRow EXCEPT !.last = upNow, !.fails = ConsecutiveFail(p)]
  /\ upCrossed' = (upCrossed /\ ~p.ok)
  /\ Saved(n)
  /\ UNCHANGED <<upNow, upIds, upDel, upSteps, upChecks, upAlerts, upCut>>

\* An error of the save is logged.
SaveFails(n) ==
  /\ upPoll[n].pc = "save"
  /\ \/ upRow.id # upPoll[n].mon /\ UNCHANGED upSteps
     \/ upRow.id = upPoll[n].mon /\ Counted
  /\ Saved(n)
  /\ UNCHANGED <<upNow, upRow, upIds, upRes, upDel, upChecks, upAlerts, upCrossed, upCut>>

\* recordError raises the alert whether the result was saved or not.
DispatchAlert(n) ==
  /\ upPoll[n].pc = "alert"
  /\ upAlerts' = upAlerts \cup {upPoll[n].check}
  /\ upPoll' = [upPoll EXCEPT ![n] = AtRest]
  /\ UNCHANGED <<upNow, upRow, upIds, upRes, upDel, upSteps, upChecks, upCrossed, upCut>>

Crash(n) ==
  /\ upPoll[n].pc # "idle" /\ Counted
  /\ upCut' = IF upPoll[n].pc = "alert" THEN upCut \cup {upPoll[n].check} ELSE upCut
  /\ upPoll' = [upPoll EXCEPT ![n] = AtRest]
  /\ UNCHANGED <<upNow, upRow, upIds, upRes, upDel, upChecks, upAlerts, upCrossed>>

Tick ==
  /\ upNow < MaxNow /\ upNow' = upNow + 1
  /\ UNCHANGED <<upRow, upIds, upRes, upPoll, upDel, upSteps, upChecks, upAlerts, upCrossed, upCut>>

\* The behaviours are cut at MaxNow.
Over == upNow = MaxNow /\ UNCHANGED vars

Next ==
  \/ DeleteResults \/ DeleteMonitor \/ DeleteInterrupted \/ Tick \/ Over
  \/ \E e \in Intervals : CreateUptimeMonitor(e)
  \/ \E n \in Nodes :
       \/ PollDue(n) \/ SaveCheckResult(n) \/ SaveFails(n) \/ DispatchAlert(n) \/ Crash(n)
       \/ \E ok \in BOOLEAN : Answer(n, ok)

Spec == Init /\ [][Next]_vars

-----------------------------------------------------------------------------

\* Every variable has its type.
TypeOK ==
  /\ upNow \in 1..MaxNow /\ upIds \in Nat /\ upSteps \in 0..MaxSteps /\ upChecks \in 0..MaxChecks
  /\ upRow.id \in 0..upIds /\ upRow.last \in 0..upNow /\ upRow.fails \in 0..upChecks
  /\ upRes \in Seq([mon : 1..upIds, check : 1..upChecks, ok : BOOLEAN])
  /\ upDel \in {0, upRow.id} /\ upAlerts \cup upCut \subseteq 1..upChecks /\ upCrossed \in BOOLEAN
  /\ \A n \in Nodes : upPoll[n].pc \in {"idle", "request", "save", "alert"} /\ upPoll[n].mon \in 0..upIds

\* The k latest results all failed.
AllFailed(k) == \A j \in Len(upRes) - k + 1..Len(upRes) : ~upRes[j].ok

\* consecutive_fail is the number of failed results since the latest that succeeded,
\* although rounds overlap and results are saved by two nodes, unless a deletion dropped
\* the results and could not delete the monitor, until the next check that succeeds. Every
\* failed result is followed by its alert, unless the process crashed between the two. A
\* monitor whose interval has passed is listed, although the query compares two different
\* forms of the time (which also lists it earlier on that day).
UptimeHoldsUnlessCrossed ==
  /\ ~upCrossed /\ upDel = 0 =>
       /\ upRow.fails <= Len(upRes) /\ AllFailed(upRow.fails)
       /\ upRow.fails < Len(upRes) => upRes[Len(upRes) - upRow.fails].ok
  /\ \A k \in DOMAIN upRes :
       \/ upRes[k].ok \/ upRes[k].check \in upAlerts \cup upCut
       \/ \E n \in Nodes : upPoll[n].pc = "alert" /\ upPoll[n].check = upRes[k].check
  /\ upRow.id # 0 /\ upRow.last # 0 /\ upRow.last + upRow.every <= upNow => ListDueUptimeMonitors

=============================================================================
