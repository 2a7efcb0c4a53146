------------------------------ MODULE Monitors ------------------------------
(***************************************************************************)
(* A cron monitor: check-ins of a job (SaveCheckIn, one transaction), its  *)
(* definition by users (UpsertMonitor, DeleteMonitor), and the scheduler,  *)
(* which marks the slots that pass without a check-in (MarkMissed: a       *)
(* query, an insert and an update, each by itself) and then raises an      *)
(* alert. Schedules are intervals.                                         *)
(***************************************************************************)
EXTENDS Integers, FiniteSets

CONSTANTS CheckInIds,   \* positive numbers: the ids that the job's clients give
          Intervals,    \* lengths of a schedule; 0 is no schedule
          MaxNow, MaxSteps   \* bounds: the clock; check-ins, users and faults

VARIABLES moNow,
          moRow,      \* the row of monitors: its id is 0 when there is none; next 0 is NULL;
                      \* by (history): the interval that next was computed with
          moIns,      \* the rows of monitor_checkins; id 0: one that MarkMissed made up
          moIds,      \* ids given out to monitors and missed rows
          moMk,       \* MarkMissed: what it read of the monitor, and its now
          moDel,      \* DeleteMonitor: the monitor's id
          moSteps,
          moSeen,     \* history: the check-ins that arrived
          moAlerted,  \* history: the missed rows that an alert was raised for
          moCrossed   \* history: has one of the exceptions below happened?

vars == <<moNow, moRow, moIns, moIds, moMk, moDel, moSteps, moSeen, moAlerted, moCrossed>>

NoMonitor == [id |-> 0, active |-> TRUE, every |-> 0, next |-> 0, by |-> 0]
AtRest == [pc |-> "idle", mon |-> 0, slot |-> 0, every |-> 0, by |-> 0, now |-> 0, n |-> 0]
Idle == [pc |-> "idle", mon |-> 0]

Init ==
  /\ moNow = 1 /\ moRow = NoMonitor /\ moIns = {} /\ moIds = 0 /\ moMk = AtRest /\ moDel = Idle
  /\ moSteps = 0 /\ moSeen = {} /\ moAlerted = {} /\ moCrossed = FALSE

Counted == moSteps < MaxSteps /\ moSteps' = moSteps + 1

-----------------------------------------------------------------------------
\* Check-ins and users

\* ensureMonitor.
Known == IF moRow.id = 0 THEN [NoMonitor EXCEPT !.id = moIds + 1] ELSE moRow
NewIds == IF moRow.id = 0 THEN moIds + 1 ELSE moIds

computeNextCheckIn(base, every) == IF every = 0 THEN 0 ELSE base + every

\* INSERT OR IGNORE: one row for a check-in id, the first.
InsertCheckIn(i) ==
  IF \E c \in moIns : c.id = i THEN moIns
  ELSE moIns \cup {[id |-> i, n |-> 0, mon |-> Known.id, slot |-> 0, at |-> moNow, by |-> 0]}

Arrived ==
  /\ moSeen' = moSeen \cup {[mon |-> Known.id, at |-> moNow]}
  /\ moCrossed' = (moCrossed \/ (moMk.mon = Known.id /\ moMk.pc \in {"insert", "update"}))

\* Variant: a monitor that has its next slot keeps it.
SaveCheckInKeepsNext(i, config) ==
  LET every == IF config = 0 THEN Known.every ELSE config IN
  /\ Counted /\ Arrived
  /\ moIns' = InsertCheckIn(i)
  /\ moRow' = [Known EXCEPT !.every = every, !.by = every,
                            !.next = IF @ = 0 THEN computeNextCheckIn(moNow, every) ELSE @]
  /\ moIds' = NewIds
  /\ UNCHANGED <<moNow, moMk, moDel, moAlerted>>

\* config: the schedule that a check-in may bring along, 0 for none.
SaveCheckIn(i, config) ==
  LET every == IF config = 0 THEN Known.every ELSE config IN
  /\ Counted /\ Arrived
  /\ moIns' = InsertCheckIn(i)
  /\ moRow' = [Known EXCEPT !.every = every, !.by = every, !.next = computeNextCheckIn(moNow, every)]
  /\ moIds' = NewIds
  /\ UNCHANGED <<moNow, moMk, moDel, moAlerted>>

\* The next slot stays as it is.
UpsertMonitor(active, every) ==
  /\ Counted
  /\ moRow' = [Known EXCEPT !.active = active, !.every = every] /\ moIds' = NewIds
  /\ UNCHANGED <<moNow, moIns, moMk, moDel, moSeen, moAlerted, moCrossed>>

\* The monitor is found, its check-ins are deleted, then it is, unless a row that came in
\* since refers to it: that is an error.
DeleteMonitor ==
  /\ moDel.pc = "idle" /\ moRow.id # 0 /\ Counted
  /\ moDel' = [pc |-> "rows", mon |-> moRow.id]
  /\ UNCHANGED <<moNow, moRow, moIns, moIds, moMk, moSeen, moAlerted, moCrossed>>
DeleteCheckIns ==
  /\ moDel.pc = "rows" /\ moDel' = [moDel EXCEPT !.pc = "monitor"]
  /\ moIns' = {c \in moIns : c.mon # moDel.mon}
  /\ UNCHANGED <<moNow, moRow, moIds, moMk, moSteps, moSeen, moAlerted, moCrossed>>
DeleteRow ==
  /\ moDel.pc = "monitor" /\ moDel' = Idle
  /\ moRow' = IF moRow.id = moDel.mon /\ ~\E c \in moIns : c.mon = moDel.mon THEN NoMonitor ELSE moRow
  /\ UNCHANGED <<moNow, moIns, moIds, moMk, moSteps, moSeen, moAlerted, moCrossed>>

-----------------------------------------------------------------------------
\* MarkMissed

\* The first slot after the base that lies in the future.
advancePast(base, every, now) ==
  IF every = 0 THEN 0 ELSE base + every * (((now - base) \div every) + 1)

MarkMissed ==
  /\ moMk.pc = "idle"
  /\ moRow.id # 0 /\ moRow.active /\ moRow.next # 0 /\ moRow.next <= moNow
  /\ moMk' = [pc |-> "insert", mon |-> moRow.id, slot |-> moRow.next, every |-> moRow.every,
              by |-> moRow.by, now |-> moNow, n |-> moIds + 1]
  /\ moIds' = moIds + 1
  /\ UNCHANGED <<moNow, moRow, moIns, moDel, moSteps, moSeen, moAlerted, moCrossed>>

\* A monitor that is gone is an error, which ends the round.
InsertMissed ==
  /\ moMk.pc = "insert"
  /\ IF moRow.id = moMk.mon
     THEN /\ moIns' = moIns \cup {[id |-> 0, n |-> moMk.n, mon |-> moMk.mon, slot |-> moMk.slot,
                                   at |-> moMk.now, by |-> moMk.by]}
          /\ moMk' = [moMk EXCEPT !.pc = "update"]
     ELSE moMk' = AtRest /\ UNCHANGED moIns
  /\ UNCHANGED <<moNow, moRow, moIds, moDel, moSteps, moSeen, moAlerted, moCrossed>>

\* By the id alone, whatever the row says by now.
UpdateMissed ==
  /\ moMk.pc = "update" /\ moMk' = [moMk EXCEPT !.pc = "alert"]
  /\ moRow' = IF moRow.id # moMk.mon THEN moRow
              ELSE [moRow EXCEPT !.next = advancePast(moMk.slot, moMk.every, moMk.now), !.by = moMk.every]
  /\ UNCHANGED <<moNow, moIns, moIds, moDel, moSteps, moSeen, moAlerted, moCrossed>>

DispatchAlertSignal ==
  /\ moMk.pc = "alert" /\ moMk' = AtRest /\ moAlerted' = moAlerted \cup {moMk.n}
  /\ UNCHANGED <<moNow, moRow, moIns, moIds, moDel, moSteps, moSeen, moCrossed>>

\* An error or a crash. After the insert it leaves a missed slot that is still due, and
\* whose alert is not raised.
Interrupt ==
  /\ Counted
  /\ \/ moMk.pc # "idle" /\ moMk' = AtRest /\ UNCHANGED moDel
        /\ moCrossed' = (moCrossed \/ moMk.pc # "insert")
     \/ moDel.pc # "idle" /\ moDel' = Idle /\ UNCHANGED <<moMk, moCrossed>>
  /\ UNCHANGED <<moNow, moRow, moIns, moIds, moSeen, moAlerted>>

Tick ==
  /\ moNow < MaxNow /\ moNow' = moNow + 1
  /\ UNCHANGED <<moRow, moIns, moIds, moMk, moDel, moSteps, moSeen, moAlerted, moCrossed>>

Over == moNow = MaxNow /\ moMk.pc = "idle" /\ moDel.pc = "idle" /\ UNCHANGED vars

Next ==
  \/ \E i \in CheckInIds, e \in Intervals : SaveCheckIn(i, e)
  \/ \E a \in BOOLEAN, e \in Intervals : UpsertMonitor(a, e)
  \/ DeleteMonitor \/ DeleteCheckIns \/ DeleteRow
  \/ MarkMissed \/ InsertMissed \/ UpdateMissed \/ DispatchAlertSignal
  \/ Interrupt \/ Tick \/ Over

Spec == Init /\ [][Next]_vars

-----------------------------------------------------------------------------
\* Properties

\* Every variable has its type.
TypeOK ==
  /\ moNow \in 1..MaxNow /\ moRow.id \in 0..moIds /\ moRow.every \in Intervals /\ moRow.next \in Nat
  /\ \A c \in moIns : c.id \in CheckInIds \cup {0} /\ c.mon \in 1..moIds /\ c.at \in 1..moNow
  /\ moMk.pc \in {"idle", "insert", "update", "alert"} /\ moDel.pc \in {"idle", "rows", "monitor"}
  /\ moAlerted \subseteq 1..moIds /\ moCrossed \in BOOLEAN

Missed == {c \in moIns : c.id = 0}

\* A row "missed" is true: no check-in arrived in the interval before its slot, nor from
\* there until the second it was marked. No slot is marked twice, and each mark raised its alert once
\* the round is through. Exceptions: a check-in between the query of MarkMissed and its
\* update, and a round that is cut short after the insert.
MissedTrueUnlessCrossed ==
  ~moCrossed =>
    /\ \A c \in Missed, s \in moSeen : s.mon = c.mon => ~(c.slot - c.by < s.at /\ s.at < c.at)
    /\ \A c, d \in Missed : c.mon = d.mon /\ c.slot = d.slot => c = d
    /\ \A c \in Missed : c.n \in moAlerted \/ moMk.n = c.n
=============================================================================
