---------------------------- MODULE MetricAlerts ----------------------------
(***************************************************************************)
(* A metric alert rule ("above" a limit) between the scheduler, which      *)
(* evaluates it, writes the new state and notifies, and users, who edit    *)
(* it. Both sides read the rule and later write the whole row back.        *)
(***************************************************************************)
EXTENDS Integers

CONSTANTS Values,      \* values of the metric
          Settings,    \* what users may set: [limit, low, active]; low 0 is no resolve threshold
          MAMaxSteps     \* bound: users, changes of the metric and faults

\* Limits and values are numbers, and the metric of an idle window is 0.
Thresholds ==
  /\ Settings \subseteq [limit : Int, low : Int, active : BOOLEAN]
  /\ Values \subseteq Int /\ 0 \in Values

ASSUME ThresholdsAssumption == Thresholds

VARIABLES maRule,      \* the row of metric_alert_rules: the settings and state; there: is it?
          maValue,     \* the metric over the rule's window
          maEv,        \* runMetricAlertEvaluation: the rule as read, with the new state
          maEd,        \* handleUpdateMetricAlertRule: the rule as read
          maSteps,
          maWanted,    \* history: what the users set last
          maOpen,      \* history: notified, and no evaluation since has met a value within the
                       \* limit, nor a resolve threshold above it
          maTold,      \* history: notified since it was last resolved
          maTwice,     \* history: notified a second time while maOpen
          maCrossed    \* history: has one of the exceptions below happened?

maVars == <<maRule, maValue, maEv, maEd, maSteps, maWanted, maOpen, maTold, maTwice, maCrossed>>

Rule(c, state) == [there |-> TRUE, set |-> c, state |-> state]
MAIdle(r) == [pc |-> "idle", rule |-> r]

\* A rule as CreateMetricAlertRule leaves it.
MAInit ==
  /\ \E c \in Settings : maRule = Rule(c, "ok") /\ maWanted = c
  /\ maValue = 0 /\ maEv = MAIdle(maRule) /\ maEd = MAIdle(maRule) /\ maSteps = 0
  /\ maOpen = FALSE /\ maTold = FALSE /\ maTwice = FALSE /\ maCrossed = FALSE

MACounted == maSteps < MAMaxSteps /\ maSteps' = maSteps + 1

-----------------------------------------------------------------------------
\* The scheduler

thresholdBreached(c, value) == value > c.limit

\* Variant: the resolve threshold is compared the other way.
shouldResolveFlipped(c, value) ==
  IF c.low > 0 THEN value >= c.low ELSE ~thresholdBreached(c, value)

shouldResolve(c, value) ==
  IF c.low > 0 THEN value <= c.low ELSE ~thresholdBreached(c, value)

\* evaluateMetricRule: the new state, or the old one.
evaluateMetricRule(r, value) ==
  CASE r.state \in {"ok", "resolved"} /\ thresholdBreached(r.set, value) -> "triggered"
    [] r.state = "triggered" /\ shouldResolve(r.set, value) -> "resolved"
    [] OTHER -> r.state

\* EvaluateAll, which reads the active rules and the metric.
EvaluateAll ==
  LET to == evaluateMetricRule(maRule, maValue) IN
  /\ maEv.pc = "idle" /\ maRule.there /\ maRule.set.active
  /\ maEv' = IF to = maRule.state THEN maEv ELSE [pc |-> "persist", rule |-> [maRule EXCEPT !.state = to]]
  /\ maOpen' = (maOpen /\ thresholdBreached(maRule.set, maValue) /\ maRule.set.low <= maRule.set.limit)
  /\ UNCHANGED <<maRule, maValue, maEd, maSteps, maWanted, maTold, maTwice, maCrossed>>

\* UpdateMetricAlertRule writes every column.
Write(r) == maRule' = IF maRule.there THEN r ELSE maRule
Notifies == IF maEv.rule.state = "triggered" THEN [maEv EXCEPT !.pc = "notify"] ELSE MAIdle(maEv.rule)

Persist ==
  /\ maEv.pc = "persist"
  /\ Write(maEv.rule) /\ maEv' = Notifies
  /\ maTold' = (maTold /\ maEv.rule.state # "resolved")
  /\ UNCHANGED <<maValue, maEd, maSteps, maWanted, maOpen, maTwice, maCrossed>>
\* The failure is only logged; the notification goes out.
PersistFails ==
  /\ maEv.pc = "persist" /\ MACounted
  /\ maEv' = Notifies /\ maCrossed' = TRUE
  /\ UNCHANGED <<maRule, maValue, maEd, maWanted, maOpen, maTold, maTwice>>

dispatchMetricAlertNotifications ==
  /\ maEv.pc = "notify" /\ maEv' = MAIdle(maEv.rule)
  /\ maTwice' = (maTwice \/ maOpen) /\ maOpen' = TRUE /\ maTold' = TRUE
  /\ UNCHANGED <<maRule, maValue, maEd, maSteps, maWanted, maCrossed>>

-----------------------------------------------------------------------------
\* Users

GetMetricAlertRule ==
  /\ maEd.pc = "idle" /\ maRule.there /\ MACounted
  /\ maEd' = [pc |-> "write", rule |-> maRule]
  /\ maCrossed' = (maCrossed \/ maEv.pc # "idle")
  /\ UNCHANGED <<maRule, maValue, maEv, maWanted, maOpen, maTold, maTwice>>
\* The state is the one that was read.
handleUpdateMetricAlertRule(c) ==
  /\ maEd.pc = "write" /\ Write(Rule(c, maEd.rule.state))
  /\ maEd' = MAIdle(maRule') /\ maWanted' = c
  /\ maCrossed' = (maCrossed \/ maEv.pc # "idle" \/ maEd.rule # maRule)
  /\ UNCHANGED <<maValue, maEv, maSteps, maOpen, maTold, maTwice>>
handleDeleteMetricAlertRule ==
  /\ maRule.there /\ MACounted
  /\ maRule' = [maRule EXCEPT !.there = FALSE]
  /\ UNCHANGED <<maValue, maEv, maEd, maWanted, maOpen, maTold, maTwice, maCrossed>>

-----------------------------------------------------------------------------
Change(v) ==
  /\ v # maValue /\ MACounted /\ maValue' = v
  /\ UNCHANGED <<maRule, maEv, maEd, maWanted, maOpen, maTold, maTwice, maCrossed>>
\* A crash of the scheduler after it wrote the state leaves a rule triggered unnotified.
Crash ==
  /\ maEv.pc # "idle" /\ MACounted /\ maEv' = MAIdle(maEv.rule)
  /\ maCrossed' = (maCrossed \/ maEv.pc = "notify")
  /\ UNCHANGED <<maRule, maValue, maEd, maWanted, maOpen, maTold, maTwice>>
MAOver == (maSteps = MAMaxSteps \/ ~maRule.there) /\ maEv.pc = "idle" /\ UNCHANGED maVars

MANext ==
  \/ EvaluateAll \/ Persist \/ PersistFails \/ dispatchMetricAlertNotifications
  \/ GetMetricAlertRule \/ handleDeleteMetricAlertRule
  \/ \E c \in Settings : handleUpdateMetricAlertRule(c)
  \/ \E v \in Values : Change(v)
  \/ Crash \/ MAOver

MASpec == MAInit /\ [][MANext]_maVars

-----------------------------------------------------------------------------
\* Properties

\* Every variable has its type.
MATypeOK ==
  /\ maRule.set \in Settings /\ maRule.state \in {"ok", "triggered", "resolved"}
  /\ maValue \in Values /\ maWanted \in Settings /\ maSteps \in 0..MAMaxSteps
  /\ maEv.pc \in {"idle", "persist", "notify"} /\ maEd.pc \in {"idle", "write"}

\* What the users set stays set. A rule is notified once per breach: again only after an
\* evaluation met a value within the limit. And one that says "triggered" was notified.
\* Exceptions: an edit that overlaps an evaluation, a state that could not be written, a
\* crash before the notification; and for the second, a resolve threshold above the limit.
RuleHoldsUnlessCrossed ==
  ~maCrossed /\ maRule.there =>
    /\ maRule.set = maWanted
    /\ ~maTwice
    /\ maRule.state = "triggered" /\ maEv.pc = "idle" => maTold
=============================================================================
