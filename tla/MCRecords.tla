----------------------------- MODULE MCRecords -----------------------------
(***************************************************************************)
(* Components that keep records in the same database without sharing rows  *)
(* and that no transaction joins: issues and releases, retention, native   *)
(* crashes, cron monitors, metric alert rules, uptime monitors, scheduled  *)
(* reports, replays. "part" says which of them moves in a behaviour.       *)
(* The slots hold the variables of cron and uptime monitors, reports and   *)
(* replays, the others have their own.                                     *)
(***************************************************************************)
EXTENDS Issues, MetricAlerts, NativeCrash, Retention, TLC

CONSTANTS e1, e2, none

VARIABLES part, s1, s2, s3, s4, s5, s6, s7, s8, s9, s10, s11

slots == <<s1, s2, s3, s4, s5, s6, s7, s8, s9, s10, s11>>
All == <<part, vars, maVars, ncVars, rtVars, slots>>

\* Two events of different releases; the API may register the second one's first.
MCReleaseOf == (e1 :> "r1") @@ (e2 :> "r2")
MCSettings == [limit : {1, 2}, low : {0, 1, 2}, active : BOOLEAN]

\* A file and an event.
MCOrder == <<"file", "event">>

Cron == INSTANCE Monitors WITH
  CheckInIds <- {1, 2}, Intervals <- {0, 1, 2}, MaxNow <- 5, MaxSteps <- 3,
  moNow <- s1, moRow <- s2, moIns <- s3, moIds <- s4, moMk <- s5, moDel <- s6,
  moSteps <- s7, moSeen <- s8, moAlerted <- s9, moCrossed <- s10

Up == INSTANCE Uptime WITH
  Nodes <- {1, 2}, Intervals <- {1, 3}, DayTicks <- 2, MaxNow <- 4, MaxChecks <- 3, MaxSteps <- 4,
  upNow <- s1, upRow <- s2, upIds <- s3, upRes <- s4, upPoll <- s5, upDel <- s6,
  upSteps <- s7, upChecks <- s8, upAlerts <- s9, upCrossed <- s10, upCut <- s11

Report == INSTANCE Reports WITH
  Nodes <- {1, 2}, Cadences <- {1, 2}, MaxNow <- 4, MaxSteps <- 3,
  rpNow <- s1, rpRow <- s2, rpIds <- s3, rpRun <- s4, rpMails <- s5, rpSteps <- s6, rpCrossed <- s7

\* Two envelopes with a replay_event and one without, which sends a segment again; the four
\* recordings exceed the policy's limit.
Replay == INSTANCE Replays WITH
  Envelopes <- {e1, e2, none}, WithEvent <- (e1 :> TRUE) @@ (e2 :> TRUE) @@ (none :> FALSE),
  Recordings <- (e1 :> <<[segment |-> 1, size |-> 1]>>)
             @@ (e2 :> <<[segment |-> 2, size |-> 1], [segment |-> 3, size |-> 2]>>)
             @@ (none :> <<[segment |-> 1, size |-> 2]>>),
  Segments <- 1..3, Undecodable <- {2}, MaxBytes <- 3, MaxSends <- 1,
  rySize <- s1, ryBlobs <- s2, ryReceipt <- s3, ryFailed <- s4, ryManifest <- s5, ryReq <- s6,
  rySent <- s7, ryDropped <- s8, ryRaced <- s9, ryTorn <- s10, ryBehind <- s11

-----------------------------------------------------------------------------

Empty == /\ s1 = 0 /\ s2 = 0 /\ s3 = 0 /\ s4 = 0 /\ s5 = 0 /\ s6 = 0
         /\ s7 = 0 /\ s8 = 0 /\ s9 = 0 /\ s10 = 0 /\ s11 = 0

\* A part that does not move is in one of its first states.
MCInit ==
  /\ \/ part \in {"issues", "metric", "native", "retention"} /\ Empty
     \/ part = "cron" /\ Cron!Init /\ s11 = 0
     \/ part = "uptime" /\ Up!Init
     \/ part = "replay" /\ Replay!Init
     \/ part = "report" /\ Report!Init /\ s8 = 0 /\ s9 = 0 /\ s10 = 0 /\ s11 = 0
  /\ Init /\ (part # "issues" => isIds = 0)
  /\ MAInit /\ (part # "metric" => maWanted = CHOOSE c \in Settings : TRUE)
  /\ NCInit /\ (part # "native" => ~ncBad)
  /\ RTInit /\ (part # "retention" => rtTier = [r \in Records |-> "delete"])

\* The part p moves; the variables it does not use stay.
Only(p) ==
  /\ part = p /\ UNCHANGED part
  /\ p # "issues" => UNCHANGED vars
  /\ p # "metric" => UNCHANGED maVars
  /\ p # "native" => UNCHANGED ncVars
  /\ p # "retention" => UNCHANGED rtVars
  /\ p \in {"issues", "metric", "native", "retention"} => UNCHANGED slots
  /\ p = "cron" => UNCHANGED s11
  /\ p = "report" => UNCHANGED <<s8, s9, s10, s11>>

MCNext ==
  \/ Only("issues") /\ Next
  \/ Only("metric") /\ MANext
  \/ Only("retention") /\ RTNext
  \/ Only("native") /\ NCNext
  \/ Only("cron") /\ Cron!Next
  \/ Only("uptime") /\ Up!Next
  \/ Only("report") /\ Report!Next
  \/ Only("replay") /\ Replay!Next

MCSpec == MCInit /\ [][MCNext]_All

\* The issues alone.
IssuesSpec == MCSpec /\ part = "issues"

\* Retention alone. The scheduler's goroutine begins a sweep at every tick and goes on
\* with it.
SweepSpec == MCSpec /\ part = "retention" /\ WF_All(Only("retention") /\ SweepStep("scheduler"))

-----------------------------------------------------------------------------
\* Properties, beside those of Issues, MetricAlerts, NativeCrash and Retention

\* Every variable of the parts has its type.
RecordTypes ==
  /\ TypeOK /\ MATypeOK /\ NCTypeOK /\ RTTypeOK
  /\ part = "cron" => Cron!TypeOK
  /\ part = "uptime" => Up!TypeOK
  /\ part = "report" => Report!TypeOK
  /\ part = "replay" => Replay!TypeOK

\* What the scheduler does at its times happens for its slot, once, and with its trace.
\* Cron: a check-in "missed" by MarkMissed was missed, is recorded once for its slot and
\* raised an alert, unless a check-in came between the query and the update, or the round
\* was cut short after the insert. Uptime: consecutive_fail counts the saved failures and
\* each has its alert, unless a deletion lost the results or a crash the alert. Reports:
\* a schedule moves on only behind its mail, and two mails are a cadence apart, unless
\* rounds overlapped on it or the update after the mail did not happen.
SlotsHoldUnlessCrossed ==
  /\ part = "cron" => Cron!MissedTrueUnlessCrossed
  /\ part = "uptime" => Up!UptimeHoldsUnlessCrossed
  /\ part = "report" => Report!ReportOncePerCadenceUnlessCrossed

\* Between requests a replay's manifest describes the segments that are stored and says so
\* if the policy dropped one, rows have their blobs and are within max_bytes, through
\* errors, crashes and deletions: one envelope indexed alone restores it. Unless requests
\* crossed since, or a save failed over another one of its segment.
ReplayAsStoredUnlessCrossed == part = "replay" => Replay!ReplayAsStoredUnlessCrossed

\* "RetentionStore applies telemetry retention policies": the scheduler's sweeps get to
\* the end again and again.
SweepsKeepFinishing == []<>(part = "retention" => SweepFinished)

=============================================================================
