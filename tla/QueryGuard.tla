----------------------------- MODULE QueryGuard -----------------------------
(***************************************************************************)
(* CheckAndRecord of QueryGuardStore (SQLite) and ValkeyQueryGuardStore,   *)
(* for one organization, workload and actor: the limits per request, then  *)
(* one atomic statement or script that checks and raises the usage of the  *)
(* clock window, then an audit row. The Valkey store lets a request pass   *)
(* when the script fails.                                                  *)
(***************************************************************************)
EXTENDS Integers, TLC

CONSTANTS Clients,
          Costs,                \* what estimateQueryCost may return, 0 for its error
          MaxCostPerRequest, MaxRequestsPerWindow, MaxCostPerWindow, \* the policy
          Window,               \* WindowSeconds, in ticks
          MaxDelay,             \* the longest time between the clock and the statement
          MaxTime,              \* bound: the run ends here
          MaxDenied,            \* bound: denials that are audited
          MaxFaults

VARIABLES qgStore,  \* "sqlite" or "valkey"
          qgNow,
          qgCall,   \* qgCall[c]: a caller's step, its cost and the time it read
          qgUsage,  \* qgUsage[w]: the row or key of window w; count 0 is none
          qgAllowed,\* history: what was allowed for window w, and what without a check
          qgAudit,  \* how many rows of auth_audit_logs say allowed and denied
          qgFaults

vars == <<qgStore, qgNow, qgCall, qgUsage, qgAllowed, qgAudit, qgFaults>>

Windows == 0..MaxTime \div Window
Idle == [pc |-> "idle", cost |-> 0, t |-> 0]
W(c) == qgCall[c].t \div Window

Init ==
  /\ qgStore \in {"sqlite", "valkey"}
  /\ qgNow = 0
  /\ qgCall = [c \in Clients |-> Idle]
  /\ qgUsage = [w \in Windows |-> [count |-> 0, cost |-> 0, expires |-> 0]]
  /\ qgAllowed = [w \in Windows |-> [count |-> 0, cost |-> 0, degraded |-> 0]]
  /\ qgAudit = [allowed |-> 0, denied |-> 0]
  /\ qgFaults = 0

Goto(c, pc) == qgCall' = [qgCall EXCEPT ![c].pc = pc]

-----------------------------------------------------------------------------
\* Variant: the window's limits are left to the statement, whose INSERT has no
\* WHERE clause.
RefusedByPolicyRequestOnly(cost) == cost = 0 \/ cost > MaxCostPerRequest

\* Refused before any usage is looked at: the estimate fails, or the request alone
\* is above the limit of a request or of a window.
RefusedByPolicy(cost) ==
  \/ cost = 0 \/ cost > MaxCostPerRequest
  \/ MaxRequestsPerWindow < 1 \/ cost > MaxCostPerWindow

Check(c, cost) ==
  /\ qgCall[c].pc = "idle"
  /\ qgCall' = [qgCall EXCEPT ![c] = [pc |-> IF RefusedByPolicy(cost) THEN "denied" ELSE "record",
                                      cost |-> cost, t |-> qgNow]]
  /\ UNCHANGED <<qgStore, qgNow, qgUsage, qgAllowed, qgAudit, qgFaults>>

Raised(c, u) == [count |-> u.count + 1, cost |-> u.cost + qgCall[c].cost]
Within(u) == u.count <= MaxRequestsPerWindow /\ u.cost <= MaxCostPerWindow

Allow(c) ==
  /\ Goto(c, "allowed")
  /\ qgAllowed' = [qgAllowed EXCEPT ![W(c)].count = @ + 1, ![W(c)].cost = @ + qgCall[c].cost]

\* INSERT ... ON CONFLICT DO UPDATE ... WHERE: a new row is not compared with anything.
Raises(c) == qgUsage[W(c)].count = 0 \/ Within(Raised(c, qgUsage[W(c)]))
UpsertEffect(c) ==
  qgUsage' = IF Raises(c) THEN [qgUsage EXCEPT ![W(c)] = Raised(c, @) @@ [expires |-> 0]] ELSE qgUsage

Upsert(c) ==
  /\ qgStore = "sqlite" /\ qgCall[c].pc = "record"
  /\ UpsertEffect(c)
  /\ IF Raises(c) THEN Allow(c) ELSE Goto(c, "denied") /\ UNCHANGED qgAllowed
  /\ UNCHANGED <<qgStore, qgNow, qgAudit, qgFaults>>

\* The statement fails, having run or not: the caller gets the error and no decision.
UpsertFails(c) ==
  /\ qgStore = "sqlite" /\ qgCall[c].pc = "record" /\ qgFaults < MaxFaults
  /\ qgFaults' = qgFaults + 1
  /\ UNCHANGED qgUsage \/ UpsertEffect(c)
  /\ qgCall' = [qgCall EXCEPT ![c] = Idle]
  /\ UNCHANGED <<qgStore, qgNow, qgAllowed, qgAudit>>

\* The usage in Valkey; the script sets the expiry again with every call.
Stored(w) == IF qgUsage[w].expires <= qgNow THEN [count |-> 0, cost |-> 0] ELSE qgUsage[w]
ScriptEffect(c) ==
  LET r == Raised(c, Stored(W(c))) IN
  qgUsage' = IF Within(r)
             THEN [qgUsage EXCEPT ![W(c)] = r @@ [expires |-> qgNow + Window + 1]]
             ELSE qgUsage

Script(c) ==
  /\ qgStore = "valkey" /\ qgCall[c].pc = "record"
  /\ ScriptEffect(c)
  /\ IF Within(Raised(c, Stored(W(c)))) THEN Allow(c)
     ELSE Goto(c, "denied") /\ UNCHANGED qgAllowed
  /\ UNCHANGED <<qgStore, qgNow, qgAudit, qgFaults>>

\* The script fails, having run or not: the request passes, marked Degraded.
ScriptFails(c) ==
  /\ qgStore = "valkey" /\ qgCall[c].pc = "record" /\ qgFaults < MaxFaults
  /\ qgFaults' = qgFaults + 1
  /\ UNCHANGED qgUsage \/ ScriptEffect(c)
  /\ Goto(c, "allowed")
  /\ qgAllowed' = [qgAllowed EXCEPT ![W(c)].degraded = @ + 1]
  /\ UNCHANGED <<qgStore, qgNow, qgAudit>>

\* insertAudit; its error is ignored.
Audit(c) ==
  /\ qgCall[c].pc \in {"allowed", "denied"}
  /\ qgAudit' = IF qgCall[c].pc = "allowed" THEN [qgAudit EXCEPT !.allowed = @ + 1]
                ELSE [qgAudit EXCEPT !.denied = @ + 1]
  /\ qgCall' = [qgCall EXCEPT ![c] = Idle]
  /\ UNCHANGED <<qgStore, qgNow, qgUsage, qgAllowed, qgFaults>>
AuditFails(c) ==
  /\ qgCall[c].pc \in {"allowed", "denied"} /\ qgFaults < MaxFaults
  /\ qgFaults' = qgFaults + 1
  /\ qgCall' = [qgCall EXCEPT ![c] = Idle]
  /\ UNCHANGED <<qgStore, qgNow, qgUsage, qgAllowed, qgAudit>>

Tick ==
  /\ qgNow < MaxTime
  /\ \A c \in Clients : qgCall[c].pc = "record" => qgNow - qgCall[c].t < MaxDelay
  /\ qgNow' = qgNow + 1
  /\ UNCHANGED <<qgStore, qgCall, qgUsage, qgAllowed, qgAudit, qgFaults>>

Next ==
  \/ \E c \in Clients :
       \/ qgAudit.denied < MaxDenied /\ \E cost \in Costs : Check(c, cost)
       \/ Upsert(c) \/ UpsertFails(c) \/ Script(c) \/ ScriptFails(c)
       \/ Audit(c) \/ AuditFails(c)
  \/ Tick
  \/ qgNow = MaxTime /\ UNCHANGED vars

Spec == Init /\ [][Next]_vars

-----------------------------------------------------------------------------
\* Properties

\* Every variable has its type.
Usage == [count : 0..MaxRequestsPerWindow, cost : Nat, expires : Nat]
TypeOK ==
  /\ qgStore \in {"sqlite", "valkey"} /\ qgNow \in 0..MaxTime
  /\ qgCall \in [Clients -> [pc : {"idle", "record", "allowed", "denied"}, cost : Costs \cup {0}, t : 0..MaxTime]]
  /\ qgUsage \in [Windows -> Usage] /\ qgFaults \in 0..MaxFaults
  /\ qgAllowed \in [Windows -> [count : Nat, cost : Nat, degraded : Nat]]
  /\ qgAudit \in [allowed : Nat, denied : Nat]

\* The requests the guard allows for a window stay within the policy, in number and
\* in cost, however they interleave and however late their statements run; only
\* requests let through without a check come on top.
AllowedWithinPolicy ==
  \A w \in Windows : /\ qgAllowed[w].count <= MaxRequestsPerWindow
                     /\ qgAllowed[w].cost <= MaxCostPerWindow

=============================================================================
