----------------------------- MODULE MCControl -----------------------------
(***************************************************************************)
(* The parts that decide who may do what: memberships, roles, the lease    *)
(* that Valkey grants, rate limits, query quotas, spikes, project keys,    *)
(* credentials and maintenance mode. They share no state, so a behaviour   *)
(* is one of one part: "part" names it. The first three have their own     *)
(* variables; the slots hold the variables of the others.                  *)
(***************************************************************************)
EXTENDS Memberships, Authorizer, ValkeyLease, TLC

CONSTANTS a1, a2, c1, c2, c3, n1, n2

VARIABLES part, s1, s2, s3, s4, s5, s6, s7, s8, s9

RL == INSTANCE RateLimits WITH
  Nodes <- {n1, n2}, Callers <- (n1 :> {c1, c2}) @@ (n2 :> {c3}), Limit <- 3, Batch <- 2,
  Window <- 2, MaxDelay <- 1, MaxTime <- 3, MaxFaults <- 1,
  rlNow <- s1, rlCall <- s2, rlBucket <- s3, rlAdmitted <- s4, rlKey <- s5, rlLocal <- s6,
  rlAllowed <- s7, rlFaults <- s8, rlKind <- s9
QG == INSTANCE QueryGuard WITH
  Clients <- {c1, c2}, Costs <- {0, 1, 2, 3, 4}, MaxCostPerRequest <- 3,
  MaxRequestsPerWindow <- 2, MaxCostPerWindow <- 2, Window <- 2, MaxDelay <- 1,
  MaxTime <- 3, MaxDenied <- 1, MaxFaults <- 1,
  qgStore <- s1, qgNow <- s2, qgCall <- s3, qgUsage <- s4, qgAllowed <- s5, qgAudit <- s6,
  qgFaults <- s7
PK == INSTANCE ProjectKeyCache WITH
  Clients <- {c1, c2}, Admins <- {a1, a2}, TTL <- 2, TouchInterval <- 4, MaxDelay <- 1,
  pkStatus <- s1, pkSince <- s2, pkEntry <- s3, pkCall <- s4, pkAdmin <- s5, pkWanted <- s6,
  pkCrossed <- s7
CR == INSTANCE Credentials WITH
  Nodes <- {n1, n2}, Clients <- {c1, c2, c3}, NodeOf <- (c1 :> n1) @@ (c2 :> n1) @@ (c3 :> n2),
  CacheTTL <- 2, MaxDelay <- 1, MaxFaults <- 1,
  crKind <- s1, crRow <- s2, crSince <- s3, crCache <- s4, crCall <- s5, crRevoke <- s6, crFaults <- s7
\* Calls that cross on the row; and requests that meet a change of the mode.
IR == INSTANCE InstallState WITH
  Callers <- {a1, a2}, Requests <- {}, Versions <- {1, 2}, TTL <- 2, MaxNow <- 0, MaxCalls <- 3,
  isNow <- s1, isRow <- s2, isSince <- s3, isCall <- s4, isCalls <- s5, isEntry <- s6,
  isReq <- s7, isAsked <- s8, isCrossed <- s9
IM == INSTANCE InstallState WITH
  Callers <- {a1}, Requests <- {c1, c2}, Versions <- {1}, TTL <- 2, MaxNow <- 4, MaxCalls <- 2,
  isNow <- s1, isRow <- s2, isSince <- s3, isCall <- s4, isCalls <- s5, isEntry <- s6,
  isReq <- s7, isAsked <- s8, isCrossed <- s9

\* The ring with the flag on; and the flag while it changes.
SR == INSTANCE SpikeThrottle WITH
  Events <- {c1, c2}, BaselineWindow <- 2, SpikeMultiplier <- 2, MinBaselineCount <- 1,
  Minute <- 1, TTL <- 20, MaxNow <- 7, MaxSent <- 5, Strides <- {1, 4}, ChangeTimes <- {},
  spNow <- s1, spOn <- s2, spEntry <- s3, spRing <- s4, spRings <- s5, spEvent <- s6,
  spSent <- s7, spCount <- s8, spOdd <- s9
SF == INSTANCE SpikeThrottle WITH
  Events <- {c1, c2}, BaselineWindow <- 2, SpikeMultiplier <- 2, MinBaselineCount <- 1,
  Minute <- 2, TTL <- 2, MaxNow <- 4, MaxSent <- 3, Strides <- {1}, ChangeTimes <- {1, 2, 3},
  spNow <- s1, spOn <- s2, spEntry <- s3, spRing <- s4, spRings <- s5, spEvent <- s6,
  spSent <- s7, spCount <- s8, spOdd <- s9

slots == <<s1, s2, s3, s4, s5, s6, s7, s8, s9>>
All == <<part, vars, azVars, vlVars, slots>>

\* The slots that a part with seven variables, or one with its own, leaves empty.
Empty7 == s8 = 0 /\ s9 = 0
Empty == s1 = 0 /\ s2 = 0 /\ s3 = 0 /\ s4 = 0 /\ s5 = 0 /\ s6 = 0 /\ s7 = 0 /\ Empty7

MCInit ==
  /\ Init /\ AZInit /\ VLInit
  /\ \/ part \in {"members", "roles", "lease"} /\ Empty
     \/ part = "limits" /\ RL!Init
     \/ part = "quotas" /\ QG!Init /\ Empty7
     \/ part = "keys" /\ PK!Init /\ Empty7
     \/ part = "credentials" /\ CR!Init /\ Empty7
     \/ part = "install" /\ IR!Init
     \/ part = "maintenance" /\ IM!Init
     \/ part = "spikes" /\ SR!Init
     \/ part = "spike flag" /\ SF!Init

MCNext ==
  /\ UNCHANGED part
  /\ \/ part = "members" /\ Next /\ UNCHANGED <<azVars, vlVars, slots>>
     \/ part = "roles" /\ AZNext /\ UNCHANGED <<vars, vlVars, slots>>
     \/ part = "lease" /\ VLNext /\ UNCHANGED <<vars, azVars, slots>>
     \/ /\ UNCHANGED <<vars, azVars, vlVars>>
        /\ \/ part = "limits" /\ RL!Next
           \/ part = "quotas" /\ QG!Next /\ UNCHANGED <<s8, s9>>
           \/ part = "keys" /\ PK!Next /\ UNCHANGED <<s8, s9>>
           \/ part = "credentials" /\ CR!Next /\ UNCHANGED <<s8, s9>>
           \/ part = "install" /\ IR!Next
           \/ part = "maintenance" /\ IM!Next
           \/ part = "spikes" /\ SR!Next
           \/ part = "spike flag" /\ SF!Next

MCSpec == MCInit /\ [][MCNext]_All

-----------------------------------------------------------------------------
\* Properties, beside those of Memberships, Authorizer and ValkeyLease

\* The variables of every part have their types.
ControlTypes ==
  /\ TypeOK /\ VLTypeOK
  /\ part = "limits" => RL!TypeOK
  /\ part = "quotas" => QG!TypeOK
  /\ part = "keys" => PK!TypeOK
  /\ part = "credentials" => CR!TypeOK
  /\ part = "install" => IR!TypeOK
  /\ part = "maintenance" => IM!TypeOK
  /\ part = "spikes" => SR!TypeOK
  /\ part = "spike flag" => SF!TypeOK

\* The fixed window limiter admits at most two limits in a window of time, the nodes
\* together at most the limit for a clock window of the shared counter, and the query
\* guard's checked requests stay within the policy of their window: whatever requests
\* cross, whichever answers are lost. The spike throttle refuses what its definition of a
\* spike says, and nothing else.
QuotasHold ==
  /\ part = "limits" => RL!BurstAtMostDouble /\ RL!SharedLimitHolds
  /\ part = "quotas" => QG!AllowedWithinPolicy
  /\ part = "spikes" => SR!SpikesAsDefined

\* The cache serves a disabled key for two lifetimes of an entry at most, and a revoked
\* credential is accepted for a cache lifetime and two requests at most, on any node.
\* Maintenance mode and spike protection hold a cache lifetime after they are turned on.
RevocationTakesHold ==
  /\ part = "keys" => PK!DisabledKeyForgotten
  /\ part = "credentials" => CR!RevokedSoonRefused
  /\ part = "maintenance" => IM!MaintenanceTakesHold
  /\ part = "spike flag" => SF!FlagTakesHold

\* The key's status is the one asked for, unless a rename crossed a change; the row of
\* the installation is what starts and operators asked for, unless their calls crossed.
StatusAsAskedUnlessCrossed ==
  /\ part = "keys" => PK!StatusAsAskedUnlessCrossed
  /\ part = "install" => IR!InstallAsAskedUnlessCrossed

=============================================================================
