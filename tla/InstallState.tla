---------------------------- MODULE InstallState ----------------------------
(***************************************************************************)
(* The one row of install_state: processes that start write their version  *)
(* and keep the rest, operators enter and leave maintenance mode, and the  *)
(* Maintenance middleware of one process refuses writes while the mode is  *)
(* on, from a copy it keeps for a moment. Both lifecycle stores read the   *)
(* row and write all of it back in a second statement.                     *)
(***************************************************************************)
EXTENDS Integers, FiniteSetsExt

CONSTANTS Callers,   \* processes that start and operators' commands
          Requests,  \* writing requests at one process
          Versions,
          TTL,       \* maintenanceCacheTTL, in ticks
          MaxNow, MaxCalls

VARIABLES isNow,
          isRow,     \* the row; id "none": there is none
          isSince,   \* when the row's mode changed last
          isCall,    \* isCall[c]: the step of a call, what it was given and what it read
          isCalls,   \* calls begun, up to MaxCalls
          isEntry,   \* maintenanceStateCache: the mode, and when it expires
          isReq,     \* isReq[r]: a request's step, the time it read, and the mode it saw
          isAsked,   \* history: the row that the calls, one after the other, ask for
          isCrossed  \* history: a call wrote back what another one had changed

vars == <<isNow, isRow, isSince, isCall, isCalls, isEntry, isReq, isAsked, isCrossed>>
rowVars == <<isRow, isSince, isAsked, isCrossed>>
requestVars == <<isNow, isEntry, isReq>>

NoRow == [id |-> "none", version |-> 0, boot |-> FALSE, mode |-> FALSE]
\* boot: the bootstrapCompleted that a sync is given, nil from a process without the API.
NoCall == [pc |-> "idle", op |-> "boot", version |-> 0, boot |-> "nil", read |-> NoRow]
NoReq == [pc |-> "idle", t |-> 0, mode |-> FALSE]

Init ==
  /\ isNow = 0 /\ isRow = NoRow /\ isSince = 0
  /\ isCall = [c \in Callers |-> NoCall] /\ isCalls = 0
  /\ isEntry = [mode |-> FALSE, expires |-> 0]
  /\ isReq = [r \in Requests |-> NoReq]
  /\ isAsked = NoRow /\ isCrossed = FALSE

-----------------------------------------------------------------------------
\* syncInstallState of a process that starts; only one with the API knows of the bootstrap.
Boot(c, version, boot) ==
  /\ isCall[c].pc = "idle" /\ isCalls < MaxCalls
  /\ isCall' = [isCall EXCEPT ![c] = [pc |-> "get", op |-> "boot", version |-> version,
                                      boot |-> boot, read |-> NoRow]]
  /\ isCalls' = isCalls + 1
  /\ UNCHANGED <<rowVars, requestVars>>

\* SetMaintenanceMode reads the version and the bootstrap that its sync will write.
SetMaintenanceMode(c, op) ==
  /\ isCall[c].pc = "idle" /\ isCalls < MaxCalls
  /\ isCall' = [isCall EXCEPT ![c] = [pc |-> "get", op |-> op, version |-> isRow.version,
                                      boot |-> IF isRow.boot THEN "true" ELSE "false",
                                      read |-> NoRow]]
  /\ isCalls' = isCalls + 1
  /\ UNCHANGED <<rowVars, requestVars>>

\* SyncInstallState reads the row ...
GetInstallState(c) ==
  /\ isCall[c].pc = "get"
  /\ isCall' = [isCall EXCEPT ![c] = [@ EXCEPT !.pc = "write", !.read = isRow]]
  /\ UNCHANGED <<isCalls, rowVars, requestVars>>

\* Variant: the mode is not carried over.
SyncedDropsMode(c, row) ==
  [id |-> IF row = NoRow THEN c ELSE row.id, version |-> isCall[c].version,
   boot |-> IF isCall[c].boot = "nil" THEN row.boot ELSE isCall[c].boot = "true",
   mode |-> FALSE]
\* What a sync writes over a row: its own version, the bootstrap when it is given, the
\* identity and the mode of the row, or a new identity.
Synced(c, row) ==
  [id |-> IF row = NoRow THEN c ELSE row.id, version |-> isCall[c].version,
   boot |-> IF isCall[c].boot = "nil" THEN row.boot ELSE isCall[c].boot = "true",
   mode |-> row.mode]

\* A call other than c has read what it is going to write.
Holding(c) == \E d \in Callers \ {c} :
  isCall[d].pc = "write" \/ (isCall[d].pc = "get" /\ isCall[d].op # "boot")

\* What the row should become: the call's own part, over whatever is there now.
AskedSync(c) ==
  IF isCall[c].op = "boot" /\ isCall[c].boot # "nil"
    THEN [isAsked EXCEPT !.id = IF isAsked = NoRow THEN c ELSE @, !.version = isCall[c].version,
                         !.boot = TRUE]
    ELSE [isAsked EXCEPT !.id = IF isAsked = NoRow THEN c ELSE @,
                         !.version = IF isCall[c].op = "boot" THEN isCall[c].version ELSE @]

SetRow(row) ==
  /\ isRow' = row
  /\ isSince' = IF row.mode # isRow.mode THEN isNow ELSE isSince

\* ... and writes every column but created_at; a start ends here.
WriteInstallState(c) ==
  /\ isCall[c].pc = "write"
  /\ SetRow(Synced(c, isCall[c].read))
  /\ isAsked' = AskedSync(c)
  /\ isCrossed' = (isCrossed \/ Holding(c))
  /\ isCall' = [isCall EXCEPT ![c] = IF @.op = "boot" THEN NoCall ELSE [@ EXCEPT !.pc = "update"]]
  /\ UNCHANGED <<isCalls, requestVars>>

\* SetMaintenanceMode sets the mode in a statement of its own.
UpdateMode(c) ==
  /\ isCall[c].pc = "update"
  /\ SetRow([isRow EXCEPT !.mode = isCall[c].op = "enter"])
  /\ isAsked' = [isAsked EXCEPT !.mode = isCall[c].op = "enter"]
  /\ isCrossed' = (isCrossed \/ Holding(c))
  /\ isCall' = [isCall EXCEPT ![c] = NoCall]
  /\ UNCHANGED <<isCalls, requestVars>>

\* A statement fails, or the process stops: the call returns with what it has written.
Fail(c) ==
  /\ isCall[c].pc # "idle"
  /\ isCall' = [isCall EXCEPT ![c] = NoCall]
  /\ UNCHANGED <<isCalls, rowVars, requestVars>>

-----------------------------------------------------------------------------
Answer(mode) == IF mode THEN "refused" ELSE "served"

\* load: a copy that has not expired answers at once.
Load(r) ==
  /\ isReq[r].pc = "idle"
  /\ isReq' = [isReq EXCEPT ![r] =
       IF isNow < isEntry.expires
         THEN [pc |-> Answer(isEntry.mode), t |-> isNow, mode |-> isEntry.mode]
         ELSE [pc |-> "get", t |-> isNow, mode |-> FALSE]]
  /\ UNCHANGED <<isNow, isEntry, isCall, isCalls, rowVars>>

LoadRow(r) ==
  /\ isReq[r].pc = "get"
  /\ isReq' = [isReq EXCEPT ![r] = [@ EXCEPT !.pc = "store", !.mode = isRow.mode]]
  /\ UNCHANGED <<isNow, isEntry, isCall, isCalls, rowVars>>

\* A request whose read of the row fails is served.
LoadFails(r) ==
  /\ isReq[r].pc = "get"
  /\ isReq' = [isReq EXCEPT ![r] = NoReq]
  /\ UNCHANGED <<isNow, isEntry, isCall, isCalls, rowVars>>

\* Variant: the copy lives for TTL from when it is stored.
StoreFromNow(r) ==
  /\ isReq[r].pc = "store"
  /\ isEntry' = [mode |-> isReq[r].mode, expires |-> isNow + TTL]
  /\ isReq' = [isReq EXCEPT ![r].pc = Answer(isReq[r].mode)]
  /\ UNCHANGED <<isNow, isCall, isCalls, rowVars>>

\* The copy lives for TTL from the time the request read before the row.
Store(r) ==
  /\ isReq[r].pc = "store"
  /\ isEntry' = [mode |-> isReq[r].mode, expires |-> isReq[r].t + TTL]
  /\ isReq' = [isReq EXCEPT ![r].pc = Answer(isReq[r].mode)]
  /\ UNCHANGED <<isNow, isCall, isCalls, rowVars>>

Respond(r) ==
  /\ isReq[r].pc \in {"served", "refused"}
  /\ isReq' = [isReq EXCEPT ![r] = NoReq]
  /\ UNCHANGED <<isNow, isEntry, isCall, isCalls, rowVars>>

Tick ==
  /\ isNow < MaxNow
  /\ isNow' = isNow + 1
  /\ UNCHANGED <<isEntry, isReq, isCall, isCalls, rowVars>>

\* The bounds are reached and nothing is at work.
Over ==
  /\ isNow = MaxNow /\ isCalls = MaxCalls
  /\ \A c \in Callers : isCall[c].pc = "idle"
  /\ UNCHANGED vars

Next ==
  \/ \E c \in Callers :
       \/ \E v \in Versions, boot \in {"true", "nil"} : Boot(c, v, boot)
       \/ \E op \in {"enter", "leave"} : SetMaintenanceMode(c, op)
       \/ GetInstallState(c) \/ WriteInstallState(c) \/ UpdateMode(c) \/ Fail(c)
  \/ \E r \in Requests : Load(r) \/ LoadRow(r) \/ LoadFails(r) \/ Store(r) \/ Respond(r)
  \/ Tick \/ Over

Spec == Init /\ [][Next]_vars

-----------------------------------------------------------------------------
\* Properties

Rows == [id : Callers \cup {"none"}, version : Versions \cup {0}, boot : BOOLEAN, mode : BOOLEAN]

\* Every variable has its type.
TypeOK ==
  /\ isNow \in 0..MaxNow /\ isSince \in 0..MaxNow /\ isCalls \in 0..MaxCalls
  /\ isRow \in Rows /\ isAsked \in Rows /\ isCrossed \in BOOLEAN
  /\ isCall \in [Callers -> [pc : {"idle", "get", "write", "update"}, op : {"boot", "enter", "leave"},
                             version : Versions \cup {0}, boot : {"nil", "true", "false"}, read : Rows]]
  /\ isEntry \in [mode : BOOLEAN, expires : 0..MaxNow + TTL]
  /\ isReq \in [Requests -> [pc : {"idle", "get", "store", "served", "refused"}, t : 0..MaxNow,
                             mode : BOOLEAN]]

\* The row is what the calls asked for: the mode of the last operator, the version of
\* the last start, a bootstrap that stays completed, the identity given first. Except
\* after a call that wrote the row while another one had read it and was yet to write:
\* the second one puts back what the first one changed.
InstallAsAskedUnlessCrossed == ~isCrossed => isRow = isAsked

\* Once the mode has been on for the life of a copy, a request that begins then is
\* refused, whatever the requests before it had read and stored late; only one whose
\* read of the row fails is served.
MaintenanceTakesHold ==
  \A r \in Requests : isReq[r].pc = "served" /\ isRow.mode => isReq[r].t < isSince + TTL

=============================================================================
