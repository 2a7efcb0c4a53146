----------------------------- MODULE Credentials -----------------------------
(***************************************************************************)
(* The life of one credential of AuthStore: a session, a personal access   *)
(* token or an automation token, from its creation to its revocation or    *)
(* expiry, and the requests that authenticate with it on several nodes.    *)
(* Each node caches the principals of tokens (not of sessions) for a short *)
(* time; a revocation clears the cache of its own node. Times are relative *)
(* to now.                                                                 *)
(***************************************************************************)
EXTENDS Integers, FiniteSetsExt

CONSTANTS Nodes, Clients, NodeOf,  \* NodeOf[c]: where a client's requests arrive
          CacheTTL,                \* authPrincipalCacheTTL, in ticks
          MaxDelay,                \* the longest a request is authenticating
          MaxFaults                \* bound: failures of an audit row

VARIABLES crKind,   \* "session", "pat" or "automation"
          crRow,    \* "absent", "inserted", "active", "revoked" or "expired"
          crSince,  \* ticks since the row stopped being active, up to Horizon
          crCache,  \* crCache[n]: ticks the cached principal is still good; 0 is none
          crCall,   \* crCall[c]: the step of a request and its age
          crRevoke, \* [pc, node]: the revocation under way or done
          crFaults

vars == <<crKind, crRow, crSince, crCache, crCall, crRevoke, crFaults>>

Horizon == CacheTTL + 2 * MaxDelay + 2
Idle == [pc |-> "idle", age |-> 0]
Cached == crKind # "session"

Init ==
  /\ crKind \in {"session", "pat", "automation"}
  /\ crRow = "absent" /\ crSince = 0
  /\ crCache = [n \in Nodes |-> 0]
  /\ crCall = [c \in Clients |-> Idle]
  /\ crRevoke \in [pc : {"no"}, node : Nodes]
  /\ crFaults = 0

-----------------------------------------------------------------------------
\* CreateSession, CreatePersonalAccessToken, CreateAutomationToken: the row, then
\* the audit row. Without the latter the call fails and the row stays: nobody learns
\* the secret, unless the caller of a token chose it.
Create ==
  /\ crRow = "absent"
  /\ crRow' = "inserted"
  /\ UNCHANGED <<crKind, crSince, crCache, crCall, crRevoke, crFaults>>
CreateAudited ==
  /\ crRow = "inserted"
  /\ crRow' = "active"
  /\ UNCHANGED <<crKind, crSince, crCache, crCall, crRevoke, crFaults>>
CreateAuditFails ==
  /\ crRow = "inserted" /\ crFaults < MaxFaults
  /\ crRow' \in {"absent"} \cup (IF Cached THEN {"active"} ELSE {})
  /\ crFaults' = crFaults + 1
  /\ UNCHANGED <<crKind, crSince, crCache, crCall, crRevoke>>

-----------------------------------------------------------------------------
\* A client that was given the secret presents it; before that none can.
Known == crRow \notin {"absent", "inserted"}

\* Variant: a hit makes the cached principal good for another TTL.
AuthenticateSliding(c) ==
  LET hit == Cached /\ crCache[NodeOf[c]] > 0 IN
  /\ Known /\ crCall[c].pc = "idle"
  /\ crCall' = [crCall EXCEPT ![c] = [pc |-> IF hit THEN "accepted" ELSE "query", age |-> 0]]
  /\ crCache' = IF hit THEN [crCache EXCEPT ![NodeOf[c]] = CacheTTL + 1] ELSE crCache
  /\ UNCHANGED <<crKind, crRow, crSince, crRevoke, crFaults>>

Authenticate(c) ==
  LET hit == Cached /\ crCache[NodeOf[c]] > 0 IN
  /\ Known /\ crCall[c].pc = "idle"
  /\ crCall' = [crCall EXCEPT ![c] = [pc |-> IF hit THEN "accepted" ELSE "query", age |-> 0]]
  /\ UNCHANGED <<crKind, crRow, crSince, crCache, crRevoke, crFaults>>

\* The row must not be revoked, and its expires_at not passed.
QueryRow(c) ==
  /\ crCall[c].pc = "query"
  /\ crCall' = [crCall EXCEPT ![c] = CASE crRow # "active" -> Idle
                                       [] Cached -> [@ EXCEPT !.pc = "store"]
                                       [] OTHER -> [@ EXCEPT !.pc = "accepted"]]
  /\ UNCHANGED <<crKind, crRow, crSince, crCache, crRevoke, crFaults>>

\* storeToken counts its TTL from the store, not from the query.
StoreToken(c) ==
  /\ crCall[c].pc = "store"
  /\ crCache' = [crCache EXCEPT ![NodeOf[c]] = CacheTTL + 1]
  /\ crCall' = [crCall EXCEPT ![c].pc = "accepted"]
  /\ UNCHANGED <<crKind, crRow, crSince, crRevoke, crFaults>>

\* The handler has run.
Handled(c) ==
  /\ crCall[c].pc = "accepted"
  /\ crCall' = [crCall EXCEPT ![c] = Idle]
  /\ UNCHANGED <<crKind, crRow, crSince, crCache, crRevoke, crFaults>>

-----------------------------------------------------------------------------
\* RevokeSession, RevokePersonalAccessToken, RevokeAutomationToken: the row ...
RevokeRow ==
  /\ crRevoke.pc = "no" /\ Known
  /\ crRow' = "revoked"
  /\ crRevoke' = [crRevoke EXCEPT !.pc = IF Cached THEN "clear" ELSE "done"]
  /\ UNCHANGED <<crKind, crSince, crCache, crCall, crFaults>>
\* ... then the cache of the kind on this node; the audit row ends the call either way.
ClearCache ==
  /\ crRevoke.pc = "clear"
  /\ crCache' = [crCache EXCEPT ![crRevoke.node] = 0]
  /\ crRevoke' = [crRevoke EXCEPT !.pc = "done"]
  /\ UNCHANGED <<crKind, crRow, crSince, crCall, crFaults>>

ExpiryPasses ==
  /\ crRow = "active"
  /\ crRow' = "expired"
  /\ UNCHANGED <<crKind, crSince, crCache, crCall, crRevoke, crFaults>>

Tick ==
  /\ \A c \in Clients : crCall[c].pc # "idle" => crCall[c].age < MaxDelay
  /\ crCall' = [c \in Clients |-> [crCall[c] EXCEPT !.age = IF crCall[c].pc = "idle" THEN 0 ELSE @ + 1]]
  /\ crCache' = [n \in Nodes |-> Max({crCache[n] - 1, 0})]
  /\ crSince' = IF crRow \in {"revoked", "expired"} THEN Min({crSince + 1, Horizon}) ELSE 0
  /\ UNCHANGED <<crKind, crRow, crRevoke, crFaults>>

Next ==
  \/ Create \/ CreateAudited \/ CreateAuditFails
  \/ \E c \in Clients : Authenticate(c) \/ QueryRow(c) \/ StoreToken(c) \/ Handled(c)
  \/ RevokeRow \/ ClearCache \/ ExpiryPasses
  \/ Tick

-----------------------------------------------------------------------------
\* Properties

\* Every variable has its type.
TypeOK ==
  /\ crKind \in {"session", "pat", "automation"}
  /\ crRow \in {"absent", "inserted", "active", "revoked", "expired"}
  /\ crSince \in 0..Horizon /\ crFaults \in 0..MaxFaults
  /\ crCache \in [Nodes -> 0..CacheTTL + 1]
  /\ crCall \in [Clients -> [pc : {"idle", "query", "store", "accepted"}, age : 0..MaxDelay]]
  /\ crRevoke \in [pc : {"no", "clear", "done"}, node : Nodes]

\* A revoked or expired credential is last accepted, on any node, a cache lifetime
\* and two requests after the fact; a session, one request after.
RevokedSoonRefused ==
  \A c \in Clients : crCall[c].pc = "accepted" =>
    crSince <= IF Cached THEN CacheTTL + 2 * MaxDelay ELSE MaxDelay

=============================================================================
