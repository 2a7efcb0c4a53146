--------------------------- MODULE ProjectKeyCache ---------------------------
(***************************************************************************)
(* One project key: its row in project_keys, the CachedKeyStore of one     *)
(* node in front of it, the requests that go through the ingest middleware *)
(* (lookup, checks, rate limit, touch, handler), and the administrators    *)
(* that update or delete the key. Times are relative to now.               *)
(***************************************************************************)
EXTENDS Integers, FiniteSetsExt

CONSTANTS Clients, Admins,
          TTL, TouchInterval,   \* ttl and touchInterval, in ticks
          MaxDelay              \* the longest a request takes to reach its handler

VARIABLES pkStatus, \* the row: "active", "disabled" or "gone"
          pkSince,  \* ticks since the row stopped being active, up to Horizon
          pkEntry,  \* entries[key]: the cached status, time to expiresAt, and
                    \* time until touchInterval has passed since lastTouchedAt
          pkCall,   \* pkCall[c]: the step, the status found, and ticks since the start
          pkAdmin,  \* pkAdmin[a]: the update and the status it read, or idle
          pkWanted, \* history: what the last administrator asked the status to be
          pkCrossed \* history: an update wrote over a status it had not read

vars == <<pkStatus, pkSince, pkEntry, pkCall, pkAdmin, pkWanted, pkCrossed>>
keyVars == <<pkStatus, pkSince, pkAdmin, pkWanted, pkCrossed>>
requestVars == <<pkEntry, pkCall>>

Horizon == 2 * (TTL + MaxDelay) + 1
Idle == [pc |-> "idle", st |-> "none", age |-> 0]
NoUpdate == [op |-> "none", st |-> "none"]

Init ==
  /\ pkStatus = "active" /\ pkSince = 0 /\ pkWanted = "active"
  /\ pkEntry = [st |-> "none", left |-> 0, wait |-> 0]
  /\ pkCall = [c \in Clients |-> Idle]
  /\ pkAdmin = [a \in Admins |-> NoUpdate]
  /\ pkCrossed = FALSE

-----------------------------------------------------------------------------
\* LookupKey: the cached key while it has not expired, otherwise the base store.
LookupCached(c) ==
  /\ pkCall[c].pc = "idle"
  /\ pkCall' = [pkCall EXCEPT ![c] =
                  IF pkEntry.left > 0 THEN [pc |-> "check", st |-> pkEntry.st, age |-> 0]
                  ELSE [pc |-> "base", st |-> "none", age |-> 0]]
  /\ UNCHANGED <<pkEntry, keyVars>>

\* The base store's row; no row is an error, which nothing caches.
LookupBase(c) ==
  /\ pkCall[c].pc = "base"
  /\ pkCall' = [pkCall EXCEPT ![c] = IF pkStatus = "gone" THEN Idle
                                     ELSE [@ EXCEPT !.pc = "store", !.st = pkStatus]]
  /\ UNCHANGED <<pkEntry, keyVars>>

\* The entry expires ttl after the time read before the lookup.
StoreEntry(c) ==
  /\ pkCall[c].pc = "store"
  /\ pkEntry' = [pkEntry EXCEPT !.st = pkCall[c].st, !.left = Max({TTL - pkCall[c].age, 0})]
  /\ pkCall' = [pkCall EXCEPT ![c].pc = "check"]
  /\ UNCHANGED keyVars

\* The middleware refuses a key that is not active, a path that names another
\* project, or a request above the rate limit.
Refuse(c) ==
  /\ pkCall[c].pc = "check"
  /\ pkCall' = [pkCall EXCEPT ![c] = Idle]
  /\ UNCHANGED <<pkEntry, keyVars>>
Admit(c) ==
  /\ pkCall[c].pc = "check" /\ pkCall[c].st = "active"
  /\ pkCall' = [pkCall EXCEPT ![c].pc = "touch"]
  /\ UNCHANGED <<pkEntry, keyVars>>

\* The handler runs.
Serve(c) == pkCall' = [pkCall EXCEPT ![c] = Idle]

\* Variant: every request extends the entry, and only the write is throttled.
TouchProjectKeyAlways(c) ==
  /\ pkCall[c].pc = "touch"
  /\ pkEntry' = [pkEntry EXCEPT !.left = IF @ = 0 /\ pkEntry.st = "none" THEN 0 ELSE TTL,
                                !.wait = IF @ = 0 THEN TouchInterval ELSE @]
  /\ Serve(c)
  /\ UNCHANGED keyVars

\* TouchProjectKey: at most once per touchInterval, the entry lives ttl longer.
TouchProjectKey(c) ==
  /\ pkCall[c].pc = "touch"
  /\ pkEntry' = IF pkEntry.wait > 0 THEN pkEntry
                ELSE [pkEntry EXCEPT !.wait = TouchInterval,
                                     !.left = IF pkEntry.st = "none" THEN @ ELSE TTL]
  /\ Serve(c)
  /\ UNCHANGED keyVars

-----------------------------------------------------------------------------
\* UpdateProjectKey reads the row ...
UpdateReads(a, op) ==
  /\ pkAdmin[a] = NoUpdate /\ pkStatus # "gone"
  /\ pkAdmin' = [pkAdmin EXCEPT ![a] = [op |-> op, st |-> pkStatus]]
  /\ UNCHANGED <<pkStatus, pkSince, pkWanted, pkCrossed, requestVars>>

\* Variant: an update that does not mention IsActive activates the key.
UpdatedStatusDefaultsOn(a) == IF pkAdmin[a].op = "disable" THEN "disabled" ELSE "active"

UpdatedStatus(a) ==
  CASE pkAdmin[a].op = "enable" -> "active"
    [] pkAdmin[a].op = "disable" -> "disabled"
    [] OTHER -> pkAdmin[a].st

\* ... and writes all of its columns back; a deleted row stays deleted.
UpdateWrites(a) ==
  /\ pkAdmin[a] # NoUpdate
  /\ pkStatus' = IF pkStatus = "gone" THEN "gone" ELSE UpdatedStatus(a)
  /\ pkWanted' = IF pkStatus = "gone" \/ pkAdmin[a].op = "rename" THEN pkWanted ELSE UpdatedStatus(a)
  /\ pkCrossed' = (pkCrossed \/ (pkAdmin[a].op = "rename" /\ pkStatus # pkAdmin[a].st))
  /\ pkSince' = IF pkStatus' = "active" THEN 0 ELSE pkSince
  /\ pkAdmin' = [pkAdmin EXCEPT ![a] = NoUpdate]
  /\ UNCHANGED requestVars

DeleteProjectKey ==
  /\ pkStatus # "gone"
  /\ pkStatus' = "gone" /\ pkWanted' = "gone"
  /\ UNCHANGED <<pkSince, pkAdmin, pkCrossed, requestVars>>

Down(n) == Max({n - 1, 0})

Tick ==
  /\ \A c \in Clients : pkCall[c].pc # "idle" => pkCall[c].age < MaxDelay
  /\ pkCall' = [c \in Clients |-> [pkCall[c] EXCEPT !.age = IF pkCall[c].pc = "idle" THEN 0 ELSE @ + 1]]
  /\ pkEntry' = [pkEntry EXCEPT !.left = Down(@), !.wait = Down(@)]
  /\ pkSince' = IF pkStatus = "active" THEN 0 ELSE Min({pkSince + 1, Horizon})
  /\ UNCHANGED <<pkStatus, pkAdmin, pkWanted, pkCrossed>>

Next ==
  \/ \E c \in Clients :
       \/ LookupCached(c) \/ LookupBase(c) \/ StoreEntry(c)
       \/ Refuse(c) \/ Admit(c) \/ TouchProjectKey(c)
  \/ \E a \in Admins : UpdateWrites(a) \/ \E op \in {"enable", "disable", "rename"} : UpdateReads(a, op)
  \/ DeleteProjectKey
  \/ Tick

-----------------------------------------------------------------------------
\* Properties

\* Every variable has its type.
TypeOK ==
  /\ pkStatus \in {"active", "disabled", "gone"} /\ pkWanted \in {"active", "disabled", "gone"}
  /\ pkSince \in 0..Horizon /\ pkCrossed \in BOOLEAN
  /\ pkEntry \in [st : {"none", "active", "disabled"}, left : 0..TTL, wait : 0..TouchInterval]
  /\ pkCall \in [Clients -> [pc : {"idle", "base", "store", "check", "touch"},
                             st : {"none", "active", "disabled"}, age : 0..MaxDelay]]
  /\ pkAdmin \in [Admins -> [op : {"none", "enable", "disable", "rename"},
                             st : {"none", "active", "disabled"}]]

\* The cache forgets: a request is served with a disabled or deleted key only within
\* two lifetimes of a cache entry (the touch prolongs an entry once) and the time
\* that a request takes.
DisabledKeyForgotten ==
  \A c \in Clients : pkCall[c].pc = "touch" => pkSince < 2 * (TTL + MaxDelay)

\* The status of the key is the one asked for last, unless a rename had read the row
\* before the status changed and wrote the old one back.
StatusAsAskedUnlessCrossed == ~pkCrossed => pkStatus = pkWanted

=============================================================================
