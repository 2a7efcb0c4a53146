----------------------------- MODULE Memberships -----------------------------
(***************************************************************************)
(* The members of one organization in the Postgres control plane: roles,   *)
(* one team, one invite, and the SQLite shadow of the memberships that the *)
(* shadowing store and the projector keep. Transactions run at READ        *)
(* COMMITTED: every statement sees what is committed when it starts, and   *)
(* only the statements with FOR UPDATE wait for each other.                *)
(***************************************************************************)
EXTENDS Integers, FiniteSets

CONSTANTS Users, Admins,      \* Admins: the calls under way
          Creator,            \* the user who created the organization
          Invited, InviteRole,\* whom the invite names, and as what
          MaxCalls            \* bound: calls that begin, syncs included

Roles == {"owner", "member"}

\* The users are finitely many, and the lock is free or names a call.
Organization ==
  /\ IsFiniteSet(Users) /\ Creator \in Users
  /\ Invited \in Users /\ InviteRole \in Roles
  /\ "free" \notin Admins /\ MaxCalls \in Nat

ASSUME OrganizationAssumption == Organization

VARIABLES mbRole,   \* mbRole[u]: organization_members of the control plane, or "none"
          mbTeam,   \* the members of the team
          mbShadow, \* mbShadow[u]: organization_members in SQLite, or "none"
          mbInvite, \* "none", "pending", "accepted" or "revoked"
          mbLock,   \* the call that holds the organization's row, or "free"
          mbCalls,  \* how many calls have begun
          mbCall,   \* mbCall[a]: the call's operation, arguments, step and what it read
          mbUncounted, \* history: an owner lost the role to a step that had not counted
          mbOrphan, \* history: users for whom team and membership writes crossed
          mbSync,   \* the projector: the memberships it listed and whose are to be written
          mbFresh   \* history: "listed" or "synced" while no change and no stale write
                    \* came after the projector's list, else "no"

vars == <<mbRole, mbTeam, mbShadow, mbInvite, mbLock, mbCalls, mbCall,
          mbUncounted, mbOrphan, mbSync, mbFresh>>
shadowVars == <<mbShadow, mbSync>>

NoCall == [op |-> "none", u |-> Creator, r |-> "none", pc |-> "idle", seen |-> "none",
           listed |-> FALSE, team |-> FALSE]
Owners == {u \in Users : mbRole[u] = "owner"}

Init ==
  /\ mbRole = [u \in Users |-> IF u = Creator THEN "owner" ELSE "none"]
  /\ mbTeam = {} /\ mbShadow = [u \in Users |-> "none"]
  /\ mbInvite = "none" /\ mbLock = "free" /\ mbCalls = 0
  /\ mbCall = [a \in Admins |-> NoCall]
  /\ mbUncounted = FALSE /\ mbOrphan = {}
  /\ mbSync = [list |-> mbRole, todo |-> {}] /\ mbFresh = "no"

-----------------------------------------------------------------------------
Counted == mbCalls < MaxCalls /\ mbCalls' = mbCalls + 1
Begin(a, op, u, r, pc) ==
  /\ mbCall[a] = NoCall /\ Counted
  /\ mbCall' = [mbCall EXCEPT ![a] = [NoCall EXCEPT !.op = op, !.u = u, !.r = r, !.pc = pc]]
At(a, pc) == mbCall[a].pc = pc
End(a) == mbCall' = [mbCall EXCEPT ![a] = NoCall]
Step(a, pc) == mbCall' = [mbCall EXCEPT ![a].pc = pc]

\* A membership becomes r; counted says whether the owners were counted first.
SetRole(u, r, counted) ==
  /\ mbRole' = [mbRole EXCEPT ![u] = r]
  /\ mbFresh' = IF r = mbRole[u] THEN mbFresh ELSE "no"
  /\ mbUncounted' = (mbUncounted \/ (mbRole[u] = "owner" /\ r # "owner" /\ ~counted))

\* RemoveOrgMember of the shadowing store lists the members, for the organization's id.
ListMembers(a, u) ==
  /\ mbCall[a] = NoCall /\ Counted
  /\ mbCall' = [mbCall EXCEPT ![a] = [NoCall EXCEPT !.op = "remove", !.u = u, !.pc = "read",
                                                    !.listed = mbRole[u] # "none"]]
  /\ UNCHANGED <<mbRole, mbTeam, mbInvite, mbLock, mbUncounted, mbOrphan, mbFresh, shadowVars>>
UpdateOrgMemberRole(a, u, r) ==
  /\ Begin(a, "update", u, r, "read")
  /\ UNCHANGED <<mbRole, mbTeam, mbInvite, mbLock, mbUncounted, mbOrphan, mbFresh, shadowVars>>

\* UpdateOrgMemberRole and RemoveOrgMember read the member's role ...
ReadMember(a) ==
  LET c == mbCall[a] IN
  /\ At(a, "read")
  /\ IF mbRole[c.u] = "none" THEN End(a)
     ELSE mbCall' = [mbCall EXCEPT ![a].seen = mbRole[c.u],
            ![a].pc = IF mbRole[c.u] = "owner" /\ c.r # "owner" THEN "lock" ELSE "write"]
  /\ UNCHANGED <<mbCalls, mbRole, mbTeam, mbInvite, mbLock, mbUncounted, mbOrphan, mbFresh, shadowVars>>

\* Variant: the owners are counted without the lock on the organization.
CountOwnersUnlocked(a) ==
  /\ At(a, "lock")
  /\ IF Cardinality(Owners) <= 1 THEN End(a) ELSE Step(a, "write")
  /\ UNCHANGED <<mbCalls, mbRole, mbTeam, mbInvite, mbLock, mbUncounted, mbOrphan, mbFresh, shadowVars>>

\* ... lock the organization and count its owners ...
CountOwners(a) ==
  /\ At(a, "lock") /\ mbLock = "free"
  /\ IF Cardinality(Owners) <= 1 THEN End(a) /\ UNCHANGED mbLock
     ELSE Step(a, "write") /\ mbLock' = a
  /\ UNCHANGED <<mbCalls, mbRole, mbTeam, mbInvite, mbUncounted, mbOrphan, mbFresh, shadowVars>>

Release(a) == mbLock' = IF mbLock = a THEN "free" ELSE mbLock

\* ... and write the role of the row, if it is still there; the shadow is not told.
WriteRole(a) ==
  LET c == mbCall[a] IN
  /\ At(a, "write") /\ c.op = "update"
  /\ IF c.seen # "gone" THEN SetRole(c.u, c.r, c.seen = "owner")
     ELSE UNCHANGED <<mbRole, mbFresh, mbUncounted>>
  /\ Release(a) /\ End(a)
  /\ UNCHANGED <<mbCalls, mbTeam, mbInvite, mbOrphan, shadowVars>>

\* The updates under way lose the row they have read, even if there is a new one later.
RowGone(calls, u) ==
  [b \in Admins |-> IF calls[b].op = "update" /\ calls[b].u = u /\ calls[b].pc \in {"lock", "write"}
                    THEN [calls[b] EXCEPT !.seen = "gone"] ELSE calls[b]]

\* The DELETE of the team rows; what it found goes at commit.
DeleteTeamRows(a) ==
  /\ At(a, "write") /\ mbCall[a].op \in {"remove", "scimDelete"}
  /\ mbCall' = [mbCall EXCEPT ![a].pc = "delete", ![a].team = mbCall[a].u \in mbTeam]
  /\ UNCHANGED <<mbCalls, mbRole, mbTeam, mbInvite, mbLock, mbUncounted, mbOrphan, mbFresh, shadowVars>>

\* Variant: the rows of the team are kept.
DeleteMemberKeepsTeam(a) ==
  LET c == mbCall[a] IN
  /\ At(a, "delete")
  /\ SetRole(c.u, "none", c.op = "remove" /\ c.seen = "owner")
  /\ mbTeam' = mbTeam
  /\ mbOrphan' = IF c.u \in mbTeam /\ ~c.team THEN mbOrphan \cup {c.u} ELSE mbOrphan
  /\ Release(a)
  /\ mbCall' = RowGone([mbCall EXCEPT ![a] = IF c.listed /\ mbRole[c.u] # "none"
                                              THEN [c EXCEPT !.pc = "unshadow"] ELSE NoCall], c.u)
  /\ UNCHANGED <<mbCalls, mbShadow, mbSync, mbInvite>>

\* The DELETE of the membership, and the commit; a removal by RemoveOrgMember goes on
\* to the shadow, one by DeleteUser of the SCIM store does not.
DeleteMember(a) ==
  LET c == mbCall[a] IN
  /\ At(a, "delete")
  /\ SetRole(c.u, "none", c.op = "remove" /\ c.seen = "owner")
  /\ mbTeam' = IF c.team THEN mbTeam \ {c.u} ELSE mbTeam
  /\ mbOrphan' = IF c.u \in mbTeam /\ ~c.team THEN mbOrphan \cup {c.u} ELSE mbOrphan
  /\ Release(a)
  /\ mbCall' = RowGone([mbCall EXCEPT ![a] = IF c.listed /\ mbRole[c.u] # "none"
                                              THEN [c EXCEPT !.pc = "unshadow"] ELSE NoCall], c.u)
  /\ UNCHANGED <<mbCalls, mbShadow, mbSync, mbInvite>>

\* AddOrgMember upserts the membership and then its shadow.
AddOrgMember(a, u, r) ==
  /\ Begin(a, "add", u, r, "shadow")
  /\ SetRole(u, r, FALSE)
  /\ UNCHANGED <<mbTeam, mbInvite, mbLock, mbOrphan, shadowVars>>

\* AddTeamMember: an insert of the membership that a row in place turns into nothing,
\* without locking that row, ...
AddTeamMember(a, u) ==
  /\ mbCall[a] = NoCall /\ Counted
  /\ mbCall' = [mbCall EXCEPT ![a] = [NoCall EXCEPT !.op = "team", !.u = u, !.pc = "team",
                                                    !.seen = mbRole[u]]]
  /\ UNCHANGED <<mbRole, mbTeam, mbInvite, mbLock, mbUncounted, mbOrphan, mbFresh, shadowVars>>
\* A team row that a removal has deleted and not committed makes others wait.
TeamRowFree(u) == \A b \in Admins : At(b, "delete") /\ mbCall[b].u = u => ~mbCall[b].team

\* ... then the row of the team, and the commit.
InsertTeamRow(a) ==
  LET c == mbCall[a] IN
  /\ At(a, "team") /\ TeamRowFree(c.u)
  /\ IF c.seen = "none" /\ mbRole[c.u] = "none" THEN SetRole(c.u, "member", FALSE)
     ELSE UNCHANGED <<mbRole, mbFresh, mbUncounted>>
  /\ mbTeam' = mbTeam \cup {c.u}
  /\ mbOrphan' = IF mbRole'[c.u] = "none" THEN mbOrphan \cup {c.u} ELSE mbOrphan
  /\ End(a)
  /\ UNCHANGED <<mbCalls, mbInvite, mbLock, shadowVars>>

RemoveTeamMember(u) ==
  /\ u \in mbTeam /\ TeamRowFree(u) /\ Counted
  /\ mbTeam' = mbTeam \ {u} /\ mbOrphan' = mbOrphan \ {u}
  /\ UNCHANGED <<mbRole, mbInvite, mbLock, mbCall, mbUncounted, mbFresh, shadowVars>>

\* CreateUser of the SCIM store: a member, unless there is one; not shadowed.
ScimCreate(u) ==
  /\ mbRole[u] = "none" /\ Counted
  /\ SetRole(u, "member", FALSE)
  /\ UNCHANGED <<mbTeam, mbInvite, mbLock, mbCall, mbOrphan, shadowVars>>
\* DeleteUser of the SCIM store looks the membership up; it counts no owners.
ScimDelete(a, u) ==
  /\ mbRole[u] # "none"
  /\ Begin(a, "scimDelete", u, "none", "write")
  /\ UNCHANGED <<mbRole, mbTeam, mbInvite, mbLock, mbUncounted, mbOrphan, mbFresh, shadowVars>>

-----------------------------------------------------------------------------
CreateInvite ==
  /\ mbInvite = "none"
  /\ mbInvite' = "pending"
  /\ UNCHANGED <<mbCalls, mbRole, mbTeam, mbLock, mbCall, mbUncounted, mbOrphan, mbFresh, shadowVars>>
RevokeInvite ==
  /\ mbInvite = "pending"
  /\ mbInvite' = "revoked"
  /\ UNCHANGED <<mbCalls, mbRole, mbTeam, mbLock, mbCall, mbUncounted, mbOrphan, mbFresh, shadowVars>>
\* AcceptInvite holds the invite's row from its check to its commit: one step, which
\* upserts the membership and the team row; then the shadow.
AcceptInvite(a) ==
  /\ mbInvite = "pending" /\ TeamRowFree(Invited)
  /\ mbInvite' = "accepted"
  /\ Begin(a, "accept", Invited, InviteRole, "shadow")
  /\ SetRole(Invited, InviteRole, FALSE)
  /\ mbTeam' = mbTeam \cup {Invited}
  /\ UNCHANGED <<mbLock, mbOrphan, shadowVars>>

-----------------------------------------------------------------------------
\* A row written to the shadow for u, as r.
WriteShadow(u, r) ==
  /\ mbShadow' = [mbShadow EXCEPT ![u] = r]
  /\ mbFresh' = IF r = mbRole[u] THEN mbFresh ELSE "no"

\* UpsertOrganizationMember after AddOrgMember or AcceptInvite, DeleteOrganizationMember
\* after RemoveOrgMember.
Shadow(a) ==
  /\ At(a, "shadow") \/ At(a, "unshadow")
  /\ WriteShadow(mbCall[a].u, IF At(a, "shadow") THEN mbCall[a].r ELSE "none")
  /\ End(a)
  /\ UNCHANGED <<mbCalls, mbRole, mbTeam, mbInvite, mbLock, mbUncounted, mbOrphan, mbSync>>
\* The shadow write fails: the caller gets an error, the control plane keeps the change.
ShadowFails(a) ==
  /\ At(a, "shadow") \/ At(a, "unshadow")
  /\ End(a)
  /\ UNCHANGED <<mbCalls, mbRole, mbTeam, mbShadow, mbInvite, mbLock, mbUncounted, mbOrphan, mbSync, mbFresh>>

\* Sync of the projector: list the memberships ...
SyncLists ==
  /\ mbSync.todo = {} /\ Counted
  /\ mbSync' = [list |-> mbRole, todo |-> {u \in Users : mbRole[u] # "none"}]
  /\ mbFresh' = "listed"
  /\ UNCHANGED <<mbRole, mbTeam, mbShadow, mbInvite, mbLock, mbCall, mbUncounted, mbOrphan>>

\* Variant: a row that is there already is left alone.
SyncWritesMissing(u) ==
  /\ u \in mbSync.todo
  /\ mbSync' = [mbSync EXCEPT !.todo = @ \ {u}]
  /\ IF mbShadow[u] = "none" THEN WriteShadow(u, mbSync.list[u])
     ELSE UNCHANGED <<mbShadow, mbFresh>>
  /\ UNCHANGED <<mbCalls, mbRole, mbTeam, mbInvite, mbLock, mbCall, mbUncounted, mbOrphan>>

\* ... then upsert them one by one; nothing is ever deleted.
SyncWrites(u) ==
  /\ u \in mbSync.todo
  /\ mbSync' = [mbSync EXCEPT !.todo = @ \ {u}]
  /\ WriteShadow(u, mbSync.list[u])
  /\ UNCHANGED <<mbCalls, mbRole, mbTeam, mbInvite, mbLock, mbCall, mbUncounted, mbOrphan>>

SyncEnds ==
  /\ mbSync.todo = {} /\ mbFresh = "listed"
  /\ mbFresh' = "synced"
  /\ UNCHANGED <<mbCalls, mbRole, mbTeam, mbShadow, mbInvite, mbLock, mbCall, mbUncounted, mbOrphan, mbSync>>
SyncFails ==
  /\ mbSync.todo # {}
  /\ mbSync' = [mbSync EXCEPT !.todo = {}]
  /\ mbFresh' = "no"
  /\ UNCHANGED <<mbCalls, mbRole, mbTeam, mbShadow, mbInvite, mbLock, mbCall, mbUncounted, mbOrphan>>

Next ==
  \/ \E a \in Admins, u \in Users :
       \/ ListMembers(a, u) \/ AddTeamMember(a, u) \/ ScimDelete(a, u)
       \/ \E r \in Roles : UpdateOrgMemberRole(a, u, r) \/ AddOrgMember(a, u, r)
  \/ \E a \in Admins :
       \/ ReadMember(a) \/ CountOwners(a) \/ WriteRole(a)
       \/ DeleteTeamRows(a) \/ DeleteMember(a) \/ InsertTeamRow(a)
       \/ AcceptInvite(a) \/ Shadow(a) \/ ShadowFails(a)
  \/ \E u \in Users : RemoveTeamMember(u) \/ ScimCreate(u) \/ SyncWrites(u)
  \/ CreateInvite \/ RevokeInvite
  \/ SyncLists \/ SyncEnds \/ SyncFails
  \/ mbCalls = MaxCalls /\ UNCHANGED vars

Spec == Init /\ [][Next]_vars

-----------------------------------------------------------------------------
\* Properties

\* Every variable has its type.
TypeOK ==
  /\ mbRole \in [Users -> Roles \cup {"none"}] /\ mbShadow \in [Users -> Roles \cup {"none"}]
  /\ mbTeam \subseteq Users /\ mbOrphan \subseteq Users
  /\ mbInvite \in {"none", "pending", "accepted", "revoked"}
  /\ mbLock \in Admins \cup {"free"} /\ mbCalls \in 0..MaxCalls
  /\ mbCall \in [Admins -> [op : {"none", "update", "remove", "add", "team", "scimDelete", "accept"},
                            u : Users, r : Roles \cup {"none"},
                            pc : {"idle", "read", "lock", "write", "delete", "team", "shadow", "unshadow"},
                            seen : Roles \cup {"none", "gone"}, listed : BOOLEAN, team : BOOLEAN]]
  /\ mbUncounted \in BOOLEAN /\ mbFresh \in {"no", "listed", "synced"}
  /\ mbSync \in [list : [Users -> Roles \cup {"none"}], todo : SUBSET Users]

\* The organization keeps an owner through concurrent demotions and removals, unless
\* an owner is overwritten by a path that never counts the owners (AddOrgMember, an
\* accepted invite, the SCIM removal) or by a call that had read another role.
OwnerRetainedUnlessUncounted == ~mbUncounted => Owners # {}

\* ErrLastOwner: "organization must retain at least one owner".
OwnerRetained == Owners # {}

\* A member of the team is a member of the organization, unless a removal and the
\* two inserts of AddTeamMember or an accepted invite crossed.
TeamWithinOrgUnlessCrossed == \A u \in mbTeam \ mbOrphan : mbRole[u] # "none"

\* After a sync that nothing crossed, the shadow has every membership with its role.
SyncedShadowAgrees ==
  mbFresh = "synced" => \A u \in Users : mbRole[u] # "none" => mbShadow[u] = mbRole[u]

=============================================================================
