---------------------------- MODULE ControlProofs ----------------------------
(***************************************************************************)
(* Who may do what, and who is the leader.                                 *)
(*                                                                         *)
(* An organization keeps an owner, whatever the users and however many     *)
(* calls run at once, as long as no owner lost the role to a step that     *)
(* counts no owners. That alone is not inductive: the invariant adds that  *)
(* a call about to demote or remove an owner it has read holds the row of  *)
(* the organization, and that while it holds it there is another owner.    *)
(*                                                                         *)
(* A promotion takes no access away, for tokens with any sets of scopes:   *)
(* the lists of scopes of the roles grow with the role, up to the scopes   *)
(* that scopeImplies adds, and authorize only asks for scopes of roles     *)
(* positively, but for a project that has no role. And SET NX alone elects *)
(* one holder of the Valkey lease, until some EXPIRE comes late.           *)
(***************************************************************************)
EXTENDS Memberships, Authorizer, ValkeyLease, FiniteSetTheorems, TLAPS

-----------------------------------------------------------------------------
\* Members of organizations and teams

\* A removal names no role, an update does.
CallRecord ==
  {c \in [op : {"none", "update", "remove", "add", "team", "scimDelete", "accept"},
          u : Users, r : Roles \cup {"none"},
          pc : {"idle", "read", "lock", "write", "delete", "team", "shadow", "unshadow"},
          seen : Roles \cup {"none", "gone"}, listed : BOOLEAN, team : BOOLEAN] :
     /\ c.op = "remove" => c.r = "none"
     /\ c.op = "update" => c.r # "none"}

MType ==
  /\ mbRole \in [Users -> Roles \cup {"none"}]
  /\ mbLock \in Admins \cup {"free"}
  /\ mbCall \in [Admins -> CallRecord]
  /\ mbUncounted \in BOOLEAN

\* c has read an owner and is about to take the role away.
Deposes(c) == /\ c.pc \in {"write", "delete"} /\ c.op \in {"update", "remove"}
              /\ c.seen = "owner" /\ c.r # "owner"

DeposerHoldsLock == \A a \in Admins : Deposes(mbCall[a]) => mbLock = a
HolderWrites == \A a \in Admins : mbLock = a => mbCall[a].pc \in {"write", "delete"}
AnotherOwner ==
  ~mbUncounted => \A a \in Admins : mbLock = a =>
                    \E v \in Users : v # mbCall[a].u /\ mbRole[v] = "owner"
OwnerLeft == ~mbUncounted => \E v \in Users : mbRole[v] = "owner"

MInv == MType /\ DeposerHoldsLock /\ HolderWrites /\ AnotherOwner /\ OwnerLeft

\* A step that deposes no counted owner, and leaves to a holder of the lock its target.
LEMMA OwnersKept ==
  ASSUME MInv, MType',
         ~mbUncounted' => /\ ~mbUncounted
                          /\ \A v \in Users : mbRole[v] = "owner" => mbRole'[v] = "owner",
         \A b \in Admins : Deposes(mbCall'[b]) => mbLock' = b,
         \A b \in Admins : mbLock' = b => /\ mbLock = b /\ mbCall'[b].u = mbCall[b].u
                                          /\ mbCall'[b].pc \in {"write", "delete"}
  PROVE  MInv'
<1>1. DeposerHoldsLock' /\ HolderWrites'
  BY Zenon DEF DeposerHoldsLock, HolderWrites, Deposes
<1>2. AnotherOwner'
  BY Zenon DEF AnotherOwner, MInv
<1>3. OwnerLeft'
  BY Zenon DEF OwnerLeft, MInv
<1> QED BY <1>1, <1>2, <1>3, Zenon DEF MInv

\* A role is written by a step that has counted no owners: none is lost unless the
\* history says so.
LEMMA UncountedWrite ==
  ASSUME MType, NEW u \in Users, NEW r \in Roles \cup {"none"}, SetRole(u, r, FALSE)
  PROVE  /\ mbRole' \in [Users -> Roles \cup {"none"}] /\ mbUncounted' \in BOOLEAN
         /\ ~mbUncounted' => /\ ~mbUncounted
                             /\ \A v \in Users : mbRole[v] = "owner" => mbRole'[v] = "owner"
  BY Zenon DEF MType, SetRole

\* The record of one call changes, while it holds no lock and deposes nobody.
LEMMA OneCallMoves ==
  ASSUME MInv, NEW a \in Admins, NEW c \in CallRecord, mbLock # a, ~Deposes(c),
         mbCall' = [mbCall EXCEPT ![a] = c], mbLock' = mbLock,
         mbRole' \in [Users -> Roles \cup {"none"}], mbUncounted' \in BOOLEAN,
         ~mbUncounted' => /\ ~mbUncounted
                          /\ \A v \in Users : mbRole[v] = "owner" => mbRole'[v] = "owner"
  PROVE  MInv'
<1>1. MType'
  BY Zenon DEF MInv, MType
<1>2. mbCall'[a] = c /\ \A b \in Admins \ {a} : mbCall'[b] = mbCall[b]
  BY Zenon DEF MInv, MType
<1>3. \A b \in Admins : Deposes(mbCall'[b]) => mbLock' = b
  BY <1>2, Zenon DEF MInv, DeposerHoldsLock
<1>4. \A b \in Admins : mbLock' = b => /\ mbLock = b /\ mbCall'[b].u = mbCall[b].u
                                       /\ mbCall'[b].pc \in {"write", "delete"}
  BY <1>2, Zenon DEF MInv, HolderWrites
<1> QED BY <1>1, <1>3, <1>4, OwnersKept, Zenon

\* A call that is idle, reading or at its shadow holds no lock.
LEMMA NotHolding ==
  ASSUME MInv, NEW a \in Admins, mbCall[a].pc \notin {"write", "delete"}
  PROVE  mbLock # a
  BY Zenon DEF MInv, HolderWrites

\* A call that begins, and may write a role without a count.
LEMMA BeginKeeps ==
  ASSUME MInv, Organization, NEW a \in Admins, NEW c \in CallRecord,
         mbCall[a] = NoCall, ~Deposes(c), mbCall' = [mbCall EXCEPT ![a] = c],
         mbLock' = mbLock, NEW u \in Users, NEW r \in Roles \cup {"none"},
         SetRole(u, r, FALSE) \/ UNCHANGED <<mbRole, mbUncounted>>
  PROVE  MInv'
<1>1. mbLock # a
  BY NotHolding DEF NoCall
<1>2. CASE SetRole(u, r, FALSE)
  BY <1>1, <1>2, UncountedWrite, OneCallMoves, Zenon DEF MInv
<1>3. CASE UNCHANGED <<mbRole, mbUncounted>>
  BY <1>1, <1>3, OneCallMoves, Zenon DEF MInv, MType
<1> QED BY <1>2, <1>3, Zenon

\* The creator is the first owner, and no call is under way.
LEMMA MInvInit == Organization /\ Init => MInv
<1> SUFFICES ASSUME Organization, Init PROVE MInv
  OBVIOUS
<1>1. NoCall \in CallRecord
  BY Zenon DEF Organization, NoCall, CallRecord
<1>2. MType
  BY <1>1, Zenon DEF Organization, Init, MType, Roles
<1>3. DeposerHoldsLock /\ HolderWrites /\ AnotherOwner
  BY Zenon DEF Organization, Init, DeposerHoldsLock, HolderWrites, AnotherOwner, Deposes, NoCall
<1>4. OwnerLeft
  BY Zenon DEF Organization, Init, OwnerLeft
<1> QED BY <1>2, <1>3, <1>4, Zenon DEF MInv

\* The count under the lock finds another owner.
LEMMA CountFindsAnother ==
  ASSUME Organization, MType, NEW u \in Users, ~(Cardinality(Owners) <= 1)
  PROVE  \E v \in Users : v # u /\ mbRole[v] = "owner"
<1> SUFFICES ASSUME ~ \E v \in Users : v # u /\ mbRole[v] = "owner" PROVE FALSE
  OBVIOUS
<1>1. Owners \subseteq {u}
  BY Zenon DEF Owners
<1>2. IsFiniteSet({u}) /\ Cardinality({u}) = 1
  BY FS_Singleton, Zenon
<1>3. Cardinality(Owners) <= 1
  BY <1>1, <1>2, FS_Subset, Zenon
<1> QED BY <1>3, Zenon

\* CountOwners ends the call, or takes the lock with another owner in place.
LEMMA CountOwnersKeeps ==
  ASSUME Organization, MInv, NEW a \in Admins, CountOwners(a)
  PROVE  MInv'
<1>1. mbLock # a /\ mbCall[a] \in CallRecord
  BY NotHolding, Zenon DEF CountOwners, At, MInv, MType
<1>2. CASE Cardinality(Owners) <= 1
  <2>1. NoCall \in CallRecord /\ ~Deposes(NoCall)
    BY Zenon DEF Organization, NoCall, CallRecord, Deposes
  <2> QED BY <1>1, <1>2, <2>1, OneCallMoves, Zenon DEF CountOwners, End, MInv, MType
<1>3. CASE ~(Cardinality(Owners) <= 1)
  <2>1. /\ mbLock = "free" /\ mbLock' = a
        /\ mbCall' = [mbCall EXCEPT ![a].pc = "write"]
        /\ mbRole' = mbRole /\ mbUncounted' = mbUncounted
    BY <1>3, Zenon DEF CountOwners, Step
  <2>2. /\ mbCall' \in [Admins -> CallRecord]
        /\ mbCall'[a].pc = "write" /\ mbCall'[a].u = mbCall[a].u
        /\ \A b \in Admins \ {a} : mbCall'[b] = mbCall[b]
    BY <2>1, <1>1 DEF MInv, MType, CallRecord
  <2>3. MType'
    BY <2>1, <2>2, Zenon DEF MInv, MType
  <2>4. DeposerHoldsLock'
    <3>1. \A b \in Admins \ {a} : ~Deposes(mbCall[b])
      BY <2>1, Zenon DEF Organization, MInv, DeposerHoldsLock
    <3> QED BY <2>1, <2>2, <3>1, Zenon DEF DeposerHoldsLock
  <2>5. HolderWrites'
    BY <2>1, <2>2, Zenon DEF HolderWrites
  <2>6. mbCall[a].u \in Users
    BY <1>1, Zenon DEF CallRecord
  <2>7. AnotherOwner'
    BY <1>3, <2>1, <2>2, <2>6, CountFindsAnother DEF AnotherOwner, MInv
  <2>8. OwnerLeft'
    BY <2>1, Zenon DEF OwnerLeft, MInv
  <2> QED BY <2>3, <2>4, <2>5, <2>7, <2>8, Zenon DEF MInv
<1> QED BY <1>2, <1>3, Zenon

\* A call writes a role, releases the lock if it has it, and ends or goes on; the
\* others at most lose the row they have read.
LEMMA WriteKeeps ==
  ASSUME Organization, MInv, NEW a \in Admins, NEW r \in Roles \cup {"none"}, NEW counted \in BOOLEAN,
         SetRole(mbCall[a].u, r, counted), Release(a),
         counted => r = "owner" \/ Deposes(mbCall[a]),
         mbCall' \in [Admins -> CallRecord], ~Deposes(mbCall'[a]),
         \A b \in Admins \ {a} : /\ Deposes(mbCall'[b]) => Deposes(mbCall[b])
                                 /\ mbCall'[b].u = mbCall[b].u /\ mbCall'[b].pc = mbCall[b].pc
  PROVE  MInv'
<1> DEFINE u == mbCall[a].u
<1>1. u \in Users /\ mbRole \in [Users -> Roles \cup {"none"}] /\ mbUncounted \in BOOLEAN
  BY Zenon DEF MInv, MType, CallRecord
<1>2. MType'
  BY <1>1, Zenon DEF MInv, MType, SetRole, Release
<1>3. \A b \in Admins : mbLock' = b => mbLock = b /\ b # a
  BY Zenon DEF Organization, Release
<1>4. \A b \in Admins : Deposes(mbCall'[b]) => mbLock' = b
  BY Zenon DEF MInv, DeposerHoldsLock, Release
<1>5. \A b \in Admins : mbLock' = b => /\ mbLock = b /\ mbCall'[b].u = mbCall[b].u
                                       /\ mbCall'[b].pc \in {"write", "delete"}
  BY <1>3, Zenon DEF MInv, HolderWrites
<1>6. CASE counted /\ r # "owner"
  <2>1. mbLock = a /\ mbLock' = "free"
    BY <1>6, Zenon DEF MInv, DeposerHoldsLock, Release
  <2>2. ~mbUncounted' => ~mbUncounted
    BY <1>1, Zenon DEF SetRole
  <2>3. ASSUME ~mbUncounted' PROVE \E v \in Users : mbRole'[v] = "owner"
    <3>1. PICK v \in Users : v # u /\ mbRole[v] = "owner"
      BY <2>1, <2>2, <2>3, Zenon DEF MInv, AnotherOwner
    <3>2. mbRole'[v] = "owner"
      BY <3>1, <1>1, Zenon DEF SetRole
    <3> QED BY <3>2, Zenon
  <2>4. OwnerLeft'
    BY <2>3, Zenon DEF OwnerLeft
  <2>5. AnotherOwner' /\ HolderWrites' /\ DeposerHoldsLock'
    BY <1>4, <2>1, Zenon DEF Organization, AnotherOwner, HolderWrites, DeposerHoldsLock
  <2> QED BY <1>2, <2>4, <2>5, Zenon DEF MInv
<1>7. CASE ~counted \/ r = "owner"
  <2>1. ~mbUncounted' => /\ ~mbUncounted
                         /\ \A v \in Users : mbRole[v] = "owner" => mbRole'[v] = "owner"
    BY <1>1, <1>7, Zenon DEF SetRole
  <2> QED BY <1>2, <1>4, <1>5, <2>1, OwnersKept, Zenon
<1> QED BY <1>6, <1>7, Zenon

\* What a call record becomes at a step is a call record.
LEMMA CallSteps ==
  ASSUME Organization, MInv, NEW a \in Admins
  PROVE  /\ NoCall \in CallRecord /\ ~Deposes(NoCall)
         /\ mbCall[a] \in CallRecord /\ mbCall \in [Admins -> CallRecord]
         /\ mbCall[a].u \in Users /\ mbCall[a].r \in Roles \cup {"none"}
         /\ mbRole[mbCall[a].u] \in Roles \cup {"none"}
<1>1. NoCall \in CallRecord /\ ~Deposes(NoCall)
  BY Zenon DEF Organization, NoCall, CallRecord, Deposes
<1>2. mbCall[a] \in CallRecord /\ mbCall \in [Admins -> CallRecord]
  BY Zenon DEF MInv, MType
<1>3. mbCall[a].u \in Users /\ mbCall[a].r \in Roles \cup {"none"}
  BY <1>2, Zenon DEF CallRecord
<1> QED BY <1>1, <1>2, <1>3, Zenon DEF MInv, MType

\* What ReadMember and DeleteTeamRows make of a call's record.
LEMMA ReadRecord ==
  ASSUME NEW d \in CallRecord, NEW role \in Roles, NEW next \in {"lock", "write"},
         role = "owner" /\ d.r # "owner" => next = "lock"
  PROVE  LET c == [d EXCEPT !.seen = role, !.pc = next] IN c \in CallRecord /\ ~Deposes(c)
<1> DEFINE c == [d EXCEPT !.seen = role, !.pc = next]
<1>1. c.seen = role /\ c.pc = next /\ c.r = d.r
  BY Zenon DEF CallRecord
<1>2. c \in CallRecord
  BY ZenonT(60) DEF CallRecord
<1>3. ~Deposes(c)
  BY <1>1, Zenon DEF Deposes
<1> QED BY <1>2, <1>3, Zenon
\* A call that goes on to its delete.
LEMMA DeleteRecord ==
  ASSUME NEW d \in CallRecord, NEW t \in BOOLEAN
  PROVE  LET c == [d EXCEPT !.pc = "delete", !.team = t]
         IN  c \in CallRecord /\ c.u = d.u /\ c.pc = "delete"
BY ZenonT(60) DEF CallRecord

\* RowGone marks the updates under way and changes nothing else of them.
LEMMA RowGoneKeeps ==
  ASSUME NEW calls \in [Admins -> CallRecord], NEW u \in Users
  PROVE  /\ RowGone(calls, u) \in [Admins -> CallRecord]
         /\ \A b \in Admins : /\ RowGone(calls, u)[b].u = calls[b].u
                              /\ RowGone(calls, u)[b].pc = calls[b].pc
                              /\ Deposes(RowGone(calls, u)[b]) => Deposes(calls[b])
<1> SUFFICES ASSUME NEW b \in Admins
             PROVE  /\ RowGone(calls, u)[b] \in CallRecord
                    /\ RowGone(calls, u)[b].u = calls[b].u
                    /\ RowGone(calls, u)[b].pc = calls[b].pc
                    /\ Deposes(RowGone(calls, u)[b]) => Deposes(calls[b])
  BY Zenon DEF RowGone
<1> DEFINE gone == [calls[b] EXCEPT !.seen = "gone"]
<1>1. calls[b] \in CallRecord
  OBVIOUS
<1>2. gone \in CallRecord /\ gone.u = calls[b].u /\ gone.pc = calls[b].pc /\ gone.seen = "gone"
  BY <1>1 DEF CallRecord
<1>3. ~Deposes(gone)
  BY <1>2, Zenon DEF Deposes
<1>4. RowGone(calls, u)[b] \in {gone, calls[b]}
  BY Zenon DEF RowGone
<1> HIDE DEF gone
<1> QED BY <1>1, <1>2, <1>3, <1>4, Zenon

\* Calls that begin: nobody is deposed but by an uncounted write.
LEMMA BeginsKeep ==
  ASSUME Organization, MInv, NEW a \in Admins, NEW u \in Users,
         \/ ListMembers(a, u) \/ AddTeamMember(a, u) \/ ScimDelete(a, u)
         \/ \E r \in Roles : UpdateOrgMemberRole(a, u, r) \/ AddOrgMember(a, u, r)
         \/ AcceptInvite(a)
  PROVE  MInv'
<1>1. CASE ListMembers(a, u)
  <2> DEFINE c == [NoCall EXCEPT !.op = "remove", !.u = u, !.pc = "read",
                                 !.listed = mbRole[u] # "none"]
  <2>1. c \in CallRecord /\ ~Deposes(c)
    BY Zenon DEF NoCall, CallRecord, Deposes, Organization
  <2> QED BY <1>1, <2>1, BeginKeeps, Zenon DEF ListMembers, Roles
<1>2. CASE AddTeamMember(a, u)
  <2> DEFINE c == [NoCall EXCEPT !.op = "team", !.u = u, !.pc = "team", !.seen = mbRole[u]]
  <2>1. mbRole[u] \in Roles \cup {"none"}
    BY Zenon DEF MInv, MType
  <2>2. c \in CallRecord /\ ~Deposes(c)
    BY <2>1, Zenon DEF NoCall, CallRecord, Deposes, Organization
  <2> QED BY <1>2, <2>2, BeginKeeps, Zenon DEF AddTeamMember, Roles
<1>3. ASSUME NEW op \in {"scimDelete", "update", "add", "accept"}, NEW v \in Users,
             NEW r \in Roles \cup {"none"}, NEW next \in {"write", "read", "shadow"},
             next = "write" => op = "scimDelete", op = "update" => r # "none", Begin(a, op, v, r, next), mbLock' = mbLock,
             SetRole(v, r, FALSE) \/ UNCHANGED <<mbRole, mbUncounted>>
      PROVE  MInv'
  <2> DEFINE c == [NoCall EXCEPT !.op = op, !.u = v, !.r = r, !.pc = next]
  <2>1. c \in CallRecord
    BY <1>3, Zenon DEF NoCall, CallRecord, Organization
  <2>2. ~Deposes(c)
    BY <1>3, Zenon DEF NoCall, Deposes
  <2> QED BY <1>3, <2>1, <2>2, BeginKeeps, Zenon DEF Begin
<1>4. CASE ScimDelete(a, u)
  BY <1>4, <1>3, Zenon DEF ScimDelete
<1>5. ASSUME NEW r \in Roles, UpdateOrgMemberRole(a, u, r) PROVE MInv'
  BY <1>5, <1>3, Zenon DEF UpdateOrgMemberRole, Roles
<1>6. ASSUME NEW r \in Roles, AddOrgMember(a, u, r) PROVE MInv'
  BY <1>6, <1>3, Zenon DEF AddOrgMember
<1>7. CASE AcceptInvite(a)
  BY <1>7, <1>3, Zenon DEF AcceptInvite, Organization
<1> QED BY <1>1, <1>2, <1>4, <1>5, <1>6, <1>7, Zenon

\* The steps of a call that neither count nor depose.
LEMMA QuietStepsKeep ==
  ASSUME Organization, MInv, NEW a \in Admins,
         ReadMember(a) \/ DeleteTeamRows(a) \/ InsertTeamRow(a) \/ Shadow(a) \/ ShadowFails(a)
  PROVE  MInv'
<1> USE CallSteps
<1>1. CASE ReadMember(a)
  <2>1. mbLock # a /\ UNCHANGED <<mbRole, mbLock, mbUncounted>>
    BY <1>1, NotHolding, Zenon DEF ReadMember, At
  <2>2. PICK c \in CallRecord : mbCall' = [mbCall EXCEPT ![a] = c] /\ ~Deposes(c)
    <3>1. CASE mbRole[mbCall[a].u] = "none"
      BY <1>1, <3>1, Zenon DEF ReadMember, End
    <3>2. CASE mbRole[mbCall[a].u] # "none"
      <4> DEFINE c == [mbCall[a] EXCEPT !.seen = mbRole[mbCall[a].u],
                         !.pc = IF mbRole[mbCall[a].u] = "owner" /\ mbCall[a].r # "owner"
                                THEN "lock" ELSE "write"]
      <4>1. c \in CallRecord /\ ~Deposes(c)
        BY <3>2, ReadRecord, Zenon
      <4>2. mbCall' = [mbCall EXCEPT ![a] = c]
        BY <1>1, <3>2, Zenon DEF ReadMember
      <4> QED BY <4>1, <4>2, Zenon
    <3> QED BY <3>1, <3>2, Zenon
  <2> QED BY <2>1, <2>2, OneCallMoves, Zenon DEF MInv, MType
<1>2. CASE DeleteTeamRows(a)
  <2> DEFINE c == [mbCall[a] EXCEPT !.pc = "delete", !.team = mbCall[a].u \in mbTeam]
  <2>1. c \in CallRecord /\ c.u = mbCall[a].u /\ c.pc = "delete"
    <3>1. (mbCall[a].u \in mbTeam) \in BOOLEAN
      OBVIOUS
    <3>2. \A t \in BOOLEAN : LET d == [mbCall[a] EXCEPT !.pc = "delete", !.team = t]
                            IN  d \in CallRecord /\ d.u = mbCall[a].u /\ d.pc = "delete"
      BY DeleteRecord, Zenon
    <3> QED BY <3>1, <3>2, Zenon
  <2>2. Deposes(c) => Deposes(mbCall[a])
    BY <1>2 DEF CallRecord, Deposes, DeleteTeamRows, At
  <2>3. mbCall' = [mbCall EXCEPT ![a] = c] /\ UNCHANGED <<mbRole, mbLock, mbUncounted>>
    BY <1>2, Zenon DEF DeleteTeamRows
  <2> HIDE DEF c
  <2>4. MType' /\ mbCall'[a] = c /\ \A b \in Admins \ {a} : mbCall'[b] = mbCall[b]
    BY <2>1, <2>3, Zenon DEF MInv, MType
  <2>5. \A b \in Admins : Deposes(mbCall'[b]) => mbLock' = b
    BY <2>2, <2>3, <2>4, Zenon DEF MInv, DeposerHoldsLock
  <2>6. \A b \in Admins : mbLock' = b => /\ mbLock = b /\ mbCall'[b].u = mbCall[b].u
                                         /\ mbCall'[b].pc \in {"write", "delete"}
    BY <2>1, <2>3, <2>4, Zenon DEF MInv, HolderWrites
  <2> QED BY <2>3, <2>4, <2>5, <2>6, OwnersKept, Zenon
<1>3. CASE InsertTeamRow(a)
  <2>1. mbLock # a /\ mbLock' = mbLock /\ mbCall' = [mbCall EXCEPT ![a] = NoCall]
    BY <1>3, NotHolding, Zenon DEF InsertTeamRow, At, End
  <2>2. SetRole(mbCall[a].u, "member", FALSE) \/ UNCHANGED <<mbRole, mbUncounted>>
    BY <1>3, Zenon DEF InsertTeamRow
  <2>3. CASE SetRole(mbCall[a].u, "member", FALSE)
    BY <2>1, <2>3, UncountedWrite, OneCallMoves, Zenon DEF Roles, MInv
  <2>4. CASE UNCHANGED <<mbRole, mbUncounted>>
    BY <2>1, <2>4, OneCallMoves, Zenon DEF MInv, MType
  <2> QED BY <2>2, <2>3, <2>4, Zenon
<1>4. CASE Shadow(a) \/ ShadowFails(a)
  <2>1. mbLock # a
    <3>1. mbCall[a].pc = "shadow" \/ mbCall[a].pc = "unshadow"
      BY ONLY <1>4, Zenon DEF Shadow, ShadowFails, At
    <3>2. mbCall[a].pc \notin {"write", "delete"}
      BY ONLY <3>1, Zenon
    <3> QED BY <3>2, NotHolding, Zenon
  <2>2. mbCall' = [mbCall EXCEPT ![a] = NoCall] /\ UNCHANGED <<mbRole, mbLock, mbUncounted>>
    BY <1>4, Zenon DEF Shadow, ShadowFails, End
  <2> QED BY <2>1, <2>2, OneCallMoves, Zenon DEF MInv, MType
<1> QED BY <1>1, <1>2, <1>3, <1>4, Zenon

\* WriteRole and DeleteMember take a counted owner's role only under the lock.
LEMMA WritesKeep ==
  ASSUME Organization, MInv, NEW a \in Admins, WriteRole(a) \/ DeleteMember(a)
  PROVE  MInv'
<1> USE CallSteps
<1>1. CASE WriteRole(a)
  <2>1. /\ Release(a) /\ mbCall' = [mbCall EXCEPT ![a] = NoCall]
        /\ At(a, "write") /\ mbCall[a].op = "update"
    BY <1>1, Zenon DEF WriteRole, End
  <2>2. /\ mbCall' \in [Admins -> CallRecord] /\ mbCall'[a] = NoCall
        /\ \A b \in Admins \ {a} : mbCall'[b] = mbCall[b]
    BY <2>1, Zenon
  <2>3. CASE mbCall[a].seen # "gone"
    <3> DEFINE counted == mbCall[a].seen = "owner"
    <3>1. SetRole(mbCall[a].u, mbCall[a].r, counted)
      BY <1>1, <2>3, Zenon DEF WriteRole
    <3>2. counted => mbCall[a].r = "owner" \/ Deposes(mbCall[a])
      BY <2>1, Zenon DEF Deposes, At
    <3>3. counted \in BOOLEAN
      OBVIOUS
    <3> HIDE DEF counted
    <3> QED BY <2>1, <2>2, <3>1, <3>2, <3>3, WriteKeeps, ZenonT(60)
  <2>4. CASE mbCall[a].seen = "gone"
    <3>1. UNCHANGED <<mbRole, mbUncounted>>
      BY <1>1, <2>4, Zenon DEF WriteRole
    <3>2. MType'
      BY <2>1, <2>2, <3>1, Zenon DEF MInv, MType, Release
    <3>3. \A b \in Admins : Deposes(mbCall'[b]) => mbLock' = b
      BY <2>1, <2>2, Zenon DEF MInv, DeposerHoldsLock, Release
    <3>4. \A b \in Admins : mbLock' = b => mbLock = b /\ b # a
      BY <2>1, Zenon DEF Organization, Release
    <3>5. \A b \in Admins : mbLock' = b => /\ mbLock = b /\ mbCall'[b].u = mbCall[b].u
                                           /\ mbCall'[b].pc \in {"write", "delete"}
      BY <2>2, <3>4, Zenon DEF MInv, HolderWrites
    <3> QED BY <3>1, <3>2, <3>3, <3>5, OwnersKept, Zenon
  <2> QED BY <2>3, <2>4, Zenon
<1>2. CASE DeleteMember(a)
  <2> DEFINE u == mbCall[a].u
             counted == mbCall[a].op = "remove" /\ mbCall[a].seen = "owner"
             n == IF mbCall[a].listed /\ mbRole[u] # "none"
                  THEN [mbCall[a] EXCEPT !.pc = "unshadow"] ELSE NoCall
             calls == [mbCall EXCEPT ![a] = n]
  <2>1. /\ SetRole(u, "none", counted) /\ Release(a) /\ mbCall' = RowGone(calls, u)
        /\ mbCall[a].pc = "delete"
    BY <1>2, Zenon DEF DeleteMember, At
  <2>2. n \in CallRecord /\ ~Deposes(n)
    BY DEF CallRecord, Deposes
  <2> HIDE DEF n
  <2>3. /\ calls \in [Admins -> CallRecord] /\ calls[a] = n
        /\ \A b \in Admins \ {a} : calls[b] = mbCall[b]
    BY <2>2, Zenon
  <2> HIDE DEF calls
  <2>4. /\ mbCall' \in [Admins -> CallRecord] /\ ~Deposes(mbCall'[a])
        /\ \A b \in Admins \ {a} : /\ Deposes(mbCall'[b]) => Deposes(mbCall[b])
                                   /\ mbCall'[b].u = mbCall[b].u /\ mbCall'[b].pc = mbCall[b].pc
    BY <2>1, <2>2, <2>3, RowGoneKeeps, SMTT(30)
  <2>5. counted => Deposes(mbCall[a])
    BY <2>1, Zenon DEF Deposes, CallRecord
  <2> QED BY <2>1, <2>4, <2>5, WriteKeeps, Zenon
<1> QED BY <1>1, <1>2, Zenon

\* Every step of Next keeps the invariant.
LEMMA MInvNext == Organization /\ MInv /\ [Next]_vars => MInv'
<1> SUFFICES ASSUME Organization, MInv, [Next]_vars PROVE MInv'
  OBVIOUS
<1>1. ASSUME NEW a \in Admins, NEW u \in Users,
             \/ ListMembers(a, u) \/ AddTeamMember(a, u) \/ ScimDelete(a, u)
             \/ \E r \in Roles : UpdateOrgMemberRole(a, u, r) \/ AddOrgMember(a, u, r)
      PROVE  MInv'
  BY <1>1, BeginsKeep, Zenon
<1>2. ASSUME NEW a \in Admins, AcceptInvite(a) PROVE MInv'
  BY <1>2, BeginsKeep, Zenon DEF Organization
<1>3. ASSUME NEW a \in Admins, CountOwners(a) PROVE MInv'
  BY <1>3, CountOwnersKeeps, Zenon
<1>4. ASSUME NEW a \in Admins, WriteRole(a) \/ DeleteMember(a) PROVE MInv'
  BY <1>4, WritesKeep, Zenon
<1>5. ASSUME NEW a \in Admins,
             ReadMember(a) \/ DeleteTeamRows(a) \/ InsertTeamRow(a) \/ Shadow(a) \/ ShadowFails(a)
      PROVE  MInv'
  BY <1>5, QuietStepsKeep, Zenon
<1>6. ASSUME UNCHANGED <<mbLock, mbCall>>, MType',
             ~mbUncounted' => /\ ~mbUncounted
                              /\ \A v \in Users : mbRole[v] = "owner" => mbRole'[v] = "owner"
      PROVE  MInv'
  BY <1>6, OwnersKept, Zenon DEF MInv, DeposerHoldsLock, HolderWrites
<1>7. ASSUME UNCHANGED <<mbRole, mbLock, mbCall, mbUncounted>> PROVE MInv'
  BY <1>6, <1>7, Zenon DEF MInv, MType
<1>8. ASSUME NEW u \in Users, RemoveTeamMember(u) PROVE MInv'
  BY <1>7, <1>8, Zenon DEF RemoveTeamMember
<1>9. ASSUME NEW u \in Users, ScimCreate(u) PROVE MInv'
  <2>1. SetRole(u, "member", FALSE) /\ UNCHANGED <<mbLock, mbCall>>
    BY <1>9, Zenon DEF ScimCreate
  <2>2. "member" \in Roles \cup {"none"}
    BY Zenon DEF Roles
  <2> QED BY <1>6, <2>1, <2>2, UncountedWrite, Zenon DEF MInv, MType
<1>10. ASSUME NEW u \in Users, SyncWrites(u) PROVE MInv'
  BY <1>7, <1>10, Zenon DEF SyncWrites
<1>11. CASE CreateInvite \/ RevokeInvite
  BY <1>7, <1>11, Zenon DEF CreateInvite, RevokeInvite
<1>12. CASE SyncLists \/ SyncEnds \/ SyncFails
  BY <1>7, <1>12, Zenon DEF SyncLists, SyncEnds, SyncFails
<1>13. CASE UNCHANGED vars
  BY <1>7, <1>13, Zenon DEF vars
<1> QED BY <1>1, <1>2, <1>3, <1>4, <1>5, <1>8, <1>9, <1>10, <1>11, <1>12, <1>13, Zenon DEF Next

\* The organization keeps an owner through any number of concurrent demotions and
\* removals by UpdateOrgMemberRole and RemoveOrgMember, unless an owner was overwritten
\* by a path that counts no owners.
THEOREM OwnerRetainedAlways == Spec => []OwnerRetainedUnlessUncounted
<1>1. MInv => OwnerRetainedUnlessUncounted
  BY Zenon DEF MInv, OwnerLeft, OwnerRetainedUnlessUncounted, Owners
<1>2. Init => MInv
  BY MInvInit, OrganizationAssumption, Zenon
<1>3. MInv /\ [Next]_vars => MInv'
  BY MInvNext, OrganizationAssumption, Zenon
<1> QED BY <1>1, <1>2, <1>3, PTL DEF Spec

-----------------------------------------------------------------------------
\* Teams

\* A step changes roles and team rows in one of five ways: none, a role is set, a
\* membership is deleted with what the call saw of the team, a row of the team is
\* inserted or deleted.
LEMMA TeamStep ==
  ASSUME Organization, MInv, [Next]_vars
  PROVE  \/ UNCHANGED <<mbRole, mbTeam, mbOrphan>>
         \/ \E u \in Users, r \in Roles : /\ mbRole' = [mbRole EXCEPT ![u] = r]
                                          /\ mbTeam' \in {mbTeam, mbTeam \cup {u}}
                                          /\ mbOrphan' = mbOrphan
         \/ \E a \in Admins : DeleteMember(a)
         \/ \E a \in Admins : InsertTeamRow(a)
         \/ \E u \in Users : RemoveTeamMember(u)
<1>1. ASSUME NEW a \in Admins, NEW u \in Users,
             ListMembers(a, u) \/ AddTeamMember(a, u) \/ ScimDelete(a, u)
      PROVE  UNCHANGED <<mbRole, mbTeam, mbOrphan>>
  BY <1>1, Zenon DEF ListMembers, AddTeamMember, ScimDelete
<1>2. ASSUME NEW a \in Admins, NEW u \in Users, NEW r \in Roles, UpdateOrgMemberRole(a, u, r)
      PROVE  UNCHANGED <<mbRole, mbTeam, mbOrphan>>
  BY <1>2, Zenon DEF UpdateOrgMemberRole
<1>3. ASSUME NEW a \in Admins, NEW u \in Users, NEW r \in Roles, AddOrgMember(a, u, r)
      PROVE  mbRole' = [mbRole EXCEPT ![u] = r] /\ UNCHANGED <<mbTeam, mbOrphan>>
  BY <1>3, Zenon DEF AddOrgMember, SetRole
<1>4. ASSUME NEW a \in Admins,
             ReadMember(a) \/ CountOwners(a) \/ DeleteTeamRows(a) \/ Shadow(a) \/ ShadowFails(a)
      PROVE  UNCHANGED <<mbRole, mbTeam, mbOrphan>>
  BY <1>4, Zenon DEF ReadMember, CountOwners, DeleteTeamRows, Shadow, ShadowFails
<1>5. ASSUME NEW a \in Admins, WriteRole(a)
      PROVE  /\ UNCHANGED <<mbTeam, mbOrphan>>
             /\ mbRole' = mbRole \/ \E u \in Users, r \in Roles : mbRole' = [mbRole EXCEPT ![u] = r]
  <2>1. mbCall[a].u \in Users /\ mbCall[a].r \in Roles
    BY <1>5, CallSteps, Zenon DEF WriteRole, CallRecord
  <2> QED BY <1>5, <2>1, Zenon DEF WriteRole, SetRole
<1>6. ASSUME NEW a \in Admins, AcceptInvite(a)
      PROVE  /\ mbRole' = [mbRole EXCEPT ![Invited] = InviteRole] /\ mbOrphan' = mbOrphan
             /\ mbTeam' = mbTeam \cup {Invited} /\ Invited \in Users /\ InviteRole \in Roles
  BY <1>6, Zenon DEF AcceptInvite, SetRole, Organization
<1>7. ASSUME NEW u \in Users, ScimCreate(u)
      PROVE  mbRole' = [mbRole EXCEPT ![u] = "member"] /\ UNCHANGED <<mbTeam, mbOrphan>>
  BY <1>7, Zenon DEF ScimCreate, SetRole
<1>8. ASSUME NEW u \in Users, SyncWrites(u) PROVE UNCHANGED <<mbRole, mbTeam, mbOrphan>>
  BY <1>8, Zenon DEF SyncWrites
<1>9. ASSUME CreateInvite \/ RevokeInvite \/ SyncLists \/ SyncEnds \/ SyncFails \/ UNCHANGED vars
      PROVE  UNCHANGED <<mbRole, mbTeam, mbOrphan>>
  BY <1>9, Zenon DEF CreateInvite, RevokeInvite, SyncLists, SyncEnds, SyncFails, vars
<1>10. "member" \in Roles
  BY Zenon DEF Roles
<1> QED
  BY <1>1, <1>2, <1>3, <1>4, <1>5, <1>6, <1>7, <1>8, <1>9, <1>10, SMTT(60) DEF Next

TInv == mbTeam \subseteq Users /\ TeamWithinOrgUnlessCrossed

\* A member of the team is a member of the organization, through any number of
\* concurrent removals, team inserts and accepted invites, unless a removal and the two
\* inserts of AddTeamMember or an accepted invite crossed.
THEOREM TeamStaysWithinOrg == Spec => []TeamWithinOrgUnlessCrossed
<1> USE OrganizationAssumption
<1>1. Init => TInv
  BY Zenon DEF Init, TInv, TeamWithinOrgUnlessCrossed
<1>2. ASSUME MInv, TInv, [Next]_vars PROVE TInv'
  <2> USE DEF TInv, TeamWithinOrgUnlessCrossed
  <2>1. mbRole \in [Users -> Roles \cup {"none"}] /\ "none" \notin Roles
    BY <1>2, Zenon DEF MInv, MType, Roles
  <2>2. CASE UNCHANGED <<mbRole, mbTeam, mbOrphan>>
    BY <1>2, <2>2, Zenon
  <2>3. ASSUME NEW u \in Users, NEW r \in Roles, mbRole' = [mbRole EXCEPT ![u] = r],
               mbTeam' \in {mbTeam, mbTeam \cup {u}}, mbOrphan' = mbOrphan
        PROVE  TInv'
    BY <1>2, <2>1, <2>3, Zenon
  <2>4. ASSUME NEW a \in Admins, DeleteMember(a) PROVE TInv'
    <3> DEFINE u == mbCall[a].u
    <3>1. /\ mbRole' = [mbRole EXCEPT ![u] = "none"]
          /\ mbTeam' = IF mbCall[a].team THEN mbTeam \ {u} ELSE mbTeam
          /\ mbOrphan' = IF u \in mbTeam /\ ~mbCall[a].team THEN mbOrphan \cup {u} ELSE mbOrphan
      BY <2>4, Zenon DEF DeleteMember, SetRole
    <3>2. /\ u \notin mbTeam' \ mbOrphan' /\ mbTeam' \ mbOrphan' \subseteq mbTeam \ mbOrphan
          /\ mbTeam' \subseteq Users
      BY <1>2, <3>1, Zenon
    <3> QED BY <1>2, <2>1, <3>1, <3>2, Zenon
  <2>5. ASSUME NEW a \in Admins, InsertTeamRow(a) PROVE TInv'
    <3> DEFINE u == mbCall[a].u
    <3>1. /\ mbRole' \in {mbRole, [mbRole EXCEPT ![u] = "member"]}
          /\ mbTeam' = mbTeam \cup {u}
          /\ mbOrphan' = IF mbRole'[u] = "none" THEN mbOrphan \cup {u} ELSE mbOrphan
      BY <2>5, Zenon DEF InsertTeamRow, SetRole
    <3>2. u \in Users
      BY <1>2, CallSteps, Zenon
    <3>3. \A v \in Users : mbRole[v] # "none" => mbRole'[v] # "none"
      BY <2>1, <3>1, <3>2, Zenon
    <3> QED BY <1>2, <3>1, <3>2, <3>3, Zenon
  <2>6. ASSUME NEW u \in Users, RemoveTeamMember(u) PROVE TInv'
    BY <1>2, <2>6, Zenon DEF RemoveTeamMember
  <2> QED BY <1>2, <2>2, <2>3, <2>4, <2>5, <2>6, TeamStep, Zenon
<1>3. Init => MInv
  BY MInvInit, Zenon
<1>4. MInv /\ [Next]_vars => MInv'
  BY MInvNext, Zenon
<1> QED BY <1>1, <1>2, <1>3, <1>4, PTL DEF Spec, TInv

-----------------------------------------------------------------------------
\* The shadow

\* A step of the calls keeps the list of the projector. It leaves the shadow alone and
\* changes no role without ending the freshness, or writes one row of the shadow.
LEMMA ShadowStep ==
  ASSUME Organization, MInv, [Next]_vars
  PROVE  \/ /\ UNCHANGED <<mbShadow, mbSync>>
            /\ mbFresh' = "no" \/ (mbFresh' = mbFresh /\ mbRole' = mbRole)
         \/ /\ UNCHANGED <<mbRole, mbSync>>
            /\ \E u \in Users, r \in Roles \cup {"none"} : WriteShadow(u, r)
         \/ \E u \in Users : SyncWrites(u)
         \/ SyncLists \/ SyncEnds \/ SyncFails
<1> DEFINE Quiet == /\ UNCHANGED <<mbShadow, mbSync>>
                    /\ mbFresh' = "no" \/ (mbFresh' = mbFresh /\ mbRole' = mbRole)
<1>1. ASSUME NEW u \in Users, NEW r, NEW c, SetRole(u, r, c)
      PROVE  mbFresh' = "no" \/ (mbFresh' = mbFresh /\ mbRole' = mbRole)
  BY <1>1, Zenon DEF SetRole, MInv, MType
<1>2. ASSUME NEW a \in Admins, NEW u \in Users,
             ListMembers(a, u) \/ AddTeamMember(a, u) \/ ScimDelete(a, u)
      PROVE  Quiet
  BY <1>2, Zenon DEF ListMembers, AddTeamMember, ScimDelete, shadowVars
<1>3. ASSUME NEW a \in Admins, NEW u \in Users, NEW r \in Roles, UpdateOrgMemberRole(a, u, r)
      PROVE  Quiet
  BY <1>3, Zenon DEF UpdateOrgMemberRole, shadowVars
<1>4. ASSUME NEW a \in Admins, NEW u \in Users, NEW r \in Roles, AddOrgMember(a, u, r)
      PROVE  Quiet
  BY <1>1, <1>4, Zenon DEF AddOrgMember, shadowVars
<1>5. ASSUME NEW a \in Admins,
             ReadMember(a) \/ CountOwners(a) \/ DeleteTeamRows(a) \/ ShadowFails(a)
      PROVE  Quiet
  BY <1>5, Zenon DEF ReadMember, CountOwners, DeleteTeamRows, ShadowFails, shadowVars
<1>6. ASSUME NEW a \in Admins, WriteRole(a) \/ DeleteMember(a) \/ InsertTeamRow(a) \/ AcceptInvite(a)
      PROVE  Quiet
  <2>1. mbCall[a].u \in Users /\ Invited \in Users
    BY CallSteps, Zenon DEF Organization
  <2> QED BY <1>1, <1>6, <2>1, Zenon DEF WriteRole, DeleteMember, InsertTeamRow, AcceptInvite, shadowVars
<1>7. ASSUME NEW a \in Admins, Shadow(a)
      PROVE  /\ UNCHANGED <<mbRole, mbSync>>
             /\ \E u \in Users, r \in Roles \cup {"none"} : WriteShadow(u, r)
  <2>1. mbCall[a].u \in Users /\ mbCall[a].r \in Roles \cup {"none"}
    BY CallSteps, Zenon
  <2> DEFINE r == IF At(a, "shadow") THEN mbCall[a].r ELSE "none"
  <2>2. r \in Roles \cup {"none"}
    BY <2>1, Zenon
  <2>3. WriteShadow(mbCall[a].u, r) /\ UNCHANGED <<mbRole, mbSync>>
    BY <1>7, Zenon DEF Shadow
  <2> HIDE DEF r
  <2> QED BY <2>1, <2>2, <2>3, Zenon
<1>8. ASSUME NEW u \in Users, RemoveTeamMember(u) \/ ScimCreate(u) PROVE Quiet
  BY <1>1, <1>8, Zenon DEF RemoveTeamMember, ScimCreate, shadowVars
<1>9. ASSUME CreateInvite \/ RevokeInvite \/ UNCHANGED vars PROVE Quiet
  BY <1>9, Zenon DEF CreateInvite, RevokeInvite, vars, shadowVars
<1> HIDE DEF Quiet
<1>10. \/ Quiet
       \/ \E a \in Admins : Shadow(a)
       \/ \E u \in Users : SyncWrites(u)
       \/ SyncLists \/ SyncEnds \/ SyncFails
  BY <1>2, <1>3, <1>4, <1>5, <1>6, <1>8, <1>9, Zenon DEF Next
<1> QED BY <1>7, <1>10, Zenon DEF Quiet

\* While the list is fresh it is what the memberships are, and the shadow has every
\* membership that is not still to be written.
SInv ==
  /\ mbShadow \in [Users -> Roles \cup {"none"}]
  /\ mbSync \in [list : [Users -> Roles \cup {"none"}], todo : SUBSET Users]
  /\ mbFresh \in {"listed", "synced"} =>
       /\ mbSync.list = mbRole
       /\ \A u \in Users \ mbSync.todo : mbRole[u] # "none" => mbShadow[u] = mbRole[u]
  /\ mbFresh = "synced" => mbSync.todo = {}

\* After a sync that no change and no stale shadow write crossed, the shadow has every
\* membership with its role, whatever the users and the concurrent calls.
THEOREM SyncedShadowAlwaysAgrees == Spec => []SyncedShadowAgrees
<1> USE OrganizationAssumption
<1>1. Init => SInv
  BY DEF Init, SInv, Organization, Roles
<1>2. ASSUME MInv, SInv, [Next]_vars PROVE SInv'
  <2>1. mbRole \in [Users -> Roles \cup {"none"}]
    BY <1>2, Zenon DEF MInv, MType
  <2>2. ASSUME UNCHANGED <<mbShadow, mbSync>>,
               mbFresh' = "no" \/ (mbFresh' = mbFresh /\ mbRole' = mbRole)
        PROVE  SInv'
    BY <1>2, <2>2, Zenon DEF SInv
  <2>3. ASSUME NEW u \in Users, NEW r \in Roles \cup {"none"}, WriteShadow(u, r),
               UNCHANGED <<mbRole, mbSync>>
        PROVE  SInv'
    BY <1>2, <2>1, <2>3, Zenon DEF SInv, WriteShadow
  <2>4. ASSUME NEW u \in Users, SyncWrites(u) PROVE SInv'
    <3>1. /\ mbSync' = [mbSync EXCEPT !.todo = @ \ {u}] /\ mbRole' = mbRole
          /\ mbShadow' = [mbShadow EXCEPT ![u] = mbSync.list[u]]
          /\ mbFresh' = IF mbSync.list[u] = mbRole[u] THEN mbFresh ELSE "no"
      BY <2>4, Zenon DEF SyncWrites, WriteShadow
    <3>2. /\ mbSync'.list = mbSync.list /\ mbSync'.todo = mbSync.todo \ {u}
          /\ mbSync' \in [list : [Users -> Roles \cup {"none"}], todo : SUBSET Users]
          /\ mbSync.list[u] \in Roles \cup {"none"}
      BY <1>2, <3>1, Zenon DEF SInv
    <3> QED BY <1>2, <2>1, <3>1, <3>2, Zenon DEF SInv
  <2>5. CASE SyncLists
    BY <1>2, <2>1, <2>5, Zenon DEF SInv, SyncLists
  <2>6. CASE SyncEnds
    BY <1>2, <2>6, Zenon DEF SInv, SyncEnds
  <2>7. CASE SyncFails
    BY <1>2, <2>7, Zenon DEF SInv, SyncFails
  <2> QED BY <1>2, <2>2, <2>3, <2>4, <2>5, <2>6, <2>7, ShadowStep, Zenon
<1>3. SInv => SyncedShadowAgrees
  BY Zenon DEF SInv, SyncedShadowAgrees
<1>4. Init => MInv
  BY MInvInit, Zenon
<1>5. MInv /\ [Next]_vars => MInv'
  BY MInvNext, Zenon
<1> QED BY <1>1, <1>2, <1>3, <1>4, <1>5, PTL DEF Spec

-----------------------------------------------------------------------------
\* Roles and scopes

AType == azOrg \in [Orgs -> AZRoles \cup {""}] /\ azProject \in AZRoles \cup {""}

\* The roles are always roles.
LEMMA ATypeAlways == AZSpec => []AType
<1>1. AZInit => AType
  BY Zenon DEF AZInit, AType
<1>2. AType /\ [AZNext]_azVars => AType'
  BY Zenon DEF AType, AZNext, azVars, SetOrgRole, RemoveOrgRole, SetProjectRole
<1> QED BY <1>1, <1>2, PTL DEF AZSpec

\* More scopes allow more.
LEMMA HasScopeGrows ==
  ASSUME NEW G, NEW H, NEW s, G \subseteq H, HasScope(G, s)
  PROVE  HasScope(H, s)
  BY Zenon DEF HasScope

\* The lists of roleAllowsScope grow with the role, below the owner.
LEMMA ListsGrow == viewerScopes \subseteq memberScopes /\ memberScopes \subseteq adminScopes
<1>1. viewerScopes \subseteq memberScopes
  BY Zenon DEF viewerScopes, memberScopes
<1>2. memberScopes \subseteq adminScopes
  BY Zenon DEF memberScopes, adminScopes
<1> QED BY <1>1, <1>2, Zenon

\* A role allows what the roles below it allow.
LEMMA RolesGrow ==
  ASSUME NEW low \in AZRoles \cup {""}, NEW high \in AZRoles \cup {""}, Below(low, high),
         NEW s, HasScope(RoleScopes(low), s)
  PROVE  HasScope(RoleScopes(high), s)
<1>1. CASE high = "owner"
  BY <1>1, Zenon DEF HasScope, scopeImplies, RoleScopes
<1>2. CASE low = ""
  BY <1>2, Zenon DEF HasScope, RoleScopes, AZRoles
<1>3. CASE high = low
  BY <1>3, Zenon
<1>4. CASE high = "admin" /\ low \in {"member", "viewer"}
  BY <1>4, ListsGrow, HasScopeGrows, Zenon DEF RoleScopes
<1>5. CASE high = "member" /\ low = "viewer"
  BY <1>5, ListsGrow, HasScopeGrows, Zenon DEF RoleScopes
<1> QED BY <1>1, <1>2, <1>3, <1>4, <1>5, Zenon DEF Below, AZRoles

\* authorize allows after a promotion what it allowed before.
LEMMA PromotionAllows ==
  ASSUME AType, AType', Promotion, NEW s, NEW r, UserAllowed(azOrg, azProject, s, r)
  PROVE  UserAllowed(azOrg', azProject', s, r)
<1>1. ASSUME NEW o \in Orgs, roleAllowsScope(azOrg[o], s) PROVE roleAllowsScope(azOrg'[o], s)
  <2>1. azOrg[o] \in AZRoles \cup {""} /\ azOrg'[o] \in AZRoles \cup {""} /\ Below(azOrg[o], azOrg'[o])
    BY Zenon DEF AType, Promotion
  <2> QED BY <1>1, <2>1, RolesGrow, Zenon DEF roleAllowsScope
<1>2. CASE r = "any"
  BY <1>1, <1>2, Zenon DEF UserAllowed
<1>3. CASE r # "any"
  <2>1. roleAllowsScope(azOrg'["o1"], s)
    BY <1>1, <1>3, Zenon DEF UserAllowed, Orgs
  <2>2. ASSUME r = "project", azProject' # "" PROVE projectRoleAllowsScope(azProject', s)
    <3>1. azProject # "" /\ (azProject' = azProject \/ Below(azProject, azProject'))
      BY <2>2, Zenon DEF Promotion
    <3>2. projectRoleAllowsScope(azProject, s)
      BY <1>3, <2>2, <3>1, Zenon DEF UserAllowed
    <3>3. azProject \in AZRoles \cup {""} /\ azProject' \in AZRoles \cup {""}
      BY Zenon DEF AType
    <3> QED BY <3>1, <3>2, <3>3, RolesGrow, Zenon DEF projectRoleAllowsScope
  <2> QED BY <1>3, <2>1, <2>2, Zenon DEF UserAllowed
<1> QED BY <1>2, <1>3, Zenon

\* No promotion takes access from a session or a token of any scopes.
THEOREM PromotionNeverRevokes == AZSpec => PromotionKeepsAccess
<1>1. AType /\ AType' /\ [AZNext]_azVars => [PromotionKeeps]_azVars
  <2> SUFFICES ASSUME AType, AType', Promotion PROVE PromotionKeeps
    BY Zenon DEF PromotionKeeps
  <2>1. ASSUME NEW s \in Scopes, NEW r \in Resources
        PROVE  /\ SessionAllowed(s, r) => SessionAllowed(s, r)'
               /\ \A g \in GrantSets : PATAllowed(g, s, r) => PATAllowed(g, s, r)'
    <3>1. UserAllowed(azOrg, azProject, s, r) => UserAllowed(azOrg', azProject', s, r)
      BY PromotionAllows, Zenon
    <3>2. SessionAllowed(s, r)' = UserAllowed(azOrg', azProject', s, r)
      BY Zenon DEF SessionAllowed, UserAllowed, roleAllowsScope, projectRoleAllowsScope
    <3>3. ASSUME NEW g \in GrantSets, PATAllowed(g, s, r) PROVE PATAllowed(g, s, r)'
      BY <3>1, <3>3, Zenon DEF PATAllowed, UserAllowed, HasScope, roleAllowsScope, projectRoleAllowsScope
    <3> QED BY <3>1, <3>2, <3>3, Zenon DEF SessionAllowed
  <2> QED BY <2>1, Zenon DEF PromotionKeeps
<1> QED BY <1>1, ATypeAlways, PTL DEF AZSpec, PromotionKeepsAccess

-----------------------------------------------------------------------------
\* The Valkey lease

USE HoldersAssumption

\* The promise is inductive together with the types, which tie the key to what is left
\* of its time.
VInv == VLTypeOK /\ BackedUntilLate

\* Initially there is no key and no claim.
LEMMA VInvInit == VLInit => VInv
  BY SMTT(30) DEF VLInit, VInv, VLTypeOK, BackedUntilLate

\* Every command and every tick keeps the key behind the claims.
LEMMA VInvNext == VInv /\ [VLNext]_vlVars => VInv'
<1> SUFFICES ASSUME VInv, [VLNext]_vlVars PROVE VInv'
  OBVIOUS
<1> USE DEF VInv, VLTypeOK, BackedUntilLate
<1>1. ASSUME NEW h \in Holders, Get(h) PROVE VInv'
  <2>1. pc' \in [Holders -> {"idle", "setnx", "expire"}]
    BY <1>1, Zenon DEF Get
  <2> QED BY <1>1, <2>1, Zenon DEF Get
<1>2. ASSUME NEW h \in Holders, SetNX(h) PROVE VInv'
  <2>1. CASE key = NoHolder
    <3>1. late = {} => \A g \in Holders : ~(claim[g] > 0)
      BY <2>1, Zenon
    <3> QED BY <1>2, <2>1, <3>1 DEF SetNX
  <2>2. CASE key # NoHolder
    BY <1>2, <2>2, Zenon DEF SetNX
  <2> QED BY <2>1, <2>2, Zenon
<1>3. ASSUME NEW h \in Holders, Expire(h) PROVE VInv'
  <2>1. VLTypeOK'
    BY <1>3 DEF Expire
  <2>2. late' = {} => late = {} /\ key = h
    BY <1>3, Zenon DEF Expire
  <2>3. BackedUntilLate'
    BY <1>3, <2>2 DEF Expire
  <2> QED BY <2>1, <2>3, Zenon
<1>4. ASSUME NEW h \in Holders, Fail(h) PROVE VInv'
  <2>1. late = {} /\ key = NoHolder => \A g \in Holders : ~(claim[g] > 0)
    OBVIOUS
  <2>2. VLTypeOK'
    BY <1>4 DEF Fail
  <2>3. BackedUntilLate'
    BY <1>4, <2>1 DEF Fail
  <2> QED BY <2>2, <2>3, Zenon
<1>5. CASE Tick
  <2>1. VLTypeOK'
    BY <1>5 DEF Tick
  <2>2. BackedUntilLate'
    BY <1>5 DEF Tick
  <2> QED BY <2>1, <2>2, Zenon
<1>6. CASE UNCHANGED vlVars
  BY <1>6, Zenon DEF vlVars
<1> QED BY <1>1, <1>2, <1>3, <1>4, <1>5, <1>6, Zenon DEF VLNext

\* Until an EXPIRE meets a key that is not its caller's, every running claim is backed by
\* the key, and so there is one at most.
THEOREM ClaimsAreBacked ==
  VLSpec => []BackedUntilLate
<1>1. VLInit => VInv
  BY VInvInit, Zenon
<1>2. VInv /\ [VLNext]_vlVars => VInv'
  BY VInvNext, Zenon
<1> QED BY <1>1, <1>2, PTL DEF VLSpec, VInv

==============================================================================
