----------------------------- MODULE Authorizer -----------------------------
(***************************************************************************)
(* What Authorizer.authorize decides for one user, the roles that decide   *)
(* it, and the changes of those roles: one project of one organization,    *)
(* and a second organization the user may also be a member of.             *)
(***************************************************************************)
CONSTANTS GrantSets     \* the scopes that a token may carry

VARIABLES azOrg,        \* azOrg[o]: the user's role in organization o, or ""
          azProject     \* the user's role in the project of "o1", or ""

azVars == <<azOrg, azProject>>

Orgs == {"o1", "o2"}
AZRoles == {"owner", "admin", "member", "viewer"}
Scopes == {"org:read", "org:admin", "org:query:read", "org:query:write",
           "project:read", "project:write", "project:keys:read", "project:keys:write",
           "project:tokens:read", "project:tokens:write", "project:artifacts:write",
           "issue:write", "release:read", "release:write"}

AZInit == azOrg = [o \in Orgs |-> ""] /\ azProject = ""

-----------------------------------------------------------------------------
scopeImplies(granted, required) ==
  \/ granted = required
  \/ granted = "org:admin"
  \/ <<granted, required>> \in {<<"org:query:write", "org:query:read">>,
                                <<"project:write", "project:read">>,
                                <<"project:keys:write", "project:keys:read">>,
                                <<"project:tokens:write", "project:tokens:read">>,
                                <<"release:write", "release:read">>}

HasScope(granted, required) == \E s \in granted : scopeImplies(s, required)

viewerScopes == {"org:read", "org:query:read", "project:read", "release:read"}
memberScopes == {"org:read", "org:query:read", "org:query:write", "project:read",
                 "issue:write", "release:read"}
adminScopes == {"org:read", "org:query:read", "org:query:write", "project:read",
                "project:write", "project:keys:read", "project:keys:write",
                "project:tokens:read", "project:tokens:write", "project:artifacts:write",
                "issue:write", "release:read", "release:write"}

\* Variant: the list of an administrator misses a scope of a member.
RoleScopesNarrowAdmin(role) ==
  CASE role = "owner" -> {"org:admin"}
    [] role = "admin" -> adminScopes \ {"issue:write"}
    [] role = "member" -> memberScopes
    [] role = "viewer" -> viewerScopes
    [] OTHER -> {}

\* The scopes of a role, the same for an organization and for a project.
RoleScopes(role) ==
  CASE role = "owner" -> {"org:admin"}
    [] role = "admin" -> adminScopes
    [] role = "member" -> memberScopes
    [] role = "viewer" -> viewerScopes
    [] OTHER -> {}

roleAllowsScope(role, required) == HasScope(RoleScopes(role), required)
projectRoleAllowsScope(role, required) == HasScope(RoleScopes(role), required)

\* A request is for any membership, for organization "o1", or for its project.
Resources == {"any", "organization", "project"}

\* authorize for a user, as far as it looks at roles: a role in the project only
\* takes away from the role in the organization.
UserAllowed(org, project, scope, resource) ==
  IF resource = "any" THEN \E o \in Orgs : roleAllowsScope(org[o], scope)
  ELSE /\ roleAllowsScope(org["o1"], scope)
       /\ resource = "project" /\ project # "" => projectRoleAllowsScope(project, scope)

\* authorize for the credentials of the user: a session, or a token with its scopes.
SessionAllowed(scope, resource) == UserAllowed(azOrg, azProject, scope, resource)
PATAllowed(granted, scope, resource) ==
  UserAllowed(azOrg, azProject, scope, resource) /\ HasScope(granted, scope)

-----------------------------------------------------------------------------
\* The administration stores set, add and remove memberships; a role in a project is
\* changed but never removed.
SetOrgRole(o, r) == azOrg' = [azOrg EXCEPT ![o] = r] /\ UNCHANGED azProject
RemoveOrgRole(o) == azOrg[o] # "" /\ azOrg' = [azOrg EXCEPT ![o] = ""] /\ UNCHANGED azProject
SetProjectRole(r) == azProject' = r /\ UNCHANGED azOrg

AZNext ==
  \/ \E o \in Orgs : RemoveOrgRole(o) \/ \E r \in AZRoles : SetOrgRole(o, r)
  \/ \E r \in AZRoles : SetProjectRole(r)

AZSpec == AZInit /\ [][AZNext]_azVars

-----------------------------------------------------------------------------
\* Properties

Below(low, high) ==
  \/ low = "" \/ low = high \/ high = "owner"
  \/ high = "admin" /\ low # "owner"
  \/ high = "member" /\ low = "viewer"

\* A role changes, none is lowered, and none is set in the project where there was none.
Promotion ==
  /\ azVars' # azVars
  /\ \A o \in Orgs : Below(azOrg[o], azOrg'[o])
  /\ azProject' = azProject \/ (azProject # "" /\ Below(azProject, azProject'))

\* A promotion takes no access away, from a session or from a token: a role grants what
\* every role below it grants, in roleAllowsScope as in projectRoleAllowsScope.
PromotionKeeps ==
  Promotion => \A s \in Scopes, r \in Resources :
                 /\ SessionAllowed(s, r) => SessionAllowed(s, r)'
                 /\ \A g \in GrantSets : PATAllowed(g, s, r) => PATAllowed(g, s, r)'
PromotionKeepsAccess == [][PromotionKeeps]_azVars

=============================================================================
