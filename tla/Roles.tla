------------------------------- MODULE Roles -------------------------------
(***************************************************************************)
(* Who may do what (auth/auth.go): the permissions of a role, those of a   *)
(* user whom an account owns, and the scopes of API keys                   *)
(* (httpapi/apikeys.go, httpapi/tenant.go).                                *)
(***************************************************************************)

ReadPerms == {"signals:read", "sources:read", "subscriptions:read", "deliveries:read",
              "jobs:read", "analytics:read"}
EditorPerms == ReadPerms \cup
    {"sources:write", "subscriptions:write", "deliveries:retry", "jobs:manage"}
AllPerms == EditorPerms \cup
    {"users:manage", "teams:manage", "settings:manage", "accounts:manage"}

RolePerms == [ADMIN |-> AllPerms, EDITOR |-> EditorPerms, VIEWER |-> ReadPerms]
ValidRoles == DOMAIN RolePerms
TenantPerms == {"signals:read", "analytics:read"}

\* Platform staff belong to no account.
Staff == "staff"

\* CanScoped: a role counts for staff only.
CanScoped(role, account, perm) ==
    perm \in (IF account # Staff THEN TenantPerms ELSE RolePerms[role])

\* RequirePermission, of an identity [user, role, account].
May(id, perm) == CanScoped(id.role, id.account, perm)

\* requireTenant
IsTenant(id) == id.account # Staff

APIScopes == {"signals:read", "sources:read", "sources:write", "subscriptions:read",
              "subscriptions:write", "deliveries:read", "stats:read"}
TenantAPIScopes == {"signals:read", "stats:read", "subscriptions:read",
                    "subscriptions:write", "deliveries:read"}

\* mutCreateAPIKey, mutCreateMyApiKey: each scope that is asked for must be one that may be
\* granted, and there must be one.
Grantable(asked, scopes) == asked # {} /\ asked \subseteq scopes
=============================================================================
