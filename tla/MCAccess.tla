------------------------------ MODULE MCAccess ------------------------------
(* Users and API keys on small tables, and checks of the rules in Roles. *)
EXTENDS Access, TLC

CONSTANTS u1, u2, u3, acme, globex, house, x1, x2, s1, s2, s3

MCAccounts == {acme, globex}
MCUserForms == {[role |-> "ADMIN", account |-> Staff], [role |-> "VIEWER", account |-> acme]}
MCPatches == {[role |-> "VIEWER"], [status |-> "SUSPENDED"]}

MCMembers == {[role |-> "ADMIN", account |-> Staff], [role |-> "ADMIN", account |-> acme],
              [role |-> "VIEWER", account |-> globex]}
MCAsked == {{}, {"signals:read", "subscriptions:write"}, {"signals:read", "sources:write"}}
MCScopes == {"signals:read", "subscriptions:write"}
MCStartKeys == x1 :> NewKey(acme, {"signals:read", "subscriptions:write"}) @@
               x2 :> [NewKey(Staff, {}) EXCEPT !.there = FALSE]
MCStartSubs == s1 :> [there |-> TRUE, account |-> acme] @@
               s2 :> [there |-> TRUE, account |-> globex] @@ s3 :> NoRow
-----------------------------------------------------------------------------
\* Every role can what the one below it can, and a customer no more than any role, so that
\* no role of a customer's user opens the operators' console.
ASSUME RolesNested ==
    /\ RolePerms["VIEWER"] \subseteq RolePerms["EDITOR"]
    /\ RolePerms["EDITOR"] \subseteq RolePerms["ADMIN"]
    /\ \A r, t \in ValidRoles : \A p \in AllPerms :
          CanScoped(r, acme, p) => CanScoped(t, Staff, p)

\* A customer's key has no scope that an administrator could not give, and no operator's.
ASSUME TenantScopesNarrow ==
    /\ TenantAPIScopes \subseteq APIScopes
    /\ TenantAPIScopes \cap {"sources:read", "sources:write"} = {}
=============================================================================
