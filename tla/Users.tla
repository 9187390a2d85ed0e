------------------------------- MODULE Users -------------------------------
(***************************************************************************)
(* The console's users and sessions (httpapi/auth.go, httpapi/admin.go,    *)
(* db/users.go).  A request resolves its token to an identity once, and    *)
(* acts with it; other requests change users and sessions meanwhile.       *)
(* Every statement is its own transaction.                                 *)
(***************************************************************************)
EXTENDS Roles, Integers, FiniteSets

CONSTANTS
    UserIds,        \* rows of the table that may ever exist, each with its email
    Seed,           \* the one with ADMIN_EMAIL
    Accounts,       \* the accounts there are
    Tokens,         \* bound: sessions
    Callers,        \* requests in flight
    Servers,        \* processes, each of which seeds the table when it starts
    UserForms,      \* forms of createUser: [role, account]
    Patches,        \* forms of updateUser
    MaxUserCalls    \* bound: requests, failed statements and expiries

ASSUME UsersAssumption ==
    /\ Seed \in UserIds /\ Staff \notin Accounts
    /\ \A f \in UserForms : f.role \in ValidRoles /\ f.account \in Accounts \cup {Staff}
    /\ \A p \in Patches : /\ DOMAIN p \subseteq {"name", "role", "status"}
                          /\ "role" \in DOMAIN p => p.role \in ValidRoles
                          /\ "status" \in DOMAIN p => p.status \in {"ACTIVE", "SUSPENDED"}
    /\ MaxUserCalls \in Nat

VARIABLES
    user,       \* the table: [role, status, account]
    session,    \* token -> its user
    call,       \* per request: where it is
    seeding,    \* per server: where SeedDefaultAdmin is
    asked,      \* history: the account asked for at creation, per user
    failed,     \* history: users whose creation failed half-way
    userCalls

userVars == <<user, session, call, seeding, asked, failed, userCalls>>

NoCall == [at |-> "idle"]
\* A row that is not there, and one that never will be again.
NoUser == "absent"
Gone == "gone"
IsUser(u) == user[u].status \notin {NoUser, Gone}
NewUser(role) == [role |-> role, status |-> "ACTIVE", account |-> Staff]

UsersInit ==
    /\ user = [u \in UserIds |-> [NewUser("VIEWER") EXCEPT !.status = NoUser]]
    /\ session = [t \in Tokens |-> NoUser]
    /\ call = [c \in Callers |-> NoCall]
    /\ seeding = [s \in Servers |-> "count"]
    /\ asked = [u \in UserIds |-> Staff]
    /\ failed = {} /\ userCalls = 0

Charge == userCalls < MaxUserCalls /\ userCalls' = userCalls + 1
Enter(c, to) == call' = [call EXCEPT ![c] = to]
Leave(c) == Enter(c, NoCall)
-----------------------------------------------------------------------------
(* SeedDefaultAdmin, in every server: counts, then creates *)

CountUsers(s) ==
    /\ seeding[s] = "count"
    /\ seeding' = [seeding EXCEPT ![s] = IF \E u \in UserIds : IsUser(u) THEN "done" ELSE "create"]
    /\ UNCHANGED <<user, session, call, asked, failed, userCalls>>

\* The index on emails refuses the second one.
SeedDefaultAdmin(s) ==
    /\ seeding[s] = "create"
    /\ user' = IF user[Seed].status = NoUser THEN [user EXCEPT ![Seed] = NewUser("ADMIN")] ELSE user
    /\ seeding' = [seeding EXCEPT ![s] = "done"]
    /\ UNCHANGED <<session, call, asked, failed, userCalls>>
-----------------------------------------------------------------------------
(* Sessions *)

\* mutLogin, with the right password: the user is read ...
Login(c, u) ==
    /\ call[c] = NoCall /\ Charge
    /\ user[u].status = "ACTIVE"
    /\ Enter(c, [at |-> "login", user |-> u])
    /\ UNCHANGED <<user, session, seeding, asked, failed>>

\* ... and a session made, if the user still exists.
CreateSession(c, t) ==
    /\ call[c].at = "login"
    /\ \/ /\ IsUser(call[c].user) /\ session[t] = NoUser
          /\ session' = [session EXCEPT ![t] = call[c].user]
       \/ ~IsUser(call[c].user) /\ UNCHANGED session
    /\ Leave(c)
    /\ UNCHANGED <<user, seeding, asked, failed, userCalls>>

\* contextWithIdentity, UserForToken: the status of the user is not looked at.
AuthenticateSession(c, t) ==
    /\ call[c] = NoCall /\ Charge
    /\ session[t] \in UserIds
    /\ LET u == session[t] IN
       Enter(c, [at |-> "ready", token |-> t,
                 id |-> [user |-> u, role |-> user[u].role, account |-> user[u].account]])
    /\ UNCHANGED <<user, session, seeding, asked, failed>>

Logout(c) ==
    /\ call[c].at = "ready"
    /\ session' = [session EXCEPT ![call[c].token] = Gone]
    /\ Leave(c)
    /\ UNCHANGED <<user, seeding, asked, failed, userCalls>>

Expire(t) ==
    /\ session[t] \in UserIds /\ Charge
    /\ session' = [session EXCEPT ![t] = Gone]
    /\ UNCHANGED <<user, call, seeding, asked, failed>>
-----------------------------------------------------------------------------
(* Administration of users *)

Manages(c) == call[c].at = "ready" /\ May(call[c].id, "users:manage")

\* mutCreateUser inserts staff; an account is given in a second statement.
CreateUser(c, u, form) ==
    /\ Manages(c) /\ user[u].status = NoUser /\ u # Seed
    /\ user' = [user EXCEPT ![u] = NewUser(form.role)]
    /\ asked' = [asked EXCEPT ![u] = form.account]
    /\ IF form.account = Staff THEN Leave(c)
       ELSE Enter(c, [at |-> "bind", user |-> u, account |-> form.account])
    /\ UNCHANGED <<session, seeding, failed, userCalls>>

\* UpdateUser: the columns that the patch has; without an account it keeps the row's.
Mutant_Patched(row, patch) ==
    [f \in DOMAIN row |-> IF f \in DOMAIN patch THEN patch[f] ELSE IF f = "account" THEN Staff ELSE row[f]]
Patched(row, patch) == [f \in DOMAIN row |-> IF f \in DOMAIN patch THEN patch[f] ELSE row[f]]
UpdateRow(u, patch) ==
    user' = IF IsUser(u) THEN [user EXCEPT ![u] = Patched(user[u], patch)] ELSE user

Bind(c) ==
    /\ call[c].at = "bind"
    /\ LET u == call[c].user IN
       \/ /\ UpdateRow(u, [account |-> call[c].account])
          /\ UNCHANGED <<failed, userCalls>>
       \/ /\ Charge /\ failed' = failed \cup {u}
          /\ UNCHANGED user
    /\ Leave(c)
    /\ UNCHANGED <<session, seeding, asked>>

UpdateUser(c, u, patch) ==
    /\ Manages(c) /\ IsUser(u)
    /\ UpdateRow(u, patch)
    /\ Leave(c)
    /\ UNCHANGED <<session, seeding, asked, failed, userCalls>>

\* mutDeleteUser: not oneself.  Sessions go with their user.
MayDelete(c, u) == Manages(c) /\ call[c].id.user # u
DeleteUser(c, u) ==
    /\ MayDelete(c, u) /\ IsUser(u)
    /\ user' = [user EXCEPT ![u].status = Gone]
    /\ session' = [t \in Tokens |-> IF session[t] = u THEN Gone ELSE session[t]]
    /\ Leave(c)
    /\ UNCHANGED <<seeding, asked, failed, userCalls>>

\* Without the permission, with a form that is not valid, of a user who does not exist.
RefuseCall(c) ==
    /\ call[c].at = "ready"
    /\ Leave(c)
    /\ UNCHANGED <<user, session, seeding, asked, failed, userCalls>>
-----------------------------------------------------------------------------
UsersNext ==
    \/ \E s \in Servers : CountUsers(s) \/ SeedDefaultAdmin(s)
    \/ \E t \in Tokens : Expire(t)
    \/ \E c \in Callers :
          \/ \E t \in Tokens : AuthenticateSession(c, t) \/ CreateSession(c, t)
          \/ \E u \in UserIds :
                \/ Login(c, u) \/ DeleteUser(c, u)
                \/ \E form \in UserForms : CreateUser(c, u, form)
                \/ \E patch \in Patches : UpdateUser(c, u, patch)
          \/ Logout(c) \/ Bind(c) \/ RefuseCall(c)

\* A user belongs to the account that was asked for at creation, whoever edits it since:
\* until the second statement of the creation, and for good if that one fails, it is staff.
BoundAsAsked ==
    \A u \in UserIds \ failed :
       IsUser(u) => \/ user[u].account = asked[u]
                    \/ \E c \in Callers : call[c].at = "bind" /\ call[c].user = u
=============================================================================
