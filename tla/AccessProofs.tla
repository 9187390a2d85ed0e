---------------------------- MODULE AccessProofs ----------------------------
(***************************************************************************)
(* Theorems about Access, for any number of users, requests, keys, rows,   *)
(* customers and minutes: all that the run `access' checks.                *)
(***************************************************************************)
EXTENDS Access, TLAPS

\* A behaviour of Access is about one side, and on either it is one of that side.
LEMMA OneSide ==
    AccessNext \/ UNCHANGED accessVars =>
        (UsersNext \/ UNCHANGED userVars) /\ (ApiNext \/ UNCHANGED apiVars)
BY DEF AccessNext, accessVars

-----------------------------------------------------------------------------
(* Users *)

UserRow == [role : ValidRoles, status : {NoUser, "ACTIVE", "SUSPENDED", Gone},
            account : Accounts \cup {Staff}]
Owner == Accounts \cup {Staff}

\* A request acts for one of the table's ids, and one that is to bind a user binds it to
\* the account that was asked for.
CallOK(c) ==
    /\ call[c].at = "ready" => call[c].id.user \in UserIds
    /\ call[c].at = "bind" =>
          /\ call[c].user \in UserIds
          /\ call[c].account = asked[call[c].user]
          /\ user[call[c].user].status # NoUser

UsersInv ==
    /\ user \in [UserIds -> UserRow]
    /\ call = [c \in Callers |-> call[c]]
    /\ asked \in [UserIds -> Owner]
    /\ asked[Seed] = Staff
    /\ \A c \in Callers : CallOK(c)

\* A row that an UPDATE does not find is not made, and one it finds stays there.
PatchOK(p) ==
    /\ "role" \in DOMAIN p => p.role \in ValidRoles
    /\ "status" \in DOMAIN p => p.status \in {"ACTIVE", "SUSPENDED"}
    /\ "account" \in DOMAIN p => p.account \in Owner
LEMMA UpdateKeeps ==
    ASSUME UsersInv, NEW u \in UserIds, NEW p, PatchOK(p), UpdateRow(u, p)
    PROVE  /\ user' \in [UserIds -> UserRow]
           /\ \A v \in UserIds :
                 /\ IsUser(v)' <=> IsUser(v)
                 /\ user'[v].status = NoUser <=> user[v].status = NoUser
                 /\ v # u => user'[v] = user[v]
                 /\ "account" \notin DOMAIN p => user'[v].account = user[v].account
           /\ "account" \in DOMAIN p /\ IsUser(u) => user'[u].account = p.account
<1>1. CASE ~IsUser(u)
  BY <1>1 DEF UpdateRow, UsersInv, IsUser
<1>2. CASE IsUser(u)
  <2> DEFINE r == user[u]
             n == Patched(r, p)
  <2>1. r \in UserRow
    BY DEF UsersInv
  <2>2. DOMAIN r = {"role", "status", "account"}
    BY <2>1 DEF UserRow
  <2>3. /\ n = [f \in {"role", "status", "account"} |-> IF f \in DOMAIN p THEN p[f] ELSE r[f]]
    BY <2>2 DEF Patched
  <2>4. /\ n.role = IF "role" \in DOMAIN p THEN p.role ELSE r.role
        /\ n.status = IF "status" \in DOMAIN p THEN p.status ELSE r.status
        /\ n.account = IF "account" \in DOMAIN p THEN p.account ELSE r.account
    BY <2>3
  <2>5. /\ n.role \in ValidRoles /\ n.account \in Owner
        /\ n.status \in {NoUser, "ACTIVE", "SUSPENDED", Gone}
    BY <2>1, <2>4 DEF PatchOK, UserRow, Owner
  <2>6. n = [role |-> n.role, status |-> n.status, account |-> n.account]
    BY <2>3
  <2>7. n \in UserRow
    BY <2>5, <2>6 DEF UserRow, Owner
  <2>8. user' = [user EXCEPT ![u] = n]
    BY <1>2 DEF UpdateRow
  <2>9. n.status \notin {NoUser, Gone} /\ r.status \notin {NoUser, Gone}
    BY <1>2, <2>4 DEF PatchOK, IsUser, NoUser, Gone
  <2> HIDE DEF n
  <2>10. user'[u] = n /\ user' \in [UserIds -> UserRow]
    BY <2>7, <2>8 DEF UsersInv
  <2>11. ASSUME NEW v \in UserIds, v # u PROVE user'[v] = user[v]
    BY <2>8, <2>11 DEF UsersInv
  <2>12. (IsUser(u)' <=> IsUser(u)) /\ (user'[u].status = NoUser <=> user[u].status = NoUser)
    BY <2>9, <2>10 DEF IsUser
  <2>13. /\ "account" \notin DOMAIN p => user'[u].account = user[u].account
         /\ "account" \in DOMAIN p => user'[u].account = p.account
    BY <2>4, <2>10
  <2> QED
    BY <2>10, <2>11, <2>12, <2>13 DEF IsUser
<1> QED
  BY <1>1, <1>2
LEMMA UsersStart == UsersInit => UsersInv /\ BoundAsAsked
<1> SUFFICES ASSUME UsersInit PROVE UsersInv /\ BoundAsAsked
  OBVIOUS
<1>1. [NewUser("VIEWER") EXCEPT !.status = NoUser] \in UserRow
  BY DEF NewUser, UserRow, ValidRoles, RolePerms
<1>2. \A u \in UserIds : user[u].status = NoUser
  BY DEF UsersInit, NewUser
<1> QED
  BY <1>1, <1>2, UsersAssumption
     DEF UsersInit, UsersInv, CallOK, NoCall, Owner, BoundAsAsked, IsUser

\* The invariant with the property of users is inductive: one step of one actor.
UsersIInv == UsersInv /\ BoundAsAsked

\* A request that moves on without touching the tables.
LEMMA CallMoves ==
    ASSUME UsersIInv, NEW c \in Callers, NEW to, Enter(c, to),
           call[c].at # "bind", to.at # "bind", to.at = "ready" => to.id.user \in UserIds,
           UNCHANGED <<user, asked, failed>>
    PROVE  UsersIInv'
<1>1. /\ \A d \in Callers : d # c => call'[d] = call[d]
      /\ call'[c] = to /\ call' = [d \in Callers |-> call'[d]]
  BY DEF Enter, UsersIInv, UsersInv
<1>2. \A d \in Callers : CallOK(d)'
  BY <1>1 DEF UsersIInv, UsersInv, CallOK
<1>3. UsersInv'
  BY <1>1, <1>2 DEF UsersIInv, UsersInv
<1>5. BoundAsAsked'
  BY <1>1 DEF UsersIInv, BoundAsAsked, IsUser
<1> QED
  BY <1>3, <1>5 DEF UsersIInv

LEMMA SeedKeeps ==
    ASSUME UsersIInv, NEW s \in Servers, SeedDefaultAdmin(s)
    PROVE  UsersIInv'
<1>1. CASE user[Seed].status # NoUser
  BY <1>1 DEF SeedDefaultAdmin, UsersIInv, UsersInv, CallOK, BoundAsAsked, IsUser
<1>2. CASE user[Seed].status = NoUser
  <2>1. user' = [user EXCEPT ![Seed] = NewUser("ADMIN")] /\ Seed \in UserIds
    BY <1>2, UsersAssumption DEF SeedDefaultAdmin
  <2>2. NewUser("ADMIN") \in UserRow
    BY DEF NewUser, UserRow, ValidRoles, RolePerms
  <2>3. /\ user' \in [UserIds -> UserRow] /\ user'[Seed] = NewUser("ADMIN")
        /\ \A u \in UserIds : u # Seed => user'[u] = user[u]
    BY <2>1, <2>2 DEF UsersIInv, UsersInv
  <2>4. user'[Seed].status = "ACTIVE" /\ user'[Seed].account = Staff
    BY <2>3 DEF NewUser
  <2>5. \A c \in Callers : CallOK(c)'
    BY <2>3, <2>4 DEF UsersIInv, UsersInv, CallOK, SeedDefaultAdmin, NoUser
  <2>6. UsersInv'
    BY <2>3, <2>5 DEF UsersIInv, UsersInv, SeedDefaultAdmin
  <2>8. BoundAsAsked'
    BY <2>3, <2>4 DEF UsersIInv, UsersInv, BoundAsAsked, IsUser, SeedDefaultAdmin
  <2> QED
    BY <2>6, <2>8 DEF UsersIInv
<1> QED
  BY <1>1, <1>2

LEMMA CreateKeeps ==
    ASSUME UsersIInv, NEW c \in Callers, NEW u \in UserIds, NEW form \in UserForms,
           CreateUser(c, u, form)
    PROVE  UsersIInv'
<1> USE DEF UsersIInv
<1>1. /\ user' = [user EXCEPT ![u] = NewUser(form.role)]
      /\ asked' = [asked EXCEPT ![u] = form.account]
      /\ user[u].status = NoUser /\ u # Seed /\ call[c].at = "ready"
      /\ form.role \in ValidRoles /\ form.account \in Owner
  BY UsersAssumption DEF CreateUser, Manages, Owner
<1>2. NewUser(form.role) \in UserRow
  BY <1>1 DEF NewUser, UserRow
<1>3. /\ user' \in [UserIds -> UserRow] /\ user'[u] = NewUser(form.role)
      /\ asked' \in [UserIds -> Owner] /\ asked'[u] = form.account
      /\ \A v \in UserIds : v # u => user'[v] = user[v] /\ asked'[v] = asked[v]
  BY <1>1, <1>2 DEF UsersInv
<1>4. user'[u].status = "ACTIVE" /\ user'[u].account = Staff
  BY <1>3 DEF NewUser
<1>5. /\ call' = [d \in Callers |-> call'[d]]
      /\ \A d \in Callers : d # c => call'[d] = call[d]
      /\ \/ form.account = Staff /\ call'[c] = NoCall
         \/ call'[c] = [at |-> "bind", user |-> u, account |-> form.account]
  BY DEF CreateUser, Leave, Enter, UsersInv
<1>6. \A d \in Callers : d # c /\ call[d].at = "bind" => call[d].user # u
  BY <1>1 DEF UsersInv, CallOK
<1>7. \A d \in Callers : d # c => CallOK(d)'
  BY <1>3, <1>5, <1>6 DEF UsersInv, CallOK
<1>8. CallOK(c)'
  BY <1>3, <1>4, <1>5 DEF CallOK, NoCall, NoUser
<1>9. UsersInv'
  BY <1>1, <1>3, <1>5, <1>7, <1>8, UsersAssumption DEF UsersInv, CreateUser
<1>11. BoundAsAsked'
  <2> SUFFICES ASSUME NEW v \in UserIds \ failed', IsUser(v)'
               PROVE  \/ user'[v].account = asked'[v]
                      \/ \E d \in Callers : call'[d].at = "bind" /\ call'[d].user = v
    BY DEF BoundAsAsked
  <2>1. CASE v = u
    BY <1>3, <1>4, <1>5, <2>1
  <2>2. CASE v # u
    <3>1. IsUser(v) /\ v \notin failed
      BY <1>3, <2>2 DEF IsUser, CreateUser
    <3>2. CASE user[v].account = asked[v]
      BY <1>3, <2>2, <3>2
    <3>3. ASSUME NEW d \in Callers, call[d].at = "bind", call[d].user = v
          PROVE  call'[d].at = "bind" /\ call'[d].user = v
      BY <1>1, <1>5, <3>3
    <3> QED
      BY <3>1, <3>2, <3>3 DEF BoundAsAsked
  <2> QED
    BY <2>1, <2>2
<1> QED
  BY <1>9, <1>11

LEMMA DeleteKeeps ==
    ASSUME UsersIInv, NEW c \in Callers, NEW u \in UserIds, DeleteUser(c, u)
    PROVE  UsersIInv'
<1> USE DEF UsersIInv
<1>1. /\ call[c].at = "ready" /\ call[c].id.user \in UserIds /\ call[c].id.user # u
      /\ IsUser(u)
  BY DEF DeleteUser, MayDelete, Manages, UsersInv, CallOK
<1>2. /\ user' = [user EXCEPT ![u].status = Gone]
      /\ UNCHANGED <<asked, failed>>
  BY DEF DeleteUser
<1>3. [user[u] EXCEPT !.status = Gone] \in UserRow
  BY DEF UsersInv, UserRow
<1>4. /\ user' \in [UserIds -> UserRow] /\ user'[u].status = Gone
      /\ \A v \in UserIds : v # u => user'[v] = user[v]
  BY <1>2, <1>3 DEF UsersInv, UserRow
<1>5. /\ call' = [d \in Callers |-> call'[d]] /\ call'[c] = NoCall
      /\ \A d \in Callers : d # c => call'[d] = call[d]
  BY DEF DeleteUser, Leave, Enter, UsersInv
<1>6. \A d \in Callers : CallOK(d)'
  BY <1>2, <1>4, <1>5 DEF UsersInv, CallOK, NoCall, Gone, NoUser
<1>7. UsersInv'
  BY <1>2, <1>4, <1>5, <1>6 DEF UsersInv
<1>9. BoundAsAsked'
  BY <1>1, <1>2, <1>4, <1>5 DEF BoundAsAsked, IsUser
<1> QED
  BY <1>7, <1>9

LEMMA PatchKeeps ==
    ASSUME UsersIInv, NEW c \in Callers, NEW u \in UserIds, NEW patch \in Patches,
           UpdateUser(c, u, patch)
    PROVE  UsersIInv'
<1> USE DEF UsersIInv
<1>1. PatchOK(patch) /\ "account" \notin DOMAIN patch
  BY UsersAssumption DEF PatchOK
<1>2. /\ UpdateRow(u, patch) /\ call[c].at = "ready"
      /\ UNCHANGED <<asked, failed>>
  BY DEF UpdateUser, Manages
<1>3. /\ user' \in [UserIds -> UserRow]
      /\ \A v \in UserIds : /\ IsUser(v)' <=> IsUser(v)
                            /\ user'[v].status = NoUser <=> user[v].status = NoUser
                            /\ user'[v].account = user[v].account
  BY <1>1, <1>2, UpdateKeeps
<1>4. /\ call' = [d \in Callers |-> call'[d]] /\ call'[c] = NoCall
      /\ \A d \in Callers : d # c => call'[d] = call[d]
  BY DEF UpdateUser, Leave, Enter, UsersInv
<1>5. \A d \in Callers : CallOK(d)'
  BY <1>2, <1>3, <1>4 DEF UsersInv, CallOK, NoCall
<1>6. UsersInv'
  BY <1>2, <1>3, <1>4, <1>5 DEF UsersInv
<1>8. BoundAsAsked'
  BY <1>2, <1>3, <1>4 DEF BoundAsAsked
<1> QED
  BY <1>6, <1>8

LEMMA BindKeeps ==
    ASSUME UsersIInv, NEW c \in Callers, Bind(c)
    PROVE  UsersIInv'
<1> USE DEF UsersIInv
<1> DEFINE u == call[c].user
<1>1. /\ call[c].at = "bind" /\ u \in UserIds /\ call[c].account = asked[u]
      /\ UNCHANGED <<asked>>
  BY DEF Bind, UsersInv, CallOK
<1>2. /\ call' = [d \in Callers |-> call'[d]] /\ call'[c] = NoCall
      /\ \A d \in Callers : d # c => call'[d] = call[d]
  BY DEF Bind, Leave, Enter, UsersInv
<1>3. CASE UpdateRow(u, [account |-> call[c].account]) /\ UNCHANGED failed
  <2> DEFINE p == [account |-> call[c].account]
  <2>1. DOMAIN p = {"account"} /\ p.account = asked[u] /\ asked[u] \in Owner
    BY <1>1 DEF UsersInv
  <2>2. PatchOK(p)
    BY <2>1 DEF PatchOK
  <2>3. /\ user' \in [UserIds -> UserRow]
        /\ \A v \in UserIds :
              /\ IsUser(v)' <=> IsUser(v)
              /\ user'[v].status = NoUser <=> user[v].status = NoUser
              /\ v # u => user'[v] = user[v]
        /\ IsUser(u) => user'[u].account = asked[u]
    BY <1>1, <1>3, <2>1, <2>2, UpdateKeeps
  <2>4. \A d \in Callers : CallOK(d)'
    BY <1>1, <1>2, <2>3 DEF UsersInv, CallOK, NoCall
  <2>5. UsersInv'
    BY <1>1, <1>2, <2>3, <2>4 DEF UsersInv
  <2>7. BoundAsAsked'
    BY <1>1, <1>2, <1>3, <2>3 DEF BoundAsAsked
  <2> QED
    BY <2>5, <2>7
<1>4. CASE UNCHANGED user /\ failed' = failed \cup {u}
  <2>1. \A d \in Callers : CallOK(d)'
    BY <1>1, <1>2, <1>4 DEF UsersInv, CallOK, NoCall
  <2>2. UsersInv'
    BY <1>1, <1>2, <1>4, <2>1 DEF UsersInv
  <2>4. BoundAsAsked'
    BY <1>1, <1>2, <1>4 DEF BoundAsAsked, IsUser
  <2> QED
    BY <2>2, <2>4
<1> QED
  BY <1>3, <1>4 DEF Bind

LEMMA UsersStep == UsersIInv /\ (UsersNext \/ UNCHANGED userVars) => UsersIInv'
<1> SUFFICES ASSUME UsersIInv, UsersNext \/ UNCHANGED userVars PROVE UsersIInv'
  OBVIOUS
<1> USE DEF UsersIInv
<1>0. CASE UNCHANGED <<user, call, asked, failed>>
  BY <1>0 DEF UsersInv, CallOK, BoundAsAsked, IsUser
<1>1. ASSUME NEW s \in Servers, CountUsers(s) \/ SeedDefaultAdmin(s) PROVE UsersIInv'
  BY <1>0, <1>1, SeedKeeps DEF CountUsers
<1>2. ASSUME NEW t \in Tokens, Expire(t) PROVE UsersIInv'
  BY <1>0, <1>2 DEF Expire
<1>3. ASSUME NEW c \in Callers, NEW t \in Tokens, AuthenticateSession(c, t) PROVE UsersIInv'
  <2> DEFINE to == [at |-> "ready", token |-> t,
                    id |-> [user |-> session[t], role |-> user[session[t]].role,
                            account |-> user[session[t]].account]]
  <2>1. Enter(c, to) /\ to.at = "ready" /\ to.id.user \in UserIds /\ call[c].at # "bind"
    BY <1>3 DEF AuthenticateSession, NoCall
  <2> QED
    BY <1>3, <2>1, CallMoves DEF AuthenticateSession
<1>4. ASSUME NEW c \in Callers, NEW u \in UserIds, Login(c, u) PROVE UsersIInv'
  <2> DEFINE to == [at |-> "login", user |-> u]
  <2>1. Enter(c, to) /\ to.at = "login" /\ call[c].at # "bind"
    BY <1>4 DEF Login, NoCall
  <2> QED
    BY <1>4, <2>1, CallMoves DEF Login
<1>5. ASSUME NEW c \in Callers, \/ \E t \in Tokens : CreateSession(c, t)
                                \/ Logout(c) \/ RefuseCall(c)
      PROVE  UsersIInv'
  <2>1. Enter(c, NoCall) /\ NoCall.at = "idle" /\ call[c].at # "bind"
    BY <1>5 DEF CreateSession, Logout, RefuseCall, Leave, NoCall
  <2> QED
    BY <1>5, <2>1, CallMoves DEF CreateSession, Logout, RefuseCall
<1>6. ASSUME NEW c \in Callers, Bind(c) PROVE UsersIInv'
  BY <1>6, BindKeeps
<1>7. ASSUME NEW c \in Callers, NEW u \in UserIds, DeleteUser(c, u) PROVE UsersIInv'
  BY <1>7, DeleteKeeps
<1>8. ASSUME NEW c \in Callers, NEW u \in UserIds, NEW f \in UserForms, CreateUser(c, u, f)
      PROVE  UsersIInv'
  BY <1>8, CreateKeeps
<1>9. ASSUME NEW c \in Callers, NEW u \in UserIds, NEW p \in Patches, UpdateUser(c, u, p)
      PROVE  UsersIInv'
  BY <1>9, PatchKeeps
<1> QED
  BY <1>0, <1>1, <1>2, <1>3, <1>4, <1>5, <1>6, <1>7, <1>8, <1>9 DEF UsersNext, userVars

\* A user is of the account it was created for (httpapi/admin.go:74), or is still to be
\* bound to it, or its creation failed half-way.
THEOREM UserBound == AccessSpec => []BoundAsAsked
<1>1. AccessInit => UsersIInv
  BY UsersStart DEF AccessInit, UsersIInv
<1>2. UsersIInv /\ [AccessNext]_accessVars => UsersIInv'
  BY UsersStep, OneSide
<1>3. UsersIInv => BoundAsAsked
  BY DEF UsersIInv
<1> QED
  BY <1>1, <1>2, <1>3, PTL DEF AccessSpec
-----------------------------------------------------------------------------
(* API keys and subscriptions *)

\* Rows have an owner from the day they are made, and their columns.
KeysOK ==
    /\ key = [k \in ApiKeyIds |-> key[k]]
    /\ \A k \in ApiKeyIds : /\ DOMAIN key[k] = {"there", "account", "enabled", "scopes"}
                            /\ key[k].there => key[k].account # Staff
SubsOK ==
    /\ sub = [s \in Subs |-> sub[s]]
    /\ \A s \in Subs : /\ DOMAIN sub[s] = {"there", "account"}
                       /\ sub[s].there => sub[s].account # Staff

\* What a request carries from one statement to the next is still so: above all, the
\* subscription it was told to be its account's is.
ReqOK(r) ==
    /\ req[r].at = "count" =>
          req[r].key \in ApiKeyIds /\ req[r].window \in Minutes /\ req[r].account # Staff
    /\ req[r].at \in {"tenant", "rest"} => req[r].account # Staff
    /\ req[r].at \in {"edit", "relevance"} =>
          req[r].account # Staff /\ req[r].sub \in Subs /\ sub[req[r].sub].account = req[r].account
ReqInv == req = [r \in Requests |-> req[r]] /\ \A r \in Requests : ReqOK(r)

OwnerOf(row) == (IF row \in Subs THEN sub[row] ELSE key[row]).account
TouchedOK ==
    \A t \in touched : t[1] \in Subs \cup ApiKeyIds /\ (t[2] = Staff \/ t[2] = OwnerOf(t[1]))

\* No owner changes, save that of a row that was never there.
OwnersStay ==
    /\ \A k \in ApiKeyIds : key'[k].account = key[k].account \/ key[k].account = Staff
    /\ \A s \in Subs : sub'[s].account = sub[s].account \/ sub[s].account = Staff

LEMMA TouchKeeps ==
    ASSUME TouchedOK, OwnersStay, NEW row \in Subs \cup ApiKeyIds, NEW account,
           touched' \subseteq touched \cup {<<row, account>>},
           account = Staff \/ OwnerOf(row)' = account
    PROVE  TouchedOK'
<1> SUFFICES ASSUME NEW t \in touched'
             PROVE  t[1] \in Subs \cup ApiKeyIds /\ (t[2] = Staff \/ t[2] = OwnerOf(t[1])')
  BY DEF TouchedOK
<1>1. CASE t = <<row, account>>
  BY <1>1
<1>2. CASE t \in touched
  BY <1>2 DEF TouchedOK, OwnersStay, OwnerOf
<1> QED
  BY <1>1, <1>2

\* A request moves on: what it carries then is so, and of the others it stays so.
LEMMA ReqMoves ==
    ASSUME ReqInv, OwnersStay, NEW r \in Requests, NEW to, req' = [req EXCEPT ![r] = to],
           to.at = "count" => to.key \in ApiKeyIds /\ to.window \in Minutes /\ to.account # Staff,
           to.at \in {"tenant", "rest"} => to.account # Staff,
           to.at \in {"edit", "relevance"} =>
              to.account # Staff /\ to.sub \in Subs /\ sub'[to.sub].account = to.account
    PROVE  ReqInv'
<1>1. /\ req'[r] = to /\ req' = [q \in Requests |-> req'[q]]
      /\ \A q \in Requests : q # r => req'[q] = req[q]
  BY DEF ReqInv
<1>2. ReqOK(r)'
  BY <1>1 DEF ReqOK
<1>3. ASSUME NEW q \in Requests, q # r PROVE ReqOK(q)'
  BY <1>1, <1>3 DEF ReqInv, ReqOK, OwnersStay
<1> QED
  BY <1>1, <1>2, <1>3 DEF ReqInv

LEMMA ReqEnds ==
    ASSUME ReqInv, OwnersStay, NEW r \in Requests, End(r)
    PROVE  ReqInv'
<1>1. req' = [req EXCEPT ![r] = NoReq] /\ NoReq.at = "idle"
  BY DEF End, MoveTo, NoReq
<1> HIDE DEF NoReq
<1> QED
  BY <1>1, ReqMoves

LEMMA ReqStays ==
    ASSUME ReqInv, OwnersStay, UNCHANGED req
    PROVE  ReqInv'
BY DEF ReqInv, ReqOK, OwnersStay

\* The window's row counts at least those that were let through in time, from the latest
\* minute on that was counted; a row that is gone is never counted again.
RateOK(k) ==
    /\ Fresh(key[k]) => \A w \in Minutes : onTime[k][w] = 0
    /\ key[k].there => \A w \in Minutes : w >= counted[k] => onTime[k][w] <= usage[k][w]
    /\ \A w \in Minutes : onTime[k][w] <= Limit
RateInv ==
    /\ usage \in [ApiKeyIds -> [Minutes -> Nat]]
    /\ onTime \in [ApiKeyIds -> [Minutes -> Nat]]
    /\ counted \in [ApiKeyIds -> Minutes]
    /\ \A k \in ApiKeyIds : RateOK(k)

ApiInv == KeysOK /\ SubsOK /\ ReqInv /\ TouchedOK /\ RateInv /\ minute \in Minutes

LEMMA ApiStart == ApiInit => ApiInv
<1> SUFFICES ASSUME ApiInit PROVE ApiInv
  OBVIOUS
<1>1. KeysOK /\ SubsOK
  BY StartAssumption DEF ApiInit, KeysOK, SubsOK
<1>2. ReqInv /\ TouchedOK
  BY DEF ApiInit, ReqInv, ReqOK, NoReq, TouchedOK
<1>3. 0 \in Minutes /\ Limit \in Nat
  BY ApiKeysAssumption DEF Minutes
<1>4. RateInv
  BY <1>3 DEF ApiInit, RateInv, RateOK
<1> QED
  BY <1>1, <1>2, <1>3, <1>4 DEF ApiInit, ApiInv

\* When the counters are left alone and no deleted key comes back, they still agree.
LEMMA RateKeeps ==
    ASSUME KeysOK, RateInv, UNCHANGED <<usage, counted, onTime>>,
           \A k \in ApiKeyIds : \/ key'[k].there => key[k].there \/ Fresh(key[k]),
           \A k \in ApiKeyIds : Fresh(key'[k]) => Fresh(key[k])
    PROVE  RateInv'
<1>1. ASSUME NEW k \in ApiKeyIds PROVE RateOK(k)'
  <2>1. Fresh(key[k])' => Fresh(key[k])
    BY DEF Fresh
  <2>2. CASE key'[k].there
    <3>1. \A w \in Minutes : w >= counted[k] => onTime[k][w] <= usage[k][w]
      <4>1. \A w \in Minutes : onTime[k][w] \in Nat /\ usage[k][w] \in Nat
        BY DEF RateInv
      <4>2. CASE Fresh(key[k])
        BY <4>1, <4>2 DEF RateInv, RateOK
      <4>3. CASE key[k].there
        BY <4>3 DEF RateInv, RateOK
      <4> QED
        BY <2>2, <4>2, <4>3
    <3> QED
      BY <2>1, <3>1, <1>1 DEF RateInv, RateOK
  <2>3. CASE ~key'[k].there
    BY <2>1, <2>3, <1>1 DEF RateInv, RateOK
  <2> QED
    BY <2>2, <2>3
<1> QED
  BY <1>1 DEF RateInv

\* A step that changes no key leaves what is known of keys and counters.
LEMMA KeysStay ==
    ASSUME ApiInv, UNCHANGED <<key, usage, counted, onTime>>
    PROVE  KeysOK' /\ RateInv' /\ \A k \in ApiKeyIds : key'[k].account = key[k].account
BY DEF ApiInv, KeysOK, RateInv, RateOK, Fresh

\* A step that changes no subscription.
LEMMA SubsStay ==
    ASSUME ApiInv, UNCHANGED sub
    PROVE  SubsOK' /\ \A s \in Subs : sub'[s].account = sub[s].account
BY DEF ApiInv, SubsOK

\* A row is made where there never was one.
LEMMA NewSub ==
    ASSUME ApiInv, NEW s \in Subs, NEW account, Fresh(sub[s]),
           sub' = [sub EXCEPT ![s] = NewSubscription(account)]
    PROVE  /\ SubsOK' /\ sub'[s] = NewSubscription(account)
           /\ account # Staff => sub'[s].account = account
           /\ \A x \in Subs : sub'[x].account = sub[x].account \/ sub[x].account = Staff
<1>1. /\ sub' = [x \in Subs |-> sub'[x]] /\ sub'[s] = NewSubscription(account)
      /\ \A x \in Subs : x # s => sub'[x] = sub[x]
  BY DEF ApiInv, SubsOK
<1>2. /\ DOMAIN NewSubscription(account) = {"there", "account"}
      /\ NewSubscription(account).account # Staff
      /\ account # Staff => NewSubscription(account).account = account
  BY ApiKeysAssumption DEF NewSubscription
<1> HIDE DEF NewSubscription
<1>3. SubsOK'
  BY <1>1, <1>2 DEF ApiInv, SubsOK
<1> QED
  BY <1>1, <1>2, <1>3 DEF Fresh

\* A row is there or not, and it stays its owner's.
LEMMA SubMarked ==
    ASSUME ApiInv, NEW s \in Subs, NEW there, there => sub[s].there,
           sub' = [sub EXCEPT ![s].there = there]
    PROVE  SubsOK' /\ \A x \in Subs : sub'[x].account = sub[x].account
<1> DEFINE row == [sub[s] EXCEPT !.there = there]
<1>1. /\ sub' = [x \in Subs |-> sub'[x]] /\ sub'[s] = row
      /\ \A x \in Subs : x # s => sub'[x] = sub[x]
  BY DEF ApiInv, SubsOK
<1>2. /\ DOMAIN row = {"there", "account"} /\ row.account = sub[s].account
      /\ row.there = there
  BY DEF ApiInv, SubsOK
<1> HIDE DEF row
<1>3. SubsOK'
  BY <1>1, <1>2 DEF ApiInv, SubsOK
<1> QED
  BY <1>1, <1>2, <1>3

LEMMA InsertKeeps ==
    ASSUME ApiInv, NEW r \in Requests, NEW s \in Subs, Insert(r, s), req[r].account # Staff
    PROVE  ApiInv'
<1>1. KeysOK' /\ RateInv' /\ \A k \in ApiKeyIds : key'[k].account = key[k].account
  BY KeysStay DEF Insert
<1>2. /\ SubsOK' /\ sub'[s].account = req[r].account
      /\ \A x \in Subs : sub'[x].account = sub[x].account \/ sub[x].account = Staff
  BY NewSub DEF Insert
<1>3. OwnersStay
  BY <1>1, <1>2 DEF OwnersStay
<1>4. ReqInv'
  BY <1>3, ReqEnds DEF Insert, ApiInv
<1>5. TouchedOK'
  <2>1. OwnerOf(s)' = req[r].account /\ touched' \subseteq touched \cup {<<s, req[r].account>>}
    BY <1>2 DEF OwnerOf, Insert, Touch
  <2> QED
    BY <1>3, <2>1, TouchKeeps DEF ApiInv
<1> QED
  BY <1>1, <1>2, <1>4, <1>5 DEF ApiInv, Insert

LEMMA WriteKeeps ==
    ASSUME ApiInv, NEW r \in Requests, req[r].at \in {"edit", "relevance"}, WriteOwned(r),
           UNCHANGED sub \/ sub' = [sub EXCEPT ![req[r].sub].there = FALSE]
    PROVE  ApiInv'
<1>0. PICK s \in Subs : s = req[r].sub /\ sub[s].account = req[r].account
  BY DEF ApiInv, ReqInv, ReqOK
<1>1. KeysOK' /\ RateInv' /\ \A k \in ApiKeyIds : key'[k].account = key[k].account
  BY KeysStay DEF WriteOwned
<1>2. SubsOK' /\ \A x \in Subs : sub'[x].account = sub[x].account
  BY <1>0, SubsStay, SubMarked
<1>3. OwnersStay
  BY <1>1, <1>2 DEF OwnersStay
<1>4. ReqInv'
  BY <1>3, ReqEnds DEF WriteOwned, ApiInv
<1>5. TouchedOK'
  <2>1. OwnerOf(s)' = req[r].account /\ touched' \subseteq touched \cup {<<s, req[r].account>>}
    BY <1>0, <1>2 DEF OwnerOf, WriteOwned, Touch
  <2> QED
    BY <1>0, <1>3, <2>1, TouchKeeps DEF ApiInv
<1> QED
  BY <1>1, <1>2, <1>4, <1>5 DEF ApiInv, WriteOwned

LEMMA StaffKeeps ==
    ASSUME ApiInv, NEW r \in Requests, NEW s \in Subs, StaffCreate(r, s) \/ StaffWrite(r, s)
    PROVE  ApiInv'
<1>1. KeysOK' /\ RateInv' /\ \A k \in ApiKeyIds : key'[k].account = key[k].account
  BY KeysStay DEF StaffCreate, StaffWrite
<1>2. /\ SubsOK'
      /\ \A x \in Subs : sub'[x].account = sub[x].account \/ sub[x].account = Staff
  BY NewSub, SubMarked DEF StaffCreate, StaffWrite
<1>3. OwnersStay
  BY <1>1, <1>2 DEF OwnersStay
<1>4. ReqInv'
  BY <1>3, ReqStays DEF StaffCreate, StaffWrite, ApiInv
<1>5. touched' \subseteq touched \cup {<<s, Staff>>}
  BY DEF StaffCreate, StaffWrite, Touch
<1>6. TouchedOK'
  BY <1>3, <1>5, TouchKeeps DEF ApiInv
<1> QED
  BY <1>1, <1>2, <1>4, <1>6 DEF ApiInv, StaffCreate, StaffWrite

\* A key is made where there never was one, and starts uncounted.
LEMMA NewKeyKeeps ==
    ASSUME ApiInv, NEW k \in ApiKeyIds, NEW account, NEW scopes, account # Staff, Fresh(key[k]),
           key' = [key EXCEPT ![k] = NewKey(account, scopes)],
           UNCHANGED <<usage, counted, onTime>>
    PROVE  /\ KeysOK' /\ RateInv' /\ key'[k].account = account
           /\ \A x \in ApiKeyIds : key'[x].account = key[x].account \/ key[x].account = Staff
<1>1. /\ key' = [x \in ApiKeyIds |-> key'[x]] /\ key'[k] = NewKey(account, scopes)
      /\ \A x \in ApiKeyIds : x # k => key'[x] = key[x]
  BY DEF ApiInv, KeysOK
<1>2. /\ DOMAIN key'[k] = {"there", "account", "enabled", "scopes"}
      /\ key'[k].there /\ key'[k].account = account
  BY <1>1 DEF NewKey
<1>3. KeysOK'
  BY <1>1, <1>2 DEF ApiInv, KeysOK
<1>4. RateOK(k)'
  <2>1. \A w \in Minutes : onTime[k][w] = 0 /\ usage[k][w] \in Nat /\ onTime[k][w] <= Limit
    BY DEF ApiInv, RateInv, RateOK
  <2>2. \A w \in Minutes : onTime[k][w] <= usage[k][w]
    BY <2>1
  <2> QED
    BY <1>2, <2>1, <2>2 DEF RateOK, Fresh
<1>5. ASSUME NEW x \in ApiKeyIds, x # k PROVE RateOK(x)'
  BY <1>1, <1>5 DEF ApiInv, RateInv, RateOK
<1>6. RateInv'
  BY <1>4, <1>5 DEF ApiInv, RateInv
<1> QED
  BY <1>1, <1>2, <1>3, <1>6 DEF Fresh

\* A key is deleted with its counters, or switched.
LEMMA OldKeyKeeps ==
    ASSUME ApiInv, NEW k \in ApiKeyIds, key[k].there,
           \/ /\ key' = [key EXCEPT ![k].there = FALSE]
              /\ usage' = [usage EXCEPT ![k] = [w \in Minutes |-> 0]]
           \/ key' = [key EXCEPT ![k].enabled = ~@] /\ UNCHANGED usage,
           UNCHANGED <<counted, onTime>>
    PROVE  KeysOK' /\ RateInv' /\ \A x \in ApiKeyIds : key'[x].account = key[x].account
<1>1. /\ key' = [x \in ApiKeyIds |-> key'[x]]
      /\ \A x \in ApiKeyIds : x # k => key'[x] = key[x] /\ usage'[x] = usage[x]
      /\ usage' \in [ApiKeyIds -> [Minutes -> Nat]]
  <2>1. \A x \in ApiKeyIds : x # k => key'[x] = key[x]
    BY DEF ApiInv, KeysOK
  <2>2. key' = [x \in ApiKeyIds |-> key'[x]]
    BY DEF ApiInv, KeysOK
  <2>3. [w \in Minutes |-> 0] \in [Minutes -> Nat]
    OBVIOUS
  <2>4. /\ \A x \in ApiKeyIds : x # k => usage'[x] = usage[x]
        /\ usage' \in [ApiKeyIds -> [Minutes -> Nat]]
    BY <2>3 DEF ApiInv, RateInv
  <2> QED
    BY <2>1, <2>2, <2>4
<1>2. /\ DOMAIN key'[k] = {"there", "account", "enabled", "scopes"}
      /\ key'[k].account = key[k].account /\ key[k].account # Staff
      /\ ~key'[k].there \/ (key'[k].there = key[k].there /\ UNCHANGED usage)
  BY DEF ApiInv, KeysOK
<1>3. KeysOK'
  BY <1>1, <1>2 DEF ApiInv, KeysOK
<1>4. RateOK(k)'
  BY <1>2 DEF ApiInv, RateInv, RateOK, Fresh
<1>5. ASSUME NEW x \in ApiKeyIds, x # k PROVE RateOK(x)'
  BY <1>1, <1>5 DEF ApiInv, RateInv, RateOK
<1>6. RateInv'
  BY <1>1, <1>4, <1>5 DEF ApiInv, RateInv
<1> QED
  BY <1>1, <1>2, <1>3, <1>6

\* A request is counted in its window's row, which a later minute's may have replaced.
LEMMA CountKeeps ==
    ASSUME ApiInv, NEW r \in Requests, AllowAPIRequest(r)
    PROVE  ApiInv'
<1>0. PICK k \in ApiKeyIds : k = req[r].key
  BY DEF AllowAPIRequest, ApiInv, ReqInv, ReqOK
<1>1. PICK w \in Minutes : w = req[r].window
  BY DEF AllowAPIRequest, ApiInv, ReqInv, ReqOK
<1>2. req[r].account # Staff /\ UNCHANGED <<key, sub, minute, touched>>
  BY DEF AllowAPIRequest, ApiInv, ReqInv, ReqOK
<1>3. KeysOK' /\ SubsOK' /\ OwnersStay
  BY <1>2 DEF ApiInv, KeysOK, SubsOK, OwnersStay
<1>4. TouchedOK'
  BY <1>2 DEF ApiInv, TouchedOK, OwnerOf
<1>5. CASE ~key[k].there
  <2>1. End(r) /\ UNCHANGED <<usage, counted, onTime>>
    BY <1>0, <1>5 DEF AllowAPIRequest
  <2>2. ReqInv'
    BY <1>3, <2>1, ReqEnds DEF ApiInv
  <2>3. RateInv'
    BY <1>2, <2>1, KeysStay
  <2> QED
    BY <1>2, <1>3, <1>4, <2>2, <2>3 DEF ApiInv
<1>6. CASE key[k].there
  <2> DEFINE c == Counted(k, w)
             allowed == c[w] <= Limit
  <2>1. /\ usage' = [usage EXCEPT ![k] = c]
        /\ counted' = [counted EXCEPT ![k] = IF w > @ THEN w ELSE @]
        /\ onTime' = IF allowed /\ w >= counted[k] THEN [onTime EXCEPT ![k][w] = @ + 1] ELSE onTime
        /\ \/ MoveTo(r, [at |-> "rest", account |-> req[r].account])
           \/ End(r)
    BY <1>0, <1>1, <1>6 DEF AllowAPIRequest
  <2>2. ReqInv'
    <3>1. CASE End(r)
      BY <1>3, <3>1, ReqEnds DEF ApiInv
    <3>2. CASE MoveTo(r, [at |-> "rest", account |-> req[r].account])
      BY <1>2, <1>3, <3>2, ReqMoves DEF ApiInv, MoveTo
    <3> QED
      BY <2>1, <3>1, <3>2
  <2>3. Minutes \subseteq Int /\ Limit \in Nat
    BY ApiKeysAssumption DEF Minutes
  <2>4. /\ c \in [Minutes -> Nat] /\ c[w] = usage[k][w] + 1
        /\ \A v \in Minutes : v > w => c[v] = usage[k][v]
    <3> DEFINE of(v) == IF v = w THEN 1 + IF v < w THEN 0 ELSE usage[k][v]
                        ELSE IF v < w THEN 0 ELSE usage[k][v]
    <3>1. usage[k] \in [Minutes -> Nat]
      BY DEF ApiInv, RateInv
    <3>2. c = [v \in Minutes |-> of(v)]
      BY DEF Counted, Stale
    <3>3. ASSUME NEW v \in Minutes
          PROVE  of(v) \in Nat /\ (v = w => of(v) = usage[k][v] + 1) /\ (v > w => of(v) = usage[k][v])
      <4>1. usage[k][v] \in Nat /\ v \in Int /\ w \in Int
        BY <2>3, <3>1
      <4> HIDE DEF c
      <4> QED
        BY <4>1
    <3> HIDE DEF c, of
    <3> QED
      BY <3>2, <3>3
  <2> HIDE DEF c
  <2>5. /\ usage' \in [ApiKeyIds -> [Minutes -> Nat]] /\ usage'[k] = c
        /\ \A x \in ApiKeyIds : x # k => usage'[x] = usage[x]
    BY <2>1, <2>4 DEF ApiInv, RateInv
  <2>6. /\ counted' \in [ApiKeyIds -> Minutes] /\ counted'[k] = IF w > counted[k] THEN w ELSE counted[k]
        /\ \A x \in ApiKeyIds : x # k => counted'[x] = counted[x]
    BY <2>1 DEF ApiInv, RateInv
  <2>7. /\ onTime' \in [ApiKeyIds -> [Minutes -> Nat]]
        /\ \A x \in ApiKeyIds : x # k => onTime'[x] = onTime[x]
        /\ \A v \in Minutes : onTime'[k][v] = IF allowed /\ w >= counted[k] /\ v = w
                                              THEN onTime[k][v] + 1 ELSE onTime[k][v]
    <3>1. onTime \in [ApiKeyIds -> [Minutes -> Nat]]
      BY DEF ApiInv, RateInv
    <3>2. CASE allowed /\ w >= counted[k]
      <4>1. onTime' = [onTime EXCEPT ![k] = [onTime[k] EXCEPT ![w] = onTime[k][w] + 1]]
        BY <2>1, <3>2
      <4>2. [onTime[k] EXCEPT ![w] = onTime[k][w] + 1] \in [Minutes -> Nat]
        BY <3>1
      <4> QED
        BY <3>1, <3>2, <4>1, <4>2
    <3>3. CASE ~(allowed /\ w >= counted[k])
      BY <2>1, <3>1, <3>3
    <3> QED
      BY <3>2, <3>3
  <2>8. RateOK(k)'
    <3>1. /\ counted[k] \in Int /\ w \in Int /\ ~Fresh(key[k])'
          /\ \A v \in Minutes : /\ onTime[k][v] \in Nat /\ usage[k][v] \in Nat /\ v \in Int
                                /\ onTime[k][v] <= Limit
                                /\ v >= counted[k] => onTime[k][v] <= usage[k][v]
      BY <1>2, <1>6, <2>3 DEF ApiInv, RateInv, RateOK, Fresh
    <3>2. ASSUME NEW v \in Minutes
          PROVE  /\ onTime'[k][v] <= Limit
                 /\ v >= counted'[k] => onTime'[k][v] <= usage'[k][v]
      <4>1. CASE v = w
        <5>1. /\ usage'[k][v] = usage[k][v] + 1
              /\ counted'[k] = IF w > counted[k] THEN w ELSE counted[k]
              /\ onTime'[k][v] = IF allowed /\ w >= counted[k] THEN onTime[k][v] + 1 ELSE onTime[k][v]
          BY <2>3, <2>4, <2>5, <2>6, <2>7, <4>1
        <5>2. allowed => usage[k][v] + 1 <= Limit
          BY <2>3, <2>4, <4>1
        <5>3. CASE allowed /\ w >= counted[k]
          <6>1. onTime[k][v] <= usage[k][v] /\ onTime'[k][v] = onTime[k][v] + 1
            BY <3>1, <4>1, <5>1, <5>3
          <6> QED
            BY <2>3, <3>1, <5>1, <5>2, <5>3, <6>1
        <5>4. CASE ~(allowed /\ w >= counted[k])
          <6>1. onTime'[k][v] = onTime[k][v]
            BY <5>1, <5>4
          <6>2. v >= counted'[k] => v >= counted[k]
            BY <3>1, <4>1, <5>1
          <6> QED
            BY <2>3, <3>1, <5>1, <6>1, <6>2
        <5> QED
          BY <5>3, <5>4
      <4>2. CASE v > w
        BY <2>3, <2>4, <2>5, <2>6, <2>7, <3>1, <4>2
      <4>3. CASE v < w
        BY <2>3, <2>6, <2>7, <3>1, <4>3
      <4> QED
        BY <3>1, <4>1, <4>2, <4>3
    <3> QED
      BY <3>1, <3>2 DEF RateOK
  <2>9. ASSUME NEW x \in ApiKeyIds, x # k PROVE RateOK(x)'
    BY <1>2, <2>5, <2>6, <2>7, <2>9 DEF ApiInv, RateInv, RateOK, Fresh
  <2>10. RateInv'
    BY <2>5, <2>6, <2>7, <2>8, <2>9 DEF RateInv
  <2> QED
    BY <1>2, <1>3, <1>4, <2>2, <2>10 DEF ApiInv
<1> QED
  BY <1>5, <1>6

\* Steps of a request that read the tables only.
LEMMA ReadKeeps ==
    ASSUME ApiInv, UNCHANGED <<key, usage, sub, counted, onTime, touched>>, minute' \in Minutes,
           ReqInv'
    PROVE  ApiInv'
<1>1. KeysOK' /\ RateInv'
  BY KeysStay
<1>2. SubsOK' /\ TouchedOK'
  BY DEF ApiInv, SubsOK, TouchedOK, OwnerOf
<1> QED
  BY <1>1, <1>2 DEF ApiInv

LEMMA CheckKeeps ==
    ASSUME ApiInv, NEW r \in Requests, NEW s \in Subs, req[r].account # Staff,
           Check(r, s, "edit") \/ Check(r, s, "relevance")
    PROVE  ApiInv'
<1>1. OwnersStay
  BY DEF Check, OwnersStay
<1>2. PICK then \in {"edit", "relevance"} : Check(r, s, then)
  OBVIOUS
<1>3. CASE Owns(req[r].account, s)
  <2> DEFINE to == [at |-> then, account |-> req[r].account, sub |-> s]
  <2>1. req' = [req EXCEPT ![r] = to] /\ sub'[s].account = to.account
    BY <1>2, <1>3 DEF Check, MoveTo, Owns
  <2>2. /\ to.at \notin {"count", "tenant", "rest"} /\ to.account # Staff /\ to.sub = s
    BY <1>2
  <2> HIDE DEF to
  <2>3. ReqInv'
    BY <1>1, <2>1, <2>2, ReqMoves DEF ApiInv
  <2> QED
    BY <1>2, <2>3, ReadKeeps DEF Check, ApiInv
<1>4. CASE ~Owns(req[r].account, s)
  <2>1. ReqInv'
    BY <1>1, <1>2, <1>4, ReqEnds DEF Check, ApiInv
  <2> QED
    BY <1>2, <2>1, ReadKeeps DEF Check, ApiInv
<1> QED
  BY <1>3, <1>4

LEMMA BeginsKeep ==
    ASSUME ApiInv, NEW r \in Requests,
           \/ \E k \in ApiKeyIds, scope \in Scopes : RequireAPIKey(r, k, scope)
           \/ \E id \in Members : TenantRequest(r, id)
    PROVE  ApiInv'
<1>1. OwnersStay
  BY DEF RequireAPIKey, TenantRequest, OwnersStay
<1>2. ASSUME NEW k \in ApiKeyIds, NEW scope \in Scopes, RequireAPIKey(r, k, scope)
      PROVE  ApiInv'
  <2> DEFINE to == [at |-> "count", key |-> k, account |-> key[k].account, window |-> minute,
                    writes |-> scope = "subscriptions:write"]
  <2>1. req' = [req EXCEPT ![r] = to] /\ key[k].account # Staff /\ minute \in Minutes
    BY <1>2 DEF RequireAPIKey, MoveTo, Usable, ApiInv, KeysOK
  <2>2. /\ to.at = "count" /\ to.key = k /\ to.account = key[k].account /\ to.window = minute
    OBVIOUS
  <2> HIDE DEF to
  <2>3. ReqInv'
    BY <1>1, <2>1, <2>2, ReqMoves DEF ApiInv
  <2> QED
    BY <1>2, <2>3, ReadKeeps DEF RequireAPIKey, ApiInv
<1>3. ASSUME NEW id \in Members, TenantRequest(r, id) PROVE ApiInv'
  <2> DEFINE to == [at |-> "tenant", account |-> id.account]
  <2>1. req' = [req EXCEPT ![r] = to] /\ id.account # Staff
    BY <1>3 DEF TenantRequest, MoveTo, IsTenant
  <2>2. to.at = "tenant" /\ to.account = id.account
    OBVIOUS
  <2> HIDE DEF to
  <2>3. ReqInv'
    BY <1>1, <2>1, <2>2, ReqMoves DEF ApiInv
  <2> QED
    BY <1>3, <2>3, ReadKeeps DEF TenantRequest, ApiInv
<1> QED
  BY <1>2, <1>3

\* A customer makes and revokes its own keys; an administrator anybody's.
LEMMA KeyCallsKeep ==
    ASSUME ApiInv, NEW r \in Requests, NEW k \in ApiKeyIds,
           \/ CreateMyApiKey(r, k) \/ RevokeMyApiKey(r, k)
           \/ SetAPIKeyEnabled(r, k) \/ DeleteAPIKey(r, k)
           \/ \E id \in Members : CreateAPIKey(r, k, id.account)
    PROVE  ApiInv'
<1>0. k \notin Subs
  BY ApiKeysAssumption
<1>1. SubsOK' /\ UNCHANGED <<sub, minute>> /\ \A x \in Subs : sub'[x].account = sub[x].account
  BY SubsStay
     DEF CreateMyApiKey, RevokeMyApiKey, SetAPIKeyEnabled, DeleteAPIKey, CreateAPIKey
<1>2. CASE CreateMyApiKey(r, k)
  <2>1. /\ KeysOK' /\ RateInv' /\ key'[k].account = req[r].account
        /\ \A x \in ApiKeyIds : key'[x].account = key[x].account \/ key[x].account = Staff
    <3>1. req[r].account # Staff
      BY <1>2 DEF CreateMyApiKey, ApiInv, ReqInv, ReqOK
    <3> QED
      BY <1>2, <3>1, NewKeyKeeps DEF CreateMyApiKey
  <2>2. OwnersStay
    BY <1>1, <2>1 DEF OwnersStay
  <2>3. ReqInv'
    BY <1>2, <2>2, ReqEnds DEF CreateMyApiKey, ApiInv
  <2>4. TouchedOK'
    BY <1>0, <1>2, <2>1, <2>2, TouchKeeps DEF CreateMyApiKey, Touch, OwnerOf, ApiInv
  <2> QED
    BY <1>1, <2>1, <2>3, <2>4 DEF ApiInv
<1>3. CASE RevokeMyApiKey(r, k)
  <2>1. KeysOK' /\ RateInv' /\ \A x \in ApiKeyIds : key'[x].account = key[x].account
    BY <1>3, OldKeyKeeps DEF RevokeMyApiKey
  <2>2. OwnersStay
    BY <1>1, <2>1 DEF OwnersStay
  <2>3. ReqInv'
    BY <1>3, <2>2, ReqEnds DEF RevokeMyApiKey, ApiInv
  <2>4. TouchedOK'
    BY <1>0, <1>3, <2>1, <2>2, TouchKeeps DEF RevokeMyApiKey, Touch, OwnerOf, ApiInv
  <2> QED
    BY <1>1, <2>1, <2>3, <2>4 DEF ApiInv
<1>4. CASE \/ SetAPIKeyEnabled(r, k) \/ DeleteAPIKey(r, k)
           \/ \E id \in Members : CreateAPIKey(r, k, id.account)
  <2>1. /\ KeysOK' /\ RateInv'
        /\ \A x \in ApiKeyIds : key'[x].account = key[x].account \/ key[x].account = Staff
    <3>1. CASE SetAPIKeyEnabled(r, k) \/ DeleteAPIKey(r, k)
      BY <3>1, OldKeyKeeps DEF SetAPIKeyEnabled, DeleteAPIKey
    <3>2. ASSUME NEW id \in Members, CreateAPIKey(r, k, id.account)
          PROVE  /\ KeysOK' /\ RateInv'
                 /\ \A x \in ApiKeyIds : key'[x].account = key[x].account \/ key[x].account = Staff
      BY <3>2, NewKeyKeeps DEF CreateAPIKey
    <3> QED
      BY <1>4, <3>1, <3>2
  <2>2. OwnersStay
    BY <1>1, <2>1 DEF OwnersStay
  <2>3. UNCHANGED req /\ touched' \subseteq touched \cup {<<k, Staff>>}
    BY <1>4 DEF SetAPIKeyEnabled, DeleteAPIKey, CreateAPIKey, Touch
  <2>4. ReqInv'
    BY <2>2, <2>3, ReqStays DEF ApiInv
  <2>5. TouchedOK'
    BY <2>2, <2>3, TouchKeeps DEF ApiInv
  <2> QED
    BY <1>1, <2>1, <2>4, <2>5 DEF ApiInv
<1> QED
  BY <1>2, <1>3, <1>4

LEMMA ApiStep == ApiInv /\ (ApiNext \/ UNCHANGED apiVars) => ApiInv'
<1> SUFFICES ASSUME ApiInv, ApiNext \/ UNCHANGED apiVars PROVE ApiInv'
  OBVIOUS
<1>1. CASE NextMinute \/ UNCHANGED apiVars
  <2>1. OwnersStay /\ UNCHANGED req
    BY <1>1 DEF NextMinute, apiVars, OwnersStay
  <2>2. ReqInv'
    BY <2>1, ReqStays DEF ApiInv
  <2>3. minute' \in Minutes
    BY <1>1, ApiKeysAssumption DEF NextMinute, apiVars, ApiInv, Minutes
  <2> QED
    BY <1>1, <2>2, <2>3, ReadKeeps DEF NextMinute, apiVars
<1>2. ASSUME NEW r \in Requests, NEW s \in Subs, CreateMySubscription(r, s) \/ CreateSubscriptionREST(r, s)
      PROVE  ApiInv'
  <2>1. req[r].account # Staff
    BY <1>2 DEF CreateMySubscription, CreateSubscriptionREST, ApiInv, ReqInv, ReqOK
  <2> QED
    BY <1>2, <2>1, InsertKeeps DEF CreateMySubscription, CreateSubscriptionREST
<1>3. ASSUME NEW r \in Requests, NEW s \in Subs,
             RequireOwned(r, s) \/ AuthorizeRelevance(r, s) \/ TenantOwns(r, s)
      PROVE  ApiInv'
  <2>1. req[r].account # Staff
    BY <1>3 DEF RequireOwned, AuthorizeRelevance, TenantOwns, ApiInv, ReqInv, ReqOK
  <2> QED
    BY <1>3, <2>1, CheckKeeps DEF RequireOwned, AuthorizeRelevance, TenantOwns
<1>4. ASSUME NEW r \in Requests, \/ UpdateMySubscription(r) \/ DeleteMySubscription(r)
                                 \/ SetInterests(r) \/ RecordFeedback(r)
      PROVE  ApiInv'
  BY <1>4, WriteKeeps DEF UpdateMySubscription, DeleteMySubscription, SetInterests, RecordFeedback
<1>5. ASSUME NEW r \in Requests, NEW s \in Subs, StaffCreate(r, s) \/ StaffWrite(r, s)
      PROVE  ApiInv'
  BY <1>5, StaffKeeps
<1>6. ASSUME NEW r \in Requests,
             \/ \E k \in ApiKeyIds, scope \in Scopes : RequireAPIKey(r, k, scope)
             \/ \E id \in Members : TenantRequest(r, id)
      PROVE  ApiInv'
  BY <1>6, BeginsKeep
<1>7. ASSUME NEW r \in Requests, NEW k \in ApiKeyIds,
             \/ CreateMyApiKey(r, k) \/ RevokeMyApiKey(r, k)
             \/ SetAPIKeyEnabled(r, k) \/ DeleteAPIKey(r, k)
             \/ \E id \in Members : CreateAPIKey(r, k, id.account)
      PROVE  ApiInv'
  BY <1>7, KeyCallsKeep
<1>8. ASSUME NEW r \in Requests, AllowAPIRequest(r) PROVE ApiInv'
  BY <1>8, CountKeeps
<1> QED
  BY <1>1, <1>2, <1>3, <1>4, <1>5, <1>6, <1>7, <1>8 DEF ApiNext

\* "Fixed-window (per-minute)" (db/apikeys.go:148): in a minute no more requests of a key are
\* let through than its limit, however they overlap, until one of a later minute is counted.
THEOREM RateHolds == AccessSpec => []RateLimited
<1>1. AccessInit => ApiInv
  BY ApiStart DEF AccessInit
<1>2. ApiInv /\ [AccessNext]_accessVars => ApiInv'
  BY ApiStep, OneSide
<1>3. ApiInv => RateLimited
  BY DEF ApiInv, RateInv, RateOK, RateLimited
<1> QED
  BY <1>1, <1>2, <1>3, PTL DEF AccessSpec

\* "One tenant can never" change the rows of another (db/apikeys.go:132): what a customer's
\* session or key wrote was its account's, though the owner was read before.
THEOREM TenantsApart == AccessSpec => []OwnRowsOnly
<1>1. AccessInit => ApiInv
  BY ApiStart DEF AccessInit
<1>2. ApiInv /\ [AccessNext]_accessVars => ApiInv'
  BY ApiStep, OneSide
<1>3. ApiInv => OwnRowsOnly
  BY DEF ApiInv, TouchedOK, OwnRowsOnly, OwnerOf
<1> QED
  BY <1>1, <1>2, <1>3, PTL DEF AccessSpec
=============================================================================
