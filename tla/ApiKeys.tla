------------------------------ MODULE ApiKeys ------------------------------
(***************************************************************************)
(* The public API's keys (httpapi/apikeys.go, db/apikeys.go) and what they *)
(* and the customers' console may change (httpapi/tenant.go,               *)
(* httpapi/subscriptions_routes.go): a request authenticates, is counted   *)
(* against its key's limit for the minute it began in, and checks who owns *)
(* a subscription before it writes.  Every statement is a transaction.     *)
(***************************************************************************)
EXTENDS Roles, Integers, FiniteSets

CONSTANTS
    ApiKeyIds, Subs,    \* rows that may ever exist
    StartKeys, StartSubs,   \* the tables to begin with
    Requests,           \* requests in flight
    Members,            \* identities that sessions of the console have
    Asked,              \* sets of scopes that are asked for at the creation of a key
    Scopes,             \* scopes of the routes that requests are sent to
    DefaultAccount,     \* owner of what staff create
    Limit,              \* rateLimitPerMin
    MaxMinute,          \* bound: minutes
    MaxRequests         \* bound: requests

ASSUME ApiKeysAssumption ==
    /\ DefaultAccount # Staff /\ ApiKeyIds \cap Subs = {}
    /\ Scopes \subseteq APIScopes
    /\ Limit \in Nat \ {0} /\ {MaxMinute, MaxRequests} \subseteq Nat

VARIABLES
    key,        \* table ApiKey: [there, account, enabled, scopes]
    usage,      \* table ApiKeyUsage: count per key and minute, 0 if there is no row
    sub,        \* table Subscription: [there, account]
    req,        \* per request: where it is
    minute,     \* the clock
    counted,    \* history: the latest minute of a key that a request was counted for
    onTime,     \* history: requests let through per key and minute, before a later one
    touched,    \* history: <<row, account>> for whom a row was changed
    begun

apiVars == <<key, usage, sub, req, minute, counted, onTime, touched, begun>>

NoReq == [at |-> "idle"]
NoRow == [there |-> FALSE, account |-> Staff]
NewSubscription(account) ==
    [there |-> TRUE, account |-> IF account = Staff THEN DefaultAccount ELSE account]
NewKey(account, scopes) ==
    [there |-> TRUE, account |-> account, enabled |-> TRUE, scopes |-> scopes]
Fresh(row) == ~row.there /\ row.account = Staff
Minutes == 0..MaxMinute

\* accountId is NOT NULL in both tables.
ASSUME StartAssumption ==
    /\ StartKeys = [k \in ApiKeyIds |-> StartKeys[k]]
    /\ StartSubs = [s \in Subs |-> StartSubs[s]]
    /\ \A k \in ApiKeyIds : /\ DOMAIN StartKeys[k] = {"there", "account", "enabled", "scopes"}
                            /\ StartKeys[k].there => StartKeys[k].account # Staff
    /\ \A s \in Subs : /\ DOMAIN StartSubs[s] = {"there", "account"}
                       /\ StartSubs[s].there => StartSubs[s].account # Staff

ApiInit ==
    /\ key = StartKeys /\ sub = StartSubs
    /\ usage = [k \in ApiKeyIds |-> [w \in Minutes |-> 0]]
    /\ req = [r \in Requests |-> NoReq]
    /\ minute = 0
    /\ counted = [k \in ApiKeyIds |-> 0]
    /\ onTime = [k \in ApiKeyIds |-> [w \in Minutes |-> 0]]
    /\ touched = {} /\ begun = 0

Begin(r) == req[r] = NoReq /\ begun < MaxRequests /\ begun' = begun + 1
MoveTo(r, to) == req' = [req EXCEPT ![r] = to]
End(r) == MoveTo(r, NoReq)
Touch(row, account) == touched' = touched \cup {<<row, account>>}
-----------------------------------------------------------------------------
(* requireAPIKey *)

\* The key is read once; what is disabled or lacks the scope is refused.
Usable(k, scope) == key[k].there /\ key[k].enabled /\ scope \in key[k].scopes
RequireAPIKey(r, k, scope) ==
    /\ Begin(r) /\ Usable(k, scope)
    /\ MoveTo(r, [at |-> "count", key |-> k, account |-> key[k].account, window |-> minute,
                writes |-> scope = "subscriptions:write"])
    /\ UNCHANGED <<key, usage, sub, minute, counted, onTime, touched>>

\* AllowAPIRequest, in one statement: earlier minutes of the key go, and the count of the
\* request's own minute goes up.
Mutant_Stale(w, window) == w <= window
Stale(w, window) == w < window
Counted(k, window) ==
    [w \in Minutes |-> IF w = window THEN 1 + IF Stale(w, window) THEN 0 ELSE usage[k][w]
                       ELSE IF Stale(w, window) THEN 0 ELSE usage[k][w]]

AllowAPIRequest(r) ==
    /\ req[r].at = "count"
    /\ LET k == req[r].key
           w == req[r].window
           allowed == Counted(k, w)[w] <= Limit
       IN IF ~key[k].there THEN End(r) /\ UNCHANGED <<usage, counted, onTime>>
          ELSE /\ usage' = [usage EXCEPT ![k] = Counted(k, w)]
               /\ counted' = [counted EXCEPT ![k] = IF w > @ THEN w ELSE @]
               /\ onTime' = IF allowed /\ w >= counted[k] THEN [onTime EXCEPT ![k][w] = @ + 1]
                            ELSE onTime
               /\ IF allowed /\ req[r].writes
                  THEN MoveTo(r, [at |-> "rest", account |-> req[r].account])
                  ELSE End(r)
    /\ UNCHANGED <<key, sub, minute, touched, begun>>

NextMinute ==
    /\ minute < MaxMinute /\ minute' = minute + 1
    /\ UNCHANGED <<key, usage, sub, req, counted, onTime, touched, begun>>
-----------------------------------------------------------------------------
(* Subscriptions of an account, through its API keys and through its console *)

\* requireTenant
TenantRequest(r, id) ==
    /\ Begin(r) /\ IsTenant(id)
    /\ MoveTo(r, [at |-> "tenant", account |-> id.account])
    /\ UNCHANGED <<key, usage, sub, minute, counted, onTime, touched>>

\* mutCreateMySubscription, createSubscriptionREST: for the request's own account.
Insert(r, s) ==
    /\ Fresh(sub[s])
    /\ sub' = [sub EXCEPT ![s] = NewSubscription(req[r].account)]
    /\ Touch(s, req[r].account) /\ End(r)
    /\ UNCHANGED <<key, usage, minute, counted, onTime, begun>>
CreateMySubscription(r, s) == req[r].at = "tenant" /\ Insert(r, s)
CreateSubscriptionREST(r, s) == req[r].at = "rest" /\ Insert(r, s)

\* requireOwnedSubscription, authorizeSubscriptionRelevance, tenantOwnsSubscription: the owner
\* is read ...
Mutant_Owns(account, s) == sub[s].there
Owns(account, s) == sub[s].there /\ sub[s].account = account
Check(r, s, then) ==
    /\ IF Owns(req[r].account, s)
       THEN MoveTo(r, [at |-> then, account |-> req[r].account, sub |-> s]) ELSE End(r)
    /\ UNCHANGED <<key, usage, sub, minute, counted, onTime, touched, begun>>
RequireOwned(r, s) == req[r].at = "tenant" /\ Check(r, s, "edit")
AuthorizeRelevance(r, s) == req[r].at = "tenant" /\ Check(r, s, "relevance")
TenantOwns(r, s) == req[r].at = "rest" /\ Check(r, s, "relevance")

\* ... and what is asked for is done, by the row's id, if the row is still there.
WriteOwned(r) ==
    /\ IF sub[req[r].sub].there THEN Touch(req[r].sub, req[r].account) ELSE UNCHANGED touched
    /\ End(r)
    /\ UNCHANGED <<key, usage, minute, counted, onTime, begun>>
UpdateMySubscription(r) == req[r].at = "edit" /\ WriteOwned(r) /\ UNCHANGED sub
SetInterests(r) == req[r].at = "relevance" /\ WriteOwned(r) /\ UNCHANGED sub

\* The foreign key refuses a reaction to a subscription that is gone.
RecordFeedback(r) ==
    /\ req[r].at = "relevance"
    /\ WriteOwned(r) /\ UNCHANGED sub
DeleteMySubscription(r) ==
    /\ req[r].at = "edit"
    /\ WriteOwned(r)
    /\ sub' = [sub EXCEPT ![req[r].sub].there = FALSE]

\* Staff create subscriptions for the default account, and change and delete anybody's.
Operates(r) == Begin(r) /\ \E id \in Members : ~IsTenant(id) /\ May(id, "subscriptions:write")

StaffCreate(r, s) ==
    /\ Operates(r) /\ Fresh(sub[s])
    /\ sub' = [sub EXCEPT ![s] = NewSubscription(Staff)]
    /\ Touch(s, Staff)
    /\ UNCHANGED <<key, usage, req, minute, counted, onTime>>

StaffWrite(r, s) ==
    /\ Operates(r) /\ sub[s].there
    /\ \E there \in BOOLEAN : sub' = [sub EXCEPT ![s].there = there]
    /\ Touch(s, Staff)
    /\ UNCHANGED <<key, usage, req, minute, counted, onTime>>
-----------------------------------------------------------------------------
(* Keys: a customer's own, and any for an administrator *)

CreateMyApiKey(r, k) ==
    /\ req[r].at = "tenant" /\ Fresh(key[k])
    /\ \E scopes \in Asked :
          /\ Grantable(scopes, TenantAPIScopes)
          /\ key' = [key EXCEPT ![k] = NewKey(req[r].account, scopes)]
    /\ Touch(k, req[r].account) /\ End(r)
    /\ UNCHANGED <<usage, sub, minute, counted, onTime, begun>>

\* DeleteAPIKeyForAccount: by its id and its account.
RevokeMyApiKey(r, k) ==
    /\ req[r].at = "tenant" /\ key[k].there /\ key[k].account = req[r].account
    /\ key' = [key EXCEPT ![k].there = FALSE]
    /\ usage' = [usage EXCEPT ![k] = [w \in Minutes |-> 0]]
    /\ Touch(k, req[r].account) /\ End(r)
    /\ UNCHANGED <<sub, minute, counted, onTime, begun>>

Administers(r) == Begin(r) /\ \E id \in Members : May(id, "settings:manage")

CreateAPIKey(r, k, account) ==
    /\ Administers(r) /\ Fresh(key[k]) /\ account # Staff
    /\ \E scopes \in Asked :
          /\ Grantable(scopes, APIScopes)
          /\ key' = [key EXCEPT ![k] = NewKey(account, scopes)]
    /\ Touch(k, Staff)
    /\ UNCHANGED <<usage, sub, req, minute, counted, onTime>>

SetAPIKeyEnabled(r, k) ==
    /\ Administers(r) /\ key[k].there
    /\ key' = [key EXCEPT ![k].enabled = ~@]
    /\ Touch(k, Staff)
    /\ UNCHANGED <<usage, sub, req, minute, counted, onTime>>

DeleteAPIKey(r, k) ==
    /\ Administers(r) /\ key[k].there
    /\ key' = [key EXCEPT ![k].there = FALSE]
    /\ usage' = [usage EXCEPT ![k] = [w \in Minutes |-> 0]]
    /\ Touch(k, Staff)
    /\ UNCHANGED <<sub, req, minute, counted, onTime>>
-----------------------------------------------------------------------------
ApiNext ==
    \/ NextMinute
    \/ \E r \in Requests :
          \/ \E k \in ApiKeyIds :
                \/ \E scope \in Scopes : RequireAPIKey(r, k, scope)
                \/ CreateMyApiKey(r, k) \/ RevokeMyApiKey(r, k)
                \/ SetAPIKeyEnabled(r, k) \/ DeleteAPIKey(r, k)
                \/ \E id \in Members : CreateAPIKey(r, k, id.account)
          \/ AllowAPIRequest(r)
          \/ UpdateMySubscription(r) \/ DeleteMySubscription(r)
          \/ SetInterests(r) \/ RecordFeedback(r)
          \/ \E id \in Members : TenantRequest(r, id)
          \/ \E s \in Subs : \/ CreateMySubscription(r, s) \/ CreateSubscriptionREST(r, s)
                             \/ RequireOwned(r, s) \/ AuthorizeRelevance(r, s) \/ TenantOwns(r, s)
                             \/ StaffCreate(r, s) \/ StaffWrite(r, s)

\* In a minute at most `Limit' requests of a key are let through (db/apikeys.go:148), as
\* long as none of a later minute was counted: that one prunes the row, and a request that
\* comes after it with the earlier minute begins the count again.
RateLimited == \A k \in ApiKeyIds : \A w \in Minutes : onTime[k][w] <= Limit

\* "One tenant can never" change another's rows (db/apikeys.go:132,
\* httpapi/subscriptions_routes.go:13), although the owner is read before the write.
OwnRowsOnly ==
    \A t \in touched : t[2] = Staff \/ t[2] = (IF t[1] \in Subs THEN sub[t[1]] ELSE key[t[1]]).account
=============================================================================
