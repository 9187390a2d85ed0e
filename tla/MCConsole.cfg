\* Two administrators on two processes, or two requests at once on either side of Access.
CONSTANTS
    c1 = c1  c2 = c2  c3 = c3  k1 = k1  k2 = k2  k3 = k3
    a1 = a1  a2 = a2  p1 = p1  p2 = p2  system = system
    Connectors <- MCConnectors
    Keys <- MCKeys
    Start <- MCStart
    Admins = {a1, a2}
    Procs = {p1, p2}
    ProcOf <- MCProcOf
    Creations <- MCCreations
    Edits <- MCEdits
    SystemKey = system
    To <- MCTo
    Lower <- MCLower
    TTL = 1
    Tables <- MCTables
    MaxCalls = 3
    MaxMails = 1
    u1 = u1  u2 = u2  u3 = u3  acme = acme  globex = globex  house = house
    x1 = x1  x2 = x2  s1 = s1  s2 = s2  s3 = s3
    UserIds = {u1, u2, u3}
    Seed = u1
    Accounts <- MCAccounts
    Tokens = {t1, t2, t3}
    Callers = {b1, b2}
    Servers = {p1, p2}
    UserForms <- MCUserForms
    Patches <- MCPatches
    MaxUserCalls = 6
    ApiKeyIds = {x1, x2}
    Subs = {s1, s2, s3}
    StartKeys <- MCStartKeys
    StartSubs <- MCStartSubs
    Requests = {r1, r2}
    Members <- MCMembers
    Asked <- MCAsked
    Scopes <- MCScopes
    DefaultAccount = house
    Limit = 2
    MaxMinute = 1
    MaxRequests = 4
SPECIFICATION ConsoleSpec
INVARIANTS SoleActive FreshKey MailAllOrNothing BoundAsAsked RateLimited OwnRowsOnly
CHECK_DEADLOCK FALSE
