------------------------------ MODULE Settings ------------------------------
(***************************************************************************)
(* What administrators configure at run time: the email connectors         *)
(* (httpapi/connectors.go, db/connectors.go) and the LLM keys              *)
(* (httpapi/llmkeys.go, db/llmkeys.go), at most one row of each table being *)
(* active, and who uses them: deliveries resolve a connector and send      *)
(* (pipeline/email.go, email/email.go), enrichment resolves a key through  *)
(* a cache of its process.                                                 *)
(*                                                                         *)
(* PostgreSQL under READ COMMITTED: a SELECT sees what is committed; an    *)
(* UPDATE chooses its rows by what is committed when it starts, waits for  *)
(* each that a transaction holds, and looks at it again before it writes.  *)
(***************************************************************************)
EXTENDS Smtp, FiniteSets

CONSTANTS
    Connectors, Keys,   \* the rows of the two tables that may ever exist
    Start,              \* the tables to begin with
    Admins, Procs,      \* sessions of the console, processes that serve them
    ProcOf,             \* ProcOf[a]: the process that serves administrator a
    Creations, Edits,   \* connector forms that administrators send
    SystemKey,          \* OPENAI_API_KEY (or its absence): what is used without a row
    To, Lower(_),       \* config.to of a subscription, and lower case
    TTL,                \* lifetime of the key cache, in ticks
    Tables,             \* bound: which table the calls of a behaviour are about
    MaxCalls,           \* bound: calls of administrators and failed statements
    MaxMails            \* bound: mails sent

Rows == Connectors \cup Keys
Table(r) == IF r \in Keys THEN Keys ELSE Connectors

\* The secret was encrypted with another SIGNING_SECRET.
Garbled == "garbled"

\* `there': the table has the row.
NewRow(conf) == [active |-> FALSE, enabled |-> TRUE, conf |-> conf,
                 there |-> TRUE, status |-> "UNTESTED"]
Absent == [NewRow([secret |-> ""]) EXCEPT !.enabled = FALSE, !.there = FALSE]
\* An id is never used twice.
Deleted == [Absent EXCEPT !.status = "DELETED"]

\* A row that was there before.
Stored(r) ==
    r \in [active : BOOLEAN, enabled : BOOLEAN, conf : {r.conf}, there : {TRUE},
           status : {"UNTESTED", "VALID", "INVALID"}]

Recipients == CleanRecipients(To, Lower)

ASSUME SettingsAssumption ==
    /\ IsFiniteSet(Rows) /\ Connectors \cap Keys = {} /\ SystemKey \notin Keys
    /\ ProcOf \in [Admins -> Procs] /\ To \in Seq(STRING)
    /\ {TTL, MaxCalls, MaxMails} \subseteq Nat
    /\ Tables \subseteq {Connectors, Keys}
    /\ \A start \in Start :
          /\ DOMAIN start = Rows
          /\ \A r \in Rows : start[r] = Absent \/ Stored(start[r])
          /\ \A r, t \in Rows : start[r].active /\ start[t].active /\ Table(r) = Table(t) => r = t

VARIABLES
    table,    \* the table that the administrators work on
    row,      \* the two tables, as committed
    op,       \* per administrator: the call under way
    cache,    \* per process: [key, left], the key cache and the ticks it has left
    reading,  \* per process: the key a resolver has read under the mutex, or Free
    mail,     \* the mail being sent: [at, rest, taken, handed, ok]
    raced,    \* history: tables whose calls overlapped in a way that shows
    excused,  \* history: ticks for which a process may use an outdated key
    calls, mails

use == <<cache, reading, mail>>
history == <<raced, excused>>
counts == <<calls, mails>>
settingsVars == <<table, row, op, use, history, counts>>

Free == "free"
NoOp == [at |-> "idle"]
NoMail == [at |-> "idle", rest |-> <<>>, taken |-> {}, handed |-> {}, ok |-> TRUE]
Exists(r) == row[r].there

SettingsInit ==
    /\ table \in Tables
    /\ row \in Start
    /\ op = [a \in Admins |-> NoOp]
    /\ cache = [p \in Procs |-> [key |-> SystemKey, left |-> 0]]
    /\ reading = [p \in Procs |-> Free]
    /\ mail = NoMail
    /\ raced = {} /\ excused = [p \in Procs |-> 0]
    /\ calls = 0 /\ mails = 0

Idle(a, r) == op[a] = NoOp /\ r \in table
Call == calls < MaxCalls /\ calls' = calls + 1 /\ UNCHANGED mails
Fault == Call
Goto(a, at) == op' = [op EXCEPT ![a].at = at]
Done(a) == op' = [op EXCEPT ![a] = NoOp]

Activating(a) == op[a].at \in {"begin", "clear", "own"}
\* The rows that other transactions have written and not committed.
LockedBy(b) == IF op[b].at \in {"clear", "own"} THEN op[b].locks ELSE {}
Locked(a, r) == \E b \in Admins \ {a} : r \in LockedBy(b)

Beside(a, at, rows) == \E b \in Admins \ {a} : op[b].at \in at /\ op[b].row \in rows
Raced(what, overlap) == raced' = IF overlap THEN raced \cup {what} ELSE raced

\* A change of the effective key goes unnoticed in the other processes for a while.
Outdated(ps) == [p \in Procs |-> IF p \in ps THEN TTL ELSE excused[p]]
Elsewhere(a) == Procs \ {ProcOf[a]}
-----------------------------------------------------------------------------
(* Making a row the active one *)

Activate(a, r) ==
    /\ Idle(a, r) /\ Call /\ Exists(r)
    /\ op' = [op EXCEPT ![a] = [at |-> "begin", row |-> r, todo |-> {}, locks |-> {}]]
    /\ Raced(Connectors, r \in Connectors /\ Beside(a, {"begin", "clear", "own"}, Connectors))
    /\ UNCHANGED <<table, row, use, excused>>

SetActiveEmailConnector(a, c) == c \in Connectors /\ Activate(a, c)
SetActiveLLMKey(a, k) == k \in Keys /\ Activate(a, k)

\* The first UPDATE: of the other connectors that are active, or of all the other keys.
ConnectorsToClear(c) == {t \in Connectors \ {c} : Exists(t) /\ row[t].active}
Mutant_KeysToClear(k) == {t \in Keys \ {k} : Exists(t) /\ row[t].active}
KeysToClear(k) == {t \in Keys \ {k} : Exists(t)}
ToClear(r) == IF r \in Keys THEN KeysToClear(r) ELSE ConnectorsToClear(r)

\* It starts, with the rows of that moment ...
BeginClear(a) ==
    /\ op[a].at = "begin"
    /\ op' = [op EXCEPT ![a].at = "clear", ![a].todo = ToClear(op[a].row)]
    /\ UNCHANGED <<table, row, use, history, counts>>

\* ... and takes row after row.
ClearRow(a, t) ==
    /\ op[a].at = "clear" /\ t \in op[a].todo /\ ~Locked(a, t)
    /\ op' = [op EXCEPT ![a].todo = @ \ {t},
                        ![a].locks = IF Exists(t) THEN @ \cup {t} ELSE @]
    /\ UNCHANGED <<table, row, use, history, counts>>

\* The second UPDATE: of the row itself, if it is still there.
SetOwn(a) ==
    /\ op[a].at = "clear" /\ op[a].todo = {} /\ ~Locked(a, op[a].row)
    /\ op' = [op EXCEPT ![a].at = "own",
                        ![a].locks = IF Exists(op[a].row) THEN @ \cup {op[a].row} ELSE @]
    /\ UNCHANGED <<table, row, use, history, counts>>

Commit(a) ==
    /\ op[a].at = "own"
    /\ LET r == op[a].row IN
       /\ row' = [t \in Rows |->
             IF t \notin op[a].locks THEN row[t]
             ELSE [row[t] EXCEPT !.active = (t = r), !.enabled = @ \/ t = r]]
       /\ excused' = IF r \in Keys THEN Outdated(Elsewhere(a)) ELSE excused
    /\ op' = [op EXCEPT ![a] = [at |-> "reread", row |-> op[a].row]]
    /\ UNCHANGED <<table, use, raced, counts>>

\* Deadlocked: each waits for a row that the other holds.  PostgreSQL ends one of them.
Remaining(a) == IF op[a].at = "clear" THEN op[a].todo \cup {op[a].row} ELSE {}
Deadlocked(a) ==
    \E b \in Admins \ {a} : /\ Remaining(a) \cap LockedBy(b) # {}
                            /\ Remaining(b) \cap LockedBy(a) # {}

Rollback(a) ==
    /\ Activating(a)
    /\ \/ Deadlocked(a) /\ UNCHANGED counts
       \/ Fault
    /\ Done(a)
    /\ UNCHANGED <<table, row, use, history>>

\* The answer reads the row again; the key cache is not dropped without it.
Reread(a) ==
    /\ op[a].at = "reread"
    /\ LET r == op[a].row IN
       \/ /\ Exists(r) /\ UNCHANGED <<excused, counts>>
          /\ IF r \in Keys THEN Goto(a, "drop") ELSE Done(a)
       \/ /\ (~Exists(r) /\ UNCHANGED counts) \/ Fault
          /\ Done(a)
          /\ excused' = IF r \in Keys THEN Outdated({ProcOf[a]}) ELSE excused
    /\ UNCHANGED <<table, row, use, raced>>
-----------------------------------------------------------------------------
(* Creating, testing, editing and deleting a row *)

\* A test keeps what it has read of the row.
Testing(r, read) == [at |-> "test", row |-> r, conf |-> read.conf]

\* CreateEmailConnector, CreateLLMKey: inactive and untested; the handler tests it next.
Create(a, r, conf) ==
    /\ Idle(a, r) /\ Call /\ row[r] = Absent
    /\ row' = [row EXCEPT ![r] = NewRow(conf)]
    /\ op' = [op EXCEPT ![a] = Testing(r, NewRow(conf))]
    /\ Raced(Keys, r \in Keys /\ Beside(a, {"clear"}, Keys))
    /\ UNCHANGED <<table, use, excused>>

CreateEmailConnector(a, c) ==
    c \in Connectors /\ \E form \in Creations :
        LET read == ReadConnectorInput(form)
        IN Readable(form) /\ ValidateForCreate(read) /\ Create(a, c, read)
CreateLLMKey(a, k) == k \in Keys /\ Create(a, k, [secret |-> "sk"])

Load(a, r) ==
    /\ Idle(a, r) /\ Call /\ Exists(r)
    /\ op' = [op EXCEPT ![a] = Testing(r, row[r])]
    /\ UNCHANGED <<table, row, use, history>>
TestEmailConnector(a, c) == c \in Connectors /\ Load(a, c)
TestLLMKey(a, k) == k \in Keys /\ Load(a, k)

\* verifyConnector, testProviderKey: what a test may say of the row as it was loaded.
Verdicts(conf) ==
    IF conf.secret # Garbled /\ ("host" \in DOMAIN conf => Validate(conf))
    THEN {"VALID", "INVALID"} ELSE {"INVALID"}

\* UpdateEmailConnectorStatus, UpdateLLMKeyStatus, once the server has answered.  Errors
\* are ignored, and the key cache is dropped unless the key did not decrypt.
WriteStatus(a) ==
    /\ op[a].at = "test" /\ ~Locked(a, op[a].row)
    /\ LET r == op[a].row IN
       /\ \/ /\ Exists(r) /\ UNCHANGED counts
             /\ \E v \in Verdicts(op[a].conf) :
                   row' = [row EXCEPT ![r].status = v]
          \/ ((~Exists(r) /\ UNCHANGED counts) \/ Fault) /\ UNCHANGED row
       /\ IF r \in Keys /\ op[a].conf.secret # Garbled THEN Goto(a, "drop") ELSE Done(a)
    /\ UNCHANGED <<table, use, history>>

\* UpdateEmailConnector: "config changed", so that the row is UNTESTED.
Edited(r, form) ==
    [r EXCEPT !.conf = Merged(r.conf, form), !.enabled = Given(form, "enabled", r.enabled),
              !.status = "UNTESTED"]

UpdateEmailConnector(a, c, form) ==
    /\ Idle(a, c) /\ Call /\ c \in Connectors /\ Exists(c) /\ ~Locked(a, c)
    /\ Readable(form)
    /\ row' = [row EXCEPT ![c] = Edited(row[c], form)]
    /\ UNCHANGED <<table, op, use, history>>

Delete(a, r) ==
    /\ Idle(a, r) /\ Call /\ Exists(r) /\ ~Locked(a, r)
    /\ row' = [row EXCEPT ![r] = Deleted]
    /\ UNCHANGED <<table, use, raced>>
DeleteEmailConnector(a, c) == c \in Connectors /\ Delete(a, c) /\ UNCHANGED <<op, excused>>
DeleteLLMKey(a, k) ==
    /\ k \in Keys /\ Delete(a, k)
    /\ op' = [op EXCEPT ![a] = [at |-> "drop", row |-> k]]
    /\ excused' = Outdated(Elsewhere(a))
-----------------------------------------------------------------------------
(* The key in use: ResolveLLMKey *)

\* GetActiveLLMKey and its secret: the active key if it decrypts, else the system's.
EffectiveKeys ==
    LET active == {k \in Keys : row[k].active}
    IN IF active = {} THEN {SystemKey}
       ELSE {IF row[k].conf.secret = Garbled THEN SystemKey ELSE k : k \in active}

\* An expired cache, under the mutex: read ...
ReadKey(p) ==
    /\ table = Keys /\ cache[p].left = 0 /\ reading[p] = Free
    /\ \/ /\ \E k \in EffectiveKeys : reading' = [reading EXCEPT ![p] = k]
          /\ UNCHANGED <<excused, counts>>
       \/ /\ Fault
          /\ reading' = [reading EXCEPT ![p] = SystemKey]
          /\ excused' = Outdated({p})
    /\ UNCHANGED <<table, row, op, cache, mail, raced>>

\* ... and keep.
StoreKey(p) ==
    /\ reading[p] # Free
    /\ cache' = [cache EXCEPT ![p] = [key |-> reading[p], left |-> TTL]]
    /\ reading' = [reading EXCEPT ![p] = Free]
    /\ UNCHANGED <<table, row, op, mail, history, counts>>

\* invalidateLLMCache waits for the mutex.
Mutant_MayDrop(p) == TRUE
MayDrop(p) == reading[p] = Free

DropCache(a) ==
    /\ op[a].at = "drop" /\ MayDrop(ProcOf[a])
    /\ cache' = [cache EXCEPT ![ProcOf[a]].left = 0]
    /\ Done(a)
    /\ UNCHANGED <<table, row, reading, mail, history, counts>>

\* Time passes; a read under the mutex takes less than a tick.
Pred(n) == IF n > 0 THEN n - 1 ELSE 0
Tick ==
    /\ table = Keys /\ \A p \in Procs : reading[p] = Free
    /\ cache' = [p \in Procs |-> [cache[p] EXCEPT !.left = Pred(@)]]
    /\ excused' = [p \in Procs |-> Pred(excused[p])]
    /\ UNCHANGED <<table, row, op, reading, mail, raced, counts>>
-----------------------------------------------------------------------------
(* A mail: sendEmailDelivery and email.Send *)

\* GetActiveEmailConnector: the newest of them is taken.
ActiveConnectors == {c \in Connectors : row[c].active /\ row[c].enabled}

\* ResolveEmailConnector for a subscription that names connector c, or none: what it
\* may send with.  A disabled connector gives way to the active one, an absent does not.
ResolveEmailConnector(c) ==
    IF c \notin Connectors THEN ActiveConnectors
    ELSE IF ~Exists(c) THEN {}
    ELSE IF row[c].enabled THEN {c} ELSE ActiveConnectors

At(step) == mail.at = step
Say(m) == mail' = m /\ UNCHANGED <<table, row, op, cache, reading, history, counts>>
Failed == [mail EXCEPT !.at = "done", !.ok = FALSE]
\* The server refuses the command, or is gone.
Refuse == Say(Failed)

\* Ready: the secret decrypts, and there is a server and someone to write to.
Ready(c) == row[c].conf.secret # Garbled /\ Validate(row[c].conf) /\ Recipients # <<>>
StartMail(named) ==
    /\ At("idle") /\ table = Connectors
    /\ mails < MaxMails /\ mails' = mails + 1
    /\ \/ \E c \in ResolveEmailConnector(named) :
             mail' = IF Ready(c) THEN [NoMail EXCEPT !.at = "dial", !.rest = Recipients]
                     ELSE Failed
       \/ ResolveEmailConnector(named) = {} /\ mail' = Failed
    /\ UNCHANGED <<table, row, op, cache, reading, history, calls>>

\* TCP, TLS, the greeting, STARTTLS where it is offered ...
Dial == At("dial") /\ (Say([mail EXCEPT !.at = "auth"]) \/ Refuse)
\* ... AUTH where it is offered, and MAIL ...
Authenticate == At("auth") /\ (Say([mail EXCEPT !.at = "rcpt"]) \/ Refuse)

\* ... RCPT, once per recipient ...
Taken == [mail EXCEPT !.rest = Tail(@), !.taken = @ \cup {Head(mail.rest)}]
Mutant_Rcpt ==
    At("rcpt") /\ mail.rest # <<>> /\ (Say(Taken) \/ Say([mail EXCEPT !.rest = Tail(@)]))
Rcpt == At("rcpt") /\ mail.rest # <<>> /\ (Say(Taken) \/ Refuse)

\* ... DATA, whose answer may be lost although the mail was taken, and QUIT.
Data ==
    /\ At("rcpt") /\ mail.rest = <<>>
    /\ \/ \E answer \in {[mail EXCEPT !.at = "quit"], Failed} :
             Say([answer EXCEPT !.handed = mail.taken])
       \/ Refuse
Quit == At("quit") /\ (Say([mail EXCEPT !.at = "done"]) \/ Refuse)

Forget == At("done") /\ Say(NoMail)
-----------------------------------------------------------------------------
AdminCall(a) ==
    \/ \E c \in Connectors :
          \/ SetActiveEmailConnector(a, c) \/ CreateEmailConnector(a, c)
          \/ TestEmailConnector(a, c) \/ DeleteEmailConnector(a, c)
          \/ \E form \in Edits : UpdateEmailConnector(a, c, form)
    \/ \E k \in Keys :
          SetActiveLLMKey(a, k) \/ CreateLLMKey(a, k) \/ TestLLMKey(a, k) \/ DeleteLLMKey(a, k)

AdminStep(a) ==
    \/ BeginClear(a) \/ (\E t \in Rows : ClearRow(a, t)) \/ SetOwn(a) \/ Commit(a)
    \/ Rollback(a) \/ Reread(a) \/ WriteStatus(a) \/ DropCache(a)

MailStep ==
    \/ \E named \in Connectors \cup {Free} : StartMail(named)
    \/ Dial \/ Authenticate \/ Rcpt \/ Data \/ Quit \/ Forget

SettingsNext ==
    \/ \E a \in Admins : AdminCall(a) \/ AdminStep(a)
    \/ \E p \in Procs : ReadKey(p) \/ StoreKey(p)
    \/ Tick
    \/ MailStep

SettingsSpec == SettingsInit /\ [][SettingsNext]_settingsVars
-----------------------------------------------------------------------------
(* Properties *)

\* "Makes one key the sole active key" (db/llmkeys.go:97), also when two activations run
\* at once: each takes the other's row, so that one waits or is ended by PostgreSQL.  Only
\* a key that was created while an activation held its list of rows escapes it.  Two
\* connectors can both end up active, since those that are inactive are not taken.
SoleActive ==
    \A t \in {Connectors, Keys} \ raced : Cardinality({r \in t : row[r].active}) <= 1

\* "Changes take effect immediately" (httpapi/llmkeys.go:43) in the process that served
\* the call, and in TTL ticks in the others: a cached key is one a read would return.
Applying(p) == \E a \in Admins : ProcOf[a] = p /\ op[a].at \in {"reread", "drop"} /\ op[a].row \in Keys
FreshKey ==
    \A p \in Procs :
       cache[p].left > excused[p] /\ ~Applying(p) => cache[p].key \in EffectiveKeys

\* A mail is taken for every recipient or for none, and one that is reported sent was
\* taken: what the retry of a delivery relies on.
MailAllOrNothing ==
    /\ mail.handed \in {{}, ToSet(Recipients)}
    /\ At("done") /\ mail.ok => mail.handed # {}
=============================================================================
