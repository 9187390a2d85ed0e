------------------------------- MODULE Digest -------------------------------
(***************************************************************************)
(* Digests of one digest-mode email subscription: table DigestQueue, the   *)
(* digest schedulers of every worker process (internal/jobs/digest.go) and *)
(* the transaction that turns the queue into one delivery                  *)
(* (BuildDigestDelivery of internal/db/connectors.go).                     *)
(*                                                                         *)
(* The order of a digest is that of Signal.lastSeenAt, which every new     *)
(* article of a signal moves: a batch and its representative are any       *)
(* choice from the queue.  Times are relative, in ticks, and saturate at   *)
(* Horizon, where the code stops telling them apart.                       *)
(***************************************************************************)
EXTENDS Naturals, FiniteSets

CONSTANTS
    Signals,
    Schedulers,   \* one Digester per worker process
    BatchLimit,   \* digestBatchLimit
    Interval,     \* digestIntervalFor
    MaxLag,       \* the longest a scheduler takes from its tick to its enqueue
    MaxMatches,   \* bound: matches of one signal
    Updated,      \* bound: the signals that are matched more than once
    MaxCrashes    \* bound: schedulers lost, transactions and enqueues failed

Horizon == Interval + MaxLag

ASSUME DigestAssumption ==
    /\ IsFiniteSet(Signals) /\ IsFiniteSet(Schedulers)
    /\ BatchLimit \in Nat \ {0} /\ Interval \in Nat \ {0} /\ MaxLag \in Nat
    /\ MaxMatches \in Nat /\ MaxCrashes \in Nat /\ Updated \subseteq Signals

VARIABLES
    queued,    \* DigestQueue: the signals of the subscription's rows
    age,       \* per signal: ticks since queuedAt
    ever,      \* Subscription.lastDigestAt is not NULL
    since,     \* ticks since Subscription.lastDigestAt
    content,   \* DeliveryEvent rows by their signalId: the signals of the payload
    jobs,      \* DeliveryEvent rows for which a send job was enqueued
    pc,        \* per scheduler: idle, due, locking, building, built
    lag,       \* per scheduler: ticks since the "now" of its tick
    snapshot,  \* per scheduler: the rows its SELECT ... FOR UPDATE saw
    batch,     \* per scheduler: the rows it holds locked
    made,      \* per scheduler: the delivery it created, {} if none
    unserved,  \* history: signals matched and not yet put into a digest
    matches,   \* matches of each signal so far
    crashes    \* failures so far

table == <<queued, age, ever, since, content>>
local == <<pc, lag, snapshot, batch, made>>
history == <<unserved, matches, crashes>>
digestVars == <<table, jobs, local, history>>

DigestTypeOK ==
    /\ queued \subseteq Signals
    /\ age \in [Signals -> 0..Horizon]
    /\ ever \in BOOLEAN /\ since \in 0..Horizon
    /\ DOMAIN content \subseteq Signals
    /\ \A g \in DOMAIN content : content[g] \subseteq Signals /\ g \in content[g]
    /\ jobs \subseteq DOMAIN content
    /\ pc \in [Schedulers -> {"idle", "due", "locking", "building", "built"}]
    /\ lag \in [Schedulers -> 0..MaxLag]
    /\ snapshot \in [Schedulers -> SUBSET Signals]
    /\ batch \in [Schedulers -> SUBSET queued]
    /\ made \in [Schedulers -> SUBSET DOMAIN content]
    /\ unserved \subseteq Signals
    /\ matches \in [Signals -> 0..MaxMatches]
    /\ crashes \in 0..MaxCrashes

DigestInit ==
    /\ queued = {} /\ age = [g \in Signals |-> 0]
    /\ ever = FALSE /\ since = 0
    /\ content = [g \in {} |-> {}]
    /\ jobs = {}
    /\ pc = [s \in Schedulers |-> "idle"]
    /\ lag = [s \in Schedulers |-> 0]
    /\ snapshot = [s \in Schedulers |-> {}]
    /\ batch = [s \in Schedulers |-> {}]
    /\ made = [s \in Schedulers |-> {}]
    /\ unserved = {} /\ matches = [g \in Signals |-> 0] /\ crashes = 0
-----------------------------------------------------------------------------
\* QueueDigestItem, from the match handler; idempotent while the row is there.
QueueDigestItem(g) ==
    /\ matches[g] < MaxMatches
    /\ matches[g] = 0 \/ g \in Updated
    /\ matches' = [matches EXCEPT ![g] = @ + 1]
    /\ queued' = queued \cup {g}
    /\ age' = [age EXCEPT ![g] = IF g \in queued THEN @ ELSE 0]
    /\ unserved' = unserved \cup {g}
    /\ UNCHANGED <<ever, since, content, jobs, local, crashes>>

\* digestDue: an interval since the last digest, or since the oldest queued item
\* if there was none.
Due == queued # {} /\ IF ever THEN since >= Interval ELSE \E g \in queued : age[g] >= Interval

\* PendingDigests and digestDue, at a scheduler's tick.
FindDue(s) ==
    /\ pc[s] = "idle" /\ Due
    /\ pc' = [pc EXCEPT ![s] = "due"]
    /\ lag' = [lag EXCEPT ![s] = 0]
    /\ UNCHANGED <<table, jobs, snapshot, batch, made, history>>

\* The transaction's SELECT ... FOR UPDATE takes its snapshot ...
BeginBuild(s) ==
    /\ pc[s] = "due"
    /\ pc' = [pc EXCEPT ![s] = "locking"]
    /\ snapshot' = [snapshot EXCEPT ![s] = queued]
    /\ UNCHANGED <<table, jobs, lag, batch, made, history>>

\* Mutant: the rows are read without being locked.
Mutant_NoLock(s) ==
    /\ pc[s] = "locking"
    /\ \E rows \in SUBSET (snapshot[s] \cap queued) :
        /\ Cardinality(rows) <= BatchLimit
        /\ Cardinality(rows) = BatchLimit \/ rows = snapshot[s] \cap queued
        /\ batch' = [batch EXCEPT ![s] = rows]
    /\ snapshot' = [snapshot EXCEPT ![s] = {}]
    /\ pc' = [pc EXCEPT ![s] = "building"]
    /\ UNCHANGED <<table, jobs, lag, made, history>>

\* ... and waits until no other transaction holds a row of it; rows deleted in
\* the meantime drop out.  The newest BatchLimit ones are its batch.
LockRows(s) ==
    /\ pc[s] = "locking"
    /\ \A r \in Schedulers \ {s} : batch[r] \cap snapshot[s] = {}
    /\ \E rows \in SUBSET (snapshot[s] \cap queued) :
        /\ Cardinality(rows) <= BatchLimit
        /\ Cardinality(rows) = BatchLimit \/ rows = snapshot[s] \cap queued
        /\ batch' = [batch EXCEPT ![s] = rows]
    /\ snapshot' = [snapshot EXCEPT ![s] = {}]
    /\ pc' = [pc EXCEPT ![s] = "building"]
    /\ UNCHANGED <<table, jobs, lag, made, history>>

\* The transaction finds nothing left: it stamps lastDigestAt and ends.
CommitEmpty(s) ==
    /\ pc[s] = "building" /\ batch[s] = {}
    /\ ever' = TRUE /\ since' = lag[s]
    /\ pc' = [pc EXCEPT ![s] = "idle"]
    /\ lag' = [lag EXCEPT ![s] = 0]
    /\ UNCHANGED <<queued, age, content, jobs, snapshot, batch, made, history>>

\* Mutant: the whole queue is cleared, not the rows of the batch.
Mutant_ClearsQueue(s) ==
    /\ pc[s] = "building" /\ batch[s] # {}
    /\ ever' = TRUE /\ since' = lag[s]
    /\ \E rep \in batch[s] :
        /\ rep \notin DOMAIN content
        /\ content' = [g \in DOMAIN content \cup {rep} |->
                          IF g = rep THEN batch[s] ELSE content[g]]
        /\ made' = [made EXCEPT ![s] = {rep}]
        /\ unserved' = unserved \ batch[s]
    /\ queued' = {}
    /\ batch' = [r \in Schedulers |-> {}]
    /\ pc' = [pc EXCEPT ![s] = "built"]
    /\ UNCHANGED <<age, jobs, lag, snapshot, matches, crashes>>

\* It creates the delivery, named by its newest signal; if the subscription has
\* a delivery of that name already, ON CONFLICT DO NOTHING.  Either way the
\* batch leaves the queue and lastDigestAt is the scheduler's "now".
CommitDigest(s) ==
    /\ pc[s] = "building" /\ batch[s] # {}
    /\ ever' = TRUE /\ since' = lag[s]
    /\ \E rep \in batch[s] :
        IF rep \notin DOMAIN content
        THEN /\ content' = [g \in DOMAIN content \cup {rep} |->
                               IF g = rep THEN batch[s] ELSE content[g]]
             /\ made' = [made EXCEPT ![s] = {rep}]
             /\ unserved' = unserved \ batch[s]
        ELSE UNCHANGED <<content, made, unserved>>
    /\ queued' = queued \ batch[s]
    /\ batch' = [batch EXCEPT ![s] = {}]
    /\ pc' = [pc EXCEPT ![s] = "built"]
    /\ UNCHANGED <<age, jobs, lag, snapshot, matches, crashes>>

\* Mutant: Tick takes an empty id for every digest.
Mutant_NotEnqueued(s) ==
    /\ pc[s] = "built"
    /\ made' = [made EXCEPT ![s] = {}]
    /\ pc' = [pc EXCEPT ![s] = "idle"]
    /\ lag' = [lag EXCEPT ![s] = 0]
    /\ UNCHANGED <<table, jobs, snapshot, batch, history>>

\* Tick goes on: a created delivery is enqueued for sending.
Enqueue(s) ==
    /\ pc[s] = "built"
    /\ jobs' = jobs \cup made[s]
    /\ made' = [made EXCEPT ![s] = {}]
    /\ pc' = [pc EXCEPT ![s] = "idle"]
    /\ lag' = [lag EXCEPT ![s] = 0]
    /\ UNCHANGED <<table, snapshot, batch, history>>

\* The process is gone, the transaction fails and is rolled back, or the enqueue
\* fails and is logged.
Crash(s) ==
    /\ pc[s] # "idle"
    /\ crashes < MaxCrashes
    /\ crashes' = crashes + 1
    /\ pc' = [pc EXCEPT ![s] = "idle"]
    /\ lag' = [lag EXCEPT ![s] = 0]
    /\ snapshot' = [snapshot EXCEPT ![s] = {}]
    /\ batch' = [batch EXCEPT ![s] = {}]
    /\ made' = [made EXCEPT ![s] = {}]
    /\ UNCHANGED <<table, jobs, unserved, matches>>

Later(t) == IF t < Horizon THEN t + 1 ELSE t

Tick ==
    /\ \A s \in Schedulers : pc[s] # "idle" => lag[s] < MaxLag
    /\ age' = [g \in Signals |-> IF g \in queued THEN Later(age[g]) ELSE age[g]]
    /\ since' = IF ever THEN Later(since) ELSE since
    /\ lag' = [s \in Schedulers |-> IF pc[s] # "idle" THEN lag[s] + 1 ELSE lag[s]]
    /\ UNCHANGED <<queued, ever, content, jobs, pc, snapshot, batch, made, history>>
-----------------------------------------------------------------------------
SchedulerStep(s) ==
    FindDue(s) \/ BeginBuild(s) \/ LockRows(s) \/ CommitEmpty(s) \/ CommitDigest(s) \/ Enqueue(s)

DigestNext ==
    \/ \E g \in Signals : QueueDigestItem(g)
    \/ \E s \in Schedulers : SchedulerStep(s) \/ Crash(s)
    \/ Tick

DigestSpec == DigestInit /\ [][DigestNext]_digestVars

\* Schedulers keep ticking, finish what they began, and time passes.
DigestFairness == (\A s \in Schedulers : WF_digestVars(SchedulerStep(s))) /\ WF_digestVars(Tick)

FairDigestSpec == DigestSpec /\ DigestFairness
-----------------------------------------------------------------------------
(* Properties *)

\* Until it is in a digest a match is in the queue: no crash, rollback, batch limit or
\* second scheduler loses one.  It is lost only where the newest signal of a batch was
\* matched again after the digest that has its name (BuildDigestDelivery).
NothingLost ==
    \A g \in unserved : g \in queued \/ \E h \in DOMAIN content : matches[h] > 1

\* "Safe under concurrent schedulers": one match is in one digest; a signal that is in
\* two was matched once more.
NotTwice ==
    \A g, h \in DOMAIN content : g # h => \A x \in content[g] \cap content[h] : matches[x] > 1

\* Every match gets into a digest in the end, through crashes and rollbacks, and is
\* mailed, but for a crash between the digest's commit and its enqueue and for the
\* batches lost as NothingLost says.
EveryMatchMailed ==
    \A g \in Signals : g \in unserved ~>
        \E h \in DOMAIN content : \/ g \in content[h] /\ (h \in jobs \/ crashes > 0)
                                 \/ matches[h] > 1
=============================================================================
