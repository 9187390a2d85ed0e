------------------------------ MODULE JobQueue ------------------------------
(***************************************************************************)
(* The Postgres-backed job queue of internal/jobs/queue.go: table ws_jobs, *)
(* a pool of polling workers, the reaper of orphaned jobs and the admin    *)
(* console's "retry job".  Every SQL statement runs on its own (autocommit,*)
(* READ COMMITTED) and is one action, except the singleton INSERT ... WHERE*)
(* NOT EXISTS, whose snapshot precedes its commit: it is two.              *)
(*                                                                         *)
(* Time is counted in ticks and kept relative: `wait' is what is left of   *)
(* start_after - now(), `age' is now() - started_at and saturates just     *)
(* past the reaper's timeout, where the code stops telling values apart.   *)
(***************************************************************************)
EXTENDS Naturals, FiniteSets

CONSTANTS
    MaxJobs,       \* bound: ws_jobs rows ever inserted; ids are in created_at order
    Workers,       \* poll loops, of every worker process
    Queues,        \* queue names that have a handler
    NextQueue,     \* the order in which a poll loop visits the queues
    RetryLimit,    \* SendOptions.RetryLimit, fixed per queue by workers.go
    RetryDelay,    \* SendOptions.RetryDelay, in ticks
    RetryBackoff,  \* SendOptions.RetryBackoff
    Keys,          \* singleton keys
    NoKey,         \* singleton_key IS NULL
    SingletonQueues, \* queues whose jobs are sent with a singleton key
    MaxInserts,    \* bound: singleton INSERTs in flight at a time
    Timeout,       \* stuckJobTimeout
    MaxRun,        \* the longest a handler runs
    RetryFrom,     \* job states in which an operator's RetryJob may land
    MaxPokes,      \* bound: operator retries
    MaxLosses      \* bound: workers lost in the middle of a job

JobStates == {"none", "inserting", "created", "active", "completed", "failed"}
Jobs == 1..MaxJobs
NoJob == 0

ASSUME QueueAssumption ==
    /\ MaxJobs \in Nat
    /\ IsFiniteSet(Workers) /\ Workers # {}
    /\ NextQueue \in [Queues -> Queues]
    /\ RetryLimit \in [Queues -> Nat]
    /\ RetryDelay \in [Queues -> Nat]
    /\ RetryBackoff \in [Queues -> BOOLEAN]
    /\ NoKey \notin Keys
    /\ SingletonQueues \subseteq Queues
    /\ MaxInserts \in Nat /\ Timeout \in Nat /\ MaxRun \in Nat \ {0}
    /\ RetryFrom \subseteq {"created", "active", "completed", "failed"}
    /\ MaxPokes \in Nat /\ MaxLosses \in Nat

\* retry_delay * (1 << retry_count) with back-off, retry_delay without.
Backoff(q, n) == IF RetryBackoff[q] THEN RetryDelay[q] * (2^n) ELSE RetryDelay[q]

\* The retry limits are small enough for the shift not to overflow.
ASSUME BackoffAssumption ==
    \A q \in Queues : \A n \in 0..RetryLimit[q] : Backoff(q, n) \in Nat

VARIABLES
    state,       \* ws_jobs.state; "none": no row, "inserting": row not committed
    queue,       \* ws_jobs.queue
    key,         \* ws_jobs.singleton_key
    retryCount,  \* ws_jobs.retry_count
    wait,        \* ticks until start_after
    age,         \* ticks since started_at, up to Timeout + 1; 0 unless active
    hold,        \* per worker: the job its handler runs
    heldCount,   \* per worker: the retry_count the claim returned
    busy,        \* per worker: ticks since its claim
    turn,        \* per worker: the queue it polls next
    pokes,       \* operator retries so far
    losses       \* workers lost so far

rows == <<state, queue, key, retryCount, wait, age>>
pool == <<hold, heldCount, busy, turn>>
vars == <<rows, pool, pokes, losses>>

TypeOK ==
    /\ state \in [Jobs -> JobStates]
    /\ queue \in [Jobs -> Queues]
    /\ key \in [Jobs -> Keys \cup {NoKey}]
    /\ retryCount \in [Jobs -> Nat]
    /\ wait \in [Jobs -> Nat]
    /\ age \in [Jobs -> 0..(Timeout + 1)]
    /\ hold \in [Workers -> Jobs \cup {NoJob}]
    /\ heldCount \in [Workers -> Nat]
    /\ busy \in [Workers -> 0..MaxRun]
    /\ turn \in [Workers -> Queues]
    /\ pokes \in 0..MaxPokes
    /\ losses \in 0..MaxLosses

Init ==
    /\ state = [j \in Jobs |-> "none"]
    /\ \E q \in Queues : queue = [j \in Jobs |-> q]   \* no row yet: any value
    /\ key = [j \in Jobs |-> NoKey]
    /\ retryCount = [j \in Jobs |-> 0]
    /\ wait = [j \in Jobs |-> 0]
    /\ age = [j \in Jobs |-> 0]
    /\ hold = [w \in Workers |-> NoJob]
    /\ heldCount = [w \in Workers |-> 0]
    /\ busy = [w \in Workers |-> 0]
    /\ \E q \in Queues : turn = [w \in Workers |-> q]
    /\ pokes = 0
    /\ losses = 0
-----------------------------------------------------------------------------
(* Producers *)

Exists(j) == state[j] \notin {"none", "inserting"}
Unfinished(j) == state[j] \in {"created", "active"}
IsFresh(j) == state[j] = "none" /\ \A i \in Jobs : i < j => state[i] # "none"
Inserting == {j \in Jobs : state[j] = "inserting"}

\* Send without a singleton key: one INSERT.
Send(j, q) ==
    /\ q \notin SingletonQueues
    /\ IsFresh(j)
    /\ state' = [state EXCEPT ![j] = "created"]
    /\ queue' = [queue EXCEPT ![j] = q]
    /\ UNCHANGED <<key, retryCount, wait, age, pool, pokes, losses>>

\* Mutant: the dedupe looks at queued jobs only, not at running ones.
Mutant_DedupeQueuedOnly(j, q, k) ==
    /\ q \in SingletonQueues
    /\ IsFresh(j)
    /\ Cardinality(Inserting) < MaxInserts
    /\ ~ \E i \in Jobs : state[i] = "created" /\ queue[i] = q /\ key[i] = k
    /\ state' = [state EXCEPT ![j] = "inserting"]
    /\ queue' = [queue EXCEPT ![j] = q]
    /\ key' = [key EXCEPT ![j] = k]
    /\ UNCHANGED <<retryCount, wait, age, pool, pokes, losses>>

\* Send with a singleton key: the statement's snapshot shows no unfinished job
\* with that key (it does not show the uncommitted rows of other senders), so
\* it inserts a row; if the snapshot shows one, Send changes nothing.
SendSingleton(j, q, k) ==
    /\ q \in SingletonQueues
    /\ IsFresh(j)
    /\ Cardinality(Inserting) < MaxInserts
    /\ ~ \E i \in Jobs : Unfinished(i) /\ queue[i] = q /\ key[i] = k
    /\ state' = [state EXCEPT ![j] = "inserting"]
    /\ queue' = [queue EXCEPT ![j] = q]
    /\ key' = [key EXCEPT ![j] = k]
    /\ UNCHANGED <<retryCount, wait, age, pool, pokes, losses>>

\* The singleton INSERT commits.
CommitSend(j) ==
    /\ state[j] = "inserting"
    /\ state' = [state EXCEPT ![j] = "created"]
    /\ UNCHANGED <<queue, key, retryCount, wait, age, pool, pokes, losses>>

\* Mutant: an operator's retry also gives the job a new retry budget.
Mutant_RetryResetsCount(j) ==
    /\ state[j] \in RetryFrom
    /\ pokes < MaxPokes
    /\ pokes' = pokes + 1
    /\ state' = [state EXCEPT ![j] = "created"]
    /\ retryCount' = [retryCount EXCEPT ![j] = 0]
    /\ wait' = [wait EXCEPT ![j] = 0]
    /\ age' = [age EXCEPT ![j] = 0]
    /\ UNCHANGED <<queue, key, pool, losses>>

\* RetryJob: created and due at once, whatever state the row is in; its
\* retry_count stays.
RetryJob(j) ==
    /\ state[j] \in RetryFrom
    /\ pokes < MaxPokes
    /\ pokes' = pokes + 1
    /\ state' = [state EXCEPT ![j] = "created"]
    /\ wait' = [wait EXCEPT ![j] = 0]
    /\ age' = [age EXCEPT ![j] = 0]
    /\ UNCHANGED <<queue, key, retryCount, pool, losses>>
-----------------------------------------------------------------------------
(* Workers *)

\* Mutant: the poll's WHERE clause lacks state='created'.
Mutant_ReadyAnyUnfinished(q) == {j \in Jobs : Unfinished(j) /\ queue[j] = q /\ wait[j] = 0}

Ready(q) == {j \in Jobs : state[j] = "created" /\ queue[j] = q /\ wait[j] = 0}

\* processOne takes the oldest due job of the queue the loop has reached.
Claim(w, j) ==
    /\ hold[w] = NoJob
    /\ j \in Ready(turn[w])
    /\ \A i \in Ready(turn[w]) : j <= i
    /\ state' = [state EXCEPT ![j] = "active"]
    /\ age' = [age EXCEPT ![j] = 0]
    /\ hold' = [hold EXCEPT ![w] = j]
    /\ heldCount' = [heldCount EXCEPT ![w] = retryCount[j]]
    /\ busy' = [busy EXCEPT ![w] = 0]
    /\ turn' = [turn EXCEPT ![w] = NextQueue[turn[w]]]
    /\ UNCHANGED <<queue, key, retryCount, wait, pokes, losses>>

\* Mutant: the loop drains one queue before it looks at the next, and never
\* leaves a queue it found empty.
Mutant_PollStays(w) ==
    /\ hold[w] = NoJob
    /\ Ready(turn[w]) = {}
    /\ UNCHANGED vars

\* processOne finds no due job and the loop goes on to the next queue.
PollEmpty(w) ==
    /\ hold[w] = NoJob
    /\ Ready(turn[w]) = {}
    /\ turn' = [turn EXCEPT ![w] = NextQueue[turn[w]]]
    /\ UNCHANGED <<rows, hold, heldCount, busy, pokes, losses>>

\* The worker's claim ends, however it ends.
LetGo(w) ==
    /\ hold' = [hold EXCEPT ![w] = NoJob]
    /\ heldCount' = [heldCount EXCEPT ![w] = 0]
    /\ busy' = [busy EXCEPT ![w] = 0]
    /\ UNCHANGED turn

\* Mutant: the last attempt is never taken.
Mutant_NeverFinal(w) == FALSE

IsFinal(w) == heldCount[w] >= RetryLimit[queue[hold[w]]]

\* The final UPDATEs of processOne name the row by id only: neither looks at
\* its state, nor at which worker runs it by now.
Complete(w) ==
    /\ hold[w] # NoJob
    /\ state' = [state EXCEPT ![hold[w]] = "completed"]
    /\ age' = [age EXCEPT ![hold[w]] = 0]
    /\ LetGo(w)
    /\ UNCHANGED <<queue, key, retryCount, wait, pokes, losses>>

FailRetry(w) ==
    /\ hold[w] # NoJob
    /\ ~ IsFinal(w)
    /\ state' = [state EXCEPT ![hold[w]] = "created"]
    /\ retryCount' = [retryCount EXCEPT ![hold[w]] = @ + 1]
    /\ wait' = [wait EXCEPT ![hold[w]] = Backoff(queue[hold[w]], heldCount[w])]
    /\ age' = [age EXCEPT ![hold[w]] = 0]
    /\ LetGo(w)
    /\ UNCHANGED <<queue, key, pokes, losses>>

FailFinal(w) ==
    /\ hold[w] # NoJob
    /\ IsFinal(w)
    /\ state' = [state EXCEPT ![hold[w]] = "failed"]
    /\ age' = [age EXCEPT ![hold[w]] = 0]
    /\ LetGo(w)
    /\ UNCHANGED <<queue, key, retryCount, wait, pokes, losses>>

Finish(w) == Complete(w) \/ FailRetry(w) \/ FailFinal(w)

\* The worker is gone before its final UPDATE: the process crashed, Stop
\* cancelled its context, or the statement itself failed.
Lose(w) ==
    /\ hold[w] # NoJob
    /\ losses < MaxLosses
    /\ losses' = losses + 1
    /\ LetGo(w)
    /\ UNCHANGED <<rows, pokes>>
-----------------------------------------------------------------------------
(* The reaper and the clock *)

Stuck(j) == state[j] = "active" /\ age[j] > Timeout

\* requeueStuck: one UPDATE over every stuck job; retry_count and start_after
\* stay as they are.
Reap ==
    /\ \E j \in Jobs : Stuck(j)
    /\ state' = [j \in Jobs |-> IF Stuck(j) THEN "created" ELSE state[j]]
    /\ age' = [j \in Jobs |-> IF Stuck(j) THEN 0 ELSE age[j]]
    /\ UNCHANGED <<queue, key, retryCount, wait, pool, pokes, losses>>

\* One unit of time; no handler outlives MaxRun.
Tick ==
    /\ \A w \in Workers : hold[w] # NoJob => busy[w] < MaxRun
    /\ wait' = [j \in Jobs |-> IF wait[j] = 0 THEN 0 ELSE wait[j] - 1]
    /\ age' = [j \in Jobs |-> IF state[j] = "active" /\ age[j] <= Timeout
                              THEN age[j] + 1 ELSE age[j]]
    /\ busy' = [w \in Workers |-> IF hold[w] # NoJob THEN busy[w] + 1 ELSE busy[w]]
    /\ UNCHANGED <<state, queue, key, retryCount, hold, heldCount, turn, pokes, losses>>
-----------------------------------------------------------------------------
JobNext(j) ==
    \/ \E q \in Queues : Send(j, q) \/ \E k \in Keys : SendSingleton(j, q, k)
    \/ CommitSend(j)
    \/ RetryJob(j)

WorkerNext(w) ==
    \/ \E j \in Jobs : Claim(w, j)
    \/ PollEmpty(w)
    \/ Finish(w)
    \/ Lose(w)

Next ==
    \/ \E j \in Jobs : JobNext(j)
    \/ \E w \in Workers : WorkerNext(w)
    \/ Reap
    \/ Tick

Spec == Init /\ [][Next]_vars

\* Poll loops keep polling, handlers return, statements in flight end, the
\* reaper's ticker fires and time passes.  Sends, operators and losses are the
\* environment's.
Fairness ==
    /\ \A w \in Workers : WF_vars((\E j \in Jobs : Claim(w, j)) \/ PollEmpty(w))
    /\ \A w \in Workers : WF_vars(Finish(w))
    /\ \A j \in Jobs : WF_vars(CommitSend(j))
    /\ WF_vars(Reap)
    /\ WF_vars(Tick)

FairSpec == Spec /\ Fairness
-----------------------------------------------------------------------------
(* Properties *)

\* At any bound on handler times and any operator: a job is dead-lettered only
\* after all its retries, although the worker that decides compares the limit
\* with the count it read when it claimed.
DeadLetterExhausted ==
    \A j \in Jobs : state[j] = "failed" => retryCount[j] >= RetryLimit[queue[j]]

\* A handler that outlives the reaper's timeout lets several workers hold one
\* job and each of them count a retry; retry_count still never passes the limit
\* by more than the other workers of the pool.
RetryBudget ==
    \A j \in Jobs : LET limit == RetryLimit[queue[j]] IN
        retryCount[j] <= IF limit = 0 THEN 0 ELSE (limit - 1) + Cardinality(Workers)

\* The setting in which the queue keeps its promises: handlers return before
\* the reaper's timeout and operators retry failed jobs only.
Timely == MaxRun <= Timeout /\ RetryFrom \subseteq {"failed"}

\* The promise of the worker pool (queue.go: "ensures workers claim distinct
\* jobs"): no two handlers run the same job at the same time.
ClaimsDistinct ==
    \A v, w \in Workers : hold[v] # NoJob /\ hold[v] = hold[w] => v = w

\* The reaper takes only orphans: a stuck job is in no living worker's hands,
\* so requeueStuck never starts a second run beside the first.
ReapsOnlyOrphans ==
    \A j \in Jobs : Stuck(j) => \A w \in Workers : hold[w] # j

\* What a worker holds is an active row, claimed exactly as long ago as the
\* worker has been busy, whose retry_count is still the one it read: the copy
\* processOne decides on is never stale.
LeaseHeld ==
    \A w \in Workers : hold[w] # NoJob =>
        /\ state[hold[w]] = "active"
        /\ age[hold[w]] = busy[w]
        /\ retryCount[hold[w]] = heldCount[w]

Sent(q, k) == {j \in Jobs : Unfinished(j) /\ queue[j] = q /\ key[j] = k}

\* The promise in Send's comment: "With a SingletonKey, it is a no-op if an
\* unfinished job with that key already exists".  The code does not keep it:
\* two snapshots may both miss the other statement's row.
SingletonUnique == \A q \in Queues, k \in Keys : Cardinality(Sent(q, k)) <= 1

\* What the conditional INSERT does guarantee: a key has no more unfinished jobs
\* than senders that overlap, and one more for every job an operator retried.
\* Copies do not pile up, however many sends follow and however long jobs run.
SingletonBounded ==
    \A q \in Queues, k \in Keys : Cardinality(Sent(q, k)) <= MaxInserts + pokes

\* What a sender sees of a row: queued, running and backing off are one phase.
Phase == [j \in Jobs |-> CASE Unfinished(j) -> "todo"
                          [] state[j] = "completed" -> "done"
                          [] state[j] = "failed" -> "dead"
                          [] OTHER -> "absent"]
Limit == [j \in Jobs |-> IF Exists(j) THEN RetryLimit[queue[j]] ELSE 0]

Lifecycle == INSTANCE JobLifecycle WITH
    Job <- Jobs,
    Limits <- {RetryLimit[q] : q \in Queues},
    phase <- Phase,
    limit <- Limit,
    tries <- retryCount

\* The queue implements the lifecycle its senders rely on: a run counts at most
\* once, retries stop at the limit exactly, a completed job is done for good.
ImplementsLifecycle == Lifecycle!LifeSpec

\* Every job that is queued or running is completed or dead-lettered in the
\* end, through finitely many lost workers and operator retries.
EveryJobSettles ==
    \A j \in Jobs : Unfinished(j) ~> (state[j] \in {"completed", "failed"})
=============================================================================
