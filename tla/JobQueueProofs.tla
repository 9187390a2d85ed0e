--------------------------- MODULE JobQueueProofs ---------------------------
(***************************************************************************)
(* Theorems about JobQueue for every number of jobs, workers and queues,   *)
(* every retry limit and every bound.                                      *)
(***************************************************************************)
EXTENDS JobQueue, FiniteSetTheorems, TLAPS

\* Every variable keeps its type: in particular retry counts and delays stay
\* natural numbers and a worker holds one existing job or none.
THEOREM TypeCorrect == Spec => []TypeOK
<1>1. Init => TypeOK
  BY QueueAssumption DEF Init, TypeOK, JobStates
<1>2. TypeOK /\ [Next]_vars => TypeOK'
  <2> SUFFICES ASSUME TypeOK, [Next]_vars PROVE TypeOK'
    OBVIOUS
  <2> DEFINE Names == {"none", "inserting", "created", "active", "completed", "failed"}
  <2>a. Names \subseteq JobStates
    BY DEF JobStates
  <2>b. /\ NextQueue \in [Queues -> Queues]
        /\ Timeout \in Nat /\ MaxRun \in Nat /\ MaxPokes \in Nat /\ MaxLosses \in Nat
    BY QueueAssumption
  <2> USE DEF TypeOK
  <2>1. ASSUME NEW j \in Jobs, JobNext(j) PROVE TypeOK'
    <3>1. ASSUME NEW q \in Queues, Send(j, q) PROVE TypeOK'
      BY <2>a, <3>1 DEF Send, pool
    <3>2. ASSUME NEW q \in Queues, NEW k \in Keys, SendSingleton(j, q, k) PROVE TypeOK'
      BY <2>a, <3>2 DEF SendSingleton, pool
    <3>3. CASE CommitSend(j)
      BY <2>a, <3>3 DEF CommitSend, pool
    <3>4. CASE RetryJob(j)
      <4>1. pokes' \in 0..MaxPokes
        BY <2>b, <3>4 DEF RetryJob
      <4>2. age' \in [Jobs -> 0..(Timeout + 1)]
        BY <2>b, <3>4 DEF RetryJob
      <4> QED
        BY <2>a, <3>4, <4>1, <4>2 DEF RetryJob, pool
    <3> QED
      BY <2>1, <3>1, <3>2, <3>3, <3>4 DEF JobNext
  <2>2. ASSUME NEW w \in Workers, WorkerNext(w) PROVE TypeOK'
    <3>a. ASSUME LetGo(w) PROVE /\ hold' \in [Workers -> Jobs \cup {NoJob}]
                                /\ heldCount' \in [Workers -> Nat]
                                /\ busy' \in [Workers -> 0..MaxRun]
                                /\ turn' \in [Workers -> Queues]
      BY <2>b, <3>a DEF LetGo
    <3>b. ASSUME NEW i \in Jobs, age' = [age EXCEPT ![i] = 0] PROVE age' \in [Jobs -> 0..(Timeout + 1)]
      BY <2>b, <3>b
    <3>1. ASSUME NEW j \in Jobs, Claim(w, j) PROVE TypeOK'
      <4>1. busy' \in [Workers -> 0..MaxRun] /\ turn' \in [Workers -> Queues]
        BY <2>b, <3>1 DEF Claim
      <4>2. age' \in [Jobs -> 0..(Timeout + 1)]
        BY <3>b, <3>1 DEF Claim
      <4> QED
        BY <2>a, <3>1, <4>1, <4>2 DEF Claim
    <3>2. CASE PollEmpty(w)
      BY <2>b, <3>2 DEF PollEmpty, rows
    <3>3. CASE Complete(w)
      BY <2>a, <3>a, <3>b, <3>3 DEF Complete
    <3>4. CASE FailRetry(w)
      <4>1. hold[w] \in Jobs /\ queue[hold[w]] \in Queues
        BY <3>4 DEF FailRetry
      <4>2. heldCount[w] \in 0..RetryLimit[queue[hold[w]]]
        BY <3>4, <4>1, QueueAssumption DEF FailRetry, IsFinal
      <4>3. Backoff(queue[hold[w]], heldCount[w]) \in Nat
        BY <4>1, <4>2, BackoffAssumption
      <4>4. wait' \in [Jobs -> Nat] /\ retryCount' \in [Jobs -> Nat]
        BY <3>4, <4>3 DEF FailRetry
      <4> QED
        BY <2>a, <3>a, <3>b, <3>4, <4>4 DEF FailRetry
    <3>5. CASE FailFinal(w)
      BY <2>a, <3>a, <3>b, <3>5 DEF FailFinal
    <3>6. CASE Lose(w)
      <4>1. losses' \in 0..MaxLosses
        BY <2>b, <3>6 DEF Lose
      <4> QED
        BY <3>a, <3>6, <4>1 DEF Lose, rows
    <3> QED
      BY <2>2, <3>1, <3>2, <3>3, <3>4, <3>5, <3>6 DEF WorkerNext, Finish
  <2>3. CASE Reap
    <3>1. age' \in [Jobs -> 0..(Timeout + 1)]
      BY <2>b, <2>3 DEF Reap
    <3>2. state' \in [Jobs -> JobStates]
      BY <2>a, <2>3 DEF Reap
    <3> QED
      BY <2>3, <3>1, <3>2 DEF Reap, pool
  <2>4. CASE Tick
    <3>1. wait' \in [Jobs -> Nat]
      BY <2>4 DEF Tick
    <3>2. age' \in [Jobs -> 0..(Timeout + 1)]
      BY <2>b, <2>4 DEF Tick
    <3>3. busy' \in [Workers -> 0..MaxRun]
      BY <2>b, <2>4 DEF Tick
    <3> QED
      BY <2>4, <3>1, <3>2, <3>3 DEF Tick
  <2>5. CASE UNCHANGED vars
    BY <2>5 DEF vars, rows, pool
  <2> QED
    BY <2>1, <2>2, <2>3, <2>4, <2>5 DEF Next
<1> QED
  BY <1>1, <1>2, PTL DEF Spec
-----------------------------------------------------------------------------
(* Retry accounting, at any bound on handler times and any operator *)

\* The workers whose failure would still count a retry of job j.
Spending(j) == {w \in Workers : hold[w] = j /\ heldCount[w] < RetryLimit[queue[j]]}

\* DeadLetterExhausted and RetryBudget are not inductive: one needs that the
\* count a worker read is not above the row's, the other that the retries
\* already counted and those still in workers' hands share one budget.
AccountInv ==
    /\ \A w \in Workers : hold[w] # NoJob =>
            Exists(hold[w]) /\ heldCount[w] <= retryCount[hold[w]]
    /\ \A j \in Jobs : ~ Exists(j) => retryCount[j] = 0
    /\ DeadLetterExhausted
    /\ \A j \in Jobs : LET limit == RetryLimit[queue[j]] IN
        retryCount[j] <= IF limit = 0 THEN 0
                         ELSE ((limit - 1) + Cardinality(Workers)) - Cardinality(Spending(j))

LEMMA WorkerSubset ==
    ASSUME NEW S \in SUBSET Workers
    PROVE  /\ IsFiniteSet(S)
           /\ Cardinality(S) \in Nat
           /\ Cardinality(Workers) \in Nat
           /\ Cardinality(S) <= Cardinality(Workers)
  BY QueueAssumption, FS_Subset, FS_CardinalityType

\* A step that leaves the workers' copies, the queues and the counts alone and
\* neither removes a row nor dead-letters one keeps the accounts.
LEMMA AccountFrame ==
    ASSUME TypeOK, AccountInv,
           UNCHANGED <<hold, heldCount, queue, retryCount>>,
           \A j \in Jobs : Exists(j) => Exists(j)',
           \A j \in Jobs : state'[j] = "failed" => state[j] = "failed"
    PROVE  AccountInv'
<1>1. \A j \in Jobs : Spending(j)' = Spending(j)
  BY DEF Spending
<1>2. \A j \in Jobs : ~ Exists(j)' => retryCount'[j] = 0
  BY DEF AccountInv
<1>3. DeadLetterExhausted'
  BY DEF AccountInv, DeadLetterExhausted
<1>4. \A w \in Workers : hold'[w] # NoJob =>
            Exists(hold[w])' /\ heldCount'[w] <= retryCount'[hold'[w]]
  BY DEF AccountInv, TypeOK
<1> QED
  BY <1>1, <1>2, <1>3, <1>4 DEF AccountInv

\* A send fills a row nobody holds.
LEMMA AccountSend ==
    ASSUME TypeOK, AccountInv,
           NEW i \in Jobs, state[i] = "none",
           NEW q \in Queues, queue' = [queue EXCEPT ![i] = q],
           NEW s \in {"created", "inserting"}, state' = [state EXCEPT ![i] = s],
           UNCHANGED <<hold, heldCount, retryCount>>
    PROVE  AccountInv'
<1>1. retryCount[i] = 0 /\ \A w \in Workers : hold[w] # i
  BY DEF AccountInv, Exists, NoJob, Jobs
<1>2. \A w \in Workers : hold'[w] # NoJob =>
            Exists(hold[w])' /\ heldCount'[w] <= retryCount'[hold'[w]]
  BY <1>1 DEF AccountInv, TypeOK, Exists
<1>3. \A j \in Jobs : ~ Exists(j)' => retryCount'[j] = 0
  BY <1>1 DEF AccountInv, TypeOK, Exists
<1>4. DeadLetterExhausted'
  BY DEF AccountInv, DeadLetterExhausted, TypeOK
<1>5. ASSUME NEW j \in Jobs
      PROVE  retryCount'[j] <= IF RetryLimit[queue'[j]] = 0 THEN 0
                 ELSE ((RetryLimit[queue'[j]] - 1) + Cardinality(Workers)) - Cardinality(Spending(j)')
  <2>1. CASE j = i
    <3>1. Spending(j)' = {}
      BY <1>1, <2>1 DEF Spending
    <3>2. Cardinality(Spending(j)') = 0
      BY <3>1, FS_EmptySet
    <3>3. RetryLimit[queue'[j]] \in Nat /\ Cardinality(Workers) \in Nat
      BY <2>1, QueueAssumption, WorkerSubset DEF TypeOK
    <3> QED
      BY <1>1, <2>1, <3>2, <3>3
  <2>2. CASE j # i
    <3>1. queue'[j] = queue[j] /\ Spending(j)' = Spending(j)
      BY <2>2 DEF Spending, TypeOK
    <3> QED
      BY <3>1 DEF AccountInv
  <2> QED
    BY <2>1, <2>2
<1> QED
  BY <1>2, <1>3, <1>4, <1>5 DEF AccountInv

\* A claim adds a worker to those that may spend a retry of job i only while
\* the row is still below its limit, so the budget has room for all of them.
LEMMA AccountClaim ==
    ASSUME TypeOK, AccountInv, NEW w \in Workers, NEW i \in Jobs, Claim(w, i)
    PROVE  AccountInv'
<1>1. /\ state[i] = "created" /\ hold[w] = NoJob
      /\ hold' = [hold EXCEPT ![w] = i]
      /\ heldCount' = [heldCount EXCEPT ![w] = retryCount[i]]
      /\ state' = [state EXCEPT ![i] = "active"]
      /\ UNCHANGED <<queue, retryCount>>
  BY DEF Claim, Ready
<1>2. \A v \in Workers : hold'[v] # NoJob =>
            Exists(hold[v])' /\ heldCount'[v] <= retryCount'[hold'[v]]
  BY <1>1 DEF AccountInv, TypeOK, Exists
<1>3. \A j \in Jobs : ~ Exists(j)' => retryCount'[j] = 0
  BY <1>1 DEF AccountInv, TypeOK, Exists
<1>4. DeadLetterExhausted'
  BY <1>1 DEF AccountInv, DeadLetterExhausted, TypeOK
<1>5. ASSUME NEW j \in Jobs
      PROVE  retryCount'[j] <= IF RetryLimit[queue'[j]] = 0 THEN 0
                 ELSE ((RetryLimit[queue'[j]] - 1) + Cardinality(Workers)) - Cardinality(Spending(j)')
  <2>1. CASE j = i /\ retryCount[i] < RetryLimit[queue[i]]
    <3>1. Spending(j)' \in SUBSET Workers
      BY DEF Spending
    <3>2. Cardinality(Spending(j)') \in Nat /\ Cardinality(Workers) \in Nat
          /\ Cardinality(Spending(j)') <= Cardinality(Workers)
      BY <3>1, WorkerSubset
    <3>3. RetryLimit[queue[j]] \in Nat /\ retryCount[j] \in Nat
      BY QueueAssumption DEF TypeOK
    <3> QED
      BY <1>1, <2>1, <3>2, <3>3
  <2>2. CASE ~ (j = i /\ retryCount[i] < RetryLimit[queue[i]])
    <3>1. Spending(j)' = Spending(j)
      <4>1. \A v \in Workers : v # w => hold'[v] = hold[v] /\ heldCount'[v] = heldCount[v]
        BY <1>1 DEF TypeOK
      <4>2. hold'[w] = i /\ heldCount'[w] = retryCount[i]
        BY <1>1 DEF TypeOK
      <4>3. w \notin Spending(j) /\ w \notin Spending(j)'
        BY <1>1, <2>2, <4>2 DEF Spending, NoJob, Jobs
      <4> QED
        BY <1>1, <4>1, <4>3 DEF Spending
    <3> QED
      BY <1>1, <3>1 DEF AccountInv
  <2> QED
    BY <2>1, <2>2
<1> QED
  BY <1>2, <1>3, <1>4, <1>5 DEF AccountInv

\* A worker that lets go of its job takes its claim on the budget with it, and
\* a failed run that is retried counts the one retry it had room for.
LEMMA AccountLetGo ==
    ASSUME TypeOK, AccountInv, NEW w \in Workers, LetGo(w), hold[w] # NoJob,
           UNCHANGED queue,
           \/ UNCHANGED <<state, retryCount>>
           \/ /\ \E s \in JobStates \ {"none", "inserting", "failed"} :
                    state' = [state EXCEPT ![hold[w]] = s]
              /\ UNCHANGED retryCount
           \/ /\ IsFinal(w)
              /\ state' = [state EXCEPT ![hold[w]] = "failed"]
              /\ UNCHANGED retryCount
           \/ /\ ~ IsFinal(w)
              /\ state' = [state EXCEPT ![hold[w]] = "created"]
              /\ retryCount' = [retryCount EXCEPT ![hold[w]] = @ + 1]
    PROVE  AccountInv'
<1> DEFINE i == hold[w]
<1>1. /\ i \in Jobs /\ Exists(i) /\ heldCount[w] <= retryCount[i]
      /\ retryCount[i] \in Nat /\ heldCount[w] \in Nat /\ RetryLimit[queue[i]] \in Nat
  BY QueueAssumption DEF AccountInv, TypeOK
<1>2. /\ hold' = [hold EXCEPT ![w] = NoJob]
      /\ heldCount' = [heldCount EXCEPT ![w] = 0]
  BY DEF LetGo
<1>3. retryCount'[i] \in {retryCount[i], retryCount[i] + 1}
      /\ \A j \in Jobs : j # i => retryCount'[j] = retryCount[j]
  BY <1>1 DEF TypeOK
<1>4. \A j \in Jobs : (Exists(j)' <=> Exists(j))
  BY <1>1 DEF TypeOK, Exists
<1>5. \A v \in Workers : hold'[v] # NoJob =>
            Exists(hold[v])' /\ heldCount'[v] <= retryCount'[hold'[v]]
  <2> SUFFICES ASSUME NEW v \in Workers, hold'[v] # NoJob
               PROVE  Exists(hold[v])' /\ heldCount'[v] <= retryCount'[hold'[v]]
    OBVIOUS
  <2>1. v # w /\ hold'[v] = hold[v] /\ heldCount'[v] = heldCount[v]
    BY <1>2 DEF TypeOK
  <2>2. hold[v] \in Jobs /\ Exists(hold[v]) /\ heldCount[v] <= retryCount[hold[v]]
        /\ heldCount[v] \in Nat /\ retryCount[hold[v]] \in Nat
    BY <2>1 DEF AccountInv, TypeOK
  <2>3. Exists(hold[v])'
    BY <1>4, <2>1, <2>2 DEF Exists
  <2> QED
    BY <1>3, <2>1, <2>2, <2>3
<1>6. \A j \in Jobs : ~ Exists(j)' => retryCount'[j] = 0
  BY <1>1, <1>3, <1>4 DEF AccountInv
<1>7. DeadLetterExhausted'
  <2>1. state'[i] = "failed" => retryCount'[i] >= RetryLimit[queue'[i]]
    BY <1>1 DEF AccountInv, DeadLetterExhausted, IsFinal, TypeOK
  <2>2. \A j \in Jobs : j # i /\ state'[j] = "failed" => retryCount'[j] >= RetryLimit[queue'[j]]
    BY <1>1, <1>3 DEF AccountInv, DeadLetterExhausted, TypeOK
  <2> QED
    BY <2>1, <2>2 DEF DeadLetterExhausted
<1>8. ASSUME NEW j \in Jobs
      PROVE  retryCount'[j] <= IF RetryLimit[queue'[j]] = 0 THEN 0
                 ELSE ((RetryLimit[queue'[j]] - 1) + Cardinality(Workers)) - Cardinality(Spending(j)')
  <2>1. Spending(j)' = Spending(j) \ {w}
    BY <1>1, <1>2 DEF Spending, TypeOK, NoJob, Jobs
  <2>2. /\ Spending(j) \in SUBSET Workers /\ Spending(j)' \in SUBSET Workers
        /\ Spending(j)' \in SUBSET Spending(j)
    BY <2>1 DEF Spending
  <2>3. /\ IsFiniteSet(Spending(j)) /\ Cardinality(Spending(j)) \in Nat
        /\ Cardinality(Spending(j)') \in Nat /\ Cardinality(Workers) \in Nat
        /\ Cardinality(Spending(j)') <= Cardinality(Spending(j))
    BY <2>2, WorkerSubset, FS_Subset
  <2>4. RetryLimit[queue[j]] \in Nat /\ retryCount[j] \in Nat
    BY QueueAssumption DEF TypeOK
  <2>5. CASE retryCount'[j] = retryCount[j]
    BY <2>3, <2>4, <2>5 DEF AccountInv
  <2>6. CASE retryCount'[j] # retryCount[j]
    <3>1. j = i /\ ~ IsFinal(w) /\ retryCount'[j] = retryCount[j] + 1
      BY <1>3, <2>6
    <3>2. w \in Spending(j)
      BY <1>1, <3>1 DEF Spending, IsFinal
    <3>3. Cardinality(Spending(j)') = Cardinality(Spending(j)) - 1
      BY <2>1, <2>3, <3>2, FS_RemoveElement
    <3>4. RetryLimit[queue[j]] # 0
      BY <1>1, <3>1 DEF IsFinal
    <3> QED
      BY <2>3, <2>4, <3>1, <3>3, <3>4 DEF AccountInv
  <2> QED
    BY <2>5, <2>6
<1> QED
  BY <1>5, <1>6, <1>7, <1>8 DEF AccountInv

LEMMA AccountStep == TypeOK /\ AccountInv /\ [Next]_vars => AccountInv'
<1> SUFFICES ASSUME TypeOK, AccountInv, [Next]_vars PROVE AccountInv'
  OBVIOUS
<1>1. ASSUME NEW j \in Jobs, JobNext(j) PROVE AccountInv'
  <2>1. ASSUME NEW q \in Queues, Send(j, q) PROVE AccountInv'
    BY <2>1, AccountSend DEF Send, IsFresh, pool
  <2>2. ASSUME NEW q \in Queues, NEW k \in Keys, SendSingleton(j, q, k) PROVE AccountInv'
    BY <2>2, AccountSend DEF SendSingleton, IsFresh, pool
  <2>3. CASE CommitSend(j)
    <3>1. \A i \in Jobs : i # j => state'[i] = state[i]
      BY <2>3 DEF CommitSend, TypeOK
    <3>2. state[j] = "inserting" /\ state'[j] = "created"
      BY <2>3 DEF CommitSend, TypeOK
    <3>3. \A i \in Jobs : Exists(i) => Exists(i)'
      BY <3>1, <3>2 DEF Exists
    <3>4. \A i \in Jobs : state'[i] = "failed" => state[i] = "failed"
      BY <3>1, <3>2
    <3>5. UNCHANGED <<hold, heldCount, queue, retryCount>>
      BY <2>3 DEF CommitSend, pool
    <3> QED
      BY <3>3, <3>4, <3>5, AccountFrame
  <2>4. CASE RetryJob(j)
    <3>1. \A i \in Jobs : i # j => state'[i] = state[i]
      BY <2>4 DEF RetryJob, TypeOK
    <3>2. state'[j] = "created"
      BY <2>4 DEF RetryJob, TypeOK
    <3>3. \A i \in Jobs : Exists(i) => Exists(i)'
      BY <3>1, <3>2 DEF Exists
    <3>4. \A i \in Jobs : state'[i] = "failed" => state[i] = "failed"
      BY <3>1, <3>2
    <3>5. UNCHANGED <<hold, heldCount, queue, retryCount>>
      BY <2>4 DEF RetryJob, pool
    <3> QED
      BY <3>3, <3>4, <3>5, AccountFrame
  <2> QED
    BY <1>1, <2>1, <2>2, <2>3, <2>4 DEF JobNext
<1>2. ASSUME NEW w \in Workers, WorkerNext(w) PROVE AccountInv'
  <2>1. ASSUME NEW j \in Jobs, Claim(w, j) PROVE AccountInv'
    BY <2>1, AccountClaim
  <2>2. CASE PollEmpty(w)
    BY <2>2, AccountFrame DEF PollEmpty, rows, Exists
  <2>3. CASE Complete(w)
    BY <2>3, AccountLetGo DEF Complete, JobStates
  <2>4. CASE FailRetry(w)
    BY <2>4, AccountLetGo DEF FailRetry
  <2>5. CASE FailFinal(w)
    BY <2>5, AccountLetGo DEF FailFinal
  <2>6. CASE Lose(w)
    BY <2>6, AccountLetGo DEF Lose, rows
  <2> QED
    BY <1>2, <2>1, <2>2, <2>3, <2>4, <2>5, <2>6 DEF WorkerNext, Finish
<1>3. CASE Reap
  <2>1. \A j \in Jobs : state'[j] = (IF Stuck(j) THEN "created" ELSE state[j])
    BY <1>3 DEF Reap
  <2>2. UNCHANGED <<hold, heldCount, queue, retryCount>>
    BY <1>3 DEF Reap, pool
  <2> QED
    BY <2>1, <2>2, AccountFrame DEF Exists
<1>4. CASE Tick
  BY <1>4, AccountFrame DEF Tick, Exists
<1>5. CASE UNCHANGED vars
  BY <1>5, AccountFrame DEF vars, rows, pool, Exists
<1> QED
  BY <1>1, <1>2, <1>3, <1>4, <1>5 DEF Next

\* The accounts are in order in every reachable state.
LEMMA AccountInvariant == Spec => []AccountInv
<1>1. Init => AccountInv
  <2> SUFFICES ASSUME Init PROVE AccountInv
    OBVIOUS
  <2>1. \A j \in Jobs : Spending(j) = {}
    BY DEF Init, Spending, NoJob, Jobs
  <2>2. \A j \in Jobs : Cardinality(Spending(j)) = 0
    BY <2>1, FS_EmptySet
  <2>3. Cardinality(Workers) \in Nat
    BY WorkerSubset
  <2>4. \A j \in Jobs : RetryLimit[queue[j]] \in Nat
    BY QueueAssumption DEF Init
  <2> QED
    BY <2>2, <2>3, <2>4 DEF Init, AccountInv, DeadLetterExhausted, Exists
<1> QED
  BY <1>1, AccountStep, TypeCorrect, PTL DEF Spec

\* A job is dead-lettered only after all its retries, and slow handlers cannot
\* push its retry_count past the limit by more than the rest of the pool.
THEOREM RetryAccounting == Spec => [](DeadLetterExhausted /\ RetryBudget)
<1>1. TypeOK /\ AccountInv => DeadLetterExhausted /\ RetryBudget
  <2> SUFFICES ASSUME TypeOK, AccountInv, NEW j \in Jobs
               PROVE  retryCount[j] <= IF RetryLimit[queue[j]] = 0 THEN 0
                         ELSE (RetryLimit[queue[j]] - 1) + Cardinality(Workers)
    BY DEF AccountInv, RetryBudget
  <2>1. /\ Cardinality(Spending(j)) \in Nat /\ Cardinality(Workers) \in Nat
        /\ RetryLimit[queue[j]] \in Nat /\ retryCount[j] \in Nat
    BY WorkerSubset, QueueAssumption DEF TypeOK, Spending
  <2> QED
    BY <2>1 DEF AccountInv
<1> QED
  BY <1>1, AccountInvariant, TypeCorrect, PTL
-----------------------------------------------------------------------------
(* Leases: what holds when handlers return before the reaper's timeout and *)
(* operators retry failed jobs only.                                       *)

\* ClaimsDistinct rests on LeaseHeld, since a worker's job is active it cannot be
\* claimed again, and LeaseHeld on the timeout: an active row as young as the
\* handler that runs it is not stuck.  The last conjunct fixes the retries of a
\* job within its limit exactly.
LeaseInv ==
    /\ LeaseHeld
    /\ ClaimsDistinct
    /\ \A j \in Jobs : IF Exists(j) THEN retryCount[j] <= RetryLimit[queue[j]]
                                    ELSE retryCount[j] = 0

LEMMA NotStuckWhileHeld ==
    ASSUME Timely, TypeOK, LeaseHeld, NEW w \in Workers, hold[w] # NoJob
    PROVE  ~ Stuck(hold[w])
  BY QueueAssumption DEF Timely, TypeOK, LeaseHeld, Stuck

\* A step on one row that nobody holds, before or after it, keeps the leases.
LEMMA LeaseRowStep ==
    ASSUME TypeOK, LeaseInv, NEW i \in Jobs, state[i] # "active",
           \A j \in Jobs : j # i =>
               state'[j] = state[j] /\ age'[j] = age[j] /\ queue'[j] = queue[j],
           UNCHANGED <<hold, heldCount, busy, retryCount>>,
           IF Exists(i)' THEN retryCount[i] <= RetryLimit[queue'[i]] ELSE retryCount[i] = 0
    PROVE  LeaseInv'
<1>1. \A w \in Workers : hold[w] # i
  BY DEF LeaseInv, LeaseHeld, NoJob, Jobs
<1>2. LeaseHeld'
  BY <1>1 DEF LeaseInv, LeaseHeld, TypeOK
<1>3. ClaimsDistinct'
  BY DEF LeaseInv, ClaimsDistinct
<1>4. ASSUME NEW j \in Jobs
      PROVE  IF Exists(j)' THEN retryCount'[j] <= RetryLimit[queue'[j]] ELSE retryCount'[j] = 0
  <2>1. CASE j = i
    BY <2>1
  <2>2. CASE j # i
    BY <2>2 DEF LeaseInv, Exists
  <2> QED
    BY <2>1, <2>2
<1> QED
  BY <1>2, <1>3, <1>4 DEF LeaseInv

LEMMA LeaseClaim ==
    ASSUME TypeOK, LeaseInv, NEW w \in Workers, NEW i \in Jobs, Claim(w, i)
    PROVE  LeaseInv'
<1>1. /\ state[i] = "created" /\ hold[w] = NoJob
      /\ hold' = [hold EXCEPT ![w] = i]
      /\ heldCount' = [heldCount EXCEPT ![w] = retryCount[i]]
      /\ busy' = [busy EXCEPT ![w] = 0]
      /\ state' = [state EXCEPT ![i] = "active"]
      /\ age' = [age EXCEPT ![i] = 0]
      /\ UNCHANGED <<queue, retryCount>>
  BY DEF Claim, Ready
<1>2. \A v \in Workers : hold[v] # i
  BY <1>1 DEF LeaseInv, LeaseHeld, NoJob, Jobs
<1>3. hold'[w] = i /\ \A v \in Workers : v # w => hold'[v] = hold[v]
  BY <1>1 DEF TypeOK
<1>4. ClaimsDistinct'
  BY <1>2, <1>3 DEF LeaseInv, ClaimsDistinct
<1>5. ASSUME NEW v \in Workers, hold'[v] # NoJob
      PROVE  /\ state'[hold'[v]] = "active"
             /\ age'[hold'[v]] = busy'[v]
             /\ retryCount'[hold'[v]] = heldCount'[v]
  <2>1. CASE v = w
    BY <1>1, <1>3, <2>1 DEF TypeOK
  <2>2. CASE v # w
    <3>1. hold[v] \in Jobs /\ hold[v] # i
      BY <1>2, <1>3, <1>5, <2>2 DEF TypeOK
    <3> QED
      BY <1>1, <1>3, <1>5, <2>2, <3>1 DEF LeaseInv, LeaseHeld, TypeOK
  <2> QED
    BY <2>1, <2>2
<1>6. \A j \in Jobs : Exists(j)' <=> Exists(j)
  BY <1>1 DEF TypeOK, Exists
<1> QED
  BY <1>1, <1>4, <1>5, <1>6 DEF LeaseInv, LeaseHeld

\* The worker that lets go was the only one on its job, so whatever becomes of
\* the row no other lease sees it.
LEMMA LeaseLetGo ==
    ASSUME TypeOK, LeaseInv, NEW w \in Workers, LetGo(w), hold[w] # NoJob,
           \A j \in Jobs : j # hold[w] =>
               state'[j] = state[j] /\ age'[j] = age[j] /\ retryCount'[j] = retryCount[j],
           UNCHANGED queue,
           state'[hold[w]] \notin {"none", "inserting"}, retryCount'[hold[w]] <= RetryLimit[queue[hold[w]]]
    PROVE  LeaseInv'
<1>1. hold' = [hold EXCEPT ![w] = NoJob] /\ hold[w] \in Jobs
  BY DEF LetGo, TypeOK
<1>2. \A v \in Workers : hold'[v] # NoJob =>
          /\ v # w /\ hold'[v] = hold[v] /\ hold[v] \in Jobs /\ hold[v] # hold[w]
          /\ heldCount'[v] = heldCount[v] /\ busy'[v] = busy[v]
  BY <1>1 DEF LetGo, LeaseInv, ClaimsDistinct, TypeOK
<1>3. LeaseHeld'
  BY <1>2 DEF LeaseInv, LeaseHeld
<1>4. ClaimsDistinct'
  BY <1>2 DEF LeaseInv, ClaimsDistinct
<1>5. ASSUME NEW j \in Jobs
      PROVE  IF Exists(j)' THEN retryCount'[j] <= RetryLimit[queue'[j]] ELSE retryCount'[j] = 0
  <2>1. CASE j = hold[w]
    BY <2>1 DEF Exists
  <2>2. CASE j # hold[w]
    BY <2>2 DEF LeaseInv, Exists
  <2> QED
    BY <2>1, <2>2
<1> QED
  BY <1>3, <1>4, <1>5 DEF LeaseInv

LEMMA LeaseStep ==
    ASSUME Timely
    PROVE  TypeOK /\ LeaseInv /\ [Next]_vars => LeaseInv'
<1> SUFFICES ASSUME TypeOK, LeaseInv, [Next]_vars PROVE LeaseInv'
  OBVIOUS
<1>a. ASSUME UNCHANGED <<state, age, queue, retryCount, hold, heldCount, busy>>
      PROVE  LeaseInv'
  BY <1>a DEF LeaseInv, LeaseHeld, ClaimsDistinct, Exists
<1>1. ASSUME NEW j \in Jobs, JobNext(j) PROVE LeaseInv'
  <2>1. ASSUME NEW q \in Queues, Send(j, q) PROVE LeaseInv'
    <3>1. /\ \A i \in Jobs : i # j =>
                 state'[i] = state[i] /\ age'[i] = age[i] /\ queue'[i] = queue[i]
          /\ state[j] = "none" /\ queue'[j] = q
          /\ UNCHANGED <<hold, heldCount, busy, retryCount>>
      BY <2>1 DEF Send, IsFresh, pool, TypeOK
    <3>2. retryCount[j] = 0 /\ RetryLimit[q] \in Nat
      BY <3>1, QueueAssumption DEF LeaseInv, Exists
    <3> QED
      BY <3>1, <3>2, LeaseRowStep
  <2>2. ASSUME NEW q \in Queues, NEW k \in Keys, SendSingleton(j, q, k) PROVE LeaseInv'
    <3>1. /\ \A i \in Jobs : i # j =>
                 state'[i] = state[i] /\ age'[i] = age[i] /\ queue'[i] = queue[i]
          /\ state[j] = "none" /\ queue'[j] = q
          /\ UNCHANGED <<hold, heldCount, busy, retryCount>>
      BY <2>2 DEF SendSingleton, IsFresh, pool, TypeOK
    <3>2. retryCount[j] = 0 /\ RetryLimit[q] \in Nat
      BY <3>1, QueueAssumption DEF LeaseInv, Exists
    <3> QED
      BY <3>1, <3>2, LeaseRowStep
  <2>3. CASE CommitSend(j)
    <3>1. /\ \A i \in Jobs : i # j => state'[i] = state[i]
          /\ state[j] = "inserting"
          /\ UNCHANGED <<age, queue, hold, heldCount, busy, retryCount>>
      BY <2>3 DEF CommitSend, pool, TypeOK
    <3>2. retryCount[j] = 0 /\ RetryLimit[queue'[j]] \in Nat
      BY <3>1, QueueAssumption DEF LeaseInv, Exists, TypeOK
    <3> QED
      BY <3>1, <3>2, LeaseRowStep
  <2>4. CASE RetryJob(j)
    <3>1. /\ \A i \in Jobs : i # j => state'[i] = state[i] /\ age'[i] = age[i]
          /\ state[j] = "failed"
          /\ UNCHANGED <<queue, hold, heldCount, busy, retryCount>>
      BY <2>4 DEF RetryJob, pool, TypeOK, Timely
    <3>2. retryCount[j] <= RetryLimit[queue'[j]]
      BY <3>1 DEF LeaseInv, Exists
    <3>3. Exists(j)'
      BY <2>4 DEF RetryJob, TypeOK, Exists
    <3> QED
      BY <3>1, <3>2, <3>3, LeaseRowStep
  <2> QED
    BY <1>1, <2>1, <2>2, <2>3, <2>4 DEF JobNext
<1>2. ASSUME NEW w \in Workers, WorkerNext(w) PROVE LeaseInv'
  <2>1. ASSUME NEW j \in Jobs, Claim(w, j) PROVE LeaseInv'
    BY <2>1, LeaseClaim
  <2>2. CASE PollEmpty(w)
    BY <2>2, <1>a DEF PollEmpty, rows
  <2>a. ASSUME hold[w] # NoJob
        PROVE  /\ hold[w] \in Jobs /\ state[hold[w]] = "active"
               /\ retryCount[hold[w]] = heldCount[w]
               /\ retryCount[hold[w]] <= RetryLimit[queue[hold[w]]]
               /\ retryCount[hold[w]] \in Nat /\ RetryLimit[queue[hold[w]]] \in Nat
    BY <2>a, QueueAssumption DEF LeaseInv, LeaseHeld, TypeOK, Exists
  <2>3. CASE Complete(w)
    BY <2>3, <2>a, LeaseLetGo DEF Complete, TypeOK
  <2>4. CASE FailRetry(w)
    <3>1. hold[w] # NoJob /\ LetGo(w) /\ UNCHANGED queue
      BY <2>4 DEF FailRetry
    <3>2. \A j \in Jobs : j # hold[w] =>
              state'[j] = state[j] /\ age'[j] = age[j] /\ retryCount'[j] = retryCount[j]
      BY <2>4 DEF FailRetry, TypeOK
    <3>3. state'[hold[w]] = "created" /\ retryCount'[hold[w]] = heldCount[w] + 1
      BY <2>4, <2>a DEF FailRetry, TypeOK
    <3>4. heldCount[w] + 1 <= RetryLimit[queue[hold[w]]]
      BY <2>4, <2>a DEF FailRetry, IsFinal
    <3> QED
      BY <3>1, <3>2, <3>3, <3>4, LeaseLetGo
  <2>5. CASE FailFinal(w)
    BY <2>5, <2>a, LeaseLetGo DEF FailFinal, TypeOK
  <2>6. CASE Lose(w)
    BY <2>6, <2>a, LeaseLetGo DEF Lose, rows
  <2> QED
    BY <1>2, <2>1, <2>2, <2>3, <2>4, <2>5, <2>6 DEF WorkerNext, Finish
<1>3. CASE Reap
  <2>1. /\ \A j \in Jobs : /\ state'[j] = (IF Stuck(j) THEN "created" ELSE state[j])
                           /\ age'[j] = (IF Stuck(j) THEN 0 ELSE age[j])
        /\ UNCHANGED <<queue, retryCount, hold, heldCount, busy>>
    BY <1>3 DEF Reap, pool
  <2>2. \A w \in Workers : hold[w] # NoJob => ~ Stuck(hold[w])
    BY NotStuckWhileHeld DEF LeaseInv
  <2>3. LeaseHeld'
    BY <2>1, <2>2 DEF LeaseInv, LeaseHeld, TypeOK
  <2>4. \A j \in Jobs : Exists(j)' <=> Exists(j)
    BY <2>1 DEF Exists, Stuck
  <2> QED
    BY <2>1, <2>3, <2>4 DEF LeaseInv, ClaimsDistinct
<1>4. CASE Tick
  <2>1. UNCHANGED <<state, queue, retryCount, hold, heldCount>>
    BY <1>4 DEF Tick
  <2>2. ASSUME NEW w \in Workers, hold[w] # NoJob PROVE age'[hold[w]] = busy'[w]
    <3>1. /\ hold[w] \in Jobs /\ state[hold[w]] = "active"
          /\ age[hold[w]] = busy[w] /\ busy[w] <= MaxRun
      BY <2>2, QueueAssumption DEF LeaseInv, LeaseHeld, TypeOK
    <3>2. age[hold[w]] <= Timeout
      BY <3>1, QueueAssumption DEF Timely, TypeOK
    <3> QED
      BY <1>4, <2>2, <3>1, <3>2 DEF Tick
  <2>3. LeaseHeld'
    BY <2>1, <2>2 DEF LeaseInv, LeaseHeld
  <2> QED
    BY <2>1, <2>3 DEF LeaseInv, ClaimsDistinct, Exists
<1>5. CASE UNCHANGED vars
  BY <1>5, <1>a DEF vars, rows, pool
<1> QED
  BY <1>1, <1>2, <1>3, <1>4, <1>5 DEF Next

LEMMA LeaseInit == Init => LeaseInv
  BY DEF Init, LeaseInv, LeaseHeld, ClaimsDistinct, Exists

LEMMA LeaseInvariant ==
    ASSUME Timely
    PROVE  Spec => []LeaseInv
  BY LeaseInit, LeaseStep, TypeCorrect, PTL DEF Spec

\* Two handlers never run the same job, a worker's copy of the row is never
\* stale and the reaper takes orphans only, when handlers return before the
\* reaper's timeout and operators retry failed jobs only.
THEOREM LeasesExclusive ==
    ASSUME Timely
    PROVE  Spec => [](ClaimsDistinct /\ LeaseHeld /\ ReapsOnlyOrphans)
<1>1. TypeOK /\ LeaseInv => ClaimsDistinct /\ LeaseHeld /\ ReapsOnlyOrphans
  <2> SUFFICES ASSUME TypeOK, LeaseInv, NEW j \in Jobs, Stuck(j), NEW w \in Workers, hold[w] = j
               PROVE  FALSE
    BY DEF LeaseInv, ReapsOnlyOrphans
  <2>1. hold[w] # NoJob
    BY DEF NoJob, Jobs
  <2> QED
    BY <2>1, NotStuckWhileHeld DEF LeaseInv
<1> QED
  BY <1>1, LeaseInvariant, TypeCorrect, PTL

-----------------------------------------------------------------------------
(* Refinement of JobLifecycle *)

\* A step that changes one row, which has the phase it has afterwards, is a
\* step of that job alone.
LEMMA PhaseStep ==
    ASSUME TypeOK, NEW i \in Jobs,
           \A j \in Jobs : j # i =>
               state'[j] = state[j] /\ queue'[j] = queue[j] /\ retryCount'[j] = retryCount[j]
    PROVE  /\ Phase' = [Phase EXCEPT ![i] = Phase'[i]]
           /\ Limit' = [Limit EXCEPT ![i] = Limit'[i]]
<1>1. \A j \in Jobs : j # i => Phase'[j] = Phase[j]
  BY DEF Phase, Unfinished
<1>2. \A j \in Jobs : j # i => Limit'[j] = Limit[j]
  BY DEF Limit, Exists
<1>3. Phase = [j \in Jobs |-> Phase[j]] /\ Phase' = [j \in Jobs |-> Phase'[j]]
  BY DEF Phase
<1>4. Limit = [j \in Jobs |-> Limit[j]] /\ Limit' = [j \in Jobs |-> Limit'[j]]
  BY DEF Limit
<1> QED
  BY <1>1, <1>2, <1>3, <1>4

\* A step after which every row exists, counts and has the phase it had is a
\* stutter of the lifecycle.
LEMMA PhaseStutter ==
    ASSUME UNCHANGED retryCount,
           \A j \in Jobs : /\ Exists(j)' <=> Exists(j)
                           /\ Unfinished(j)' <=> Unfinished(j)
                           /\ state'[j] = "completed" <=> state[j] = "completed"
                           /\ state'[j] = "failed" <=> state[j] = "failed"
                           /\ Exists(j) => queue'[j] = queue[j]
    PROVE  UNCHANGED <<Phase, Limit, retryCount>>
<1>1. Phase' = Phase
  BY DEF Phase
<1>2. Limit' = Limit
  BY DEF Limit
<1> QED
  BY <1>1, <1>2

LEMMA LifecycleStep ==
    ASSUME Timely, TypeOK, LeaseInv, [Next]_vars
    PROVE  [Lifecycle!LifeNext]_<<Phase, Limit, retryCount>>
<1>a. ASSUME NEW j \in Jobs
      PROVE  /\ Phase[j] = CASE Unfinished(j) -> "todo"
                             [] state[j] = "completed" -> "done"
                             [] state[j] = "failed" -> "dead"
                             [] OTHER -> "absent"
             /\ Limit[j] = IF Exists(j) THEN RetryLimit[queue[j]] ELSE 0
             /\ Phase'[j] = CASE state'[j] \in {"created", "active"} -> "todo"
                             [] state'[j] = "completed" -> "done"
                             [] state'[j] = "failed" -> "dead"
                             [] OTHER -> "absent"
             /\ Limit'[j] = IF state'[j] \notin {"none", "inserting"}
                            THEN RetryLimit[queue'[j]] ELSE 0
  BY DEF Phase, Limit, Unfinished, Exists
<1>b. ASSUME NEW j \in Jobs, state[j] \in {"none", "inserting"}, state'[j] = "created",
             queue'[j] \in Queues, UNCHANGED retryCount,
             \A i \in Jobs : i # j => state'[i] = state[i] /\ queue'[i] = queue[i]
      PROVE  Lifecycle!Submit(j)
  <2>1. /\ Phase' = [Phase EXCEPT ![j] = Phase'[j]]
        /\ Limit' = [Limit EXCEPT ![j] = Limit'[j]]
    BY <1>b, PhaseStep
  <2>2. Phase[j] = "absent" /\ Phase'[j] = "todo" /\ Limit'[j] = RetryLimit[queue'[j]]
    BY <1>a, <1>b DEF Unfinished
  <2> QED
    BY <1>b, <2>1, <2>2 DEF Lifecycle!Submit
<1>1. ASSUME NEW j \in Jobs, JobNext(j) PROVE [Lifecycle!LifeNext]_<<Phase, Limit, retryCount>>
  <2>1. ASSUME NEW q \in Queues, Send(j, q) PROVE Lifecycle!Submit(j)
    BY <1>b, <2>1 DEF Send, IsFresh, TypeOK
  <2>2. ASSUME NEW q \in Queues, NEW k \in Keys, SendSingleton(j, q, k)
        PROVE  UNCHANGED <<Phase, Limit, retryCount>>
    <3>1. /\ state[j] = "none" /\ state'[j] = "inserting" /\ UNCHANGED retryCount
          /\ \A i \in Jobs : i # j => state'[i] = state[i] /\ queue'[i] = queue[i]
      BY <2>2 DEF SendSingleton, IsFresh, TypeOK
    <3> QED
      BY <3>1, PhaseStutter DEF Exists, Unfinished
  <2>3. CASE CommitSend(j)
    <3>1. /\ state[j] = "inserting" /\ state'[j] = "created" /\ UNCHANGED <<queue, retryCount>>
          /\ \A i \in Jobs : i # j => state'[i] = state[i] /\ queue'[i] = queue[i]
      BY <2>3 DEF CommitSend, TypeOK
    <3>2. queue'[j] \in Queues
      BY <3>1 DEF TypeOK
    <3>3. Lifecycle!Submit(j)
      BY <1>b, <3>1, <3>2
    <3> QED
      BY <3>3 DEF Lifecycle!LifeNext
  <2>4. CASE RetryJob(j)
    <3>1. /\ state[j] = "failed" /\ state'[j] = "created" /\ UNCHANGED <<queue, retryCount>>
          /\ \A i \in Jobs : i # j => state'[i] = state[i]
      BY <2>4 DEF RetryJob, Timely, TypeOK
    <3>2. /\ Phase' = [Phase EXCEPT ![j] = Phase'[j]]
          /\ Limit' = [Limit EXCEPT ![j] = Limit'[j]]
      BY <3>1, PhaseStep
    <3>3. Phase[j] = "dead" /\ Phase'[j] = "todo" /\ Limit'[j] = Limit[j]
      BY <1>a, <3>1 DEF Unfinished, Exists
    <3>4. Limit' = Limit
      BY <3>2, <3>3 DEF Limit
    <3>5. Lifecycle!Revive(j)
      BY <3>1, <3>2, <3>3, <3>4 DEF Lifecycle!Revive
    <3> QED
      BY <3>5 DEF Lifecycle!LifeNext
  <2> QED
    BY <1>1, <2>1, <2>2, <2>3, <2>4 DEF JobNext, Lifecycle!LifeNext
<1>2. ASSUME NEW w \in Workers, WorkerNext(w)
      PROVE  [Lifecycle!LifeNext]_<<Phase, Limit, retryCount>>
  <2>1. ASSUME NEW j \in Jobs, Claim(w, j) PROVE UNCHANGED <<Phase, Limit, retryCount>>
    <3>1. /\ state[j] = "created" /\ state'[j] = "active" /\ UNCHANGED <<queue, retryCount>>
          /\ \A i \in Jobs : i # j => state'[i] = state[i]
      BY <2>1 DEF Claim, Ready, TypeOK
    <3> QED
      BY <3>1, PhaseStutter DEF Exists, Unfinished
  <2>2. CASE PollEmpty(w)
    BY <2>2, PhaseStutter DEF PollEmpty, rows, Exists, Unfinished
  <2>3. CASE Lose(w)
    BY <2>3, PhaseStutter DEF Lose, rows, Exists, Unfinished
  <2>4. CASE Finish(w)
    <3> DEFINE j == hold[w]
    <3>1. /\ j \in Jobs /\ state[j] = "active"
          /\ retryCount[j] = heldCount[w] /\ retryCount[j] <= RetryLimit[queue[j]]
          /\ retryCount[j] \in Nat /\ RetryLimit[queue[j]] \in Nat
      BY <2>4, QueueAssumption
      DEF Finish, Complete, FailRetry, FailFinal, LeaseInv, LeaseHeld, TypeOK, Exists
    <3>2. /\ \A i \in Jobs : i # j => state'[i] = state[i] /\ retryCount'[i] = retryCount[i]
          /\ UNCHANGED queue
      BY <2>4, <3>1 DEF Finish, Complete, FailRetry, FailFinal, TypeOK
    <3>3. /\ Phase' = [Phase EXCEPT ![j] = Phase'[j]]
          /\ Limit' = [Limit EXCEPT ![j] = Limit'[j]]
      BY <3>1, <3>2, PhaseStep
    <3>4. Phase[j] = "todo" /\ Limit[j] = RetryLimit[queue[j]]
      BY <1>a, <3>1 DEF Unfinished, Exists
    <3>5. state'[j] \notin {"none", "inserting"}
      BY <2>4, <3>1 DEF Finish, Complete, FailRetry, FailFinal, TypeOK
    <3>6. Limit'[j] = Limit[j]
      BY <1>a, <3>1, <3>2, <3>4, <3>5
    <3>7. Limit' = Limit
      BY <3>3, <3>6 DEF Limit
    <3>8. CASE Complete(w)
      <4>1. Phase'[j] = "done" /\ UNCHANGED retryCount
        BY <1>a, <3>1, <3>8 DEF Complete, TypeOK
      <4> QED
        BY <3>1, <3>3, <3>4, <3>7, <4>1 DEF Lifecycle!Succeed, Lifecycle!LifeNext
    <3>9. CASE FailRetry(w)
      <4>1. Phase'[j] = "todo" /\ retryCount' = [retryCount EXCEPT ![j] = @ + 1]
        BY <1>a, <3>1, <3>9 DEF FailRetry, TypeOK
      <4>2. retryCount[j] < Limit[j]
        BY <3>1, <3>4, <3>9 DEF FailRetry, IsFinal
      <4>3. Phase' = Phase
        BY <3>3, <3>4, <4>1 DEF Phase
      <4> QED
        BY <3>1, <3>4, <3>7, <4>1, <4>2, <4>3 DEF Lifecycle!FailAndRetry, Lifecycle!LifeNext
    <3>10. CASE FailFinal(w)
      <4>1. Phase'[j] = "dead" /\ UNCHANGED retryCount
        BY <1>a, <3>1, <3>10 DEF FailFinal, TypeOK
      <4>2. retryCount[j] = Limit[j]
        BY <3>1, <3>4, <3>10 DEF FailFinal, IsFinal
      <4> QED
        BY <3>1, <3>3, <3>4, <3>7, <4>1, <4>2 DEF Lifecycle!DeadLetter, Lifecycle!LifeNext
    <3> QED
      BY <2>4, <3>8, <3>9, <3>10 DEF Finish
  <2> QED
    BY <1>2, <2>1, <2>2, <2>3, <2>4 DEF WorkerNext
<1>3. CASE Reap
  BY <1>3, PhaseStutter DEF Reap, Stuck, Exists, Unfinished
<1>4. CASE Tick
  BY <1>4, PhaseStutter DEF Tick, Exists, Unfinished
<1>5. CASE UNCHANGED vars
  BY <1>5, PhaseStutter DEF vars, rows, Exists, Unfinished
<1> QED
  BY <1>1, <1>2, <1>3, <1>4, <1>5 DEF Next

\* The queue implements the lifecycle its senders rely on.
THEOREM QueueImplementsLifecycle ==
    ASSUME Timely
    PROVE  Spec => ImplementsLifecycle
<1>1. Init => Lifecycle!LifeInit
  BY DEF Init, Lifecycle!LifeInit, Phase, Limit, Unfinished, Exists
<1>2. TypeOK /\ LeaseInv /\ [Next]_vars => [Lifecycle!LifeNext]_<<Phase, Limit, retryCount>>
  BY LifecycleStep
<1> QED
  BY <1>1, <1>2, TypeCorrect, LeaseInvariant, PTL DEF Spec, ImplementsLifecycle, Lifecycle!LifeSpec

-----------------------------------------------------------------------------
(* Singleton keys *)

\* The rows that count for a key: unfinished, or in a sender's hands.
Bound(q, k) == {j \in Jobs : /\ Unfinished(j) \/ state[j] = "inserting"
                             /\ queue[j] = q /\ key[j] = k}

\* SingletonBounded holds with the rows in the senders' hands counted in, and a
\* job that is not sent yet has no key.
SingletonInv ==
    /\ \A q \in Queues, k \in Keys : Cardinality(Bound(q, k)) <= MaxInserts + pokes
    /\ \A j \in Jobs : state[j] = "none" => key[j] = NoKey

LEMMA JobSetsFinite ==
    /\ IsFiniteSet(Jobs)
    /\ \A S \in SUBSET Jobs : IsFiniteSet(S) /\ Cardinality(S) \in Nat
<1>1. IsFiniteSet(Jobs)
  BY QueueAssumption, FS_Interval DEF Jobs
<1> QED
  BY <1>1, FS_Subset, FS_CardinalityType

\* A step that adds no row to a key keeps the bound.
LEMMA SingletonFrame ==
    ASSUME SingletonInv, TypeOK, pokes' = pokes,
           \A j \in Jobs : state'[j] = "none" => state[j] = "none" /\ key'[j] = key[j],
           \A q \in Queues, k \in Keys : Bound(q, k)' \subseteq Bound(q, k)
    PROVE  SingletonInv'
<1>1. ASSUME NEW q \in Queues, NEW k \in Keys
      PROVE  Cardinality(Bound(q, k)') <= MaxInserts + pokes'
  <2>1. Bound(q, k)' \in SUBSET Jobs /\ Bound(q, k) \in SUBSET Jobs
    BY DEF Bound
  <2>2. Cardinality(Bound(q, k)') <= Cardinality(Bound(q, k))
    BY <2>1, JobSetsFinite, FS_Subset
  <2>3. Cardinality(Bound(q, k)) <= MaxInserts + pokes
    BY DEF SingletonInv
  <2> QED
    BY <2>1, <2>2, <2>3, JobSetsFinite, QueueAssumption DEF TypeOK
<1> QED
  BY <1>1 DEF SingletonInv

LEMMA SingletonStep == TypeOK /\ LeaseInv /\ SingletonInv /\ [Next]_vars => SingletonInv'
<1> SUFFICES ASSUME TypeOK, LeaseInv, SingletonInv, [Next]_vars
             PROVE  SingletonInv'
  OBVIOUS
<1> USE DEF Unfinished
<1>1. ASSUME NEW j \in Jobs, NEW q \in Queues, Send(j, q) PROVE SingletonInv'
  <2>1. /\ state[j] = "none" /\ key' = key /\ pokes' = pokes
        /\ \A i \in Jobs : i # j => state'[i] = state[i] /\ queue'[i] = queue[i]
        /\ state'[j] = "created"
    BY <1>1 DEF Send, IsFresh, TypeOK
  <2>2. key[j] = NoKey
    BY <2>1 DEF SingletonInv
  <2>3. \A p \in Queues, k \in Keys : Bound(p, k)' \subseteq Bound(p, k)
    BY <2>1, <2>2, QueueAssumption DEF Bound
  <2> QED
    BY <2>1, <2>3, SingletonFrame
<1>2. ASSUME NEW j \in Jobs, NEW q \in Queues, NEW k \in Keys, SendSingleton(j, q, k)
      PROVE  SingletonInv'
  <2>1. /\ state[j] = "none" /\ state'[j] = "inserting" /\ queue'[j] = q /\ key'[j] = k
        /\ \A i \in Jobs : i # j =>
               state'[i] = state[i] /\ queue'[i] = queue[i] /\ key'[i] = key[i]
        /\ pokes' = pokes
        /\ Cardinality(Inserting) < MaxInserts
        /\ ~ \E i \in Jobs : Unfinished(i) /\ queue[i] = q /\ key[i] = k
    BY <1>2 DEF SendSingleton, IsFresh, TypeOK
  <2>2. Bound(q, k)' \subseteq Inserting \cup {j}
    BY <2>1 DEF Bound, Inserting
  <2>3. Cardinality(Bound(q, k)') <= MaxInserts
    <3>1. /\ Inserting \in SUBSET Jobs /\ Bound(q, k)' \in SUBSET Jobs
          /\ Inserting \cup {j} \in SUBSET Jobs
      BY DEF Inserting, Bound
    <3>2. Cardinality(Inserting \cup {j}) <= Cardinality(Inserting) + 1
      BY <3>1, JobSetsFinite, FS_AddElement
    <3>3. Cardinality(Bound(q, k)') <= Cardinality(Inserting \cup {j})
      BY <2>2, <3>1, JobSetsFinite, FS_Subset
    <3> QED
      BY <2>1, <3>1, <3>2, <3>3, JobSetsFinite, QueueAssumption
  <2>4. ASSUME NEW p \in Queues, NEW l \in Keys, <<p, l>> # <<q, k>>
        PROVE  Bound(p, l)' = Bound(p, l)
    BY <2>1, <2>4 DEF Bound
  <2>5. ASSUME NEW p \in Queues, NEW l \in Keys
        PROVE  Cardinality(Bound(p, l)') <= MaxInserts + pokes'
    <3>1. CASE <<p, l>> = <<q, k>>
      <4>1. Bound(q, k)' \in SUBSET Jobs /\ pokes \in Nat
        BY DEF Bound, TypeOK
      <4> QED
        BY <2>1, <2>3, <3>1, <4>1, JobSetsFinite, QueueAssumption
    <3>2. CASE <<p, l>> # <<q, k>>
      BY <2>1, <2>4, <3>2 DEF SingletonInv
    <3> QED
      BY <3>1, <3>2
  <2> QED
    BY <2>1, <2>5 DEF SingletonInv
<1>3. ASSUME NEW j \in Jobs, CommitSend(j) PROVE SingletonInv'
  <2>1. \A q \in Queues, k \in Keys : Bound(q, k)' \subseteq Bound(q, k)
    BY <1>3 DEF CommitSend, Bound, TypeOK
  <2> QED
    BY <1>3, <2>1, SingletonFrame DEF CommitSend, TypeOK
<1>4. ASSUME NEW j \in Jobs, RetryJob(j) PROVE SingletonInv'
  <2>1. /\ state[j] # "none" /\ UNCHANGED <<queue, key>> /\ pokes' = pokes + 1
        /\ state' = [state EXCEPT ![j] = "created"]
    BY <1>4, QueueAssumption DEF RetryJob
  <2>2. ASSUME NEW q \in Queues, NEW k \in Keys
        PROVE  Cardinality(Bound(q, k)') <= MaxInserts + pokes'
    <3>1. /\ Bound(q, k) \in SUBSET Jobs /\ Bound(q, k)' \in SUBSET Jobs
          /\ Bound(q, k) \cup {j} \in SUBSET Jobs
          /\ Bound(q, k)' \subseteq Bound(q, k) \cup {j}
      BY <2>1 DEF Bound, TypeOK
    <3>2. Cardinality(Bound(q, k) \cup {j}) <= Cardinality(Bound(q, k)) + 1
      BY <3>1, JobSetsFinite, FS_AddElement
    <3>3. Cardinality(Bound(q, k)') <= Cardinality(Bound(q, k) \cup {j})
      BY <3>1, JobSetsFinite, FS_Subset
    <3>4. Cardinality(Bound(q, k)) <= MaxInserts + pokes /\ pokes \in Nat
      BY DEF SingletonInv, TypeOK
    <3> QED
      BY <2>1, <3>1, <3>2, <3>3, <3>4, JobSetsFinite, QueueAssumption
  <2> QED
    BY <2>1, <2>2 DEF SingletonInv, TypeOK
<1>5. ASSUME NEW w \in Workers, NEW j \in Jobs, Claim(w, j) PROVE SingletonInv'
  <2>1. \A q \in Queues, k \in Keys : Bound(q, k)' \subseteq Bound(q, k)
    BY <1>5 DEF Claim, Ready, Bound, TypeOK
  <2> QED
    BY <1>5, <2>1, SingletonFrame DEF Claim, Ready, TypeOK
<1>6. ASSUME NEW w \in Workers, PollEmpty(w) \/ Lose(w) PROVE SingletonInv'
  <2>1. \A q \in Queues, k \in Keys : Bound(q, k)' \subseteq Bound(q, k)
    BY <1>6 DEF PollEmpty, Lose, rows, Bound
  <2> QED
    BY <1>6, <2>1, SingletonFrame DEF PollEmpty, Lose, rows
<1>7. ASSUME NEW w \in Workers, Finish(w) PROVE SingletonInv'
  <2>1. /\ hold[w] \in Jobs /\ state[hold[w]] = "active"
        /\ UNCHANGED <<queue, key, pokes>>
        /\ \E s \in JobStates \ {"none"} : state' = [state EXCEPT ![hold[w]] = s]
    BY <1>7 DEF Finish, Complete, FailRetry, FailFinal, TypeOK, LeaseInv, LeaseHeld, JobStates
  <2>2. \A q \in Queues, k \in Keys : Bound(q, k)' \subseteq Bound(q, k)
    BY <2>1 DEF Bound, TypeOK
  <2> QED
    BY <2>1, <2>2, SingletonFrame DEF TypeOK
<1>8. CASE Reap
  <2>1. \A q \in Queues, k \in Keys : Bound(q, k)' \subseteq Bound(q, k)
    BY <1>8 DEF Reap, Stuck, Bound
  <2> QED
    BY <1>8, <2>1, SingletonFrame DEF Reap, Stuck
<1>9. CASE Tick \/ UNCHANGED vars
  <2>1. UNCHANGED <<state, queue, key, pokes>>
    BY <1>9 DEF Tick, vars, rows
  <2>2. \A q \in Queues, k \in Keys : Bound(q, k)' \subseteq Bound(q, k)
    BY <2>1 DEF Bound
  <2> QED
    BY <2>1, <2>2, SingletonFrame
<1> QED
  BY <1>1, <1>2, <1>3, <1>4, <1>5, <1>6, <1>7, <1>8, <1>9 DEF Next, JobNext, WorkerNext

\* A singleton key never has more unfinished jobs than senders that overlap and
\* jobs that operators retried, when handlers return before the reaper's timeout
\* and operators retry failed jobs only: an INSERT begins only while its snapshot
\* shows no unfinished job of the key, running ones included, and no worker's
\* final UPDATE revives a finished one.
THEOREM SingletonsBounded ==
    ASSUME Timely
    PROVE  Spec => []SingletonBounded
<1>1. Init => SingletonInv
  <2> SUFFICES ASSUME Init PROVE SingletonInv
    OBVIOUS
  <2>1. \A q \in Queues, k \in Keys : Bound(q, k) = {}
    BY DEF Init, Bound, Unfinished
  <2>2. pokes = 0 /\ \A j \in Jobs : key[j] = NoKey
    BY DEF Init
  <2> QED
    BY <2>1, <2>2, FS_EmptySet, QueueAssumption DEF SingletonInv
<1>2. TypeOK /\ SingletonInv => SingletonBounded
  <2> SUFFICES ASSUME TypeOK, SingletonInv, NEW q \in Queues, NEW k \in Keys
               PROVE  Cardinality(Sent(q, k)) <= MaxInserts + pokes
    BY DEF SingletonBounded
  <2>1. /\ Sent(q, k) \in SUBSET Jobs /\ Bound(q, k) \in SUBSET Jobs
        /\ Sent(q, k) \subseteq Bound(q, k)
    BY DEF Sent, Bound
  <2>2. Cardinality(Sent(q, k)) <= Cardinality(Bound(q, k))
    BY <2>1, JobSetsFinite, FS_Subset
  <2>3. Cardinality(Bound(q, k)) <= MaxInserts + pokes
    BY DEF SingletonInv
  <2> QED
    BY <2>1, <2>2, <2>3, JobSetsFinite, QueueAssumption DEF TypeOK
<1> QED
  BY <1>1, <1>2, TypeCorrect, LeaseInvariant, SingletonStep, PTL DEF Spec
=============================================================================
