---------------------------- MODULE DeliveryProofs ----------------------------
(***************************************************************************)
(* Theorems about Delivery.  Its handlers run on the queue of JobQueue, so *)
(* what JobQueueProofs proves of the queue holds of deliveries; on top of  *)
(* that, the types of its own variables and that SENT means received.      *)
(***************************************************************************)
EXTENDS Delivery, JobQueueProofs

\* Every step of a handler, of the API or of the operator is a step of the job
\* queue or leaves its variables alone.
LEMMA DeliveryStepOnQueue == DeliveryNext => [Next]_vars
<1> SUFFICES ASSUME DeliveryNext PROVE [Next]_vars
  OBVIOUS
<1>q. /\ \A j \in Jobs : Send(j, "match") \/ Send(j, "send") => Next
      /\ \A w \in Workers, j \in Jobs : Claim(w, j) => Next
      /\ \A w \in Workers : Finish(w) \/ Lose(w) \/ PollEmpty(w) => Next
      /\ \A j \in Jobs : RetryJob(j) => Next
      /\ Reap \/ Tick => Next
  <2>1. "match" \in Queues /\ "send" \in Queues
    BY DeliveryAssumption
  <2> QED
    BY <2>1 DEF Next, JobNext, WorkerNext
<1>1. ASSUME NEW j \in Jobs, SendMatch(j) PROVE Next
  BY <1>1, <1>q DEF SendMatch
<1>2. ASSUME NEW w \in Workers, HandlerNext(w) PROVE [Next]_vars
  <2>1. ASSUME NEW j \in Jobs, StartHandler(w, j) PROVE Next
    BY <2>1, <1>q DEF StartHandler
  <2>2. CASE MatchStep(w)
    <3>1. ASSUME NEW j \in Jobs, EnqueueMade(w, j) PROVE Next
      BY <3>1, <1>q DEF EnqueueMade, EnqueueSend
    <3>2. CASE BeginMatch(w) \/ MatchDone(w) \/ \E d \in Subs : CreateDeliveryIfNew(w, d)
      BY <3>2 DEF BeginMatch, MatchDone, CreateDeliveryIfNew, Step
    <3> QED
      BY <2>2, <3>1, <3>2 DEF MatchStep
  <2>3. CASE SendStep(w)
    BY <2>3 DEF SendStep, LoadDelivery, CountAttempt, PushReceived, PushBadAnswer,
                PushFails, MarkSent, MarkFailed, MarkNoUrl, Step
  <2>4. CASE Fault(w)
    BY <2>4 DEF Fault
  <2>5. CASE ReturnOk(w) \/ ReturnErr(w) \/ LoseHandler(w)
    BY <2>5, <1>q DEF ReturnOk, ReturnErr, LoseHandler, Finish
  <2> QED
    BY <1>2, <2>1, <2>2, <2>3, <2>4, <2>5 DEF HandlerNext
<1>3. ASSUME NEW d \in Subs, ApiNext(d) PROVE [Next]_vars
  <2>1. ASSUME NEW j \in Jobs, EnqueueOwed(d, j) PROVE Next
    BY <2>1, <1>q DEF EnqueueOwed, EnqueueSend
  <2>2. CASE \/ ResetDeliveryForRetry(d) \/ SendTestDelivery(d)
             \/ OwedFails(d) \/ DeleteSubscription(d)
    BY <2>2 DEF ResetDeliveryForRetry, SendTestDelivery, OwedFails, DeleteSubscription
  <2> QED
    BY <1>3, <2>1, <2>2 DEF ApiNext
<1>4. CASE QueueStep
  BY <1>4, <1>q DEF QueueStep
<1> QED
  BY <1>1, <1>2, <1>3, <1>4 DEF DeliveryNext

\* Delivery refines the job queue: a delivery's jobs live as JobQueue says.
THEOREM DeliveryRunsOnQueue == DeliverySpec => Spec
<1>1. DeliveryInit => Init
  BY DEF DeliveryInit
<1>2. UNCHANGED dvars => UNCHANGED vars
  BY DEF dvars
<1> QED
  BY <1>1, <1>2, DeliveryStepOnQueue, PTL DEF DeliverySpec, Spec

\* Deliveries inherit the queue's accounting: whatever handlers' times and
\* operators do, a send job is failed only after all its retries, and its
\* retries stay within the budget.
THEOREM DeliveryRetriesBounded == DeliverySpec => [](DeadLetterExhausted /\ RetryBudget)
  BY DeliveryRunsOnQueue, RetryAccounting

\* And its leases: no delivery job is in the hands of two workers, when
\* handlers return before the reaper's timeout and operators retry failed jobs.
THEOREM DeliveryLeasesExclusive ==
    ASSUME Timely
    PROVE  DeliverySpec => [](ClaimsDistinct /\ LeaseHeld /\ ReapsOnlyOrphans)
  BY DeliveryRunsOnQueue, LeasesExclusive

-----------------------------------------------------------------------------
(* Type correctness *)

SendPCs == {"load", "count", "push", "sent", "failed", "nourl"}

\* DeliveryTypeOK is not inductive: the send handler loads the payload of the
\* delivery its job is about, so a send job must be about one, and must still be
\* the one that a busy handler holds.
TargetInv ==
    /\ \A j \in Jobs : Exists(j) /\ queue[j] = "send" => about[j] \in Subs
    /\ \A w \in Workers : pc[w] # "idle" => hold[w] \in Jobs
    /\ \A w \in Workers : pc[w] \in SendPCs => queue[hold[w]] = "send"

\* The row a busy worker holds was never deleted or reused.
LEMMA HeldExists ==
    ASSUME TypeOK, AccountInv, NEW w \in Workers, hold[w] \in Jobs
    PROVE  Exists(hold[w])
  BY DEF AccountInv, Jobs, NoJob

\* Only Send makes rows and sets their queue.
LEMMA RowsKept ==
    ASSUME TypeOK, AccountInv,
           \/ \E w \in Workers, j \in Jobs : Claim(w, j)
           \/ \E w \in Workers : Finish(w) \/ Lose(w) \/ PollEmpty(w)
           \/ \E j \in Jobs : RetryJob(j)
           \/ Reap \/ Tick \/ UNCHANGED vars
    PROVE  /\ queue' = queue
           /\ \A i \in Jobs : Exists(i)' => Exists(i)
<1>1. ASSUME NEW w \in Workers, NEW j \in Jobs, Claim(w, j)
      PROVE  queue' = queue /\ \A i \in Jobs : Exists(i)' => Exists(i)
  BY <1>1 DEF Claim, Ready, Exists, TypeOK
<1>2. ASSUME NEW w \in Workers, Finish(w)
      PROVE  queue' = queue /\ \A i \in Jobs : Exists(i)' => Exists(i)
  <2>1. hold[w] \in Jobs
    BY <1>2 DEF Finish, Complete, FailRetry, FailFinal, TypeOK
  <2>2. Exists(hold[w])
    BY <2>1, HeldExists
  <2> QED
    BY <1>2, <2>2 DEF Finish, Complete, FailRetry, FailFinal, Exists, TypeOK
<1>3. ASSUME NEW w \in Workers, Lose(w) \/ PollEmpty(w)
      PROVE  queue' = queue /\ \A i \in Jobs : Exists(i)' => Exists(i)
  BY <1>3 DEF Lose, PollEmpty, rows, Exists
<1>4. ASSUME NEW j \in Jobs, RetryJob(j)
      PROVE  queue' = queue /\ \A i \in Jobs : Exists(i)' => Exists(i)
  BY <1>4, QueueAssumption DEF RetryJob, Exists, TypeOK
<1>5. CASE Reap \/ Tick \/ UNCHANGED vars
  BY <1>5 DEF Reap, Tick, Stuck, vars, rows, Exists, TypeOK
<1> QED
  BY <1>1, <1>2, <1>3, <1>4, <1>5

\* A Send adds one row, which no worker holds.
LEMMA SendAdds ==
    ASSUME TypeOK, AccountInv, NEW j \in Jobs, NEW q \in Queues, Send(j, q)
    PROVE  /\ queue'[j] = q
           /\ \A i \in Jobs \ {j} : queue'[i] = queue[i] /\ (Exists(i)' => Exists(i))
           /\ hold' = hold
           /\ \A w \in Workers : hold[w] # j
<1>1. ~ Exists(j)
  BY DEF Send, IsFresh, Exists
<1> QED
  BY <1>1, HeldExists DEF Send, pool, Exists, TypeOK

\* The delivery a send handler works on is one.
LEMMA TargetIsSub ==
    ASSUME TypeOK, AccountInv, TargetInv, NEW w \in Workers, pc[w] \in SendPCs
    PROVE  hold[w] \in Jobs /\ Target(w) \in Subs
<1>1. hold[w] \in Jobs
  BY DEF TargetInv, SendPCs
<1> QED
  BY <1>1, HeldExists DEF TargetInv, Target

\* A statement of a handler leaves the queue alone and does not turn a match
\* handler into a send handler.
LEMMA TargetStep ==
    ASSUME DeliveryTypeOK, TargetInv, NEW w \in Workers, pc[w] # "idle",
           NEW next, pc' = [pc EXCEPT ![w] = next],
           next \in SendPCs => pc[w] \in SendPCs,
           UNCHANGED vars, about' = about
    PROVE  TargetInv'
  BY DEF TargetInv, DeliveryTypeOK, Exists, vars, rows, pool

\* Nor do the reaper, the clock, an operator or an idle poll.
LEMMA TargetQueue ==
    ASSUME TypeOK, AccountInv, TargetInv, QueueStep
    PROVE  TargetInv'
<1>1. hold' = hold
  BY DEF QueueStep, PollEmpty, Reap, Tick, RetryJob, pool
<1>2. pc' = pc /\ about' = about
  BY DEF QueueStep, local
<1>3. queue' = queue /\ \A i \in Jobs : Exists(i)' => Exists(i)
  BY RowsKept DEF QueueStep
<1> QED
  BY <1>1, <1>2, <1>3 DEF TargetInv

\* A job that is sent is about a delivery, or is a match job.
LEMMA TargetSend ==
    ASSUME TypeOK, AccountInv, DeliveryTypeOK, TargetInv, NEW j \in Jobs,
           \/ Send(j, "match") /\ about' = about
           \/ \E d \in Subs : EnqueueSend(j, d),
           pc' = pc
    PROVE  TargetInv'
<1>a. "match" \in Queues /\ "send" \in Queues
  BY DeliveryAssumption
<1>1. CASE Send(j, "match") /\ about' = about
  BY <1>a, <1>1, SendAdds DEF TargetInv, SendPCs
<1>2. ASSUME NEW d \in Subs, EnqueueSend(j, d) PROVE TargetInv'
  <2>1. about' = [about EXCEPT ![j] = d] /\ Send(j, "send")
    BY <1>2 DEF EnqueueSend
  <2>2. /\ queue'[j] = "send"
        /\ \A i \in Jobs \ {j} : queue'[i] = queue[i] /\ (Exists(i)' => Exists(i))
        /\ hold' = hold
        /\ \A w \in Workers : hold[w] # j
    BY <1>a, <2>1, SendAdds
  <2>3. \A i \in Jobs : about'[i] = IF i = j THEN d ELSE about[i]
    BY <2>1 DEF DeliveryTypeOK
  <2>4. \A i \in Jobs : Exists(i)' /\ queue'[i] = "send" => about'[i] \in Subs
    BY <2>2, <2>3 DEF TargetInv
  <2>5. \A w \in Workers : pc'[w] # "idle" => hold'[w] \in Jobs
    BY <2>2 DEF TargetInv
  <2>6. \A w \in Workers : pc'[w] \in SendPCs => queue'[hold'[w]] = "send"
    BY <2>2 DEF TargetInv, SendPCs
  <2> QED
    BY <2>4, <2>5, <2>6 DEF TargetInv
<1> QED
  BY <1>1, <1>2

\* A worker claims a job or lets go of it.
LEMMA TargetClaim ==
    ASSUME TypeOK, AccountInv, DeliveryTypeOK, TargetInv, NEW w \in Workers,
           \/ \E j \in Jobs : StartHandler(w, j)
           \/ (Finish(w) \/ Lose(w)) /\ Forget(w)
    PROVE  TargetInv'
<1>1. ASSUME NEW j \in Jobs, StartHandler(w, j) PROVE TargetInv'
  <2>1. /\ hold' = [hold EXCEPT ![w] = j] /\ about' = about
        /\ pc' = [pc EXCEPT ![w] = IF queue[j] = "match" THEN "begin" ELSE "load"]
    BY <1>1 DEF StartHandler, Claim
  <2>2. queue' = queue /\ \A i \in Jobs : Exists(i)' => Exists(i)
    BY <1>1, RowsKept DEF StartHandler
  <2>3. queue[j] \in {"match", "send"}
    BY DeliveryAssumption DEF TypeOK
  <2> QED
    BY <2>1, <2>2, <2>3 DEF TargetInv, TypeOK, DeliveryTypeOK, SendPCs
<1>2. ASSUME Finish(w) \/ Lose(w), Forget(w) PROVE TargetInv'
  <2>1. /\ hold' = [hold EXCEPT ![w] = NoJob] /\ about' = about
        /\ pc' = [pc EXCEPT ![w] = "idle"]
    BY <1>2 DEF Finish, Complete, FailRetry, FailFinal, Lose, LetGo, Forget
  <2>2. queue' = queue /\ \A i \in Jobs : Exists(i)' => Exists(i)
    BY <1>2, RowsKept
  <2> QED
    BY <2>1, <2>2 DEF TargetInv, TypeOK, DeliveryTypeOK, SendPCs
<1> QED
  BY <1>1, <1>2

\* Every step keeps TargetInv.
LEMMA TargetInductive ==
    ASSUME TypeOK, AccountInv, DeliveryTypeOK, TargetInv, [DeliveryNext]_dvars
    PROVE  TargetInv'
<1>1. ASSUME NEW j \in Jobs, SendMatch(j) PROVE TargetInv'
  BY <1>1, TargetSend DEF SendMatch, local
<1>2. ASSUME NEW w \in Workers, HandlerNext(w) PROVE TargetInv'
  <2>1. ASSUME NEW j \in Jobs, EnqueueMade(w, j) PROVE TargetInv'
    <3>1. Head(made[w]) \in Subs
      BY <2>1 DEF EnqueueMade, DeliveryTypeOK
    <3> QED
      BY <2>1, <3>1, TargetSend DEF EnqueueMade
  <2>2. CASE BeginMatch(w) \/ MatchDone(w) \/ \E d \in Subs : CreateDeliveryIfNew(w, d)
    BY <2>2, TargetStep DEF BeginMatch, MatchDone, CreateDeliveryIfNew, Step, SendPCs
  <2>3. CASE SendStep(w)
    <3>1. CASE CountAttempt(w)
      BY <3>1, TargetStep DEF CountAttempt, Step, SendPCs
    <3>2. CASE ~ CountAttempt(w)
      BY <2>3, <3>2, TargetStep
         DEF SendStep, LoadDelivery, PushReceived, PushBadAnswer, PushFails,
             MarkSent, MarkFailed, MarkNoUrl, Step, SendPCs
    <3> QED
      BY <3>1, <3>2
  <2>4. CASE Fault(w)
    BY <2>4, TargetStep DEF Fault, SendPCs
  <2>5. CASE \/ \E j \in Jobs : StartHandler(w, j)
             \/ ReturnOk(w) \/ ReturnErr(w) \/ LoseHandler(w)
    BY <2>5, TargetClaim DEF ReturnOk, ReturnErr, LoseHandler, Finish
  <2> QED
    BY <1>2, <2>1, <2>2, <2>3, <2>4, <2>5 DEF HandlerNext, MatchStep
<1>3. ASSUME NEW d \in Subs, ApiNext(d) PROVE TargetInv'
  <2>1. ASSUME NEW j \in Jobs, EnqueueOwed(d, j) PROVE TargetInv'
    BY <2>1, TargetSend DEF EnqueueOwed, local
  <2>2. CASE \/ ResetDeliveryForRetry(d) \/ SendTestDelivery(d)
             \/ OwedFails(d) \/ DeleteSubscription(d)
    BY <2>2 DEF ResetDeliveryForRetry, SendTestDelivery, OwedFails, DeleteSubscription,
                local, TargetInv, Exists, vars, rows, pool
  <2> QED
    BY <1>3, <2>1, <2>2 DEF ApiNext
<1>4. CASE QueueStep
  BY <1>4, TargetQueue
<1>5. CASE UNCHANGED dvars
  BY <1>5 DEF dvars, local, TargetInv, Exists, vars, rows, pool
<1> QED
  BY <1>1, <1>2, <1>3, <1>4, <1>5 DEF DeliveryNext

\* Every step keeps the types.
LEMMA DeliveryTypeInductive ==
    ASSUME TypeOK, AccountInv, DeliveryTypeOK, TargetInv, [DeliveryNext]_dvars
    PROVE  DeliveryTypeOK'
<1> USE DEF DeliveryTypeOK
<1>a. /\ {"begin", "match", "load", "count", "push", "sent", "failed", "nourl", "ok", "err"}
            \subseteq PCs
      /\ "idle" \in PCs
  BY DEF PCs
<1>b. {"none", "PENDING", "SENT", "RETRYING", "FAILED", "DEAD_LETTERED", "gone"} \subseteq Statuses
  BY DEF Statuses
<1>c. MaxFaults \in Nat /\ MaxCalls \in Nat
  BY DeliveryAssumption
<1>1. ASSUME NEW j \in Jobs, SendMatch(j) PROVE DeliveryTypeOK'
  BY <1>1 DEF SendMatch, table, local, world, api
<1>2. ASSUME NEW w \in Workers, HandlerNext(w) PROVE DeliveryTypeOK'
  <2> USE DEF table, world, api
  <2>1. ASSUME NEW j \in Jobs, StartHandler(w, j) PROVE DeliveryTypeOK'
    BY <1>a, <2>1 DEF StartHandler
  <2>2. CASE BeginMatch(w)
    BY <1>a, <2>2 DEF BeginMatch, Step
  <2>3. ASSUME NEW d \in Subs, CreateDeliveryIfNew(w, d) PROVE DeliveryTypeOK'
    <3>1. made' \in [Workers -> Seq(Subs)]
      BY <2>3 DEF CreateDeliveryIfNew
    <3>2. status' \in [Subs -> Statuses]
      BY <1>b, <2>3 DEF CreateDeliveryIfNew
    <3>3. pc' \in [Workers -> PCs] /\ left' \in [Workers -> SUBSET Subs]
      BY <1>a, <2>3 DEF CreateDeliveryIfNew, Step
    <3> QED
      BY <2>3, <3>1, <3>2, <3>3 DEF CreateDeliveryIfNew
  <2>4. ASSUME NEW j \in Jobs, EnqueueMade(w, j) PROVE DeliveryTypeOK'
    <3>1. Head(made[w]) \in Subs /\ Tail(made[w]) \in Seq(Subs)
      BY <2>4 DEF EnqueueMade
    <3> QED
      BY <2>4, <3>1 DEF EnqueueMade, EnqueueSend
  <2>5. CASE MatchDone(w)
    BY <1>a, <2>5 DEF MatchDone, Step
  <2>6. ASSUME SendStep(w) PROVE DeliveryTypeOK'
    <3> DEFINE d == Target(w)
    <3>1. hold[w] \in Jobs /\ d \in Subs
      BY <2>6, TargetIsSub
         DEF SendStep, LoadDelivery, CountAttempt, PushReceived, PushBadAnswer,
             PushFails, MarkSent, MarkFailed, MarkNoUrl, Step, SendPCs
    <3> HIDE DEF d
    <3>2. CASE LoadDelivery(w)
      BY <1>a, <3>1, <3>2 DEF LoadDelivery, Step, d
    <3>3. CASE CountAttempt(w)
      <4>1. PICK next \in {"sent", "nourl", "push", "err"} : Step(w, "count", next)
        BY <3>1, <3>3 DEF CountAttempt, AfterCount, d
      <4>2. attempts' \in [Subs -> Nat]
        BY <3>1, <3>3 DEF CountAttempt, d
      <4> QED
        BY <1>a, <3>3, <4>1, <4>2 DEF CountAttempt, Step
    <3>4. CASE PushReceived(w)
      <4>1. got' \in [Subs -> SUBSET {"signal", "test"}] /\ receipts' \in [Subs -> Nat]
        BY <3>1, <3>4 DEF PushReceived, d
      <4> QED
        BY <1>a, <3>4, <4>1 DEF PushReceived, Step
    <3>5. CASE PushBadAnswer(w)
      <4>1. got' \in [Subs -> SUBSET {"signal", "test"}] /\ receipts' \in [Subs -> Nat]
        BY <3>1, <3>5 DEF PushBadAnswer, d
      <4>2. faults' \in 0..MaxFaults
        BY <1>c, <3>5 DEF PushBadAnswer
      <4> QED
        BY <1>a, <3>5, <4>1, <4>2 DEF PushBadAnswer, Step
    <3>6. CASE PushFails(w)
      BY <1>a, <3>6 DEF PushFails, Step
    <3>7. CASE MarkSent(w)
      BY <1>a, <1>b, <3>7 DEF MarkSent, Record, Step
    <3>8. CASE MarkFailed(w)
      BY <1>a, <1>b, <3>8 DEF MarkFailed, Record, Step
    <3>9. CASE MarkNoUrl(w)
      BY <1>a, <1>b, <3>9 DEF MarkNoUrl, Record, Step
    <3> QED
      BY <2>6, <3>2, <3>3, <3>4, <3>5, <3>6, <3>7, <3>8, <3>9 DEF SendStep
  <2>7. CASE Fault(w)
    BY <1>a, <1>c, <2>7 DEF Fault
  <2>8. CASE Forget(w)
    BY <1>a, <2>8 DEF Forget
  <2> QED
    BY <1>2, <2>1, <2>2, <2>3, <2>4, <2>5, <2>6, <2>7, <2>8
       DEF HandlerNext, MatchStep, ReturnOk, ReturnErr, LoseHandler
<1>3. ASSUME NEW d \in Subs, ApiNext(d) PROVE DeliveryTypeOK'
  <2> USE DEF local, world
  <2>1. CASE ResetDeliveryForRetry(d)
    BY <1>b, <1>c, <2>1 DEF ResetDeliveryForRetry, Call
  <2>2. CASE SendTestDelivery(d)
    BY <1>b, <1>c, <2>2 DEF SendTestDelivery, Call
  <2>3. ASSUME NEW j \in Jobs, EnqueueOwed(d, j) PROVE DeliveryTypeOK'
    BY <2>3 DEF EnqueueOwed, EnqueueSend, table
  <2>4. CASE OwedFails(d)
    BY <1>c, <2>4 DEF OwedFails, table
  <2>5. CASE DeleteSubscription(d)
    BY <1>b, <2>5 DEF DeleteSubscription, api
  <2> QED
    BY <1>3, <2>1, <2>2, <2>3, <2>4, <2>5 DEF ApiNext
<1>4. CASE QueueStep \/ UNCHANGED dvars
  BY <1>4 DEF QueueStep, dvars, table, local, world, api
<1> QED
  BY <1>1, <1>2, <1>3, <1>4 DEF DeliveryNext

\* The strengthening with which the types are inductive, together with what
\* JobQueueProofs shows of the queue's own variables.
DeliveryInv == DeliveryTypeOK /\ TargetInv

LEMMA DeliveryInvariant == DeliverySpec => [](TypeOK /\ AccountInv /\ DeliveryInv)
<1>1. DeliveryInit => DeliveryInv
  BY DeliveryAssumption
     DEF DeliveryInit, Init, DeliveryInv, DeliveryTypeOK, TargetInv, Exists, Statuses, PCs, SendPCs
<1>2. TypeOK /\ AccountInv /\ DeliveryInv /\ [DeliveryNext]_dvars => DeliveryInv'
  BY DeliveryTypeInductive, TargetInductive DEF DeliveryInv
<1>3. DeliverySpec => [](TypeOK /\ AccountInv)
  BY DeliveryRunsOnQueue, TypeCorrect, AccountInvariant, PTL
<1> QED
  BY <1>1, <1>2, <1>3, PTL DEF DeliverySpec

\* Every variable keeps its type: above all, a send handler always works on a
\* delivery, and what it loads, counts and records are that delivery's.
THEOREM DeliveryTypeCorrect == DeliverySpec => []DeliveryTypeOK
  BY DeliveryInvariant, PTL DEF DeliveryInv

-----------------------------------------------------------------------------
(* SENT means received, unless a test event took the row's place *)

Pushing == {"count", "push", "sent"}

\* A handler that has loaded a test event works on a row that holds one, and the one
\* that is about to write SENT has seen its subscriber take the event, unless the row
\* holds a test event by now.
SentInv ==
    /\ \A w \in Workers : pc[w] \in {"count", "push"} /\ event[Target(w)] = "signal" =>
            loaded[w] = "signal"
    /\ \A w \in Workers :
            pc[w] = "sent" /\ Channel[Target(w)] # "PULL" /\ event[Target(w)] = "signal" =>
                "signal" \in got[Target(w)]
    /\ SentMeansReceived

\* A step that moves no handler on towards SENT and writes no SENT but that of a test.
LEMMA SentFrame ==
    ASSUME TypeOK, AccountInv, DeliveryInv, SentInv, got' = got,
           \A d \in Subs : event'[d] = "signal" => event[d] = "signal",
           \A w \in Workers : pc'[w] \in Pushing =>
                /\ pc[w] = pc'[w] /\ loaded'[w] = loaded[w]
                /\ hold'[w] = hold[w] /\ about'[hold[w]] = about[hold[w]],
           \A d \in Subs : status'[d] = "SENT" => status[d] = "SENT" \/ event'[d] # "signal"
    PROVE  SentInv'
<1>1. ASSUME NEW w \in Workers, pc'[w] \in Pushing
      PROVE  /\ pc[w] = pc'[w] /\ loaded'[w] = loaded[w]
             /\ Target(w)' = Target(w) /\ Target(w) \in Subs
  <2>1. pc[w] = pc'[w] /\ pc[w] \in SendPCs
    BY <1>1 DEF Pushing, SendPCs
  <2>2. Target(w) \in Subs
    BY <2>1, TargetIsSub DEF DeliveryInv
  <2> QED
    BY <1>1, <2>1, <2>2 DEF Target
<1>2. ASSUME NEW w \in Workers, pc'[w] \in {"count", "push"}, event'[Target(w)'] = "signal"
      PROVE  loaded'[w] = "signal"
  BY <1>1, <1>2 DEF SentInv, Pushing
<1>3. ASSUME NEW w \in Workers, pc'[w] = "sent", Channel[Target(w)'] # "PULL",
             event'[Target(w)'] = "signal"
      PROVE  "signal" \in got'[Target(w)']
  BY <1>1, <1>3 DEF SentInv, Pushing
<1>4. SentMeansReceived'
  BY DEF SentInv, SentMeansReceived
<1> QED
  BY <1>2, <1>3, <1>4 DEF SentInv

\* The send handler's own steps.
LEMMA SentSendStep ==
    ASSUME TypeOK, AccountInv, DeliveryInv, SentInv, NEW w \in Workers, SendStep(w)
    PROVE  SentInv'
<1> DEFINE d == Target(w)
<1>1. hold[w] \in Jobs /\ d \in Subs /\ pc[w] \in SendPCs
  BY TargetIsSub
     DEF DeliveryInv, SendStep, LoadDelivery, CountAttempt, PushReceived, PushBadAnswer,
         PushFails, MarkSent, MarkFailed, MarkNoUrl, Step, SendPCs
<1>2. hold' = hold /\ about' = about /\ event' = event
  BY DEF SendStep, LoadDelivery, CountAttempt, PushReceived, PushBadAnswer,
         PushFails, MarkSent, MarkFailed, MarkNoUrl, Step, vars, pool, table
<1>3. /\ status \in [Subs -> Statuses] /\ pc \in [Workers -> PCs]
      /\ got \in [Subs -> SUBSET {"signal", "test"}]
      /\ loaded \in [Workers -> {"signal", "test"}]
  BY DEF DeliveryInv, DeliveryTypeOK
<1>4. CASE LoadDelivery(w)
  <2>1. /\ pc'[w] # "push" /\ pc'[w] # "sent" /\ loaded'[w] = event[d]
        /\ \A v \in Workers \ {w} : pc'[v] = pc[v] /\ loaded'[v] = loaded[v]
        /\ UNCHANGED <<status, got>>
    BY <1>3, <1>4 DEF LoadDelivery, Step, table, world, d
  <2>2. SentMeansReceived'
    BY <1>2, <2>1 DEF SentInv, SentMeansReceived
  <2> QED
    BY <1>2, <2>1, <2>2 DEF SentInv, Target, d
<1>5. CASE CountAttempt(w)
  <2>1. PICK next \in {"sent", "nourl", "push", "err"} :
            Step(w, "count", next) /\ (next = "sent" => Channel[d] = "PULL")
    BY <1>1, <1>5 DEF CountAttempt, AfterCount, d
  <2>2. /\ pc[w] = "count" /\ pc'[w] = next
        /\ \A v \in Workers \ {w} : pc'[v] = pc[v]
        /\ UNCHANGED <<status, loaded, got>>
    BY <1>3, <1>5, <2>1 DEF CountAttempt, Step, world
  <2>3. SentMeansReceived'
    BY <1>2, <2>2 DEF SentInv, SentMeansReceived
  <2> QED
    BY <1>2, <2>1, <2>2, <2>3 DEF SentInv, Target, d
<1>6. CASE PushReceived(w) \/ PushBadAnswer(w)
  <2>1. /\ pc[w] = "push" /\ pc'[w] \in {"sent", "failed"}
        /\ \A v \in Workers \ {w} : pc'[v] = pc[v]
        /\ UNCHANGED <<status, loaded>> /\ got' = [got EXCEPT ![d] = @ \cup {loaded[w]}]
    BY <1>3, <1>6 DEF PushReceived, PushBadAnswer, Step, table, d
  <2>2. \A e \in Subs : got[e] \subseteq got'[e]
    BY <1>3, <2>1
  <2>3. event[d] = "signal" => "signal" \in got'[d]
    BY <1>1, <1>3, <2>1 DEF SentInv, d
  <2>4. \A v \in Workers : pc[v] = "sent" => Target(v) \in Subs
    BY TargetIsSub DEF DeliveryInv, SendPCs
  <2>5. \A v \in Workers :
            pc'[v] = "sent" /\ Channel[Target(v)] # "PULL" /\ event[Target(v)] = "signal" =>
                "signal" \in got'[Target(v)]
    BY <2>1, <2>2, <2>3, <2>4 DEF SentInv, d
  <2>6. \A v \in Workers : pc'[v] \in {"count", "push"} => pc[v] = pc'[v]
    BY <2>1
  <2>7. SentMeansReceived'
    BY <1>2, <2>1, <2>2 DEF SentInv, SentMeansReceived
  <2> QED
    BY <1>2, <2>1, <2>5, <2>6, <2>7 DEF SentInv, Target, d
<1>7. CASE MarkSent(w)
  <2>1. status' = [status EXCEPT ![d] = IF Row(d) THEN "SENT" ELSE @] /\ got' = got
    BY <1>7 DEF MarkSent, Record, world, d
  <2>2. Channel[d] # "PULL" /\ event[d] = "signal" => "signal" \in got[d]
    BY <1>7 DEF MarkSent, Step, SentInv, d
  <2>3. SentMeansReceived'
    BY <1>1, <1>2, <1>3, <2>1, <2>2 DEF SentInv, SentMeansReceived
  <2>4. \A v \in Workers : pc'[v] \in Pushing => pc[v] = pc'[v]
    BY <1>3, <1>7 DEF MarkSent, Step, Pushing
  <2> QED
    BY <1>2, <1>7, <2>1, <2>3, <2>4 DEF MarkSent, SentInv, Target, Pushing
<1>8. CASE PushFails(w) \/ MarkFailed(w) \/ MarkNoUrl(w)
  <2>1. \A v \in Workers : pc'[v] \in Pushing => pc[v] = pc'[v]
    BY <1>3, <1>8 DEF PushFails, MarkFailed, MarkNoUrl, Step, Pushing
  <2>2. \A e \in Subs : status'[e] = "SENT" => status[e] = "SENT"
    BY <1>3, <1>8 DEF PushFails, MarkFailed, MarkNoUrl, Record, table
  <2>3. UNCHANGED <<loaded, got>>
    BY <1>8 DEF PushFails, MarkFailed, MarkNoUrl, world
  <2> QED
    BY <1>2, <2>1, <2>2, <2>3, SentFrame
<1> QED
  BY <1>4, <1>5, <1>6, <1>7, <1>8 DEF SendStep

\* No other step of a handler, nor of the rest of the system, touches it.
LEMMA SentInductive ==
    ASSUME TypeOK, AccountInv, DeliveryInv, SentInv, [DeliveryNext]_dvars
    PROVE  SentInv'
<1>a. /\ status \in [Subs -> Statuses] /\ pc \in [Workers -> PCs]
      /\ event \in [Subs -> {"signal", "test"}]
      /\ about \in [Jobs -> Subs \cup {NoSub}]
      /\ hold \in [Workers -> Jobs \cup {NoJob}]
      /\ loaded \in [Workers -> {"signal", "test"}]
  BY DEF DeliveryInv, DeliveryTypeOK, TypeOK
<1>b. \A w \in Workers : pc[w] \in Pushing => hold[w] \in Jobs
  BY DEF DeliveryInv, TargetInv, Pushing, SendPCs
<1>c. "match" \in Queues /\ "send" \in Queues
  BY DeliveryAssumption
<1>1. ASSUME NEW j \in Jobs, SendMatch(j) PROVE SentInv'
  BY <1>1, SentFrame DEF SendMatch, Send, pool, table, local, world
<1>2. ASSUME NEW w \in Workers, HandlerNext(w) PROVE SentInv'
  <2>1. ASSUME NEW j \in Jobs, StartHandler(w, j) PROVE SentInv'
    <3>1. hold[w] = NoJob /\ hold' = [hold EXCEPT ![w] = j]
      BY <2>1 DEF StartHandler, Claim
    <3>2. \A v \in Workers : pc'[v] \in Pushing => pc[v] = pc'[v] /\ hold'[v] = hold[v]
      BY <1>a, <2>1, <3>1 DEF StartHandler, Pushing
    <3> QED
      BY <2>1, <3>2, SentFrame DEF StartHandler, table, world
  <2>2. ASSUME NEW j \in Jobs, EnqueueMade(w, j) PROVE SentInv'
    <3>1. hold' = hold /\ \A v \in Workers : hold[v] # j
      BY <1>c, <2>2, SendAdds DEF EnqueueMade, EnqueueSend
    <3>2. \A v \in Workers : hold[v] \in Jobs => about'[hold[v]] = about[hold[v]]
      BY <1>a, <2>2, <3>1 DEF EnqueueMade, EnqueueSend
    <3> QED
      BY <1>b, <2>2, <3>1, <3>2, SentFrame DEF EnqueueMade, table, world
  <2>3. CASE BeginMatch(w) \/ MatchDone(w) \/ \E d \in Subs : CreateDeliveryIfNew(w, d)
    <3>1. \A v \in Workers : pc'[v] \in Pushing => pc[v] = pc'[v]
      BY <1>a, <2>3 DEF BeginMatch, MatchDone, CreateDeliveryIfNew, Step, Pushing
    <3>2. \A d \in Subs : status'[d] = "SENT" => status[d] = "SENT"
      BY <1>a, <2>3 DEF BeginMatch, MatchDone, CreateDeliveryIfNew, table
    <3> QED
      BY <2>3, <3>1, <3>2, SentFrame
         DEF BeginMatch, MatchDone, CreateDeliveryIfNew, Step, vars, pool, table, world
  <2>4. CASE SendStep(w)
    BY <2>4, SentSendStep
  <2>5. CASE Fault(w)
    <3>1. \A v \in Workers : pc'[v] \in Pushing => pc[v] = pc'[v]
      BY <1>a, <2>5 DEF Fault, Pushing
    <3> QED
      BY <2>5, <3>1, SentFrame DEF Fault, vars, pool, table, world
  <2>6. CASE ReturnOk(w) \/ ReturnErr(w) \/ LoseHandler(w)
    <3>1. Forget(w) /\ hold' = [hold EXCEPT ![w] = NoJob]
      BY <2>6 DEF ReturnOk, ReturnErr, LoseHandler, Complete, FailRetry, FailFinal, Lose, LetGo
    <3>2. \A v \in Workers : pc'[v] \in Pushing =>
              pc[v] = pc'[v] /\ hold'[v] = hold[v] /\ loaded'[v] = loaded[v]
      BY <1>a, <3>1 DEF Forget, Pushing
    <3> QED
      BY <3>1, <3>2, SentFrame DEF Forget, table, world
  <2> QED
    BY <1>2, <2>1, <2>2, <2>3, <2>4, <2>5, <2>6 DEF HandlerNext, MatchStep
<1>3. ASSUME NEW d \in Subs, ApiNext(d) PROVE SentInv'
  <2>1. CASE ResetDeliveryForRetry(d)
    <3>1. \A e \in Subs : status'[e] = "SENT" => status[e] = "SENT"
      BY <1>a, <2>1 DEF ResetDeliveryForRetry
    <3> QED
      BY <2>1, <3>1, SentFrame DEF ResetDeliveryForRetry, vars, pool, local, world
  <2>2. CASE SendTestDelivery(d)
    <3>1. \A e \in Subs : event'[e] = "signal" => event[e] = "signal"
      BY <1>a, <2>2 DEF SendTestDelivery
    <3>2. \A e \in Subs : status'[e] = "SENT" => status[e] = "SENT" \/ event'[e] # "signal"
      BY <1>a, <2>2 DEF SendTestDelivery
    <3> QED
      BY <2>2, <3>1, <3>2, SentFrame DEF SendTestDelivery, vars, pool, local, world
  <2>3. ASSUME NEW j \in Jobs, EnqueueOwed(d, j) PROVE SentInv'
    <3>1. hold' = hold /\ \A v \in Workers : hold[v] # j
      BY <1>c, <2>3, SendAdds DEF EnqueueOwed, EnqueueSend
    <3>2. \A v \in Workers : hold[v] \in Jobs => about'[hold[v]] = about[hold[v]]
      BY <1>a, <2>3, <3>1 DEF EnqueueOwed, EnqueueSend
    <3> QED
      BY <1>b, <2>3, <3>1, <3>2, SentFrame DEF EnqueueOwed, table, local, world
  <2>4. CASE OwedFails(d)
    BY <2>4, SentFrame DEF OwedFails, vars, pool, table, local, world
  <2>5. CASE DeleteSubscription(d)
    <3>1. \A e \in Subs : status'[e] = "SENT" => status[e] = "SENT"
      BY <1>a, <2>5 DEF DeleteSubscription
    <3> QED
      BY <2>5, <3>1, SentFrame DEF DeleteSubscription, vars, pool, local, world
  <2> QED
    BY <1>3, <2>1, <2>2, <2>3, <2>4, <2>5 DEF ApiNext
<1>4. CASE QueueStep
  <2>1. hold' = hold
    BY <1>4 DEF QueueStep, PollEmpty, Reap, Tick, RetryJob, pool
  <2> QED
    BY <1>4, <2>1, SentFrame DEF QueueStep, table, local, world
<1>5. CASE UNCHANGED dvars
  BY <1>5, SentFrame DEF dvars, vars, pool, table, local, world
<1> QED
  BY <1>1, <1>2, <1>3, <1>4, <1>5 DEF DeliveryNext

\* A webhook or an e-mail delivery of a signal says SENT only when its subscriber has
\* received the signal, whatever is lost, retried, reaped, tested or delivered twice in
\* between.  (A test call rewrites the payload of a row that a handler may be sending,
\* and sets an e-mail row to SENT unsent: rows of test events are not spoken of.)
THEOREM DeliverySentMeansReceived == DeliverySpec => []SentMeansReceived
<1>1. DeliveryInit => SentInv
  BY DEF DeliveryInit, SentInv, SentMeansReceived
<1>2. TypeOK /\ AccountInv /\ DeliveryInv /\ SentInv /\ [DeliveryNext]_dvars => SentInv'
  BY SentInductive
<1>3. SentInv => SentMeansReceived
  BY DEF SentInv
<1> QED
  BY <1>1, <1>2, <1>3, DeliveryInvariant, PTL DEF DeliverySpec

-----------------------------------------------------------------------------
(* One send job per delivery, and one more per API call *)

InHand(d) == \E w \in Workers : \E i \in DOMAIN made[w] : made[w][i] = d

\* OneSendJob is not inductive: what a match handler or an API call is about to
\* send counts as well, only the handler that made the row may hold it, and it
\* holds it once.
CountInv ==
    /\ \A v, w \in Workers : \A i \in DOMAIN made[v], k \in DOMAIN made[w] :
            made[v][i] = made[w][k] => v = w /\ i = k
    /\ \A d \in Subs : status[d] = "none" => ~ InHand(d) /\ SendJobs(d) = {} /\ owed[d] = 0
    /\ \A d \in Subs :
            Cardinality(SendJobs(d)) + owed[d] + (IF InHand(d) THEN 1 ELSE 0) <= 1 + calls

LEMMA JobsFinite ==
    ASSUME NEW S \in SUBSET Jobs
    PROVE  IsFiniteSet(S) /\ Cardinality(S) \in Nat
<1>1. IsFiniteSet(Jobs)
  BY QueueAssumption, FS_Interval DEF Jobs
<1> QED
  BY <1>1, FS_Subset, FS_CardinalityType

LEMMA FewerJobs ==
    ASSUME NEW S \in SUBSET Jobs, NEW T \in SUBSET S
    PROVE  Cardinality(T) <= Cardinality(S)
  BY JobsFinite, FS_Subset

\* A step that sends nothing, makes no row and owes nothing new.
LEMMA CountFrame ==
    ASSUME DeliveryTypeOK, CountInv,
           \A i \in Jobs : Exists(i)' /\ queue'[i] = "send" =>
                Exists(i) /\ queue[i] = "send" /\ about'[i] = about[i],
           \A w \in Workers : made'[w] = made[w] \/ made'[w] = <<>>,
           \A d \in Subs : status'[d] = "none" => status[d] = "none",
           \A d \in Subs : owed'[d] \in Nat /\ owed'[d] <= owed[d],
           calls' = calls
    PROVE  CountInv'
<1>1. ASSUME NEW d \in Subs
      PROVE  /\ InHand(d)' => InHand(d)
             /\ SendJobs(d)' \subseteq SendJobs(d)
             /\ Cardinality(SendJobs(d)') <= Cardinality(SendJobs(d))
             /\ Cardinality(SendJobs(d)') \in Nat /\ Cardinality(SendJobs(d)) \in Nat
  <2>1. InHand(d)' => InHand(d)
    BY DEF InHand
  <2>2. SendJobs(d) \subseteq Jobs /\ SendJobs(d)' \subseteq SendJobs(d)
    BY DEF SendJobs
  <2> QED
    BY <2>1, <2>2, FewerJobs, JobsFinite
<1>2. \A d \in Subs : owed[d] \in Nat /\ calls \in Nat
  BY DeliveryAssumption DEF DeliveryTypeOK
<1>3. \A v, w \in Workers : \A i \in DOMAIN made'[v], k \in DOMAIN made'[w] :
            made'[v][i] = made'[w][k] => v = w /\ i = k
  BY DEF CountInv
<1>4. \A d \in Subs : status'[d] = "none" => ~ InHand(d)' /\ SendJobs(d)' = {} /\ owed'[d] = 0
  BY <1>1, <1>2 DEF CountInv
<1>5. ASSUME NEW d \in Subs
      PROVE  Cardinality(SendJobs(d)') + owed'[d] + (IF InHand(d)' THEN 1 ELSE 0) <= 1 + calls'
  <2>1. Cardinality(SendJobs(d)) + owed[d] + (IF InHand(d) THEN 1 ELSE 0) <= 1 + calls
    BY DEF CountInv
  <2> QED
    BY <1>1, <1>2, <2>1
<1> QED
  BY <1>3, <1>4, <1>5 DEF CountInv

\* CreateDeliveryIfNew: the row that did not exist goes into the handler's list.
LEMMA CountCreate ==
    ASSUME DeliveryTypeOK, CountInv, NEW w \in Workers, NEW d \in Subs, CreateDeliveryIfNew(w, d)
    PROVE  CountInv'
<1>1. \A e \in Subs : SendJobs(e)' = SendJobs(e)
  BY DEF CreateDeliveryIfNew, Step, SendJobs, Exists, vars, rows
<1>2. UNCHANGED <<owed, calls, queue, about>>
  BY DEF CreateDeliveryIfNew, Step, vars, rows, api
<1>3. \A i \in Jobs : Exists(i)' <=> Exists(i)
  BY DEF CreateDeliveryIfNew, Step, Exists, vars, rows
<1>4. \A e \in Subs : status'[e] = "none" => status[e] = "none" /\ e # d
  BY DEF CreateDeliveryIfNew, DeliveryTypeOK
<1>5. CASE status[d] # "none"
  <2>1. \A v \in Workers : made'[v] = made[v]
    BY <1>5 DEF CreateDeliveryIfNew, DeliveryTypeOK
  <2>2. \A e \in Subs : owed'[e] \in Nat /\ owed'[e] <= owed[e]
    BY <1>2 DEF DeliveryTypeOK
  <2> QED
    BY <1>2, <1>3, <1>4, <2>1, <2>2, CountFrame
<1>6. CASE status[d] = "none"
  <2> DEFINE n == Len(made[w])
  <2>1. made[w] \in Seq(Subs) /\ n \in Nat /\ DOMAIN made[w] = 1..n
    BY DEF DeliveryTypeOK
  <2>2. /\ \A v \in Workers : v # w => made'[v] = made[v]
        /\ made'[w] = Append(made[w], d)
    BY <1>6 DEF CreateDeliveryIfNew, DeliveryTypeOK
  <2>3. /\ DOMAIN made'[w] = 1..(n + 1)
        /\ \A i \in 1..n : made'[w][i] = made[w][i]
        /\ made'[w][n + 1] = d
    BY <2>1, <2>2
  <2> HIDE DEF n
  <2>4. ~ InHand(d) /\ SendJobs(d) = {} /\ owed[d] = 0
    BY <1>6 DEF CountInv
  <2>5. \A v, u \in Workers : \A i \in DOMAIN made'[v], k \in DOMAIN made'[u] :
            made'[v][i] = made'[u][k] => v = u /\ i = k
    <3> SUFFICES ASSUME NEW v \in Workers, NEW u \in Workers,
                        NEW i \in DOMAIN made'[v], NEW k \in DOMAIN made'[u],
                        made'[v][i] = made'[u][k]
                 PROVE  v = u /\ i = k
      OBVIOUS
    <3>1. \/ (v = w /\ i = n + 1) /\ made'[v][i] = d
          \/ ~ (v = w /\ i = n + 1) /\ i \in DOMAIN made[v] /\ made'[v][i] = made[v][i] /\ made[v][i] # d
      BY <2>1, <2>2, <2>3, <2>4 DEF InHand
    <3>2. \/ (u = w /\ k = n + 1) /\ made'[u][k] = d
          \/ ~ (u = w /\ k = n + 1) /\ k \in DOMAIN made[u] /\ made'[u][k] = made[u][k] /\ made[u][k] # d
      BY <2>1, <2>2, <2>3, <2>4 DEF InHand
    <3> QED
      BY <3>1, <3>2 DEF CountInv
  <2>6. ASSUME NEW e \in Subs, e # d, InHand(e)' PROVE InHand(e)
    <3>1. PICK v \in Workers : \E i \in DOMAIN made'[v] : made'[v][i] = e
      BY <2>6 DEF InHand
    <3>2. \E i \in DOMAIN made[v] : made[v][i] = e
      <4>1. CASE v # w
        BY <2>2, <3>1, <4>1
      <4>2. CASE v = w
        <5>1. PICK i \in 1..(n + 1) : made'[w][i] = e
          BY <2>3, <3>1, <4>2
        <5>2. i # n + 1
          BY <2>3, <2>6, <5>1
        <5>3. i \in 1..n
          BY <2>1, <5>1, <5>2
        <5> QED
          BY <2>1, <2>3, <4>2, <5>1, <5>3
      <4> QED
        BY <4>1, <4>2
    <3> QED
      BY <3>2 DEF InHand
  <2>7. \A e \in Subs : status'[e] = "none" => ~ InHand(e)' /\ SendJobs(e)' = {} /\ owed'[e] = 0
    BY <1>1, <1>2, <1>4, <2>6 DEF CountInv
  <2>8. ASSUME NEW e \in Subs
        PROVE  Cardinality(SendJobs(e)') + owed'[e] + (IF InHand(e)' THEN 1 ELSE 0) <= 1 + calls'
    <3>1. calls \in Nat
      BY DeliveryAssumption DEF DeliveryTypeOK
    <3>2. CASE e = d
      <4>1. Cardinality(SendJobs(e)') = 0 /\ owed'[e] = 0
        BY <1>1, <1>2, <2>4, <3>2, FS_EmptySet
      <4> QED
        BY <1>2, <3>1, <4>1
    <3>3. CASE e # d
      <4>1. Cardinality(SendJobs(e)) + owed[e] + (IF InHand(e) THEN 1 ELSE 0) <= 1 + calls
        BY DEF CountInv
      <4>2. Cardinality(SendJobs(e)) \in Nat /\ owed[e] \in Nat
        BY JobsFinite DEF SendJobs, DeliveryTypeOK
      <4> QED
        BY <1>1, <1>2, <2>6, <3>1, <3>3, <4>1, <4>2
    <3> QED
      BY <3>2, <3>3
  <2> QED
    BY <2>5, <2>7, <2>8 DEF CountInv
<1> QED
  BY <1>5, <1>6

\* A send job is added for one delivery.
LEMMA SendJobsGrow ==
    ASSUME TypeOK, AccountInv, DeliveryTypeOK, NEW d \in Subs, NEW j \in Jobs, EnqueueSend(j, d)
    PROVE  \A e \in Subs :
             /\ SendJobs(e)' \subseteq SendJobs(e) \cup (IF e = d THEN {j} ELSE {})
             /\ Cardinality(SendJobs(e)') <= Cardinality(SendJobs(e)) + (IF e = d THEN 1 ELSE 0)
             /\ Cardinality(SendJobs(e)') \in Nat /\ Cardinality(SendJobs(e)) \in Nat
<1>1. "send" \in Queues
  BY DeliveryAssumption
<1>2. /\ \A i \in Jobs \ {j} : queue'[i] = queue[i] /\ (Exists(i)' => Exists(i))
      /\ \A i \in Jobs : about'[i] = IF i = j THEN d ELSE about[i]
  BY <1>1, SendAdds DEF EnqueueSend, DeliveryTypeOK
<1> SUFFICES ASSUME NEW e \in Subs
             PROVE  /\ SendJobs(e)' \subseteq SendJobs(e) \cup (IF e = d THEN {j} ELSE {})
                    /\ Cardinality(SendJobs(e)') <= Cardinality(SendJobs(e)) + (IF e = d THEN 1 ELSE 0)
                    /\ Cardinality(SendJobs(e)') \in Nat /\ Cardinality(SendJobs(e)) \in Nat
  OBVIOUS
<1>3. /\ SendJobs(e) \subseteq Jobs /\ SendJobs(e)' \subseteq Jobs
      /\ SendJobs(e)' \subseteq SendJobs(e) \cup (IF e = d THEN {j} ELSE {})
  BY <1>2 DEF SendJobs
<1>4. Cardinality(SendJobs(e)') \in Nat /\ Cardinality(SendJobs(e)) \in Nat
  BY <1>3, JobsFinite
<1>5. CASE e = d
  <2>1. /\ SendJobs(e) \cup {j} \subseteq Jobs
        /\ Cardinality(SendJobs(e) \cup {j}) <= Cardinality(SendJobs(e)) + 1
    BY <1>3, <1>4, JobsFinite, FS_AddElement
  <2>2. Cardinality(SendJobs(e)') <= Cardinality(SendJobs(e) \cup {j})
    BY <1>3, <1>5, <2>1, FewerJobs
  <2> QED
    BY <1>3, <1>4, <1>5, <2>1, <2>2, JobsFinite
<1>6. CASE e # d
  BY <1>3, <1>4, <1>6, FewerJobs
<1> QED
  BY <1>3, <1>4, <1>5, <1>6

\* A match handler sends the job it has in hand.
LEMMA CountMade ==
    ASSUME TypeOK, AccountInv, DeliveryTypeOK, CountInv, NEW w \in Workers, NEW j \in Jobs, EnqueueMade(w, j)
    PROVE  CountInv'
<1>0. PICK d \in Subs : d = Head(made[w])
  BY DEF EnqueueMade, DeliveryTypeOK
<1> DEFINE n == Len(made[w])
<1>1. /\ made[w] \in Seq(Subs) /\ n \in Nat \ {0} /\ DOMAIN made[w] = 1..n
      /\ d = made[w][1]
  BY <1>0 DEF EnqueueMade, DeliveryTypeOK
<1>2. /\ \A v \in Workers : v # w => made'[v] = made[v]
      /\ DOMAIN made'[w] = 1..(n - 1)
      /\ \A i \in 1..(n - 1) : made'[w][i] = made[w][i + 1]
  BY <1>1 DEF EnqueueMade, DeliveryTypeOK
<1>3. EnqueueSend(j, d) /\ UNCHANGED <<status, owed, calls>>
  BY <1>0 DEF EnqueueMade, table, api
<1> HIDE DEF n
<1>4. InHand(d) /\ ~ InHand(d)'
  <2>1. InHand(d)
    BY <1>1 DEF InHand
  <2>2. ASSUME NEW v \in Workers, NEW i \in DOMAIN made'[v], made'[v][i] = d PROVE FALSE
    <3>1. CASE v = w
      <4>1. i \in 1..(n - 1) /\ i + 1 \in DOMAIN made[w] /\ 1 \in DOMAIN made[w] /\ made[w][i + 1] = made[w][1]
        BY <1>1, <1>2, <2>2, <3>1
      <4>2. i + 1 = 1
        BY <4>1 DEF CountInv
      <4> QED
        BY <4>1, <4>2
    <3>2. CASE v # w
      BY <1>1, <1>2, <2>2, <3>2 DEF CountInv
    <3> QED
      BY <3>1, <3>2
  <2> QED
    BY <2>1, <2>2 DEF InHand
<1>5. ASSUME NEW e \in Subs, InHand(e)' PROVE InHand(e)
  <2>1. PICK v \in Workers : \E i \in DOMAIN made'[v] : made'[v][i] = e
    BY <1>5 DEF InHand
  <2>2. CASE v = w
    <3>1. PICK i \in 1..(n - 1) : made[w][i + 1] = e
      BY <1>2, <2>1, <2>2
    <3>2. i + 1 \in DOMAIN made[w]
      BY <1>1, <3>1
    <3> QED
      BY <3>1, <3>2 DEF InHand
  <2>3. CASE v # w
    BY <1>2, <2>1, <2>3 DEF InHand
  <2> QED
    BY <2>2, <2>3
<1>6. \A v, u \in Workers : \A i \in DOMAIN made'[v], k \in DOMAIN made'[u] :
            made'[v][i] = made'[u][k] => v = u /\ i = k
  <2> SUFFICES ASSUME NEW v \in Workers, NEW u \in Workers,
                      NEW i \in DOMAIN made'[v], NEW k \in DOMAIN made'[u], made'[v][i] = made'[u][k]
               PROVE  v = u /\ i = k
    OBVIOUS
  <2>1. /\ v = w => i \in Nat /\ i + 1 \in DOMAIN made[v] /\ made'[v][i] = made[v][i + 1]
        /\ v # w => i \in DOMAIN made[v] /\ made'[v][i] = made[v][i]
    BY <1>1, <1>2
  <2>2. /\ u = w => k \in Nat /\ k + 1 \in DOMAIN made[u] /\ made'[u][k] = made[u][k + 1]
        /\ u # w => k \in DOMAIN made[u] /\ made'[u][k] = made[u][k]
    BY <1>1, <1>2
  <2> QED
    BY <2>1, <2>2 DEF CountInv
<1>7. \A e \in Subs : status'[e] = "none" => ~ InHand(e)' /\ SendJobs(e)' = {} /\ owed'[e] = 0
  <2> SUFFICES ASSUME NEW e \in Subs, status'[e] = "none"
               PROVE  ~ InHand(e)' /\ SendJobs(e)' = {} /\ owed'[e] = 0
    OBVIOUS
  <2>1. ~ InHand(e) /\ SendJobs(e) = {} /\ owed[e] = 0
    BY <1>3 DEF CountInv
  <2>2. e # d
    BY <1>4, <2>1
  <2>3. SendJobs(e)' \subseteq SendJobs(e) \cup (IF e = d THEN {j} ELSE {})
    BY <1>1, <1>3, SendJobsGrow
  <2> QED
    BY <1>3, <1>5, <2>1, <2>2, <2>3
<1>8. ASSUME NEW e \in Subs
      PROVE  Cardinality(SendJobs(e)') + owed'[e] + (IF InHand(e)' THEN 1 ELSE 0) <= 1 + calls'
  <2>1. Cardinality(SendJobs(e)) + owed[e] + (IF InHand(e) THEN 1 ELSE 0) <= 1 + calls
    BY DEF CountInv
  <2>2. /\ Cardinality(SendJobs(e)') <= Cardinality(SendJobs(e)) + (IF e = d THEN 1 ELSE 0)
        /\ Cardinality(SendJobs(e)') \in Nat /\ Cardinality(SendJobs(e)) \in Nat
    BY <1>1, <1>3, SendJobsGrow
  <2>3. owed[e] \in Nat /\ calls \in Nat
    BY DeliveryAssumption DEF DeliveryTypeOK
  <2> QED
    BY <1>3, <1>4, <1>5, <2>1, <2>2, <2>3
<1> QED
  BY <1>6, <1>7, <1>8 DEF CountInv

\* The API's calls: the first statement owes a job, the second sends it.
LEMMA CountApi ==
    ASSUME TypeOK, AccountInv, DeliveryTypeOK, CountInv, NEW d \in Subs,
           \/ ResetDeliveryForRetry(d) \/ SendTestDelivery(d)
           \/ \E j \in Jobs : EnqueueOwed(d, j)
    PROVE  CountInv'
<1>1. \A e \in Subs : owed[e] \in Nat /\ calls \in Nat /\ status[e] \in Statuses
  BY DeliveryAssumption DEF DeliveryTypeOK
<1>2. made' = made
  BY DEF ResetDeliveryForRetry, SendTestDelivery, EnqueueOwed, local
<1>3. /\ \A v, w \in Workers : \A i \in DOMAIN made'[v], k \in DOMAIN made'[w] :
            made'[v][i] = made'[w][k] => v = w /\ i = k
      /\ \A e \in Subs : InHand(e)' <=> InHand(e)
  BY <1>2 DEF CountInv, InHand
<1>4. CASE ResetDeliveryForRetry(d) \/ SendTestDelivery(d)
  <2>1. \A e \in Subs : SendJobs(e)' = SendJobs(e)
    BY <1>4 DEF ResetDeliveryForRetry, SendTestDelivery, SendJobs, Exists, vars, rows
  <2>2. /\ calls' = calls + 1
        /\ \A e \in Subs : owed'[e] = owed[e] \/ owed'[e] = owed[e] + 1
        /\ \A e \in Subs : status'[e] = "none" => status[e] = "none" /\ owed'[e] = owed[e]
    BY <1>4 DEF ResetDeliveryForRetry, SendTestDelivery, Call, DeliveryTypeOK, Row
  <2>3. \A e \in Subs : Cardinality(SendJobs(e)) \in Nat
    BY JobsFinite DEF SendJobs
  <2> QED
    BY <1>1, <1>3, <2>1, <2>2, <2>3 DEF CountInv
<1>5. ASSUME NEW j \in Jobs, EnqueueOwed(d, j) PROVE CountInv'
  <2>1. EnqueueSend(j, d) /\ UNCHANGED <<status, calls>> /\ owed[d] > 0
    BY <1>5 DEF EnqueueOwed, table
  <2>2. \A e \in Subs : owed'[e] = IF e = d THEN owed[e] - 1 ELSE owed[e]
    BY <1>5 DEF EnqueueOwed, DeliveryTypeOK
  <2>3. \A e \in Subs : status'[e] = "none" => ~ InHand(e)' /\ SendJobs(e)' = {} /\ owed'[e] = 0
    BY <1>1, <1>3, <2>1, <2>2, SendJobsGrow DEF CountInv
  <2>4. ASSUME NEW e \in Subs
        PROVE  Cardinality(SendJobs(e)') + owed'[e] + (IF InHand(e)' THEN 1 ELSE 0) <= 1 + calls'
    <3>1. Cardinality(SendJobs(e)) + owed[e] + (IF InHand(e) THEN 1 ELSE 0) <= 1 + calls
      BY DEF CountInv
    <3>2. /\ Cardinality(SendJobs(e)') <= Cardinality(SendJobs(e)) + (IF e = d THEN 1 ELSE 0)
          /\ Cardinality(SendJobs(e)') \in Nat /\ Cardinality(SendJobs(e)) \in Nat
      BY <2>1, SendJobsGrow
    <3> QED
      BY <1>1, <1>3, <2>1, <2>2, <3>1, <3>2
  <2> QED
    BY <1>3, <2>3, <2>4 DEF CountInv
<1> QED
  BY <1>4, <1>5

LEMMA CountInductive ==
    ASSUME TypeOK, AccountInv, DeliveryTypeOK, CountInv, [DeliveryNext]_dvars
    PROVE  CountInv'
<1>a. "match" \in Queues /\ "send" \in Queues
  BY DeliveryAssumption
<1>b. \A d \in Subs : owed[d] \in Nat
  BY DEF DeliveryTypeOK
<1>1. ASSUME UNCHANGED about, UNCHANGED queue, \A i \in Jobs : Exists(i)' => Exists(i),
             \A w \in Workers : made'[w] = made[w] \/ made'[w] = <<>>,
             \A d \in Subs : status'[d] = "none" => status[d] = "none",
             \A d \in Subs : owed'[d] \in Nat /\ owed'[d] <= owed[d], calls' = calls
      PROVE  CountInv'
  BY <1>1, CountFrame
<1>2. ASSUME UNCHANGED vars, UNCHANGED about,
             \A w \in Workers : made'[w] = made[w] \/ made'[w] = <<>>,
             \A d \in Subs : status'[d] = "none" => status[d] = "none",
             \A d \in Subs : owed'[d] \in Nat /\ owed'[d] <= owed[d], calls' = calls
      PROVE  CountInv'
  BY <1>1, <1>2 DEF vars, rows, Exists
<1>3. ASSUME NEW j \in Jobs, SendMatch(j) PROVE CountInv'
  <2>1. /\ queue'[j] = "match"
        /\ \A i \in Jobs \ {j} : queue'[i] = queue[i] /\ (Exists(i)' => Exists(i))
    BY <1>a, <1>3, SendAdds DEF SendMatch
  <2>2. UNCHANGED <<about, status, made, owed, calls>>
    BY <1>3 DEF SendMatch, table, local, api
  <2> QED
    BY <1>b, <2>1, <2>2, CountFrame
<1>4. ASSUME NEW w \in Workers, HandlerNext(w) PROVE CountInv'
  <2>1. ASSUME NEW j \in Jobs, StartHandler(w, j) PROVE CountInv'
    BY <1>1, <1>b, <2>1, RowsKept DEF StartHandler, table, api
  <2>2. CASE BeginMatch(w) \/ MatchDone(w) \/ Fault(w)
    BY <1>2, <1>b, <2>2 DEF BeginMatch, MatchDone, Fault, Step, table, api
  <2>3. ASSUME NEW d \in Subs, CreateDeliveryIfNew(w, d) PROVE CountInv'
    BY <2>3, CountCreate
  <2>4. ASSUME NEW j \in Jobs, EnqueueMade(w, j) PROVE CountInv'
    BY <2>4, CountMade
  <2>5. CASE SendStep(w)
    <3>1. UNCHANGED <<vars, about, made, owed, calls>>
      BY <2>5 DEF SendStep, LoadDelivery, CountAttempt, PushReceived, PushBadAnswer,
                  PushFails, MarkSent, MarkFailed, MarkNoUrl, Step, api
    <3>2. \A d \in Subs : status'[d] = "none" => status[d] = "none"
      BY <2>5 DEF SendStep, LoadDelivery, CountAttempt, PushReceived, PushBadAnswer, PushFails,
                  MarkSent, MarkFailed, MarkNoUrl, Record, Row, table, DeliveryTypeOK
    <3> QED
      BY <1>2, <1>b, <3>1, <3>2
  <2>6. CASE ReturnOk(w) \/ ReturnErr(w) \/ LoseHandler(w)
    <3>1. (Finish(w) \/ Lose(w)) /\ Forget(w)
      BY <2>6 DEF ReturnOk, ReturnErr, LoseHandler, Finish
    <3>2. queue' = queue /\ \A i \in Jobs : Exists(i)' => Exists(i)
      BY <3>1, RowsKept
    <3>3. UNCHANGED <<about, status, owed, calls>> /\ \A v \in Workers : made'[v] = made[v] \/ made'[v] = <<>>
      BY <3>1 DEF Forget, table, api, DeliveryTypeOK
    <3> QED
      BY <1>1, <1>b, <3>2, <3>3
  <2> QED
    BY <1>4, <2>1, <2>2, <2>3, <2>4, <2>5, <2>6 DEF HandlerNext, MatchStep
<1>5. ASSUME NEW d \in Subs, ApiNext(d) PROVE CountInv'
  <2>1. CASE OwedFails(d)
    <3>1. \A e \in Subs : owed'[e] \in Nat /\ owed'[e] <= owed[e]
      BY <1>b, <2>1 DEF OwedFails, DeliveryTypeOK
    <3> QED
      BY <1>2, <2>1, <3>1 DEF OwedFails, table, local
  <2>2. CASE DeleteSubscription(d)
    BY <1>2, <1>b, <2>2 DEF DeleteSubscription, local, api, DeliveryTypeOK
  <2> QED
    BY <1>5, <2>1, <2>2, CountApi DEF ApiNext
<1>6. CASE QueueStep
  BY <1>1, <1>b, <1>6, RowsKept DEF QueueStep, table, local, api
<1>7. CASE UNCHANGED dvars
  BY <1>2, <1>b, <1>7 DEF dvars, table, local, api
<1> QED
  BY <1>3, <1>4, <1>5, <1>6, <1>7 DEF DeliveryNext

LEMMA CountInvariant == DeliverySpec => []CountInv
<1>1. DeliveryInit => CountInv
  <2> SUFFICES ASSUME DeliveryInit PROVE CountInv
    OBVIOUS
  <2>1. \A d \in Subs : SendJobs(d) = {} /\ ~ InHand(d)
    BY DEF DeliveryInit, Init, SendJobs, Exists, InHand
  <2>2. \A d \in Subs : Cardinality(SendJobs(d)) = 0 /\ owed[d] = 0 /\ calls = 0
    BY <2>1, FS_EmptySet DEF DeliveryInit
  <2>3. \A w \in Workers : DOMAIN made[w] = {}
    BY DEF DeliveryInit
  <2> QED
    BY <2>1, <2>2, <2>3 DEF CountInv
<1>2. TypeOK /\ AccountInv /\ DeliveryInv /\ CountInv /\ [DeliveryNext]_dvars => CountInv'
  BY CountInductive DEF DeliveryInv
<1> QED
  BY <1>1, <1>2, DeliveryInvariant, PTL DEF DeliverySpec

\* However many match jobs of a signal run, at once or again after a failure, a
\* delivery gets one send job from them (CreateDeliveryIfNew and the loop over
\* the returned ids), and one more from each API call.
THEOREM DeliveryOneSendJob == DeliverySpec => []OneSendJob
<1>1. DeliveryTypeOK /\ CountInv => OneSendJob
  <2> SUFFICES ASSUME DeliveryTypeOK, CountInv, NEW d \in Subs
               PROVE  Cardinality(SendJobs(d)) <= 1 + calls
    BY DEF OneSendJob
  <2>1. Cardinality(SendJobs(d)) \in Nat /\ owed[d] \in Nat /\ calls \in Nat
    BY DeliveryAssumption, JobsFinite DEF SendJobs, DeliveryTypeOK
  <2> QED
    BY <2>1 DEF CountInv
<1> QED
  BY <1>1, CountInvariant, DeliveryInvariant, PTL DEF DeliveryInv

-----------------------------------------------------------------------------
(* The queue fails no send job by itself *)

MatchPCs == {"begin", "match"}
\* The send jobs that the queue failed, those about a malformed url aside.
DeadSends == {j \in Jobs : /\ state[j] = "failed" /\ queue[j] = "send"
                           /\ about[j] \notin BadUrl}
\* The handlers whose error will be the last of such a job.
Doomed == {w \in Workers : /\ pc[w] = "err" /\ IsFinal(w)
                            /\ queue[hold[w]] = "send" /\ about[hold[w]] \notin BadUrl}

\* FailedByFault is not inductive: a fault of the last attempt is counted when it
\* happens and the job fails when the handler returns.
FailInv ==
    /\ \A w \in Workers : pc[w] \in MatchPCs => queue[hold[w]] = "match"
    /\ Cardinality(DeadSends) + Cardinality(Doomed) <= faults

LEMMA FewerWorkers ==
    ASSUME NEW S \in SUBSET Workers, NEW T \in SUBSET S
    PROVE  Cardinality(T) <= Cardinality(S)
  BY WorkerSubset, FS_Subset

LEMMA OneMore ==
    ASSUME NEW S, IsFiniteSet(S), NEW x, NEW T \in SUBSET (S \cup {x})
    PROVE  Cardinality(T) <= Cardinality(S) + 1
<1>0. Cardinality(S) \in Nat
  BY FS_CardinalityType
<1>1. /\ IsFiniteSet(S \cup {x})
      /\ Cardinality(S \cup {x}) <= Cardinality(S) + 1
  BY <1>0, FS_AddElement
<1>2. Cardinality(T) <= Cardinality(S \cup {x}) /\ IsFiniteSet(T)
  BY <1>1, FS_Subset
<1>3. Cardinality(T) \in Nat /\ Cardinality(S \cup {x}) \in Nat
  BY <1>1, <1>2, FS_CardinalityType
<1> QED
  BY <1>0, <1>1, <1>2, <1>3

LEMMA OneLess ==
    ASSUME NEW S, IsFiniteSet(S), NEW x \in S, NEW T \in SUBSET (S \ {x})
    PROVE  Cardinality(T) <= Cardinality(S) - 1
<1>1. /\ IsFiniteSet(S \ {x}) /\ Cardinality(S) \in Nat
      /\ Cardinality(S \ {x}) = Cardinality(S) - 1
  BY FS_RemoveElement, FS_CardinalityType
<1>2. Cardinality(T) <= Cardinality(S \ {x})
  BY <1>1, FS_Subset
<1> QED
  BY <1>1, <1>2

LEMMA FailFrame ==
    ASSUME FailInv,
           \A w \in Workers : pc'[w] \in MatchPCs => queue'[hold'[w]] = "match",
           Doomed' \subseteq Doomed, DeadSends' \subseteq DeadSends,
           faults \in Nat, faults' \in Nat, faults' >= faults
    PROVE  FailInv'
<1>1. /\ Cardinality(Doomed') <= Cardinality(Doomed) /\ Cardinality(Doomed') \in Nat /\ Cardinality(Doomed) \in Nat
  BY FewerWorkers, WorkerSubset DEF Doomed
<1>2. /\ Cardinality(DeadSends') <= Cardinality(DeadSends) /\ Cardinality(DeadSends') \in Nat
      /\ Cardinality(DeadSends) \in Nat
  BY FewerJobs, JobsFinite DEF DeadSends
<1> QED
  BY <1>1, <1>2 DEF FailInv

\* A statement of a handler that fails nothing for good.
LEMMA FailStatement ==
    ASSUME TypeOK, DeliveryTypeOK, FailInv, NEW w \in Workers, NEW next \in PCs,
           Step(w, pc[w], next),
           about' = about,
           next = "err" => \/ ~ IsFinal(w) \/ queue[hold[w]] = "match"
                           \/ about[hold[w]] \in BadUrl,
           next \in MatchPCs => pc[w] \in MatchPCs,
           faults' \in Nat, faults' >= faults
    PROVE  FailInv'
<1>1. UNCHANGED <<state, queue, hold, heldCount>>
  BY DEF Step, vars, rows, pool
<1>2. \A v \in Workers : pc'[v] = IF v = w THEN next ELSE pc[v]
  BY DEF Step, DeliveryTypeOK
<1>3. \A v \in Workers : IsFinal(v)' = IsFinal(v)
  BY <1>1 DEF IsFinal
<1>4. Doomed' \subseteq Doomed /\ DeadSends' = DeadSends
  BY <1>1, <1>2, <1>3 DEF Doomed, DeadSends
<1>5. faults \in Nat
  BY DeliveryAssumption DEF DeliveryTypeOK
<1> QED
  BY <1>1, <1>2, <1>4, <1>5, FailFrame DEF FailInv

\* A statement that fails in the handler: a fault is counted for a worker more.
LEMMA FailFault ==
    ASSUME TypeOK, DeliveryTypeOK, FailInv, NEW w \in Workers, Fault(w)
    PROVE  FailInv'
<1>1. UNCHANGED <<state, queue, hold, heldCount, about>> /\ faults' = faults + 1
  BY DEF Fault, vars, rows, pool
<1>2. \A v \in Workers : pc'[v] = IF v = w THEN "err" ELSE pc[v]
  BY DEF Fault, DeliveryTypeOK
<1>3. \A v \in Workers : IsFinal(v)' = IsFinal(v)
  BY <1>1 DEF IsFinal
<1>4. Doomed' \subseteq Doomed \cup {w} /\ DeadSends' = DeadSends
  BY <1>1, <1>2, <1>3 DEF Doomed, DeadSends
<1>5. /\ IsFiniteSet(Doomed) /\ Doomed \cup {w} \subseteq Workers
      /\ Cardinality(Doomed) \in Nat /\ Cardinality(Doomed') \in Nat /\ Cardinality(DeadSends) \in Nat
  BY WorkerSubset, JobsFinite DEF Doomed, DeadSends
<1>6. Cardinality(Doomed') <= Cardinality(Doomed) + 1
  BY <1>4, <1>5, OneMore
<1>7. faults \in Nat
  BY DeliveryAssumption DEF DeliveryTypeOK
<1>8. \A v \in Workers : pc'[v] \in MatchPCs => queue'[hold'[v]] = "match"
  BY <1>1, <1>2 DEF FailInv, MatchPCs
<1> QED
  BY <1>1, <1>4, <1>5, <1>6, <1>7, <1>8 DEF FailInv

\* The handler returns: the last error of a send job was that of a doomed one.
LEMMA FailReturn ==
    ASSUME TypeOK, AccountInv, DeliveryTypeOK, TargetInv, FailInv, NEW w \in Workers,
           ReturnOk(w) \/ ReturnErr(w) \/ LoseHandler(w)
    PROVE  FailInv'
<1>1. Forget(w) /\ LetGo(w) /\ queue' = queue /\ about' = about /\ hold[w] \in Jobs
  BY DEF ReturnOk, ReturnErr, LoseHandler, Complete, FailRetry, FailFinal, Lose, rows, TypeOK, Forget
<1>2. /\ \A v \in Workers : pc'[v] = IF v = w THEN "idle" ELSE pc[v]
      /\ \A v \in Workers \ {w} : hold'[v] = hold[v] /\ heldCount'[v] = heldCount[v]
      /\ faults' = faults
  BY <1>1 DEF Forget, LetGo, DeliveryTypeOK, TypeOK
<1>3. Doomed' \subseteq Doomed \ {w}
  BY <1>1, <1>2 DEF Doomed, IsFinal
<1>4. \A v \in Workers : pc'[v] \in MatchPCs => queue'[hold'[v]] = "match"
  BY <1>1, <1>2 DEF FailInv, MatchPCs
<1>5. faults \in Nat
  BY DeliveryAssumption DEF DeliveryTypeOK
<1>6. CASE ~ (pc[w] = "err" /\ FailFinal(w))
  <2>1. \A j \in Jobs : state'[j] = "failed" => state[j] = "failed"
    BY <1>6 DEF ReturnOk, ReturnErr, LoseHandler, Complete, FailRetry, Lose, rows, TypeOK
  <2> QED
    BY <1>1, <1>2, <1>3, <1>4, <1>5, <2>1, FailFrame DEF DeadSends
<1>7. CASE pc[w] = "err" /\ FailFinal(w)
  <2>1. \A j \in Jobs : state'[j] = IF j = hold[w] THEN "failed" ELSE state[j]
    BY <1>7 DEF FailFinal, TypeOK
  <2>2. CASE queue[hold[w]] # "send" \/ about[hold[w]] \in BadUrl
    BY <1>1, <1>2, <1>3, <1>4, <1>5, <2>1, <2>2, FailFrame DEF DeadSends
  <2>3. CASE queue[hold[w]] = "send" /\ about[hold[w]] \notin BadUrl
    <3>1. w \in Doomed
      BY <1>7, <2>3 DEF Doomed, FailFinal
    <3>2. /\ IsFiniteSet(Doomed) /\ Doomed \ {w} \subseteq Workers
          /\ Cardinality(Doomed) \in Nat /\ Cardinality(Doomed') \in Nat
      BY WorkerSubset DEF Doomed
    <3>3. Cardinality(Doomed') <= Cardinality(Doomed) - 1
      BY <1>3, <3>1, <3>2, OneLess
    <3>4. DeadSends' \subseteq DeadSends \cup {hold[w]}
      BY <1>1, <2>1 DEF DeadSends
    <3>5. /\ IsFiniteSet(DeadSends) /\ DeadSends \cup {hold[w]} \subseteq Jobs
          /\ Cardinality(DeadSends) \in Nat /\ Cardinality(DeadSends') \in Nat
      BY <1>1, JobsFinite DEF DeadSends
    <3>6. Cardinality(DeadSends') <= Cardinality(DeadSends) + 1
      BY <3>4, <3>5, OneMore
    <3> QED
      BY <1>2, <1>4, <1>5, <3>2, <3>3, <3>5, <3>6 DEF FailInv
  <2> QED
    BY <2>2, <2>3
<1> QED
  BY <1>6, <1>7

\* A job is sent: nobody holds it yet.
LEMMA FailSend ==
    ASSUME TypeOK, AccountInv, DeliveryTypeOK, TargetInv, FailInv, NEW j \in Jobs,
           Send(j, "match") \/ Send(j, "send"), UNCHANGED <<pc, faults>>,
           \A i \in Jobs \ {j} : about'[i] = about[i]
    PROVE  FailInv'
<1>1. /\ \A i \in Jobs \ {j} : queue'[i] = queue[i]
      /\ hold' = hold /\ heldCount' = heldCount
      /\ \A w \in Workers : hold[w] # j
  BY DeliveryAssumption, SendAdds DEF Send, pool
<1>2. \A w \in Workers : pc[w] # "idle" =>
          /\ hold[w] \in Jobs /\ queue'[hold[w]] = queue[hold[w]]
          /\ about'[hold[w]] = about[hold[w]]
  BY <1>1 DEF TargetInv
<1>3. \A i \in Jobs : state'[i] = IF i = j THEN "created" ELSE state[i]
  BY DEF Send, TypeOK
<1>4. Doomed' \subseteq Doomed
  BY <1>1, <1>2 DEF Doomed, IsFinal
<1>5. DeadSends' \subseteq DeadSends
  BY <1>1, <1>3 DEF DeadSends
<1>6. faults \in Nat
  BY DeliveryAssumption DEF DeliveryTypeOK
<1>7. \A w \in Workers : pc'[w] \in MatchPCs => queue'[hold'[w]] = "match"
  BY <1>1, <1>2 DEF FailInv, MatchPCs
<1> QED
  BY <1>4, <1>5, <1>6, <1>7, FailFrame

\* Steps that neither hold nor let go of a job and fail none.
LEMMA FailElse ==
    ASSUME TypeOK, DeliveryTypeOK, FailInv, UNCHANGED <<queue, about, hold, heldCount, pc>>,
           \A j \in Jobs : state'[j] = "failed" => state[j] = "failed",
           faults' \in Nat, faults' >= faults
    PROVE  FailInv'
<1>1. Doomed' = Doomed
  BY DEF Doomed, IsFinal
<1>2. DeadSends' \subseteq DeadSends
  BY DEF DeadSends
<1>3. faults \in Nat
  BY DeliveryAssumption DEF DeliveryTypeOK
<1> QED
  BY <1>1, <1>2, <1>3, FailFrame DEF FailInv

LEMMA FailInductive ==
    ASSUME TypeOK, AccountInv, DeliveryTypeOK, TargetInv, FailInv, [DeliveryNext]_dvars
    PROVE  FailInv'
<1>a. "match" \in Queues /\ "send" \in Queues /\ faults \in Nat
  BY DeliveryAssumption DEF DeliveryTypeOK
<1>1. ASSUME NEW j \in Jobs, SendMatch(j) PROVE FailInv'
  BY <1>a, <1>1, FailSend DEF SendMatch, local
<1>2. ASSUME NEW w \in Workers, HandlerNext(w) PROVE FailInv'
  <2>1. ASSUME NEW j \in Jobs, StartHandler(w, j) PROVE FailInv'
    <3>1. /\ \A v \in Workers \ {w} : hold'[v] = hold[v] /\ heldCount'[v] = heldCount[v] /\ pc'[v] = pc[v]
          /\ hold'[w] = j /\ pc'[w] = (IF queue[j] = "match" THEN "begin" ELSE "load")
          /\ queue' = queue /\ about' = about /\ faults' = faults
      BY <2>1 DEF StartHandler, Claim, TypeOK, DeliveryTypeOK
    <3>2. \A i \in Jobs : state'[i] = "failed" => state[i] = "failed"
      BY <2>1 DEF StartHandler, Claim, TypeOK
    <3>3. Doomed' \subseteq Doomed /\ DeadSends' \subseteq DeadSends
      BY <3>1, <3>2 DEF Doomed, DeadSends, IsFinal
    <3>4. \A v \in Workers : pc'[v] \in MatchPCs => queue'[hold'[v]] = "match"
      BY <3>1 DEF FailInv, MatchPCs
    <3> QED
      BY <1>a, <3>1, <3>3, <3>4, FailFrame
  <2>2. CASE BeginMatch(w)
    <3>1. pc[w] = "begin" /\ Step(w, pc[w], "match") /\ UNCHANGED <<about, faults>>
      BY <2>2 DEF BeginMatch, Step
    <3> QED
      BY <1>a, <3>1, FailStatement DEF MatchPCs, PCs
  <2>3. ASSUME NEW d \in Subs, CreateDeliveryIfNew(w, d) PROVE FailInv'
    <3>1. pc[w] \in MatchPCs /\ queue[hold[w]] = "match"
      BY <2>3 DEF CreateDeliveryIfNew, Step, MatchPCs, FailInv
    <3>2. PICK next \in PCs : Step(w, pc[w], next)
      BY <2>3 DEF CreateDeliveryIfNew, Step, PCs
    <3>3. about' = about /\ faults' \in Nat /\ faults' >= faults
      BY <1>a, <2>3 DEF CreateDeliveryIfNew
    <3> QED
      BY <3>1, <3>2, <3>3, FailStatement
  <2>4. ASSUME NEW j \in Jobs, EnqueueMade(w, j) PROVE FailInv'
    <3>1. \A i \in Jobs \ {j} : about'[i] = about[i]
      BY <2>4 DEF EnqueueMade, EnqueueSend, DeliveryTypeOK
    <3> QED
      BY <2>4, <3>1, FailSend DEF EnqueueMade, EnqueueSend
  <2>5. CASE MatchDone(w)
    <3>1. Step(w, pc[w], "ok") /\ UNCHANGED <<about, faults>>
      BY <2>5 DEF MatchDone, Step
    <3> QED
      BY <1>a, <3>1, FailStatement DEF MatchPCs, PCs
  <2>6. CASE SendStep(w)
    <3>1. CASE CountAttempt(w)
      <4>1. PICK next \in {"sent", "nourl", "push", "err"} :
                Step(w, pc[w], next) /\ (next = "err" => about[hold[w]] \in BadUrl)
        BY <2>6, <3>1 DEF CountAttempt, AfterCount, Target, Step
      <4>2. about' = about /\ faults' \in Nat /\ faults' >= faults
        BY <1>a, <3>1 DEF CountAttempt
      <4> QED
        BY <4>1, <4>2, FailStatement DEF MatchPCs, PCs
    <3>2. CASE ~ CountAttempt(w)
      BY <1>a, <2>6, <3>2, FailStatement
         DEF SendStep, LoadDelivery, PushReceived, PushBadAnswer, PushFails,
             MarkSent, MarkFailed, MarkNoUrl, Step, MatchPCs, PCs
    <3> QED
      BY <3>1, <3>2
  <2>7. CASE Fault(w)
    BY <2>7, FailFault
  <2>8. CASE ReturnOk(w) \/ ReturnErr(w) \/ LoseHandler(w)
    BY <2>8, FailReturn
  <2> QED
    BY <1>2, <2>1, <2>2, <2>3, <2>4, <2>5, <2>6, <2>7, <2>8 DEF HandlerNext, MatchStep
<1>3. ASSUME NEW d \in Subs, ApiNext(d) PROVE FailInv'
  <2>1. ASSUME NEW j \in Jobs, EnqueueOwed(d, j) PROVE FailInv'
    <3>1. \A i \in Jobs \ {j} : about'[i] = about[i]
      BY <2>1 DEF EnqueueOwed, EnqueueSend, DeliveryTypeOK
    <3> QED
      BY <1>a, <2>1, <3>1, FailSend DEF EnqueueOwed, EnqueueSend, local
  <2>2. CASE \/ ResetDeliveryForRetry(d) \/ SendTestDelivery(d)
             \/ OwedFails(d) \/ DeleteSubscription(d)
    BY <1>a, <2>2, FailElse
       DEF ResetDeliveryForRetry, SendTestDelivery, OwedFails, DeleteSubscription, local, vars, rows, pool
  <2> QED
    BY <1>3, <2>1, <2>2 DEF ApiNext
<1>4. CASE QueueStep
  <2>1. UNCHANGED <<queue, about, hold, heldCount, pc, faults>>
    BY <1>4 DEF QueueStep, PollEmpty, Reap, Tick, RetryJob, pool, rows, local
  <2>2. \A j \in Jobs : state'[j] = "failed" => state[j] = "failed"
    BY <1>4 DEF QueueStep, PollEmpty, Reap, Tick, RetryJob, rows, TypeOK
  <2> QED
    BY <1>a, <2>1, <2>2, FailElse
<1>5. CASE UNCHANGED dvars
  BY <1>a, <1>5, FailElse DEF dvars, vars, rows, pool, local
<1> QED
  BY <1>1, <1>2, <1>3, <1>4, <1>5 DEF DeliveryNext

\* The last failed attempt of a delivery is recorded by its handler (finishDelivery's
\* DEAD_LETTERED) and the job completes: the queue fails no more send jobs than
\* statements of handlers failed, whatever subscribers, workers and operators do,
\* those about a malformed url aside.
THEOREM DeliveryFailedByFault == DeliverySpec => []FailedByFault
<1>1. DeliveryInit => FailInv
  <2> SUFFICES ASSUME DeliveryInit PROVE FailInv
    OBVIOUS
  <2>1. DeadSends = {} /\ Doomed = {} /\ faults = 0
    BY DEF DeliveryInit, Init, DeadSends, Doomed
  <2>2. Cardinality(DeadSends) = 0 /\ Cardinality(Doomed) = 0
    BY <2>1, FS_EmptySet
  <2> QED
    BY <2>1, <2>2 DEF FailInv, DeliveryInit, MatchPCs
<1>2. TypeOK /\ AccountInv /\ DeliveryInv /\ FailInv /\ [DeliveryNext]_dvars => FailInv'
  BY FailInductive DEF DeliveryInv
<1>3. DeliveryTypeOK /\ FailInv => FailedByFault
  <2> SUFFICES ASSUME DeliveryTypeOK, FailInv PROVE FailedByFault
    OBVIOUS
  <2>1. Cardinality(DeadSends) \in Nat /\ Cardinality(Doomed) \in Nat /\ faults \in Nat
    BY JobsFinite, WorkerSubset, DeliveryAssumption DEF DeadSends, Doomed, DeliveryTypeOK
  <2> QED
    BY <2>1 DEF FailInv, FailedByFault, DeadSends
<1> QED
  BY <1>1, <1>2, <1>3, DeliveryInvariant, PTL DEF DeliverySpec, DeliveryInv

-----------------------------------------------------------------------------
(* What a step leaves of rows and of handlers *)

\* A row stays, and so do its queue and what it is about.
LEMMA RowsStay ==
    ASSUME TypeOK, AccountInv, DeliveryTypeOK, TargetInv, [DeliveryNext]_dvars,
           NEW i \in Jobs, Exists(i)
    PROVE  Exists(i)' /\ queue'[i] = queue[i] /\ about'[i] = about[i]
<1>a. "match" \in Queues /\ "send" \in Queues
  BY DeliveryAssumption
<1>1. ASSUME NEW j \in Jobs, Send(j, "match") \/ Send(j, "send"),
             about' = about \/ \E d \in Subs : about' = [about EXCEPT ![j] = d]
      PROVE  Exists(i)' /\ queue'[i] = queue[i] /\ about'[i] = about[i]
  <2>1. i # j
    BY <1>1 DEF Send, IsFresh, Exists
  <2> QED
    BY <1>1, <2>1 DEF Send, Exists, TypeOK, DeliveryTypeOK
<1>2. CASE UNCHANGED <<vars, about>>
  BY <1>2 DEF vars, rows, Exists
<1>3. ASSUME about' = about,
             \/ \E w \in Workers, j \in Jobs : Claim(w, j)
             \/ \E w \in Workers : Complete(w) \/ FailRetry(w) \/ FailFinal(w) \/ Lose(w) \/ PollEmpty(w)
             \/ \E j \in Jobs : RetryJob(j)
             \/ Reap \/ Tick
      PROVE  Exists(i)' /\ queue'[i] = queue[i] /\ about'[i] = about[i]
  BY <1>3 DEF Claim, Complete, FailRetry, FailFinal, Lose, PollEmpty, RetryJob, Reap, Tick,
              rows, Exists, TypeOK
<1>4. ASSUME NEW j \in Jobs, SendMatch(j)
      PROVE  Exists(i)' /\ queue'[i] = queue[i] /\ about'[i] = about[i]
  BY <1>1, <1>4 DEF SendMatch
<1>5. ASSUME NEW w \in Workers, HandlerNext(w)
      PROVE  Exists(i)' /\ queue'[i] = queue[i] /\ about'[i] = about[i]
  <2>1. CASE \E j \in Jobs : StartHandler(w, j)
    BY <1>3, <2>1 DEF StartHandler
  <2>2. ASSUME NEW j \in Jobs, EnqueueMade(w, j)
        PROVE  Exists(i)' /\ queue'[i] = queue[i] /\ about'[i] = about[i]
    <3>1. Head(made[w]) \in Subs
      BY <2>2 DEF EnqueueMade, DeliveryTypeOK
    <3> QED
      BY <1>1, <2>2, <3>1 DEF EnqueueMade, EnqueueSend
  <2>3. CASE BeginMatch(w) \/ MatchDone(w) \/ \E d \in Subs : CreateDeliveryIfNew(w, d)
    BY <1>2, <2>3 DEF BeginMatch, MatchDone, CreateDeliveryIfNew, Step
  <2>4. CASE SendStep(w) \/ Fault(w)
    BY <1>2, <2>4 DEF SendStep, LoadDelivery, CountAttempt, PushReceived, PushBadAnswer,
                      PushFails, MarkSent, MarkFailed, MarkNoUrl, Step, Fault
  <2>5. CASE ReturnOk(w) \/ ReturnErr(w) \/ LoseHandler(w)
    BY <1>3, <2>5 DEF ReturnOk, ReturnErr, LoseHandler, Forget
  <2> QED
    BY <1>5, <2>1, <2>2, <2>3, <2>4, <2>5 DEF HandlerNext, MatchStep
<1>6. ASSUME NEW d \in Subs, ApiNext(d)
      PROVE  Exists(i)' /\ queue'[i] = queue[i] /\ about'[i] = about[i]
  <2>1. CASE \E j \in Jobs : EnqueueOwed(d, j)
    BY <1>1, <2>1 DEF EnqueueOwed, EnqueueSend
  <2>2. CASE \/ ResetDeliveryForRetry(d) \/ SendTestDelivery(d)
             \/ OwedFails(d) \/ DeleteSubscription(d)
    BY <1>2, <2>2 DEF ResetDeliveryForRetry, SendTestDelivery, OwedFails, DeleteSubscription
  <2> QED
    BY <1>6, <2>1, <2>2 DEF ApiNext
<1>7. CASE QueueStep
  BY <1>3, <1>7 DEF QueueStep
<1>8. CASE UNCHANGED dvars
  BY <1>2, <1>8 DEF dvars
<1> QED
  BY <1>4, <1>5, <1>6, <1>7, <1>8 DEF DeliveryNext

\* A handler that goes on holds the job it held: only StartHandler puts a worker
\* to work, and only a return frees it.
LEMMA HandlerStays ==
    ASSUME TypeOK, AccountInv, DeliveryTypeOK, TargetInv, [DeliveryNext]_dvars,
           NEW w \in Workers
    PROVE  \/ hold'[w] = hold[w] /\ heldCount'[w] = heldCount[w] /\ (pc[w] = "idle" <=> pc'[w] = "idle")
           \/ hold'[w] = NoJob /\ pc'[w] = "idle"
           \/ /\ pc'[w] \in {"begin", "load"}
              /\ \E j \in Jobs : StartHandler(w, j) /\ hold'[w] = j /\ state'[j] = "active"
<1> DEFINE P(v) == \/ hold'[v] = hold[v] /\ heldCount'[v] = heldCount[v] /\ (pc[v] = "idle" <=> pc'[v] = "idle")
                   \/ hold'[v] = NoJob /\ pc'[v] = "idle"
                   \/ /\ pc'[v] \in {"begin", "load"}
                      /\ \E j \in Jobs : StartHandler(v, j) /\ hold'[v] = j /\ state'[j] = "active"
<1> SUFFICES P(w)
  OBVIOUS
<1>1. CASE UNCHANGED <<hold, heldCount, pc>>
  BY <1>1
<1>2. CASE QueueStep \/ UNCHANGED dvars \/ (\E d \in Subs : ApiNext(d)) \/ (\E j \in Jobs : SendMatch(j))
  <2>1. UNCHANGED <<hold, heldCount, pc>>
    BY <1>2 DEF QueueStep, PollEmpty, Reap, Tick, RetryJob, dvars, vars, pool, local, ApiNext,
                ResetDeliveryForRetry, SendTestDelivery, OwedFails, DeleteSubscription,
                EnqueueOwed, EnqueueSend, Send, SendMatch
  <2> QED
    BY <1>1, <2>1
<1>3. ASSUME NEW v \in Workers, HandlerNext(v) PROVE P(w)
  <2>1. ASSUME NEW j \in Jobs, StartHandler(v, j) PROVE P(w)
    <3>1. CASE v = w
      <4>1. hold'[w] = j /\ state'[j] = "active" /\ pc'[w] \in {"begin", "load"}
        BY <2>1, <3>1 DEF StartHandler, Claim, TypeOK, DeliveryTypeOK
      <4> QED
        BY <2>1, <3>1, <4>1
    <3>2. CASE v # w
      BY <2>1, <3>2 DEF StartHandler, Claim, TypeOK, DeliveryTypeOK
    <3> QED
      BY <3>1, <3>2
  <2>2. ASSUME NEW j \in Jobs, EnqueueMade(v, j) PROVE P(w)
    BY <2>2 DEF EnqueueMade, EnqueueSend, Send, pool
  <2>3. ASSUME NEW next, UNCHANGED vars, pc' = [pc EXCEPT ![v] = next], next # "idle", pc[v] # "idle"
        PROVE  P(w)
    BY <2>3 DEF vars, pool, DeliveryTypeOK
  <2>4. CASE BeginMatch(v) \/ MatchDone(v) \/ \E d \in Subs : CreateDeliveryIfNew(v, d)
    BY <2>3, <2>4 DEF BeginMatch, MatchDone, CreateDeliveryIfNew, Step
  <2>5. CASE SendStep(v)
    <3>1. CASE CountAttempt(v)
      <4>1. PICK next \in {"sent", "nourl", "push", "err"} : Step(v, "count", next)
        BY <3>1 DEF CountAttempt, AfterCount
      <4> QED
        BY <2>3, <4>1 DEF Step
    <3>2. CASE ~ CountAttempt(v)
      BY <2>3, <2>5, <3>2 DEF SendStep, LoadDelivery, PushReceived, PushBadAnswer, PushFails,
                              MarkSent, MarkFailed, MarkNoUrl, Step
    <3> QED
      BY <3>1, <3>2
  <2>6. CASE Fault(v)
    BY <2>3, <2>6 DEF Fault
  <2>7. CASE ReturnOk(v) \/ ReturnErr(v) \/ LoseHandler(v)
    <3>1. LetGo(v) /\ Forget(v)
      BY <2>7 DEF ReturnOk, ReturnErr, LoseHandler, Complete, FailRetry, FailFinal, Lose
    <3> QED
      BY <3>1 DEF LetGo, Forget, TypeOK, DeliveryTypeOK
  <2> QED
    BY <1>3, <2>1, <2>2, <2>4, <2>5, <2>6, <2>7 DEF HandlerNext, MatchStep
<1> QED
  BY <1>2, <1>3 DEF DeliveryNext

\* Who writes the status of a delivery.
LEMMA StatusMoves ==
    ASSUME TypeOK, AccountInv, DeliveryTypeOK, TargetInv, [DeliveryNext]_dvars,
           NEW d \in Subs, status'[d] # status[d]
    PROVE  \/ \E w \in Workers : CreateDeliveryIfNew(w, d)
           \/ \E w \in Workers : (MarkSent(w) \/ MarkFailed(w) \/ MarkNoUrl(w)) /\ Target(w) = d
           \/ ResetDeliveryForRetry(d) \/ SendTestDelivery(d)
           \/ status'[d] = "gone"
<1>0. status \in [Subs -> Statuses]
  BY DEF DeliveryTypeOK
<1>1. ASSUME NEW w \in Workers, HandlerNext(w)
      PROVE  \/ CreateDeliveryIfNew(w, d)
             \/ (MarkSent(w) \/ MarkFailed(w) \/ MarkNoUrl(w)) /\ Target(w) = d
  <2>1. ASSUME NEW e \in Subs, CreateDeliveryIfNew(w, e) PROVE CreateDeliveryIfNew(w, d)
    BY <1>0, <2>1 DEF CreateDeliveryIfNew
  <2>2. CASE MarkSent(w) \/ MarkFailed(w) \/ MarkNoUrl(w)
    BY <1>0, <2>2 DEF MarkSent, MarkFailed, MarkNoUrl, Record
  <2>3. CASE \/ LoadDelivery(w) \/ CountAttempt(w)
             \/ PushReceived(w) \/ PushBadAnswer(w) \/ PushFails(w)
    BY <2>3 DEF LoadDelivery, CountAttempt, PushReceived, PushBadAnswer, PushFails, table
  <2>4. CASE BeginMatch(w) \/ MatchDone(w) \/ \E j \in Jobs : StartHandler(w, j) \/ EnqueueMade(w, j)
    BY <2>4 DEF BeginMatch, MatchDone, StartHandler, EnqueueMade, table
  <2>5. CASE Fault(w) \/ ReturnOk(w) \/ ReturnErr(w) \/ LoseHandler(w)
    BY <2>5 DEF Fault, ReturnOk, ReturnErr, LoseHandler, Forget, table
  <2> QED
    BY <1>1, <2>1, <2>2, <2>3, <2>4, <2>5 DEF HandlerNext, MatchStep, SendStep
<1>2. ASSUME NEW e \in Subs, ApiNext(e)
      PROVE  ResetDeliveryForRetry(d) \/ SendTestDelivery(d) \/ status'[d] = "gone"
  <2>1. CASE ResetDeliveryForRetry(e)
    BY <1>0, <2>1 DEF ResetDeliveryForRetry
  <2>2. CASE SendTestDelivery(e)
    BY <1>0, <2>2 DEF SendTestDelivery
  <2>3. CASE DeleteSubscription(e)
    BY <1>0, <2>3 DEF DeleteSubscription
  <2>4. CASE OwedFails(e) \/ \E j \in Jobs : EnqueueOwed(e, j)
    BY <2>4 DEF OwedFails, EnqueueOwed, table
  <2> QED
    BY <1>2, <2>1, <2>2, <2>3, <2>4 DEF ApiNext
<1>3. ASSUME QueueStep \/ UNCHANGED dvars \/ \E j \in Jobs : SendMatch(j)
      PROVE  FALSE
  BY <1>3 DEF QueueStep, dvars, SendMatch, table
<1> QED
  BY <1>1, <1>2, <1>3 DEF DeliveryNext

\* The API calls so far only grow in number.
LEMMA CallsGrow ==
    ASSUME DeliveryTypeOK, [DeliveryNext]_dvars
    PROVE  calls \in Nat /\ calls' >= calls
<1>0. calls \in Nat
  BY DeliveryAssumption DEF DeliveryTypeOK
<1>1. CASE UNCHANGED calls
  BY <1>0, <1>1
<1>2. ASSUME NEW w \in Workers, HandlerNext(w) PROVE calls' = calls
  BY <1>2 DEF HandlerNext, StartHandler, MatchStep, BeginMatch, MatchDone, CreateDeliveryIfNew,
              EnqueueMade, SendStep, LoadDelivery, CountAttempt, PushReceived, PushBadAnswer,
              PushFails, MarkSent, MarkFailed, MarkNoUrl, Fault, ReturnOk, ReturnErr,
              LoseHandler, Forget, api
<1>3. ASSUME NEW d \in Subs, ApiNext(d) PROVE calls' >= calls
  BY <1>0, <1>3 DEF ApiNext, ResetDeliveryForRetry, SendTestDelivery, Call, EnqueueOwed,
                    OwedFails, DeleteSubscription, api
<1>4. CASE QueueStep \/ UNCHANGED dvars \/ \E j \in Jobs : SendMatch(j)
  <2>1. calls' = calls
    BY <1>4 DEF QueueStep, dvars, SendMatch, api
  <2> QED
    BY <1>1, <2>1
<1> QED
  BY <1>0, <1>2, <1>3, <1>4 DEF DeliveryNext

-----------------------------------------------------------------------------
(* Once SENT, a delivery stays so *)

\* What holds of the rows and their handlers under Timely.
HandlerInv == TypeOK /\ AccountInv /\ LeaseInv /\ DeliveryTypeOK /\ TargetInv /\ CountInv

LEMMA HandlerInvariant == ASSUME Timely PROVE DeliverySpec => []HandlerInv
<1>1. DeliverySpec => []LeaseInv
  BY DeliveryRunsOnQueue, LeaseInvariant, PTL
<1> QED
  BY <1>1, DeliveryInvariant, CountInvariant, PTL DEF HandlerInv, DeliveryInv

\* Until the first API call one handler at most works on a delivery: it has one
\* send job, and that has one lease.
LEMMA SenderAlone ==
    ASSUME HandlerInv, calls = 0, NEW v \in Workers, NEW w \in Workers,
           pc[v] \in SendPCs, pc[w] \in SendPCs, Target(v) = Target(w)
    PROVE  v = w
<1> DEFINE S == SendJobs(Target(w))
<1>1. /\ hold[v] \in Jobs /\ hold[w] \in Jobs /\ Target(w) \in Subs
      /\ queue[hold[v]] = "send" /\ queue[hold[w]] = "send"
  BY TargetIsSub DEF HandlerInv, TargetInv
<1>2. Exists(hold[v]) /\ Exists(hold[w])
  BY <1>1, HeldExists DEF HandlerInv
<1>3. hold[v] \in S /\ hold[w] \in S
  BY <1>1, <1>2 DEF SendJobs, Target
<1>4. IsFiniteSet(S) /\ Cardinality(S) \in Nat
  BY JobsFinite DEF SendJobs
<1>5. Cardinality(S) <= 1
  <2>1. owed[Target(w)] \in Nat
    BY <1>1 DEF HandlerInv, DeliveryTypeOK
  <2> QED
    BY <1>1, <1>4, <2>1 DEF HandlerInv, CountInv
<1> HIDE DEF S
<1>6. IsFiniteSet(S \ {hold[w]}) /\ Cardinality(S \ {hold[w]}) = Cardinality(S) - 1
  BY <1>3, <1>4, FS_RemoveElement
<1>7. Cardinality(S \ {hold[w]}) = 0
  BY <1>4, <1>5, <1>6, FS_CardinalityType
<1>8. hold[v] = hold[w]
  BY <1>3, <1>6, <1>7, FS_EmptySet
<1> QED
  BY <1>1, <1>8 DEF HandlerInv, LeaseInv, ClaimsDistinct, Jobs, NoJob

\* A handler past its load is about to record an outcome.
RecordPCs == SendPCs \ {"load"}

\* It got there by its load or was there before.
LEMMA RecordFrom ==
    ASSUME DeliveryTypeOK, [DeliveryNext]_dvars, NEW w \in Workers,
           pc'[w] \in RecordPCs, pc[w] \notin RecordPCs
    PROVE  LoadDelivery(w)
<1> USE DEF RecordPCs, SendPCs
<1>0. pc \in [Workers -> PCs]
  BY DEF DeliveryTypeOK
<1>1. ASSUME NEW v \in Workers, HandlerNext(v) PROVE LoadDelivery(w)
  <2>1. CASE LoadDelivery(v)
    BY <1>0, <2>1 DEF LoadDelivery, Step
  <2>2. CASE CountAttempt(v)
    BY <1>0, <2>2 DEF CountAttempt, Step
  <2>3. CASE \/ PushReceived(v) \/ PushBadAnswer(v) \/ PushFails(v)
             \/ MarkSent(v) \/ MarkFailed(v) \/ MarkNoUrl(v)
    BY <1>0, <2>3 DEF PushReceived, PushBadAnswer, PushFails, MarkSent, MarkFailed, MarkNoUrl, Step
  <2>4. CASE MatchStep(v)
    BY <1>0, <2>4 DEF MatchStep, BeginMatch, MatchDone, CreateDeliveryIfNew, EnqueueMade, Step
  <2>5. CASE \/ \E j \in Jobs : StartHandler(v, j)
             \/ Fault(v) \/ ReturnOk(v) \/ ReturnErr(v) \/ LoseHandler(v)
    BY <1>0, <2>5 DEF StartHandler, Fault, ReturnOk, ReturnErr, LoseHandler, Forget
  <2> QED
    BY <1>1, <2>1, <2>2, <2>3, <2>4, <2>5 DEF HandlerNext, SendStep
<1>2. ASSUME QueueStep \/ UNCHANGED dvars \/ (\E d \in Subs : ApiNext(d)) \/ \E j \in Jobs : SendMatch(j)
      PROVE  FALSE
  BY <1>2 DEF QueueStep, dvars, local, ApiNext, ResetDeliveryForRetry, SendTestDelivery,
              EnqueueOwed, OwedFails, DeleteSubscription, SendMatch
<1> QED
  BY <1>1, <1>2 DEF DeliveryNext

\* SentIsFinal rests on this: no handler is past the load of a delivery that is
\* SENT, as it would not have gone on and nobody else records it meanwhile.
FinalInv == calls = 0 => \A w \in Workers : pc[w] \in RecordPCs => status[Target(w)] # "SENT"

LEMMA FinalInductive ==
    ASSUME HandlerInv, FinalInv, [DeliveryNext]_dvars
    PROVE  FinalInv'
<1> SUFFICES ASSUME calls' = 0, NEW w \in Workers, pc'[w] \in RecordPCs
             PROVE  status'[Target(w)'] # "SENT"
  BY DEF FinalInv
<1> USE DEF HandlerInv
<1>1. calls = 0
  BY CallsGrow
<1>2. CASE pc[w] \notin RecordPCs
  <2>1. LoadDelivery(w)
    BY <1>2, RecordFrom
  <2>2. UNCHANGED <<hold, about, status>> /\ pc' = [pc EXCEPT ![w] = IF Row(Target(w)) /\ status[Target(w)] # "SENT"
                       THEN "count" ELSE "ok"]
    BY <2>1 DEF LoadDelivery, Step, vars, pool, table
  <2>3. status[Target(w)] # "SENT"
    BY <2>2 DEF DeliveryTypeOK, RecordPCs, SendPCs
  <2> QED
    BY <2>2, <2>3 DEF Target
<1>3. CASE pc[w] \in RecordPCs
  <2>1. hold[w] \in Jobs /\ Target(w) \in Subs
    BY <1>3, TargetIsSub DEF RecordPCs
  <2>2. hold'[w] = hold[w] /\ about'[hold[w]] = about[hold[w]]
    BY <2>1, HandlerStays, HeldExists, RowsStay DEF RecordPCs, SendPCs
  <2>3. Target(w)' = Target(w)
    BY <2>2 DEF Target
  <2>4. status[Target(w)] # "SENT"
    BY <1>1, <1>3 DEF FinalInv
  <2> SUFFICES ASSUME status'[Target(w)] = "SENT" PROVE FALSE
    BY <2>3
  <2>5. PICK d \in Subs : d = Target(w)
    BY <2>1
  <2>6. ~ ResetDeliveryForRetry(d) /\ ~ SendTestDelivery(d)
    BY <1>1 DEF ResetDeliveryForRetry, SendTestDelivery, Call
  <2>7. ~ \E v \in Workers : CreateDeliveryIfNew(v, d)
    BY <2>4, <2>5 DEF CreateDeliveryIfNew, DeliveryTypeOK
  <2>8. PICK v \in Workers : (MarkSent(v) \/ MarkFailed(v) \/ MarkNoUrl(v)) /\ Target(v) = d
    BY <2>4, <2>5, <2>6, <2>7, StatusMoves
  <2>9. pc[v] \in SendPCs /\ pc'[v] \notin RecordPCs
    BY <2>8 DEF MarkSent, MarkFailed, MarkNoUrl, Step, DeliveryTypeOK, SendPCs, RecordPCs
  <2>10. v = w
    BY <1>1, <1>3, <2>5, <2>8, <2>9, SenderAlone DEF RecordPCs
  <2> QED
    BY <2>9, <2>10
<1> QED
  BY <1>2, <1>3

\* Once SENT, a delivery stays so until it is deleted, as long as nobody calls the
\* API: no handler that loaded it before takes it back (finishDelivery's UPDATE does
\* not look at the status it overwrites).
THEOREM DeliverySentIsFinal ==
    ASSUME Timely
    PROVE  DeliverySpec => SentIsFinal
<1>1. DeliveryInit => FinalInv
  BY DEF DeliveryInit, FinalInv, RecordPCs, SendPCs
<1>2. HandlerInv /\ FinalInv /\ [DeliveryNext]_dvars => FinalInv'
  BY FinalInductive
<1>3. ASSUME HandlerInv, FinalInv, [DeliveryNext]_dvars,
             NEW d \in Subs, status[d] = "SENT", calls' = 0
      PROVE  status'[d] \in {"SENT", "gone"}
  <2> USE DEF HandlerInv
  <2>1. calls = 0
    BY <1>3, CallsGrow
  <2>2. ~ ResetDeliveryForRetry(d) /\ ~ SendTestDelivery(d)
    BY <1>3, <2>1 DEF ResetDeliveryForRetry, SendTestDelivery, Call
  <2>3. (\E v \in Workers : CreateDeliveryIfNew(v, d)) => status'[d] = "SENT"
    BY <1>3 DEF CreateDeliveryIfNew, DeliveryTypeOK
  <2>4. ASSUME NEW v \in Workers, MarkSent(v) \/ MarkFailed(v) \/ MarkNoUrl(v), Target(v) = d
        PROVE  FALSE
    BY <1>3, <2>1, <2>4 DEF FinalInv, MarkSent, MarkFailed, MarkNoUrl, Step, RecordPCs, SendPCs
  <2> QED
    BY <1>3, <2>2, <2>3, <2>4, StatusMoves
<1>4. HandlerInv /\ FinalInv /\ [DeliveryNext]_dvars =>
        [\A d \in Subs : status[d] = "SENT" /\ calls' = 0 => status'[d] \in {"SENT", "gone"}]_dvars
  BY <1>3
<1> QED
  BY <1>1, <1>2, <1>4, HandlerInvariant, PTL DEF DeliverySpec, SentIsFinal

-----------------------------------------------------------------------------
(* Received twice only for a reason *)

\* The send jobs of a delivery that have delivered it: completed, or their handler
\* is past the push.  (Loosely: those that found nothing to send are among them.)
Spent(d) == {j \in SendJobs(d) : \/ state[j] = "completed"
                                 \/ \E w \in Workers : hold[w] = j /\ pc[w] \in {"sent", "ok"}}

\* OnceUnlessMishap is not inductive: every receipt is charged to a spent job, to a
\* fault or to a lost worker.
ReceiptInv == \A d \in Subs : receipts[d] <= Cardinality(Spent(d)) + faults + losses

\* Faults and losses only grow, and receipts are pushes.
LEMMA ReceiptMoves ==
    ASSUME TypeOK, AccountInv, DeliveryTypeOK, TargetInv, [DeliveryNext]_dvars
    PROVE  /\ faults \in Nat /\ faults' \in Nat /\ faults' >= faults
           /\ losses \in Nat /\ losses' \in Nat /\ losses' >= losses
           /\ \/ receipts' = receipts
              \/ \E w \in Workers : PushReceived(w) \/ PushBadAnswer(w)
           /\ (\E w \in Workers : Fault(w) \/ PushBadAnswer(w)) => faults' = faults + 1
           /\ (\E w \in Workers : LoseHandler(w)) => losses' = losses + 1
<1>0. /\ faults \in Nat /\ losses \in Nat
      /\ (\E w \in Workers : Fault(w) \/ PushBadAnswer(w)) => faults' = faults + 1
      /\ (\E w \in Workers : LoseHandler(w)) => losses' = losses + 1
  BY DeliveryAssumption, QueueAssumption
     DEF DeliveryTypeOK, TypeOK, Fault, PushBadAnswer, LoseHandler, Lose
<1> DEFINE P == /\ faults' \in Nat /\ faults' >= faults
                /\ losses' \in Nat /\ losses' >= losses
                /\ \/ receipts' = receipts
                   \/ \E w \in Workers : PushReceived(w) \/ PushBadAnswer(w)
<1>1. CASE UNCHANGED <<faults, losses, receipts>>
  BY <1>0, <1>1
<1>2. ASSUME NEW w \in Workers, HandlerNext(w) PROVE P
  <2>1. CASE \/ MatchStep(w) \/ LoadDelivery(w) \/ CountAttempt(w) \/ PushFails(w)
             \/ MarkSent(w) \/ MarkFailed(w) \/ MarkNoUrl(w)
    <3>1. CASE \E d \in Subs : CreateDeliveryIfNew(w, d)
      BY <1>1, <3>1 DEF CreateDeliveryIfNew, Step, vars, world
    <3>2. CASE \E j \in Jobs : EnqueueMade(w, j)
      BY <1>1, <3>2 DEF EnqueueMade, EnqueueSend, Send, world
    <3>3. CASE CountAttempt(w)
      BY <1>1, <3>3 DEF CountAttempt, Step, vars, world
    <3> QED
      BY <1>1, <2>1, <3>1, <3>2, <3>3
         DEF MatchStep, BeginMatch, MatchDone, LoadDelivery, PushFails, MarkSent, MarkFailed, MarkNoUrl,
             Step, vars, world
  <2>2. CASE PushReceived(w) \/ PushBadAnswer(w)
    BY <1>0, <2>2 DEF PushReceived, PushBadAnswer, Step, vars
  <2>3. CASE Fault(w)
    BY <1>0, <2>3 DEF Fault, vars, world
  <2>4. CASE ReturnOk(w) \/ ReturnErr(w)
    BY <1>1, <2>4 DEF ReturnOk, ReturnErr, Complete, FailRetry, FailFinal, Forget, world
  <2>5. CASE LoseHandler(w)
    BY <1>0, <2>5 DEF LoseHandler, Lose, Forget, world
  <2>6. CASE \E j \in Jobs : StartHandler(w, j)
    BY <1>1, <2>6 DEF StartHandler, Claim, world
  <2> QED
    BY <1>2, <2>1, <2>2, <2>3, <2>4, <2>5, <2>6 DEF HandlerNext, SendStep
<1>3. ASSUME NEW d \in Subs, ApiNext(d) PROVE P
  BY <1>0, <1>3 DEF ApiNext, ResetDeliveryForRetry, SendTestDelivery, EnqueueOwed, EnqueueSend, Send,
                    OwedFails, DeleteSubscription, vars, world
<1>4. CASE QueueStep \/ UNCHANGED dvars \/ \E j \in Jobs : SendMatch(j)
  <2>1. UNCHANGED <<faults, losses, receipts>>
    BY <1>4 DEF QueueStep, PollEmpty, Reap, Tick, RetryJob, dvars, vars, SendMatch, Send, world
  <2> QED
    BY <1>1, <2>1
<1> QED
  BY <1>0, <1>2, <1>3, <1>4 DEF DeliveryNext

\* A spent job stays spent, but for the one whose handler fails or is lost.
LEMMA SpentStays ==
    ASSUME Timely, HandlerInv, [DeliveryNext]_dvars, NEW d \in Subs, NEW j \in Spent(d),
           \A w \in Workers : Fault(w) \/ LoseHandler(w) => hold[w] # j
    PROVE  j \in Spent(d)'
<1> USE DEF HandlerInv
<1>1. j \in Jobs /\ j \in SendJobs(d)' /\ queue[j] = "send"
  BY RowsStay DEF Spent, SendJobs
<1>2. CASE state[j] = "completed"
  <2>1. \A w \in Workers : hold[w] # j
    BY <1>1, <1>2 DEF LeaseInv, LeaseHeld, Jobs, NoJob
  <2>2. state'[j] = "completed"
    <3>1. CASE UNCHANGED state
      BY <1>2, <3>1
    <3>2. ASSUME NEW i \in Jobs, Send(i, "match") \/ Send(i, "send") PROVE state'[j] = state[j]
      BY <1>1, <1>2, <3>2 DEF Send, IsFresh, TypeOK
    <3>3. ASSUME NEW w \in Workers, HandlerNext(w) PROVE state'[j] = state[j]
      <4>1. CASE \E i \in Jobs : StartHandler(w, i)
        BY <1>2, <4>1 DEF StartHandler, Claim, Ready, TypeOK
      <4>2. CASE \E i \in Jobs : EnqueueMade(w, i)
        BY <3>2, <4>2 DEF EnqueueMade, EnqueueSend
      <4>3. CASE CountAttempt(w)
        BY <4>3 DEF CountAttempt, Step, vars, rows
      <4>4. CASE \E e \in Subs : CreateDeliveryIfNew(w, e)
        BY <4>4 DEF CreateDeliveryIfNew, Step, vars, rows
      <4>5. CASE ReturnOk(w) \/ ReturnErr(w) \/ LoseHandler(w)
        BY <1>1, <2>1, <4>5 DEF ReturnOk, ReturnErr, LoseHandler, Complete, FailRetry, FailFinal, Lose, rows, TypeOK
      <4> QED
        BY <3>3, <4>1, <4>2, <4>3, <4>4, <4>5
           DEF HandlerNext, MatchStep, BeginMatch, MatchDone, SendStep, LoadDelivery, PushReceived,
               PushBadAnswer, PushFails, MarkSent, MarkFailed, MarkNoUrl, Fault, Step, vars, rows
    <3>4. ASSUME NEW e \in Subs, ApiNext(e) PROVE state'[j] = state[j]
      BY <3>2, <3>4 DEF ApiNext, ResetDeliveryForRetry, SendTestDelivery, EnqueueOwed, EnqueueSend,
                        OwedFails, DeleteSubscription, vars, rows
    <3>5. CASE QueueStep
      BY <1>1, <1>2, <3>5 DEF QueueStep, PollEmpty, Reap, Stuck, Tick, RetryJob, Timely, rows, TypeOK
    <3> QED
      BY <1>2, <3>2, <3>3, <3>4, <3>5 DEF DeliveryNext, SendMatch, dvars, vars, rows
  <2> QED
    BY <1>1, <2>2 DEF Spent
<1>3. ASSUME NEW w \in Workers, hold[w] = j, pc[w] \in {"sent", "ok"}
      PROVE  j \in Spent(d)'
  <2>0. pc \in [Workers -> PCs]
    BY DEF DeliveryTypeOK
  <2>1. CASE ReturnOk(w)
    <3>1. state'[j] = "completed"
      BY <1>1, <1>3, <2>1 DEF ReturnOk, Complete, TypeOK
    <3> QED
      BY <1>1, <3>1 DEF Spent
  <2>2. CASE ~ ReturnOk(w)
    <3>1. pc'[w] \in {"sent", "ok"}
      <4>1. ASSUME NEW v \in Workers, HandlerNext(v), v = w PROVE pc'[w] \in {"sent", "ok"}
        <5>1. CASE \E i \in Jobs : StartHandler(w, i)
          BY <1>1, <1>3, <5>1 DEF StartHandler, Claim, Jobs, NoJob
        <5>2. CASE MatchStep(w)
          BY <1>3, <5>2 DEF MatchStep, BeginMatch, MatchDone, CreateDeliveryIfNew, EnqueueMade, Step
        <5>3. CASE SendStep(w)
          BY <1>3, <2>0, <5>3
             DEF SendStep, LoadDelivery, CountAttempt, PushReceived, PushBadAnswer, PushFails,
                 MarkSent, MarkFailed, MarkNoUrl, Step
        <5> QED
          BY <1>3, <2>2, <4>1, <5>1, <5>2, <5>3 DEF HandlerNext, ReturnErr
      <4>2. ASSUME NEW v \in Workers, HandlerNext(v), v # w PROVE pc'[w] = pc[w]
        BY <2>0, <4>2
           DEF HandlerNext, StartHandler, MatchStep, BeginMatch, MatchDone, CreateDeliveryIfNew,
               EnqueueMade, SendStep, LoadDelivery, CountAttempt, PushReceived, PushBadAnswer, PushFails,
               MarkSent, MarkFailed, MarkNoUrl, Step, Fault, ReturnOk, ReturnErr, LoseHandler, Forget
      <4>3. ASSUME QueueStep \/ UNCHANGED dvars \/ (\E e \in Subs : ApiNext(e)) \/ \E i \in Jobs : SendMatch(i)
            PROVE  pc' = pc
        BY <4>3 DEF QueueStep, dvars, local, ApiNext, ResetDeliveryForRetry, SendTestDelivery,
                    EnqueueOwed, OwedFails, DeleteSubscription, SendMatch
      <4> QED
        BY <1>3, <4>1, <4>2, <4>3 DEF DeliveryNext
    <3>2. hold'[w] = j
      BY <1>3, <3>1, HandlerStays
    <3> QED
      BY <1>1, <3>1, <3>2 DEF Spent
  <2> QED
    BY <2>1, <2>2
<1> QED
  BY <1>2, <1>3 DEF Spent

\* Counting the spent jobs: at most one is lost, and only to a fault or a loss.
LEMMA SpentShrinks ==
    ASSUME Timely, HandlerInv, [DeliveryNext]_dvars, NEW d \in Subs
    PROVE  /\ Cardinality(Spent(d)) \in Nat /\ Cardinality(Spent(d)') \in Nat
           /\ Cardinality(Spent(d)) <= Cardinality(Spent(d)') + (faults' - faults) + (losses' - losses)
           /\ ~ (\E w \in Workers : Fault(w) \/ LoseHandler(w)) => Spent(d) \subseteq Spent(d)'
<1>1. /\ IsFiniteSet(Spent(d)) /\ Cardinality(Spent(d)) \in Nat
      /\ IsFiniteSet(Spent(d)') /\ Cardinality(Spent(d)') \in Nat
      /\ Spent(d) \in SUBSET Jobs /\ Spent(d)' \in SUBSET Jobs
  BY JobsFinite DEF Spent, SendJobs
<1>2. /\ faults \in Nat /\ faults' \in Nat /\ faults' >= faults
      /\ losses \in Nat /\ losses' \in Nat /\ losses' >= losses
      /\ (\E w \in Workers : Fault(w) \/ PushBadAnswer(w)) => faults' = faults + 1
      /\ (\E w \in Workers : LoseHandler(w)) => losses' = losses + 1
  BY ReceiptMoves DEF HandlerInv
<1>3. CASE ~ (\E w \in Workers : Fault(w) \/ LoseHandler(w))
  <2>1. Spent(d) \subseteq Spent(d)'
    BY <1>3, SpentStays
  <2>2. Cardinality(Spent(d)) <= Cardinality(Spent(d)')
    BY <1>1, <2>1, FewerJobs
  <2> QED
    BY <1>1, <1>2, <1>3, <2>1, <2>2
<1>4. ASSUME NEW w \in Workers, Fault(w) \/ LoseHandler(w)
      PROVE  Cardinality(Spent(d)) <= Cardinality(Spent(d)') + 1
  <2>1. \A v \in Workers : Fault(v) \/ LoseHandler(v) => v = w
    <3>1. ASSUME NEW v \in Workers, Fault(v), Fault(w) PROVE v = w
      BY <3>1 DEF Fault, HandlerInv, DeliveryTypeOK
    <3>2. ASSUME NEW v \in Workers, LoseHandler(v), LoseHandler(w) PROVE v = w
      BY <3>2 DEF LoseHandler, Lose, LetGo, HandlerInv, TypeOK, NoJob
    <3>3. ASSUME NEW u \in Workers, NEW v \in Workers, Fault(u), LoseHandler(v) PROVE FALSE
      BY <1>2, <3>3 DEF Fault, vars
    <3> QED
      BY <1>4, <3>1, <3>2, <3>3
  <2>2. \A j \in Spent(d) : j # hold[w] => j \in Spent(d)'
    BY <2>1, SpentStays
  <2>3. Spent(d) \in SUBSET (Spent(d)' \cup {hold[w]})
    BY <2>2
  <2> HIDE <2>2
  <2> QED
    BY <1>1, <2>3, OneMore
<1>5. CASE \E w \in Workers : Fault(w) \/ LoseHandler(w)
  <2>1. PICK w \in Workers : Fault(w) \/ LoseHandler(w)
    BY <1>5
  <2>2. Cardinality(Spent(d)) <= Cardinality(Spent(d)') + 1
    BY <1>4, <2>1
  <2>3. faults' = faults + 1 \/ losses' = losses + 1
    BY <1>2, <2>1
  <2> QED
    BY <1>1, <1>2, <1>5, <2>2, <2>3
<1> QED
  BY <1>3, <1>5

LEMMA ReceiptInductive ==
    ASSUME Timely, HandlerInv, ReceiptInv, [DeliveryNext]_dvars
    PROVE  ReceiptInv'
<1> SUFFICES ASSUME NEW d \in Subs
             PROVE  receipts'[d] <= Cardinality(Spent(d)') + faults' + losses'
  BY DEF ReceiptInv
<1>0. receipts \in [Subs -> Nat] /\ pc \in [Workers -> PCs]
  BY DEF HandlerInv, DeliveryTypeOK
<1>1. /\ Cardinality(Spent(d)) \in Nat /\ Cardinality(Spent(d)') \in Nat
      /\ Cardinality(Spent(d)) <= Cardinality(Spent(d)') + (faults' - faults) + (losses' - losses)
      /\ ~ (\E w \in Workers : Fault(w) \/ LoseHandler(w)) => Spent(d) \subseteq Spent(d)'
  BY SpentShrinks
<1>2. /\ faults \in Nat /\ faults' \in Nat /\ faults' >= faults
      /\ losses \in Nat /\ losses' \in Nat /\ losses' >= losses
      /\ receipts' = receipts \/ \E w \in Workers : PushReceived(w) \/ PushBadAnswer(w)
      /\ (\E w \in Workers : Fault(w) \/ PushBadAnswer(w)) => faults' = faults + 1
      /\ (\E w \in Workers : LoseHandler(w)) => losses' = losses + 1
  BY ReceiptMoves DEF HandlerInv
<1>3. receipts[d] \in Nat /\ receipts[d] <= Cardinality(Spent(d)) + faults + losses
  BY <1>0 DEF ReceiptInv
<1>4. CASE receipts'[d] = receipts[d]
  BY <1>1, <1>2, <1>3, <1>4
<1>5. ASSUME NEW w \in Workers, PushReceived(w) \/ PushBadAnswer(w), receipts'[d] # receipts[d]
      PROVE  receipts'[d] <= Cardinality(Spent(d)') + faults' + losses'
  <2>1. /\ pc[w] = "push" /\ Target(w) = d /\ receipts'[d] = receipts[d] + 1 /\ UNCHANGED vars /\ about' = about
        /\ losses' = losses
    BY <1>0, <1>3, <1>5 DEF PushReceived, PushBadAnswer, Step, vars
  <2>2. ~ (\E v \in Workers : Fault(v) \/ LoseHandler(v))
    <3>1. \A v \in Workers : ~ LoseHandler(v)
      BY <1>2, <2>1
    <3>2. \A v \in Workers : ~ Fault(v)
      BY <1>5 DEF Fault, world
    <3> QED
      BY <3>1, <3>2
  <2>3. Spent(d) \subseteq Spent(d)'
    BY <1>1, <2>2
  <2>4. IsFiniteSet(Spent(d)') /\ Spent(d)' \in SUBSET Jobs
    BY JobsFinite DEF Spent, SendJobs
  <2>5. CASE PushBadAnswer(w)
    <3>1. Cardinality(Spent(d)) <= Cardinality(Spent(d)')
      BY <2>3, <2>4, FewerJobs
    <3> QED
      BY <1>1, <1>2, <1>3, <2>1, <2>5, <3>1
  <2>6. CASE PushReceived(w)
    <3>1. hold[w] \in Jobs /\ queue[hold[w]] = "send" /\ state[hold[w]] = "active" /\ Exists(hold[w])
      BY <2>1, HeldExists DEF HandlerInv, TargetInv, SendPCs, LeaseInv, LeaseHeld, Jobs, NoJob
    <3>2. hold[w] \notin Spent(d)
      BY <2>1, <3>1 DEF Spent, HandlerInv, LeaseInv, ClaimsDistinct, Jobs, NoJob
    <3>3. pc'[w] = "sent"
      BY <1>0, <2>6 DEF PushReceived, Step
    <3>4. hold[w] \in SendJobs(d)' /\ hold'[w] = hold[w]
      BY <2>1, <3>1 DEF SendJobs, Target, Exists, vars, rows, pool
    <3>5. hold[w] \in Spent(d)'
      BY <3>3, <3>4 DEF Spent
    <3>6. PICK h : h = hold[w]
      OBVIOUS
    <3>7. Spent(d) \in SUBSET (Spent(d)' \ {h}) /\ h \in Spent(d)'
      BY <2>3, <3>2, <3>5, <3>6
    <3>8. Cardinality(Spent(d)) <= Cardinality(Spent(d)') - 1
      BY <2>4, <3>7, OneLess
    <3> QED
      BY <1>1, <1>2, <1>3, <2>1, <3>8
  <2> QED
    BY <1>5, <2>5, <2>6
<1> QED
  BY <1>2, <1>4, <1>5

\* A subscriber receives an event once; every further receipt has a reason: an API
\* call, a failed statement or a bad answer, a worker lost after the push.
THEOREM DeliveryOnceUnlessMishap ==
    ASSUME Timely
    PROVE  DeliverySpec => []OnceUnlessMishap
<1>1. DeliveryInit => ReceiptInv
  <2> SUFFICES ASSUME DeliveryInit, NEW d \in Subs
               PROVE  receipts[d] <= Cardinality(Spent(d)) + faults + losses
    BY DEF ReceiptInv
  <2>1. Cardinality(Spent(d)) \in Nat
    BY JobsFinite DEF Spent, SendJobs
  <2> QED
    BY <2>1 DEF DeliveryInit, Init
<1>2. HandlerInv /\ ReceiptInv /\ [DeliveryNext]_dvars => ReceiptInv'
  BY ReceiptInductive
<1>3. HandlerInv /\ ReceiptInv => OnceUnlessMishap
  <2> SUFFICES ASSUME HandlerInv, ReceiptInv, NEW d \in Subs
               PROVE  receipts[d] <= 1 + calls + faults + losses
    BY DEF OnceUnlessMishap
  <2>1. /\ Cardinality(Spent(d)) \in Nat /\ Cardinality(SendJobs(d)) \in Nat
        /\ Cardinality(Spent(d)) <= Cardinality(SendJobs(d))
    BY JobsFinite, FewerJobs DEF Spent, SendJobs
  <2>2. /\ receipts[d] \in Nat /\ owed[d] \in Nat /\ calls \in Nat
        /\ faults \in Nat /\ losses \in Nat
    BY DeliveryAssumption, QueueAssumption DEF HandlerInv, DeliveryTypeOK, TypeOK
  <2>3. Cardinality(SendJobs(d)) <= 1 + calls
    BY <2>1, <2>2 DEF HandlerInv, CountInv
  <2> QED
    BY <2>1, <2>2, <2>3 DEF ReceiptInv
<1> QED
  BY <1>1, <1>2, <1>3, HandlerInvariant, PTL DEF DeliverySpec

-----------------------------------------------------------------------------
(* A row still to be sent has a job that will send it *)

\* A send job is at work when it is due to run, or its handler will yet record an
\* outcome or hand the job back to the queue.
\* The error of the worker's handler is not the end of the delivery.
MayErr(w) == ~ IsFinal(w) \/ about[hold[w]] \in BadUrl

AtWork(j) == \/ state[j] = "created"
             \/ state[j] = "failed" /\ about[j] \in BadUrl
             \/ \E w \in Workers : /\ hold[w] = j
                                   /\ pc[w] \in SendPCs \/ (pc[w] = "err" /\ MayErr(w))

InMade(d) == \E w \in Workers : pc[w] = "match" /\ \E i \in DOMAIN made[w] : made[w][i] = d
NoMishap == faults = 0 /\ losses = 0 /\ \A d \in Subs : status[d] # "gone"
ToSend == {"PENDING", "RETRYING"}

\* PendingQueued is not inductive: an unfinished job may be one whose handler has
\* given up the delivery, which is then no longer to be sent.
PendInv ==
    NoMishap => \A d \in Subs : status[d] \in ToSend =>
        (\E j \in SendJobs(d) : AtWork(j)) \/ InMade(d) \/ owed[d] > 0

LEMMA AtWorkFrame ==
    ASSUME NEW j \in Jobs, AtWork(j), queue'[j] = queue[j], about'[j] = about[j],
           state[j] \in {"created", "failed"} => state'[j] \in {state[j], "created"},
           \A w \in Workers : hold[w] = j =>
               hold'[w] = j /\ heldCount'[w] = heldCount[w] /\ pc'[w] = pc[w]
    PROVE  AtWork(j)'
<1>1. ASSUME NEW w \in Workers, hold[w] = j, pc[w] \in SendPCs \/ (pc[w] = "err" /\ MayErr(w))
      PROVE  AtWork(j)'
  BY <1>1 DEF AtWork, MayErr, IsFinal
<1> QED
  BY <1>1 DEF AtWork

\* A sent job is at work at once.
LEMMA AtWorkSent ==
    ASSUME TypeOK, DeliveryTypeOK, NEW d \in Subs, NEW j \in Jobs, EnqueueSend(j, d)
    PROVE  j \in SendJobs(d)' /\ AtWork(j)'
  BY DEF EnqueueSend, Send, SendJobs, Exists, AtWork, TypeOK, DeliveryTypeOK

LEMMA AtWorkStays ==
    ASSUME Timely, HandlerInv, [DeliveryNext]_dvars, faults' = faults, losses' = losses,
           NEW d \in Subs, status'[d] \in ToSend, NEW j \in SendJobs(d), AtWork(j)
    PROVE  AtWork(j)'
<1> USE DEF HandlerInv
<1>0. /\ j \in Jobs /\ Exists(j) /\ queue[j] = "send" /\ about[j] = d
      /\ queue'[j] = queue[j] /\ about'[j] = about[j]
      /\ pc \in [Workers -> PCs] /\ status \in [Subs -> Statuses]
      /\ faults \in Nat /\ losses \in Nat
  <2>1. j \in Jobs /\ Exists(j) /\ queue[j] = "send" /\ about[j] = d
    BY DEF SendJobs
  <2>2. queue'[j] = queue[j] /\ about'[j] = about[j]
    BY <2>1, RowsStay
  <2>3. pc \in [Workers -> PCs] /\ status \in [Subs -> Statuses]
    BY DEF DeliveryTypeOK
  <2>4. faults \in Nat
    BY DeliveryAssumption DEF DeliveryTypeOK
  <2>5. losses \in Nat
    BY QueueAssumption DEF TypeOK
  <2> QED
    BY <2>1, <2>2, <2>3, <2>4, <2>5
<1>1. \A v \in Workers : hold[v] = j =>
          /\ state[j] = "active"
          /\ pc[v] \in SendPCs \/ (pc[v] = "err" /\ MayErr(v))
          /\ \A w \in Workers : hold[w] = j => w = v
  BY <1>0 DEF AtWork, LeaseInv, LeaseHeld, ClaimsDistinct, Jobs, NoJob
<1>2. ASSUME NEW i \in Jobs, Send(i, "match") \/ Send(i, "send"), pc' = pc
      PROVE  AtWork(j)'
  <2>1. i # j
    BY <1>0, <1>2 DEF Send, IsFresh, Exists
  <2> QED
    BY <1>0, <1>2, <2>1, AtWorkFrame DEF Send, pool, TypeOK
<1>3. ASSUME UNCHANGED <<state, hold, heldCount, pc>>
      PROVE  AtWork(j)'
  BY <1>0, <1>3, AtWorkFrame
<1>4. ASSUME NEW v \in Workers, HandlerNext(v) PROVE AtWork(j)'
  <2>1. ASSUME NEW i \in Jobs, StartHandler(v, i) PROVE AtWork(j)'
    <3>1. CASE i = j
      <4>1. hold'[v] = j /\ pc'[v] = "load"
        BY <1>0, <2>1, <3>1 DEF StartHandler, Claim, TypeOK
      <4> QED
        BY <4>1 DEF AtWork, SendPCs
    <3>2. CASE i # j
      BY <1>0, <2>1, <3>2, AtWorkFrame DEF StartHandler, Claim, TypeOK, Jobs, NoJob
    <3> QED
      BY <3>1, <3>2
  <2>2. ASSUME NEW i \in Jobs, EnqueueMade(v, i) PROVE AtWork(j)'
    BY <1>2, <2>2 DEF EnqueueMade, EnqueueSend
  <2>3. ASSUME NEW next, pc' = [pc EXCEPT ![v] = next], UNCHANGED vars, hold[v] # j
        PROVE  AtWork(j)'
    BY <1>0, <2>3, AtWorkFrame DEF vars, rows, pool
  <2>4. ASSUME NEW next, pc' = [pc EXCEPT ![v] = next], UNCHANGED vars, hold[v] = j,
               next \in SendPCs \/ (next = "err" /\ MayErr(v))
        PROVE  AtWork(j)'
    <3>1. pc'[v] = next /\ hold'[v] = j /\ (MayErr(v)' <=> MayErr(v))
      BY <1>0, <2>4 DEF vars, rows, pool, IsFinal, MayErr
    <3> QED
      BY <2>4, <3>1 DEF AtWork
  <2>5. CASE BeginMatch(v) \/ MatchDone(v) \/ \E e \in Subs : CreateDeliveryIfNew(v, e)
    <3>1. hold[v] # j
      BY <1>1, <2>5 DEF BeginMatch, MatchDone, CreateDeliveryIfNew, Step, SendPCs
    <3> QED
      BY <2>3, <2>5, <3>1 DEF BeginMatch, MatchDone, CreateDeliveryIfNew, Step
  <2>6. CASE SendStep(v)
    <3>1. CASE hold[v] # j
      <4>1. CASE CountAttempt(v)
        <5>1. PICK next \in {"sent", "nourl", "push", "err"} : Step(v, "count", next)
          BY <4>1 DEF CountAttempt, AfterCount
        <5> QED
          BY <2>3, <3>1, <5>1 DEF Step
      <4>2. CASE ~ CountAttempt(v)
        BY <2>3, <2>6, <3>1, <4>2
           DEF SendStep, LoadDelivery, PushReceived, PushBadAnswer, PushFails, MarkSent, MarkFailed,
               MarkNoUrl, Step
      <4> QED
        BY <4>1, <4>2
    <3>2. CASE hold[v] = j
      <4>1. Target(v) = d
        BY <1>0, <3>2 DEF Target
      <4>2. CASE LoadDelivery(v)
        <5>1. Row(d) /\ status[d] # "SENT"
          BY <4>2 DEF LoadDelivery, table, ToSend, Row
        <5>2. Step(v, "load", "count")
          BY <4>1, <4>2, <5>1 DEF LoadDelivery
        <5> QED
          BY <2>4, <3>2, <5>2 DEF Step, SendPCs
      <4>3. CASE CountAttempt(v)
        <5>1. PICK next \in {"sent", "nourl", "push", "err"} :
                  Step(v, "count", next) /\ (next = "err" => MayErr(v))
          BY <4>3 DEF CountAttempt, AfterCount, MayErr, Target
        <5> QED
          BY <2>4, <3>2, <5>1 DEF Step, SendPCs
      <4>4. CASE PushReceived(v) \/ PushBadAnswer(v) \/ PushFails(v)
        BY <2>4, <3>2, <4>4 DEF PushReceived, PushBadAnswer, PushFails, Step, SendPCs
      <4>5. CASE MarkSent(v) \/ MarkNoUrl(v)
        BY <1>0, <4>1, <4>5 DEF MarkSent, MarkNoUrl, Record, Row, ToSend
      <4>6. CASE MarkFailed(v)
        <5>1. ~ IsFinal(v) /\ MayErr(v)
          BY <1>0, <4>1, <4>6 DEF MarkFailed, Record, Row, ToSend, MayErr
        <5> QED
          BY <2>4, <3>2, <4>6, <5>1 DEF MarkFailed, Step
      <4> QED
        BY <2>6, <4>2, <4>3, <4>4, <4>5, <4>6 DEF SendStep
    <3> QED
      BY <3>1, <3>2
  <2>7. CASE Fault(v)
    BY <1>0, <2>7 DEF Fault
  <2>8. CASE LoseHandler(v)
    BY <1>0, <2>8 DEF LoseHandler, Lose
  <2>9. CASE ReturnOk(v) \/ ReturnErr(v)
    <3>1. CASE hold[v] # j
      <4>1. hold[v] \in Jobs /\ LetGo(v) /\ Forget(v) /\ state'[j] = state[j]
        BY <1>0, <2>9, <3>1 DEF ReturnOk, ReturnErr, Complete, FailRetry, FailFinal, TypeOK
      <4> QED
        BY <1>0, <3>1, <4>1, AtWorkFrame DEF LetGo, Forget, TypeOK
    <3>2. CASE hold[v] = j
      <4>1. FailRetry(v) \/ (FailFinal(v) /\ about[j] \in BadUrl)
        BY <1>1, <2>9, <3>2 DEF ReturnOk, ReturnErr, FailFinal, SendPCs, MayErr
      <4> QED
        BY <1>0, <3>2, <4>1 DEF FailRetry, FailFinal, AtWork, TypeOK
    <3> QED
      BY <3>1, <3>2
  <2> QED
    BY <1>4, <2>1, <2>2, <2>5, <2>6, <2>7, <2>8, <2>9 DEF HandlerNext, MatchStep
<1>5. ASSUME NEW e \in Subs, ApiNext(e) PROVE AtWork(j)'
  <2>1. CASE \E i \in Jobs : EnqueueOwed(e, i)
    BY <1>2, <2>1 DEF EnqueueOwed, EnqueueSend, local
  <2>2. CASE ~ \E i \in Jobs : EnqueueOwed(e, i)
    BY <1>3, <1>5, <2>2 DEF ApiNext, ResetDeliveryForRetry, SendTestDelivery, OwedFails,
                            DeleteSubscription, local, vars, rows, pool
  <2> QED
    BY <2>1, <2>2
<1>6. CASE QueueStep
  <2>1. UNCHANGED <<hold, heldCount, pc>>
    BY <1>6 DEF QueueStep, PollEmpty, Reap, Tick, RetryJob, pool, rows, local
  <2>2. state[j] \in {"created", "failed"} => state'[j] \in {state[j], "created"}
    BY <1>0, <1>6 DEF QueueStep, PollEmpty, Reap, Tick, RetryJob, Stuck, rows, TypeOK
  <2> QED
    BY <1>0, <2>1, <2>2, AtWorkFrame
<1>7. CASE UNCHANGED dvars
  BY <1>3, <1>7 DEF dvars, vars, rows, pool, local
<1>8. ASSUME NEW i \in Jobs, SendMatch(i) PROVE AtWork(j)'
  BY <1>2, <1>8 DEF SendMatch, local
<1> QED
  BY <1>4, <1>5, <1>6, <1>7, <1>8 DEF DeliveryNext

\* What a match handler has still to enqueue stays in its hands or is sent.
LEMMA InMadeStays ==
    ASSUME HandlerInv, [DeliveryNext]_dvars, faults' = faults, losses' = losses,
           \A e \in Subs : status[e] # "gone", NEW d \in Subs, InMade(d)
    PROVE  InMade(d)' \/ \E j \in SendJobs(d)' : AtWork(j)'
<1> USE DEF HandlerInv
<1>0. /\ pc \in [Workers -> PCs] /\ made \in [Workers -> Seq(Subs)]
      /\ faults \in Nat /\ losses \in Nat
  BY DeliveryAssumption, QueueAssumption DEF TypeOK, DeliveryTypeOK
<1>1. PICK w \in Workers : pc[w] = "match" /\ \E i \in DOMAIN made[w] : made[w][i] = d
  BY DEF InMade
<1>2. PICK i \in DOMAIN made[w] : made[w][i] = d
  BY <1>1
<1> HIDE <1>1
<1>3. pc[w] = "match" /\ i \in 1..Len(made[w]) /\ made[w] \in Seq(Subs)
  BY <1>0, <1>1, <1>2
<1>4. CASE pc'[w] = "match" /\ made'[w] = made[w]
  BY <1>2, <1>4 DEF InMade
<1>5. ASSUME NEW v \in Workers, v # w, HandlerNext(v) PROVE pc'[w] = pc[w] /\ made'[w] = made[w]
  <2>1. CASE MatchStep(v)
    BY <1>0, <1>5, <2>1 DEF MatchStep, BeginMatch, MatchDone, CreateDeliveryIfNew, EnqueueMade, Step
  <2>2. CASE SendStep(v)
    BY <1>0, <1>5, <2>2
       DEF SendStep, LoadDelivery, CountAttempt, PushReceived, PushBadAnswer, PushFails,
           MarkSent, MarkFailed, MarkNoUrl, Step
  <2>3. CASE (\E j \in Jobs : StartHandler(v, j)) \/ Fault(v)
    BY <1>0, <1>5, <2>3 DEF StartHandler, Fault
  <2>4. CASE ReturnOk(v) \/ ReturnErr(v) \/ LoseHandler(v)
    BY <1>0, <1>5, <2>4 DEF ReturnOk, ReturnErr, LoseHandler, Forget
  <2> QED
    BY <1>5, <2>1, <2>2, <2>3, <2>4 DEF HandlerNext
<1>6. ASSUME HandlerNext(w) PROVE InMade(d)' \/ \E j \in SendJobs(d)' : AtWork(j)'
  <2>1. ASSUME NEW j \in Jobs, EnqueueMade(w, j)
        PROVE  InMade(d)' \/ \E k \in SendJobs(d)' : AtWork(k)'
    <3>1. CASE i = 1
      <4>1. Head(made[w]) = d
        BY <1>2, <1>3, <3>1
      <4> QED
        BY <2>1, <4>1, AtWorkSent DEF EnqueueMade
    <3>2. CASE i # 1
      <4>1. made'[w] = Tail(made[w]) /\ pc'[w] = "match"
        BY <1>0, <1>3, <2>1 DEF EnqueueMade
      <4>2. i - 1 \in DOMAIN Tail(made[w]) /\ Tail(made[w])[i - 1] = made[w][i]
        BY <1>3, <3>2
      <4> QED
        BY <1>2, <4>1, <4>2 DEF InMade
    <3> QED
      BY <3>1, <3>2
  <2>2. ASSUME NEW e \in Subs, CreateDeliveryIfNew(w, e) PROVE InMade(d)'
    <3>1. pc'[w] = "match" /\ (made'[w] = made[w] \/ made'[w] = Append(made[w], e))
      BY <1>0, <2>2 DEF CreateDeliveryIfNew, Step
    <3>2. i \in DOMAIN made'[w] /\ made'[w][i] = made[w][i]
      BY <1>3, <3>1
    <3> QED
      BY <1>2, <3>1, <3>2 DEF InMade
  <2>3. ~ BeginMatch(w) /\ ~ MatchDone(w)
    BY <1>3 DEF BeginMatch, MatchDone, Step
  <2>4. ~ SendStep(w)
    BY <1>3 DEF SendStep, LoadDelivery, CountAttempt, PushReceived, PushBadAnswer, PushFails,
                MarkSent, MarkFailed, MarkNoUrl, Step
  <2>5. ~ Fault(w) /\ ~ LoseHandler(w) /\ ~ ReturnOk(w) /\ ~ ReturnErr(w)
    BY <1>0, <1>3 DEF Fault, LoseHandler, Lose, ReturnOk, ReturnErr
  <2>6. ASSUME NEW j \in Jobs, StartHandler(w, j) PROVE FALSE
    BY <1>3, <2>6 DEF StartHandler, Claim, TargetInv, Jobs, NoJob
  <2> QED
    BY <1>6, <2>1, <2>2, <2>3, <2>4, <2>5, <2>6 DEF HandlerNext, MatchStep
<1>7. ASSUME QueueStep \/ UNCHANGED dvars \/ (\E e \in Subs : ApiNext(e)) \/ \E j \in Jobs : SendMatch(j)
      PROVE  pc' = pc /\ made' = made
  BY <1>7 DEF QueueStep, dvars, local, ApiNext, ResetDeliveryForRetry, SendTestDelivery,
              EnqueueOwed, OwedFails, DeleteSubscription, SendMatch
<1> QED
  BY <1>3, <1>4, <1>5, <1>6, <1>7 DEF DeliveryNext

\* What an API call owes stays owed or is sent.
LEMMA OwedStays ==
    ASSUME HandlerInv, [DeliveryNext]_dvars, faults' = faults, NEW d \in Subs, owed[d] > 0
    PROVE  owed'[d] > 0 \/ \E j \in SendJobs(d)' : AtWork(j)'
<1> USE DEF HandlerInv
<1>0. owed \in [Subs -> Nat] /\ faults \in Nat
  BY DeliveryAssumption DEF DeliveryTypeOK
<1>1. ASSUME NEW e \in Subs, ApiNext(e)
      PROVE  owed'[d] > 0 \/ \E j \in SendJobs(d)' : AtWork(j)'
  <2>1. ASSUME NEW j \in Jobs, EnqueueOwed(e, j)
        PROVE  owed'[d] > 0 \/ \E k \in SendJobs(d)' : AtWork(k)'
    <3>1. CASE e = d
      BY <2>1, <3>1, AtWorkSent DEF EnqueueOwed
    <3>2. CASE e # d
      BY <1>0, <2>1, <3>2 DEF EnqueueOwed
    <3> QED
      BY <3>1, <3>2
  <2>2. CASE ResetDeliveryForRetry(e) \/ SendTestDelivery(e)
    BY <1>0, <2>2 DEF ResetDeliveryForRetry, SendTestDelivery
  <2>3. ~ OwedFails(e)
    BY <1>0 DEF OwedFails
  <2>4. CASE DeleteSubscription(e)
    BY <1>0, <2>4 DEF DeleteSubscription, api
  <2> QED
    BY <1>1, <2>1, <2>2, <2>3, <2>4 DEF ApiNext
<1>2. ASSUME NEW w \in Workers, HandlerNext(w) PROVE owed' = owed
  BY <1>2 DEF HandlerNext, StartHandler, MatchStep, BeginMatch, MatchDone, CreateDeliveryIfNew,
              EnqueueMade, SendStep, LoadDelivery, CountAttempt, PushReceived, PushBadAnswer,
              PushFails, MarkSent, MarkFailed, MarkNoUrl, Fault, ReturnOk, ReturnErr,
              LoseHandler, Forget, api
<1>3. ASSUME QueueStep \/ UNCHANGED dvars \/ \E j \in Jobs : SendMatch(j) PROVE owed' = owed
  BY <1>3 DEF QueueStep, dvars, SendMatch, api
<1> QED
  BY <1>0, <1>1, <1>2, <1>3 DEF DeliveryNext

\* What makes a delivery one to be sent also sees to it.
LEMMA ToSendBegins ==
    ASSUME HandlerInv, [DeliveryNext]_dvars, NEW d \in Subs,
           status'[d] # status[d], status'[d] \in ToSend
    PROVE  (\E j \in SendJobs(d)' : AtWork(j)') \/ InMade(d)' \/ owed'[d] > 0
<1> USE DEF HandlerInv
<1>0. /\ pc \in [Workers -> PCs] /\ made \in [Workers -> Seq(Subs)]
      /\ status \in [Subs -> Statuses] /\ owed \in [Subs -> Nat]
  BY DEF DeliveryTypeOK
<1>1. ASSUME NEW w \in Workers, CreateDeliveryIfNew(w, d) PROVE InMade(d)'
  <2>1. status[d] = "none"
    BY <1>0, <1>1 DEF CreateDeliveryIfNew
  <2>2. pc'[w] = "match" /\ made'[w] = Append(made[w], d)
    BY <1>0, <1>1, <2>1 DEF CreateDeliveryIfNew, Step
  <2>3. Len(made[w]) + 1 \in DOMAIN made'[w] /\ made'[w][Len(made[w]) + 1] = d
    BY <1>0, <2>2
  <2> QED
    BY <2>2, <2>3 DEF InMade
<1>2. ASSUME NEW w \in Workers, MarkSent(w) \/ MarkFailed(w) \/ MarkNoUrl(w), Target(w) = d
      PROVE  \E j \in SendJobs(d)' : AtWork(j)'
  <2>1. MarkFailed(w) /\ ~ IsFinal(w)
    BY <1>0, <1>2 DEF MarkSent, MarkFailed, MarkNoUrl, Record, ToSend
  <2>2. /\ hold[w] \in Jobs /\ queue[hold[w]] = "send" /\ Exists(hold[w])
        /\ UNCHANGED <<state, queue, about, hold, heldCount>> /\ pc'[w] = "err"
    BY <1>0, <2>1, HeldExists DEF MarkFailed, Step, TargetInv, SendPCs, vars, rows, pool
  <2>3. hold[w] \in SendJobs(d)'
    BY <1>2, <2>2 DEF SendJobs, Target, Exists
  <2>4. MayErr(w)'
    BY <2>1, <2>2 DEF IsFinal, MayErr
  <2>5. AtWork(hold[w])'
    BY <2>2, <2>4 DEF AtWork
  <2>6. PICK h : h = hold[w]
    OBVIOUS
  <2>7. h \in SendJobs(d)' /\ hold'[w] = h
    BY <2>2, <2>3, <2>6
  <2>8. AtWork(h)'
    BY <2>2, <2>4, <2>7 DEF AtWork
  <2> QED
    BY <2>7, <2>8
<1>3. CASE ResetDeliveryForRetry(d) \/ SendTestDelivery(d)
  BY <1>0, <1>3 DEF ResetDeliveryForRetry, SendTestDelivery, ToSend
<1> QED
  BY <1>1, <1>2, <1>3, StatusMoves DEF ToSend

LEMMA PendInductive ==
    ASSUME Timely, HandlerInv, PendInv, [DeliveryNext]_dvars
    PROVE  PendInv'
<1> SUFFICES ASSUME NoMishap', NEW d \in Subs, status'[d] \in ToSend
             PROVE  (\E j \in SendJobs(d)' : AtWork(j)') \/ InMade(d)' \/ owed'[d] > 0
  BY DEF PendInv
<1>1. NoMishap /\ faults' = faults /\ losses' = losses
  <2>1. faults = 0 /\ losses = 0 /\ faults' = 0 /\ losses' = 0
    BY ReceiptMoves DEF HandlerInv, NoMishap
  <2>2. ASSUME NEW e \in Subs, status[e] = "gone" PROVE FALSE
    <3>1. status'[e] # status[e] /\ status'[e] # "gone"
      BY <2>2 DEF NoMishap
    <3>2. ~ ResetDeliveryForRetry(e) /\ ~ SendTestDelivery(e)
      BY <2>2 DEF ResetDeliveryForRetry, SendTestDelivery, Row
    <3>3. ASSUME NEW w \in Workers, CreateDeliveryIfNew(w, e) PROVE FALSE
      BY <2>2, <3>1, <3>3 DEF CreateDeliveryIfNew, HandlerInv, DeliveryTypeOK
    <3>4. ASSUME NEW w \in Workers, MarkSent(w) \/ MarkFailed(w) \/ MarkNoUrl(w), Target(w) = e
          PROVE  FALSE
      BY <2>2, <3>1, <3>4 DEF MarkSent, MarkFailed, MarkNoUrl, Record, Row, HandlerInv, DeliveryTypeOK
    <3> QED
      BY <3>1, <3>2, <3>3, <3>4, StatusMoves DEF HandlerInv
  <2> QED
    BY <2>1, <2>2 DEF NoMishap
<1>2. CASE status'[d] # status[d]
  BY <1>2, ToSendBegins
<1>3. CASE status'[d] = status[d]
  <2>1. (\E j \in SendJobs(d) : AtWork(j)) \/ InMade(d) \/ owed[d] > 0
    BY <1>1, <1>3 DEF PendInv
  <2>2. ASSUME NEW j \in SendJobs(d), AtWork(j) PROVE \E k \in SendJobs(d)' : AtWork(k)'
    <3>1. j \in SendJobs(d)'
      BY RowsStay DEF SendJobs, HandlerInv
    <3> QED
      BY <1>1, <2>2, <3>1, AtWorkStays
  <2> QED
    BY <1>1, <2>1, <2>2, InMadeStays, OwedStays DEF NoMishap
<1> QED
  BY <1>2, <1>3

\* The comment at deliver.go:117: while nothing goes wrong between the insert of a row
\* and that of its job, a row still to be sent has a job that is queued or running, or a
\* handler or an API call about to queue it, or a malformed url and a dead-lettered job.
THEOREM DeliveryPendingQueued ==
    ASSUME Timely
    PROVE  DeliverySpec => []PendingQueued
<1>1. DeliveryInit => PendInv
  BY DEF DeliveryInit, PendInv, ToSend
<1>2. HandlerInv /\ PendInv /\ [DeliveryNext]_dvars => PendInv'
  BY PendInductive
<1>3. HandlerInv /\ PendInv => PendingQueued
  <2> SUFFICES ASSUME HandlerInv, PendInv, NoMishap, NEW d \in Subs, status[d] \in ToSend
               PROVE  \/ Queued(d) \/ InMade(d) \/ owed[d] > 0
                      \/ d \in BadUrl /\ \E j \in SendJobs(d) : state[j] = "failed"
    BY DEF PendingQueued, NoMishap, ToSend, InMade
  <2>1. ASSUME NEW j \in SendJobs(d), AtWork(j)
        PROVE  Queued(d) \/ (d \in BadUrl /\ state[j] = "failed")
    <3>1. \/ state[j] \in {"created", "active"}
          \/ state[j] = "failed" /\ about[j] \in BadUrl
      BY <2>1 DEF AtWork, SendJobs, HandlerInv, LeaseInv, LeaseHeld, Jobs, NoJob
    <3> QED
      BY <3>1 DEF Queued, Unfinished, SendJobs
  <2> QED
    BY <2>1 DEF PendInv
<1> QED
  BY <1>1, <1>2, <1>3, HandlerInvariant, PTL DEF DeliverySpec
=============================================================================
