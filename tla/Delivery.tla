------------------------------ MODULE Delivery ------------------------------
(***************************************************************************)
(* Delivery of one signal: signal.match jobs (internal/jobs/workers.go and *)
(* MatchSubscriptions of internal/pipeline/deliver.go) create DeliveryEvent*)
(* rows and enqueue delivery.send jobs; the handler of those pushes the    *)
(* event to its subscriber and records the outcome.  Both run on the queue *)
(* of module JobQueue, whose actions appear here as conjuncts: a handler   *)
(* step happens between a worker's Claim and its Complete, FailRetry or    *)
(* FailFinal, and every SQL statement of a handler is a step of its own.   *)
(*                                                                         *)
(* DeliveryEvent is unique per subscription and signal, so for one signal  *)
(* a delivery is named by its subscription.                                *)
(***************************************************************************)
EXTENDS JobQueue, Sequences

CONSTANTS
    Subs,        \* subscriptions that match the signal
    Channel,     \* Subscription.channel; "PULL" stands for POLLING, SSE, WEBSOCKET
    NoSub,       \* "no delivery": what a match job is about
    NoUrl,       \* webhooks whose config may lack the url when it is read
    BadUrl,      \* webhooks whose config may hold a malformed url when it is read
    Deletable,   \* bound: subscriptions the operator may delete
    MaxMatches,  \* bound: signal.match jobs ever sent
    MaxFaults,   \* bound: failed SQL statements and bad answers to a received push
    ApiCalls,    \* which API mutations are called: "retry", "test"
    MaxCalls     \* bound: their number

ASSUME DeliveryAssumption ==
    /\ Queues = {"match", "send"} /\ SingletonQueues = {}
    /\ RetryLimit["match"] = 0
    /\ IsFiniteSet(Subs) /\ NoSub \notin Subs
    /\ Channel \in [Subs -> {"WEBHOOK", "EMAIL", "PULL"}]
    /\ NoUrl \cup BadUrl \subseteq {d \in Subs : Channel[d] = "WEBHOOK"}
    /\ Deletable \subseteq Subs
    /\ MaxMatches \in Nat /\ MaxFaults \in Nat /\ MaxCalls \in Nat
    /\ ApiCalls \subseteq {"retry", "test"}
    /\ MaxJobs >= MaxMatches + Cardinality(Subs) + MaxCalls

VARIABLES
    about,     \* ws_jobs.data: the delivery a send job is about
    status,    \* DeliveryEvent.status; "none": no row yet, "gone": deleted for good
    event,     \* DeliveryEvent.payload
    attempts,  \* DeliveryEvent.attempts
    pc,        \* per worker: where its handler is
    left,      \* per worker: subscriptions the match handler still has to visit
    made,      \* per worker: deliveries the match handler created, to be enqueued
    loaded,    \* per worker: the payload the send handler loaded
    got,       \* per subscriber: the events it received
    receipts,  \* per subscriber: how often it received one
    owed,      \* per delivery: API calls that reset the row and have to enqueue it
    faults,    \* failed statements and bad answers so far
    calls      \* API calls so far

table == <<status, event, attempts>>
local == <<pc, left, made, loaded>>
world == <<got, receipts>>
api == <<owed, calls>>
dvars == <<vars, about, table, local, world, api, faults>>

Statuses == {"none", "PENDING", "SENT", "RETRYING", "FAILED", "DEAD_LETTERED", "gone"}
Settled == {"SENT", "FAILED", "DEAD_LETTERED", "gone"}
Row(d) == status[d] \notin {"none", "gone"}
PCs == {"idle", "begin", "match", "load", "count", "push", "sent", "failed",
        "nourl", "ok", "err"}

DeliveryTypeOK ==
    /\ about \in [Jobs -> Subs \cup {NoSub}]
    /\ status \in [Subs -> Statuses]
    /\ event \in [Subs -> {"signal", "test"}]
    /\ attempts \in [Subs -> Nat]
    /\ pc \in [Workers -> PCs]
    /\ left \in [Workers -> SUBSET Subs]
    /\ made \in [Workers -> Seq(Subs)]
    /\ loaded \in [Workers -> {"signal", "test"}]
    /\ got \in [Subs -> SUBSET {"signal", "test"}]
    /\ receipts \in [Subs -> Nat]
    /\ owed \in [Subs -> Nat]
    /\ faults \in 0..MaxFaults
    /\ calls \in 0..MaxCalls

DeliveryInit ==
    /\ Init
    /\ about = [j \in Jobs |-> NoSub]
    /\ status = [d \in Subs |-> "none"]
    /\ event = [d \in Subs |-> "signal"]
    /\ attempts = [d \in Subs |-> 0]
    /\ pc = [w \in Workers |-> "idle"]
    /\ left = [w \in Workers |-> {}]
    /\ made = [w \in Workers |-> <<>>]
    /\ loaded = [w \in Workers |-> "signal"]
    /\ got = [d \in Subs |-> {}]
    /\ receipts = [d \in Subs |-> 0]
    /\ owed = [d \in Subs |-> 0]
    /\ faults = 0
    /\ calls = 0
-----------------------------------------------------------------------------
(* The job queue, seen by the handlers *)

\* The enrich handler asks for the signal to be matched; it does so once per
\* enrichment, so several match jobs of one signal may be in the queue.
SendMatch(j) ==
    /\ Cardinality({i \in Jobs : Exists(i) /\ queue[i] = "match"}) < MaxMatches
    /\ Send(j, "match")
    /\ UNCHANGED <<about, table, local, world, api, faults>>

EnqueueSend(j, d) ==
    /\ Send(j, "send")
    /\ about' = [about EXCEPT ![j] = d]

\* processOne claims a job and calls the handler of its queue.
StartHandler(w, j) ==
    /\ Claim(w, j)
    /\ pc' = [pc EXCEPT ![w] = IF queue[j] = "match" THEN "begin" ELSE "load"]
    /\ UNCHANGED <<about, table, left, made, loaded, world, api, faults>>

\* What dies with the handler's stack frame.
Forget(w) ==
    /\ pc' = [pc EXCEPT ![w] = "idle"]
    /\ left' = [left EXCEPT ![w] = {}]
    /\ made' = [made EXCEPT ![w] = <<>>]
    /\ loaded' = [loaded EXCEPT ![w] = "signal"]
    /\ UNCHANGED <<about, table, world, api, faults>>

\* The handler returned nil.
ReturnOk(w) == pc[w] = "ok" /\ Complete(w) /\ Forget(w)

\* The handler returned an error.
ReturnErr(w) == pc[w] = "err" /\ (FailRetry(w) \/ FailFinal(w)) /\ Forget(w)

LoseHandler(w) == Lose(w) /\ Forget(w)

QueueStep ==
    /\ \/ \E w \in Workers : PollEmpty(w)
       \/ Reap
       \/ Tick
       \/ \E j \in Jobs : RetryJob(j)
    /\ UNCHANGED <<about, table, local, world, api, faults>>

\* A statement of the handler fails and the handler returns its error.
Fault(w) ==
    /\ pc[w] \notin {"idle", "push", "ok", "err"}
    /\ faults < MaxFaults
    /\ faults' = faults + 1
    /\ pc' = [pc EXCEPT ![w] = "err"]
    /\ UNCHANGED <<vars, about, table, left, made, loaded, world, api>>
-----------------------------------------------------------------------------
(* signal.match: MatchSubscriptions, then one enqueue per created delivery *)

Step(w, at, next) ==
    /\ pc[w] = at
    /\ pc' = [pc EXCEPT ![w] = next]
    /\ UNCHANGED vars

\* EnabledSubscriptions and matchesFilter: which subscriptions match depends on
\* their filters, the enabled flag and the signal as they are at this moment.
BeginMatch(w) ==
    /\ Step(w, "begin", "match")
    /\ \E matching \in SUBSET {d \in Subs : status[d] # "gone"} :
           left' = [left EXCEPT ![w] = matching]
    /\ UNCHANGED <<about, table, made, loaded, world, api, faults>>

\* Mutant: a conflict also returns the row's id.
Mutant_CreateRepeats(w, d) ==
    /\ d \in left[w]
    /\ Step(w, "match", IF status[d] = "gone" THEN "err" ELSE "match")
    /\ left' = [left EXCEPT ![w] = @ \ {d}]
    /\ status' = [status EXCEPT ![d] = IF @ = "none" THEN "PENDING" ELSE @]
    /\ made' = [made EXCEPT ![w] = IF status[d] = "gone" THEN @ ELSE Append(@, d)]
    /\ UNCHANGED <<about, event, attempts, loaded, world, api, faults>>

\* CreateDeliveryIfNew: INSERT ... ON CONFLICT DO NOTHING RETURNING id.  The
\* insert fails on the foreign key when the subscription is deleted meanwhile.
CreateDeliveryIfNew(w, d) ==
    /\ d \in left[w]
    /\ Step(w, "match", IF status[d] = "gone" THEN "err" ELSE "match")
    /\ left' = [left EXCEPT ![w] = @ \ {d}]
    /\ status' = [status EXCEPT ![d] = IF @ = "none" THEN "PENDING" ELSE @]
    /\ made' = [made EXCEPT ![w] = IF status[d] = "none" THEN Append(@, d) ELSE @]
    /\ UNCHANGED <<about, event, attempts, loaded, world, api, faults>>

\* The handler's loop over the returned ids.
EnqueueMade(w, j) ==
    /\ pc[w] = "match" /\ left[w] = {} /\ made[w] # <<>>
    /\ EnqueueSend(j, Head(made[w]))
    /\ made' = [made EXCEPT ![w] = Tail(@)]
    /\ UNCHANGED <<table, pc, left, loaded, world, api, faults>>

\* Mutant: the handler returns after the first enqueue.
Mutant_MatchReturnsEarly(w) ==
    /\ left[w] = {} /\ Len(made[w]) <= 1
    /\ Step(w, "match", "ok")
    /\ UNCHANGED <<about, table, left, made, loaded, world, api, faults>>

MatchDone(w) ==
    /\ left[w] = {} /\ made[w] = <<>>
    /\ Step(w, "match", "ok")
    /\ UNCHANGED <<about, table, left, made, loaded, world, api, faults>>

-----------------------------------------------------------------------------
(* delivery.send: SendDelivery *)

Target(w) == about[hold[w]]

\* Mutant: a delivery that is already SENT is sent again.
Mutant_LoadIgnoresSent(w) ==
    /\ Step(w, "load", IF Row(Target(w)) THEN "count" ELSE "ok")
    /\ loaded' = [loaded EXCEPT ![w] = event[Target(w)]]
    /\ UNCHANGED <<about, table, left, made, world, api, faults>>

\* LoadDeliveryForSend; an absent or SENT delivery needs nothing.
LoadDelivery(w) ==
    /\ Step(w, "load", IF Row(Target(w)) /\ status[Target(w)] # "SENT"
                       THEN "count" ELSE "ok")
    /\ loaded' = [loaded EXCEPT ![w] = event[Target(w)]]
    /\ UNCHANGED <<about, table, left, made, world, api, faults>>

\* The switch on the channel and on the webhook's url.  Nothing validates a url
\* when it is saved; http.NewRequest refuses a malformed one, and its error leaves
\* the handler without finishDelivery: the row is not marked.
AfterCount(d) ==
    IF Channel[d] = "PULL" THEN {"sent"}
    ELSE {"push"} \cup (IF d \in NoUrl THEN {"nourl"} ELSE {})
                  \cup (IF d \in BadUrl THEN {"err"} ELSE {})

\* IncrementDeliveryAttempts, then that switch.  The UPDATE of a row deleted since
\* the load changes nothing and is no error.
CountAttempt(w) ==
    LET d == Target(w) IN
    /\ pc[w] = "count"
    /\ \E next \in AfterCount(d) : Step(w, "count", next)
    /\ attempts' = [attempts EXCEPT ![d] = IF Row(d) THEN @ + 1 ELSE @]
    /\ UNCHANGED <<about, status, event, left, made, loaded, world, api, faults>>

\* Mutant: an accepted push is taken for a failed one.
Mutant_SuccessMisread(w) ==
    LET d == Target(w) IN
    /\ Step(w, "push", "failed")
    /\ got' = [got EXCEPT ![d] = @ \cup {loaded[w]}]
    /\ receipts' = [receipts EXCEPT ![d] = @ + 1]
    /\ UNCHANGED <<about, table, left, made, loaded, api, faults>>

\* The POST or the SMTP conversation: the subscriber takes the event.
PushReceived(w) ==
    LET d == Target(w) IN
    /\ Step(w, "push", "sent")
    /\ got' = [got EXCEPT ![d] = @ \cup {loaded[w]}]
    /\ receipts' = [receipts EXCEPT ![d] = @ + 1]
    /\ UNCHANGED <<about, table, left, made, loaded, api, faults>>

\* The subscriber takes the event, but the answer is lost or not a 2xx.
PushBadAnswer(w) ==
    LET d == Target(w) IN
    /\ faults < MaxFaults
    /\ faults' = faults + 1
    /\ Step(w, "push", "failed")
    /\ got' = [got EXCEPT ![d] = @ \cup {loaded[w]}]
    /\ receipts' = [receipts EXCEPT ![d] = @ + 1]
    /\ UNCHANGED <<about, table, left, made, loaded, api>>

\* Mutant: the status code of the answer is not looked at.
Mutant_AnyAnswerIsFine(w) ==
    /\ Step(w, "push", "sent")
    /\ UNCHANGED <<about, table, left, made, loaded, world, api, faults>>

\* The push fails without reaching the subscriber.
PushFails(w) ==
    /\ Step(w, "push", "failed")
    /\ UNCHANGED <<about, table, left, made, loaded, world, api, faults>>

Record(d, s) == status' = [status EXCEPT ![d] = IF Row(d) THEN s ELSE @]

\* MarkDeliverySent
MarkSent(w) ==
    /\ Step(w, "sent", "ok")
    /\ Record(Target(w), "SENT")
    /\ UNCHANGED <<about, event, attempts, left, made, loaded, world, api, faults>>

\* Mutant: a failed attempt is not reported to the queue.
Mutant_FailureSwallowed(w) ==
    /\ Step(w, "failed", "ok")
    /\ Record(Target(w), IF IsFinal(w) THEN "DEAD_LETTERED" ELSE "RETRYING")
    /\ UNCHANGED <<about, event, attempts, left, made, loaded, world, api, faults>>

\* Mutant: the handler is not told which attempt is the last.
Mutant_FinalNotTold(w) ==
    /\ Step(w, "failed", "err")
    /\ Record(Target(w), "RETRYING")
    /\ UNCHANGED <<about, event, attempts, left, made, loaded, world, api, faults>>

\* finishDelivery after a failed push: RETRYING and an error, so that the queue
\* retries, or DEAD_LETTERED and nil on the final attempt.
MarkFailed(w) ==
    /\ Step(w, "failed", IF IsFinal(w) THEN "ok" ELSE "err")
    /\ Record(Target(w), IF IsFinal(w) THEN "DEAD_LETTERED" ELSE "RETRYING")
    /\ UNCHANGED <<about, event, attempts, left, made, loaded, world, api, faults>>

\* A webhook without url fails for good, without retries.
MarkNoUrl(w) ==
    /\ Step(w, "nourl", "ok")
    /\ Record(Target(w), "FAILED")
    /\ UNCHANGED <<about, event, attempts, left, made, loaded, world, api, faults>>
-----------------------------------------------------------------------------
(* The API *)

Call(kind) ==
    /\ kind \in ApiCalls
    /\ calls < MaxCalls
    /\ calls' = calls + 1

\* mutRetryDelivery, first statement: PENDING again, whatever the row says.
ResetDeliveryForRetry(d) ==
    /\ Call("retry")
    /\ Row(d)
    /\ status' = [status EXCEPT ![d] = "PENDING"]
    /\ owed' = [owed EXCEPT ![d] = @ + 1]
    /\ UNCHANGED <<vars, about, event, attempts, local, world, faults>>

\* mutTestSubscription, first statement: SendTestDelivery turns the row of the
\* latest signal into a test event.  Only a webhook's is to be sent.
SendTestDelivery(d) ==
    /\ Call("test")
    /\ status[d] # "gone"
    /\ event' = [event EXCEPT ![d] = "test"]
    /\ attempts' = [attempts EXCEPT ![d] = 0]
    /\ status' = [status EXCEPT ![d] = IF Channel[d] = "WEBHOOK" THEN "PENDING" ELSE "SENT"]
    /\ owed' = [owed EXCEPT ![d] = IF Channel[d] = "WEBHOOK" THEN @ + 1 ELSE @]
    /\ UNCHANGED <<vars, about, local, world, faults>>

\* Their second statement: EnqueueSendDelivery.
EnqueueOwed(d, j) ==
    /\ owed[d] > 0
    /\ EnqueueSend(j, d)
    /\ owed' = [owed EXCEPT ![d] = @ - 1]
    /\ UNCHANGED <<table, local, world, calls, faults>>

\* That statement fails: the caller of retryDelivery sees an error, the caller
\* of testSubscription does not.
OwedFails(d) ==
    /\ owed[d] > 0
    /\ faults < MaxFaults
    /\ faults' = faults + 1
    /\ owed' = [owed EXCEPT ![d] = @ - 1]
    /\ UNCHANGED <<vars, about, table, local, world, calls>>

\* DeleteSubscription; its deliveries go with it (ON DELETE CASCADE).
DeleteSubscription(d) ==
    /\ d \in Deletable
    /\ status[d] # "gone"
    /\ status' = [status EXCEPT ![d] = "gone"]
    /\ UNCHANGED <<vars, about, event, attempts, local, world, api, faults>>
-----------------------------------------------------------------------------
MatchStep(w) ==
    \/ BeginMatch(w)
    \/ \E d \in Subs : CreateDeliveryIfNew(w, d)
    \/ \E j \in Jobs : EnqueueMade(w, j)
    \/ MatchDone(w)

SendStep(w) ==
    \/ LoadDelivery(w) \/ CountAttempt(w)
    \/ PushReceived(w) \/ PushBadAnswer(w) \/ PushFails(w)
    \/ MarkSent(w) \/ MarkFailed(w) \/ MarkNoUrl(w)

HandlerNext(w) ==
    \/ \E j \in Jobs : StartHandler(w, j)
    \/ MatchStep(w) \/ SendStep(w) \/ Fault(w)
    \/ ReturnOk(w) \/ ReturnErr(w) \/ LoseHandler(w)

ApiNext(d) ==
    \/ ResetDeliveryForRetry(d) \/ SendTestDelivery(d)
    \/ \E j \in Jobs : EnqueueOwed(d, j)
    \/ OwedFails(d)
    \/ DeleteSubscription(d)

DeliveryNext ==
    \/ \E j \in Jobs : SendMatch(j)
    \/ \E w \in Workers : HandlerNext(w)
    \/ \E d \in Subs : ApiNext(d)
    \/ QueueStep

DeliverySpec == DeliveryInit /\ [][DeliveryNext]_dvars

\* The queue's fairness, with the handler's steps in the place of "returns": a
\* handler goes on until it has returned, and an API call goes on to its end.
DeliveryFairness ==
    /\ \A w \in Workers :
        /\ WF_dvars((\E j \in Jobs : StartHandler(w, j))
                    \/ (PollEmpty(w) /\ UNCHANGED <<about, table, local, world, api, faults>>))
        /\ WF_dvars(MatchStep(w) \/ SendStep(w) \/ ReturnOk(w) \/ ReturnErr(w))
    /\ \A d \in Subs : WF_dvars(\E j \in Jobs : EnqueueOwed(d, j))
    /\ WF_dvars(Reap /\ UNCHANGED <<about, table, local, world, api, faults>>)
    /\ WF_dvars(Tick /\ UNCHANGED <<about, table, local, world, api, faults>>)

FairDeliverySpec == DeliverySpec /\ DeliveryFairness

-----------------------------------------------------------------------------
(* Properties *)

SendJobs(d) == {j \in Jobs : Exists(j) /\ queue[j] = "send" /\ about[j] = d}
Queued(d) == \E j \in SendJobs(d) : Unfinished(j)

\* deliver.go:117, "conflict: already queued/delivered": a row still to be sent
\* has an unfinished send job, or a match handler or an API call about to send one;
\* the one other case is a job that was dead-lettered over a malformed url.  (Rows
\* are created before their jobs are: until a statement fails, a worker is lost or a
\* subscription is deleted between the two.)
PendingQueued ==
    faults = 0 /\ losses = 0 /\ (\A d \in Subs : status[d] # "gone") =>
      \A d \in Subs : status[d] \in {"PENDING", "RETRYING"} =>
        \/ Queued(d)
        \/ \E w \in Workers : pc[w] = "match" /\ \E i \in DOMAIN made[w] : made[w][i] = d
        \/ owed[d] > 0
        \/ d \in BadUrl /\ \E j \in SendJobs(d) : state[j] = "failed"

\* Between them the match jobs of a signal send one job per delivery, however
\* they overlap, fail and rerun; every further one is an API call's.
OneSendJob == \A d \in Subs : Cardinality(SendJobs(d)) <= 1 + calls

\* A subscriber receives an event twice only for a reason: an API call, a worker lost
\* between the push and its record, a failed record, a bad answer.
OnceUnlessMishap == \A d \in Subs : receipts[d] <= 1 + calls + faults + losses

\* The last failed attempt is recorded as DEAD_LETTERED and its job completes: that
\* is the handler's doing and not the queue's.  A send job that the queue fails had a
\* statement of its handler fail in that attempt, or is about a malformed url, and its
\* delivery is left as it was.
FailedByFault ==
    Cardinality({j \in Jobs : /\ state[j] = "failed" /\ queue[j] = "send"
                              /\ about[j] \notin BadUrl}) <= faults

\* SENT means received: a push delivery of a signal says SENT only when its subscriber
\* has got it.  (A row of a test event may say so before: a handler may have loaded
\* the signal that the event took the place of.)
SentMeansReceived ==
    \A d \in Subs :
        status[d] = "SENT" /\ event[d] = "signal" /\ Channel[d] # "PULL" => "signal" \in got[d]

\* Once SENT, a delivery stays so until it is deleted: a handler never takes it back,
\* not even one that loaded it before.  (Until the first API call, which may give the
\* delivery a second send job beside the one under way.)
SentIsFinal ==
    [][\A d \in Subs : status[d] = "SENT" /\ calls' = 0
            => status'[d] \in {"SENT", "gone"}]_dvars

\* Every delivery that has a send job is settled in the end, through failing
\* subscribers and lost workers, unless its webhook's url is malformed.
QueuedSettles == \A d \in Subs \ BadUrl : Queued(d) ~> (status[d] \in Settled)
=============================================================================
