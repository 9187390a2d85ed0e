---------------------------- MODULE SourceHealth ----------------------------
(***************************************************************************)
(* How sources are fetched: the schedulers of all worker processes         *)
(* (jobs/scheduler.go), the source.fetch handler's bookkeeping of its      *)
(* source (pipeline/fetch.go, db/fetch.go), the gate that spaces requests  *)
(* to a host (ingestion/throttle.go), and the operators who create, patch, *)
(* fetch, check and seed sources (httpapi, sources, cmd/sourcetool).       *)
(*                                                                         *)
(* The jobs of queue source.fetch are taken with what JobQueue shows:      *)
(* first created first claimed, an orphan is put back, a conditional INSERT*)
(* sees the committed rows only, so that two senders may both add a job.   *)
(* Times are relative, in ticks; timers are exact.                         *)
(***************************************************************************)
EXTENDS Integers, Sequences, FiniteSets, SequencesExt

CONSTANTS
    Sources, Hosts, HostOf,  \* HostOf[s]: host of the source's url
    Procs, Workers, ProcOf,  \* ProcOf[w]: process of the poll loop w
    Operators,               \* console sessions and runs of sourcetool
    Spacing,                 \* per host: interval of defaultInterval, 0 if not paced
    MaxWait,                 \* maxGateWait
    Interval,                \* crawlFrequency
    Threshold, Cooldown,     \* FailureThreshold, Cooldown
    TickLimit,               \* maxEnqueuePerTick
    Priorities,              \* values of "priority"; the least one is the default
    Feeds,                   \* what a check of a feed may meet, see Verdict
    MaxRun,                  \* bound: the longest a fetch takes, gate and request
    MaxEvents                \* bound: calls of operators, failed statements, lost workers

ASSUME SourceAssumption ==
    /\ IsFiniteSet(Sources)
    /\ HostOf \in [Sources -> Hosts] /\ Spacing \in [Hosts -> Nat]
    /\ ProcOf \in [Workers -> Procs] /\ Procs \cap Operators = {}
    /\ {Interval, Threshold, TickLimit, MaxRun} \subseteq Nat \ {0}
    /\ {MaxWait, Cooldown} \subseteq Nat
    /\ MaxWait <= MaxRun /\ MaxRun < Interval
    /\ Priorities \subseteq Nat /\ Priorities # {}

VARIABLES
    order,     \* the registered sources by lastFetchedAt, NULLs and oldest first
    row,       \* per source: [enabled, priority, since, cool, failures]
    checked,   \* per source: [verdict, score] of validationStatus and healthScore
    logged,    \* per source: the verdicts in its SourceValidationLog rows
    queue,     \* source.fetch jobs in state created, by created_at: [src, by]
    sending,   \* those of them whose INSERT has not committed
    orphans,   \* jobs that are active and have lost their worker
    plan,      \* per process: due sources the tick under way has yet to enqueue
    next,      \* per process and host: ticks until the gate's next free slot
    quiet,     \* per process and host: ticks since the last request, saturating
    run,       \* per worker: [at, src, by, age, wait]
    op,        \* per operator: [at, src, result]
    calls, mishaps

gate == <<next, quiet>>
checks == <<checked, logged, op>>
jobs == <<queue, sending, orphans>>
counts == <<calls, mishaps>>
sourceVars == <<order, row, checks, jobs, plan, gate, run, counts>>

Idle == [at |-> "idle"]
NoOp == [at |-> "idle"]
Senders == Procs \cup Operators      \* of fetch jobs
FetchJobs == [src : Sources, by : Senders]
Registered == {s \in Sources : s \in Range(order)}
Default == CHOOSE p \in Priorities : \A q \in Priorities : p <= q
Paced == {h \in Hosts : Spacing[h] > 0}
\* The largest distance of a slot: a claimed wait, the interval and its jitter.
SlotMax(h) == MaxWait + Spacing[h] + Spacing[h] \div 2

SourceTypeOK ==
    /\ order \in Seq(Sources) /\ Len(order) = Cardinality(Registered)
    /\ row \in [Sources -> [enabled : BOOLEAN, priority : Priorities, since : 0..Interval,
                            cool : 0..Cooldown, failures : 0..Threshold]]
    /\ checked \in [Sources -> [verdict : {"UNKNOWN", "VALID", "INVALID"}, score : 0..100]]
    /\ logged \in [Sources -> SUBSET {"VALID", "INVALID"}]
    /\ Range(queue) \cup orphans \subseteq FetchJobs /\ sending \subseteq Range(queue)
    /\ \A p \in Procs : Range(plan[p]) \subseteq Sources
    /\ \A p \in Procs, h \in Hosts : next[p][h] \in 0..SlotMax(h) /\ quiet[p][h] \in 0..Spacing[h]
    /\ \A w \in Workers : \/ run[w] = Idle
                          \/ run[w] \in [at : {"wait", "answer"}, src : Sources, by : Senders,
                                         age : 0..MaxRun, wait : 0..MaxWait]
    /\ \A o \in Operators : op[o].at \in {"idle", "fetch", "update", "upsert", "log"}

Fresh == [enabled |-> TRUE, priority |-> Default, since |-> Interval, cool |-> 0, failures |-> 0]
Unknown == [verdict |-> "UNKNOWN", score |-> 0]
\* A deleted source; its id is not used again.
Gone == [Fresh EXCEPT !.enabled = FALSE]
Unused(s) == s \notin Registered /\ row[s] # Gone

SourceInit ==
    /\ order \in UNION {SetToSeqs(registered) : registered \in SUBSET Sources}
    /\ row = [s \in Sources |-> Fresh]
    /\ checked = [s \in Sources |-> Unknown]
    /\ logged = [s \in Sources |-> {}]
    /\ queue = <<>> /\ sending = {} /\ orphans = {}
    /\ plan = [p \in Procs |-> <<>>]
    /\ next = [p \in Procs |-> [h \in Hosts |-> 0]]
    /\ quiet = [p \in Procs |-> [h \in Hosts |-> Spacing[h]]]
    /\ run = [w \in Workers |-> Idle]
    /\ op = [o \in Operators |-> NoOp]
    /\ calls = 0 /\ mishaps = 0

Mishap == calls + mishaps < MaxEvents /\ mishaps' = mishaps + 1
Call == calls + mishaps < MaxEvents /\ calls' = calls + 1
-----------------------------------------------------------------------------
(* The scheduler *)

Mutant_PollStatus(s) ==
    IF ~row[s].enabled THEN "DISABLED" ELSE IF row[s].failures >= Threshold THEN "COOLDOWN" ELSE "ACTIVE"
\* The "derived polling status" that the source list filters by.
PollStatus(s) ==
    IF ~row[s].enabled THEN "DISABLED" ELSE IF row[s].cool > 0 THEN "COOLDOWN" ELSE "ACTIVE"

Due(s) == PollStatus(s) = "ACTIVE" /\ row[s].since >= Interval

\* ORDER BY priority, lastFetchedAt NULLS FIRST: order, stably sorted by priority.
ByPriority(ss) ==
    FoldLeft(LAMBDA acc, p : acc \o SelectSeq(ss, LAMBDA s : row[s].priority = p),
             <<>>, SetToSortSeq(Priorities, <))

DueSources ==
    LET due == ByPriority(SelectSeq(order, Due))
    IN SubSeq(due, 1, IF Len(due) < TickLimit THEN Len(due) ELSE TickLimit)

Job(w) == [src |-> run[w].src, by |-> run[w].by]

\* Mutant: the dedupe looks at queued jobs only, not at running ones.
Mutant_Unfinished(s) == \E i \in DOMAIN queue : queue[i].src = s /\ queue[i] \notin sending
\* What the snapshot of a Send with the singleton key "fetch:" + s shows: an unfinished
\* job with the key, whose INSERT has committed.
Unfinished(s) ==
    \/ \E i \in DOMAIN queue : queue[i].src = s /\ queue[i] \notin sending
    \/ \E j \in orphans : j.src = s
    \/ \E w \in Workers : run[w] # Idle /\ run[w].src = s

Sending(b) == \E j \in sending : j.by = b

\* EnqueueFetchSource by sender b: the snapshot shows no unfinished job and a row is
\* inserted, or it shows one and that is all.
BeginSend(s, b) ==
    /\ ~ Sending(b) /\ ~ Unfinished(s)
    /\ queue' = Append(queue, [src |-> s, by |-> b])
    /\ sending' = sending \cup {[src |-> s, by |-> b]}

\* The statement is over: it inserted nothing, its row is committed, ...
EndSend(s, b) ==
    /\ UNCHANGED queue
    /\ \/ ~ Sending(b) /\ Unfinished(s) /\ UNCHANGED sending
       \/ [src |-> s, by |-> b] \in sending /\ sending' = sending \ {[src |-> s, by |-> b]}

\* ... or it failed, with the row or before it.
SendFails(s, b) ==
    \/ ~ Sending(b) /\ UNCHANGED <<queue, sending>>
    \/ \E i \in DOMAIN queue :
          /\ queue[i] = [src |-> s, by |-> b] /\ queue[i] \in sending
          /\ queue' = RemoveAt(queue, i) /\ sending' = sending \ {queue[i]}

\* A tick: list, then enqueue one after the other; the next tick comes after.
ListDue(p) ==
    /\ plan[p] = <<>> /\ DueSources # <<>>
    /\ plan' = [plan EXCEPT ![p] = DueSources]
    /\ UNCHANGED <<order, row, checks, jobs, gate, run, counts>>

EnqueueNext(p) ==
    /\ plan[p] # <<>>
    /\ LET s == Head(plan[p]) IN
       \/ BeginSend(s, p) /\ UNCHANGED <<plan, mishaps>>
       \/ EndSend(s, p) /\ plan' = [plan EXCEPT ![p] = Tail(@)] /\ UNCHANGED mishaps
       \/ SendFails(s, p) /\ plan' = [plan EXCEPT ![p] = Tail(@)] /\ Mishap   \* logged
    /\ UNCHANGED <<order, row, checks, orphans, gate, run, calls>>
-----------------------------------------------------------------------------
(* The fetch handler *)

\* reserve: the wait for the slot that a request at this moment would get.
Wait(p, h) == IF Spacing[h] = 0 THEN 0 ELSE next[p][h]
Deferred(p, h) == Wait(p, h) > MaxWait

Mutant_Claimed(p, h, jitter) == [next EXCEPT ![p][h] = Spacing[h] + jitter]
Claimed(p, h, jitter) == [next EXCEPT ![p][h] = @ + Spacing[h] + jitter]

\* The job is finished, in one way or another, and the worker polls again.
Done(w) == run' = [run EXCEPT ![w] = Idle]

\* A claim, the load of the source and the gate, up to the timer.
StartFetch(w) ==
    /\ run[w] = Idle
    /\ \E i \in DOMAIN queue :
       /\ queue[i] \notin sending /\ \A k \in 1..(i - 1) : queue[k] \in sending
       /\ queue' = RemoveAt(queue, i)
       /\ LET s == queue[i].src p == ProcOf[w] h == HostOf[s] IN
          \/ /\ s \notin Registered \/ ~row[s].enabled     \* absent or disabled
             /\ UNCHANGED <<run, next, mishaps>>
          \/ /\ s \in Registered /\ row[s].enabled /\ Deferred(p, h)
             /\ UNCHANGED <<run, next, mishaps>>            \* ErrThrottled: not fetched this round
          \/ /\ s \in Registered /\ row[s].enabled /\ ~Deferred(p, h)
             /\ run' = [run EXCEPT ![w] = [at |-> "wait", src |-> s, by |-> queue[i].by,
                                           age |-> 0, wait |-> Wait(p, h)]]
             /\ IF h \in Paced THEN \E j \in 0..(Spacing[h] \div 2) : next' = Claimed(p, h, j)
                               ELSE UNCHANGED next
             /\ UNCHANGED mishaps
          \/ Mishap /\ UNCHANGED <<run, next>>               \* the load fails, and the job
    /\ UNCHANGED <<order, row, checks, sending, orphans, plan, quiet, calls>>

Request(w) ==
    /\ run[w] # Idle /\ run[w].at = "wait" /\ run[w].wait = 0
    /\ run' = [run EXCEPT ![w].at = "answer"]
    /\ quiet' = [quiet EXCEPT ![ProcOf[w]][HostOf[run[w].src]] = 0]
    /\ UNCHANGED <<order, row, checks, jobs, plan, next, counts>>

PlaceOf(s) == CHOOSE i \in DOMAIN order : order[i] = s
\* The source's place after lastFetchedAt := the time its job began, age ticks ago.
Placed(s, age) ==
    LET rest == RemoveAt(order, PlaceOf(s))
        older == Cardinality({i \in DOMAIN rest : row[rest[i]].since >= age})
    IN InsertAt(rest, older + 1, s)

Answered(w) == run[w] # Idle /\ run[w].at = "answer"

Mutant_RecordSuccess(s, age) ==
    row' = [row EXCEPT ![s].since = age, ![s].failures = 0]
\* MarkSourceFetchSuccess
RecordSuccess(s, age) ==
    row' = [row EXCEPT ![s].since = age, ![s].failures = 0, ![s].cool = 0]

\* MarkSourceFetchFailure; failureCount is followed up to the threshold.
RecordFailure(s, age) ==
    LET n == row[s].failures + 1
        until == IF Cooldown > age THEN Cooldown - age ELSE 0
    IN row' = [row EXCEPT ![s].since = age, ![s].failures = IF n < Threshold THEN n ELSE Threshold,
                          ![s].cool = IF n >= Threshold THEN until ELSE @]

\* The answer came or failed; the outcome is recorded with the time the job began.
FinishFetch(w) ==
    /\ Answered(w)
    /\ LET s == run[w].src age == run[w].age IN
       \/ /\ IF s \in Registered
             THEN /\ RecordSuccess(s, age) \/ RecordFailure(s, age)
                  /\ order' = Placed(s, age)
             ELSE UNCHANGED <<order, row>>       \* deleted meanwhile: no row is updated
          /\ UNCHANGED mishaps
       \/ Mishap /\ UNCHANGED <<order, row>>    \* nothing recorded, the source stays due
    /\ Done(w)
    /\ UNCHANGED <<checks, jobs, plan, gate, calls>>

Lose(w) ==
    /\ run[w] # Idle /\ Mishap
    /\ orphans' = orphans \cup {Job(w)}
    /\ Done(w)
    /\ UNCHANGED <<order, row, checks, queue, sending, plan, gate, calls>>

\* The reaper puts the job back with its old created_at.
Requeue(j) ==
    /\ j \in orphans
    /\ orphans' = orphans \ {j}
    /\ queue' = <<j>> \o queue
    /\ UNCHANGED <<order, row, checks, sending, plan, gate, run, counts>>
-----------------------------------------------------------------------------
(* Operators: the console, the REST API and sourcetool *)

Insert(s, since, place) ==
    /\ order' = place
    /\ row' = [row EXCEPT ![s] = [Fresh EXCEPT !.since = since]]

\* REST: the source, then its fetch, whose error is ignored.  A used url is refused.
CreateSourceREST(o, s) ==
    /\ op[o] = NoOp /\ Unused(s) /\ Call
    /\ Insert(s, Interval, <<s>> \o order)
    /\ op' = [op EXCEPT ![o] = [at |-> "fetch", src |-> s]]
    /\ UNCHANGED <<checked, logged, jobs, plan, gate, run, mishaps>>

\* GraphQL leaves the source to the scheduler.
CreateSource(o, s) ==
    /\ op[o] = NoOp /\ Unused(s) /\ Call
    /\ Insert(s, Interval, <<s>> \o order)
    /\ UNCHANGED <<checks, jobs, plan, gate, run, mishaps>>

\* triggerFetch and POST /v1/sources/{id}/fetch, of any id
TriggerFetch(o, s) ==
    /\ op[o] = NoOp /\ Call
    /\ op' = [op EXCEPT ![o] = [at |-> "fetch", src |-> s]]
    /\ UNCHANGED <<order, row, checked, logged, jobs, plan, gate, run, mishaps>>

AskFetch(o) ==
    /\ op[o].at = "fetch"
    /\ \/ BeginSend(op[o].src, o) /\ UNCHANGED <<op, mishaps>>
       \/ EndSend(op[o].src, o) /\ op' = [op EXCEPT ![o] = NoOp] /\ UNCHANGED mishaps
       \/ SendFails(op[o].src, o) /\ op' = [op EXCEPT ![o] = NoOp] /\ mishaps' = mishaps + 1
    /\ UNCHANGED <<order, row, checked, logged, orphans, plan, gate, run, calls>>

SetSourceEnabled(o, s) ==
    /\ op[o] = NoOp /\ s \in Registered /\ Call
    /\ row' = [row EXCEPT ![s].enabled = ~@]
    /\ UNCHANGED <<order, checks, jobs, plan, gate, run, mishaps>>

\* Any of the fields; crawlFrequency is a constant here.
PatchSource(o, s) ==
    /\ op[o] = NoOp /\ s \in Registered /\ Call
    /\ \E e \in BOOLEAN, p \in Priorities \ {row[s].priority} :
          row' = [row EXCEPT ![s].enabled = e, ![s].priority = p]
    /\ UNCHANGED <<order, checks, jobs, plan, gate, run, mishaps>>

\* With its items, its articles and its log (ON DELETE CASCADE); a job of it goes on.
DeleteSource(o, s) ==
    /\ op[o] = NoOp /\ s \in Registered /\ Call
    /\ order' = RemoveAt(order, PlaceOf(s))
    /\ row' = [row EXCEPT ![s] = Gone]
    /\ checked' = [checked EXCEPT ![s] = Unknown]
    /\ logged' = [logged EXCEPT ![s] = {}]
    /\ UNCHANGED <<op, jobs, plan, gate, run, mishaps>>

\* validateOne: a feed is [ok, items, days, ms]; ok is the 2xx answer that parses,
\* days the age of its newest item, -1 if undated.
MaxAgeDays == 120
Verdict(f) == IF f.ok /\ f.items > 0 /\ f.days <= MaxAgeDays THEN "VALID" ELSE "INVALID"

\* health: 100 less the penalties for age, volume and latency.
Penalty(x, steps) == \* the penalty of the first step that x does not pass
    (CHOOSE st \in steps : x <= st[1] /\ \A t \in steps : x <= t[1] => st[1] <= t[1])[2]
Huge == 10^6
HealthScore(f) ==
    100 - (IF f.days < 0 THEN 25
           ELSE Penalty(f.days, {<<1, 0>>, <<7, 5>>, <<30, 15>>, <<90, 30>>, <<Huge, 50>>}))
        - Penalty(-f.items, {<<-20, 0>>, <<-10, 3>>, <<-3, 8>>, <<0, 15>>})
        - Penalty(f.ms, {<<999, 0>>, <<2999, 3>>, <<7999, 8>>, <<Huge, 15>>})

\* Only a feed that was read to the end of the checks, or is stale, gets a score.
Score(f) == IF f.ok /\ f.items > 0 THEN HealthScore(f) ELSE 0
Result(f) == [verdict |-> Verdict(f), score |-> Score(f)]

\* revalidateSource: loads the source, then reads its feed.
Revalidate(o, s) ==
    /\ op[o] = NoOp /\ s \in Registered /\ Call
    /\ \E f \in Feeds : op' = [op EXCEPT ![o] = [at |-> "update", src |-> s, result |-> Result(f)]]
    /\ UNCHANGED <<order, row, checked, logged, jobs, plan, gate, run, mishaps>>

\* sourcetool seed: the candidates that do not pass are skipped.
SeedSource(o, s) ==
    /\ op[o] = NoOp /\ row[s] # Gone /\ Call
    /\ \E f \in Feeds : /\ Verdict(f) = "VALID"
                        /\ op' = [op EXCEPT ![o] = [at |-> "upsert", src |-> s, result |-> Result(f)]]
    /\ UNCHANGED <<order, row, checked, logged, jobs, plan, gate, run, mishaps>>

Mutant_ToLog(o, s) == checked' = [checked EXCEPT ![s] = op[o].result] /\ op' = [op EXCEPT ![o] = NoOp]
ToLog(o, s) ==
    /\ checked' = [checked EXCEPT ![s] = op[o].result]
    /\ op' = [op EXCEPT ![o].at = "log"]

\* A failed statement of a call costs nothing but the call.
GiveUp(o) == /\ mishaps' = mishaps + 1 /\ op' = [op EXCEPT ![o] = NoOp] /\ UNCHANGED <<order, row, checked, logged>>

\* RecordValidation: the row, if there still is one, then the log, in two statements.
UpdateChecked(o) ==
    /\ op[o].at = "update"
    /\ \/ /\ IF op[o].src \in Registered THEN ToLog(o, op[o].src)
             ELSE op' = [op EXCEPT ![o].at = "log"] /\ UNCHANGED checked
          /\ UNCHANGED <<order, row, logged, mishaps>>
       \/ GiveUp(o)
    /\ UNCHANGED <<jobs, plan, gate, run, calls>>

\* SeedValid: an insert counts as fetched just now, a conflict leaves the schedule alone.
\* The url of a source that was deleted since is inserted under an id of its own.
Upsert(o) ==
    /\ op[o].at = "upsert"
    /\ \/ /\ LET s == op[o].src IN
             \/ s \in Registered /\ ToLog(o, s) /\ UNCHANGED <<order, row>>
             \/ \E t \in Sources :
                   /\ s \notin Registered /\ Unused(t) /\ (Unused(s) => t = s)
                   /\ Insert(t, 0, order \o <<t>>)
                   /\ checked' = [checked EXCEPT ![t] = op[o].result]
                   /\ op' = [op EXCEPT ![o].src = t, ![o].at = "log"]
          /\ UNCHANGED <<logged, mishaps>>
       \/ GiveUp(o)
    /\ UNCHANGED <<jobs, plan, gate, run, calls>>

AppendLog(o) ==
    /\ op[o].at = "log"
    /\ \/ /\ IF op[o].src \in Registered
             THEN logged' = [logged EXCEPT ![op[o].src] = @ \cup {op[o].result.verdict}]
             ELSE UNCHANGED logged                  \* refused by the foreign key
          /\ op' = [op EXCEPT ![o] = NoOp]
          /\ UNCHANGED <<order, row, checked, mishaps>>
       \/ GiveUp(o)
    /\ UNCHANGED <<jobs, plan, gate, run, calls>>
-----------------------------------------------------------------------------
Pred(n) == IF n > 0 THEN n - 1 ELSE 0
Succ(n, top) == IF n < top THEN n + 1 ELSE top

\* A tick of time.  Timers fire on time and fetches end within MaxRun.
Elapse ==
    /\ \A w \in Workers : run[w] # Idle =>
          run[w].age < MaxRun /\ (run[w].at = "wait" => run[w].wait > 0)
    /\ row' = [s \in Sources |-> IF s \in Registered
                 THEN [row[s] EXCEPT !.since = Succ(@, Interval), !.cool = Pred(@)] ELSE row[s]]
    /\ next' = [p \in Procs |-> [h \in Hosts |-> Pred(next[p][h])]]
    /\ quiet' = [p \in Procs |-> [h \in Hosts |-> Succ(quiet[p][h], Spacing[h])]]
    /\ run' = [w \in Workers |-> IF run[w] = Idle THEN Idle
                 ELSE [run[w] EXCEPT !.age = @ + 1, !.wait = Pred(@)]]
    /\ UNCHANGED <<order, checks, jobs, plan, counts>>

WorkerStep(w) == StartFetch(w) \/ Request(w) \/ FinishFetch(w)
OperatorCall(o) ==
    \E s \in Sources : CreateSourceREST(o, s) \/ CreateSource(o, s) \/ TriggerFetch(o, s)
                       \/ SetSourceEnabled(o, s) \/ PatchSource(o, s) \/ DeleteSource(o, s)
                       \/ Revalidate(o, s) \/ SeedSource(o, s)
OperatorStep(o) == AskFetch(o) \/ UpdateChecked(o) \/ Upsert(o) \/ AppendLog(o)

SourceNext ==
    \/ Elapse
    \/ \E p \in Procs : ListDue(p) \/ EnqueueNext(p)
    \/ \E w \in Workers : WorkerStep(w) \/ Lose(w)
    \/ \E j \in FetchJobs : Requeue(j)
    \/ \E o \in Operators : OperatorCall(o) \/ OperatorStep(o)

SourceSpec == SourceInit /\ [][SourceNext]_sourceVars

\* Time passes, tickers tick, workers poll and finish, the reaper runs.
FairSourceSpec ==
    /\ SourceSpec
    /\ WF_sourceVars(Elapse)
    /\ \A p \in Procs : WF_sourceVars(ListDue(p) \/ EnqueueNext(p))
    /\ \A w \in Workers : WF_sourceVars(WorkerStep(w))
    /\ \A j \in FetchJobs : WF_sourceVars(Requeue(j))
    /\ \A o \in Operators : WF_sourceVars(AskFetch(o))
-----------------------------------------------------------------------------
(* Properties *)

\* Requests of one process to a paced host are at least its interval apart, however
\* many fetches wait at the gate and whatever their jitter (HostGate.reserve).
Polite ==
    [][\A w \in Workers : Request(w) =>
         quiet[ProcOf[w]][HostOf[run[w].src]] >= Spacing[HostOf[run[w].src]]]_sourceVars

\* Who asks again for a fetch that is unfinished gets none: the jobs of a source that
\* are queued, run or wait for the reaper are of different senders (EnqueueFetchSource,
\* "deduped per source via singleton").  No more fetches of a source overlap, and may
\* record out of order, than there are schedulers and operators.
OneFetchPerSender ==
    /\ \A i, j \in DOMAIN queue : queue[i] = queue[j] => i = j
    /\ \A i \in DOMAIN queue : queue[i] \notin orphans
    /\ \A w \in Workers : run[w] # Idle =>
          Job(w) \notin orphans /\ \A i \in DOMAIN queue : queue[i] # Job(w)
    /\ \A v, w \in Workers : run[v] # Idle /\ run[w] # Idle /\ Job(v) = Job(w) => v = w

\* A source cools only after Threshold recorded failures without a success between
\* (the CASE of MarkSourceFetchFailure, the resets of MarkSourceFetchSuccess).
CooldownEarned ==
    \A s \in Sources : row[s].cool > 0 => row[s].failures >= Threshold

\* Unless a statement failed: the verdict that the source list shows is in the source's
\* log, or an operator has yet to write it there, however many check the source at once
\* and whatever order their statements come in (RecordValidation, SeedValid).
VerdictLogged ==
    mishaps = 0 => \A s \in Registered :
        \/ checked[s].verdict \in logged[s] \cup {"UNKNOWN"}
        \/ \E o \in Operators : /\ op[o].at = "log" /\ op[o].src = s
                                /\ op[o].result.verdict = checked[s].verdict

Wanted(s) ==
    /\ s \in Registered /\ row[s].enabled /\ row[s].since >= Interval
    /\ \A t \in Registered : row[s].priority <= row[t].priority

\* Every due source of the highest priority is fetched: in cooldown or not, although the
\* tick lists no more than TickLimit sources, workers are lost, statements fail and the
\* gate defers (the loop of Scheduler.Tick, ORDER BY of ListDueSources).
EveryDueFetched == \A s \in Sources : Wanted(s) ~> ~Wanted(s)
=============================================================================
