------------------------------- MODULE Ingest -------------------------------
(***************************************************************************)
(* The pipeline from a feed to a match job: the handlers of source.fetch   *)
(* (pipeline/fetch.go), article.process (normalize.go, cluster.go) and     *)
(* signal.enrich (enrich_signal.go) with the enqueues of jobs/workers.go.  *)
(* A handler is a sequence of autocommitted statements and short           *)
(* transactions; each is one step, and any number of workers interleave.   *)
(*                                                                         *)
(* The queue is taken for what JobQueueProofs proves of it: a job is run   *)
(* by one worker at a time, a lost worker's job is queued again, a job     *)
(* whose handler returns an error is failed (these queues have no retries) *)
(* and an operator may queue a failed job again.                           *)
(* Content is abstract: Same(i, j) says that two items have the content    *)
(* hash or canonical URL in common, Alike(i, j) that the Jaccard score of  *)
(* their token sets reaches the threshold.                                 *)
(***************************************************************************)
EXTENDS Naturals, FiniteSets

CONSTANTS
    Items,         \* feed entries, told apart by (source, guid)
    Same(_, _),    \* exact duplicates
    Alike(_, _),   \* similar enough for one signal
    Workers,
    MaxSignals,    \* bound: Signal rows
    MaxFetches,    \* bound: fetch jobs ever sent
    MaxLosses,     \* bound: workers lost in the middle of a job
    MaxFaults      \* bound: statements that fail

Signals == 1..MaxSignals
NoSignal == 0

FetchSteps == {"discover", "store", "send"}
ProcessSteps == {"normalize", "create", "parsed", "cluster", "link", "grouped"}
EnrichSteps == {"load", "apply", "enriched"}
Steps == FetchSteps \cup ProcessSteps \cup EnrichSteps

ASSUME IngestAssumption ==
    /\ IsFiniteSet(Items) /\ IsFiniteSet(Workers)
    /\ \A i, j \in Items : Same(i, j) \in BOOLEAN /\ Alike(i, j) \in BOOLEAN
    /\ \A i \in Items : Same(i, i)
    /\ \A i, j \in Items : Same(i, j) = Same(j, i) /\ Alike(i, j) = Alike(j, i)
    /\ MaxSignals \in Nat /\ MaxFetches \in Nat
    /\ MaxLosses \in Nat /\ MaxFaults \in Nat

\* A job is its queue and its argument.
Fetch == <<"source.fetch">>
Process(i) == <<"article.process", i>>
Enrich(s) == <<"signal.enrich", s>>
Jobs == {Fetch} \cup {Process(i) : i \in Items} \cup {Enrich(s) : s \in Signals}

VARIABLES
    raw,        \* RawItem.status; "none": no row
    articles,   \* the items that have an Article (rawItemId is unique)
    primary,    \* per signal: the PRIMARY article, whose token set it keeps
    links,      \* per signal: SignalArticle rows; {}: no such signal
    applied,    \* per signal: the links its last enrichment was computed from
    announced,  \* per signal: the links some requested match came after
    queued,     \* per job: how many of it are queued
    failed,     \* per job: how many of it have failed, for an operator to retry
    run,        \* per worker: the handler it is in
    fetches, losses, faults,
    stranded    \* the items that a mishap found stored and not sent

tables == <<raw, articles, primary, links, applied, announced>>
ledger == <<fetches, losses, faults, stranded>>
queue == <<queued, failed>>
vars == <<tables, queue, run, ledger>>

\* A handler's locals: its job, its next step, the items it has left to store
\* (store) or to send (send), the signal it found, the links it loaded.
Idle == [at |-> "idle", job |-> Fetch, left |-> {}, new |-> {},
         signal |-> NoSignal, seen |-> {}]

IngestTypeOK ==
    /\ raw \in [Items -> {"none", "PENDING", "PARSED", "DUPLICATE"}]
    /\ articles \subseteq Items
    /\ primary \in [Signals -> SUBSET Items]
    /\ links \in [Signals -> SUBSET Items]
    /\ applied \in [Signals -> SUBSET Items]
    /\ announced \in [Signals -> SUBSET Items]
    /\ queued \in [Jobs -> Nat]
    /\ failed \in [Jobs -> Nat]
    /\ run \in [Workers -> [at : Steps \cup {"idle"}, job : Jobs,
                            left : SUBSET Items, new : SUBSET Items,
                            signal : Signals \cup {NoSignal}, seen : SUBSET Items]]
    /\ fetches \in 0..MaxFetches
    /\ losses \in 0..MaxLosses
    /\ faults \in 0..MaxFaults
    /\ stranded \subseteq Items

IngestInit ==
    /\ raw = [i \in Items |-> "none"]
    /\ articles = {}
    /\ primary = [s \in Signals |-> {}]
    /\ links = [s \in Signals |-> {}]
    /\ applied = [s \in Signals |-> {}]
    /\ announced = [s \in Signals |-> {}]
    /\ queued = [j \in Jobs |-> 0]
    /\ failed = [j \in Jobs |-> 0]
    /\ run = [w \in Workers |-> Idle]
    /\ fetches = 0
    /\ losses = 0
    /\ faults = 0
    /\ stranded = {}

At(w, step) == run[w].at = step
GoTo(w, step) == run' = [run EXCEPT ![w].at = step]
Finish(w) == run' = [run EXCEPT ![w] = Idle]
Enqueue(job) ==
    /\ queued' = [queued EXCEPT ![job] = @ + 1]
    /\ UNCHANGED failed
-----------------------------------------------------------------------------
(* Jobs *)

\* The scheduler or an operator asks for a fetch.  Two fetch jobs of a source
\* may exist at once (JobQueue, SendSingleton).
SendFetch ==
    /\ fetches < MaxFetches
    /\ fetches' = fetches + 1
    /\ Enqueue(Fetch)
    /\ UNCHANGED <<tables, run, losses, faults, stranded>>

Entry(job) == CASE job = Fetch -> "discover"
                [] job \in {Process(i) : i \in Items} -> "normalize"
                [] OTHER -> "load"

Claim(w, job) ==
    /\ At(w, "idle")
    /\ queued[job] > 0
    /\ queued' = [queued EXCEPT ![job] = @ - 1]
    /\ run' = [run EXCEPT ![w] = [Idle EXCEPT !.at = Entry(job), !.job = job]]
    /\ UNCHANGED <<tables, failed, ledger>>

\* The poll loop finds nothing due.
PollEmpty(w) ==
    /\ At(w, "idle")
    /\ \A job \in Jobs : queued[job] = 0
    /\ UNCHANGED vars

\* A handler is cut short before its next statement; the items that it has stored and not
\* sent are known to nobody else.
CutShort(w) ==
    /\ ~ At(w, "idle")
    /\ stranded' = stranded \cup run[w].new
    /\ Finish(w)

\* The worker is gone; the reaper queues its job again.
Lose(w) ==
    /\ CutShort(w)
    /\ losses < MaxLosses
    /\ losses' = losses + 1
    /\ Enqueue(run[w].job)
    /\ UNCHANGED <<tables, fetches, faults>>

\* Mutant: the job of a failed handler is dropped, not marked.
Mutant_FaultForgets(w) ==
    /\ CutShort(w)
    /\ faults < MaxFaults
    /\ faults' = faults + 1
    /\ UNCHANGED <<tables, queue, fetches, losses>>

\* The handler's next statement fails; it returns the error, the job is failed.
Fault(w) ==
    /\ CutShort(w)
    /\ faults < MaxFaults
    /\ faults' = faults + 1
    /\ failed' = [failed EXCEPT ![run[w].job] = @ + 1]
    /\ UNCHANGED <<tables, queued, fetches, losses>>

\* An operator retries a failed job.
RetryJob(job) ==
    /\ failed[job] > 0
    /\ failed' = [failed EXCEPT ![job] = @ - 1]
    /\ queued' = [queued EXCEPT ![job] = @ + 1]
    /\ UNCHANGED <<tables, run, ledger>>
-----------------------------------------------------------------------------
(* source.fetch *)

\* FetchRSSSource: some of the items are in the feed.  A source that is gone
\* or disabled, a throttled or a failed fetch find none.
Discover(w) ==
    /\ At(w, "discover")
    /\ \E S \in SUBSET Items :
          run' = [run EXCEPT ![w].at = "store", ![w].left = S]
    /\ UNCHANGED <<tables, queue, ledger>>

\* Mutant: an item that lost the unique race is processed by its loser too.
Mutant_StoreRacedItem(w, i) ==
    /\ At(w, "store")
    /\ i \in run[w].left
    /\ raw' = [raw EXCEPT ![i] = IF @ = "none" THEN "PENDING" ELSE @]
    /\ run' = [run EXCEPT ![w].left = @ \ {i}, ![w].new = @ \cup {i}]
    /\ UNCHANGED <<articles, primary, links, applied, announced, queue, ledger>>

\* RawItemExists and CreateRawItem: only the insert that makes the row makes
\* the item new.
StoreItem(w, i) ==
    /\ At(w, "store")
    /\ i \in run[w].left
    /\ raw' = [raw EXCEPT ![i] = IF @ = "none" THEN "PENDING" ELSE @]
    /\ run' = [run EXCEPT ![w].left = @ \ {i},
                          ![w].new = IF raw[i] = "none" THEN @ \cup {i} ELSE @]
    /\ UNCHANGED <<articles, primary, links, applied, announced, queue, ledger>>

\* MarkSourceFetchSuccess, after the last item.
Stored(w) ==
    /\ At(w, "store")
    /\ run[w].left = {}
    /\ GoTo(w, "send")
    /\ UNCHANGED <<tables, queue, ledger>>

SendProcess(w, i) ==
    /\ At(w, "send")
    /\ i \in run[w].new
    /\ Enqueue(Process(i))
    /\ run' = [run EXCEPT ![w].new = @ \ {i}]
    /\ UNCHANGED <<tables, ledger>>

\* Mutant: the loop over the new items stops before the last one.
Mutant_FetchDoneEarly(w) ==
    /\ At(w, "send")
    /\ Cardinality(run[w].new) <= 1
    /\ Finish(w)
    /\ UNCHANGED <<tables, queue, ledger>>

FetchDone(w) ==
    /\ At(w, "send")
    /\ run[w].new = {}
    /\ Finish(w)
    /\ UNCHANGED <<tables, queue, ledger>>
-----------------------------------------------------------------------------
(* article.process: NormalizeRawItem *)

ItemOf(w) == CHOOSE i \in Items : run[w].job = Process(i)

\* Mutants: duplicates are looked up among the raw items; never.
Mutant_TwinRaw(i) == \E j \in Items \ {i} : raw[j] # "none" /\ Same(i, j)
Mutant_NoTwin(i) == FALSE

Twin(i) == \E j \in articles : Same(i, j)

\* A raw item a former run of this job has settled.
Resume(w) ==
    /\ At(w, "normalize")
    /\ raw[ItemOf(w)] # "PENDING"
    /\ IF ItemOf(w) \in articles THEN GoTo(w, "cluster") ELSE Finish(w)
    /\ UNCHANGED <<tables, queue, ledger>>

\* FindDuplicateArticle finds one; it does not look whose article that is.
MarkDuplicate(w) ==
    /\ At(w, "normalize")
    /\ raw[ItemOf(w)] = "PENDING"
    /\ Twin(ItemOf(w))
    /\ raw' = [raw EXCEPT ![ItemOf(w)] = "DUPLICATE"]
    /\ Finish(w)
    /\ UNCHANGED <<articles, primary, links, applied, announced, queue, ledger>>

FindNoDuplicate(w) ==
    /\ At(w, "normalize")
    /\ raw[ItemOf(w)] = "PENDING"
    /\ ~ Twin(ItemOf(w))
    /\ GoTo(w, "create")
    /\ UNCHANGED <<tables, queue, ledger>>

CreateArticle(w) ==
    /\ At(w, "create")
    /\ articles' = articles \cup {ItemOf(w)}
    /\ GoTo(w, "parsed")
    /\ UNCHANGED <<raw, primary, links, applied, announced, queue, ledger>>

MarkParsed(w) ==
    /\ At(w, "parsed")
    /\ raw' = [raw EXCEPT ![ItemOf(w)] = "PARSED"]
    /\ GoTo(w, "cluster")
    /\ UNCHANGED <<articles, primary, links, applied, announced, queue, ledger>>
-----------------------------------------------------------------------------
(* article.process: ClusterArticle *)

\* Mutant: enrichment rewrites the signal's metadata without its token set.
Mutant_CandidatesForgotten(i) ==
    {s \in Signals : applied[s] = {} /\ \E p \in primary[s] : Alike(p, i)}

Candidates(i) == {s \in Signals : \E p \in primary[s] : Alike(p, i)}

\* ExistingSignalForArticle, then the best of the recent candidates; the
\* bound on MaxSignals never hides a candidate.
Cluster(w) ==
    /\ At(w, "cluster")
    /\ LET i == ItemOf(w)
           existing == {s \in Signals : i \in links[s]}
       IN  \/ \E s \in existing :
                 run' = [run EXCEPT ![w].at = "grouped", ![w].signal = s]
           \/ /\ existing = {}
              /\ \E s \in Candidates(i) :
                    run' = [run EXCEPT ![w].at = "link", ![w].signal = s]
           \/ /\ existing = {}
              /\ Candidates(i) = {}
              /\ GoTo(w, "link")
    /\ UNCHANGED <<tables, queue, ledger>>

\* Mutant: only a new signal is enriched.
Mutant_AttachSilently(w) ==
    /\ At(w, "link")
    /\ run[w].signal # NoSignal
    /\ links' = [links EXCEPT ![run[w].signal] = @ \cup {ItemOf(w)}]
    /\ Finish(w)
    /\ UNCHANGED <<raw, articles, primary, applied, announced, queue, ledger>>

\* AttachArticleToSignal: one transaction.
Attach(w) ==
    /\ At(w, "link")
    /\ run[w].signal # NoSignal
    /\ links' = [links EXCEPT ![run[w].signal] = @ \cup {ItemOf(w)}]
    /\ GoTo(w, "grouped")
    /\ UNCHANGED <<raw, articles, primary, applied, announced, queue, ledger>>

\* CreateSignalFromArticle: one transaction; s is the fresh id.
CreateSignal(w, s) ==
    /\ At(w, "link")
    /\ run[w].signal = NoSignal
    /\ links[s] = {} /\ \A t \in Signals : t < s => links[t] # {}
    /\ links' = [links EXCEPT ![s] = {ItemOf(w)}]
    /\ primary' = [primary EXCEPT ![s] = {ItemOf(w)}]
    /\ run' = [run EXCEPT ![w].at = "grouped", ![w].signal = s]
    /\ UNCHANGED <<raw, articles, applied, announced, queue, ledger>>

SendEnrich(w) ==
    /\ At(w, "grouped")
    /\ Enqueue(Enrich(run[w].signal))
    /\ Finish(w)
    /\ UNCHANGED <<tables, ledger>>
-----------------------------------------------------------------------------
(* signal.enrich *)

SignalOf(w) == CHOOSE s \in Signals : run[w].job = Enrich(s)

\* LoadSignalForEnrich; crawling and the LLM calls follow.
Load(w) ==
    /\ At(w, "load")
    /\ run' = [run EXCEPT ![w].at = "apply", ![w].seen = links[SignalOf(w)]]
    /\ UNCHANGED <<tables, queue, ledger>>

\* ApplyEnrichment: narrative, confidence, status and attributes are what the
\* loaded links give, whatever was linked or applied since.
Apply(w) ==
    /\ At(w, "apply")
    /\ applied' = [applied EXCEPT ![SignalOf(w)] = run[w].seen]
    /\ GoTo(w, "enriched")
    /\ UNCHANGED <<raw, articles, primary, links, announced, queue, ledger>>

\* The match job is sent; Delivery takes it from there.
SendMatch(w) ==
    /\ At(w, "enriched")
    /\ announced' = [announced EXCEPT ![SignalOf(w)] = @ \cup run[w].seen]
    /\ Finish(w)
    /\ UNCHANGED <<raw, articles, primary, links, applied, queue, ledger>>
-----------------------------------------------------------------------------
FetchStep(w) ==
    \/ Discover(w) \/ Stored(w) \/ FetchDone(w)
    \/ \E i \in Items : StoreItem(w, i) \/ SendProcess(w, i)

ProcessStep(w) ==
    \/ Resume(w) \/ MarkDuplicate(w) \/ FindNoDuplicate(w)
    \/ CreateArticle(w) \/ MarkParsed(w)
    \/ Cluster(w) \/ Attach(w) \/ SendEnrich(w)
    \/ \E s \in Signals : CreateSignal(w, s)

EnrichStep(w) == Load(w) \/ Apply(w) \/ SendMatch(w)

Handler(w) == FetchStep(w) \/ ProcessStep(w) \/ EnrichStep(w)

IngestNext ==
    \/ SendFetch
    \/ \E job \in Jobs : RetryJob(job)
    \/ \E w \in Workers :
          \/ \E job \in Jobs : Claim(w, job)
          \/ PollEmpty(w)
          \/ Handler(w)
          \/ Lose(w)
          \/ Fault(w)

IngestSpec == IngestInit /\ [][IngestNext]_vars

\* Every queue is polled (JobQueue, EveryJobSettles) and handlers go on.
IngestFairness ==
    /\ \A w \in Workers : WF_vars(Handler(w))
    /\ \A job \in Jobs : SF_vars(\E w \in Workers : Claim(w, job))

FairIngestSpec == IngestSpec /\ IngestFairness
-----------------------------------------------------------------------------
(* Properties *)

Runs(job) == {w \in Workers : ~ At(w, "idle") /\ run[w].job = job}
\* The job is queued, running, or on the operator's list of failed jobs.
Open(job) == queued[job] + failed[job] > 0 \/ Runs(job) # {}

\* An item is processed by one job at a time however many fetches of its
\* source overlap: what keeps two runs of ClusterArticle off one article.
OneProcessJob ==
    \A i \in Items :
        queued[Process(i)] + failed[Process(i)] + Cardinality(Runs(Process(i))) <= 1

\* No raw item is stranded but by a mishap between its insert and the enqueue of its job: any
\* other PENDING one is about to be sent to processing or its job is unfinished or failed.
PendingHasJob ==
    \A i \in Items \ stranded : raw[i] = "PENDING" =>
        \/ Open(Process(i))
        \/ \E w \in Workers : i \in run[w].new

\* Every link of a signal reaches a match: one has been asked for that came
\* after an enrichment which saw the link, or work that leads there is left,
\* through any number of lost workers.
AnnouncedOrComing ==
    \A s \in Signals : \A i \in links[s] \ announced[s] :
        \/ Open(Process(i))
        \/ queued[Enrich(s)] + failed[Enrich(s)] > 0
        \/ \E w \in Runs(Enrich(s)) : At(w, "load") \/ i \in run[w].seen

\* "Exact dedupe" and "one source-backed event" (README.md:57): look-ups and inserts of several
\* workers interleave, so one page may have several articles and one story several signals, each
\* started by an article of its own, but never more than there are workers.
Started == UNION {primary[s] : s \in Signals}
Pairwise(S, R(_, _)) == \A i, j \in S : i # j => R(i, j)
CopiesBounded ==
    \A S \in SUBSET articles : Pairwise(S, Same) => Cardinality(S) <= Cardinality(Workers)
StoriesBounded ==
    \A S \in SUBSET Started : Pairwise(S, Alike) => Cardinality(S) <= Cardinality(Workers)

\* The fate of each item as its reader knows it.
Grouped(i) == {s \in Signals : i \in links[s]}
Stage ==
    [i \in Items |->
        IF \E s \in Signals : i \in announced[s] THEN "announced"
        ELSE IF Grouped(i) # {} THEN "grouped"
        ELSE CASE raw[i] = "none" -> "absent"
               [] raw[i] = "DUPLICATE" -> IF i \in articles THEN "lost" ELSE "dropped"
               [] OTHER -> "stored"]
SignalOfItem ==
    [i \in Items |-> IF Grouped(i) = {} THEN NoSignal ELSE CHOOSE s \in Grouped(i) : TRUE]
Flow == INSTANCE ItemFlow WITH
    Item <- Items, Group <- Signals, Mishaps <- MaxLosses + MaxFaults,
    stage <- Stage, group <- SignalOfItem

\* Storing, dropping, joining and announcing are all that happens to an item, in that order: a
\* dropped item has a twin that is an article, a link is for good, and a mishap loses at most
\* one item, which its own article passes off as a duplicate.
ImplementsFlow == Flow!FlowSpec

\* Every stored item is dropped as a duplicate or reaches a match job, unless a mishap stranded
\* it or a job that it needs is on the operator's list of failed ones.
Stopped(i) ==
    failed[Process(i)] > 0 \/ \E s \in Signals : i \in links[s] /\ failed[Enrich(s)] > 0
EveryItemArrives ==
    \A i \in Items :
        raw[i] # "none" ~>
            \/ raw[i] = "DUPLICATE" \/ \E s \in Signals : i \in announced[s]
            \/ i \in stranded \/ Stopped(i)
=============================================================================
