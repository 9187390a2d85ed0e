---------------------------- MODULE IngestProofs ----------------------------
(***************************************************************************)
(* Theorems about Ingest, for any number of items, workers and signals:    *)
(* what the runs `ingest', `ingest_copies' and `ingest_stories' check of   *)
(* the pipeline's safety, that it implements ItemFlow, and what the forms  *)
(* that dedupe and clustering compare are.                                 *)
(***************************************************************************)
EXTENDS Ingest, Similarity, FiniteSetTheorems, TLAPS

-----------------------------------------------------------------------------
(* Jobs *)

LEMMA JobsDiffer ==
    /\ \A i \in Items : Process(i) # Fetch
    /\ \A s \in Signals : Enrich(s) # Fetch
    /\ \A i \in Items, s \in Signals : Process(i) # Enrich(s)
    /\ \A i, j \in Items : Process(i) = Process(j) => i = j
    /\ \A s, t \in Signals : Enrich(s) = Enrich(t) => s = t
  BY DEF Fetch, Process, Enrich

LEMMA JobsAre ==
    /\ Fetch \in Jobs
    /\ \A i \in Items : Process(i) \in Jobs
    /\ \A s \in Signals : Enrich(s) \in Jobs
    /\ \A job \in Jobs : \/ job = Fetch
                         \/ \E i \in Items : job = Process(i)
                         \/ \E s \in Signals : job = Enrich(s)
  BY DEF Jobs

LEMMA EntryIs ==
    /\ Entry(Fetch) = "discover"
    /\ \A i \in Items : Entry(Process(i)) = "normalize"
    /\ \A s \in Signals : Entry(Enrich(s)) = "load"
<1>1. Entry(Fetch) = "discover"
  BY JobsDiffer DEF Entry
<1>2. ASSUME NEW i \in Items PROVE Entry(Process(i)) = "normalize"
  BY JobsDiffer DEF Entry
<1>3. ASSUME NEW s \in Signals PROVE Entry(Enrich(s)) = "load"
  <2>1. Enrich(s) # Fetch /\ Enrich(s) \notin {Process(i) : i \in Items}
    BY JobsDiffer
  <2> QED
    BY <2>1 DEF Entry
<1> QED
  BY <1>1, <1>2, <1>3

LEMMA ItemOfJob ==
    ASSUME NEW w \in Workers, NEW i \in Items, run[w].job = Process(i)
    PROVE  ItemOf(w) = i
  BY JobsDiffer DEF ItemOf

LEMMA SignalOfJob ==
    ASSUME NEW w \in Workers, NEW s \in Signals, run[w].job = Enrich(s)
    PROVE  SignalOf(w) = s
  BY JobsDiffer DEF SignalOf

-----------------------------------------------------------------------------
(* Types, and where a handler can be *)

Places == Steps \cup {"idle"}
Handlers == [at : Places, job : Jobs, left : SUBSET Items, new : SUBSET Items,
             signal : Signals \cup {NoSignal}, seen : SUBSET Items]

\* Which steps belong to which job, and what a step has in hand.
HandlerFits(h) ==
    /\ h.at = "idle" => h.job = Fetch
    /\ h.at \in FetchSteps => h.job = Fetch
    /\ h.at \in ProcessSteps => \E i \in Items : h.job = Process(i)
    /\ h.at \in EnrichSteps => \E s \in Signals : h.job = Enrich(s)
    /\ h.new # {} => h.at \in {"store", "send"}
    /\ h.at = "grouped" => h.signal \in Signals

Fits == IngestTypeOK /\ \A w \in Workers : HandlerFits(run[w])

LEMMA IdleFits == Idle \in Handlers /\ HandlerFits(Idle) /\ Idle.at = "idle" /\ Idle.job = Fetch /\ Idle.new = {}
<1>1. Idle \in Handlers
  BY JobsAre DEF Idle, Handlers, Places
<1>2. Idle.at = "idle" /\ Idle.job = Fetch /\ Idle.new = {}
  BY DEF Idle
<1> QED
  BY <1>1, <1>2 DEF HandlerFits, FetchSteps, ProcessSteps, EnrichSteps

LEMMA HandlerUpdate ==
    ASSUME NEW h \in Handlers, NEW x \in Places, NEW S \in SUBSET Items,
           NEW s \in Signals \cup {NoSignal}
    PROVE  /\ [h EXCEPT !.at = x] \in Handlers
           /\ [h EXCEPT !.at = x, !.left = S] \in Handlers
           /\ [h EXCEPT !.at = x, !.seen = S] \in Handlers
           /\ [h EXCEPT !.at = x, !.signal = s] \in Handlers
           /\ [h EXCEPT !.new = S] \in Handlers
           /\ \A T \in SUBSET Items : [h EXCEPT !.left = T, !.new = S] \in Handlers
<1> QED
  BY DEF Handlers

LEMMA PlacesAre == Steps \subseteq Places /\ "idle" \in Places
  BY DEF Places

LEMMA FitsInit == ASSUME IngestInit PROVE Fits
<1>1. MaxFetches \in Nat /\ MaxLosses \in Nat /\ MaxFaults \in Nat
  BY IngestAssumption
<1>2. IngestTypeOK
  BY <1>1, IdleFits DEF IngestTypeOK, IngestInit, Handlers, Places
<1>3. \A w \in Workers : HandlerFits(run[w])
  BY IdleFits DEF IngestInit
<1> QED
  BY <1>2, <1>3 DEF Fits

LEMMA RunFits ==
    ASSUME Fits, NEW w \in Workers, NEW h \in Handlers, HandlerFits(h),
           run' = [run EXCEPT ![w] = h]
    PROVE  run' \in [Workers -> Handlers] /\ \A v \in Workers : HandlerFits(run'[v])
<1>1. run \in [Workers -> Handlers] /\ \A v \in Workers : HandlerFits(run[v])
  BY DEF Fits, IngestTypeOK, Handlers, Places
<1>2. \A v \in Workers : run'[v] = IF v = w THEN h ELSE run[v]
  BY <1>1
<1>3. run' \in [Workers -> Handlers]
  BY <1>1
<1> QED
  BY <1>1, <1>2, <1>3

\* What a handler goes on with: its own step, of the same job.
LEMMA StepFits ==
    ASSUME Fits, NEW w \in Workers, NEW h \in Handlers, run' = [run EXCEPT ![w] = h],
           h.job = run[w].job, h.new # {} => h.at \in {"store", "send"},
           h.at = "grouped" => h.signal \in Signals,
           \/ run[w].at \in FetchSteps /\ h.at \in FetchSteps
           \/ run[w].at \in ProcessSteps /\ h.at \in ProcessSteps
           \/ run[w].at \in EnrichSteps /\ h.at \in EnrichSteps
    PROVE  run' \in [Workers -> Handlers] /\ \A v \in Workers : HandlerFits(run'[v])
<1>1. HandlerFits(run[w])
  BY DEF Fits
<1>2. HandlerFits(h)
  BY <1>1 DEF HandlerFits, FetchSteps, ProcessSteps, EnrichSteps
<1> QED
  BY <1>2, RunFits

LEMMA FinishFits ==
    ASSUME Fits, NEW w \in Workers, Finish(w)
    PROVE  run' \in [Workers -> Handlers] /\ \A v \in Workers : HandlerFits(run'[v])
  BY IdleFits, RunFits DEF Finish

LEMMA TablesFit ==
    ASSUME Fits,
           raw' \in [Items -> {"none", "PENDING", "PARSED", "DUPLICATE"}], articles' \subseteq Items,
           primary' \in [Signals -> SUBSET Items], links' \in [Signals -> SUBSET Items],
           applied' \in [Signals -> SUBSET Items], announced' \in [Signals -> SUBSET Items],
           queued' \in [Jobs -> Nat], failed' \in [Jobs -> Nat],
           run' \in [Workers -> Handlers] /\ \A v \in Workers : HandlerFits(run'[v]),
           fetches' \in 0..MaxFetches, losses' \in 0..MaxLosses, faults' \in 0..MaxFaults,
           stranded' \subseteq Items
    PROVE  Fits'
  BY DEF Fits, IngestTypeOK, Handlers, Places

LEMMA FitsStep == ASSUME Fits, [IngestNext]_vars PROVE Fits'
<1>t. /\ raw \in [Items -> {"none", "PENDING", "PARSED", "DUPLICATE"}] /\ articles \subseteq Items
      /\ primary \in [Signals -> SUBSET Items] /\ links \in [Signals -> SUBSET Items]
      /\ applied \in [Signals -> SUBSET Items] /\ announced \in [Signals -> SUBSET Items]
      /\ queued \in [Jobs -> Nat] /\ failed \in [Jobs -> Nat]
      /\ run \in [Workers -> Handlers] /\ \A v \in Workers : HandlerFits(run[v])
      /\ fetches \in 0..MaxFetches /\ losses \in 0..MaxLosses /\ faults \in 0..MaxFaults
      /\ stranded \subseteq Items
  BY DEF Fits, IngestTypeOK, Handlers, Places
<1>a. MaxFetches \in Nat /\ MaxLosses \in Nat /\ MaxFaults \in Nat
  BY IngestAssumption
<1>h. \A w \in Workers : run[w] \in Handlers /\ HandlerFits(run[w])
  BY <1>t
<1>p. Steps \subseteq Places
  BY PlacesAre
<1>1. CASE SendFetch
  BY <1>t, <1>a, <1>1, JobsAre, TablesFit DEF SendFetch, Enqueue, tables
<1>2. ASSUME NEW job \in Jobs, RetryJob(job) PROVE Fits'
  BY <1>t, <1>2, TablesFit DEF RetryJob, tables, ledger
<1>3. ASSUME NEW w \in Workers, NEW job \in Jobs, Claim(w, job) PROVE Fits'
  <2>1. PICK h : h = [Idle EXCEPT !.at = Entry(job), !.job = job]
    OBVIOUS
  <2>2. Entry(job) \in {"discover", "normalize", "load"}
    BY EntryIs, JobsAre
  <2>3. h \in Handlers
    BY <2>1, <2>2, IdleFits DEF Handlers, Places, Steps, FetchSteps, ProcessSteps, EnrichSteps
  <2>4. h.at = Entry(job) /\ h.job = job /\ h.new = {}
    BY <2>1 DEF Idle
  <2>5. /\ Entry(job) \in FetchSteps => job = Fetch
        /\ Entry(job) \in ProcessSteps => \E i \in Items : job = Process(i)
        /\ Entry(job) \in EnrichSteps => \E s \in Signals : job = Enrich(s)
    BY EntryIs, JobsAre DEF FetchSteps, ProcessSteps, EnrichSteps
  <2>6. HandlerFits(h)
    BY <2>2, <2>4, <2>5 DEF HandlerFits
  <2>7. run' \in [Workers -> Handlers] /\ \A v \in Workers : HandlerFits(run'[v])
    BY <1>3, <2>1, <2>3, <2>6, RunFits DEF Claim
  <2> QED
    BY <1>t, <1>3, <2>7, TablesFit DEF Claim, tables, ledger
<1>4. ASSUME NEW w \in Workers, PollEmpty(w) PROVE Fits'
  BY <1>t, <1>4, TablesFit DEF PollEmpty, vars, tables, queue, ledger
<1>5. ASSUME NEW w \in Workers, Lose(w) PROVE Fits'
  <2>1. run[w].job \in Jobs /\ run[w].new \subseteq Items
    BY <1>h DEF Handlers
  <2>2. stranded' \subseteq Items
    BY <1>t, <2>1, <1>5 DEF Lose, CutShort
  <2> QED
    BY <1>t, <1>a, <1>5, <2>1, FinishFits, TablesFit, <2>2 DEF Lose, CutShort, Enqueue, tables
<1>6. ASSUME NEW w \in Workers, Fault(w) PROVE Fits'
  <2>1. run[w].job \in Jobs /\ run[w].new \subseteq Items
    BY <1>h DEF Handlers
  <2>2. stranded' \subseteq Items
    BY <1>t, <2>1, <1>6 DEF Fault, CutShort
  <2> QED
    BY <1>t, <1>a, <1>6, <2>1, FinishFits, TablesFit, <2>2 DEF Fault, CutShort, tables
<1>7. ASSUME NEW w \in Workers, FetchStep(w) PROVE Fits'
  <2> DEFINE h == run[w]
  <2>h. h \in Handlers /\ HandlerFits(h) /\ h.new \subseteq Items /\ h.left \subseteq Items
    BY <1>h DEF Handlers
  <2>1. CASE Discover(w)
    <3>1. PICK S \in SUBSET Items : run' = [run EXCEPT ![w] = [h EXCEPT !.at = "store", !.left = S]]
      BY <2>1 DEF Discover
    <3>2. [h EXCEPT !.at = "store", !.left = S] \in Handlers
      BY <2>h, HandlerUpdate, <1>p DEF Steps, FetchSteps
    <3>3. run' \in [Workers -> Handlers] /\ \A v \in Workers : HandlerFits(run'[v])
      BY <2>1, <3>1, <3>2, StepFits DEF Discover, At, FetchSteps, Handlers
    <3> QED
      BY <1>t, <2>1, <3>3, TablesFit DEF Discover, tables, queue, ledger
  <2>2. CASE Stored(w)
    <3>1. [h EXCEPT !.at = "send"] \in Handlers
      BY <2>h, HandlerUpdate, <1>p DEF Steps, FetchSteps
    <3>2. run' \in [Workers -> Handlers] /\ \A v \in Workers : HandlerFits(run'[v])
      BY <2>2, <3>1, StepFits DEF Stored, At, GoTo, FetchSteps, Handlers
    <3> QED
      BY <1>t, <2>2, <3>2, TablesFit DEF Stored, tables, queue, ledger
  <2>3. CASE FetchDone(w)
    BY <1>t, <2>3, FinishFits, TablesFit DEF FetchDone, tables, queue, ledger
  <2>4. ASSUME NEW i \in Items, StoreItem(w, i) PROVE Fits'
    <3>1. PICK S \in SUBSET Items, T \in SUBSET Items :
             run' = [run EXCEPT ![w] = [h EXCEPT !.left = S, !.new = T]]
      BY <2>h, <2>4 DEF StoreItem
    <3>2. [h EXCEPT !.left = S, !.new = T] \in Handlers
      BY <2>h, HandlerUpdate DEF Handlers
    <3>3. run' \in [Workers -> Handlers] /\ \A v \in Workers : HandlerFits(run'[v])
      BY <2>4, <3>1, <3>2, StepFits DEF StoreItem, At, FetchSteps, Handlers
    <3> QED
      BY <1>t, <2>4, <3>3, TablesFit DEF StoreItem, tables, queue, ledger
  <2>5. ASSUME NEW i \in Items, SendProcess(w, i) PROVE Fits'
    <3>1. PICK T \in SUBSET Items : run' = [run EXCEPT ![w] = [h EXCEPT !.new = T]]
      BY <2>h, <2>5 DEF SendProcess
    <3>2. [h EXCEPT !.new = T] \in Handlers
      BY <2>h DEF Handlers
    <3>3. run' \in [Workers -> Handlers] /\ \A v \in Workers : HandlerFits(run'[v])
      BY <2>5, <3>1, <3>2, StepFits DEF SendProcess, At, FetchSteps, Handlers
    <3>4. queued' \in [Jobs -> Nat]
      BY <1>t, <2>5, JobsAre DEF SendProcess, Enqueue
    <3> QED
      BY <1>t, <2>5, <3>3, <3>4, TablesFit DEF SendProcess, Enqueue, tables, ledger
  <2> QED
    BY <1>7, <2>1, <2>2, <2>3, <2>4, <2>5 DEF FetchStep
<1>8. ASSUME NEW w \in Workers, ProcessStep(w) PROVE Fits'
  <2> DEFINE h == run[w]
  <2>h. h \in Handlers /\ HandlerFits(h)
    BY <1>h
  <2>x. h.at \in ProcessSteps
    BY <1>8 DEF ProcessStep, ProcessSteps, At, Resume, MarkDuplicate, FindNoDuplicate,
                CreateArticle, MarkParsed, Cluster, Attach, SendEnrich, CreateSignal
  <2>n. h.new = {} /\ \E i \in Items : h.job = Process(i)
    BY <2>h, <2>x DEF HandlerFits, ProcessSteps
  <2>i. PICK i \in Items : run[w].job = Process(i)
    BY <2>n
  <2>j. ItemOf(w) = i
    BY <2>i, ItemOfJob
  <2>g. ASSUME NEW x \in ProcessSteps \ {"grouped"}, run' = [run EXCEPT ![w] = [h EXCEPT !.at = x]]
        PROVE  run' \in [Workers -> Handlers] /\ \A v \in Workers : HandlerFits(run'[v])
    <3>1. [h EXCEPT !.at = x] \in Handlers
      BY <2>h, HandlerUpdate, <1>p DEF Steps
    <3> QED
      BY <2>g, <2>h, <2>x, <2>n, <3>1, StepFits DEF Handlers
  <2>s. ASSUME NEW s \in Signals, NEW x \in ProcessSteps,
               run' = [run EXCEPT ![w] = [h EXCEPT !.at = x, !.signal = s]]
        PROVE  run' \in [Workers -> Handlers] /\ \A v \in Workers : HandlerFits(run'[v])
    <3>1. [h EXCEPT !.at = x, !.signal = s] \in Handlers
      BY <2>h, HandlerUpdate, <1>p DEF Steps
    <3> QED
      BY <2>s, <2>h, <2>x, <2>n, <3>1, StepFits DEF Handlers
  <2>1. CASE Resume(w)
    <3>1. run' \in [Workers -> Handlers] /\ \A v \in Workers : HandlerFits(run'[v])
      BY <2>1, <2>g, FinishFits DEF Resume, GoTo, ProcessSteps
    <3> QED
      BY <1>t, <2>1, <3>1, TablesFit DEF Resume, tables, queue, ledger
  <2>2. CASE MarkDuplicate(w)
    BY <1>t, <2>2, FinishFits, TablesFit DEF MarkDuplicate, queue, ledger
  <2>3. CASE FindNoDuplicate(w)
    <3>1. run' \in [Workers -> Handlers] /\ \A v \in Workers : HandlerFits(run'[v])
      BY <2>3, <2>g DEF FindNoDuplicate, GoTo, ProcessSteps
    <3> QED
      BY <1>t, <2>3, <3>1, TablesFit DEF FindNoDuplicate, tables, queue, ledger
  <2>4. CASE CreateArticle(w)
    <3>1. run' \in [Workers -> Handlers] /\ \A v \in Workers : HandlerFits(run'[v])
      BY <2>4, <2>g DEF CreateArticle, GoTo, ProcessSteps
    <3> QED
      BY <1>t, <2>4, <2>j, <3>1, TablesFit DEF CreateArticle, queue, ledger
  <2>5. CASE MarkParsed(w)
    <3>1. run' \in [Workers -> Handlers] /\ \A v \in Workers : HandlerFits(run'[v])
      BY <2>5, <2>g DEF MarkParsed, GoTo, ProcessSteps
    <3> QED
      BY <1>t, <2>5, <3>1, TablesFit DEF MarkParsed, queue, ledger
  <2>6. CASE Cluster(w)
    <3>1. \/ \E s \in Signals : run' = [run EXCEPT ![w] = [h EXCEPT !.at = "grouped", !.signal = s]]
          \/ \E s \in Signals : run' = [run EXCEPT ![w] = [h EXCEPT !.at = "link", !.signal = s]]
          \/ run' = [run EXCEPT ![w] = [h EXCEPT !.at = "link"]]
      BY <2>6 DEF Cluster, Candidates, GoTo
    <3>3. run' \in [Workers -> Handlers] /\ \A v \in Workers : HandlerFits(run'[v])
      BY <3>1, <2>g, <2>s DEF ProcessSteps
    <3> QED
      BY <1>t, <2>6, <3>3, TablesFit DEF Cluster, tables, queue, ledger
  <2>7. CASE Attach(w)
    <3>1. run[w].signal \in Signals
      BY <2>h, <2>7 DEF Attach, Handlers
    <3>2. [h EXCEPT !.at = "grouped"] \in Handlers
      BY <2>h, HandlerUpdate, <1>p DEF Steps, ProcessSteps
    <3>3. run' \in [Workers -> Handlers] /\ \A v \in Workers : HandlerFits(run'[v])
      BY <2>7, <2>h, <2>x, <2>n, <3>1, <3>2, StepFits DEF Attach, GoTo, Handlers, ProcessSteps
    <3>4. links' \in [Signals -> SUBSET Items]
      BY <1>t, <2>7, <2>j, <3>1 DEF Attach
    <3> QED
      BY <1>t, <2>7, <3>3, <3>4, TablesFit DEF Attach, queue, ledger
  <2>8. CASE SendEnrich(w)
    <3>1. queued' \in [Jobs -> Nat]
      BY <1>t, <2>8, <2>h, JobsAre DEF SendEnrich, Enqueue, HandlerFits, At
    <3> QED
      BY <1>t, <2>8, <3>1, FinishFits, TablesFit DEF SendEnrich, Enqueue, tables, ledger
  <2>9. ASSUME NEW s \in Signals, CreateSignal(w, s) PROVE Fits'
    <3>1. run' \in [Workers -> Handlers] /\ \A v \in Workers : HandlerFits(run'[v])
      BY <2>9, <2>s DEF CreateSignal, ProcessSteps
    <3>2. links' \in [Signals -> SUBSET Items] /\ primary' \in [Signals -> SUBSET Items]
      BY <1>t, <2>9, <2>j DEF CreateSignal
    <3> QED
      BY <1>t, <2>9, <3>1, <3>2, TablesFit DEF CreateSignal, queue, ledger
  <2> QED
    BY <1>8, <2>1, <2>2, <2>3, <2>4, <2>5, <2>6, <2>7, <2>8, <2>9 DEF ProcessStep
<1>9. ASSUME NEW w \in Workers, EnrichStep(w) PROVE Fits'
  <2> DEFINE h == run[w]
  <2>h. h \in Handlers /\ HandlerFits(h)
    BY <1>h
  <2>x. h.at \in EnrichSteps
    BY <1>9 DEF EnrichStep, EnrichSteps, At, Load, Apply, SendMatch
  <2>n. h.new = {} /\ h.seen \subseteq Items
    BY <2>h, <2>x DEF HandlerFits, EnrichSteps, Handlers
  <2>1. PICK s \in Signals : run[w].job = Enrich(s)
    BY <2>h, <2>x DEF HandlerFits
  <2>2. SignalOf(w) = s
    BY <2>1, SignalOfJob
  <2>3. CASE Load(w)
    <3>1. [h EXCEPT !.at = "apply", !.seen = links[s]] \in Handlers
      BY <1>t, <2>h, HandlerUpdate, <1>p DEF Steps, EnrichSteps
    <3>e. run' = [run EXCEPT ![w] = [h EXCEPT !.at = "apply", !.seen = links[s]]]
      BY <2>2, <2>3 DEF Load
    <3>2. run' \in [Workers -> Handlers] /\ \A v \in Workers : HandlerFits(run'[v])
      BY <3>e, <2>h, <2>x, <2>n, <3>1, StepFits DEF EnrichSteps, Handlers
    <3> QED
      BY <1>t, <2>3, <3>2, TablesFit DEF Load, tables, queue, ledger
  <2>4. CASE Apply(w)
    <3>1. [h EXCEPT !.at = "enriched"] \in Handlers
      BY <2>h, HandlerUpdate, <1>p DEF Steps, EnrichSteps
    <3>2. run' \in [Workers -> Handlers] /\ \A v \in Workers : HandlerFits(run'[v])
      BY <2>4, <2>h, <2>x, <2>n, <3>1, StepFits DEF Apply, GoTo, EnrichSteps, Handlers
    <3> QED
      BY <1>t, <2>2, <2>4, <2>n, <3>2, TablesFit DEF Apply, queue, ledger
  <2>5. CASE SendMatch(w)
    <3>1. announced' \in [Signals -> SUBSET Items]
      BY <1>t, <2>2, <2>5, <2>n DEF SendMatch
    <3> QED
      BY <1>t, <2>5, <3>1, FinishFits, TablesFit DEF SendMatch, queue, ledger
  <2> QED
    BY <1>9, <2>3, <2>4, <2>5 DEF EnrichStep
<1>10. CASE UNCHANGED vars
  BY <1>t, <1>10, TablesFit DEF vars, tables, queue, ledger
<1> QED
  BY <1>1, <1>2, <1>3, <1>4, <1>5, <1>6, <1>7, <1>8, <1>9, <1>10 DEF IngestNext, Handler

\* The tables, queues and handlers keep their types, and a handler is in a step of its job.
THEOREM IngestTypes == IngestSpec => []IngestTypeOK
<1>1. IngestInit => Fits
  BY FitsInit
<1>2. Fits /\ [IngestNext]_vars => Fits'
  BY FitsStep
<1>3. Fits => IngestTypeOK
  BY DEF Fits
<1> QED
  BY <1>1, <1>2, <1>3, PTL DEF IngestSpec

-----------------------------------------------------------------------------
(* An item has one job at most *)

\* Worker w has item i in hand: to send it, or in its own job.
Holds(w, i) == run[w].job = Process(i) \/ i \in run[w].new
Waiting(i) == queued[Process(i)] + failed[Process(i)]

\* Only the fetch whose insert made the row sends the item, and what is sent is run by one
\* worker at a time.
OneHolder(i) ==
    /\ Waiting(i) <= 1
    /\ \A v, w \in Workers : Holds(v, i) /\ Holds(w, i) => v = w
    /\ Waiting(i) = 1 => \A w \in Workers : ~ Holds(w, i)
    /\ raw[i] \in {"none", "DUPLICATE"} => Waiting(i) = 0 /\ \A w \in Workers : ~ Holds(w, i)

\* What a handler in the middle of its job leaves to the others, and keeps.
Continues(w) ==
    \/ Stored(w) \/ Discover(w) \/ FindNoDuplicate(w) \/ CreateArticle(w) \/ MarkParsed(w)
    \/ Cluster(w) \/ Attach(w) \/ (\E s \in Signals : CreateSignal(w, s)) \/ Load(w) \/ Apply(w)
    \/ Resume(w) /\ GoTo(w, "cluster")

\* The handler returns without an error.
Returns(w) ==
    \/ FetchDone(w) \/ MarkDuplicate(w) \/ SendEnrich(w) \/ SendMatch(w)
    \/ Resume(w) /\ Finish(w)

LEMMA HandlerIs ==
    ASSUME NEW w \in Workers, Handler(w)
    PROVE  \/ Continues(w) \/ Returns(w)
           \/ \E i \in Items : StoreItem(w, i) \/ SendProcess(w, i)
  BY DEF Handler, FetchStep, ProcessStep, EnrichStep, Continues, Returns, Resume

LEMMA WaitingIsNat ==
    ASSUME Fits, NEW i \in Items
    PROVE  /\ Waiting(i) \in Nat /\ queued[Process(i)] \in Nat /\ failed[Process(i)] \in Nat
           /\ raw[i] \in {"none", "PENDING", "PARSED", "DUPLICATE"}
  BY JobsAre DEF Fits, IngestTypeOK, Waiting

LEMMA ContinuesKeeps ==
    ASSUME Fits, NEW w \in Workers, Continues(w)
    PROVE  /\ \A v \in Workers : run'[v].job = run[v].job /\ run'[v].new = run[v].new
           /\ \A v \in Workers \ {w} : run'[v] = run[v]
           /\ UNCHANGED queue
           /\ \/ UNCHANGED raw
              \/ run[w].at = "parsed" /\ raw' = [raw EXCEPT ![ItemOf(w)] = "PARSED"]
<1>1. run \in [Workers -> Handlers]
  BY DEF Fits, IngestTypeOK, Handlers, Places
<1> USE <1>1 DEF Handlers, At, GoTo, tables
<1>2. CASE Stored(w) \/ Discover(w)
  BY <1>2 DEF Stored, Discover
<1>3. CASE FindNoDuplicate(w) \/ CreateArticle(w) \/ MarkParsed(w)
  BY <1>3 DEF FindNoDuplicate, CreateArticle, MarkParsed
<1>4. CASE Cluster(w)
  BY <1>4 DEF Cluster
<1>5. CASE Attach(w) \/ \E s \in Signals : CreateSignal(w, s)
  BY <1>5 DEF Attach, CreateSignal
<1>6. CASE Load(w) \/ Apply(w)
  BY <1>6 DEF Load, Apply
<1>7. CASE Resume(w) /\ GoTo(w, "cluster")
  BY <1>7 DEF Resume
<1> QED
  BY <1>2, <1>3, <1>4, <1>5, <1>6, <1>7 DEF Continues

LEMMA FinishKeeps ==
    ASSUME Fits, NEW w \in Workers, Finish(w)
    PROVE  /\ \A v \in Workers \ {w} : run'[v] = run[v]
           /\ run'[w] = Idle
           /\ \A i \in Items : ~ Holds(w, i)'
<1>1. run \in [Workers -> Handlers]
  BY DEF Fits, IngestTypeOK, Handlers, Places
<1> QED
  BY <1>1, IdleFits, JobsDiffer DEF Finish, Holds

LEMMA OneHolderInit == ASSUME IngestInit, NEW i \in Items PROVE OneHolder(i)
  BY JobsAre, JobsDiffer, IdleFits DEF IngestInit, OneHolder, Waiting, Holds

LEMMA OneHolderStep ==
    ASSUME Fits, [IngestNext]_vars, \A j \in Items : OneHolder(j), NEW i \in Items
    PROVE  OneHolder(i)'
<1>f. Fits'
  BY FitsStep
<1>t. run \in [Workers -> Handlers] /\ queued \in [Jobs -> Nat] /\ failed \in [Jobs -> Nat]
  BY DEF Fits, IngestTypeOK, Handlers, Places
<1>w. /\ Waiting(i) \in Nat /\ queued[Process(i)] \in Nat /\ failed[Process(i)] \in Nat
      /\ raw[i] \in {"none", "PENDING", "PARSED", "DUPLICATE"}
  BY WaitingIsNat
<1>o. OneHolder(i)
  OBVIOUS
<1>r. \A w \in Workers : run[w] \in Handlers /\ HandlerFits(run[w])
  BY DEF Fits, IngestTypeOK, Handlers, Places
<1>p. Process(i) \in Jobs
  BY JobsAre
<1>1. CASE SendFetch
  <2>1. Waiting(i)' = Waiting(i) /\ UNCHANGED <<raw, run>>
    BY <1>1, <1>t, <1>p, JobsAre, JobsDiffer DEF SendFetch, Enqueue, Waiting, tables
  <2> QED
    BY <1>o, <2>1 DEF OneHolder, Holds
<1>2. ASSUME NEW job \in Jobs, RetryJob(job) PROVE OneHolder(i)'
  <2>1. failed[job] \in Nat /\ failed[job] > 0 /\ queued[job] \in Nat
    BY <1>2, <1>t DEF RetryJob
  <2>2. Waiting(i)' = Waiting(i)
    BY <1>2, <1>t, <1>p, <1>w, <2>1 DEF RetryJob, Waiting
  <2> QED
    BY <1>2, <1>o, <2>2 DEF OneHolder, Holds, RetryJob, tables
<1>3. ASSUME NEW w \in Workers, NEW job \in Jobs, Claim(w, job) PROVE OneHolder(i)'
  <2>1. /\ \A v \in Workers \ {w} : run'[v] = run[v]
        /\ run'[w].job = job /\ run'[w].new = {} /\ UNCHANGED <<raw, failed>>
    BY <1>3, <1>t, IdleFits DEF Claim, Handlers, tables
  <2>2. CASE job = Process(i)
    <3>1. Waiting(i) = 1 /\ queued'[Process(i)] = queued[Process(i)] - 1
      BY <1>3, <1>t, <1>w, <1>o, <2>2 DEF Claim, OneHolder, Waiting
    <3>2. Waiting(i)' = 0
      BY <2>1, <3>1, <1>w DEF Waiting
    <3>3. \A v \in Workers \ {w} : ~ Holds(v, i)'
      BY <1>o, <2>1, <3>1 DEF OneHolder, Holds
    <3>4. raw'[i] \notin {"none", "DUPLICATE"}
      BY <1>o, <2>1, <3>1 DEF OneHolder
    <3> QED
      BY <3>2, <3>3, <3>4 DEF OneHolder
  <2>3. CASE job # Process(i)
    <3>1. Waiting(i)' = Waiting(i)
      BY <1>3, <1>t, <1>p, <2>1, <2>3 DEF Claim, Waiting
    <3>2. ~ Holds(w, i)'
      BY <2>1, <2>3 DEF Holds
    <3> QED
      BY <1>o, <2>1, <3>1, <3>2 DEF OneHolder, Holds
  <2> QED
    BY <2>2, <2>3
<1>4. ASSUME NEW w \in Workers, PollEmpty(w) PROVE OneHolder(i)'
  BY <1>4, <1>o DEF PollEmpty, vars, tables, queue, OneHolder, Holds, Waiting
\* The job of a worker that stops goes back to the queue or to the failed jobs.
<1>5. ASSUME NEW w \in Workers, Finish(w), UNCHANGED raw,
             \/ queued' = [queued EXCEPT ![run[w].job] = @ + 1] /\ UNCHANGED failed
             \/ failed' = [failed EXCEPT ![run[w].job] = @ + 1] /\ UNCHANGED queued
      PROVE  OneHolder(i)'
  <2>1. (\A v \in Workers \ {w} : run'[v] = run[v]) /\ ~ Holds(w, i)'
    BY <1>5, FinishKeeps
  <2>j. run[w].job \in Jobs
    BY <1>r DEF Handlers
  <2>2. CASE run[w].job = Process(i)
    <3>1. Holds(w, i) /\ Waiting(i) = 0
      BY <1>o, <1>w, <2>2 DEF OneHolder, Holds
    <3>2. Waiting(i)' = 1
      BY <1>5, <1>t, <1>p, <1>w, <2>2, <3>1 DEF Waiting
    <3>3. \A v \in Workers : ~ Holds(v, i)'
      BY <1>o, <2>1, <3>1 DEF OneHolder, Holds
    <3>4. raw'[i] \notin {"none", "DUPLICATE"}
      BY <1>5, <1>o, <3>1 DEF OneHolder
    <3> QED
      BY <3>2, <3>3, <3>4 DEF OneHolder
  <2>3. CASE run[w].job # Process(i)
    <3>1. Waiting(i)' = Waiting(i)
      BY <1>5, <1>t, <1>p, <2>j, <2>3 DEF Waiting
    <3> QED
      BY <1>5, <1>o, <2>1, <3>1 DEF OneHolder, Holds
  <2> QED
    BY <2>2, <2>3
<1>6. ASSUME NEW w \in Workers, Continues(w) PROVE OneHolder(i)'
  <2>1. /\ \A v \in Workers : run'[v].job = run[v].job /\ run'[v].new = run[v].new
        /\ UNCHANGED queue /\ raw'[i] \in {raw[i], "PARSED"}
    BY <1>6, ContinuesKeeps, <1>w DEF Fits, IngestTypeOK
  <2> QED
    BY <1>o, <2>1 DEF OneHolder, Holds, Waiting, queue
<1>7. ASSUME NEW w \in Workers, Returns(w) PROVE OneHolder(i)'
  <2>1. Finish(w)
    BY <1>7 DEF Returns, FetchDone, MarkDuplicate, SendEnrich, SendMatch
  <2>2. (\A v \in Workers \ {w} : run'[v] = run[v]) /\ ~ Holds(w, i)'
    BY <2>1, FinishKeeps
  <2>3. Waiting(i)' = Waiting(i)
    <3>1. CASE SendEnrich(w)
      BY <3>1, <1>t, <1>p, <1>r, JobsAre, JobsDiffer DEF SendEnrich, Enqueue, Waiting, HandlerFits, At
    <3> QED
      BY <1>7, <3>1 DEF Returns, FetchDone, MarkDuplicate, SendMatch, Resume, queue, Waiting
  <2>4. CASE UNCHANGED raw
    BY <1>o, <2>2, <2>3, <2>4 DEF OneHolder, Holds
  <2>5. CASE MarkDuplicate(w)
    <3>1. PICK j \in Items : run[w].job = Process(j)
      BY <2>5, <1>r DEF MarkDuplicate, At, HandlerFits, ProcessSteps
    <3>2. raw' = [raw EXCEPT ![j] = "DUPLICATE"]
      BY <2>5, <3>1, ItemOfJob DEF MarkDuplicate
    <3>3. CASE j = i
      <4>1. Holds(w, i) /\ Waiting(i) = 0 /\ \A v \in Workers \ {w} : ~ Holds(v, i)
        BY <1>o, <1>w, <3>1, <3>3 DEF OneHolder, Holds
      <4> QED
        BY <2>2, <2>3, <4>1 DEF OneHolder, Holds
    <3>4. CASE j # i
      BY <1>o, <2>2, <2>3, <3>2, <3>4 DEF OneHolder, Holds
    <3> QED
      BY <3>3, <3>4
  <2> QED
    BY <1>7, <2>4, <2>5 DEF Returns, FetchDone, SendEnrich, SendMatch, Resume, tables
<1>8. ASSUME NEW w \in Workers, NEW j \in Items, StoreItem(w, j) PROVE OneHolder(i)'
  <2>1. /\ \A v \in Workers \ {w} : run'[v] = run[v]
        /\ run'[w].job = run[w].job /\ UNCHANGED queue
        /\ run'[w].new = IF raw[j] = "none" THEN run[w].new \cup {j} ELSE run[w].new
        /\ raw'[i] = IF j = i /\ raw[i] = "none" THEN "PENDING" ELSE raw[i]
    BY <1>8, <1>t, <1>w DEF StoreItem, Handlers, Fits, IngestTypeOK
  <2>2. Waiting(i)' = Waiting(i)
    BY <2>1 DEF Waiting, queue
  <2>3. CASE j = i /\ raw[i] = "none"
    <3>1. Waiting(i) = 0 /\ \A v \in Workers : ~ Holds(v, i)
      BY <1>o, <2>3 DEF OneHolder
    <3>2. \A v \in Workers \ {w} : ~ Holds(v, i)'
      BY <2>1, <3>1 DEF Holds
    <3>3. raw'[i] = "PENDING"
      BY <2>1, <2>3
    <3> QED
      BY <2>2, <3>1, <3>2, <3>3 DEF OneHolder
  <2>4. CASE ~ (j = i /\ raw[i] = "none")
    <3>1. raw'[i] = raw[i] /\ \A v \in Workers : Holds(v, i)' = Holds(v, i)
      BY <2>1, <2>4 DEF Holds
    <3> QED
      BY <1>o, <2>2, <3>1 DEF OneHolder
  <2> QED
    BY <2>3, <2>4
<1>9. ASSUME NEW w \in Workers, NEW j \in Items, SendProcess(w, j) PROVE OneHolder(i)'
  <2>1. /\ \A v \in Workers \ {w} : run'[v] = run[v]
        /\ run'[w].job = run[w].job /\ run'[w].new = run[w].new \ {j} /\ j \in run[w].new
        /\ UNCHANGED <<raw, failed>> /\ queued' = [queued EXCEPT ![Process(j)] = @ + 1]
    BY <1>9, <1>t DEF SendProcess, Enqueue, Handlers, tables
  <2>2. CASE j = i
    <3>1. Holds(w, i) /\ Waiting(i) = 0 /\ \A v \in Workers \ {w} : ~ Holds(v, i)
      BY <1>o, <1>w, <2>1, <2>2 DEF OneHolder, Holds
    <3>2. Waiting(i)' = 1
      BY <1>t, <1>p, <1>w, <2>1, <2>2, <3>1 DEF Waiting
    <3>3. run[w].job = Fetch
      BY <1>9, <1>r DEF SendProcess, At, HandlerFits, FetchSteps
    <3>4. \A v \in Workers : ~ Holds(v, i)'
      BY <2>1, <2>2, <3>1, <3>3, JobsDiffer DEF Holds
    <3>5. raw'[i] \notin {"none", "DUPLICATE"}
      BY <1>o, <2>1, <3>1 DEF OneHolder
    <3> QED
      BY <3>2, <3>4, <3>5 DEF OneHolder
  <2>3. CASE j # i
    <3>1. Waiting(i)' = Waiting(i)
      BY <1>t, <1>p, <2>1, <2>3, JobsAre, JobsDiffer DEF Waiting
    <3>2. \A v \in Workers : Holds(v, i)' = Holds(v, i)
      BY <2>1, <2>3 DEF Holds
    <3> QED
      BY <1>o, <2>1, <3>1, <3>2 DEF OneHolder
  <2> QED
    BY <2>2, <2>3
<1>10. CASE UNCHANGED vars
  BY <1>10, <1>o DEF vars, tables, queue, OneHolder, Holds, Waiting
<1>11. ASSUME NEW w \in Workers, Lose(w) \/ Fault(w) PROVE OneHolder(i)'
  BY <1>5, <1>11 DEF Lose, Fault, CutShort, Enqueue, tables
<1>12. ASSUME NEW w \in Workers, Handler(w) PROVE OneHolder(i)'
  BY <1>6, <1>7, <1>8, <1>9, <1>12, HandlerIs
<1> QED
  BY <1>1, <1>2, <1>3, <1>4, <1>10, <1>11, <1>12 DEF IngestNext

\* An item is processed by one job at a time however many fetches of its source overlap
\* (pipeline/fetch.go, CreateRawItem): every worker that could run ClusterArticle for it holds
\* the one job that the insert of its raw item led to.
THEOREM ItemsHaveOneJob == IngestSpec => []OneProcessJob
<1> DEFINE Inv == Fits /\ \A i \in Items : OneHolder(i)
<1>1. IngestInit => Inv
  BY FitsInit, OneHolderInit
<1>2. Inv /\ [IngestNext]_vars => Inv'
  BY FitsStep, OneHolderStep
<1>3. Inv => OneProcessJob
  <2> SUFFICES ASSUME Fits, NEW i \in Items, OneHolder(i)
               PROVE  Waiting(i) + Cardinality(Runs(Process(i))) <= 1
    BY DEF OneProcessJob, Waiting
  <2>1. \A w \in Runs(Process(i)) : w \in Workers /\ Holds(w, i)
    BY DEF Runs, Holds
  <2>2. CASE Runs(Process(i)) = {}
    BY <2>2, FS_EmptySet, WaitingIsNat DEF OneHolder
  <2>3. CASE Runs(Process(i)) # {}
    <3>1. PICK w \in Workers : Runs(Process(i)) = {w} /\ Holds(w, i)
      BY <2>1, <2>3 DEF OneHolder
    <3>2. Cardinality(Runs(Process(i))) = 1
      BY <3>1, FS_Singleton
    <3>3. Waiting(i) = 0
      BY <3>1, WaitingIsNat DEF OneHolder
    <3> QED
      BY <3>2, <3>3
  <2> QED
    BY <2>2, <2>3
<1> QED
  BY <1>1, <1>2, <1>3, PTL DEF IngestSpec

-----------------------------------------------------------------------------
(* Where an item is when its job is at a step, and what its links say of it *)

PlaceFits(w, i) ==
    run[w].job = Process(i) =>
       /\ run[w].at \in {"create", "parsed"} => raw[i] = "PENDING"
       /\ run[w].at = "parsed" => i \in articles
       /\ run[w].at \in {"cluster", "link", "grouped"} => raw[i] = "PARSED" /\ i \in articles
       /\ run[w].at = "link" => \A s \in Signals : i \notin links[s]
       /\ run[w].at = "grouped" => i \in links[run[w].signal]

SeenFits(w, i) ==
    \A s \in Signals :
       run[w].job = Enrich(s) /\ run[w].at \in {"apply", "enriched"} /\ i \in run[w].seen
          => i \in links[s]

LinksFit(i) ==
    \A s \in Signals :
       /\ i \in announced[s] \cup primary[s] => i \in links[s]
       /\ i \in links[s] => /\ raw[i] = "PARSED" /\ i \in articles
                            /\ \A t \in Signals : i \in links[t] => s = t

\* A link is of an article that is processed to its end, and an article has one signal for good.
LinkInv(i) == LinksFit(i) /\ \A w \in Workers : PlaceFits(w, i) /\ SeenFits(w, i)

LEMMA LinkInit == ASSUME IngestInit, NEW i \in Items PROVE LinkInv(i)
  BY IdleFits DEF IngestInit, LinkInv, LinksFit, PlaceFits, SeenFits

\* A handler that begins or ends, with what it did to the item.
LEMMA LinkKept ==
    ASSUME Fits, NEW i \in Items, LinkInv(i), NEW w \in Workers,
           \A v \in Workers \ {w} : run'[v] = run[v],
           run'[w].at \in {"idle", "discover", "normalize", "load", "store", "send"},
           UNCHANGED <<articles, links, primary>>,
           \A s \in Signals : i \in announced'[s] => i \in links[s],
           \/ raw'[i] = raw[i]
           \/ /\ \A v \in Workers \ {w} : run[v].job # Process(i)
              /\ raw[i] # "PARSED"
    PROVE  LinkInv(i)'
<1>1. LinksFit(i)'
  BY DEF LinkInv, LinksFit
<1>2. PlaceFits(w, i)' /\ SeenFits(w, i)'
  BY DEF PlaceFits, SeenFits
<1>3. ASSUME NEW v \in Workers \ {w} PROVE PlaceFits(v, i)' /\ SeenFits(v, i)'
  BY <1>3 DEF LinkInv, PlaceFits, SeenFits
<1> QED
  BY <1>1, <1>2, <1>3 DEF LinkInv

LEMMA LinkStep ==
    ASSUME Fits, [IngestNext]_vars, \A j \in Items : OneHolder(j) /\ LinkInv(j), NEW i \in Items
    PROVE  LinkInv(i)'
<1>f. Fits'
  BY FitsStep
<1>t. /\ run \in [Workers -> Handlers] /\ raw \in [Items -> {"none", "PENDING", "PARSED", "DUPLICATE"}]
      /\ articles \subseteq Items
      /\ links \in [Signals -> SUBSET Items] /\ announced \in [Signals -> SUBSET Items]
      /\ primary \in [Signals -> SUBSET Items]
  BY DEF Fits, IngestTypeOK, Handlers, Places
<1>r. \A w \in Workers : run[w] \in Handlers /\ HandlerFits(run[w])
  BY DEF Fits, IngestTypeOK, Handlers, Places
<1>o. OneHolder(i) /\ LinkInv(i)
  OBVIOUS
<1>1. ASSUME UNCHANGED <<tables, run>> PROVE LinkInv(i)'
  BY <1>1, <1>o DEF tables, LinkInv, LinksFit, PlaceFits, SeenFits
<1>2. ASSUME NEW w \in Workers, NEW job \in Jobs, Claim(w, job) PROVE LinkInv(i)'
  <2>1. /\ \A v \in Workers \ {w} : run'[v] = run[v]
        /\ run'[w].at \in {"discover", "normalize", "load"}
    BY <1>2, <1>t, IdleFits, EntryIs, JobsAre DEF Claim, Handlers
  <2> QED
    BY <1>2, <1>o, <2>1, LinkKept DEF Claim, tables, LinkInv, LinksFit
<1>3. ASSUME NEW w \in Workers, Finish(w), UNCHANGED tables PROVE LinkInv(i)'
  BY <1>3, <1>o, FinishKeeps, IdleFits, LinkKept DEF tables, LinkInv, LinksFit
<1>4. ASSUME NEW w \in Workers, NEW j \in Items, StoreItem(w, j) \/ SendProcess(w, j)
      PROVE  LinkInv(i)'
  <2>1. /\ \A v \in Workers \ {w} : run'[v] = run[v]
        /\ run'[w].at \in {"store", "send"}
        /\ raw'[i] = raw[i] \/ raw[i] = "none"
        /\ UNCHANGED <<articles, primary, links, announced>>
    <3>1. CASE StoreItem(w, j)
      BY <3>1, <1>t DEF StoreItem, Handlers, At
    <3>2. CASE SendProcess(w, j)
      BY <3>2, <1>t DEF SendProcess, Handlers, At, tables
    <3> QED
      BY <1>4, <3>1, <3>2
  <2>2. raw[i] = "none" => \A v \in Workers : run[v].job # Process(i)
    BY <1>o DEF OneHolder, Holds
  <2> QED
    BY <1>o, <2>1, <2>2, LinkKept DEF LinkInv, LinksFit
<1>5. ASSUME NEW w \in Workers, Returns(w) PROVE LinkInv(i)'
  <2>1. Finish(w)
    BY <1>5 DEF Returns, FetchDone, MarkDuplicate, SendEnrich, SendMatch
  <2>2. (\A v \in Workers \ {w} : run'[v] = run[v]) /\ run'[w].at = "idle"
    BY <2>1, FinishKeeps, IdleFits
  <2>3. CASE MarkDuplicate(w)
    <3>1. PICK j \in Items : run[w].job = Process(j)
      BY <2>3, <1>r DEF MarkDuplicate, At, HandlerFits, ProcessSteps
    <3>2. raw[j] = "PENDING" /\ raw' = [raw EXCEPT ![j] = "DUPLICATE"]
      BY <2>3, <3>1, ItemOfJob DEF MarkDuplicate
    <3>3. j = i => \A v \in Workers \ {w} : run[v].job # Process(i)
      BY <1>o, <3>1 DEF OneHolder, Holds
    <3>4. raw'[i] = raw[i] \/ (j = i /\ raw[i] # "PARSED")
      BY <1>t, <3>2
    <3> QED
      BY <1>o, <2>2, <2>3, <3>3, <3>4, LinkKept DEF MarkDuplicate, LinkInv, LinksFit
  <2>4. CASE SendMatch(w)
    <3>1. PICK s \in Signals : run[w].job = Enrich(s)
      BY <2>4, <1>r DEF SendMatch, At, HandlerFits, EnrichSteps
    <3>2. announced' = [announced EXCEPT ![s] = @ \cup run[w].seen]
      BY <2>4, <3>1, SignalOfJob DEF SendMatch
    <3>3. i \in run[w].seen => i \in links[s]
      BY <1>o, <2>4, <3>1 DEF SendMatch, At, LinkInv, SeenFits
    <3>4. \A t \in Signals : i \in announced'[t] => i \in links[t]
      BY <1>o, <1>t, <3>2, <3>3 DEF LinkInv, LinksFit
    <3> QED
      BY <1>o, <2>2, <2>4, <3>4, LinkKept DEF SendMatch
  <2> QED
    BY <1>3, <1>5, <2>1, <2>3, <2>4 DEF Returns, FetchDone, SendEnrich, Resume, tables
<1>6. ASSUME NEW w \in Workers, Continues(w) PROVE LinkInv(i)'
  <2>1. /\ \A v \in Workers : run'[v].job = run[v].job
        /\ \A v \in Workers \ {w} : run'[v] = run[v]
    BY <1>6, ContinuesKeeps
  <2>2. ASSUME UNCHANGED <<raw, articles, links, primary, announced>>,
               PlaceFits(w, i)' /\ SeenFits(w, i)'
        PROVE  LinkInv(i)'
    BY <1>o, <2>1, <2>2 DEF LinkInv, LinksFit, PlaceFits, SeenFits
  <2>3. CASE Stored(w) \/ Discover(w)
    <3>1. run[w].job = Fetch /\ UNCHANGED tables
      BY <2>3, <1>r DEF Stored, Discover, At, HandlerFits, FetchSteps
    <3> QED
      BY <2>1, <2>2, <3>1, JobsDiffer DEF tables, PlaceFits, SeenFits
  <2>4. CASE Load(w) \/ Apply(w)
    <3>1. PICK s \in Signals : run[w].job = Enrich(s)
      BY <2>4, <1>r DEF Load, Apply, At, HandlerFits, EnrichSteps
    <3>2. UNCHANGED <<raw, articles, links, primary, announced>>
      BY <2>4 DEF Load, Apply, tables
    <3>3. i \in run'[w].seen => i \in links[s]
      <4>1. CASE Load(w)
        BY <4>1, <1>t, <3>1, SignalOfJob DEF Load, Handlers
      <4>2. CASE Apply(w)
        <5>1. run'[w].seen = run[w].seen /\ run[w].at = "apply"
          BY <4>2, <1>t DEF Apply, At, GoTo, Handlers
        <5> QED
          BY <1>o, <3>1, <5>1 DEF LinkInv, SeenFits
      <4> QED
        BY <2>4, <4>1, <4>2
    <3> QED
      BY <2>1, <2>2, <3>1, <3>2, <3>3, JobsDiffer DEF PlaceFits, SeenFits
  <2>5. ASSUME NEW j \in Items, run[w].job = Process(j), ItemOf(w) = j PROVE LinkInv(i)'
    <3>1. SeenFits(w, i)'
      BY <2>1, <2>5, JobsDiffer DEF SeenFits
    <3>2. j = i => \A v \in Workers \ {w} : run[v].job # Process(i)
      BY <1>o, <2>5 DEF OneHolder, Holds
    <3>3. j # i => PlaceFits(w, i)'
      BY <2>1, <2>5, JobsDiffer DEF PlaceFits
    <3>4. PlaceFits(w, j)
      BY <2>5 DEF LinkInv
    <3>5. CASE FindNoDuplicate(w) \/ Cluster(w) \/ (Resume(w) /\ GoTo(w, "cluster"))
      <4>1. UNCHANGED <<raw, articles, links, primary, announced>>
        BY <3>5 DEF FindNoDuplicate, Cluster, Resume, tables
      <4>2. PlaceFits(w, j)'
        <5>1. CASE FindNoDuplicate(w)
          BY <5>1, <1>t, <2>5, <4>1 DEF FindNoDuplicate, GoTo, Handlers, PlaceFits
        <5>2. CASE Cluster(w)
          <6>1. raw[j] = "PARSED" /\ j \in articles
            BY <5>2, <2>5, <3>4 DEF Cluster, At, PlaceFits
          <6>2. \/ \E s \in Signals : /\ j \in links[s]
                                      /\ run' = [run EXCEPT ![w].at = "grouped", ![w].signal = s]
                \/ /\ \A s \in Signals : j \notin links[s]
                   /\ \/ \E s \in Signals : run' = [run EXCEPT ![w].at = "link", ![w].signal = s]
                      \/ run' = [run EXCEPT ![w].at = "link"]
            BY <5>2, <2>5 DEF Cluster, Candidates, GoTo
          <6>3. \/ run'[w].at = "grouped" /\ j \in links[run'[w].signal]
                \/ run'[w].at = "link" /\ \A s \in Signals : j \notin links[s]
            BY <1>t, <6>2 DEF Handlers
          <6> QED
            BY <4>1, <6>1, <6>3 DEF PlaceFits
        <5>3. CASE Resume(w) /\ GoTo(w, "cluster")
          <6>1. run'[w].at = "cluster"
            BY <5>3, <1>t DEF GoTo, Handlers
          <6>2. j \in articles
            BY <5>3, <1>t, <2>5, IdleFits, <6>1 DEF Resume, Finish
          <6>3. raw[j] \notin {"none", "DUPLICATE", "PENDING"}
            BY <5>3, <2>5 DEF Resume, OneHolder, Holds
          <6> QED
            BY <1>t, <4>1, <6>1, <6>2, <6>3 DEF PlaceFits
        <5> QED
          BY <3>5, <5>1, <5>2, <5>3
      <4> QED
        BY <2>2, <3>1, <3>3, <4>1, <4>2
    <3>6. CASE CreateArticle(w) \/ MarkParsed(w)
      <4>1. /\ UNCHANGED <<links, primary, announced>>
            /\ i # j => (i \in articles') = (i \in articles) /\ raw'[i] = raw[i]
            /\ i \in articles => i \in articles'
            /\ raw[i] = "PARSED" => raw'[i] = "PARSED"
        BY <3>6, <1>t, <2>5 DEF CreateArticle, MarkParsed
      <4>2. LinksFit(i)'
        BY <1>o, <4>1 DEF LinkInv, LinksFit
      <4>3. PlaceFits(w, i)'
        <5>1. CASE CreateArticle(w)
          BY <5>1, <1>t, <2>5, <3>3, <3>4 DEF CreateArticle, At, GoTo, Handlers, PlaceFits
        <5>2. CASE MarkParsed(w)
          BY <5>2, <1>t, <2>5, <3>3, <3>4 DEF MarkParsed, At, GoTo, Handlers, PlaceFits
        <5> QED
          BY <3>6, <5>1, <5>2
      <4>4. ASSUME NEW v \in Workers \ {w} PROVE PlaceFits(v, i)' /\ SeenFits(v, i)'
        BY <1>o, <2>1, <3>2, <4>1, <4>4 DEF LinkInv, PlaceFits, SeenFits
      <4> QED
        BY <3>1, <4>2, <4>3, <4>4 DEF LinkInv
    <3>7. ASSUME NEW s \in Signals, Attach(w) \/ CreateSignal(w, s) PROVE LinkInv(i)'
      <4>1. PICK t \in Signals :
               /\ run'[w].at = "grouped" /\ run'[w].signal = t
               /\ \A u \in Signals \ {t} : links'[u] = links[u] /\ primary'[u] = primary[u]
               /\ j \in links'[t] /\ primary'[t] \subseteq primary[t] \cup {j}
               /\ i # j => (i \in links'[t]) = (i \in links[t]) /\ (i \in primary'[t] => i \in primary[t])
               /\ UNCHANGED <<raw, articles, announced>> /\ run[w].at = "link"
        <5>1. CASE Attach(w)
          BY <5>1, <1>t, <2>5 DEF Attach, At, GoTo, Handlers
        <5>2. CASE CreateSignal(w, s)
          BY <5>2, <1>t, <2>5 DEF CreateSignal, At, Handlers
        <5> QED
          BY <3>7, <5>1, <5>2
      <4>2. \A u \in Signals : j \notin links[u]
        BY <2>5, <3>4, <4>1 DEF PlaceFits
      <4>3. raw[j] = "PARSED" /\ j \in articles
        BY <2>5, <3>4, <4>1 DEF PlaceFits
      <4>4. LinksFit(i)'
        BY <1>o, <4>1, <4>2, <4>3 DEF LinkInv, LinksFit
      <4>5. PlaceFits(w, i)'
        BY <2>1, <2>5, <3>3, <4>1, <4>3 DEF PlaceFits
      <4>m. /\ \A u \in Signals : i \in links[u] => i \in links'[u]
            /\ i # j => \A u \in Signals : i \in links'[u] => i \in links[u]
        BY <4>1, <4>2
      <4>6. ASSUME NEW v \in Workers \ {w} PROVE PlaceFits(v, i)' /\ SeenFits(v, i)'
        <5>1. run'[v] = run[v] /\ PlaceFits(v, i) /\ SeenFits(v, i)
          BY <1>o, <2>1 DEF LinkInv
        <5>2. SeenFits(v, i)'
          <6> SUFFICES ASSUME NEW u \in Signals, run[v].job = Enrich(u),
                              run[v].at \in {"apply", "enriched"}, i \in run[v].seen
                       PROVE  i \in links'[u]
            BY <5>1, Zenon DEF SeenFits
          <6>1. i \in links[u]
            BY <5>1 DEF SeenFits
          <6> QED
            BY <4>m, <6>1
        <5>3. CASE run[v].job = Process(i)
          <6>1. i # j /\ HandlerFits(run[v])
            BY <3>2, <4>6, <5>3, <1>r
          <6>2. run[v].at = "grouped" => run[v].signal \in Signals
            BY <6>1 DEF HandlerFits
          <6> QED
            BY <4>m, <4>1, <5>1, <5>2, <6>1, <6>2 DEF PlaceFits
        <5> QED
          BY <5>1, <5>2, <5>3 DEF PlaceFits
      <4> QED
        BY <3>1, <4>4, <4>5, <4>6 DEF LinkInv
    <3>8. Signals # {} \/ ~ Attach(w)
      BY <1>t DEF Attach, Handlers
    <3> QED
      BY <1>6, <2>3, <2>4, <3>5, <3>6, <3>7, <3>8 DEF Continues
  <2>6. CASE run[w].at \in ProcessSteps
    BY <1>r, <2>5, <2>6, ItemOfJob DEF HandlerFits
  <2>7. run[w].at \in ProcessSteps \/ Stored(w) \/ Discover(w) \/ Load(w) \/ Apply(w)
    BY <1>6 DEF Continues, ProcessSteps, At, FindNoDuplicate, CreateArticle, MarkParsed, Cluster,
                Attach, CreateSignal, Resume
  <2> QED
    BY <2>3, <2>4, <2>6, <2>7
<1>7. ASSUME NEW w \in Workers, Lose(w) \/ Fault(w) PROVE LinkInv(i)'
  BY <1>3, <1>7 DEF Lose, Fault, CutShort
<1>8. ASSUME NEW w \in Workers, Handler(w) PROVE LinkInv(i)'
  BY <1>4, <1>5, <1>6, <1>8, HandlerIs
<1>9. ASSUME NEW w \in Workers, PollEmpty(w) PROVE LinkInv(i)'
  BY <1>1, <1>9 DEF PollEmpty, vars, tables
<1>10. ASSUME SendFetch \/ \E job \in Jobs : RetryJob(job) PROVE LinkInv(i)'
  BY <1>1, <1>10 DEF SendFetch, RetryJob
<1>11. ASSUME UNCHANGED vars PROVE LinkInv(i)'
  BY <1>1, <1>11 DEF vars
<1> QED
  BY <1>2, <1>7, <1>8, <1>9, <1>10, <1>11 DEF IngestNext

-----------------------------------------------------------------------------
(* No job is forgotten *)

Remembered(job) == queued[job] + failed[job] > 0

\* A job that waits goes on waiting, or is claimed.
LEMMA JobKept ==
    ASSUME Fits, [IngestNext]_vars, NEW job \in Jobs, Remembered(job)
    PROVE  \/ Remembered(job)'
           \/ \E w \in Workers : run'[w].at = Entry(job) /\ run'[w].job = job
<1>t. /\ run \in [Workers -> Handlers] /\ queued \in [Jobs -> Nat] /\ failed \in [Jobs -> Nat]
      /\ \A w \in Workers : run[w].job \in Jobs /\ HandlerFits(run[w])
  BY DEF Fits, IngestTypeOK, Handlers, Places
<1>1. ASSUME NEW other \in Jobs,
             \/ queued' = [queued EXCEPT ![other] = @ + 1] /\ UNCHANGED failed
             \/ failed' = [failed EXCEPT ![other] = @ + 1] /\ UNCHANGED queued
      PROVE  Remembered(job)'
  BY <1>1, <1>t DEF Remembered
<1>2. ASSUME UNCHANGED queue PROVE Remembered(job)'
  BY <1>2 DEF Remembered, queue
<1>3. CASE SendFetch
  BY <1>1, <1>3, JobsAre DEF SendFetch, Enqueue
<1>4. ASSUME NEW other \in Jobs, RetryJob(other) PROVE Remembered(job)'
  BY <1>4, <1>t DEF RetryJob, Remembered
<1>5. ASSUME NEW w \in Workers, NEW other \in Jobs, Claim(w, other), ~ Remembered(job)'
      PROVE  run'[w].at = Entry(job) /\ run'[w].job = job
  <2>1. other = job
    BY <1>5, <1>t DEF Claim, Remembered
  <2> QED
    BY <1>5, <1>t, <2>1, IdleFits DEF Claim, Handlers
<1>6. ASSUME NEW w \in Workers, Lose(w) \/ Fault(w) PROVE Remembered(job)'
  BY <1>1, <1>6, <1>t DEF Lose, Fault, CutShort, Enqueue
<1>7. ASSUME NEW w \in Workers, Handler(w) PROVE Remembered(job)'
  <2>1. CASE Continues(w)
    BY <1>2, <2>1, ContinuesKeeps
  <2>2. CASE Returns(w)
    <3>1. CASE SendEnrich(w)
      BY <1>1, <1>t, <3>1, JobsAre DEF SendEnrich, Enqueue, At, HandlerFits
    <3> QED
      BY <1>2, <2>2, <3>1 DEF Returns, FetchDone, MarkDuplicate, SendMatch, Resume, queue
  <2>3. ASSUME NEW i \in Items, StoreItem(w, i) \/ SendProcess(w, i) PROVE Remembered(job)'
    BY <1>1, <1>2, <2>3, JobsAre DEF StoreItem, SendProcess, Enqueue
  <2> QED
    BY <1>7, <2>1, <2>2, <2>3, HandlerIs
<1>8. ASSUME UNCHANGED vars \/ \E w \in Workers : PollEmpty(w) PROVE Remembered(job)'
  BY <1>2, <1>8 DEF PollEmpty, vars
<1> QED
  BY <1>3, <1>4, <1>5, <1>6, <1>7, <1>8 DEF IngestNext

\* A handler is left alone, or is lost or fails and its job is remembered, or does its next step.
LEMMA HandlerKept ==
    ASSUME Fits, [IngestNext]_vars, NEW w \in Workers, ~ At(w, "idle"),
           NEW job \in Jobs, run[w].job = job
    PROVE  \/ run'[w] = run[w]
           \/ Remembered(job)' /\ (Lose(w) \/ Fault(w))
           \/ Continues(w) \/ Returns(w)
           \/ \E i \in Items : StoreItem(w, i) \/ SendProcess(w, i)
<1>t. /\ run \in [Workers -> Handlers] /\ queued \in [Jobs -> Nat] /\ failed \in [Jobs -> Nat]
      /\ \A v \in Workers : run[v].job \in Jobs
  BY DEF Fits, IngestTypeOK, Handlers, Places
<1>1. CASE SendFetch \/ UNCHANGED vars \/ \E other \in Jobs : RetryJob(other)
  BY <1>1 DEF SendFetch, RetryJob, vars
<1>2. ASSUME NEW v \in Workers, PollEmpty(v) PROVE run'[w] = run[w]
  BY <1>2 DEF PollEmpty, vars
<1>3. ASSUME NEW v \in Workers, NEW other \in Jobs, Claim(v, other) PROVE run'[w] = run[w]
  BY <1>3, <1>t DEF Claim, At
<1>4. ASSUME NEW v \in Workers, Lose(v) \/ Fault(v)
      PROVE  run'[w] = run[w] \/ (Remembered(job)' /\ (Lose(w) \/ Fault(w)))
  <2>1. CASE v # w
    BY <1>4, <2>1, FinishKeeps DEF Lose, Fault, CutShort
  <2>2. CASE v = w
    <3>1. Remembered(job)'
      BY <1>4, <1>t, <2>2 DEF Lose, Fault, CutShort, Enqueue, Remembered
    <3> QED
      BY <1>4, <2>2, <3>1
  <2> QED
    BY <2>1, <2>2
<1>5. ASSUME NEW v \in Workers \ {w}, Handler(v) PROVE run'[w] = run[w]
  <2>1. ASSUME NEW i \in Items, StoreItem(v, i) \/ SendProcess(v, i) PROVE run'[w] = run[w]
    BY <2>1, <1>t DEF StoreItem, SendProcess
  <2>2. CASE Returns(v)
    BY <2>2, FinishKeeps DEF Returns, FetchDone, MarkDuplicate, SendEnrich, SendMatch
  <2> QED
    BY <1>5, <2>1, <2>2, ContinuesKeeps, HandlerIs
<1> QED
  BY <1>1, <1>2, <1>3, <1>4, <1>5, HandlerIs DEF IngestNext

LEMMA OpenIs ==
    ASSUME Fits, NEW job \in Jobs
    PROVE  Open(job) <=> \/ Remembered(job)
                         \/ \E w \in Workers : ~ At(w, "idle") /\ run[w].job = job
  BY DEF Open, Runs, Remembered

LEMMA EntryStarts == \A job \in Jobs : Entry(job) # "idle"
  BY EntryIs, JobsAre

ItemInv == Fits /\ \A i \in Items : OneHolder(i) /\ LinkInv(i)

LEMMA ItemInit == ASSUME IngestInit PROVE ItemInv
  BY FitsInit, OneHolderInit, LinkInit DEF ItemInv

LEMMA ItemStep == ASSUME ItemInv, [IngestNext]_vars PROVE ItemInv'
<1>1. Fits' /\ \A i \in Items : OneHolder(i)'
  BY FitsStep, OneHolderStep DEF ItemInv
<1>2. \A i \in Items : LinkInv(i)'
  BY LinkStep DEF ItemInv
<1> QED
  BY <1>1, <1>2 DEF ItemInv

\* An open job of an item stays open, unless its handler returns: it was settled, or it is
\* clustered and its signal's enrichment is on the queue.
LEMMA ItemJobKept ==
    ASSUME ItemInv, [IngestNext]_vars, NEW i \in Items, Open(Process(i))
    PROVE  \/ Open(Process(i))'
           \/ raw[i] = "PENDING" /\ raw'[i] = "DUPLICATE"
           \/ raw[i] # "PENDING" /\ i \notin articles
           \/ \E s \in Signals : i \in links[s] /\ Remembered(Enrich(s))'
<1>t. /\ run \in [Workers -> Handlers] /\ queued \in [Jobs -> Nat] /\ failed \in [Jobs -> Nat]
      /\ raw \in [Items -> {"none", "PENDING", "PARSED", "DUPLICATE"}]
      /\ \A w \in Workers : run[w] \in Handlers /\ run[w].job \in Jobs /\ HandlerFits(run[w])
  BY DEF ItemInv, Fits, IngestTypeOK, Handlers, Places
<1>f. Fits /\ Fits' /\ Process(i) \in Jobs
  BY ItemStep, JobsAre DEF ItemInv
<1> DEFINE Job == Process(i)
<1>o. Open(Job)' <=> \/ Remembered(Job)'
                     \/ \E w \in Workers : run'[w].at # "idle" /\ run'[w].job = Job
  BY <1>f DEF Open, Runs, Remembered, At
<1>1. CASE Remembered(Job)
  BY <1>1, <1>f, <1>o, JobKept, EntryStarts
<1>2. ASSUME NEW w \in Workers, ~ At(w, "idle"), run[w].job = Job, ~ Open(Job)'
      PROVE  \/ raw[i] = "PENDING" /\ raw'[i] = "DUPLICATE"
             \/ raw[i] # "PENDING" /\ i \notin articles
             \/ \E s \in Signals : i \in links[s] /\ Remembered(Enrich(s))'
  <2>1. \/ Continues(w) \/ Returns(w)
        \/ \E j \in Items : StoreItem(w, j) \/ SendProcess(w, j)
    BY <1>2, <1>f, <1>o, HandlerKept DEF At
  <2>2. ItemOf(w) = i /\ PlaceFits(w, i)
    BY <1>2, ItemOfJob DEF ItemInv, LinkInv
  <2>3. ASSUME Continues(w) PROVE FALSE
    <3>1. run'[w].job = Job
      BY <1>2, <1>f, <2>3, ContinuesKeeps
    <3>2. run'[w].at # "idle"
      BY <1>t, <2>3 DEF Continues, Stored, Discover, FindNoDuplicate, CreateArticle, MarkParsed,
                        Cluster, Attach, CreateSignal, Load, Apply, GoTo, Handlers
    <3> QED
      BY <1>2, <1>o, <3>1, <3>2
  <2>4. ASSUME NEW j \in Items, StoreItem(w, j) \/ SendProcess(w, j) PROVE FALSE
    BY <1>2, <1>t, <2>4, JobsDiffer DEF StoreItem, SendProcess, At, HandlerFits, FetchSteps
  <2>5. CASE FetchDone(w)
    BY <1>2, <1>t, <2>5, JobsDiffer DEF FetchDone, At, HandlerFits, FetchSteps
  <2>6. CASE SendMatch(w)
    BY <1>2, <1>t, <2>6, JobsDiffer DEF SendMatch, At, HandlerFits, EnrichSteps
  <2>7. CASE MarkDuplicate(w)
    BY <1>t, <2>2, <2>7 DEF MarkDuplicate
  <2>8. CASE Resume(w) /\ Finish(w)
    <3>1. i \notin articles
      <4>1. i \in articles => run'[w].at = "cluster"
        BY <1>t, <2>2, <2>8 DEF Resume, GoTo, Handlers
      <4> QED
        BY <1>f, <2>8, <4>1, FinishKeeps, IdleFits
    <3> QED
      BY <2>2, <2>8, <3>1 DEF Resume
  <2>9. CASE SendEnrich(w)
    <3>1. PICK s \in Signals : s = run[w].signal
      BY <1>t, <2>9 DEF SendEnrich, At, HandlerFits
    <3>2. i \in links[s]
      BY <1>2, <2>2, <2>9, <3>1 DEF SendEnrich, At, PlaceFits
    <3>3. Enrich(s) \in Jobs
      BY JobsAre
    <3>4. Remembered(Enrich(s))'
      BY <1>t, <2>9, <3>1, <3>3 DEF SendEnrich, Enqueue, Remembered
    <3> QED
      BY <3>2, <3>4
  <2> QED
    BY <2>1, <2>3, <2>4, <2>5, <2>6, <2>7, <2>8, <2>9 DEF Returns
<1>3. \/ Remembered(Job)
      \/ \E w \in Workers : ~ At(w, "idle") /\ run[w].job = Job
  BY <1>f, OpenIs
<1> QED
  BY <1>1, <1>2, <1>3

\* How a row of RawItem becomes PENDING, and which items a fetch goes on to send.
LEMMA PendingKept ==
    ASSUME ItemInv, [IngestNext]_vars, NEW i \in Items, raw'[i] = "PENDING"
    PROVE  /\ raw[i] # "PENDING" => \E w \in Workers : i \in run'[w].new
           /\ \A w \in Workers : i \in run[w].new =>
                 i \in run'[w].new \/ Open(Process(i))' \/ i \in stranded'
<1>t. /\ run \in [Workers -> Handlers] /\ queued \in [Jobs -> Nat] /\ failed \in [Jobs -> Nat]
      /\ raw \in [Items -> {"none", "PENDING", "PARSED", "DUPLICATE"}]
      /\ \A w \in Workers : run[w] \in Handlers /\ run[w].job \in Jobs /\ HandlerFits(run[w])
  BY DEF ItemInv, Fits, IngestTypeOK, Handlers, Places
<1>f. Fits /\ Fits'
  BY ItemStep DEF ItemInv
<1>1. ASSUME raw[i] # "PENDING" PROVE \E w \in Workers : i \in run'[w].new
  <2>1. ASSUME NEW w \in Workers, Handler(w) PROVE i \in run'[w].new
    <3>1. CASE Continues(w)
      BY <1>1, <1>f, <3>1, ContinuesKeeps, <1>t
    <3>2. CASE Returns(w)
      BY <1>1, <1>t, <3>2 DEF Returns, FetchDone, MarkDuplicate, SendEnrich, SendMatch, Resume, tables
    <3>3. ASSUME NEW j \in Items, StoreItem(w, j) PROVE i \in run'[w].new
      BY <1>1, <1>t, <3>3 DEF StoreItem, Handlers
    <3>4. ASSUME NEW j \in Items, SendProcess(w, j) PROVE FALSE
      BY <1>1, <3>4 DEF SendProcess, tables
    <3> QED
      BY <2>1, <3>1, <3>2, <3>3, <3>4, HandlerIs
  <2>2. ASSUME UNCHANGED raw PROVE FALSE
    BY <1>1, <2>2
  <2> QED
    BY <2>1, <2>2 DEF IngestNext, SendFetch, RetryJob, Claim, PollEmpty, Lose, Fault, CutShort, vars, tables
<1>2. ASSUME NEW w \in Workers, i \in run[w].new, i \notin run'[w].new, i \notin stranded'
      PROVE  Open(Process(i))'
  <2>1. run[w].at \in {"store", "send"} /\ Process(i) \in Jobs
    BY <1>2, <1>t, JobsAre DEF HandlerFits
  <2>2. \/ Continues(w) \/ Returns(w)
        \/ \E j \in Items : StoreItem(w, j) \/ SendProcess(w, j)
    <3>1. ~ Lose(w) /\ ~ Fault(w)
      BY <1>2 DEF Lose, Fault, CutShort
    <3> QED
      BY <1>2, <1>f, <1>t, <2>1, <3>1, HandlerKept DEF At
  <2>3. ~ Continues(w)
    BY <1>2, <1>f, ContinuesKeeps
  <2>4. ~ Returns(w)
    BY <1>2, <2>1 DEF Returns, FetchDone, MarkDuplicate, SendEnrich, SendMatch, Resume, At
  <2>5. ASSUME NEW j \in Items, StoreItem(w, j) PROVE FALSE
    BY <1>2, <1>t, <2>5 DEF StoreItem, Handlers
  <2>6. ASSUME NEW j \in Items, SendProcess(w, j) PROVE Remembered(Process(i))'
    <3>1. j = i
      BY <1>2, <1>t, <2>6 DEF SendProcess, Handlers
    <3> QED
      BY <1>t, <2>1, <2>6, <3>1 DEF SendProcess, Enqueue, Remembered
  <2> QED
    BY <1>f, <2>1, <2>2, <2>3, <2>4, <2>5, <2>6 DEF Open, Remembered
<1> QED
  BY <1>1, <1>2

LEMMA StrandedGrows == ASSUME [IngestNext]_vars PROVE stranded \subseteq stranded'
  BY DEF IngestNext, SendFetch, RetryJob, Claim, PollEmpty, Lose, Fault, CutShort, vars, ledger, Handler,
         FetchStep, ProcessStep, EnrichStep, Discover, Stored, FetchDone, StoreItem, SendProcess,
         Resume, MarkDuplicate, FindNoDuplicate, CreateArticle, MarkParsed, Cluster, Attach,
         SendEnrich, CreateSignal, Load, Apply, SendMatch

\* What strands a raw item (pipeline/fetch.go, normalize.go): but for those that a mishap found
\* stored and not sent, every PENDING item has its job, or is about to get it, whatever happens
\* to the workers that run it.
THEOREM PendingItemsHaveJobs == IngestSpec => []PendingHasJob
<1> DEFINE Inv == ItemInv /\ PendingHasJob
<1>1. IngestInit => Inv
  BY ItemInit DEF IngestInit, PendingHasJob
<1>2. ASSUME Inv, [IngestNext]_vars PROVE Inv'
  <2>1. ItemInv'
    BY <1>2, ItemStep
  <2>2. ASSUME NEW i \in Items, i \notin stranded', raw'[i] = "PENDING"
        PROVE  Open(Process(i))' \/ \E w \in Workers : i \in run'[w].new
    <3>0. i \notin stranded
      BY <1>2, <2>2, StrandedGrows
    <3>1. CASE raw[i] # "PENDING"
      BY <1>2, <2>2, <3>1, PendingKept
    <3>2. CASE raw[i] = "PENDING" /\ Open(Process(i))
      <4>1. \A s \in Signals : i \notin links[s]
        BY <1>2, <3>2 DEF ItemInv, LinkInv, LinksFit
      <4> QED
        BY <1>2, <2>2, <3>2, <4>1, ItemJobKept
    <3>3. CASE \E w \in Workers : i \in run[w].new
      BY <1>2, <2>2, <3>3, PendingKept
    <3> QED
      BY <1>2, <3>0, <3>1, <3>2, <3>3 DEF PendingHasJob
  <2> QED
    BY <2>1, <2>2 DEF PendingHasJob
<1> QED
  BY <1>1, <1>2, PTL DEF IngestSpec

-----------------------------------------------------------------------------
(* Every link reaches a match *)

\* The signal's enrichment is asked for, or one is under way that has seen the link or will.
EnrichComing(s, i) ==
    \/ Remembered(Enrich(s))
    \/ \E w \in Workers : /\ ~ At(w, "idle") /\ run[w].job = Enrich(s)
                          /\ At(w, "load") \/ i \in run[w].seen

LEMMA AnnouncedIs ==
    AnnouncedOrComing <=>
        \A s \in Signals : \A i \in links[s] \ announced[s] : Open(Process(i)) \/ EnrichComing(s, i)
  BY DEF AnnouncedOrComing, EnrichComing, Remembered, Runs

\* What a step does to the links: the only new one is of the item of the handler that made it.
LEMMA LinksGrow ==
    ASSUME ItemInv, [IngestNext]_vars, NEW s \in Signals
    PROVE  /\ links[s] \subseteq links'[s] /\ announced[s] \subseteq announced'[s]
           /\ \A i \in Items : i \in links'[s] \ links[s] => Open(Process(i))'
<1>t. /\ run \in [Workers -> Handlers]
      /\ links \in [Signals -> SUBSET Items] /\ announced \in [Signals -> SUBSET Items]
      /\ \A w \in Workers : run[w] \in Handlers /\ HandlerFits(run[w])
  BY DEF ItemInv, Fits, IngestTypeOK, Handlers, Places
<1>f. Fits /\ Fits'
  BY ItemStep DEF ItemInv
<1>1. CASE UNCHANGED links
  <2>1. CASE UNCHANGED announced
    BY <1>1, <2>1
  <2>2. ASSUME NEW w \in Workers, SendMatch(w) PROVE announced[s] \subseteq announced'[s]
    BY <1>t, <2>2 DEF SendMatch
  <2>3. UNCHANGED announced \/ \E w \in Workers : SendMatch(w)
    BY DEF IngestNext, SendFetch, RetryJob, Claim, PollEmpty, Lose, Fault, CutShort, vars, tables, Handler,
           FetchStep, ProcessStep, EnrichStep, Discover, Stored, FetchDone, StoreItem, SendProcess,
           Resume, MarkDuplicate, FindNoDuplicate, CreateArticle, MarkParsed, Cluster, Attach,
           SendEnrich, CreateSignal, Load, Apply
  <2> QED
    BY <1>1, <2>1, <2>2, <2>3
<1>2. ASSUME NEW w \in Workers, NEW t \in Signals, Attach(w) \/ CreateSignal(w, t)
      PROVE  /\ links[s] \subseteq links'[s] /\ UNCHANGED announced
             /\ \A i \in Items : i \in links'[s] \ links[s] => Open(Process(i))'
  <2>1. PICK j \in Items : run[w].job = Process(j)
    BY <1>2, <1>t DEF Attach, CreateSignal, At, HandlerFits, ProcessSteps
  <2>2. ItemOf(w) = j
    BY <2>1, ItemOfJob
  <2>3. /\ links[s] \subseteq links'[s] /\ UNCHANGED announced
        /\ links'[s] \subseteq links[s] \cup {j}
        /\ run'[w].at = "grouped" /\ run'[w].job = Process(j)
    <3>1. CASE Attach(w)
      BY <1>t, <2>1, <2>2, <3>1 DEF Attach, GoTo, Handlers
    <3>2. CASE CreateSignal(w, t)
      BY <1>t, <2>1, <2>2, <3>2 DEF CreateSignal, Handlers
    <3> QED
      BY <1>2, <3>1, <3>2
  <2>4. Open(Process(j))'
    BY <2>3 DEF Open, Runs, At
  <2> QED
    BY <2>3, <2>4
<1>3. UNCHANGED links \/ \E w \in Workers : Attach(w) \/ \E t \in Signals : CreateSignal(w, t)
  BY DEF IngestNext, SendFetch, RetryJob, Claim, PollEmpty, Lose, Fault, CutShort, vars, tables, Handler,
         FetchStep, ProcessStep, EnrichStep, Discover, Stored, FetchDone, StoreItem, SendProcess,
         Resume, MarkDuplicate, FindNoDuplicate, CreateArticle, MarkParsed, Cluster,
         SendEnrich, Load, Apply, SendMatch
<1>4. Signals # {}
  OBVIOUS
<1> QED
  BY <1>1, <1>2, <1>3, <1>4

\* An enrichment that is coming goes on to come, until a match announces the link.
LEMMA EnrichComingKept ==
    ASSUME ItemInv, [IngestNext]_vars, NEW s \in Signals, NEW i \in links[s],
           i \notin announced'[s], EnrichComing(s, i)
    PROVE  EnrichComing(s, i)'
<1>t. /\ run \in [Workers -> Handlers] /\ queued \in [Jobs -> Nat] /\ failed \in [Jobs -> Nat]
      /\ announced \in [Signals -> SUBSET Items]
      /\ \A w \in Workers : run[w] \in Handlers /\ run[w].job \in Jobs /\ HandlerFits(run[w])
  BY DEF ItemInv, Fits, IngestTypeOK, Handlers, Places
<1>f. Fits /\ Fits' /\ Enrich(s) \in Jobs
  BY ItemStep, JobsAre DEF ItemInv
<1>1. CASE Remembered(Enrich(s))
  <2>1. CASE Remembered(Enrich(s))'
    BY <2>1 DEF EnrichComing
  <2>2. ASSUME NEW w \in Workers, run'[w].at = Entry(Enrich(s)), run'[w].job = Enrich(s)
        PROVE  EnrichComing(s, i)'
    BY <2>2, EntryIs DEF EnrichComing, At
  <2> QED
    BY <1>1, <1>f, <2>1, <2>2, JobKept
<1>2. ASSUME NEW w \in Workers, ~ At(w, "idle"), run[w].job = Enrich(s),
             At(w, "load") \/ i \in run[w].seen
      PROVE  EnrichComing(s, i)'
  <2>1. \/ run'[w] = run[w] \/ Remembered(Enrich(s))'
        \/ Continues(w) \/ Returns(w)
        \/ \E j \in Items : StoreItem(w, j) \/ SendProcess(w, j)
    BY <1>2, <1>f, HandlerKept
  <2>2. SignalOf(w) = s
    BY <1>2, SignalOfJob
  <2>3. CASE run'[w] = run[w]
    BY <1>2, <2>3 DEF EnrichComing, At
  <2>4. CASE Remembered(Enrich(s))'
    BY <2>4 DEF EnrichComing
  <2>5. run[w].at \in EnrichSteps
    <3>1. run[w].at \notin FetchSteps /\ run[w].at \notin ProcessSteps
      BY <1>2, <1>t, JobsDiffer DEF HandlerFits
    <3>2. run[w].at \in Places
      BY <1>t DEF Handlers
    <3> QED
      BY <1>2, <3>1, <3>2 DEF Places, Steps, At
  <2>6. CASE Load(w)
    <3>1. run'[w].at = "apply" /\ run'[w].job = Enrich(s) /\ run'[w].seen = links[s]
      BY <1>2, <1>t, <2>2, <2>6 DEF Load, Handlers
    <3> QED
      BY <3>1 DEF EnrichComing, At
  <2>7. CASE Apply(w)
    <3>1. run'[w].at = "enriched" /\ run'[w].job = Enrich(s) /\ run'[w].seen = run[w].seen
      BY <1>2, <1>t, <2>7 DEF Apply, GoTo, Handlers
    <3>2. i \in run[w].seen
      BY <1>2, <2>7 DEF Apply, At
    <3> QED
      BY <3>1, <3>2 DEF EnrichComing, At
  <2>8. CASE SendMatch(w)
    <3>1. i \in run[w].seen
      BY <1>2, <2>8 DEF SendMatch, At
    <3> QED
      BY <1>t, <2>2, <2>8, <3>1 DEF SendMatch
  <2> QED
    BY <2>1, <2>3, <2>4, <2>5, <2>6, <2>7, <2>8
       DEF Continues, Returns, EnrichSteps, At, Stored, Discover, FindNoDuplicate, CreateArticle,
           MarkParsed, Cluster, Attach, CreateSignal, Resume, FetchDone, MarkDuplicate, SendEnrich,
           StoreItem, SendProcess
<1> QED
  BY <1>1, <1>2 DEF EnrichComing

\* Every link of a signal reaches a match (pipeline/cluster.go, enrich_signal.go): one was asked
\* for after an enrichment that saw the link, or the work that leads there is queued, running or
\* failed, through any number of lost workers, failed statements and concurrent enrichments.
THEOREM LinksAreAnnounced == IngestSpec => []AnnouncedOrComing
<1> DEFINE Inv == ItemInv /\ AnnouncedOrComing
<1>1. IngestInit => Inv
  BY ItemInit DEF IngestInit, AnnouncedOrComing
<1>2. ASSUME Inv, [IngestNext]_vars PROVE Inv'
  <2>1. ItemInv'
    BY <1>2, ItemStep
  <2>2. ASSUME NEW s \in Signals, NEW i \in links'[s], i \notin announced'[s]
        PROVE  Open(Process(i))' \/ EnrichComing(s, i)'
    <3>1. i \in Items
      BY <2>1 DEF ItemInv, Fits, IngestTypeOK
    <3>2. CASE i \notin links[s]
      BY <1>2, <2>2, <3>1, <3>2, LinksGrow
    <3>3. CASE i \in links[s]
      <4>1. i \notin announced[s]
        BY <1>2, <2>2, LinksGrow
      <4>2. raw[i] = "PARSED" /\ i \in articles /\ \A t \in Signals : i \in links[t] => t = s
        BY <1>2, <3>1, <3>3 DEF ItemInv, LinkInv, LinksFit
      <4>3. CASE Open(Process(i))
        <5>1. Open(Process(i))' \/ \E t \in Signals : i \in links[t] /\ Remembered(Enrich(t))'
          BY <1>2, <3>1, <4>2, <4>3, ItemJobKept
        <5>2. Open(Process(i))' \/ Remembered(Enrich(s))'
          BY <4>2, <5>1
        <5> QED
          BY <5>2 DEF EnrichComing
      <4>4. CASE EnrichComing(s, i)
        BY <1>2, <2>2, <3>3, <4>4, EnrichComingKept
      <4> QED
        BY <1>2, <3>3, <4>1, <4>3, <4>4, AnnouncedIs
    <3> QED
      BY <3>2, <3>3
  <2>3. AnnouncedOrComing'
    BY <2>2, AnnouncedIs DEF EnrichComing, Remembered, AnnouncedOrComing, Runs
  <2> QED
    BY <2>1, <2>3
<1> QED
  BY <1>1, <1>2, PTL DEF IngestSpec

-----------------------------------------------------------------------------
(* Look-ups of several workers, before the inserts that follow from them *)

\* One worker runs one job: items of which each has a worker in its job are no more than these.
LEMMA OneEach ==
    ASSUME NEW S \in SUBSET Items, NEW job,
           \A i \in S : \E w \in Workers : job[w] = Process(i)
    PROVE  Cardinality(S) <= Cardinality(Workers)
<1> DEFINE f == [i \in S |-> CHOOSE w \in Workers : job[w] = Process(i)]
<1>1. f \in [S -> Workers] /\ \A i \in S : job[f[i]] = Process(i)
  OBVIOUS
<1>2. \A i, j \in S : f[i] = f[j] => i = j
  BY <1>1, JobsDiffer
<1>3. IsFiniteSet(S) /\ IsFiniteSet(Workers)
  BY IngestAssumption, FS_Subset
<1>4. Cardinality(S) \in Nat /\ Cardinality(Workers) \in Nat
  BY <1>3, FS_CardinalityType
<1> HIDE DEF f
<1>5. ~ (Cardinality(Workers) < Cardinality(S))
  BY <1>1, <1>2, <1>3, FS_PigeonHole
<1> QED
  BY <1>4, <1>5

\* The items that a worker has found new, and is about to insert as an article or a signal.
Creating == {i \in Items : \E w \in Workers : run[w].job = Process(i) /\ run[w].at = "create"}
Starting == {i \in Items : \E w \in Workers : /\ run[w].job = Process(i) /\ run[w].at = "link"
                                             /\ run[w].signal = NoSignal}

Unseen(i) == \A j \in articles : ~ Same(i, j)

\* A worker stays where it is, is at the beginning or the end of a handler, or goes on in one.
LEMMA WorkerMoves ==
    ASSUME ItemInv, [IngestNext]_vars, NEW w \in Workers
    PROVE  \/ run'[w] = run[w]
           \/ run'[w].at \in {"idle", "discover", "normalize", "load", "store", "send"}
           \/ Continues(w)
<1>f. Fits
  BY DEF ItemInv
<1>t. /\ run \in [Workers -> Handlers]
      /\ \A v \in Workers : run[v] \in Handlers /\ run[v].job \in Jobs /\ HandlerFits(run[v])
  BY <1>f DEF Fits, IngestTypeOK, Handlers, Places
<1>1. CASE ~ At(w, "idle")
  <2>1. Finish(w) => run'[w].at = "idle"
    BY <1>f, FinishKeeps, IdleFits
  <2>2. Lose(w) \/ Fault(w) \/ Returns(w) => Finish(w)
    BY DEF Lose, Fault, CutShort, Returns, FetchDone, MarkDuplicate, SendEnrich, SendMatch
  <2>3. ASSUME NEW j \in Items, StoreItem(w, j) \/ SendProcess(w, j)
        PROVE  run'[w].at \in {"store", "send"}
    <3>1. CASE StoreItem(w, j)
      BY <3>1, <1>t DEF StoreItem, At, Handlers
    <3>2. CASE SendProcess(w, j)
      BY <3>2, <1>t DEF SendProcess, At, Handlers
    <3> QED
      BY <2>3, <3>1, <3>2
  <2> QED
    BY <1>1, <1>f, <1>t, <2>1, <2>2, <2>3, HandlerKept
<1>2. CASE At(w, "idle")
  <2>1. ASSUME NEW job \in Jobs, Claim(w, job) PROVE run'[w].at \in {"discover", "normalize", "load"}
    BY <2>1, <1>t, IdleFits, EntryIs, JobsAre DEF Claim, Handlers
  <2>2. ASSUME NEW v \in Workers \ {w}, NEW job \in Jobs, Claim(v, job) PROVE run'[w] = run[w]
    BY <2>2, <1>t DEF Claim
  <2>3. ASSUME NEW v \in Workers \ {w}, Lose(v) \/ Fault(v) PROVE run'[w] = run[w]
    BY <2>3, <1>f, FinishKeeps DEF Lose, Fault, CutShort
  <2>4. ASSUME NEW v \in Workers \ {w}, Handler(v) PROVE run'[w] = run[w]
    <3>1. ASSUME NEW i \in Items, StoreItem(v, i) \/ SendProcess(v, i) PROVE run'[w] = run[w]
      BY <3>1, <1>t DEF StoreItem, SendProcess
    <3>2. CASE Returns(v)
      BY <3>2, <1>f, FinishKeeps DEF Returns, FetchDone, MarkDuplicate, SendEnrich, SendMatch
    <3> QED
      BY <2>4, <1>f, <3>1, <3>2, ContinuesKeeps, HandlerIs
  <2>5. ~ Lose(w) /\ ~ Fault(w)
    BY <1>2 DEF Lose, Fault, CutShort
  <2>6. ASSUME Handler(w) PROVE FALSE
    BY <1>2, <2>6 DEF Handler, FetchStep, ProcessStep, EnrichStep, Discover, Stored, FetchDone,
           StoreItem, SendProcess, Resume, MarkDuplicate, FindNoDuplicate, CreateArticle, MarkParsed,
           Cluster, Attach, SendEnrich, CreateSignal, Load, Apply, SendMatch, At
  <2>7. SendFetch \/ UNCHANGED vars \/ (\E job \in Jobs : RetryJob(job)) \/ (\E v \in Workers : PollEmpty(v))
        => run'[w] = run[w]
    BY DEF SendFetch, vars, RetryJob, PollEmpty
  <2> QED
    BY <2>1, <2>2, <2>3, <2>4, <2>5, <2>6, <2>7 DEF IngestNext
<1> QED
  BY <1>1, <1>2

\* An article is inserted by a worker that has found none with its content.
LEMMA CreatingGrows ==
    ASSUME ItemInv, [IngestNext]_vars
    PROVE  \/ articles' \cup Creating' \subseteq articles \cup Creating
           \/ \E i \in Items : /\ Unseen(i) /\ UNCHANGED articles
                              /\ Creating' \subseteq Creating \cup {i}
<1>t. /\ run \in [Workers -> Handlers]
      /\ \A w \in Workers : run[w] \in Handlers /\ HandlerFits(run[w])
  BY DEF ItemInv, Fits, IngestTypeOK, Handlers, Places
<1>i. ASSUME NEW w \in Workers, CreateArticle(w) \/ FindNoDuplicate(w)
      PROVE  \E i \in Items : run[w].job = Process(i) /\ ItemOf(w) = i
  BY <1>i, <1>t, ItemOfJob DEF CreateArticle, FindNoDuplicate, At, HandlerFits, ProcessSteps
<1>1. ASSUME NEW w \in Workers, CreateArticle(w)
      PROVE  articles' \cup Creating' \subseteq articles \cup Creating
  <2>1. PICK i \in Items : run[w].job = Process(i) /\ ItemOf(w) = i
    BY <1>1, <1>i
  <2>2. articles' = articles \cup {i} /\ i \in Creating
    BY <1>1, <2>1 DEF CreateArticle, At, Creating
  <2>3. \A v \in Workers : v # w => run'[v] = run[v]
    BY <1>1, <1>t DEF CreateArticle, GoTo
  <2>4. run'[w].at = "parsed"
    BY <1>1, <1>t DEF CreateArticle, GoTo, Handlers
  <2>5. Creating' \subseteq Creating
    BY <2>3, <2>4 DEF Creating
  <2> QED
    BY <2>2, <2>5
<1>2. ASSUME NEW w \in Workers, FindNoDuplicate(w)
      PROVE  \E i \in Items : Unseen(i) /\ UNCHANGED articles /\ Creating' \subseteq Creating \cup {i}
  <2>1. PICK i \in Items : run[w].job = Process(i) /\ ItemOf(w) = i
    BY <1>2, <1>i
  <2>2. UNCHANGED articles /\ Unseen(i)
    BY <1>2, <2>1 DEF FindNoDuplicate, tables, Twin, Unseen
  <2>3. \A v \in Workers : v # w => run'[v] = run[v]
    BY <1>2, <1>t DEF FindNoDuplicate, GoTo
  <2>4. run'[w].job = Process(i)
    BY <1>2, <1>t, <2>1 DEF FindNoDuplicate, GoTo, Handlers
  <2>5. Creating' \subseteq Creating \cup {i}
    BY <2>3, <2>4, JobsDiffer DEF Creating
  <2> QED
    BY <2>2, <2>5
<1>3. ASSUME \A w \in Workers : ~ CreateArticle(w) /\ ~ FindNoDuplicate(w)
      PROVE  articles' \cup Creating' \subseteq articles \cup Creating
  <2>1. UNCHANGED articles
    BY <1>3 DEF IngestNext, SendFetch, RetryJob, Claim, PollEmpty, Lose, Fault, CutShort, vars, tables, Handler,
           FetchStep, ProcessStep, EnrichStep, Discover, Stored, FetchDone, StoreItem, SendProcess,
           Resume, MarkDuplicate, FindNoDuplicate, MarkParsed, Cluster, Attach,
           SendEnrich, CreateSignal, Load, Apply, SendMatch
  <2>2. ASSUME NEW w \in Workers, run'[w].at = "create" PROVE run'[w] = run[w]
    <3>1. ~ Continues(w)
      BY <1>3, <1>t, <2>2 DEF Continues, Stored, Discover, MarkParsed, Cluster, Attach, CreateSignal,
                              Load, Apply, Resume, GoTo, Handlers
    <3> QED
      BY <2>2, <3>1, WorkerMoves
  <2>3. Creating' \subseteq Creating
    BY <2>2 DEF Creating
  <2> QED
    BY <2>1, <2>3
<1> QED
  BY <1>1, <1>2, <1>3

\* The articles with one content are no more than the workers (pipeline/normalize.go): whoever
\* looks for a duplicate after one of them was inserted finds it, so all of them were looked up
\* before the first insert, by as many workers.
THEOREM CopiesAreBounded == IngestSpec => []CopiesBounded
<1> DEFINE Clique(S) == Pairwise(S, Same)
           Bounded == \A S \in SUBSET (articles \cup Creating) :
                         Clique(S) => Cardinality(S) <= Cardinality(Workers)
           Inv == ItemInv /\ Bounded
<1>1. IngestInit => Inv
  <2> SUFFICES ASSUME IngestInit PROVE Inv
    OBVIOUS
  <2>1. articles = {} /\ Creating = {}
    BY IdleFits DEF IngestInit, Creating
  <2>2. Cardinality({}) <= Cardinality(Workers)
    BY FS_EmptySet, FS_CardinalityType, IngestAssumption
  <2> QED
    BY <2>1, <2>2, ItemInit
<1>2. ASSUME Inv, [IngestNext]_vars PROVE Inv'
  <2>1. ItemInv'
    BY <1>2, ItemStep
  <2>2. ASSUME NEW S \in SUBSET (articles' \cup Creating'), Clique(S)
        PROVE  Cardinality(S) <= Cardinality(Workers)
    <3>1. CASE articles' \cup Creating' \subseteq articles \cup Creating
      BY <1>2, <2>2, <3>1
    <3>2. ASSUME NEW i \in Items, Unseen(i), UNCHANGED articles, Creating' \subseteq Creating \cup {i}
          PROVE  Cardinality(S) <= Cardinality(Workers)
      <4>1. CASE i \notin S \/ i \in articles
        <5>1. S \subseteq articles \cup Creating
          BY <2>2, <3>2, <4>1
        <5> QED
          BY <1>2, <2>2, <5>1
      <4>2. CASE i \in S /\ i \notin articles
        <5>1. \A j \in S : j \notin articles
          BY <2>2, <3>2, <4>2 DEF Unseen, Pairwise
        <5>2. S \subseteq Creating'
          BY <2>2, <3>2, <5>1
        <5>3. S \in SUBSET Items /\ \A j \in S : \E w \in Workers : run'[w].job = Process(j)
          BY <5>2 DEF Creating
        <5>4. \A j \in S : \E w \in Workers : [v \in Workers |-> run'[v].job][w] = Process(j)
          BY <5>3
        <5> QED
          BY <5>3, <5>4, OneEach
      <4> QED
        BY <4>1, <4>2
    <3> QED
      BY <1>2, <3>1, <3>2, CreatingGrows
  <2> QED
    BY <2>1, <2>2
<1>3. Inv => CopiesBounded
  BY DEF CopiesBounded
<1> QED
  BY <1>1, <1>2, <1>3, PTL DEF IngestSpec

\* A signal is started by a worker that has found none alike.
LEMMA StartingGrows ==
    ASSUME ItemInv, [IngestNext]_vars
    PROVE  \/ Started' \cup Starting' \subseteq Started \cup Starting
           \/ \E i \in Items : /\ \A p \in Started : ~ Alike(p, i)
                              /\ UNCHANGED primary /\ Starting' \subseteq Starting \cup {i}
<1>t. /\ run \in [Workers -> Handlers] /\ primary \in [Signals -> SUBSET Items]
      /\ \A w \in Workers : run[w] \in Handlers /\ HandlerFits(run[w])
  BY DEF ItemInv, Fits, IngestTypeOK, Handlers, Places
<1>i. ASSUME NEW w \in Workers, Cluster(w) \/ \E s \in Signals : CreateSignal(w, s)
      PROVE  \E i \in Items : run[w].job = Process(i) /\ ItemOf(w) = i
  BY <1>i, <1>t, ItemOfJob DEF Cluster, CreateSignal, At, HandlerFits, ProcessSteps
<1>n. NoSignal \notin Signals
  BY DEF NoSignal, Signals
<1>1. ASSUME NEW w \in Workers, NEW s \in Signals, CreateSignal(w, s)
      PROVE  Started' \cup Starting' \subseteq Started \cup Starting
  <2>1. PICK i \in Items : run[w].job = Process(i) /\ ItemOf(w) = i
    BY <1>1, <1>i
  <2>2. primary' = [primary EXCEPT ![s] = {i}] /\ i \in Starting
    BY <1>1, <2>1 DEF CreateSignal, At, Starting
  <2>3. Started' \subseteq Started \cup {i}
    <3>1. \A t \in Signals : primary'[t] \subseteq primary[t] \cup {i}
      BY <2>2, <1>t
    <3> QED
      BY <3>1 DEF Started
  <2>4. \A v \in Workers : v # w => run'[v] = run[v]
    BY <1>1, <1>t DEF CreateSignal
  <2>5. run'[w].at = "grouped"
    BY <1>1, <1>t DEF CreateSignal, Handlers
  <2>6. Starting' \subseteq Starting
    BY <2>4, <2>5 DEF Starting
  <2> QED
    BY <2>2, <2>3, <2>6
<1>2. ASSUME NEW w \in Workers, Cluster(w)
      PROVE  \/ Started' \cup Starting' \subseteq Started \cup Starting
             \/ \E i \in Items : /\ \A p \in Started : ~ Alike(p, i)
                                /\ UNCHANGED primary /\ Starting' \subseteq Starting \cup {i}
  <2>1. PICK i \in Items : run[w].job = Process(i) /\ ItemOf(w) = i
    BY <1>2, <1>i
  <2>2. UNCHANGED primary /\ Started' = Started
    BY <1>2 DEF Cluster, tables, Started
  <2>3. \A v \in Workers : v # w => run'[v] = run[v]
    BY <1>2, <1>t DEF Cluster, GoTo
  <2>4. run'[w].job = Process(i)
    BY <1>2, <1>t, <2>1 DEF Cluster, GoTo, Handlers
  <2>5. \/ run'[w].at = "grouped"
        \/ run'[w].at = "link" /\ run'[w].signal \in Signals
        \/ Candidates(i) = {}
    BY <1>2, <1>t, <2>1 DEF Cluster, GoTo, Handlers, Candidates
  <2>6. Starting' \subseteq Starting \cup {i}
    BY <2>3, <2>4, JobsDiffer DEF Starting
  <2>7. CASE Candidates(i) = {}
    <3>1. \A p \in Started : ~ Alike(p, i)
      BY <2>7 DEF Candidates, Started
    <3> QED
      BY <2>2, <2>6, <3>1
  <2>8. CASE run'[w].at = "grouped" \/ run'[w].signal \in Signals
    <3>1. Starting' \subseteq Starting
      BY <2>3, <2>8, <1>n DEF Starting
    <3> QED
      BY <2>2, <3>1
  <2> QED
    BY <2>5, <2>7, <2>8
<1>3. ASSUME \A w \in Workers : ~ Cluster(w) /\ \A s \in Signals : ~ CreateSignal(w, s)
      PROVE  Started' \cup Starting' \subseteq Started \cup Starting
  <2>1. UNCHANGED primary
    BY <1>3 DEF IngestNext, SendFetch, RetryJob, Claim, PollEmpty, Lose, Fault, CutShort, vars, tables, Handler,
           FetchStep, ProcessStep, EnrichStep, Discover, Stored, FetchDone, StoreItem, SendProcess,
           Resume, MarkDuplicate, FindNoDuplicate, CreateArticle, MarkParsed, Attach,
           SendEnrich, Load, Apply, SendMatch
  <2>2. ASSUME NEW w \in Workers, run'[w].at = "link" PROVE run'[w] = run[w]
    <3>1. ~ Continues(w)
      BY <1>3, <1>t, <2>2 DEF Continues, Stored, Discover, FindNoDuplicate, CreateArticle, MarkParsed,
                              Attach, Load, Apply, Resume, GoTo, Handlers
    <3> QED
      BY <2>2, <3>1, WorkerMoves
  <2>3. Starting' \subseteq Starting
    BY <2>2 DEF Starting
  <2>4. Started' = Started
    BY <2>1 DEF Started
  <2> QED
    BY <2>3, <2>4
<1> QED
  BY <1>1, <1>2, <1>3

\* The signals of one story are no more than the workers (pipeline/cluster.go), for the same
\* reason: whoever scans the candidates after one of them was started finds it.
THEOREM StoriesAreBounded == IngestSpec => []StoriesBounded
<1> DEFINE Clique(S) == Pairwise(S, Alike)
           Bounded == \A S \in SUBSET (Started \cup Starting) :
                         Clique(S) => Cardinality(S) <= Cardinality(Workers)
           Inv == ItemInv /\ Bounded
<1>1. IngestInit => Inv
  <2> SUFFICES ASSUME IngestInit PROVE Inv
    OBVIOUS
  <2>1. Started = {} /\ Starting = {}
    BY IdleFits DEF IngestInit, Started, Starting
  <2>2. Cardinality({}) <= Cardinality(Workers)
    BY FS_EmptySet, FS_CardinalityType, IngestAssumption
  <2> QED
    BY <2>1, <2>2, ItemInit
<1>2. ASSUME Inv, [IngestNext]_vars PROVE Inv'
  <2>1. ItemInv' /\ primary' \in [Signals -> SUBSET Items]
    BY <1>2, ItemStep DEF ItemInv, Fits, IngestTypeOK
  <2>s. Started' \subseteq Items /\ Starting' \subseteq Items
    BY <2>1 DEF Started, Starting
  <2>2. ASSUME NEW S \in SUBSET (Started' \cup Starting'), Clique(S)
        PROVE  Cardinality(S) <= Cardinality(Workers)
    <3>1. CASE Started' \cup Starting' \subseteq Started \cup Starting
      BY <1>2, <2>2, <3>1
    <3>2. ASSUME NEW i \in Items, \A p \in Started : ~ Alike(p, i), UNCHANGED primary,
                 Starting' \subseteq Starting \cup {i}
          PROVE  Cardinality(S) <= Cardinality(Workers)
      <4>0. Started' = Started
        BY <3>2 DEF Started
      <4>1. CASE i \notin S \/ i \in Started
        <5>1. S \subseteq Started \cup Starting
          BY <2>2, <3>2, <4>0, <4>1
        <5> QED
          BY <1>2, <2>2, <5>1
      <4>2. CASE i \in S /\ i \notin Started
        <5>1. \A j \in S : j \notin Started
          BY <2>2, <3>2, <4>2 DEF Pairwise
        <5>2. S \subseteq Starting'
          BY <2>2, <4>0, <5>1
        <5>3. S \in SUBSET Items /\ \A j \in S : \E w \in Workers : run'[w].job = Process(j)
          BY <5>2 DEF Starting
        <5>4. \A j \in S : \E w \in Workers : [v \in Workers |-> run'[v].job][w] = Process(j)
          BY <5>3
        <5> QED
          BY <5>3, <5>4, OneEach
      <4> QED
        BY <4>1, <4>2
    <3> QED
      BY <1>2, <3>1, <3>2, StartingGrows
  <2> QED
    BY <2>1, <2>2
<1>3. Inv => StoriesBounded
  BY DEF StoriesBounded
<1> QED
  BY <1>1, <1>2, <1>3, PTL DEF IngestSpec

-----------------------------------------------------------------------------
(* Ingest implements ItemFlow *)

\* An article is of a raw item that was stored.
ArticleFits(i) == i \in articles => raw[i] # "none"

LEMMA ArticleStep ==
    ASSUME ItemInv, [IngestNext]_vars, NEW i \in Items, ArticleFits(i)
    PROVE  ArticleFits(i)'
<1>t. /\ run \in [Workers -> Handlers]
      /\ raw \in [Items -> {"none", "PENDING", "PARSED", "DUPLICATE"}]
      /\ \A w \in Workers : run[w] \in Handlers /\ run[w].job \in Jobs /\ HandlerFits(run[w])
  BY DEF ItemInv, Fits, IngestTypeOK, Handlers, Places
<1>1. ASSUME NEW w \in Workers, CreateArticle(w), i \notin articles, i \in articles' PROVE raw'[i] # "none"
  <2>1. PICK j \in Items : run[w].job = Process(j)
    BY <1>1, <1>t DEF CreateArticle, At, HandlerFits, ProcessSteps
  <2>2. j = i /\ UNCHANGED raw /\ run[w].at = "create"
    BY <1>1, <2>1, ItemOfJob DEF CreateArticle, At
  <2> QED
    BY <2>1, <2>2 DEF ItemInv, LinkInv, PlaceFits
<1>2. raw[i] # "none" => raw'[i] # "none"
  <2>1. ASSUME NEW w \in Workers, MarkParsed(w) \/ MarkDuplicate(w) PROVE raw[i] # "none" => raw'[i] # "none"
    BY <1>t, <2>1 DEF MarkParsed, MarkDuplicate
  <2>2. ASSUME NEW w \in Workers, NEW j \in Items, StoreItem(w, j) PROVE raw[i] # "none" => raw'[i] # "none"
    BY <1>t, <2>2 DEF StoreItem
  <2>3. \/ UNCHANGED raw
        \/ \E w \in Workers : MarkParsed(w) \/ MarkDuplicate(w) \/ \E j \in Items : StoreItem(w, j)
    BY DEF IngestNext, SendFetch, RetryJob, Claim, PollEmpty, Lose, Fault, CutShort, vars, tables, Handler,
           FetchStep, ProcessStep, EnrichStep, Discover, Stored, FetchDone, SendProcess,
           Resume, FindNoDuplicate, CreateArticle, Cluster, Attach,
           SendEnrich, CreateSignal, Load, Apply, SendMatch
  <2> QED
    BY <2>1, <2>2, <2>3
<1>3. i \in articles' => i \in articles \/ \E w \in Workers : CreateArticle(w)
  BY DEF IngestNext, SendFetch, RetryJob, Claim, PollEmpty, Lose, Fault, CutShort, vars, tables, Handler,
         FetchStep, ProcessStep, EnrichStep, Discover, Stored, FetchDone, StoreItem, SendProcess,
         Resume, MarkDuplicate, FindNoDuplicate, MarkParsed, Cluster, Attach,
         SendEnrich, CreateSignal, Load, Apply, SendMatch
<1> QED
  BY <1>1, <1>2, <1>3 DEF ArticleFits

\* The articles whose raw item will be, or is, taken for a duplicate of them: a mishap came
\* between the two statements that create an article and mark its raw item.
Dying ==
    {i \in articles :
        \/ raw[i] = "DUPLICATE"
        \/ /\ raw[i] = "PENDING"
           /\ \A w \in Workers : ~ (run[w].job = Process(i) /\ run[w].at = "parsed")}

LEMMA DyingKept ==
    ASSUME ItemInv, [IngestNext]_vars, NEW i \in Items, ArticleFits(i), i \in Dying', i \notin Dying
    PROVE  \E w \in Workers : run[w].job = Process(i) /\ (Lose(w) \/ Fault(w))
<1>t. /\ run \in [Workers -> Handlers]
      /\ raw \in [Items -> {"none", "PENDING", "PARSED", "DUPLICATE"}]
      /\ \A w \in Workers : run[w] \in Handlers /\ run[w].job \in Jobs /\ HandlerFits(run[w])
  BY DEF ItemInv, Fits, IngestTypeOK, Handlers, Places
<1>f. Fits /\ Process(i) \in Jobs /\ OneHolder(i) /\ LinkInv(i)
  BY JobsAre DEF ItemInv
<1>1. i \in articles
  <2>1. ASSUME i \notin articles PROVE \E w \in Workers : CreateArticle(w)
    BY <2>1 DEF Dying, IngestNext, SendFetch, RetryJob, Claim, PollEmpty, Lose, Fault, CutShort, vars, tables,
           Handler, FetchStep, ProcessStep, EnrichStep, Discover, Stored, FetchDone, StoreItem, SendProcess,
           Resume, MarkDuplicate, FindNoDuplicate, MarkParsed, Cluster, Attach,
           SendEnrich, CreateSignal, Load, Apply, SendMatch
  <2>2. ASSUME NEW w \in Workers, CreateArticle(w), i \notin articles PROVE FALSE
    <3>1. PICK j \in Items : run[w].job = Process(j)
      BY <2>2, <1>t DEF CreateArticle, At, HandlerFits, ProcessSteps
    <3>2. j = i /\ UNCHANGED raw /\ run[w].at = "create"
      BY <2>2, <3>1, ItemOfJob DEF CreateArticle, At, Dying
    <3>3. raw'[i] = "PENDING"
      BY <1>f, <3>1, <3>2 DEF LinkInv, PlaceFits
    <3>4. run'[w].job = Process(i) /\ run'[w].at = "parsed"
      BY <2>2, <1>t, <3>1, <3>2 DEF CreateArticle, GoTo, Handlers
    <3> QED
      BY <3>3, <3>4 DEF Dying
  <2> QED
    BY <2>1, <2>2
<1>r. \/ UNCHANGED raw
      \/ \E w \in Workers : MarkParsed(w) \/ MarkDuplicate(w) \/ \E j \in Items : StoreItem(w, j)
  BY DEF IngestNext, SendFetch, RetryJob, Claim, PollEmpty, Lose, Fault, CutShort, vars, tables, Handler,
         FetchStep, ProcessStep, EnrichStep, Discover, Stored, FetchDone, SendProcess,
         Resume, FindNoDuplicate, CreateArticle, Cluster, Attach,
         SendEnrich, CreateSignal, Load, Apply, SendMatch
<1>d. ASSUME NEW w \in Workers, MarkDuplicate(w), raw'[i] # raw[i]
      PROVE  run[w].job = Process(i) /\ raw[i] = "PENDING" /\ run[w].at = "normalize"
  <2>1. PICK j \in Items : run[w].job = Process(j)
    BY <1>d, <1>t DEF MarkDuplicate, At, HandlerFits, ProcessSteps
  <2> QED
    BY <1>d, <1>t, <2>1, ItemOfJob DEF MarkDuplicate, At
<1>p. ASSUME NEW w \in Workers, MarkParsed(w) PROVE raw'[i] \in {raw[i], "PARSED"}
  BY <1>p, <1>t DEF MarkParsed
<1>s. ASSUME NEW w \in Workers, NEW j \in Items, StoreItem(w, j), raw[i] # "none" PROVE raw'[i] = raw[i]
  BY <1>s, <1>t DEF StoreItem
<1>2. raw[i] \in {"PENDING", "PARSED"} /\ (raw[i] = "PENDING" =>
         \E w \in Workers : run[w].job = Process(i) /\ run[w].at = "parsed")
  BY <1>1, <1>t DEF Dying, ArticleFits
<1>3. raw[i] # "PARSED"
  <2>1. raw[i] = "PARSED" => raw'[i] = "PARSED"
    BY <1>r, <1>d, <1>p, <1>s
  <2> QED
    BY <2>1 DEF Dying
<1>4. PICK w \in Workers : run[w].job = Process(i) /\ run[w].at = "parsed"
  BY <1>2, <1>3
<1>5. raw'[i] \in {"PENDING", "PARSED"}
  <2>1. ASSUME NEW v \in Workers, MarkDuplicate(v) PROVE raw'[i] = raw[i]
    <3>1. raw'[i] # raw[i] => v = w
      BY <1>d, <1>f, <1>4, <2>1 DEF OneHolder, Holds
    <3> QED
      BY <1>d, <1>4, <2>1, <3>1
  <2> QED
    BY <1>2, <1>3, <1>r, <1>p, <1>s, <2>1
<1>6. raw'[i] = "PENDING" /\ ~ (run'[w].job = Process(i) /\ run'[w].at = "parsed")
  BY <1>5 DEF Dying
<1>7. ~ MarkParsed(w)
  BY <1>4, <1>6, <1>t, ItemOfJob DEF MarkParsed
<1>8. \/ run'[w] = run[w] \/ Lose(w) \/ Fault(w) \/ Continues(w) \/ Returns(w)
      \/ \E j \in Items : StoreItem(w, j) \/ SendProcess(w, j)
  BY <1>4, <1>f, HandlerKept DEF At
<1>9. ~ Continues(w) /\ ~ Returns(w) /\ ~ \E j \in Items : StoreItem(w, j) \/ SendProcess(w, j)
  BY <1>4, <1>7
     DEF Continues, Returns, At, Stored, Discover, FindNoDuplicate, CreateArticle,
         Cluster, Attach, CreateSignal, Load, Apply, Resume, FetchDone, MarkDuplicate, SendEnrich,
         SendMatch, StoreItem, SendProcess
<1> QED
  BY <1>4, <1>6, <1>8, <1>9

FlowInv ==
    /\ ItemInv /\ \A i \in Items : ArticleFits(i)
    /\ Cardinality(Dying) <= losses + faults

LEMMA FlowInvStep == ASSUME FlowInv, [IngestNext]_vars PROVE FlowInv'
<1>1. ItemInv' /\ \A i \in Items : ArticleFits(i)'
  BY ItemStep, ArticleStep DEF FlowInv
<1>t. losses \in Nat /\ faults \in Nat /\ losses' \in Nat /\ faults' \in Nat
  BY <1>1, IngestAssumption DEF FlowInv, ItemInv, Fits, IngestTypeOK
<1>2. Dying \subseteq Items /\ Dying' \subseteq Items
  BY <1>1 DEF FlowInv, ItemInv, Fits, IngestTypeOK, Dying
<1>3. IsFiniteSet(Dying) /\ IsFiniteSet(Dying')
  BY <1>2, IngestAssumption, FS_Subset
<1>4. Cardinality(Dying) \in Nat /\ Cardinality(Dying') \in Nat
  BY <1>3, FS_CardinalityType
<1> DEFINE more == \/ losses' = losses + 1 /\ faults' = faults
                   \/ losses' = losses /\ faults' = faults + 1
           n == Cardinality(Dying)
           m == Cardinality(Dying')
<1>l. ASSUME NEW w \in Workers, Lose(w) \/ Fault(w) PROVE more
  BY <1>l DEF Lose, Fault
<1>5. (losses' = losses /\ faults' = faults) \/ more
  <2>1. \/ losses' = losses /\ faults' = faults
        \/ \E w \in Workers : Lose(w) \/ Fault(w)
    BY DEF IngestNext, SendFetch, RetryJob, Claim, PollEmpty, vars, ledger, Handler,
           FetchStep, ProcessStep, EnrichStep, Discover, Stored, FetchDone, StoreItem, SendProcess,
           Resume, MarkDuplicate, FindNoDuplicate, CreateArticle, MarkParsed, Cluster, Attach,
           SendEnrich, CreateSignal, Load, Apply, SendMatch
  <2> QED
    BY <1>l, <2>1
<1>c. n \in Nat /\ m \in Nat
  BY <1>4
<1>n. n <= losses + faults
  BY DEF FlowInv
<1>m. m <= losses' + faults' => FlowInv'
  BY <1>1 DEF FlowInv
<1>6. CASE Dying' \subseteq Dying
  <2>1. m <= n
    BY <1>3, <1>6, FS_Subset
  <2> HIDE DEF n, m
  <2>2. CASE losses' = losses /\ faults' = faults
    BY <1>m, <1>n, <1>t, <1>c, <2>1, <2>2
  <2>3. CASE losses' = losses + 1 /\ faults' = faults
    BY <1>m, <1>n, <1>t, <1>c, <2>1, <2>3
  <2>4. CASE losses' = losses /\ faults' = faults + 1
    BY <1>m, <1>n, <1>t, <1>c, <2>1, <2>4
  <2> QED
    BY <1>5, <2>2, <2>3, <2>4
<1>7. ASSUME NEW i \in Dying', i \notin Dying PROVE FlowInv'
  <2>1. PICK w \in Workers : run[w].job = Process(i) /\ (Lose(w) \/ Fault(w))
    BY <1>2, <1>7, DyingKept DEF FlowInv
  <2>2. more
    BY <1>l, <2>1
  <2>3. ASSUME NEW j \in Dying', j \notin Dying PROVE j = i
    <3>1. PICK v \in Workers : run[v].job = Process(j) /\ (Lose(v) \/ Fault(v))
      BY <1>2, <2>3, DyingKept DEF FlowInv
    <3>2. ~ At(v, "idle") /\ Finish(v) /\ Finish(w)
      BY <2>1, <3>1 DEF Lose, Fault, CutShort
    <3>3. v = w
      BY <3>2, FinishKeeps, IdleFits DEF FlowInv, ItemInv, At
    <3> QED
      BY <1>2, <2>1, <3>1, <3>3, JobsDiffer
  <2>4. Dying' \subseteq Dying \cup {i}
    BY <2>3
  <2>5. m <= n + 1
    <3>1. IsFiniteSet(Dying \cup {i}) /\ Cardinality(Dying \cup {i}) = n + 1
      BY <1>3, <1>7, FS_AddElement
    <3> QED
      BY <2>4, <3>1, FS_Subset
  <2> HIDE DEF n, m
  <2>6. CASE losses' = losses + 1 /\ faults' = faults
    BY <1>m, <1>n, <1>t, <1>c, <2>5, <2>6
  <2>7. CASE losses' = losses /\ faults' = faults + 1
    BY <1>m, <1>n, <1>t, <1>c, <2>5, <2>7
  <2> QED
    BY <2>2, <2>6, <2>7
<1> QED
  BY <1>6, <1>7

\* The reader's view of an item, case by case.
StageFacts(i) ==
    /\ (\E s \in Signals : i \in announced[s]) => Stage[i] = "announced"
    /\ (\A s \in Signals : i \notin announced[s]) =>
          /\ (\E s \in Signals : i \in links[s]) => Stage[i] = "grouped"
          /\ (\A s \in Signals : i \notin links[s]) =>
                /\ raw[i] = "none" => Stage[i] = "absent"
                /\ raw[i] = "DUPLICATE" /\ i \notin articles => Stage[i] = "dropped"
                /\ raw[i] = "DUPLICATE" /\ i \in articles => Stage[i] = "lost"
                /\ raw[i] \in {"PENDING", "PARSED"} => Stage[i] = "stored"
    /\ \A s \in Signals : i \in links[s] => SignalOfItem[i] = s
    /\ (\A s \in Signals : i \notin links[s]) => SignalOfItem[i] = NoSignal

LEMMA StageIs == ItemInv => \A j \in Items : StageFacts(j)
<1> SUFFICES ASSUME ItemInv, NEW i \in Items PROVE StageFacts(i)
  OBVIOUS
<1>1. Grouped(i) = {} <=> \A s \in Signals : i \notin links[s]
  BY DEF Grouped
<1>2. ASSUME NEW s \in Signals, i \in links[s] PROVE Grouped(i) = {s}
  BY <1>2 DEF Grouped, ItemInv, LinkInv, LinksFit
<1>3. ASSUME NEW s \in Signals, i \in links[s] PROVE SignalOfItem[i] = s
  BY <1>2, <1>3 DEF SignalOfItem
<1>4. (\A s \in Signals : i \notin links[s]) => SignalOfItem[i] = NoSignal
  BY <1>1 DEF SignalOfItem
<1>5. Stage[i] = IF \E s \in Signals : i \in announced[s] THEN "announced"
                 ELSE IF Grouped(i) # {} THEN "grouped"
                 ELSE CASE raw[i] = "none" -> "absent"
                        [] raw[i] = "DUPLICATE" -> IF i \in articles THEN "lost" ELSE "dropped"
                        [] OTHER -> "stored"
  BY DEF Stage
<1>6. (\E s \in Signals : i \in announced[s]) => Grouped(i) # {}
  BY <1>1 DEF ItemInv, LinkInv, LinksFit
<1>7. ASSUME \E s \in Signals : i \in announced[s] PROVE Stage[i] = "announced"
  BY <1>5, <1>7
<1>8. ASSUME \A s \in Signals : i \notin announced[s], Grouped(i) # {}
      PROVE  Stage[i] = "grouped"
  <2>1. ~ \E s \in Signals : i \in announced[s]
    BY <1>8
  <2> QED
    BY <1>5, <1>8, <2>1
<1>9. ASSUME \A s \in Signals : i \notin announced[s], Grouped(i) = {}
      PROVE  /\ raw[i] = "none" => Stage[i] = "absent"
             /\ raw[i] = "DUPLICATE" /\ i \notin articles => Stage[i] = "dropped"
             /\ raw[i] = "DUPLICATE" /\ i \in articles => Stage[i] = "lost"
             /\ raw[i] \in {"PENDING", "PARSED"} => Stage[i] = "stored"
  <2>1. ~ \E s \in Signals : i \in announced[s]
    BY <1>9
  <2> QED
    BY <1>5, <1>9, <2>1
<1> QED
  BY <1>1, <1>3, <1>4, <1>7, <1>8, <1>9 DEF StageFacts

LEMMA StageShape ==
    /\ Stage = [i \in Items |-> Stage[i]] /\ SignalOfItem = [i \in Items |-> SignalOfItem[i]]
  BY DEF Stage, SignalOfItem

LEMMA StageBeforeAndAfter ==
    ASSUME ItemInv, ItemInv'
    PROVE  \A i \in Items : StageFacts(i) /\ StageFacts(i)'
<1>1. ItemInv /\ ItemInv'
  OBVIOUS
<1>2. (\A j \in Items : StageFacts(j)) /\ (\A j \in Items : StageFacts(j))'
  BY <1>1, StageIs, PTL
<1> QED
  BY <1>2

\* What shows of an item is the same when its row only goes from PENDING to PARSED.
LEMMA SameStage ==
    ASSUME ItemInv, ItemInv', NEW i \in Items,
           \A s \in Signals : /\ i \in links'[s] <=> i \in links[s]
                              /\ i \in announced'[s] <=> i \in announced[s],
           raw'[i] = raw[i] \/ (raw[i] \in {"PENDING", "PARSED"} /\ raw'[i] \in {"PENDING", "PARSED"}),
           raw[i] = "DUPLICATE" => (i \in articles' <=> i \in articles)
    PROVE  Stage'[i] = Stage[i] /\ SignalOfItem'[i] = SignalOfItem[i]
<1>1. StageFacts(i) /\ StageFacts(i)'
  BY StageBeforeAndAfter
<1>2. raw[i] \in {"none", "PENDING", "PARSED", "DUPLICATE"}
  BY DEF ItemInv, Fits, IngestTypeOK
<1>3. CASE \E s \in Signals : i \in announced[s]
  BY <1>1, <1>3 DEF StageFacts, ItemInv, LinkInv, LinksFit
<1>4. CASE (\A s \in Signals : i \notin announced[s]) /\ \E s \in Signals : i \in links[s]
  BY <1>1, <1>4 DEF StageFacts
<1>5. CASE \A s \in Signals : i \notin announced[s] /\ i \notin links[s]
  BY <1>1, <1>2, <1>5 DEF StageFacts
<1> QED
  BY <1>3, <1>4, <1>5

LEMMA SameFlow ==
    ASSUME ItemInv, ItemInv', UNCHANGED <<raw, links, announced>>,
           \A i \in Items : raw[i] = "DUPLICATE" => (i \in articles' <=> i \in articles)
    PROVE  UNCHANGED <<Stage, SignalOfItem>>
<1>1. \A i \in Items : Stage'[i] = Stage[i] /\ SignalOfItem'[i] = SignalOfItem[i]
  BY SameStage
<1>2. /\ Stage = [i \in Items |-> Stage[i]] /\ SignalOfItem = [i \in Items |-> SignalOfItem[i]]
      /\ Stage' = [i \in Items |-> Stage'[i]] /\ SignalOfItem' = [i \in Items |-> SignalOfItem'[i]]
  BY DEF Stage, SignalOfItem
<1> QED
  BY <1>1, <1>2

\* One item of the flow moves on and the rest stay as they are.
LEMMA OneMoves ==
    ASSUME NEW i \in Items, NEW stage, NEW group,
           \A j \in Items \ {i} : Stage'[j] = Stage[j] /\ SignalOfItem'[j] = SignalOfItem[j],
           Stage'[i] = stage, SignalOfItem'[i] = group
    PROVE  /\ Stage' = [Stage EXCEPT ![i] = stage]
           /\ SignalOfItem' = [SignalOfItem EXCEPT ![i] = group]
<1>1. /\ Stage = [j \in Items |-> Stage[j]] /\ SignalOfItem = [j \in Items |-> SignalOfItem[j]]
      /\ Stage' = [j \in Items |-> Stage'[j]] /\ SignalOfItem' = [j \in Items |-> SignalOfItem'[j]]
  BY DEF Stage, SignalOfItem
<1> QED
  BY <1>1

\* ItemFlow counts as this module does.
LEMMA SameCardinality == ASSUME NEW S PROVE Flow!Cardinality(S) = Cardinality(S)
  BY DEF Flow!Cardinality, Cardinality

LEMMA FlowStep ==
    ASSUME FlowInv, FlowInv', [IngestNext]_vars
    PROVE  [Flow!FlowNext]_(Flow!flow)
<1>i. ItemInv /\ ItemInv' /\ Fits
  BY DEF FlowInv, ItemInv
<1>s. \A i \in Items : StageFacts(i) /\ StageFacts(i)'
  BY <1>i, StageBeforeAndAfter
<1>t. /\ run \in [Workers -> Handlers]
      /\ raw \in [Items -> {"none", "PENDING", "PARSED", "DUPLICATE"}]
      /\ links \in [Signals -> SUBSET Items] /\ announced \in [Signals -> SUBSET Items]
      /\ articles \subseteq Items
      /\ \A w \in Workers : run[w] \in Handlers /\ HandlerFits(run[w])
  BY <1>i DEF Fits, IngestTypeOK, Handlers, Places
<1>l. \A i \in Items : LinksFit(i) /\ OneHolder(i)
  BY <1>i DEF ItemInv, LinkInv
\* A duplicate gets no article any more, and an article is for good.
<1>a. ASSUME NEW i \in Items, raw[i] = "DUPLICATE" PROVE i \in articles' <=> i \in articles
  <2>1. ASSUME NEW w \in Workers, CreateArticle(w) PROVE i \in articles' <=> i \in articles
    <3>1. PICK j \in Items : run[w].job = Process(j)
      BY <2>1, <1>t DEF CreateArticle, At, HandlerFits, ProcessSteps
    <3>2. j # i
      BY <1>a, <1>i, <2>1, <3>1 DEF CreateArticle, At, ItemInv, LinkInv, PlaceFits
    <3> QED
      BY <2>1, <3>1, <3>2, ItemOfJob DEF CreateArticle
  <2>2. articles' = articles \/ \E w \in Workers : CreateArticle(w)
    BY DEF IngestNext, SendFetch, RetryJob, Claim, PollEmpty, Lose, Fault, CutShort, vars, tables, Handler,
           FetchStep, ProcessStep, EnrichStep, Discover, Stored, FetchDone, StoreItem, SendProcess,
           Resume, MarkDuplicate, FindNoDuplicate, MarkParsed, Cluster, Attach,
           SendEnrich, CreateSignal, Load, Apply, SendMatch
  <2> QED
    BY <2>1, <2>2
<1>1. ASSUME UNCHANGED <<raw, links, announced>> PROVE UNCHANGED Flow!flow
  BY <1>1, <1>a, <1>i, SameFlow DEF Flow!flow
\* The insert of a raw item.
<1>2. ASSUME NEW w \in Workers, NEW i \in Items, StoreItem(w, i), raw[i] = "none"
      PROVE  Flow!Store(i)
  <2>1. UNCHANGED <<links, announced>> /\ raw' = [raw EXCEPT ![i] = "PENDING"]
    BY <1>2 DEF StoreItem
  <2>2. \A s \in Signals : i \notin links[s] /\ i \notin announced[s]
    BY <1>2, <1>l DEF LinksFit
  <2>3. /\ Stage[i] = "absent" /\ Stage'[i] = "stored"
        /\ SignalOfItem[i] = NoSignal /\ SignalOfItem'[i] = NoSignal
    BY <1>2, <1>s, <1>t, <2>1, <2>2 DEF StageFacts
  <2>4. \A j \in Items \ {i} : Stage'[j] = Stage[j] /\ SignalOfItem'[j] = SignalOfItem[j]
    BY <1>a, <1>i, <1>t, <2>1, SameStage
  <2>5. Stage' = [Stage EXCEPT ![i] = "stored"] /\ UNCHANGED SignalOfItem
    BY <2>3, <2>4, OneMoves, StageShape
  <2> QED
    BY <2>3, <2>5 DEF Flow!Store
\* A duplicate: of the article of another item, which is stored or further, or of its own
\* article, which a mishap has kept from being marked.
<1>3. ASSUME NEW w \in Workers, MarkDuplicate(w) PROVE \E i \in Items : Flow!Drop(i) \/ Flow!Lose(i)
  <2>1. PICK i \in Items : run[w].job = Process(i)
    BY <1>3, <1>t DEF MarkDuplicate, At, HandlerFits, ProcessSteps
  <2>2. ItemOf(w) = i
    BY <2>1, ItemOfJob
  <2>3. /\ run[w].at = "normalize" /\ raw[i] = "PENDING" /\ Twin(i)
        /\ UNCHANGED <<links, announced, articles>> /\ raw' = [raw EXCEPT ![i] = "DUPLICATE"]
    BY <1>3, <2>2 DEF MarkDuplicate, At
  <2>9. \A s \in Signals : i \notin links[s] /\ i \notin announced[s]
    BY <2>3, <1>l DEF LinksFit
  <2>10. /\ Stage[i] = "stored" /\ Stage'[i] = IF i \in articles THEN "lost" ELSE "dropped"
         /\ SignalOfItem[i] = NoSignal /\ SignalOfItem'[i] = NoSignal
    BY <1>s, <1>t, <2>3, <2>9 DEF StageFacts
  <2>11. \A k \in Items \ {i} : Stage'[k] = Stage[k] /\ SignalOfItem'[k] = SignalOfItem[k]
    BY <1>i, <1>t, <2>3, SameStage
  <2>12. /\ Stage' = [Stage EXCEPT ![i] = IF i \in articles THEN "lost" ELSE "dropped"]
         /\ UNCHANGED SignalOfItem
    BY <2>10, <2>11, OneMoves, StageShape
  <2>4. CASE i \notin articles
    <3>1. PICK j \in articles : Same(i, j)
      BY <2>3 DEF Twin
    <3>2. j \in Items \ {i} /\ raw[j] # "none"
      BY <1>t, <2>4, <3>1 DEF FlowInv, ArticleFits
    <3>3. raw[j] \in {"PENDING", "PARSED", "DUPLICATE"}
      BY <1>t, <3>2
    <3>4. Stage[j] \in {"stored", "grouped", "announced", "lost"}
      BY <1>s, <3>1, <3>2, <3>3 DEF StageFacts
    <3> QED
      BY <2>4, <2>10, <2>12, <3>1, <3>2, <3>4 DEF Flow!Drop, Flow!Kept
  <2>5. CASE i \in articles
    <3>1. i \in Dying
      BY <1>l, <2>1, <2>3, <2>5 DEF Dying, OneHolder, Holds
    <3>2. Flow!Lost \subseteq Dying \ {i}
      <4>1. ASSUME NEW j \in Flow!Lost PROVE j \in articles /\ raw[j] = "DUPLICATE"
        BY <1>s, <1>t, <4>1 DEF Flow!Lost, StageFacts
      <4> QED
        BY <2>3, <4>1 DEF Dying
    <3>3. IsFiniteSet(Dying) /\ Dying \subseteq Items
      BY <1>t, IngestAssumption, FS_Subset DEF Dying
    <3>4. IsFiniteSet(Dying \ {i}) /\ Cardinality(Dying \ {i}) = Cardinality(Dying) - 1
          /\ Cardinality(Dying) \in Nat
      BY <3>1, <3>3, FS_RemoveElement, FS_CardinalityType
    <3>5. IsFiniteSet(Flow!Lost) /\ Cardinality(Flow!Lost) <= Cardinality(Dying \ {i})
          /\ Cardinality(Flow!Lost) \in Nat
      BY <3>2, <3>4, FS_Subset, FS_CardinalityType
    <3>6. losses \in Nat /\ faults \in Nat /\ losses <= MaxLosses /\ faults <= MaxFaults
          /\ Cardinality(Dying) <= losses + faults
      BY <1>i, IngestAssumption DEF FlowInv, Fits, IngestTypeOK
    <3>7. Cardinality(Flow!Lost) < MaxLosses + MaxFaults
      BY <3>4, <3>5, <3>6, IngestAssumption
    <3> QED
      BY <2>5, <2>10, <2>12, <3>7, SameCardinality DEF Flow!Lose
  <2> QED
    BY <2>4, <2>5
\* The mark of a parsed item does not show.
<1>4. ASSUME NEW w \in Workers, MarkParsed(w) PROVE UNCHANGED Flow!flow
  <2>1. PICK i \in Items : run[w].job = Process(i)
    BY <1>4, <1>t DEF MarkParsed, At, HandlerFits, ProcessSteps
  <2>2. ItemOf(w) = i
    BY <2>1, ItemOfJob
  <2>3. raw[i] = "PENDING" /\ raw' = [raw EXCEPT ![i] = "PARSED"]
        /\ UNCHANGED <<links, announced, articles>>
    BY <1>4, <1>i, <2>1, <2>2 DEF MarkParsed, At, ItemInv, LinkInv, PlaceFits
  <2>4. \A j \in Items : Stage'[j] = Stage[j] /\ SignalOfItem'[j] = SignalOfItem[j]
    BY <1>i, <1>t, <2>3, SameStage
  <2>5. /\ Stage = [j \in Items |-> Stage[j]] /\ SignalOfItem = [j \in Items |-> SignalOfItem[j]]
        /\ Stage' = [j \in Items |-> Stage'[j]] /\ SignalOfItem' = [j \in Items |-> SignalOfItem'[j]]
    BY DEF Stage, SignalOfItem
  <2> QED
    BY <2>4, <2>5 DEF Flow!flow
\* A link.
<1>5. ASSUME NEW w \in Workers, NEW t \in Signals, Attach(w) \/ CreateSignal(w, t)
      PROVE  \E i \in Items, s \in Signals : Flow!Join(i, s)
  <2>1. PICK i \in Items : run[w].job = Process(i)
    BY <1>5, <1>t DEF Attach, CreateSignal, At, HandlerFits, ProcessSteps
  <2>2. ItemOf(w) = i
    BY <2>1, ItemOfJob
  <2>3. PICK s \in Signals :
           /\ \A u \in Signals \ {s} : links'[u] = links[u]
           /\ links'[s] \subseteq links[s] \cup {i} /\ links[s] \subseteq links'[s] /\ i \in links'[s]
           /\ UNCHANGED <<raw, announced, articles>> /\ run[w].at = "link"
    <3>1. CASE Attach(w)
      <4>1. run[w].signal \in Signals
        BY <3>1, <1>t DEF Attach, Handlers
      <4> QED
        BY <3>1, <1>t, <2>2, <4>1 DEF Attach, At
    <3>2. CASE CreateSignal(w, t)
      BY <3>2, <1>t, <2>2 DEF CreateSignal, At
    <3> QED
      BY <1>5, <3>1, <3>2
  <2>4. \A u \in Signals : i \notin links[u]
    BY <1>i, <2>1, <2>3 DEF ItemInv, LinkInv, PlaceFits
  <2>5. raw[i] = "PARSED" /\ \A u \in Signals : i \notin announced[u]
    BY <1>i, <1>l, <2>1, <2>3, <2>4 DEF ItemInv, LinkInv, PlaceFits, LinksFit
  <2>6. /\ Stage[i] = "stored" /\ Stage'[i] = "grouped" /\ SignalOfItem'[i] = s
    <3>1. Stage[i] = "stored"
      BY <1>s, <2>4, <2>5 DEF StageFacts
    <3>2. \A u \in Signals : i \notin announced'[u]
      BY <2>3, <2>5
    <3> QED
      BY <1>s, <2>3, <3>1, <3>2 DEF StageFacts
  <2>7. ASSUME NEW j \in Items \ {i}
        PROVE  Stage'[j] = Stage[j] /\ SignalOfItem'[j] = SignalOfItem[j]
    <3>1. \A u \in Signals : j \in links'[u] <=> j \in links[u]
      BY <2>3
    <3> QED
      BY <1>i, <2>3, <3>1, SameStage
  <2>8. /\ Stage' = [Stage EXCEPT ![i] = "grouped"]
        /\ SignalOfItem' = [SignalOfItem EXCEPT ![i] = s]
    BY <2>6, <2>7, OneMoves
  <2> QED
    BY <2>6, <2>8 DEF Flow!Join
\* A match: it announces the links its enrichment has seen, as far as no other match has.
<1>6. ASSUME NEW w \in Workers, SendMatch(w) PROVE \E s \in Signals : Flow!Announce(s)
  <2>1. PICK s \in Signals : run[w].job = Enrich(s)
    BY <1>6, <1>t DEF SendMatch, At, HandlerFits, EnrichSteps
  <2>2. SignalOf(w) = s
    BY <2>1, SignalOfJob
  <2>3. PICK seen \in SUBSET Items :
           seen = run[w].seen /\ announced' = [announced EXCEPT ![s] = @ \cup seen]
    BY <1>6, <1>t, <2>2 DEF SendMatch, Handlers
  <2>4. UNCHANGED <<raw, links, articles>> /\ run[w].at = "enriched"
    BY <1>6 DEF SendMatch, At
  <2>5. seen \subseteq links[s]
    BY <1>i, <2>1, <2>3, <2>4 DEF ItemInv, LinkInv, SeenFits
  <2>6. PICK S \in SUBSET Items : S = {i \in seen : \A u \in Signals : i \notin announced[u]}
    OBVIOUS
  <2>7. ASSUME NEW i \in S
        PROVE  Stage[i] = "grouped" /\ SignalOfItem[i] = s /\ Stage'[i] = "announced" /\ SignalOfItem'[i] = s
    <3>1. i \in Items /\ i \in links[s] /\ i \in links'[s] /\ i \in announced'[s]
      BY <1>t, <2>3, <2>4, <2>5, <2>6
    <3>2. \A u \in Signals : i \notin announced[u]
      BY <2>6
    <3> QED
      BY <1>s, <3>1, <3>2 DEF StageFacts
  <2>8. ASSUME NEW i \in Items \ S
        PROVE  Stage'[i] = Stage[i] /\ SignalOfItem'[i] = SignalOfItem[i]
    <3>1. CASE \E u \in Signals : i \in announced[u]
      <4>1. PICK u \in Signals : i \in announced[u] /\ i \in links[u] /\ i \in announced'[u] /\ i \in links'[u]
        BY <1>t, <1>l, <2>3, <2>4, <3>1 DEF LinksFit
      <4> QED
        BY <1>s, <4>1 DEF StageFacts
    <3>2. CASE \A u \in Signals : i \notin announced[u]
      <4>1. i \notin seen
        BY <2>6, <2>8, <3>2
      <4>2. \A u \in Signals : i \in announced'[u] <=> i \in announced[u]
        BY <1>t, <2>3, <4>1
      <4> QED
        BY <1>i, <2>4, <2>8, <4>2, SameStage
    <3> QED
      BY <3>1, <3>2
  <2>9. S \in SUBSET {i \in Items : SignalOfItem[i] = s /\ Stage[i] = "grouped"}
    BY <2>7
  <2>10. /\ Stage' = [i \in Items |-> IF i \in S THEN "announced" ELSE Stage[i]]
         /\ UNCHANGED SignalOfItem
    <3>1. /\ SignalOfItem = [j \in Items |-> SignalOfItem[j]]
          /\ Stage' = [j \in Items |-> Stage'[j]] /\ SignalOfItem' = [j \in Items |-> SignalOfItem'[j]]
      BY DEF Stage, SignalOfItem
    <3> QED
      BY <2>7, <2>8, <3>1
  <2> QED
    BY <2>9, <2>10 DEF Flow!Announce
<1>7. \/ UNCHANGED <<raw, links, announced>>
      \/ \E w \in Workers :
            \/ MarkDuplicate(w) \/ MarkParsed(w) \/ SendMatch(w) \/ Attach(w)
            \/ \E s \in Signals : CreateSignal(w, s)
            \/ \E i \in Items : StoreItem(w, i)
  BY DEF IngestNext, SendFetch, RetryJob, Claim, PollEmpty, Lose, Fault, CutShort, vars, tables, Handler,
         FetchStep, ProcessStep, EnrichStep, Discover, Stored, FetchDone, SendProcess,
         Resume, FindNoDuplicate, CreateArticle, Cluster, SendEnrich, Load, Apply
<1>8. ASSUME NEW w \in Workers, NEW i \in Items, StoreItem(w, i), raw[i] # "none"
      PROVE  UNCHANGED <<raw, links, announced>>
  BY <1>8, <1>t DEF StoreItem
<1>9. ASSUME NEW w \in Workers, Attach(w) PROVE Signals # {}
  BY <1>9, <1>t DEF Attach, Handlers
<1> QED
  BY <1>1, <1>2, <1>3, <1>4, <1>5, <1>6, <1>7, <1>8, <1>9 DEF Flow!FlowNext

\* Storing, dropping, joining and announcing are all that happens to an item, in that order: a
\* dropped item has a twin that is an article, and a link is for good.  A worker that is lost, or
\* a statement that fails, between an article and its raw item's mark loses the item: its next
\* job drops it as a duplicate of itself (pipeline/normalize.go), and one mishap does it to at
\* most one item.
THEOREM IngestImplementsFlow == IngestSpec => ImplementsFlow
<1>1. IngestInit => FlowInv
  <2> SUFFICES ASSUME IngestInit PROVE FlowInv
    OBVIOUS
  <2>1. Dying = {} /\ losses = 0 /\ faults = 0
    BY DEF Dying, IngestInit
  <2> QED
    BY <2>1, ItemInit, FS_EmptySet DEF FlowInv, ArticleFits, IngestInit
<1>2. FlowInv /\ [IngestNext]_vars => FlowInv'
  BY FlowInvStep
<1>3. IngestInit => Flow!FlowInit
  <2> SUFFICES ASSUME IngestInit PROVE Flow!FlowInit
    OBVIOUS
  <2>1. \A i \in Items : Stage[i] = "absent" /\ SignalOfItem[i] = NoSignal
    BY ItemInit, StageIs DEF IngestInit, StageFacts
  <2> QED
    BY <2>1, StageShape DEF Flow!FlowInit, Flow!NoGroup, NoSignal
<1>4. FlowInv /\ FlowInv' /\ [IngestNext]_vars => [Flow!FlowNext]_(Flow!flow)
  BY FlowStep
<1> QED
  BY <1>1, <1>2, <1>3, <1>4, PTL DEF IngestSpec, ImplementsFlow, Flow!FlowSpec

-----------------------------------------------------------------------------
(* The two forms that dedupe and clustering compare, for all sets of tokens and all URLs *)

\* A similarity lies between 0 and 1, whichever article comes first, and is 1 between equal
\* sets only: an article with the words of a signal is alike enough to join it, and one without
\* a word in common is not (pipeline/cluster.go:57).
THEOREM JaccardIsSimilarity ==
    ASSUME NEW a, NEW b, IsFiniteSet(a), IsFiniteSet(b)
    PROVE  LET p == Jaccard(a, b)
           IN /\ p.over \in Nat /\ p.under \in Nat \ {0} /\ p.over <= p.under
              /\ p = Jaccard(b, a)
              /\ a # {} => (p.over = p.under <=> a = b)
              /\ a \cap b = {} => ~SimilarEnough(p)
<1> DEFINE n == Cardinality(a)
           m == Cardinality(b)
           k == Cardinality(a \cap b)
           p == Jaccard(a, b)
<1>1. n \in Nat /\ m \in Nat /\ (n = 0 <=> a = {}) /\ (m = 0 <=> b = {})
  BY FS_CardinalityType, FS_EmptySet
<1>2. IsFiniteSet(a \cap b) /\ k \in Nat /\ k <= n /\ k <= m
  BY FS_Intersection, FS_Subset, FS_CardinalityType, a \cap b \subseteq a, a \cap b \subseteq b
<1>3. (k = n <=> a \cap b = a) /\ (k = m <=> a \cap b = b)
  BY FS_Subset, a \cap b \subseteq a, a \cap b \subseteq b
<1>4. (k = 0) <=> (a \cap b = {})
  BY <1>2, FS_EmptySet
<1>5. b \cap a = a \cap b
  OBVIOUS
<1>6. CASE a = {} \/ b = {}
  <2>1. p = [over |-> 0, under |-> 1] /\ Jaccard(b, a) = p
    BY <1>6 DEF Jaccard
  <2>2. p.over = 0 /\ p.under = 1
    BY <2>1
  <2>3. a # {} => a # b
    BY <1>6
  <2> QED BY <2>1, <2>2, <2>3 DEF SimilarEnough
<1>7. CASE a # {} /\ b # {}
  <2>1. p = [over |-> k, under |-> n + m - k] /\ Jaccard(b, a) = [over |-> k, under |-> m + n - k]
    BY <1>5, <1>7 DEF Jaccard
  <2>2. p.over = k /\ p.under = n + m - k /\ n + m - k = m + n - k
    BY <1>1, <1>2, <2>1
  <2>3. n > 0 /\ m > 0
    BY <1>1, <1>7
  <2>4. p.over \in Nat /\ p.under \in Nat \ {0} /\ p.over <= p.under
    BY <1>1, <1>2, <2>2, <2>3
  <2>5. p.over = p.under <=> k = n /\ k = m
    BY <1>1, <1>2, <2>2
  <2>6. (k = n /\ k = m) <=> a = b
    BY <1>3
  <2>7. a \cap b = {} => ~SimilarEnough(p)
    BY <1>1, <1>4, <2>2, <2>3 DEF SimilarEnough
  <2> QED BY <2>1, <2>2, <2>4, <2>5, <2>6, <2>7
<1> QED BY <1>6, <1>7

\* The parts of a URL, and lower case as a normal form that keeps the default ports' schemes.
IsURL(u) ==
    u \in [scheme : STRING, host : Seq(STRING), port : STRING, path : Seq(STRING),
           slashes : Nat, query : SUBSET [name : STRING, value : STRING],
           user : STRING, fragment : STRING]
LowerIsNormal == \A s \in STRING : Lower(s) \in STRING /\ Lower(Lower(s)) = Lower(s)

\* "So the same article from different places dedupes cleanly" (urlutil/urlutil.go:1): the
\* canonical form of a canonical form is itself, so a link that was canonicalized before finds
\* its article, unless its host begins with www.www. (of which each pass takes one).
THEOREM CanonicalIsNormal ==
    ASSUME NEW u, IsURL(u), LowerIsNormal,
           ~(Len(u.host) > 2 /\ Lower(u.host[1]) = Www /\ Lower(u.host[2]) = Www)
    PROVE  Canonicalize(Canonicalize(u)) = Canonicalize(u)
<1> DEFINE c == Canonicalize(u)
           host == [i \in DOMAIN u.host |-> Lower(u.host[i])]
<1>1. CASE u.host = <<>> \/ u.scheme = ""
  BY <1>1 DEF Canonicalize
<1>2. CASE ~(u.host = <<>> \/ u.scheme = "")
  <2>1. c = [scheme |-> Lower(u.scheme), host |-> HostOf(u), port |-> PortOf(u),
             path |-> PathOf(u), slashes |-> 0,
             query |-> {q \in u.query : q.name \notin TrackingParams},
             user |-> "", fragment |-> ""]
    BY <1>2 DEF Canonicalize
  <2> HIDE DEF c
  <2>2. host \in Seq(STRING) /\ Len(host) = Len(u.host) /\ Len(host) > 0
        /\ \A i \in 1..Len(host) : Lower(host[i]) = host[i]
    <3>1. u.host \in Seq(STRING) /\ u.host # <<>>
      BY <1>2 DEF IsURL
    <3>2. DOMAIN u.host = 1..Len(u.host) /\ Len(u.host) \in Nat \ {0}
          /\ \A i \in 1..Len(u.host) : u.host[i] \in STRING
      BY <3>1
    <3>3. host \in [1..Len(u.host) -> STRING]
      BY <3>2 DEF LowerIsNormal
    <3>4. host \in Seq(STRING) /\ Len(host) = Len(u.host)
      BY <3>2, <3>3
    <3>5. \A i \in 1..Len(u.host) : Lower(host[i]) = host[i]
      BY <3>2 DEF LowerIsNormal
    <3> HIDE DEF host
    <3> QED BY <3>2, <3>4, <3>5
  <2>3. HostOf(u) \in Seq(STRING) /\ Len(HostOf(u)) > 0
        /\ (\A i \in 1..Len(HostOf(u)) : Lower(HostOf(u)[i]) = HostOf(u)[i])
        /\ ~(Len(HostOf(u)) > 1 /\ HostOf(u)[1] = Www)
    <3>1. CASE Len(host) > 1 /\ host[1] = Www
      <4>1. HostOf(u) = Tail(host)
        BY <3>1 DEF HostOf
      <4>2. Tail(host) \in Seq(STRING) /\ Len(Tail(host)) = Len(host) - 1
            /\ \A i \in 1..Len(Tail(host)) : Tail(host)[i] = host[i + 1]
        BY <2>2, <3>1
      <4>3. ~(Len(host) > 2 /\ host[2] = Www)
        BY <2>2, <3>1
      <4> QED BY <2>2, <3>1, <4>1, <4>2, <4>3
    <3>2. CASE ~(Len(host) > 1 /\ host[1] = Www)
      <4>1. HostOf(u) = host
        BY <3>2 DEF HostOf
      <4> QED BY <2>2, <3>2, <4>1
    <3> QED BY <3>1, <3>2
  <2>4. c.host = HostOf(u) /\ c.scheme = Lower(u.scheme) /\ c.port = PortOf(u)
        /\ c.path = PathOf(u) /\ c.query = {q \in u.query : q.name \notin TrackingParams}
    BY <2>1
  <2>5. HostOf(c) = c.host
    <3> DEFINE again == [i \in DOMAIN c.host |-> Lower(c.host[i])]
    <3>1. again = c.host
      BY <2>3, <2>4
    <3> QED BY <2>3, <2>4, <3>1 DEF HostOf
  <2>6. Lower(c.scheme) = c.scheme
    BY <2>4 DEF IsURL, LowerIsNormal
  <2>7. PortOf(c) = c.port
    BY <2>4, <2>6 DEF PortOf, NoPort
  <2>8. PathOf(c) = c.path
    <3>1. CASE FeedOnly(HostOf(u), u.path)
      <4>1. u.path \in Seq(STRING) /\ Len(u.path) > 2 /\ u.path[2] = "articles"
        BY <3>1 DEF FeedOnly, IsURL
      <4>2. c.path = Tail(u.path)
        BY <2>4, <3>1 DEF PathOf
      <4>3. c.path[1] = "articles"
        BY <4>1, <4>2
      <4>4. "articles" # "rss"
        OBVIOUS
      <4> QED BY <4>3, <4>4 DEF PathOf, FeedOnly
    <3>2. CASE ~FeedOnly(HostOf(u), u.path)
      <4>1. c.path = u.path
        BY <2>4, <3>2 DEF PathOf
      <4> QED BY <2>4, <2>5, <3>2, <4>1 DEF PathOf
    <3> QED BY <3>1, <3>2
  <2>9. {q \in c.query : q.name \notin TrackingParams} = c.query
    BY <2>4
  <2>10. ASSUME c.scheme = "" PROVE Canonicalize(c) = c
    BY <2>10 DEF Canonicalize
  <2>11. ASSUME c.scheme # "" PROVE Canonicalize(c) = c
    <3>1. c.host # <<>>
      BY <2>3, <2>4
    <3>2. Canonicalize(c) = [scheme |-> Lower(c.scheme), host |-> HostOf(c), port |-> PortOf(c),
             path |-> PathOf(c), slashes |-> 0,
             query |-> {q \in c.query : q.name \notin TrackingParams},
             user |-> "", fragment |-> ""]
      BY <2>11, <3>1 DEF Canonicalize
    <3> QED BY <2>1, <2>4, <2>5, <2>6, <2>7, <2>8, <2>9, <3>2
  <2> QED BY <2>10, <2>11 DEF c
<1> QED BY <1>1, <1>2
=============================================================================
