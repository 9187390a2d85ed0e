----------------------------- MODULE StreamFeed -----------------------------
(***************************************************************************)
(* One subscription's feed: DeliveryEvent rows with a "seq" drawn from a   *)
(* sequence, the SSE and WebSocket connections that tail it                *)
(* (internal/httpapi/stream_routes.go, streamCore), stateless polling, and *)
(* the in-process wake-up hub (internal/stream/hub.go).                    *)
(*                                                                         *)
(* An INSERT draws its seq when it runs and shows its row when it commits; *)
(* these are two steps.  A connection is a loop of feed query, emits and a *)
(* select on wake-up, ticker and disconnect; so are its steps.             *)
(***************************************************************************)
EXTENDS Naturals, FiniteSets

CONSTANTS
    Events,     \* deliveries of the subscription
    Streamers,  \* clients on SSE or WebSocket
    Pollers,    \* clients on /v1/stream/poll
    Batch,      \* streamBatch, and the poller's ?limit=
    MaxOpen,    \* bound: INSERTs in flight at a time
    HubChoices, \* values of `shared' to start with
    Ticker,     \* whether the fallback ticker ever fires
    MaxTests,   \* bound: test events
    MaxDrops,   \* bound: lost connections
    MaxLost     \* bound: lost notifications

Clients == Streamers \cup Pollers

ASSUME FeedAssumption ==
    /\ IsFiniteSet(Events) /\ IsFiniteSet(Clients)
    /\ Streamers \cap Pollers = {}
    /\ Batch \in Nat \ {0} /\ MaxOpen \in Nat
    /\ HubChoices \subseteq BOOLEAN /\ Ticker \in BOOLEAN
    /\ MaxTests \in Nat /\ MaxDrops \in Nat /\ MaxLost \in Nat

VARIABLES
    shared,    \* the writers' process is the one that serves the streams (ROLE=all)
    lastSeq,   \* the sequence DeliveryEvent_seq_seq
    open,      \* per event: the seq of its INSERT in flight, or 0
    row,       \* per event: the seq of its committed row, or 0
    log,       \* history: every seq that was ever committed
    late,      \* history: those that were committed after a larger one
    toNotify,  \* events whose writer has still to call Hub.Notify
    conn,      \* per streamer: where its connection is
    cursor,    \* per streamer: streamCore's cursor
    batch,     \* per streamer: fetched rows still to be emitted
    full,      \* per streamer: the last query returned Batch rows
    ring,      \* streamers some Notify has still to send to
    slot,      \* per streamer: its one-slot wake-up channel is full
    joined,    \* per client: the cursor it first asked from
    pos,       \* per client: the cursor it would resume from
    seen,      \* per client: the seqs it received
    tests,     \* test events so far
    drops,     \* lost connections so far
    lost       \* lost notifications so far

rowVars == <<shared, lastSeq, open, row, log, late, toNotify, tests, lost>>
connVars == <<conn, cursor, batch, full>>
hubVars == <<ring, slot>>
clientVars == <<joined, pos, seen>>
feedVars == <<rowVars, connVars, hubVars, clientVars, drops>>

FeedTypeOK ==
    /\ shared \in HubChoices
    /\ lastSeq \in Nat
    /\ open \in [Events -> Nat]
    /\ row \in [Events -> Nat]
    /\ log \subseteq 1..lastSeq
    /\ late \subseteq log
    /\ toNotify \subseteq Events
    /\ conn \in [Streamers -> {"off", "opened", "drain", "emit", "wait"}]
    /\ cursor \in [Streamers -> Nat]
    /\ batch \in [Streamers -> SUBSET Nat]
    /\ full \in [Streamers -> BOOLEAN]
    /\ ring \subseteq Streamers
    /\ slot \in [Streamers -> BOOLEAN]
    /\ joined \in [Clients -> Nat]
    /\ pos \in [Clients -> Nat]
    /\ seen \in [Clients -> SUBSET Nat]
    /\ tests \in 0..MaxTests
    /\ drops \in 0..MaxDrops
    /\ lost \in 0..MaxLost

FeedInit ==
    /\ shared \in HubChoices
    /\ lastSeq = 0
    /\ open = [e \in Events |-> 0]
    /\ row = [e \in Events |-> 0]
    /\ log = {}
    /\ late = {}
    /\ toNotify = {}
    /\ conn = [c \in Streamers |-> "off"]
    /\ cursor = [c \in Streamers |-> 0]
    /\ batch = [c \in Streamers |-> {}]
    /\ full = [c \in Streamers |-> FALSE]
    /\ ring = {}
    /\ slot = [c \in Streamers |-> FALSE]
    /\ joined = [c \in Clients |-> 0]
    /\ pos = [c \in Clients |-> 0]
    /\ seen = [c \in Clients |-> {}]
    /\ tests = 0
    /\ drops = 0
    /\ lost = 0
-----------------------------------------------------------------------------
(* Writers: CreateDeliveryIfNew and SendTestDelivery, then Hub.Notify *)

InFlight == {e \in Events : open[e] # 0}
Committed == {row[e] : e \in {x \in Events : row[x] # 0}}

\* The INSERT of a new delivery draws its seq.
BeginInsert(e) ==
    /\ row[e] = 0 /\ open[e] = 0
    /\ Cardinality(InFlight) < MaxOpen
    /\ lastSeq' = lastSeq + 1
    /\ open' = [open EXCEPT ![e] = lastSeq']
    /\ UNCHANGED <<shared, row, log, late, toNotify, tests, lost, connVars, hubVars, clientVars, drops>>

\* SendTestDelivery on an existing row: it gets a new seq and a new payload.
BeginTest(e) ==
    /\ row[e] # 0 /\ open[e] = 0
    /\ Cardinality(InFlight) < MaxOpen
    /\ tests < MaxTests
    /\ tests' = tests + 1
    /\ lastSeq' = lastSeq + 1
    /\ open' = [open EXCEPT ![e] = lastSeq']
    /\ UNCHANGED <<shared, row, log, late, toNotify, lost, connVars, hubVars, clientVars, drops>>

\* The row becomes visible to everyone.
Commit(e) ==
    /\ open[e] # 0
    /\ row' = [row EXCEPT ![e] = open[e]]
    /\ log' = log \cup {open[e]}
    /\ late' = IF \E s \in log : s > open[e] THEN late \cup {open[e]} ELSE late
    /\ open' = [open EXCEPT ![e] = 0]
    /\ toNotify' = toNotify \cup {e}
    /\ UNCHANGED <<shared, lastSeq, tests, lost, connVars, hubVars, clientVars, drops>>

Subscribed == {c \in Streamers : conn[c] \in {"drain", "emit", "wait"}}

\* Hub.Notify takes the list of the channels subscribed at this moment (of its
\* own process) ...
Notify(e) ==
    /\ e \in toNotify
    /\ toNotify' = toNotify \ {e}
    /\ ring' = IF shared THEN ring \cup Subscribed ELSE ring
    /\ UNCHANGED <<shared, lastSeq, open, row, log, late, tests, lost, connVars, slot, clientVars, drops>>

\* Mutant: the wake-up channel has no buffer.
Mutant_NoBuffer(c) ==
    /\ c \in ring
    /\ ring' = ring \ {c}
    /\ slot' = [slot EXCEPT ![c] = slot[c] \/ conn[c] = "wait"]
    /\ UNCHANGED <<rowVars, connVars, clientVars, drops>>

\* ... and fills each, unless it is full already.
Ring(c) ==
    /\ c \in ring
    /\ ring' = ring \ {c}
    /\ slot' = [slot EXCEPT ![c] = TRUE]
    /\ UNCHANGED <<rowVars, connVars, clientVars, drops>>

\* The writer is gone before it notifies.
LoseNotify(e) ==
    /\ e \in toNotify
    /\ lost < MaxLost
    /\ lost' = lost + 1
    /\ toNotify' = toNotify \ {e}
    /\ UNCHANGED <<shared, lastSeq, open, row, log, late, tests, connVars, hubVars, clientVars, drops>>

-----------------------------------------------------------------------------
(* Readers *)

Max0(S) == IF S = {} THEN 0 ELSE CHOOSE m \in S : \A s \in S : s <= m

\* ListDeliveriesForStream: the first Batch rows with a seq above the cursor.
FeedAfter(s) ==
    LET newer == {t \in Committed : t > s}
    IN  {t \in newer : Cardinality({u \in newer : u < t}) < Batch}

\* startCursor: a client that has received something resumes there; another one
\* asks for everything (?since=0) or for what comes after the current tail.
StartCursors(c) == IF seen[c] # {} THEN {pos[c]} ELSE {0, Max0(Committed)}

Connect(c) ==
    /\ conn[c] = "off"
    /\ \E s \in StartCursors(c) :
        /\ cursor' = [cursor EXCEPT ![c] = s]
        /\ pos' = [pos EXCEPT ![c] = s]
        /\ joined' = [joined EXCEPT ![c] = IF seen[c] # {} THEN @ ELSE s]
    /\ conn' = [conn EXCEPT ![c] = "opened"]
    /\ UNCHANGED <<rowVars, batch, full, hubVars, seen, drops>>

\* subscribeHub, before the first query of streamCore.
Subscribe(c) ==
    /\ conn[c] = "opened"
    /\ conn' = [conn EXCEPT ![c] = "drain"]
    /\ slot' = [slot EXCEPT ![c] = FALSE]
    /\ UNCHANGED <<rowVars, cursor, batch, full, ring, clientVars, drops>>

\* Mutant: the query is not ordered: any of the newer rows make the batch.
Mutant_FeedUnordered(c) ==
    /\ conn[c] = "drain"
    /\ \E rows \in SUBSET {t \in Committed : t > cursor[c]} :
        /\ Cardinality(rows) = Cardinality(FeedAfter(cursor[c]))
        /\ batch' = [batch EXCEPT ![c] = rows]
        /\ full' = [full EXCEPT ![c] = Cardinality(rows) = Batch]
    /\ conn' = [conn EXCEPT ![c] = "emit"]
    /\ UNCHANGED <<rowVars, cursor, hubVars, clientVars, drops>>

Feed(c) ==
    /\ conn[c] = "drain"
    /\ LET rows == FeedAfter(cursor[c]) IN
        /\ batch' = [batch EXCEPT ![c] = rows]
        /\ full' = [full EXCEPT ![c] = Cardinality(rows) = Batch]
    /\ conn' = [conn EXCEPT ![c] = "emit"]
    /\ UNCHANGED <<rowVars, cursor, hubVars, clientVars, drops>>

\* Mutant: the cursor stays where the connection started.
Mutant_CursorStays(c, s) ==
    /\ conn[c] = "emit"
    /\ s \in batch[c] /\ \A t \in batch[c] : s <= t
    /\ batch' = [batch EXCEPT ![c] = @ \ {s}]
    /\ pos' = [pos EXCEPT ![c] = s]
    /\ seen' = [seen EXCEPT ![c] = @ \cup {s}]
    /\ UNCHANGED <<rowVars, conn, cursor, full, hubVars, joined, drops>>

\* The client takes the next row and remembers its seq (SSE: Last-Event-ID).
Emit(c, s) ==
    /\ conn[c] = "emit"
    /\ s \in batch[c] /\ \A t \in batch[c] : s <= t
    /\ batch' = [batch EXCEPT ![c] = @ \ {s}]
    /\ cursor' = [cursor EXCEPT ![c] = s]
    /\ pos' = [pos EXCEPT ![c] = s]
    /\ seen' = [seen EXCEPT ![c] = @ \cup {s}]
    /\ UNCHANGED <<rowVars, conn, full, hubVars, joined, drops>>

\* A full batch: drain on.  Otherwise: wait.
BatchDone(c) ==
    /\ conn[c] = "emit" /\ batch[c] = {}
    /\ conn' = [conn EXCEPT ![c] = IF full[c] THEN "drain" ELSE "wait"]
    /\ UNCHANGED <<rowVars, cursor, batch, full, hubVars, clientVars, drops>>

Wake(c) ==
    /\ conn[c] = "wait" /\ slot[c]
    /\ slot' = [slot EXCEPT ![c] = FALSE]
    /\ conn' = [conn EXCEPT ![c] = "drain"]
    /\ UNCHANGED <<rowVars, cursor, batch, full, ring, clientVars, drops>>

\* The fallback: the ticker's heartbeat goes out and the loop queries again.
Heartbeat(c) ==
    /\ Ticker
    /\ conn[c] = "wait"
    /\ conn' = [conn EXCEPT ![c] = "drain"]
    /\ UNCHANGED <<rowVars, cursor, batch, full, hubVars, clientVars, drops>>

\* Mutant: what was fetched counts as received.
Mutant_DisconnectAdvances(c) ==
    /\ conn[c] # "off"
    /\ drops < MaxDrops
    /\ drops' = drops + 1
    /\ conn' = [conn EXCEPT ![c] = "off"]
    /\ pos' = [pos EXCEPT ![c] = Max0(batch[c] \cup {@})]
    /\ batch' = [batch EXCEPT ![c] = {}]
    /\ full' = [full EXCEPT ![c] = FALSE]
    /\ ring' = ring \ {c}
    /\ slot' = [slot EXCEPT ![c] = FALSE]
    /\ UNCHANGED <<rowVars, cursor, joined, seen>>

\* The connection ends: the client leaves, an emit or heartbeat fails, a query
\* fails, the server stops.  What it fetched and did not emit is forgotten.
Disconnect(c) ==
    /\ conn[c] # "off"
    /\ drops < MaxDrops
    /\ drops' = drops + 1
    /\ conn' = [conn EXCEPT ![c] = "off"]
    /\ batch' = [batch EXCEPT ![c] = {}]
    /\ full' = [full EXCEPT ![c] = FALSE]
    /\ ring' = ring \ {c}
    /\ slot' = [slot EXCEPT ![c] = FALSE]
    /\ UNCHANGED <<rowVars, cursor, clientVars>>

\* streamPoll: one query and its answer, after which the client's cursor is the
\* last row's seq.  A lost answer changes nothing.
Poll(c) ==
    LET rows == FeedAfter(pos[c]) IN
    /\ rows # {}
    /\ seen' = [seen EXCEPT ![c] = @ \cup rows]
    /\ pos' = [pos EXCEPT ![c] = Max0(rows)]
    /\ UNCHANGED <<rowVars, connVars, hubVars, joined, drops>>
-----------------------------------------------------------------------------
WriterNext(e) ==
    BeginInsert(e) \/ BeginTest(e) \/ Commit(e) \/ Notify(e) \/ LoseNotify(e)

Serve(c) ==
    \/ Subscribe(c) \/ Feed(c) \/ BatchDone(c) \/ Wake(c)
    \/ \E s \in batch[c] : Emit(c, s)

StreamerNext(c) == Connect(c) \/ Serve(c) \/ Ring(c) \/ Heartbeat(c) \/ Disconnect(c)

FeedNext ==
    \/ \E e \in Events : WriterNext(e)
    \/ \E c \in Streamers : StreamerNext(c)
    \/ \E c \in Pollers : Poll(c)

FeedSpec == FeedInit /\ [][FeedNext]_feedVars

\* Statements end, writers go on to notify, connections are served, the ticker
\* fires and clients come back; nobody is obliged to publish or to hang up.
FeedFairness ==
    /\ \A e \in Events : WF_feedVars(Commit(e)) /\ WF_feedVars(Notify(e))
    /\ \A c \in Streamers :
        /\ WF_feedVars(Connect(c)) /\ WF_feedVars(Serve(c))
        /\ WF_feedVars(Ring(c)) /\ WF_feedVars(Heartbeat(c))
    /\ \A c \in Pollers : WF_feedVars(Poll(c))

FairFeedSpec == FeedSpec /\ FeedFairness
-----------------------------------------------------------------------------
(* Properties *)

\* GUIDE.md:28 "you resume exactly where you left off - no gaps": whatever was
\* committed between a client's first cursor and its current one, the client has
\* received, unless a test event has replaced the row.
Received(c, rows) == \A s \in rows : joined[c] < s /\ s <= pos[c] => s \in seen[c]
NoGap == \A c \in Clients : Received(c, Committed)

\* What is left of that promise when INSERTs overlap: across pages, lost connections, test events
\* and any order of commits, a client misses no row but one that was committed after a later one.
NoGapInOrder == \A c \in Clients : Received(c, Committed \ late)

\* No lost wake-up: a connection that waits while there is something to read has
\* a full slot, or is about to be rung by a notification under way.  (One
\* process, no lost notification.)
NoLostWakeup ==
    shared /\ lost = 0 =>
        \A c \in Streamers : conn[c] = "wait" /\ (\E s \in Committed : s > cursor[c]) =>
            slot[c] \/ c \in ring \/ toNotify # {}

\* The feed implements a log of which a reader misses nothing that came in order, and from which
\* a test event withdraws the entry whose row it takes.
Log == INSTANCE DurableLog WITH Readers <- Streamers,
    withdrawn <- log \ Committed,
    joined <- [c \in Streamers |-> joined[c]],
    seen <- [c \in Streamers |-> seen[c]],
    pos <- [c \in Streamers |-> pos[c]]

ImplementsLog == Log!LogSpec

\* Every delivery committed after a client's first cursor, and in order, reaches that client.
AllDelivered ==
    \A c \in Clients, e \in Events :
        row[e] \notin late \cup {0} /\ joined[c] < row[e] ~>
            (row[e] \in seen[c] \cup late \/ row[e] <= joined[c])
=============================================================================
