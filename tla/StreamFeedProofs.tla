-------------------------- MODULE StreamFeedProofs --------------------------
(***************************************************************************)
(* Theorems about StreamFeed, for any number of deliveries and clients and *)
(* any size of a batch: what the runs `stream_feed' and `stream_gap' check *)
(* of the feed's safety, and that it implements DurableLog.                *)
(***************************************************************************)
EXTENDS StreamFeed, FiniteSetTheorems, TLAPS

-----------------------------------------------------------------------------
(* Least and greatest numbers *)

LEMMA LeastExists ==
    ASSUME NEW S \in SUBSET Nat, S # {}
    PROVE  \E m \in S : \A s \in S : m <= s
<1>1. PICK m \in S : \A s \in S : <<s, m>> \notin OpToRel(<, Nat)
  BY WFMin, NatLessThanWellFounded, Zenon
<1>2. \A s \in S : ~ (s < m)
  BY <1>1, Zenon DEF OpToRel
<1> QED
  BY <1>2

LEMMA GreatestExists ==
    ASSUME NEW n \in Nat, NEW S \in SUBSET (0..n), S # {}
    PROVE  \E m \in S : \A s \in S : s <= m
<1> DEFINE T == {n - s : s \in S}
<1>1. T \in SUBSET Nat /\ T # {}
  OBVIOUS
<1>2. PICK t \in T : \A u \in T : t <= u
  BY <1>1, LeastExists
<1>3. PICK m \in S : t = n - m
  BY <1>2
<1>4. \A s \in S : n - m <= n - s
  BY <1>2, <1>3
<1> QED
  BY <1>4

LEMMA Max0IsMax ==
    ASSUME NEW n \in Nat, NEW S \in SUBSET (0..n)
    PROVE  /\ Max0(S) \in S \cup {0}
           /\ \A s \in S : s <= Max0(S)
<1>1. CASE S = {}
  BY <1>1 DEF Max0
<1>2. CASE S # {}
  <2>1. \E m \in S : \A s \in S : s <= m
    BY <1>2, GreatestExists
  <2>2. Max0(S) = CHOOSE m \in S : \A s \in S : s <= m
    BY <1>2 DEF Max0
  <2> QED
    BY <2>1, <2>2
<1> QED
  BY <1>1, <1>2

LEMMA FewerOf ==
    ASSUME NEW S, IsFiniteSet(S), NEW T \in SUBSET S
    PROVE  IsFiniteSet(T) /\ Cardinality(T) \in Nat /\ Cardinality(T) <= Cardinality(S)
  BY FS_Subset, FS_CardinalityType

-----------------------------------------------------------------------------
(* What ListDeliveriesForStream returns *)

LEMMA CommittedFinite == IsFiniteSet(Committed)
<1> DEFINE E == {x \in Events : row[x] # 0}
<1>1. IsFiniteSet(E)
  BY FeedAssumption, FS_Subset
<1>2. Committed = {row[e] : e \in E}
  BY DEF Committed
<1> HIDE DEF E
<1>3. [e \in E |-> row[e]] \in Surjection(E, Committed)
  BY <1>2 DEF Surjection
<1> QED
  BY <1>1, <1>3, FS_Surjection

\* A page of the feed leaves no row out before its last one, and one that is not
\* full leaves none out at all.
LEMMA PageIsPrefix ==
    ASSUME Committed \subseteq Nat, NEW s \in Nat
    PROVE  /\ \A t \in FeedAfter(s) : t \in Committed /\ t > s
           /\ \A t \in FeedAfter(s), u \in Committed : s < u /\ u < t => u \in FeedAfter(s)
           /\ Cardinality(FeedAfter(s)) # Batch =>
                \A u \in Committed : u > s => u \in FeedAfter(s)
<1> DEFINE newer == {t \in Committed : t > s}
           below(t) == {u \in newer : u < t}
           rows == FeedAfter(s)
<1>1. IsFiniteSet(newer) /\ newer \subseteq Nat
  BY CommittedFinite, FS_Subset
<1>2. rows = {t \in newer : Cardinality(below(t)) < Batch}
  BY DEF FeedAfter
<1>3. \A t \in newer : IsFiniteSet(below(t)) /\ below(t) \in SUBSET newer
  BY <1>1, FS_Subset
<1> DEFINE rank(t) == Cardinality(below(t))
<1>4. \A t \in newer : rank(t) \in Nat
  BY <1>3, FS_CardinalityType
<1>5. \A t, u \in newer : u < t => rank(u) <= rank(t)
  <2>1. \A t, u \in newer : u < t => below(u) \in SUBSET below(t)
    BY <1>1
  <2> QED
    BY <1>3, <2>1, FS_Subset
<1>6. rows = {t \in newer : rank(t) < Batch}
  BY <1>2
<1>b. Batch \in Nat \ {0}
  BY FeedAssumption
<1>7. ASSUME newer \ rows # {} PROVE Cardinality(rows) = Batch
  <2>1. PICK m \in newer \ rows : \A u \in newer \ rows : m <= u
    BY <1>1, <1>7, LeastExists
  <2>2. below(m) = rows
    <3>1. ASSUME NEW u \in rows PROVE u \in newer /\ u < m
      <4> HIDE DEF rank
      <4> QED
        BY <1>1, <1>4, <1>5, <1>6, <1>b, <2>1, <3>1
    <3>2. ASSUME NEW u \in newer, u < m PROVE u \in rows
      BY <1>1, <2>1, <3>2
    <3> QED
      BY <3>1, <3>2
  <2>3. Cardinality(rows) = rank(m)
    BY <2>2
  <2> HIDE DEF rank
  <2>4. Cardinality(rows) \in Nat /\ Cardinality(rows) >= Batch
    BY <1>4, <1>6, <1>b, <2>1, <2>3
  <2>5. rows # {}
    BY <1>b, <2>4, FS_EmptySet
  <2>6. m \in Nat /\ rows \in SUBSET (0..m)
    BY <1>1, <1>6, <2>1, <2>2
  <2>7. PICK g \in rows : \A u \in rows : u <= g
    BY <2>5, <2>6, GreatestExists
  <2>8. g \in newer /\ rank(g) < Batch
    BY <1>6, <2>7
  <2>9. rows \ {g} \in SUBSET below(g)
    BY <1>1, <1>6, <2>7
  <2>10. Cardinality(rows \ {g}) <= rank(g)
    BY <1>3, <2>8, <2>9, FS_Subset DEF rank
  <2>11. Cardinality(rows \ {g}) = Cardinality(rows) - 1
    <3>1. IsFiniteSet(rows)
      BY <1>1, <1>6, FS_Subset
    <3> QED
      BY <2>7, <3>1, FS_RemoveElement
  <2> QED
    BY <1>4, <1>b, <2>4, <2>8, <2>10, <2>11
<1> HIDE DEF rank
<1> QED
  BY <1>1, <1>4, <1>5, <1>6, <1>7, <1>b DEF rows

-----------------------------------------------------------------------------
(* What holds of rows and connections, however many INSERTs are in flight *)

\* A seq that is in flight, shown, fetched or remembered was drawn; a streamer's
\* cursor is its client's; and only a connection that emits has rows in hand, all
\* of them beyond the cursor.
FeedInv ==
    /\ FeedTypeOK
    /\ \A e \in Events : open[e] <= lastSeq
    /\ Committed \subseteq log
    /\ \A c \in Clients : pos[c] \in log \cup {0}
    /\ \A c \in Streamers : cursor[c] = pos[c]
    /\ \A c \in Streamers : batch[c] \subseteq log
    /\ \A c \in Streamers : conn[c] # "emit" => batch[c] = {}
    /\ \A c \in Streamers : \A s \in batch[c] : s > cursor[c]

LEMMA CommittedMoves ==
    ASSUME FeedTypeOK
    PROVE  /\ (\A e \in Events : row'[e] = row[e]) => Committed' = Committed
           /\ \A e \in Events : Commit(e) =>
                /\ Committed' \subseteq Committed \cup {open[e]}
                /\ open[e] \in Committed'
                /\ Committed \subseteq Committed' \cup {row[e]}
  BY DEF Commit, Committed, FeedTypeOK

LEMMA SeqsAreNat ==
    ASSUME FeedInv
    PROVE  /\ Committed \subseteq Nat /\ lastSeq \in Nat
           /\ Committed \in SUBSET (0..lastSeq)
           /\ \A c \in Clients : pos[c] \in Nat
           /\ \A c \in Streamers : c \in Clients /\ cursor[c] \in Nat
           /\ \A c \in Streamers : batch[c] \subseteq Nat
  BY DEF FeedInv, FeedTypeOK, Clients

LEMMA FeedStart == FeedInit => FeedInv
  BY FeedAssumption DEF FeedInit, FeedInv, FeedTypeOK, Committed, Clients

\* Rows that are fetched are rows that were committed.
LEMMA PageKnown ==
    ASSUME FeedInv, NEW s \in Nat
    PROVE  /\ FeedAfter(s) \subseteq log
           /\ FeedAfter(s) # {} => Max0(FeedAfter(s)) \in FeedAfter(s)
           /\ \A t \in FeedAfter(s) : t <= Max0(FeedAfter(s))
<1>1. FeedAfter(s) \subseteq log /\ FeedAfter(s) \in SUBSET (0..lastSeq) /\ 0 \notin FeedAfter(s)
  BY SeqsAreNat, PageIsPrefix DEF FeedInv
<1>2. Max0(FeedAfter(s)) \in FeedAfter(s) \cup {0} /\ \A t \in FeedAfter(s) : t <= Max0(FeedAfter(s))
  BY <1>1, SeqsAreNat, Max0IsMax
<1>3. FeedAfter(s) # {} => Max0(FeedAfter(s)) # 0
  <2>1. \A t \in FeedAfter(s) : t \in Nat /\ t > 0
    BY <1>1
  <2> QED
    BY <1>2, <2>1
<1> QED
  BY <1>1, <1>2, <1>3

LEMMA FeedStep == FeedInv /\ [FeedNext]_feedVars => FeedInv'
<1> SUFFICES ASSUME FeedInv, [FeedNext]_feedVars PROVE FeedInv'
  OBVIOUS
<1> USE DEF rowVars, connVars, hubVars, clientVars
<1>a. MaxTests \in Nat /\ MaxDrops \in Nat /\ MaxLost \in Nat /\ Streamers \subseteq Clients /\ Pollers \subseteq Clients
  BY FeedAssumption DEF Clients
<1>1. ASSUME NEW e \in Events, BeginInsert(e) \/ BeginTest(e) PROVE FeedInv'
  <2>1. lastSeq' = lastSeq + 1 /\ open' = [open EXCEPT ![e] = lastSeq'] /\ lastSeq \in Nat
    BY <1>1 DEF BeginInsert, BeginTest, FeedInv, FeedTypeOK
  <2>2. FeedTypeOK'
    <3>1. lastSeq' \in Nat /\ open' \in [Events -> Nat]
      BY <2>1 DEF FeedInv, FeedTypeOK
    <3>2. log' \subseteq 1..lastSeq'
      <4>1. log' = log /\ log \subseteq 1..lastSeq
        BY <1>1 DEF BeginInsert, BeginTest, FeedInv, FeedTypeOK
      <4> QED
        BY <2>1, <4>1
    <3>3. tests' \in 0..MaxTests
      BY <1>a, <1>1 DEF BeginInsert, BeginTest, FeedInv, FeedTypeOK
    <3> QED
      BY <1>1, <3>1, <3>2, <3>3 DEF BeginInsert, BeginTest, FeedInv, FeedTypeOK
  <2>3. \A x \in Events : open'[x] <= lastSeq'
    BY <2>1 DEF FeedInv, FeedTypeOK
  <2> QED
    BY <1>1, <2>2, <2>3 DEF BeginInsert, BeginTest, FeedInv, Committed
<1>2. ASSUME NEW e \in Events, Commit(e) PROVE FeedInv'
  <2>1. open[e] \in 1..lastSeq /\ lastSeq \in Nat
    BY <1>2 DEF Commit, FeedInv, FeedTypeOK
  <2>2. FeedTypeOK'
    BY <1>a, <1>2, <2>1 DEF Commit, FeedInv, FeedTypeOK
  <2>3. \A x \in Events : open'[x] <= lastSeq'
    BY <1>2, <2>1 DEF Commit, FeedInv, FeedTypeOK
  <2>4. Committed' \subseteq log'
    BY <1>2, CommittedMoves DEF FeedInv, Commit
  <2> QED
    BY <1>2, <2>2, <2>3, <2>4 DEF Commit, FeedInv
<1>3. ASSUME NEW e \in Events, Notify(e) \/ LoseNotify(e) PROVE FeedInv'
  <2>1. FeedTypeOK'
    <3>1. lost' \in 0..MaxLost
      BY <1>a, <1>3 DEF Notify, LoseNotify, FeedInv, FeedTypeOK
    <3>2. ring' \subseteq Streamers /\ toNotify' \subseteq Events
      BY <1>3 DEF Notify, LoseNotify, Subscribed, FeedInv, FeedTypeOK
    <3> QED
      BY <1>3, <3>1, <3>2 DEF Notify, LoseNotify, FeedInv, FeedTypeOK
  <2> QED
    BY <1>3, <2>1 DEF Notify, LoseNotify, FeedInv, Committed
<1>4. ASSUME NEW c \in Streamers, Connect(c) PROVE FeedInv'
  <2>1. PICK s \in StartCursors(c) :
            /\ cursor' = [cursor EXCEPT ![c] = s] /\ pos' = [pos EXCEPT ![c] = s]
            /\ joined' = [joined EXCEPT ![c] = IF seen[c] # {} THEN @ ELSE s]
    BY <1>4 DEF Connect
  <2>2. s \in log \cup {0} /\ s \in Nat
    <3>1. Max0(Committed) \in Committed \cup {0}
      BY SeqsAreNat, Max0IsMax
    <3>2. pos[c] \in log \cup {0} /\ Committed \subseteq log /\ log \subseteq Nat
      BY <1>a DEF FeedInv, FeedTypeOK
    <3> QED
      BY <2>1, <3>1, <3>2 DEF StartCursors
  <2>3. FeedTypeOK'
    BY <1>a, <1>4, <2>1, <2>2 DEF Connect, FeedInv, FeedTypeOK
  <2> QED
    BY <1>a, <1>4, <2>1, <2>2, <2>3 DEF Connect, FeedInv, FeedTypeOK, Committed
<1>5. ASSUME NEW c \in Streamers, Feed(c) PROVE FeedInv'
  <2>1. FeedAfter(cursor[c]) \subseteq log /\ \A s \in FeedAfter(cursor[c]) : s > cursor[c]
    BY PageKnown, PageIsPrefix, SeqsAreNat
  <2>2. FeedTypeOK'
    <3>1. PICK rows \in SUBSET Nat : batch' = [batch EXCEPT ![c] = rows]
      <4>1. log \subseteq Nat
        BY DEF FeedInv, FeedTypeOK
      <4> QED
        BY <1>5, <2>1, <4>1 DEF Feed
    <3>2. PICK b \in BOOLEAN : full' = [full EXCEPT ![c] = b]
      BY <1>5 DEF Feed
    <3>3. batch' \in [Streamers -> SUBSET Nat] /\ full' \in [Streamers -> BOOLEAN]
      BY <3>1, <3>2 DEF FeedInv, FeedTypeOK
    <3> QED
      BY <1>5, <3>3 DEF Feed, FeedInv, FeedTypeOK
  <2> QED
    BY <1>5, <2>1, <2>2 DEF Feed, FeedInv, FeedTypeOK, Committed
<1>6. ASSUME NEW c \in Streamers, NEW s \in batch[c], Emit(c, s) PROVE FeedInv'
  <2>1. s \in log /\ s \in Nat
    BY SeqsAreNat DEF FeedInv
  <2>2. FeedTypeOK'
    BY <1>a, <1>6, <2>1 DEF Emit, FeedInv, FeedTypeOK
  <2> QED
    BY <1>a, <1>6, <2>1, <2>2 DEF Emit, FeedInv, FeedTypeOK, Committed
<1>7. ASSUME NEW c \in Streamers, Subscribe(c) \/ BatchDone(c) \/ Wake(c) \/ Heartbeat(c) PROVE FeedInv'
  <2>1. FeedTypeOK'
    BY <1>a, <1>7 DEF Subscribe, BatchDone, Wake, Heartbeat, FeedInv, FeedTypeOK
  <2> QED
    BY <1>7, <2>1 DEF Subscribe, BatchDone, Wake, Heartbeat, FeedInv, FeedTypeOK, Committed
<1>8. ASSUME NEW c \in Streamers, Disconnect(c) PROVE FeedInv'
  <2>1. FeedTypeOK'
    BY <1>a, <1>8 DEF Disconnect, FeedInv, FeedTypeOK
  <2> QED
    BY <1>8, <2>1 DEF Disconnect, FeedInv, FeedTypeOK, Committed
<1>9. ASSUME NEW c \in Streamers, Ring(c) PROVE FeedInv'
  BY <1>9 DEF Ring, FeedInv, FeedTypeOK, Committed
<1>10. ASSUME NEW c \in Pollers, Poll(c) PROVE FeedInv'
  <2> DEFINE rows == FeedAfter(pos[c])
  <2>1. c \in Clients /\ c \notin Streamers /\ pos[c] \in Nat
    BY <1>a, FeedAssumption, SeqsAreNat
  <2>2. rows \subseteq log /\ Max0(rows) \in log /\ Max0(rows) \in Nat
    <3>1. rows \subseteq log /\ Max0(rows) \in rows
      BY <1>10, <2>1, PageKnown DEF Poll
    <3>2. log \subseteq Nat
      BY DEF FeedInv, FeedTypeOK
    <3> QED
      BY <3>1, <3>2
  <2>3. seen' = [seen EXCEPT ![c] = @ \cup rows] /\ pos' = [pos EXCEPT ![c] = Max0(rows)]
    BY <1>10 DEF Poll
  <2> HIDE DEF rows
  <2>4. FeedTypeOK'
    <3>1. rows \subseteq Nat
      BY <2>2 DEF FeedInv, FeedTypeOK
    <3>2. seen' \in [Clients -> SUBSET Nat] /\ pos' \in [Clients -> Nat]
      BY <2>1, <2>2, <2>3, <3>1 DEF FeedInv, FeedTypeOK
    <3> QED
      BY <1>10, <3>2 DEF Poll, FeedInv, FeedTypeOK
  <2> QED
    BY <1>10, <2>1, <2>2, <2>3, <2>4 DEF Poll, FeedInv, FeedTypeOK, Committed
<1>11. CASE UNCHANGED feedVars
  BY <1>11 DEF feedVars, FeedInv, FeedTypeOK, Committed
<1> QED
  BY <1>1, <1>2, <1>3, <1>4, <1>5, <1>6, <1>7, <1>8, <1>9, <1>10, <1>11
     DEF FeedNext, WriterNext, StreamerNext, Serve

LEMMA FeedInvariant == FeedSpec => []FeedInv
  BY FeedStart, FeedStep, PTL DEF FeedSpec

\* The rows and cursors always are what their writers left.
THEOREM FeedTypes == FeedSpec => []FeedTypeOK
  BY FeedInvariant, PTL DEF FeedInv

-----------------------------------------------------------------------------
(* No lost wake-up *)

\* A connection that waits, or will when it has emitted what it holds, and that
\* has not seen a committed row, is owed a wake-up.
Roused(c) == slot[c] \/ c \in ring \/ toNotify # {}
Resting(c) == conn[c] = "wait" \/ (conn[c] = "emit" /\ ~ full[c])
WakeInv ==
    shared /\ lost = 0 =>
        \A c \in Streamers : Resting(c) =>
            \A s \in Committed : s > cursor[c] => s \in batch[c] \/ Roused(c)

LEMMA WakeStep == FeedInv /\ WakeInv /\ [FeedNext]_feedVars => WakeInv'
<1> SUFFICES ASSUME FeedInv, WakeInv, [FeedNext]_feedVars, shared', lost' = 0,
                    NEW c \in Streamers, Resting(c)',
                    NEW s \in Committed', s > cursor'[c], s \notin batch'[c]
             PROVE  Roused(c)'
  BY DEF WakeInv
<1> USE DEF rowVars, connVars, hubVars, clientVars, Resting, Roused
<1>a. cursor[c] \in Nat /\ Committed \subseteq Nat /\ lost \in Nat
  BY SeqsAreNat DEF FeedInv, FeedTypeOK
<1>1. ASSUME NEW e \in Events, BeginInsert(e) \/ BeginTest(e) PROVE Roused(c)'
  BY <1>1 DEF BeginInsert, BeginTest, WakeInv, Committed
<1>2. ASSUME NEW e \in Events, Commit(e) PROVE Roused(c)'
  BY <1>2 DEF Commit
<1>3. ASSUME NEW e \in Events, Notify(e) PROVE Roused(c)'
  BY <1>3 DEF Notify, Subscribed, FeedInv, FeedTypeOK
<1>4. ASSUME NEW e \in Events, LoseNotify(e) PROVE Roused(c)'
  BY <1>a, <1>4 DEF LoseNotify
<1>5. ASSUME NEW d \in Streamers,
             Connect(d) \/ Subscribe(d) \/ Wake(d) \/ Heartbeat(d) \/ Disconnect(d)
      PROVE  Roused(c)'
  <2>1. /\ conn'[d] \notin {"wait", "emit"}
        /\ \A q \in Streamers \ {d} : conn'[q] = conn[q]
    BY <1>5 DEF Connect, Subscribe, Wake, Heartbeat, Disconnect, FeedInv, FeedTypeOK
  <2>2. d # c /\ conn'[c] = conn[c]
    BY <2>1
  <2>3. cursor'[c] = cursor[c] /\ batch'[c] = batch[c] /\ full'[c] = full[c]
    BY <1>5, <2>2 DEF Connect, Subscribe, Wake, Heartbeat, Disconnect, FeedInv, FeedTypeOK
  <2>4. slot'[c] = slot[c] /\ (c \in ring => c \in ring')
    BY <1>5, <2>2 DEF Connect, Subscribe, Wake, Heartbeat, Disconnect, FeedInv, FeedTypeOK
  <2>5. row' = row /\ shared' = shared /\ lost' = lost /\ toNotify' = toNotify
    BY <1>5 DEF Connect, Subscribe, Wake, Heartbeat, Disconnect
  <2> QED
    BY <2>2, <2>3, <2>4, <2>5 DEF WakeInv, Committed
<1>6. ASSUME NEW d \in Streamers, Feed(d) PROVE Roused(c)'
  <2>1. Committed' = Committed
    BY <1>6 DEF Feed, Committed
  <2>2. CASE d = c
    <3>1. /\ batch'[c] = FeedAfter(cursor[c])
          /\ full'[c] = (Cardinality(FeedAfter(cursor[c])) = Batch)
          /\ conn'[c] = "emit" /\ cursor'[c] = cursor[c]
      BY <1>6, <2>2 DEF Feed, FeedInv, FeedTypeOK
    <3> QED
      BY <1>a, <2>1, <3>1, PageIsPrefix
  <2>3. CASE d # c
    BY <1>6, <2>1, <2>3 DEF Feed, WakeInv, FeedInv, FeedTypeOK
  <2> QED
    BY <2>2, <2>3
<1>7. ASSUME NEW d \in Streamers, NEW t \in batch[d], Emit(d, t) PROVE Roused(c)'
  <2>1. Committed' = Committed
    BY <1>7 DEF Emit, Committed
  <2>2. CASE d = c
    <3>1. t \in Nat /\ t > cursor[c] /\ cursor'[c] = t /\ batch'[c] = batch[c] \ {t}
      BY <1>7, <2>2, SeqsAreNat DEF Emit, FeedInv, FeedTypeOK
    <3>2. s \in Committed /\ s > cursor[c] /\ s \notin batch[c]
      BY <1>a, <2>1, <3>1
    <3> QED
      BY <1>7, <3>2 DEF Emit, WakeInv
  <2>3. CASE d # c
    BY <1>7, <2>1, <2>3 DEF Emit, WakeInv, FeedInv, FeedTypeOK
  <2> QED
    BY <2>2, <2>3
<1>8. ASSUME NEW d \in Streamers, BatchDone(d) PROVE Roused(c)'
  BY <1>8 DEF BatchDone, WakeInv, FeedInv, FeedTypeOK, Committed
<1>9. ASSUME NEW d \in Streamers, Ring(d) PROVE Roused(c)'
  BY <1>9 DEF Ring, WakeInv, FeedInv, FeedTypeOK, Committed
<1>10. ASSUME NEW d \in Pollers, Poll(d) PROVE Roused(c)'
  BY <1>10 DEF Poll, WakeInv, Committed
<1>11. CASE UNCHANGED feedVars
  BY <1>11 DEF feedVars, WakeInv, Committed
<1> QED
  BY <1>1, <1>2, <1>3, <1>4, <1>5, <1>6, <1>7, <1>8, <1>9, <1>10, <1>11
     DEF FeedNext, WriterNext, StreamerNext, Serve

\* streamCore subscribes before its first query, and a channel holds one wake-up:
\* in one process, no row that is committed after a query goes unannounced.
THEOREM FeedNoLostWakeup == FeedSpec => []NoLostWakeup
<1>1. FeedInit => WakeInv
  BY DEF FeedInit, WakeInv, Resting
<1>2. FeedInv /\ WakeInv => NoLostWakeup
  BY DEF FeedInv, WakeInv, NoLostWakeup, Resting, Roused
<1> QED
  BY <1>1, <1>2, FeedInvariant, WakeStep, PTL DEF FeedSpec

-----------------------------------------------------------------------------
(* No gap *)

\* A seq in flight is nobody else's, so a row that commits in order is beyond every committed
\* one; of those, what a client has passed, and what a fetched batch spans, is complete.
GapInv ==
    /\ \A e \in Events : open[e] # 0 => open[e] \notin log
    /\ \A e, f \in Events : open[e] # 0 /\ open[e] = open[f] => e = f
    /\ \A c \in Streamers : \A s \in batch[c], t \in Committed \ late :
            cursor[c] < t /\ t < s => t \in batch[c]
    /\ NoGapInOrder

LEMMA GapStep == FeedInv /\ GapInv /\ [FeedNext]_feedVars => GapInv'
<1> SUFFICES ASSUME FeedInv, GapInv, [FeedNext]_feedVars PROVE GapInv'
  OBVIOUS
<1> USE DEF rowVars, connVars, hubVars, clientVars, Received
<1>a. /\ Committed \subseteq Nat /\ Committed \subseteq log /\ log \subseteq Nat
      /\ \A t \in log : t <= lastSeq
      /\ \A c \in Streamers : cursor[c] \in Nat /\ batch[c] \subseteq log
      /\ \A c \in Clients : pos[c] \in log \cup {0} /\ joined[c] \in Nat
      /\ lastSeq \in Nat /\ Streamers \subseteq Clients /\ Pollers \subseteq Clients
      /\ Streamers \cap Pollers = {}
  BY SeqsAreNat, FeedAssumption DEF FeedInv, FeedTypeOK, Clients
<1>1. ASSUME NEW e \in Events, BeginInsert(e) \/ BeginTest(e) PROVE GapInv'
  <2>1. /\ open'[e] = lastSeq + 1 /\ \A f \in Events \ {e} : open'[f] = open[f]
        /\ \A f \in Events : open[f] \in Nat /\ open[f] <= lastSeq
    BY <1>1 DEF BeginInsert, BeginTest, FeedInv, FeedTypeOK
  <2>2. log' = log /\ late' = late /\ Committed' = Committed /\ NoGapInOrder'
    BY <1>1 DEF BeginInsert, BeginTest, Committed, GapInv, NoGapInOrder
  <2>3. lastSeq + 1 \notin log /\ \A f \in Events : open[f] # lastSeq + 1
    BY <1>a, <2>1
  <2>4. \A f \in Events : open'[f] # 0 => open'[f] \notin log'
    BY <2>1, <2>2, <2>3 DEF GapInv
  <2>5. \A f, g \in Events : open'[f] # 0 /\ open'[f] = open'[g] => f = g
    BY <2>1, <2>3 DEF GapInv
  <2> QED
    BY <1>1, <2>2, <2>4, <2>5 DEF BeginInsert, BeginTest, GapInv
<1>2. ASSUME NEW e \in Events, Commit(e) PROVE GapInv'
  <2>1. /\ Committed' \subseteq Committed \cup {open[e]}
        /\ open[e] # 0 /\ open[e] \in Nat /\ open[e] \notin log
        /\ log' = log \cup {open[e]} /\ late \subseteq late'
    BY <1>2, CommittedMoves DEF Commit, FeedInv, FeedTypeOK, GapInv
  <2>2. open'[e] = 0 /\ \A f \in Events \ {e} : open'[f] = open[f]
    BY <1>2, <2>1 DEF Commit, FeedInv, FeedTypeOK
  <2>3. open[e] \notin late' => \A t \in log : t < open[e]
    <3>1. open[e] \notin late' => ~ \E t \in log : t > open[e]
      BY <1>2 DEF Commit
    <3>2. ASSUME NEW t \in log, ~ (t > open[e]) PROVE t < open[e]
      <4>1. t \in Nat /\ t # open[e] /\ open[e] \in Nat
        BY <1>a, <2>1
      <4> QED
        BY <3>2, <4>1
    <3> QED
      BY <3>1, <3>2
  <2>4. ASSUME NEW c \in Clients, NEW s \in Committed' \ late', joined[c] < s, s <= pos[c]
        PROVE  s \in seen[c]
    <3>1. s # open[e]
      <4>1. open[e] \notin late' => pos[c] \in Nat /\ pos[c] < open[e]
        <5>1. CASE pos[c] = 0
          BY <2>1, <5>1
        <5>2. CASE pos[c] \in log
          BY <1>a, <2>3, <5>2
        <5> QED
          BY <1>a, <5>1, <5>2
      <4> QED
        BY <2>1, <2>4, <4>1
    <3> QED
      BY <2>1, <2>4, <3>1 DEF GapInv, NoGapInOrder
  <2>5. ASSUME NEW c \in Streamers, NEW s \in batch[c], NEW t \in Committed' \ late',
               cursor[c] < t, t < s
        PROVE  t \in batch[c]
    <3>1. t # open[e]
      <4>1. s \in Nat /\ (open[e] \notin late' => s < open[e])
        BY <1>a, <2>3
      <4> QED
        BY <2>1, <2>5, <4>1
    <3> QED
      BY <2>1, <2>5, <3>1 DEF GapInv
  <2>6. \A f \in Events : open'[f] # 0 => open'[f] \notin log'
    BY <2>1, <2>2 DEF GapInv
  <2>7. \A f, g \in Events : open'[f] # 0 /\ open'[f] = open'[g] => f = g
    BY <2>2 DEF GapInv
  <2> QED
    BY <1>2, <2>4, <2>5, <2>6, <2>7 DEF Commit, GapInv, NoGapInOrder
<1>3. ASSUME NEW e \in Events, Notify(e) \/ LoseNotify(e) PROVE GapInv'
  BY <1>3 DEF Notify, LoseNotify, GapInv, NoGapInOrder, Committed
<1>4. ASSUME NEW c \in Streamers, Connect(c) PROVE GapInv'
  <2>1. PICK s \in StartCursors(c) :
            /\ cursor' = [cursor EXCEPT ![c] = s] /\ pos' = [pos EXCEPT ![c] = s]
            /\ joined' = [joined EXCEPT ![c] = IF seen[c] # {} THEN @ ELSE s]
    BY <1>4 DEF Connect
  <2>2. Committed' = Committed /\ late' = late /\ seen' = seen /\ batch' = batch
        /\ log' = log /\ open' = open
    BY <1>4 DEF Connect, Committed
  <2>3. batch[c] = {}
    BY <1>4 DEF Connect, FeedInv
  <2>4. \A d \in Streamers : d # c => cursor'[d] = cursor[d]
    BY <2>1 DEF FeedInv, FeedTypeOK
  <2>5. \A d \in Clients : d # c => pos'[d] = pos[d] /\ joined'[d] = joined[d]
    BY <1>a, <2>1 DEF FeedInv, FeedTypeOK
  <2>6. \/ seen[c] # {} /\ pos'[c] = pos[c] /\ joined'[c] = joined[c]
        \/ joined'[c] = pos'[c] /\ pos'[c] \in Nat
    <3>1. pos'[c] = s /\ joined'[c] = IF seen[c] # {} THEN joined[c] ELSE s
      BY <1>a, <2>1 DEF FeedInv, FeedTypeOK
    <3>2. Max0(Committed) \in Committed \cup {0}
      BY SeqsAreNat, Max0IsMax
    <3> QED
      BY <1>a, <2>1, <3>1, <3>2 DEF StartCursors
  <2>7. NoGapInOrder'
    <3> SUFFICES ASSUME NEW d \in Clients, NEW t \in Committed \ late, joined'[d] < t, t <= pos'[d]
                 PROVE  t \in seen[d]
      BY <2>2 DEF NoGapInOrder
    <3>1. CASE d # c
      BY <2>5, <3>1 DEF GapInv, NoGapInOrder
    <3>2. CASE d = c /\ pos'[c] = pos[c] /\ joined'[c] = joined[c]
      BY <3>2 DEF GapInv, NoGapInOrder
    <3>3. CASE d = c /\ joined'[c] = pos'[c] /\ pos'[c] \in Nat
      <4>1. t \in Nat
        BY <1>a
      <4> QED
        BY <3>3, <4>1
    <3> QED
      BY <2>6, <3>1, <3>2, <3>3
  <2> QED
    BY <2>2, <2>3, <2>4, <2>7 DEF GapInv
<1>5. ASSUME NEW c \in Streamers, Feed(c) PROVE GapInv'
  <2>1. batch'[c] = FeedAfter(cursor[c]) /\ \A d \in Streamers \ {c} : batch'[d] = batch[d]
    BY <1>5 DEF Feed, FeedInv, FeedTypeOK
  <2>2. \A s \in batch'[c], t \in Committed \ late : cursor[c] < t /\ t < s => t \in batch'[c]
    <3>1. cursor[c] \in Nat /\ Committed \subseteq Nat
      BY <1>a
    <3>2. \A s \in FeedAfter(cursor[c]), t \in Committed :
            cursor[c] < t /\ t < s => t \in FeedAfter(cursor[c])
      BY <3>1, PageIsPrefix
    <3> QED
      BY <2>1, <3>2
  <2>3. NoGapInOrder' /\ Committed' = Committed /\ late' = late /\ cursor' = cursor /\ log' = log /\ open' = open
    BY <1>5 DEF Feed, GapInv, NoGapInOrder, Committed
  <2> QED
    BY <2>1, <2>2, <2>3 DEF GapInv
<1>6. ASSUME NEW c \in Streamers, NEW s \in batch[c], Emit(c, s) PROVE GapInv'
  <2>1. /\ batch'[c] = batch[c] \ {s} /\ cursor'[c] = s
        /\ pos'[c] = s /\ seen'[c] = seen[c] \cup {s} /\ joined' = joined
        /\ Committed' = Committed /\ late' = late /\ log' = log /\ open' = open
    BY <1>a, <1>6 DEF Emit, FeedInv, FeedTypeOK, Committed
  <2>2. /\ \A d \in Streamers \ {c} : batch'[d] = batch[d] /\ cursor'[d] = cursor[d]
        /\ \A d \in Clients \ {c} : pos'[d] = pos[d] /\ seen'[d] = seen[d]
    BY <1>6 DEF Emit, FeedInv, FeedTypeOK
  <2>3. s \in log /\ s > cursor[c] /\ cursor[c] = pos[c] /\ \A t \in batch[c] : s <= t
    BY <1>6 DEF Emit, FeedInv
  <2>4. ASSUME NEW u \in batch'[c], NEW t \in Committed \ late, s < t, t < u
        PROVE  t \in batch'[c]
    <3>1. cursor[c] < t /\ t \in Nat /\ s \in Nat
      BY <1>a, <2>3, <2>4
    <3> QED
      BY <2>1, <2>4, <3>1 DEF GapInv
  <2>5. ASSUME NEW t \in Committed \ late, joined[c] < t, t <= s
        PROVE  t \in seen'[c]
    <3>1. CASE t <= pos[c]
      BY <1>a, <2>1, <2>5, <3>1 DEF GapInv, NoGapInOrder
    <3>2. CASE t > pos[c] /\ t < s
      <4>1. t \in batch[c]
        BY <2>3, <3>2 DEF GapInv
      <4> QED
        BY <1>a, <2>3, <3>2, <4>1
    <3>3. CASE t = s
      BY <2>1, <3>3
    <3>4. t \in Nat /\ s \in Nat /\ pos[c] \in Nat
      BY <1>a, <2>3
    <3> QED
      BY <2>5, <3>1, <3>2, <3>3, <3>4
  <2>6. NoGapInOrder'
    BY <2>1, <2>2, <2>5 DEF GapInv, NoGapInOrder
  <2> QED
    BY <2>1, <2>2, <2>4, <2>6 DEF GapInv
<1>7. ASSUME NEW c \in Streamers,
             Subscribe(c) \/ BatchDone(c) \/ Wake(c) \/ Heartbeat(c) \/ Ring(c)
      PROVE  GapInv'
  BY <1>7 DEF Subscribe, BatchDone, Wake, Heartbeat, Ring, GapInv, NoGapInOrder, Committed
<1>8. ASSUME NEW c \in Streamers, Disconnect(c) PROVE GapInv'
  BY <1>8 DEF Disconnect, GapInv, NoGapInOrder, Committed, FeedInv, FeedTypeOK
<1>9. ASSUME NEW c \in Pollers, Poll(c) PROVE GapInv'
  <2> DEFINE rows == FeedAfter(pos[c])
  <2>1. /\ seen' = [seen EXCEPT ![c] = @ \cup rows] /\ pos' = [pos EXCEPT ![c] = Max0(rows)]
        /\ joined' = joined /\ Committed' = Committed /\ late' = late
        /\ log' = log /\ open' = open /\ batch' = batch /\ cursor' = cursor
    BY <1>9 DEF Poll, Committed
  <2>2. c \in Clients /\ pos[c] \in Nat
    BY <1>a, SeqsAreNat
  <2>3. Max0(rows) \in rows /\ rows \subseteq log
    BY <1>9, <2>2, PageKnown DEF Poll
  <2>4. \A t \in Committed : pos[c] < t /\ t < Max0(rows) => t \in rows
    BY <1>a, <2>2, <2>3, PageIsPrefix
  <2> HIDE DEF rows
  <2>5. pos'[c] = Max0(rows) /\ seen'[c] = seen[c] \cup rows
    BY <2>1, <2>2 DEF FeedInv, FeedTypeOK
  <2>6. \A d \in Clients \ {c} : pos'[d] = pos[d] /\ seen'[d] = seen[d]
    BY <2>1 DEF FeedInv, FeedTypeOK
  <2>7. ASSUME NEW t \in Committed \ late, joined[c] < t, t <= Max0(rows)
        PROVE  t \in seen[c] \cup rows
    <3>1. CASE t <= pos[c]
      BY <2>2, <2>7, <3>1 DEF GapInv, NoGapInOrder
    <3>2. CASE t > pos[c]
      <4>1. t \in Nat /\ Max0(rows) \in Nat
        BY <1>a, <2>3
      <4> QED
        BY <2>2, <2>3, <2>4, <2>7, <3>2, <4>1
    <3> QED
      BY <1>a, <2>2, <3>1, <3>2
  <2>8. NoGapInOrder'
    BY <2>1, <2>5, <2>6, <2>7 DEF GapInv, NoGapInOrder
  <2> QED
    BY <2>1, <2>8 DEF GapInv
<1>10. CASE UNCHANGED feedVars
  BY <1>10 DEF feedVars, GapInv, NoGapInOrder, Committed
<1> QED
  BY <1>1, <1>2, <1>3, <1>4, <1>5, <1>6, <1>7, <1>8, <1>9, <1>10
     DEF FeedNext, WriterNext, StreamerNext, Serve

\* However many INSERTs overlap, a client receives all that is committed between its first cursor
\* and its current one, across pages, disconnections and test events, but for rows that were
\* committed after a row with a larger seq (db/stream.go:104); the run `stream_gap' misses one.
THEOREM FeedNoGap == FeedSpec => []NoGapInOrder
<1>1. FeedInit => GapInv
  BY FeedAssumption DEF FeedInit, GapInv, NoGapInOrder, Received, Committed
<1>2. GapInv => NoGapInOrder
  BY DEF GapInv
<1> QED
  BY <1>1, <1>2, FeedInvariant, GapStep, PTL DEF FeedSpec

-----------------------------------------------------------------------------
(* The feed implements the durable log *)

LogStep == [Log!LogNext]_Log!logVars

LEMMA FeedStepIsLogStep ==
    FeedInv /\ GapInv /\ [FeedNext]_feedVars => LogStep
<1> SUFFICES ASSUME FeedInv, GapInv, [FeedNext]_feedVars PROVE LogStep
  OBVIOUS
<1> USE DEF rowVars, connVars, hubVars, clientVars
<1>a. /\ Committed \subseteq Nat /\ Committed \subseteq log /\ log \subseteq Nat
      /\ \A c \in Streamers : cursor[c] \in Nat /\ batch[c] \subseteq log /\ c \in Clients
  BY SeqsAreNat DEF FeedInv, FeedTypeOK
<1>b. ASSUME Committed' = Committed, UNCHANGED <<log, late, joined, seen, pos>> PROVE LogStep
  BY <1>b DEF LogStep, Log!logVars
<1>1. ASSUME NEW e \in Events, Commit(e) PROVE LogStep
  <2>1. /\ log' = log \cup {open[e]} /\ open[e] \in Nat /\ open[e] \notin log
        /\ late' = IF \E s \in log : s > open[e] THEN late \cup {open[e]} ELSE late
    BY <1>1 DEF Commit, GapInv, FeedInv, FeedTypeOK
  <2>6. late' = IF \A t \in log : t < open[e] THEN late ELSE late \cup {open[e]}
    <3>1. (\E s \in log : s > open[e]) <=> ~ \A t \in log : t < open[e]
      BY <1>a, <2>1
    <3> QED
      BY <2>1, <3>1
  <2>2. /\ Committed' \subseteq Committed \cup {open[e]} /\ open[e] \in Committed'
        /\ Committed \subseteq Committed' \cup {row[e]}
    BY <1>1, CommittedMoves DEF FeedInv
  <2>3. \/ (log \ Committed)' = log \ Committed
        \/ \E t \in log : (log \ Committed)' = (log \ Committed) \cup {t}
    <3>1. CASE Committed \subseteq Committed'
      BY <1>a, <2>1, <2>2, <3>1
    <3>2. CASE ~ (Committed \subseteq Committed')
      <4>1. row[e] \in Committed /\ row[e] \notin Committed' /\ row[e] \in log
        BY <1>a, <2>2, <3>2
      <4>2. log' \ Committed' = (log \ Committed) \cup {row[e]}
        BY <1>a, <2>1, <2>2, <4>1
      <4> QED
        BY <4>1, <4>2
    <3> QED
      BY <3>1, <3>2
  <2>4. joined' = joined /\ seen' = seen /\ pos' = pos
    BY <1>1 DEF Commit
  <2>5. Log!AppendEntry
    BY <2>1, <2>3, <2>4, <2>6 DEF Log!AppendEntry
  <2> QED
    BY <2>5 DEF LogStep, Log!LogNext
<1>2. ASSUME NEW c \in Streamers, Connect(c) PROVE LogStep
  <2>1. PICK s \in StartCursors(c) :
            /\ pos' = [pos EXCEPT ![c] = s]
            /\ joined' = [joined EXCEPT ![c] = IF seen[c] # {} THEN @ ELSE s]
    BY <1>2 DEF Connect
  <2>2. Committed' = Committed /\ seen' = seen /\ log' = log /\ late' = late
    BY <1>2 DEF Connect, Committed
  <2>3. CASE seen[c] # {}
    <3>1. s = pos[c]
      BY <2>1, <2>3 DEF StartCursors
    <3>2. pos' = pos /\ joined' = joined
      BY <2>1, <2>3, <3>1 DEF FeedInv, FeedTypeOK
    <3> QED
      BY <1>b, <2>2, <3>2
  <2>4. CASE seen[c] = {}
    <3>1. pos'[c] = s /\ joined'[c] = s /\ \A d \in Streamers \ {c} : pos'[d] = pos[d] /\ joined'[d] = joined[d]
      BY <1>a, <2>1, <2>4 DEF FeedInv, FeedTypeOK
    <3>2. Log!Join(c)
      BY <2>2, <2>4, <3>1 DEF Log!Join
    <3> QED
      BY <3>2 DEF LogStep, Log!LogNext
  <2> QED
    BY <2>3, <2>4
<1>3. ASSUME NEW c \in Streamers, NEW s \in batch[c], Emit(c, s) PROVE LogStep
  <2>1. /\ pos'[c] = s /\ seen'[c] = seen[c] \cup {s} /\ joined' = joined
        /\ Committed' = Committed /\ log' = log /\ late' = late
        /\ \A d \in Streamers \ {c} : pos'[d] = pos[d] /\ seen'[d] = seen[d]
    BY <1>a, <1>3 DEF Emit, FeedInv, FeedTypeOK, Committed
  <2>2. s \in log /\ s > pos[c] /\ cursor[c] = pos[c] /\ \A t \in batch[c] : s <= t
    BY <1>3 DEF Emit, FeedInv
  <2>3. ~ \E t \in log \ ((log \ Committed) \cup late) : pos[c] < t /\ t < s
    <3> SUFFICES ASSUME NEW t \in Committed \ late, pos[c] < t, t < s PROVE FALSE
      OBVIOUS
    <3>1. t \in batch[c]
      BY <2>2 DEF GapInv
    <3> QED
      BY <1>a, <2>2, <3>1
  <2>4. Log!ReadNext(c)
    BY <2>1, <2>2, <2>3 DEF Log!ReadNext
  <2> QED
    BY <2>4 DEF LogStep, Log!LogNext
<1>4. ASSUME NEW c \in Pollers, Poll(c) PROVE LogStep
  <2>1. c \notin Streamers /\ c \in Clients
    BY FeedAssumption DEF Clients
  <2>2. \A d \in Streamers : pos'[d] = pos[d] /\ seen'[d] = seen[d]
    BY <1>a, <1>4, <2>1 DEF Poll, FeedInv, FeedTypeOK
  <2>3. Committed' = Committed /\ joined' = joined /\ log' = log /\ late' = late
    BY <1>4 DEF Poll, Committed
  <2> QED
    BY <2>2, <2>3 DEF LogStep, Log!logVars
<1>5. ASSUME NEW e \in Events, BeginInsert(e) \/ BeginTest(e) \/ Notify(e) \/ LoseNotify(e)
      PROVE  LogStep
  BY <1>b, <1>5 DEF BeginInsert, BeginTest, Notify, LoseNotify, Committed
<1>6. ASSUME NEW c \in Streamers,
             Subscribe(c) \/ Feed(c) \/ BatchDone(c) \/ Wake(c) \/ Ring(c) \/ Heartbeat(c)
                \/ Disconnect(c)
      PROVE  LogStep
  BY <1>b, <1>6
     DEF Subscribe, Feed, BatchDone, Wake, Ring, Heartbeat, Disconnect, Committed
<1>7. CASE UNCHANGED feedVars
  BY <1>b, <1>7 DEF feedVars, Committed
<1> QED
  BY <1>1, <1>2, <1>3, <1>4, <1>5, <1>6, <1>7
     DEF FeedNext, WriterNext, StreamerNext, Serve

\* What the streaming connections show their clients is a log: every entry after the point where
\* a client joined, in order, once, also across reconnections, but for the withdrawn and the late.
THEOREM FeedImplementsLog == FeedSpec => ImplementsLog
<1>1. FeedInit => Log!LogInit
  <2> SUFFICES ASSUME FeedInit PROVE Log!LogInit
    OBVIOUS
  <2> QED
    BY FeedAssumption DEF FeedInit, Log!LogInit, Committed, Clients
<1>2. FeedInit => GapInv
  BY FeedAssumption DEF FeedInit, GapInv, NoGapInOrder, Received, Committed
<1>3. FeedSpec => []GapInv
  BY <1>2, FeedInvariant, GapStep, PTL DEF FeedSpec
<1>4. FeedInv /\ GapInv /\ [FeedNext]_feedVars => [Log!LogNext]_Log!logVars
  BY FeedStepIsLogStep DEF LogStep
<1> QED
  BY <1>1, <1>3, <1>4, FeedInvariant, PTL DEF FeedSpec, ImplementsLog, Log!LogSpec
=============================================================================
