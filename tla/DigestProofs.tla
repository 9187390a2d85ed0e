---------------------------- MODULE DigestProofs ----------------------------
(***************************************************************************)
(* What a subscription is sent.  Of every filter and every signal: what    *)
(* matches (module Matching).  Of every size of the pool, the page and the *)
(* weights: what is shown first (Relevance).  Of any number of signals,    *)
(* schedulers and failures: in which digest a signal is (Digest).          *)
(***************************************************************************)
EXTENDS Digest, Relevance, TLAPS

-----------------------------------------------------------------------------
(* Matching *)

LEMMA RankIsInt ==
    ASSUME NEW level
    PROVE  RankIn(severityRank, level) \in Int /\ RankIn(influenceRank, level) \in Int
  BY DEF RankIn, severityRank, influenceRank

LEMMA UnderTransitive ==
    ASSUME NEW a, NEW b, NEW c, Under(a, b), Under(b, c)
    PROVE  Under(a, c)
  BY DEF Under

\* Narrowing a filter never lets in a signal that the wider one keeps out: "each set field
\* further narrows the match" (pipeline/deliver.go:22), domains and leaves included.
THEOREM StricterMatchesLess ==
    ASSUME NEW f, NEW g, NEW s, IsFilter(f), IsFilter(g), IsSignal(s),
           Stricter(g, f), Matches(g, s)
    PROVE  Matches(f, s)
<1>1. \A m \in f.minConfidence : s.confidence >= m
  <2> SUFFICES ASSUME NEW m \in f.minConfidence PROVE s.confidence >= m
    OBVIOUS
  <2>1. PICK n \in g.minConfidence : n >= m
    BY DEF Stricter
  <2>2. s.confidence >= n
    BY DEF Matches
  <2> QED BY <2>1, <2>2 DEF IsFilter, IsSignal
<1>2. \A m \in f.minRelevance : \E r \in s.relevance : r >= m
  <2> SUFFICES ASSUME NEW m \in f.minRelevance PROVE \E r \in s.relevance : r >= m
    OBVIOUS
  <2>1. PICK n \in g.minRelevance : n >= m
    BY DEF Stricter
  <2>2. PICK r \in s.relevance : r >= n
    BY DEF Matches
  <2> QED BY <2>1, <2>2 DEF IsFilter, IsSignal
<1>3. \A m \in f.minSeverity : RankIn(severityRank, s.severity) >= RankIn(severityRank, m)
  <2> SUFFICES ASSUME NEW m \in f.minSeverity
               PROVE  RankIn(severityRank, s.severity) >= RankIn(severityRank, m)
    OBVIOUS
  <2>1. PICK n \in g.minSeverity : RankIn(severityRank, n) >= RankIn(severityRank, m)
    BY DEF Stricter
  <2>2. RankIn(severityRank, s.severity) >= RankIn(severityRank, n)
    BY DEF Matches
  <2> QED BY <2>1, <2>2, RankIsInt
<1>4. \A m \in f.minInfluence :
        \E i \in s.influence : RankIn(influenceRank, i) >= RankIn(influenceRank, m)
  <2> SUFFICES ASSUME NEW m \in f.minInfluence
               PROVE  \E i \in s.influence : RankIn(influenceRank, i) >= RankIn(influenceRank, m)
    OBVIOUS
  <2>1. PICK n \in g.minInfluence : RankIn(influenceRank, n) >= RankIn(influenceRank, m)
    BY DEF Stricter
  <2>2. PICK i \in s.influence : RankIn(influenceRank, i) >= RankIn(influenceRank, n)
    BY DEF Matches
  <2> QED BY <2>1, <2>2, RankIsInt
<1>5. f.countries # {} => Hits(f.countries, s.country)
  BY DEF Stricter, Matches, Hits
<1>6. /\ f.regions # {} => HitsFold(f.regions, s.region)
      /\ f.sentiment # {} => HitsFold(f.sentiment, s.sentiment)
      /\ f.entities # {} => HitsFold(f.entities, s.entities)
  BY DEF Stricter, Matches, HitsFold
<1>7. ASSUME f.tags # {}
      PROVE  \E code \in s.tags : \E want \in f.tags : Under(code, want)
  <2>1. PICK code \in s.tags : \E want \in g.tags : Under(code, want)
    BY <1>7 DEF Stricter, Matches
  <2>2. PICK want \in g.tags : Under(code, want)
    BY <2>1
  <2>3. PICK wide \in f.tags : Under(want, wide)
    BY <1>7 DEF Stricter
  <2> QED BY <2>1, <2>2, <2>3, UnderTransitive
<1>8. \A k \in f.keyword : InText(k, s)
  BY DEF Stricter, Matches
<1> QED BY <1>1, <1>2, <1>3, <1>4, <1>5, <1>6, <1>7, <1>8 DEF Matches

\* What matchesFilter makes of a filter whose decoding failed in part (deliver.go:115-118),
\* exactly: a bound, a list or a keyword of the wrong type narrows nothing, with two
\* exceptions.  A wrong minRelevance or minInfluence still refuses the signals that have none
\* (deliver.go:43, 49), and a list of which no element is a string refuses every signal; an
\* element that is no string changes nothing in a list that has another.
THEOREM DecodingIsExact ==
    ASSUME NEW f, NEW wrong \in SUBSET Fields, NEW holes \in SUBSET Lists, NEW s,
           IsFilter(f), IsPlausible(s)
    PROVE  Matches(Decoded(f, wrong, holes), s) <=> Understood(f, wrong, holes, s)
<1> DEFINE g == Decoded(f, wrong, holes)
           u == [x \in Fields |-> IF x \in wrong THEN {} ELSE f[x]]
<1>1. \A x \in Fields : /\ g[x] = IF x \in wrong THEN Zero(x)
                                 ELSE IF x \in holes THEN f[x] \cup {Blank(x)} ELSE f[x]
                        /\ u[x] = IF x \in wrong THEN {} ELSE f[x]
  BY DEF Decoded
<1>0. /\ s.confidence \in Nat /\ s.relevance \subseteq Nat
      /\ \A code \in s.tags : code.domain # NoName
  BY DEF IsPlausible
<1> HIDE DEF g, u
<1>2. (\A m \in g.minConfidence : s.confidence >= m)
      <=> \A m \in u.minConfidence : s.confidence >= m
  <2>1. /\ g.minConfidence = IF "minConfidence" \in wrong THEN {0} ELSE f.minConfidence
        /\ u.minConfidence = IF "minConfidence" \in wrong THEN {} ELSE f.minConfidence
    BY <1>1 DEF Fields, Lists, Zero
  <2>2. s.confidence >= 0
    BY <1>0
  <2> QED BY <2>1, <2>2
<1>3. (\A m \in g.minRelevance : \E r \in s.relevance : r >= m)
      <=> /\ \A m \in u.minRelevance : \E r \in s.relevance : r >= m
          /\ "minRelevance" \in wrong => s.relevance # {}
  <2>1. /\ g.minRelevance = IF "minRelevance" \in wrong THEN {0} ELSE f.minRelevance
        /\ u.minRelevance = IF "minRelevance" \in wrong THEN {} ELSE f.minRelevance
    BY <1>1 DEF Fields, Lists, Zero
  <2>2. \A r \in s.relevance : r >= 0
    BY <1>0
  <2> QED BY <2>1, <2>2
<1>4. (\A m \in g.minSeverity : RankIn(severityRank, s.severity) >= RankIn(severityRank, m))
      <=> \A m \in u.minSeverity : RankIn(severityRank, s.severity) >= RankIn(severityRank, m)
  <2>1. RankIn(severityRank, s.severity) >= RankIn(severityRank, NoName)
    BY DEF RankIn, severityRank, NoName
  <2>2. /\ g.minSeverity = IF "minSeverity" \in wrong THEN {NoName} ELSE f.minSeverity
        /\ u.minSeverity = IF "minSeverity" \in wrong THEN {} ELSE f.minSeverity
    BY <1>1 DEF Fields, Lists, Zero
  <2> QED BY <2>1, <2>2
<1>5. (\A m \in g.minInfluence :
          \E i \in s.influence : RankIn(influenceRank, i) >= RankIn(influenceRank, m))
      <=> /\ \A m \in u.minInfluence :
                \E i \in s.influence : RankIn(influenceRank, i) >= RankIn(influenceRank, m)
          /\ "minInfluence" \in wrong => s.influence # {}
  <2>1. \A i : RankIn(influenceRank, i) >= RankIn(influenceRank, NoName)
    BY DEF RankIn, influenceRank, NoName
  <2>2. /\ g.minInfluence = IF "minInfluence" \in wrong THEN {NoName} ELSE f.minInfluence
        /\ u.minInfluence = IF "minInfluence" \in wrong THEN {} ELSE f.minInfluence
    BY <1>1 DEF Fields, Lists, Zero
  <2> QED BY <2>1, <2>2
<1>6. (g.countries # {} => Hits(g.countries, s.country))
      <=> /\ u.countries # {} => Hits(u.countries, s.country)
          /\ "countries" \in holes \ wrong => f.countries # {}
  <2>1. /\ g.countries = IF "countries" \in wrong THEN {}
                        ELSE IF "countries" \in holes THEN f.countries \cup {NoName} ELSE f.countries
        /\ u.countries = IF "countries" \in wrong THEN {} ELSE f.countries
    BY <1>1 DEF Fields, Zero, Blank
  <2>2. Hits(f.countries \cup {NoName}, s.country) <=> Hits(f.countries, s.country)
    BY DEF Hits, IsPlausible
  <2>3. f.countries = {} => ~Hits(f.countries, s.country)
    BY DEF Hits
  <2> QED BY <2>1, <2>2, <2>3
<1>7. \A x \in {"regions", "sentiment", "entities"} :
      \A values \in {s.region, s.sentiment, s.entities} :
         (g[x] # {} => HitsFold(g[x], values))
         <=> /\ u[x] # {} => HitsFold(u[x], values)
             /\ x \in holes \ wrong => f[x] # {}
  <2> TAKE x \in {"regions", "sentiment", "entities"}
  <2> TAKE values \in {s.region, s.sentiment, s.entities}
  <2>1. \A v \in values : Fold(v) # Fold(NoName)
    BY DEF IsPlausible
  <2>2. x \in Fields /\ Zero(x) = {} /\ Blank(x) = NoName
    BY DEF Fields, Zero, Blank
  <2>3. HitsFold(f[x] \cup {NoName}, values) <=> HitsFold(f[x], values)
    BY <2>1 DEF HitsFold
  <2>4. f[x] = {} => ~HitsFold(f[x], values)
    BY DEF HitsFold
  <2>5. /\ g[x] = IF x \in wrong THEN {} ELSE IF x \in holes THEN f[x] \cup {NoName} ELSE f[x]
        /\ u[x] = IF x \in wrong THEN {} ELSE f[x]
    BY <1>1, <2>2
  <2> QED BY <2>3, <2>4, <2>5
<1>8. (g.tags # {} => \E code \in s.tags : \E want \in g.tags : Under(code, want))
      <=> /\ u.tags # {} => \E code \in s.tags : \E want \in u.tags : Under(code, want)
          /\ "tags" \in holes \ wrong => f.tags # {}
  <2> DEFINE blank == Blank("tags")
  <2>1. blank = [domain |-> NoName, leaf |-> NoLeaf]
    BY DEF Blank
  <2>2. \A code \in s.tags : ~Under(code, blank)
    <3> SUFFICES ASSUME NEW code \in s.tags PROVE ~Under(code, blank)
      OBVIOUS
    <3>1. code.domain # blank.domain /\ code # blank
      BY <2>1, <1>0
    <3> QED BY <3>1 DEF Under
  <2>3. /\ g.tags = IF "tags" \in wrong THEN {}
                   ELSE IF "tags" \in holes THEN f.tags \cup {blank} ELSE f.tags
        /\ u.tags = IF "tags" \in wrong THEN {} ELSE f.tags
    <3>1. "tags" \in Fields /\ Zero("tags") = {}
      BY DEF Fields, Zero
    <3> QED BY <1>1, <3>1
  <2> HIDE DEF blank
  <2>4. (\E code \in s.tags : \E want \in f.tags \cup {blank} : Under(code, want))
        <=> \E code \in s.tags : \E want \in f.tags : Under(code, want)
    BY <2>2
  <2> QED BY <2>3, <2>4
<1>9. g.keyword = u.keyword
  <2>1. "keyword" \in Fields /\ "keyword" \notin holes /\ Zero("keyword") = {}
    BY DEF Fields, Lists, Zero
  <2> QED BY <1>1, <2>1
<1>10. \A x \in holes : x \in Lists
  OBVIOUS
<1> QED BY <1>2, <1>3, <1>4, <1>5, <1>6, <1>7, <1>8, <1>9, <1>10
        DEF Matches, Understood, g, u, Lists

-----------------------------------------------------------------------------
(* Relevance *)

\* The limits fit one another: three pages of any size that is asked for are no more than the
\* pool they are chosen from (db/relevance.go:120), which CandidateSignals, whose own cap
\* would replace it by the default, takes as it is (db/relevance.go:14).
THEOREM PagesFitPool ==
    ASSUME NEW asked \in Int
    PROVE  LET pages == 3 * ClampLimit(asked)
               pool == MaxCandidates(pages)
           IN 0 < pages /\ pages <= pool /\ CandidateLimit(pool) = pool
<1> DEFINE page == ClampLimit(asked)
           pool == MaxCandidates(3 * page)
<1>1. {DefaultPage, PageCap, PoolFloor, PoolCap, DefaultPool, CandidateCap} \subseteq Nat \ {0}
  BY RelevanceAssumption
<1>2. page \in Nat /\ 0 < page /\ page <= PageCap
  BY <1>1, RelevanceAssumption DEF ClampLimit
<1>3. pool \in Nat /\ 3 * page <= pool /\ pool <= PoolCap
  <2> HIDE DEF page
  <2> QED BY <1>1, <1>2, RelevanceAssumption DEF MaxCandidates
<1>4. CandidateLimit(pool) = pool
  <2> HIDE DEF page, pool
  <2> QED BY <1>1, <1>2, <1>3, RelevanceAssumption DEF CandidateLimit
<1> QED BY <1>2, <1>3, <1>4

\* "It dominates when interests are set" (relevance/relevance.go:7): of two signals of one
\* age, the one whose interests weigh a unit more outranks the other, whatever their
\* influence, severity, relevance and confidence.  The hypotheses on the two parts of the
\* score say only what a sum of integers and of four weighted values is.
THEOREM InterestDominates ==
    ASSUME NEW p, NEW s, NEW t, s.age = t.age,
           Recency(s.age) \in Nat, Recency(s.age) > 0,
           InterestScore(p, s) \in Int, InterestScore(p, t) \in Int,
           Quality(s) \in 0..1000, Quality(t) \in 0..1000,
           InterestScore(p, s) >= InterestScore(p, t) + 1000
    PROVE  Score(p, s) > Score(p, t)
<1> DEFINE x == InterestScore(p, s)
           y == InterestScore(p, t)
           q == Quality(s)
           u == Quality(t)
           r == Recency(s.age)
           d == (2 * x + q) - (2 * y + u)
<1>1. x \in Int /\ y \in Int /\ x >= y + 1000 /\ r \in Nat /\ r > 0
  OBVIOUS
<1>2. q \in 0..1000 /\ u \in 0..1000
  OBVIOUS
<1>3. Score(p, s) = (2 * x + q) * r /\ Score(p, t) = (2 * y + u) * r
  BY DEF Score
<1> HIDE DEF x, y, q, u, r
<1>4. d \in Nat /\ d > 0
  BY <1>1, <1>2
<1>5. d * r > 0 /\ d * r \in Nat
  <2> HIDE DEF d
  <2> QED BY <1>1, <1>4
<1>6. (2 * x + q) * r = (2 * y + u) * r + d * r /\ (2 * y + u) * r \in Int
  BY <1>1, <1>2
<1> HIDE DEF d
<1> QED BY <1>3, <1>5, <1>6

-----------------------------------------------------------------------------
(* Digests: a match is in one at most, and in the queue until it is in one, unless *)
(* its batch was named by a signal that matched again. *)

\* The locks: what a scheduler holds is in the queue, and held by no other.
LocksOK ==
    /\ batch \in [Schedulers -> SUBSET queued]
    /\ \A r, s \in Schedulers : r # s => batch[r] \cap batch[s] = {}

\* What is both queued and in a digest was matched again.
ContentOK ==
    /\ DOMAIN content \subseteq Signals
    /\ content = [g \in DOMAIN content |-> content[g]]
    /\ \A g \in DOMAIN content :
          /\ g \in content[g] /\ content[g] \subseteq Signals
          /\ \A x \in content[g] : matches[x] > 0 /\ (x \in queued => matches[x] > 1)

MatchInv ==
    /\ matches \in [Signals -> Nat]
    /\ queued \subseteq Signals /\ \A g \in queued : matches[g] > 0
    /\ pc \in [Schedulers -> {"idle", "due", "locking", "building", "built"}]
    /\ LocksOK /\ ContentOK
    /\ NothingLost /\ NotTwice

LEMMA OnceStart == DigestInit => MatchInv
  BY DEF DigestInit, MatchInv, LocksOK, ContentOK, NothingLost, NotTwice

\* Steps that touch neither the queue nor a lock nor a digest.
LEMMA OnceElsewhere ==
    ASSUME MatchInv, UNCHANGED <<matches, queued, batch, content, unserved>>,
           pc' \in [Schedulers -> {"idle", "due", "locking", "building", "built"}]
    PROVE  MatchInv'
  BY DEF MatchInv, LocksOK, ContentOK, NothingLost, NotTwice

LEMMA OnceMatch ==
    ASSUME MatchInv, NEW g \in Signals, QueueDigestItem(g)
    PROVE  MatchInv'
<1>1. /\ matches' \in [Signals -> Nat] /\ matches'[g] = matches[g] + 1
      /\ \A x \in Signals : x # g => matches'[x] = matches[x]
      /\ \A x \in Signals : matches'[x] >= matches[x] /\ matches[x] \in Nat
  BY DEF QueueDigestItem, MatchInv
<1>2. /\ queued' = queued \cup {g} /\ unserved' = unserved \cup {g}
      /\ UNCHANGED <<content, batch, pc>>
  BY DEF QueueDigestItem, local
<1>3. queued' \subseteq Signals /\ \A x \in queued' : matches'[x] > 0
  BY <1>1, <1>2 DEF MatchInv
<1>4. LocksOK'
  BY <1>2 DEF MatchInv, LocksOK
<1>5. ContentOK'
  <2>1. ASSUME NEW h \in DOMAIN content, NEW x \in content[h]
        PROVE  matches'[x] > 0 /\ (x \in queued' => matches'[x] > 1)
    <3>1. x \in Signals /\ matches[x] > 0 /\ (x \in queued => matches[x] > 1)
      BY DEF MatchInv, ContentOK
    <3> QED
      BY <1>1, <1>2, <3>1
  <2> QED
    BY <1>2, <2>1 DEF MatchInv, ContentOK
<1>6. NothingLost' /\ NotTwice'
  <2>1. \A h \in DOMAIN content : h \in Signals /\ \A x \in content[h] : x \in Signals
    BY DEF MatchInv, ContentOK
  <2>2. NothingLost'
    BY <1>1, <1>2, <2>1 DEF MatchInv, NothingLost
  <2>3. NotTwice'
    BY <1>1, <1>2, <2>1 DEF MatchInv, NotTwice
  <2> QED
    BY <2>2, <2>3
<1> QED
  BY <1>1, <1>2, <1>3, <1>4, <1>5, <1>6 DEF MatchInv

\* The rows that a scheduler locks are free: it has waited for those it saw.
LEMMA OnceLock ==
    ASSUME MatchInv, NEW s \in Schedulers, LockRows(s)
    PROVE  MatchInv'
<1>1. PICK rows \in SUBSET (snapshot[s] \cap queued) : batch' = [batch EXCEPT ![s] = rows]
  BY DEF LockRows
<1>2. /\ UNCHANGED <<matches, queued, content, unserved>>
      /\ pc' = [pc EXCEPT ![s] = "building"]
  BY DEF LockRows, table, history
<1>3. LocksOK'
  <2>1. batch' \in [Schedulers -> SUBSET queued] /\ batch'[s] = rows
        /\ \A r \in Schedulers : r # s => batch'[r] = batch[r] /\ batch[r] \cap rows = {}
    BY <1>1 DEF LockRows, MatchInv, LocksOK
  <2>2. ASSUME NEW r \in Schedulers, NEW t \in Schedulers, r # t
        PROVE  batch'[r] \cap batch'[t] = {}
    BY <2>1, <2>2 DEF MatchInv, LocksOK
  <2> QED
    BY <1>2, <2>1, <2>2 DEF LocksOK
<1> QED
  BY <1>2, <1>3 DEF MatchInv, ContentOK, NothingLost, NotTwice

\* A digest takes its signals out of the queue with the statement that stores them; one
\* that is refused bears the name of a signal that was matched again.
LEMMA OnceCommit ==
    ASSUME MatchInv, NEW s \in Schedulers, CommitDigest(s)
    PROVE  MatchInv'
<1>1. PICK rep \in batch[s] :
        IF rep \notin DOMAIN content
        THEN /\ content' = [g \in DOMAIN content \cup {rep} |-> IF g = rep THEN batch[s] ELSE content[g]]
             /\ unserved' = unserved \ batch[s]
        ELSE UNCHANGED <<content, unserved>>
  BY DEF CommitDigest
<1>2. batch[s] \subseteq queued /\ rep \in queued /\ queued \subseteq Signals
  BY DEF MatchInv, LocksOK
<1>3. /\ queued' = queued \ batch[s] /\ batch' = [batch EXCEPT ![s] = {}]
      /\ pc' = [pc EXCEPT ![s] = "built"] /\ UNCHANGED matches
  BY DEF CommitDigest
<1>4. LocksOK'
  <2>1. \A r \in Schedulers : batch'[r] = IF r = s THEN {} ELSE batch[r]
    BY <1>3 DEF MatchInv, LocksOK
  <2>2. \A r \in Schedulers : r # s => batch[r] \subseteq queued \ batch[s]
    BY DEF MatchInv, LocksOK
  <2>3. batch' \in [Schedulers -> SUBSET queued']
    BY <1>3, <2>1, <2>2 DEF MatchInv, LocksOK
  <2> QED
    BY <2>1, <2>3 DEF MatchInv, LocksOK
<1>5. queued' \subseteq Signals /\ \A g \in queued' : matches'[g] > 0
  BY <1>3 DEF MatchInv
<1>6. CASE rep \in DOMAIN content
  <2>1. UNCHANGED <<content, unserved>>
    BY <1>1, <1>6
  <2>2. matches[rep] > 1
    BY <1>2, <1>6 DEF MatchInv, ContentOK
  <2>3. NothingLost'
    BY <1>3, <1>6, <2>1, <2>2 DEF NothingLost
  <2>4. ContentOK' /\ NotTwice'
    BY <1>3, <2>1 DEF MatchInv, ContentOK, NotTwice
  <2> QED
    BY <1>3, <1>4, <1>5, <2>3, <2>4 DEF MatchInv
<1>7. CASE rep \notin DOMAIN content
  <2>1. /\ DOMAIN content' = DOMAIN content \cup {rep} /\ content'[rep] = batch[s]
        /\ \A g \in DOMAIN content : content'[g] = content[g]
        /\ content' = [g \in DOMAIN content' |-> content'[g]]
        /\ unserved' = unserved \ batch[s]
    BY <1>1, <1>7
  <2>2. ContentOK'
    <3>1. ASSUME NEW g \in DOMAIN content'
          PROVE  /\ g \in content'[g] /\ content'[g] \subseteq Signals
                 /\ \A x \in content'[g] : matches'[x] > 0 /\ (x \in queued' => matches'[x] > 1)
      <4>1. CASE g = rep
        BY <1>2, <1>3, <2>1, <4>1 DEF MatchInv
      <4>2. CASE g # rep
        BY <1>3, <2>1, <4>2 DEF MatchInv, ContentOK
      <4> QED
        BY <4>1, <4>2
    <3>2. DOMAIN content' \subseteq Signals
      BY <1>2, <2>1 DEF MatchInv, ContentOK
    <3> QED
      BY <2>1, <3>1, <3>2 DEF ContentOK
  <2>3. NotTwice'
    <3>1. \A g \in DOMAIN content : \A x \in content[g] \cap batch[s] : matches[x] > 1
      BY <1>2 DEF MatchInv, ContentOK
    <3> QED
      BY <1>3, <2>1, <3>1 DEF MatchInv, NotTwice
  <2>4. NothingLost'
    BY <1>3, <2>1 DEF MatchInv, NothingLost
  <2> QED
    BY <1>3, <1>4, <1>5, <2>2, <2>3, <2>4 DEF MatchInv
<1> QED
  BY <1>6, <1>7

\* A scheduler that is gone has rolled back, and holds nothing.
LEMMA OnceCrash ==
    ASSUME MatchInv, NEW s \in Schedulers, Crash(s)
    PROVE  MatchInv'
<1>1. /\ UNCHANGED <<matches, queued, content, unserved>>
      /\ pc' = [pc EXCEPT ![s] = "idle"] /\ batch' = [batch EXCEPT ![s] = {}]
  BY DEF Crash, table
<1>2. LocksOK'
  BY <1>1 DEF MatchInv, LocksOK
<1> QED
  BY <1>1, <1>2 DEF MatchInv, ContentOK, NothingLost, NotTwice

LEMMA OnceStep ==
    ASSUME MatchInv, [DigestNext]_digestVars
    PROVE  MatchInv'
<1>1. ASSUME NEW s \in Schedulers, SchedulerStep(s) PROVE MatchInv'
  <2>1. CASE FindDue(s) \/ BeginBuild(s) \/ CommitEmpty(s) \/ Enqueue(s)
    BY <2>1, OnceElsewhere
       DEF FindDue, BeginBuild, CommitEmpty, Enqueue, table, history, MatchInv
  <2> QED
    BY <1>1, <2>1, OnceLock, OnceCommit DEF SchedulerStep
<1>2. CASE Tick \/ UNCHANGED digestVars
  BY <1>2, OnceElsewhere DEF Tick, digestVars, table, local, history, MatchInv
<1> QED
  BY <1>1, <1>2, OnceMatch, OnceCrash DEF DigestNext

\* "Safe under concurrent schedulers": a match is in one digest, for any number of
\* schedulers, rows, failures and matches of each signal (BuildDigestDelivery).
THEOREM InOneDigest == DigestSpec => []NotTwice
<1>1. MatchInv /\ [DigestNext]_digestVars => MatchInv'
  BY OnceStep
<1>2. MatchInv => NotTwice
  BY DEF MatchInv
<1> QED
  BY <1>1, <1>2, OnceStart, PTL DEF DigestSpec

\* Nor is a match lost: what no digest has is still queued, whatever fails or is rolled
\* back between the SELECT that locks the rows and the commit that deletes them, until a
\* signal that names a digest is matched again.
THEOREM QueuedUntilDigested == DigestSpec => []NothingLost
<1>1. MatchInv /\ [DigestNext]_digestVars => MatchInv'
  BY OnceStep
<1>2. MatchInv => NothingLost
  BY DEF MatchInv
<1> QED
  BY <1>1, <1>2, OnceStart, PTL DEF DigestSpec
=============================================================================
