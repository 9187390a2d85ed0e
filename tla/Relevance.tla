----------------------------- MODULE Relevance -----------------------------
(***************************************************************************)
(* The ranked feed of a subscription: the score of relevance/relevance.go, *)
(* the candidates and pages of db/relevance.go and of the feed's handlers  *)
(* (httpapi/relevance_routes.go, httpapi/relevance_resolvers.go).          *)
(*                                                                         *)
(* Weights are thousandths, relevance and confidence per cent; Recency is  *)
(* the decay of a score with a signal's age, in per cent.                  *)
(***************************************************************************)
EXTENDS Matching, Sequences, FiniteSetsExt

CONSTANTS
    Recency(_),
    Trim(_),                    \* strings.TrimSpace
    DefaultPage, PageCap,       \* clampLimit
    PoolFloor, PoolCap,         \* maxCandidates
    DefaultPool, CandidateCap,  \* CandidateSignals
    DefaultHours

ASSUME RelevanceAssumption ==
    /\ \A x \in {DefaultPage, PageCap, PoolFloor, PoolCap, DefaultPool, CandidateCap,
                 DefaultHours} : x \in Nat \ {0}
    /\ DefaultPage <= PageCap
    /\ PoolFloor <= PoolCap /\ PoolCap <= CandidateCap /\ DefaultPool <= CandidateCap
    /\ 3 * PageCap <= PoolCap    \* the largest page has a pool to choose from
-----------------------------------------------------------------------------
(* Score *)

FoldCode(code) == [domain |-> Fold(code.domain), leaf |-> Fold(code.leaf)]

\* An interest is [dim, value]; one of an unknown or empty dimension matches nothing.
InterestMatches(key, s) ==
    \/ /\ key.dim = "tag"
       /\ \E code \in s.tags \cup s.eventType : Under(FoldCode(code), FoldCode(key.value))
    \/ key.dim = "country" /\ HitsFold({key.value}, s.country)
    \/ key.dim = "region" /\ HitsFold({key.value}, s.region)
    \/ key.dim = "sentiment" /\ HitsFold({key.value}, s.sentiment)
    \/ key.dim = "entity" /\ HitsFold({key.value}, s.entities)

\* A keyword is trimmed, one that is then empty is skipped, and it is looked for in the title
\* and the summary joined by a space: s.across are the strings that span the joint.
Searched(keyword, s) ==
    LET word == Fold(Trim(keyword))
    IN word # "" /\ word \in s.title \cup s.summary \cup s.across

\* Why a signal ranks: the interests of some weight and the keywords that it matches.
Reasons(p, s) ==
    [interests |-> {k \in DOMAIN p.interests : p.interests[k] # 0 /\ InterestMatches(k, s)},
     keywords |-> {k \in p.keywords : Searched(k, s)}]

InterestScore(p, s) ==
    LET reasons == Reasons(p, s)
    IN MapThenSumSet(LAMBDA k : p.interests[k], reasons.interests)
       + 1000 * Cardinality(reasons.keywords)

\* In quarters; an unknown level counts nothing.
rankValue == [LOW |-> 1, MEDIUM |-> 2, HIGH |-> 3, CRITICAL |-> 4]
LevelValue(levels) == MapThenSumSet(LAMBDA l : RankIn(rankValue, l), levels)
Percent(values) == MapThenSumSet(LAMBDA v : IF v < 0 THEN 0 ELSE IF v > 100 THEN 100 ELSE v, values)

\* Newsworthiness, in thousandths: 0.4, 0.3, 0.2 and 0.1 of its parts.
Quality(s) ==
    100 * LevelValue(s.influence) + 75 * RankIn(rankValue, s.severity)
    + 2 * Percent(s.relevance) + Percent({s.confidence})

Score(p, s) == (2 * InterestScore(p, s) + Quality(s)) * Recency(s.age)

\* sort.SliceStable by a key, the highest first.
StableDesc(seq, key(_)) ==
    LET place(i) == 1 + Cardinality({j \in DOMAIN seq :
                            key(seq[j]) > key(seq[i]) \/ (key(seq[j]) = key(seq[i]) /\ j < i)})
    IN [n \in DOMAIN seq |-> seq[CHOOSE i \in DOMAIN seq : place(i) = n]]

Rank(p, signals) == StableDesc(signals, LAMBDA s : Score(p, s))
-----------------------------------------------------------------------------
(* Candidates and pages.  A table is a sequence of signals, the latest lastSeenAt first. *)

First(seq, n) == SubSeq(seq, 1, IF n < Len(seq) THEN n ELSE Len(seq))

SinceHours(hours) == IF hours <= 0 THEN DefaultHours ELSE hours
CandidateLimit(limit) == IF limit <= 0 \/ limit > CandidateCap THEN DefaultPool ELSE limit
CandidateSignals(table, hours, limit) ==
    First(SelectSeq(table, LAMBDA s : s.age <= SinceHours(hours)), CandidateLimit(limit))

\* A pool wider than the page.
MaxCandidates(limit) ==
    LET pool == limit * 6
    IN IF pool < PoolFloor THEN PoolFloor ELSE IF pool > PoolCap THEN PoolCap ELSE pool

\* LoadProfile decodes the keyword of the filter alone.
LoadProfile(sub) ==
    [interests |-> sub.interests,
     keywords |-> IF "keyword" \in sub.wrong THEN {} ELSE sub.filter.keyword]

RankedFeed(sub, table, hours, limit) ==
    LET ranked == Rank(LoadProfile(sub), CandidateSignals(table, hours, MaxCandidates(limit)))
    IN IF limit > 0 THEN First(ranked, limit) ELSE ranked

ClampLimit(n) == IF n <= 0 THEN DefaultPage ELSE IF n > PageCap THEN PageCap ELSE n

\* resolveSubscriptionFeed: three pages are ranked, those that score too little are left out,
\* and the first page of the others is the answer.
ResolveSubscriptionFeed(sub, table, hours, limit, minScore) ==
    LET page == ClampLimit(limit)
        good(s) == Score(LoadProfile(sub), s) >= minScore
    IN First(SelectSeq(RankedFeed(sub, table, hours, 3 * page), good), page)

\* subscriptionFeed: numbers of the query that are not positive are as if they were not given.
QueryInt(n, default) == IF n > 0 THEN n ELSE default
SubscriptionFeed(sub, table, hours, limit, minScore) ==
    ResolveSubscriptionFeed(sub, table, QueryInt(hours, DefaultHours),
                            QueryInt(limit, DefaultPage), minScore)
=============================================================================
