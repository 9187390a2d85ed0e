---------------------------- MODULE MCRelevance ----------------------------
(* Checks of filters and feeds over small tables of signals. *)
EXTENDS Relevance, TLC

MCFold(name) == IF name = "us" THEN "US" ELSE name
MCTrim(name) == IF name = "win " THEN "win" ELSE IF name = " " THEN "" ELSE name
MCRecency(age) == IF age <= 1 THEN 98 ELSE 30

Quake == [domain |-> "DISASTER", leaf |-> "EARTHQUAKE"]
Disaster == [domain |-> "DISASTER", leaf |-> NoLeaf]
Sports == [domain |-> "SPORTS", leaf |-> "OTHER"]

Plain == [title |-> {"win"}, summary |-> {}, across |-> {"win big"}, tags |-> {Sports}, eventType |-> {Sports},
          country |-> {}, region |-> {}, sentiment |-> {}, entities |-> {},
          severity |-> "LOW", influence |-> {}, relevance |-> {50}, confidence |-> 40, age |-> 0]
Stories ==
    {Plain, [Plain EXCEPT !.region = {"Ohio"}],
     [Plain EXCEPT !.tags = {Quake}, !.eventType = {Quake}, !.country = {"US"}, !.severity = "HIGH"],
     [Plain EXCEPT !.tags = {Quake, Sports}, !.entities = {"ACME"}, !.influence = {"CRITICAL"}],
     [Plain EXCEPT !.country = {"US"}, !.sentiment = {"NEGATIVE"}, !.relevance = {}, !.title = {"US"}]}
\* Tables of up to three signals, the latest first.
Tables == {t \in UNION {[1..n -> {[s EXCEPT !.age = a] : s \in Stories, a \in {1, 4}}] : n \in 0..3} :
              \A i, j \in DOMAIN t : i < j => t[i].age <= t[j].age}

Key(dim, value) == [dim |-> dim, value |-> value]
Weights == {[k \in {} |-> 0],
            Key("tag", Disaster) :> 2000 @@ Key("country", "us") :> 500,
            Key("tag", Sports) :> -1000 @@ Key("entity", "ACME") :> 1000 @@ Key("", "ACME") :> 9000}
Subscriptions == {[interests |-> w, filter |-> [Everything EXCEPT !.keyword = k], wrong |-> x, holes |-> {}] :
                     w \in Weights, k \in {{}, {"win "}, {"win big"}, {" "}}, x \in {{}, {"keyword"}}}

Filters ==
    {[Everything EXCEPT !.minConfidence = c, !.minInfluence = i, !.countries = n, !.tags = t] :
        c \in {{}, {30}, {50}}, i \in {{}, {"LOW"}, {"HIGH"}, {"CRITICAL"}},
        n \in {{}, {"US"}, {"us"}, {"US", "us"}}, t \in {{}, {Quake}, {Disaster}, {Quake, Sports}}}
-----------------------------------------------------------------------------
\* What DigestProofs proves, here on a few filters.
ASSUME NarrowedFilters ==
    \A f, g \in Filters : Stricter(g, f) => \A s \in Stories : Matches(g, s) => Matches(f, s)

ASSUME DecodedFilters ==
    \A f \in Filters, s \in Stories :
        \A wrong \in SUBSET {"minConfidence", "minRelevance", "minInfluence", "countries"},
           holes \in SUBSET {"countries", "tags"} :
            IsPlausible(s) /\
            (Matches(Decoded(f, wrong, holes), s) <=> Understood(f, wrong, holes, s))

\* A feed is the best of what is recent: of the signals of the pool that score enough, none
\* that is left out scores more than one that is shown, and none is left out for want of room.
ASSUME FeedIsTheBest ==
    \A sub \in Subscriptions, table \in Tables, limit \in 0..2, minScore \in {0, 50000} :
        LET feed == SubscriptionFeed(sub, table, 3, limit, minScore)
            p == LoadProfile(sub)
            good == {i \in DOMAIN table : table[i].age <= 3 /\ Score(p, table[i]) >= minScore}
            shown == Len(feed)
        IN /\ shown = (IF Cardinality(good) < ClampLimit(limit) THEN Cardinality(good)
                       ELSE ClampLimit(limit))
           /\ \E pick \in [1..shown -> good] :
                 /\ \A n \in 1..shown : feed[n] = table[pick[n]]
                 /\ \A n, m \in 1..shown : n < m =>
                       \/ Score(p, feed[n]) > Score(p, feed[m])
                       \/ Score(p, feed[n]) = Score(p, feed[m]) /\ pick[n] < pick[m]
                 /\ \A i \in good \ {pick[n] : n \in 1..shown} : \A n \in 1..shown :
                       Score(p, feed[n]) >= Score(p, table[i])

\* An interest and a filter of one dimension agree on a signal whose names are spelled as the
\* dictionary spells them; only the filter tells "us" from "US".
ASSUME InterestAgreesWithFilter ==
    \A s \in Stories :
        /\ \A code \in {Quake, Disaster, Sports} :
              InterestMatches(Key("tag", code), s) <=> Matches([Everything EXCEPT !.tags = {code}], s)
        /\ InterestMatches(Key("country", "US"), s)
              <=> Matches([Everything EXCEPT !.countries = {"US"}], s)
        /\ Matches([Everything EXCEPT !.countries = {"us"}], s) => InterestMatches(Key("country", "US"), s)

\* The hypotheses of DigestProofs!InterestDominates on the parts of a score.
ASSUME PartsOfScore ==
    \A s \in Stories : Quality(s) \in 0..1000 /\
        \A sub \in Subscriptions : InterestScore(LoadProfile(sub), s) \in Int
=============================================================================
