------------------------------ MODULE Matching ------------------------------
(***************************************************************************)
(* Which signals a subscription's filter admits: matchesFilter of          *)
(* pipeline/deliver.go, over the fields of db.SignalForMatch.              *)
(*                                                                         *)
(* An optional field (a Go pointer) and a list are sets, empty if unset.   *)
(* A taxonomy code is its domain and its leaf.  Fold takes a name to its   *)
(* lower case; a text is the set of the lower-case strings in it.          *)
(***************************************************************************)
EXTENDS Integers

CONSTANT Fold(_)

NoName == ""
NoLeaf == ""    \* the code of a domain itself

\* A level that the map does not know ranks as the lowest.
RankIn(ranks, level) == IF level \in DOMAIN ranks THEN ranks[level] ELSE 0
severityRank == [LOW |-> 0, MEDIUM |-> 1, HIGH |-> 2, CRITICAL |-> 3]
influenceRank == [LOW |-> 0, MEDIUM |-> 1, HIGH |-> 2]

\* Contains and containsFold, for a signal's optional value or its list.
Hits(list, values) == list \cap values # {}
HitsFold(list, values) == \E x \in list : \E v \in values : Fold(x) = Fold(v)

\* A code matches itself, and a leaf its domain.
Under(code, want) ==
    code = want \/ (want.leaf = NoLeaf /\ code.leaf # NoLeaf /\ code.domain = want.domain)

InText(keyword, s) == Fold(keyword) \in s.title \cup s.summary

\* Every part of the filter that is set narrows the match.
Matches(f, s) ==
    /\ \A m \in f.minConfidence : s.confidence >= m
    /\ \A m \in f.minRelevance : \E r \in s.relevance : r >= m
    /\ \A m \in f.minSeverity : RankIn(severityRank, s.severity) >= RankIn(severityRank, m)
    /\ \A m \in f.minInfluence :
          \E i \in s.influence : RankIn(influenceRank, i) >= RankIn(influenceRank, m)
    /\ f.countries # {} => Hits(f.countries, s.country)
    /\ f.regions # {} => HitsFold(f.regions, s.region)
    /\ f.sentiment # {} => HitsFold(f.sentiment, s.sentiment)
    /\ f.tags # {} => \E code \in s.tags : \E want \in f.tags : Under(code, want)
    /\ f.entities # {} => HitsFold(f.entities, s.entities)
    /\ \A k \in f.keyword : InText(k, s)

Fields == {"minConfidence", "minRelevance", "minSeverity", "minInfluence", "countries",
           "regions", "sentiment", "tags", "entities", "keyword"}
Lists == {"countries", "regions", "sentiment", "tags", "entities"}
Everything == [x \in Fields |-> {}]

\* MatchSubscriptions decodes the stored filter and drops the error.  encoding/json allocates
\* a pointer before it finds that the value has the wrong type, so a bound of the wrong type is
\* a bound of zero and not an unset one; a list or a keyword of the wrong type stays unset, and
\* an element of a list that is no string is the empty string.  What is no JSON object decodes
\* as Everything.
Zero(x) == IF x \in {"minConfidence", "minRelevance"} THEN {0}
           ELSE IF x \in {"minSeverity", "minInfluence"} THEN {NoName} ELSE {}
Blank(x) == IF x = "tags" THEN [domain |-> NoName, leaf |-> NoLeaf] ELSE NoName
Decoded(filter, wrong, holes) ==
    [x \in Fields |-> IF x \in wrong THEN Zero(x)
                      ELSE IF x \in holes THEN filter[x] \cup {Blank(x)} ELSE filter[x]]

\* The subscriptions for which a signal gets a delivery or a digest item.
MatchedSubscriptions(subs, signal) ==
    {id \in DOMAIN subs : subs[id].enabled /\
        Matches(Decoded(subs[id].filter, subs[id].wrong, subs[id].holes), signal)}
-----------------------------------------------------------------------------
\* g asks at least for what f asks for: no bound is lower, no list that f has is missing or
\* admits more, and f's keyword is g's.
Stricter(g, f) ==
    /\ \A x \in {"minConfidence", "minRelevance"} : \A m \in f[x] : \E n \in g[x] : n >= m
    /\ \A m \in f.minSeverity : \E n \in g.minSeverity :
          RankIn(severityRank, n) >= RankIn(severityRank, m)
    /\ \A m \in f.minInfluence : \E n \in g.minInfluence :
          RankIn(influenceRank, n) >= RankIn(influenceRank, m)
    /\ \A x \in {"countries", "regions", "sentiment", "entities"} :
          f[x] # {} => g[x] # {} /\ g[x] \subseteq f[x]
    /\ f.tags # {} => g.tags # {} /\ \A want \in g.tags : \E wide \in f.tags : Under(want, wide)
    /\ f.keyword \subseteq g.keyword

\* What becomes of a filter f of which some fields are wrong: they ask for nothing, but for a
\* relevance and an influence to be there, and a list of nothing but holes admits no signal.
Understood(f, wrong, holes, s) ==
    /\ Matches([x \in Fields |-> IF x \in wrong THEN {} ELSE f[x]], s)
    /\ "minRelevance" \in wrong => s.relevance # {}
    /\ "minInfluence" \in wrong => s.influence # {}
    /\ \A x \in holes \ wrong : f[x] # {}

\* The types of a decoded filter and of a signal.
IsFilter(f) ==
    /\ DOMAIN f = Fields
    /\ f.minConfidence \subseteq Int /\ f.minRelevance \subseteq Int
IsSignal(s) == s.confidence \in Int /\ s.relevance \subseteq Int

\* A signal as the pipeline writes it: its shares are at least 0 and no name of it is empty.
IsPlausible(s) ==
    /\ s.confidence \in Nat /\ s.relevance \subseteq Nat
    /\ NoName \notin s.country
    /\ \A v \in s.region \cup s.sentiment \cup s.entities : Fold(v) # Fold(NoName)
    /\ \A code \in s.tags : code.domain # NoName
=============================================================================
