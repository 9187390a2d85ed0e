---------------------------- MODULE MCEnrichment ----------------------------
(* Checks of enrichment and drafted profiles over a small taxonomy and dictionary. *)
EXTENDS Enrichment, MCRelevance

Flood == [domain |-> "DISASTER", leaf |-> "FLOOD"]
Fire == [domain |-> "DISASTER", leaf |-> "FIRE"]
Disasters == [domain |-> "DISASTER", leaf |-> "OTHER"]
MCLeafTags == <<Quake, Flood, Fire, Disasters, Sports, FallbackCode>>
Terms(code, names) == [code |-> code, names |-> names]
MCVocabulary ==
    [sentiment |-> <<Terms("POSITIVE", {"POSITIVE", "good"}), Terms("NEGATIVE", {"NEGATIVE", "bad"})>>,
     influence |-> <<Terms("HIGH", {"HIGH", "major"}), Terms("CRITICAL", {"CRITICAL"})>>,
     industry |-> <<Terms("ENERGY", {"ENERGY", "oil"}), Terms("MINING", {"MINING", "metals"})>>,
     entityType |-> <<Terms("PERSON", {"PERSON"}), Terms("OTHER", {"OTHER", "misc"})>>]
MCLanguages == {"en", "fr"}
MCCountries == "US" :> "US" @@ "France" :> "FR" @@ "FR" :> "FR"

Text(hits, alarming) ==
    [title |-> "t", hits |-> hits @@ [code \in Leaves |-> 0], alarming |-> alarming,
     industries |-> {"ENERGY"}, names |-> <<"ACME", "Ohio">>]
HitCounts == [{Quake, Flood, Fire, Disasters, Sports} -> {0, 1, 6}]
Texts == {Text(h, FALSE) : h \in HitCounts}
AFewTexts == {Text(Quake :> 1, TRUE), Text(Disasters :> 2 @@ Sports :> 1, FALSE), Text(Quake :> 0, FALSE)}

Answer == [title |-> {"T"}, summary |-> {"S"}, severity |-> {}, confidence |-> {}, tags |-> <<>>,
           language |-> {}]
Answers ==
    {Unusable, Answer, [Answer EXCEPT !.summary = {}], [Answer EXCEPT !.severity = {"FATAL"}],
     [Answer EXCEPT !.confidence = {140}], [Answer EXCEPT !.language = {<<"french">>}], [Answer EXCEPT !.title = {""}, !.language = {<<"fr", "CA">>}],
     [Answer EXCEPT !.tags = <<Tag(Quake, 90), Tag(Quake, 80), Tag([domain |-> "X", leaf |-> "Y"], 99)>>],
     [Answer EXCEPT !.tags = <<Tag(Disaster, 50), Tag(Flood, 90), Tag(Sports, 80), Tag(Fire, 70)>>]}
AttrAnswer == [country |-> {}, region |-> {}, sentiment |-> {}, influence |-> {}, score |-> {},
               relevance |-> {}, industries |-> {}, entities |-> <<>>]
Someone(name, type) == [name |-> name, type |-> type]
AttrAnswers ==
    {Unusable, AttrAnswer,
     [AttrAnswer EXCEPT !.country = {"France"}, !.sentiment = {"bad"}, !.score = {-90},
         !.influence = {"CRITICAL"}],
     [AttrAnswer EXCEPT !.country = {"Atlantis"}, !.sentiment = {"furious"}, !.score = {-700},
         !.industries = {"oil", "metals", "magic"},
         !.entities = <<Someone("US", {"PERSON"}), Someone("us", {"PERSON"}), Someone("ACME", {"firm"})>>]}

Article(source, primary, length, credibility, text) ==
    [source |-> source, primary |-> primary, length |-> length, credibility |-> credibility,
     text |-> text]
LinkLists ==
    {<<Article("s1", p, 3, 100, t), Article(s, FALSE, 5, 100, u), Article("s3", FALSE, 5, c, t)>> :
        p \in BOOLEAN, s \in {"s1", "s2"}, c \in {0, 100}, t, u \in AFewTexts}
Row == [title |-> "t", severity |-> "MEDIUM", confidence |-> 0, status |-> "UNVERIFIED",
        eventType |-> {}, country |-> {}, region |-> {}, sentiment |-> {}, influence |-> {},
        language |-> {}, score |-> {}, relevance |-> {}, original |-> {}, tags |-> {},
        attributes |-> {}]
Enriched == {EnrichSignal(Row, links, x, y) : links \in LinkLists, x \in Answers, y \in AttrAnswers}
Again == {<<r, EnrichSignal(r, <<Article("s1", TRUE, 3, 60, t)>>, x, y)>> :
             r \in Enriched, t \in AFewTexts, x \in {Unusable, Answer}, y \in AttrAnswers}
-----------------------------------------------------------------------------
\* One to three tags, none twice; a catch-all never stands beside a specific leaf of its domain
\* and never before one of any; and the last resort stands alone.
ASSUME SpecificFirst ==
    \A text \in Texts : LET tags == ClassifyText(text) IN
        /\ Len(tags) \in 1..3 /\ ~Repeats(tags)
        /\ \A i, j \in DOMAIN tags : IsOtherLeaf(tags[i].code) /\ ~IsOtherLeaf(tags[j].code) =>
              j < i /\ tags[i].code.domain # tags[j].code.domain
        /\ FallbackCode \in {tags[i].code : i \in DOMAIN tags} <=>
              \A code \in Leaves : text.hits[code] = 0

\* "The result is always dictionary-valid" (llm/attributes.go:48), whatever is answered.
Codes(key) == {Vocabulary[key][i].code : i \in DOMAIN Vocabulary[key]}
ASSUME DictionaryValid ==
    \A r \in Enriched :
        /\ r.tags # {} /\ r.tags \subseteq ValidCodes /\ r.eventType \subseteq r.tags
        /\ r.country \subseteq {"US", "FR"} /\ r.severity \in DOMAIN severityRank
        /\ r.influence \subseteq Codes("influence")
        /\ r.sentiment \subseteq Codes("sentiment") \cup {"NEUTRAL"}
        /\ r.language \subseteq {"fr"} /\ (r.original # {} <=> r.language = {"fr"})
        /\ r.score \subseteq -100..100 /\ r.confidence \in 0..1000
        /\ \A x \in r.attributes :
              \/ x.key = "category" /\ x.tag \in r.tags
              \/ x.key = "industry" /\ x.code \in Codes("industry")
              \/ x.key = "entity" /\ x.code \in Codes("entityType")

\* A later enrichment "never erases" what an earlier one detected (db/enrich.go:222), and the
\* categories are told the same way in all three places.
ASSUME NeverErased ==
    \A pair \in Again : LET before == pair[1] after == pair[2] IN
        /\ \A x \in {"country", "region", "sentiment", "influence", "language"} :
              before[x] # {} => after[x] # {}
        /\ after.tags = {x.tag : x \in {y \in after.attributes : y.key = "category"}}

\* The score is not kept with its sentiment: an answer without either leaves NEGATIVE and 0.
ASSUME ScoreIsErased ==
    \E pair \in Again : /\ pair[1].sentiment = {"NEGATIVE"} /\ pair[1].score = {-90}
                        /\ pair[2].sentiment = {"NEGATIVE"} /\ pair[2].score = {0}

\* Another source as credible as the others never makes a story less certain; one that is not
\* may confirm it and take from its confidence at once.
ConfidenceIn(x, links) == Confidence(EnrichArticle(x, Representative(links).text), links)
ASSUME EqualSourceAddsCertainty ==
    \A links \in {l \in LinkLists : Credibility(l) = 100}, x \in Answers :
        ConfidenceIn(x, links) >= ConfidenceIn(x, First(links, 2))
ASSUME ConfirmedYetLessCertain ==
    \E links \in LinkLists, x \in Answers :
        /\ Status(links) = "CONFIRMED" /\ Status(First(links, 2)) = "DEVELOPING"
        /\ ConfidenceIn(x, links) < ConfidenceIn(x, First(links, 2))

\* Recategorizing keeps industries and entities, and its category is the row's; an answer with
\* a code twice leaves the row as it was, and what the tags say is not changed with it.
ASSUME RecategorizeKeeps ==
    \A r \in {x \in Enriched : Uncategorized(x)}, t \in Texts : LET s == Recategorize(r, r, ClassifyText(t)) IN
        /\ {x \in s.attributes : x.key # "category"} = {x \in r.attributes : x.key # "category"}
        /\ \A code \in s.eventType : [key |-> "category", tag |-> code] \in s.attributes
        /\ s.tags = r.tags
        /\ s = r <=> ClassifyText(t)[1].code = FallbackCode
ASSUME RepeatedIsRefused ==
    \E x \in Answers : x # Unusable /\ Repeats(AnsweredTags(x)) /\ Recategorize(Row, Row, AnsweredTags(x)) = Row

\* What was enriched after the listing is categorized by the older text all the same.
ASSUME EnrichedMeanwhile ==
    \E r \in Enriched, t \in AFewTexts : /\ ~Uncategorized(r) /\ r.eventType = {Quake}
                                         /\ Recategorize(Row, r, ClassifyText(t)).eventType = {Disasters}

\* A drafted profile finds what is about its document: a signal enriched from the same text
\* matches one of its interests, and outscores a plain one of the same age.
Scorable(r) ==
    [Plain EXCEPT !.tags = r.tags, !.eventType = r.eventType, !.severity = r.severity,
                  !.country = r.country, !.sentiment = r.sentiment, !.influence = r.influence]
DraftOf(text) == [interests |-> DraftProfileFromDocument(Unusable, text).interests, keywords |-> {}]
ASSUME DraftFindsItsTopic ==
    \A text \in {t \in Texts : \E code \in Leaves : t.hits[code] > 0} :
        LET signal == Scorable(EnrichSignal(Row, <<Article("s1", TRUE, 3, 60, text)>>, Unusable, Unusable))
        IN InterestScore(DraftOf(text), signal) >= 4000

\* An interest in a keyword, which the draft of the model accepts, matches no signal.
ASSUME KeywordInterestsAreDead ==
    /\ ValidInterestKey(Interest("keyword", "win"))
    /\ \A s \in Stories : ~InterestMatches(Interest("keyword", "win"), s)
=============================================================================
