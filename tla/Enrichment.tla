----------------------------- MODULE Enrichment -----------------------------
(***************************************************************************)
(* What a signal's enrichment makes of its articles: the classifier and    *)
(* the language model's answers (llm/enrich.go, llm/gateway.go), the       *)
(* attributes in the terms of the dictionary (attributes/attributes.go,    *)
(* llm/attributes.go), the update of the row (pipeline/enrich_signal.go,   *)
(* db/enrich.go), and the profile drafted from a document                  *)
(* (llm/profile.go), which is matched against such signals.                *)
(*                                                                         *)
(* An optional value is a set, empty if it is missing.  An answer is one   *)
(* of Unusable (no key, no connection, no JSON) or a record of optional    *)
(* values.  A text is a record of what the scans find in it: per leaf the  *)
(* number of its keywords, an alarming word, the industries, the names.    *)
(***************************************************************************)
EXTENDS Relevance

CONSTANTS
    LeafTags,       \* the leaves of the taxonomy, in its order
    Vocabulary,     \* per attribute: the sequence of its values, [code, names]
    Countries,      \* per name or code of a country, its case folded: its code
    Languages       \* the codes of two letters

FallbackCode == [domain |-> "GENERAL", leaf |-> "OTHER"]
Domain(code) == [domain |-> code.domain, leaf |-> NoLeaf]
Leaves == {LeafTags[i] : i \in DOMAIN LeafTags}
ValidCodes == Leaves \cup {Domain(code) : code \in Leaves}

ASSUME EnrichmentAssumption == FallbackCode \in Leaves

Unusable == [error |-> TRUE]
OrElse(optional, default) == IF optional = {} THEN default ELSE CHOOSE v \in optional : TRUE
Tag(code, confidence) == [code |-> code, confidence |-> confidence]
-----------------------------------------------------------------------------
(* Categories and the narrative *)

IsOtherLeaf(code) == code.leaf = "OTHER" /\ code # FallbackCode

\* A catch-all stays below every specific leaf.
Capped(n, cap) == IF n > cap THEN cap ELSE n
LeafConfidence(code, hits) ==
    IF IsOtherLeaf(code) THEN Capped(45 + 3 * hits, 60) ELSE Capped(65 + 12 * hits, 95)

\* The three best leaves; a domain's catch-all only if none of its others was found.
ClassifyText(text) ==
    LET found == SelectSeq(LeafTags, LAMBDA code : text.hits[code] > 0)
        scored == StableDesc([i \in DOMAIN found |->
                                 Tag(found[i], LeafConfidence(found[i], text.hits[found[i]]))],
                             LAMBDA t : t.confidence)
        specific == {scored[i].code.domain : i \in {j \in DOMAIN scored : ~IsOtherLeaf(scored[j].code)}}
        kept == SelectSeq(scored, LAMBDA t : ~(IsOtherLeaf(t.code) /\ t.code.domain \in specific))
    IN IF kept = <<>> THEN <<Tag(FallbackCode, 30)>> ELSE First(kept, 3)

Heuristic(text) ==
    [title |-> text.title, severity |-> IF text.alarming THEN "HIGH" ELSE "MEDIUM",
     confidence |-> 45, tags |-> ClassifyText(text), language |-> {}, source |-> "heuristic"]

\* runLLM: an answer without a title or summary, or with a severity or confidence out of
\* range, is none.
Acceptable(answer) ==
    /\ answer # Unusable
    /\ answer.title # {} /\ answer.summary # {}
    /\ answer.severity \subseteq DOMAIN severityRank
    /\ answer.confidence \subseteq 0..100

AnsweredTags(answer) ==
    LET valid == SelectSeq(answer.tags, LAMBDA t : t.code \in ValidCodes)
    IN IF valid = <<>> THEN <<Tag(FallbackCode, 40)>> ELSE First(valid, 3)

\* An answered language is the sequence of its subtags; the first one, if it has two letters.
NormalizeLang(optional) == {Fold(tag[1]) : tag \in optional} \cap Languages

RunLLM(answer, text) ==
    [title |-> IF answer.title = {""} THEN text.title ELSE OrElse(answer.title, ""),
     severity |-> OrElse(answer.severity, "MEDIUM"),
     confidence |-> OrElse(answer.confidence, 60),
     tags |-> AnsweredTags(answer), language |-> NormalizeLang(answer.language), source |-> "llm"]

EnrichArticle(answer, text) ==
    IF Acceptable(answer) THEN RunLLM(answer, text) ELSE Heuristic(text)

Translated(enr) == enr.language \ {"en"} # {}
-----------------------------------------------------------------------------
(* Attributes *)

\* The last value that lists a name has it.
Named(key, name) == {i \in DOMAIN Vocabulary[key] : name \in Vocabulary[key][i].names}
Normalize(key, raw) ==
    IF Named(key, Fold(raw)) = {} THEN {}
    ELSE {Vocabulary[key][CHOOSE i \in Named(key, Fold(raw)) :
                             \A j \in Named(key, Fold(raw)) : j <= i].code}
NormEnum(key, optional) == UNION {Normalize(key, raw) : raw \in optional}
NormalizeCountry(optional) == {Countries[Fold(raw)] : raw \in {x \in optional : Fold(x) \in DOMAIN Countries}}

ClampScalar(n, low, high) == IF n < low THEN low ELSE IF n > high THEN high ELSE n

\* The type of an entity that the dictionary does not know is OTHER.
NormEntity(e) == [name |-> e.name, type |-> OrElse(NormEnum("entityType", e.type), "OTHER")]
SameEntity(d, e) == Fold(d.name) = Fold(e.name) /\ NormEntity(d).type = NormEntity(e).type
NormEntities(raw) ==
    LET new == {i \in DOMAIN raw : raw[i].name # "" /\ ~\E j \in 1..(i - 1) : SameEntity(raw[i], raw[j])}
    IN {NormEntity(raw[i]) : i \in new}

RunAttrLLM(answer) ==
    [country |-> NormalizeCountry(answer.country), region |-> answer.region \ {""},
     sentiment |-> NormEnum("sentiment", answer.sentiment),
     influence |-> NormEnum("influence", answer.influence),
     score |-> ClampScalar(OrElse(answer.score, 0), -100, 100),
     relevance |-> ClampScalar(OrElse(answer.relevance, 50), 0, 100),
     industries |-> NormEnum("industry", answer.industries),
     entities |-> NormEntities(answer.entities)]

HeuristicAttributes(text) ==
    [country |-> {}, region |-> {},
     sentiment |-> {IF text.alarming THEN "NEGATIVE" ELSE "NEUTRAL"},
     influence |-> IF text.alarming THEN {"HIGH"} ELSE {},
     score |-> IF text.alarming THEN -40 ELSE 0,
     relevance |-> 50, industries |-> text.industries, entities |-> {}]

ExtractAttributes(answer, text) ==
    IF answer = Unusable THEN HeuristicAttributes(text) ELSE RunAttrLLM(answer)
-----------------------------------------------------------------------------
(* The row of a signal *)

\* pickRepresentative: of the links, in the order they were added, the first PRIMARY one,
\* else the first of those with the longest body.
Representative(links) ==
    LET primary == {i \in DOMAIN links : links[i].primary}
        longest == {i \in DOMAIN links : \A j \in DOMAIN links : links[j].length <= links[i].length}
        from == IF primary # {} THEN primary ELSE longest
    IN links[CHOOSE i \in from : \A j \in from : i <= j]

DistinctSources(links) == Cardinality({links[i].source : i \in DOMAIN links})
Status(links) ==
    LET n == DistinctSources(links)
    IN IF n >= 3 THEN "CONFIRMED" ELSE IF n = 2 THEN "DEVELOPING" ELSE "UNVERIFIED"

\* In thousandths: 0.4, 0.3 and 0.3 of the article's, of five sources, and of their credibility.
Credibility(links) ==
    MapThenSumSet(LAMBDA i : links[i].credibility, DOMAIN links) \div Len(links)
Confidence(enr, links) ==
    ClampScalar(4 * enr.confidence + 60 * Capped(DistinctSources(links), 5)
                + 3 * Credibility(links), 0, 1000)

BuildAttributeRows(enr, attrs) ==
    {[key |-> "category", tag |-> enr.tags[i].code] : i \in DOMAIN enr.tags}
    \cup {[key |-> "industry", code |-> c] : c \in attrs.industries}
    \cup {[key |-> "entity", code |-> e.type, name |-> e.name] : e \in attrs.entities}

\* ApplyEnrichment: a column of which nothing was detected keeps its value; the score and the
\* relevance always come; tags and attributes are replaced.
Kept(old, new) == IF new = {} THEN old ELSE new
EnrichSignal(row, links, answer, attrAnswer) ==
    LET text == Representative(links).text
        enr == EnrichArticle(answer, text)
        attrs == ExtractAttributes(attrAnswer, text)
    IN [title |-> enr.title, severity |-> enr.severity,
        confidence |-> Confidence(enr, links), status |-> Status(links),
        eventType |-> {enr.tags[1].code},
        country |-> Kept(row.country, attrs.country),
        region |-> Kept(row.region, attrs.region),
        sentiment |-> Kept(row.sentiment, attrs.sentiment),
        influence |-> Kept(row.influence, attrs.influence),
        language |-> Kept(row.language, enr.language),
        score |-> {attrs.score}, relevance |-> {attrs.relevance},
        original |-> IF Translated(enr) THEN {text.title} ELSE {},
        tags |-> {enr.tags[i].code : i \in DOMAIN enr.tags},
        attributes |-> BuildAttributeRows(enr, attrs)]

\* sourcetool recategorize: of a signal that was in the GENERAL domain or in none when the
\* signals were listed.  A code that comes twice violates the rows' key, and the transaction
\* is undone.
Uncategorized(row) == \A code \in row.eventType : code.domain = "GENERAL"
Repeats(tags) == \E i, j \in DOMAIN tags : i # j /\ tags[i].code = tags[j].code
SetSignalCategory(row, tags) ==
    IF Repeats(tags) THEN row
    ELSE [row EXCEPT !.eventType = {tags[1].code},
                     !.attributes = {x \in @ : x.key # "category"}
                         \cup {[key |-> "category", tag |-> tags[i].code] : i \in DOMAIN tags}]
Recategorize(listed, row, tags) ==
    IF Uncategorized(listed) /\ tags[1].code # FallbackCode THEN SetSignalCategory(row, tags) ELSE row
-----------------------------------------------------------------------------
(* A profile from a document *)

Interest(dim, value) == [dim |-> dim, value |-> value]

\* A key of another dimension, or a code or sentiment that does not exist, is dropped.
ValidInterestKey(key) ==
    \/ key.dim \in {"entity", "country", "keyword"}
    \/ key.dim = "sentiment" /\ key.value \in {"POSITIVE", "NEGATIVE", "NEUTRAL"}
    \/ key.dim = "tag" /\ key.value \in ValidCodes

DraftLLM(answer) ==
    LET usable == {k \in DOMAIN answer.interests : ValidInterestKey(k) /\ answer.interests[k] > 0}
    IN [interests |-> [k \in usable |-> Capped(answer.interests[k], 5000)],
        minScore |-> OrElse({n \in answer.minScore : n \in 0..100}, 65),
        minSeverity |-> OrElse(answer.minSeverity \cap DOMAIN severityRank, "MEDIUM"),
        reasons |-> answer.reasons \cap usable]

\* The domains of the best tags weigh 4, 3 and 2, the four most frequent names 5 to 2.
DraftHeuristic(text) ==
    LET tags == ClassifyText(text)
        topics == {i \in DOMAIN tags : tags[i].code # FallbackCode}
        topic(i) == Interest("tag", Domain(tags[i].code))
        first(k) == CHOOSE i \in topics : topic(i) = k /\ \A j \in topics : topic(j) = k => i <= j
        names == First(text.names, 4)
        interests == [k \in {topic(i) : i \in topics}
                            \cup {Interest("entity", names[i]) : i \in DOMAIN names} |->
                        IF k.dim = "tag" THEN 1000 * (5 - first(k))
                        ELSE 1000 * (6 - CHOOSE i \in DOMAIN names : names[i] = k.value)]
    IN [interests |-> interests, minScore |-> 60, minSeverity |-> "MEDIUM",
        reasons |-> DOMAIN interests]

DraftProfileFromDocument(answer, text) ==
    IF answer # Unusable /\ DOMAIN DraftLLM(answer).interests # {} THEN DraftLLM(answer)
    ELSE DraftHeuristic(text)
=============================================================================
