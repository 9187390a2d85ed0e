------------------------------ MODULE MCIngest ------------------------------
(* Instances of Ingest for TLC, with the content of the items, and checks of Similarity. *)
EXTENDS Ingest, Similarity, TLC

CONSTANTS a, b, c, d, e, f

MCAscii(word) == CASE word = "Quake" -> "quake" [] word = "hi:quake" -> Nothing [] word = "hi:flood" -> Nothing
                   [] OTHER -> word
MCLower(name) == IF name = "WWW" THEN "www" ELSE IF name = "HTTP" THEN "http" ELSE name
MCDefaultPort(scheme) == CASE scheme = "http" -> "80" [] scheme = "https" -> "443" [] OTHER -> "none"
MCMinor == {"the", "in"}

Link(host, path) ==
    [scheme |-> "http", host |-> host, port |-> NoPort, path |-> path, slashes |-> 0,
     query |-> {}, user |-> "", fragment |-> ""]
Param(name) == [name |-> name, value |-> "x"]

\* a, b and d are one page under three links; b and c tell the same story, a and c do not; c, e
\* and f are three reports of one.
Pool == {a, b, c, d, e, f}
MCTitle(i) == CASE i = a -> <<"Quake", "hits", "ohio">> [] i = b -> <<"the", "quake", "hits", "reno">>
                [] i = c -> <<"hits", "in", "reno", "hotel">> [] i = d -> <<"quake", "alarm">>
                [] i = e -> <<"fire", "hits", "reno", "hotel">>
                [] i = f -> <<"dead", "hits", "in", "reno", "hotel">>
MCLink(i) ==
    CASE i = a -> [Link(<<"WWW", "news", "org">>, <<"quake">>) EXCEPT !.query = {Param("utm_source")}]
      [] i = b -> [Link(<<"news", "org">>, <<"quake">>) EXCEPT !.slashes = 1, !.port = "80"]
      [] i = c -> Link(<<"reno", "org">>, <<"hotel">>)
      [] i = d -> [Link(<<"news", "org">>, <<"quake">>) EXCEPT !.fragment = "top"]
      [] i = e -> Link(<<"reno", "org">>, <<"fire">>)
      [] i = f -> Link(<<"reno", "org">>, <<"dead">>)

\* FindDuplicateArticle, and a score of ClusterArticle that suffices.
SamePairs ==
    {<<i, j>> \in Pool \X Pool :
        ContentHash(MCTitle(i), <<>>) = ContentHash(MCTitle(j), <<>>)
        \/ Canonicalize(MCLink(i)) = Canonicalize(MCLink(j))}
AlikePairs ==
    {<<i, j>> \in Pool \X Pool :
        SimilarEnough(Jaccard(TokenSet(MCTitle(i)), TokenSet(MCTitle(j))))}
MCSame(i, j) == <<i, j>> \in SamePairs
MCAlike(i, j) == <<i, j>> \in AlikePairs

MCSymmetry == Permutations(Workers)

\* Which items are met together: a page with another story (a, b, c), fetched twice when there are
\* two of them; one page under three links (a, b, d); three reports of one story (c, e, f).
Served == {i \in Items : raw[i] # "none"} \cup UNION {run[w].left : w \in Workers}
MCContents ==
    \/ Served \subseteq {a, b, c} /\ (fetches <= 1 \/ Cardinality(Served) <= 2)
    \/ fetches <= 1 /\ (Served \subseteq {a, b, d} \/ Served \subseteq {c, e, f})
-----------------------------------------------------------------------------
\* The content is what the runs are about.
ASSUME Contents ==
    LET self == {<<i, i>> : i \in Pool}
        both(i, j) == {<<i, j>>, <<j, i>>}
    IN /\ SamePairs = self \cup both(a, b) \cup both(a, d) \cup both(b, d)
       /\ AlikePairs = self \cup both(a, b) \cup both(b, c) \cup both(c, e) \cup both(c, f) \cup both(e, f)

\* An article joins the latest of the signals that are most like it, if any is enough, and the
\* scan for the highest score finds one whenever there are candidates.
Words == SUBSET {"quake", "hits", "ohio", "reno"}
ASSUME BestIsMostAlike ==
    \A tokens \in Words : \A candidates \in UNION {[1..n -> Words] : n \in 0..2} :
        /\ Cardinality(Best(tokens, candidates)) = IF candidates = <<>> THEN 0 ELSE 1
        /\ (\E i \in DOMAIN candidates : SimilarEnough(Jaccard(tokens, candidates[i])))
              <=> Attached(tokens, candidates) # {}

\* What no token is left of cannot be told apart: two articles in another script have the same
\* content hash, and neither is like anything, itself included.
ASSUME UnreadableCollide ==
    LET quake == <<"hi:quake">>  flood == <<"hi:flood">>
    IN /\ quake # flood /\ ContentHash(quake, <<>>) = ContentHash(flood, <<>>)
       /\ ~SimilarEnough(Jaccard(TokenSet(quake), TokenSet(quake)))

\* Google's link for feeds and the one for browsers are the same page; of www.www. one is kept.
ASSUME LinksMeet ==
    LET feed == Link(GoogleNews, <<"rss", "articles", "x">>)
        twice == Link(<<"www", "www", "org">>, <<>>)
    IN /\ Canonicalize(feed) = Canonicalize(Link(<<"www">> \o GoogleNews, <<"articles", "x">>))
       /\ Canonicalize(Canonicalize(twice)) # Canonicalize(twice)
=============================================================================
