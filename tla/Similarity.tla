----------------------------- MODULE Similarity -----------------------------
(***************************************************************************)
(* When two articles are the same: the content hash, the similarity of     *)
(* token sets (textutil/textutil.go) and the signal it attaches an article *)
(* to (pipeline/cluster.go), the canonical form of a URL                   *)
(* (urlutil/urlutil.go).                                                   *)
(*                                                                         *)
(* A text is a sequence of words; Ascii(w) is the token that NormalizeText *)
(* leaves of one, Nothing if w has no letter in a-z and no digit.  A       *)
(* similarity is the fraction over / under, a URL a record of its parts.   *)
(***************************************************************************)
EXTENDS Integers, Sequences, FiniteSets

CONSTANTS
    Ascii(_), Nothing,
    Minor,          \* tokens of two letters or less, and stop words
    HashCap,        \* tokens of a body that the hash sees
    Lower(_),
    DefaultPort(_), \* of a scheme
    TrackingParams

NormalizeText(text) ==
    SelectSeq([i \in DOMAIN text |-> Ascii(text[i])], LAMBDA token : token # Nothing)

TokenSet(text) ==
    LET tokens == NormalizeText(text) IN {tokens[i] : i \in DOMAIN tokens} \ Minor

\* A hash stands for what is hashed.
ContentHash(title, body) ==
    LET tokens == NormalizeText(body)
    IN <<NormalizeText(title),
         SubSeq(tokens, 1, IF Len(tokens) < HashCap THEN Len(tokens) ELSE HashCap)>>

Jaccard(a, b) ==
    LET inter == Cardinality(a \cap b)
    IN IF a = {} \/ b = {} THEN [over |-> 0, under |-> 1]
       ELSE [over |-> inter, under |-> Cardinality(a) + Cardinality(b) - inter]

More(p, q) == p.over * q.under > q.over * p.under
SimilarEnough(p) == 2 * p.over >= p.under

\* The first of the candidates, the latest first, of which none is more alike; an article that
\* is not alike enough becomes a signal of its own.
Best(tokens, candidates) ==
    {i \in DOMAIN candidates :
        /\ \A j \in DOMAIN candidates : ~More(Jaccard(tokens, candidates[j]), Jaccard(tokens, candidates[i]))
        /\ \A j \in DOMAIN candidates : j < i =>
              More(Jaccard(tokens, candidates[i]), Jaccard(tokens, candidates[j]))}
Attached(tokens, candidates) ==
    {i \in Best(tokens, candidates) : SimilarEnough(Jaccard(tokens, candidates[i]))}
-----------------------------------------------------------------------------
Www == "www"
GoogleNews == <<"news", "google", "com">>
NoPort == ""

HostOf(u) ==
    LET host == [i \in DOMAIN u.host |-> Lower(u.host[i])]
    IN IF Len(host) > 1 /\ host[1] = Www THEN Tail(host) ELSE host
PortOf(u) == IF u.port = DefaultPort(Lower(u.scheme)) THEN NoPort ELSE u.port

\* Google's feeds link to /rss/articles/x what a browser finds at /articles/x.
FeedOnly(host, path) ==
    host = GoogleNews /\ Len(path) > 2 /\ path[1] = "rss" /\ path[2] = "articles"
PathOf(u) == IF FeedOnly(HostOf(u), u.path) THEN Tail(u.path) ELSE u.path

\* What has no scheme or host stays as it is; slashes at the end, user and fragment go.
Canonicalize(u) ==
    IF u.host = <<>> \/ u.scheme = "" THEN u
    ELSE [scheme |-> Lower(u.scheme), host |-> HostOf(u), port |-> PortOf(u),
          path |-> PathOf(u), slashes |-> 0, query |-> {q \in u.query : q.name \notin TrackingParams},
          user |-> "", fragment |-> ""]
=============================================================================
