--------------------------- MODULE FeatureSearch ---------------------------
(***************************************************************************)
(* What the search endpoints answer: /search/features ranks the stored     *)
(* commits for a query and cuts a page out of the ranking, /search/suggest *)
(* completes a prefix, /search/related adds what co-occurs with the best   *)
(* hits.  All are computed anew for every request, from corpus frequencies *)
(* that change with every commit that is stored.                           *)
(*                                                                         *)
(* Real numbers are replaced by integers that keep their order: idf by     *)
(* "the fewer documents the more", ratios by parts of Scale.  Length       *)
(* normalisation and the optional embeddings are left out, and a token     *)
(* occurs in a document at most once.                                      *)
(***************************************************************************)
EXTENDS Lists, SequencesExt

CONSTANTS Docs,         \* documents that may be stored
          RepoOf, TitleOf, TagsOf, TokensOf,    \* their fields
          Labels,       \* the capability areas, in alphabetical order
          MembersOf,    \* MembersOf[label]: the tokens of CAPABILITY_GROUPS
          GenericTags,  \* _GENERIC_TAGS
          Alphabet,     \* titles, tags and tokens in the order of their text
          Begins,       \* Begins[prefix]: those that begin with it
          Queries,      \* queries: the sets of tokens typed
          Offsets, MinScores,                   \* values of the parameters
          SeedKs, Limits, SuggestLimits,
          NoAnswer

ASSUME FeatureSearchAssumption ==
    /\ Alphabet \in Seq(Range(Alphabet)) /\ IsInjective(Alphabet)
    /\ Labels \in Seq(DOMAIN MembersOf) /\ IsInjective(Labels)
    /\ UNION {TagsOf[d] \cup TokensOf[d] \cup {TitleOf[d]} : d \in Docs} \subseteq Range(Alphabet)
    /\ \A prefix \in DOMAIN Begins : Begins[prefix] \subseteq Range(Alphabet)
    /\ Offsets \cup MinScores \subseteq Nat
    /\ SeedKs \cup Limits \cup SuggestLimits \subseteq Nat \ {0}

Scale == 10000          \* 1.0: relatedness is rounded to four places
Ratio(a, b) == (Scale * a) \div b

VARIABLES docs,         \* the documents of the index, in store order
          answer        \* what was asked last, and the answer

searchVars == <<docs, answer>>

SearchInit == docs = <<>> /\ answer = NoAnswer

Stored == Range(docs)
Place(d) == CHOOSE i \in DOMAIN docs : docs[i] = d
First(s, n) == SubSeq(s, 1, IF n < Len(s) THEN n ELSE Len(s))

\* A commit is stored, or stored again, and the index is rebuilt in time
\* (module Catalogue).  After the answer it makes no difference.
AddDocument(d) ==
    /\ answer = NoAnswer
    /\ docs' = IF d \in Stored THEN docs ELSE Append(docs, d)
    /\ UNCHANGED answer

-----------------------------------------------------------------------------
(***************************************************************************)
(* FeatureIndex and FeatureRecommender.search                              *)
(***************************************************************************)

Df(t) == Cardinality({d \in Stored : t \in TokensOf[d]})

\* Fault: without the floor a token that every document has weighs nothing.
IdfNoFloor(t) == Len(docs) - Df(t)

\* Larger for rarer tokens and never 0 (the "+1 floor").
Idf(t) == Len(docs) - Df(t) + 1

\* sum(idf[t] for t in ts)
SumIdf(ts) ==
    LET terms == Selected(Alphabet, ts)
    IN  Total([i \in DOMAIN terms |-> Idf(terms[i])])

LabelsOf(tokens) == {c \in Range(Labels) : MembersOf[c] \cap tokens # {}}

\* expand_query: the members of the areas a typed token belongs to.
Synonyms(q) == (UNION {MembersOf[c] : c \in LabelsOf(q)}) \ q

\* score_doc: the typed tokens weigh 1.0, their synonyms 0.5.
Score(d, q) ==
    2 * SumIdf(q \cap TokensOf[d]) + SumIdf(Synonyms(q) \cap TokensOf[d])

\* score_all: every document, the best score first.
ScoreAll(q) == Descending(docs, [d \in Stored |-> Score(d, q)])

\* The FeatureSuggestions before the page is cut: min_score is a part of the
\* best score, and nothing that scores 0 is a hit.
Hits(q, minScore) ==
    LET scored == ScoreAll(q)
        best == Score(scored[1], q)
    IN  Selected(scored, {d \in Stored : /\ Score(d, q) > 0
                                         /\ Scale * Score(d, q) >= minScore * best})

\* suggestions[offset : offset + limit]
Page(s, offset, limit) == First(SubSeq(s, offset + 1, Len(s)), limit)

\* GET /search/features
SearchFeatures(q, limit, offset, minScore) ==
    /\ answer = NoAnswer
    /\ answer' = [kind |-> "features", q |-> q, limit |-> limit, offset |-> offset,
                  minScore |-> minScore, results |-> Page(Hits(q, minScore), offset, limit)]
    /\ UNCHANGED docs

\* What suggest adds up for a text: 3 for a title, 2 for a tag, 1 for a token.
Weight(x) ==
    3 * Cardinality({d \in Stored : TitleOf[d] = x})
    + 2 * Cardinality({d \in Stored : x \in TagsOf[d]}) + Df(x)

Candidates(prefix) == {x \in Begins[prefix] : Weight(x) > 0}

Weights == [x \in Range(Alphabet) |-> Weight(x)]

\* Fault: the candidates are cut in alphabetical order, and sorted afterwards.
CompletionsCutFirst(prefix, limit) ==
    Descending(First(Selected(Alphabet, Candidates(prefix)), limit), Weights)

\* ranked[:limit]: the heaviest first, equals in alphabetical order.
Completions(prefix, limit) ==
    First(Descending(Selected(Alphabet, Candidates(prefix)), Weights), limit)

\* GET /search/suggest
Complete(prefix, limit) ==
    /\ answer = NoAnswer
    /\ answer' = [kind |-> "completions", prefix |-> prefix, limit |-> limit,
                  results |-> Completions(prefix, limit)]
    /\ UNCHANGED docs

-----------------------------------------------------------------------------
(***************************************************************************)
(* RelatedEngine                                                           *)
(***************************************************************************)

\* Fault: two thirds instead of 0.6.
UbiquitousLax(n) == 3 * n > 2 * Len(docs)

\* In more than _UBIQUITOUS_RATIO = 0.6 of the documents.
Ubiquitous(n) == 5 * n > 3 * Len(docs)

DistinctiveTags(d) ==
    {tag \in TagsOf[d] \ GenericTags :
        ~Ubiquitous(Cardinality({e \in Stored : tag \in TagsOf[e]}))}

\* What is left of the tokens without those of the (expanded) query.
DistinctiveTokens(d, q) ==
    {t \in TokensOf[d] \ (q \cup Synonyms(q)) : ~Ubiquitous(Df(t))}

Jaccard(a, b) ==
    IF a \cap b = {} THEN 0 ELSE Ratio(Cardinality(a \cap b), Cardinality(a \cup b))

\* _weighted_term_overlap
TermOverlap(a, b) == IF a \cap b = {} THEN 0 ELSE Ratio(SumIdf(a \cap b), SumIdf(a \cup b))

SharedLabels(s, d) == LabelsOf(TokensOf[s]) \cap LabelsOf(TokensOf[d])

\* content > 0: one of the three signals is.
Overlaps(s, d, q) ==
    \/ DistinctiveTags(s) \cap DistinctiveTags(d) # {}
    \/ DistinctiveTokens(s, q) \cap DistinctiveTokens(d, q) # {}
    \/ SharedLabels(s, d) # {}

\* The content signals, weighed 0.4, 0.4 and 0.2.
Content(s, d, q) ==
    (4 * Jaccard(DistinctiveTags(s), DistinctiveTags(d))
     + 4 * TermOverlap(DistinctiveTokens(s, q), DistinctiveTokens(d, q))
     + 2 * (IF SharedLabels(s, d) = {} THEN 0 ELSE Scale)) \div 10

Bonus(s, d) == IF RepoOf[s] = RepoOf[d] THEN Scale \div 20 ELSE 0

\* _relatedness: the repository adds to real overlap only, up to 1.0.
Relatedness(s, d, q) ==
    LET score == Content(s, d, q) + Bonus(s, d)
    IN  IF ~Overlaps(s, d, q) THEN 0 ELSE IF score > Scale THEN Scale ELSE score

Supporters(d, seeds, q) == {s \in Range(seeds) : Overlaps(s, d, q)}

\* best: the relatedness to the closest seed.
Best(d, seeds, q) == Max({Relatedness(s, d, q) : s \in Range(seeds)})

\* The sort key (relatedness, support) as one number.
Closeness(seeds, q) ==
    [d \in Stored |-> Best(d, seeds, q) * (Len(docs) + 1) + Cardinality(Supporters(d, seeds, q))]

RelatedTo(seeds, q) == {d \in Stored \ Range(seeds) : Supporters(d, seeds, q) # {}}

\* Fault: the list is cut before it is sorted.
RelatedCutFirst(q, seeds, limit) ==
    Descending(First(Selected(docs, RelatedTo(seeds, q)), limit), Closeness(seeds, q))

\* related_features: the closest documents that are no seeds.
Related(q, seeds, limit) ==
    First(Descending(Selected(docs, RelatedTo(seeds, q)), Closeness(seeds, q)), limit)

\* The documents of the pool that touch an area.
Having(c, pool) == Selected(pool, {d \in Docs : c \in LabelsOf(TokensOf[d])})

\* The areas that occur in the seeds or the related documents and not in the
\* query, most frequent first, each with up to three examples.
Capabilities(q, pool) ==
    LET found == {c \in Range(Labels) : c \notin LabelsOf(q) /\ Having(c, pool) # <<>>}
        support == [c \in Range(Labels) |-> Len(Having(c, pool))]
        ranked == Descending(Selected(Labels, found), support)
    IN  [n \in DOMAIN ranked |->
            [kind |-> "capability", text |-> ranked[n], support |-> support[ranked[n]],
             examples |-> First(Having(ranked[n], pool), 3)]]

\* The related documents as suggestions.
Features(q, seeds, related) ==
    [i \in DOMAIN related |->
        [kind |-> "feature", text |-> TitleOf[related[i]],
         support |-> Cardinality(Supporters(related[i], seeds, q)), examples |-> <<related[i]>>]]

\* Fault: a title may be suggested twice.
SuggestTwice(q, seeds, related, limit) ==
    First(Capabilities(q, seeds \o related) \o Features(q, seeds, related), limit)

\* One more suggestion, if there is room and its text is new.
Added(list, x, limit) ==
    IF Len(list) >= limit \/ \E i \in DOMAIN list : list[i].text = x.text
    THEN list ELSE Append(list, x)

\* One after the other.
AllAdded(list, xs, limit) ==
    LET upTo[n \in 0 .. Len(xs)] ==
            IF n = 0 THEN list ELSE Added(upTo[n - 1], xs[n], limit)
    IN  upTo[Len(xs)]

\* _suggest: the areas, and the titles of the related documents after them.
Suggest(q, seeds, related, limit) ==
    First(AllAdded(Capabilities(q, seeds \o related), Features(q, seeds, related), limit), limit)

\* GET /search/related
AskRelated(q, seedK, limit, suggestLimit) ==
    LET seeds == First(Hits(q, 0), seedK)
        related == Related(q, seeds, limit)
    IN  /\ answer = NoAnswer
        /\ answer' = [kind |-> "related", q |-> q, limit |-> limit, suggestLimit |-> suggestLimit,
                      seeds |-> seeds, related |-> related,
                      suggested |-> Suggest(q, seeds, related, suggestLimit)]
        /\ UNCHANGED docs

SearchNext ==
    \/ \E d \in Docs : AddDocument(d)
    \/ \E prefix \in DOMAIN Begins, limit \in Limits : Complete(prefix, limit)
    \/ \E q \in Queries, limit \in Limits :
          \/ \E offset \in Offsets, minScore \in MinScores :
                SearchFeatures(q, limit, offset, minScore)
          \/ \E k \in SeedKs, n \in SuggestLimits : AskRelated(q, k, limit, n)

SearchSpec == SearchInit /\ [][SearchNext]_searchVars

-----------------------------------------------------------------------------
(***************************************************************************)
(* Properties                                                              *)
(***************************************************************************)

\* Type invariant: the store keeps its documents apart, an answer has stored
\* documents only and keeps to its limits.
AnswersTyped ==
    /\ docs \in Seq(Docs) /\ IsInjective(docs)
    /\ \/ answer = NoAnswer
       \/ /\ answer.kind = "features" /\ answer.q \in Queries
          /\ answer.results \in Seq(Stored) /\ Len(answer.results) <= answer.limit
       \/ /\ answer.kind = "completions"
          /\ answer.results \in Seq(Range(Alphabet)) /\ Len(answer.results) <= answer.limit
       \/ /\ answer.kind = "related" /\ answer.q \in Queries
          /\ answer.seeds \in Seq(Stored)
          /\ answer.related \in Seq(Stored) /\ Len(answer.related) <= answer.limit

\* What a search may return, relative to the best score of the whole store.
Hit(d, q, minScore) ==
    /\ Score(d, q) > 0
    /\ \A e \in Stored : Scale * Score(d, q) >= minScore * Score(e, q)

Outranks(d, e, q) ==
    \/ Score(d, q) > Score(e, q)
    \/ Score(d, q) = Score(e, q) /\ Place(d) < Place(e)

Outranking(d, q, minScore) == {e \in Stored : Hit(e, q, minScore) /\ Outranks(e, d, q)}

AtRank(n, q, minScore) ==
    {d \in Stored : Hit(d, q, minScore) /\ Cardinality(Outranking(d, q, minScore)) = n}

\* Page after page a client gets every hit at its rank: the i-th result after
\* offset o is the document that o + i - 1 others outrank (recommender.py:95-117),
\* though scores change with every commit stored, and minScore is relative to
\* the best score of the whole store, not of the page.
PagesRanked ==
    answer # NoAnswer /\ answer.kind = "features" =>
        \A n \in 1 .. answer.limit :
            AtRank(answer.offset + n - 1, answer.q, answer.minScore) =
                IF n <= Len(answer.results) THEN {answer.results[n]} ELSE {}

\* What a query reaches: a typed token, or one of the same capability area.
Reached(d, q) ==
    \/ TokensOf[d] \cap q # {}
    \/ LabelsOf(TokensOf[d]) \cap LabelsOf(q) # {}

\* A search misses nothing: with no score to reach, every document that has a
\* typed token or one of the same capability area is on one of the pages, even
\* if the token is in every document (feature_index.py:84), and no other is.
SearchReaches ==
    answer # NoAnswer /\ answer.kind = "features" /\ answer.minScore = 0 =>
        LET found == Cardinality({d \in Stored : Reached(d, answer.q)})
        IN  /\ \A d \in Range(answer.results) : Reached(d, answer.q)
            /\ Len(answer.results) =
                   Min({answer.limit, IF found > answer.offset THEN found - answer.offset ELSE 0})

\* Search answers exactly: page by page, nothing missing, nothing else.
SearchExact == AnswersTyped /\ PagesRanked /\ SearchReaches

\* The texts of the store that begin with a prefix.
Offered(prefix) ==
    Begins[prefix] \cap UNION {TagsOf[d] \cup TokensOf[d] \cup {TitleOf[d]} : d \in Stored}

\* Autocomplete offers texts that are in the store and begin with the prefix,
\* each once, as many as the limit allows and no lighter one in place of a
\* heavier one, whichever of title, tag and term gave it its weight
\* (recommender.py:133-146).
HeaviestOffered ==
    answer # NoAnswer /\ answer.kind = "completions" =>
        LET results == answer.results
            offered == Offered(answer.prefix)
        IN  /\ IsInjective(results) /\ Range(results) \subseteq offered
            /\ Len(results) = Min({answer.limit, Cardinality(offered)})
            /\ \A i \in DOMAIN results :
                   \A x \in offered \ Range(First(results, i)) : Weight(x) <= Weight(results[i])

IsRelated == answer # NoAnswer /\ answer.kind = "related"

Seeds == Range(answer.seeds)
Others == Stored \ Seeds
RelatednessTo(d) == {Relatedness(s, d, answer.q) : s \in Seeds}
Support(d) == Cardinality({s \in Seeds : Overlaps(s, d, answer.q)})

\* Document a is closer than b: by its best relatedness to a seed, then by the
\* number of seeds it is related to.
Closer(a, b) ==
    \/ Max(RelatednessTo(a)) > Max(RelatednessTo(b))
    \/ Max(RelatednessTo(a)) = Max(RelatednessTo(b)) /\ Support(a) > Support(b)

\* related_features is sorted, and nothing it leaves out is closer to the seeds
\* than anything it has (related.py:113-147).
ClosestRelated ==
    IsRelated =>
        LET related == answer.related
        IN  /\ \A i, j \in DOMAIN related : i < j => ~Closer(related[j], related[i])
            /\ \A d \in Others \ Range(related) : Support(d) > 0 =>
                   /\ Len(related) = answer.limit
                   /\ \A e \in Range(related) : ~Closer(d, e)

\* "Seeds are excluded" (README.md:126) and the same repository "is NOT enough on
\* its own" (related.py:199): a related feature is no seed and shares with one a
\* capability area, or a tag or a token outside the query that neither everyone
\* nor almost everyone has.
SharesContent ==
    IsRelated =>
        \A d \in Range(answer.related) :
            /\ d \notin Seeds
            /\ \E s \in Seeds :
                  \/ LabelsOf(TokensOf[s]) \cap LabelsOf(TokensOf[d]) # {}
                  \/ \E tag \in (TagsOf[s] \cap TagsOf[d]) \ GenericTags :
                        5 * Cardinality({e \in Stored : tag \in TagsOf[e]}) <= 3 * Len(docs)
                  \/ \E t \in (TokensOf[s] \cap TokensOf[d]) \ (answer.q \cup Synonyms(answer.q)) :
                        5 * Cardinality({e \in Stored : t \in TokensOf[e]}) <= 3 * Len(docs)

\* What two of at most three documents share counts as ubiquitous (related.py:37,
\* 102-108): as long as a store is that small only a capability area relates.
SmallStoresRelateByArea ==
    IsRelated /\ Len(docs) <= 3 =>
        \A d \in Range(answer.related) :
            \E s \in Seeds : LabelsOf(TokensOf[s]) \cap LabelsOf(TokensOf[d]) # {}

\* What is called related has something of its own in common with the query's
\* results, at every size of the store (related.py:35-37, :198-200).
RelatedByContent == SharesContent /\ SmallStoresRelateByArea

\* suggested_features are "each grounded with a support count and example feature
\* ids" (docs/architecture.md:221): one text once, none for an area the query
\* names, each with examples among the seeds and the related features that bear
\* it out, and as many as the limit allows, the areas first (related.py:219-268).
SuggestionsGrounded ==
    IsRelated =>
        LET list == answer.suggested
            pool == Seeds \cup Range(answer.related)
            texts == {list[i].text : i \in DOMAIN list}
            areas == (UNION {LabelsOf(TokensOf[d]) : d \in pool}) \ LabelsOf(answer.q)
            titles == {TitleOf[d] : d \in Range(answer.related)}
        IN  /\ Cardinality(texts) = Len(list)
            /\ Len(list) = Min({answer.suggestLimit, Cardinality(areas \cup titles)})
            /\ \A i \in DOMAIN list :
                  LET x == list[i]
                  IN  IF i <= Cardinality(areas)
                      THEN /\ x.kind = "capability" /\ x.text \in areas
                           /\ Len(x.examples) \in 1 .. x.support
                           /\ \A d \in Range(x.examples) :
                                 d \in pool /\ x.text \in LabelsOf(TokensOf[d])
                      ELSE /\ x.kind = "feature" /\ x.support > 0
                           /\ \E d \in Range(answer.related) :
                                 x.examples = <<d>> /\ x.text = TitleOf[d]

=============================================================================
