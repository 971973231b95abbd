-------------------------- MODULE MCFeatureSearch --------------------------
(***************************************************************************)
(* FeatureSearch for TLC: five commits of two repositories.  Two have the  *)
(* same title, one shares nothing but its repository with the others.      *)
(***************************************************************************)
EXTENDS FeatureSearch, TLC

CONSTANTS d1, d2, d3, d4, d5,                       \* documents
          app, lib,                                 \* repositories
          page, scroll, cache, button, break,       \* tokens
          source, python,                           \* tags, and their tokens
          breaking,                                 \* a tag; its token is break
          pageList, useCache, other,                \* titles
          b, p, s,                                  \* prefixes
          caching, pagination, ui                   \* capability areas

FiveDocs == {d1, d2, d3, d4, d5}

MCRepoOf == [d \in FiveDocs |-> IF d \in {d1, d2, d4} THEN app ELSE lib]

MCTitleOf ==
    [d \in FiveDocs |-> IF d \in {d2, d3} THEN useCache ELSE IF d = d1 THEN pageList ELSE other]

MCTagsOf ==
    [d \in FiveDocs |-> {source} \cup (IF d \in {d1, d5} THEN {breaking} ELSE {})
                                 \cup (IF d = d3 THEN {} ELSE {python})]

\* Among the tokens of a document are those of its tags.
MCTokensOf ==
    [d \in FiveDocs |->
        (MCTagsOf[d] \ {breaking}) \cup (IF breaking \in MCTagsOf[d] THEN {break} ELSE {})
        \cup CASE d = d1 -> {page, cache}
               [] d = d2 -> {cache, button}
               [] d = d3 -> {cache, scroll, button}
               [] d = d4 -> {}
               [] d = d5 -> {page, button}]

ThreeLabels == <<caching, pagination, ui>>

MCMembersOf ==
    [c \in {caching, pagination, ui} |->
        CASE c = caching -> {cache} [] c = pagination -> {page, scroll} [] c = ui -> {button}]

MCGenericTags == {source}

\* As by ASCII: titles begin with a capital.
MCAlphabet == <<other, pageList, useCache, break, breaking, button, cache, page, python, scroll, source>>
MCBegins ==
    (b :> {break, breaking, button}) @@ (p :> {pageList, page, python}) @@ (s :> {scroll, source})

MCQueries == {{page}, {button}, {source}}

MCOffsets == 0 .. 2
MCMinScores == {0, 6000}
OneTwo == {1, 2}
TwoFour == {2, 4}

=============================================================================
