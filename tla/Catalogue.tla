------------------------------ MODULE Catalogue ------------------------------
(***************************************************************************)
(* The read side: clients page through /commits, and others search, while  *)
(* requests keep storing metadata.  The metadata store is a dict, whose    *)
(* order is that of first insertion, and the recommender's feature index   *)
(* is rebuilt when the size of the store differs from the size indexed.    *)
(*                                                                         *)
(* Handlers do not await here, so each is one step; what a client reads    *)
(* takes several requests.                                                 *)
(***************************************************************************)
EXTENDS Lists, Functions

CONSTANTS Repos,        \* repositories
          Shas,         \* commits; a fork has those of its origin
          Readers,      \* clients that page through /commits
          Limit,        \* limit, their page size
          NoFilter      \* repository is not given

ASSUME CatalogueAssumption == Limit \in Nat \ {0} /\ NoFilter \notin Repos

Keys == Repos \X Shas   \* "repository@sha"

VARIABLES order,        \* the keys of the metadata store in dict order
          indexed,      \* the keys of the documents of the feature index
          indexedSize,  \* _indexed_size
          filter,       \* filter[r]: the repository reader r asks for
          offset,       \* offset[r]: where its next page starts
          got,          \* got[r]: what its pages gave so far
          known,        \* known[r]: what was stored at its first page
          ended         \* ended: the readers that have seen the last page

index == <<indexed, indexedSize>>
reader == <<filter, offset, got, known, ended>>
vars == <<order, index, reader>>

Init ==
    /\ order = <<>>
    /\ indexed = {} /\ indexedSize = -1
    /\ filter \in [Readers -> Repos \cup {NoFilter}]
    /\ offset = [r \in Readers |-> 0]
    /\ got = [r \in Readers |-> <<>>]
    /\ known = [r \in Readers |-> {}]
    /\ ended = {}

\* Fault: a commit processed again moves to the end.
InsertedLast(k) == Append(SelectSeq(order, LAMBDA x : x # k), k)

\* Fault: the store makes room by dropping its oldest entry.
InsertedEvicting(k) ==
    IF k \in Range(order) THEN order
    ELSE Append(IF Len(order) < 3 THEN order ELSE Tail(order), k)

\* data[key] = meta: a key that is there keeps its place.
Inserted(k) == IF k \in Range(order) THEN order ELSE Append(order, k)

\* A commit is processed, for the first time or again.  (Again, perhaps with a
\* patch where there was none, but with the same text to index.)
Put(k) ==
    /\ order' = Inserted(k)
    /\ UNCHANGED <<index, reader>>

\* _ensure_index: what every search, suggestion and related query starts with.
EnsureIndex ==
    IF Len(order) = indexedSize
    THEN UNCHANGED index
    ELSE indexed' = Range(order) /\ indexedSize' = Len(order)

Search ==
    /\ EnsureIndex
    /\ UNCHANGED <<order, reader>>

\* reindex() forgets the size first.
Reindex ==
    /\ indexed' = Range(order) /\ indexedSize' = Len(order)
    /\ UNCHANGED <<order, reader>>

\* The commits that a reader asks for, and those of them that are stored.
Wanted(r) == {k \in Keys : filter[r] \in {NoFilter, k[1]}}
Matching(r) == Selected(order, Wanted(r))

\* items[offset : offset + limit]
Slice(s, from) == SubSeq(s, from + 1, IF from + Limit < Len(s) THEN from + Limit ELSE Len(s))

\* A client asks for its next page; a page that is not full is its last.
ReadPage(r) ==
    /\ r \notin ended
    /\ LET page == Slice(Matching(r), offset[r])
       IN  /\ got' = [got EXCEPT ![r] = @ \o page]
           /\ offset' = [offset EXCEPT ![r] = @ + Limit]
           /\ ended' = IF Len(page) < Limit THEN ended \cup {r} ELSE ended
    /\ known' = IF offset[r] = 0 THEN [known EXCEPT ![r] = Range(Matching(r))] ELSE known
    /\ UNCHANGED <<order, index, filter>>

Next ==
    \/ \E k \in Keys : Put(k)
    \/ Search
    \/ Reindex
    \/ \E r \in Readers : ReadPage(r)

Spec == Init /\ [][Next]_vars

-----------------------------------------------------------------------------
\* Type invariant.
TypeOK ==
    /\ order \in Seq(Keys) /\ IsInjective(order)
    /\ indexed \subseteq Keys
    /\ indexedSize \in Nat \cup {-1}
    /\ filter \in [Readers -> Repos \cup {NoFilter}]
    /\ offset \in [Readers -> Nat] /\ got \in [Readers -> Seq(Keys)]
    /\ known \in [Readers -> SUBSET Keys] /\ ended \subseteq Readers

\* "Every stored FeatureMetadata is indexed" (README:95): the size of the store
\* is stamp enough for the index.  When it says that the index is current, the
\* index has every stored document and no other, although storing goes on in
\* any order and overwrites (recommender.py:47-52).
StampTells == indexedSize = Len(order) => indexed = Range(order)

\* A client that pages to the end misses nothing that was stored when it
\* began and sees nothing twice, whatever is stored or stored again between
\* its pages (stores.py:68-99).
PagesComplete ==
    \A r \in Readers :
        /\ \A i, j \in DOMAIN got[r] : got[r][i] = got[r][j] => i = j
        /\ r \in ended => known[r] \subseteq Range(got[r])

\* What clients have been given is well formed and, once they are through,
\* complete (stores.py:68-99, main.py:252-263).
ReadersServed == TypeOK /\ PagesComplete

=============================================================================
