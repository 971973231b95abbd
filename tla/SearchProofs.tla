---------------------------- MODULE SearchProofs ----------------------------
(***************************************************************************)
(* The read side, for any store, query, page size and number of clients.   *)
(*                                                                         *)
(* Catalogue: the size of the metadata store is stamp enough for the       *)
(* search index.  The store only ever grows at its end, so an index built  *)
(* when the store had n entries holds the first n, and when the store has  *)
(* n entries again it has them all.  For the same reason a client's offset *)
(* means the same from one page to the next.                               *)
(*                                                                         *)
(* FeatureSearch: an answer is what the endpoint computes for the          *)
(* documents stored at that moment (SearchInv); what that is follows from  *)
(* facts on sorting, cutting and selecting, by induction over the lists.   *)
(***************************************************************************)
EXTENDS Catalogue, FeatureSearch, ListLemmas

-----------------------------------------------------------------------------
(* The index.                                                              *)

\* The documents indexed are the first indexedSize entries of the store.
IndexedPrefix ==
    /\ indexedSize \in {-1} \cup 0 .. Len(order)
    /\ indexed = {order[i] : i \in 1 .. indexedSize}

IInv == order \in Seq(Keys) /\ IsInjective(order) /\ IndexedPrefix

\* What a store that grows at its end keeps.
LEMMA InsertedLemma ==
    ASSUME NEW k \in Keys, order \in Seq(Keys), IsInjective(order)
    PROVE  /\ Inserted(k) \in Seq(Keys) /\ IsInjective(Inserted(k))
           /\ Len(order) <= Len(Inserted(k))
           /\ \A i \in 1 .. Len(order) : Inserted(k)[i] = order[i]
<1>1. CASE k \in Range(order)
  BY <1>1 DEF Inserted
<1>2. CASE k \notin Range(order)
  <2>1. Inserted(k) = Append(order, k)
    BY <1>2 DEF Inserted
  <2>2. \A i \in 1 .. Len(order) : order[i] # k
    BY <1>2 DEF Range
  <2>3. Append(order, k) \in Seq(Keys) /\ Len(Append(order, k)) = Len(order) + 1
    OBVIOUS
  <2>4. \A i \in 1 .. Len(order) : Append(order, k)[i] = order[i]
    OBVIOUS
  <2>5. Append(order, k)[Len(order) + 1] = k
    OBVIOUS
  <2>6. IsInjective(Append(order, k))
    <3> SUFFICES ASSUME NEW i \in 1 .. Len(order) + 1, NEW j \in 1 .. Len(order) + 1,
                        Append(order, k)[i] = Append(order, k)[j]
                 PROVE  i = j
      BY <2>3 DEF IsInjective
    <3>1. CASE i \in 1 .. Len(order) /\ j \in 1 .. Len(order)
      BY <3>1, <2>4 DEF IsInjective
    <3>2. CASE i = Len(order) + 1 \/ j = Len(order) + 1
      BY <3>2, <2>2, <2>4, <2>5
    <3> QED
      BY <3>1, <3>2
  <2> QED
    BY <2>1, <2>3, <2>4, <2>6
<1> QED
  BY <1>1, <1>2

LEMMA InitInv == Init => IInv
  BY DEF Init, IInv, IndexedPrefix, IsInjective

LEMMA PutInv ==
    ASSUME IInv, NEW k \in Keys, Put(k)
    PROVE  IInv'
<1>1. /\ order' \in Seq(Keys) /\ IsInjective(order') /\ Len(order) <= Len(order')
      /\ \A i \in 1 .. Len(order) : order'[i] = order[i]
  BY InsertedLemma DEF IInv, Put
<1>2. indexed' = indexed /\ indexedSize' = indexedSize
  BY DEF Put, index
<1>3. Len(order) \in Nat /\ Len(order') \in Nat
  BY <1>1 DEF IInv
<1>4. 1 .. indexedSize \subseteq 1 .. Len(order)
  BY <1>3 DEF IInv, IndexedPrefix
<1>5. {order'[i] : i \in 1 .. indexedSize} = {order[i] : i \in 1 .. indexedSize}
  BY <1>1, <1>4
<1>6. IndexedPrefix'
  BY <1>1, <1>2, <1>3, <1>5 DEF IInv, IndexedPrefix
<1> QED
  BY <1>1, <1>6 DEF IInv

\* Rebuilding indexes the whole store.
LEMMA RebuildInv ==
    ASSUME IInv, order' = order, indexed' = Range(order), indexedSize' = Len(order)
    PROVE  IInv'
<1>1. Len(order) \in Nat /\ DOMAIN order = 1 .. Len(order)
  BY DEF IInv
<1>2. Range(order) = {order[i] : i \in 1 .. Len(order)}
  BY <1>1 DEF Range
<1> QED
  BY <1>1, <1>2 DEF IInv, IndexedPrefix

LEMMA StutterInv ==
    ASSUME IInv, order' = order, index' = index
    PROVE  IInv'
  BY DEF IInv, IndexedPrefix, index

LEMMA NextInv == IInv /\ [Next]_vars => IInv'
<1> SUFFICES ASSUME IInv, [Next]_vars PROVE IInv'
  OBVIOUS
<1>1. ASSUME NEW k \in Keys, Put(k) PROVE IInv'
  BY <1>1, PutInv
<1>2. CASE Search
  <2>1. CASE Len(order) = indexedSize
    BY <1>2, <2>1, StutterInv DEF Search, EnsureIndex
  <2>2. CASE Len(order) # indexedSize
    BY <1>2, <2>2, RebuildInv DEF Search, EnsureIndex
  <2> QED
    BY <2>1, <2>2
<1>3. CASE Reindex
  BY <1>3, RebuildInv DEF Reindex
<1>4. ASSUME NEW r \in Readers, ReadPage(r) PROVE IInv'
  BY <1>4, StutterInv DEF ReadPage
<1>5. CASE UNCHANGED vars
  BY <1>5, StutterInv DEF vars
<1> QED
  BY <1>1, <1>2, <1>3, <1>4, <1>5 DEF Next

\* The invariant that carries the proof: the index is a prefix of the store.
THEOREM Invariance == Spec => []IInv
<1>1. Init => IInv
  BY InitInv
<1>2. IInv /\ [Next]_vars => IInv'
  BY NextInv
<1> QED
  BY <1>1, <1>2, PTL DEF Spec

\* Whenever the stamp says that the index is current, it holds exactly the
\* stored documents (FeatureRecommender._ensure_index), for any number of
\* repositories, commits and clients.
THEOREM IndexFresh == Spec => []StampTells
<1>1. IInv => StampTells
  BY DEF IInv, IndexedPrefix, StampTells, Range
<1> QED
  BY <1>1, Invariance, PTL

-----------------------------------------------------------------------------
(* Readers.  What a client has been given is the beginning of the list it  *)
(* would get if it asked for everything now; that list only grows at its   *)
(* end, so nothing shifts under the client's offset.                       *)

\* g: what the client has; o: its offset; e: has it ended; old: what was stored
\* when it began; m: what now matches.
Reads(g, o, e, old, m) ==
    /\ g \in Seq(Keys) /\ Len(g) <= Len(m)
    /\ \A i \in 1 .. Len(g) : g[i] = m[i]
    /\ ~e => Len(g) = o
    /\ old \subseteq Range(m)
    /\ e => old \subseteq Range(g)

ReadersInv ==
    \A r \in Readers : Reads(got[r], offset[r], r \in ended, known[r], Matching(r))

RInv == TypeOK /\ ReadersInv

LEMMA MatchingLemma ==
    ASSUME NEW r, order \in Seq(Keys)
    PROVE  /\ Matching(r) \in Seq(Keys)
           /\ IsInjective(order) => IsInjective(Matching(r))
<1> DEFINE W == Wanted(r)
<1> HIDE DEF W
<1>1. /\ Selected(order, W) \in Seq(Keys)
      /\ IsInjective(order) => IsInjective(Selected(order, W))
  BY SelectedLemma
<1> QED
  BY <1>1 DEF Matching, W

\* The list may grow at its end without the client noticing.
LEMMA GrownLemma ==
    ASSUME NEW m \in Seq(Keys), NEW x \in Keys, NEW g, NEW o, NEW e, NEW old,
           Reads(g, o, e, old, m)
    PROVE  Reads(g, o, e, old, Append(m, x))
<1>1. /\ Len(Append(m, x)) = Len(m) + 1 /\ Len(m) \in Nat /\ Len(g) \in Nat
      /\ \A i \in 1 .. Len(m) : Append(m, x)[i] = m[i]
  BY AppendProperties, LenProperties DEF Reads
<1>2. Range(m) \subseteq Range(Append(m, x))
  BY AppendLemma
<1>3. \A i \in 1 .. Len(g) : i \in 1 .. Len(m)
  BY <1>1 DEF Reads
<1> QED
  BY <1>1, <1>2, <1>3 DEF Reads

\* A page continues the beginning that the client has, and a page that is not
\* full completes it.
LEMMA PageLemma ==
    ASSUME NEW m \in Seq(Keys), NEW g, NEW o \in Nat, NEW old, NEW now,
           Reads(g, o, FALSE, old, m), now = old \/ now = Range(m)
    PROVE  Reads(g \o Slice(m, o), o + Limit, Len(Slice(m, o)) < Limit, now, m)
<1> DEFINE top == IF o + Limit < Len(m) THEN o + Limit ELSE Len(m)
           page == Slice(m, o)
           h == g \o page
<1>1. /\ Len(m) \in Nat /\ Limit \in Nat /\ Limit > 0 /\ g \in Seq(Keys)
      /\ Len(g) = o /\ o <= Len(m) /\ \A i \in 1 .. o : g[i] = m[i]
      /\ old \subseteq Range(m) /\ DOMAIN m = 1 .. Len(m)
  BY CatalogueAssumption, LenProperties DEF Reads
<1>2. top \in Nat /\ o <= top /\ top <= Len(m) /\ top <= o + Limit
  BY <1>1
<1>3. page = SubSeq(m, o + 1, top)
  BY DEF Slice
<1>4. top # o + Limit => top = Len(m)
  BY <1>1
<1> HIDE DEF top, page
<1>5. /\ page \in Seq(Keys) /\ Len(page) = top - o
      /\ \A i \in 1 .. top - o : page[i] = m[o + i]
  <2>1. \A i \in o + 1 .. top : m[i] \in Keys
    BY <1>1, <1>2, ElementOfSeq
  <2> QED
    BY <1>1, <1>2, <1>3, <2>1
<1>6. h \in Seq(Keys) /\ Len(h) = top /\ DOMAIN h = 1 .. top
  <2>1. h \in Seq(Keys) /\ Len(h) = Len(g) + Len(page)
    BY <1>1, <1>5, ConcatProperties
  <2>2. Len(g) + Len(page) = top
    BY <1>1, <1>2, <1>5
  <2> QED
    BY <2>1, <2>2, LenProperties
<1>7. \A i \in 1 .. top : h[i] = m[i]
  <2> SUFFICES ASSUME NEW i \in 1 .. top PROVE h[i] = m[i]
    OBVIOUS
  <2>1. CASE i \in 1 .. o
    BY <1>1, <1>5, <2>1
  <2>2. CASE i \in o + 1 .. top
    <3>1. h[i] = page[i - o] /\ i - o \in 1 .. top - o /\ o + (i - o) = i
      BY <1>1, <1>2, <1>5, <2>2
    <3> QED
      BY <1>5, <3>1
  <2>3. i \in 1 .. o \/ i \in o + 1 .. top
    BY ONLY <1>1, <1>2, i \in 1 .. top
  <2> QED
    BY ONLY <2>1, <2>2, <2>3
<1> HIDE DEF h
<1>8. ASSUME Len(page) < Limit PROVE now \subseteq Range(h)
  <2>1. top - o < Limit
    BY <1>5, <1>8
  <2>2. top = Len(m)
    <3>1. o \in Nat /\ Limit \in Nat /\ top \in Nat
      BY <1>1, <1>2
    <3> QED
      BY ONLY <1>4, <2>1, <3>1
  <2>3. Range(h) = Range(m)
    BY <1>1, <1>6, <1>7, <2>2 DEF Range
  <2> QED
    BY <1>1, <2>3
<1>9. ASSUME ~(Len(page) < Limit) PROVE Len(h) = o + Limit
  BY <1>1, <1>2, <1>5, <1>6, <1>9
<1>10. Reads(h, o + Limit, Len(page) < Limit, now, m)
  BY <1>1, <1>2, <1>6, <1>7, <1>8, <1>9 DEF Reads
<1> QED
  BY <1>10 DEF h, page

LEMMA InitReaders == Init => RInv
<1> SUFFICES ASSUME Init PROVE RInv
  OBVIOUS
<1>1. Range(<<>>) = {} /\ IsInjective(<<>>) /\ <<>> \in Seq(Keys)
  BY EmptyLemma
<1>2. TypeOK
  BY <1>1 DEF Init, TypeOK
<1>3. ASSUME NEW r \in Readers
      PROVE  Reads(got[r], offset[r], r \in ended, known[r], Matching(r))
  <2>1. got[r] = <<>> /\ offset[r] = 0 /\ known[r] = {} /\ r \notin ended
    BY DEF Init
  <2>2. Matching(r) \in Seq(Keys)
    BY <1>2, MatchingLemma DEF TypeOK
  <2>3. Len(Matching(r)) \in Nat
    BY <2>2
  <2> QED
    BY <1>1, <2>1, <2>3 DEF Reads
<1> QED
  BY <1>2, <1>3 DEF RInv, ReadersInv

LEMMA PutReaders ==
    ASSUME RInv, NEW k \in Keys, Put(k)
    PROVE  RInv'
<1>1. /\ order' \in Seq(Keys) /\ IsInjective(order')
      /\ order' = order \/ order' = Append(order, k)
  BY InsertedLemma DEF RInv, TypeOK, Put, Inserted
<1>2. UNCHANGED <<indexed, indexedSize, filter, offset, got, known, ended>>
  BY DEF Put, index, reader
<1>3. TypeOK'
  BY <1>1, <1>2 DEF RInv, TypeOK
<1>4. ASSUME NEW r \in Readers
      PROVE  Reads(got[r], offset[r], r \in ended, known[r], Matching(r)')
  <2> DEFINE m == Matching(r)
             W == Wanted(r)
  <2>1. Reads(got[r], offset[r], r \in ended, known[r], m) /\ m \in Seq(Keys)
    BY MatchingLemma DEF RInv, TypeOK, ReadersInv
  <2>2. order \in Seq(Keys) /\ m = Selected(order, W)
    BY DEF RInv, TypeOK, Matching
  <2>3. Matching(r)' = Selected(order', W)
    BY <1>2 DEF Matching, Wanted
  <2> HIDE DEF m, W
  <2>4. \/ Selected(order', W) = m
        \/ Selected(order', W) = Append(m, k)
    <3>1. Selected(Append(order, k), W) =
             IF k \in W THEN Append(Selected(order, W), k) ELSE Selected(order, W)
      BY <2>2, SelectedAppend
    <3> QED
      BY ONLY <1>1, <2>2, <3>1
  <2>5. Reads(got[r], offset[r], r \in ended, known[r], Append(m, k))
    BY <2>1, GrownLemma
  <2> QED
    BY <2>1, <2>3, <2>4, <2>5
<1>5. ReadersInv'
  BY <1>2, <1>4 DEF ReadersInv
<1> QED
  BY <1>3, <1>5 DEF RInv

LEMMA ReadPageReaders ==
    ASSUME RInv, NEW r \in Readers, ReadPage(r)
    PROVE  RInv'
<1> DEFINE m == Matching(r)
           page == Slice(m, offset[r])
           now == IF offset[r] = 0 THEN Range(m) ELSE known[r]
<1>1. /\ m \in Seq(Keys)
      /\ Reads(got[r], offset[r], FALSE, known[r], m)
      /\ offset[r] \in Nat /\ known[r] \subseteq Keys
  <2>1. m \in Seq(Keys) /\ offset[r] \in Nat /\ known[r] \subseteq Keys
    BY MatchingLemma DEF RInv, TypeOK
  <2>2. Reads(got[r], offset[r], r \in ended, known[r], m) /\ r \notin ended
    BY DEF RInv, ReadersInv, ReadPage
  <2> HIDE DEF m
  <2> QED
    BY <2>1, <2>2 DEF Reads
<1>2. /\ UNCHANGED <<order, indexed, indexedSize, filter>>
      /\ got' = [got EXCEPT ![r] = @ \o page]
      /\ offset' = [offset EXCEPT ![r] = @ + Limit]
      /\ known' = [known EXCEPT ![r] = now]
      /\ ended' = IF Len(page) < Limit THEN ended \cup {r} ELSE ended
      /\ r \notin ended
  BY DEF ReadPage, index, RInv, TypeOK
<1>3. \A s \in Readers : Matching(s)' = Matching(s)
  BY <1>2 DEF Matching, Wanted
<1> HIDE DEF m, page, now
<1>4. Reads(got[r] \o page, offset[r] + Limit, Len(page) < Limit, now, m)
  <2>1. now = known[r] \/ now = Range(m)
    BY DEF now
  <2> QED
    BY <1>1, <2>1, PageLemma DEF page
<1>5. Range(m) \subseteq Keys
  BY <1>1, ElementOfSeq, LenProperties DEF Range
<1>6. now \subseteq Keys /\ got[r] \o page \in Seq(Keys)
  BY <1>1, <1>4, <1>5 DEF Reads, now
<1>7. TypeOK'
  <2>1. got' \in [Readers -> Seq(Keys)]
    BY <1>2, <1>6 DEF RInv, TypeOK
  <2>2. offset' \in [Readers -> Nat]
    BY <1>1, <1>2, CatalogueAssumption DEF RInv, TypeOK
  <2>3. known' \in [Readers -> SUBSET Keys]
    BY <1>2, <1>6 DEF RInv, TypeOK
  <2> QED
    BY <1>2, <2>1, <2>2, <2>3 DEF RInv, TypeOK
<1>8. ASSUME NEW s \in Readers
      PROVE  Reads(got'[s], offset'[s], s \in ended', known'[s], Matching(s))
  <2>1. CASE s = r
    <3>1. /\ got'[s] = got[r] \o page /\ offset'[s] = offset[r] + Limit
          /\ known'[s] = now
      BY <1>2, <2>1 DEF RInv, TypeOK
    <3>2. (s \in ended') = (Len(page) < Limit)
      BY <1>2, <2>1
    <3> QED
      BY <1>4, <2>1, <3>1, <3>2 DEF m
  <2>2. CASE s # r
    <3>1. /\ got'[s] = got[s] /\ offset'[s] = offset[s] /\ known'[s] = known[s]
          /\ (s \in ended') = (s \in ended)
      BY <1>2, <2>2 DEF RInv, TypeOK
    <3> QED
      BY <3>1 DEF RInv, ReadersInv
  <2> QED
    BY <2>1, <2>2
<1>9. ReadersInv'
  BY <1>3, <1>8 DEF ReadersInv
<1> QED
  BY <1>7, <1>9 DEF RInv

\* Steps on the index alone.
LEMMA IndexReaders ==
    ASSUME RInv, UNCHANGED <<order, filter, offset, got, known, ended>>,
           \/ UNCHANGED index
           \/ indexed' = Range(order) /\ indexedSize' = Len(order)
    PROVE  RInv'
<1>1. Range(order) \subseteq Keys /\ Len(order) \in Nat
  BY ElementOfSeq, LenProperties DEF Range, RInv, TypeOK
<1>2. TypeOK'
  BY <1>1 DEF RInv, TypeOK, index
<1>3. \A r \in Readers : Matching(r)' = Matching(r)
  BY DEF Matching, Wanted
<1>4. ReadersInv'
  BY <1>3 DEF RInv, ReadersInv
<1> QED
  BY <1>2, <1>4 DEF RInv

LEMMA NextReaders == RInv /\ [Next]_vars => RInv'
<1> SUFFICES ASSUME RInv, [Next]_vars PROVE RInv'
  OBVIOUS
<1>1. ASSUME NEW k \in Keys, Put(k) PROVE RInv'
  BY <1>1, PutReaders
<1>2. CASE Search
  BY <1>2, IndexReaders DEF Search, EnsureIndex, reader
<1>3. CASE Reindex
  BY <1>3, IndexReaders DEF Reindex, reader
<1>4. ASSUME NEW r \in Readers, ReadPage(r) PROVE RInv'
  BY <1>4, ReadPageReaders
<1>5. CASE UNCHANGED vars
  BY <1>5, IndexReaders DEF vars, reader
<1> QED
  BY <1>1, <1>2, <1>3, <1>4, <1>5 DEF Next

\* What a client has is free of repetitions, because the store is.
LEMMA ReadersConsequence == RInv => ReadersServed
<1> SUFFICES ASSUME RInv, NEW r \in Readers
             PROVE  /\ \A i, j \in DOMAIN got[r] : got[r][i] = got[r][j] => i = j
                    /\ r \in ended => known[r] \subseteq Range(got[r])
  BY DEF RInv, ReadersServed, PagesComplete
<1>1. Reads(got[r], offset[r], r \in ended, known[r], Matching(r))
  BY DEF RInv, ReadersInv
<1>2. Matching(r) \in Seq(Keys) /\ IsInjective(Matching(r))
  BY MatchingLemma DEF RInv, TypeOK
<1>3. /\ DOMAIN got[r] = 1 .. Len(got[r]) /\ DOMAIN Matching(r) = 1 .. Len(Matching(r))
      /\ Len(got[r]) \in Nat /\ Len(Matching(r)) \in Nat
  BY <1>1, <1>2, LenProperties DEF Reads
<1>4. \A i \in DOMAIN got[r] : i \in DOMAIN Matching(r) /\ got[r][i] = Matching(r)[i]
  BY <1>1, <1>3 DEF Reads
<1> QED
  BY <1>1, <1>2, <1>4 DEF Reads, IsInjective

\* A client that pages to the end is given everything that was stored when it
\* began, and nothing twice, whatever is stored between its pages
\* (MetadataStore.search behind GET /commits), for any number of repositories,
\* commits and clients and any page size.
THEOREM ReadersComplete == Spec => []ReadersServed
<1>1. Init => RInv
  BY InitReaders
<1>2. RInv /\ [Next]_vars => RInv'
  BY NextReaders
<1>3. RInv => ReadersServed
  BY ReadersConsequence
<1> QED
  BY <1>1, <1>2, <1>3, PTL DEF Spec

-----------------------------------------------------------------------------
(* Beginnings of lists.                                                    *)

LEMMA MinOfTwo == \A a, b \in Nat : Min({a, b}) = IF a < b THEN a ELSE b
<1> SUFFICES ASSUME NEW a \in Nat, NEW b \in Nat
             PROVE  Min({a, b}) = IF a < b THEN a ELSE b
  OBVIOUS
<1> DEFINE P(x) == x \in {a, b} /\ \A y \in {a, b} : x <= y
<1>1. \A x : P(x) <=> x = IF a < b THEN a ELSE b
  OBVIOUS
<1>2. Min({a, b}) = CHOOSE x : P(x)
  BY Zenon DEF Min
<1> HIDE DEF P
<1> QED
  BY <1>1, <1>2

\* s[:n] is the beginning of s.
BeginningOf(r, s, T, n) ==
    /\ r \in Seq(T) /\ n \in 0 .. Len(s) /\ Len(r) = n
    /\ \A i \in 1 .. n : r[i] = s[i]

LEMMA FirstLemma ==
    ASSUME NEW T, NEW s \in Seq(T), NEW n \in Nat
    PROVE  BeginningOf(First(s, n), s, T, IF n < Len(s) THEN n ELSE Len(s))
<1> DEFINE k == IF n < Len(s) THEN n ELSE Len(s)
<1>1. Len(s) \in Nat /\ k \in 0 .. Len(s) /\ \A i \in 1 .. Len(s) : s[i] \in T
  OBVIOUS
<1>2. First(s, n) = SubSeq(s, 1, k)
  BY DEF First
<1> HIDE DEF k
<1>3. /\ SubSeq(s, 1, k) \in Seq(T)
      /\ Len(SubSeq(s, 1, k)) = IF 1 <= k THEN k - 1 + 1 ELSE 0
      /\ \A i \in 1 .. k - 1 + 1 : SubSeq(s, 1, k)[i] = s[1 + i - 1]
  <2>1. \A i \in 1 .. k : s[i] \in T
    BY <1>1
  <2> QED
    BY <1>1, <2>1, SubSeqProperties
<1>4. Len(SubSeq(s, 1, k)) = k /\ \A i \in 1 .. k : SubSeq(s, 1, k)[i] = s[i]
  BY <1>1, <1>3
<1> QED
  BY <1>1, <1>2, <1>3, <1>4 DEF BeginningOf, k

\* What the beginning of a list has of it.
LEMMA BeginningLemma ==
    ASSUME NEW T, NEW s \in Seq(T), NEW r, NEW n, BeginningOf(r, s, T, n)
    PROVE  /\ Range(r) = {s[i] : i \in 1 .. n} /\ Range(r) \subseteq Range(s)
           /\ IsInjective(s) => IsInjective(r)
           /\ \A R : Sorted(s, R) => Sorted(r, R)
<1>1. /\ DOMAIN r = 1 .. n /\ DOMAIN s = 1 .. Len(s) /\ Len(s) \in Nat /\ n \in 0 .. Len(s)
      /\ \A i \in 1 .. n : r[i] = s[i] /\ i \in DOMAIN s
  BY DEF BeginningOf
<1>2. Range(r) = {s[i] : i \in 1 .. n}
  BY <1>1 DEF Range
<1>3. Range(r) \subseteq Range(s)
  BY <1>1 DEF Range
<1>4. IsInjective(s) => IsInjective(r)
  BY <1>1 DEF IsInjective
<1>5. \A R : Sorted(s, R) => Sorted(r, R)
  BY <1>1 DEF Sorted
<1> QED
  BY <1>2, <1>3, <1>4, <1>5

\* s[o : o + l] is what l leaves of the rest of s after o.
CutOf(r, s, T, o, l) ==
    LET k == IF Len(s) > o THEN Len(s) - o ELSE 0
    IN  /\ r \in Seq(T) /\ k \in Nat
        /\ Len(r) = IF l < k THEN l ELSE k
        /\ \A i \in 1 .. Len(r) : o + i \in 1 .. Len(s) /\ r[i] = s[o + i]

LEMMA CutLemma ==
    ASSUME NEW T, NEW s \in Seq(T), NEW o \in Nat, NEW l \in Nat
    PROVE  CutOf(Page(s, o, l), s, T, o, l)
<1> DEFINE k == IF Len(s) > o THEN Len(s) - o ELSE 0
           t == SubSeq(s, o + 1, Len(s))
<1>1. Len(s) \in Nat /\ k \in Nat /\ \A i \in 1 .. Len(s) : s[i] \in T
  OBVIOUS
<1>2. t \in Seq(T) /\ Len(t) = k /\ \A i \in 1 .. k : t[i] = s[o + i]
  <2>1. o + 1 \in Int /\ Len(s) \in Int /\ \A i \in o + 1 .. Len(s) : s[i] \in T
    BY <1>1
  <2>2. /\ SubSeq(s, o + 1, Len(s)) \in Seq(T)
        /\ Len(SubSeq(s, o + 1, Len(s))) =
              IF o + 1 <= Len(s) THEN Len(s) - (o + 1) + 1 ELSE 0
        /\ \A i \in 1 .. Len(s) - (o + 1) + 1 :
              SubSeq(s, o + 1, Len(s))[i] = s[o + 1 + i - 1]
    BY <1>1, <2>1, SubSeqProperties
  <2>3. Len(SubSeq(s, o + 1, Len(s))) = k
    BY <1>1, <2>2
  <2>4. ASSUME NEW i \in 1 .. k PROVE SubSeq(s, o + 1, Len(s))[i] = s[o + i]
    <3>1. i \in 1 .. Len(s) - (o + 1) + 1 /\ o + 1 + i - 1 = o + i
      BY <1>1
    <3> QED
      BY <2>2, <3>1
  <2> QED
    BY <2>2, <2>3, <2>4
<1>3. Page(s, o, l) = First(t, l)
  BY DEF Page
<1> HIDE DEF t
<1>4. BeginningOf(First(t, l), t, T, IF l < Len(t) THEN l ELSE Len(t))
  BY <1>2, FirstLemma
<1> DEFINE n == IF l < k THEN l ELSE k
<1>5. /\ First(t, l) \in Seq(T) /\ Len(First(t, l)) = n
      /\ n \in 0 .. k /\ \A i \in 1 .. n : First(t, l)[i] = t[i]
  BY <1>2, <1>4 DEF BeginningOf
<1>6. ASSUME NEW i \in 1 .. n PROVE o + i \in 1 .. Len(s) /\ First(t, l)[i] = s[o + i]
  <2>1. i \in 1 .. k
    BY <1>1, <1>5
  <2>2. o + i \in 1 .. Len(s)
    BY <1>1, <2>1
  <2> QED
    BY <1>2, <1>5, <2>1, <2>2
<1>7. /\ Page(s, o, l) \in Seq(T) /\ Len(Page(s, o, l)) = n
      /\ \A i \in 1 .. n : o + i \in 1 .. Len(s) /\ Page(s, o, l)[i] = s[o + i]
  BY <1>3, <1>5, <1>6
<1> QED
  BY <1>1, <1>7 DEF CutOf

-----------------------------------------------------------------------------
(* The store of documents, and how they score.                             *)

\* The store is a dict: it has a document once.
DocsInv == docs \in Seq(Docs) /\ IsInjective(docs)

\* The list and the set of the documents.
LEMMA StoredLemma ==
    ASSUME DocsInv
    PROVE  /\ docs \in Seq(Stored) /\ Stored \subseteq Docs
           /\ IsFiniteSet(Stored) /\ Cardinality(Stored) = Len(docs) /\ Len(docs) \in Nat
           /\ DOMAIN docs = 1 .. Len(docs)
           /\ \A d \in Stored : Place(d) = PlaceIn(docs, d) /\ Place(d) \in Nat
<1>1. /\ docs \in Seq(Docs) /\ IsInjective(docs) /\ Len(docs) \in Nat
      /\ DOMAIN docs = 1 .. Len(docs)
  BY DEF DocsInv
<1>2. Stored \subseteq Docs
  BY <1>1, ElementOfSeq DEF Stored, Range
<1>3. docs \in Seq(Stored)
  <2>1. docs = [i \in 1 .. Len(docs) |-> docs[i]] /\ \A i \in 1 .. Len(docs) : docs[i] \in Stored
    BY <1>1 DEF Stored, Range
  <2>2. docs \in [1 .. Len(docs) -> Stored]
    <3> HIDE DEF Stored
    <3> QED
      BY <2>1
  <2> QED
    BY <1>1, <2>2
<1>4. IsFiniteSet(Stored) /\ Cardinality(Stored) = Len(docs)
  BY <1>1, SizeLemma DEF Stored
<1>5. ASSUME NEW d \in Stored PROVE Place(d) = PlaceIn(docs, d) /\ Place(d) \in Nat
  <2>1. Place(d) = PlaceIn(docs, d)
    BY DEF Place, PlaceIn
  <2>2. PlaceIn(docs, d) \in DOMAIN docs
    BY <1>1, PlaceLemma DEF Stored
  <2> QED
    BY <1>1, <2>1, <2>2
<1> QED
  BY <1>1, <1>2, <1>3, <1>4, <1>5

\* A part of the store is finite.
LEMMA PartLemma ==
    ASSUME DocsInv, NEW S \in SUBSET Stored
    PROVE  /\ IsFiniteSet(S) /\ Cardinality(S) \in Nat /\ Cardinality(S) <= Len(docs)
           /\ Cardinality(S) = 0 <=> S = {}
<1>1. IsFiniteSet(Stored) /\ Cardinality(Stored) = Len(docs)
  BY StoredLemma
<1>2. IsFiniteSet(S) /\ Cardinality(S) <= Cardinality(Stored)
  BY <1>1, FS_Subset
<1> QED
  BY <1>1, <1>2, FS_CardinalityType, FS_EmptySet

\* No token weighs nothing.
LEMMA IdfLemma ==
    ASSUME DocsInv, NEW t
    PROVE  Df(t) \in Nat /\ Idf(t) \in Nat /\ Idf(t) > 0
<1>1. {d \in Stored : t \in TokensOf[d]} \in SUBSET Stored
  OBVIOUS
<1>2. Df(t) \in Nat /\ Df(t) <= Len(docs)
  BY <1>1, PartLemma DEF Df
<1>3. Len(docs) \in Nat
  BY StoredLemma
<1> QED
  BY <1>2, <1>3 DEF Idf

\* A sum of weights is positive if there is a token to weigh.
LEMMA SumIdfLemma ==
    ASSUME DocsInv, NEW ts
    PROVE  SumIdf(ts) \in Nat /\ (SumIdf(ts) > 0 <=> Range(Alphabet) \cap ts # {})
<1> DEFINE terms == Selected(Alphabet, ts)
           v == [i \in DOMAIN terms |-> Idf(terms[i])]
<1>1. terms \in Seq(Range(Alphabet)) /\ Range(terms) = Range(Alphabet) \cap ts
  BY SelectedLemma, FeatureSearchAssumption
<1>2. SumIdf(ts) = Total(v)
  BY DEF SumIdf
<1> HIDE DEF terms
<1>3. v \in Seq(Nat) /\ Len(v) = Len(terms) /\ \A i \in 1 .. Len(v) : v[i] > 0
  <2>1. DOMAIN terms = 1 .. Len(terms) /\ Len(terms) \in Nat
    BY <1>1
  <2>2. \A i \in DOMAIN terms : Idf(terms[i]) \in Nat /\ Idf(terms[i]) > 0
    BY IdfLemma
  <2> QED
    BY <2>1, <2>2
<1> HIDE DEF v
<1>4. Total(v) \in Nat /\ (Total(v) > 0 <=> Len(v) > 0)
  BY <1>3, TotalPositive
<1>5. Len(terms) > 0 <=> Range(terms) # {}
  <2>1. DOMAIN terms = 1 .. Len(terms) /\ Len(terms) \in Nat
    BY <1>1
  <2>2. Len(terms) > 0 => terms[1] \in Range(terms)
    BY <2>1 DEF Range
  <2>3. Range(terms) # {} => Len(terms) > 0
    BY <2>1 DEF Range
  <2> QED
    BY <2>2, <2>3
<1> QED
  BY <1>1, <1>2, <1>3, <1>4, <1>5

\* A document scores if the query reaches it.
LEMMA ScoreLemma ==
    ASSUME DocsInv, NEW d \in Stored, NEW q
    PROVE  Score(d, q) \in Nat /\ (Score(d, q) > 0 <=> Reached(d, q))
<1> DEFINE tokens == TokensOf[d]
           typed == SumIdf(q \cap tokens)
           near == SumIdf(Synonyms(q) \cap tokens)
<1>1. tokens \subseteq Range(Alphabet)
  <2>1. d \in Docs
    BY StoredLemma
  <2> QED
    BY <2>1, FeatureSearchAssumption
<1>2. typed \in Nat /\ near \in Nat /\ Score(d, q) = 2 * typed + near
  BY SumIdfLemma DEF Score
<1>3. typed > 0 <=> tokens \cap q # {}
  <2>1. typed > 0 <=> Range(Alphabet) \cap (q \cap tokens) # {}
    BY SumIdfLemma
  <2> QED
    BY <1>1, <2>1
<1>4. near > 0 <=> Synonyms(q) \cap tokens # {}
  <2>1. near > 0 <=> Range(Alphabet) \cap (Synonyms(q) \cap tokens) # {}
    BY SumIdfLemma
  <2> QED
    BY <1>1, <2>1
<1> HIDE DEF typed, near, tokens
<1>5. Score(d, q) > 0 <=> typed > 0 \/ near > 0
  BY <1>2
<1>6. tokens \cap q = {} =>
         (Synonyms(q) \cap tokens # {} <=> LabelsOf(tokens) \cap LabelsOf(q) # {})
  <2> SUFFICES ASSUME tokens \cap q = {}
               PROVE  Synonyms(q) \cap tokens # {} <=> LabelsOf(tokens) \cap LabelsOf(q) # {}
    OBVIOUS
  <2>1. ASSUME NEW t \in Synonyms(q) \cap tokens PROVE LabelsOf(tokens) \cap LabelsOf(q) # {}
    <3>1. PICK c \in LabelsOf(q) : t \in MembersOf[c]
      BY <2>1 DEF Synonyms
    <3>2. c \in LabelsOf(tokens)
      BY <2>1, <3>1 DEF LabelsOf
    <3> QED
      BY <3>1, <3>2
  <2>2. ASSUME NEW c \in LabelsOf(tokens) \cap LabelsOf(q) PROVE Synonyms(q) \cap tokens # {}
    <3>1. PICK t \in MembersOf[c] : t \in tokens
      BY <2>2 DEF LabelsOf
    <3>2. t \notin q /\ c \in LabelsOf(q)
      BY <2>2, <3>1, tokens \cap q = {}
    <3>3. t \in UNION {MembersOf[l] : l \in LabelsOf(q)}
      BY <3>1, <3>2
    <3>4. t \in Synonyms(q)
      BY <3>2, <3>3 DEF Synonyms
    <3> QED
      BY <3>1, <3>4
  <2> QED
    BY <2>1, <2>2
<1> QED
  BY <1>2, <1>3, <1>4, <1>5, <1>6 DEF Reached, tokens

-----------------------------------------------------------------------------
(* The ranking.                                                            *)

\* Who outranks whom, as a relation.
Ranking(q) == {p \in Stored \X Stored : Outranks(p[1], p[2], q)}

\* score_all sorts by rank.
LEMMA RankingLemma ==
    ASSUME DocsInv, NEW q
    PROVE  SortedBy(ScoreAll(q), docs, Stored, [d \in Stored |-> Score(d, q)])
           /\ Sorted(ScoreAll(q), Ranking(q))
<1> DEFINE key == [d \in Stored |-> Score(d, q)]
           s == docs
<1>1. /\ s \in Seq(Stored) /\ IsInjective(s) /\ Range(s) = Stored
      /\ \A i \in DOMAIN s : s[i] \in Stored
  BY StoredLemma DEF DocsInv, Stored, Range
<1>2. \A d \in Stored : key[d] = Score(d, q) /\ key[d] \in Int
  BY ScoreLemma
<1>3. ScoreAll(q) = Descending(s, key)
  BY DEF ScoreAll
<1>4. \A d \in Stored : PlaceIn(s, d) = Place(d)
  BY StoredLemma
<1> HIDE DEF key, s
<1>5. SortedBy(Descending(s, key), s, Stored, key)
  BY <1>1, <1>2, DescendingLemma
<1>6. ByKey(s, key) \subseteq Ranking(q)
  <2> SUFFICES ASSUME NEW p \in ByKey(s, key) PROVE p \in Ranking(q)
    OBVIOUS
  <2>1. /\ p \in Stored \X Stored
        /\ key[p[1]] > key[p[2]] \/ (key[p[1]] = key[p[2]] /\ PlaceIn(s, p[1]) < PlaceIn(s, p[2]))
    <3>1. p \in Range(s) \X Range(s)
      BY DEF ByKey
    <3>2. key[p[1]] > key[p[2]] \/ (key[p[1]] = key[p[2]] /\ PlaceIn(s, p[1]) < PlaceIn(s, p[2]))
      BY DEF ByKey
    <3> QED
      BY <1>1, <3>1, <3>2
  <2>2. p[1] \in Stored /\ p[2] \in Stored
    BY <2>1
  <2> QED
    BY <1>2, <1>4, <2>1, <2>2 DEF Ranking, Outranks
<1>7. Sorted(ScoreAll(q), Ranking(q))
  BY <1>3, <1>5, <1>6 DEF SortedBy, Sorted
<1> QED
  BY <1>3, <1>5, <1>7 DEF key, s

\* The hits are the documents that a search may return, ranked.
HitsOf(h, q, minScore) ==
    /\ h \in Seq(Stored) /\ IsInjective(h)
    /\ Range(h) = {d \in Stored : Hit(d, q, minScore)}
    /\ Sorted(h, Ranking(q))

LEMMA TimesMonotonic ==
    ASSUME NEW m \in Nat, NEW a \in Nat, NEW b \in Nat, a <= b PROVE m * a <= m * b
<1>1. PICK c \in Nat : b = a + c
  <2>1. b - a \in Nat /\ b = a + (b - a)
    OBVIOUS
  <2> QED
    BY <2>1
<1>2. m * b = m * a + m * c /\ m * c \in Nat /\ m * a \in Nat
  BY <1>1
<1> QED
  BY <1>2

\* The threshold by the first of the ranking is one by the best of the store.
LEMMA HitsLemma ==
    ASSUME DocsInv, NEW q, NEW minScore \in Nat
    PROVE  HitsOf(Hits(q, minScore), q, minScore)
<1> DEFINE scored == ScoreAll(q)
           best == Score(scored[1], q)
           kept == {d \in Stored : /\ Score(d, q) > 0
                                   /\ Scale * Score(d, q) >= minScore * best}
           h == Hits(q, minScore)
<1>1. /\ scored \in Seq(Stored) /\ Len(scored) \in Nat /\ IsInjective(scored)
      /\ Range(scored) = Stored /\ Sorted(scored, Ranking(q))
  <2>1. Sorted(scored, Ranking(q)) /\ SortedBy(scored, docs, Stored, [d \in Stored |-> Score(d, q)])
    BY RankingLemma
  <2> HIDE DEF scored
  <2> QED
    BY <2>1 DEF SortedBy, Stored
<1>2. h = Selected(scored, kept)
  BY DEF Hits
<1> HIDE DEF scored
<1>3. ASSUME NEW e \in Stored
      PROVE  scored[1] \in Stored /\ Score(e, q) <= best /\ best \in Nat /\ Score(e, q) \in Nat
  <2>1. PICK i \in 1 .. Len(scored) : scored[i] = e
    BY <1>1, LenProperties DEF Range
  <2>2. 1 \in DOMAIN scored /\ i \in DOMAIN scored /\ scored[1] \in Stored
    BY <1>1
  <2>3. best \in Nat /\ Score(e, q) \in Nat
    BY <2>2, ScoreLemma
  <2>4. CASE i = 1
    BY <2>1, <2>2, <2>3, <2>4
  <2>5. CASE 1 < i
    <3>1. <<scored[1], e>> \in Ranking(q)
      BY <1>1, <2>1, <2>2, <2>5 DEF Sorted
    <3>2. Outranks(scored[1], e, q)
      BY <3>1 DEF Ranking
    <3> QED
      BY <2>2, <2>3, <3>2 DEF Outranks
  <2> QED
    BY <2>2, <2>3, <2>4, <2>5
<1>4. kept = {d \in Stored : Hit(d, q, minScore)}
  <2> SUFFICES ASSUME NEW d \in Stored
               PROVE  Scale * Score(d, q) >= minScore * best <=>
                      \A e \in Stored : Scale * Score(d, q) >= minScore * Score(e, q)
    BY DEF Hit
  <2>1. scored[1] \in Stored
    BY <1>3
  <2>2. ASSUME NEW e \in Stored, Scale * Score(d, q) >= minScore * best
        PROVE  Scale * Score(d, q) >= minScore * Score(e, q)
    <3>1. Score(e, q) <= best /\ best \in Nat /\ Score(e, q) \in Nat /\ Score(d, q) \in Nat
      BY <1>3
    <3> HIDE DEF best
    <3>2. minScore * Score(e, q) <= minScore * best
      BY <3>1, TimesMonotonic
    <3>3. Scale * Score(d, q) \in Nat /\ minScore * best \in Nat /\ minScore * Score(e, q) \in Nat
      BY <3>1 DEF Scale
    <3> QED
      BY ONLY <2>2, <3>2, <3>3
  <2> QED
    BY <2>1, <2>2
<1> HIDE DEF kept, best
<1>5. h \in Seq(Stored) /\ Range(h) = Range(scored) \cap kept /\ IsInjective(h)
  BY <1>1, <1>2, SelectedLemma
<1>6. Sorted(h, Ranking(q))
  BY <1>1, <1>2, SortedSelected
<1>7. kept \subseteq Stored
  BY DEF kept
<1> QED
  BY <1>1, <1>4, <1>5, <1>6, <1>7 DEF HitsOf, h

-----------------------------------------------------------------------------
(* The invariant.                                                          *)

\* The answers, given the documents of the index.
FeaturesAnswer(q, limit, start, minScore) ==
    [kind |-> "features", q |-> q, limit |-> limit, offset |-> start,
     minScore |-> minScore, results |-> Page(Hits(q, minScore), start, limit)]

CompletionsAnswer(prefix, limit) ==
    [kind |-> "completions", prefix |-> prefix, limit |-> limit,
     results |-> Completions(prefix, limit)]

RelatedAnswer(q, k, limit, n) ==
    LET seeds == First(Hits(q, 0), k)
        related == Related(q, seeds, limit)
    IN  [kind |-> "related", q |-> q, limit |-> limit, suggestLimit |-> n,
         seeds |-> seeds, related |-> related, suggested |-> Suggest(q, seeds, related, n)]

\* An answer is what the endpoint gives for the documents that are stored now:
\* after it nothing is.
Answered ==
    \/ answer = NoAnswer
    \/ \E q \in Queries, limit \in Limits, start \in Offsets, minScore \in MinScores :
          answer = FeaturesAnswer(q, limit, start, minScore)
    \/ \E prefix \in DOMAIN Begins, limit \in Limits : answer = CompletionsAnswer(prefix, limit)
    \/ \E q \in Queries, k \in SeedKs, limit \in Limits, n \in SuggestLimits :
          answer = RelatedAnswer(q, k, limit, n)

SearchInv == DocsInv /\ Answered

LEMMA SearchInvInit == SearchInit => SearchInv
  BY EmptyLemma DEF SearchInit, SearchInv, DocsInv, Answered

LEMMA AddInv ==
    ASSUME SearchInv, NEW d \in Docs, AddDocument(d)
    PROVE  SearchInv'
<1>1. answer = NoAnswer /\ answer' = NoAnswer
  BY DEF AddDocument
<1>2. DocsInv'
  <2>1. CASE d \in Stored
    BY <2>1 DEF AddDocument, SearchInv, DocsInv
  <2>2. CASE d \notin Stored
    <3>1. docs' = Append(docs, d) /\ docs \in Seq(Docs) /\ IsInjective(docs) /\ d \notin Range(docs)
      BY <2>2 DEF AddDocument, SearchInv, DocsInv, Stored
    <3>2. Append(docs, d) \in Seq(Docs) /\ IsInjective(Append(docs, d))
      BY <3>1, AppendLemma
    <3> QED
      BY <3>1, <3>2 DEF DocsInv
  <2> QED
    BY <2>1, <2>2
<1> QED
  BY <1>1, <1>2 DEF SearchInv, Answered

\* What an answer is made of depends on the documents only.
LEMMA SameAnswers ==
    ASSUME docs' = docs
    PROVE  /\ \A q, limit, start, minScore :
                 FeaturesAnswer(q, limit, start, minScore)' = FeaturesAnswer(q, limit, start, minScore)
           /\ \A prefix, limit : CompletionsAnswer(prefix, limit)' = CompletionsAnswer(prefix, limit)
           /\ \A q, k, limit, n : RelatedAnswer(q, k, limit, n)' = RelatedAnswer(q, k, limit, n)
<1>1. Stored' = Stored
  BY DEF Stored
<1>2. \A t : Df(t)' = Df(t) /\ Idf(t)' = Idf(t)
  BY <1>1 DEF Df, Idf
<1>3. \A ts : SumIdf(ts)' = SumIdf(ts)
  BY <1>2 DEF SumIdf
<1>4. \A d, q : Score(d, q)' = Score(d, q)
  BY <1>3 DEF Score
<1>5. \A q : ScoreAll(q)' = ScoreAll(q)
  BY <1>1, <1>4 DEF ScoreAll
<1>6. \A q, minScore : Hits(q, minScore)' = Hits(q, minScore)
  BY <1>1, <1>4, <1>5 DEF Hits
<1>7. \A x : Weight(x)' = Weight(x)
  BY <1>1, <1>2 DEF Weight
<1>8. \A prefix, limit : Completions(prefix, limit)' = Completions(prefix, limit)
  BY <1>7 DEF Completions, Candidates, Weights
<1>9. \A n : Ubiquitous(n)' = Ubiquitous(n)
  BY DEF Ubiquitous
<1>10. \A d : DistinctiveTags(d)' = DistinctiveTags(d)
  BY <1>1, <1>9 DEF DistinctiveTags
<1>11. \A d, q : DistinctiveTokens(d, q)' = DistinctiveTokens(d, q)
  BY <1>2, <1>9 DEF DistinctiveTokens
<1>12. \A a, b : TermOverlap(a, b)' = TermOverlap(a, b)
  BY <1>3 DEF TermOverlap
<1>13. \A s, d, q : Overlaps(s, d, q)' = Overlaps(s, d, q)
  BY <1>10, <1>11 DEF Overlaps
<1>14. \A s, d, q : Content(s, d, q)' = Content(s, d, q)
  BY <1>10, <1>11, <1>12 DEF Content
<1>15. \A s, d, q : Relatedness(s, d, q)' = Relatedness(s, d, q)
  BY <1>13, <1>14 DEF Relatedness
<1>16. \A d, seeds, q : Supporters(d, seeds, q)' = Supporters(d, seeds, q)
  BY <1>13 DEF Supporters
<1>17. \A d, seeds, q : Best(d, seeds, q)' = Best(d, seeds, q)
  BY <1>15 DEF Best
<1>18. \A seeds, q : Closeness(seeds, q)' = Closeness(seeds, q)
  BY <1>1, <1>16, <1>17 DEF Closeness
<1>19. \A seeds, q : RelatedTo(seeds, q)' = RelatedTo(seeds, q)
  BY <1>1, <1>16 DEF RelatedTo
<1>20. \A q, seeds, limit : Related(q, seeds, limit)' = Related(q, seeds, limit)
  BY <1>18, <1>19 DEF Related
<1>21. \A q, seeds, related : Features(q, seeds, related)' = Features(q, seeds, related)
  BY <1>16 DEF Features
<1>22. \A q, seeds, related, limit :
          Suggest(q, seeds, related, limit)' = Suggest(q, seeds, related, limit)
  BY <1>21 DEF Suggest
<1>23. \A q, limit, start, minScore :
          FeaturesAnswer(q, limit, start, minScore)' = FeaturesAnswer(q, limit, start, minScore)
  BY <1>6 DEF FeaturesAnswer
<1>24. \A prefix, limit : CompletionsAnswer(prefix, limit)' = CompletionsAnswer(prefix, limit)
  BY <1>8 DEF CompletionsAnswer
<1>25. \A q, k, limit, n : RelatedAnswer(q, k, limit, n)' = RelatedAnswer(q, k, limit, n)
  BY <1>6, <1>20, <1>22 DEF RelatedAnswer
<1> QED
  BY <1>23, <1>24, <1>25

LEMMA AnsweredStep ==
    ASSUME SearchInv, docs' = docs,
           \/ answer' = answer
           \/ \E q \in Queries, limit \in Limits, start \in Offsets, minScore \in MinScores :
                 SearchFeatures(q, limit, start, minScore)
           \/ \E prefix \in DOMAIN Begins, limit \in Limits : Complete(prefix, limit)
           \/ \E q \in Queries, k \in SeedKs, limit \in Limits, n \in SuggestLimits :
                 AskRelated(q, k, limit, n)
    PROVE  SearchInv'
<1>1. DocsInv'
  BY DEF SearchInv, DocsInv
<1>2. CASE answer' = answer
  <2>1. Answered'
    BY <1>2, SameAnswers DEF SearchInv, Answered
  <2> QED
    BY <1>1, <2>1 DEF SearchInv
<1>3. ASSUME NEW q \in Queries, NEW limit \in Limits, NEW start \in Offsets,
             NEW minScore \in MinScores, SearchFeatures(q, limit, start, minScore)
      PROVE  SearchInv'
  <2>1. answer' = FeaturesAnswer(q, limit, start, minScore)
    BY <1>3 DEF SearchFeatures, FeaturesAnswer
  <2>2. answer' = FeaturesAnswer(q, limit, start, minScore)'
    BY <2>1, SameAnswers
  <2> QED
    BY <1>1, <2>2 DEF SearchInv, Answered
<1>4. ASSUME NEW prefix \in DOMAIN Begins, NEW limit \in Limits, Complete(prefix, limit)
      PROVE  SearchInv'
  <2>1. answer' = CompletionsAnswer(prefix, limit)
    BY <1>4 DEF Complete, CompletionsAnswer
  <2>2. answer' = CompletionsAnswer(prefix, limit)'
    BY <2>1, SameAnswers
  <2> QED
    BY <1>1, <2>2 DEF SearchInv, Answered
<1>5. ASSUME NEW q \in Queries, NEW k \in SeedKs, NEW limit \in Limits, NEW n \in SuggestLimits,
             AskRelated(q, k, limit, n)
      PROVE  SearchInv'
  <2>1. answer' = RelatedAnswer(q, k, limit, n)
    BY <1>5 DEF AskRelated, RelatedAnswer
  <2>2. answer' = RelatedAnswer(q, k, limit, n)'
    BY <2>1, SameAnswers
  <2> QED
    BY <1>1, <2>2 DEF SearchInv, Answered
<1> QED
  BY <1>2, <1>3, <1>4, <1>5

LEMMA SearchInvNext == SearchInv /\ [SearchNext]_searchVars => SearchInv'
<1> SUFFICES ASSUME SearchInv, [SearchNext]_searchVars PROVE SearchInv'
  OBVIOUS
<1>1. ASSUME NEW d \in Docs, AddDocument(d) PROVE SearchInv'
  BY <1>1, AddInv
<1>2. ASSUME NEW prefix \in DOMAIN Begins, NEW limit \in Limits, Complete(prefix, limit)
      PROVE  SearchInv'
  <2>1. docs' = docs
    BY <1>2 DEF Complete
  <2> QED
    BY <1>2, <2>1, AnsweredStep
<1>3. ASSUME NEW q \in Queries, NEW limit \in Limits, NEW start \in Offsets,
             NEW minScore \in MinScores, SearchFeatures(q, limit, start, minScore)
      PROVE  SearchInv'
  <2>1. docs' = docs
    BY <1>3 DEF SearchFeatures
  <2> QED
    BY <1>3, <2>1, AnsweredStep
<1>4. ASSUME NEW q \in Queries, NEW k \in SeedKs, NEW limit \in Limits, NEW n \in SuggestLimits,
             AskRelated(q, k, limit, n)
      PROVE  SearchInv'
  <2>1. docs' = docs
    BY <1>4 DEF AskRelated
  <2> QED
    BY <1>4, <2>1, AnsweredStep
<1>5. CASE UNCHANGED searchVars
  BY <1>5, AnsweredStep DEF searchVars
<1> QED
  BY <1>1, <1>2, <1>3, <1>4, <1>5 DEF SearchNext

LEMMA SearchInvariance == SearchSpec => []SearchInv
<1>1. SearchInit => SearchInv
  BY SearchInvInit
<1>2. SearchInv /\ [SearchNext]_searchVars => SearchInv'
  BY SearchInvNext
<1> QED
  BY <1>1, <1>2, PTL DEF SearchSpec

-----------------------------------------------------------------------------
(* Pages.                                                                  *)

LEMMA OutranksLemma ==
    ASSUME DocsInv, NEW d \in Stored, NEW e \in Stored, NEW q, Outranks(d, e, q)
    PROVE  ~Outranks(e, d, q)
<1>1. /\ Score(d, q) \in Nat /\ Score(e, q) \in Nat
      /\ Place(d) \in Nat /\ Place(e) \in Nat
  BY ScoreLemma, StoredLemma
<1> QED
  BY <1>1 DEF Outranks

\* The k-th hit is outranked by those before it and by no other.
LEMMA OutrankingLemma ==
    ASSUME DocsInv, NEW q, NEW minScore, NEW h, HitsOf(h, q, minScore), NEW k \in 1 .. Len(h)
    PROVE  Cardinality(Outranking(h[k], q, minScore)) = k - 1
<1> DEFINE b == First(h, k - 1)
<1>1. /\ h \in Seq(Stored) /\ IsInjective(h) /\ Sorted(h, Ranking(q))
      /\ Len(h) \in Nat /\ DOMAIN h = 1 .. Len(h) /\ k \in Nat /\ k - 1 \in Nat /\ k <= Len(h)
  BY DEF HitsOf
<1>2. \A x : x \in Range(h) <=> x \in Stored /\ Hit(x, q, minScore)
  BY DEF HitsOf
<1>3. BeginningOf(b, h, Stored, k - 1)
  <2>1. BeginningOf(b, h, Stored, IF k - 1 < Len(h) THEN k - 1 ELSE Len(h))
    BY <1>1, FirstLemma
  <2>2. k - 1 < Len(h)
    BY <1>1
  <2> HIDE DEF b
  <2> QED
    BY <2>1, <2>2
<1> HIDE DEF b
<1>4. b \in Seq(Stored) /\ Len(b) = k - 1
  BY <1>3 DEF BeginningOf
<1>5. IsInjective(b) /\ Range(b) = {h[i] : i \in 1 .. k - 1}
  BY <1>1, <1>3, BeginningLemma
<1>6. ASSUME NEW i \in 1 .. Len(h), NEW j \in 1 .. Len(h), i < j
      PROVE  Outranks(h[i], h[j], q)
  BY <1>1, <1>6 DEF Sorted, Ranking
<1>7. \A i \in 1 .. Len(h) : h[i] \in Stored /\ h[i] \in Range(h)
  BY <1>1 DEF Range
<1>8. ASSUME NEW x \in Range(b) PROVE x \in Outranking(h[k], q, minScore)
  <2>1. PICK i \in 1 .. k - 1 : x = h[i]
    BY <1>5
  <2>2. i \in 1 .. Len(h) /\ i < k
    BY <1>1
  <2> QED
    BY <1>2, <1>6, <1>7, <2>1, <2>2 DEF Outranking
<1>9. ASSUME NEW x \in Outranking(h[k], q, minScore) PROVE x \in Range(b)
  <2>1. x \in Range(h) /\ Outranks(x, h[k], q)
    BY <1>2 DEF Outranking
  <2>2. PICK i \in 1 .. Len(h) : x = h[i]
    BY <1>1, <2>1 DEF Range
  <2>3. ~Outranks(h[k], x, q)
    BY <1>7, <2>1, <2>2, OutranksLemma
  <2>4. ~(k < i)
    BY <1>6, <2>2, <2>3
  <2>5. i # k
    BY <2>1, <2>2, <2>3
  <2>6. i \in 1 .. k - 1
    BY <1>1, <2>4, <2>5
  <2> QED
    BY <1>5, <2>2, <2>6
<1>10. Outranking(h[k], q, minScore) = Range(b)
  BY <1>8, <1>9
<1> QED
  BY <1>4, <1>5, <1>10, SizeLemma

\* At each rank there is one hit, as long as there are hits.
LEMMA AtRankLemma ==
    ASSUME DocsInv, NEW q, NEW minScore, NEW h, HitsOf(h, q, minScore), NEW n \in Nat
    PROVE  AtRank(n, q, minScore) = IF n + 1 <= Len(h) THEN {h[n + 1]} ELSE {}
<1>1. /\ h \in Seq(Stored) /\ Len(h) \in Nat /\ DOMAIN h = 1 .. Len(h)
      /\ Range(h) = {d \in Stored : Hit(d, q, minScore)}
  BY DEF HitsOf
<1>2. ASSUME NEW d \in AtRank(n, q, minScore)
      PROVE  n + 1 <= Len(h) /\ d = h[n + 1]
  <2>1. d \in Range(h) /\ Cardinality(Outranking(d, q, minScore)) = n
    BY <1>1 DEF AtRank
  <2>2. PICK k \in 1 .. Len(h) : d = h[k]
    BY <1>1, <2>1 DEF Range
  <2>3. k - 1 = n
    BY <2>1, <2>2, OutrankingLemma
  <2>4. k = n + 1 /\ n + 1 <= Len(h)
    BY <1>1, <2>3
  <2> QED
    BY <2>2, <2>4
<1>3. ASSUME n + 1 <= Len(h) PROVE h[n + 1] \in AtRank(n, q, minScore)
  <2>1. n + 1 \in 1 .. Len(h) /\ n + 1 - 1 = n
    BY <1>1, <1>3
  <2>2. PICK k \in 1 .. Len(h) : k = n + 1 /\ k - 1 = n
    BY <2>1
  <2>3. h[k] \in Range(h) /\ Cardinality(Outranking(h[k], q, minScore)) = n
    BY <1>1, <2>2, OutrankingLemma DEF Range
  <2> QED
    BY <1>1, <2>2, <2>3 DEF AtRank
<1> QED
  BY <1>2, <1>3

\* A page is a slice of the ranking of all hits.
LEMMA PageRanked ==
    ASSUME DocsInv, NEW q, NEW minScore \in Nat, NEW o \in Nat, NEW l \in Nat, NEW n \in 1 .. l
    PROVE  LET r == Page(Hits(q, minScore), o, l)
           IN  AtRank(o + n - 1, q, minScore) = IF n <= Len(r) THEN {r[n]} ELSE {}
<1> DEFINE h == Hits(q, minScore)
           r == Page(h, o, l)
           k == IF Len(h) > o THEN Len(h) - o ELSE 0
<1>1. HitsOf(h, q, minScore) /\ h \in Seq(Stored) /\ Len(h) \in Nat
  <2>1. HitsOf(h, q, minScore)
    BY HitsLemma
  <2> HIDE DEF h
  <2> QED
    BY <2>1 DEF HitsOf
<1> HIDE DEF h
<1>2. /\ k \in Nat /\ Len(r) = IF l < k THEN l ELSE k
      /\ \A i \in 1 .. Len(r) : o + i \in 1 .. Len(h) /\ r[i] = h[o + i]
  <2>1. CutOf(r, h, Stored, o, l)
    BY <1>1, CutLemma
  <2> HIDE DEF r
  <2> QED
    BY <2>1 DEF CutOf
<1> HIDE DEF r
<1>3. o + n - 1 \in Nat /\ o + n - 1 + 1 = o + n /\ n \in Nat /\ n >= 1 /\ n <= l
  OBVIOUS
<1>4. AtRank(o + n - 1, q, minScore) =
         IF o + n - 1 + 1 <= Len(h) THEN {h[o + n - 1 + 1]} ELSE {}
  BY <1>1, <1>3, AtRankLemma
<1>5. n <= Len(r) <=> o + n <= Len(h)
  BY <1>1, <1>2, <1>3
<1>6. ASSUME n <= Len(r) PROVE r[n] = h[o + n]
  <2>1. n \in 1 .. Len(r)
    BY <1>2, <1>3, <1>6
  <2> QED
    BY <1>2, <2>1
<1> HIDE DEF k
<1>7. AtRank(o + n - 1, q, minScore) = IF n <= Len(r) THEN {r[n]} ELSE {}
  <2>1. CASE n <= Len(r)
    BY <1>3, <1>4, <1>5, <1>6, <2>1
  <2>2. CASE ~(n <= Len(r))
    BY <1>3, <1>4, <1>5, <2>2
  <2> QED
    BY <2>1, <2>2
<1> QED
  BY <1>7 DEF r, h

\* With no score to reach the pages have what the query reaches.
LEMMA PageReaches ==
    ASSUME DocsInv, NEW q, NEW o \in Nat, NEW l \in Nat
    PROVE  LET r == Page(Hits(q, 0), o, l)
               found == Cardinality({d \in Stored : Reached(d, q)})
           IN  /\ \A d \in Range(r) : Reached(d, q)
               /\ Len(r) = Min({l, IF found > o THEN found - o ELSE 0})
<1> DEFINE h == Hits(q, 0)
           r == Page(h, o, l)
           S == {d \in Stored : Reached(d, q)}
<1>1. HitsOf(h, q, 0)
  BY HitsLemma
<1>2. \A d \in Stored : Hit(d, q, 0) <=> Reached(d, q)
  <2> SUFFICES ASSUME NEW d \in Stored PROVE Hit(d, q, 0) <=> Reached(d, q)
    OBVIOUS
  <2>1. Score(d, q) \in Nat /\ (Score(d, q) > 0 <=> Reached(d, q))
    BY ScoreLemma
  <2>2. \A e \in Stored : Score(e, q) \in Nat
    BY ScoreLemma
  <2> QED
    BY <2>1, <2>2 DEF Hit, Scale
<1> HIDE DEF h
<1>3. /\ h \in Seq(Stored) /\ IsInjective(h) /\ Len(h) \in Nat /\ Range(h) = S
      /\ DOMAIN h = 1 .. Len(h)
  BY <1>1, <1>2 DEF HitsOf
<1>4. Cardinality(S) = Len(h)
  BY <1>3, SizeLemma
<1> DEFINE k == IF Len(h) > o THEN Len(h) - o ELSE 0
<1>5. /\ r \in Seq(Stored) /\ k \in Nat /\ Len(r) = IF l < k THEN l ELSE k
      /\ \A i \in 1 .. Len(r) : o + i \in 1 .. Len(h) /\ r[i] = h[o + i]
  <2>1. CutOf(r, h, Stored, o, l)
    BY <1>3, CutLemma
  <2> HIDE DEF r
  <2> QED
    BY <2>1 DEF CutOf
<1> HIDE DEF r
<1>6. ASSUME NEW d \in Range(r) PROVE Reached(d, q)
  <2>1. PICK i \in 1 .. Len(r) : d = r[i]
    BY <1>5, LenProperties DEF Range
  <2>2. d \in Range(h)
    BY <1>3, <1>5, <2>1 DEF Range
  <2> QED
    BY <1>3, <2>2
<1>7. Len(r) = Min({l, k})
  BY <1>5, MinOfTwo
<1> HIDE DEF S
<1>8. k = IF Cardinality(S) > o THEN Cardinality(S) - o ELSE 0
  BY <1>4
<1> HIDE DEF k
<1> QED
  BY <1>6, <1>7, <1>8 DEF r, h, S

LEMMA HitsTyped ==
    ASSUME DocsInv, NEW q, NEW minScore \in Nat, NEW o \in Nat, NEW l \in Nat
    PROVE  LET r == Page(Hits(q, minScore), o, l) IN r \in Seq(Stored) /\ Len(r) <= l
<1> DEFINE h == Hits(q, minScore)
           r == Page(h, o, l)
<1>1. h \in Seq(Stored)
  BY HitsLemma DEF HitsOf
<1> HIDE DEF h
<1>2. CutOf(r, h, Stored, o, l)
  BY <1>1, CutLemma
<1> HIDE DEF r
<1>3. r \in Seq(Stored) /\ Len(r) <= l
  BY <1>2 DEF CutOf
<1> QED
  BY <1>3 DEF h, r

-----------------------------------------------------------------------------
(* The best of a list.                                                     *)

\* The n best of C by their key, as a list.
BestOf(r, C, key, T, n) ==
    /\ r \in Seq(T) /\ IsInjective(r) /\ Range(r) \subseteq C
    /\ IsFiniteSet(C) /\ Cardinality(C) \in Nat
    /\ Len(r) = IF n < Cardinality(C) THEN n ELSE Cardinality(C)
    /\ \A i, j \in 1 .. Len(r) : i < j => key[r[j]] <= key[r[i]]
    /\ \A i \in 1 .. Len(r) : \A x \in C \ Range(First(r, i)) : key[x] <= key[r[i]]
    /\ \A x \in C \ Range(r) : Len(r) = n /\ \A y \in Range(r) : key[x] <= key[y]

\* What sorting before cutting gives.
LEMMA BestLemma ==
    ASSUME NEW T, NEW s \in Seq(T), IsInjective(s), NEW S,
           NEW key, \A x \in Range(s) \cap S : key[x] \in Int, NEW n \in Nat
    PROVE  BestOf(First(Descending(Selected(s, S), key), n), Range(s) \cap S, key, T, n)
<1> DEFINE c == Selected(s, S)
           C == Range(s) \cap S
           a == Descending(c, key)
           r == First(a, n)
<1>1. c \in Seq(T) /\ IsInjective(c) /\ Range(c) = C
  BY SelectedLemma
<1>2. \A x \in C : key[x] \in Int
  OBVIOUS
<1> HIDE DEF c, C
<1>3. \A i \in DOMAIN c : key[c[i]] \in Int
  BY <1>1, <1>2 DEF Range
<1>4. SortedBy(a, c, T, key)
  BY <1>1, <1>3, DescendingLemma
<1> HIDE DEF a
<1>5. /\ a \in Seq(T) /\ IsInjective(a) /\ Range(a) = C /\ Sorted(a, ByKey(c, key))
      /\ Len(a) \in Nat /\ DOMAIN a = 1 .. Len(a)
  BY <1>1, <1>4 DEF SortedBy
<1>6. IsFiniteSet(C) /\ Cardinality(C) = Len(a)
  BY <1>5, SizeLemma
<1>7. ASSUME NEW i \in 1 .. Len(a), NEW j \in 1 .. Len(a), i < j
      PROVE  key[a[j]] <= key[a[i]]
  <2>1. a[i] \in C /\ a[j] \in C
    BY <1>5 DEF Range
  <2>2. <<a[i], a[j]>> \in ByKey(c, key)
    BY <1>5, <1>7 DEF Sorted
  <2>3. key[a[i]] > key[a[j]] \/ key[a[i]] = key[a[j]]
    BY <2>2 DEF ByKey
  <2> QED
    BY <1>2, <2>1, <2>3
<1> DEFINE k == IF n < Len(a) THEN n ELSE Len(a)
<1>8. BeginningOf(r, a, T, k)
  BY <1>5, FirstLemma
<1> HIDE DEF r
<1>9. k \in Nat /\ k <= n /\ k <= Len(a) /\ (k < Len(a) => k = n)
  <2>1. Len(a) \in Nat
    BY <1>5
  <2> QED
    BY ONLY <2>1, n \in Nat
<1> HIDE DEF k
<1>10. /\ r \in Seq(T) /\ Len(r) = k /\ DOMAIN r = 1 .. k
       /\ \A i \in 1 .. k : r[i] = a[i] /\ i \in 1 .. Len(a)
  BY <1>5, <1>8, <1>9 DEF BeginningOf
<1>11. IsInjective(r) /\ Range(r) = {a[i] : i \in 1 .. k} /\ Range(r) \subseteq C
  BY <1>5, <1>8, BeginningLemma
<1>12. \A i, j \in 1 .. Len(r) : i < j => key[r[j]] <= key[r[i]]
  BY <1>7, <1>10
<1>13. ASSUME NEW i \in 1 .. Len(r), NEW x \in C \ Range(First(r, i))
       PROVE  key[x] <= key[r[i]]
  <2>1. i \in Nat /\ i <= k
    BY <1>9, <1>10
  <2>2. BeginningOf(First(r, i), r, T, IF i < Len(r) THEN i ELSE Len(r))
    BY <1>10, <2>1, FirstLemma
  <2>3. (IF i < Len(r) THEN i ELSE Len(r)) = i
    BY <1>9, <1>10, <2>1
  <2>4. Range(First(r, i)) = {r[m] : m \in 1 .. i}
    BY <1>10, <2>2, <2>3, BeginningLemma
  <2>5. PICK j \in 1 .. Len(a) : x = a[j]
    BY <1>5 DEF Range
  <2>6. ~(j <= i)
    <3> SUFFICES ASSUME j <= i PROVE FALSE
      OBVIOUS
    <3>1. j \in 1 .. i /\ j \in 1 .. k
      BY <1>9, <2>1
    <3>2. x = r[j]
      BY <1>10, <2>5, <3>1
    <3> QED
      BY <1>13, <2>4, <3>1, <3>2
  <2>7. i < j /\ i \in 1 .. Len(a)
    BY <1>10, <2>1, <2>6
  <2> QED
    BY <1>7, <1>10, <2>5, <2>7
<1>14. ASSUME NEW x \in C \ Range(r)
       PROVE  Len(r) = n /\ \A y \in Range(r) : key[x] <= key[y]
  <2>1. PICK j \in 1 .. Len(a) : x = a[j]
    BY <1>5 DEF Range
  <2>2. ~(j <= k)
    BY <1>11, <1>14, <2>1
  <2>3. k = n
    BY <1>5, <1>9, <2>2
  <2>4. ASSUME NEW i \in 1 .. k PROVE key[x] <= key[a[i]]
    <3>1. i < j /\ i \in 1 .. Len(a)
      BY <1>9, <1>10, <2>2
    <3> QED
      BY <1>7, <2>1, <3>1
  <2> QED
    BY <1>10, <1>11, <2>3, <2>4
<1>15. Len(r) = IF n < Cardinality(C) THEN n ELSE Cardinality(C)
  BY <1>6, <1>10 DEF k
<1>16. IsFiniteSet(C) /\ Cardinality(C) \in Nat
  BY <1>5, <1>6
<1>17. BestOf(r, C, key, T, n)
  BY <1>10, <1>11, <1>12, <1>13, <1>14, <1>15, <1>16 DEF BestOf
<1> QED
  BY <1>17 DEF r, a, c, C

-----------------------------------------------------------------------------
(* Completions.                                                            *)

\* What weighs is in the store.
LEMMA WeightLemma ==
    ASSUME DocsInv, NEW x
    PROVE  /\ Weight(x) \in Nat
           /\ Weight(x) > 0 <=>
                 x \in UNION {TagsOf[d] \cup TokensOf[d] \cup {TitleOf[d]} : d \in Stored}
<1> DEFINE A == {d \in Stored : TitleOf[d] = x}
           B == {d \in Stored : x \in TagsOf[d]}
           D == {d \in Stored : x \in TokensOf[d]}
<1>1. A \in SUBSET Stored /\ B \in SUBSET Stored /\ D \in SUBSET Stored
  OBVIOUS
<1>2. x \in UNION {TagsOf[d] \cup TokensOf[d] \cup {TitleOf[d]} : d \in Stored}
         <=> (A # {} \/ B # {} \/ D # {})
  OBVIOUS
<1>3. Weight(x) = 3 * Cardinality(A) + 2 * Cardinality(B) + Cardinality(D)
  BY DEF Weight, Df
<1> HIDE DEF A, B, D
<1>4. /\ Cardinality(A) \in Nat /\ (Cardinality(A) = 0 <=> A = {})
      /\ Cardinality(B) \in Nat /\ (Cardinality(B) = 0 <=> B = {})
      /\ Cardinality(D) \in Nat /\ (Cardinality(D) = 0 <=> D = {})
  BY <1>1, PartLemma
<1>5. Weight(x) \in Nat /\ (Weight(x) > 0 <=> (A # {} \/ B # {} \/ D # {}))
  <2>1. \A a, b, c \in Nat : /\ 3 * a + 2 * b + c \in Nat
                             /\ (3 * a + 2 * b + c > 0 <=> ~(a = 0 /\ b = 0 /\ c = 0))
    OBVIOUS
  <2>2. /\ Weight(x) \in Nat
        /\ (Weight(x) > 0 <=> ~(Cardinality(A) = 0 /\ Cardinality(B) = 0 /\ Cardinality(D) = 0))
    BY <1>3, <1>4, <2>1
  <2> QED
    BY <1>4, <2>2
<1> QED
  BY <1>2, <1>5

\* The completions are the heaviest texts that are offered.
LEMMA CompletionsLemma ==
    ASSUME DocsInv, NEW prefix \in DOMAIN Begins, NEW limit \in Nat
    PROVE  BestOf(Completions(prefix, limit), Offered(prefix), Weights, Range(Alphabet), limit)
<1> DEFINE s == Alphabet
           S == Candidates(prefix)
           T == Range(Alphabet)
           key == Weights
<1>1. Begins[prefix] \subseteq T /\ s \in Seq(T) /\ IsInjective(s)
  BY FeatureSearchAssumption
<1>2. T \cap S = Offered(prefix)
  BY <1>1, WeightLemma DEF Candidates, Offered
<1>3. \A x \in T : key[x] \in Int
  BY WeightLemma DEF Weights
<1> HIDE DEF S, key
<1>4. BestOf(First(Descending(Selected(s, S), key), limit), T \cap S, key, T, limit)
  <2>1. Range(s) \cap S = T \cap S
    OBVIOUS
  <2> HIDE DEF s, T
  <2>2. \A x \in Range(s) \cap S : key[x] \in Int
    BY <1>3, <2>1
  <2>3. BestOf(First(Descending(Selected(s, S), key), limit), Range(s) \cap S, key, T, limit)
    BY <1>1, <2>2, BestLemma
  <2> QED
    BY <2>1, <2>3
<1> QED
  BY <1>2, <1>4 DEF Completions, S, key

LEMMA CompletionsHeaviest ==
    ASSUME DocsInv, NEW prefix \in DOMAIN Begins, NEW limit \in Nat
    PROVE  LET results == Completions(prefix, limit)
               offered == Offered(prefix)
           IN  /\ results \in Seq(Range(Alphabet)) /\ Len(results) <= limit
               /\ IsInjective(results) /\ Range(results) \subseteq offered
               /\ Len(results) = Min({limit, Cardinality(offered)})
               /\ \A i \in DOMAIN results :
                      \A x \in offered \ Range(First(results, i)) : Weight(x) <= Weight(results[i])
<1> DEFINE r == Completions(prefix, limit)
           C == Offered(prefix)
           T == Range(Alphabet)
<1>1. BestOf(r, C, Weights, T, limit)
  BY CompletionsLemma
<1>2. \A x \in T : Weights[x] = Weight(x)
  BY DEF Weights
<1>3. C \subseteq T
  BY FeatureSearchAssumption DEF Offered
<1> HIDE DEF r, C, T
<1>4. r \in Seq(T) /\ DOMAIN r = 1 .. Len(r) /\ Len(r) \in Nat /\ \A i \in 1 .. Len(r) : r[i] \in T
  BY <1>1 DEF BestOf
<1>5. /\ IsInjective(r) /\ Range(r) \subseteq C /\ Cardinality(C) \in Nat
      /\ Len(r) = IF limit < Cardinality(C) THEN limit ELSE Cardinality(C)
      /\ \A i \in 1 .. Len(r) : \A x \in C \ Range(First(r, i)) : Weights[x] <= Weights[r[i]]
  BY <1>1 DEF BestOf
<1>6. Len(r) = Min({limit, Cardinality(C)}) /\ Len(r) <= limit
  <2>1. Cardinality(C) \in Nat /\ Len(r) = IF limit < Cardinality(C) THEN limit ELSE Cardinality(C)
    BY <1>5
  <2>2. Len(r) = Min({limit, Cardinality(C)})
    BY ONLY <2>1, limit \in Nat, MinOfTwo
  <2> QED
    BY ONLY <2>1, <2>2, limit \in Nat
<1>7. ASSUME NEW i \in DOMAIN r, NEW x \in C \ Range(First(r, i))
      PROVE  Weight(x) <= Weight(r[i])
  <2>1. x \in T /\ i \in 1 .. Len(r)
    BY <1>3, <1>4
  <2> QED
    BY <1>2, <1>4, <1>5, <2>1
<1> QED
  BY <1>4, <1>5, <1>6, <1>7 DEF r, C, T

-----------------------------------------------------------------------------
(* What is related.                                                        *)

LEMMA RatioLemma ==
    ASSUME NEW a \in Nat, NEW b \in Nat, b > 0 PROVE Ratio(a, b) \in Nat
<1>1. \A x, y \in Nat : y > 0 => x \div y \in Nat
  OBVIOUS
<1> QED
  BY <1>1 DEF Ratio, Scale

\* The alphabet is finite, so are its parts.
LEMMA TextsLemma ==
    ASSUME NEW S, S \subseteq Range(Alphabet)
    PROVE  IsFiniteSet(S) /\ Cardinality(S) \in Nat /\ (Cardinality(S) = 0 <=> S = {})
<1>1. IsFiniteSet(Range(Alphabet))
  BY SizeLemma, FeatureSearchAssumption
<1> HIDE FeatureSearchAssumption
<1>2. IsFiniteSet(S)
  BY <1>1, FS_Subset
<1> QED
  BY <1>2, FS_CardinalityType, FS_EmptySet

LEMMA JaccardLemma ==
    ASSUME NEW a, NEW b, a \subseteq Range(Alphabet), b \subseteq Range(Alphabet)
    PROVE  Jaccard(a, b) \in Nat
<1> DEFINE both == a \cap b
           all == a \cup b
<1>1. /\ Cardinality(both) \in Nat /\ Cardinality(all) \in Nat
      /\ Cardinality(all) = 0 <=> all = {}
  <2>1. both \subseteq Range(Alphabet) /\ all \subseteq Range(Alphabet)
    OBVIOUS
  <2> HIDE DEF both, all
  <2> QED
    BY <2>1, TextsLemma
<1>2. Jaccard(a, b) = IF both = {} THEN 0 ELSE Ratio(Cardinality(both), Cardinality(all))
  BY DEF Jaccard
<1>3. both # {} => Cardinality(all) > 0
  BY <1>1
<1> HIDE DEF both, all
<1> QED
  BY <1>1, <1>2, <1>3, RatioLemma

LEMMA TermOverlapLemma ==
    ASSUME DocsInv, NEW a, NEW b, a \subseteq Range(Alphabet), b \subseteq Range(Alphabet)
    PROVE  TermOverlap(a, b) \in Nat
<1> DEFINE both == a \cap b
           all == a \cup b
<1>1. /\ SumIdf(both) \in Nat /\ SumIdf(all) \in Nat
      /\ SumIdf(all) > 0 <=> Range(Alphabet) \cap all # {}
  BY SumIdfLemma
<1>2. TermOverlap(a, b) = IF both = {} THEN 0 ELSE Ratio(SumIdf(both), SumIdf(all))
  BY DEF TermOverlap
<1>3. both # {} => Range(Alphabet) \cap all # {}
  OBVIOUS
<1> HIDE DEF both, all
<1> QED
  BY <1>1, <1>2, <1>3, RatioLemma

\* Relatedness is a part of 1.0.
LEMMA RelatednessLemma ==
    ASSUME DocsInv, NEW s \in Stored, NEW d \in Stored, NEW q
    PROVE  Relatedness(s, d, q) \in Nat /\ Relatedness(s, d, q) <= Scale
<1>1. \A e \in Stored : /\ DistinctiveTags(e) \subseteq Range(Alphabet)
                        /\ DistinctiveTokens(e, q) \subseteq Range(Alphabet)
  <2> SUFFICES ASSUME NEW e \in Stored
               PROVE  /\ DistinctiveTags(e) \subseteq Range(Alphabet)
                      /\ DistinctiveTokens(e, q) \subseteq Range(Alphabet)
    OBVIOUS
  <2>1. e \in Docs
    BY StoredLemma
  <2>2. TagsOf[e] \subseteq Range(Alphabet) /\ TokensOf[e] \subseteq Range(Alphabet)
    BY <2>1, FeatureSearchAssumption
  <2> QED
    BY <2>2 DEF DistinctiveTags, DistinctiveTokens
<1> DEFINE j == Jaccard(DistinctiveTags(s), DistinctiveTags(d))
           t == TermOverlap(DistinctiveTokens(s, q), DistinctiveTokens(d, q))
           l == IF SharedLabels(s, d) = {} THEN 0 ELSE Scale
           b == Bonus(s, d)
<1>2. j \in Nat /\ t \in Nat
  BY <1>1, JaccardLemma, TermOverlapLemma
<1>3. l \in Nat /\ b \in Nat
  BY DEF Scale, Bonus
<1>4. Content(s, d, q) = (4 * j + 4 * t + 2 * l) \div 10
  BY DEF Content
<1> HIDE DEF j, t, l, b
<1>5. Content(s, d, q) + b \in Nat
  BY <1>2, <1>3, <1>4
<1>6. Relatedness(s, d, q) = IF ~Overlaps(s, d, q) THEN 0
                             ELSE IF Content(s, d, q) + b > Scale THEN Scale
                             ELSE Content(s, d, q) + b
  BY DEF Relatedness, b
<1> QED
  BY <1>5, <1>6 DEF Scale

\* The closest seed.
LEMMA BestSeedLemma ==
    ASSUME DocsInv, NEW seeds, Range(seeds) \subseteq Stored, Range(seeds) # {},
           NEW d \in Stored, NEW q
    PROVE  Best(d, seeds, q) \in Nat
<1> DEFINE S == {Relatedness(s, d, q) : s \in Range(seeds)}
<1>1. S \in SUBSET Nat /\ S # {} /\ \A x \in S : x <= Scale
  BY RelatednessLemma
<1>2. Best(d, seeds, q) = Max(S)
  BY DEF Best
<1> HIDE DEF S
<1>3. \E m \in S : \A x \in S : m >= x
  <2>1. \E m \in S : \A x \in S : x <= m
    <3>1. Scale \in Nat
      BY DEF Scale
    <3> QED
      BY <1>1, <3>1, MaxExists
  <2> QED
    BY <1>1, <2>1
<1>4. Max(S) \in S
  BY <1>3, Zenon DEF Max
<1> QED
  BY <1>1, <1>2, <1>4

LEMMA SupportLemma ==
    ASSUME DocsInv, NEW seeds, Range(seeds) \subseteq Stored, NEW d, NEW q
    PROVE  /\ Cardinality(Supporters(d, seeds, q)) \in Nat
           /\ Cardinality(Supporters(d, seeds, q)) <= Len(docs)
           /\ Cardinality(Supporters(d, seeds, q)) > 0 <=> Supporters(d, seeds, q) # {}
<1>1. Supporters(d, seeds, q) \in SUBSET Stored
  BY DEF Supporters
<1> QED
  BY <1>1, PartLemma

\* A pair of numbers, the second at most n, is ordered like one number.
LEMMA PairLemma ==
    ASSUME NEW n \in Nat, NEW a \in Nat, NEW b \in Nat, NEW u \in Nat, NEW v \in Nat,
           u <= n, v <= n, a * (n + 1) + u <= b * (n + 1) + v
    PROVE  a < b \/ (a = b /\ u <= v)
<1>1. CASE a = b
  BY <1>1
<1>2. ASSUME b < a PROVE FALSE
  <2>1. b + 1 <= a /\ n + 1 \in Nat /\ b + 1 \in Nat
    BY <1>2
  <2>2. (n + 1) * (b + 1) <= (n + 1) * a
    BY <2>1, TimesMonotonic
  <2>3. (n + 1) * (b + 1) = b * (n + 1) + n + 1 /\ (n + 1) * a = a * (n + 1)
    OBVIOUS
  <2> QED
    BY <2>2, <2>3
<1> QED
  BY <1>1, <1>2

\* The list of related features, for seeds of the store.
RelatedList(r, q, seeds, limit) ==
    BestOf(r, Stored \cap RelatedTo(seeds, q), Closeness(seeds, q), Stored, limit)

\* They are the closest documents that are related at all.
LEMMA RelatedLemma ==
    ASSUME DocsInv, NEW seeds, Range(seeds) \subseteq Stored, NEW q, NEW limit \in Nat
    PROVE  RelatedList(Related(q, seeds, limit), q, seeds, limit)
<1> DEFINE s == docs
           S == RelatedTo(seeds, q)
           key == Closeness(seeds, q)
<1>1. s \in Seq(Stored) /\ IsInjective(s) /\ Range(s) = Stored
  BY StoredLemma DEF DocsInv, Stored
<1>2. ASSUME NEW d \in Range(s) \cap S PROVE key[d] \in Int
  <2>1. d \in Stored /\ Range(seeds) # {}
    BY <1>1 DEF RelatedTo, Supporters
  <2>2. Best(d, seeds, q) \in Nat /\ Cardinality(Supporters(d, seeds, q)) \in Nat /\ Len(docs) \in Nat
    BY <2>1, BestSeedLemma, SupportLemma, StoredLemma
  <2>3. key[d] = Best(d, seeds, q) * (Len(docs) + 1) + Cardinality(Supporters(d, seeds, q))
    BY <2>1 DEF Closeness
  <2> QED
    BY <2>2, <2>3
<1> HIDE DEF s, S, key
<1>3. BestOf(First(Descending(Selected(s, S), key), limit), Range(s) \cap S, key, Stored, limit)
  BY <1>1, <1>2, BestLemma
<1>4. Related(q, seeds, limit) = First(Descending(Selected(s, S), key), limit)
  BY DEF Related, s, S, key
<1> QED
  BY <1>1, <1>3, <1>4 DEF RelatedList, S, key

\* What the answer of /search/related was made of.
RelatedInv ==
    /\ answer.q \in Queries /\ answer.limit \in Nat \ {0} /\ answer.suggestLimit \in Nat \ {0}
    /\ answer.seeds \in Seq(Stored) /\ IsInjective(answer.seeds) /\ Seeds \subseteq Stored
    /\ answer.related = Related(answer.q, answer.seeds, answer.limit)
    /\ answer.suggested = Suggest(answer.q, answer.seeds, answer.related, answer.suggestLimit)

LEMMA RelatedAnswered ==
    ASSUME SearchInv, IsRelated
    PROVE  RelatedInv
<1>1. PICK q \in Queries, k \in SeedKs, limit \in Limits, n \in SuggestLimits :
         answer = RelatedAnswer(q, k, limit, n)
  BY DEF SearchInv, Answered, IsRelated, FeaturesAnswer, CompletionsAnswer
<1> DEFINE h == Hits(q, 0)
           seeds == First(h, k)
           related == Related(q, seeds, limit)
           suggested == Suggest(q, seeds, related, n)
<1>2. k \in Nat \ {0} /\ limit \in Nat \ {0} /\ n \in Nat \ {0}
  BY FeatureSearchAssumption
<1>3. h \in Seq(Stored) /\ IsInjective(h)
  BY HitsLemma DEF HitsOf, SearchInv
<1> HIDE DEF h
<1>4. /\ seeds \in Seq(Stored) /\ IsInjective(seeds)
      /\ Range(seeds) \subseteq Stored
  <2>1. BeginningOf(seeds, h, Stored, IF k < Len(h) THEN k ELSE Len(h))
    BY <1>2, <1>3, FirstLemma
  <2>2. seeds \in Seq(Stored)
    BY <2>1 DEF BeginningOf
  <2>3. IsInjective(seeds)
    BY <1>3, <2>1, BeginningLemma
  <2> HIDE DEF seeds
  <2>4. Range(seeds) \subseteq Stored
    BY <2>2, ElementOfSeq DEF Range
  <2> QED
    BY <2>2, <2>3, <2>4
<1>5. answer = [kind |-> "related", q |-> q, limit |-> limit, suggestLimit |-> n,
                seeds |-> seeds, related |-> related, suggested |-> suggested]
  BY <1>1 DEF RelatedAnswer, h
<1> HIDE DEF suggested
<1>6. /\ answer.q = q /\ answer.limit = limit /\ answer.suggestLimit = n
      /\ answer.seeds = seeds /\ answer.related = related /\ answer.suggested = suggested
  BY <1>5
<1> HIDE DEF seeds, related
<1>7. related = Related(q, seeds, limit) /\ suggested = Suggest(q, seeds, related, n)
  BY DEF related, suggested
<1> QED
  BY <1>2, <1>4, <1>6, <1>7 DEF RelatedInv, Seeds

\* The sort key orders the documents as Closer does.
LEMMA CloserLemma ==
    ASSUME SearchInv, RelatedInv, NEW a \in Stored, NEW b \in Stored, Seeds # {},
           LET key == Closeness(answer.seeds, answer.q) IN key[b] <= key[a]
    PROVE  ~Closer(b, a)
<1> DEFINE seeds == answer.seeds
           q == answer.q
           best(d) == Best(d, seeds, q)
           support(d) == Cardinality(Supporters(d, seeds, q))
           key == Closeness(seeds, q)
<1>1. DocsInv /\ Range(seeds) \subseteq Stored /\ Range(seeds) # {} /\ Len(docs) \in Nat
  BY StoredLemma DEF SearchInv, RelatedInv, Seeds
<1>2. \A d \in Stored : key[d] = best(d) * (Len(docs) + 1) + support(d)
  BY DEF Closeness
<1>3. key[b] <= key[a]
  OBVIOUS
<1>4. \A d : Max(RelatednessTo(d)) = best(d) /\ Support(d) = support(d)
  BY DEF RelatednessTo, Seeds, Best, Support, Supporters
<1> HIDE DEF seeds, q, key
<1>5. \A d \in Stored : best(d) \in Nat /\ support(d) \in Nat /\ support(d) <= Len(docs)
  BY <1>1, BestSeedLemma, SupportLemma
<1> HIDE DEF best, support
<1>6. best(b) < best(a) \/ (best(b) = best(a) /\ support(b) <= support(a))
  <2>1. best(b) * (Len(docs) + 1) + support(b) <= best(a) * (Len(docs) + 1) + support(a)
    BY <1>2, <1>3
  <2> QED
    BY <1>1, <1>5, <2>1, PairLemma
<1>7. ~(best(b) > best(a) \/ (best(b) = best(a) /\ support(b) > support(a)))
  BY <1>5, <1>6
<1> QED
  BY <1>4, <1>7 DEF Closer

LEMMA ClosestLemma == SearchInv => ClosestRelated
<1> SUFFICES ASSUME SearchInv, IsRelated PROVE ClosestRelated
  BY DEF ClosestRelated
<1> DEFINE r == answer.related
           C == Stored \cap RelatedTo(answer.seeds, answer.q)
           key == Closeness(answer.seeds, answer.q)
           limit == answer.limit
<1>1. RelatedInv
  BY RelatedAnswered
<1>2. BestOf(r, C, key, Stored, limit)
  BY <1>1, RelatedLemma DEF RelatedInv, Seeds, SearchInv, RelatedList
<1>3. \A d : d \in C <=> (d \in Others /\ Support(d) > 0)
  <2> SUFFICES ASSUME NEW d PROVE d \in C <=> (d \in Others /\ Support(d) > 0)
    OBVIOUS
  <2>1. Support(d) = Cardinality(Supporters(d, answer.seeds, answer.q))
    BY DEF Support, Supporters, Seeds
  <2>2. Support(d) > 0 <=> Supporters(d, answer.seeds, answer.q) # {}
    BY <1>1, <2>1, SupportLemma DEF RelatedInv, Seeds, SearchInv
  <2> QED
    BY <2>2 DEF RelatedTo, Others, Seeds
<1>4. C # {} => Seeds # {}
  BY DEF RelatedTo, Supporters, Seeds
<1>5. ASSUME NEW a \in C, NEW b \in C, key[b] <= key[a] PROVE ~Closer(b, a)
  <2>1. a \in Stored /\ b \in Stored /\ Seeds # {}
    BY <1>4
  <2> QED
    BY <1>1, <1>5, <2>1, CloserLemma
<1> HIDE DEF r, C, key
<1>6. /\ r \in Seq(Stored) /\ Range(r) \subseteq C
      /\ \A i, j \in 1 .. Len(r) : i < j => key[r[j]] <= key[r[i]]
      /\ \A x \in C \ Range(r) : Len(r) = limit /\ \A y \in Range(r) : key[x] <= key[y]
  BY <1>2 DEF BestOf
<1>7. DOMAIN r = 1 .. Len(r) /\ \A i \in 1 .. Len(r) : r[i] \in C
  <2>1. DOMAIN r = 1 .. Len(r)
    BY <1>6
  <2> QED
    BY <1>6, <2>1 DEF Range
<1>8. ASSUME NEW i \in DOMAIN r, NEW j \in DOMAIN r, i < j PROVE ~Closer(r[j], r[i])
  BY <1>5, <1>6, <1>7, <1>8
<1>9. ASSUME NEW d \in Others \ Range(r), Support(d) > 0
      PROVE  Len(r) = limit /\ \A e \in Range(r) : ~Closer(d, e)
  <2>1. d \in C \ Range(r)
    BY <1>3, <1>9
  <2> QED
    BY <1>5, <1>6, <2>1
<1> QED
  BY <1>8, <1>9 DEF ClosestRelated, r

-----------------------------------------------------------------------------
(* What related features share.                                            *)

\* Two documents are more than 0.6 of at most three.
LEMMA TwoLemma ==
    ASSUME DocsInv, NEW S \in SUBSET Stored, NEW s \in S, NEW d \in S, s # d
    PROVE  Cardinality(S) >= 2
<1>1. IsFiniteSet(S)
  BY PartLemma
<1>2. IsFiniteSet({s}) /\ Cardinality({s}) = 1
  BY FS_Singleton
<1>3. Cardinality({s} \cup {d}) = 2
  <2> DEFINE one == {s}
  <2>1. IsFiniteSet(one) /\ Cardinality(one) = 1 /\ d \notin one
    BY <1>2
  <2> HIDE DEF one
  <2>2. Cardinality(one \cup {d}) = Cardinality(one) + 1
    BY <2>1, FS_AddElement
  <2> QED
    BY <2>1, <2>2 DEF one
<1>4. {s} \cup {d} \in SUBSET S
  OBVIOUS
<1>5. Cardinality({s} \cup {d}) <= Cardinality(S)
  BY <1>1, <1>4, FS_Subset
<1>6. Cardinality(S) \in Nat
  BY <1>1, FS_CardinalityType
<1> QED
  BY <1>3, <1>5, <1>6

\* What two documents overlap in.
LEMMA OverlapsLemma ==
    ASSUME DocsInv, NEW s \in Stored, NEW d \in Stored, NEW q, Overlaps(s, d, q)
    PROVE  /\ \/ LabelsOf(TokensOf[s]) \cap LabelsOf(TokensOf[d]) # {}
              \/ \E tag \in (TagsOf[s] \cap TagsOf[d]) \ GenericTags :
                    5 * Cardinality({e \in Stored : tag \in TagsOf[e]}) <= 3 * Len(docs)
              \/ \E t \in (TokensOf[s] \cap TokensOf[d]) \ (q \cup Synonyms(q)) :
                    5 * Cardinality({e \in Stored : t \in TokensOf[e]}) <= 3 * Len(docs)
           /\ s # d /\ Len(docs) <= 3 => LabelsOf(TokensOf[s]) \cap LabelsOf(TokensOf[d]) # {}
<1> DEFINE tagged(tag) == {e \in Stored : tag \in TagsOf[e]}
           having(t) == {e \in Stored : t \in TokensOf[e]}
<1>1. Len(docs) \in Nat
  BY StoredLemma
<1>2. \A S \in SUBSET Stored : Cardinality(S) \in Nat
  BY PartLemma
<1>3. ASSUME NEW tag \in DistinctiveTags(s) \cap DistinctiveTags(d)
      PROVE  /\ tag \in (TagsOf[s] \cap TagsOf[d]) \ GenericTags
             /\ 5 * Cardinality(tagged(tag)) <= 3 * Len(docs)
             /\ s # d => ~(Len(docs) <= 3)
  <2>1. tag \in (TagsOf[s] \cap TagsOf[d]) \ GenericTags /\ ~Ubiquitous(Cardinality(tagged(tag)))
    BY DEF DistinctiveTags
  <2>2. tagged(tag) \in SUBSET Stored /\ s \in tagged(tag) /\ d \in tagged(tag)
    BY <2>1
  <2> HIDE DEF tagged
  <2>3. Cardinality(tagged(tag)) \in Nat /\ (s # d => Cardinality(tagged(tag)) >= 2)
    BY <1>2, <2>2, TwoLemma
  <2>4. ~(5 * Cardinality(tagged(tag)) > 3 * Len(docs))
    BY <2>1 DEF Ubiquitous
  <2> QED
    BY <1>1, <2>1, <2>3, <2>4
<1>4. ASSUME NEW t \in DistinctiveTokens(s, q) \cap DistinctiveTokens(d, q)
      PROVE  /\ t \in (TokensOf[s] \cap TokensOf[d]) \ (q \cup Synonyms(q))
             /\ 5 * Cardinality(having(t)) <= 3 * Len(docs)
             /\ s # d => ~(Len(docs) <= 3)
  <2>1. /\ t \in (TokensOf[s] \cap TokensOf[d]) \ (q \cup Synonyms(q))
        /\ ~Ubiquitous(Cardinality(having(t)))
    BY DEF DistinctiveTokens, Df
  <2>2. having(t) \in SUBSET Stored /\ s \in having(t) /\ d \in having(t)
    BY <2>1
  <2> HIDE DEF having
  <2>3. Cardinality(having(t)) \in Nat /\ (s # d => Cardinality(having(t)) >= 2)
    BY <1>2, <2>2, TwoLemma
  <2>4. ~(5 * Cardinality(having(t)) > 3 * Len(docs))
    BY <2>1 DEF Ubiquitous
  <2> QED
    BY <1>1, <2>1, <2>3, <2>4
<1>5. \/ \E tag : tag \in DistinctiveTags(s) \cap DistinctiveTags(d)
      \/ \E t : t \in DistinctiveTokens(s, q) \cap DistinctiveTokens(d, q)
      \/ LabelsOf(TokensOf[s]) \cap LabelsOf(TokensOf[d]) # {}
  BY DEF Overlaps, SharedLabels
<1> QED
  BY <1>3, <1>4, <1>5

LEMMA ContentLemma == SearchInv => RelatedByContent
<1> SUFFICES ASSUME SearchInv, IsRelated PROVE RelatedByContent
  BY DEF RelatedByContent, SharesContent, SmallStoresRelateByArea
<1> DEFINE r == answer.related
           q == answer.q
<1>1. RelatedInv /\ DocsInv
  BY RelatedAnswered DEF SearchInv
<1>2. BestOf(r, Stored \cap RelatedTo(answer.seeds, q), Closeness(answer.seeds, q), Stored, answer.limit)
  BY <1>1, RelatedLemma DEF RelatedInv, Seeds, RelatedList
<1>3. ASSUME NEW d \in Range(r)
      PROVE  d \in Stored /\ d \notin Seeds /\ \E s \in Seeds : s \in Stored /\ s # d /\ Overlaps(s, d, q)
  <2>1. d \in RelatedTo(answer.seeds, q)
    BY <1>2 DEF BestOf
  <2> QED
    BY <1>1, <2>1 DEF RelatedTo, Supporters, Seeds, RelatedInv
<1>4. SharesContent
  <2> SUFFICES ASSUME NEW d \in Range(r)
               PROVE  /\ d \notin Seeds
                      /\ \E s \in Seeds :
                           \/ LabelsOf(TokensOf[s]) \cap LabelsOf(TokensOf[d]) # {}
                           \/ \E tag \in (TagsOf[s] \cap TagsOf[d]) \ GenericTags :
                                 5 * Cardinality({e \in Stored : tag \in TagsOf[e]}) <= 3 * Len(docs)
                           \/ \E t \in (TokensOf[s] \cap TokensOf[d]) \ (q \cup Synonyms(q)) :
                                 5 * Cardinality({e \in Stored : t \in TokensOf[e]}) <= 3 * Len(docs)
    BY DEF SharesContent
  <2>1. PICK s \in Seeds : s \in Stored /\ s # d /\ Overlaps(s, d, q)
    BY <1>3
  <2>2. d \in Stored /\ d \notin Seeds
    BY <1>3
  <2>3. \/ LabelsOf(TokensOf[s]) \cap LabelsOf(TokensOf[d]) # {}
        \/ \E tag \in (TagsOf[s] \cap TagsOf[d]) \ GenericTags :
              5 * Cardinality({e \in Stored : tag \in TagsOf[e]}) <= 3 * Len(docs)
        \/ \E t \in (TokensOf[s] \cap TokensOf[d]) \ (q \cup Synonyms(q)) :
              5 * Cardinality({e \in Stored : t \in TokensOf[e]}) <= 3 * Len(docs)
    BY <1>1, <2>1, <2>2, OverlapsLemma
  <2> QED
    BY <2>2, <2>3
<1>5. SmallStoresRelateByArea
  <2> SUFFICES ASSUME Len(docs) <= 3, NEW d \in Range(r)
               PROVE  \E s \in Seeds : LabelsOf(TokensOf[s]) \cap LabelsOf(TokensOf[d]) # {}
    BY DEF SmallStoresRelateByArea
  <2>1. PICK s \in Seeds : s \in Stored /\ s # d /\ Overlaps(s, d, q)
    BY <1>3
  <2>2. d \in Stored
    BY <1>3
  <2>3. LabelsOf(TokensOf[s]) \cap LabelsOf(TokensOf[d]) # {}
    BY <1>1, <2>1, <2>2, OverlapsLemma
  <2> QED
    BY <2>3
<1> QED
  BY <1>4, <1>5 DEF RelatedByContent

-----------------------------------------------------------------------------
(* Well-formed answers.                                                    *)

\* What the answer of /search/features and of /search/suggest was made of.
FeaturesInv ==
    /\ answer.q \in Queries
    /\ answer.limit \in Nat /\ answer.offset \in Nat /\ answer.minScore \in Nat
    /\ answer.results = Page(Hits(answer.q, answer.minScore), answer.offset, answer.limit)

CompletionsInv ==
    /\ answer.prefix \in DOMAIN Begins /\ answer.limit \in Nat
    /\ answer.results = Completions(answer.prefix, answer.limit)

LEMMA FeaturesAnswered ==
    ASSUME SearchInv, answer # NoAnswer, answer.kind = "features"
    PROVE  FeaturesInv
<1>1. PICK q \in Queries, limit \in Limits, o \in Offsets, minScore \in MinScores :
         answer = FeaturesAnswer(q, limit, o, minScore)
  BY DEF SearchInv, Answered, CompletionsAnswer, RelatedAnswer
<1> DEFINE r == Page(Hits(q, minScore), o, limit)
<1>2. answer = [kind |-> "features", q |-> q, limit |-> limit, offset |-> o,
                minScore |-> minScore, results |-> r]
  BY <1>1 DEF FeaturesAnswer
<1>3. limit \in Nat /\ o \in Nat /\ minScore \in Nat
  BY FeatureSearchAssumption
<1> HIDE DEF r
<1>4. /\ answer.q = q /\ answer.limit = limit /\ answer.offset = o
      /\ answer.minScore = minScore /\ answer.results = r
  BY <1>2
<1> QED
  BY <1>3, <1>4 DEF FeaturesInv, r

LEMMA CompletionsAnswered ==
    ASSUME SearchInv, answer # NoAnswer, answer.kind = "completions"
    PROVE  CompletionsInv
<1>1. PICK prefix \in DOMAIN Begins, limit \in Limits : answer = CompletionsAnswer(prefix, limit)
  BY DEF SearchInv, Answered, FeaturesAnswer, RelatedAnswer
<1> DEFINE r == Completions(prefix, limit)
<1>2. answer = [kind |-> "completions", prefix |-> prefix, limit |-> limit, results |-> r]
  BY <1>1 DEF CompletionsAnswer
<1>3. limit \in Nat
  BY FeatureSearchAssumption
<1> HIDE DEF r
<1>4. answer.prefix = prefix /\ answer.limit = limit /\ answer.results = r
  BY <1>2
<1> QED
  BY <1>3, <1>4 DEF CompletionsInv, r

LEMMA AnswerKinds ==
    ASSUME SearchInv
    PROVE  answer = NoAnswer \/ answer.kind \in {"features", "completions", "related"}
  BY DEF SearchInv, Answered, FeaturesAnswer, CompletionsAnswer, RelatedAnswer

LEMMA RelatedTyped ==
    ASSUME SearchInv, RelatedInv
    PROVE  answer.related \in Seq(Stored) /\ Len(answer.related) <= answer.limit
<1> DEFINE r == answer.related
           C == Stored \cap RelatedTo(answer.seeds, answer.q)
<1>1. BestOf(r, C, Closeness(answer.seeds, answer.q), Stored, answer.limit)
  BY RelatedLemma DEF RelatedInv, Seeds, RelatedList, SearchInv
<1> HIDE DEF r, C
<1>2. answer.limit \in Nat
  BY DEF RelatedInv
<1>3. /\ r \in Seq(Stored) /\ Cardinality(C) \in Nat
      /\ Len(r) = IF answer.limit < Cardinality(C) THEN answer.limit ELSE Cardinality(C)
  BY <1>1 DEF BestOf
<1> QED
  BY <1>2, <1>3 DEF r

LEMMA TypedLemma == SearchInv => AnswersTyped
<1> SUFFICES ASSUME SearchInv PROVE AnswersTyped
  OBVIOUS
<1>1. docs \in Seq(Docs) /\ IsInjective(docs) /\ DocsInv
  BY DEF SearchInv, DocsInv
<1>2. CASE answer = NoAnswer
  BY <1>1, <1>2 DEF AnswersTyped
<1>3. CASE answer # NoAnswer /\ answer.kind = "features"
  <2>1. FeaturesInv
    BY <1>3, FeaturesAnswered
  <2>2. answer.results \in Seq(Stored) /\ Len(answer.results) <= answer.limit
    BY <1>1, <2>1, HitsTyped DEF FeaturesInv
  <2> QED
    BY <1>1, <1>3, <2>1, <2>2 DEF AnswersTyped, FeaturesInv
<1>4. CASE answer # NoAnswer /\ answer.kind = "completions"
  <2>1. CompletionsInv
    BY <1>4, CompletionsAnswered
  <2>2. answer.results \in Seq(Range(Alphabet)) /\ Len(answer.results) <= answer.limit
    BY <1>1, <2>1, CompletionsHeaviest DEF CompletionsInv
  <2> QED
    BY <1>1, <1>4, <2>2 DEF AnswersTyped
<1>5. CASE answer # NoAnswer /\ answer.kind = "related"
  <2>1. RelatedInv
    BY <1>5, RelatedAnswered DEF IsRelated
  <2>2. answer.related \in Seq(Stored) /\ Len(answer.related) <= answer.limit
    BY <2>1, RelatedTyped
  <2> QED
    BY <1>1, <1>5, <2>1, <2>2 DEF AnswersTyped, RelatedInv
<1> QED
  BY <1>2, <1>3, <1>4, <1>5, AnswerKinds

LEMMA ExactLemma == SearchInv => SearchExact
<1> SUFFICES ASSUME SearchInv PROVE SearchExact
  OBVIOUS
<1>1. DocsInv
  BY DEF SearchInv
<1>2. PagesRanked
  <2> SUFFICES ASSUME answer # NoAnswer, answer.kind = "features", NEW n \in 1 .. answer.limit
               PROVE  AtRank(answer.offset + n - 1, answer.q, answer.minScore) =
                         IF n <= Len(answer.results) THEN {answer.results[n]} ELSE {}
    BY DEF PagesRanked
  <2>1. FeaturesInv
    BY FeaturesAnswered
  <2>2. PICK q, o, l, minScore : /\ answer.q = q /\ answer.limit = l /\ answer.offset = o
                                 /\ answer.minScore = minScore
    OBVIOUS
  <2>3. /\ l \in Nat /\ o \in Nat /\ minScore \in Nat /\ n \in 1 .. l
        /\ answer.results = Page(Hits(q, minScore), o, l)
    BY <2>1, <2>2 DEF FeaturesInv
  <2>4. AtRank(o + n - 1, q, minScore) =
           IF n <= Len(Page(Hits(q, minScore), o, l))
           THEN {Page(Hits(q, minScore), o, l)[n]} ELSE {}
    BY <1>1, <2>3, PageRanked
  <2> QED
    BY <2>2, <2>3, <2>4
<1>3. SearchReaches
  <2> SUFFICES ASSUME answer # NoAnswer, answer.kind = "features", answer.minScore = 0
               PROVE  LET found == Cardinality({d \in Stored : Reached(d, answer.q)})
                      IN  /\ \A d \in Range(answer.results) : Reached(d, answer.q)
                          /\ Len(answer.results) =
                                 Min({answer.limit,
                                      IF found > answer.offset THEN found - answer.offset ELSE 0})
    BY DEF SearchReaches
  <2>1. FeaturesInv
    BY FeaturesAnswered
  <2>2. answer.results = Page(Hits(answer.q, 0), answer.offset, answer.limit)
    BY <2>1 DEF FeaturesInv
  <2> QED
    BY <1>1, <2>1, <2>2, PageReaches DEF FeaturesInv
<1> QED
  BY <1>2, <1>3, TypedLemma DEF SearchExact

LEMMA HeaviestLemma == SearchInv => HeaviestOffered
<1> SUFFICES ASSUME SearchInv, answer # NoAnswer, answer.kind = "completions"
             PROVE  HeaviestOffered
  BY DEF HeaviestOffered
<1>1. CompletionsInv /\ DocsInv
  BY CompletionsAnswered DEF SearchInv
<1> DEFINE r == answer.results
           offered == Offered(answer.prefix)
<1>2. /\ IsInjective(r) /\ Range(r) \subseteq offered
      /\ Len(r) = Min({answer.limit, Cardinality(offered)})
      /\ \A i \in DOMAIN r :
             \A x \in offered \ Range(First(r, i)) : Weight(x) <= Weight(r[i])
  BY <1>1, CompletionsHeaviest DEF CompletionsInv
<1> QED
  BY <1>2 DEF HeaviestOffered

-----------------------------------------------------------------------------
(* Suggestions.                                                            *)

\* The texts of a list of suggestions, and that none comes twice.
TextsOf(s) == {s[i].text : i \in 1 .. Len(s)}
TextsDiffer(s) == \A i, j \in 1 .. Len(s) : s[i].text = s[j].text => i = j

\* As many texts as entries.
LEMMA TextsCount ==
    ASSUME NEW X, NEW s \in Seq(X), TextsDiffer(s)
    PROVE  IsFiniteSet(TextsOf(s)) /\ Cardinality(TextsOf(s)) = Len(s)
<1> DEFINE t == [i \in 1 .. Len(s) |-> s[i].text]
           T == TextsOf(s)
<1>1. Len(s) \in Nat
  OBVIOUS
<1>2. t \in Seq(T) /\ Len(t) = Len(s)
  <2>1. \A i \in 1 .. Len(s) : s[i].text \in T
    BY DEF TextsOf
  <2> HIDE DEF T
  <2>2. t \in [1 .. Len(s) -> T]
    BY <2>1
  <2> QED
    BY <1>1, <2>2
<1>3. IsInjective(t)
  BY DEF IsInjective, TextsDiffer
<1>4. Range(t) = T
  BY DEF Range, TextsOf
<1> HIDE DEF t, T
<1>5. IsFiniteSet(Range(t)) /\ Cardinality(Range(t)) = Len(t)
  BY <1>2, <1>3, SizeLemma
<1> QED
  BY <1>2, <1>4, <1>5 DEF T

LEMMA AddedType ==
    ASSUME NEW X, NEW v \in Seq(X), NEW x \in X, NEW limit
    PROVE  Added(v, x, limit) \in Seq(X)
  BY DEF Added

\* What has been added after n entries.
AddedUpTo(list, xs, limit) ==
    CHOOSE f : f = [n \in 0 .. Len(xs) |->
                       IF n = 0 THEN list ELSE Added(f[n - 1], xs[n], limit)]

LEMMA AllAddedBy ==
    \A list, xs, limit : AllAdded(list, xs, limit) = AddedUpTo(list, xs, limit)[Len(xs)]
  BY DEF AllAdded, AddedUpTo

\* The recursion is well founded, so its equation holds.
LEMMA AllAddedDef ==
    ASSUME NEW X, NEW list \in Seq(X), NEW xs \in Seq(X), NEW limit
    PROVE  LET f == AddedUpTo(list, xs, limit)
           IN  /\ f[0] = list /\ AllAdded(list, xs, limit) = f[Len(xs)]
               /\ \A n \in 1 .. Len(xs) : f[n] = Added(f[n - 1], xs[n], limit)
<1> DEFINE V == Seq(X)
           N == Len(xs)
           g == [n \in 1 .. N |-> [v \in V |-> Added(v, xs[n], limit)]]
           body(f) == [n \in 0 .. N |-> IF n = 0 THEN list ELSE Added(f[n - 1], xs[n], limit)]
<1>1. N \in Nat /\ list \in V /\ \A n \in 1 .. N : xs[n] \in X
  OBVIOUS
<1>2. \A n \in 1 .. N : \A v \in V : Added(v, xs[n], limit) \in V
  BY <1>1, AddedType
<1> HIDE DEF V, N
<1>3. g \in [1 .. N -> [V -> V]]
  BY <1>2
<1> HIDE DEF g
<1>4. PICK h : Recurs(h, V, list, N, g)
  BY <1>1, <1>3, Recursion
<1>5. ASSUME NEW n \in 1 .. N PROVE h[n] = Added(h[n - 1], xs[n], limit)
  <2>1. n - 1 \in 0 .. N /\ h[n - 1] \in V /\ h[n] = g[n][h[n - 1]]
    BY <1>1, <1>4 DEF Recurs
  <2> QED
    BY <2>1 DEF g
<1>6. h = body(h)
  <2>1. DOMAIN h = 0 .. N /\ h = [n \in 0 .. N |-> h[n]] /\ h[0] = list
    BY <1>4 DEF Recurs
  <2>2. ASSUME NEW n \in 0 .. N
        PROVE  h[n] = IF n = 0 THEN list ELSE Added(h[n - 1], xs[n], limit)
    <3>1. CASE n = 0
      BY <2>1, <3>1
    <3>2. CASE n \in 1 .. N
      BY <1>5, <3>2
    <3> QED
      BY <1>1, <3>1, <3>2
  <2>3. DOMAIN body(h) = 0 .. N /\ \A n \in 0 .. N : body(h)[n] = h[n]
    BY <2>2
  <2>4. body(h) = [n \in 0 .. N |-> body(h)[n]]
    OBVIOUS
  <2> HIDE DEF body
  <2> QED
    BY <2>1, <2>3, <2>4
<1> DEFINE f == AddedUpTo(list, xs, limit)
<1>7. f = body(f)
  BY <1>6 DEF AddedUpTo, N
<1> HIDE DEF f
<1>8. f[0] = list /\ \A n \in 1 .. N : f[n] = Added(f[n - 1], xs[n], limit)
  <2> HIDE DEF body
  <2>1. body(f)[0] = list
    BY <1>1 DEF body
  <2>2. ASSUME NEW n \in 1 .. N PROVE body(f)[n] = Added(f[n - 1], xs[n], limit)
    BY <1>1 DEF body
  <2> QED
    BY <1>7, <2>1, <2>2
<1> QED
  BY <1>8, AllAddedBy DEF f, N

\* The list u is caps and after them entries of xs[1 .. n], a text once, and as
\* long as there is room every text.
AddedFrom(u, caps, xs, n, limit) ==
    /\ Len(caps) <= Len(u) /\ (Len(u) = Len(caps) \/ Len(u) <= limit)
    /\ \A i \in 1 .. Len(caps) : u[i] = caps[i]
    /\ \A i \in Len(caps) + 1 .. Len(u) : \E j \in 1 .. n : u[i] = xs[j]
    /\ TextsDiffer(u)
    /\ TextsOf(u) \subseteq TextsOf(caps) \cup {xs[j].text : j \in 1 .. n}
    /\ Len(u) < limit => TextsOf(caps) \cup {xs[j].text : j \in 1 .. n} \subseteq TextsOf(u)

\* One more entry.
LEMMA AddedStep ==
    ASSUME NEW X, NEW u \in Seq(X), NEW caps \in Seq(X), NEW xs \in Seq(X),
           NEW n \in 1 .. Len(xs), NEW limit \in Nat,
           AddedFrom(u, caps, xs, n - 1, limit)
    PROVE  AddedFrom(Added(u, xs[n], limit), caps, xs, n, limit)
<1> DEFINE x == xs[n]
           m == Len(caps)
           N == Len(u)
           before == {xs[j].text : j \in 1 .. n - 1}
           upTo == {xs[j].text : j \in 1 .. n}
<1>1. n \in Nat /\ n >= 1 /\ m \in Nat /\ N \in Nat /\ n \in 1 .. n /\ 1 .. n - 1 \subseteq 1 .. n
  OBVIOUS
<1>2. upTo = before \cup {x.text}
  <2>1. \A j \in 1 .. n : j \in 1 .. n - 1 \/ j = n
    BY <1>1
  <2> QED
    BY <1>1, <2>1
<1>3. /\ m <= N /\ (N = m \/ N <= limit)
      /\ \A i \in 1 .. m : u[i] = caps[i]
      /\ \A i \in m + 1 .. N : \E j \in 1 .. n - 1 : u[i] = xs[j]
      /\ TextsDiffer(u)
      /\ TextsOf(u) \subseteq TextsOf(caps) \cup before
      /\ N < limit => TextsOf(caps) \cup before \subseteq TextsOf(u)
  BY DEF AddedFrom
<1>4. \A i \in m + 1 .. N : \E j \in 1 .. n : u[i] = xs[j]
  BY <1>1, <1>3
<1> HIDE DEF before, upTo
<1>5. CASE N >= limit \/ x.text \in TextsOf(u)
  <2>1. DOMAIN u = 1 .. N
    OBVIOUS
  <2>2. N >= limit \/ \E i \in DOMAIN u : u[i].text = x.text
    BY <1>5, <2>1 DEF TextsOf
  <2>3. Added(u, x, limit) = u
    BY <2>2 DEF Added
  <2>4. TextsOf(u) \subseteq TextsOf(caps) \cup upTo
    BY <1>2, <1>3
  <2>5. N < limit => TextsOf(caps) \cup upTo \subseteq TextsOf(u)
    BY <1>1, <1>2, <1>3, <1>5
  <2>6. AddedFrom(u, caps, xs, n, limit)
    BY <1>3, <1>4, <2>4, <2>5 DEF AddedFrom, upTo
  <2> QED
    BY <2>3, <2>6
<1>6. CASE N < limit /\ x.text \notin TextsOf(u)
  <2> DEFINE r == Append(u, x)
  <2>1. /\ r \in Seq(X) /\ Len(r) = N + 1 /\ r[N + 1] = x
        /\ \A i \in 1 .. N : r[i] = u[i]
    <3>1. x \in X
      OBVIOUS
    <3> QED
      BY <3>1, AppendProperties
  <2>2. Added(u, x, limit) = r
    <3>1. ~(N >= limit) /\ DOMAIN u = 1 .. N
      BY <1>1, <1>6
    <3>2. ~(\E i \in DOMAIN u : u[i].text = x.text)
      BY <1>6, <3>1 DEF TextsOf
    <3> QED
      BY <3>1, <3>2 DEF Added
  <2> HIDE DEF r, x
  <2>3. TextsOf(r) = TextsOf(u) \cup {x.text}
    <3>1. \A i \in 1 .. N + 1 : i \in 1 .. N \/ i = N + 1
      BY <1>1
    <3>2. 1 .. N \subseteq 1 .. N + 1 /\ N + 1 \in 1 .. N + 1
      BY <1>1
    <3> HIDE DEF N
    <3>3. ASSUME NEW t \in TextsOf(r) PROVE t \in TextsOf(u) \cup {x.text}
      <4>1. PICK i \in 1 .. N + 1 : t = r[i].text
        BY <2>1 DEF TextsOf
      <4> QED
        BY <2>1, <3>1, <4>1 DEF TextsOf, N
    <3>4. ASSUME NEW t \in TextsOf(u) PROVE t \in TextsOf(r)
      <4>1. PICK i \in 1 .. N : t = u[i].text
        BY DEF TextsOf, N
      <4> QED
        BY <2>1, <3>2, <4>1 DEF TextsOf
    <3>5. x.text \in TextsOf(r)
      BY <2>1, <3>2 DEF TextsOf
    <3> QED
      BY <3>3, <3>4, <3>5
  <2>4. TextsDiffer(r)
    <3> SUFFICES ASSUME NEW i \in 1 .. N + 1, NEW j \in 1 .. N + 1, r[i].text = r[j].text
                 PROVE  i = j
      BY <2>1 DEF TextsDiffer
    <3>1. \A k \in 1 .. N : u[k].text # x.text
      BY <1>6 DEF TextsOf
    <3>2. CASE i \in 1 .. N /\ j \in 1 .. N
      BY <1>3, <2>1, <3>2 DEF TextsDiffer
    <3>3. CASE i = N + 1 \/ j = N + 1
      <4>1. i \in 1 .. N \/ i = N + 1
        BY <1>1
      <4>2. j \in 1 .. N \/ j = N + 1
        BY <1>1
      <4> QED
        BY <2>1, <3>1, <3>3, <4>1, <4>2
    <3> QED
      BY <1>1, <3>2, <3>3
  <2>5. \A i \in 1 .. m : r[i] = caps[i]
    <3>1. 1 .. m \subseteq 1 .. N
      BY <1>1, <1>3
    <3> QED
      BY <1>3, <2>1, <3>1
  <2>6. ASSUME NEW i \in m + 1 .. N + 1 PROVE \E j \in 1 .. n : r[i] = xs[j]
    <3>1. i \in m + 1 .. N \/ i = N + 1
      BY <1>1
    <3>2. m + 1 .. N \subseteq 1 .. N
      BY <1>1
    <3>3. CASE i \in m + 1 .. N
      BY <1>4, <2>1, <3>2, <3>3
    <3>4. CASE i = N + 1
      BY <1>1, <2>1, <3>4 DEF x
    <3> QED
      BY <3>1, <3>3, <3>4
  <2>7. TextsOf(r) = TextsOf(caps) \cup upTo
    BY <1>2, <1>3, <1>6, <2>3
  <2>8. m <= Len(r) /\ Len(r) <= limit
    BY <1>1, <1>3, <1>6, <2>1
  <2>9. AddedFrom(r, caps, xs, n, limit)
    BY <2>1, <2>4, <2>5, <2>6, <2>7, <2>8 DEF AddedFrom, upTo
  <2> QED
    BY <2>2, <2>9 DEF x
<1> QED
  BY <1>1, <1>5, <1>6

\* All of them.
LEMMA AllAddedLemma ==
    ASSUME NEW X, NEW caps \in Seq(X), TextsDiffer(caps), NEW xs \in Seq(X), NEW limit \in Nat
    PROVE  /\ AllAdded(caps, xs, limit) \in Seq(X)
           /\ AddedFrom(AllAdded(caps, xs, limit), caps, xs, Len(xs), limit)
<1> DEFINE f == AddedUpTo(caps, xs, limit)
           N == Len(xs)
           A == {n \in 0 .. N : f[n] \in Seq(X) /\ AddedFrom(f[n], caps, xs, n, limit)}
<1>1. /\ f[0] = caps /\ AllAdded(caps, xs, limit) = f[N]
      /\ \A n \in 1 .. N : f[n] = Added(f[n - 1], xs[n], limit)
  BY AllAddedDef
<1>2. N \in Nat /\ Len(caps) \in Nat /\ \A n \in 1 .. N : xs[n] \in X
  OBVIOUS
<1> HIDE DEF f
<1>3. 0 \in A
  <2>1. AddedFrom(caps, caps, xs, 0, limit)
    <3>1. 1 .. 0 = {} /\ Len(caps) + 1 .. Len(caps) = {}
      BY <1>2
    <3>2. {xs[j].text : j \in 1 .. 0} = {}
      BY <3>1
    <3> QED
      BY <1>2, <3>1, <3>2 DEF AddedFrom
  <2> QED
    BY <1>1, <1>2, <2>1
<1>4. ASSUME NEW n \in 1 .. N, n - 1 \in A PROVE n \in A
  <2>1. n \in 0 .. N /\ f[n - 1] \in Seq(X) /\ AddedFrom(f[n - 1], caps, xs, n - 1, limit)
    BY <1>2, <1>4
  <2>2. f[n] = Added(f[n - 1], xs[n], limit) /\ xs[n] \in X
    BY <1>1, <1>2
  <2>3. f[n] \in Seq(X)
    BY <2>1, <2>2, AddedType
  <2>4. AddedFrom(f[n], caps, xs, n, limit)
    BY <2>1, <2>2, AddedStep
  <2> QED
    BY <2>1, <2>3, <2>4
<1>5. 0 .. N \subseteq A
  <2> HIDE DEF A, N
  <2> QED
    BY <1>2, <1>3, <1>4, UpTo
<1>6. N \in A
  BY <1>2, <1>5
<1> QED
  BY <1>1, <1>6

\* The documents of the pool that touch an area.
LEMMA HavingLemma ==
    ASSUME DocsInv, NEW pool \in Seq(Stored), NEW c
    PROVE  /\ Having(c, pool) \in Seq(Stored) /\ Len(Having(c, pool)) \in Nat
           /\ Range(Having(c, pool)) = {d \in Range(pool) : c \in LabelsOf(TokensOf[d])}
           /\ Having(c, pool) # <<>> <=> \E d \in Range(pool) : c \in LabelsOf(TokensOf[d])
           /\ Having(c, pool) # <<>> <=> Len(Having(c, pool)) > 0
<1> DEFINE h == Having(c, pool)
           S == {d \in Docs : c \in LabelsOf(TokensOf[d])}
<1>1. h \in Seq(Stored) /\ Range(h) = Range(pool) \cap S
  BY SelectedLemma DEF Having
<1>2. Range(pool) \subseteq Docs
  <2>1. Range(pool) \subseteq Stored
    BY ElementOfSeq DEF Range
  <2> QED
    BY <2>1, StoredLemma
<1> HIDE DEF h
<1>3. Len(h) \in Nat /\ DOMAIN h = 1 .. Len(h) /\ (h # <<>> <=> Len(h) > 0)
  BY <1>1, EmptySeq, LenProperties
<1>4. Range(h) # {} <=> Len(h) > 0
  <2>1. Len(h) > 0 => h[1] \in Range(h)
    BY <1>3 DEF Range
  <2>2. Range(h) # {} => Len(h) > 0
    BY <1>3 DEF Range
  <2> QED
    BY <2>1, <2>2
<1>5. Range(h) = {d \in Range(pool) : c \in LabelsOf(TokensOf[d])}
  BY <1>1, <1>2
<1> QED
  BY <1>1, <1>3, <1>4, <1>5 DEF h

\* An area as a suggestion bears itself out.
BearsOut(x, areas, P) ==
    /\ x.kind = "capability" /\ x.text \in areas
    /\ Len(x.examples) \in 1 .. x.support
    /\ \A d \in Range(x.examples) : d \in P /\ x.text \in LabelsOf(TokensOf[d])

\* The areas that the documents P touch beyond the query.
Areas(P, q) == (UNION {LabelsOf(TokensOf[d]) : d \in P}) \ LabelsOf(q)

\* Every area is suggested once, with documents that bear it out.
LEMMA CapabilitiesLemma ==
    ASSUME DocsInv, NEW pool \in Seq(Stored), NEW q
    PROVE  LET caps == Capabilities(q, pool)
               areas == Areas(Range(pool), q)
           IN  /\ caps \in Seq(Range(caps)) /\ IsFiniteSet(areas) /\ Len(caps) = Cardinality(areas)
               /\ TextsDiffer(caps) /\ TextsOf(caps) = areas
               /\ \A i \in 1 .. Len(caps) : BearsOut(caps[i], areas, Range(pool))
<1> DEFINE found == {c \in Range(Labels) : c \notin LabelsOf(q) /\ Having(c, pool) # <<>>}
           support == [c \in Range(Labels) |-> Len(Having(c, pool))]
           s == Labels
           a == Selected(s, found)
           ranked == Descending(a, support)
           areas == Areas(Range(pool), q)
           T == DOMAIN MembersOf
           entry(c) == [kind |-> "capability", text |-> c, support |-> support[c],
                        examples |-> First(Having(c, pool), 3)]
           caps == Capabilities(q, pool)
<1>1. found = areas /\ found \subseteq Range(s)
  <2>1. \A c : (\E d \in Range(pool) : c \in LabelsOf(TokensOf[d])) <=>
                  c \in UNION {LabelsOf(TokensOf[d]) : d \in Range(pool)}
    OBVIOUS
  <2>2. \A c, tokens : c \in LabelsOf(tokens) => c \in Range(s)
    BY DEF LabelsOf
  <2>3. \A c : Having(c, pool) # <<>> <=> c \in UNION {LabelsOf(TokensOf[d]) : d \in Range(pool)}
    BY <2>1, HavingLemma
  <2>4. \A c : c \in UNION {LabelsOf(TokensOf[d]) : d \in Range(pool)} => c \in Range(s)
    BY <2>1, <2>2
  <2> QED
    BY <2>3, <2>4 DEF Areas
<1>2. caps = [n \in DOMAIN ranked |-> entry(ranked[n])]
  BY Zenon DEF Capabilities
<1>3. s \in Seq(T) /\ IsInjective(s)
  BY FeatureSearchAssumption
<1>4. \A c \in Range(s) : support[c] = Len(Having(c, pool)) /\ support[c] \in Int
  BY HavingLemma
<1>5. \A c : c \in found => Having(c, pool) # <<>>
  OBVIOUS
<1> HIDE DEF found, support, s, caps
<1>6. a \in Seq(T) /\ IsInjective(a) /\ Range(a) = areas
  <2>1. a \in Seq(T) /\ IsInjective(a) /\ Range(a) = Range(s) \cap found
    BY <1>3, SelectedLemma
  <2> QED
    BY <1>1, <2>1
<1> HIDE DEF a
<1>7. \A i \in DOMAIN a : support[a[i]] \in Int
  BY <1>1, <1>4, <1>6 DEF Range
<1>8. SortedBy(ranked, a, T, support)
  BY <1>6, <1>7, DescendingLemma
<1> HIDE DEF ranked, areas
<1>9. ranked \in Seq(T) /\ IsInjective(ranked) /\ Range(ranked) = areas
  BY <1>6, <1>8 DEF SortedBy
<1>10. IsFiniteSet(areas) /\ Cardinality(areas) = Len(ranked)
  BY <1>9, SizeLemma
<1> DEFINE D == 1 .. Len(ranked)
<1>11. DOMAIN ranked = D /\ Len(ranked) \in Nat /\ \A n \in D : ranked[n] \in areas
  BY <1>9 DEF Range
<1> HIDE DEF entry
<1>12. /\ DOMAIN caps = D /\ Len(caps) = Len(ranked)
       /\ \A n \in D : caps[n] = entry(ranked[n])
  BY <1>2, <1>11
<1>13. caps \in Seq(Range(caps))
  <2>1. \A n \in D : caps[n] \in Range(caps)
    BY <1>12 DEF Range
  <2>2. caps = [n \in D |-> caps[n]]
    BY <1>2, <1>11
  <2>3. caps \in [D -> Range(caps)]
    BY <2>1, <2>2
  <2> QED
    BY <1>11, <2>3
<1>14. \A c : entry(c).text = c
  BY DEF entry
<1>15. TextsDiffer(caps)
  BY <1>9, <1>11, <1>12, <1>14 DEF TextsDiffer, IsInjective
<1>16. TextsOf(caps) = areas
  <2>1. TextsOf(caps) = {ranked[n] : n \in D}
    BY <1>12, <1>14 DEF TextsOf
  <2>2. Range(ranked) = {ranked[n] : n \in D}
    BY <1>11 DEF Range
  <2> QED
    BY <1>9, <2>1, <2>2
<1>17. ASSUME NEW c \in areas PROVE BearsOut(entry(c), areas, Range(pool))
  <2> DEFINE h == Having(c, pool)
             e == First(h, 3)
  <2>1. /\ h \in Seq(Stored) /\ Len(h) \in Nat /\ Len(h) > 0
        /\ Range(h) = {d \in Range(pool) : c \in LabelsOf(TokensOf[d])}
    BY <1>1, <1>5, HavingLemma
  <2>2. support[c] = Len(h)
    BY <1>1, <1>4
  <2> HIDE DEF h
  <2>3. BeginningOf(e, h, Stored, IF 3 < Len(h) THEN 3 ELSE Len(h))
    BY <2>1, FirstLemma
  <2>4. Range(e) \subseteq Range(h)
    BY <2>1, <2>3, BeginningLemma
  <2> HIDE DEF e
  <2>5. Len(e) \in 1 .. Len(h)
    BY <2>1, <2>3 DEF BeginningOf
  <2>6. /\ entry(c).kind = "capability" /\ entry(c).text = c
        /\ entry(c).support = support[c] /\ entry(c).examples = e
    BY DEF entry, e, h
  <2> QED
    BY <2>1, <2>2, <2>4, <2>5, <2>6 DEF BearsOut
<1>18. \A i \in 1 .. Len(caps) : BearsOut(caps[i], areas, Range(pool))
  BY <1>11, <1>12, <1>17
<1>19. Len(caps) = Cardinality(areas)
  BY <1>10, <1>12
<1> QED
  BY <1>10, <1>13, <1>15, <1>16, <1>18, <1>19 DEF caps, areas

\* A related document as a suggestion.
Proposes(x, P) ==
    /\ x.kind = "feature" /\ x.support > 0
    /\ \E d \in P : x.examples = <<d>> /\ x.text = TitleOf[d]

\* Every title of a related document is proposed.
LEMMA FeaturesLemma ==
    ASSUME DocsInv, NEW q, NEW seeds, Range(seeds) \subseteq Stored,
           NEW related \in Seq(Stored), Range(related) \subseteq RelatedTo(seeds, q)
    PROVE  LET xs == Features(q, seeds, related)
           IN  /\ xs \in Seq(Range(xs)) /\ Len(xs) \in Nat
               /\ {xs[i].text : i \in 1 .. Len(xs)} = {TitleOf[d] : d \in Range(related)}
               /\ \A i \in 1 .. Len(xs) : Proposes(xs[i], Range(related))
<1> DEFINE D == 1 .. Len(related)
           entry(d) == [kind |-> "feature", text |-> TitleOf[d],
                        support |-> Cardinality(Supporters(d, seeds, q)), examples |-> <<d>>]
           xs == Features(q, seeds, related)
<1>1. DOMAIN related = D /\ Len(related) \in Nat
  OBVIOUS
<1>2. xs = [i \in D |-> entry(related[i])]
  BY <1>1 DEF Features
<1> HIDE DEF entry, xs
<1>3. DOMAIN xs = D /\ Len(xs) = Len(related) /\ \A i \in D : xs[i] = entry(related[i])
  BY <1>1, <1>2
<1>4. \A d : entry(d).text = TitleOf[d]
  BY DEF entry
<1>5. xs \in Seq(Range(xs))
  <2>1. \A i \in D : xs[i] \in Range(xs)
    BY <1>3 DEF Range
  <2>2. xs = [i \in D |-> xs[i]]
    BY <1>2
  <2>3. xs \in [D -> Range(xs)]
    BY <2>1, <2>2
  <2> QED
    BY <1>1, <2>3
<1>6. {xs[i].text : i \in 1 .. Len(xs)} = {TitleOf[d] : d \in Range(related)}
  BY <1>1, <1>3, <1>4 DEF Range
<1>7. ASSUME NEW i \in 1 .. Len(xs) PROVE Proposes(xs[i], Range(related))
  <2>1. PICK d \in Range(related) : xs[i] = entry(d)
    BY <1>1, <1>3 DEF Range
  <2>2. Supporters(d, seeds, q) # {}
    BY DEF RelatedTo
  <2>3. Cardinality(Supporters(d, seeds, q)) > 0
    BY <2>2, SupportLemma
  <2>4. /\ entry(d).kind = "feature" /\ entry(d).examples = <<d>>
        /\ entry(d).support = Cardinality(Supporters(d, seeds, q))
    BY DEF entry
  <2> QED
    BY <1>4, <2>1, <2>3, <2>4 DEF Proposes
<1> QED
  BY <1>1, <1>3, <1>5, <1>6, <1>7 DEF xs

\* What is suggested, for areas and titles of related documents.
Grounded(r, areas, titles, P, R, limit) ==
    /\ Cardinality(TextsOf(r)) = Len(r) /\ DOMAIN r = 1 .. Len(r)
    /\ Len(r) = Min({limit, Cardinality(areas \cup titles)})
    /\ \A i \in 1 .. Len(r) :
          IF i <= Cardinality(areas) THEN BearsOut(r[i], areas, P) ELSE Proposes(r[i], R)

\* The areas, and after them the titles that are new, up to the limit.
LEMMA CombinedLemma ==
    ASSUME NEW X, NEW caps \in Seq(X), NEW xs \in Seq(X), NEW limit \in Nat,
           NEW areas, NEW titles, NEW P, NEW R,
           IsFiniteSet(areas), Len(caps) = Cardinality(areas),
           TextsDiffer(caps), TextsOf(caps) = areas,
           \A i \in 1 .. Len(caps) : BearsOut(caps[i], areas, P),
           IsFiniteSet(titles), {xs[i].text : i \in 1 .. Len(xs)} = titles,
           \A i \in 1 .. Len(xs) : Proposes(xs[i], R)
    PROVE  Grounded(First(AllAdded(caps, xs, limit), limit), areas, titles, P, R, limit)
<1> DEFINE u == AllAdded(caps, xs, limit)
           r == First(u, limit)
           all == areas \cup titles
           k == IF limit < Len(u) THEN limit ELSE Len(u)
<1>1. u \in Seq(X) /\ AddedFrom(u, caps, xs, Len(xs), limit)
  BY AllAddedLemma
<1> HIDE DEF u
<1>2. /\ \A i \in 1 .. Len(caps) : u[i] = caps[i]
      /\ \A i \in Len(caps) + 1 .. Len(u) : \E j \in 1 .. Len(xs) : u[i] = xs[j]
      /\ TextsDiffer(u) /\ TextsOf(u) \subseteq all
      /\ Len(u) < limit => all \subseteq TextsOf(u)
  BY <1>1 DEF AddedFrom
<1>3. BeginningOf(r, u, X, k)
  BY <1>1, FirstLemma
<1>4. Len(u) \in Nat /\ Len(caps) \in Nat /\ k \in Nat /\ k <= limit /\ k <= Len(u)
  <2>1. Len(u) \in Nat /\ Len(caps) \in Nat
    BY <1>1
  <2> QED
    BY ONLY <2>1, limit \in Nat
<1> HIDE DEF r
<1>5. /\ r \in Seq(X) /\ Len(r) = k /\ DOMAIN r = 1 .. k
      /\ \A i \in 1 .. k : r[i] = u[i] /\ i \in 1 .. Len(u)
  <2> HIDE DEF k
  <2> QED
    BY <1>3, <1>4 DEF BeginningOf
<1>6. TextsDiffer(r)
  <2> HIDE DEF k
  <2> QED
    BY <1>2, <1>5 DEF TextsDiffer
<1>7. Cardinality(TextsOf(r)) = Len(r)
  BY <1>5, <1>6, TextsCount
<1>8. IsFiniteSet(all) /\ Cardinality(all) \in Nat
  BY FS_Union, FS_CardinalityType
<1> HIDE DEF all
<1>9. Cardinality(TextsOf(u)) = Len(u)
  BY <1>1, <1>2, TextsCount
<1>10. Len(u) <= Cardinality(all) /\ (Len(u) < limit => Len(u) = Cardinality(all))
  <2>1. Cardinality(TextsOf(u)) <= Cardinality(all)
    BY <1>2, <1>8, FS_Subset
  <2>2. Len(u) < limit => TextsOf(u) = all
    BY <1>2
  <2> QED
    BY <1>9, <2>1, <2>2
<1>11. Len(r) = IF limit < Cardinality(all) THEN limit ELSE Cardinality(all)
  BY <1>4, <1>5, <1>8, <1>10
<1>12. Len(r) = Min({limit, Cardinality(all)})
  BY <1>8, <1>11, MinOfTwo
<1> HIDE DEF k
<1>13. ASSUME NEW i \in 1 .. Len(r)
       PROVE  IF i <= Cardinality(areas) THEN BearsOut(r[i], areas, P) ELSE Proposes(r[i], R)
  <2>1. r[i] = u[i] /\ i \in 1 .. Len(u)
    BY <1>5
  <2>2. CASE i <= Len(caps)
    <3>1. i \in 1 .. Len(caps)
      BY <1>4, <2>1, <2>2
    <3> QED
      BY <1>2, <2>1, <2>2, <3>1
  <2>3. CASE ~(i <= Len(caps))
    <3>1. i \in Len(caps) + 1 .. Len(u)
      BY <1>4, <2>1, <2>3
    <3> QED
      BY <1>2, <2>1, <2>3, <3>1
  <2> QED
    BY <2>2, <2>3
<1>14. DOMAIN r = 1 .. Len(r)
  BY <1>5
<1> QED
  BY <1>7, <1>12, <1>13, <1>14 DEF Grounded, all, r, u

LEMMA GroundedLemma == SearchInv => SuggestionsGrounded
<1> SUFFICES ASSUME SearchInv, IsRelated PROVE SuggestionsGrounded
  BY DEF SuggestionsGrounded
<1> DEFINE seeds == answer.seeds
           related == answer.related
           q == answer.q
           limit == answer.suggestLimit
           pool == seeds \o related
           P == Seeds \cup Range(related)
           caps == Capabilities(q, pool)
           xs == Features(q, seeds, related)
           areas == Areas(P, q)
           titles == {TitleOf[d] : d \in Range(related)}
           X == Range(caps) \cup Range(xs)
           list == answer.suggested
<1>1. RelatedInv /\ DocsInv
  BY RelatedAnswered DEF SearchInv
<1>2. /\ seeds \in Seq(Stored) /\ Range(seeds) \subseteq Stored /\ limit \in Nat
      /\ list = First(AllAdded(caps, xs, limit), limit)
  BY <1>1 DEF RelatedInv, Seeds, Suggest
<1>3. related \in Seq(Stored) /\ Range(related) \subseteq Stored \cap RelatedTo(seeds, q)
  <2>1. BestOf(related, Stored \cap RelatedTo(seeds, q), Closeness(seeds, q), Stored, answer.limit)
    BY <1>1, RelatedLemma DEF RelatedInv, Seeds, RelatedList
  <2> QED
    BY <2>1 DEF BestOf
<1> HIDE DEF related, seeds, q, limit, list
<1>4. pool \in Seq(Stored) /\ Range(pool) = P
  BY <1>2, <1>3, ConcatRange DEF Seeds, seeds
<1> HIDE DEF pool, P
<1>5. /\ caps \in Seq(Range(caps)) /\ IsFiniteSet(areas) /\ Len(caps) = Cardinality(areas)
      /\ TextsDiffer(caps) /\ TextsOf(caps) = areas
      /\ \A i \in 1 .. Len(caps) : BearsOut(caps[i], areas, P)
  BY <1>1, <1>4, CapabilitiesLemma
<1>6. /\ xs \in Seq(Range(xs)) /\ {xs[i].text : i \in 1 .. Len(xs)} = titles
      /\ \A i \in 1 .. Len(xs) : Proposes(xs[i], Range(related))
  BY <1>1, <1>2, <1>3, FeaturesLemma
<1>7. IsFiniteSet(titles)
  <2>1. titles \subseteq Range(Alphabet)
    BY <1>1, <1>3, StoredLemma, FeatureSearchAssumption
  <2> QED
    BY <2>1, TextsLemma
<1> HIDE DEF caps, xs, titles, areas
<1>8. caps \in Seq(X) /\ xs \in Seq(X)
  BY <1>5, <1>6
<1> HIDE DEF X
<1>9. Grounded(list, areas, titles, P, Range(related), limit)
  BY <1>2, <1>5, <1>6, <1>7, <1>8, CombinedLemma
<1>10. /\ Cardinality(TextsOf(list)) = Len(list) /\ DOMAIN list = 1 .. Len(list)
       /\ Len(list) = Min({limit, Cardinality(areas \cup titles)})
       /\ \A i \in DOMAIN list :
             IF i <= Cardinality(areas) THEN BearsOut(list[i], areas, P)
             ELSE Proposes(list[i], Range(related))
  BY <1>9 DEF Grounded
<1>11. TextsOf(list) = {list[i].text : i \in DOMAIN list}
  BY <1>10 DEF TextsOf
<1>12. areas = (UNION {LabelsOf(TokensOf[d]) : d \in P}) \ LabelsOf(q)
  BY DEF areas, Areas
<1> QED
  BY <1>10, <1>11, <1>12
     DEF SuggestionsGrounded, BearsOut, Proposes, P, titles, list, related, q, limit

-----------------------------------------------------------------------------
(* The answers.                                                            *)

\* An answer of /search/features is well formed, every hit is on the page and at
\* the place of its rank, and with no score to reach the pages have exactly the
\* documents with a typed token or one of the same area (FeatureIndex.score_all,
\* FeatureRecommender.search), for any store, query, page and score.
THEOREM SearchAnswersExactly == SearchSpec => []SearchExact
  BY SearchInvariance, ExactLemma, PTL

\* Autocomplete offers the heaviest texts of the store that begin with the
\* prefix, each once (FeatureRecommender.suggest), for any store and limit.
THEOREM HeaviestFirst == SearchSpec => []HeaviestOffered
  BY SearchInvariance, HeaviestLemma, PTL

\* Related features come closest first, and none that is left out is closer
\* than one that is not (RelatedEngine.related), for any number of
\* seeds and any limit.
THEOREM ClosestFirst == SearchSpec => []ClosestRelated
  BY SearchInvariance, ClosestLemma, PTL

\* A related feature is no seed and has an area, a distinctive tag or a
\* distinctive token in common with one; in a store of up to three documents it
\* is an area (RelatedEngine.related, RelatedEngine._relatedness).
THEOREM RelatedShare == SearchSpec => []RelatedByContent
  BY SearchInvariance, ContentLemma, PTL

\* Each suggestion is new to the query or the title of a related feature, is
\* borne out by its examples and comes once, and there are as many as the limit
\* allows (RelatedEngine._suggest), for any pool and limit.
THEOREM SuggestionsBorneOut == SearchSpec => []SuggestionsGrounded
  BY SearchInvariance, GroundedLemma, PTL

=============================================================================
