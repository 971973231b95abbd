--------------------------- MODULE MetadataProofs ---------------------------
(***************************************************************************)
(* Whatever GitHub answers for a commit, and however often and with what   *)
(* options it is processed: the figures stored of it agree with its files, *)
(* a well-formed commit is never refused, its change type has its ground   *)
(* in its message or its files, and processing it again changes no fact.   *)
(***************************************************************************)
EXTENDS Metadata, ListLemmas

-----------------------------------------------------------------------------
(* Lists in reverse.                                                       *)

LEMMA ReverseLemma ==
    ASSUME NEW T, NEW s \in Seq(T)
    PROVE  /\ Reverse(s) \in Seq(T) /\ Len(Reverse(s)) = Len(s)
           /\ \A i \in 1 .. Len(s) : Reverse(s)[i] = s[Len(s) - i + 1]
           /\ Range(Reverse(s)) = Range(s)
<1>1. Len(s) \in Nat /\ DOMAIN s = 1 .. Len(s) /\ \A i \in 1 .. Len(s) : s[i] \in T
  BY LenProperties, ElementOfSeq
<1>2. \A i \in 1 .. Len(s) : Len(s) - i + 1 \in 1 .. Len(s)
  BY <1>1
<1>3. /\ Reverse(s) \in Seq(T) /\ Len(Reverse(s)) = Len(s)
      /\ \A i \in 1 .. Len(s) : Reverse(s)[i] = s[Len(s) - i + 1]
  BY <1>1, <1>2 DEF Reverse
<1>4. Range(Reverse(s)) \subseteq Range(s)
  <2>1. DOMAIN Reverse(s) = 1 .. Len(s)
    BY <1>3, LenProperties
  <2> QED
    BY <1>1, <1>2, <1>3, <2>1 DEF Range
<1>5. ASSUME NEW i \in 1 .. Len(s) PROVE s[i] \in Range(Reverse(s))
  <2>1. PICK j \in 1 .. Len(s) : Len(s) - j + 1 = i
    <3>1. Len(s) - i + 1 \in 1 .. Len(s) /\ Len(s) - (Len(s) - i + 1) + 1 = i
      BY <1>1
    <3> QED
      BY <3>1
  <2>2. Reverse(s)[j] = s[i] /\ DOMAIN Reverse(s) = 1 .. Len(s)
    BY <1>3, <2>1, LenProperties
  <2> QED
    BY <2>2 DEF Range
<1> QED
  BY <1>1, <1>3, <1>4, <1>5 DEF Range

LEMMA ReverseAppend ==
    ASSUME NEW T, NEW s \in Seq(T), NEW x \in T
    PROVE  Reverse(Append(s, x)) = <<x>> \o Reverse(s)
<1> DEFINE r == Append(s, x)
           N == Len(s)
<1>1. /\ r \in Seq(T) /\ Len(r) = N + 1 /\ N \in Nat
      /\ \A n \in 1 .. N : r[n] = s[n]
      /\ r[N + 1] = x
  BY AppendProperties, LenProperties
<1>2. /\ Reverse(s) \in Seq(T) /\ Len(Reverse(s)) = N
      /\ \A i \in 1 .. N : Reverse(s)[i] = s[N - i + 1]
  BY ReverseLemma
<1> HIDE DEF r, N
<1>3. /\ Reverse(r) \in Seq(T) /\ Len(Reverse(r)) = N + 1
      /\ \A i \in 1 .. N + 1 : Reverse(r)[i] = r[N + 1 - i + 1]
  <2>1. /\ Reverse(r) \in Seq(T) /\ Len(Reverse(r)) = Len(r)
        /\ \A i \in 1 .. Len(r) : Reverse(r)[i] = r[Len(r) - i + 1]
    BY <1>1, ReverseLemma
  <2> QED
    BY <1>1, <2>1
<1> DEFINE q == Reverse(s)
<1> HIDE DEF q
<1>4. q \in Seq(T) /\ Len(q) = N /\ \A i \in 1 .. N : q[i] = s[N - i + 1]
  BY <1>2 DEF q
<1>5. /\ <<x>> \o q \in Seq(T) /\ Len(<<x>> \o q) = N + 1
      /\ (<<x>> \o q)[1] = x
      /\ \A i \in 2 .. N + 1 : (<<x>> \o q)[i] = q[i - 1]
  BY <1>1, <1>4
<1>6. ASSUME NEW i \in 1 .. N + 1 PROVE Reverse(r)[i] = (<<x>> \o q)[i]
  <2>1. CASE i = 1
    BY <1>1, <1>3, <1>5, <2>1
  <2>2. CASE i \in 2 .. N + 1
    <3>1. PICK j \in 1 .. N : j = i - 1
      BY <1>1, <2>2
    <3>2. N + 1 - i + 1 = N - j + 1 /\ N - j + 1 \in 1 .. N
      BY <1>1, <3>1
    <3>3. Reverse(r)[i] = r[N + 1 - i + 1]
      BY <1>3
    <3>5. (<<x>> \o q)[i] = q[i - 1]
      BY <1>5, <2>2
    <3>4. q[j] = s[N - j + 1] /\ r[N - j + 1] = s[N - j + 1]
      BY <1>1, <1>4, <3>1, <3>2
    <3> QED
      BY ONLY <3>1, <3>2, <3>3, <3>4, <3>5
  <2>3. i = 1 \/ i \in 2 .. N + 1
    <3>1. N \in Nat /\ i \in 1 .. N + 1
      BY <1>1
    <3> QED
      BY ONLY <3>1
  <2> QED
    BY ONLY <2>1, <2>2, <2>3
<1>7. Reverse(r) = <<x>> \o q
  BY <1>3, <1>5, <1>6, SeqEqual
<1> QED
  BY <1>7 DEF q, r

LEMMA ConsAppend ==
    ASSUME NEW T, NEW s \in Seq(T), NEW x \in T, NEW y \in T
    PROVE  /\ <<x>> \o s \in Seq(T)
           /\ <<x>> \o Append(s, y) = Append(<<x>> \o s, y)
  OBVIOUS

LEMMA ConsEmpty ==
    ASSUME NEW T, NEW x \in T
    PROVE  <<x>> \o <<>> = Append(<<>>, x) /\ <<>> \in Seq(T) /\ Reverse(<<>>) = <<>>
  BY DEF Reverse

\* The order of a list does not matter to its sum.
LEMMA TotalReverse ==
    ASSUME NEW s \in Seq(Nat)
    PROVE  Total(Reverse(s)) = Total(s)
<1> DEFINE A == {t \in Seq(Nat) : \A x \in Nat : Total(<<x>> \o t) = x + Total(t)}
           B == {t \in Seq(Nat) : Total(Reverse(t)) = Total(t)}
<1>1. <<>> \in A
  <2> SUFFICES ASSUME NEW x \in Nat PROVE Total(<<x>> \o <<>>) = x + Total(<<>>)
    BY ConsEmpty
  <2>1. <<x>> \o <<>> = Append(<<>>, x) /\ <<>> \in Seq(Nat)
    BY ConsEmpty
  <2>2. Total(Append(<<>>, x)) = Total(<<>>) + x
    BY ONLY <2>1, TotalAppend
  <2> QED
    BY <2>1, <2>2, TotalEmpty
<1>2. ASSUME NEW t \in Seq(Nat), NEW y \in Nat, t \in A PROVE Append(t, y) \in A
  <2> SUFFICES ASSUME NEW x \in Nat
               PROVE  Total(<<x>> \o Append(t, y)) = x + Total(Append(t, y))
    OBVIOUS
  <2>1. <<x>> \o t \in Seq(Nat) /\ <<x>> \o Append(t, y) = Append(<<x>> \o t, y)
    BY ConsAppend
  <2>2. Total(<<x>> \o t) = x + Total(t)
    BY <1>2
  <2>3. Total(Append(<<x>> \o t, y)) = Total(<<x>> \o t) + y
    BY <2>1, TotalAppend
  <2>4. Total(Append(t, y)) = Total(t) + y /\ Total(t) \in Nat
    BY TotalAppend, TotalNat
  <2> DEFINE n == Total(t)
  <2>5. n \in Nat /\ x \in Nat /\ y \in Nat /\ Total(<<x>> \o Append(t, y)) = (x + n) + y
        /\ Total(Append(t, y)) = n + y
    BY <2>1, <2>2, <2>3, <2>4
  <2> HIDE DEF n
  <2> QED
    BY ONLY <2>5
<1>3. Seq(Nat) \subseteq A
  <2> HIDE DEF A
  <2> QED
    BY <1>1, <1>2, ListInduction
<1>4. <<>> \in B
  BY ConsEmpty
<1>5. ASSUME NEW t \in Seq(Nat), NEW y \in Nat, t \in B PROVE Append(t, y) \in B
  <2>1. Reverse(Append(t, y)) = <<y>> \o Reverse(t) /\ Reverse(t) \in Seq(Nat)
    BY ReverseAppend, ReverseLemma
  <2>2. Total(<<y>> \o Reverse(t)) = y + Total(Reverse(t))
    BY <1>3, <2>1
  <2>3. Total(Append(t, y)) = Total(t) + y /\ Total(t) \in Nat /\ Append(t, y) \in Seq(Nat)
    BY TotalAppend, TotalNat
  <2>4. Total(Reverse(t)) = Total(t)
    BY <1>5
  <2>5. Total(Reverse(Append(t, y))) = Total(Append(t, y))
    BY ONLY <2>1, <2>2, <2>3, <2>4
  <2> QED
    BY <2>3, <2>5
<1>6. Seq(Nat) \subseteq B
  <2> HIDE DEF B
  <2> QED
    BY <1>4, <1>5, ListInduction
<1> QED
  BY <1>6

\* Selecting and reversing a list can be swapped.
LEMMA SelectedReverse ==
    ASSUME NEW T, NEW s \in Seq(T), NEW S
    PROVE  Selected(Reverse(s), S) = Reverse(Selected(s, S))
<1> DEFINE e(t) == Selected(t, S)
           A == {t \in Seq(T) :
                    \A x \in T : e(<<x>> \o t) = IF x \in S THEN <<x>> \o e(t) ELSE e(t)}
           B == {t \in Seq(T) : e(Reverse(t)) = Reverse(e(t))}
<1>0. e(<<>>) = <<>> /\ <<>> \in Seq(T) /\ \A t \in Seq(T) : e(t) \in Seq(T)
  <2>1. <<>> \in Seq(T) /\ Len(<<>>) = 0
    OBVIOUS
  <2> QED
    BY <2>1, SelectedEmpty, SelectedLemma
<1>1. <<>> \in A
  <2> SUFFICES ASSUME NEW x \in T
               PROVE  e(<<x>> \o <<>>) = IF x \in S THEN <<x>> \o e(<<>>) ELSE e(<<>>)
    BY <1>0
  <2>1. <<x>> \o <<>> = Append(<<>>, x)
    BY ConsEmpty
  <2>2. e(Append(<<>>, x)) = IF x \in S THEN Append(e(<<>>), x) ELSE e(<<>>)
    BY <1>0, SelectedAppend
  <2> QED
    BY <1>0, <2>1, <2>2
<1>2. ASSUME NEW t \in Seq(T), NEW y \in T, t \in A PROVE Append(t, y) \in A
  <2> SUFFICES ASSUME NEW x \in T
               PROVE  e(<<x>> \o Append(t, y)) =
                         IF x \in S THEN <<x>> \o e(Append(t, y)) ELSE e(Append(t, y))
    OBVIOUS
  <2>1. <<x>> \o t \in Seq(T) /\ <<x>> \o Append(t, y) = Append(<<x>> \o t, y)
    BY ConsAppend
  <2>2. e(<<x>> \o t) = IF x \in S THEN <<x>> \o e(t) ELSE e(t)
    BY <1>2
  <2>3. e(Append(<<x>> \o t, y)) = IF y \in S THEN Append(e(<<x>> \o t), y) ELSE e(<<x>> \o t)
    BY <2>1, SelectedAppend
  <2>4. e(Append(t, y)) = IF y \in S THEN Append(e(t), y) ELSE e(t)
    BY SelectedAppend
  <2>5. <<x>> \o Append(e(t), y) = Append(<<x>> \o e(t), y)
    <3>1. e(t) \in Seq(T)
      BY <1>0
    <3> HIDE DEF e
    <3> QED
      BY <3>1, ConsAppend
  <2> HIDE DEF e
  <2> QED
    BY ONLY <2>1, <2>2, <2>3, <2>4, <2>5
<1>3. Seq(T) \subseteq A
  <2> HIDE DEF A
  <2> QED
    BY <1>1, <1>2, ListInduction
<1>4. <<>> \in B
  <2>1. Reverse(<<>>) = <<>>
    BY DEF Reverse
  <2> HIDE DEF e
  <2> QED
    BY <1>0, <2>1
<1>5. ASSUME NEW t \in Seq(T), NEW y \in T, t \in B PROVE Append(t, y) \in B
  <2>1. Reverse(Append(t, y)) = <<y>> \o Reverse(t) /\ Reverse(t) \in Seq(T)
    BY ReverseAppend, ReverseLemma
  <2>2. e(<<y>> \o Reverse(t)) = IF y \in S THEN <<y>> \o e(Reverse(t)) ELSE e(Reverse(t))
    <3> HIDE DEF e
    <3> QED
      BY <1>3, <2>1 DEF A
  <2>3. e(Append(t, y)) = IF y \in S THEN Append(e(t), y) ELSE e(t)
    BY SelectedAppend
  <2>4. e(Reverse(t)) = Reverse(e(t)) /\ Append(t, y) \in Seq(T)
    BY <1>5
  <2>5. Reverse(Append(e(t), y)) = <<y>> \o Reverse(e(t))
    <3>1. e(t) \in Seq(T)
      BY <1>0
    <3> HIDE DEF e
    <3> QED
      BY <3>1, ReverseAppend
  <2> HIDE DEF e
  <2>6. e(Reverse(Append(t, y))) = Reverse(e(Append(t, y)))
    BY ONLY <2>1, <2>2, <2>3, <2>4, <2>5
  <2> QED
    BY <2>4, <2>6 DEF B
<1>6. Seq(T) \subseteq B
  <2> HIDE DEF B
  <2> QED
    BY <1>4, <1>5, ListInduction
<1> QED
  BY <1>6

-----------------------------------------------------------------------------
(* Firsts.                                                                 *)

LEMMA MinLemma ==
    ASSUME NEW I \in SUBSET Nat, I # {}
    PROVE  Min(I) \in I /\ \A i \in I : Min(I) <= i
<1>1. \E m \in I : \A i \in I : m <= i
  BY LeastExists
<1> QED
  BY ONLY <1>1, Zenon DEF Min

-----------------------------------------------------------------------------
(* The rules.                                                              *)

\* Of n rules none holds, and the other answer counts, or the first that holds
\* decides, whatever the other answer.
Decided(rules, n) ==
    \/ /\ \A i \in 1 .. n : ~rules[i].holds
       /\ \A other : FirstRule(rules, other) = other
    \/ \E i \in 1 .. n : /\ rules[i].holds /\ \A j \in 1 .. i - 1 : ~rules[j].holds
                         /\ \A other : FirstRule(rules, other) = rules[i].gives

LEMMA FirstRuleLemma ==
    ASSUME NEW rules, NEW n \in Nat, Len(rules) = n
    PROVE  Decided(rules, n)
<1> DEFINE I == {i \in 1 .. n : rules[i].holds}
<1>1. \A other : FirstRule(rules, other) =
        IF (IF I # {} THEN Min(I) ELSE 0) = 0 THEN other
        ELSE rules[IF I # {} THEN Min(I) ELSE 0].gives
  BY DEF FirstRule, SelectInSeq
<1>2. CASE I = {}
  BY <1>1, <1>2 DEF Decided
<1>3. CASE I # {}
  <2>1. I \in SUBSET Nat
    OBVIOUS
  <2> HIDE DEF I
  <2>2. PICK m \in I : m = Min(I) /\ \A i \in I : m <= i
    BY <1>3, <2>1, MinLemma
  <2>3. m \in 1 .. n /\ rules[m].holds
    BY DEF I
  <2>4. \A other : FirstRule(rules, other) = rules[m].gives
    <3>1. (IF I # {} THEN Min(I) ELSE 0) = m /\ m # 0
      BY <1>3, <2>2, <2>3
    <3> QED
      BY <1>1, <3>1
  <2>5. ASSUME NEW j \in 1 .. m - 1 PROVE ~rules[j].holds
    <3>1. j \in 1 .. n /\ ~(m <= j)
      BY <2>3
    <3>2. j \notin I
      BY <2>2, <3>1
    <3> QED
      BY <3>1, <3>2 DEF I
  <2> QED
    BY <2>3, <2>4, <2>5 DEF Decided
<1> QED
  BY <1>2, <1>3

\* Every file has a category, and one counted as source is a program in a known
\* language at no place that another rule knows.
LEMMA ClassifyLemma ==
    ASSUME NEW f
    PROVE  /\ ClassifyFile(f) \in FileCategories
           /\ ClassifyFile(f) = "source" =>
                 /\ f.path \notin {"workflows", "tests"}
                 /\ f.base \notin {"ci", "test", "build", "readme"}
                 /\ f.ext \in DOMAIN LanguageOf
<1> DEFINE P1 == f.path = "workflows" \/ f.base = "ci"
           P2 == IsTestPath(f)
           P3 == f.base = "build"
           P4 == f.ext \in DocExt \/ f.base = "readme"
           P5 == f.ext \in AssetExt
           P6 == f.ext \in DataExt
           P7 == f.ext \in ConfigExt
           P8 == f.ext \in DOMAIN LanguageOf \ DocExt
           rules == <<Rule("ci", P1), Rule("test", P2), Rule("build", P3), Rule("docs", P4),
                      Rule("asset", P5), Rule("data", P6), Rule("config", P7),
                      Rule("source", P8)>>
<1>1. ClassifyFile(f) = FirstRule(rules, "other")
  BY DEF ClassifyFile
<1>2. /\ Len(rules) = 8
      /\ rules[1] = Rule("ci", P1) /\ rules[2] = Rule("test", P2)
      /\ rules[3] = Rule("build", P3) /\ rules[4] = Rule("docs", P4)
      /\ rules[5] = Rule("asset", P5) /\ rules[6] = Rule("data", P6)
      /\ rules[7] = Rule("config", P7) /\ rules[8] = Rule("source", P8)
  <2> HIDE DEF P1, P2, P3, P4, P5, P6, P7, P8
  <2> QED
    OBVIOUS
<1> HIDE DEF rules, P1, P2, P3, P4, P5, P6, P7, P8
<1>3. /\ rules[1].gives = "ci" /\ rules[2].gives = "test" /\ rules[3].gives = "build"
      /\ rules[4].gives = "docs" /\ rules[5].gives = "asset" /\ rules[6].gives = "data"
      /\ rules[7].gives = "config" /\ rules[8].gives = "source"
  BY <1>2 DEF Rule
<1>4. /\ rules[1].holds = P1 /\ rules[2].holds = P2 /\ rules[3].holds = P3
      /\ rules[4].holds = P4 /\ rules[8].holds = P8
  BY <1>2 DEF Rule
<1>5. Decided(rules, 8)
  <2>1. 8 \in Nat /\ Len(rules) = 8
    BY <1>2
  <2> QED
    BY ONLY <2>1, FirstRuleLemma
<1>6. CASE ClassifyFile(f) = "other"
  BY <1>6 DEF FileCategories
<1>7. CASE ClassifyFile(f) # "other"
  <2>1. PICK i \in 1 .. 8 : /\ rules[i].holds /\ \A j \in 1 .. i - 1 : ~rules[j].holds
                            /\ ClassifyFile(f) = rules[i].gives
    BY <1>1, <1>5, <1>7 DEF Decided
  <2>2. i \in {1, 2, 3, 4, 5, 6, 7, 8}
    OBVIOUS
  <2>3. ClassifyFile(f) \in FileCategories /\ (ClassifyFile(f) = "source" => i = 8)
    BY <1>3, <2>1, <2>2 DEF FileCategories
  <2>4. ASSUME i = 8
        PROVE  /\ f.path \notin {"workflows", "tests"}
               /\ f.base \notin {"ci", "test", "build", "readme"}
               /\ f.ext \in DOMAIN LanguageOf
    <3>1. \A j \in 1 .. 7 : ~rules[j].holds
      BY <2>1, <2>4
    <3>2. ~P1 /\ ~P2 /\ ~P3 /\ ~P4 /\ P8
      BY <1>4, <2>1, <2>4, <3>1
    <3> QED
      BY <3>2 DEF P1, P2, P3, P4, P8, IsTestPath
  <2> QED
    BY <2>3, <2>4
<1> QED
  BY <1>6, <1>7

LEMMA LanguageLemma == \A e \in DOMAIN LanguageOf : LanguageOf[e] \in Languages \ {Absent}
<1> SUFFICES ASSUME NEW e \in DOMAIN LanguageOf PROVE LanguageOf[e] \in Languages \ {Absent}
  OBVIOUS
<1> DEFINE k == CHOOSE l \in LanguageTable : l[1] = e
<1>1. \E l \in LanguageTable : l[1] = e
  BY DEF LanguageOf
<1>2. k \in LanguageTable /\ LanguageOf[e] = k[2]
  BY <1>1 DEF LanguageOf
<1> QED
  BY <1>2, MetadataAssumption DEF Languages

-----------------------------------------------------------------------------
(* The files of a commit.                                                  *)

ChangedFiles ==
    [name : Text, status : Statuses \cup {Null}, additions : Nat, deletions : Nat,
     category : FileCategories, language : Languages \cup {Absent}, patch : Text]

\* The entries that are taken over, and what becomes of one.
NamedIn(p) == {f \in Range(p.files) : f.name # Absent}
Entries(p) == Selected(p.files, NamedIn(p))
FileOf(f, includePatch) ==
    [name |-> f.name, status |-> StatusOf(f), additions |-> OrZero(f.additions),
     deletions |-> OrZero(f.deletions), category |-> ClassifyFile(f),
     language |-> DetectLanguage(f), patch |-> IF includePatch THEN f.patch ELSE Absent]

LEMMA FileLemma ==
    ASSUME NEW f \in FileEntries, NEW b \in BOOLEAN
    PROVE  FileOf(f, b) \in ChangedFiles
<1>1. OrZero(f.additions) \in Nat /\ OrZero(f.deletions) \in Nat
  BY DEF FileEntries, Figure, OrZero
<1>2. DetectLanguage(f) \in Languages \cup {Absent}
  BY LanguageLemma DEF DetectLanguage
<1>3. ClassifyFile(f) \in FileCategories
  BY ClassifyLemma
<1>4. f.name \in Text /\ (IF b THEN f.patch ELSE Absent) \in Text
  BY DEF FileEntries, Text
<1>5. StatusOf(f) \in Statuses \cup {Null}
  BY DEF FileEntries, Statuses, StatusOf
<1> QED
  BY <1>1, <1>2, <1>3, <1>4, <1>5 DEF FileOf, ChangedFiles

LEMMA ExtractLemma ==
    ASSUME NEW p \in Answers, NEW b \in BOOLEAN
    PROVE  LET files == ExtractChangedFiles(p, b)
           IN  /\ p.files \in Seq(FileEntries) /\ Entries(p) \in Seq(FileEntries)
               /\ Range(Entries(p)) = NamedIn(p)
               /\ files \in Seq(ChangedFiles) /\ Len(files) = Len(Entries(p))
               /\ DOMAIN files = 1 .. Len(Entries(p)) /\ Len(Entries(p)) \in Nat
               /\ \A i \in 1 .. Len(Entries(p)) :
                     files[i] = FileOf(Entries(p)[i], b) /\ Entries(p)[i] \in FileEntries
<1> DEFINE s == Entries(p)
           files == ExtractChangedFiles(p, b)
<1>1. p.files \in Seq(FileEntries)
  BY DEF Answers
<1>2. s \in Seq(FileEntries) /\ Range(s) = Range(p.files) \cap NamedIn(p)
  BY <1>1, SelectedLemma DEF Entries
<1>3. Range(s) = NamedIn(p)
  BY <1>2 DEF NamedIn
<1> HIDE DEF s
<1>4. Len(s) \in Nat /\ DOMAIN s = 1 .. Len(s) /\ \A i \in 1 .. Len(s) : s[i] \in FileEntries
  BY <1>2, LenProperties, ElementOfSeq
<1>5. files = [i \in DOMAIN s |-> FileOf(s[i], b)]
  BY DEF ExtractChangedFiles, s, Entries, NamedIn, FileOf
<1> HIDE DEF files
<1>6. \A i \in 1 .. Len(s) : files[i] = FileOf(s[i], b) /\ files[i] \in ChangedFiles
  BY <1>4, <1>5, FileLemma
<1>7. files \in Seq(ChangedFiles) /\ DOMAIN files = 1 .. Len(s) /\ Len(files) = Len(s)
  BY <1>4, <1>5, <1>6
<1> QED
  BY <1>1, <1>2, <1>3, <1>4, <1>6, <1>7 DEF s, files

-----------------------------------------------------------------------------
(* Counting files by category.                                             *)

In(files, c) == {i \in DOMAIN files : files[i].category = c}

\* One way to number the files of a category.
Numbering(files, c) == CHOOSE g : g \in Bijection(1 .. CountOf(files, c), In(files, c))

LEMMA CountLemma ==
    ASSUME NEW files, NEW n \in Nat, DOMAIN files = 1 .. n, NEW c
    PROVE  /\ CountOf(files, c) = Cardinality(In(files, c))
           /\ IsFiniteSet(In(files, c)) /\ CountOf(files, c) \in Nat
           /\ CountOf(files, c) <= n
           /\ CountOf(files, c) = 0 <=> In(files, c) = {}
<1> DEFINE I == In(files, c)
<1>1. CountOf(files, c) = Cardinality(I)
  BY DEF CountOf, In
<1>2. IsFiniteSet(1 .. n) /\ Cardinality(1 .. n) = n
  <2>1. 1 \in Int /\ n \in Int
    OBVIOUS
  <2>2. IsFiniteSet(1 .. n) /\ Cardinality(1 .. n) = IF 1 > n THEN 0 ELSE n - 1 + 1
    BY ONLY <2>1, FS_Interval
  <2> QED
    BY <2>2
<1>3. I \in SUBSET (1 .. n)
  BY DEF In
<1> HIDE DEF I
<1>4. IsFiniteSet(I) /\ Cardinality(I) <= n
  <2> DEFINE D == 1 .. n
  <2>1. IsFiniteSet(D) /\ Cardinality(D) = n /\ I \in SUBSET D
    BY <1>2, <1>3
  <2> HIDE DEF D
  <2>2. IsFiniteSet(I) /\ Cardinality(I) <= Cardinality(D)
    BY ONLY <2>1, FS_Subset
  <2> QED
    BY <2>1, <2>2
<1>5. Cardinality(I) \in Nat /\ (Cardinality(I) = 0 <=> I = {})
  BY <1>4, FS_CardinalityType, FS_EmptySet
<1> QED
  BY <1>1, <1>4, <1>5 DEF I

\* The pairs of a category and a number up to its count are as many as the files.
LEMMA PairsLemma ==
    ASSUME NEW files, NEW n \in Nat, DOMAIN files = 1 .. n
    PROVE  LET cats == CategoryCounts(files)
           IN  Cardinality(UNION {{c} \X (1 .. cats[c]) : c \in DOMAIN cats}) = n
<1> DEFINE cats == CategoryCounts(files)
           C == {files[i].category : i \in DOMAIN files}
           U == UNION {{c} \X (1 .. cats[c]) : c \in DOMAIN cats}
           G == [x \in U |-> Numbering(files, x[1])[x[2]]]
<1>1. DOMAIN cats = C /\ \A c \in C : cats[c] = CountOf(files, c)
  BY DEF CategoryCounts
<1>2. ASSUME NEW c
      PROVE  Numbering(files, c) \in Bijection(1 .. CountOf(files, c), In(files, c))
  <2>1. /\ IsFiniteSet(In(files, c)) /\ CountOf(files, c) = Cardinality(In(files, c))
    BY CountLemma
  <2>2. ExistsBijection(1 .. CountOf(files, c), In(files, c))
    BY ONLY <2>1, FS_CardinalityType
  <2>3. \E g : g \in Bijection(1 .. CountOf(files, c), In(files, c))
    BY <2>2 DEF ExistsBijection
  <2> QED
    BY <2>3 DEF Numbering
<1>3. \A x : x \in U <=> \E c \in C : \E k \in 1 .. CountOf(files, c) : x = <<c, k>>
  <2>1. \A x : x \in U <=> \E c \in DOMAIN cats : x \in {c} \X (1 .. cats[c])
    OBVIOUS
  <2> HIDE DEF C, U, cats
  <2> QED
    BY <1>1, <2>1
<1>4. ASSUME NEW i \in 1 .. n
      PROVE  /\ files[i].category \in C
             /\ \A c : i \in In(files, c) <=> c = files[i].category
  BY DEF In
<1>5. \A c : In(files, c) \subseteq 1 .. n
  BY DEF In
<1> HIDE DEF C, U, cats
<1>6. ASSUME NEW c \in C, NEW k \in 1 .. CountOf(files, c)
      PROVE  /\ <<c, k>> \in U /\ G[<<c, k>>] = Numbering(files, c)[k]
             /\ Numbering(files, c)[k] \in In(files, c)
  <2>1. <<c, k>> \in U
    BY <1>3
  <2>2. Numbering(files, c)[k] \in In(files, c)
    BY <1>2 DEF Bijection, Injection, Surjection
  <2> QED
    BY <2>1, <2>2
<1>7. G \in [U -> 1 .. n]
  <2> SUFFICES ASSUME NEW x \in U PROVE G[x] \in 1 .. n
    OBVIOUS
  <2>1. PICK c \in C : \E k \in 1 .. CountOf(files, c) : x = <<c, k>>
    BY <1>3
  <2>1x. PICK k \in 1 .. CountOf(files, c) : x = <<c, k>>
    BY <2>1
  <2> QED
    BY <1>5, <1>6, <2>1x
<1>8. ASSUME NEW x \in U, NEW y \in U, G[x] = G[y] PROVE x = y
  <2>1. PICK c \in C : \E k \in 1 .. CountOf(files, c) : x = <<c, k>>
    BY <1>3
  <2>1x. PICK k \in 1 .. CountOf(files, c) : x = <<c, k>>
    BY <2>1
  <2>2. PICK d \in C : \E l \in 1 .. CountOf(files, d) : y = <<d, l>>
    BY <1>3
  <2>1y. PICK l \in 1 .. CountOf(files, d) : y = <<d, l>>
    BY <2>2
  <2> HIDE DEF G
  <2>3. /\ Numbering(files, c)[k] \in In(files, c) /\ Numbering(files, d)[l] \in In(files, d)
        /\ Numbering(files, c)[k] = Numbering(files, d)[l]
    BY <1>6, <1>8, <2>1x, <2>1y
  <2>4. c = d
    BY <1>4, <1>5, <2>3
  <2>5. k = l
    <3>1. Numbering(files, c) \in Bijection(1 .. CountOf(files, c), In(files, c))
      BY <1>2
    <3> QED
      BY <2>3, <2>4, <3>1 DEF Bijection, Injection, IsInjective
  <2> QED
    BY <2>1x, <2>1y, <2>4, <2>5
<1>9. ASSUME NEW i \in 1 .. n PROVE \E x \in U : G[x] = i
  <2>1. PICK c \in C : c = files[i].category /\ i \in In(files, c)
    BY <1>4
  <2>2. Numbering(files, c) \in Bijection(1 .. CountOf(files, c), In(files, c))
    BY <1>2
  <2>3. PICK k \in 1 .. CountOf(files, c) : Numbering(files, c)[k] = i
    BY <2>1, <2>2 DEF Bijection, Surjection
  <2> HIDE DEF G
  <2> QED
    BY <1>6, <2>3
<1> HIDE DEF G
<1>10. G \in Injection(U, 1 .. n) /\ G \in Surjection(U, 1 .. n)
  BY <1>7, <1>8, <1>9 DEF Injection, Surjection, IsInjective
<1>11. IsFiniteSet(1 .. n) /\ Cardinality(1 .. n) = n
  <2>1. 1 \in Int /\ n \in Int
    OBVIOUS
  <2>2. IsFiniteSet(1 .. n) /\ Cardinality(1 .. n) = IF 1 > n THEN 0 ELSE n - 1 + 1
    BY ONLY <2>1, FS_Interval
  <2> QED
    BY <2>2
<1>12. Cardinality(U) = n
  <2> DEFINE D == 1 .. n
  <2>1. G \in Injection(U, D) /\ G \in Surjection(U, D) /\ IsFiniteSet(D) /\ Cardinality(D) = n
    BY <1>10, <1>11
  <2> HIDE DEF D
  <2>2. Cardinality(U) = Cardinality(D) <=> G \in Surjection(U, D)
    BY ONLY <2>1, FS_Injection
  <2> QED
    BY <2>1, <2>2
<1> QED
  BY <1>12 DEF U, cats

-----------------------------------------------------------------------------
(* The change type.                                                        *)

\* A file of the list has the category that counts, and none has more files.
LEMMA DominantLemma ==
    ASSUME NEW files \in Seq(ChangedFiles), files # <<>>
    PROVE  \E i \in DOMAIN files :
              /\ Dominant(files) = files[i].category
              /\ \A c \in FileCategories : CountOf(files, c) <= CountOf(files, files[i].category)
<1> DEFINE n == Len(files)
           N == {CountOf(files, c) : c \in FileCategories}
           Most(f) == \A c \in FileCategories : CountOf(files, c) <= CountOf(files, f.category)
           I == {i \in 1 .. n : Most(files[i])}
<1>1. n \in Nat /\ DOMAIN files = 1 .. n /\ 1 \in 1 .. n
  BY LenProperties, EmptySeq
<1>2. \A i \in 1 .. n : files[i].category \in FileCategories
  <2>1. \A i \in 1 .. n : files[i] \in ChangedFiles
    BY ElementOfSeq
  <2> QED
    BY <2>1 DEF ChangedFiles
<1>3. Dominant(files) = files[IF I # {} THEN Min(I) ELSE 0].category
  BY DEF Dominant, SelectInSeq
<1> HIDE DEF n
<1>4. \A c \in FileCategories : /\ CountOf(files, c) \in Nat /\ CountOf(files, c) <= n
                                /\ CountOf(files, c) = 0 <=> In(files, c) = {}
  BY <1>1, CountLemma
<1>5. PICK m \in N : \A k \in N : k <= m
  <2>1. N \in SUBSET Nat /\ N # {} /\ \A k \in N : k <= n
    BY <1>4 DEF FileCategories
  <2> HIDE DEF N
  <2> QED
    BY <1>1, <2>1, MaxExists
<1>6. PICK c \in FileCategories : /\ m = CountOf(files, c)
                                  /\ \A d \in FileCategories : CountOf(files, d) <= m
  BY <1>5
<1>7. PICK i \in 1 .. n : files[i].category = c
  <2>1. In(files, files[1].category) # {}
    BY <1>1 DEF In
  <2>2. /\ CountOf(files, files[1].category) \in Nat /\ CountOf(files, files[1].category) # 0
        /\ CountOf(files, files[1].category) <= CountOf(files, c)
    BY <1>1, <1>2, <1>4, <1>6, <2>1
  <2>3. In(files, c) # {}
    BY <1>4, <2>2
  <2> QED
    BY <1>1, <2>3 DEF In
<1>8. I \in SUBSET Nat /\ I # {}
  BY <1>6, <1>7
<1>9. Min(I) \in I
  <2> HIDE DEF I
  <2> QED
    BY <1>8, MinLemma
<1> QED
  BY <1>1, <1>3, <1>8, <1>9

FilesType(files) == IF files = <<>> THEN "unknown" ELSE TypeOfCategory(Dominant(files))

\* A message that says something decides alone; of one that does not the files do.
LEMMA TypeLemma ==
    ASSUME NEW m \in CommitMessages
    PROVE  \/ /\ ClassifyChangeType(m, <<>>) \in ChangeTypes \ {"unknown"}
              /\ \A files : ClassifyChangeType(m, files) = ClassifyChangeType(m, <<>>)
           \/ /\ ClassifyChangeType(m, <<>>) = "unknown"
              /\ \A files : ClassifyChangeType(m, files) = FilesType(files)
<1>1. CASE m.prefix # Absent
  <2>1. m.prefix \in DOMAIN TypeAliases
    BY <1>1 DEF CommitMessages
  <2>2. TypeAliases[m.prefix] \in ChangeTypes \ {"unknown"}
    BY <2>1 DEF TypeAliases, ChangeTypes
  <2> QED
    BY <1>1, <2>2 DEF ClassifyChangeType
<1>2. CASE m.prefix = Absent
  <2> DEFINE rules == [i \in DOMAIN KeywordRules |->
                           Rule(KeywordRules[i], KeywordRules[i] \in m.keywords)]
  <2>1. \A files : ClassifyChangeType(m, files) = FirstRule(rules, FilesType(files))
    BY <1>2 DEF ClassifyChangeType, FilesType
  <2>2. /\ Len(rules) = 5
        /\ \A i \in 1 .. 5 : rules[i].gives \in ChangeTypes \ {"unknown"}
    <3>1. DOMAIN KeywordRules = 1 .. 5
      BY DEF KeywordRules
    <3>2. KeywordRules[1] = "bugfix" /\ KeywordRules[2] = "feature"
          /\ KeywordRules[3] = "refactor" /\ KeywordRules[4] = "perf"
          /\ KeywordRules[5] = "revert"
      BY DEF KeywordRules
    <3>3. \A i \in 1 .. 5 : KeywordRules[i] \in ChangeTypes \ {"unknown"}
      <4> SUFFICES ASSUME NEW i \in 1 .. 5
                   PROVE  KeywordRules[i] \in ChangeTypes \ {"unknown"}
        OBVIOUS
      <4>1. i \in {1, 2, 3, 4, 5}
        OBVIOUS
      <4> QED
        BY <3>2, <4>1 DEF ChangeTypes
    <3>4. \A i \in 1 .. 5 : rules[i].gives = KeywordRules[i]
      BY <3>1 DEF Rule
    <3>5. DOMAIN rules = 1 .. 5
      BY <3>1
    <3> HIDE DEF rules
    <3> QED
      BY <3>3, <3>4, <3>5
  <2> HIDE DEF rules
  <2>3. Decided(rules, 5)
    <3>1. 5 \in Nat /\ Len(rules) = 5
      BY <2>2
    <3> QED
      BY ONLY <3>1, FirstRuleLemma
  <2>4. FilesType(<<>>) = "unknown"
    BY DEF FilesType
  <2>5. CASE \A other : FirstRule(rules, other) = other
    BY <2>1, <2>4, <2>5
  <2>6. CASE \E i \in 1 .. 5 : \A other : FirstRule(rules, other) = rules[i].gives
    <3>1. PICK i \in 1 .. 5 : \A other : FirstRule(rules, other) = rules[i].gives
      BY <2>6
    <3> QED
      BY <2>1, <2>2, <3>1
  <2> QED
    BY <2>3, <2>5, <2>6 DEF Decided
<1> QED
  BY <1>1, <1>2

LEMMA TypeInModel ==
    ASSUME NEW m \in CommitMessages, NEW files
    PROVE  ClassifyChangeType(m, files) \in ChangeTypes
<1>1. FilesType(files) \in ChangeTypes
  BY DEF FilesType, TypeOfCategory, ChangeTypes
<1> QED
  BY <1>1, TypeLemma DEF ChangeTypes

-----------------------------------------------------------------------------
(* The same files in another order, or with and without their patches.     *)

Alike(f, g) ==
    /\ f.name = g.name /\ f.additions = g.additions /\ f.deletions = g.deletions
    /\ f.category = g.category /\ f.language = g.language

\* h, its own inverse, says where each of the n files stands in the other list.
Rearranged(files, other, h, n) ==
    /\ n \in Nat /\ DOMAIN files = 1 .. n /\ DOMAIN other = 1 .. n
    /\ h \in [1 .. n -> 1 .. n]
    /\ \A i \in 1 .. n : h[h[i]] = i /\ Alike(other[h[i]], files[i])

LEMMA RearrangedBack ==
    ASSUME NEW files, NEW other, NEW h, NEW n, Rearranged(files, other, h, n)
    PROVE  Rearranged(other, files, h, n)
<1> SUFFICES ASSUME NEW i \in 1 .. n PROVE Alike(files[h[i]], other[i])
  BY DEF Rearranged
<1>1. h[i] \in 1 .. n /\ h[h[i]] = i
  BY DEF Rearranged
<1>2. Alike(other[h[h[i]]], files[h[i]])
  BY <1>1 DEF Rearranged
<1> QED
  BY <1>1, <1>2 DEF Alike

\* One half of the next lemma.
LEMMA NoMoreThere ==
    ASSUME NEW files, NEW other, NEW h, NEW n, Rearranged(files, other, h, n)
    PROVE  /\ \A c : CountOf(files, c) <= CountOf(other, c)
           /\ {files[i].category : i \in DOMAIN files}
                  \subseteq {other[i].category : i \in DOMAIN other}
           /\ DistinctLanguages(files) \subseteq DistinctLanguages(other)
<1>1. /\ n \in Nat /\ DOMAIN files = 1 .. n /\ DOMAIN other = 1 .. n
      /\ \A i \in 1 .. n : /\ h[i] \in 1 .. n /\ h[h[i]] = i
                           /\ other[h[i]].category = files[i].category
                           /\ other[h[i]].language = files[i].language
  BY DEF Rearranged, Alike
<1>2. ASSUME NEW c PROVE CountOf(files, c) <= CountOf(other, c)
  <2> DEFINE I == In(files, c)
             J == In(other, c)
             g == [i \in I |-> h[i]]
  <2>1. g \in Injection(I, J)
    <3>1. \A i \in I : g[i] \in J /\ h[g[i]] = i
      BY <1>1 DEF In
    <3> QED
      BY <3>1 DEF Injection, IsInjective
  <2>2. IsFiniteSet(J) /\ CountOf(files, c) = Cardinality(I) /\ CountOf(other, c) = Cardinality(J)
    BY <1>1, CountLemma
  <2> HIDE DEF I, J, g
  <2>3. Cardinality(I) <= Cardinality(J)
    BY ONLY <2>1, <2>2, FS_Injection
  <2> QED
    BY <2>2, <2>3
<1>3. DistinctLanguages(files) \subseteq DistinctLanguages(other)
  BY <1>1 DEF DistinctLanguages
<1> QED
  BY <1>1, <1>2, <1>3

LEMMA CountsSame ==
    ASSUME NEW files, NEW other, NEW h, NEW n, Rearranged(files, other, h, n)
    PROVE  /\ \A c : CountOf(files, c) = CountOf(other, c)
           /\ {files[i].category : i \in DOMAIN files} = {other[i].category : i \in DOMAIN other}
           /\ CategoryCounts(files) = CategoryCounts(other)
           /\ DistinctLanguages(files) = DistinctLanguages(other)
           /\ \A m : DeriveTags(m, files) = DeriveTags(m, other)
<1>1. Rearranged(other, files, h, n)
  BY RearrangedBack
<1>2. \A c : CountOf(files, c) \in Nat /\ CountOf(other, c) \in Nat
  BY CountLemma DEF Rearranged
<1>3. ASSUME NEW c PROVE CountOf(files, c) = CountOf(other, c)
  <2>1. CountOf(files, c) <= CountOf(other, c) /\ CountOf(other, c) <= CountOf(files, c)
    BY <1>1, NoMoreThere
  <2>2. CountOf(files, c) \in Nat /\ CountOf(other, c) \in Nat
    BY <1>2
  <2> QED
    BY ONLY <2>1, <2>2
<1>4. /\ {files[i].category : i \in DOMAIN files} = {other[i].category : i \in DOMAIN other}
      /\ DistinctLanguages(files) = DistinctLanguages(other)
  <2>1. /\ {files[i].category : i \in DOMAIN files}
               \subseteq {other[i].category : i \in DOMAIN other}
        /\ DistinctLanguages(files) \subseteq DistinctLanguages(other)
    BY NoMoreThere
  <2>2. /\ {other[i].category : i \in DOMAIN other}
               \subseteq {files[i].category : i \in DOMAIN files}
        /\ DistinctLanguages(other) \subseteq DistinctLanguages(files)
    BY <1>1, NoMoreThere
  <2> QED
    BY <2>1, <2>2
<1>5. CategoryCounts(files) = CategoryCounts(other)
  BY <1>3, <1>4, Zenon DEF CategoryCounts
<1>6. ASSUME NEW m PROVE DeriveTags(m, files) = DeriveTags(m, other)
  <2> DEFINE C(fs) == {fs[i].category : i \in DOMAIN fs}
             T(fs) == {<<"cat", fs[i].category>> : i \in DOMAIN fs}
  <2>1. T(files) = {<<"cat", c>> : c \in C(files)} /\ T(other) = {<<"cat", c>> : c \in C(other)}
    OBVIOUS
  <2>2. C(files) = C(other)
    BY <1>4
  <2> HIDE DEF C
  <2>3. T(files) = T(other)
    BY <2>1, <2>2
  <2> QED
    BY <1>4, <2>3 DEF DeriveTags
<1> QED
  BY <1>3, <1>4, <1>5, <1>6

\* With the files in their order the same category counts.
LEMMA DominantSame ==
    ASSUME NEW files \in Seq(ChangedFiles), NEW other \in Seq(ChangedFiles), files # <<>>,
           Len(files) = Len(other), \A i \in 1 .. Len(files) : Alike(other[i], files[i]),
           \A c : CountOf(files, c) = CountOf(other, c)
    PROVE  Dominant(files) = Dominant(other)
<1> DEFINE n == Len(files)
           Most(fs, f) == \A c \in FileCategories : CountOf(fs, c) <= CountOf(fs, f.category)
           I(fs) == {i \in 1 .. Len(fs) : Most(fs, fs[i])}
<1>1. /\ Dominant(files) = files[IF I(files) # {} THEN Min(I(files)) ELSE 0].category
      /\ Dominant(other) = other[IF I(other) # {} THEN Min(I(other)) ELSE 0].category
  BY DEF Dominant, SelectInSeq
<1>2. \A i \in 1 .. n : files[i].category = other[i].category
  BY DEF Alike
<1>3. I(files) = I(other)
  BY <1>2
<1>4. I(files) # {}
  <2>1. PICK i \in DOMAIN files :
          \A c \in FileCategories : CountOf(files, c) <= CountOf(files, files[i].category)
    BY DominantLemma
  <2> QED
    BY <2>1, LenProperties
<1>5. Min(I(files)) \in I(files)
  <2>1. I(files) \in SUBSET Nat
    OBVIOUS
  <2> HIDE DEF I
  <2> QED
    BY <1>4, <2>1, MinLemma
<1>6. Min(I(files)) \in 1 .. n
  BY <1>5
<1> HIDE DEF I
<1> QED
  BY <1>1, <1>2, <1>3, <1>4, <1>6

-----------------------------------------------------------------------------
(* Sums over the files are sums over the entries they come from.           *)

AddOf == [f \in FileEntries |-> OrZero(f.additions)]
DelOf == [f \in FileEntries |-> OrZero(f.deletions)]

LEMMA FigureLemma == AddOf \in [FileEntries -> Nat] /\ DelOf \in [FileEntries -> Nat]
  BY DEF AddOf, DelOf, OrZero, FileEntries, Figure

LEMMA MappedNat ==
    ASSUME NEW T, NEW v \in [T -> Nat], NEW s \in Seq(T)
    PROVE  Mapped(v, s) \in Seq(Nat)
<1>1. Len(s) \in Nat /\ \A i \in 1 .. Len(s) : s[i] \in T
  BY LenProperties, ElementOfSeq
<1>2. \A i \in 1 .. Len(s) : v[s[i]] \in Nat
  BY <1>1
<1> QED
  BY <1>1, <1>2 DEF Mapped

LEMMA MappedReverse ==
    ASSUME NEW T, NEW v \in [T -> Nat], NEW s \in Seq(T)
    PROVE  Mapped(v, Reverse(s)) = Reverse(Mapped(v, s))
<1> DEFINE m == Mapped(v, s)
           r == Reverse(s)
           n == Len(s)
<1>1. m \in Seq(Nat) /\ n \in Nat /\ Len(m) = n /\ \A i \in 1 .. n : m[i] = v[s[i]]
  BY MappedNat, LenProperties DEF Mapped
<1>2. r \in Seq(T) /\ Len(r) = n /\ \A i \in 1 .. n : r[i] = s[n - i + 1]
  BY ReverseLemma
<1>3. Mapped(v, r) \in Seq(Nat)
  BY <1>2, MappedNat
<1>4. Len(Mapped(v, r)) = n /\ \A i \in 1 .. n : Mapped(v, r)[i] = v[r[i]]
  BY <1>1, <1>2 DEF Mapped
<1> HIDE DEF m
<1>5. /\ Reverse(m) \in Seq(Nat) /\ Len(Reverse(m)) = n
      /\ \A i \in 1 .. n : Reverse(m)[i] = m[n - i + 1]
  BY <1>1, ReverseLemma
<1> HIDE DEF r, n
<1>6. \A i \in 1 .. n : Mapped(v, r)[i] = Reverse(m)[i]
  <2> SUFFICES ASSUME NEW i \in 1 .. n PROVE Mapped(v, r)[i] = Reverse(m)[i]
    OBVIOUS
  <2>1. n - i + 1 \in 1 .. n
    BY <1>1
  <2> QED
    BY <1>1, <1>2, <1>4, <1>5, <2>1
<1>7. Mapped(v, r) = Reverse(m)
  BY <1>3, <1>4, <1>5, <1>6, SeqEqual
<1> QED
  BY <1>7 DEF r, m

LEMMA SumsLemma ==
    ASSUME NEW p \in Answers, NEW b \in BOOLEAN
    PROVE  LET files == ExtractChangedFiles(p, b)
           IN  /\ Additions(files) = Total(Mapped(AddOf, Entries(p)))
               /\ Deletions(files) = Total(Mapped(DelOf, Entries(p)))
               /\ Additions(files) \in Nat /\ Deletions(files) \in Nat
<1> DEFINE files == ExtractChangedFiles(p, b)
           s == Entries(p)
<1>1. /\ s \in Seq(FileEntries) /\ DOMAIN files = 1 .. Len(s)
      /\ \A i \in 1 .. Len(s) : files[i] = FileOf(s[i], b) /\ s[i] \in FileEntries
  BY ExtractLemma
<1> HIDE DEF files, s
<1>2. \A i \in 1 .. Len(s) : files[i].additions = AddOf[s[i]] /\ files[i].deletions = DelOf[s[i]]
  BY <1>1 DEF FileOf, AddOf, DelOf
<1>3. Additions(files) = Total(Mapped(AddOf, s)) /\ Deletions(files) = Total(Mapped(DelOf, s))
  BY <1>1, <1>2, Zenon DEF Additions, Deletions, Mapped
<1>4. Mapped(AddOf, s) \in Seq(Nat) /\ Mapped(DelOf, s) \in Seq(Nat)
  BY <1>1, FigureLemma, MappedNat
<1>5. Total(Mapped(AddOf, s)) \in Nat /\ Total(Mapped(DelOf, s)) \in Nat
  BY <1>4, TotalNat
<1> QED
  BY <1>3, <1>5 DEF files, s

\* They cover no more than all entries do.
LEMMA CoveredLemma ==
    ASSUME NEW p \in Answers, NEW b \in BOOLEAN
    PROVE  LET files == ExtractChangedFiles(p, b)
               add == Total([i \in DOMAIN p.files |-> OrZero(p.files[i].additions)])
               del == Total([i \in DOMAIN p.files |-> OrZero(p.files[i].deletions)])
           IN  /\ Additions(files) <= add /\ Deletions(files) <= del
               /\ add \in Nat /\ del \in Nat
<1> DEFINE add == [i \in DOMAIN p.files |-> OrZero(p.files[i].additions)]
           del == [i \in DOMAIN p.files |-> OrZero(p.files[i].deletions)]
<1>1. p.files \in Seq(FileEntries)
  BY DEF Answers
<1>2. DOMAIN p.files = 1 .. Len(p.files) /\ \A i \in 1 .. Len(p.files) : p.files[i] \in FileEntries
  BY <1>1, LenProperties, ElementOfSeq
<1>3. \A i \in 1 .. Len(p.files) : /\ OrZero(p.files[i].additions) = AddOf[p.files[i]]
                                   /\ OrZero(p.files[i].deletions) = DelOf[p.files[i]]
  BY <1>2 DEF AddOf, DelOf
<1>4. add = Mapped(AddOf, p.files) /\ del = Mapped(DelOf, p.files)
  BY <1>2, <1>3, Zenon DEF Mapped
<1>5. Mapped(AddOf, p.files) \in Seq(Nat) /\ Mapped(DelOf, p.files) \in Seq(Nat)
  BY <1>1, FigureLemma, MappedNat
<1> HIDE DEF add, del
<1>6. Total(add) \in Nat /\ Total(del) \in Nat
  BY <1>4, <1>5, TotalNat
<1>7. /\ Total(Mapped(AddOf, Entries(p))) <= Total(Mapped(AddOf, p.files))
      /\ Total(Mapped(DelOf, Entries(p))) <= Total(Mapped(DelOf, p.files))
  <2> DEFINE T == FileEntries
  <2>1. AddOf \in [T -> Nat] /\ DelOf \in [T -> Nat] /\ p.files \in Seq(T)
    BY <1>1, FigureLemma
  <2> HIDE DEF T
  <2>2. \A S : Total(Mapped(AddOf, Selected(p.files, S))) <= Total(Mapped(AddOf, p.files))
    BY ONLY <2>1, TotalSelected
  <2>3. \A S : Total(Mapped(DelOf, Selected(p.files, S))) <= Total(Mapped(DelOf, p.files))
    BY ONLY <2>1, TotalSelected
  <2> QED
    BY <2>2, <2>3 DEF Entries
<1> QED
  BY <1>4, <1>6, <1>7, SumsLemma DEF add, del

-----------------------------------------------------------------------------
(* The metadata of one answer.                                             *)

\* What the patches and the summary leave alone.
LEMMA PatchesAside ==
    ASSUME NEW p \in Answers, NEW b \in BOOLEAN, NEW d \in BOOLEAN
    PROVE  LET files == ExtractChangedFiles(p, b)
               other == ExtractChangedFiles(p, d)
           IN  /\ CategoryCounts(files) = CategoryCounts(other)
               /\ DistinctLanguages(files) = DistinctLanguages(other)
               /\ \A m : DeriveTags(m, files) = DeriveTags(m, other)
               /\ AggregateStats(files, p) = AggregateStats(other, p)
               /\ FilesType(files) = FilesType(other)
               /\ [i \in DOMAIN files |-> [files[i] EXCEPT !.patch = Absent]]
                    = [i \in DOMAIN other |-> [other[i] EXCEPT !.patch = Absent]]
<1> DEFINE files == ExtractChangedFiles(p, b)
           other == ExtractChangedFiles(p, d)
           s == Entries(p)
           n == Len(s)
           h == [i \in 1 .. n |-> i]
<1>1. /\ n \in Nat /\ files \in Seq(ChangedFiles) /\ other \in Seq(ChangedFiles)
      /\ DOMAIN files = 1 .. n /\ DOMAIN other = 1 .. n /\ Len(files) = n /\ Len(other) = n
      /\ \A i \in 1 .. n : files[i] = FileOf(s[i], b) /\ other[i] = FileOf(s[i], d)
  BY ExtractLemma
<1>2. Additions(files) = Additions(other) /\ Deletions(files) = Deletions(other)
  BY SumsLemma
<1> HIDE DEF files, other, s, n
<1>3. \A i \in 1 .. n : Alike(other[i], files[i])
  BY <1>1 DEF FileOf, Alike
<1>4. Rearranged(files, other, h, n)
  BY <1>1, <1>3 DEF Rearranged
<1> HIDE DEF h
<1>5. /\ \A c : CountOf(files, c) = CountOf(other, c)
      /\ CategoryCounts(files) = CategoryCounts(other)
      /\ DistinctLanguages(files) = DistinctLanguages(other)
      /\ \A m : DeriveTags(m, files) = DeriveTags(m, other)
  BY <1>4, CountsSame
<1>6. AggregateStats(files, p) = AggregateStats(other, p)
  BY <1>1, <1>2 DEF AggregateStats
<1>7. FilesType(files) = FilesType(other)
  <2>1. files = <<>> <=> other = <<>>
    BY <1>1, EmptySeq
  <2>2. CASE files # <<>>
    <3>1. Dominant(files) = Dominant(other)
      BY <1>1, <1>3, <1>5, <2>2, DominantSame
    <3> QED
      BY <2>1, <3>1 DEF FilesType
  <2> QED
    BY <2>1, <2>2 DEF FilesType
<1>8. \A i \in 1 .. n : [files[i] EXCEPT !.patch = Absent] = [other[i] EXCEPT !.patch = Absent]
  BY <1>1 DEF FileOf
<1>9. [i \in DOMAIN files |-> [files[i] EXCEPT !.patch = Absent]]
        = [i \in DOMAIN other |-> [other[i] EXCEPT !.patch = Absent]]
  BY <1>1, <1>8, Zenon
<1> QED
  BY <1>5, <1>6, <1>7, <1>9 DEF files, other

\* What the order of the list leaves alone.
LEMMA OrderAside ==
    ASSUME NEW p \in Answers, NEW b \in BOOLEAN, NEW d \in BOOLEAN
    PROVE  LET q == [p EXCEPT !.files = Reverse(@)]
               files == ExtractChangedFiles(p, b)
               other == ExtractChangedFiles(q, d)
           IN  /\ q \in Answers
               /\ \A c : CountOf(files, c) = CountOf(other, c)
               /\ CategoryCounts(files) = CategoryCounts(other)
               /\ DistinctLanguages(files) = DistinctLanguages(other)
               /\ \A m : DeriveTags(m, files) = DeriveTags(m, other)
               /\ AggregateStats(files, p) = AggregateStats(other, q)
               /\ files = <<>> <=> other = <<>>
<1> DEFINE q == [p EXCEPT !.files = Reverse(@)]
           files == ExtractChangedFiles(p, b)
           other == ExtractChangedFiles(q, d)
           s == Entries(p)
           n == Len(s)
           h == [i \in 1 .. n |-> n - i + 1]
<1>1. p.files \in Seq(FileEntries)
  BY DEF Answers
<1>2. Reverse(p.files) \in Seq(FileEntries) /\ Range(Reverse(p.files)) = Range(p.files)
  BY <1>1, ReverseLemma
<1>3. q \in Answers /\ q.files = Reverse(p.files) /\ q.stats = p.stats
  BY <1>2 DEF Answers
<1>4. Entries(q) = Reverse(s)
  <2>1. NamedIn(q) = NamedIn(p)
    BY <1>2, <1>3 DEF NamedIn
  <2> QED
    BY <1>1, <1>3, <2>1, SelectedReverse DEF Entries
<1>5. /\ n \in Nat /\ s \in Seq(FileEntries) /\ files \in Seq(ChangedFiles)
      /\ DOMAIN files = 1 .. n /\ Len(files) = n
      /\ \A i \in 1 .. n : files[i] = FileOf(s[i], b)
  BY ExtractLemma
<1>6. Len(Entries(q)) = n /\ \A i \in 1 .. n : Entries(q)[i] = s[n - i + 1]
  BY <1>4, <1>5, ReverseLemma
<1> HIDE DEF q
<1>7. /\ other \in Seq(ChangedFiles) /\ DOMAIN other = 1 .. n /\ Len(other) = n
      /\ \A i \in 1 .. n : other[i] = FileOf(s[n - i + 1], d)
  BY <1>3, <1>6, ExtractLemma
<1>8. Additions(files) = Additions(other) /\ Deletions(files) = Deletions(other)
  <2>1. /\ Additions(files) = Total(Mapped(AddOf, s))
        /\ Additions(other) = Total(Mapped(AddOf, Reverse(s)))
        /\ Deletions(files) = Total(Mapped(DelOf, s))
        /\ Deletions(other) = Total(Mapped(DelOf, Reverse(s)))
    BY <1>3, <1>4, SumsLemma
  <2>2. ASSUME NEW v \in [FileEntries -> Nat]
        PROVE  Total(Mapped(v, Reverse(s))) = Total(Mapped(v, s))
    <3>1. Mapped(v, Reverse(s)) = Reverse(Mapped(v, s)) /\ Mapped(v, s) \in Seq(Nat)
      BY <1>5, MappedReverse, MappedNat
    <3> QED
      BY <3>1, TotalReverse
  <2> QED
    BY <2>1, <2>2, FigureLemma
<1> HIDE DEF files, other, s, n
<1>9. \A i \in 1 .. n : /\ n - i + 1 \in 1 .. n /\ n - (n - i + 1) + 1 = i
                        /\ Alike(other[n - i + 1], files[i])
  <2> SUFFICES ASSUME NEW i \in 1 .. n
               PROVE  /\ n - i + 1 \in 1 .. n /\ n - (n - i + 1) + 1 = i
                      /\ Alike(other[n - i + 1], files[i])
    OBVIOUS
  <2>1. n - i + 1 \in 1 .. n /\ n - (n - i + 1) + 1 = i
    BY <1>5
  <2>2. files[i] = FileOf(s[i], b) /\ other[n - i + 1] = FileOf(s[i], d)
    BY <1>5, <1>7, <2>1
  <2> QED
    BY <2>1, <2>2 DEF FileOf, Alike
<1>10. Rearranged(files, other, h, n)
  BY <1>5, <1>7, <1>9 DEF Rearranged
<1> HIDE DEF h
<1>11. /\ \A c : CountOf(files, c) = CountOf(other, c)
       /\ CategoryCounts(files) = CategoryCounts(other)
       /\ DistinctLanguages(files) = DistinctLanguages(other)
       /\ \A m : DeriveTags(m, files) = DeriveTags(m, other)
  BY <1>10, CountsSame
<1>12. AggregateStats(files, p) = AggregateStats(other, q)
  BY <1>3, <1>5, <1>7, <1>8 DEF AggregateStats
<1>13. files = <<>> <=> other = <<>>
  BY <1>5, <1>7, EmptySeq
<1> QED
  BY <1>3, <1>11, <1>12, <1>13 DEF files, other, q

\* The figures of metadata that was built.
LEMMA BuiltFigures ==
    ASSUME NEW p \in Payloads, NEW o \in Options, stored = BuildMetadata(p, o)
    PROVE  /\ stored.change_type \in ChangeTypes
           /\ stored.breaking_change \in BOOLEAN
           /\ stored.issue_references \subseteq Nat
           /\ stored.stats \in [{"additions", "deletions", "total", "files_changed"} -> Nat]
           /\ DOMAIN stored.file_categories \subseteq FileCategories
           /\ stored.languages \subseteq Languages
           /\ FieldsAgree /\ (p = payload => ShortfallIsGitHubs)
<1> DEFINE b == o.include_patch
           files == ExtractChangedFiles(p, b)
           n == Len(files)
<1>1. p \in Answers /\ b \in BOOLEAN
  BY MetadataAssumption DEF Options
<1>2. p.message \in CommitMessages
  BY <1>1 DEF Answers
<1>3. n \in Nat /\ files \in Seq(ChangedFiles) /\ DOMAIN files = 1 .. n
  BY <1>1, ExtractLemma
<1>4. \A i \in 1 .. n : files[i] \in ChangedFiles
  BY <1>3, ElementOfSeq
<1>5. /\ stored.change_type = ClassifyChangeType(p.message, files)
      /\ stored.breaking_change = IsBreakingChange(p.message)
      /\ stored.issue_references = ExtractIssueReferences(p.message)
      /\ stored.tags = DeriveTags(p.message, files)
      /\ stored.stats = AggregateStats(files, p)
      /\ stored.file_categories = CategoryCounts(files)
      /\ stored.languages = DistinctLanguages(files)
      /\ stored.files = files
  BY DEF BuildMetadata
<1> DEFINE allAdd == Total([i \in DOMAIN p.files |-> OrZero(p.files[i].additions)])
           allDel == Total([i \in DOMAIN p.files |-> OrZero(p.files[i].deletions)])
<1>6. /\ Additions(files) \in Nat /\ Deletions(files) \in Nat
      /\ Additions(files) <= allAdd /\ Deletions(files) <= allDel
      /\ allAdd \in Nat /\ allDel \in Nat
  BY <1>1, CoveredLemma, SumsLemma
<1>7. p.stats # Absent =>
         /\ OrZero(p.stats.additions) \in Nat /\ OrZero(p.stats.deletions) \in Nat
         /\ p.stats.total \in Nat \cup {Absent, Null}
  BY <1>1 DEF Answers, Figure, OrZero
<1>8. Null # Absent /\ Absent \notin Nat /\ Null \notin Nat
  BY MetadataAssumption
<1> HIDE DEF files, n, allAdd, allDel
<1>9. /\ stored.stats.files_changed = n
      /\ stored.stats \in [{"additions", "deletions", "total", "files_changed"} -> Nat]
      /\ stored.stats.additions < Additions(files) =>
            p.stats # Absent /\ OrZero(p.stats.additions) < allAdd
      /\ stored.stats.deletions < Deletions(files) =>
            p.stats # Absent /\ OrZero(p.stats.deletions) < allDel
      /\ stored.stats.total # stored.stats.additions + stored.stats.deletions =>
            /\ p.stats # Absent
            /\ p.stats.total \notin
                  {Absent, OrZero(p.stats.additions) + OrZero(p.stats.deletions)}
  <2>1. CASE p.stats = Absent
    <3>1. stored.stats = [additions |-> Additions(files), deletions |-> Deletions(files),
                          files_changed |-> n, total |-> Additions(files) + Deletions(files)]
      BY <1>5, <2>1 DEF AggregateStats, n
    <3> QED
      BY <1>3, <1>6, <3>1
  <2>2. CASE p.stats # Absent
    <3> DEFINE add == OrZero(p.stats.additions)
               del == OrZero(p.stats.deletions)
               total == IF p.stats.total = Absent THEN add + del
                        ELSE IF p.stats.total = Null THEN 0 ELSE p.stats.total
    <3>1. stored.stats = [additions |-> add, deletions |-> del, files_changed |-> n,
                          total |-> total]
      BY <1>5, <2>2 DEF AggregateStats, n
    <3>2. add \in Nat /\ del \in Nat /\ p.stats.total \in Nat \cup {Absent, Null}
      BY <1>7, <2>2
    <3> HIDE DEF add, del
    <3>3. add + del \in Nat /\ total \in Nat
      BY <3>2
    <3>4. total # add + del => p.stats.total \notin {Absent, add + del}
      BY <1>8, <3>2, <3>3
    <3> HIDE DEF total
    <3>5. stored.stats \in [{"additions", "deletions", "total", "files_changed"} -> Nat]
      BY <1>3, <3>1, <3>2, <3>3
    <3>6. add < Additions(files) => add < allAdd
      BY <1>6, <3>2
    <3>7. del < Deletions(files) => del < allDel
      BY <1>6, <3>2
    <3> QED
      BY <2>2, <3>1, <3>4, <3>5, <3>6, <3>7 DEF add, del
  <2> QED
    BY <2>1, <2>2
<1>10. p = payload => ShortfallIsGitHubs
  BY <1>5, <1>9 DEF ShortfallIsGitHubs, AdditionsListed, DeletionsListed, allAdd, allDel
<1>11. FieldsAgree
  <2> DEFINE cats == stored.file_categories
             tags == stored.tags
             named(kind) == {t[2] : t \in {u \in tags : u[1] = kind}}
             U == UNION {{c} \X (1 .. cats[c]) : c \in DOMAIN cats}
             L == stored.languages
  <2>1. cats = CategoryCounts(files) /\ L = DistinctLanguages(files)
    BY <1>5
  <2>2. Cardinality(U) = stored.stats.files_changed
    <3>1. LET c == CategoryCounts(files)
          IN  Cardinality(UNION {{d} \X (1 .. c[d]) : d \in DOMAIN c}) = n
      BY <1>3, PairsLemma
    <3> HIDE DEF cats
    <3> QED
      BY <1>9, <2>1, <3>1
  <2>3. DOMAIN cats = {files[i].category : i \in DOMAIN files}
    BY <2>1 DEF CategoryCounts
  <2>4. \A t : t \in tags <=> \/ \E c \in DOMAIN cats : t = <<"cat", c>>
                              \/ \E l \in L : t = <<"lang", l>>
                              \/ IsBreakingChange(p.message) /\ t = <<"breaking">>
    <3>1. tags = DeriveTags(p.message, files)
      BY <1>5
    <3> HIDE DEF cats, tags, L
    <3> QED
      BY <2>1, <2>3, <3>1 DEF DeriveTags
  <2> HIDE DEF cats, tags, L
  <2>5. named("cat") = DOMAIN cats
    <3>1. \A c \in DOMAIN cats : <<"cat", c>> \in tags
      BY <2>4
    <3>2. \A t \in tags : t[1] = "cat" => t[2] \in DOMAIN cats
      BY <2>4
    <3>3. named("cat") \subseteq DOMAIN cats
      BY <3>2
    <3>4. ASSUME NEW x \in DOMAIN cats PROVE x \in named("cat")
      <4>1. <<"cat", x>> \in {u \in tags : u[1] = "cat"} /\ <<"cat", x>>[2] = x
        BY <3>1
      <4> QED
        BY <4>1, Zenon
    <3> QED
      BY <3>3, <3>4
  <2>6. named("lang") = L
    <3>1. \A l \in L : <<"lang", l>> \in tags
      BY <2>4
    <3>2. \A t \in tags : t[1] = "lang" => t[2] \in L
      BY <2>4
    <3>3. named("lang") \subseteq L
      BY <3>2
    <3>4. ASSUME NEW x \in L PROVE x \in named("lang")
      <4>1. <<"lang", x>> \in {u \in tags : u[1] = "lang"} /\ <<"lang", x>>[2] = x
        BY <3>1
      <4> QED
        BY <4>1, Zenon
    <3> QED
      BY <3>3, <3>4
  <2>7. <<"breaking">> \in tags <=> stored.breaking_change
    <3>1. \A x : <<"cat", x>> # <<"breaking">> /\ <<"lang", x>> # <<"breaking">>
      OBVIOUS
    <3> QED
      BY <1>5, <2>4, <3>1
  <2> QED
    BY <2>2, <2>5, <2>6, <2>7, Zenon DEF FieldsAgree, cats, tags, L
<1>12. /\ stored.change_type \in ChangeTypes /\ stored.breaking_change \in BOOLEAN
       /\ stored.issue_references \subseteq Nat
  <2>1. ClassifyChangeType(p.message, files) \in ChangeTypes
    BY <1>2, TypeInModel
  <2>2. IsBreakingChange(p.message) \in BOOLEAN /\ ExtractIssueReferences(p.message) \subseteq Nat
    BY <1>2 DEF CommitMessages, IsBreakingChange, ExtractIssueReferences
  <2> QED
    BY <1>5, <2>1, <2>2
<1>13. /\ DOMAIN stored.file_categories \subseteq FileCategories
       /\ stored.languages \subseteq Languages
  BY <1>3, <1>4, <1>5 DEF CategoryCounts, DistinctLanguages, ChangedFiles
<1> QED
  BY <1>9, <1>10, <1>11, <1>12, <1>13

\* The grounds of its change type.
LEMMA BuiltGrounds ==
    ASSUME payload \in Payloads, NEW o \in Options, stored = BuildMetadata(payload, o)
    PROVE  TypeGrounded
<1> DEFINE b == o.include_patch
           files == ExtractChangedFiles(payload, b)
           s == Entries(payload)
           n == Len(s)
           m == payload.message
           alone == ClassifyChangeType(m, <<>>)
<1>1. payload \in Answers /\ b \in BOOLEAN /\ NamesTell(payload)
  BY MetadataAssumption DEF Options
<1>2. m \in CommitMessages
  BY <1>1 DEF Answers
<1>3. /\ n \in Nat /\ files \in Seq(ChangedFiles) /\ DOMAIN files = 1 .. n
      /\ DOMAIN s = 1 .. n /\ Range(s) = NamedIn(payload)
      /\ \A i \in 1 .. n : files[i] = FileOf(s[i], b) /\ s[i] \in FileEntries
  BY <1>1, ExtractLemma, LenProperties
<1>4. /\ stored.change_type = ClassifyChangeType(m, files)
      /\ stored.tags = DeriveTags(m, files)
      /\ stored.stats = AggregateStats(files, payload)
      /\ stored.file_categories = CategoryCounts(files)
      /\ stored.languages = DistinctLanguages(files)
      /\ stored.files = files
  BY DEF BuildMetadata
<1>5. /\ DOMAIN CategoryCounts(files) = {files[i].category : i \in DOMAIN files}
      /\ \A c \in DOMAIN CategoryCounts(files) : CategoryCounts(files)[c] = CountOf(files, c)
  BY DEF CategoryCounts
<1>6. \A i \in 1 .. n : files[i].category \in FileCategories
  <2> HIDE DEF files, s, n
  <2>1. \A i \in 1 .. n : files[i].category = ClassifyFile(s[i])
    BY <1>3 DEF FileOf
  <2> QED
    BY <2>1, ClassifyLemma
<1> HIDE DEF files, s, n, alone
<1>7. SourceIsCode
  <2> SUFFICES ASSUME NEW i \in 1 .. n, files[i].category = "source"
               PROVE  /\ files[i].language \in DistinctLanguages(files)
                      /\ \A f \in Range(payload.files) : f.name = files[i].name =>
                             f.path = "plain" /\ f.base = "plain"
    BY <1>3, <1>4 DEF SourceIsCode
  <2> DEFINE e == s[i]
  <2>1. /\ e \in FileEntries /\ ClassifyFile(e) = "source" /\ files[i].name = e.name
        /\ files[i].language = DetectLanguage(e)
    BY <1>3 DEF FileOf
  <2>2. e \in Range(payload.files) /\ e.name # Absent
    <3>1. e \in Range(s)
      BY <1>3 DEF Range
    <3> QED
      BY <1>3, <3>1 DEF NamedIn
  <2> HIDE DEF e
  <2>3. /\ e.path \notin {"workflows", "tests"}
        /\ e.base \notin {"ci", "test", "build", "readme"}
        /\ e.ext \in DOMAIN LanguageOf
    BY <2>1, ClassifyLemma
  <2>4. e.path = "plain" /\ e.base = "plain"
    BY <2>1, <2>3 DEF FileEntries
  <2>5. files[i].language # Absent
    BY <2>1, <2>3, LanguageLemma DEF DetectLanguage
  <2>6. files[i].language \in DistinctLanguages(files)
    BY <1>3, <2>5 DEF DistinctLanguages
  <2>7. \A f \in Range(payload.files) : f.name = e.name => f.path = e.path /\ f.base = e.base
    BY <1>1, <2>2 DEF NamesTell
  <2> QED
    BY <2>1, <2>4, <2>6, <2>7
\* Where the files decide, it is by a category that a file has and that none outnumbers.
<1>8. ASSUME files # <<>>
      PROVE  /\ Dominant(files) \in DOMAIN CategoryCounts(files)
             /\ \A d \in DOMAIN CategoryCounts(files) :
                   CategoryCounts(files)[d] <= CategoryCounts(files)[Dominant(files)]
  <2>1. PICK i \in DOMAIN files :
          /\ Dominant(files) = files[i].category
          /\ \A c \in FileCategories : CountOf(files, c) <= CountOf(files, files[i].category)
    BY <1>3, <1>8, DominantLemma
  <2>2. Dominant(files) \in DOMAIN CategoryCounts(files)
    BY <1>5, <2>1
  <2>3. DOMAIN CategoryCounts(files) \subseteq FileCategories
    BY <1>3, <1>5, <1>6
  <2> QED
    BY <1>5, <2>1, <2>2, <2>3
<1>9. \/ alone # "unknown" /\ \A fs : ClassifyChangeType(m, fs) = alone
      \/ alone = "unknown" /\ \A fs : ClassifyChangeType(m, fs) = FilesType(fs)
  BY <1>2, TypeLemma DEF alone
<1>10. FilesFillIn
  <2>1. alone # "unknown" => stored.change_type = alone
    BY <1>4, <1>9
  <2>2. ASSUME alone = "unknown", stored.change_type # "unknown"
        PROVE  \E c \in DOMAIN stored.file_categories :
                  /\ TypeOfCategory(c) = stored.change_type
                  /\ \A d \in DOMAIN stored.file_categories :
                        stored.file_categories[d] <= stored.file_categories[c]
    <3>1. stored.change_type = FilesType(files)
      BY <1>4, <1>9, <2>2
    <3>2. files # <<>> /\ stored.change_type = TypeOfCategory(Dominant(files))
      BY <2>2, <3>1 DEF FilesType
    <3> QED
      BY <1>4, <1>8, <3>2
  <2> QED
    BY <2>1, <2>2, Zenon DEF FilesFillIn, alone
<1> DEFINE q == [payload EXCEPT !.files = Reverse(@)]
           others == ExtractChangedFiles(q, TRUE)
           r == [include_patch |-> TRUE, llm |-> FALSE]
           other == BuildMetadata(q, r)
<1>11. OrderBreaksTies
  <2>1. /\ q \in Answers /\ q.message = m
        /\ \A c : CountOf(files, c) = CountOf(others, c)
        /\ CategoryCounts(files) = CategoryCounts(others)
        /\ DistinctLanguages(files) = DistinctLanguages(others)
        /\ \A k : DeriveTags(k, files) = DeriveTags(k, others)
        /\ AggregateStats(files, payload) = AggregateStats(others, q)
        /\ files = <<>> <=> others = <<>>
    <3>1. q.message = m
      BY <1>1 DEF Answers
    <3>2. TRUE \in BOOLEAN
      OBVIOUS
    <3> QED
      BY <1>1, <3>1, <3>2, OrderAside DEF files
  <2>2. /\ other.change_type = ClassifyChangeType(m, others)
        /\ other.tags = DeriveTags(m, others) /\ other.stats = AggregateStats(others, q)
        /\ other.file_categories = CategoryCounts(others)
        /\ other.languages = DistinctLanguages(others)
    <3>1. r.include_patch = TRUE
      OBVIOUS
    <3> HIDE DEF q, r
    <3> QED
      BY <2>1, <3>1 DEF BuildMetadata
  <2>3. others \in Seq(ChangedFiles) /\ DOMAIN others = 1 .. Len(others)
    <3>1. TRUE \in BOOLEAN
      OBVIOUS
    <3> HIDE DEF q
    <3> QED
      BY <2>1, <3>1, ExtractLemma, LenProperties
  <2> HIDE DEF q, others, other
  <2>4. ASSUME other.change_type # stored.change_type
        PROVE  \E c, d \in DOMAIN stored.file_categories :
                  /\ c # d /\ stored.file_categories[c] = stored.file_categories[d]
                  /\ \A e \in DOMAIN stored.file_categories :
                        stored.file_categories[e] <= stored.file_categories[c]
    <3> DEFINE cats == CategoryCounts(files)
               c == Dominant(files)
               d == Dominant(others)
    <3>1. FilesType(files) # FilesType(others)
      BY <1>4, <1>9, <2>2, <2>4
    <3>2. files # <<>> /\ others # <<>> /\ c # d
      BY <2>1, <3>1 DEF FilesType
    <3>3. c \in DOMAIN cats /\ \A e \in DOMAIN cats : cats[e] <= cats[c]
      BY <1>8, <3>2
    <3>4. PICK i \in DOMAIN others :
            /\ d = others[i].category
            /\ \A e \in FileCategories : CountOf(others, e) <= CountOf(others, others[i].category)
      BY <2>3, <3>2, DominantLemma
    <3>5. d \in DOMAIN cats
      <4>1. d \in DOMAIN CategoryCounts(others)
        BY <3>4 DEF CategoryCounts
      <4> QED
        BY <2>1, <4>1
    <3>6. c \in FileCategories /\ CountOf(files, c) <= CountOf(files, d)
      <4>1. c \in FileCategories
        BY <1>3, <1>5, <1>6, <3>3
      <4>2. CountOf(others, c) <= CountOf(others, d)
        BY <3>4, <4>1
      <4> QED
        BY <2>1, <4>1, <4>2
    <3>7. CountOf(files, d) <= CountOf(files, c)
      BY <1>5, <3>3, <3>5
    <3>8. CountOf(files, c) \in Nat /\ CountOf(files, d) \in Nat
      BY <1>3, CountLemma
    <3> HIDE DEF cats, c, d
    <3>9. CountOf(files, c) = CountOf(files, d)
      BY ONLY <3>6, <3>7, <3>8
    <3>10. cats[c] = cats[d]
      BY <1>5, <3>3, <3>5, <3>9 DEF cats
    <3> QED
      BY <1>4, <3>2, <3>3, <3>5, <3>10 DEF cats
  <2>5. /\ other.tags = stored.tags /\ other.stats = stored.stats
        /\ other.file_categories = stored.file_categories /\ other.languages = stored.languages
    BY <1>4, <2>1, <2>2
  <2> QED
    BY <2>4, <2>5, Zenon DEF OrderBreaksTies, other, q
<1> QED
  BY <1>7, <1>10, <1>11 DEF TypeGrounded

-----------------------------------------------------------------------------
(* The invariant.                                                          *)

\* What is stored was built from the one answer, under some options.
MetaInv ==
    /\ payload \in Payloads
    /\ requests \in 0 .. MaxRequests
    /\ last \in {"none", "valid", "invalid", "unbuildable"}
    /\ WellFormedIsStored
    /\ stored # Absent => \E o \in Options : stored = BuildMetadata(payload, o)

LEMMA MetaInit == Init => MetaInv
  BY MetadataAssumption DEF Init, MetaInv, WellFormedIsStored

\* A type of the model is a type of the schema.
LEMMA NotRefused ==
    ASSUME NEW p \in Payloads, NEW o \in Options
    PROVE  /\ p.sha # Absent => Validates(BuildMetadata(p, o))
           /\ /\ p.sha # Null /\ p.url # Null /\ p.message.text # "blank"
              /\ \A f \in Range(p.files) : f.name # Absent => f.status # Null
              => Builds(p, o)
<1>1. p.message \in CommitMessages
  BY MetadataAssumption DEF Answers
<1>2. BuildMetadata(p, o).change_type \in ChangeTypes /\ BuildMetadata(p, o).sha = p.sha
  <2>1. ClassifyChangeType(p.message, ExtractChangedFiles(p, o.include_patch)) \in ChangeTypes
    BY <1>1, TypeInModel
  <2> QED
    BY <2>1 DEF BuildMetadata
<1> QED
  BY <1>2 DEF Validates, SchemaTypes, ChangeTypes, Builds, NoFirstLine

LEMMA MetaNext == MetaInv /\ [Next]_vars => MetaInv'
<1> SUFFICES ASSUME MetaInv, [Next]_vars PROVE MetaInv'
  OBVIOUS
<1>1. CASE UNCHANGED vars
  BY <1>1 DEF vars, MetaInv, WellFormedIsStored
<1>2. CASE Next
  <2>1. PICK o \in Options : Process(o)
    BY <1>2 DEF Next
  <2>2. payload \in Payloads /\ payload' = payload
    BY <2>1 DEF MetaInv, Process
  <2>3. requests' \in 0 .. MaxRequests
    BY <2>1, MetadataAssumption DEF MetaInv, Process
  <2>4. /\ payload.sha # Absent => Validates(BuildMetadata(payload, o))
        /\ /\ payload.sha # Null /\ payload.url # Null /\ payload.message.text # "blank"
           /\ \A f \in Range(payload.files) : f.name # Absent => f.status # Null
           => Builds(payload, o)
    BY <2>2, NotRefused
  <2>5. /\ last' \in {"none", "valid", "invalid", "unbuildable"}
        /\ last' = "invalid" => ~Validates(BuildMetadata(payload, o))
        /\ last' = "unbuildable" => ~Builds(payload, o)
    BY <2>1 DEF Process
  <2>6. WellFormedIsStored'
    BY <2>2, <2>4, <2>5 DEF WellFormedIsStored
  <2>7. stored' # Absent => \E k \in Options : stored' = BuildMetadata(payload', k)
    <3>1. stored' = stored \/ stored' = BuildMetadata(payload, o)
      BY <2>1 DEF Process
    <3> QED
      BY <2>2, <3>1 DEF MetaInv
  <2> QED
    BY <2>2, <2>3, <2>5, <2>6, <2>7 DEF MetaInv
<1> QED
  BY <1>1, <1>2

LEMMA MetaInvariant == Spec => []MetaInv
  BY MetaInit, MetaNext, PTL DEF Spec

\* All figures of stored metadata have their types and agree with the files:
\* the categories add up to the files changed, the tags name categories and
\* languages; totals fall short of the files, or do not add up, only where the
\* stats that GitHub sent do against its own list (diff_extractor.py:34-69,
\* rule_engine.py:100-108), for every answer, whatever its length and figures.
THEOREM FiguresTrue == Spec => []FiguresAgree
<1>1. MetaInv => FiguresAgree
  <2> SUFFICES ASSUME MetaInv PROVE FiguresAgree
    OBVIOUS
  <2>1. CASE stored = Absent
    BY <2>1 DEF MetaInv, FiguresAgree, TypeOK, FieldsAgree, ShortfallIsGitHubs
  <2>2. CASE stored # Absent
    <3>1. PICK o \in Options : stored = BuildMetadata(payload, o)
      BY <2>2 DEF MetaInv
    <3>2. payload \in Payloads
      BY DEF MetaInv
    <3>3. /\ stored.change_type \in ChangeTypes
          /\ stored.breaking_change \in BOOLEAN
          /\ stored.issue_references \subseteq Nat
          /\ stored.stats \in [{"additions", "deletions", "total", "files_changed"} -> Nat]
          /\ DOMAIN stored.file_categories \subseteq FileCategories
          /\ stored.languages \subseteq Languages
          /\ FieldsAgree /\ ShortfallIsGitHubs
      BY <3>1, <3>2, BuiltFigures
    <3> QED
      BY <3>3 DEF MetaInv, FiguresAgree, TypeOK
  <2> QED
    BY <2>1, <2>2
<1> QED
  BY <1>1, MetaInvariant, PTL

\* Neither the model nor the schema refuses the metadata of a commit that
\* GitHub names, links and gives a subject to, and whose files have a status
\* (models.py:38, validator.py:32).
THEOREM NothingRefused == Spec => []WellFormedIsStored
<1>1. MetaInv => WellFormedIsStored
  BY DEF MetaInv
<1> QED
  BY <1>1, MetaInvariant, PTL

\* The files decide a change type only where the message says nothing, by a
\* category that none outnumbers, whose files are program code when it is
\* "source"; and the order of the files only between categories equally
\* frequent (rule_engine.py:67-97, file_classifier.py:85-109).
THEOREM TypeFounded == Spec => []TypeGrounded
<1>1. MetaInv => TypeGrounded
  <2> SUFFICES ASSUME MetaInv PROVE TypeGrounded
    OBVIOUS
  <2>1. CASE stored = Absent
    BY <2>1 DEF TypeGrounded, FilesFillIn, SourceIsCode, OrderBreaksTies
  <2>2. CASE stored # Absent
    <3>1. PICK o \in Options : stored = BuildMetadata(payload, o)
      BY <2>2 DEF MetaInv
    <3>2. payload \in Payloads
      BY DEF MetaInv
    <3> QED
      BY <3>1, <3>2, BuiltGrounds
  <2> QED
    BY <2>1, <2>2
<1> QED
  BY <1>1, MetaInvariant, PTL

\* Processing the commit again, with other options, changes nothing that was
\* stored of it but the patches and the summary (engine.py:41-47).
THEOREM FactsKept == Spec => ReprocessingKeepsFacts
<1> DEFINE kept == DOMAIN stored \ {"files", "llm_summary"}
           Kept == stored # Absent =>
                     /\ stored' # Absent
                     /\ [f \in kept |-> stored'[f]] = [f \in kept |-> stored[f]]
                     /\ [i \in DOMAIN stored.files |-> [stored.files[i] EXCEPT !.patch = Absent]]
                          = [i \in DOMAIN stored'.files |->
                                [stored'.files[i] EXCEPT !.patch = Absent]]
<1>1. MetaInv /\ [Next]_vars => [Kept]_vars
  <2> SUFFICES ASSUME MetaInv, Next, stored # Absent PROVE Kept
    BY DEF vars
  <2>1. PICK o \in Options : Process(o)
    BY DEF Next
  <2>2. CASE stored' = stored
    BY <2>2
  <2>3. CASE stored' = BuildMetadata(payload, o)
    <3>1. PICK k \in Options : stored = BuildMetadata(payload, k)
      BY DEF MetaInv
    <3>2. payload \in Payloads /\ payload \in Answers
      BY MetadataAssumption DEF MetaInv
    <3>3. k.include_patch \in BOOLEAN /\ o.include_patch \in BOOLEAN
      BY DEF Options
    <3>4. payload.message \in CommitMessages
      BY <3>2 DEF Answers
    <3>5. stored' # Absent
      BY <2>3, <3>2, MetadataAssumption
    <3> DEFINE files == ExtractChangedFiles(payload, k.include_patch)
               other == ExtractChangedFiles(payload, o.include_patch)
    <3>6. /\ CategoryCounts(files) = CategoryCounts(other)
          /\ DistinctLanguages(files) = DistinctLanguages(other)
          /\ \A m : DeriveTags(m, files) = DeriveTags(m, other)
          /\ AggregateStats(files, payload) = AggregateStats(other, payload)
          /\ FilesType(files) = FilesType(other)
          /\ [i \in DOMAIN files |-> [files[i] EXCEPT !.patch = Absent]]
               = [i \in DOMAIN other |-> [other[i] EXCEPT !.patch = Absent]]
      BY <3>2, <3>3, PatchesAside
    <3>7. stored.files = files /\ stored'.files = other
      BY <2>3, <3>1 DEF BuildMetadata
    <3> HIDE DEF files, other
    <3>8. ClassifyChangeType(payload.message, files) = ClassifyChangeType(payload.message, other)
      BY <3>4, <3>6, TypeLemma
    <3>9. kept = {"sha", "change_type", "breaking_change", "issue_references", "tags",
                  "stats", "file_categories", "languages"}
      BY <3>1 DEF BuildMetadata
    <3>10. \A f \in kept : stored'[f] = stored[f]
      BY <2>3, <3>1, <3>6, <3>8, <3>9 DEF BuildMetadata, files, other
    <3> HIDE DEF kept
    <3>11. [f \in kept |-> stored'[f]] = [f \in kept |-> stored[f]]
      BY <3>10, Zenon
    <3>12. [i \in DOMAIN stored.files |-> [stored.files[i] EXCEPT !.patch = Absent]]
             = [i \in DOMAIN stored'.files |-> [stored'.files[i] EXCEPT !.patch = Absent]]
      BY <3>6, <3>7, Zenon
    <3> QED
      BY <3>5, <3>11, <3>12
  <2> QED
    BY <2>1, <2>2, <2>3 DEF Process
<1> QED
  BY <1>1, MetaInvariant, PTL DEF Spec, ReprocessingKeepsFacts

=============================================================================
