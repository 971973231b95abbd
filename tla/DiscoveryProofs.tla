-------------------------- MODULE DiscoveryProofs --------------------------
(***************************************************************************)
(* A walk over any branches, with any budget and pages of any size, gives  *)
(* a result without repetitions, within its budget and fair to every       *)
(* branch, and a gapless prefix of each branch although pushes shift the   *)
(* pages under it.                                                         *)
(***************************************************************************)
EXTENDS Discovery, ListLemmas

-----------------------------------------------------------------------------
(* deduplicate_shas.                                                       *)

\* What is kept of the first n entries.
KeptUpTo(s) ==
    CHOOSE f : f = [n \in 0 .. Len(s) |->
        IF n = 0 THEN <<>>
        ELSE IF s[n] \in {s[i] : i \in 1 .. n - 1} THEN f[n - 1] ELSE Append(f[n - 1], s[n])]

LEMMA KeptBy == \A s : DeduplicateShas(s) = KeptUpTo(s)[Len(s)]
  BY DEF DeduplicateShas, KeptUpTo

LEMMA KeptDef ==
    ASSUME NEW T, NEW s \in Seq(T)
    PROVE  LET f == KeptUpTo(s)
           IN  /\ \A n \in 0 .. Len(s) : f[n] \in Seq(T)
               /\ f[0] = <<>> /\ DeduplicateShas(s) = f[Len(s)]
               /\ \A n \in 1 .. Len(s) :
                     f[n] = IF s[n] \in {s[i] : i \in 1 .. n - 1} THEN f[n - 1]
                            ELSE Append(f[n - 1], s[n])
<1> DEFINE V == Seq(T)
           N == Len(s)
           seen(n) == {s[i] : i \in 1 .. n - 1}
           g == [n \in 1 .. N |-> [v \in V |-> IF s[n] \in seen(n) THEN v ELSE Append(v, s[n])]]
           body(f) == [n \in 0 .. N |-> IF n = 0 THEN <<>>
                                        ELSE IF s[n] \in seen(n) THEN f[n - 1]
                                        ELSE Append(f[n - 1], s[n])]
<1>1. /\ N \in Nat /\ <<>> \in V /\ g \in [1 .. N -> [V -> V]]
      /\ \A n \in 1 .. N : s[n] \in T
  <2> HIDE DEF seen
  <2> QED
    OBVIOUS
<1>2. PICK h : Recurs(h, V, <<>>, N, g)
  <2> HIDE DEF V, g, N
  <2> QED
    BY <1>1, Recursion
<1> HIDE DEF seen
<1>3. ASSUME NEW n \in 1 .. N
      PROVE  h[n] = IF s[n] \in seen(n) THEN h[n - 1] ELSE Append(h[n - 1], s[n])
  <2> HIDE DEF V, N, g
  <2>1. n - 1 \in 0 .. N /\ h[n - 1] \in V /\ h[n] = g[n][h[n - 1]]
    BY <1>1, <1>2 DEF Recurs
  <2> QED
    BY <2>1 DEF g
<1> HIDE DEF V, g, N
<1>4. h = body(h)
  <2>1. DOMAIN h = 0 .. N /\ h = [n \in 0 .. N |-> h[n]] /\ h[0] = <<>>
    BY <1>2 DEF Recurs
  <2>2. ASSUME NEW n \in 0 .. N
        PROVE  h[n] = IF n = 0 THEN <<>>
                      ELSE IF s[n] \in seen(n) THEN h[n - 1] ELSE Append(h[n - 1], s[n])
    <3>1. CASE n = 0
      BY <2>1, <3>1
    <3>2. CASE n \in 1 .. N
      BY <1>3, <3>2
    <3> QED
      BY <1>1, <3>1, <3>2
  <2>3. DOMAIN body(h) = 0 .. N /\ \A n \in 0 .. N : body(h)[n] = h[n]
    BY <2>2
  <2>4. body(h) = [n \in 0 .. N |-> body(h)[n]]
    OBVIOUS
  <2> HIDE DEF body
  <2> QED
    BY <2>1, <2>3, <2>4
<1>5. KeptUpTo(s) = body(KeptUpTo(s))
  BY <1>4 DEF KeptUpTo, N, seen
<1> DEFINE f == KeptUpTo(s)
<1> HIDE DEF f
<1>6. /\ f[0] = <<>>
      /\ \A n \in 1 .. N :
            f[n] = IF s[n] \in seen(n) THEN f[n - 1] ELSE Append(f[n - 1], s[n])
  <2>1. f = body(f)
    BY <1>5 DEF f
  <2> HIDE DEF body
  <2>2. body(f)[0] = <<>>
    BY <1>1 DEF body
  <2>3. ASSUME NEW n \in 1 .. N
        PROVE  body(f)[n] = IF s[n] \in seen(n) THEN f[n - 1] ELSE Append(f[n - 1], s[n])
    BY <1>1 DEF body
  <2> QED
    BY <2>1, <2>2, <2>3
<1>7. 0 .. N \subseteq {n \in 0 .. N : f[n] \in Seq(T)}
  <2> DEFINE A == {n \in 0 .. N : f[n] \in Seq(T)}
  <2>1. 0 \in A
    <3>1. 0 \in 0 .. N /\ f[0] = <<>>
      BY <1>1, <1>6
    <3>2. <<>> \in Seq(T)
      OBVIOUS
    <3> QED
      BY <3>1, <3>2
  <2>2. ASSUME NEW n \in 1 .. N, n - 1 \in A PROVE n \in A
    <3>1. s[n] \in T /\ f[n - 1] \in Seq(T) /\ n \in 0 .. N
      BY <1>1, <2>2
    <3>2. f[n] = Append(f[n - 1], s[n]) \/ f[n] = f[n - 1]
      BY <1>6
    <3>3. Append(f[n - 1], s[n]) \in Seq(T)
      BY <3>1
    <3>4. f[n] \in Seq(T)
      BY <3>1, <3>2, <3>3
    <3> QED
      BY <3>1, <3>4
  <2> HIDE DEF A
  <2>3. 0 .. N \subseteq A
    BY <1>1, <2>1, <2>2, UpTo
  <2> QED
    BY <2>3 DEF A
<1> QED
  BY <1>6, <1>7, KeptBy DEF f, N, seen

LEMMA KeptEmpty == DeduplicateShas(<<>>) = <<>>
<1> SUFFICES ASSUME NEW s \in Seq({}), s = <<>> PROVE DeduplicateShas(s) = <<>>
  BY EmptySeq
<1> DEFINE f == KeptUpTo(s)
<1>1. f[0] = <<>> /\ DeduplicateShas(s) = f[Len(s)]
  BY KeptDef
<1> HIDE DEF f
<1> QED
  BY <1>1

\* An entry more is kept if it is new.
LEMMA KeptAppend ==
    ASSUME NEW T, NEW s \in Seq(T), NEW x \in T
    PROVE  DeduplicateShas(Append(s, x)) =
              IF x \in Range(s) THEN DeduplicateShas(s) ELSE Append(DeduplicateShas(s), x)
<1> DEFINE f == KeptUpTo(s)
           r == Append(s, x)
           h == KeptUpTo(r)
           N == Len(s)
           old(n) == {s[i] : i \in 1 .. n - 1}
           new(n) == {r[i] : i \in 1 .. n - 1}
<1>1. /\ r \in Seq(T) /\ Len(r) = N + 1 /\ N \in Nat
      /\ \A n \in 1 .. N : r[n] = s[n]
      /\ r[N + 1] = x
  BY AppendProperties, LenProperties
<1>2. /\ f[0] = <<>> /\ DeduplicateShas(s) = f[N]
      /\ \A n \in 1 .. N : f[n] = IF s[n] \in old(n) THEN f[n - 1] ELSE Append(f[n - 1], s[n])
  BY KeptDef
<1>3. /\ h[0] = <<>> /\ DeduplicateShas(r) = h[N + 1]
      /\ \A n \in 1 .. N + 1 :
            h[n] = IF r[n] \in new(n) THEN h[n - 1] ELSE Append(h[n - 1], r[n])
  <2> HIDE DEF r
  <2> QED
    BY <1>1, KeptDef
<1> HIDE DEF f, r, h, N
<1>4. \A n \in 1 .. N + 1 : new(n) = old(n)
  BY <1>1
<1>5. Range(s) = old(N + 1)
  BY <1>1, LenProperties DEF Range, N
<1> HIDE DEF old, new
<1>6. 0 .. N \subseteq {n \in 0 .. N : h[n] = f[n]}
  <2> DEFINE A == {n \in 0 .. N : h[n] = f[n]}
  <2>1. 0 \in A
    BY <1>1, <1>2, <1>3
  <2>2. ASSUME NEW n \in 1 .. N, n - 1 \in A PROVE n \in A
    <3>1. /\ n \in 1 .. N + 1 /\ r[n] = s[n] /\ h[n - 1] = f[n - 1] /\ n \in 0 .. N
          /\ new(n) = old(n)
      BY <1>1, <1>4, <2>2
    <3> QED
      BY <1>2, <1>3, <3>1
  <2> HIDE DEF A
  <2>3. 0 .. N \subseteq A
    BY <1>1, <2>1, <2>2, UpTo
  <2> QED
    BY <2>3 DEF A
<1>7. PICK n \in 1 .. N + 1 : n = N + 1 /\ n - 1 = N
  BY <1>1
<1>8. h[n] = IF r[n] \in new(n) THEN h[n - 1] ELSE Append(h[n - 1], r[n])
  BY <1>3
<1>9. /\ r[n] = x /\ h[n] = DeduplicateShas(r) /\ new(n) = Range(s)
      /\ h[n - 1] = DeduplicateShas(s)
  <2>1. h[N] = f[N]
    BY <1>1, <1>6
  <2> QED
    BY <1>1, <1>2, <1>3, <1>4, <1>5, <1>7, <2>1
<1>10. DeduplicateShas(r) = IF x \in Range(s) THEN DeduplicateShas(s)
                            ELSE Append(DeduplicateShas(s), x)
  BY <1>8, <1>9
<1> QED
  BY <1>10 DEF r

\* Every entry is kept, and kept once.
LEMMA KeptLemma ==
    ASSUME NEW T, NEW s \in Seq(T)
    PROVE  /\ DeduplicateShas(s) \in Seq(T)
           /\ Range(DeduplicateShas(s)) = Range(s)
           /\ IsInjective(DeduplicateShas(s))
           /\ Len(DeduplicateShas(s)) <= Len(s)
<1> DEFINE A == {t \in Seq(T) : /\ DeduplicateShas(t) \in Seq(T)
                                /\ Range(DeduplicateShas(t)) = Range(t)
                                /\ IsInjective(DeduplicateShas(t))
                                /\ Len(DeduplicateShas(t)) <= Len(t)}
<1>1. <<>> \in A
  <2>1. DeduplicateShas(<<>>) = <<>> /\ <<>> \in Seq(T) /\ IsInjective(<<>>)
    BY KeptEmpty, EmptyLemma
  <2>2. Len(<<>>) <= Len(<<>>)
    BY EmptySeq
  <2> QED
    BY <2>1, <2>2
<1>2. ASSUME NEW t \in Seq(T), NEW x \in T, t \in A PROVE Append(t, x) \in A
  <2> DEFINE k == DeduplicateShas(t)
             new == DeduplicateShas(Append(t, x))
  <2>1. /\ k \in Seq(T) /\ Range(k) = Range(t) /\ IsInjective(k) /\ Len(k) <= Len(t)
    BY <1>2
  <2>2. new = IF x \in Range(t) THEN k ELSE Append(k, x)
    BY KeptAppend
  <2> HIDE DEF k, new
  <2>3. /\ Append(t, x) \in Seq(T) /\ Range(Append(t, x)) = Range(t) \cup {x}
        /\ Len(Append(t, x)) = Len(t) + 1 /\ Len(t) \in Nat /\ Len(k) \in Nat
    BY <2>1, AppendLemma, AppendProperties, LenProperties
  <2>4. /\ Append(k, x) \in Seq(T) /\ Range(Append(k, x)) = Range(k) \cup {x}
        /\ Len(Append(k, x)) = Len(k) + 1
        /\ x \notin Range(k) => IsInjective(Append(k, x))
    BY <2>1, AppendLemma, AppendProperties
  <2>5. /\ new \in Seq(T) /\ Range(new) = Range(Append(t, x)) /\ IsInjective(new)
        /\ Len(new) <= Len(Append(t, x))
    <3>1. CASE x \in Range(t)
      BY <2>1, <2>2, <2>3, <3>1
    <3>2. CASE x \notin Range(t)
      BY <2>1, <2>2, <2>3, <2>4, <3>2
    <3> QED
      BY <3>1, <3>2
  <2> QED
    BY <2>3, <2>5 DEF new
<1>3. Seq(T) \subseteq A
  <2> HIDE DEF A
  <2> QED
    BY <1>1, <1>2, ListInduction
<1> QED
  BY <1>3

\* Of a list that goes on, only what its parts keep matters.
LEMMA KeptConcat ==
    ASSUME NEW T, NEW a \in Seq(T), NEW b \in Seq(T), NEW u \in Seq(T),
           DeduplicateShas(a) = DeduplicateShas(b)
    PROVE  DeduplicateShas(a \o u) = DeduplicateShas(b \o DeduplicateShas(u))
<1> DEFINE A == {t \in Seq(T) :
                    DeduplicateShas(a \o t) = DeduplicateShas(b \o DeduplicateShas(t))}
<1>1. <<>> \in A
  BY KeptEmpty, ConcatEmptySeq, EmptySeq
<1>2. ASSUME NEW t \in Seq(T), NEW x \in T, t \in A PROVE Append(t, x) \in A
  <2> DEFINE k == DeduplicateShas(t)
  <2>1. /\ k \in Seq(T) /\ Range(k) = Range(t) /\ Range(a) = Range(b)
        /\ DeduplicateShas(a \o t) = DeduplicateShas(b \o k)
    BY <1>2, KeptLemma
  <2>2. DeduplicateShas(Append(t, x)) = IF x \in Range(t) THEN k ELSE Append(k, x)
    BY KeptAppend
  <2> HIDE DEF k
  <2>3. /\ a \o t \in Seq(T) /\ b \o k \in Seq(T)
        /\ Range(a \o t) = Range(a) \cup Range(t) /\ Range(b \o k) = Range(b) \cup Range(k)
    BY <2>1, ConcatProperties, RangeConcatenation
  <2>4. a \o Append(t, x) = Append(a \o t, x) /\ b \o Append(k, x) = Append(b \o k, x)
    BY <2>1
  <2>5. /\ DeduplicateShas(Append(a \o t, x)) =
              IF x \in Range(a \o t) THEN DeduplicateShas(a \o t)
              ELSE Append(DeduplicateShas(a \o t), x)
        /\ DeduplicateShas(Append(b \o k, x)) =
              IF x \in Range(b \o k) THEN DeduplicateShas(b \o k)
              ELSE Append(DeduplicateShas(b \o k), x)
    BY <2>3, KeptAppend
  <2>6. DeduplicateShas(a \o Append(t, x)) = DeduplicateShas(b \o DeduplicateShas(Append(t, x)))
    <3>1. CASE x \in Range(t)
      BY <2>1, <2>2, <2>3, <2>4, <2>5, <3>1
    <3>2. CASE x \notin Range(t)
      BY <2>1, <2>2, <2>3, <2>4, <2>5, <3>2
    <3> QED
      BY <3>1, <3>2
  <2>7. Append(t, x) \in Seq(T)
    BY AppendProperties
  <2> QED
    BY <2>6, <2>7
<1>3. Seq(T) \subseteq A
  <2> HIDE DEF A
  <2> QED
    BY <1>1, <1>2, ListInduction
<1> QED
  BY <1>3

-----------------------------------------------------------------------------
(* Lists of lists, one after the other.                                    *)

FlatUpTo(ss) ==
    CHOOSE f : f = [i \in 1 .. Len(ss) |-> IF i = 1 THEN ss[i] ELSE f[i - 1] \o ss[i]]

LEMMA FlatBy == \A ss : FlattenSeq(ss) = IF Len(ss) = 0 THEN ss ELSE FlatUpTo(ss)[Len(ss)]
  BY DEF FlattenSeq, FlatUpTo

LEMMA FlatDef ==
    ASSUME NEW T, NEW ss \in Seq(Seq(T))
    PROVE  LET f == FlatUpTo(ss)
           IN  /\ \A n \in 1 .. Len(ss) : f[n] \in Seq(T)
               /\ Len(ss) > 0 => f[1] = ss[1]
               /\ \A n \in 2 .. Len(ss) : f[n] = f[n - 1] \o ss[n]
<1> DEFINE V == Seq(T)
           N == Len(ss)
           g == [n \in 1 .. N |-> [v \in V |-> v \o ss[n]]]
           body(f) == [i \in 1 .. N |-> IF i = 1 THEN ss[i] ELSE f[i - 1] \o ss[i]]
<1>1. N \in Nat /\ <<>> \in V /\ \A n \in 1 .. N : ss[n] \in V
  BY LenProperties, ElementOfSeq, EmptySeq
<1>2. g \in [1 .. N -> [V -> V]]
  <2>1. ASSUME NEW n \in 1 .. N, NEW v \in V PROVE v \o ss[n] \in V
    BY <1>1, ConcatProperties
  <2> HIDE DEF V, N
  <2> QED
    BY <2>1
<1>3. PICK e : Recurs(e, V, <<>>, N, g)
  <2> HIDE DEF V, g, N
  <2> QED
    BY <1>1, <1>2, Recursion
<1>4. ASSUME NEW n \in 1 .. N
      PROVE  n - 1 \in 0 .. N /\ e[n - 1] \in V /\ e[n] = e[n - 1] \o ss[n]
  <2> HIDE DEF V, N, g
  <2>1. n - 1 \in 0 .. N /\ e[n - 1] \in V /\ e[n] = g[n][e[n - 1]]
    BY <1>1, <1>3 DEF Recurs
  <2> QED
    BY <2>1 DEF g
<1> DEFINE h == [i \in 1 .. N |-> e[i]]
<1>5. h = body(h)
  <2>1. ASSUME NEW n \in 1 .. N
        PROVE  h[n] = IF n = 1 THEN ss[n] ELSE h[n - 1] \o ss[n]
    <3>1. CASE n = 1
      <4>1. e[n - 1] = <<>>
        BY <1>3, <3>1 DEF Recurs
      <4>2. <<>> \o ss[n] = ss[n]
        BY <1>1, ConcatEmptySeq DEF V
      <4> QED
        BY <1>4, <3>1, <4>1, <4>2
    <3>2. CASE n # 1
      <4>1. n - 1 \in 1 .. N
        BY <1>1, <3>2
      <4> QED
        BY <1>4, <3>2, <4>1
    <3> QED
      BY <3>1, <3>2
  <2>2. /\ \A n \in 1 .. N : body(h)[n] = h[n]
        /\ h = [n \in 1 .. N |-> h[n]]
    <3> HIDE DEF N
    <3> QED
      BY <2>1 DEF N
  <2>3. body(h) = [n \in 1 .. N |-> body(h)[n]]
    OBVIOUS
  <2> HIDE DEF body, h
  <2> QED
    BY <2>2, <2>3
<1>6. FlatUpTo(ss) = body(FlatUpTo(ss))
  <2> HIDE DEF h
  <2> QED
    BY <1>5 DEF FlatUpTo
<1> DEFINE f == FlatUpTo(ss)
<1> HIDE DEF f, h
<1>7. \A n \in 1 .. N : f[n] = IF n = 1 THEN ss[n] ELSE f[n - 1] \o ss[n]
  <2>1. f = body(f)
    BY <1>6 DEF f
  <2>2. ASSUME NEW n \in 1 .. N
        PROVE  body(f)[n] = IF n = 1 THEN ss[n] ELSE f[n - 1] \o ss[n]
    OBVIOUS
  <2> HIDE DEF body
  <2> QED
    BY <2>1, <2>2
<1>8. N > 0 => f[1] = ss[1]
  BY <1>1, <1>7
<1> HIDE DEF V, N
<1>9. ASSUME NEW n \in 2 .. N PROVE f[n] = f[n - 1] \o ss[n]
  <2>1. n \in 1 .. N /\ n # 1
    BY <1>1
  <2> QED
    BY <1>7, <2>1
<1>10. 0 .. N \subseteq {n \in 0 .. N : n = 0 \/ f[n] \in V}
  <2> DEFINE A == {n \in 0 .. N : n = 0 \/ f[n] \in V}
  <2>1. 0 \in A
    BY <1>1
  <2>2. ASSUME NEW n \in 1 .. N, n - 1 \in A PROVE n \in A
    <3>1. CASE n = 1
      BY <1>1, <1>7, <3>1
    <3>2. CASE n # 1
      <4>1. f[n - 1] \in V /\ ss[n] \in V
        BY <1>1, <2>2, <3>2
      <4>2. f[n - 1] \o ss[n] \in V
        BY <4>1, ConcatProperties DEF V
      <4> QED
        BY <1>1, <1>7, <3>2, <4>2
    <3> QED
      BY <3>1, <3>2
  <2> HIDE DEF A
  <2>3. 0 .. N \subseteq A
    BY <1>1, <2>1, <2>2, UpTo
  <2> QED
    BY <2>3 DEF A
<1>11. \A n \in 1 .. N : f[n] \in V
  BY <1>1, <1>10
<1> QED
  BY <1>8, <1>9, <1>11 DEF f, N, V

LEMMA FlatEmpty == FlattenSeq(<<>>) = <<>>
  BY FlatBy, EmptySeq

LEMMA FlatAppend ==
    ASSUME NEW T, NEW ss \in Seq(Seq(T)), NEW u \in Seq(T)
    PROVE  /\ FlattenSeq(ss) \in Seq(T)
           /\ FlattenSeq(Append(ss, u)) = FlattenSeq(ss) \o u
<1> DEFINE f == FlatUpTo(ss)
           r == Append(ss, u)
           h == FlatUpTo(r)
           N == Len(ss)
<1>1. /\ r \in Seq(Seq(T)) /\ Len(r) = N + 1 /\ N \in Nat
      /\ \A n \in 1 .. N : r[n] = ss[n]
      /\ r[N + 1] = u
  BY AppendProperties, LenProperties
<1>2. /\ \A n \in 1 .. N : f[n] \in Seq(T)
      /\ N > 0 => f[1] = ss[1]
      /\ \A n \in 2 .. N : f[n] = f[n - 1] \o ss[n]
  BY FlatDef
<1>3. /\ h[1] = r[1]
      /\ \A n \in 2 .. N + 1 : h[n] = h[n - 1] \o r[n]
  <2> HIDE DEF r
  <2>1. /\ Len(r) > 0 => h[1] = r[1]
        /\ \A n \in 2 .. Len(r) : h[n] = h[n - 1] \o r[n]
    BY <1>1, FlatDef
  <2> HIDE DEF h, N
  <2>2. Len(r) = N + 1 /\ Len(r) > 0
    BY <1>1
  <2> QED
    BY <2>1, <2>2
<1>4. /\ FlattenSeq(ss) = IF N = 0 THEN ss ELSE f[N]
      /\ FlattenSeq(r) = h[N + 1]
  <2>1. FlattenSeq(ss) = IF N = 0 THEN ss ELSE f[N]
    BY FlatBy
  <2>2. FlattenSeq(r) = IF Len(r) = 0 THEN r ELSE h[Len(r)]
    BY FlatBy
  <2> HIDE DEF r, h, f
  <2> QED
    BY <1>1, <2>1, <2>2
<1> HIDE DEF f, r, h, N
<1>5. 0 .. N \subseteq {n \in 0 .. N : n = 0 \/ h[n] = f[n]}
  <2> DEFINE A == {n \in 0 .. N : n = 0 \/ h[n] = f[n]}
  <2>1. 0 \in A
    BY <1>1
  <2>2. ASSUME NEW n \in 1 .. N, n - 1 \in A PROVE n \in A
    <3>1. CASE n = 1
      BY <1>1, <1>2, <1>3, <3>1
    <3>2. CASE n # 1
      <4>1. /\ n \in 2 .. N + 1 /\ n \in 2 .. N /\ h[n - 1] = f[n - 1] /\ r[n] = ss[n]
            /\ n \in 0 .. N
        BY <1>1, <2>2, <3>2
      <4> QED
        BY <1>2, <1>3, <4>1
    <3> QED
      BY <3>1, <3>2
  <2> HIDE DEF A
  <2>3. 0 .. N \subseteq A
    BY <1>1, <2>1, <2>2, UpTo
  <2> QED
    BY <2>3 DEF A
<1>6. CASE N = 0
  <2>1. ss = <<>>
    BY <1>6, EmptySeq DEF N
  <2>2. <<>> \o u = u /\ <<>> \in Seq(T)
    BY ConcatEmptySeq, EmptySeq
  <2> QED
    BY <1>1, <1>3, <1>4, <1>6, <2>1, <2>2 DEF r
<1>7. CASE N # 0
  <2>1. PICK n \in 2 .. N + 1 : n = N + 1 /\ n - 1 = N
    BY <1>1, <1>7
  <2>2. h[n] = h[n - 1] \o r[n]
    BY <1>3
  <2>3. h[N] = f[N] /\ f[N] \in Seq(T)
    BY <1>1, <1>2, <1>5, <1>7
  <2> QED
    BY <1>1, <1>4, <1>7, <2>1, <2>2, <2>3 DEF r
<1> QED
  BY <1>6, <1>7

-----------------------------------------------------------------------------
(* A listing under pushes.  A push shifts what has not been read yet away  *)
(* from the start, so the next page repeats commits and skips none.        *)

\* Each entry of s but the first of list is found in s after the one before it
\* in list, and at most d places further on than in list.
Follows(s, list, d) ==
    \A n \in 1 .. Len(s) : \E c \in 1 .. Len(list) :
        /\ s[n] = list[c] /\ c <= n /\ n <= c + d
        /\ c = 1 \/ \E m \in 1 .. n - 1 : s[m] = list[c - 1]

\* The beginning of a list.
LEMMA PrefixLemma ==
    ASSUME NEW T, NEW s \in Seq(T), NEW n \in 0 .. Len(s)
    PROVE  /\ SubSeq(s, 1, n) \in Seq(T) /\ Len(SubSeq(s, 1, n)) = n
           /\ \A i \in 1 .. n : SubSeq(s, 1, n)[i] = s[i]
           /\ Range(SubSeq(s, 1, n)) = {s[i] : i \in 1 .. n}
           /\ n < Len(s) => SubSeq(s, 1, n + 1) = Append(SubSeq(s, 1, n), s[n + 1])
<1> DEFINE p == SubSeq(s, 1, n)
<1>1. Len(s) \in Nat /\ n \in Nat /\ n <= Len(s) /\ \A i \in 1 .. n : s[i] \in T
  BY LenProperties, ElementOfSeq
<1>2. p \in Seq(T) /\ Len(p) = n /\ \A i \in 1 .. n : p[i] = s[i]
  <2>1. /\ SubSeq(s, 1, n) \in Seq(T)
        /\ Len(SubSeq(s, 1, n)) = IF 1 <= n THEN n - 1 + 1 ELSE 0
        /\ \A i \in 1 .. n - 1 + 1 : SubSeq(s, 1, n)[i] = s[1 + i - 1]
    BY <1>1, SubSeqProperties
  <2> HIDE DEF p
  <2>2. n - 1 + 1 = n /\ \A i \in 1 .. n : 1 + i - 1 = i
    BY <1>1
  <2>3. Len(p) = n
    BY <1>1, <2>1 DEF p
  <2>4. ASSUME NEW i \in 1 .. n PROVE p[i] = s[i]
    BY <1>1, <2>1, <2>2 DEF p
  <2> QED
    BY <2>1, <2>3, <2>4 DEF p
<1> HIDE DEF p
<1>3. Range(p) = {p[i] : i \in 1 .. n}
  BY <1>2, RangeEquality
<1>4. Range(p) = {s[i] : i \in 1 .. n}
  BY <1>2, <1>3
<1>5. ASSUME n < Len(s) PROVE SubSeq(s, 1, n + 1) = Append(p, s[n + 1])
  <2>1. n + 1 \in 1 .. Len(s) /\ 1 \in 1 .. Len(s) /\ s[n + 1] \in T
    BY <1>1, <1>5, ElementOfSeq
  <2>2. SubSeq(s, 1, n + 1) = SubSeq(s, 1, n + 1 - 1) \o <<s[n + 1]>>
    BY <2>1, SubSeqRecursiveSecond
  <2>3. n + 1 - 1 = n
    BY <1>1
  <2>4. SubSeq(s, 1, n + 1) = p \o <<s[n + 1]>>
    BY <2>2, <2>3 DEF p
  <2> QED
    BY <1>2, <2>1, <2>4, AppendIsConcat
<1> QED
  BY <1>2, <1>4, <1>5 DEF p

\* What such a listing keeps is the beginning of the list, as long as the
\* listing but for the repetitions, which are at most d.
LEMMA FollowsKept ==
    ASSUME NEW T, NEW l \in Seq(T), IsInjective(l), NEW d \in Nat,
           NEW s \in Seq(T), Follows(s, l, d)
    PROVE  \E k \in 0 .. Len(l) :
              /\ k <= Len(s) /\ Len(s) <= k + d
              /\ DeduplicateShas(s) = SubSeq(l, 1, k)
<1> DEFINE P(t) == \E k \in 0 .. Len(l) :
                       /\ k <= Len(t) /\ Len(t) <= k + d
                       /\ DeduplicateShas(t) = SubSeq(l, 1, k)
           A == {t \in Seq(T) : Follows(t, l, d) => P(t)}
<1>1. Len(l) \in Nat /\ DOMAIN l = 1 .. Len(l)
  BY LenProperties
<1>2. <<>> \in A
  <2>1. Len(<<>>) = 0 /\ <<>> \in Seq(T)
    BY EmptySeq
  <2>2. SubSeq(l, 1, 0) = <<>>
    BY SubSeqEmpty
  <2>3. DeduplicateShas(<<>>) = SubSeq(l, 1, 0)
    BY <2>2, KeptEmpty
  <2>4. 0 \in 0 .. Len(l) /\ 0 <= 0 + d
    BY <1>1
  <2>5. P(<<>>)
    BY <2>1, <2>3, <2>4
  <2> QED
    BY <2>1, <2>5
<1>3. ASSUME NEW t \in Seq(T), NEW x \in T, t \in A PROVE Append(t, x) \in A
  <2> DEFINE r == Append(t, x)
             N == Len(t)
  <2>1. /\ r \in Seq(T) /\ Len(r) = N + 1 /\ N \in Nat
        /\ \A n \in 1 .. N : r[n] = t[n]
        /\ r[N + 1] = x
        /\ Range(t) = {t[i] : i \in 1 .. N}
    BY AppendProperties, LenProperties, RangeEquality
  <2>2. DeduplicateShas(r) = IF x \in Range(t) THEN DeduplicateShas(t)
                             ELSE Append(DeduplicateShas(t), x)
    BY KeptAppend
  <2>3. Range(DeduplicateShas(t)) = Range(t)
    BY KeptLemma
  <2> SUFFICES ASSUME Follows(r, l, d) PROVE P(r)
    BY <2>1
  <2> HIDE DEF r, N
  <2>4. Follows(t, l, d)
    <3> SUFFICES ASSUME NEW n \in 1 .. N
                 PROVE  \E c \in 1 .. Len(l) :
                           /\ t[n] = l[c] /\ c <= n /\ n <= c + d
                           /\ c = 1 \/ \E m \in 1 .. n - 1 : t[m] = l[c - 1]
      BY DEF Follows, N
    <3>1. n \in 1 .. Len(r) /\ r[n] = t[n]
      BY <2>1
    <3>2. PICK c \in 1 .. Len(l) :
             /\ r[n] = l[c] /\ c <= n /\ n <= c + d
             /\ c = 1 \/ \E m \in 1 .. n - 1 : r[m] = l[c - 1]
      BY <3>1 DEF Follows
    <3>3. \A m \in 1 .. n - 1 : r[m] = t[m]
      BY <2>1
    <3> QED
      BY <3>1, <3>2, <3>3
  <2>5. PICK k \in 0 .. Len(l) :
           /\ k <= N /\ N <= k + d
           /\ DeduplicateShas(t) = SubSeq(l, 1, k)
    BY <1>3, <2>4 DEF N
  <2>6. /\ Range(t) = {l[i] : i \in 1 .. k}
        /\ k < Len(l) => SubSeq(l, 1, k + 1) = Append(SubSeq(l, 1, k), l[k + 1])
    BY <2>3, <2>5, PrefixLemma
  <2>7. PICK n \in 1 .. Len(r) : n = N + 1 /\ r[n] = x /\ n - 1 = N
    <3>1. N + 1 \in 1 .. Len(r) /\ N + 1 - 1 = N
      BY <2>1
    <3> QED
      BY <2>1, <3>1
  <2>8. PICK c \in 1 .. Len(l) :
           /\ r[n] = l[c] /\ c <= n /\ n <= c + d
           /\ c = 1 \/ \E m \in 1 .. n - 1 : r[m] = l[c - 1]
    BY <2>7 DEF Follows
  <2>9. c <= k + 1
    <3>1. CASE c = 1
      BY <1>1, <2>5, <3>1
    <3>2. CASE c # 1
      <4>1. PICK m \in 1 .. n - 1 : r[m] = l[c - 1]
        BY <2>8, <3>2
      <4>2. l[c - 1] \in Range(t)
        BY <2>1, <2>7, <4>1
      <4>3. PICK i \in 1 .. k : l[c - 1] = l[i]
        BY <2>6, <4>2
      <4>4. c - 1 \in 1 .. Len(l) /\ i \in 1 .. Len(l)
        BY <1>1, <2>5, <3>2
      <4>5. c - 1 = i
        BY <1>1, <4>3, <4>4 DEF IsInjective
      <4> QED
        BY <1>1, <2>5, <4>5
    <3> QED
      BY <3>1, <3>2
  <2>10. CASE c <= k
    <3>1. x \in Range(t)
      BY <1>1, <2>6, <2>7, <2>8, <2>10
    <3>2. DeduplicateShas(r) = SubSeq(l, 1, k)
      BY <2>2, <2>5, <3>1
    <3>3. k <= Len(r) /\ Len(r) <= k + d
      BY <1>1, <2>1, <2>5, <2>7, <2>8, <2>10
    <3> QED
      BY <3>2, <3>3
  <2>11. CASE c = k + 1
    <3>1. x \notin Range(t)
      <4> SUFFICES ASSUME NEW i \in 1 .. k, x = l[i] PROVE FALSE
        BY <2>6
      <4>1. i \in 1 .. Len(l) /\ i # c
        BY <1>1, <2>5, <2>11
      <4> QED
        BY <1>1, <2>7, <2>8, <4>1 DEF IsInjective
    <3>2. k < Len(l) /\ x = l[k + 1]
      BY <1>1, <2>5, <2>7, <2>8, <2>11
    <3>3. DeduplicateShas(r) = SubSeq(l, 1, k + 1)
      BY <2>2, <2>5, <2>6, <3>1, <3>2
    <3>4. k + 1 \in 0 .. Len(l) /\ k + 1 <= Len(r) /\ Len(r) <= k + 1 + d
      BY <1>1, <2>1, <2>5, <2>7, <2>8, <2>11, <3>2
    <3> QED
      BY <3>3, <3>4
  <2> QED
    BY <1>1, <2>5, <2>9, <2>10, <2>11
<1>4. Seq(T) \subseteq A
  <2> HIDE DEF A
  <2> QED
    BY <1>2, <1>3, ListInduction
<1> QED
  BY <1>4

\* A shorter listing, and one that may be further behind, is such a listing.
LEMMA FollowsWeaker ==
    ASSUME NEW T, NEW s \in Seq(T), NEW r \in Seq(T), NEW l \in Seq(T),
           NEW d \in Nat, NEW e \in Nat, d <= e, Follows(s, l, d),
           Len(r) <= Len(s), \A i \in 1 .. Len(r) : r[i] = s[i]
    PROVE  Follows(r, l, e)
<1> SUFFICES ASSUME NEW n \in 1 .. Len(r)
             PROVE  \E c \in 1 .. Len(l) :
                        /\ r[n] = l[c] /\ c <= n /\ n <= c + e
                        /\ c = 1 \/ \E m \in 1 .. n - 1 : r[m] = l[c - 1]
  BY DEF Follows
<1>1. Len(l) \in Nat /\ Len(r) \in Nat /\ Len(s) \in Nat
  BY LenProperties
<1>2. n \in 1 .. Len(s) /\ r[n] = s[n]
  BY <1>1
<1>3. PICK c \in 1 .. Len(l) :
         /\ s[n] = l[c] /\ c <= n /\ n <= c + d
         /\ c = 1 \/ \E m \in 1 .. n - 1 : s[m] = l[c - 1]
  BY <1>2 DEF Follows
<1>4. \A m \in 1 .. n - 1 : r[m] = s[m]
  BY <1>1
<1>5. n <= c + e
  BY <1>1, <1>3
<1> QED
  BY <1>2, <1>3, <1>4, <1>5

\* l is the branch now, old what it was when its first page was read, and d the
\* pushes since.
Shifted(l, old, d) ==
    /\ Len(l) = Len(old) + d
    /\ \A j \in 1 .. Len(old) : l[d + j] = old[j]

\* The next page continues the listing.  s is what the pages before it gave:
\* nothing, or at least a page.
LEMMA PageFollows ==
    ASSUME NEW T, NEW l \in Seq(T), NEW old \in Seq(T), IsInjective(old), NEW d \in Nat,
           Shifted(l, old, d), NEW s \in Seq(T), Follows(s, old, d), d <= Len(s),
           NEW b \in Seq(T), Len(s) + Len(b) <= Len(l),
           \A i \in 1 .. Len(b) : b[i] = l[Len(s) + i]
    PROVE  Follows(s \o b, old, d)
<1> DEFINE r == s \o b
           N == Len(s)
           Found(n) == \E c \in 1 .. Len(old) :
                          /\ r[n] = old[c] /\ c <= n /\ n <= c + d
                          /\ c = 1 \/ \E m \in 1 .. n - 1 : r[m] = old[c - 1]
<1>1. /\ N \in Nat /\ Len(b) \in Nat /\ Len(old) \in Nat /\ Len(r) = N + Len(b)
      /\ Len(l) = Len(old) + d
      /\ DOMAIN old = 1 .. Len(old)
      /\ \A i \in 1 .. N : r[i] = s[i]
      /\ \A i \in N + 1 .. N + Len(b) : r[i] = b[i - N]
  BY LenProperties, ConcatProperties DEF Shifted
<1> HIDE DEF r, N
<1>2. \A n \in N + 1 .. N + Len(b) :
         n - d \in 1 .. Len(old) /\ r[n] = old[n - d]
  <2> SUFFICES ASSUME NEW n \in N + 1 .. N + Len(b)
               PROVE  n - d \in 1 .. Len(old) /\ r[n] = old[n - d]
    OBVIOUS
  <2>1. n - N \in 1 .. Len(b) /\ N + (n - N) = n
    BY <1>1
  <2>2. r[n] = l[n]
    BY <1>1, <2>1 DEF N
  <2>3. n - d \in 1 .. Len(old) /\ d + (n - d) = n
    BY <1>1 DEF N
  <2>4. l[d + (n - d)] = old[n - d]
    BY <2>3 DEF Shifted
  <2> QED
    BY <2>2, <2>3, <2>4
<1>3. ASSUME NEW n \in 1 .. N PROVE Found(n)
  <2>1. PICK c \in 1 .. Len(old) :
           /\ s[n] = old[c] /\ c <= n /\ n <= c + d
           /\ c = 1 \/ \E m \in 1 .. n - 1 : s[m] = old[c - 1]
    BY DEF Follows, N
  <2>2. \A m \in 1 .. n - 1 : r[m] = s[m]
    BY <1>1
  <2> QED
    BY <1>1, <2>1, <2>2
<1>4. ASSUME NEW n \in N + 1 .. N + Len(b) PROVE Found(n)
  <2>1. n - d \in 1 .. Len(old) /\ r[n] = old[n - d]
    BY <1>2
  <2>2. n - d <= n /\ n <= n - d + d
    BY <1>1
  <2>3. n - d = 1 \/ \E m \in 1 .. n - 1 : r[m] = old[n - d - 1]
    <3>1. CASE n = N + 1 /\ n - d # 1
      <4>1. PICK k \in 0 .. Len(old) :
               /\ k <= N /\ N <= k + d
               /\ DeduplicateShas(s) = SubSeq(old, 1, k)
        BY FollowsKept DEF N
      <4>2. Range(s) = {old[i] : i \in 1 .. k}
        <5>1. Range(DeduplicateShas(s)) = Range(s)
          BY KeptLemma
        <5>2. Range(SubSeq(old, 1, k)) = {old[i] : i \in 1 .. k}
          BY PrefixLemma
        <5> QED
          BY <4>1, <5>1, <5>2
      <4>3. n - d - 1 \in 1 .. k
        BY <1>1, <2>1, <3>1, <4>1
      <4>4. old[n - d - 1] \in Range(s)
        BY <4>2, <4>3
      <4>5. Range(s) = {s[i] : i \in 1 .. N}
        BY RangeEquality DEF N
      <4>6. PICK m \in 1 .. N : s[m] = old[n - d - 1]
        BY <4>4, <4>5
      <4>7. m \in 1 .. n - 1 /\ r[m] = s[m]
        BY <1>1, <3>1
      <4> QED
        BY <4>6, <4>7
    <3>2. CASE n # N + 1
      <4>1. /\ n - 1 \in N + 1 .. N + Len(b) /\ n - 1 \in 1 .. n - 1
            /\ n - 1 - d = n - d - 1
        BY <1>1, <3>2
      <4>2. r[n - 1] = old[n - 1 - d]
        BY <1>2, <4>1
      <4> QED
        BY <4>1, <4>2
    <3> QED
      BY <3>1, <3>2
  <2> QED
    BY <2>1, <2>2, <2>3
<1>5. \A n \in 1 .. Len(r) : n \in 1 .. N \/ n \in N + 1 .. N + Len(b)
  BY <1>1
<1>6. \A n \in 1 .. Len(r) : Found(n)
  BY <1>3, <1>4, <1>5
<1> QED
  BY <1>6 DEF Follows, r

-----------------------------------------------------------------------------
(* The budget, a page, and the first entries of a list.                    *)

LEMMA TargetsLemma ==
    /\ Len(Targets) \in Nat /\ Len(Targets) > 0 /\ DOMAIN Targets = 1 .. Len(Targets)
    /\ \A i \in 1 .. Len(Targets) : Targets[i] \in Branches
<1>1. Targets \in Seq(Branches) /\ Targets # <<>>
  BY DiscoveryAssumption DEF Branches
<1>2. Len(Targets) \in Nat /\ DOMAIN Targets = 1 .. Len(Targets)
  BY <1>1, LenProperties
<1>3. \A i \in 1 .. Len(Targets) : Targets[i] \in Branches
  BY <1>1, ElementOfSeq
<1>4. Len(Targets) # 0
  BY <1>1, EmptySeq
<1> QED
  BY <1>2, <1>3, <1>4

LEMMA BudgetLemma ==
    /\ PerBranch \in Nat /\ PerBranch > 0 /\ PerBranch <= MaxCommits
    /\ Len(Targets) <= MaxCommits => PerBranch * Len(Targets) <= MaxCommits
<1> DEFINE N == Len(Targets)
           q == MaxCommits \div N
<1>1. N \in Nat /\ N > 0 /\ MaxCommits \in Nat /\ MaxCommits > 0 /\ PerPage \in Nat
  BY TargetsLemma, DiscoveryAssumption
<1> HIDE DEF N
<1>2. q \in Nat /\ q * N <= MaxCommits /\ MaxCommits < (q + 1) * N
  BY <1>1, Z3
<1>3. PerBranch = IF q = 0 THEN 1 ELSE q
  BY DEF PerBranch, N
<1> HIDE DEF q
<1>4. q <= q * N
  BY <1>1, <1>2
<1>5. CASE q = 0
  <2>1. MaxCommits < N
    BY <1>1, <1>2, <1>5
  <2> QED
    BY <1>1, <1>3, <1>5, <2>1 DEF N
<1>6. CASE q # 0
  BY <1>1, <1>2, <1>3, <1>4, <1>6 DEF N
<1> QED
  BY <1>5, <1>6

LEMMA TruncateLemma ==
    ASSUME NEW T, NEW s \in Seq(T), NEW n \in Nat
    PROVE  /\ Truncate(s, n) \in Seq(T)
           /\ Len(Truncate(s, n)) = IF Len(s) <= n THEN Len(s) ELSE n
           /\ \A i \in 1 .. Len(Truncate(s, n)) : Truncate(s, n)[i] = s[i]
<1>1. Len(s) \in Nat
  BY LenProperties
<1>2. CASE Len(s) <= n
  BY <1>1, <1>2 DEF Truncate
<1>3. CASE ~(Len(s) <= n)
  <2>1. n \in 0 .. Len(s) /\ Truncate(s, n) = SubSeq(s, 1, n)
    BY <1>1, <1>3 DEF Truncate
  <2>2. /\ SubSeq(s, 1, n) \in Seq(T) /\ Len(SubSeq(s, 1, n)) = n
        /\ \A i \in 1 .. n : SubSeq(s, 1, n)[i] = s[i]
    BY <2>1, PrefixLemma
  <2> QED
    BY <1>3, <2>1, <2>2
<1> QED
  BY <1>2, <1>3

LEMMA PageOfLemma ==
    ASSUME NEW T, NEW l \in Seq(T), NEW p \in Nat \ {0}, NEW u \in Nat,
           u = (p - 1) * PerPage, u <= Len(l)
    PROVE  LET b == PageOf(l, p)
           IN  /\ b \in Seq(T) /\ Len(b) \in Nat /\ u + Len(b) <= Len(l)
               /\ \A i \in 1 .. Len(b) : b[i] = l[u + i]
               /\ LastPage(b) => u + Len(b) = Len(l)
               /\ ~LastPage(b) => Len(b) = PerPage
               /\ p * PerPage = u + PerPage
<1> DEFINE top == IF u + PerPage < Len(l) THEN u + PerPage ELSE Len(l)
           b == PageOf(l, p)
<1>1. PerPage \in Nat /\ PerPage > 0 /\ Len(l) \in Nat
  BY DiscoveryAssumption, LenProperties
<1>2. p * PerPage = u + PerPage
  BY <1>1
<1>3. b = SubSeq(l, u + 1, top)
  BY <1>2 DEF PageOf
<1>4. /\ top \in Nat /\ u <= top /\ top <= Len(l) /\ top <= u + PerPage
      /\ top = u + PerPage \/ top = Len(l)
  BY <1>1
<1> HIDE DEF top, b
<1>5. b \in Seq(T) /\ Len(b) = top - u /\ \A i \in 1 .. top - u : b[i] = l[u + i]
  <2>1. \A i \in u + 1 .. top : l[i] \in T
    BY <1>1, <1>4, ElementOfSeq
  <2> QED
    BY <1>1, <1>3, <1>4, <2>1
<1>6. LastPage(b) => top = Len(l)
  BY <1>1, <1>4, <1>5 DEF LastPage
<1>7. ~LastPage(b) => Len(b) = PerPage
  BY <1>1, <1>4, <1>5 DEF LastPage
<1>8. Len(b) \in Nat /\ u + Len(b) = top
  BY <1>4, <1>5
<1> QED
  BY <1>2, <1>4, <1>5, <1>6, <1>7, <1>8 DEF b

-----------------------------------------------------------------------------
(* The branches that have been listed.  sa: what was seen of each, pu: the *)
(* pushes while it was listed, sh: what was collected of the first n.      *)

\* The first k[i] commits of branch i, for the first n branches.
Firsts(sa, n, k) == FlattenSeq([i \in 1 .. n |-> SubSeq(sa[i], 1, k[i])])

\* k commits are enough of a branch of which old was seen.
Enough(old, d, k) ==
    k <= Least(PerBranch, Len(old)) /\ k + d >= Least(PerBranch, Len(old))

GatheredUpTo(sa, pu, n, sh, k) ==
    /\ \A i \in 1 .. n : Enough(sa[i], pu[i], k[i])
    /\ DeduplicateShas(sh) = DeduplicateShas(Firsts(sa, n, k))

Gathered(sa, pu, n, sh) ==
    /\ \A i \in 1 .. n : sa[i] # <<>> => sa[i][1] \in Range(sh)
    /\ (\A i \in 1 .. n : pu[i] <= PerPage) =>
           \E k \in [1 .. n -> 0 .. PerBranch] : GatheredUpTo(sa, pu, n, sh, k)

LEMMA FirstsSame ==
    ASSUME NEW n \in Nat, NEW sa, NEW sb, NEW k, NEW m,
           \A i \in 1 .. n : sa[i] = sb[i] /\ k[i] = m[i]
    PROVE  Firsts(sa, n, k) = Firsts(sb, n, m)
<1>1. [i \in 1 .. n |-> SubSeq(sa[i], 1, k[i])] = [i \in 1 .. n |-> SubSeq(sb[i], 1, m[i])]
  OBVIOUS
<1> QED
  BY <1>1 DEF Firsts

LEMMA FirstsStep ==
    ASSUME NEW n \in Nat, NEW sa, NEW k,
           \A i \in 1 .. n + 1 : sa[i] \in Seq(Commits) /\ k[i] \in 0 .. Len(sa[i])
    PROVE  /\ Firsts(sa, n, k) \in Seq(Commits)
           /\ Firsts(sa, n + 1, k) = Firsts(sa, n, k) \o SubSeq(sa[n + 1], 1, k[n + 1])
<1> DEFINE e(i) == SubSeq(sa[i], 1, k[i])
           f == [i \in 1 .. n |-> e(i)]
           g == [i \in 1 .. n + 1 |-> e(i)]
<1>1. \A i \in 1 .. n + 1 : e(i) \in Seq(Commits)
  BY PrefixLemma
<1> HIDE DEF e
<1>2. f \in Seq(Seq(Commits)) /\ g \in Seq(Seq(Commits)) /\ n + 1 \in 1 .. n + 1
  BY <1>1
<1>3. g = Append(f, e(n + 1))
  <2>1. /\ Append(f, e(n + 1)) \in Seq(Seq(Commits)) /\ Len(f) = n /\ Len(g) = n + 1
        /\ Len(Append(f, e(n + 1))) = n + 1
    BY <1>1, <1>2
  <2>2. ASSUME NEW i \in 1 .. n + 1 PROVE g[i] = Append(f, e(n + 1))[i]
    BY <1>1, <1>2, <2>1
  <2> HIDE DEF f, g
  <2> QED
    BY <1>2, <2>1, <2>2, SeqEqual
<1> HIDE DEF f, g
<1>4. e(n + 1) \in Seq(Commits)
  BY <1>1, <1>2
<1>5. FlattenSeq(f) \in Seq(Commits) /\ FlattenSeq(Append(f, e(n + 1))) = FlattenSeq(f) \o e(n + 1)
  BY <1>2, <1>4, FlatAppend
<1> QED
  BY <1>3, <1>5 DEF f, g, e, Firsts

\* One branch more: t is what it contributes, d the pushes while it was listed.
LEMMA GatheredStep ==
    ASSUME NEW n \in Nat, NEW sa, NEW sb, NEW pu, NEW sh \in Seq(Commits),
           Gathered(sa, pu, n, sh),
           \A i \in 1 .. n : sb[i] = sa[i],
           \A i \in 1 .. n + 1 : sb[i] \in Seq(Commits),
           NEW t \in Seq(Commits),
           sb[n + 1] # <<>> => sb[n + 1][1] \in Range(t),
           pu[n + 1] <= PerPage =>
              \E k \in 0 .. PerBranch :
                 /\ Enough(sb[n + 1], pu[n + 1], k)
                 /\ DeduplicateShas(t) = SubSeq(sb[n + 1], 1, k)
    PROVE  Gathered(sb, pu, n + 1, sh \o t)
<1>1. Range(sh \o t) = Range(sh) \cup Range(t)
  BY RangeConcatenation
<1>2. \A i \in 1 .. n + 1 : i = n + 1 \/ i \in 1 .. n
  OBVIOUS
<1>3. ASSUME NEW i \in 1 .. n + 1, sb[i] # <<>> PROVE sb[i][1] \in Range(sh \o t)
  BY <1>1, <1>2, <1>3 DEF Gathered
<1>4. ASSUME \A i \in 1 .. n + 1 : pu[i] <= PerPage
      PROVE  \E k \in [1 .. n + 1 -> 0 .. PerBranch] : GatheredUpTo(sb, pu, n + 1, sh \o t, k)
  <2>1. PICK m \in [1 .. n -> 0 .. PerBranch] : GatheredUpTo(sa, pu, n, sh, m)
    <3>1. \A i \in 1 .. n : pu[i] <= PerPage
      BY <1>4
    <3> QED
      BY <3>1 DEF Gathered
  <2>2. PICK j \in 0 .. PerBranch :
           /\ Enough(sb[n + 1], pu[n + 1], j)
           /\ DeduplicateShas(t) = SubSeq(sb[n + 1], 1, j)
    <3>1. n + 1 \in 1 .. n + 1
      OBVIOUS
    <3> QED
      BY <1>4, <3>1
  <2> DEFINE k == [i \in 1 .. n + 1 |-> IF i = n + 1 THEN j ELSE m[i]]
  <2>3. /\ k \in [1 .. n + 1 -> 0 .. PerBranch] /\ k[n + 1] = j
        /\ \A i \in 1 .. n : k[i] = m[i]
    BY <1>2
  <2> HIDE DEF k
  <2>4. \A i \in 1 .. n + 1 : Enough(sb[i], pu[i], k[i])
    BY <1>2, <2>1, <2>2, <2>3 DEF GatheredUpTo
  <2>5. \A i \in 1 .. n + 1 : sb[i] \in Seq(Commits) /\ k[i] \in 0 .. Len(sb[i])
    <3> SUFFICES ASSUME NEW i \in 1 .. n + 1 PROVE k[i] \in 0 .. Len(sb[i])
      OBVIOUS
    <3>1. Len(sb[i]) \in Nat /\ k[i] \in 0 .. PerBranch /\ PerBranch \in Nat
      BY <2>3, LenProperties, BudgetLemma
    <3>2. k[i] <= Least(PerBranch, Len(sb[i]))
      BY <2>4 DEF Enough
    <3> QED
      BY <3>1, <3>2 DEF Least
  <2>6. /\ Firsts(sb, n, k) \in Seq(Commits)
        /\ Firsts(sb, n + 1, k) = Firsts(sb, n, k) \o SubSeq(sb[n + 1], 1, k[n + 1])
    BY <2>5, FirstsStep
  <2>7. Firsts(sb, n, k) = Firsts(sa, n, m)
    <3>1. \A i \in 1 .. n : sb[i] = sa[i] /\ k[i] = m[i]
      BY <2>3
    <3> QED
      BY ONLY n \in Nat, <3>1, FirstsSame
  <2>8. DeduplicateShas(sh) = DeduplicateShas(Firsts(sb, n, k))
    BY <2>1, <2>7 DEF GatheredUpTo
  <2>9. DeduplicateShas(sh \o t) = DeduplicateShas(Firsts(sb, n, k) \o DeduplicateShas(t))
    BY <2>6, <2>8, KeptConcat
  <2>10. DeduplicateShas(sh \o t) = DeduplicateShas(Firsts(sb, n + 1, k))
    BY <2>2, <2>3, <2>6, <2>9
  <2>11. GatheredUpTo(sb, pu, n + 1, sh \o t, k)
    BY <2>4, <2>10 DEF GatheredUpTo
  <2> QED
    BY <2>3, <2>11
<1> QED
  BY <1>3, <1>4 DEF Gathered

\* What is unchanged of the branches listed keeps what is known of them.
LEMMA GatheredSame ==
    ASSUME NEW n \in Nat, NEW sa, NEW sb, NEW pu, NEW pv, NEW sh,
           Gathered(sa, pu, n, sh),
           \A i \in 1 .. n : sb[i] = sa[i] /\ pv[i] = pu[i]
    PROVE  Gathered(sb, pv, n, sh)
<1>1. ASSUME NEW k, GatheredUpTo(sa, pu, n, sh, k) PROVE GatheredUpTo(sb, pv, n, sh, k)
  <2>1. Firsts(sa, n, k) = Firsts(sb, n, k)
    BY FirstsSame
  <2> QED
    BY <1>1, <2>1 DEF GatheredUpTo
<1> QED
  BY <1>1 DEF Gathered

-----------------------------------------------------------------------------
(* The invariant.                                                          *)

\* A branch has no commit twice, and only commits that were made.
LogsSound ==
    /\ made \in 0 .. MaxMade
    /\ log \in [Branches -> Seq(Commits)]
    /\ \A br \in Branches : IsInjective(log[br]) /\ Range(log[br]) \subseteq 1 .. made

\* Where the walk is: all pages before this one were full, the branch has not
\* had its share, and each branch before has had no more than its share.
PlaceSound ==
    /\ dedupe \in BOOLEAN /\ pc \in {"list", "done", "failed"}
    /\ at \in 1 .. Len(Targets) + 1 /\ page \in Nat \ {0}
    /\ pc = "list" => at <= Len(Targets)
    /\ out \in Seq(Commits) /\ Len(out) = (page - 1) * PerPage /\ Len(out) < PerBranch
    /\ shas \in Seq(Commits) /\ Len(shas) <= PerBranch * (at - 1)
    /\ result \in Seq(Commits)

\* What was seen of each branch, and the pushes since.
SeenSound ==
    /\ seenAt \in [DOMAIN Targets -> Seq(Commits)]
    /\ \A i \in DOMAIN Targets : IsInjective(seenAt[i])
    /\ pushes \in [DOMAIN Targets -> Nat]
    /\ \A i \in DOMAIN Targets : pushes[i] <= made
    /\ \A i \in DOMAIN Targets : i > at \/ (i = at /\ page = 1) => pushes[i] = 0

\* The branch that is being listed: l is the branch, old what was seen of it,
\* d the pushes since, s what was listed.
ListingSound(l, old, d, s) ==
    /\ Shifted(l, old, d) /\ Len(s) <= Len(l)
    /\ old # <<>> /\ s[1] = old[1]
    /\ d <= PerPage => Follows(s, old, d)

Listing ==
    pc = "list" /\ page > 1 =>
        ListingSound(log[Targets[at]], seenAt[at], pushes[at], out)

Finished ==
    /\ pc # "done" => result = <<>>
    /\ pc = "done" =>
         /\ at = Len(Targets) + 1
         /\ result = Truncate(IF dedupe THEN DeduplicateShas(shas) ELSE shas, MaxCommits)

WalkInv ==
    /\ LogsSound /\ PlaceSound /\ SeenSound /\ Listing
    /\ Gathered(seenAt, pushes, at - 1, shas) /\ Finished

LEMMA WalkInit == Init => WalkInv
<1> SUFFICES ASSUME Init PROVE WalkInv
  OBVIOUS
<1>1. /\ <<>> \in Seq(Commits) /\ Len(<<>>) = 0 /\ IsInjective(<<>>) /\ Range(<<>>) = {}
      /\ MaxBase \in Nat /\ MaxMade \in Nat /\ MaxBase <= MaxMade /\ PerPage \in Nat
      /\ DOMAIN Targets = 1 .. Len(Targets) /\ Len(Targets) \in Nat /\ Len(Targets) > 0
      /\ PerBranch \in Nat /\ PerBranch > 0
  BY EmptyLemma, EmptySeq, DiscoveryAssumption, TargetsLemma, BudgetLemma
<1>2. LogsSound
  <2> DEFINE l == [i \in 1 .. made |-> made + 1 - i]
  <2>1. made \in 0 .. MaxMade /\ log = [br \in Branches |-> l]
    BY <1>1 DEF Init
  <2>2. l \in Seq(Commits) /\ IsInjective(l) /\ Range(l) \subseteq 1 .. made
    BY <1>1, <2>1 DEF Commits, IsInjective, Range
  <2> HIDE DEF l
  <2> QED
    BY <2>1, <2>2 DEF LogsSound
<1>3. PlaceSound
  <2>1. /\ Len(out) = (page - 1) * PerPage /\ Len(shas) <= PerBranch * (at - 1)
    BY <1>1 DEF Init
  <2> QED
    BY <1>1, <2>1 DEF Init, PlaceSound
<1>4. SeenSound
  BY <1>1, <1>2 DEF Init, SeenSound, LogsSound
<1>5. Listing
  BY DEF Init, Listing
<1>6. Gathered(seenAt, pushes, at - 1, shas)
  <2>1. at - 1 = 0 /\ shas = <<>>
    BY DEF Init
  <2>2. Gathered(seenAt, pushes, 0, <<>>)
    <3> DEFINE k == [i \in 1 .. 0 |-> 0]
               e(i) == SubSeq(seenAt[i], 1, k[i])
               f == [i \in 1 .. 0 |-> e(i)]
    <3>1. k \in [1 .. 0 -> 0 .. PerBranch]
      OBVIOUS
    <3>2. f = <<>>
      <4> HIDE DEF e
      <4>1. PICK n \in Nat : n = 0
        OBVIOUS
      <4>2. \A i \in 1 .. n : e(i) \in Commits
        BY <4>1
      <4>3. [i \in 1 .. n |-> e(i)] \in Seq(Commits) /\ Len([i \in 1 .. n |-> e(i)]) = n
        BY ONLY n \in Nat, <4>2
      <4>4. [i \in 1 .. n |-> e(i)] = <<>>
        BY <4>1, <4>3, EmptySeq
      <4> QED
        BY <4>1, <4>4
    <3>3. Firsts(seenAt, 0, k) = <<>>
      BY <3>2, FlatEmpty DEF Firsts
    <3> HIDE DEF k, f, e
    <3>4. GatheredUpTo(seenAt, pushes, 0, <<>>, k)
      BY <3>3 DEF GatheredUpTo
    <3>5. \E m \in [1 .. 0 -> 0 .. PerBranch] : GatheredUpTo(seenAt, pushes, 0, <<>>, m)
      BY <3>1, <3>4
    <3>6. \A i \in 1 .. 0 : seenAt[i] # <<>> => seenAt[i][1] \in Range(<<>>)
      OBVIOUS
    <3> QED
      BY <3>5, <3>6 DEF Gathered
  <2> QED
    BY <2>1, <2>2
<1>7. Finished
  BY DEF Init, Finished
<1> QED
  BY <1>2, <1>3, <1>4, <1>5, <1>6, <1>7 DEF WalkInv

LEMMA PushWalk ==
    ASSUME WalkInv, NEW br \in Branches, Push(br)
    PROVE  WalkInv'
<1> DEFINE l == log[br]
           r == <<made + 1>> \o l
<1>1. /\ made < MaxMade /\ pc = "list" /\ made' = made + 1
      /\ log' = [log EXCEPT ![br] = r]
      /\ pushes' = [i \in DOMAIN Targets |->
                       IF i = at /\ page > 1 /\ Targets[i] = br
                       THEN pushes[i] + 1 ELSE pushes[i]]
      /\ UNCHANGED <<dedupe, pc, at, page, out, shas, result, seenAt>>
  BY DEF Push, walk
<1>2. /\ made \in 0 .. MaxMade /\ MaxMade \in Nat /\ log \in [Branches -> Seq(Commits)]
      /\ l \in Seq(Commits) /\ IsInjective(l) /\ Range(l) \subseteq 1 .. made
      /\ Len(l) \in Nat
  BY DiscoveryAssumption, LenProperties DEF WalkInv, LogsSound
<1>3. /\ at \in 1 .. Len(Targets) /\ page \in Nat \ {0} /\ at \in DOMAIN Targets
      /\ DOMAIN Targets = 1 .. Len(Targets) /\ Len(Targets) \in Nat
      /\ Targets[at] \in Branches /\ seenAt[at] \in Seq(Commits) /\ out \in Seq(Commits)
      /\ pushes \in [DOMAIN Targets -> Nat]
  BY <1>1, TargetsLemma DEF WalkInv, PlaceSound, SeenSound
<1> HIDE DEF l
<1>4. /\ r \in Seq(Commits) /\ Len(r) = Len(l) + 1 /\ r[1] = made + 1
      /\ \A i \in 1 .. Len(l) : r[i + 1] = l[i]
  <2>1. <<made + 1>> \in Seq(Commits)
    BY <1>1, <1>2 DEF Commits
  <2> QED
    BY <1>2, <2>1
<1>5. IsInjective(r) /\ Range(r) \subseteq 1 .. made + 1
  <2>1. DOMAIN r = 1 .. Len(l) + 1 /\ DOMAIN l = 1 .. Len(l)
    BY <1>2, <1>4, LenProperties
  <2>2. \A i \in 2 .. Len(l) + 1 : i - 1 \in 1 .. Len(l) /\ r[i] = l[i - 1]
    <3> SUFFICES ASSUME NEW i \in 2 .. Len(l) + 1
                 PROVE  i - 1 \in 1 .. Len(l) /\ r[i] = l[i - 1]
      OBVIOUS
    <3>1. i - 1 \in 1 .. Len(l) /\ i - 1 + 1 = i
      BY <1>2
    <3> HIDE DEF r
    <3>2. r[i - 1 + 1] = l[i - 1]
      BY <1>4, <3>1
    <3> QED
      BY <3>1, <3>2
  <2>3. \A i \in 1 .. Len(l) : l[i] \in 1 .. made
    BY <1>2, <2>1 DEF Range
  <2> HIDE DEF r
  <2>4. \A i \in 1 .. Len(l) + 1 : i = 1 \/ i \in 2 .. Len(l) + 1
    BY <1>2
  <2>5. \A i \in 2 .. Len(l) + 1 : r[i] \in 1 .. made
    BY <2>2, <2>3
  <2>6. Range(r) \subseteq 1 .. made + 1
    BY <1>2, <1>4, <2>1, <2>4, <2>5 DEF Range
  <2>7. ASSUME NEW i \in 1 .. Len(l) + 1, NEW j \in 1 .. Len(l) + 1, r[i] = r[j]
        PROVE  i = j
    <3>1. \A n \in 2 .. Len(l) + 1 : r[n] # r[1]
      BY <1>2, <1>4, <2>5
    <3>2. CASE i = 1 \/ j = 1
      BY <2>4, <2>7, <3>1, <3>2
    <3>3. CASE i # 1 /\ j # 1
      <4>1. i \in 2 .. Len(l) + 1 /\ j \in 2 .. Len(l) + 1
        BY <2>4, <3>3
      <4>2. i - 1 = j - 1
        BY <1>2, <2>1, <2>2, <2>7, <4>1 DEF IsInjective
      <4> QED
        BY <4>2
    <3> QED
      BY <3>2, <3>3
  <2> QED
    BY <2>1, <2>6, <2>7 DEF IsInjective
<1>6. /\ log' \in [Branches -> Seq(Commits)] /\ log'[br] = r
      /\ \A x \in Branches : x # br => log'[x] = log[x]
  BY <1>1, <1>2, <1>4
<1> HIDE DEF r
<1>7. LogsSound'
  <2>1. made' \in 0 .. MaxMade
    BY <1>1, <1>2
  <2>2. ASSUME NEW x \in Branches
        PROVE  IsInjective(log'[x]) /\ Range(log'[x]) \subseteq 1 .. made'
    <3>1. CASE x = br
      BY <1>1, <1>5, <1>6, <3>1
    <3>2. CASE x # br
      <4>1. IsInjective(log[x]) /\ Range(log[x]) \subseteq 1 .. made /\ log'[x] = log[x]
        BY <1>6, <3>2 DEF WalkInv, LogsSound
      <4>2. 1 .. made \subseteq 1 .. made'
        BY <1>1, <1>2
      <4> QED
        BY <4>1, <4>2
    <3> QED
      BY <3>1, <3>2
  <2> QED
    BY <1>6, <2>1, <2>2 DEF LogsSound
<1>8. PlaceSound'
  BY <1>1 DEF WalkInv, PlaceSound
<1>9. \A i \in DOMAIN Targets :
         /\ pushes'[i] \in Nat /\ pushes[i] <= pushes'[i] /\ pushes'[i] <= pushes[i] + 1
         /\ i # at \/ page = 1 => pushes'[i] = pushes[i]
  BY <1>1, <1>3
<1>10. SeenSound'
  <2>1. pushes' \in [DOMAIN Targets -> Nat]
    BY <1>1, <1>3
  <2>2. \A i \in DOMAIN Targets : pushes'[i] <= made'
    <3> SUFFICES ASSUME NEW i \in DOMAIN Targets PROVE pushes'[i] <= made'
      OBVIOUS
    <3>1. pushes[i] <= made /\ pushes[i] \in Nat
      BY <1>3 DEF WalkInv, SeenSound
    <3> QED
      BY <1>1, <1>2, <1>9, <3>1
  <2>3. \A i \in DOMAIN Targets : i > at \/ (i = at /\ page = 1) => pushes'[i] = 0
    <3> SUFFICES ASSUME NEW i \in DOMAIN Targets, i > at \/ (i = at /\ page = 1)
                 PROVE  pushes'[i] = 0
      OBVIOUS
    <3>1. pushes[i] = 0 /\ (i # at \/ page = 1)
      BY <1>3 DEF WalkInv, SeenSound
    <3> QED
      BY <1>9, <3>1
  <2> QED
    BY <1>1, <2>1, <2>2, <2>3 DEF WalkInv, SeenSound
<1>11. Listing'
  <2> DEFINE t == Targets[at]
             d == pushes[at]
             old == seenAt[at]
  <2> SUFFICES ASSUME page > 1
               PROVE  ListingSound(log'[t], old, pushes'[at], out)
    BY <1>1 DEF Listing
  <2>1. ListingSound(log[t], old, d, out)
    BY <1>1 DEF WalkInv, Listing
  <2>2. d \in Nat /\ t \in Branches /\ old \in Seq(Commits) /\ Len(old) \in Nat
    BY <1>3, LenProperties
  <2>3. CASE t = br
    <3>1. pushes'[at] = d + 1 /\ log'[t] = r /\ log[t] = l
      BY <1>1, <1>3, <1>6, <2>3 DEF l
    <3> HIDE DEF t, d, old
    <3>2. Shifted(r, old, d + 1)
      <4>1. Len(r) = Len(old) + (d + 1)
        <5>1. Len(l) = Len(old) + d
          BY <2>1, <3>1 DEF ListingSound, Shifted
        <5> QED
          BY <1>4, <2>2, <5>1
      <4>2. ASSUME NEW j \in 1 .. Len(old) PROVE r[d + 1 + j] = old[j]
        <5>1. d + j \in 1 .. Len(l) /\ d + j + 1 = d + 1 + j
          BY <1>4, <2>1, <2>2, <3>1 DEF ListingSound, Shifted
        <5>2. r[d + j + 1] = l[d + j]
          BY <1>4, <5>1
        <5>3. l[d + j] = old[j]
          BY <2>1, <3>1 DEF ListingSound, Shifted
        <5> QED
          BY <5>1, <5>2, <5>3
      <4> QED
        BY <4>1, <4>2 DEF Shifted
    <3>3. Len(out) <= Len(r)
      <4>1. Len(out) <= Len(l) /\ Len(out) \in Nat
        BY <1>3, <2>1, <3>1, LenProperties DEF ListingSound
      <4> QED
        BY <1>2, <1>4, <4>1
    <3>4. d + 1 <= PerPage => Follows(out, old, d + 1)
      <4> SUFFICES ASSUME d + 1 <= PerPage PROVE Follows(out, old, d + 1)
        OBVIOUS
      <4>1. d <= PerPage /\ d <= d + 1 /\ d + 1 \in Nat
        BY <2>2, DiscoveryAssumption
      <4>2. Follows(out, old, d) /\ Len(out) <= Len(out)
        BY <1>3, <2>1, <4>1, LenProperties DEF ListingSound
      <4> QED
        BY <1>3, <2>2, <4>1, <4>2, FollowsWeaker
    <3> QED
      BY <2>1, <3>1, <3>2, <3>3, <3>4 DEF ListingSound
  <2>4. CASE t # br
    <3>1. pushes'[at] = d /\ log'[t] = log[t]
      BY <1>1, <1>3, <1>6, <2>4
    <3> QED
      BY <2>1, <3>1
  <2> QED
    BY <2>3, <2>4
<1>12. Gathered(seenAt', pushes', at' - 1, shas')
  <2>1. at - 1 \in Nat /\ at' - 1 = at - 1 /\ shas' = shas
    BY <1>1, <1>3
  <2>2. ASSUME NEW i \in 1 .. at - 1 PROVE seenAt'[i] = seenAt[i] /\ pushes'[i] = pushes[i]
    <3>1. i \in DOMAIN Targets /\ i # at
      BY <1>3
    <3> QED
      BY <1>1, <1>9, <3>1
  <2>3. Gathered(seenAt, pushes, at - 1, shas)
    BY DEF WalkInv
  <2> QED
    BY <2>1, <2>2, <2>3, GatheredSame
<1>13. Finished'
  BY <1>1 DEF WalkInv, Finished
<1> QED
  BY <1>7, <1>8, <1>10, <1>11, <1>12, <1>13 DEF WalkInv

LEMMA PageFailsWalk == WalkInv /\ PageFails => WalkInv'
<1> SUFFICES ASSUME WalkInv, PageFails PROVE WalkInv'
  OBVIOUS
<1>1. /\ pc = "list" /\ pc' = "failed"
      /\ UNCHANGED <<log, made, dedupe, at, page, out, shas, result, seenAt, pushes>>
  BY DEF PageFails
<1>2. Gathered(seenAt, pushes, at - 1, shas)'
  BY <1>1 DEF WalkInv, Gathered, GatheredUpTo
<1>3. LogsSound' /\ SeenSound'
  BY <1>1 DEF WalkInv, LogsSound, SeenSound
<1>4. PlaceSound'
  BY <1>1 DEF WalkInv, PlaceSound
<1>5. Listing' /\ Finished'
  BY <1>1 DEF WalkInv, Listing, Finished
<1> QED
  BY <1>2, <1>3, <1>4, <1>5 DEF WalkInv

\* What the answer to one page adds.  old is what the branch was at its first
\* page, b the page, s everything listed.
LEMMA ReadFacts ==
    ASSUME WalkInv, ReadPage
    PROVE  LET l == log[Targets[at]]
               b == PageOf(l, page)
               s == out \o b
               d == pushes[at]
               old == seenAt'[at]
           IN  /\ at \in DOMAIN Targets /\ l \in Seq(Commits) /\ s \in Seq(Commits)
               /\ old \in Seq(Commits) /\ IsInjective(old) /\ d \in Nat
               /\ seenAt' = [seenAt EXCEPT ![at] = old]
               /\ Shifted(l, old, d) /\ Len(s) <= Len(l)
               /\ LastPage(b) => Len(s) = Len(l)
               /\ ~LastPage(b) => Len(s) = page * PerPage /\ old # <<>>
               /\ old # <<>> => Len(s) > 0 /\ s[1] = old[1]
               /\ d <= PerPage => Follows(s, old, d)
<1> DEFINE l == log[Targets[at]]
           b == PageOf(l, page)
           s == out \o b
           d == pushes[at]
           old == seenAt'[at]
           u == Len(out)
<1>1. /\ pc = "list" /\ at \in DOMAIN Targets /\ Targets[at] \in Branches
      /\ page \in Nat \ {0} /\ PerPage \in Nat /\ PerPage > 0
      /\ out \in Seq(Commits) /\ u \in Nat /\ u = (page - 1) * PerPage
      /\ d \in Nat
  <2>1. /\ pc = "list" /\ at \in 1 .. Len(Targets) + 1 /\ at <= Len(Targets)
        /\ page \in Nat \ {0} /\ out \in Seq(Commits) /\ u = (page - 1) * PerPage
        /\ pushes \in [DOMAIN Targets -> Nat]
    BY DEF ReadPage, WalkInv, PlaceSound, SeenSound
  <2>2. at \in DOMAIN Targets /\ Targets[at] \in Branches
    BY <2>1, TargetsLemma
  <2>3. PerPage \in Nat /\ PerPage > 0
    BY DiscoveryAssumption
  <2>4. u \in Nat
    BY <2>1, LenProperties
  <2> QED
    BY <2>1, <2>2, <2>3, <2>4
<1>2. l \in Seq(Commits) /\ IsInjective(l) /\ Len(l) \in Nat
  BY <1>1, LenProperties DEF WalkInv, LogsSound
<1>3. seenAt' = IF page = 1 THEN [seenAt EXCEPT ![at] = l] ELSE seenAt
  BY DEF ReadPage
<1>4. seenAt \in [DOMAIN Targets -> Seq(Commits)] /\ IsInjective(seenAt[at])
  BY <1>1 DEF WalkInv, SeenSound
<1> HIDE DEF l
<1>5. /\ old \in Seq(Commits) /\ IsInjective(old) /\ seenAt' = [seenAt EXCEPT ![at] = old]
      /\ page = 1 => old = l
      /\ page # 1 => old = seenAt[at]
  <2>1. CASE page = 1
    BY <1>1, <1>2, <1>3, <1>4, <2>1
  <2>2. CASE page # 1
    <3>1. seenAt[at] \in Seq(Commits) /\ seenAt = [seenAt EXCEPT ![at] = seenAt[at]]
      BY <1>1, <1>4
    <3> QED
      BY <1>3, <1>4, <2>2, <3>1
  <2> QED
    BY <2>1, <2>2
<1> HIDE DEF d, old, u
<1>6. page # 1 => ListingSound(l, old, d, out) /\ PerPage <= u
  <2> SUFFICES ASSUME page # 1 PROVE ListingSound(l, old, d, out) /\ PerPage <= u
    OBVIOUS
  <2>1. page > 1
    BY <1>1
  <2>2. ListingSound(l, old, d, out)
    BY <1>1, <1>5, <2>1 DEF WalkInv, Listing, l, d
  <2>3. page - 1 \in Nat /\ page - 1 >= 1
    BY <1>1, <2>1
  <2>4. PerPage <= (page - 1) * PerPage
    BY <1>1, <2>3
  <2> QED
    BY <1>1, <2>2, <2>4
<1>7. page = 1 => d = 0 /\ u = 0 /\ Shifted(l, old, d) /\ Follows(out, old, d)
  <2> SUFFICES ASSUME page = 1
               PROVE  d = 0 /\ u = 0 /\ Shifted(l, old, d) /\ Follows(out, old, d)
    OBVIOUS
  <2>1. d = 0
    BY <1>1 DEF WalkInv, SeenSound, d
  <2>2. u = 0
    BY <1>1
  <2>3. Shifted(l, old, d)
    <3>1. \A j \in 1 .. Len(l) : l[0 + j] = l[j]
      OBVIOUS
    <3> QED
      BY <1>2, <1>5, <2>1, <3>1 DEF Shifted
  <2>4. Follows(out, old, d)
    BY <2>2 DEF Follows, u
  <2> QED
    BY <2>1, <2>2, <2>3, <2>4
<1>8. /\ Shifted(l, old, d) /\ u <= Len(l)
      /\ d <= PerPage => Follows(out, old, d) /\ d <= u
  <2>1. CASE page = 1
    BY <1>1, <1>2, <1>7, <2>1
  <2>2. CASE page # 1
    BY <1>1, <1>6, <2>2 DEF ListingSound, u
  <2> QED
    BY <2>1, <2>2
<1>9. /\ b \in Seq(Commits) /\ Len(b) \in Nat /\ u + Len(b) <= Len(l)
      /\ \A i \in 1 .. Len(b) : b[i] = l[u + i]
      /\ LastPage(b) => u + Len(b) = Len(l)
      /\ ~LastPage(b) => Len(b) = PerPage
      /\ page * PerPage = u + PerPage
  <2>1. /\ l \in Seq(Commits) /\ page \in Nat \ {0} /\ u \in Nat
        /\ u = (page - 1) * PerPage /\ u <= Len(l)
    BY <1>1, <1>2, <1>8
  <2> QED
    BY ONLY <2>1, PageOfLemma
<1> HIDE DEF b
<1>10. /\ s \in Seq(Commits) /\ Len(s) = u + Len(b)
       /\ \A i \in 1 .. u : s[i] = out[i]
       /\ \A i \in u + 1 .. u + Len(b) : s[i] = b[i - u]
  <2>1. out \in Seq(Commits) /\ b \in Seq(Commits) /\ u = Len(out)
    BY <1>1, <1>9 DEF u
  <2> QED
    BY ONLY <2>1, ConcatProperties DEF s
<1> HIDE DEF s
<1>11. d <= PerPage => Follows(s, old, d)
  <2> SUFFICES ASSUME d <= PerPage PROVE Follows(s, old, d)
    OBVIOUS
  <2>1. Follows(out, old, d) /\ d <= Len(out) /\ Len(out) + Len(b) <= Len(l)
    BY <1>8, <1>9 DEF u
  <2>2. \A i \in 1 .. Len(b) : b[i] = l[Len(out) + i]
    BY <1>9 DEF u
  <2>3. Shifted(l, old, d) /\ d \in Nat
    BY <1>1, <1>8
  <2>4. Follows(out \o b, old, d)
    BY <1>1, <1>2, <1>5, <1>9, <2>1, <2>2, <2>3, PageFollows
  <2> QED
    BY <2>4 DEF s
<1>12. ASSUME old # <<>> PROVE Len(s) > 0 /\ s[1] = old[1]
  <2>1. CASE page = 1
    <3>1. l = old /\ u = 0 /\ Len(l) # 0 /\ Len(b) > 0
      <4>1. l = old /\ u = 0 /\ Len(l) # 0
        BY <1>2, <1>5, <1>7, <1>12, <2>1, EmptySeq
      <4> QED
        BY <1>1, <1>2, <1>9, <4>1
    <3>2. s[1] = b[1] /\ b[1] = l[1]
      <4>1. 1 \in u + 1 .. u + Len(b) /\ 1 - u = 1 /\ 1 \in 1 .. Len(b) /\ u + 1 = 1
        BY <1>9, <3>1
      <4> QED
        BY <1>9, <1>10, <4>1
    <3> QED
      BY <1>9, <1>10, <3>1, <3>2
  <2>2. CASE page # 1
    <3>1. out[1] = old[1] /\ u > 0
      BY <1>1, <1>6, <2>2 DEF ListingSound
    <3>2. 1 \in 1 .. u
      BY <1>1, <3>1
    <3> QED
      BY <1>1, <1>9, <1>10, <3>1, <3>2
  <2> QED
    BY <2>1, <2>2
<1>13. ASSUME ~LastPage(b) PROVE Len(s) = page * PerPage /\ old # <<>>
  <2>1. Len(s) = page * PerPage
    BY <1>9, <1>10, <1>13
  <2>2. CASE page = 1
    <3>1. l = old /\ Len(l) # 0
      BY <1>1, <1>2, <1>5, <1>7, <1>9, <1>13, <2>2
    <3>2. old # <<>>
      BY <3>1, EmptySeq
    <3> QED
      BY <2>1, <3>2
  <2>3. CASE page # 1
    BY <1>6, <2>1, <2>3 DEF ListingSound
  <2> QED
    BY <2>2, <2>3
<1>14. Len(s) <= Len(l) /\ (LastPage(b) => Len(s) = Len(l))
  BY <1>9, <1>10
<1> QED
  BY <1>1, <1>2, <1>5, <1>8, <1>10, <1>11, <1>12, <1>13, <1>14 DEF l, b, s, d, old

\* The answer does not complete the branch: the listing goes on.
LEMMA ListsOn ==
    ASSUME WalkInv, ReadPage,
           ~(LastPage(PageOf(log[Targets[at]], page))
             \/ Len(out \o PageOf(log[Targets[at]], page)) >= PerBranch)
    PROVE  WalkInv'
<1> DEFINE l == log[Targets[at]]
           b == PageOf(l, page)
           s == out \o b
           d == pushes[at]
           old == seenAt'[at]
<1>1. /\ at \in DOMAIN Targets /\ l \in Seq(Commits) /\ s \in Seq(Commits)
      /\ old \in Seq(Commits) /\ IsInjective(old) /\ d \in Nat
      /\ seenAt' = [seenAt EXCEPT ![at] = old]
      /\ Shifted(l, old, d) /\ Len(s) <= Len(l)
      /\ ~LastPage(b) => Len(s) = page * PerPage /\ old # <<>>
      /\ old # <<>> => Len(s) > 0 /\ s[1] = old[1]
      /\ d <= PerPage => Follows(s, old, d)
  BY ReadFacts
<1>2. /\ out' = s /\ page' = page + 1
      /\ UNCHANGED <<log, made, dedupe, pushes, pc, at, shas, result>>
      /\ pc = "list" /\ ~LastPage(b) /\ ~(Len(s) >= PerBranch)
  BY DEF ReadPage, NextPage
<1>3. /\ page \in Nat \ {0} /\ at \in 1 .. Len(Targets) + 1
      /\ seenAt \in [DOMAIN Targets -> Seq(Commits)]
      /\ pushes \in [DOMAIN Targets -> Nat]
  BY DEF WalkInv, PlaceSound, SeenSound
<1>4. DOMAIN Targets = 1 .. Len(Targets) /\ Len(Targets) \in Nat /\ PerBranch \in Nat
  BY TargetsLemma, BudgetLemma
<1> HIDE DEF l, b, s, old
<1>5. LogsSound'
  BY <1>2 DEF WalkInv, LogsSound
<1>6. PlaceSound'
  <2>1. Len(out') = (page' - 1) * PerPage
    <3>1. page' - 1 = page
      BY <1>2, <1>3
    <3> QED
      BY <1>1, <1>2, <3>1
  <2>2. Len(out') < PerBranch /\ out' \in Seq(Commits)
    BY <1>1, <1>2, <1>4, LenProperties
  <2>3. page' \in Nat \ {0}
    BY <1>2, <1>3
  <2> QED
    BY <1>2, <2>1, <2>2, <2>3 DEF WalkInv, PlaceSound
<1>7. SeenSound'
  <2>1. seenAt' \in [DOMAIN Targets -> Seq(Commits)]
    BY <1>1, <1>3
  <2>2. \A i \in DOMAIN Targets : IsInjective(seenAt'[i])
    BY <1>1, <1>3 DEF WalkInv, SeenSound
  <2>3. page' # 1
    BY <1>2, <1>3
  <2>4. \A i \in DOMAIN Targets : i > at \/ (i = at /\ page' = 1) => pushes[i] = 0
    BY <2>3 DEF WalkInv, SeenSound
  <2> QED
    BY <1>2, <2>1, <2>2, <2>4 DEF WalkInv, SeenSound
<1>8. Listing'
  <2>1. ListingSound(l, old, d, s)
    BY <1>1, <1>2 DEF ListingSound
  <2> QED
    BY <1>2, <2>1 DEF Listing, l, old
<1>9. Gathered(seenAt', pushes', at' - 1, shas')
  <2>1. at - 1 \in Nat /\ Gathered(seenAt, pushes, at - 1, shas)
    BY <1>3, <1>4 DEF WalkInv
  <2>2. \A i \in 1 .. at - 1 : seenAt'[i] = seenAt[i] /\ pushes'[i] = pushes[i]
    BY <1>1, <1>2, <1>3, <1>4
  <2>3. Gathered(seenAt', pushes', at - 1, shas)
    BY <2>1, <2>2, GatheredSame
  <2> QED
    BY <1>2, <2>3
<1>10. Finished'
  BY <1>2 DEF WalkInv, Finished
<1> QED
  BY <1>5, <1>6, <1>7, <1>8, <1>9, <1>10 DEF WalkInv

\* What a branch that is done with contributes.
LEMMA ShareLemma ==
    ASSUME NEW s \in Seq(Commits), NEW l \in Seq(Commits), NEW old \in Seq(Commits),
           IsInjective(old), NEW d \in Nat, Shifted(l, old, d),
           Len(s) < PerBranch => Len(s) = Len(l),
           old # <<>> => Len(s) > 0 /\ s[1] = old[1],
           d <= PerPage => Follows(s, old, d)
    PROVE  LET t == Truncate(s, PerBranch)
           IN  /\ t \in Seq(Commits) /\ Len(t) <= PerBranch
               /\ old # <<>> => old[1] \in Range(t)
               /\ d <= PerPage =>
                     \E k \in 0 .. PerBranch :
                        /\ Enough(old, d, k)
                        /\ DeduplicateShas(t) = SubSeq(old, 1, k)
<1> DEFINE t == Truncate(s, PerBranch)
<1>1. PerBranch \in Nat /\ PerBranch > 0 /\ Len(s) \in Nat /\ Len(old) \in Nat
  BY BudgetLemma, LenProperties
<1>2. /\ t \in Seq(Commits)
      /\ Len(t) = IF Len(s) <= PerBranch THEN Len(s) ELSE PerBranch
      /\ \A i \in 1 .. Len(t) : t[i] = s[i]
  BY <1>1, TruncateLemma
<1> HIDE DEF t
<1>3. Len(t) \in Nat /\ Len(t) <= PerBranch /\ Len(t) <= Len(s)
  BY <1>1, <1>2
<1>4. ASSUME old # <<>> PROVE old[1] \in Range(t)
  <2>1. 1 \in 1 .. Len(t)
    BY <1>1, <1>2, <1>4
  <2> QED
    BY <1>2, <1>4, <2>1, RangeEquality
<1>5. ASSUME d <= PerPage
      PROVE  \E k \in 0 .. PerBranch :
                /\ Enough(old, d, k)
                /\ DeduplicateShas(t) = SubSeq(old, 1, k)
  <2>1. Follows(t, old, d)
    <3>1. Follows(s, old, d) /\ d <= d
      BY <1>5
    <3> QED
      BY <1>2, <1>3, <3>1, FollowsWeaker
  <2>2. PICK k \in 0 .. Len(old) :
           /\ k <= Len(t) /\ Len(t) <= k + d
           /\ DeduplicateShas(t) = SubSeq(old, 1, k)
    BY <1>2, <2>1, FollowsKept
  <2>3. Len(t) < PerBranch => Len(t) = Len(old) + d
    BY <1>1, <1>2 DEF Shifted
  <2>4. k \in 0 .. PerBranch
    BY <1>1, <1>3, <2>2
  <2>5. Enough(old, d, k)
    BY <1>1, <1>3, <2>2, <2>3 DEF Enough, Least
  <2> QED
    BY <2>2, <2>4, <2>5
<1> QED
  BY <1>2, <1>3, <1>4, <1>5 DEF t

\* The answer completes the branch: its share is collected, and after the last
\* branch the result is built.
LEMMA FinishesBranch ==
    ASSUME WalkInv, ReadPage,
           \/ LastPage(PageOf(log[Targets[at]], page))
           \/ Len(out \o PageOf(log[Targets[at]], page)) >= PerBranch
    PROVE  WalkInv'
<1> DEFINE l == log[Targets[at]]
           b == PageOf(l, page)
           s == out \o b
           d == pushes[at]
           old == seenAt'[at]
           t == Truncate(s, PerBranch)
           all == shas \o t
<1>1. /\ at \in DOMAIN Targets /\ l \in Seq(Commits) /\ s \in Seq(Commits)
      /\ old \in Seq(Commits) /\ IsInjective(old) /\ d \in Nat
      /\ seenAt' = [seenAt EXCEPT ![at] = old]
      /\ Shifted(l, old, d)
      /\ LastPage(b) => Len(s) = Len(l)
      /\ old # <<>> => Len(s) > 0 /\ s[1] = old[1]
      /\ d <= PerPage => Follows(s, old, d)
  BY ReadFacts
<1>2. /\ shas' = all /\ out' = <<>> /\ page' = 1 /\ at' = at + 1
      /\ at < Len(Targets) => UNCHANGED <<pc, result>>
      /\ ~(at < Len(Targets)) =>
            /\ pc' = "done"
            /\ result' = Truncate(IF dedupe THEN DeduplicateShas(all) ELSE all, MaxCommits)
      /\ UNCHANGED <<log, made, dedupe, pushes>>
      /\ pc = "list" /\ (LastPage(b) \/ Len(s) >= PerBranch)
  BY DEF ReadPage, BranchDone
<1>3. /\ page \in Nat \ {0} /\ at \in 1 .. Len(Targets)
      /\ seenAt \in [DOMAIN Targets -> Seq(Commits)]
      /\ pushes \in [DOMAIN Targets -> Nat]
      /\ shas \in Seq(Commits) /\ Len(shas) <= PerBranch * (at - 1) /\ Len(shas) \in Nat
  <2>1. /\ page \in Nat \ {0} /\ at \in 1 .. Len(Targets) + 1 /\ at <= Len(Targets)
        /\ seenAt \in [DOMAIN Targets -> Seq(Commits)]
        /\ pushes \in [DOMAIN Targets -> Nat]
        /\ shas \in Seq(Commits) /\ Len(shas) <= PerBranch * (at - 1)
    BY <1>2 DEF WalkInv, PlaceSound, SeenSound
  <2> QED
    BY <2>1, TargetsLemma, LenProperties
<1>4. /\ DOMAIN Targets = 1 .. Len(Targets) /\ Len(Targets) \in Nat
      /\ PerBranch \in Nat /\ PerBranch > 0 /\ MaxCommits \in Nat
  BY TargetsLemma, BudgetLemma, DiscoveryAssumption
<1> HIDE DEF l, b, s, old, d
<1>5. /\ t \in Seq(Commits) /\ Len(t) <= PerBranch
      /\ old # <<>> => old[1] \in Range(t)
      /\ d <= PerPage =>
            \E k \in 0 .. PerBranch :
               Enough(old, d, k) /\ DeduplicateShas(t) = SubSeq(old, 1, k)
  <2>1. Len(s) < PerBranch => Len(s) = Len(l)
    BY <1>1, <1>2, <1>4, LenProperties
  <2> QED
    BY <1>1, <2>1, ShareLemma
<1> HIDE DEF t
<1>6. all \in Seq(Commits) /\ Len(all) = Len(shas) + Len(t) /\ Len(t) \in Nat
  BY <1>3, <1>5, ConcatProperties, LenProperties
<1> HIDE DEF all
<1>7. LogsSound'
  BY <1>2 DEF WalkInv, LogsSound
<1>8. PlaceSound'
  <2>1. at' \in 1 .. Len(Targets) + 1 /\ (at < Len(Targets) => at' <= Len(Targets))
    BY <1>2, <1>3, <1>4
  <2>2. out' \in Seq(Commits) /\ Len(out') = 0 /\ page' = 1 /\ page' \in Nat \ {0}
    BY <1>2, EmptySeq
  <2>3. Len(out') = (page' - 1) * PerPage /\ Len(out') < PerBranch
    BY <1>4, <2>2, DiscoveryAssumption
  <2>4. Len(shas') <= PerBranch * (at' - 1)
    <3>1. at' - 1 = at /\ at \in Nat /\ at - 1 \in Nat
      BY <1>2, <1>3, <1>4
    <3>2. PerBranch * at = PerBranch * (at - 1) + PerBranch
      BY <1>4, <3>1
    <3>3. PerBranch * (at - 1) \in Nat
      BY <1>4, <3>1
    <3> HIDE DEF PerBranch
    <3>4. Len(all) <= PerBranch * at
      BY <1>3, <1>4, <1>5, <1>6, <3>2, <3>3
    <3> QED
      BY <1>2, <3>1, <3>4
  <2>5. result' \in Seq(Commits)
    <3>1. CASE at < Len(Targets)
      BY <1>2, <3>1 DEF WalkInv, PlaceSound
    <3>2. CASE ~(at < Len(Targets))
      <4>1. (IF dedupe THEN DeduplicateShas(all) ELSE all) \in Seq(Commits)
        BY <1>6, KeptLemma
      <4> QED
        BY <1>2, <1>4, <3>2, <4>1, TruncateLemma
    <3> QED
      BY <3>1, <3>2
  <2>6. pc' \in {"list", "done", "failed"} /\ (pc' = "list" => at < Len(Targets))
    BY <1>2
  <2>7. dedupe' \in BOOLEAN /\ shas' \in Seq(Commits)
    BY <1>2, <1>6 DEF WalkInv, PlaceSound
  <2> QED
    BY <2>1, <2>2, <2>3, <2>4, <2>5, <2>6, <2>7 DEF PlaceSound
<1>9. SeenSound'
  <2>1. seenAt' \in [DOMAIN Targets -> Seq(Commits)]
    BY <1>1, <1>3
  <2>2. \A i \in DOMAIN Targets : IsInjective(seenAt'[i])
    BY <1>1, <1>3 DEF WalkInv, SeenSound
  <2>3. \A i \in DOMAIN Targets : i > at' \/ (i = at' /\ page' = 1) => pushes'[i] = 0
    <3> SUFFICES ASSUME NEW i \in DOMAIN Targets, i > at' \/ i = at' PROVE pushes'[i] = 0
      OBVIOUS
    <3>1. i > at
      BY <1>2, <1>3, <1>4
    <3> QED
      BY <1>2, <3>1 DEF WalkInv, SeenSound
  <2> QED
    BY <1>2, <2>1, <2>2, <2>3 DEF WalkInv, SeenSound
<1>10. Listing'
  BY <1>2 DEF Listing
<1>11. Gathered(seenAt', pushes', at' - 1, shas')
  <2> DEFINE n == at - 1
             sb == seenAt'
  <2>1. /\ n \in Nat /\ n + 1 = at /\ at' - 1 = n + 1 /\ pushes' = pushes
        /\ Gathered(seenAt, pushes, n, shas)
        /\ sb[n + 1] = old /\ pushes[n + 1] = d
    BY <1>2, <1>3, <1>4 DEF WalkInv, old, d
  <2>2. \A i \in 1 .. n : sb[i] = seenAt[i]
    BY <1>1, <1>3, <1>4
  <2>3. \A i \in 1 .. n + 1 : sb[i] \in Seq(Commits)
    <3>1. sb \in [DOMAIN Targets -> Seq(Commits)]
      BY <1>1, <1>3
    <3> HIDE DEF n, sb
    <3>2. 1 .. n + 1 \subseteq DOMAIN Targets
      BY <1>3, <1>4, <2>1
    <3> QED
      BY <3>1, <3>2
  <2> HIDE DEF n, sb
  <2>4. Gathered(sb, pushes, n + 1, shas \o t)
    BY <1>3, <1>5, <2>1, <2>2, <2>3, GatheredStep
  <2> QED
    BY <1>2, <2>1, <2>4 DEF sb, all
<1>12. Finished'
  <2>1. CASE at < Len(Targets)
    BY <1>2, <2>1 DEF WalkInv, Finished
  <2>2. CASE ~(at < Len(Targets))
    <3>1. at' = Len(Targets) + 1
      BY <1>2, <1>3, <1>4, <2>2
    <3> QED
      BY <1>2, <2>2, <3>1 DEF Finished
  <2> QED
    BY <2>1, <2>2
<1> QED
  BY <1>7, <1>8, <1>9, <1>10, <1>11, <1>12 DEF WalkInv

LEMMA WalkNext == WalkInv /\ [Next]_vars => WalkInv'
<1> SUFFICES ASSUME WalkInv, [Next]_vars PROVE WalkInv'
  OBVIOUS
<1>1. CASE ReadPage
  BY <1>1, ListsOn, FinishesBranch
<1>2. CASE PageFails
  BY <1>2, PageFailsWalk
<1>3. ASSUME NEW br \in Branches, Push(br) PROVE WalkInv'
  BY <1>3, PushWalk
<1>4. CASE UNCHANGED vars
  <2>1. /\ UNCHANGED <<log, made, dedupe, pc, at, page, out, shas, result, seenAt, pushes>>
    BY <1>4 DEF vars, walk
  <2>2. LogsSound' /\ PlaceSound' /\ SeenSound'
    BY <2>1 DEF WalkInv, LogsSound, PlaceSound, SeenSound
  <2>3. Listing' /\ Finished'
    BY <2>1 DEF WalkInv, Listing, Finished
  <2>4. Gathered(seenAt, pushes, at - 1, shas)'
    BY <2>1 DEF WalkInv, Gathered, GatheredUpTo
  <2> QED
    BY <2>2, <2>3, <2>4 DEF WalkInv
<1> QED
  BY <1>1, <1>2, <1>3, <1>4 DEF Next

-----------------------------------------------------------------------------
(* What the invariant says of the result.                                  *)

LEMMA TypeConsequence == WalkInv => TypeOK
<1> SUFFICES ASSUME WalkInv PROVE TypeOK
  OBVIOUS
<1>1. /\ PerBranch \in Nat /\ PerBranch <= MaxCommits /\ MaxCommits \in Nat
      /\ PerPage \in Nat /\ PerPage > 0 /\ MaxMade \in Nat
      /\ Len(Targets) \in Nat /\ Len(Targets) > 0
  BY BudgetLemma, TargetsLemma, DiscoveryAssumption
<1>2. /\ at \in 1 .. Len(Targets) + 1 /\ page \in Nat \ {0}
      /\ out \in Seq(Commits) /\ Len(out) = (page - 1) * PerPage /\ Len(out) < PerBranch
      /\ shas \in Seq(Commits) /\ Len(shas) <= PerBranch * (at - 1)
      /\ Len(out) \in Nat /\ Len(shas) \in Nat
  BY LenProperties DEF WalkInv, PlaceSound
<1>3. page \in 1 .. MaxCommits + 1
  <2>1. page - 1 \in Nat
    BY <1>2
  <2>2. page - 1 <= (page - 1) * PerPage
    BY <1>1, <2>1
  <2> HIDE DEF PerBranch
  <2> QED
    BY <1>1, <1>2, <2>1, <2>2
<1>4. Len(out) < PerBranch + PerPage
  BY <1>1, <1>2
<1>5. Len(shas) <= PerBranch * Len(Targets)
  <2>1. at - 1 \in Nat /\ at - 1 <= Len(Targets)
    BY <1>1, <1>2
  <2>2. PerBranch * (at - 1) <= PerBranch * Len(Targets)
    BY <1>1, <2>1
  <2>3. PerBranch * (at - 1) \in Nat /\ PerBranch * Len(Targets) \in Nat
    BY <1>1, <2>1
  <2> QED
    BY ONLY <1>2, <2>2, <2>3
<1>6. pushes \in [DOMAIN Targets -> 0 .. MaxMade]
  BY <1>1 DEF WalkInv, SeenSound, LogsSound
<1> QED
  BY <1>2, <1>3, <1>4, <1>5, <1>6 DEF WalkInv, LogsSound, PlaceSound, SeenSound, TypeOK

LEMMA NoSimilarConsequence == WalkInv => NoSimilarShas
<1> SUFFICES ASSUME WalkInv, dedupe,
                    NEW i \in DOMAIN result, NEW j \in DOMAIN result, result[i] = result[j]
             PROVE  i = j
  BY DEF NoSimilarShas
<1> DEFINE k == DeduplicateShas(shas)
<1>1. CASE pc # "done"
  BY <1>1, EmptyLemma DEF WalkInv, Finished, IsInjective
<1>2. CASE pc = "done"
  <2>1. result = Truncate(k, MaxCommits) /\ shas \in Seq(Commits) /\ MaxCommits \in Nat
    BY <1>2, DiscoveryAssumption DEF WalkInv, Finished, PlaceSound
  <2>2. k \in Seq(Commits) /\ IsInjective(k)
    BY <2>1, KeptLemma
  <2> HIDE DEF k
  <2>3. /\ result \in Seq(Commits)
        /\ Len(result) = IF Len(k) <= MaxCommits THEN Len(k) ELSE MaxCommits
        /\ \A n \in 1 .. Len(result) : result[n] = k[n]
    BY <2>1, <2>2, TruncateLemma
  <2>4. /\ DOMAIN result = 1 .. Len(result) /\ DOMAIN k = 1 .. Len(k)
        /\ Len(k) \in Nat
    BY <2>2, <2>3, LenProperties
  <2>5. i \in DOMAIN k /\ j \in DOMAIN k /\ k[i] = k[j]
    BY <2>1, <2>3, <2>4
  <2> QED
    BY <2>2, <2>5 DEF IsInjective
<1> QED
  BY <1>1, <1>2

\* The shares of all branches fit in the budget, so truncating loses nothing.
LEMMA BudgetConsequence == WalkInv => BudgetShared
<1> SUFFICES ASSUME WalkInv, pc = "done" PROVE BudgetShared
  BY DEF BudgetShared
<1> DEFINE all == IF dedupe THEN DeduplicateShas(shas) ELSE shas
<1>1. /\ result = Truncate(all, MaxCommits) /\ at = Len(Targets) + 1
      /\ shas \in Seq(Commits) /\ Len(shas) <= PerBranch * (at - 1)
      /\ seenAt \in [DOMAIN Targets -> Seq(Commits)]
      /\ Gathered(seenAt, pushes, at - 1, shas)
  BY DEF WalkInv, Finished, PlaceSound, SeenSound
<1>2. /\ MaxCommits \in Nat /\ Len(Targets) \in Nat /\ DOMAIN Targets = 1 .. Len(Targets)
      /\ Len(Targets) <= MaxCommits => PerBranch * Len(Targets) <= MaxCommits
      /\ PerBranch * Len(Targets) \in Nat
  BY BudgetLemma, TargetsLemma, DiscoveryAssumption
<1>3. all \in Seq(Commits) /\ Range(all) = Range(shas) /\ Len(all) <= Len(shas)
  <2>1. Len(shas) \in Nat
    BY <1>1, LenProperties
  <2> QED
    BY <1>1, <2>1, KeptLemma
<1> HIDE DEF all
<1>4. /\ result \in Seq(Commits)
      /\ Len(result) = IF Len(all) <= MaxCommits THEN Len(all) ELSE MaxCommits
  BY <1>1, <1>2, <1>3, TruncateLemma
<1>5. Len(all) \in Nat /\ Len(shas) \in Nat
  BY <1>1, <1>3, LenProperties
<1>6. ASSUME Len(Targets) <= MaxCommits, NEW i \in DOMAIN Targets, seenAt[i] # <<>>
      PROVE  Contains(result, Head(seenAt[i]))
  <2>1. at - 1 = Len(Targets)
    BY <1>1, <1>2
  <2>2. Len(all) <= MaxCommits
    <3>1. Len(shas) <= PerBranch * Len(Targets)
      BY <1>1, <2>1
    <3> HIDE DEF PerBranch
    <3> QED
      BY <1>2, <1>3, <1>5, <1>6, <3>1
  <2>3. result = all
    BY <1>1, <2>2 DEF Truncate
  <2>4. Head(seenAt[i]) = seenAt[i][1]
    BY <1>1, <1>6
  <2>5. seenAt[i][1] \in Range(shas)
    BY <1>1, <1>2, <1>6, <2>1 DEF Gathered
  <2>6. Range(result) = {result[n] : n \in 1 .. Len(result)}
    BY <1>4, RangeEquality
  <2> QED
    BY <1>3, <2>3, <2>4, <2>5, <2>6 DEF Contains
<1> QED
  BY <1>2, <1>4, <1>5, <1>6 DEF BudgetShared

LEMMA PrefixConsequence == WalkInv => BranchPrefixes
<1> SUFFICES ASSUME WalkInv, pc = "done", dedupe,
                    \A i \in DOMAIN Targets : pushes[i] <= PerPage
             PROVE  \E k \in [DOMAIN Targets -> 0 .. PerBranch] :
                       /\ \A i \in DOMAIN Targets :
                             /\ k[i] <= Least(PerBranch, Len(seenAt[i]))
                             /\ k[i] + pushes[i] >= Least(PerBranch, Len(seenAt[i]))
                       /\ result = Truncate(DeduplicateShas(FirstOf(k)), MaxCommits)
  BY DEF BranchPrefixes
<1> DEFINE N == Len(Targets)
<1>1. DOMAIN Targets = 1 .. N /\ N \in Nat
  BY TargetsLemma
<1>2. /\ at = N + 1 /\ Gathered(seenAt, pushes, at - 1, shas)
      /\ result = Truncate(DeduplicateShas(shas), MaxCommits)
  BY DEF WalkInv, Finished
<1> HIDE DEF N
<1>3. Gathered(seenAt, pushes, N, shas)
  <2>1. at - 1 = N
    BY <1>1, <1>2
  <2> QED
    BY <1>2, <2>1
<1>4. PICK k \in [1 .. N -> 0 .. PerBranch] : GatheredUpTo(seenAt, pushes, N, shas, k)
  BY <1>1, <1>3 DEF Gathered
<1>5. FirstOf(k) = Firsts(seenAt, N, k)
  BY <1>1 DEF FirstOf, Firsts
<1>6. \A i \in 1 .. N : Enough(seenAt[i], pushes[i], k[i])
  BY <1>4 DEF GatheredUpTo
<1>7. result = Truncate(DeduplicateShas(FirstOf(k)), MaxCommits)
  BY <1>2, <1>4, <1>5 DEF GatheredUpTo
<1> QED
  BY <1>1, <1>4, <1>6, <1>7 DEF Enough

LEMMA WalkInvariance == Spec => []WalkInv
<1> QED
  BY WalkInit, WalkNext, PTL DEF Spec

\* What discover_repo gives the engine is free of repetitions and within
\* max_commits, and has the newest commit of every target branch if the budget
\* has a commit for each, for any branches, pushes, budget and page size.
THEOREM DiscoverySound == Spec => []ResultSound
<1>1. WalkInv => ResultSound
  BY TypeConsequence, NoSimilarConsequence, BudgetConsequence DEF ResultSound
<1> QED
  BY <1>1, WalkInvariance, PTL

\* However pushes shift the pages under get_paginated, a deduplicated walk
\* gives a gapless prefix of each branch, shorter than its share by at most one
\* commit for each push, as long as no branch is pushed to more often than a
\* page holds.
THEOREM PrefixesListed == Spec => []BranchPrefixes
<1>1. WalkInv => BranchPrefixes
  BY PrefixConsequence
<1> QED
  BY <1>1, WalkInvariance, PTL

=============================================================================
