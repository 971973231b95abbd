----------------------------- MODULE ListLemmas -----------------------------
(***************************************************************************)
(* Facts on lists that the proofs of every component rest on: induction    *)
(* and recursion over their length, what taking off, appending, selecting, *)
(* adding up and sorting do, and what the operations of a CommitQueue,     *)
(* which is three lists, do to the jobs it holds.                          *)
(***************************************************************************)
EXTENDS Lists, CommitQueue, SequenceTheorems, FiniteSetTheorems, WellFoundedInduction, TLAPS

-----------------------------------------------------------------------------
(* Induction and recursion.  The library's theorems on them take a         *)
(* predicate; these take a set or a function in its place, so that they    *)
(* can be cited.                                                           *)

\* The order of the naturals, as a relation.
Less == {p \in Nat \X Nat : p[1] < p[2]}

LEMMA LessWF == IsWellFoundedOn(Less, Nat)
<1>1. Less = OpToRel(<, Nat)
  BY DEF Less, OpToRel
<1> QED
  BY <1>1, NatLessThanWellFounded

\* Induction: what holds of 0 and of every successor holds of every number.
LEMMA SetInduction ==
    ASSUME NEW S, 0 \in S, \A n \in Nat : n \in S => n + 1 \in S
    PROVE  Nat \subseteq S
<1> SUFFICES ASSUME Nat \ S # {} PROVE FALSE
  OBVIOUS
<1>1. PICK m \in Nat \ S : \A k \in Nat \ S : ~(k < m)
  <2> DEFINE T == Nat \ S
  <2>1. T \subseteq Nat /\ T # {}
    OBVIOUS
  <2> HIDE DEF T
  <2>2. \E m \in T : \A k \in T : ~(<<k, m>> \in Less)
    BY <2>1, LessWF, WFMin
  <2> QED
    BY <2>2 DEF T, Less
<1>2. m - 1 \in Nat /\ m - 1 \notin Nat \ S
  BY <1>1
<1>3. m - 1 + 1 \in S
  BY <1>2
<1> QED
  BY <1>1, <1>2, <1>3

\* The same up to a bound.
LEMMA UpTo ==
    ASSUME NEW N \in Nat, NEW S, 0 \in S, \A n \in 1 .. N : n - 1 \in S => n \in S
    PROVE  0 .. N \subseteq S
<1> DEFINE T == {n \in Nat : n <= N => n \in S}
<1>1. 0 \in T
  OBVIOUS
<1>2. ASSUME NEW n \in Nat, n \in T PROVE n + 1 \in T
  <2> SUFFICES ASSUME n + 1 <= N PROVE n + 1 \in S
    OBVIOUS
  <2>1. n \in S /\ n + 1 \in 1 .. N /\ n + 1 - 1 = n
    BY <1>2
  <2> QED
    BY <2>1
<1>3. Nat \subseteq T
  <2> HIDE DEF T
  <2> QED
    BY <1>1, <1>2, SetInduction
<1> QED
  BY <1>3

\* The same for lists that grow at their end.
LEMMA ListInduction ==
    ASSUME NEW T, NEW A, <<>> \in A,
           \A s \in Seq(T), x \in T : s \in A => Append(s, x) \in A
    PROVE  Seq(T) \subseteq A
<1> DEFINE S == {n \in Nat : \A s \in Seq(T) : Len(s) = n => s \in A}
<1>1. 0 \in S
  <2> SUFFICES ASSUME NEW s \in Seq(T), Len(s) = 0 PROVE s \in A
    OBVIOUS
  <2> QED
    BY EmptySeq
<1>2. ASSUME NEW n \in Nat, n \in S PROVE n + 1 \in S
  <2> SUFFICES ASSUME NEW s \in Seq(T), Len(s) = n + 1 PROVE s \in A
    OBVIOUS
  <2>1. s # <<>>
    BY EmptySeq
  <2>2. PICK t \in Seq(T), x \in T : s = Append(t, x)
    BY <2>1, SequenceEmptyOrAppend
  <2>3. Len(s) = Len(t) + 1 /\ Len(t) \in Nat
    BY <2>2, AppendProperties, LenProperties
  <2>4. t \in A
    BY <1>2, <2>3
  <2> QED
    BY <2>2, <2>4
<1>3. Nat \subseteq S
  <2> HIDE DEF S
  <2> QED
    BY <1>1, <1>2, SetInduction
<1> QED
  BY <1>3, LenProperties

\* f[n] comes from f[n - 1] by g[n], and f[0] is base.
Recurs(f, V, base, N, g) ==
    /\ f \in [0 .. N -> V] /\ f[0] = base
    /\ \A n \in 1 .. N : f[n] = g[n][f[n - 1]]

\* A function defined by recursion on its argument exists.
LEMMA Recursion ==
    ASSUME NEW V, NEW base \in V, NEW N \in Nat, NEW g \in [1 .. N -> [V -> V]]
    PROVE  \E f : Recurs(f, V, base, N, g)
<1> DEFINE S == {m \in 0 .. N : \E f : Recurs(f, V, base, m, g)}
<1>1. 0 \in S
  <2>1. Recurs([n \in 0 .. 0 |-> base], V, base, 0, g)
    BY DEF Recurs
  <2> QED
    BY <2>1
<1>2. ASSUME NEW m \in 1 .. N, m - 1 \in S PROVE m \in S
  <2>1. PICK f : Recurs(f, V, base, m - 1, g)
    BY <1>2
  <2> DEFINE h == [n \in 0 .. m |-> IF n = m THEN g[m][f[m - 1]] ELSE f[n]]
  <2>2. f[m - 1] \in V /\ g[m][f[m - 1]] \in V
    BY <2>1 DEF Recurs
  <2>3. h \in [0 .. m -> V] /\ h[0] = base
    BY <2>1, <2>2 DEF Recurs
  <2>4. ASSUME NEW n \in 1 .. m PROVE h[n] = g[n][h[n - 1]]
    <3>1. /\ n - 1 \in 0 .. m /\ n - 1 # m /\ n \in 0 .. m
          /\ h[n - 1] = f[n - 1]
      OBVIOUS
    <3>2. CASE n = m
      BY <3>1, <3>2
    <3>3. CASE n \in 1 .. m - 1
      BY <2>1, <3>1, <3>3 DEF Recurs
    <3> QED
      BY <3>2, <3>3
  <2> HIDE DEF h
  <2>5. Recurs(h, V, base, m, g)
    BY <2>3, <2>4 DEF Recurs
  <2> QED
    BY <2>5
<1>3. 0 .. N \subseteq S
  <2> HIDE DEF S
  <2> QED
    BY <1>1, <1>2, UpTo
<1> QED
  BY <1>3

-----------------------------------------------------------------------------
(* Lists.                                                                  *)

\* popleft takes one element off: the head is gone, nothing else is.
LEMMA TailLemma ==
    ASSUME NEW S, NEW s \in Seq(S), s # <<>>, IsInjective(s)
    PROVE  /\ Tail(s) \in Seq(S)
           /\ Head(s) \in S
           /\ IsInjective(Tail(s))
           /\ Range(Tail(s)) = Range(s) \ {Head(s)}
           /\ Head(s) \in Range(s)
<1>1. /\ Tail(s) \in Seq(S) /\ Head(s) \in S
      /\ Len(s) \in Nat /\ Len(s) > 0 /\ Len(Tail(s)) = Len(s) - 1
      /\ \A i \in 1 .. Len(Tail(s)) : Tail(s)[i] = s[i + 1]
      /\ Head(s) = s[1]
  BY HeadTailProperties, EmptySeq, LenProperties
<1>2. DOMAIN s = 1 .. Len(s) /\ DOMAIN Tail(s) = 1 .. Len(s) - 1
  BY <1>1, LenProperties
<1>3. IsInjective(Tail(s))
  BY <1>1, <1>2 DEF IsInjective
<1>4. Head(s) \in Range(s)
  BY <1>1, <1>2 DEF Range
<1>5. Range(Tail(s)) \subseteq Range(s) \ {Head(s)}
  <2> SUFFICES ASSUME NEW i \in DOMAIN Tail(s)
               PROVE  Tail(s)[i] \in Range(s) /\ Tail(s)[i] # Head(s)
    BY DEF Range
  <2>1. i + 1 \in DOMAIN s /\ 1 \in DOMAIN s /\ i + 1 # 1 /\ Tail(s)[i] = s[i + 1]
    BY <1>1, <1>2
  <2> QED
    BY <1>1, <2>1 DEF Range, IsInjective
<1>6. Range(s) \ {Head(s)} \subseteq Range(Tail(s))
  <2> SUFFICES ASSUME NEW i \in DOMAIN s, s[i] # Head(s)
               PROVE  s[i] \in Range(Tail(s))
    BY DEF Range
  <2>1. i - 1 \in DOMAIN Tail(s) /\ Tail(s)[i - 1] = s[i]
    BY <1>1, <1>2
  <2> QED
    BY <2>1 DEF Range
<1> QED
  BY <1>1, <1>3, <1>4, <1>5, <1>6

\* append adds one element at the end.
LEMMA AppendLemma ==
    ASSUME NEW S, NEW s \in Seq(S), NEW e \in S
    PROVE  /\ Append(s, e) \in Seq(S)
           /\ Range(Append(s, e)) = Range(s) \cup {e}
           /\ IsInjective(s) /\ e \notin Range(s) => IsInjective(Append(s, e))
<1>1. /\ Append(s, e) \in Seq(S)
      /\ Len(Append(s, e)) = Len(s) + 1
      /\ \A i \in 1 .. Len(s) : Append(s, e)[i] = s[i]
      /\ Append(s, e)[Len(s) + 1] = e
      /\ Len(s) \in Nat
  BY AppendProperties, LenProperties
<1>2. DOMAIN s = 1 .. Len(s) /\ DOMAIN Append(s, e) = 1 .. Len(s) + 1
  BY <1>1, LenProperties
<1>3. Range(Append(s, e)) = Range(s) \cup {e}
  BY <1>1, <1>2 DEF Range
<1>4. ASSUME IsInjective(s), e \notin Range(s)
      PROVE  IsInjective(Append(s, e))
  <2> SUFFICES ASSUME NEW a \in 1 .. Len(s) + 1, NEW b \in 1 .. Len(s) + 1,
                      Append(s, e)[a] = Append(s, e)[b]
               PROVE  a = b
    BY <1>2 DEF IsInjective
  <2>1. \A i \in 1 .. Len(s) : s[i] # e
    BY <1>2, <1>4 DEF Range
  <2>2. CASE a = Len(s) + 1
    BY <1>1, <2>1, <2>2
  <2>3. CASE b = Len(s) + 1
    BY <1>1, <2>1, <2>3
  <2>4. CASE a # Len(s) + 1 /\ b # Len(s) + 1
    <3>1. a \in 1 .. Len(s) /\ b \in 1 .. Len(s)
      BY <1>1, <2>4
    <3> QED
      BY <1>1, <1>2, <1>4, <3>1 DEF IsInjective
  <2> QED
    BY <2>2, <2>3, <2>4
<1> QED
  BY <1>1, <1>3, <1>4

\* The empty queue holds nothing.
LEMMA EmptyLemma == /\ Range(<<>>) = {} /\ IsInjective(<<>>)
                    /\ \A S : <<>> \in Seq(S)
  BY DEF Range, IsInjective

-----------------------------------------------------------------------------

\* What is selected of the first n entries.
SelectedUpTo(s, S) ==
    CHOOSE f : f = [n \in 0 .. Len(s) |->
                       IF n = 0 THEN <<>>
                       ELSE IF s[n] \in S THEN Append(f[n - 1], s[n]) ELSE f[n - 1]]

LEMMA SelectedBy == \A s, S : Selected(s, S) = SelectedUpTo(s, S)[Len(s)]
  BY DEF Selected, SelectedUpTo

LEMMA SelectedDef ==
    ASSUME NEW T, NEW s \in Seq(T), NEW S
    PROVE  LET f == SelectedUpTo(s, S)
           IN  /\ \A n \in 0 .. Len(s) : f[n] \in Seq(T)
               /\ f[0] = <<>> /\ Selected(s, S) = f[Len(s)]
               /\ \A n \in 1 .. Len(s) :
                     f[n] = IF s[n] \in S THEN Append(f[n - 1], s[n]) ELSE f[n - 1]
<1> DEFINE V == Seq(T)
           N == Len(s)
           g == [n \in 1 .. N |-> [v \in V |-> IF s[n] \in S THEN Append(v, s[n]) ELSE v]]
           body(f) == [n \in 0 .. N |-> IF n = 0 THEN <<>>
                                        ELSE IF s[n] \in S THEN Append(f[n-1], s[n]) ELSE f[n-1]]
<1>1. N \in Nat /\ <<>> \in V /\ g \in [1 .. N -> [V -> V]]
  OBVIOUS
<1>2. PICK h : Recurs(h, V, <<>>, N, g)
  <2> HIDE DEF V, g, N
  <2> QED
    BY <1>1, Recursion
<1>3. ASSUME NEW n \in 1 .. N
      PROVE  h[n] = IF s[n] \in S THEN Append(h[n - 1], s[n]) ELSE h[n - 1]
  <2> HIDE DEF V, N, g
  <2>1. n - 1 \in 0 .. N /\ h[n - 1] \in V /\ h[n] = g[n][h[n - 1]]
    BY <1>1, <1>2 DEF Recurs
  <2> QED
    BY <2>1 DEF g
<1> HIDE DEF V, g, N
<1>4. h = body(h)
  <2>1. DOMAIN h = 0 .. N /\ h = [n \in 0 .. N |-> h[n]] /\ h[0] = <<>>
    BY <1>2 DEF Recurs
  <2>2. ASSUME NEW n \in 0 .. N
        PROVE  h[n] = IF n = 0 THEN <<>>
                      ELSE IF s[n] \in S THEN Append(h[n-1], s[n]) ELSE h[n-1]
    <3>1. CASE n = 0
      BY <2>1, <3>1
    <3>2. CASE n \in 1 .. N
      BY <1>3, <3>2
    <3> QED
      BY <1>1, <3>1, <3>2
  <2>3. DOMAIN body(h) = 0 .. N /\ \A n \in 0 .. N : body(h)[n] = h[n]
    BY <2>2
  <2>4. body(h) = [n \in 0 .. N |-> body(h)[n]]
    OBVIOUS
  <2> HIDE DEF body
  <2> QED
    BY <2>1, <2>3, <2>4
<1>5. SelectedUpTo(s, S) = body(SelectedUpTo(s, S))
  BY <1>4 DEF SelectedUpTo, N
<1> DEFINE f == SelectedUpTo(s, S)
<1> HIDE DEF f
<1>6. /\ f[0] = <<>>
      /\ \A n \in 1 .. N : f[n] = IF s[n] \in S THEN Append(f[n - 1], s[n]) ELSE f[n - 1]
  <2>1. f = body(f)
    BY <1>5 DEF f
  <2> HIDE DEF body
  <2>2. body(f)[0] = <<>>
    BY <1>1 DEF body
  <2>3. ASSUME NEW n \in 1 .. N
        PROVE  body(f)[n] = IF s[n] \in S THEN Append(f[n - 1], s[n]) ELSE f[n - 1]
    BY <1>1 DEF body
  <2> QED
    BY <2>1, <2>2, <2>3
<1>7. 0 .. N \subseteq {n \in 0 .. N : f[n] \in Seq(T)}
  <2> DEFINE A == {n \in 0 .. N : f[n] \in Seq(T)}
  <2>1. 0 \in A
    <3>1. 0 \in 0 .. N /\ f[0] = <<>>
      BY <1>1, <1>6
    <3>2. <<>> \in Seq(T)
      OBVIOUS
    <3> QED
      BY <3>1, <3>2
  <2>2. ASSUME NEW n \in 1 .. N, n - 1 \in A PROVE n \in A
    <3>1. s[n] \in T /\ f[n - 1] \in Seq(T) /\ n \in 0 .. N
      BY <1>1, <2>2 DEF N
    <3>2. f[n] = Append(f[n - 1], s[n]) \/ f[n] = f[n - 1]
      BY <1>6
    <3>3. Append(f[n - 1], s[n]) \in Seq(T)
      BY <3>1
    <3>4. f[n] \in Seq(T)
      BY <3>1, <3>2, <3>3
    <3> QED
      BY <3>1, <3>4
  <2> HIDE DEF A
  <2>3. 0 .. N \subseteq A
    BY <1>1, <2>1, <2>2, UpTo
  <2> QED
    BY <2>3 DEF A
<1> QED
  BY <1>6, <1>7, SelectedBy DEF f, N

\* An entry more is one selected more, or none.
LEMMA SelectedAppend ==
    ASSUME NEW T, NEW s \in Seq(T), NEW x \in T, NEW S
    PROVE  Selected(Append(s, x), S) =
              IF x \in S THEN Append(Selected(s, S), x) ELSE Selected(s, S)
<1> DEFINE f == SelectedUpTo(s, S)
           r == Append(s, x)
           h == SelectedUpTo(r, S)
           N == Len(s)
<1>1. /\ r \in Seq(T) /\ Len(r) = N + 1 /\ N \in Nat
      /\ \A n \in 1 .. N : r[n] = s[n]
      /\ r[N + 1] = x
  BY AppendProperties, LenProperties
<1>2. /\ f[0] = <<>> /\ Selected(s, S) = f[N]
      /\ \A n \in 1 .. N :
            f[n] = IF s[n] \in S THEN Append(f[n - 1], s[n]) ELSE f[n - 1]
  BY SelectedDef
<1>3. /\ h[0] = <<>> /\ Selected(r, S) = h[N + 1]
      /\ \A n \in 1 .. N + 1 :
            h[n] = IF r[n] \in S THEN Append(h[n - 1], r[n]) ELSE h[n - 1]
  <2> HIDE DEF r
  <2> QED
    BY <1>1, SelectedDef
<1> HIDE DEF f, r, h, N
<1>4. 0 .. N \subseteq {n \in 0 .. N : h[n] = f[n]}
  <2> DEFINE A == {n \in 0 .. N : h[n] = f[n]}
  <2>1. 0 \in A
    BY <1>1, <1>2, <1>3
  <2>2. ASSUME NEW n \in 1 .. N, n - 1 \in A PROVE n \in A
    <3>1. n \in 1 .. N + 1 /\ r[n] = s[n] /\ h[n - 1] = f[n - 1] /\ n \in 0 .. N
      BY <1>1, <2>2
    <3> QED
      BY <1>2, <1>3, <3>1
  <2> HIDE DEF A
  <2>3. 0 .. N \subseteq A
    BY <1>1, <2>1, <2>2, UpTo
  <2> QED
    BY <2>3 DEF A
<1>5. h[N] = f[N] /\ N + 1 - 1 = N /\ N + 1 \in 1 .. N + 1
  BY <1>1, <1>4
<1>6. PICK n \in 1 .. N + 1 : n = N + 1 /\ n - 1 = N
  BY <1>1, <1>5
<1>7. h[n] = IF r[n] \in S THEN Append(h[n - 1], r[n]) ELSE h[n - 1]
  BY <1>3
<1>8. r[n] = x /\ h[n - 1] = Selected(s, S) /\ h[n] = Selected(r, S)
  BY <1>1, <1>2, <1>3, <1>5, <1>6
<1>9. Selected(r, S) = IF x \in S THEN Append(Selected(s, S), x) ELSE Selected(s, S)
  BY <1>7, <1>8
<1> QED
  BY <1>9 DEF r

\* What is selected are the entries in S.
LEMMA SelectedLemma ==
    ASSUME NEW T, NEW s \in Seq(T), NEW S
    PROVE  /\ Selected(s, S) \in Seq(T)
           /\ Range(Selected(s, S)) = Range(s) \cap S
           /\ IsInjective(s) => IsInjective(Selected(s, S))
<1> DEFINE f == SelectedUpTo(s, S)
           N == Len(s)
           upTo(n) == {s[i] : i \in 1 .. n}
<1>1. /\ \A n \in 0 .. N : f[n] \in Seq(T)
      /\ f[0] = <<>> /\ Selected(s, S) = f[N]
      /\ \A n \in 1 .. N :
            f[n] = IF s[n] \in S THEN Append(f[n - 1], s[n]) ELSE f[n - 1]
  BY SelectedDef
<1>2. N \in Nat /\ DOMAIN s = 1 .. N /\ \A n \in 1 .. N : s[n] \in T
  BY LenProperties, ElementOfSeq
<1> HIDE DEF f, N
<1> DEFINE A == {n \in 0 .. N : /\ Range(f[n]) = upTo(n) \cap S
                                /\ IsInjective(s) => IsInjective(f[n])}
<1>3. 0 \in A
  <2>1. upTo(0) = {}
    OBVIOUS
  <2> QED
    BY <1>1, <1>2, <2>1, EmptyLemma
<1>4. ASSUME NEW n \in 1 .. N, n - 1 \in A PROVE n \in A
  <2>1. /\ n - 1 \in 0 .. N /\ n \in 0 .. N /\ f[n - 1] \in Seq(T) /\ s[n] \in T
        /\ Range(f[n - 1]) = upTo(n - 1) \cap S
        /\ IsInjective(s) => IsInjective(f[n - 1])
    BY <1>1, <1>2, <1>4
  <2>2. upTo(n) = upTo(n - 1) \cup {s[n]}
    <3>1. 1 .. n = (1 .. n - 1) \cup {n}
      BY <2>1
    <3> QED
      BY <3>1
  <2>3. CASE s[n] \in S
    <3>1. f[n] = Append(f[n - 1], s[n])
      BY <1>1, <2>3
    <3>2. Range(f[n]) = upTo(n) \cap S
      <4>1. Range(f[n]) = Range(f[n - 1]) \cup {s[n]}
        BY <2>1, <3>1, AppendLemma
      <4> HIDE DEF upTo
      <4> QED
        BY <2>1, <2>2, <2>3, <4>1
    <3>3. ASSUME IsInjective(s) PROVE IsInjective(f[n])
      <4>1. s[n] \notin upTo(n - 1)
        BY <1>2, <3>3 DEF IsInjective
      <4>2. s[n] \notin Range(f[n - 1])
        BY <2>1, <4>1
      <4> QED
        BY <2>1, <3>1, <3>3, <4>2, AppendLemma
    <3> QED
      BY <2>1, <3>2, <3>3
  <2>4. CASE s[n] \notin S
    <3>1. f[n] = f[n - 1]
      BY <1>1, <2>4
    <3> HIDE DEF upTo
    <3> QED
      BY <2>1, <2>2, <2>4, <3>1
  <2> QED
    BY <2>3, <2>4
<1>5. N \in A
  <2> HIDE DEF A
  <2>1. 0 .. N \subseteq A
    BY <1>2, <1>3, <1>4, UpTo
  <2> QED
    BY <1>2, <2>1
<1>6. upTo(N) = Range(s)
  BY <1>2 DEF Range
<1> QED
  BY <1>1, <1>2, <1>5, <1>6

LEMMA SelectedEmpty ==
    ASSUME NEW T, NEW s \in Seq(T), NEW S
    PROVE  Len(s) = 0 => Selected(s, S) = <<>>
<1> DEFINE f == SelectedUpTo(s, S)
<1>1. f[0] = <<>> /\ Selected(s, S) = f[Len(s)]
  BY SelectedDef
<1> HIDE DEF f
<1> QED
  BY <1>1

-----------------------------------------------------------------------------
(* Sums.                                                                   *)

\* The sum of the first n entries.
TotalUpTo(s) ==
    CHOOSE f : f = [n \in 0 .. Len(s) |-> IF n = 0 THEN 0 ELSE f[n - 1] + s[n]]

LEMMA TotalBy == \A s : Total(s) = TotalUpTo(s)[Len(s)]
  BY DEF Total, TotalUpTo

LEMMA TotalDef ==
    ASSUME NEW s \in Seq(Nat)
    PROVE  LET f == TotalUpTo(s)
           IN  /\ \A n \in 0 .. Len(s) : f[n] \in Nat
               /\ f[0] = 0 /\ Total(s) = f[Len(s)]
               /\ \A n \in 1 .. Len(s) : f[n] = f[n - 1] + s[n]
<1> DEFINE V == Nat
           N == Len(s)
           g == [n \in 1 .. N |-> [v \in V |-> v + s[n]]]
           body(f) == [n \in 0 .. N |-> IF n = 0 THEN 0 ELSE f[n - 1] + s[n]]
<1>1. N \in Nat /\ 0 \in V /\ g \in [1 .. N -> [V -> V]]
  OBVIOUS
<1>2. PICK h : Recurs(h, V, 0, N, g)
  <2> HIDE DEF V, g, N
  <2> QED
    BY <1>1, Recursion
<1>3. ASSUME NEW n \in 1 .. N
      PROVE  h[n] = h[n - 1] + s[n]
  <2> HIDE DEF V, N, g
  <2>1. n - 1 \in 0 .. N /\ h[n - 1] \in V /\ h[n] = g[n][h[n - 1]]
    BY <1>1, <1>2 DEF Recurs
  <2> QED
    BY <2>1 DEF g
<1> HIDE DEF V, g, N
<1>4. h = body(h)
  <2>1. DOMAIN h = 0 .. N /\ h = [n \in 0 .. N |-> h[n]] /\ h[0] = 0
    BY <1>2 DEF Recurs
  <2>2. ASSUME NEW n \in 0 .. N
        PROVE  h[n] = IF n = 0 THEN 0 ELSE h[n - 1] + s[n]
    <3>1. CASE n = 0
      BY <2>1, <3>1
    <3>2. CASE n \in 1 .. N
      BY <1>3, <3>2
    <3> QED
      BY <1>1, <3>1, <3>2
  <2>3. DOMAIN body(h) = 0 .. N /\ \A n \in 0 .. N : body(h)[n] = h[n]
    BY <2>2
  <2>4. body(h) = [n \in 0 .. N |-> body(h)[n]]
    OBVIOUS
  <2> HIDE DEF body
  <2> QED
    BY <2>1, <2>3, <2>4
<1>5. TotalUpTo(s) = body(TotalUpTo(s))
  BY <1>4 DEF TotalUpTo, N
<1> DEFINE f == TotalUpTo(s)
<1> HIDE DEF f
<1>6. /\ f[0] = 0
      /\ \A n \in 1 .. N : f[n] = f[n - 1] + s[n]
  <2>1. f = body(f)
    BY <1>5 DEF f
  <2> HIDE DEF body
  <2>2. body(f)[0] = 0
    BY <1>1 DEF body
  <2>3. ASSUME NEW n \in 1 .. N
        PROVE  body(f)[n] = f[n - 1] + s[n]
    BY <1>1 DEF body
  <2> QED
    BY <2>1, <2>2, <2>3
<1>7. 0 .. N \subseteq {n \in 0 .. N : f[n] \in Nat}
  <2> DEFINE A == {n \in 0 .. N : f[n] \in Nat}
  <2>1. 0 \in A
    BY <1>1, <1>6
  <2>2. ASSUME NEW n \in 1 .. N, n - 1 \in A PROVE n \in A
    <3>1. s[n] \in Nat /\ f[n - 1] \in Nat /\ n \in 0 .. N
      BY <1>1, <2>2 DEF N
    <3>2. f[n] = f[n - 1] + s[n]
      BY <1>6
    <3> QED
      BY <3>1, <3>2
  <2> HIDE DEF A
  <2>3. 0 .. N \subseteq A
    BY <1>1, <2>1, <2>2, UpTo
  <2> QED
    BY <2>3 DEF A
<1> QED
  BY <1>6, <1>7, TotalBy DEF f, N

\* An entry more adds to the sum.
LEMMA TotalAppend ==
    ASSUME NEW s \in Seq(Nat), NEW x \in Nat
    PROVE  Total(Append(s, x)) = Total(s) + x
<1> DEFINE f == TotalUpTo(s)
           r == Append(s, x)
           h == TotalUpTo(r)
           N == Len(s)
<1>1. /\ r \in Seq(Nat) /\ Len(r) = N + 1 /\ N \in Nat
      /\ \A n \in 1 .. N : r[n] = s[n]
      /\ r[N + 1] = x
  BY AppendProperties, LenProperties
<1>2. /\ f[0] = 0 /\ Total(s) = f[N]
      /\ \A n \in 1 .. N :
            f[n] = f[n - 1] + s[n]
  BY TotalDef
<1>3. /\ h[0] = 0 /\ Total(r) = h[N + 1]
      /\ \A n \in 1 .. N + 1 :
            h[n] = h[n - 1] + r[n]
  <2> HIDE DEF r
  <2> QED
    BY <1>1, TotalDef
<1> HIDE DEF f, r, h, N
<1>4. 0 .. N \subseteq {n \in 0 .. N : h[n] = f[n]}
  <2> DEFINE A == {n \in 0 .. N : h[n] = f[n]}
  <2>1. 0 \in A
    BY <1>1, <1>2, <1>3
  <2>2. ASSUME NEW n \in 1 .. N, n - 1 \in A PROVE n \in A
    <3>1. n \in 1 .. N + 1 /\ r[n] = s[n] /\ h[n - 1] = f[n - 1] /\ n \in 0 .. N
      BY <1>1, <2>2
    <3> QED
      BY <1>2, <1>3, <3>1
  <2> HIDE DEF A
  <2>3. 0 .. N \subseteq A
    BY <1>1, <2>1, <2>2, UpTo
  <2> QED
    BY <2>3 DEF A
<1>5. h[N] = f[N] /\ N + 1 - 1 = N /\ N + 1 \in 1 .. N + 1
  BY <1>1, <1>4
<1>6. PICK n \in 1 .. N + 1 : n = N + 1 /\ n - 1 = N
  BY <1>1, <1>5
<1>7. h[n] = h[n - 1] + r[n]
  BY <1>3
<1>8. r[n] = x /\ h[n - 1] = Total(s) /\ h[n] = Total(r)
  BY <1>1, <1>2, <1>3, <1>5, <1>6
<1>9. Total(r) = Total(s) + x
  BY <1>7, <1>8
<1> QED
  BY <1>9 DEF r

LEMMA TotalEmpty == Total(<<>>) = 0
<1>1. <<>> \in Seq(Nat) /\ Len(<<>>) = 0
  OBVIOUS
<1> DEFINE s == <<>>
<1> DEFINE f == TotalUpTo(s)
<1>2. f[0] = 0 /\ Total(s) = f[Len(s)]
  <2> HIDE DEF s
  <2>1. s \in Seq(Nat)
    BY <1>1 DEF s
  <2> QED
    BY <2>1, TotalDef
<1> HIDE DEF f
<1> QED
  BY <1>1, <1>2

LEMMA TotalNat == ASSUME NEW s \in Seq(Nat) PROVE Total(s) \in Nat
<1> DEFINE f == TotalUpTo(s)
<1>1. Total(s) = f[Len(s)] /\ \A n \in 0 .. Len(s) : f[n] \in Nat
  BY TotalDef
<1> HIDE DEF f
<1> QED
  BY <1>1, LenProperties

-----------------------------------------------------------------------------
(* Lists taken entry by entry, and in reverse.                             *)

\* The values v gives to the entries of s.
Mapped(v, s) == [i \in 1 .. Len(s) |-> v[s[i]]]

LEMMA MappedAppend ==
    ASSUME NEW T, NEW v \in [T -> Nat], NEW s \in Seq(T), NEW x \in T
    PROVE  /\ Mapped(v, s) \in Seq(Nat)
           /\ Mapped(v, Append(s, x)) = Append(Mapped(v, s), v[x])
<1> DEFINE m == Mapped(v, s)
           r == Append(s, x)
<1>1. /\ r \in Seq(T) /\ Len(r) = Len(s) + 1 /\ Len(s) \in Nat
      /\ \A n \in 1 .. Len(s) : r[n] = s[n] /\ s[n] \in T
      /\ r[Len(s) + 1] = x
  BY AppendProperties, LenProperties
<1>2. m \in Seq(Nat) /\ Len(m) = Len(s) /\ \A i \in 1 .. Len(s) : m[i] = v[s[i]]
  BY <1>1 DEF Mapped
<1>3. /\ Append(m, v[x]) \in Seq(Nat) /\ Len(Append(m, v[x])) = Len(s) + 1
      /\ \A i \in 1 .. Len(s) : Append(m, v[x])[i] = m[i]
      /\ Append(m, v[x])[Len(s) + 1] = v[x]
  BY <1>2, AppendProperties
<1> HIDE DEF m, r
<1>4. Mapped(v, r) \in Seq(Nat) /\ Len(Mapped(v, r)) = Len(s) + 1
  <2>1. \A i \in 1 .. Len(r) : r[i] \in T
    BY <1>1, ElementOfSeq
  <2> QED
    BY <1>1, <2>1 DEF Mapped
<1>5. ASSUME NEW i \in 1 .. Len(s) + 1 PROVE Mapped(v, r)[i] = Append(m, v[x])[i]
  <2>1. Mapped(v, r)[i] = v[r[i]]
    BY <1>1 DEF Mapped
  <2> QED
    BY <1>1, <1>2, <1>3, <2>1
<1>6. Mapped(v, r) = Append(m, v[x])
  BY <1>3, <1>4, <1>5, SeqEqual
<1> QED
  BY <1>2, <1>6 DEF m, r

\* Selecting from a list of numbers does not add to its sum.
LEMMA TotalSelected ==
    ASSUME NEW T, NEW v \in [T -> Nat], NEW s \in Seq(T), NEW S
    PROVE  Total(Mapped(v, Selected(s, S))) <= Total(Mapped(v, s))
<1> DEFINE A == {t \in Seq(T) : Total(Mapped(v, Selected(t, S))) <= Total(Mapped(v, t))}
<1>1. <<>> \in A
  <2>1. <<>> \in Seq(T) /\ Len(<<>>) = 0
    OBVIOUS
  <2>2. Selected(<<>>, S) = <<>>
    BY <2>1, SelectedEmpty
  <2>3. Mapped(v, <<>>) = <<>>
    BY DEF Mapped
  <2> QED
    BY <2>1, <2>2, <2>3, TotalEmpty
<1>2. ASSUME NEW t \in Seq(T), NEW x \in T, t \in A PROVE Append(t, x) \in A
  <2> DEFINE e == Selected(t, S)
  <2>1. e \in Seq(T) /\ Append(t, x) \in Seq(T)
    BY SelectedLemma
  <2>2. Selected(Append(t, x), S) = IF x \in S THEN Append(e, x) ELSE e
    BY SelectedAppend
  <2> HIDE DEF e
  <2>3. /\ Mapped(v, t) \in Seq(Nat) /\ Mapped(v, e) \in Seq(Nat) /\ v[x] \in Nat
        /\ Mapped(v, Append(t, x)) = Append(Mapped(v, t), v[x])
        /\ Mapped(v, Append(e, x)) = Append(Mapped(v, e), v[x])
    <3>1. v[x] \in Nat
      OBVIOUS
    <3>2. Mapped(v, t) \in Seq(Nat) /\ Mapped(v, Append(t, x)) = Append(Mapped(v, t), v[x])
      BY MappedAppend
    <3>3. Mapped(v, e) \in Seq(Nat) /\ Mapped(v, Append(e, x)) = Append(Mapped(v, e), v[x])
      BY <2>1, MappedAppend
    <3> QED
      BY <3>1, <3>2, <3>3
  <2>4. /\ Total(Mapped(v, Append(t, x))) = Total(Mapped(v, t)) + v[x]
        /\ Total(Mapped(v, Append(e, x))) = Total(Mapped(v, e)) + v[x]
        /\ Total(Mapped(v, t)) \in Nat /\ Total(Mapped(v, e)) \in Nat
    BY <2>3, TotalAppend, TotalNat
  <2>5. Total(Mapped(v, e)) <= Total(Mapped(v, t))
    BY <1>2 DEF e
  <2>6. Total(Mapped(v, Selected(Append(t, x), S))) <= Total(Mapped(v, Append(t, x)))
    <3>1. CASE x \in S
      <4>1. Selected(Append(t, x), S) = Append(e, x)
        BY <2>2, <3>1
      <4> QED
        BY ONLY <4>1, <2>3, <2>4, <2>5
    <3>2. CASE x \notin S
      <4>1. Selected(Append(t, x), S) = e
        BY <2>2, <3>2
      <4> QED
        BY ONLY <4>1, <2>3, <2>4, <2>5
    <3> QED
      BY <3>1, <3>2
  <2> QED
    BY <2>1, <2>6
<1> HIDE DEF A
<1>3. Seq(T) \subseteq A
  BY <1>1, <1>2, ListInduction
<1> QED
  BY <1>3 DEF A

-----------------------------------------------------------------------------
(* The commit queue.                                                       *)

\* The jobs that wait in a queue, and a queue that holds none of them twice.
Pending(q) == Range(q.main) \cup Range(q.retry)

NoRepeats(q) ==
    /\ IsInjective(q.main) /\ IsInjective(q.retry) /\ IsInjective(q.dead)
    /\ Range(q.main) \cap Range(q.retry) = {}

\* next_job hands out a waiting job and forgets it.
LEMMA DequeueLemma ==
    ASSUME NEW Jobs, NEW q \in QueueOf(Jobs), ~IsEmpty(q), NoRepeats(q)
    PROVE  /\ NextJob(q) \in Pending(q)
           /\ NextJob(q) \in Jobs
           /\ Dequeue(q) \in QueueOf(Jobs)
           /\ NoRepeats(Dequeue(q))
           /\ Range(Dequeue(q).main) = Range(q.main) \ {NextJob(q)}
           /\ Range(Dequeue(q).retry) = Range(q.retry) \ {NextJob(q)}
           /\ Dequeue(q).dead = q.dead
           /\ Dequeue(q).attempts = q.attempts
<1>1. CASE q.retry # <<>>
  <2>1. /\ q.retry \in Seq(Jobs) /\ IsInjective(q.retry)
        /\ NextJob(q) = Head(q.retry)
        /\ Dequeue(q) = [q EXCEPT !.retry = Tail(q.retry)]
    BY <1>1 DEF QueueOf, NoRepeats, NextJob, Dequeue
  <2>2. /\ Tail(q.retry) \in Seq(Jobs) /\ Head(q.retry) \in Jobs
        /\ IsInjective(Tail(q.retry))
        /\ Range(Tail(q.retry)) = Range(q.retry) \ {Head(q.retry)}
        /\ Head(q.retry) \in Range(q.retry)
    BY <1>1, <2>1, TailLemma
  <2> QED
    BY <2>1, <2>2 DEF QueueOf, NoRepeats, Pending
<1>2. CASE q.retry = <<>>
  <2>1. /\ q.main \in Seq(Jobs) /\ IsInjective(q.main) /\ q.main # <<>>
        /\ NextJob(q) = Head(q.main)
        /\ Dequeue(q) = [q EXCEPT !.main = Tail(q.main)]
    BY <1>2 DEF QueueOf, NoRepeats, NextJob, Dequeue, IsEmpty
  <2>2. /\ Tail(q.main) \in Seq(Jobs) /\ Head(q.main) \in Jobs
        /\ IsInjective(Tail(q.main))
        /\ Range(Tail(q.main)) = Range(q.main) \ {Head(q.main)}
        /\ Head(q.main) \in Range(q.main)
    BY <2>1, TailLemma
  <2> QED
    BY <2>1, <2>2 DEF QueueOf, NoRepeats, Pending
<1> QED
  BY <1>1, <1>2

\* The queue r is q after the failure of j, a job that was out.
FailedTo(r, q, j, maxRetries, Jobs) ==
    LET again == q.attempts[j] + 1 <= maxRetries
    IN  /\ r \in QueueOf(Jobs)
        /\ NoRepeats(r)
        /\ r.main = q.main
        /\ Range(r.retry) = Range(q.retry) \cup (IF again THEN {j} ELSE {})
        /\ Range(r.dead) = Range(q.dead) \cup (IF again THEN {} ELSE {j})
        /\ r.attempts = [q.attempts EXCEPT ![j] = @ + 1]

\* mark_failed puts a job that was out in the retry queue while it has
\* attempts left, else among the dead letters, and counts the attempt.
LEMMA MarkFailedLemma ==
    ASSUME NEW Jobs, NEW q \in QueueOf(Jobs), NoRepeats(q),
           NEW j \in Jobs, j \notin Pending(q), j \notin Range(q.dead),
           NEW maxRetries \in Nat
    PROVE  FailedTo(MarkFailed(q, j, maxRetries), q, j, maxRetries, Jobs)
<1> DEFINE r == MarkFailed(q, j, maxRetries)
<1>1. /\ q.retry \in Seq(Jobs) /\ q.dead \in Seq(Jobs)
      /\ [q.attempts EXCEPT ![j] = @ + 1] \in [Jobs -> Nat]
      /\ IsInjective(q.retry) /\ IsInjective(q.dead)
      /\ j \notin Range(q.retry) /\ j \notin Range(q.main)
  BY DEF QueueOf, NoRepeats, Pending
<1>2. CASE q.attempts[j] + 1 <= maxRetries
  <2>1. r = [q EXCEPT !.attempts[j] = @ + 1, !.retry = Append(q.retry, j)]
    BY <1>2 DEF MarkFailed, Destination
  <2>2. /\ Append(q.retry, j) \in Seq(Jobs) /\ IsInjective(Append(q.retry, j))
        /\ Range(Append(q.retry, j)) = Range(q.retry) \cup {j}
    BY <1>1, AppendLemma
  <2>3. /\ r \in QueueOf(Jobs)
        /\ r.main = q.main /\ r.dead = q.dead /\ r.retry = Append(q.retry, j)
        /\ r.attempts = [q.attempts EXCEPT ![j] = @ + 1]
    BY <1>1, <2>1, <2>2 DEF QueueOf
  <2>4. NoRepeats(r)
    BY <1>1, <2>2, <2>3 DEF NoRepeats
  <2> QED
    BY <1>2, <2>2, <2>3, <2>4 DEF FailedTo
<1>3. CASE ~(q.attempts[j] + 1 <= maxRetries)
  <2>1. r = [q EXCEPT !.attempts[j] = @ + 1, !.dead = Append(q.dead, j)]
    BY <1>3 DEF MarkFailed, Destination
  <2>2. /\ Append(q.dead, j) \in Seq(Jobs) /\ IsInjective(Append(q.dead, j))
        /\ Range(Append(q.dead, j)) = Range(q.dead) \cup {j}
    BY <1>1, AppendLemma
  <2>3. /\ r \in QueueOf(Jobs)
        /\ r.main = q.main /\ r.retry = q.retry /\ r.dead = Append(q.dead, j)
        /\ r.attempts = [q.attempts EXCEPT ![j] = @ + 1]
    BY <1>1, <2>1, <2>2 DEF QueueOf
  <2>4. NoRepeats(r)
    BY <1>1, <2>2, <2>3 DEF NoRepeats
  <2> QED
    BY <1>3, <2>2, <2>3, <2>4 DEF FailedTo
<1> HIDE DEF r
<1> QED
  BY <1>2, <1>3 DEF r

-----------------------------------------------------------------------------
(* Sizes.                                                                   *)

\* A list without repetitions is as long as its set of entries.
LEMMA SizeLemma ==
    ASSUME NEW T, NEW s \in Seq(T), IsInjective(s)
    PROVE  IsFiniteSet(Range(s)) /\ Cardinality(Range(s)) = Len(s)
<1> DEFINE D == 1 .. Len(s)
           S == Range(s)
<1>1. Len(s) \in Nat /\ DOMAIN s = D /\ s \in [D -> T]
  OBVIOUS
<1>2. IsFiniteSet(D) /\ Cardinality(D) = Len(s)
  <2>1. Len(s) \in Int /\ 1 \in Int
    BY <1>1
  <2>2. IsFiniteSet(D) /\ Cardinality(D) = IF 1 > Len(s) THEN 0 ELSE Len(s) - 1 + 1
    BY <2>1, FS_Interval
  <2> QED
    BY <1>1, <2>2
<1>3. s \in Bijection(D, S)
  <2> HIDE DEF D
  <2>1. s = [i \in D |-> s[i]] /\ \A i \in D : s[i] \in S
    BY <1>1 DEF Range
  <2>2. s \in [D -> S]
    <3> HIDE DEF S
    <3> QED
      BY <2>1
  <2>3. \A x \in S : \E i \in D : s[i] = x
    BY <1>1 DEF Range
  <2> HIDE DEF S
  <2> QED
    BY <1>1, <2>2, <2>3 DEF Bijection, Injection, Surjection, IsInjective
<1> HIDE DEF D, S
<1>4. ExistsBijection(D, S)
  BY <1>3 DEF ExistsBijection
<1>5. IsFiniteSet(S) /\ Cardinality(S) = Len(s)
  BY <1>2, <1>4, FS_Bijection
<1> QED
  BY <1>5 DEF S

\* The least of a set of naturals, and the greatest of a bounded one.
LEMMA LeastExists ==
    ASSUME NEW I \in SUBSET Nat, I # {}
    PROVE  \E m \in I : \A i \in I : m <= i
<1>1. PICK m \in I : \A i \in Nat : <<i, m>> \in Less => i \notin I
  BY LessWF, WFMin
<1>2. \A i \in I : m <= i
  <2> SUFFICES ASSUME NEW i \in I, ~(m <= i) PROVE FALSE
    OBVIOUS
  <2>1. i \in Nat /\ m \in Nat /\ i < m
    OBVIOUS
  <2>2. <<i, m>> \in Less
    BY <2>1 DEF Less
  <2> QED
    BY <1>1, <2>1, <2>2
<1> QED
  BY <1>2

LEMMA MaxExists ==
    ASSUME NEW I \in SUBSET Nat, I # {}, NEW n \in Nat, \A i \in I : i <= n
    PROVE  \E m \in I : \A i \in I : i <= m
<1> DEFINE J == {n - i : i \in I}
<1>1. J \in SUBSET Nat /\ J # {}
  <2>1. \A i \in I : n - i \in Nat
    OBVIOUS
  <2> QED
    BY <2>1
<1>2. PICK j \in J : \A k \in J : j <= k
  <2> HIDE DEF J
  <2> QED
    BY <1>1, LeastExists
<1>3. PICK m \in I : j = n - m
  OBVIOUS
<1>4. ASSUME NEW i \in I PROVE i <= m
  <2>1. n - m <= n - i /\ i \in Nat /\ m \in Nat
    BY <1>2, <1>3
  <2> QED
    BY ONLY <2>1, n \in Nat
<1> QED
  BY <1>3, <1>4

\* The entries of two lists in one.
LEMMA ConcatRange ==
    ASSUME NEW T, NEW s \in Seq(T), NEW t \in Seq(T)
    PROVE  s \o t \in Seq(T) /\ Range(s \o t) = Range(s) \cup Range(t)
<1> DEFINE r == s \o t
<1>1. /\ r \in Seq(T) /\ Len(r) = Len(s) + Len(t) /\ Len(s) \in Nat /\ Len(t) \in Nat
      /\ \A i \in 1 .. Len(s) + Len(t) : r[i] = IF i <= Len(s) THEN s[i] ELSE t[i - Len(s)]
  BY ConcatProperties
<1>2. DOMAIN r = 1 .. Len(s) + Len(t) /\ DOMAIN s = 1 .. Len(s) /\ DOMAIN t = 1 .. Len(t)
  BY <1>1
<1> HIDE DEF r
<1>3. ASSUME NEW x \in Range(r) PROVE x \in Range(s) \cup Range(t)
  <2>1. PICK i \in 1 .. Len(s) + Len(t) : x = r[i]
    BY <1>2 DEF Range
  <2>2. CASE i <= Len(s)
    <3>1. i \in DOMAIN s
      BY <1>1, <1>2, <2>2
    <3>2. x = s[i]
      BY <1>1, <2>1, <2>2
    <3> QED
      BY <3>1, <3>2 DEF Range
  <2>3. CASE ~(i <= Len(s))
    <3>1. i - Len(s) \in DOMAIN t
      BY <1>1, <1>2, <2>3
    <3>2. x = t[i - Len(s)]
      BY <1>1, <2>1, <2>3
    <3> QED
      BY <3>1, <3>2 DEF Range
  <2> QED
    BY <2>2, <2>3
<1>4. ASSUME NEW x \in Range(s) PROVE x \in Range(r)
  <2>1. PICK i \in 1 .. Len(s) : x = s[i]
    BY <1>2 DEF Range
  <2>2. i \in 1 .. Len(s) + Len(t) /\ i <= Len(s)
    BY <1>1
  <2> QED
    BY <1>1, <1>2, <2>1, <2>2 DEF Range
<1>5. ASSUME NEW x \in Range(t) PROVE x \in Range(r)
  <2>1. PICK i \in 1 .. Len(t) : x = t[i]
    BY <1>2 DEF Range
  <2>2. PICK k \in 1 .. Len(s) + Len(t) : k = Len(s) + i
    BY <1>1
  <2>3. ~(k <= Len(s)) /\ k - Len(s) = i
    BY <1>1, <2>2
  <2> QED
    BY <1>1, <1>2, <2>1, <2>3 DEF Range
<1> QED
  BY <1>1, <1>3, <1>4, <1>5 DEF r

\* A sum of positive numbers is positive unless there are none.
LEMMA TotalPositive ==
    ASSUME NEW s \in Seq(Nat), \A i \in 1 .. Len(s) : s[i] > 0
    PROVE  Total(s) \in Nat /\ (Total(s) > 0 <=> Len(s) > 0)
<1> DEFINE A == {t \in Seq(Nat) : (\A i \in 1 .. Len(t) : t[i] > 0) =>
                                      (Total(t) > 0 <=> Len(t) > 0)}
<1>1. <<>> \in A
  BY TotalEmpty, EmptyLemma
<1>2. ASSUME NEW t \in Seq(Nat), NEW x \in Nat, t \in A PROVE Append(t, x) \in A
  <2>1. /\ Append(t, x) \in Seq(Nat) /\ Len(Append(t, x)) = Len(t) + 1 /\ Len(t) \in Nat
        /\ Append(t, x)[Len(t) + 1] = x
    BY AppendProperties, LenProperties
  <2>2. Total(Append(t, x)) = Total(t) + x /\ Total(t) \in Nat
    BY TotalAppend, TotalNat
  <2> SUFFICES ASSUME \A i \in 1 .. Len(Append(t, x)) : Append(t, x)[i] > 0
               PROVE  Total(Append(t, x)) > 0 <=> Len(Append(t, x)) > 0
    BY <2>1
  <2>3. Len(t) + 1 \in 1 .. Len(Append(t, x))
    BY <2>1
  <2>4. x > 0
    BY <2>1, <2>3
  <2> QED
    BY <2>1, <2>2, <2>4
<1>3. Seq(Nat) \subseteq A
  <2> HIDE DEF A
  <2> QED
    BY <1>1, <1>2, ListInduction
<1> QED
  BY <1>3, TotalNat

-----------------------------------------------------------------------------
(* Sorting.                                                                *)

\* A strict total order on E, as a set of pairs.
TotalOrder(E, R) ==
    /\ \A e \in E : <<e, e>> \notin R
    /\ \A e, f \in E : e = f \/ <<e, f>> \in R \/ <<f, e>> \in R
    /\ \A e, f, g \in E : <<e, f>> \in R /\ <<f, g>> \in R => <<e, g>> \in R

\* How many come before e.
Earlier(E, R, e) == {f \in E : <<f, e>> \in R}
Rank(E, R, e) == Cardinality(Earlier(E, R, e)) + 1

LEMMA RankLemma ==
    ASSUME NEW E, IsFiniteSet(E), NEW R, TotalOrder(E, R)
    PROVE  /\ \A e, f \in E : <<f, e>> \in R => Rank(E, R, f) < Rank(E, R, e)
           /\ \A e \in E : Rank(E, R, e) \in 1 .. Cardinality(E)
           /\ \A n \in 1 .. Cardinality(E) : \E e \in E : Rank(E, R, e) = n
<1> DEFINE N == Cardinality(E)
<1>1. N \in Nat
  BY FS_CardinalityType
<1>2. ASSUME NEW e \in E
      PROVE  IsFiniteSet(Earlier(E, R, e)) /\ Cardinality(Earlier(E, R, e)) \in Nat
  <2>1. Earlier(E, R, e) \subseteq E
    BY DEF Earlier
  <2> QED
    BY <2>1, FS_Subset, FS_CardinalityType
<1>3. ASSUME NEW e \in E, NEW f \in E, <<f, e>> \in R
      PROVE  Rank(E, R, f) < Rank(E, R, e)
  <2>1. Earlier(E, R, f) \subseteq Earlier(E, R, e)
    BY <1>3 DEF Earlier, TotalOrder
  <2>2. f \in Earlier(E, R, e) /\ f \notin Earlier(E, R, f)
    BY <1>3 DEF Earlier, TotalOrder
  <2>3. /\ Cardinality(Earlier(E, R, f)) <= Cardinality(Earlier(E, R, e))
        /\ Cardinality(Earlier(E, R, f)) # Cardinality(Earlier(E, R, e))
    BY <1>2, <2>1, <2>2, FS_Subset
  <2> QED
    BY <1>2, <2>3 DEF Rank
<1>4. ASSUME NEW e \in E PROVE Rank(E, R, e) \in 1 .. N
  <2>1. Earlier(E, R, e) \subseteq E /\ e \notin Earlier(E, R, e)
    BY DEF Earlier, TotalOrder
  <2>2. Cardinality(Earlier(E, R, e)) <= N /\ Cardinality(Earlier(E, R, e)) # N
    BY <2>1, FS_Subset
  <2> QED
    BY <1>1, <1>2, <2>2 DEF Rank
<1> DEFINE D == 1 .. N
           rank == [e \in E |-> Rank(E, R, e)]
<1>5. IsFiniteSet(D) /\ Cardinality(D) = N
  BY <1>1, FS_Interval
<1>6. rank \in [E -> D]
  BY <1>4
<1>7. \A e, f \in E : rank[e] = rank[f] => e = f
  <2> SUFFICES ASSUME NEW e \in E, NEW f \in E, Rank(E, R, e) = Rank(E, R, f), e # f
               PROVE  FALSE
    OBVIOUS
  <2>1. <<e, f>> \in R \/ <<f, e>> \in R
    BY DEF TotalOrder
  <2>2. Rank(E, R, e) < Rank(E, R, f) \/ Rank(E, R, f) < Rank(E, R, e)
    BY <1>3, <2>1
  <2>3. Rank(E, R, e) \in Nat /\ Rank(E, R, f) \in Nat
    BY <1>1, <1>4
  <2> QED
    BY ONLY <2>2, <2>3, Rank(E, R, e) = Rank(E, R, f)
<1>8. \A n \in D : \E e \in E : rank[e] = n
  <2> HIDE DEF D, rank
  <2>1. rank \in Injection(E, D)
    BY <1>6, <1>7 DEF Injection, IsInjective
  <2>2. rank \in Surjection(E, D)
    BY <1>5, <2>1, FS_Injection
  <2> QED
    BY <2>2 DEF Surjection
<1>9. \A n \in D : \E e \in E : Rank(E, R, e) = n
  BY <1>8
<1> QED
  BY <1>3, <1>4, <1>9

\* The entries of a list are in the order R.
Sorted(s, R) == \A i, j \in DOMAIN s : i < j => <<s[i], s[j]>> \in R

PlaceIn(s, x) == CHOOSE i \in DOMAIN s : s[i] = x

\* The order of a stable sort: by key, and equals as they were in s.
ByKey(s, key) ==
    {p \in Range(s) \X Range(s) :
        \/ key[p[1]] > key[p[2]]
        \/ key[p[1]] = key[p[2]] /\ PlaceIn(s, p[1]) < PlaceIn(s, p[2])}

LEMMA PlaceLemma ==
    ASSUME NEW T, NEW s \in Seq(T), IsInjective(s)
    PROVE  /\ \A i \in DOMAIN s : PlaceIn(s, s[i]) = i
           /\ \A x \in Range(s) : PlaceIn(s, x) \in DOMAIN s /\ s[PlaceIn(s, x)] = x
<1>1. ASSUME NEW i \in DOMAIN s PROVE PlaceIn(s, s[i]) = i
  BY DEF PlaceIn, IsInjective
<1>2. ASSUME NEW x \in Range(s)
      PROVE  PlaceIn(s, x) \in DOMAIN s /\ s[PlaceIn(s, x)] = x
  <2>1. PICK i \in DOMAIN s : s[i] = x
    BY DEF Range
  <2> QED
    BY <1>1, <2>1
<1> QED
  BY <1>1, <1>2

\* The entries that sorted() compares: key and place.
Keyed(s, key) == {<<key[s[i]], i>> : i \in DOMAIN s}
EntryOrder(s, key) ==
    {p \in Keyed(s, key) \X Keyed(s, key) :
        p[1][1] > p[2][1] \/ (p[1][1] = p[2][1] /\ p[1][2] < p[2][2])}

LEMMA EntriesLemma ==
    ASSUME NEW T, NEW s \in Seq(T), NEW key, \A i \in DOMAIN s : key[s[i]] \in Int
    PROVE  LET E == Keyed(s, key)
           IN  /\ \A e \in E : e[2] \in 1 .. Len(s) /\ e[1] \in Int /\ e[1] = key[s[e[2]]]
               /\ \A i \in 1 .. Len(s) : \E e \in E : e[2] = i
               /\ \A e, f \in E : e[2] = f[2] => e = f
               /\ IsFiniteSet(E) /\ Cardinality(E) = Len(s)
               /\ TotalOrder(E, EntryOrder(s, key))
<1> DEFINE E == Keyed(s, key)
           D == 1 .. Len(s)
           b == [i \in D |-> <<key[s[i]], i>>]
<1>1. Len(s) \in Nat /\ DOMAIN s = D
  OBVIOUS
<1>2. ASSUME NEW e \in E
      PROVE  /\ e[2] \in D /\ e[1] \in Int /\ e[1] = key[s[e[2]]]
             /\ e = <<key[s[e[2]]], e[2]>>
  <2>1. PICK i \in DOMAIN s : e = <<key[s[i]], i>>
    BY DEF Keyed
  <2> QED
    BY <1>1, <2>1
<1>3. ASSUME NEW i \in D PROVE <<key[s[i]], i>> \in E /\ <<key[s[i]], i>>[2] = i
  BY <1>1 DEF Keyed
<1>4. \A e, f \in E : e[2] = f[2] => e = f
  <2> SUFFICES ASSUME NEW e \in E, NEW f \in E, e[2] = f[2] PROVE e = f
    OBVIOUS
  <2>1. e = <<key[s[e[2]]], e[2]>> /\ f = <<key[s[f[2]]], f[2]>>
    BY <1>2
  <2> QED
    BY <2>1, Zenon
<1>5. IsFiniteSet(D) /\ Cardinality(D) = Len(s)
  <2>1. Len(s) \in Int /\ 1 \in Int
    BY <1>1
  <2>2. IsFiniteSet(D) /\ Cardinality(D) = IF 1 > Len(s) THEN 0 ELSE Len(s) - 1 + 1
    BY <2>1, FS_Interval
  <2> QED
    BY <1>1, <2>2
<1>6. b \in Bijection(D, E)
  <2>1. b \in [D -> E]
    BY <1>3
  <2>2. \A i, j \in D : b[i] = b[j] => i = j
    BY <1>3
  <2>3. \A e \in E : \E i \in D : b[i] = e
    <3> SUFFICES ASSUME NEW e \in E PROVE \E i \in D : b[i] = e
      OBVIOUS
    <3>1. PICK i \in DOMAIN s : e = <<key[s[i]], i>>
      BY DEF Keyed
    <3>2. i \in D /\ b[i] = e
      BY <1>1, <3>1
    <3> QED
      BY <3>2
  <2> HIDE DEF b, D, E
  <2> QED
    BY <2>1, <2>2, <2>3 DEF Bijection, Injection, Surjection, IsInjective
<1>7. IsFiniteSet(E) /\ Cardinality(E) = Len(s)
  <2> HIDE DEF b, D, E
  <2>1. ExistsBijection(D, E)
    BY <1>6 DEF ExistsBijection
  <2> QED
    BY <1>5, <2>1, FS_Bijection
<1>8. TotalOrder(E, EntryOrder(s, key))
  <2> DEFINE R == EntryOrder(s, key)
  <2>1. \A e, f \in E : <<e, f>> \in R <=> e[1] > f[1] \/ (e[1] = f[1] /\ e[2] < f[2])
    BY DEF EntryOrder
  <2>2. \A e \in E : e[1] \in Int /\ e[2] \in Int
    BY <1>1, <1>2
  <2> HIDE DEF R, E
  <2>3. \A e \in E : <<e, e>> \notin R
    BY <2>1, <2>2
  <2>4. ASSUME NEW e \in E, NEW f \in E PROVE e = f \/ <<e, f>> \in R \/ <<f, e>> \in R
    <3>1. /\ e[1] \in Int /\ f[1] \in Int /\ e[2] \in Int /\ f[2] \in Int
          /\ e[2] = f[2] => e = f
      BY <1>4, <2>2
    <3>2. \/ e[2] = f[2]
          \/ e[1] > f[1] \/ (e[1] = f[1] /\ e[2] < f[2])
          \/ f[1] > e[1] \/ (f[1] = e[1] /\ f[2] < e[2])
      BY ONLY <3>1
    <3> QED
      BY <2>1, <3>1, <3>2
  <2>5. ASSUME NEW e \in E, NEW f \in E, NEW g \in E, <<e, f>> \in R, <<f, g>> \in R
        PROVE  <<e, g>> \in R
    <3>1. /\ e[1] > f[1] \/ (e[1] = f[1] /\ e[2] < f[2])
          /\ f[1] > g[1] \/ (f[1] = g[1] /\ f[2] < g[2])
      BY <2>1, <2>5
    <3>2. e[1] > g[1] \/ (e[1] = g[1] /\ e[2] < g[2])
      BY <2>2, <3>1
    <3> QED
      BY <2>1, <3>2
  <2> QED
    BY <2>3, <2>4, <2>5 DEF TotalOrder, R
<1>9. \A i \in D : \E e \in E : e[2] = i
  BY <1>3
<1> HIDE DEF E
<1>10. \A e \in E : e[2] \in 1 .. Len(s) /\ e[1] \in Int /\ e[1] = key[s[e[2]]]
  BY <1>2
<1> QED
  BY <1>4, <1>7, <1>8, <1>9, <1>10 DEF E

\* The list r has the entries of s in the order of sorted(s, key, reverse=True).
SortedBy(r, s, T, key) ==
    /\ r \in Seq(T) /\ Len(r) = Len(s) /\ IsInjective(r) /\ Range(r) = Range(s)
    /\ Sorted(r, ByKey(s, key))

LEMMA DescendingLemma ==
    ASSUME NEW T, NEW s \in Seq(T), IsInjective(s),
           NEW key, \A i \in DOMAIN s : key[s[i]] \in Int
    PROVE  SortedBy(Descending(s, key), s, T, key)
<1> DEFINE E == Keyed(s, key)
           R == EntryOrder(s, key)
           D == 1 .. Len(s)
           r == Descending(s, key)
           at(n) == CHOOSE e \in E : Rank(E, R, e) = n
<1>1. /\ \A e \in E : e[2] \in D /\ e[1] \in Int /\ e[1] = key[s[e[2]]]
      /\ \A i \in D : \E e \in E : e[2] = i
      /\ \A e, f \in E : e[2] = f[2] => e = f
      /\ IsFiniteSet(E) /\ Cardinality(E) = Len(s)
      /\ TotalOrder(E, R)
  BY EntriesLemma
<1>2. Len(s) \in Nat /\ DOMAIN s = D
  OBVIOUS
<1>3. \A e, f \in E : <<e, f>> \in R <=> e[1] > f[1] \/ (e[1] = f[1] /\ e[2] < f[2])
  BY DEF EntryOrder
<1>4. r = [n \in D |-> s[at(n)[2]]]
  <2>1. ASSUME NEW e \in E
        PROVE  Earlier(E, R, e) = {f \in E : f[1] > e[1] \/ (f[1] = e[1] /\ f[2] < e[2])}
    BY <1>3, <2>1 DEF Earlier
  <2> DEFINE before(f, e) == f[1] > e[1] \/ (f[1] = e[1] /\ f[2] < e[2])
             C(e) == Cardinality({f \in E : before(f, e)})
  <2>2. ASSUME NEW n \in D, NEW e \in E PROVE C(e) = n - 1 <=> Rank(E, R, e) = n
    <3>1. C(e) = Cardinality(Earlier(E, R, e))
      BY <2>1
    <3>2. Rank(E, R, e) \in 1 .. Len(s)
      BY <1>1, RankLemma
    <3>3. Earlier(E, R, e) \subseteq E
      BY DEF Earlier
    <3>4. Cardinality(Earlier(E, R, e)) \in Nat
      BY <1>1, <3>3, FS_Subset, FS_CardinalityType
    <3> HIDE DEF C, E, R, D
    <3>5. n \in Nat
      BY <1>2 DEF D
    <3>6. Rank(E, R, e) = C(e) + 1 /\ C(e) \in Nat
      BY <3>1, <3>4 DEF Rank
    <3> QED
      BY ONLY <3>5, <3>6
  <2>3. ASSUME NEW n \in D PROVE (CHOOSE e \in E : C(e) = n - 1) = at(n)
    <3> HIDE DEF C, E, R, D
    <3> QED
      BY <2>2, Zenon
  <2>4. r = [n \in D |-> s[(CHOOSE e \in E : C(e) = n - 1)[2]]]
    BY <1>2, Zenon DEF Descending, Keyed
  <2> DEFINE g(n) == CHOOSE e \in E : C(e) = n - 1
  <2>5. \A n \in D : g(n) = at(n)
    BY <2>3
  <2>6. r = [n \in D |-> s[g(n)[2]]]
    BY <2>4
  <2> HIDE DEF C, E, R, D, at, r, g
  <2> QED
    BY <2>5, <2>6
<1> HIDE DEF E, R, r, D
<1>5. ASSUME NEW n \in D PROVE at(n) \in E /\ Rank(E, R, at(n)) = n
  <2>1. n \in 1 .. Cardinality(E)
    BY <1>1 DEF D
  <2>2. \E e \in E : Rank(E, R, e) = n
    BY <1>1, <2>1, RankLemma
  <2> QED
    BY <2>2
<1>6. \A e, f \in E : <<f, e>> \in R => Rank(E, R, f) < Rank(E, R, e)
  BY <1>1, RankLemma
<1>7. ASSUME NEW e \in E PROVE Rank(E, R, e) \in D /\ at(Rank(E, R, e)) = e
  <2>1. \A f \in E : Rank(E, R, f) \in D
    BY <1>1, RankLemma DEF D
  <2>2. ASSUME NEW f \in E, Rank(E, R, f) = Rank(E, R, e) PROVE f = e
    <3>1. Rank(E, R, f) \in Nat
      BY <1>2, <2>1 DEF D
    <3>2. ~(<<e, f>> \in R) /\ ~(<<f, e>> \in R)
      BY <1>6, <2>2, <3>1
    <3> QED
      BY <1>1, <3>2 DEF TotalOrder
  <2> QED
    BY <2>1, <2>2, <1>5
<1> DEFINE p(n) == at(n)[2]
<1>8. ASSUME NEW n \in D PROVE p(n) \in D /\ r[n] = s[p(n)] /\ r[n] \in T
  <2>1. p(n) \in D /\ r[n] = s[p(n)]
    BY <1>1, <1>4, <1>5
  <2> QED
    BY <2>1, ElementOfSeq DEF D
<1>9. ASSUME NEW i \in D PROVE \E n \in D : p(n) = i
  <2>1. PICK e \in E : e[2] = i
    BY <1>1
  <2>2. Rank(E, R, e) \in D /\ at(Rank(E, R, e)) = e
    BY <1>7
  <2>3. p(Rank(E, R, e)) = i
    BY <2>1, <2>2
  <2> QED
    BY <2>2, <2>3
<1>10. ASSUME NEW m \in D, NEW n \in D, m < n
       PROVE  /\ p(m) # p(n)
              /\ key[s[p(m)]] > key[s[p(n)]] \/ (key[s[p(m)]] = key[s[p(n)]] /\ p(m) < p(n))
  <2>1. m \in Nat /\ n \in Nat
    BY <1>2 DEF D
  <2>2. at(m) \in E /\ at(n) \in E /\ Rank(E, R, at(m)) = m /\ Rank(E, R, at(n)) = n
    BY <1>5
  <2>3. at(m) # at(n)
    BY <1>10, <2>1, <2>2
  <2>4. ~(<<at(n), at(m)>> \in R)
    <3> SUFFICES ASSUME <<at(n), at(m)>> \in R PROVE FALSE
      OBVIOUS
    <3>1. n < m
      BY <1>6, <2>2
    <3> QED
      BY ONLY <1>10, <2>1, <3>1
  <2>5. <<at(m), at(n)>> \in R
    BY <1>1, <2>2, <2>3, <2>4 DEF TotalOrder
  <2> HIDE DEF at
  <2> QED
    BY <1>1, <1>3, <2>2, <2>3, <2>5
<1>11. r \in Seq(T) /\ Len(r) = Len(s) /\ DOMAIN r = D
  <2>1. DOMAIN r = 1 .. Len(s)
    BY <1>4 DEF D
  <2> HIDE DEF p, at
  <2>2. r \in [1 .. Len(s) -> T]
    <3>1. r = [n \in D |-> r[n]]
      BY <1>4
    <3> QED
      BY <1>8, <3>1 DEF D
  <2> QED
    BY <1>2, <2>1, <2>2 DEF D
<1> HIDE DEF p
<1>12. IsInjective(r)
  <2> SUFFICES ASSUME NEW m \in D, NEW n \in D, r[m] = r[n], m # n PROVE FALSE
    BY <1>11 DEF IsInjective
  <2>1. m < n \/ n < m
    BY <1>2 DEF D
  <2>2. p(m) # p(n)
    BY <1>10, <2>1
  <2> QED
    BY <1>2, <1>8, <2>2 DEF IsInjective
<1>13. Range(r) = Range(s)
  <2>1. \A x \in Range(r) : x \in Range(s)
    BY <1>2, <1>8, <1>11 DEF Range
  <2>2. \A x \in Range(s) : x \in Range(r)
    <3> SUFFICES ASSUME NEW i \in D PROVE s[i] \in Range(r)
      BY <1>2 DEF Range
    <3>1. PICK n \in D : p(n) = i
      BY <1>9
    <3>2. r[n] = s[i]
      BY <1>8, <3>1
    <3> QED
      BY <1>11, <3>2 DEF Range
  <2> QED
    BY <2>1, <2>2
<1>14. Sorted(r, ByKey(s, key))
  <2> SUFFICES ASSUME NEW m \in D, NEW n \in D, m < n
               PROVE  <<r[m], r[n]>> \in ByKey(s, key)
    BY <1>11 DEF Sorted
  <2>1. r[m] = s[p(m)] /\ r[n] = s[p(n)] /\ p(m) \in D /\ p(n) \in D
    BY <1>8
  <2>2. PlaceIn(s, r[m]) = p(m) /\ PlaceIn(s, r[n]) = p(n)
    BY <1>2, <2>1, PlaceLemma
  <2>3. r[m] \in Range(s) /\ r[n] \in Range(s)
    BY <1>2, <2>1 DEF Range
  <2>4. key[r[m]] > key[r[n]] \/ (key[r[m]] = key[r[n]] /\ PlaceIn(s, r[m]) < PlaceIn(s, r[n]))
    BY <1>10, <2>1, <2>2
  <2> QED
    BY <2>3, <2>4 DEF ByKey
<1> QED
  BY <1>11, <1>12, <1>13, <1>14 DEF SortedBy, r

\* Selecting keeps the order.
LEMMA SortedSelected ==
    ASSUME NEW T, NEW s \in Seq(T), NEW S, NEW R, Sorted(s, R)
    PROVE  Sorted(Selected(s, S), R)
<1> DEFINE A == {t \in Seq(T) : Sorted(t, R) => Sorted(Selected(t, S), R)}
<1>1. <<>> \in A
  <2>1. Selected(<<>>, S) = <<>>
    <3>1. <<>> \in Seq(T) /\ Len(<<>>) = 0
      OBVIOUS
    <3> QED
      BY <3>1, SelectedEmpty
  <2> QED
    BY <2>1, EmptyLemma
<1>2. ASSUME NEW t \in Seq(T), NEW x \in T, t \in A PROVE Append(t, x) \in A
  <2> DEFINE e == Selected(t, S)
             r == Append(t, x)
  <2>1. /\ r \in Seq(T) /\ Len(r) = Len(t) + 1 /\ Len(t) \in Nat
        /\ \A i \in 1 .. Len(t) : r[i] = t[i]
        /\ r[Len(t) + 1] = x
    BY AppendProperties, LenProperties
  <2> SUFFICES ASSUME Sorted(r, R) PROVE Sorted(Selected(r, S), R)
    BY <2>1
  <2> HIDE DEF r
  <2>2. Sorted(t, R) /\ \A i \in 1 .. Len(t) : <<t[i], x>> \in R
    <3>1. DOMAIN r = 1 .. Len(t) + 1 /\ DOMAIN t = 1 .. Len(t)
      BY <2>1
    <3>2. \A i \in 1 .. Len(t) : i \in DOMAIN r /\ Len(t) + 1 \in DOMAIN r /\ i < Len(t) + 1
      BY <2>1, <3>1
    <3>3. \A i, k \in 1 .. Len(t) : i < k => <<t[i], t[k]>> \in R
      <4>1. \A i, k \in DOMAIN r : i < k => <<r[i], r[k]>> \in R
        BY DEF Sorted
      <4>2. \A i \in 1 .. Len(t) : i \in DOMAIN r
        BY <3>2
      <4> QED
        BY <2>1, <4>1, <4>2
    <3>4. \A i \in 1 .. Len(t) : <<t[i], x>> \in R
      <4>1. \A i, k \in DOMAIN r : i < k => <<r[i], r[k]>> \in R
        BY DEF Sorted
      <4> QED
        BY <2>1, <3>2, <4>1
    <3> QED
      BY <3>1, <3>3, <3>4 DEF Sorted
  <2>3. e \in Seq(T) /\ Range(e) = Range(t) \cap S
    BY SelectedLemma
  <2>4. Selected(r, S) = IF x \in S THEN Append(e, x) ELSE e
    BY SelectedAppend DEF r
  <2>5. Sorted(e, R)
    BY <1>2, <2>2
  <2> HIDE DEF e
  <2>6. Sorted(Append(e, x), R)
    <3>1. /\ Append(e, x) \in Seq(T) /\ Len(Append(e, x)) = Len(e) + 1 /\ Len(e) \in Nat
          /\ \A i \in 1 .. Len(e) : Append(e, x)[i] = e[i]
          /\ Append(e, x)[Len(e) + 1] = x
      BY <2>3, AppendProperties, LenProperties
    <3>2. DOMAIN e = 1 .. Len(e) /\ DOMAIN Append(e, x) = 1 .. Len(e) + 1
      BY <2>3, <3>1
    <3>3. ASSUME NEW i \in 1 .. Len(e) PROVE <<e[i], x>> \in R
      <4>1. e[i] \in Range(t)
        BY <2>3, <3>2 DEF Range
      <4>2. PICK k \in 1 .. Len(t) : t[k] = e[i]
        BY <4>1, LenProperties DEF Range
      <4> QED
        BY <2>2, <4>2
    <3> SUFFICES ASSUME NEW i \in 1 .. Len(e) + 1, NEW j \in 1 .. Len(e) + 1, i < j
                 PROVE  <<Append(e, x)[i], Append(e, x)[j]>> \in R
      BY <3>2 DEF Sorted
    <3>4. i \in 1 .. Len(e)
      BY <3>1
    <3>5. CASE j = Len(e) + 1
      BY <3>1, <3>3, <3>4, <3>5
    <3>6. CASE j \in 1 .. Len(e)
      BY <2>5, <3>1, <3>2, <3>4, <3>6 DEF Sorted
    <3>7. j = Len(e) + 1 \/ j \in 1 .. Len(e)
      BY <3>1
    <3> QED
      BY ONLY <3>5, <3>6, <3>7
  <2> QED
    BY <2>4, <2>5, <2>6
<1>3. Seq(T) \subseteq A
  <2> HIDE DEF A
  <2> QED
    BY <1>1, <1>2, ListInduction
<1> QED
  BY <1>3

=============================================================================
