------------------------------- MODULE Lists -------------------------------
(***************************************************************************)
(* What Python writes as a list comprehension with a condition and as a    *)
(* sum, by recursion over the length of the list, and as sorted().         *)
(***************************************************************************)
EXTENDS Integers, Sequences, FiniteSets

\* [x for x in s if x in S]
Selected(s, S) ==
    LET upTo[n \in 0 .. Len(s)] ==
            IF n = 0 THEN <<>>
            ELSE IF s[n] \in S THEN Append(upTo[n - 1], s[n]) ELSE upTo[n - 1]
    IN  upTo[Len(s)]

\* sum(s)
Total(s) ==
    LET upTo[n \in 0 .. Len(s)] == IF n = 0 THEN 0 ELSE upTo[n - 1] + s[n]
    IN  upTo[Len(s)]

\* sorted(s, key=..., reverse=True): the highest key first.  The sort is stable,
\* also in reverse: equals keep their order.
Descending(s, key) ==
    LET entries == {<<key[s[i]], i>> : i \in DOMAIN s}
        before(e, f) == e[1] > f[1] \/ (e[1] = f[1] /\ e[2] < f[2])
        at(n) == CHOOSE e \in entries : Cardinality({f \in entries : before(f, e)}) = n - 1
    IN  [n \in DOMAIN s |-> s[at(n)[2]]]

=============================================================================
