----------------------------- MODULE Collections -----------------------------
(***************************************************************************)
(* Sorting, filtering and summing, as definitions: an element's place is   *)
(* the number of those before it.                                          *)
(***************************************************************************)
EXTENDS Integers, FiniteSets, FiniteSetsExt

\* The elements of a finite set, each after those that are Before it.
Ranked(S, Before(_, _)) ==
  [k \in 1..Cardinality(S) |-> CHOOSE x \in S : Cardinality({y \in S : Before(y, x)}) = k - 1]
\* The elements of s at the given positions, in their order in s.
Picked(s, at) == [k \in 1..Cardinality(at) |-> s[Ranked(at, <)[k]]]
\* The elements of s, each after those that are Before it; others as they were.
Sorted(s, Before(_, _)) ==
  LET Ahead(i, j) == Before(s[i], s[j]) \/ (~ Before(s[j], s[i]) /\ i < j)
      at == Ranked(DOMAIN s, Ahead)
  IN [k \in DOMAIN at |-> s[at[k]]]
\* The sum of w over a finite set.
Total(w, S) == FoldSet(LAMBDA x, t : t + w[x], 0, S)
=============================================================================
