--------------------------- MODULE OperatorProofs ---------------------------
(***************************************************************************)
(* The operators of cce that the `engine` run judges on a bounded set of   *)
(* inputs, for every input.                                                *)
(***************************************************************************)
EXTENDS Artifacts, CommandLine, Health, Metrics, Settings, Collections, SequencesExt, FiniteSetTheorems, TLAPS

(***************************************************************************)
(* Induction and recursion over the numbers up to n, for sets and          *)
(* functions: every set of numbers has a least one.                        *)
(***************************************************************************)

LEMMA LeastNumber ==
  ASSUME NEW S \in SUBSET Nat, S # {}
  PROVE  \E m \in S : \A k \in S : m <= k
<1>1. IsWellFoundedOn(OpToRel(<, Nat), Nat)
  BY NatLessThanWellFounded
<1>2. PICK m \in S : \A k \in S : <<k, m>> \notin OpToRel(<, Nat)
  BY <1>1, WFMin
<1>3. \A k \in S : ~(k < m)
  BY <1>2 DEF OpToRel
<1> QED BY <1>3

\* A set that holds 0 and, with a number below n, its successor, holds all up to n.
LEMMA UpTo ==
  ASSUME NEW n \in Nat, NEW T, 0 \in T, \A i \in 0..(n - 1) : i \in T => i + 1 \in T
  PROVE  \A i \in 0..n : i \in T
<1> DEFINE S == {i \in 0..n : i \notin T}
<1> SUFFICES ASSUME S # {} PROVE FALSE
  OBVIOUS
<1>1. PICK m \in S : \A k \in S : m <= k
  <2>1. S \in SUBSET Nat
    OBVIOUS
  <2> QED BY <2>1, LeastNumber
<1>2. m # 0 /\ m - 1 \in 0..(n - 1)
  OBVIOUS
<1>3. m - 1 \in T
  <2>1. m - 1 \notin S
    BY <1>1, <1>2
  <2> QED BY <1>2, <2>1
<1> QED BY <1>2, <1>3

\* A step that keeps a set defines a sequence of its elements.
Stepwise(f, e, step, n) == f[0] = e /\ \A i \in 1..n : f[i] = step[<<i, f[i - 1]>>]
LEMMA StepsDefine ==
  ASSUME NEW n \in Nat, NEW X, NEW e \in X, NEW step \in [(1..n) \X X -> X]
  PROVE  \E f \in [0..n -> X] : Stepwise(f, e, step, n)
<1> DEFINE T == {k \in 0..n : \E f \in [0..n -> X] : Stepwise(f, e, step, k)}
<1>1. 0 \in T
  <2>1. [i \in 0..n |-> e] \in [0..n -> X] /\ Stepwise([i \in 0..n |-> e], e, step, 0)
    BY DEF Stepwise
  <2> QED BY <2>1
<1>2. ASSUME NEW k \in 0..(n - 1), k \in T PROVE k + 1 \in T
  <2>1. PICK f \in [0..n -> X] : Stepwise(f, e, step, k)
    BY <1>2
  <2> DEFINE g == [f EXCEPT ![k + 1] = step[<<k + 1, f[k]>>]]
  <2>2. g \in [0..n -> X]
    <3>1. <<k + 1, f[k]>> \in (1..n) \X X
      OBVIOUS
    <3>2. step[<<k + 1, f[k]>>] \in X
      BY <3>1
    <3> QED BY <3>2
  <2>3. Stepwise(g, e, step, k + 1)
    <3>1. g[0] = e
      BY <2>1 DEF Stepwise
    <3>2. ASSUME NEW i \in 1..(k + 1) PROVE g[i] = step[<<i, g[i - 1]>>]
      BY <2>1, <3>2 DEF Stepwise
    <3> QED BY <3>1, <3>2 DEF Stepwise
  <2> HIDE DEF g
  <2> QED BY <2>2, <2>3
<1> HIDE DEF T
<1>3. \A i \in 0..n : i \in T
  BY <1>1, <1>2, UpTo
<1> QED BY <1>3 DEF T

\* A fold over a finite set is a function on its subsets.
Folds(g, S, e, c, step) == g = [s \in SUBSET S |-> IF s = {} THEN e ELSE step[<<c[s], g[s \ {c[s]}]>>]]
Picks(c, S) == \A s \in SUBSET S : s # {} => c[s] \in s
LEMMA FoldDefines ==
  ASSUME NEW S, IsFiniteSet(S), NEW X, NEW e \in X, NEW c, Picks(c, S), NEW step \in [S \X X -> X]
  PROVE  \E g \in [SUBSET S -> X] : Folds(g, S, e, c, step)
<1> DEFINE n == Cardinality(S)
           Upto(g, k) == \A s \in SUBSET S : Cardinality(s) <= k =>
                           g[s] = IF s = {} THEN e ELSE step[<<c[s], g[s \ {c[s]}]>>]
           T == {k \in 0..n : \E g \in [SUBSET S -> X] : Upto(g, k)}
<1>1. n \in Nat /\ \A s \in SUBSET S : IsFiniteSet(s) /\ Cardinality(s) \in 0..n /\ (Cardinality(s) = 0 <=> s = {})
  BY FS_CardinalityType, FS_Subset, FS_EmptySet
<1>2. 0 \in T
  <2>1. [s \in SUBSET S |-> e] \in [SUBSET S -> X] /\ Upto([s \in SUBSET S |-> e], 0)
    BY <1>1
  <2> HIDE DEF Upto
  <2> QED BY <1>1, <2>1
<1>3. ASSUME NEW k \in 0..(n - 1), k \in T PROVE k + 1 \in T
  <2>1. PICK g \in [SUBSET S -> X] : Upto(g, k)
    BY <1>3
  <2> DEFINE h == [s \in SUBSET S |-> IF s = {} THEN e ELSE step[<<c[s], g[s \ {c[s]}]>>]]
  <2>2. h \in [SUBSET S -> X]
    <3>1. ASSUME NEW s \in SUBSET S, s # {} PROVE step[<<c[s], g[s \ {c[s]}]>>] \in X
      <4>1. <<c[s], g[s \ {c[s]}]>> \in S \X X
        BY <3>1 DEF Picks
      <4> QED BY <4>1
    <3> QED BY <3>1
  <2>3. \A s \in SUBSET S : Cardinality(s) <= k => h[s] = g[s]
    BY <2>1
  <2>4. Upto(h, k + 1)
    <3> SUFFICES ASSUME NEW s \in SUBSET S, Cardinality(s) <= k + 1
                 PROVE  h[s] = IF s = {} THEN e ELSE step[<<c[s], h[s \ {c[s]}]>>]
      OBVIOUS
    <3>1. CASE s = {}
      BY <3>1
    <3>2. CASE s # {}
      <4>1. c[s] \in s /\ s \ {c[s]} \in SUBSET S
        BY <3>2 DEF Picks
      <4>2. Cardinality(s \ {c[s]}) <= k
        BY <1>1, <4>1, FS_RemoveElement
      <4> QED BY <2>3, <3>2, <4>1, <4>2
    <3> QED BY <3>1, <3>2
  <2> HIDE DEF Upto, h
  <2> QED BY <1>1, <2>2, <2>4
<1> HIDE DEF T
<1>4. \A k \in 0..n : k \in T
  BY <1>1, <1>2, <1>3, UpTo
<1>5. PICK g \in [SUBSET S -> X] : Upto(g, n)
  BY <1>1, <1>4 DEF T
<1> DEFINE value(s) == IF s = {} THEN e ELSE step[<<c[s], g[s \ {c[s]}]>>]
<1>6. \A s \in SUBSET S : g[s] = value(s)
  BY <1>1, <1>5
<1>7. g = [s \in SUBSET S |-> value(s)]
  <2> HIDE DEF value
  <2> QED BY <1>5, <1>6
<1> QED BY <1>5, <1>7 DEF Folds

\* It is the only one, and the same on a subset.
LEMMA FoldUnique ==
  ASSUME NEW S, IsFiniteSet(S), NEW U \in SUBSET S, NEW e, NEW c, Picks(c, S), NEW step,
         NEW g, Folds(g, S, e, c, step), NEW h, Folds(h, U, e, c, step)
  PROVE  \A s \in SUBSET U : g[s] = h[s]
<1> DEFINE n == Cardinality(S)
           T == {k \in 0..n : \A s \in SUBSET U : Cardinality(s) = k => g[s] = h[s]}
<1>1. n \in Nat /\ \A s \in SUBSET S : IsFiniteSet(s) /\ Cardinality(s) \in 0..n /\ (Cardinality(s) = 0 <=> s = {})
  BY FS_CardinalityType, FS_Subset, FS_EmptySet
<1>2. \A s \in SUBSET U : /\ g[s] = IF s = {} THEN e ELSE step[<<c[s], g[s \ {c[s]}]>>]
                          /\ h[s] = IF s = {} THEN e ELSE step[<<c[s], h[s \ {c[s]}]>>]
  BY DEF Folds
<1>3. 0 \in T
  BY <1>1, <1>2
<1>4. ASSUME NEW k \in 0..(n - 1), k \in T PROVE k + 1 \in T
  <2>1. ASSUME NEW s \in SUBSET U, Cardinality(s) = k + 1 PROVE g[s] = h[s]
    <3>1. s # {} /\ c[s] \in s /\ s \ {c[s]} \in SUBSET U
      BY <1>1, <2>1 DEF Picks
    <3>2. Cardinality(s \ {c[s]}) = k
      BY <1>1, <2>1, <3>1, FS_RemoveElement
    <3>3. g[s \ {c[s]}] = h[s \ {c[s]}]
      BY <1>4, <3>1, <3>2
    <3> QED BY <1>2, <3>1, <3>3
  <2> QED BY <1>1, <2>1
<1> HIDE DEF T
<1>5. \A k \in 0..n : k \in T
  BY <1>1, <1>3, <1>4, UpTo
<1> QED BY <1>1, <1>5 DEF T

\* A fold over a finite set of numbers, the least first, goes one by one.
Top(n) == [s \in SUBSET (1..n) |-> Max(s)]
LEMMA TopPicks ==
  ASSUME NEW n \in Nat
  PROVE  /\ IsFiniteSet(1..n) /\ Picks(Top(n), 1..n)
         /\ \A i \in 1..n : Max(1..i) = i /\ (1..i) \ {i} = 1..(i - 1) /\ 1..i # {}
<1>1. IsFiniteSet(1..n)
  BY FS_Interval
<1>2. ASSUME NEW s \in SUBSET (1..n), s # {} PROVE Max(s) \in s
  <2> DEFINE gaps == {n - i : i \in s}
  <2>0. \A i \in s : i \in 1..n /\ n - i \in Nat
    OBVIOUS
  <2>1. gaps \in SUBSET Nat /\ gaps # {}
    BY <1>2, <2>0
  <2>2. PICK m \in gaps : \A k \in gaps : m <= k
    BY <2>1, LeastNumber
  <2>3. PICK i \in s : m = n - i
    BY <2>2
  <2>4. \A j \in s : i >= j
    <3> TAKE j \in s
    <3>1. n - j \in gaps /\ i \in Nat /\ j \in Nat
      OBVIOUS
    <3>2. m <= n - j
      BY <2>2, <3>1
    <3> QED BY <2>3, <3>1, <3>2
  <2> QED BY <2>4 DEF Max
<1>3. ASSUME NEW i \in 1..n PROVE Max(1..i) = i
  <2>1. \A x \in 1..i : (\A y \in 1..i : x >= y) => x = i
    OBVIOUS
  <2>2. i \in 1..i /\ \A y \in 1..i : i >= y
    OBVIOUS
  <2> QED BY <2>1, <2>2 DEF Max
<1>4. \A i \in 1..n : (1..i) \ {i} = 1..(i - 1) /\ 1..i # {}
  OBVIOUS
<1> QED BY <1>1, <1>2, <1>3, <1>4 DEF Top, Picks

(***************************************************************************)
(* Sorting: the elements of a finite set one after the other, in a strict  *)
(* total order R.                                                          *)
(***************************************************************************)

TotalOrder(R, S) ==
  /\ \A x \in S : <<x, x>> \notin R
  /\ \A x, y, z \in S : <<x, y>> \in R /\ <<y, z>> \in R => <<x, z>> \in R
  /\ \A x, y \in S : x = y \/ <<x, y>> \in R \/ <<y, x>> \in R
InOrder(q, S, R) ==
  /\ q \in [1..Cardinality(S) -> S]
  /\ \A i, j \in 1..Cardinality(S) : i < j => <<q[i], q[j]>> \in R
  /\ \A x \in S : \E i \in 1..Cardinality(S) : q[i] = x
Places(S, R) == [k \in 1..Cardinality(S) |-> CHOOSE x \in S : Cardinality({y \in S : <<y, x>> \in R}) = k - 1]
LEMMA RanksOrder ==
  ASSUME NEW S, IsFiniteSet(S), NEW R, TotalOrder(R, S)
  PROVE  InOrder(Places(S, R), S, R)
<1> DEFINE n == Cardinality(S)
           q == Places(S, R)
           below(x) == {y \in S : <<y, x>> \in R}
           rank == [x \in S |-> Cardinality(below(x))]
<1>1. n \in Nat /\ \A s \in SUBSET S : IsFiniteSet(s) /\ Cardinality(s) \in 0..n
  BY FS_CardinalityType, FS_Subset
<1>2. ASSUME NEW x \in S PROVE Cardinality(below(x)) \in 0..(n - 1) /\ IsFiniteSet(below(x))
  <2>1. below(x) \in SUBSET (S \ {x})
    BY DEF TotalOrder
  <2>2. IsFiniteSet(S \ {x}) /\ Cardinality(S \ {x}) = n - 1
    BY FS_RemoveElement
  <2>3. IsFiniteSet(below(x)) /\ Cardinality(below(x)) <= n - 1 /\ Cardinality(below(x)) \in Nat
    BY <2>1, <2>2, FS_Subset, FS_CardinalityType
  <2> QED BY <1>1, <2>3
<1>3. ASSUME NEW x \in S, NEW y \in S, <<x, y>> \in R PROVE Cardinality(below(x)) < Cardinality(below(y))
  <2>1. below(x) \cup {x} \in SUBSET below(y) /\ x \notin below(x)
    BY <1>3 DEF TotalOrder
  <2>2. IsFiniteSet(below(x) \cup {x}) /\ Cardinality(below(x) \cup {x}) = Cardinality(below(x)) + 1
    BY <1>2, <2>1, FS_AddElement
  <2>3. Cardinality(below(x) \cup {x}) <= Cardinality(below(y))
    BY <1>2, <2>1, FS_Subset
  <2> HIDE DEF below
  <2> QED BY <1>1, <1>2, <2>2, <2>3
<1> HIDE DEF below
<1>4. rank \in Injection(S, 0..(n - 1))
  <2>1. rank \in [S -> 0..(n - 1)]
    BY <1>2
  <2>2. ASSUME NEW x \in S, NEW y \in S, rank[x] = rank[y] PROVE x = y
    <3>1. ~ (Cardinality(below(x)) < Cardinality(below(y))) /\ ~ (Cardinality(below(y)) < Cardinality(below(x)))
      BY <1>2, <2>2
    <3> QED BY <1>3, <3>1 DEF TotalOrder
  <2> QED BY <2>1, <2>2 DEF Injection, IsInjective
<1>5. IsFiniteSet(0..(n - 1)) /\ Cardinality(0..(n - 1)) = n
  <2>1. 0 \in Int /\ n - 1 \in Int /\ n \in Nat
    BY <1>1
  <2> HIDE DEF n
  <2> QED BY <2>1, FS_Interval
<1> HIDE DEF rank
<1>6. rank \in Surjection(S, 0..(n - 1))
  BY <1>4, <1>5, FS_Injection
<1>7. ASSUME NEW k \in 1..n PROVE q[k] \in S /\ Cardinality(below(q[k])) = k - 1
  <2>1. k - 1 \in 0..(n - 1)
    BY <1>1
  <2>2. \E x \in S : rank[x] = k - 1
    BY <1>6, <2>1 DEF Surjection
  <2>3. q[k] = CHOOSE x \in S : Cardinality(below(x)) = k - 1
    BY DEF below, Places
  <2> QED BY <2>2, <2>3 DEF rank
<1>8. q \in [1..n -> S]
  <2> DEFINE at(k) == CHOOSE x \in S : Cardinality({y \in S : <<y, x>> \in R}) = k - 1
  <2>1. q = [k \in 1..n |-> at(k)]
    BY DEF Places
  <2> HIDE DEF at
  <2> QED BY <1>7, <2>1
<1> HIDE DEF q
<1>9. ASSUME NEW i \in 1..n, NEW j \in 1..n, i < j PROVE <<q[i], q[j]>> \in R
  <2>1. q[i] # q[j]
    BY <1>1, <1>7, <1>9
  <2>2. <<q[j], q[i]>> \notin R
    BY <1>1, <1>3, <1>7, <1>9
  <2> QED BY <1>7, <2>1, <2>2 DEF TotalOrder
<1>10. ASSUME NEW x \in S PROVE \E i \in 1..n : q[i] = x
  <2>1. Cardinality(below(x)) + 1 \in 1..n
    BY <1>1, <1>2
  <2>2. \A i \in 1..n : i = Cardinality(below(x)) + 1 => Cardinality(below(q[i])) = Cardinality(below(x)) /\ q[i] \in S
    BY <1>1, <1>2, <1>7
  <2>3. \A y \in S : Cardinality(below(y)) = Cardinality(below(x)) => y = x
    <3> TAKE y \in S
    <3>1. ~ (Cardinality(below(y)) < Cardinality(below(x))) \/ Cardinality(below(y)) # Cardinality(below(x))
      BY <1>2
    <3>2. ~ (Cardinality(below(x)) < Cardinality(below(y))) \/ Cardinality(below(y)) # Cardinality(below(x))
      BY <1>2
    <3> QED BY <1>3, <3>1, <3>2 DEF TotalOrder
  <2> QED BY <2>1, <2>2, <2>3
<1> QED BY <1>8, <1>9, <1>10 DEF InOrder, q

\* The positions kept of a sequence, in their order.
Below(at) == {p \in at \X at : p[1] < p[2]}
LEMMA PositionsInOrder ==
  ASSUME NEW at \in SUBSET Int, IsFiniteSet(at)
  PROVE  InOrder(Ranked(at, <), at, Below(at))
<1>1. TotalOrder(Below(at), at)
  BY DEF TotalOrder, Below
<1>2. \A x \in at : {y \in at : y < x} = {y \in at : <<y, x>> \in Below(at)}
  BY DEF Below
<1> DEFINE q == Ranked(at, <)
<1>3. q = Places(at, Below(at))
  <2>1. q = [k \in 1..Cardinality(at) |-> CHOOSE x \in at : Cardinality({y \in at : y < x}) = k - 1]
    BY DEF Ranked
  <2>2. \A k \in 1..Cardinality(at) : (CHOOSE x \in at : Cardinality({y \in at : y < x}) = k - 1)
                                      = CHOOSE x \in at : Cardinality({y \in at : <<y, x>> \in Below(at)}) = k - 1
    BY <1>2
  <2> QED BY <2>1, <2>2 DEF Places
<1> HIDE DEF q
<1>4. InOrder(q, at, Below(at))
  BY <1>1, <1>3, RanksOrder
<1> QED BY <1>4 DEF q

(***************************************************************************)
(* Sums of a function over a finite set.                                   *)
(***************************************************************************)

AnyOf(S) == [s \in SUBSET S |-> CHOOSE x \in s : TRUE]

LEMMA AnyPicks == ASSUME NEW S PROVE Picks(AnyOf(S), S)
  BY DEF Picks, AnyOf

SumsOf(g, w, U) ==
  /\ \A s \in SUBSET U : g[s] = Total(w, s)
  /\ g[{}] = 0
  /\ \A s \in SUBSET U : s # {} => \E x \in s : g[s] = g[s \ {x}] + w[x]
LEMMA TotalIsFold ==
  ASSUME NEW U, IsFiniteSet(U), NEW w \in [U -> Nat]
  PROVE  \E g \in [SUBSET U -> Nat] : SumsOf(g, w, U)
<1> DEFINE c == AnyOf(U)
           step == [p \in U \X Nat |-> p[2] + w[p[1]]]
           Sums(h, S) == h = [T \in SUBSET S |-> IF T = {} THEN 0 ELSE h[T \ {CHOOSE x \in T : TRUE}] + w[CHOOSE x \in T : TRUE]]
<1>1. Picks(c, U) /\ step \in [U \X Nat -> Nat]
  BY AnyPicks
<1>2. PICK g \in [SUBSET U -> Nat] : Folds(g, U, 0, c, step)
  <2> HIDE DEF c, step
  <2> QED BY <1>1, FoldDefines
<1>3. ASSUME NEW S \in SUBSET U, NEW h, Sums(h, S) PROVE \A s \in SUBSET S : g[s] = h[s]
  <2> DEFINE n == Cardinality(U)
             T == {k \in 0..n : \A s \in SUBSET S : Cardinality(s) = k => g[s] = h[s]}
  <2>1. n \in Nat /\ \A s \in SUBSET U : IsFiniteSet(s) /\ Cardinality(s) \in 0..n /\ (Cardinality(s) = 0 <=> s = {})
    BY FS_CardinalityType, FS_Subset, FS_EmptySet
  <2>2. 0 \in T
    BY <1>2, <1>3, <2>1 DEF Folds
  <2>3. ASSUME NEW k \in 0..(n - 1), k \in T PROVE k + 1 \in T
    <3>1. ASSUME NEW s \in SUBSET S, Cardinality(s) = k + 1 PROVE g[s] = h[s]
      <4> DEFINE x == CHOOSE x \in s : TRUE
      <4>1. s # {} /\ x \in s /\ s \ {x} \in SUBSET S
        BY <2>1, <3>1
      <4>2. Cardinality(s \ {x}) = k
        <5>1. IsFiniteSet(s) /\ Cardinality(s) = k + 1 /\ k \in Nat
          BY <2>1, <3>1
        <5>2. x \in s
          BY <4>1
        <5> HIDE DEF x
        <5>3. Cardinality(s \ {x}) = Cardinality(s) - 1
          BY <5>1, <5>2, FS_RemoveElement
        <5> QED BY <5>1, <5>3
      <4>3. g[s \ {x}] = h[s \ {x}]
        BY <2>3, <4>1, <4>2
      <4>4. h[s] = h[s \ {x}] + w[x]
        BY <1>3, <4>1
      <4>5. c[s] = x /\ <<x, g[s \ {x}]>> \in U \X Nat
        BY <4>1 DEF AnyOf
      <4>6. g[s] = step[<<x, g[s \ {x}]>>]
        BY <1>2, <4>1, <4>5 DEF Folds
      <4> QED BY <4>3, <4>4, <4>5, <4>6
    <3> QED BY <2>1, <3>1
  <2> HIDE DEF T
  <2>4. \A k \in 0..n : k \in T
    BY <2>1, <2>2, <2>3, UpTo
  <2> QED BY <2>1, <2>4 DEF T
<1>4. ASSUME NEW S \in SUBSET U PROVE g[S] = Total(w, S)
  <2> DEFINE h == [T \in SUBSET S |-> g[T]]
  <2>1. Sums(h, S)
    <3>1. ASSUME NEW T \in SUBSET S PROVE g[T] = IF T = {} THEN 0 ELSE g[T \ {CHOOSE x \in T : TRUE}] + w[CHOOSE x \in T : TRUE]
      <4>1. CASE T = {}
        BY <1>2, <4>1 DEF Folds
      <4>2. CASE T # {}
        <5> DEFINE x == CHOOSE x \in T : TRUE
        <5>1. x \in T /\ T \in SUBSET U /\ T \ {x} \in SUBSET U
          BY <4>2
        <5>2. c[T] = x /\ <<x, g[T \ {x}]>> \in U \X Nat
          BY <5>1 DEF AnyOf
        <5>3. g[T] = step[<<x, g[T \ {x}]>>]
          BY <1>2, <4>2, <5>1, <5>2 DEF Folds
        <5> QED BY <4>2, <5>2, <5>3
      <4> QED BY <4>1, <4>2
    <3>2. \A T \in SUBSET S : T # {} => T \ {CHOOSE x \in T : TRUE} \in SUBSET S
      OBVIOUS
    <3> QED BY <3>1, <3>2
  <2> DEFINE i == CHOOSE f : Sums(f, S)
  <2>2. Sums(i, S)
    <3> HIDE DEF Sums
    <3> QED BY <2>1
  <2>3. Total(w, S) = i[S]
    BY DEF Total, FoldSet, MapThenFoldSet
  <2> HIDE DEF i, Sums
  <2> QED BY <1>3, <2>2, <2>3
<1>5. g[{}] = 0
  BY <1>2 DEF Folds
<1>6. ASSUME NEW s \in SUBSET U, s # {} PROVE \E x \in s : g[s] = g[s \ {x}] + w[x]
  <2>1. c[s] \in s /\ g[s] = step[<<c[s], g[s \ {c[s]}]>>]
    BY <1>1, <1>2, <1>6 DEF Folds, Picks
  <2>2. <<c[s], g[s \ {c[s]}]>> \in U \X Nat
    BY <2>1
  <2> HIDE DEF c
  <2> QED BY <2>1, <2>2
<1> QED BY <1>4, <1>5, <1>6 DEF SumsOf

\* A sum does not depend on the order: any element may be taken last.
LEMMA TotalAdds ==
  ASSUME NEW U, IsFiniteSet(U), NEW w \in [U -> Nat]
  PROVE  /\ Total(w, {}) = 0
         /\ \A s \in SUBSET U : /\ Total(w, s) \in Nat
                                /\ \A x \in s : Total(w, s) = Total(w, s \ {x}) + w[x]
<1> DEFINE n == Cardinality(U)
           T == {k \in 0..n : \A s \in SUBSET U : Cardinality(s) = k =>
                                \A x \in s : Total(w, s) = Total(w, s \ {x}) + w[x]}
<1>1. n \in Nat /\ \A s \in SUBSET U : IsFiniteSet(s) /\ Cardinality(s) \in 0..n /\ (Cardinality(s) = 0 <=> s = {})
  BY FS_CardinalityType, FS_Subset, FS_EmptySet
<1>2. PICK g \in [SUBSET U -> Nat] :
           /\ \A s \in SUBSET U : g[s] = Total(w, s)
           /\ g[{}] = 0
           /\ \A s \in SUBSET U : s # {} => \E x \in s : g[s] = g[s \ {x}] + w[x]
  <2>1. PICK g \in [SUBSET U -> Nat] : SumsOf(g, w, U)
    BY TotalIsFold
  <2> QED BY <2>1 DEF SumsOf
<1>3. 0 \in T
  BY <1>1
<1>4. ASSUME NEW k \in 0..(n - 1), k \in T PROVE k + 1 \in T
  <2>1. ASSUME NEW s \in SUBSET U, Cardinality(s) = k + 1, NEW x \in s
        PROVE  Total(w, s) = Total(w, s \ {x}) + w[x]
    <3>1. \A z \in s : Cardinality(s \ {z}) = k
      <4> TAKE z \in s
      <4>1. IsFiniteSet(s)
        BY <1>1
      <4>2. Cardinality(s \ {z}) = Cardinality(s) - 1
        BY <4>1, FS_RemoveElement
      <4> QED BY <2>1, <4>2, <1>1
    <3>2. PICK y \in s : g[s] = g[s \ {y}] + w[y]
      BY <1>2
    <3>3. CASE x = y
      <4>1. s \in SUBSET U /\ s \ {x} \in SUBSET U
        OBVIOUS
      <4> QED BY <1>2, <3>2, <3>3, <4>1
    <3>4. CASE x # y
      <4>1. s \ {x} \in SUBSET U /\ s \ {y} \in SUBSET U /\ y \in s \ {x} /\ x \in s \ {y}
        BY <3>4
      <4>2. Total(w, s \ {y}) = Total(w, (s \ {y}) \ {x}) + w[x]
        BY <1>4, <3>1, <4>1
      <4>3. Total(w, s \ {x}) = Total(w, (s \ {x}) \ {y}) + w[y]
        BY <1>4, <3>1, <4>1
      <4>4. (s \ {x}) \ {y} = (s \ {y}) \ {x} /\ (s \ {x}) \ {y} \in SUBSET U
        OBVIOUS
      <4>5. Total(w, s) = Total(w, s \ {y}) + w[y] /\ Total(w, (s \ {x}) \ {y}) \in Nat
        <5>1. g[s] = Total(w, s) /\ g[s \ {y}] = Total(w, s \ {y}) /\ g[(s \ {x}) \ {y}] = Total(w, (s \ {x}) \ {y})
          BY <1>2, <4>1, <4>4
        <5>2. g[(s \ {x}) \ {y}] \in Nat
          BY <1>2, <4>4
        <5> QED BY <3>2, <5>1, <5>2
      <4>6. w[x] \in Nat /\ w[y] \in Nat
        OBVIOUS
      <4> DEFINE a == Total(w, (s \ {x}) \ {y})
      <4>7. Total(w, s \ {y}) = a + w[x] /\ Total(w, s \ {x}) = a + w[y] /\ a \in Nat
        BY <4>2, <4>3, <4>4, <4>5
      <4> HIDE DEF a
      <4> QED BY <4>5, <4>6, <4>7
    <3> QED BY <3>3, <3>4
  <2> QED BY <1>1, <2>1
<1> HIDE DEF T
<1>5. \A k \in 0..n : k \in T
  BY <1>1, <1>3, <1>4, UpTo
<1>6. ASSUME NEW s \in SUBSET U PROVE Total(w, s) \in Nat /\ \A x \in s : Total(w, s) = Total(w, s \ {x}) + w[x]
  <2>1. Total(w, s) \in Nat
    BY <1>2
  <2>2. \A x \in s : Total(w, s) = Total(w, s \ {x}) + w[x]
    BY <1>1, <1>5 DEF T
  <2> QED BY <2>1, <2>2
<1>7. Total(w, {}) = 0
  <2>1. {} \in SUBSET U
    OBVIOUS
  <2> QED BY <1>2, <2>1
<1> QED BY <1>6, <1>7

\* What counts for nothing may be left out of a sum.
LEMMA TotalOfPart ==
  ASSUME NEW U, IsFiniteSet(U), NEW w \in [U -> Nat], NEW S \in SUBSET U, NEW v \in [S -> Nat],
         \A x \in S : v[x] = w[x], \A x \in U \ S : w[x] = 0
  PROVE  Total(v, S) = Total(w, U)
<1> DEFINE n == Cardinality(U)
           T == {k \in 0..n : \A s \in SUBSET U : Cardinality(s) = k => Total(w, s) = Total(v, s \cap S)}
<1>1. n \in Nat /\ \A s \in SUBSET U : IsFiniteSet(s) /\ Cardinality(s) \in 0..n /\ (Cardinality(s) = 0 <=> s = {})
  BY FS_CardinalityType, FS_Subset, FS_EmptySet
<1>2. IsFiniteSet(S)
  BY FS_Subset
<1>3. Total(w, {}) = 0 /\ Total(v, {}) = 0
  BY <1>2, TotalAdds
<1>4. 0 \in T
  <2>1. ASSUME NEW s \in SUBSET U, Cardinality(s) = 0 PROVE Total(w, s) = Total(v, s \cap S)
    <3>1. s = {} /\ s \cap S = {}
      BY <1>1, <2>1
    <3> QED BY <1>3, <3>1
  <2> QED BY <1>1, <2>1
<1>5. ASSUME NEW k \in 0..(n - 1), k \in T PROVE k + 1 \in T
  <2>1. ASSUME NEW s \in SUBSET U, Cardinality(s) = k + 1 PROVE Total(w, s) = Total(v, s \cap S)
    <3>1. PICK x \in s : TRUE
      BY <1>1, <2>1
    <3>2. Cardinality(s \ {x}) = k
      <4>1. Cardinality(s \ {x}) = Cardinality(s) - 1
        BY <1>1, FS_RemoveElement
      <4> QED BY <2>1, <4>1, <1>1
    <3>3. Total(w, s) = Total(w, s \ {x}) + w[x] /\ Total(w, s \ {x}) = Total(v, (s \ {x}) \cap S)
      <4>1. s \ {x} \in SUBSET U
        OBVIOUS
      <4>2. Total(w, s) = Total(w, s \ {x}) + w[x]
        BY TotalAdds
      <4> QED BY <1>5, <3>2, <4>1, <4>2
    <3>4. CASE x \in S
      <4>1. s \cap S \in SUBSET S /\ x \in s \cap S /\ (s \ {x}) \cap S = (s \cap S) \ {x}
        BY <3>4
      <4>2. Total(v, s \cap S) = Total(v, (s \cap S) \ {x}) + v[x]
        BY <1>2, <4>1, TotalAdds
      <4> QED BY <3>3, <3>4, <4>1, <4>2
    <3>5. CASE x \notin S
      <4>1. (s \ {x}) \cap S = s \cap S /\ w[x] = 0
        BY <3>5
      <4>2. Total(v, s \cap S) \in Nat
        <5>1. s \cap S \in SUBSET S
          OBVIOUS
        <5> QED BY <1>2, <5>1, TotalAdds
      <4>3. Total(w, s \ {x}) = Total(v, s \cap S) /\ Total(w, s) = Total(w, s \ {x}) + 0
        BY <3>3, <4>1
      <4> QED BY <4>2, <4>3
    <3> QED BY <3>4, <3>5
  <2> QED BY <1>1, <2>1
<1> HIDE DEF T
<1>6. \A k \in 0..n : k \in T
  BY <1>1, <1>4, <1>5, UpTo
<1>7. U \cap S = S /\ n \in 0..n
  BY <1>1
<1> QED BY <1>6, <1>7 DEF T
-----------------------------------------------------------------------------
(***************************************************************************)
(* The command line.                                                       *)
(***************************************************************************)

Kind == {"hash", "ollama"}
Command ==
       [cmd : {"index"}, member : FleetSet, kind : Kind, steps : Nat]
  \cup [cmd : {"index_workspace"}, kind : Kind, steps : Nat]
  \cup [cmd : {"init"}, force : BOOLEAN, members : Nat]
StoreState ==
  [stores : [FleetSet -> Kind \cup {NotIndexed}], graph : BOOLEAN, manifest : BOOLEAN, exit : {0, 1}]

\* A command leaves every store as it was or built by one of the two backends.
LEMMA ActKeepsStores ==
  ASSUME NEW st \in StoreState, NEW c \in Command
  PROVE  Act(st, c) \in StoreState
<1>1. CASE c.cmd = "index"
  BY <1>1 DEF Act, Command, StoreState, CmdIndex, Kind
<1>2. CASE c.cmd = "index_workspace"
  <2>1. c.kind \in Kind
    BY <1>2 DEF Command
  <2> DEFINE done == {i \in 1..Len(Fleet) : Built(c.kind, c.steps, i)}
             stores == [m \in FleetSet |-> IF \E i \in done : Fleet[i] = m THEN c.kind ELSE st.stores[m]]
  <2>2. stores \in [FleetSet -> Kind \cup {NotIndexed}]
    BY <2>1 DEF StoreState
  <2> HIDE DEF stores
  <2>3. CASE ~st.manifest \/ BuildEmbedder(c.kind, c.steps) = Refuse
    BY <1>2, <2>3 DEF Act, CmdIndexWorkspace, StoreState
  <2>4. CASE ~(~st.manifest \/ BuildEmbedder(c.kind, c.steps) = Refuse)
    <3>1. Act(st, c) = [st EXCEPT !.stores = stores, !.graph = @ \/ (done = 1..Len(Fleet)),
                                  !.exit = IF done = 1..Len(Fleet) THEN 0 ELSE 1]
      BY <1>2, <2>4 DEF Act, CmdIndexWorkspace, stores
    <3> HIDE DEF done
    <3> QED BY <3>1, <2>2 DEF StoreState
  <2> QED BY <2>3, <2>4
<1>3. CASE c.cmd = "init"
  BY <1>3 DEF Act, CmdWorkspaceInit, StoreState
<1> QED BY <1>1, <1>2, <1>3 DEF Command

\* What any sequence of commands leads to, and by which last step.
LEMMA AfterCommands ==
  ASSUME NEW cmds \in Seq(Command), cmds # <<>>
  PROVE  /\ After(cmds) \in StoreState
         /\ \E st \in StoreState : After(cmds) = Act(st, cmds[Len(cmds)])
<1> DEFINE n == Len(cmds)
           Run(f) == f = [i \in 0..n |-> IF i = 0 THEN NothingIndexed ELSE Act(f[i - 1], cmds[i])]
           step == [p \in (1..n) \X StoreState |-> Act(p[2], cmds[p[1]])]
<1>1. n \in Nat \ {0} /\ \A i \in 1..n : cmds[i] \in Command
  OBVIOUS
<1>2. NothingIndexed \in StoreState
  BY DEF NothingIndexed, StoreState
<1>3. step \in [(1..n) \X StoreState -> StoreState]
  BY <1>1, ActKeepsStores
<1> HIDE DEF n
<1>4. PICK f \in [0..n -> StoreState] : Stepwise(f, NothingIndexed, step, n)
  <2> HIDE DEF step
  <2> QED BY <1>1, <1>2, <1>3, StepsDefine
<1>5. \A i \in 1..n : f[i] = Act(f[i - 1], cmds[i])
  <2> TAKE i \in 1..n
  <2>1. i - 1 \in 0..n
    BY <1>1
  <2>2. <<i, f[i - 1]>> \in (1..n) \X StoreState
    BY <2>1
  <2> QED BY <2>2, <1>4 DEF Stepwise
<1>6. Run(f)
  BY <1>4, <1>5, <1>1 DEF Stepwise
<1>7. PICK at : Run(at) /\ After(cmds) = at[n]
  <2> DEFINE at == CHOOSE g : Run(g)
  <2>1. Run(at)
    BY <1>6
  <2>2. After(cmds) = at[n]
    BY DEF After, n
  <2> QED BY <2>1, <2>2
<1>8. \A i \in 0..n : at[i] \in StoreState
  <2> DEFINE T == {i \in 0..n : at[i] \in StoreState}
  <2>1. 0 \in T
    BY <1>1, <1>2, <1>7
  <2>2. \A i \in 0..(n - 1) : i \in T => i + 1 \in T
    BY <1>1, <1>7, ActKeepsStores
  <2> HIDE DEF T
  <2>3. \A i \in 0..n : i \in T
    BY <1>1, <2>1, <2>2, UpTo
  <2> QED BY <2>3 DEF T
<1>9. at[n] = Act(at[n - 1], cmds[n]) /\ n - 1 \in 0..n /\ n \in 0..n
  BY <1>1, <1>7
<1> QED BY <1>7, <1>8, <1>9 DEF n

\* The pairs of a search: a hash query meets hash vectors only, and an Ollama query meets
\* hash vectors just when both backends are loaded and Ollama answers twice.
LEMMA SearchPairs ==
  ASSUME NEW loaded, loaded \subseteq Kind \cup {NotIndexed}, NEW steps \in Nat, NEW down
  PROVE  LET pairs == SearchOver(loaded, steps, down).pairs
         IN /\ \A p \in pairs : p[1] = "hash" => p[2] = "hash"
            /\ Crossed(pairs) <=> loaded = {"hash", "ollama"} /\ steps >= 2
<1> DEFINE pairs == SearchOver(loaded, steps, down).pairs
           query == QueryEmbedder(loaded, steps)
<1>1. CASE NotIndexed \in loaded
  <2>1. pairs = {} /\ loaded # {"hash", "ollama"}
    BY <1>1 DEF SearchOver, Searched, NotIndexed
  <2> QED BY <2>1 DEF Crossed
<1>2. CASE NotIndexed \notin loaded /\ "ollama" \notin loaded
  <2>1. loaded \subseteq {"hash"} /\ loaded # {"hash", "ollama"}
    BY <1>2 DEF Kind
  <2>2. pairs = {<<"hash", b>> : b \in loaded}
    BY <1>2 DEF SearchOver, Searched, QueryEmbedder, Compared, Refuse
  <2> QED BY <2>1, <2>2 DEF Crossed
<1>3. CASE NotIndexed \notin loaded /\ "ollama" \in loaded /\ steps < 2
  <2>1. pairs = {}
    BY <1>3 DEF SearchOver, Searched, QueryEmbedder, Compared, Refuse
  <2> QED BY <1>3, <2>1 DEF Crossed
<1>4. CASE NotIndexed \notin loaded /\ "ollama" \in loaded /\ steps >= 2
  <2>1. pairs = {<<"ollama", b>> : b \in loaded}
    BY <1>4 DEF SearchOver, Searched, QueryEmbedder, Compared, Refuse
  <2>2. loaded \subseteq {"hash", "ollama"}
    BY <1>4 DEF Kind
  <2> HIDE DEF pairs, query
  <2>3. ASSUME NEW p \in pairs PROVE p[1] = "ollama" /\ p[2] \in loaded
    <3>1. PICK b \in loaded : p = <<"ollama", b>>
      BY <2>1
    <3> QED BY <3>1
  <2>4. "hash" \in loaded => <<"ollama", "hash">> \in pairs
    BY <2>1
  <2>5. ASSUME NEW p \in pairs, p[1] # p[2] PROVE "hash" \in loaded
    <3>1. p[2] \in {"hash", "ollama"} /\ p[2] # "ollama" /\ p[2] \in loaded
      BY <2>2, <2>3, <2>5
    <3> QED BY <3>1
  <2>6. <<"ollama", "hash">>[1] # <<"ollama", "hash">>[2]
    OBVIOUS
  <2>7. Crossed(pairs) <=> "hash" \in loaded
    BY <2>4, <2>5, <2>6 DEF Crossed
  <2>8. loaded = {"hash", "ollama"} <=> "hash" \in loaded
    BY <1>4, <2>2
  <2>9. \A p \in pairs : p[1] = "hash" => p[2] = "hash"
    BY <2>3
  <2> QED BY <1>4, <2>7, <2>8, <2>9 DEF pairs
<1>5. steps < 2 \/ steps >= 2
  OBVIOUS
<1> QED BY <1>1, <1>2, <1>3, <1>4, <1>5

BackendInputOK == For("backend") => input.cmds \in Seq(Command) /\ input.cmds # <<>> /\ input.steps \in Nat
LEMMA QueriesFitStores == BackendInputOK => OneStoreOneSpace /\ MixedIsCrossed /\ FullIndexUnmixes
<1> SUFFICES ASSUME For("backend"), input.cmds \in Seq(Command), input.cmds # <<>>, input.steps \in Nat
             PROVE  OneStoreOneSpace /\ MixedIsCrossed /\ FullIndexUnmixes
  BY DEF BackendInputOK, OneStoreOneSpace, MixedIsCrossed, FullIndexUnmixes
<1> DEFINE st == After(input.cmds)
           last == input.cmds[Len(input.cmds)]
           steps == input.steps
<1>1. st \in StoreState /\ \E before \in StoreState : st = Act(before, last)
  BY AfterCommands
<1> HIDE DEF st, last
<1>2. ASSUME NEW scope \in SUBSET FleetSet
      PROVE  LET mixed == {st.stores[m] : m \in scope} = {"hash", "ollama"} /\ steps >= 2
                 listed == CmdSearchWorkspace(st, scope, steps).pairs
                 told == PickEmbedder(st, scope, steps).pairs
             IN /\ <<"hash", "ollama">> \notin listed \cup told
                /\ Crossed(listed) <=> st.manifest /\ mixed
                /\ Crossed(told) <=> mixed
  <2> DEFINE loaded == {st.stores[m] : m \in scope}
  <2>1. loaded \subseteq Kind \cup {NotIndexed}
    BY <1>1 DEF StoreState
  <2>2. CmdSearchWorkspace(st, scope, steps).pairs = IF st.manifest THEN SearchOver(loaded, steps, 1).pairs ELSE {}
    BY <1>1 DEF CmdSearchWorkspace, Searched, StoreState
  <2>3. PickEmbedder(st, scope, steps).pairs = SearchOver(loaded, steps, 0).pairs
    BY DEF PickEmbedder
  <2>4. ~ Crossed({})
    BY DEF Crossed
  <2> HIDE DEF loaded
  <2>5. \A down : LET pairs == SearchOver(loaded, steps, down).pairs
                  IN /\ \A p \in pairs : p[1] = "hash" => p[2] = "hash"
                     /\ Crossed(pairs) <=> loaded = {"hash", "ollama"} /\ steps >= 2
    BY <2>1, SearchPairs
  <2>6. \A down : <<"hash", "ollama">> \notin SearchOver(loaded, steps, down).pairs
    BY <2>5
  <2>7. <<"hash", "ollama">> \notin CmdSearchWorkspace(st, scope, steps).pairs \cup PickEmbedder(st, scope, steps).pairs
    BY <2>2, <2>3, <2>6
  <2>8. /\ Crossed(CmdSearchWorkspace(st, scope, steps).pairs) <=> st.manifest /\ loaded = {"hash", "ollama"} /\ steps >= 2
        /\ Crossed(PickEmbedder(st, scope, steps).pairs) <=> loaded = {"hash", "ollama"} /\ steps >= 2
    BY <2>2, <2>3, <2>4, <2>5
  <2> QED BY <2>7, <2>8 DEF loaded
<1>3. ASSUME NEW m \in FleetSet
      PROVE  /\ ~ Crossed(CmdSearch(st, m, steps).pairs)
             /\ ~ Crossed(PickEmbedder(st, {m}, steps).pairs)
             /\ ~ Crossed(CmdSearchWorkspace(st, {m}, steps).pairs)
  <2>1. {m} \in SUBSET FleetSet /\ {st.stores[x] : x \in {m}} = {st.stores[m]} /\ {st.stores[m]} # {"hash", "ollama"}
    <3>1. \A y : {y} # {"hash", "ollama"}
      <4> SUFFICES ASSUME NEW y, {y} = {"hash", "ollama"} PROVE FALSE
        BY Zenon
      <4>1. "hash" \in {y} /\ "ollama" \in {y}
        BY Zenon
      <4>2. "hash" = "ollama"
        BY <4>1, Zenon
      <4> QED BY <4>2
    <3>2. {m} \in SUBSET FleetSet
      OBVIOUS
    <3>3. {st.stores[x] : x \in {m}} = {st.stores[m]}
      BY Zenon
    <3> QED BY <3>1, <3>2, <3>3
  <2>2. {st.stores[m]} \subseteq Kind \cup {NotIndexed}
    BY <1>1 DEF StoreState
  <2> DEFINE one == {st.stores[m]}
  <2>3. CmdSearch(st, m, steps).pairs = SearchOver(one, steps, 1).pairs
    BY DEF CmdSearch
  <2>4. one \subseteq Kind \cup {NotIndexed} /\ one # {"hash", "ollama"} /\ steps \in Nat
    BY <2>1, <2>2
  <2> HIDE DEF one
  <2>5. ~ Crossed(SearchOver(one, steps, 1).pairs)
    BY <2>4, SearchPairs
  <2>6. ~ Crossed(CmdSearch(st, m, steps).pairs)
    BY <2>3, <2>5
  <2> QED BY <1>2, <2>1, <2>6
<1>4. ASSUME last.cmd = "index_workspace", st.exit = 0
      PROVE  st.graph /\ \A m, n \in FleetSet : st.stores[m] = st.stores[n]
  <2>1. PICK before \in StoreState : st = Act(before, last)
    BY <1>1
  <2> DEFINE done == {i \in 1..Len(Fleet) : Built(last.kind, last.steps, i)}
  <2>2. Act(before, last) = CmdIndexWorkspace(before, last.kind, last.steps)
    BY <1>4 DEF Act
  <2>3. done = 1..Len(Fleet)
    BY <1>4, <2>1, <2>2 DEF CmdIndexWorkspace, StoreState
  <2>4. st.graph /\ st.stores = [m \in FleetSet |-> IF \E i \in done : Fleet[i] = m THEN last.kind ELSE before.stores[m]]
    BY <1>4, <2>1, <2>2, <2>3 DEF CmdIndexWorkspace, StoreState
  <2>5. \A m \in FleetSet : \E i \in done : Fleet[i] = m
    BY <2>3 DEF FleetSet
  <2> HIDE DEF done
  <2> QED BY <2>4, <2>5
<1>5. OneStoreOneSpace
  BY <1>3 DEF OneStoreOneSpace, st
<1>6. MixedIsCrossed
  BY <1>2 DEF MixedIsCrossed, st
<1>7. FullIndexUnmixes
  BY <1>4 DEF FullIndexUnmixes, st, last
<1> QED BY <1>5, <1>6, <1>7

\* Of two flags both are read unless both are given.
LEMMA FirstOfIsAll ==
  ASSUME NEW a, NEW b, a # b, NEW given
  PROVE  /\ FirstOf(a, b, given) \subseteq {a, b}
         /\ FirstOf(a, b, given) = given \cap {a, b} <=> ~({a, b} \subseteq given)
<1>1. CASE a \in given
  BY <1>1 DEF FirstOf
<1>2. CASE a \notin given
  BY <1>2 DEF FirstOf
<1> QED BY <1>1, <1>2

\* What clap accepts, flag by flag.
LEMMA AcceptedFlags ==
  ASSUME NEW given
  PROVE  /\ Accepted("push", given) <=> ~({"commit", "workspace"} \subseteq given)
         /\ Accepted("verify", given) <=> ~({"checksum_only", "commit"} \subseteq given)
         /\ Accepted("relevance", given) <=> ~({"store", "dir"} \subseteq given) /\ ~({"compare", "backend"} \subseteq given)
         /\ Accepted("pull", given) <=>
              /\ ~({"latest", "commit"} \subseteq given)
              /\ "all" \in given => "into" \in given /\ given \cap {"commit", "latest", "force", "workspace", "dir", "ref"} = {}
              /\ "into" \in given \/ "remote" \in given \/ "corpus" \in given => "all" \in given
              /\ "ref" \in given => "latest" \in given
<1>1. Accepted("push", given) <=> ~({"commit", "workspace"} \subseteq given)
  <2>1. FlagTable["push"].conflicts = {<<"commit", "workspace">>} /\ FlagTable["push"].requires = {}
    BY DEF FlagTable, Takes
  <2> QED BY <2>1 DEF Accepted
<1>2. Accepted("verify", given) <=> ~({"checksum_only", "commit"} \subseteq given)
  <2>1. FlagTable["verify"].conflicts = {<<"checksum_only", "commit">>} /\ FlagTable["verify"].requires = {}
    BY DEF FlagTable, Takes
  <2> QED BY <2>1 DEF Accepted
<1>3. Accepted("relevance", given) <=> ~({"store", "dir"} \subseteq given) /\ ~({"compare", "backend"} \subseteq given)
  <2>1. FlagTable["relevance"].conflicts = {<<"store", "dir">>, <<"compare", "backend">>} /\ FlagTable["relevance"].requires = {}
    BY DEF FlagTable, RelevanceFlags, Takes
  <2> QED BY <2>1 DEF Accepted
<1> DEFINE Others == {"commit", "latest", "force", "workspace", "dir", "ref"}
           conflicts == {<<"latest", "commit">>} \cup {<<"all", f>> : f \in Others}
           requires == AllNeeds \cup {<<"ref", "latest">>}
<1>4. FlagTable["pull"].conflicts = conflicts /\ FlagTable["pull"].requires = requires
  BY DEF FlagTable, PullFlags, Takes
<1>5. Accepted("pull", given) <=> /\ \A c \in conflicts : ~({c[1], c[2]} \subseteq given)
                                  /\ \A r \in requires : r[1] \in given => r[2] \in given
  BY <1>4 DEF Accepted
<1>6. (\A c \in conflicts : ~({c[1], c[2]} \subseteq given)) <=>
        ~({"latest", "commit"} \subseteq given) /\ \A f \in Others : ~({"all", f} \subseteq given)
  <2> DEFINE Fine(c) == ~({c[1], c[2]} \subseteq given)
  <2>1. Fine(<<"latest", "commit">>) <=> ~({"latest", "commit"} \subseteq given)
    OBVIOUS
  <2>2. \A f \in Others : Fine(<<"all", f>>) <=> ~({"all", f} \subseteq given)
    OBVIOUS
  <2>3. (\A c \in conflicts : Fine(c)) <=> Fine(<<"latest", "commit">>) /\ \A f \in Others : Fine(<<"all", f>>)
    <3> HIDE DEF Fine, Others
    <3> QED BY Zenon
  <2> QED BY <2>1, <2>2, <2>3
<1>7. (\A r \in requires : r[1] \in given => r[2] \in given) <=>
        /\ "all" \in given => "into" \in given
        /\ "into" \in given \/ "remote" \in given \/ "corpus" \in given => "all" \in given
        /\ "ref" \in given => "latest" \in given
  BY DEF AllNeeds
<1>8. (\A f \in Others : ~({"all", f} \subseteq given)) <=> ("all" \in given => given \cap Others = {})
  OBVIOUS
<1> HIDE DEF conflicts, requires
<1>9. Accepted("pull", given) <=>
        /\ ~({"latest", "commit"} \subseteq given)
        /\ "all" \in given => "into" \in given /\ given \cap Others = {}
        /\ "into" \in given \/ "remote" \in given \/ "corpus" \in given => "all" \in given
        /\ "ref" \in given => "latest" \in given
  <2> HIDE DEF Others
  <2> QED BY <1>5, <1>6, <1>7, <1>8
<1> QED BY <1>1, <1>2, <1>3, <1>9

FlagInputOK == For("flags") => input.cmd \in DOMAIN FlagTable /\ input.given \in SUBSET FlagTable[input.cmd].flags
LEMMA FlagsCount == FlagInputOK => FlagsExact
<1> SUFFICES ASSUME NEW cmd \in DOMAIN FlagTable, NEW given \in SUBSET FlagTable[cmd].flags
             PROVE  Accepted(cmd, given) <=> Used(cmd, given) = given /\ ("all" \in given => "into" \in given)
  BY DEF FlagInputOK, FlagsExact
<1>0. cmd \in {"push", "pull", "verify", "relevance"}
  BY DEF FlagTable
<1>1. CASE cmd = "push"
  <2>1. given \subseteq {"commit", "workspace", "dir"}
    BY <1>1 DEF FlagTable, Takes
  <2>2. Used(cmd, given) = given <=> ~({"commit", "workspace"} \subseteq given)
    BY <1>1 DEF Used, CmdSync
  <2> QED BY <1>1, <2>1, <2>2, AcceptedFlags
<1>2. CASE cmd = "pull"
  <2>1. given \subseteq {"commit", "latest", "ref", "force", "workspace", "all", "into", "remote", "corpus", "dir"}
    BY <1>2 DEF FlagTable, PullFlags, Takes
  <2>2. CASE "all" \in given
    <3>1. Used(cmd, given) = given \cap {"all", "into", "remote", "corpus"}
      BY <1>2, <2>2 DEF Used, CmdSync
    <3>2. given \cap {"all", "into", "remote", "corpus"} = given
            <=> given \cap {"commit", "latest", "force", "workspace", "dir", "ref"} = {}
      BY <2>1
    <3> QED BY <1>2, <2>2, <3>1, <3>2, AcceptedFlags
  <2>3. CASE "all" \notin given
    <3> DEFINE which == FirstOf("latest", "commit", given)
               ref == IF "latest" \in given THEN given \cap {"ref"} ELSE {}
    <3>1. Used(cmd, given) = which \cup (given \cap {"force", "workspace", "dir"}) \cup ref
      BY <1>2, <2>3 DEF Used, CmdSync
    <3>2. which \subseteq {"latest", "commit"} /\ (which = given \cap {"latest", "commit"} <=> ~({"latest", "commit"} \subseteq given))
      BY FirstOfIsAll
    <3> HIDE DEF which
    <3>3. Used(cmd, given) = given <=>
            /\ which = given \cap {"latest", "commit"}
            /\ given \cap {"into", "remote", "corpus"} = {}
            /\ "ref" \in given => "latest" \in given
      BY <2>1, <2>3, <3>1, <3>2
    <3> QED BY <1>2, <2>3, <3>2, <3>3, AcceptedFlags
  <2> QED BY <2>2, <2>3
<1>3. CASE cmd = "verify"
  <2>1. given \subseteq {"commit", "checksum_only", "dir"}
    BY <1>3 DEF FlagTable, Takes
  <2>2. Used(cmd, given) = given <=> ~({"checksum_only", "commit"} \subseteq given)
    BY <1>3 DEF Used, CmdSync
  <2> QED BY <1>3, <2>1, <2>2, AcceptedFlags
<1>4. CASE cmd = "relevance"
  <2> DEFINE src == FirstOf("store", "dir", given)
             how == FirstOf("compare", "backend", given)
  <2>1. given \subseteq {"dir", "store", "backend", "compare", "json"}
    BY <1>4 DEF FlagTable, RelevanceFlags, Takes
  <2>2. Used(cmd, given) = src \cup how \cup (given \cap {"json"})
    BY <1>4 DEF Used, CmdRelevance
  <2>3. /\ src \subseteq {"store", "dir"} /\ (src = given \cap {"store", "dir"} <=> ~({"store", "dir"} \subseteq given))
        /\ how \subseteq {"compare", "backend"} /\ (how = given \cap {"compare", "backend"} <=> ~({"compare", "backend"} \subseteq given))
    BY FirstOfIsAll
  <2> HIDE DEF src, how
  <2>4. Used(cmd, given) = given <=> src = given \cap {"store", "dir"} /\ how = given \cap {"compare", "backend"}
    BY <2>1, <2>2, <2>3
  <2> QED BY <1>4, <2>1, <2>3, <2>4, AcceptedFlags
<1> QED BY <1>0, <1>1, <1>2, <1>3, <1>4

\* For any fleet, any commands before and any flags: push, pull, verify and relevance read
\* every flag that clap lets through, a search of one store stays in the space of its backend,
\* and one of several members leaves it just when they are mixed and Ollama answers.
THEOREM CommandLineIsSound == FlagInputOK /\ BackendInputOK => CommandLineSound
  BY FlagsCount, QueriesFitStores DEF CommandLineSound
-----------------------------------------------------------------------------
(***************************************************************************)
(* Health: doctor, verify, status and list.                                *)
(***************************************************************************)

\* The statement a failing check makes: none fails if and only if none is counted.
LEMMA CountOfNone ==
  ASSUME NEW S, IsFiniteSet(S), NEW P \in SUBSET S
  PROVE  Cardinality(P) \in Nat /\ (Cardinality(P) = 0 <=> P = {})
  BY FS_Subset, FS_CardinalityType, FS_EmptySet

Report == [failures : Nat, advisories : Nat]
Raised(n, f) == Cardinality({i \in 1..n : f[i]})
LEMMA RaisedNone ==
  ASSUME NEW n \in Nat, NEW f
  PROVE  Raised(n, f) \in Nat /\ (Raised(n, f) = 0 <=> \A i \in 1..n : ~ f[i])
<1>1. IsFiniteSet(1..n)
  BY FS_Interval
<1>2. {i \in 1..n : f[i]} \in SUBSET (1..n)
  OBVIOUS
<1> QED BY <1>1, <1>2, CountOfNone DEF Raised

LEMMA NotedAdds ==
  ASSUME NEW r \in Report, NEW f \in Seq(BOOLEAN), NEW a \in Seq(BOOLEAN)
  PROVE  /\ Noted(r, f, a) \in Report
         /\ Noted(r, f, a).failures = r.failures + Raised(Len(f), f)
         /\ Noted(r, f, a).advisories = r.advisories + Raised(Len(a), a)
<1>1. Raised(Len(f), f) \in Nat /\ Raised(Len(a), a) \in Nat
  BY RaisedNone
<1>2. Noted(r, f, a) = [failures |-> r.failures + Raised(Len(f), f), advisories |-> r.advisories + Raised(Len(a), a)]
  <2>1. DOMAIN f = 1..Len(f) /\ DOMAIN a = 1..Len(a)
    OBVIOUS
  <2> QED BY <2>1 DEF Noted, Raised
<1> QED BY <1>1, <1>2 DEF Report

Raises(t) == \E i \in DOMAIN t : t[i]
LEMMA NotedRaises ==
  ASSUME NEW r \in Report, NEW f \in Seq(BOOLEAN), NEW a \in Seq(BOOLEAN)
  PROVE  /\ Noted(r, f, a) \in Report
         /\ Noted(r, f, a).failures >= r.failures /\ (Noted(r, f, a).failures = r.failures <=> ~ Raises(f))
         /\ Noted(r, f, a).advisories >= r.advisories /\ (Noted(r, f, a).advisories = r.advisories <=> ~ Raises(a))
<1>1. /\ Raised(Len(f), f) \in Nat /\ (Raised(Len(f), f) = 0 <=> ~ Raises(f))
      /\ Raised(Len(a), a) \in Nat /\ (Raised(Len(a), a) = 0 <=> ~ Raises(a))
  <2>1. ASSUME NEW t \in Seq(BOOLEAN) PROVE Raised(Len(t), t) \in Nat /\ (Raised(Len(t), t) = 0 <=> ~ Raises(t))
    <3>1. DOMAIN t = 1..Len(t) /\ Len(t) \in Nat
      OBVIOUS
    <3>2. Raised(Len(t), t) \in Nat /\ (Raised(Len(t), t) = 0 <=> \A i \in 1..Len(t) : ~ t[i])
      BY <3>1, RaisedNone
    <3>3. (\A i \in 1..Len(t) : ~ t[i]) <=> ~ Raises(t)
      BY <3>1, Zenon DEF Raises
    <3> QED BY <3>2, <3>3
  <2> QED BY <2>1
<1>2. r.failures \in Nat /\ r.advisories \in Nat
  BY DEF Report
<1> QED BY <1>1, <1>2, NotedAdds

LEMMA OneRaises == <<>> \in Seq(BOOLEAN) /\ <<TRUE>> \in Seq(BOOLEAN) /\ ~ Raises(<<>>) /\ Raises(<<TRUE>>)
<1>1. 1 \in DOMAIN <<TRUE>> /\ <<TRUE>>[1] = TRUE
  OBVIOUS
<1>2. Raises(<<TRUE>>)
  BY <1>1, Zenon DEF Raises
<1>3. DOMAIN <<>> = {}
  OBVIOUS
<1>4. ~ Raises(<<>>)
  BY <1>3, Zenon DEF Raises
<1>5. <<>> \in Seq(BOOLEAN) /\ <<TRUE>> \in Seq(BOOLEAN)
  OBVIOUS
<1> QED BY <1>2, <1>4, <1>5

\* Four checks of the store's own, and what the fingerprint adds.
StoreChecks(s, binary) ==
  LET dims == ToSet(s.dims) \ {0}
  IN <<s.parses /\ 0 \in ToSet(s.dims), s.parses /\ Cardinality(dims) > 1,
       s.parses /\ s.embedder = "hash" /\ Cardinality(dims) = 1 /\ HashDim(binary) \notin dims, ~ s.parses>>
FieldChecks(fp, s, binary) ==
  <<fp.store # s.bytes, s.parses /\ fp.embedder # s.embedder,
    fp.embedder = "hash" /\ fp.dim # HashDim(binary), fp.packs # binary.packs,
    fp.tokenizer # binary.tokenizer, fp.nesting # binary.nesting>>
LEMMA StoreRaises ==
  ASSUME NEW s, s.there, NEW f, NEW binary
  PROVE  LET own == Noted(Nothing, StoreChecks(s, binary), <<>>)
             out == CheckStore(Nothing, [store |-> s, fp |-> f], binary)
         IN /\ out \in Report
            /\ out.failures >= own.failures /\ own \in Report
            /\ own.failures = 0 <=> ~ Raises(StoreChecks(s, binary))
            /\ f.state = "corrupt" => out.failures > own.failures
            /\ f.state = "none" => out.advisories > 0
            /\ f.state = "read" /\ f.seal # "sealed" => out.failures > own.failures
            /\ f.state = "read" /\ f.seal = "sealed" =>
                 /\ out.failures = own.failures <=> ~ Raises(FieldChecks(f, s, binary))
                 /\ f.sections # binary.sections => out.advisories > 0
<1> DEFINE own == Noted(Nothing, StoreChecks(s, binary), <<>>)
           out == CheckStore(Nothing, [store |-> s, fp |-> f], binary)
           advice == <<f.sections # binary.sections, ~ f.redaction, f.embedder = "ollama">>
<1>1. Nothing \in Report /\ Nothing.failures = 0 /\ Nothing.advisories = 0
  BY DEF Nothing, Report
<1>2. StoreChecks(s, binary) \in Seq(BOOLEAN) /\ FieldChecks(f, s, binary) \in Seq(BOOLEAN)
  BY DEF StoreChecks, FieldChecks
<1>3. <<>> \in Seq(BOOLEAN) /\ <<TRUE>> \in Seq(BOOLEAN) /\ ~ Raises(<<>>) /\ Raises(<<TRUE>>)
  BY OneRaises
<1>4. own \in Report /\ own.failures \in Nat /\ own.advisories = 0 /\ (own.failures = 0 <=> ~ Raises(StoreChecks(s, binary)))
  <2>2. own \in Report /\ own.advisories = Nothing.advisories
        /\ (own.failures = Nothing.failures <=> ~ Raises(StoreChecks(s, binary)))
    BY <1>1, <1>2, <1>3, NotedRaises
  <2> QED BY <1>1, <2>2 DEF Report
<1>5. out = CASE f.state = "corrupt" -> Noted(own, <<TRUE>>, <<>>)
              [] f.state = "none" -> Noted(own, <<>>, <<TRUE>>)
              [] OTHER -> CheckFingerprint(own, f, s, binary)
  BY DEF CheckStore, StoreChecks
<1> HIDE DEF own, out
<1>6. /\ Noted(own, <<TRUE>>, <<>>) \in Report /\ Noted(own, <<TRUE>>, <<>>).failures > own.failures
      /\ Noted(own, <<>>, <<TRUE>>) \in Report /\ Noted(own, <<>>, <<TRUE>>).failures = own.failures
      /\ Noted(own, <<>>, <<TRUE>>).advisories > 0
  <2>2. Noted(own, <<TRUE>>, <<>>) \in Report /\ Noted(own, <<TRUE>>, <<>>).failures >= own.failures
        /\ Noted(own, <<TRUE>>, <<>>).failures # own.failures
    BY <1>3, <1>4, NotedRaises
  <2>3. Noted(own, <<>>, <<TRUE>>) \in Report /\ Noted(own, <<>>, <<TRUE>>).failures = own.failures
        /\ Noted(own, <<>>, <<TRUE>>).advisories >= own.advisories /\ Noted(own, <<>>, <<TRUE>>).advisories # own.advisories
    BY <1>3, <1>4, NotedRaises
  <2> QED BY <1>4, <2>2, <2>3 DEF Report
<1>7. /\ CompareFields(own, f, s, binary) \in Report /\ CompareFields(own, f, s, binary).failures >= own.failures
      /\ CompareFields(own, f, s, binary).failures = own.failures <=> ~ Raises(FieldChecks(f, s, binary))
      /\ f.sections # binary.sections => CompareFields(own, f, s, binary).advisories > 0
  <2>1. CompareFields(own, f, s, binary) = Noted(own, FieldChecks(f, s, binary), advice)
    BY DEF CompareFields, FieldChecks
  <2>2. f.sections # binary.sections => Raises(advice)
    <3>1. 1 \in DOMAIN advice /\ advice[1] = (f.sections # binary.sections)
      OBVIOUS
    <3> HIDE DEF advice
    <3> QED BY <3>1, Zenon DEF Raises
  <2>3. advice \in Seq(BOOLEAN)
    OBVIOUS
  <2> HIDE DEF advice
  <2>4. /\ Noted(own, FieldChecks(f, s, binary), advice) \in Report
        /\ Noted(own, FieldChecks(f, s, binary), advice).failures >= own.failures
        /\ Noted(own, FieldChecks(f, s, binary), advice).failures = own.failures <=> ~ Raises(FieldChecks(f, s, binary))
        /\ Noted(own, FieldChecks(f, s, binary), advice).advisories >= own.advisories
        /\ Noted(own, FieldChecks(f, s, binary), advice).advisories = own.advisories <=> ~ Raises(advice)
    BY <1>2, <1>4, <2>3, NotedRaises
  <2> QED BY <1>4, <2>1, <2>2, <2>4 DEF Report
<1>8. CASE f.state = "corrupt"
  BY <1>4, <1>5, <1>6, <1>8 DEF own, out, Report
<1>9. CASE f.state = "none"
  BY <1>4, <1>5, <1>6, <1>9 DEF own, out, Report
<1>10. CASE f.state \notin {"corrupt", "none"}
  <2>1. out = IF f.seal # "sealed" THEN Noted(own, <<TRUE>>, <<>>) ELSE CompareFields(own, f, s, binary)
    BY <1>5, <1>10 DEF CheckFingerprint
  <2>2. out \in Report /\ out.failures >= own.failures
    BY <1>4, <1>6, <1>7, <2>1 DEF Report
  <2>3. f.seal # "sealed" => out.failures > own.failures
    BY <1>6, <2>1
  <2>4. f.seal = "sealed" => /\ out.failures = own.failures <=> ~ Raises(FieldChecks(f, s, binary))
                             /\ f.sections # binary.sections => out.advisories > 0
    BY <1>7, <2>1
  <2> QED BY <1>4, <1>10, <2>2, <2>3, <2>4 DEF own, out
<1> QED BY <1>8, <1>9, <1>10

LEMMA RaisesFour ==
  ASSUME NEW a \in BOOLEAN, NEW b \in BOOLEAN, NEW c \in BOOLEAN, NEW d \in BOOLEAN
  PROVE  Raises(<<a, b, c, d>>) <=> a \/ b \/ c \/ d
<1> DEFINE t == <<a, b, c, d>>
<1>1. 1 \in DOMAIN t /\ 2 \in DOMAIN t /\ 3 \in DOMAIN t /\ 4 \in DOMAIN t
  OBVIOUS
<1>2. t[1] = a /\ t[2] = b /\ t[3] = c /\ t[4] = d
  OBVIOUS
<1>3. \A i \in DOMAIN t : i = 1 \/ i = 2 \/ i = 3 \/ i = 4
  OBVIOUS
<1> HIDE DEF t
<1>4. Raises(t) <=> a \/ b \/ c \/ d
  BY <1>1, <1>2, <1>3, Zenon DEF Raises
<1> QED BY <1>4 DEF t

LEMMA RaisesSix ==
  ASSUME NEW a \in BOOLEAN, NEW b \in BOOLEAN, NEW c \in BOOLEAN, NEW d \in BOOLEAN, NEW e \in BOOLEAN, NEW f \in BOOLEAN
  PROVE  Raises(<<a, b, c, d, e, f>>) <=> a \/ b \/ c \/ d \/ e \/ f
<1> DEFINE t == <<a, b, c, d, e, f>>
<1>1. 1 \in DOMAIN t /\ 2 \in DOMAIN t /\ 3 \in DOMAIN t /\ 4 \in DOMAIN t /\ 5 \in DOMAIN t /\ 6 \in DOMAIN t
  OBVIOUS
<1>2. t[1] = a /\ t[2] = b /\ t[3] = c /\ t[4] = d /\ t[5] = e /\ t[6] = f
  OBVIOUS
<1>3. \A i \in DOMAIN t : i = 1 \/ i = 2 \/ i = 3 \/ i = 4 \/ i = 5 \/ i = 6
  OBVIOUS
<1> HIDE DEF t
<1>4. Raises(t) <=> a \/ b \/ c \/ d \/ e \/ f
  BY <1>1, <1>2, <1>3, Zenon DEF Raises
<1> QED BY <1>4 DEF t

\* A binary's rules; a store as one binary wrote it: at least one chunk or none, the
\* vectors of one space, and the dimension of its own rules when they are hashes.
Rules == [dim : Nat \ {0}, packs : Nat, tokenizer : Nat, nesting : Nat, sections : Nat]
BuiltBy(s, binary) ==
  /\ s \in [there : {TRUE}, bytes : STRING \ {"other"}, parses : {TRUE}, embedder : {"hash", "ollama"}, dims : Seq(Nat \ {0})]
  /\ \A i, j \in DOMAIN s.dims : s.dims[i] = s.dims[j]
  /\ s.embedder = "hash" => \A i \in DOMAIN s.dims : s.dims[i] = binary.dim
SameRules(s, a, b) ==
  a.packs = b.packs /\ a.tokenizer = b.tokenizer /\ a.nesting = b.nesting /\ (s.embedder = "hash" => a.dim = b.dim)
LEMMA OneSpace ==
  ASSUME NEW built \in Rules, NEW now \in Rules, NEW s, BuiltBy(s, built)
  PROVE  Raises(StoreChecks(s, now)) <=> (s.embedder = "hash" /\ s.dims # <<>> /\ built.dim # now.dim)
<1> DEFINE dims == ToSet(s.dims) \ {0}
<1>0. s.parses = TRUE /\ s.dims \in Seq(Nat \ {0}) /\ DOMAIN s.dims = 1..Len(s.dims)
  <2>1. s.parses \in {TRUE} /\ s.dims \in Seq(Nat \ {0})
    BY DEF BuiltBy
  <2>2. s.parses = TRUE
    BY <2>1, Zenon
  <2> QED BY <2>1, <2>2
<1>1. 0 \notin ToSet(s.dims)
  BY <1>0 DEF ToSet
<1>2. s.dims = <<>> => dims = {}
  BY <1>0 DEF ToSet
<1>3. s.dims # <<>> => \E d \in Nat \ {0} : dims = {d} /\ (s.embedder = "hash" => d = built.dim)
  <2> SUFFICES ASSUME s.dims # <<>> PROVE \E d \in Nat \ {0} : dims = {d} /\ (s.embedder = "hash" => d = built.dim)
    OBVIOUS
  <2>1. 1 \in DOMAIN s.dims /\ s.dims[1] \in Nat \ {0}
    BY <1>0
  <2>2. ToSet(s.dims) = {s.dims[1]}
    BY <2>1 DEF ToSet, BuiltBy
  <2>3. dims = {s.dims[1]} /\ (s.embedder = "hash" => s.dims[1] = built.dim)
    BY <1>1, <2>1, <2>2 DEF BuiltBy
  <2> QED BY <2>1, <2>3
<1>4. Cardinality({}) = 0 /\ \A d \in Nat : Cardinality({d}) = 1
  BY FS_EmptySet, FS_Singleton
<1>5. /\ ~ (Cardinality(dims) > 1)
      /\ (Cardinality(dims) = 1 /\ s.embedder = "hash" /\ now.dim \notin dims) <=> (s.embedder = "hash" /\ s.dims # <<>> /\ built.dim # now.dim)
  <2> HIDE DEF dims
  <2>1. CASE s.dims = <<>>
    BY <1>2, <1>4, <2>1
  <2>2. CASE s.dims # <<>>
    <3>1. PICK d \in Nat \ {0} : dims = {d} /\ (s.embedder = "hash" => d = built.dim)
      BY <1>3, <2>2
    <3>2. Cardinality(dims) = 1
      BY <1>4, <3>1
    <3> QED BY <2>2, <3>1, <3>2
  <2> QED BY <2>1, <2>2
<1>7. StoreChecks(s, now) = <<FALSE, FALSE, s.embedder = "hash" /\ s.dims # <<>> /\ built.dim # now.dim, FALSE>>
  <2>1. StoreChecks(s, now) = <<s.parses /\ 0 \in ToSet(s.dims), s.parses /\ Cardinality(dims) > 1,
                                s.parses /\ s.embedder = "hash" /\ Cardinality(dims) = 1 /\ HashDim(now) \notin dims, ~ s.parses>>
    BY DEF StoreChecks
  <2>2. (s.parses /\ 0 \in ToSet(s.dims)) = FALSE /\ (s.parses /\ Cardinality(dims) > 1) = FALSE /\ (~ s.parses) = FALSE
    BY <1>0, <1>1, <1>5
  <2>3. (s.parses /\ s.embedder = "hash" /\ Cardinality(dims) = 1 /\ HashDim(now) \notin dims)
          = (s.embedder = "hash" /\ s.dims # <<>> /\ built.dim # now.dim)
    BY <1>0, <1>5 DEF HashDim
  <2> HIDE DEF dims
  <2> QED BY <2>1, <2>2, <2>3
<1> DEFINE third == s.embedder = "hash" /\ s.dims # <<>> /\ built.dim # now.dim
<1>8. third \in BOOLEAN
  OBVIOUS
<1>9. Raises(<<FALSE, FALSE, third, FALSE>>) <=> third
  <2> HIDE DEF third
  <2>1. Raises(<<FALSE, FALSE, third, FALSE>>) <=> FALSE \/ FALSE \/ third \/ FALSE
    BY <1>8, RaisesFour
  <2> QED BY <2>1
<1> QED BY <1>7, <1>9

LEMMA FieldsTell ==
  ASSUME NEW built \in Rules, NEW now \in Rules, NEW s, BuiltBy(s, built), NEW t,
         t.bytes = s.bytes /\ t.embedder = s.embedder
  PROVE  Raises(FieldChecks(FingerprintFor(s, TRUE, built), t, now)) <=> ~ SameRules(s, built, now)
<1> DEFINE fp == FingerprintFor(s, TRUE, built)
           a == fp.store # t.bytes
           b == t.parses /\ fp.embedder # t.embedder
           c == fp.embedder = "hash" /\ fp.dim # HashDim(now)
           d == fp.packs # now.packs
           e == fp.tokenizer # now.tokenizer
           f == fp.nesting # now.nesting
<1>1. ~ a /\ ~ b /\ (c <=> s.embedder = "hash" /\ built.dim # now.dim) /\ (d <=> built.packs # now.packs)
      /\ (e <=> built.tokenizer # now.tokenizer) /\ (f <=> built.nesting # now.nesting)
  BY DEF FingerprintFor, HashDim
<1>2. FieldChecks(fp, t, now) = <<a, b, c, d, e, f>>
  BY DEF FieldChecks
<1>3. a \in BOOLEAN /\ b \in BOOLEAN /\ c \in BOOLEAN /\ d \in BOOLEAN /\ e \in BOOLEAN /\ f \in BOOLEAN
  OBVIOUS
<1>4. Raises(<<a, b, c, d, e, f>>) <=> a \/ b \/ c \/ d \/ e \/ f
  <2> HIDE DEF a, b, c, d, e, f
  <2> QED BY <1>3, RaisesSix
<1>5. (a \/ b \/ c \/ d \/ e \/ f) <=> ~ SameRules(s, built, now)
  <2> HIDE DEF a, b, c, d, e, f
  <2> QED BY <1>1 DEF SameRules
<1> HIDE DEF a, b, c, d, e, f, fp
<1>6. Raises(FieldChecks(fp, t, now)) <=> ~ SameRules(s, built, now)
  BY <1>2, <1>4, <1>5
<1> QED BY <1>6 DEF fp

LEMMA BytesTell ==
  ASSUME NEW fp, NEW t, NEW now, fp.store # t.bytes
  PROVE  Raises(FieldChecks(fp, t, now))
<1> DEFINE a == fp.store # t.bytes
           b == t.parses /\ fp.embedder # t.embedder
           c == fp.embedder = "hash" /\ fp.dim # HashDim(now)
           d == fp.packs # now.packs
           e == fp.tokenizer # now.tokenizer
           f == fp.nesting # now.nesting
<1>1. FieldChecks(fp, t, now) = <<a, b, c, d, e, f>>
  BY DEF FieldChecks
<1>2. a /\ a \in BOOLEAN /\ b \in BOOLEAN /\ c \in BOOLEAN /\ d \in BOOLEAN /\ e \in BOOLEAN /\ f \in BOOLEAN
  OBVIOUS
<1> HIDE DEF a, b, c, d, e, f
<1>3. Raises(<<a, b, c, d, e, f>>) <=> a \/ b \/ c \/ d \/ e \/ f
  BY <1>2, RaisesSix
<1> QED BY <1>1, <1>2, <1>3
LEMMA UnparsedTells ==
  ASSUME NEW t, ~ t.parses, NEW now
  PROVE  Raises(StoreChecks(t, now))
<1> DEFINE dims == ToSet(t.dims) \ {0}
           a == t.parses /\ 0 \in ToSet(t.dims)
           b == t.parses /\ Cardinality(dims) > 1
           c == t.parses /\ t.embedder = "hash" /\ Cardinality(dims) = 1 /\ HashDim(now) \notin dims
           d == ~ t.parses
<1>1. StoreChecks(t, now) = <<a, b, c, d>>
  BY DEF StoreChecks
<1>2. d /\ a \in BOOLEAN /\ b \in BOOLEAN /\ c \in BOOLEAN /\ d \in BOOLEAN
  OBVIOUS
<1> HIDE DEF a, b, c, d
<1> QED BY <1>1, <1>2, RaisesFour

Look(t, f, now) == CheckStore(Nothing, [store |-> t, fp |-> f], now)
DriftSeen(s, fp, edited, other, junk, corrupt, none, now, built) ==
  /\ Look(s, fp, now).failures = 0 <=> SameRules(s, built, now)
  /\ now.sections # built.sections => Look(s, fp, now).advisories > 0
  /\ Look(other, fp, now).failures > 0 /\ Look(junk, fp, now).failures > 1 /\ Look(s, edited, now).failures > 0
  /\ Look(s, corrupt, now).failures > 0 /\ Look(s, none, now).advisories > 0
LEMMA DriftLooks ==
  ASSUME NEW s, NEW now \in Rules, NEW built \in Rules, BuiltBy(s, built), NEW fp,
         fp.state = "read" /\ fp.seal = "sealed" /\ fp.store = s.bytes /\ fp.sections = built.sections,
         Raises(FieldChecks(fp, s, now)) <=> ~ SameRules(s, built, now),
         NEW edited, edited.state = "read" /\ edited.seal # "sealed",
         NEW other, other.there /\ other.bytes = "other", NEW junk, junk.there /\ junk.bytes = "other" /\ ~ junk.parses,
         NEW corrupt, corrupt.state = "corrupt", NEW none, none.state = "none"
  PROVE  DriftSeen(s, fp, edited, other, junk, corrupt, none, now, built)
<1> DEFINE own(t) == Noted(Nothing, StoreChecks(t, now), <<>>)
           look(t, f) == Look(t, f, now)
<1>2. s.there /\ s.bytes # "other"
  <2>1. s \in [there : {TRUE}, bytes : STRING \ {"other"}, parses : {TRUE}, embedder : {"hash", "ollama"}, dims : Seq(Nat \ {0})]
    BY DEF BuiltBy
  <2>2. s.there = TRUE
    BY <2>1, Zenon
  <2>3. s.bytes # "other"
    BY <2>1
  <2> QED BY <2>2, <2>3
<1> DEFINE Told(t, f) ==
             /\ look(t, f).failures \in Nat /\ look(t, f).advisories \in Nat /\ own(t).failures \in Nat
             /\ look(t, f).failures >= own(t).failures
             /\ own(t).failures = 0 <=> ~ Raises(StoreChecks(t, now))
             /\ f.state = "corrupt" => look(t, f).failures > own(t).failures
             /\ f.state = "none" => look(t, f).advisories > 0
             /\ f.state = "read" /\ f.seal # "sealed" => look(t, f).failures > own(t).failures
             /\ f.state = "read" /\ f.seal = "sealed" =>
                  /\ look(t, f).failures = own(t).failures <=> ~ Raises(FieldChecks(f, t, now))
                  /\ f.sections # now.sections => look(t, f).advisories > 0
<1>3. ASSUME NEW t, t.there, NEW f PROVE Told(t, f)
  BY <1>3, StoreRaises DEF Report, Look
<1>7. Told(s, fp) /\ Told(other, fp) /\ Told(junk, fp) /\ Told(s, edited) /\ Told(s, corrupt) /\ Told(s, none)
  <2> HIDE DEF Told
  <2> QED BY <1>2, <1>3
<1>4. Raises(StoreChecks(s, now)) <=> (s.embedder = "hash" /\ s.dims # <<>> /\ built.dim # now.dim)
  BY OneSpace
<1>6. SameRules(s, built, now) => ~ Raises(StoreChecks(s, now))
  BY <1>4 DEF SameRules
<1> HIDE DEF own, look
<1>8. look(s, fp).failures = 0 <=> SameRules(s, built, now)
  BY <1>6, <1>7
<1>9. (now.sections # built.sections) => look(s, fp).advisories > 0
  BY <1>7
<1>10. look(other, fp).failures > 0
  <2>1. Raises(FieldChecks(fp, other, now))
    BY <1>2, BytesTell
  <2> QED BY <1>7, <2>1
<1>11. look(junk, fp).failures > 1
  <2>1. Raises(FieldChecks(fp, junk, now)) /\ Raises(StoreChecks(junk, now))
    BY <1>2, BytesTell, UnparsedTells
  <2>2. own(junk).failures # 0 /\ look(junk, fp).failures # own(junk).failures
    BY <1>7, <2>1
  <2> QED BY <1>7, <2>2
<1>12. look(s, edited).failures > 0
  BY <1>7
<1>13. look(s, corrupt).failures > 0 /\ look(s, none).advisories > 0
  BY <1>7
<1> QED BY <1>8, <1>9, <1>10, <1>11, <1>12, <1>13 DEF look, DriftSeen

DriftInputOK == For("drift") => input.built \in Rules /\ input.now \in Rules /\ BuiltBy(input.store, input.built)
LEMMA DriftTold == DriftInputOK => DriftNeverSilent
<1> SUFFICES ASSUME For("drift"), input.built \in Rules, input.now \in Rules, BuiltBy(input.store, input.built)
             PROVE  DriftNeverSilent
  BY DEF DriftInputOK, DriftNeverSilent
<1> DEFINE rules(b) == <<b.packs, b.tokenizer, b.nesting, IF input.store.embedder = "hash" THEN b.dim ELSE 0>>
<1>1. (rules(input.now) = rules(input.built)) <=> SameRules(input.store, input.built, input.now)
  BY DEF SameRules
<1> DEFINE s == input.store
           fp == FingerprintFor(s, TRUE, input.built)
           edited == Edited(fp, input.now.packs)
           other == [s EXCEPT !.bytes = "other"]
           junk == [s EXCEPT !.parses = FALSE, !.bytes = "other"]
           corrupt == [state |-> "corrupt"]
           none == [state |-> "none"]
<1>2. s \in [there : {TRUE}, bytes : STRING \ {"other"}, parses : {TRUE}, embedder : {"hash", "ollama"}, dims : Seq(Nat \ {0})]
  BY DEF BuiltBy
<1>3. edited.state = "read" /\ edited.seal # "sealed" /\ corrupt.state = "corrupt" /\ none.state = "none"
  BY DEF Edited, FingerprintFor
<1>7. /\ fp.state = "read" /\ fp.seal = "sealed" /\ fp.store = s.bytes /\ fp.sections = input.built.sections
      /\ Raises(FieldChecks(fp, s, input.now)) <=> ~ SameRules(s, input.built, input.now)
  BY FieldsTell DEF FingerprintFor
<1>4. other.there /\ other.bytes = "other"
  BY <1>2
<1>5. junk.there /\ junk.bytes = "other" /\ ~ junk.parses
  BY <1>2
<1> HIDE DEF rules, fp, edited, other, junk, corrupt, none
<1>6. DriftSeen(s, fp, edited, other, junk, corrupt, none, input.now, input.built)
  BY <1>3, <1>4, <1>5, <1>7, DriftLooks
<1> QED BY <1>1, <1>6, Zenon DEF DriftNeverSilent, DriftSeen, Look, rules, fp, edited, other, junk, corrupt, none

\* A rebuild is compared with the sha it is for, and verify, status and freshness agree,
\* on any marker and whatever the remote holds.
LEMMA VerifyNames == VerifyNamesItsSha
<1> SUFFICES ASSUME For("verify") PROVE VerifyNamesItsSha
  BY DEF VerifyNamesItsSha
<1> DEFINE v == input.v
           asked == IF v.commit # "none" THEN v.commit ELSE IF v.marker.state = "read" THEN v.marker.sha ELSE v.head
           known == {v.published[s] : s \in DOMAIN v.published \cap {asked}}
                    \cup (IF v.marker.state = "read" /\ v.marker.sha = asked THEN {v.marker.checksum} ELSE {})
           f == Freshness(v)
<1>1. CmdVerify(v) = "ok" => v.rebuilt \in known
  <2> DEFINE expected == IF v.marker.state = "read" /\ v.marker.sha = asked THEN v.marker.checksum
                         ELSE IF v.remote /\ v.reachable /\ asked \in DOMAIN v.published THEN v.published[asked] ELSE "unknown"
  <2> SUFFICES ASSUME CmdVerify(v) = "ok" PROVE v.rebuilt \in known
    OBVIOUS
  <2>1. expected # "unknown" /\ v.rebuilt = expected
    BY DEF CmdVerify
  <2>2. CASE v.marker.state = "read" /\ v.marker.sha = asked
    BY <2>1, <2>2
  <2>3. CASE ~ (v.marker.state = "read" /\ v.marker.sha = asked)
    <3>1. asked \in DOMAIN v.published /\ v.rebuilt = v.published[asked]
      BY <2>1, <2>3
    <3> HIDE DEF asked, expected
    <3> QED BY <3>1
  <2> QED BY <2>2, <2>3
<1>2. f.latest # "unknown" => v.remote /\ v.id_valid /\ v.reachable /\ f.latest = v.latest
  BY DEF Freshness
<1>3. f.behind <=> v.marker.state = "read" /\ f.latest # "unknown" /\ v.marker.sha # f.latest
  BY DEF Freshness
<1>4. f.source = IF v.marker.state = "read" THEN "pulled" ELSE "local"
  BY DEF Freshness
<1>5. f.behind => v.marker.sha \in ToSet(CmdStatus(v)) /\ f.latest \in ToSet(CmdStatus(v))
  <2> SUFFICES ASSUME f.behind PROVE v.marker.sha \in ToSet(CmdStatus(v)) /\ f.latest \in ToSet(CmdStatus(v))
    OBVIOUS
  <2> DEFINE lines == CmdStatus(v)
             fifth == IF v.head = "none" THEN "no checkout" ELSE v.head
  <2>1. lines = <<"remote", "id", v.marker.sha, v.latest, fifth>>
    BY <1>2, <1>3 DEF CmdStatus
  <2> HIDE DEF lines, fifth
  <2>2. 3 \in DOMAIN lines /\ 4 \in DOMAIN lines /\ lines[3] = v.marker.sha /\ lines[4] = v.latest
    BY <2>1
  <2>3. v.marker.sha \in ToSet(lines) /\ v.latest \in ToSet(lines)
    BY <2>2 DEF ToSet
  <2> QED BY <1>2, <1>3, <2>3 DEF lines
<1>6. (v.remote /\ v.id_valid /\ v.reachable /\ v.marker.state = "read" /\ ~ f.behind) => v.latest \in {"unknown", v.marker.sha}
  <2>1. v.remote /\ v.id_valid /\ v.reachable => f.latest = v.latest
    BY DEF Freshness
  <2> HIDE DEF f
  <2> QED BY <1>3, <2>1
<1> QED BY <1>1, <1>3, <1>4, <1>5, <1>6 DEF VerifyNamesItsSha

\* Whatever the cache holds, each repository with something published has a row, the rows
\* add up, and the sha a row shows is the one its ref has.
CacheInputOK ==
  For("cache") => /\ IsFiniteSet(DOMAIN input.cache.repos)
                  /\ \A r \in DOMAIN input.cache.repos : IsFiniteSet(input.cache.repos[r].shas)
LEMMA RowShowsItsRef ==
  ASSUME NEW p, RepoRow(p).latest # "none"
  PROVE  RepoRow(p).latest = p.refs[IF RepoRow(p).ref = {} THEN "main" ELSE CHOOSE x \in RepoRow(p).ref : TRUE]
<1> DEFINE chosen == ChosenRef(p.refs)
<1>1. chosen # {} /\ RepoRow(p).latest = p.refs[CHOOSE r \in chosen : TRUE] /\ RepoRow(p).ref = chosen \ {"main"}
  BY DEF RepoRow
<1>2. CASE "main" \in DOMAIN p.refs
  <2>1. chosen = {"main"}
    BY <1>2 DEF ChosenRef
  <2>2. (CHOOSE r \in {"main"} : TRUE) = "main"
    OBVIOUS
  <2>3. RepoRow(p).ref = {}
    BY <1>1, <2>1
  <2> QED BY <1>1, <2>1, <2>2, <2>3
<1>3. CASE "main" \notin DOMAIN p.refs
  <2>1. chosen \subseteq DOMAIN p.refs
    BY <1>3 DEF ChosenRef
  <2>2. RepoRow(p).ref = chosen
    BY <1>1, <1>3, <2>1
  <2> QED BY <1>1, <2>2
<1> QED BY <1>2, <1>3
LEMMA ListComplete == CacheInputOK => ListHidesNothing
<1> SUFFICES ASSUME For("cache"), IsFiniteSet(DOMAIN input.cache.repos),
                    \A r \in DOMAIN input.cache.repos : IsFiniteSet(input.cache.repos[r].shas)
             PROVE  ListHidesNothing
  BY DEF CacheInputOK, ListHidesNothing
<1> DEFINE cache == input.cache
           l == CmdList(cache)
           repos == cache.repos
           D == DOMAIN repos
           human == RenderListHuman(l)
           count == [r \in D |-> Cardinality(repos[r].shas)]
           shown == [r \in DOMAIN l.repos |-> l.repos[r].artifacts]
<1>1. \A r \in D : /\ RepoRow(repos[r]).shas = repos[r].shas /\ RepoRow(repos[r]).manifest = repos[r].manifest
                   /\ RepoRow(repos[r]).artifacts = Cardinality(repos[r].shas)
  BY DEF RepoRow
<1>2. /\ DOMAIN l.repos = {r \in D : ~ OnlyManifest(RepoRow(repos[r]))}
      /\ \A r \in DOMAIN l.repos : l.repos[r] = RepoRow(repos[r])
      /\ DOMAIN l.knowledge = DOMAIN cache.corpora
  BY DEF CmdList, ListKnowledge
<1>3. \A r \in D : repos[r].shas # {} \/ RepoRow(repos[r]).latest # "none" => r \in DOMAIN l.repos
  BY <1>1, <1>2 DEF OnlyManifest
<1>4. human.rows = DOMAIN l.repos /\ human.corpora = DOMAIN l.knowledge /\ DOMAIN RenderListJson(l).repos = DOMAIN l.repos
  BY DEF RenderListHuman, RenderListJson
<1>5. human.rows # {} => human.artifacts = Total(count, D)
  <2> SUFFICES ASSUME human.rows # {} PROVE human.artifacts = Total(count, D)
    OBVIOUS
  <2>1. human.artifacts = Total(shown, DOMAIN l.repos)
    BY <1>4 DEF RenderListHuman
  <2>2. count \in [D -> Nat]
    BY FS_CardinalityType
  <2>3. DOMAIN l.repos \in SUBSET D /\ \A r \in DOMAIN l.repos : shown[r] = count[r]
    BY <1>1, <1>2
  <2>4. shown \in [DOMAIN l.repos -> Nat]
    BY <2>2, <2>3
  <2>5. \A r \in D \ DOMAIN l.repos : count[r] = 0
    BY <1>1, <1>2, FS_EmptySet DEF OnlyManifest
  <2> HIDE DEF l, count, shown, D
  <2> QED BY <2>1, <2>2, <2>3, <2>4, <2>5, TotalOfPart DEF D
<1>6. \A r \in DOMAIN l.repos : l.repos[r].latest # "none" =>
        l.repos[r].latest = repos[r].refs[IF l.repos[r].ref = {} THEN "main" ELSE CHOOSE x \in l.repos[r].ref : TRUE]
  <2> TAKE r \in DOMAIN l.repos
  <2>1. l.repos[r] = RepoRow(repos[r])
    BY <1>2
  <2> QED BY <2>1, RowShowsItsRef
<1> HIDE DEF human, l
<1> QED BY <1>2, <1>3, <1>4, <1>5, <1>6, Zenon DEF ListHidesNothing, human, l

\* The members of a finite set in a sequence: each of them is there.
LEMMA SeqOfSet ==
  ASSUME NEW S, IsFiniteSet(S)
  PROVE  /\ SetToSeq(S) \in [1..Cardinality(S) -> S] /\ Cardinality(S) \in Nat
         /\ \A x \in S : \E i \in 1..Cardinality(S) : SetToSeq(S)[i] = x
<1> DEFINE n == Cardinality(S)
<1>1. n \in Nat /\ ExistsBijection(1..n, S)
  BY FS_CardinalityType
<1>2. \E f \in [1..n -> S] : IsInjective(f)
  BY <1>1 DEF ExistsBijection, Bijection, Injection, IsInjective
<1> DEFINE q == SetToSeq(S)
<1>3. q \in [1..n -> S] /\ IsInjective(q)
  BY <1>2 DEF SetToSeq
<1>4. q \in Injection(1..n, S)
  BY <1>3 DEF Injection, IsInjective
<1>5. IsFiniteSet(1..n) /\ Cardinality(1..n) = n
  BY <1>1, FS_Interval
<1> HIDE DEF q
<1>6. q \in Surjection(1..n, S)
  BY <1>4, <1>5, FS_Injection
<1>7. \A x \in S : \E i \in 1..n : q[i] = x
  BY <1>3, <1>6 DEF Surjection
<1> QED BY <1>1, <1>3, <1>7 DEF q

LEMMA StoreKeeps ==
  ASSUME NEW r \in Report, NEW d, NEW binary
  PROVE  CheckStore(r, d, binary) \in Report /\ CheckStore(r, d, binary).failures >= r.failures
<1> DEFINE own == Noted(r, StoreChecks(d.store, binary), <<>>)
           advice == <<d.fp.sections # binary.sections, ~ d.fp.redaction, d.fp.embedder = "ollama">>
           fields == Noted(own, FieldChecks(d.fp, d.store, binary), advice)
<1>1. ASSUME NEW q \in Report PROVE /\ Noted(q, <<TRUE>>, <<>>) \in Report /\ Noted(q, <<TRUE>>, <<>>).failures >= q.failures
                                    /\ Noted(q, <<>>, <<TRUE>>) \in Report /\ Noted(q, <<>>, <<TRUE>>).failures >= q.failures
  BY OneRaises, NotedRaises
<1>2. StoreChecks(d.store, binary) \in Seq(BOOLEAN) /\ FieldChecks(d.fp, d.store, binary) \in Seq(BOOLEAN) /\ advice \in Seq(BOOLEAN)
  BY DEF StoreChecks, FieldChecks
<1>3. own \in Report /\ own.failures >= r.failures
  BY <1>2, OneRaises, NotedRaises
<1> HIDE DEF advice
<1>4. fields \in Report /\ fields.failures >= own.failures
  <2> HIDE DEF own
  <2> QED BY <1>2, <1>3, NotedRaises
<1>5. CheckStore(r, d, binary) \in {Noted(r, <<TRUE>>, <<>>), Noted(own, <<TRUE>>, <<>>), Noted(own, <<>>, <<TRUE>>), fields}
  BY DEF CheckStore, CheckFingerprint, CompareFields, StoreChecks, FieldChecks, advice
<1> HIDE DEF own, fields
<1>6. own.failures \in Nat /\ r.failures \in Nat /\ fields.failures \in Nat
  BY <1>3, <1>4 DEF Report
<1>7. CASE CheckStore(r, d, binary) = fields
  BY <1>3, <1>4, <1>6, <1>7
<1>8. CASE CheckStore(r, d, binary) = Noted(r, <<TRUE>>, <<>>)
  BY <1>1, <1>8
<1>9. CASE CheckStore(r, d, binary) \in {Noted(own, <<TRUE>>, <<>>), Noted(own, <<>>, <<TRUE>>)}
  <2>1. CheckStore(r, d, binary) \in Report /\ CheckStore(r, d, binary).failures >= own.failures
    BY <1>1, <1>3, <1>9
  <2>2. CheckStore(r, d, binary).failures \in Nat
    BY <2>1 DEF Report
  <2> QED BY <1>3, <1>6, <2>1, <2>2
<1> QED BY <1>5, <1>7, <1>8, <1>9

LEMMA VerdictKeeps ==
  ASSUME NEW r \in Report, NEW v
  PROVE  /\ Verdict(r, v) \in Report /\ Verdict(r, v).failures >= r.failures
         /\ v = "failed" => Verdict(r, v).failures > r.failures
<1> DEFINE f == v = "failed"
           a == v = "no record"
<1>1. <<f>> \in Seq(BOOLEAN) /\ <<a>> \in Seq(BOOLEAN)
  OBVIOUS
<1>2. f => Raises(<<f>>)
  <2>1. 1 \in DOMAIN <<f>> /\ <<f>>[1] = f
    OBVIOUS
  <2> HIDE DEF f
  <2> QED BY <2>1, Zenon DEF Raises
<1>3. Verdict(r, v) = Noted(r, <<f>>, <<a>>)
  BY DEF Verdict
<1> HIDE DEF f, a
<1>4. /\ Verdict(r, v) \in Report /\ Verdict(r, v).failures >= r.failures
      /\ f => Verdict(r, v).failures # r.failures
  <2> DEFINE s == <<f>>
             t == <<a>>
  <2>1. s \in Seq(BOOLEAN) /\ t \in Seq(BOOLEAN) /\ (f => Raises(s)) /\ Verdict(r, v) = Noted(r, s, t)
    BY <1>1, <1>2, <1>3
  <2> HIDE DEF s, t
  <2>2. /\ Noted(r, s, t) \in Report /\ Noted(r, s, t).failures >= r.failures
        /\ Noted(r, s, t).failures = r.failures <=> ~ Raises(s)
    BY <2>1, NotedRaises
  <2> QED BY <2>1, <2>2
<1>5. Verdict(r, v).failures \in Nat /\ r.failures \in Nat
  BY <1>4 DEF Report
<1> QED BY <1>4, <1>5 DEF f

LEMMA MarkerKeeps ==
  ASSUME NEW r \in Report, NEW d
  PROVE  /\ CheckSyncMarker(r, d) \in Report /\ CheckSyncMarker(r, d).failures >= r.failures
         /\ VerifyStoreChecksum(d) = "failed" => CheckSyncMarker(r, d).failures > r.failures
<1>1. VerifyStoreChecksum(d) = "failed" => LoadMarker(d.marker)
  BY DEF VerifyStoreChecksum
<1>2. CheckSyncMarker(r, d) \in {r, Verdict(r, VerifyStoreChecksum(d))}
      /\ (LoadMarker(d.marker) => CheckSyncMarker(r, d) = Verdict(r, VerifyStoreChecksum(d)))
  BY DEF CheckSyncMarker
<1>3. r.failures >= r.failures
  BY DEF Report
<1> QED BY <1>1, <1>2, <1>3, VerdictKeeps

LEMMA KnowledgeKeeps ==
  ASSUME NEW r \in Report, NEW k, IsFiniteSet(k.ids)
  PROVE  /\ CheckKnowledge(r, k) \in Report /\ CheckKnowledge(r, k).failures >= r.failures
         /\ k.pointer /\ VerifyKnowledgeChecksum(k) = "failed" => CheckKnowledge(r, k).failures > r.failures
<1> DEFINE first == <<k.schema # "v1">>
           plain == Noted(r, first, <<>>)
           scrub == CheckKnowledgeScrub(plain, k)
           bad == Noted(r, <<TRUE>>, <<>>)
           loaded == IF ~ k.loads THEN bad ELSE scrub
<1>1. first \in Seq(BOOLEAN)
  OBVIOUS
<1>2. plain \in Report /\ plain.failures >= r.failures
  <2> HIDE DEF first
  <2> QED BY <1>1, OneRaises, NotedRaises
<1>3. bad \in Report /\ bad.failures >= r.failures
  BY OneRaises, NotedRaises
<1> HIDE DEF plain, bad
<1>4. scrub \in Report /\ scrub.failures = plain.failures
  <2>1. Cardinality(k.ids) \in Nat
    BY FS_CardinalityType
  <2> QED BY <1>2, <2>1 DEF Report, CheckKnowledgeScrub
<1> HIDE DEF scrub
<1>5. loaded \in Report /\ loaded.failures >= r.failures
  BY <1>2, <1>3, <1>4
<1>6. CheckKnowledge(r, k) = IF ~ k.pointer THEN r ELSE Verdict(loaded, VerifyKnowledgeChecksum(k))
  BY DEF CheckKnowledge, plain, bad, scrub
<1> HIDE DEF loaded
<1>7. r.failures \in Nat /\ loaded.failures \in Nat
  BY <1>5 DEF Report
<1>8. CASE ~ k.pointer
  BY <1>6, <1>7, <1>8
<1>9. CASE k.pointer
  <2> DEFINE v == Verdict(loaded, VerifyKnowledgeChecksum(k))
  <2>1. v \in Report /\ v.failures >= loaded.failures /\ (VerifyKnowledgeChecksum(k) = "failed" => v.failures > loaded.failures)
    BY <1>5, VerdictKeeps
  <2>2. v.failures \in Nat
    BY <2>1 DEF Report
  <2>3. CheckKnowledge(r, k) = v
    BY <1>6, <1>9
  <2> HIDE DEF v
  <2> QED BY <1>5, <1>7, <2>1, <2>2, <2>3
<1> QED BY <1>8, <1>9

\* What doctor makes of the members, one after the other.
OnMember(root, binary, r, n) == CheckSyncMarker(CheckStore(r, root.members[n], binary), root.members[n])
MembersReport(root, binary) ==
  FoldLeft(LAMBDA r, n : CheckSyncMarker(CheckStore(r, root.members[n], binary), root.members[n]), Nothing, SetToSeq(DOMAIN root.members))
LEMMA MembersKeep ==
  ASSUME NEW root, NEW binary, IsFiniteSet(DOMAIN root.members)
  PROVE  /\ MembersReport(root, binary) \in Report
         /\ MembersReport(root, binary).failures = 0 =>
              \A n \in DOMAIN root.members : VerifyStoreChecksum(root.members[n]) # "failed"
<1> DEFINE D == DOMAIN root.members
           q == SetToSeq(D)
           k == Cardinality(D)
           Run(g) == g = [s \in SUBSET (1..k) |-> IF s = {} THEN Nothing
                                                  ELSE OnMember(root, binary, g[s \ {Max(s)}], q[Max(s)])]
           step == [p \in (1..k) \X Report |-> OnMember(root, binary, p[2], q[p[1]])]
           c == Top(k)
<1>1. q \in [1..k -> D] /\ k \in Nat /\ \A n \in D : \E i \in 1..k : q[i] = n
  BY SeqOfSet
<1>2. ASSUME NEW r \in Report, NEW n
      PROVE  /\ OnMember(root, binary, r, n) \in Report /\ OnMember(root, binary, r, n).failures >= r.failures
             /\ VerifyStoreChecksum(root.members[n]) = "failed" => OnMember(root, binary, r, n).failures > r.failures
  <2> DEFINE d == root.members[n]
             a == CheckStore(r, d, binary)
             b == CheckSyncMarker(a, d)
  <2>1. a \in Report /\ a.failures >= r.failures
    BY StoreKeeps
  <2> HIDE DEF a
  <2>2. b \in Report /\ b.failures >= a.failures /\ (VerifyStoreChecksum(d) = "failed" => b.failures > a.failures)
    BY <2>1, MarkerKeeps
  <2>3. OnMember(root, binary, r, n) = b
    BY DEF OnMember, a
  <2> HIDE DEF b, d
  <2>4. a.failures \in Nat /\ b.failures \in Nat /\ r.failures \in Nat
    BY <2>1, <2>2 DEF Report
  <2>5. b.failures >= r.failures /\ (VerifyStoreChecksum(d) = "failed" => b.failures > r.failures)
    BY <2>1, <2>2, <2>4
  <2> QED BY <2>2, <2>3, <2>5 DEF d
<1>3. Nothing \in Report /\ Nothing.failures = 0
  BY DEF Nothing, Report
<1>4. step \in [(1..k) \X Report -> Report]
  BY <1>2
<1> HIDE DEF q, k, D
<1>5. IsFiniteSet(1..k) /\ Picks(c, 1..k) /\ \A i \in 1..k : Max(1..i) = i /\ (1..i) \ {i} = 1..(i - 1) /\ 1..i # {}
  BY <1>1, TopPicks
<1>6. PICK g \in [SUBSET (1..k) -> Report] : Folds(g, 1..k, Nothing, c, step)
  <2> HIDE DEF c, step
  <2> QED BY <1>3, <1>4, <1>5, FoldDefines
<1>7. Run(g)
  <2>1. ASSUME NEW s \in SUBSET (1..k), s # {}
        PROVE  g[s] = OnMember(root, binary, g[s \ {Max(s)}], q[Max(s)])
    <3>1. c[s] = Max(s) /\ Max(s) \in 1..k
      BY <1>5, <2>1 DEF Top, Picks
    <3>2. g[s] = step[<<c[s], g[s \ {c[s]}]>>] /\ g[s \ {c[s]}] \in Report
      BY <1>6, <2>1 DEF Folds
    <3> QED BY <3>1, <3>2
  <2>2. g[{}] = Nothing
    BY <1>6 DEF Folds
  <2> HIDE DEF c, step
  <2> QED BY <1>6, <2>1, <2>2
<1> DEFINE h == CHOOSE f : Run(f)
<1>8. Run(h)
  <2> HIDE DEF Run
  <2> QED BY <1>7
<1>9. MembersReport(root, binary) = h[1..k]
  <2>1. DOMAIN q = 1..k
    BY <1>1
  <2> QED BY <2>1 DEF MembersReport, FoldLeft, MapThenFoldSet, OnMember, q, D
<1> HIDE DEF h
<1>10. h[{}] = Nothing /\ \A i \in 1..k : h[1..i] = OnMember(root, binary, h[1..(i - 1)], q[i])
  <2>1. {} \in SUBSET (1..k)
    OBVIOUS
  <2>2. ASSUME NEW i \in 1..k PROVE h[1..i] = OnMember(root, binary, h[1..(i - 1)], q[i])
    <3>1. 1..i \in SUBSET (1..k) /\ 1..i # {} /\ Max(1..i) = i /\ (1..i) \ {i} = 1..(i - 1)
      BY <1>1, <1>5
    <3> QED BY <1>8, <3>1
  <2> QED BY <1>8, <2>1, <2>2
<1> DEFINE T == {i \in 0..k : h[1..i] \in Report /\ (h[1..i].failures = 0 => \A j \in 1..i : VerifyStoreChecksum(root.members[q[j]]) # "failed")}
<1>11. 0 \in T
  <2>1. 1..0 = {}
    OBVIOUS
  <2> QED BY <1>1, <1>3, <1>10, <2>1
<1>12. ASSUME NEW i \in 0..(k - 1), i \in T PROVE i + 1 \in T
  <2> DEFINE a == h[1..i]
             b == h[1..(i + 1)]
             n == q[i + 1]
  <2>1. i + 1 \in 1..k /\ (i + 1) - 1 = i
    BY <1>1
  <2>2. b = OnMember(root, binary, a, n)
    BY <1>10, <2>1
  <2>3. a \in Report /\ (a.failures = 0 => \A j \in 1..i : VerifyStoreChecksum(root.members[q[j]]) # "failed")
    BY <1>12
  <2> HIDE DEF a, b, n
  <2>4. b \in Report /\ b.failures >= a.failures /\ (VerifyStoreChecksum(root.members[n]) = "failed" => b.failures > a.failures)
    BY <1>2, <2>2, <2>3
  <2>5. a.failures \in Nat /\ b.failures \in Nat
    BY <2>3, <2>4 DEF Report
  <2>6. b.failures = 0 => a.failures = 0 /\ VerifyStoreChecksum(root.members[n]) # "failed"
    BY <2>4, <2>5
  <2>7. b.failures = 0 => \A j \in 1..(i + 1) : VerifyStoreChecksum(root.members[q[j]]) # "failed"
    BY <2>3, <2>6 DEF n
  <2> QED BY <1>1, <2>1, <2>4, <2>7 DEF b
<1> HIDE DEF T
<1>13. \A i \in 0..k : i \in T
  BY <1>1, <1>11, <1>12, UpTo
<1>14. k \in 0..k
  BY <1>1
<1> QED BY <1>1, <1>9, <1>13, <1>14 DEF T, D

RootInputOK == For("root") => IsFiniteSet(DOMAIN input.root.members) /\ IsFiniteSet(input.root.knowledge.ids)
Changed(d) == d.marker.state = "read" /\ d.marker.installed # "none" /\ d.marker.installed # d.store.bytes
LEMMA ChangedFails ==
  ASSUME NEW d
  PROVE  /\ Changed(d) => VerifyStoreChecksum(d) = "failed"
         /\ VerifyStoreChecksum(d) \in {"nothing", "no record", "ok", "failed"}
         /\ VerifyStoreChecksum(d) \in {"ok", "no record"} /\ d.marker.state = "read" /\ d.marker.installed # "none"
              => d.store.there /\ ~ Changed(d)
         /\ VerifyStoreChecksum(d) = "nothing" <=> d.marker.state # "read"
  BY DEF Changed, VerifyStoreChecksum, LoadMarker

\* The report of doctor on a root: no failure counted means none of the checksums failed.
LEMMA DoctorTells ==
  ASSUME NEW root, NEW binary, IsFiniteSet(DOMAIN root.members), IsFiniteSet(root.knowledge.ids),
         root.manifest # "corrupt", Healthy(Doctor(root, binary))
  PROVE  /\ root.manifest = "ok" => \A n \in DOMAIN root.members : VerifyStoreChecksum(root.members[n]) # "failed"
         /\ root.manifest # "ok" /\ root.dir.store.there => VerifyStoreChecksum(root.dir) # "failed"
         /\ root.knowledge.pointer => VerifyKnowledgeChecksum(root.knowledge) # "failed"
<1> DEFINE members == MembersReport(root, binary)
           here == CheckSyncMarker(CheckStore(Nothing, root.dir, binary), root.dir)
           own == IF root.dir.store.there THEN here ELSE Nothing
           with(r) == CheckKnowledge(r, root.knowledge)
           out == Doctor(root, binary)
<1>0. Nothing \in Report /\ Nothing.failures = 0
  BY DEF Nothing, Report
<1>1. members \in Report /\ (members.failures = 0 => \A n \in DOMAIN root.members : VerifyStoreChecksum(root.members[n]) # "failed")
  BY MembersKeep
<1>2. own \in Report /\ (own.failures = 0 /\ root.dir.store.there => VerifyStoreChecksum(root.dir) # "failed")
  <2> DEFINE a == CheckStore(Nothing, root.dir, binary)
  <2>1. a \in Report
    BY <1>0, StoreKeeps
  <2> HIDE DEF a
  <2>2. /\ CheckSyncMarker(a, root.dir) \in Report /\ CheckSyncMarker(a, root.dir).failures >= a.failures
        /\ VerifyStoreChecksum(root.dir) = "failed" => CheckSyncMarker(a, root.dir).failures > a.failures
    BY <2>1, MarkerKeeps
  <2>3. here = CheckSyncMarker(a, root.dir)
    BY DEF a
  <2> HIDE DEF here
  <2>4. a.failures \in Nat /\ here.failures \in Nat
    BY <2>1, <2>2, <2>3 DEF Report
  <2>5. VerifyStoreChecksum(root.dir) = "failed" => here.failures # 0
    BY <2>2, <2>3, <2>4
  <2> QED BY <1>0, <2>2, <2>3, <2>5
<1> HIDE DEF members, here, own
<1>3. ASSUME NEW r \in Report, with(r).failures = 0
      PROVE  r.failures = 0 /\ (root.knowledge.pointer => VerifyKnowledgeChecksum(root.knowledge) # "failed")
  <2>1. /\ with(r) \in Report /\ with(r).failures >= r.failures
        /\ root.knowledge.pointer /\ VerifyKnowledgeChecksum(root.knowledge) = "failed" => with(r).failures > r.failures
    BY KnowledgeKeeps
  <2> HIDE DEF with
  <2>2. r.failures \in Nat
    BY DEF Report
  <2> QED BY <1>3, <2>1, <2>2
<1>4. CASE root.manifest = "ok"
  <2>1. out.failures = with(members).failures
    BY <1>4 DEF Doctor, members, MembersReport
  <2>2. with(members).failures = 0
    BY <2>1 DEF Healthy
  <2> HIDE DEF with
  <2>3. members.failures = 0 /\ (root.knowledge.pointer => VerifyKnowledgeChecksum(root.knowledge) # "failed")
    BY <1>1, <1>3, <2>2
  <2> QED BY <1>1, <1>4, <2>3
<1>5. CASE root.manifest # "ok"
  <2>1. out.ok => out.failures = with(own).failures
    BY <1>5 DEF Doctor, own, here
  <2>2. with(own).failures = 0
    BY <2>1 DEF Healthy
  <2> HIDE DEF with
  <2>3. own.failures = 0 /\ (root.knowledge.pointer => VerifyKnowledgeChecksum(root.knowledge) # "failed")
    BY <1>2, <1>3, <2>2
  <2> QED BY <1>2, <1>5, <2>3
<1> QED BY <1>4, <1>5

\* What verify --checksum-only says of the same root.
LEMMA VerifyTells ==
  ASSUME NEW root
  PROVE  LET v == CmdVerifyChecksumOnly(root)
             k == VerifyKnowledgeChecksum(root.knowledge)
             of(n) == VerifyStoreChecksum(root.members[n])
         IN /\ k = "failed" => v.out = "failed"
            /\ v.out = "ok" => k # "failed"
            /\ root.manifest = "ok" =>
                 /\ (\E n \in DOMAIN root.members : of(n) = "failed") => v.out \in {"failed", "nothing"}
                 /\ v.out = "failed" => k = "failed" \/ \E n \in DOMAIN root.members : of(n) = "failed"
                 /\ v.out = "ok" => \A n \in DOMAIN root.members : of(n) \in {"ok", "no record"}
            /\ root.manifest # "ok" =>
                 /\ VerifyStoreChecksum(root.dir) = "failed" => v.out = "failed"
                 /\ v.out = "failed" => k = "failed" \/ VerifyStoreChecksum(root.dir) = "failed"
                 /\ v.out = "ok" => VerifyStoreChecksum(root.dir) \in {"ok", "nothing"}
<1> DEFINE v == CmdVerifyChecksumOnly(root)
           k == VerifyKnowledgeChecksum(root.knowledge)
           bad == {VerifyStoreChecksum(root.members[n]) : n \in DOMAIN root.members} \cap {"failed", "nothing"}
           first == CHOOSE x \in bad : TRUE
           own == VerifyStoreChecksum(root.dir)
<1>1. v.out = IF k = "failed" THEN "failed"
              ELSE IF root.manifest = "ok" THEN (IF bad = {} THEN "ok" ELSE first)
              ELSE IF own = "nothing" /\ k # "nothing" THEN k ELSE own
  BY DEF CmdVerifyChecksumOnly
<1>2. bad # {} => first \in bad
  OBVIOUS
<1>3. k \in {"nothing", "no record", "ok", "failed"}
  BY DEF VerifyKnowledgeChecksum
<1>4. \A n \in DOMAIN root.members : VerifyStoreChecksum(root.members[n]) \in {"nothing", "no record", "ok", "failed"}
  BY ChangedFails
<1> HIDE DEF v, k, own, first
<1>5. root.manifest = "ok" =>
        /\ (\E n \in DOMAIN root.members : VerifyStoreChecksum(root.members[n]) = "failed") => v.out \in {"failed", "nothing"}
        /\ v.out = "failed" => k = "failed" \/ \E n \in DOMAIN root.members : VerifyStoreChecksum(root.members[n]) = "failed"
        /\ v.out = "ok" => \A n \in DOMAIN root.members : VerifyStoreChecksum(root.members[n]) \in {"ok", "no record"}
  BY <1>1, <1>2, <1>4
<1>6. root.manifest # "ok" =>
        /\ own = "failed" => v.out = "failed"
        /\ v.out = "failed" => k = "failed" \/ own = "failed"
        /\ v.out = "ok" => own \in {"ok", "nothing"}
  BY <1>1, <1>3
<1>7. (k = "failed" => v.out = "failed") /\ (v.out = "ok" => k # "failed")
  BY <1>1
<1> QED BY <1>5, <1>6, <1>7 DEF v, k, own

LEMMA TamperingTold == RootInputOK => TamperingFound
<1> SUFFICES ASSUME For("root"), IsFiniteSet(DOMAIN input.root.members), IsFiniteSet(input.root.knowledge.ids),
                    input.root.manifest # "corrupt"
             PROVE  TamperingFound
  BY DEF RootInputOK, TamperingFound
<1> DEFINE root == input.root
           out == Doctor(root, input.now)
           v == CmdVerifyChecksumOnly(root)
           k == root.knowledge
           of(n) == VerifyStoreChecksum(root.members[n])
           dirs == IF root.manifest = "ok" THEN {root.members[n] : n \in DOMAIN root.members} ELSE {root.dir}
           changed(d) == d.marker.state = "read" /\ d.marker.installed # "none" /\ d.marker.installed # d.store.bytes
           kchanged == k.marker.state = "read" /\ k.marker.installed \notin {"none", k.bytes}
<1>1. kchanged => VerifyKnowledgeChecksum(k) = "failed"
  BY DEF VerifyKnowledgeChecksum, LoadMarker
<1>2. Healthy(out) => /\ root.manifest = "ok" => \A n \in DOMAIN root.members : of(n) # "failed"
                      /\ root.manifest # "ok" /\ root.dir.store.there => VerifyStoreChecksum(root.dir) # "failed"
                      /\ k.pointer => VerifyKnowledgeChecksum(k) # "failed"
  BY DoctorTells
<1>3. /\ VerifyKnowledgeChecksum(k) = "failed" => v.out = "failed"
      /\ v.out = "ok" => VerifyKnowledgeChecksum(k) # "failed"
      /\ root.manifest = "ok" =>
           /\ (\E n \in DOMAIN root.members : of(n) = "failed") => v.out \in {"failed", "nothing"}
           /\ v.out = "failed" => VerifyKnowledgeChecksum(k) = "failed" \/ \E n \in DOMAIN root.members : of(n) = "failed"
           /\ v.out = "ok" => \A n \in DOMAIN root.members : of(n) \in {"ok", "no record"}
      /\ root.manifest # "ok" =>
           /\ VerifyStoreChecksum(root.dir) = "failed" => v.out = "failed"
           /\ v.out = "failed" => VerifyKnowledgeChecksum(k) = "failed" \/ VerifyStoreChecksum(root.dir) = "failed"
           /\ v.out = "ok" => VerifyStoreChecksum(root.dir) \in {"ok", "nothing"}
  BY VerifyTells
<1>4. \A d \in dirs : /\ changed(d) => VerifyStoreChecksum(d) = "failed"
                      /\ VerifyStoreChecksum(d) \in {"ok", "no record"} /\ d.marker.state = "read" /\ d.marker.installed # "none"
                           => d.store.there /\ ~ changed(d)
                      /\ VerifyStoreChecksum(d) = "nothing" => d.marker.state # "read"
  BY ChangedFails DEF Changed
<1>5. /\ root.manifest = "ok" => \A d \in dirs : \E n \in DOMAIN root.members : d = root.members[n]
      /\ root.manifest = "ok" => \A n \in DOMAIN root.members : root.members[n] \in dirs
      /\ root.manifest # "ok" => dirs = {root.dir}
  OBVIOUS
<1> HIDE DEF out, v, k, dirs, changed, kchanged
<1>6. (\E d \in dirs : changed(d) /\ d.store.there) \/ (kchanged /\ k.pointer) => ~ Healthy(out) /\ v.out \in {"failed", "nothing"}
  <2>1. CASE root.manifest = "ok"
    BY <1>1, <1>2, <1>3, <1>4, <1>5, <2>1
  <2>2. CASE root.manifest # "ok"
    BY <1>1, <1>2, <1>3, <1>4, <1>5, <2>2
  <2> QED BY <2>1, <2>2
<1>7. (Healthy(out) /\ (\A d \in dirs : d.store.there) /\ k.pointer) => v.out # "failed"
  BY <1>2, <1>3, <1>5
<1>8. v.out = "ok" => \A d \in dirs : d.marker.state = "read" /\ d.marker.installed # "none" => d.store.there /\ ~ changed(d)
  <2>1. CASE root.manifest = "ok"
    BY <1>3, <1>4, <1>5, <2>1
  <2>2. CASE root.manifest # "ok"
    BY <1>3, <1>4, <1>5, <2>2
  <2> QED BY <2>1, <2>2
<1> QED BY <1>6, <1>7, <1>8, Zenon DEF TamperingFound, out, v, k, dirs, changed, kchanged

\* Health is told on every input of this shape: doctor finds any drift between a store, its
\* fingerprint and the binary, and any tampering with what was pulled, in a workspace of any
\* size; sync list hides nothing and adds up; verify compares with the sha it names.
HealthInputOK == DriftInputOK /\ RootInputOK /\ CacheInputOK
THEOREM HealthIsTold == HealthInputOK => HealthTold
  BY DriftTold, TamperingTold, ListComplete, VerifyNames DEF HealthInputOK, HealthTold
-----------------------------------------------------------------------------
(***************************************************************************)
(* Metrics: dates and instants.  An era of 400 years is split into         *)
(* centuries, cycles of four years, years and days; on these parts the     *)
(* source's divisions are linear arithmetic.                               *)
(***************************************************************************)

\* The days of an era before its year k, counted from March; and the parts of an era: whole centuries,
\* then whole cycles of four years, then years, then days, of which the last is a leap day's.
Starts(k) == 365 * k + k \div 4 - k \div 100
AtMost(i, n) == i \in Int /\ 0 <= i /\ i <= n
InEra(c, q, r, doy) ==
  /\ AtMost(c, 3) /\ AtMost(q, 24) /\ AtMost(r, 3) /\ AtMost(doy, 365)
  /\ doy = 365 => r = 3 /\ (q = 24 => c = 3)
DayOfEra(c, q, r, doy) == 36524 * c + 1461 * q + 365 * r + doy

\* Every day of an era has such parts.
LEMMA EraParts ==
  ASSUME NEW doe, AtMost(doe, 146096)
  PROVE  \E c, q, r, doy \in Int : InEra(c, q, r, doy) /\ doe = DayOfEra(c, q, r, doy)
<1> DEFINE c == IF doe < 36524 THEN 0 ELSE IF doe < 73048 THEN 1 ELSE IF doe < 109572 THEN 2 ELSE 3
           a == doe - 36524 * c
           q == a \div 1461
           b == a - 1461 * q
           r == IF b < 365 THEN 0 ELSE IF b < 730 THEN 1 ELSE IF b < 1095 THEN 2 ELSE 3
           doy == b - 365 * r
<1> USE DEF AtMost
<1>1. AtMost(c, 3) /\ AtMost(a, 36524) /\ (a = 36524 => c = 3)
  BY SMT
<1> HIDE DEF c, a
<1>2. AtMost(q, 24) /\ AtMost(b, 1460) /\ a = 1461 * q + b
  BY SMT, <1>1
<1> HIDE DEF q, b
<1>3. AtMost(r, 3) /\ AtMost(doy, 365) /\ b = 365 * r + doy /\ (doy = 365 => r = 3)
  BY SMT, <1>2
<1> HIDE DEF r, doy
<1>4. doe = DayOfEra(c, q, r, doy)
  BY SMT, <1>1, <1>2, <1>3 DEF DayOfEra, a
<1>5. InEra(c, q, r, doy)
  BY SMT, <1>1, <1>2, <1>3 DEF InEra
<1> QED BY <1>4, <1>5 DEF InEra

\* From the day of an era, its parts' year: the integer formula of the source is exact.
LEMMA EraYear ==
  ASSUME NEW c \in Int, NEW q \in Int, NEW r \in Int, NEW doy \in Int, InEra(c, q, r, doy),
         NEW doe, doe = DayOfEra(c, q, r, doy), NEW k, k = 100 * c + 4 * q + r
  PROVE  /\ AtMost(doe, 146096) /\ AtMost(k, 399) /\ YearOfEra(doe) = k /\ doe - Starts(k) = doy
         /\ k \div 4 = 25 * c + q /\ k % 4 = r /\ k \div 100 = c /\ k % 100 = 4 * q + r
<1> DEFINE b == IF 24 * c + q + 365 * r + doy >= 1460 THEN 1 ELSE 0
           e == 24 * c + q + 365 * r + doy
           rest == 1461 * q + 365 * r + doy
<1>0. /\ 0 <= c /\ c <= 3 /\ 0 <= q /\ q <= 24 /\ 0 <= r /\ r <= 3 /\ 0 <= doy /\ doy <= 365
      /\ doy = 365 => r = 3
  BY SMT DEF InEra, AtMost
<1>1. doe \in Int /\ 0 <= doe /\ doe <= 146096
  BY SMT, <1>0 DEF DayOfEra
<1>2. k \in Int /\ 0 <= k /\ k <= 399 /\ k \div 4 = 25 * c + q /\ k % 4 = r
  BY SMT, <1>0
<1>3. k \div 100 = c /\ k % 100 = 4 * q + r
  BY SMT, <1>0
<1>4. Starts(k) = 36524 * c + 1461 * q + 365 * r
  BY SMT, <1>2, <1>3 DEF Starts
<1>5. doe \div 1460 = 25 * c + q + b
  <2>1. doe = 1460 * (25 * c + q) + e
    BY SMT DEF DayOfEra
  <2>2. 0 <= e /\ e < 2920
    BY SMT, <1>0
  <2>3. CASE e >= 1460
    BY SMT, <2>1, <2>2, <2>3
  <2>4. CASE ~ (e >= 1460)
    BY SMT, <2>1, <2>2, <2>4
  <2> QED BY SMT, <2>3, <2>4
<1>6. doe \div 36524 - doe \div 146096 = c
  <2>1. doe = 36524 * c + rest /\ rest \in Int /\ 0 <= rest /\ rest <= 36524
    BY SMT, <1>0 DEF DayOfEra
  <2>2. rest = 36524 => c = 3
    <3>1. rest = 36524 => q = 24 /\ doy = 365
      BY SMT, <1>0
    <3> QED BY SMT, <3>1 DEF InEra
  <2> HIDE DEF rest
  <2>3. CASE rest = 36524
    <3>1. doe = 146096
      BY SMT, <2>1, <2>2, <2>3
    <3> QED BY SMT, <2>2, <2>3, <3>1
  <2>4. CASE rest # 36524
    <3>1. doe < 146096
      BY SMT, <1>0, <2>1, <2>4
    <3>2. doe \div 36524 = c
      BY SMT, <1>0, <2>1, <2>4
    <3>3. doe \div 146096 = 0
      BY SMT, <1>1, <3>1
    <3> QED BY SMT, <3>2, <3>3
  <2> QED BY <2>3, <2>4
<1>7. b \in Int /\ 0 <= b /\ b <= 1 /\ 0 <= doy - b /\ doy - b < 365
  BY SMT, <1>0
<1>8. doe = 365 * k + 25 * c + q - c + doy
  BY SMT DEF DayOfEra
<1> HIDE DEF b
<1>9. YearOfEra(doe) = (365 * k + (doy - b)) \div 365
  <2>1. doe \div 1460 \in Int /\ doe \div 36524 \in Int /\ doe \div 146096 \in Int
    BY SMT, <1>1
  <2>2. doe - doe \div 1460 + doe \div 36524 - doe \div 146096 = doe - (25 * c + q + b) + c
    BY SMT, <1>1, <1>5, <1>6, <1>7, <2>1
  <2>3. doe - (25 * c + q + b) + c = 365 * k + (doy - b)
    BY SMT, <1>7, <1>8
  <2> QED BY SMT, <2>2, <2>3 DEF YearOfEra
<1>10. YearOfEra(doe) = k
  <2>1. (365 * k + (doy - b)) \div 365 = k
    BY SMT, <1>2, <1>7
  <2> QED BY SMT, <1>9, <2>1
<1>11. doe - Starts(k) = doy
  BY SMT, <1>1, <1>4 DEF DayOfEra
<1> QED BY <1>1, <1>2, <1>3, <1>10, <1>11 DEF AtMost

\* The months from March: the days before month i, and its longest length.
MonthStart(i) == (153 * i + 2) \div 5
InMonth(i, d) == AtMost(i, 11) /\ d \in Int /\ 1 <= d /\ d <= (IF i = 11 THEN 29 ELSE IF i \in {1, 3, 6, 8} THEN 30 ELSE 31)

\* The days of a year from March, split at its months.
LEMMA MonthParts ==
  ASSUME NEW doy, AtMost(doy, 365)
  PROVE  \E i, d \in Int : InMonth(i, d) /\ doy = MonthStart(i) + d - 1
<1> DEFINE i == (5 * doy + 2) \div 153
           d == doy - MonthStart(i) + 1
<1>1. i \in Int /\ 0 <= i /\ i <= 11 /\ 153 * i <= 5 * doy + 2 /\ 5 * doy + 2 < 153 * i + 153 /\ doy \in Int
  BY SMT DEF AtMost
<1> HIDE DEF i
<1>2. d \in Int /\ 1 <= d /\ d <= (IF i = 11 THEN 29 ELSE IF i \in {1, 3, 6, 8} THEN 30 ELSE 31)
  BY SMT, <1>1 DEF MonthStart, AtMost
<1>3. InMonth(i, d)
  BY <1>1, <1>2 DEF InMonth, AtMost
<1>4. doy = MonthStart(i) + d - 1
  <2>1. MonthStart(i) \in Int
    BY SMT, <1>1 DEF MonthStart
  <2> QED BY SMT, <1>1, <2>1
<1> HIDE DEF d
<1> QED BY <1>1, <1>2, <1>3, <1>4

\* From the day of a year, the source's month.
LEMMA MonthFound ==
  ASSUME NEW i, NEW d, InMonth(i, d), NEW doy, doy = MonthStart(i) + d - 1
  PROVE  AtMost(doy, 365) /\ (5 * doy + 2) \div 153 = i /\ (doy = 365 <=> i = 11 /\ d = 29)
<1>1. i \in Int /\ 0 <= i /\ i <= 11 /\ d \in Int
  BY SMT DEF InMonth, AtMost
<1>2. CASE i \in {1, 3, 6, 8}
  BY SMT, <1>2 DEF InMonth, MonthStart, AtMost
<1>3. CASE i \in {0, 2, 4, 5}
  BY SMT, <1>3 DEF InMonth, MonthStart, AtMost
<1>4. CASE i \in {7, 9, 10}
  BY SMT, <1>4 DEF InMonth, MonthStart, AtMost
<1>5. CASE i = 11
  BY SMT, <1>5 DEF InMonth, MonthStart, AtMost
<1> QED BY SMT, <1>1, <1>2, <1>3, <1>4, <1>5

\* The date on day d of month i from March, in the year that begins in March of `year`.
DateOf(year, i, d) == <<IF i < 10 THEN year ELSE year + 1, IF i < 10 THEN i + 3 ELSE i - 9, d>>

\* The two conversions on parts: the day of a date, and the date of that day.
LEMMA DayToDate ==
  ASSUME NEW era \in Int, NEW c \in Int, NEW q \in Int, NEW r \in Int, NEW doy \in Int, InEra(c, q, r, doy),
         NEW i, NEW d, InMonth(i, d), doy = MonthStart(i) + d - 1,
         NEW days, days = era * 146097 + DayOfEra(c, q, r, doy) - 719468
  PROVE  CivilFromDays(days) = DateOf(400 * era + 100 * c + 4 * q + r, i, d)
<1> DEFINE doe == DayOfEra(c, q, r, doy)
           k == 100 * c + 4 * q + r
           z == days + 719468
<1>1. AtMost(doe, 146096) /\ AtMost(k, 399) /\ YearOfEra(doe) = k /\ doe - Starts(k) = doy
  BY EraYear
<1>2. (5 * doy + 2) \div 153 = i
  BY MonthFound
<1>3. doe \in Int /\ 0 <= doe /\ doe < 146097
  BY SMT DEF InEra, AtMost, DayOfEra
<1> HIDE DEF doe
<1>4. z = era * 146097 + doe
  BY SMT, <1>3 DEF doe
<1>5. z \div 146097 = era /\ z % 146097 = doe
  BY SMT, <1>3, <1>4
<1>6. CivilFromDays(days) = CivilOfEra(era, doe, k)
  BY <1>1, <1>5 DEF CivilFromDays
<1>7. doe - (365 * k + k \div 4 - k \div 100) = doy
  BY <1>1 DEF Starts
<1>8. CivilFromDays(days) = CivilOfMonth(k + era * 400, doy, i)
  BY <1>2, <1>6, <1>7 DEF CivilOfEra, CivilOfYear
<1>9. i \in Int /\ 0 <= i /\ i <= 11 /\ d \in Int /\ MonthStart(i) \in Int
  BY SMT DEF InMonth, AtMost, MonthStart
<1>10. doy - (153 * i + 2) \div 5 + 1 = d
  <2>1. MonthStart(i) = (153 * i + 2) \div 5
    BY DEF MonthStart
  <2> HIDE DEF MonthStart
  <2> QED BY SMT, <1>9, <2>1
<1>11. k + era * 400 = 400 * era + 100 * c + 4 * q + r /\ k + era * 400 \in Int
  BY SMT
<1> HIDE DEF k
<1>12. CivilFromDays(days) = CivilOfMonth(400 * era + 100 * c + 4 * q + r, doy, i)
  BY <1>8, <1>11
<1>13. CASE i < 10
  <2>1. ~ (i + 3 <= 2)
    BY SMT, <1>9
  <2> QED BY <1>10, <1>12, <1>13, <2>1 DEF CivilOfMonth, DateOf
<1>14. CASE ~ (i < 10)
  <2>1. i - 9 <= 2
    BY SMT, <1>9
  <2> QED BY <1>10, <1>12, <1>14, <2>1 DEF CivilOfMonth, DateOf
<1> QED BY <1>13, <1>14

\* The dates of the calendar.
DayOf(y, m, d) == 1 <= d /\ d <= MonthLength(y, m)
RealDate(y, m, d) == y \in Int /\ m \in Int /\ 1 <= m /\ m <= 12 /\ d \in Int /\ DayOf(y, m, d)
YearParts(year, era, c, q, r) ==
  /\ era \in Int /\ AtMost(c, 3) /\ AtMost(q, 24) /\ AtMost(r, 3)
  /\ year = 400 * era + 100 * c + 4 * q + r

\* Leap years in a year's parts: only the last of a cycle, and of a whole century's only the last of an era.
LEMMA MarchYear ==
  ASSUME NEW year, NEW era, NEW c, NEW q, NEW r, YearParts(year, era, c, q, r)
  PROVE  LeapYear(year + 1) <=> r = 3 /\ (q = 24 => c = 3)
<1> DEFINE y == year + 1
<1>1. y \in Int /\ era \in Int /\ c \in Int /\ q \in Int /\ r \in Int /\ y = 400 * era + 100 * c + 4 * q + r + 1
      /\ 0 <= c /\ c <= 3 /\ 0 <= q /\ q <= 24 /\ 0 <= r /\ r <= 3
  BY SMT DEF YearParts, AtMost
<1> HIDE DEF y
<1>2. y % 4 = 0 <=> r = 3
  BY SMT, <1>1
<1>3. y % 100 = 0 <=> r = 3 /\ q = 24
  <2>1. CASE 4 * q + r = 99
    BY SMT, <1>1, <2>1
  <2>2. CASE 4 * q + r < 99
    <3>1. y = 100 * (4 * era + c) + (4 * q + r + 1) /\ 4 * q + r + 1 < 100 /\ 4 * q + r + 1 > 0
      BY SMT, <1>1, <2>2
    <3>2. y % 100 = 4 * q + r + 1
      BY SMT, <1>1, <3>1
    <3> QED BY SMT, <1>1, <2>2, <3>2
  <2> QED BY SMT, <1>1, <2>1, <2>2
<1>4. y % 400 = 0 <=> r = 3 /\ q = 24 /\ c = 3
  <2> DEFINE k == 100 * c + 4 * q + r + 1
  <2>1. era \in Int /\ y = 400 * era + k /\ k \in Int /\ 0 < k /\ k <= 400 /\ (k = 400 <=> r = 3 /\ q = 24 /\ c = 3)
    BY SMT, <1>1
  <2> HIDE DEF k
  <2>2. CASE k = 400
    BY SMT, <2>1, <2>2
  <2>3. CASE k # 400
    <3>1. y % 400 = k
      BY SMT, <2>1, <2>3
    <3> QED BY SMT, <2>1, <2>3, <3>1
  <2> QED BY <2>2, <2>3
<1> QED BY <1>2, <1>3, <1>4 DEF LeapYear, y

\* Which days months have: as many as their own lengths, in February one more in a leap year.
LEMMA DateIsReal ==
  ASSUME NEW year, NEW era, NEW c, NEW q, NEW r, YearParts(year, era, c, q, r), NEW i, AtMost(i, 11), NEW d \in Int
  PROVE  InMonth(i, d) /\ (i = 11 /\ d = 29 => r = 3 /\ (q = 24 => c = 3))
           <=> DayOf(DateOf(year, i, d)[1], DateOf(year, i, d)[2], d)
<1>1. i \in Int /\ 0 <= i /\ i <= 11 /\ year \in Int
  BY SMT DEF AtMost, YearParts
<1>2. CASE i < 10
  <2>1. DateOf(year, i, d)[2] = i + 3
    BY <1>2 DEF DateOf
  <2>2. MonthLength(DateOf(year, i, d)[1], i + 3) = IF i \in {1, 3, 6, 8} THEN 30 ELSE 31
    BY SMT, <1>1, <1>2 DEF MonthLength
  <2> QED BY SMT, <1>1, <1>2, <2>1, <2>2 DEF InMonth, DayOf
<1>3. CASE i = 10
  <2>1. DateOf(year, i, d)[2] = 1
    BY SMT, <1>3 DEF DateOf
  <2>2. MonthLength(DateOf(year, i, d)[1], 1) = 31
    BY SMT DEF MonthLength
  <2> QED BY SMT, <1>1, <1>3, <2>1, <2>2 DEF InMonth, DayOf
<1>4. CASE i = 11
  <2>1. DateOf(year, i, d)[2] = 2 /\ DateOf(year, i, d)[1] = year + 1
    BY SMT, <1>4 DEF DateOf
  <2>2. MonthLength(year + 1, 2) = IF r = 3 /\ (q = 24 => c = 3) THEN 29 ELSE 28
    <3>1. LeapYear(year + 1) <=> r = 3 /\ (q = 24 => c = 3)
      BY MarchYear
    <3> QED BY <3>1 DEF MonthLength
  <2> QED BY SMT, <1>1, <1>4, <2>1, <2>2 DEF InMonth, DayOf
<1> QED BY SMT, <1>1, <1>2, <1>3, <1>4

\* The parts a date is made of.
DateParts(era, c, q, r, i, d) ==
  /\ era \in Int /\ c \in Int /\ q \in Int /\ r \in Int /\ i \in Int /\ d \in Int
  /\ AtMost(c, 3) /\ AtMost(q, 24) /\ AtMost(r, 3) /\ InMonth(i, d) /\ (i = 11 /\ d = 29 => r = 3 /\ (q = 24 => c = 3))
DateAt(era, c, q, r, i, d) == DateOf(400 * era + 100 * c + 4 * q + r, i, d)
DayAt(era, c, q, r, i, d) == era * 146097 + DayOfEra(c, q, r, MonthStart(i) + d - 1) - 719468

\* A date with these parts has these numbers, and is converted there and back.
LEMMA PartsToDate ==
  ASSUME NEW era, NEW c, NEW q, NEW r, NEW i, NEW d, DateParts(era, c, q, r, i, d)
  PROVE  /\ DayAt(era, c, q, r, i, d) \in Int
         /\ CivilFromDays(DayAt(era, c, q, r, i, d)) = DateAt(era, c, q, r, i, d)
         /\ DaysFromCivil(DateAt(era, c, q, r, i, d)[1], DateAt(era, c, q, r, i, d)[2], d) = DayAt(era, c, q, r, i, d)
         /\ RealDate(DateAt(era, c, q, r, i, d)[1], DateAt(era, c, q, r, i, d)[2], d)
<1> DEFINE doy == MonthStart(i) + d - 1
           year == 400 * era + 100 * c + 4 * q + r
<1>1. /\ era \in Int /\ c \in Int /\ q \in Int /\ r \in Int /\ i \in Int /\ d \in Int /\ InMonth(i, d)
      /\ AtMost(c, 3) /\ AtMost(q, 24) /\ AtMost(r, 3) /\ AtMost(i, 11) /\ (i = 11 /\ d = 29 => r = 3 /\ (q = 24 => c = 3))
  BY DEF DateParts, InMonth
<1>2. AtMost(doy, 365) /\ doy \in Int /\ (doy = 365 <=> i = 11 /\ d = 29)
  BY <1>1, MonthFound DEF AtMost
<1> HIDE DEF doy
<1>3. InEra(c, q, r, doy)
  BY <1>1, <1>2 DEF InEra
<1>4. DayOfEra(c, q, r, doy) \in Int
  BY SMT, <1>1, <1>2 DEF DayOfEra
<1>5. DayAt(era, c, q, r, i, d) = era * 146097 + DayOfEra(c, q, r, doy) - 719468 /\ DayAt(era, c, q, r, i, d) \in Int
  <2>1. DayAt(era, c, q, r, i, d) = era * 146097 + DayOfEra(c, q, r, doy) - 719468
    BY DEF DayAt, doy
  <2> QED BY SMT, <1>1, <1>4, <2>1
<1>6. CivilFromDays(DayAt(era, c, q, r, i, d)) = DateOf(year, i, d)
  <2> HIDE DEF year
  <2>1. doy = MonthStart(i) + d - 1
    BY DEF doy
  <2> QED BY <1>1, <1>2, <1>3, <1>5, <2>1, DayToDate DEF year
<1>7. year \in Int
  BY SMT, <1>1
<1>8. DayOf(DateOf(year, i, d)[1], DateOf(year, i, d)[2], d)
  <2>1. YearParts(year, era, c, q, r)
    BY <1>1 DEF YearParts
  <2> HIDE DEF year
  <2> QED BY <1>1, <2>1, DateIsReal
<1> HIDE DEF year
<1>9. RealDate(DateOf(year, i, d)[1], DateOf(year, i, d)[2], d)
  <2>1. CASE i < 10
    BY SMT, <1>1, <1>7, <1>8, <2>1 DEF RealDate, DateOf, AtMost
  <2>2. CASE ~ (i < 10)
    BY SMT, <1>1, <1>7, <1>8, <2>2 DEF RealDate, DateOf, AtMost
  <2> QED BY <2>1, <2>2
<1> DEFINE y == DateOf(year, i, d)[1]
           m == DateOf(year, i, d)[2]
<1>10. (IF m <= 2 THEN y - 1 ELSE y) = year /\ (IF m > 2 THEN m - 3 ELSE m + 9) = i
  <2>1. CASE i < 10
    BY SMT, <1>1, <1>7, <2>1 DEF DateOf, AtMost
  <2>2. CASE ~ (i < 10)
    BY SMT, <1>1, <1>7, <2>2 DEF DateOf, AtMost
  <2> QED BY <2>1, <2>2
<1>11. DaysFromCivil(y, m, d) = DayAt(era, c, q, r, i, d)
  <2> DEFINE yoe == year - (year \div 400) * 400
  <2>1. year \div 400 = era /\ yoe = 100 * c + 4 * q + r /\ yoe \div 4 = 25 * c + q /\ yoe \div 100 = c
    BY SMT, <1>1 DEF AtMost, year
  <2> HIDE DEF yoe
  <2>2. yoe * 365 + yoe \div 4 - yoe \div 100 + doy = DayOfEra(c, q, r, doy)
    BY SMT, <1>1, <1>2, <2>1 DEF DayOfEra
  <2> HIDE DEF y, m
  <2>3. DaysFromCivil(y, m, d)
        = (year \div 400) * 146097 + (yoe * 365 + yoe \div 4 - yoe \div 100 + doy) - 719468
    BY <1>10 DEF DaysFromCivil, MonthStart, yoe, doy
  <2> QED BY <1>5, <2>1, <2>2, <2>3
<1> QED BY <1>5, <1>6, <1>9, <1>11 DEF DateAt, year

\* Every day number, and every date, is made of parts.
LEMMA EveryDayHasParts ==
  ASSUME NEW days \in Int
  PROVE  \E era, c, q, r, i, d : DateParts(era, c, q, r, i, d) /\ days = DayAt(era, c, q, r, i, d)
<1> DEFINE z == days + 719468
           era == z \div 146097
           doe == z % 146097
<1>1. z \in Int /\ era \in Int /\ doe \in Int /\ 0 <= doe /\ doe <= 146096 /\ z = era * 146097 + doe
  BY SMT
<1>2. days = era * 146097 + doe - 719468
  BY SMT, <1>1
<1> HIDE DEF z, era, doe
<1>3. PICK c \in Int, q \in Int, r \in Int, doy \in Int : InEra(c, q, r, doy) /\ doe = DayOfEra(c, q, r, doy)
  <2>1. AtMost(doe, 146096)
    BY <1>1 DEF AtMost
  <2> QED BY <2>1, EraParts
<1>4. PICK i \in Int, d \in Int : InMonth(i, d) /\ doy = MonthStart(i) + d - 1
  BY <1>3, MonthParts DEF InEra
<1>5. doy = 365 <=> i = 11 /\ d = 29
  BY <1>4, MonthFound
<1>6. DateParts(era, c, q, r, i, d)
  BY <1>1, <1>3, <1>4, <1>5 DEF DateParts, InEra
<1>7. days = DayAt(era, c, q, r, i, d)
  BY <1>2, <1>3, <1>4 DEF DayAt
<1> QED BY <1>6, <1>7

\* Every date of the calendar is made of parts.
LEMMA EveryDateHasParts ==
  ASSUME NEW y, NEW m, NEW d, RealDate(y, m, d)
  PROVE  \E era, c, q, r, i : DateParts(era, c, q, r, i, d) /\ <<y, m, d>> = DateAt(era, c, q, r, i, d)
<1> DEFINE year == IF m <= 2 THEN y - 1 ELSE y
           i == IF m > 2 THEN m - 3 ELSE m + 9
           era == year \div 400
           yoe == year - era * 400
           c == yoe \div 100
           q == (yoe \div 4) - 25 * c
           r == yoe % 4
<1>1. y \in Int /\ m \in Int /\ 1 <= m /\ m <= 12 /\ d \in Int /\ DayOf(y, m, d)
  BY DEF RealDate
<1>2. year \in Int /\ i \in Int /\ 0 <= i /\ i <= 11 /\ DateOf(year, i, d) = <<y, m, d>>
  BY SMT, <1>1 DEF DateOf
<1>3. /\ IF i < 10 THEN y = year /\ m = i + 3 ELSE y = year + 1 /\ m = i - 9
  BY SMT, <1>1

<1> HIDE DEF year, i
<1>5. era \in Int /\ yoe \in Int /\ 0 <= yoe /\ yoe <= 399 /\ year = 400 * era + yoe
  BY SMT, <1>2
<1> HIDE DEF era, yoe
<1>6. /\ c \in Int /\ 0 <= c /\ c <= 3 /\ q \in Int /\ 0 <= q /\ q <= 24 /\ r \in Int /\ 0 <= r /\ r <= 3
      /\ yoe = 100 * c + 4 * q + r /\ yoe \div 4 = 25 * c + q /\ yoe \div 100 = c
  BY SMT, <1>5
<1> HIDE DEF c, q, r
<1>7. year = 400 * era + 100 * c + 4 * q + r
  BY SMT, <1>5, <1>6
<1>8. AtMost(c, 3) /\ AtMost(q, 24) /\ AtMost(r, 3) /\ AtMost(i, 11)
  BY <1>2, <1>6 DEF AtMost
<1>9. InMonth(i, d) /\ (i = 11 /\ d = 29 => r = 3 /\ (q = 24 => c = 3))
  <2>1. DateOf(year, i, d)[1] = y /\ DateOf(year, i, d)[2] = m
    BY <1>2
  <2>2. DayOf(DateOf(year, i, d)[1], DateOf(year, i, d)[2], d)
    BY <1>1, <2>1
  <2>3. YearParts(year, era, c, q, r)
    BY <1>5, <1>7, <1>8 DEF YearParts
  <2> QED BY <1>1, <1>8, <2>2, <2>3, DateIsReal
<1>10. DateParts(era, c, q, r, i, d)
  BY <1>1, <1>2, <1>5, <1>6, <1>8, <1>9 DEF DateParts
<1>11. <<y, m, d>> = DateAt(era, c, q, r, i, d)
  BY <1>2, <1>7 DEF DateAt
<1> QED BY <1>10, <1>11

\* A date of the calendar is its day's date, and
LEMMA DateThereAndBack ==
  ASSUME NEW y, NEW m, NEW d, RealDate(y, m, d)
  PROVE  CivilFromDays(DaysFromCivil(y, m, d)) = <<y, m, d>> /\ DaysFromCivil(y, m, d) \in Int
<1>1. PICK era, c, q, r, i : DateParts(era, c, q, r, i, d) /\ <<y, m, d>> = DateAt(era, c, q, r, i, d)
  BY EveryDateHasParts
<1> DEFINE date == DateAt(era, c, q, r, i, d)
           day == DayAt(era, c, q, r, i, d)
<1>2. day \in Int /\ CivilFromDays(day) = date /\ DaysFromCivil(date[1], date[2], d) = day
  BY <1>1, PartsToDate
<1>3. date = <<y, m, d>> /\ date[1] = y /\ date[2] = m
  BY <1>1
<1> HIDE DEF date, day
<1> QED BY <1>2, <1>3

\* the date of a day is in the calendar.
LEMMA DayIsReal ==
  ASSUME NEW days \in Int
  PROVE  \E y, m, d : /\ RealDate(y, m, d) /\ CivilFromDays(days) = <<y, m, d>> /\ DaysFromCivil(y, m, d) = days
<1>1. PICK era, c, q, r, i, d : DateParts(era, c, q, r, i, d) /\ days = DayAt(era, c, q, r, i, d)
  BY EveryDayHasParts
<1> DEFINE date == DateAt(era, c, q, r, i, d)
<1>2. CivilFromDays(days) = date /\ RealDate(date[1], date[2], d) /\ DaysFromCivil(date[1], date[2], d) = days
  BY <1>1, PartsToDate
<1>3. date = <<date[1], date[2], d>>
  BY DEF DateAt, DateOf
<1> HIDE DEF date
<1> QED BY <1>2, <1>3

\* The day after a date's is the next date: within the month, across months, years, centuries and eras.
LEMMA NextDay ==
  ASSUME NEW y, NEW m, NEW d, RealDate(y, m, d)
  PROVE  CivilFromDays(DaysFromCivil(y, m, d) + 1) = NextDate(y, m, d)
<1>0. PICK era, c, q, r, i : DateParts(era, c, q, r, i, d) /\ <<y, m, d>> = DateAt(era, c, q, r, i, d)
  BY EveryDateHasParts
<1> DEFINE year == 400 * era + 100 * c + 4 * q + r
<1>1. /\ era \in Int /\ c \in Int /\ q \in Int /\ r \in Int /\ i \in Int /\ d \in Int /\ AtMost(i, 11)
      /\ AtMost(c, 3) /\ AtMost(q, 24) /\ AtMost(r, 3)
      /\ InMonth(i, d) /\ (i = 11 /\ d = 29 => r = 3 /\ (q = 24 => c = 3))
  BY <1>0 DEF DateParts, InMonth
<1>2. YearParts(year, era, c, q, r) /\ year \in Int
  BY SMT, <1>1 DEF YearParts
<1>3. y \in Int /\ m \in Int /\ 1 <= m /\ m <= 12 /\ DayOf(y, m, d)
  BY DEF RealDate
<1>4. DateOf(year, i, d) = <<y, m, d>> /\ DateOf(year, i, d)[1] = y /\ DateOf(year, i, d)[2] = m
  BY <1>0 DEF DateAt
<1>5. DaysFromCivil(y, m, d) = DayAt(era, c, q, r, i, d) /\ DayAt(era, c, q, r, i, d) \in Int
  <2> DEFINE date == DateAt(era, c, q, r, i, d)
             day == DayAt(era, c, q, r, i, d)
  <2>1. DaysFromCivil(date[1], date[2], d) = day /\ day \in Int
    BY <1>0, PartsToDate
  <2>2. date[1] = y /\ date[2] = m
    BY <1>0
  <2> HIDE DEF date, day
  <2>3. DaysFromCivil(y, m, d) = day /\ day \in Int
    BY <2>1, <2>2
  <2> QED BY <2>3 DEF day
<1>6. (i < 10 => y = year /\ m = i + 3) /\ (~ (i < 10) => y = year + 1 /\ m = i - 9)
  BY SMT, <1>1, <1>4 DEF DateOf
<1> HIDE DEF year
<1>7. ASSUME d < MonthLength(y, m) PROVE CivilFromDays(DaysFromCivil(y, m, d) + 1) = NextDate(y, m, d)
  <2>1. DayOf(y, m, d + 1) /\ d + 1 \in Int
    <3>1. MonthLength(y, m) \in Int
      BY SMT DEF MonthLength
    <3> QED BY SMT, <1>1, <1>3, <1>7, <3>1 DEF DayOf
  <2>2. DateOf(year, i, d + 1)[1] = y /\ DateOf(year, i, d + 1)[2] = m /\ DateOf(year, i, d + 1) = <<y, m, d + 1>>
    BY <1>4 DEF DateOf
  <2>3. InMonth(i, d + 1) /\ (i = 11 /\ d + 1 = 29 => r = 3 /\ (q = 24 => c = 3))
    <3>1. DayOf(DateOf(year, i, d + 1)[1], DateOf(year, i, d + 1)[2], d + 1)
      BY <2>1, <2>2
    <3> QED BY <1>1, <1>2, <2>1, <3>1, DateIsReal
  <2>4. DateParts(era, c, q, r, i, d + 1)
    BY <1>1, <2>1, <2>3 DEF DateParts
  <2>5. DayAt(era, c, q, r, i, d + 1) = DayAt(era, c, q, r, i, d) + 1
    <3>1. MonthStart(i) \in Int
      BY SMT, <1>1 DEF MonthStart
    <3> QED BY SMT, <1>1, <3>1 DEF DayAt, DayOfEra
  <2>6. CivilFromDays(DayAt(era, c, q, r, i, d + 1)) = DateAt(era, c, q, r, i, d + 1)
    BY <2>4, PartsToDate
  <2>7. DateAt(era, c, q, r, i, d + 1) = <<y, m, d + 1>>
    BY <2>2 DEF DateAt, year
  <2> QED BY <1>5, <1>7, <2>5, <2>6, <2>7 DEF NextDate
<1>8. ASSUME ~ (d < MonthLength(y, m)), i < 11 PROVE CivilFromDays(DaysFromCivil(y, m, d) + 1) = NextDate(y, m, d)
  <2>1. i \in Int /\ 0 <= i /\ i < 11
    BY <1>1, <1>8 DEF AtMost
  <2>2. d = IF i \in {1, 3, 6, 8} THEN 30 ELSE 31
    <3>1. CASE i < 10
      BY SMT, <1>1, <1>6, <1>8, <2>1, <3>1 DEF MonthLength, InMonth
    <3>2. CASE i = 10
      BY SMT, <1>1, <1>6, <1>8, <3>2 DEF MonthLength, InMonth
    <3> QED BY SMT, <2>1, <3>1, <3>2
  <2>3. MonthStart(i + 1) = MonthStart(i) + d /\ MonthStart(i) \in Int
    BY SMT, <2>1, <2>2 DEF MonthStart
  <2>4. DateParts(era, c, q, r, i + 1, 1)
    BY SMT, <1>1, <2>1 DEF DateParts, InMonth, AtMost
  <2>5. DayAt(era, c, q, r, i + 1, 1) = DayAt(era, c, q, r, i, d) + 1
    BY SMT, <1>1, <2>3 DEF DayAt, DayOfEra
  <2>6. DateOf(year, i + 1, 1) = IF m < 12 THEN <<y, m + 1, 1>> ELSE <<y + 1, 1, 1>>
    <3>1. CASE i < 9
      BY SMT, <1>2, <1>6, <2>1, <3>1 DEF DateOf
    <3>2. CASE i = 9
      BY SMT, <1>2, <1>6, <2>1, <3>2 DEF DateOf
    <3>3. CASE i = 10
      BY SMT, <1>2, <1>6, <2>1, <3>3 DEF DateOf
    <3> QED BY SMT, <2>1, <3>1, <3>2, <3>3
  <2>7. CivilFromDays(DayAt(era, c, q, r, i + 1, 1)) = DateAt(era, c, q, r, i + 1, 1)
    BY <2>4, PartsToDate
  <2>8. DateAt(era, c, q, r, i + 1, 1) = DateOf(year, i + 1, 1)
    BY DEF DateAt, year
  <2> QED BY <1>5, <1>8, <2>5, <2>6, <2>7, <2>8 DEF NextDate
<1>9. ASSUME ~ (d < MonthLength(y, m)), i = 11 PROVE CivilFromDays(DaysFromCivil(y, m, d) + 1) = NextDate(y, m, d)
  <2>1. m = 2 /\ y = year + 1
    BY SMT, <1>6, <1>9
  <2>2. d = IF r = 3 /\ (q = 24 => c = 3) THEN 29 ELSE 28
    <3>1. MonthLength(y, m) = IF r = 3 /\ (q = 24 => c = 3) THEN 29 ELSE 28
      BY <1>2, <2>1, MarchYear DEF MonthLength
    <3> QED BY SMT, <1>1, <1>3, <1>9, <3>1 DEF DayOf
  <2>3. \E e2, c2, q2, r2 : /\ YearParts(year + 1, e2, c2, q2, r2)
                            /\ e2 * 146097 + 36524 * c2 + 1461 * q2 + 365 * r2
                                 = era * 146097 + 36524 * c + 1461 * q + 365 * r + 337 + d
    <3>1. CASE r < 3
      <4>1. YearParts(year + 1, era, c, q, r + 1)
        BY SMT, <1>1, <3>1 DEF YearParts, AtMost, year
      <4>2. era * 146097 + 36524 * c + 1461 * q + 365 * (r + 1) = era * 146097 + 36524 * c + 1461 * q + 365 * r + 337 + d
        BY SMT, <1>1, <2>2, <3>1
      <4> QED BY <4>1, <4>2
    <3>2. CASE r = 3 /\ q < 24
      <4>1. YearParts(year + 1, era, c, q + 1, 0)
        BY SMT, <1>1, <3>2 DEF YearParts, AtMost, year
      <4>2. era * 146097 + 36524 * c + 1461 * (q + 1) + 365 * 0 = era * 146097 + 36524 * c + 1461 * q + 365 * r + 337 + d
        BY SMT, <1>1, <2>2, <3>2
      <4> QED BY <4>1, <4>2
    <3>3. CASE r = 3 /\ q = 24 /\ c < 3
      <4>1. YearParts(year + 1, era, c + 1, 0, 0)
        BY SMT, <1>1, <3>3 DEF YearParts, AtMost, year
      <4>2. era * 146097 + 36524 * (c + 1) + 1461 * 0 + 365 * 0 = era * 146097 + 36524 * c + 1461 * q + 365 * r + 337 + d
        BY SMT, <1>1, <2>2, <3>3
      <4> QED BY <4>1, <4>2
    <3>4. CASE r = 3 /\ q = 24 /\ c = 3
      <4>1. YearParts(year + 1, era + 1, 0, 0, 0)
        BY SMT, <1>1, <3>4 DEF YearParts, AtMost, year
      <4>2. (era + 1) * 146097 + 36524 * 0 + 1461 * 0 + 365 * 0 = era * 146097 + 36524 * c + 1461 * q + 365 * r + 337 + d
        BY SMT, <1>1, <2>2, <3>4
      <4> QED BY <4>1, <4>2
    <3> QED BY SMT, <1>1, <3>1, <3>2, <3>3, <3>4 DEF AtMost
  <2>4. PICK e2, c2, q2, r2 : /\ YearParts(year + 1, e2, c2, q2, r2)
                              /\ e2 * 146097 + 36524 * c2 + 1461 * q2 + 365 * r2
                                   = era * 146097 + 36524 * c + 1461 * q + 365 * r + 337 + d
    BY <2>3
  <2>5. DateParts(e2, c2, q2, r2, 0, 1)
    BY SMT, <2>4 DEF YearParts, DateParts, InMonth, AtMost
  <2>6. DayAt(e2, c2, q2, r2, 0, 1) = DayAt(era, c, q, r, i, d) + 1
    <3>1. MonthStart(0) = 0 /\ MonthStart(11) = 337
      BY SMT DEF MonthStart
    <3>2. e2 \in Int /\ c2 \in Int /\ q2 \in Int /\ r2 \in Int
      BY <2>4 DEF YearParts, AtMost
    <3> QED BY SMT, <1>1, <1>9, <2>4, <3>1, <3>2 DEF DayAt, DayOfEra
  <2>7. DateAt(e2, c2, q2, r2, 0, 1) = <<y, 3, 1>>
    <3>1. 400 * e2 + 100 * c2 + 4 * q2 + r2 = y
      BY <2>1, <2>4 DEF YearParts
    <3> QED BY SMT, <3>1 DEF DateAt, DateOf
  <2>8. CivilFromDays(DayAt(e2, c2, q2, r2, 0, 1)) = DateAt(e2, c2, q2, r2, 0, 1)
    BY <2>5, PartsToDate
  <2>9. NextDate(y, m, d) = <<y, 3, 1>>
    BY SMT, <1>9, <2>1 DEF NextDate
  <2> QED BY <1>5, <2>6, <2>7, <2>8, <2>9
<1> QED BY SMT, <1>1, <1>7, <1>8, <1>9 DEF AtMost

\* The calendar's promise, of any three numbers.
LEMMA CalendarOfEvery ==
  ASSUME NEW y \in Int, NEW m \in Int, NEW d \in Int
  PROVE  ValidDate(y, m, d) <=> RealDate(y, m, d)
<1>1. DaysFromCivil(y, m, d) \in Int
  BY SMT DEF DaysFromCivil
<1>2. ASSUME ValidDate(y, m, d) PROVE RealDate(y, m, d)
  <2>1. PICK y2, m2, d2 : RealDate(y2, m2, d2) /\ CivilFromDays(DaysFromCivil(y, m, d)) = <<y2, m2, d2>>
    BY <1>1, DayIsReal
  <2>2. <<y2, m2, d2>> = <<y, m, d>>
    BY <1>2, <2>1 DEF ValidDate
  <2> QED BY <2>1, <2>2
<1>3. ASSUME RealDate(y, m, d) PROVE ValidDate(y, m, d)
  BY <1>3, DateThereAndBack DEF ValidDate, RealDate
<1> QED BY <1>2, <1>3
DateInputOK == For("date") => input.y \in Int /\ input.m \in Int /\ input.d \in Int
LEMMA CalendarHolds == DateInputOK => CalendarExact
<1>1. \A y, m, d \in Int : ValidDate(y, m, d) <=> (m \in 1..12 /\ d \in 1..MonthLength(y, m))
  <2> TAKE y, m, d \in Int
  <2>1. MonthLength(y, m) \in Int
    BY SMT DEF MonthLength
  <2>2. m \in 1..12 <=> 1 <= m /\ m <= 12
    BY SMT
  <2>3. d \in 1..MonthLength(y, m) <=> DayOf(y, m, d)
    BY SMT, <2>1 DEF DayOf
  <2> QED BY <2>2, <2>3, CalendarOfEvery DEF RealDate
<1>2. \A y, m, d \in Int : ValidDate(y, m, d) => CivilFromDays(DaysFromCivil(y, m, d) + 1) = NextDate(y, m, d)
  BY CalendarOfEvery, NextDay
<1> QED BY <1>1, <1>2 DEF DateInputOK, CalendarExact

\* A day later is the same year or the next.
LEMMA NearbyYears ==
  ASSUME NEW days \in Int
  PROVE  CivilFromDays(days)[1] \in Int /\ CivilFromDays(days + 1)[1] \in {CivilFromDays(days)[1], CivilFromDays(days)[1] + 1}
<1>1. PICK y, m, d : RealDate(y, m, d) /\ CivilFromDays(days) = <<y, m, d>> /\ DaysFromCivil(y, m, d) = days
  BY DayIsReal
<1>2. CivilFromDays(days + 1) = NextDate(y, m, d)
  BY <1>1, NextDay
<1>3. NextDate(y, m, d)[1] \in {y, y + 1}
  BY DEF NextDate
<1>4. y \in Int
  BY <1>1 DEF RealDate
<1> QED BY <1>1, <1>2, <1>3, <1>4

\* What is written of an instant is read as that instant.
LEMMA WrittenIsRead ==
  ASSUME NEW secs \in Int, FourCharacters(CivilFromDays(secs \div DaySecs)[1])
  PROVE  ParseIso(FormatIso(secs)) = Second(secs)
<1> DEFINE day == secs \div DaySecs
           rest == secs % DaySecs
           hh == rest \div 3600
           mi == (rest % 3600) \div 60
           ss == rest % 60
           t == FormatIso(secs)
<1>1. day \in Int /\ rest \in Int /\ 0 <= rest /\ rest < 86400 /\ secs = day * DaySecs + rest
  BY SMT DEF DaySecs
<1>2. PICK y, m, d : RealDate(y, m, d) /\ CivilFromDays(day) = <<y, m, d>> /\ DaysFromCivil(y, m, d) = day
  BY <1>1, DayIsReal
<1>3. hh \in Int /\ mi \in Int /\ ss \in Int /\ hh <= 23 /\ mi <= 59 /\ ss <= 60 /\ rest = hh * 3600 + mi * 60 + ss
  BY SMT, <1>1
<1>4. t = [y |-> y, m |-> m, d |-> d, hh |-> hh, mi |-> mi, ss |-> ss, tz |-> UTC]
  <2>1. <<y, m, d>>[1] = y /\ <<y, m, d>>[2] = m /\ <<y, m, d>>[3] = d
    OBVIOUS
  <2> HIDE DEF hh, mi, ss
  <2> QED BY <1>2, <2>1 DEF FormatIso, hh, mi, ss
<1> HIDE DEF hh, mi, ss, t
<1>5. t.y = y /\ t.m = m /\ t.d = d /\ t.hh = hh /\ t.mi = mi /\ t.ss = ss /\ t.tz = UTC
  BY <1>4
<1>6. FourCharacters(y)
  BY <1>2
<1> HIDE DEF day, rest
<1>7. Possible(t)
  BY <1>2, <1>3, <1>5, <1>6, CalendarOfEvery DEF RealDate, Possible
<1>8. ParseTzOffset(t.tz) = Second(0) /\ Second(0).ok /\ Second(0).secs = 0
  BY <1>5 DEF ParseTzOffset, UTC, Second
<1>9. Local(t) - 0 = secs
  <2>1. Local(t) = day * DaySecs + hh * 3600 + mi * 60 + ss
    BY <1>2, <1>5 DEF Local
  <2> QED BY SMT, <1>1, <1>3, <2>1 DEF DaySecs
<1>10. ParseIso(t) = Second(Local(t) - 0)
  BY <1>7, <1>8 DEF ParseIso
<1> QED BY <1>9, <1>10 DEF t

\* An instant as it is written: the year in four characters and one day from where they end.
Written == [y : Int, m : Int, d : Int, hh : Int, mi : Int, ss : Int, tz : [sign : {"Z", "+", "-", "?"}, hh : Nat, mm : Nat]]
TwoCharacters(n) == -9 <= n /\ n <= 99
InYears(t) == -997 <= t.y /\ t.y <= 9997 /\ TwoCharacters(t.hh) /\ TwoCharacters(t.mi) /\ TwoCharacters(t.ss)
InstantInputOK == For("instant") => input.t \in Written /\ InYears(input.t)

\* The promise of instants, of any that is written like this.
LEMMA ReadIsOneInstant ==
  ASSUME NEW t \in Written, InYears(t), ParseIso(t).ok
  PROVE  /\ ParseIso(FormatIso(ParseIso(t).secs)) = ParseIso(t)
         /\ t.tz.sign # "Z" => LET away == t.tz.hh * 3600 + t.tz.mm * 60
                                   there == ParseIso([t EXCEPT !.tz = UTC]).secs
                               IN ParseIso(t).secs = IF t.tz.sign = "+" THEN there - away ELSE there + away
<1> DEFINE off == ParseTzOffset(t.tz)
           day == DaysFromCivil(t.y, t.m, t.d)
           p == ParseIso(t)
           u == [t EXCEPT !.tz = UTC]
           away == t.tz.hh * 3600 + t.tz.mm * 60
           at == Local(t)
<1>1. /\ t.y \in Int /\ -997 <= t.y /\ t.y <= 9997 /\ t.m \in Int /\ t.d \in Int
      /\ t.hh \in Int /\ -9 <= t.hh /\ t.mi \in Int /\ -9 <= t.mi /\ t.ss \in Int /\ -9 <= t.ss
      /\ t.tz.hh \in Int /\ 0 <= t.tz.hh /\ t.tz.mm \in Int /\ 0 <= t.tz.mm
  BY DEF Written, InYears, TwoCharacters
<1>2. Possible(t) /\ off.ok /\ p = Second(at - off.secs) /\ t.hh <= 23 /\ t.mi <= 59 /\ t.ss <= 60 /\ ValidDate(t.y, t.m, t.d)
  <2>1. ~ Unreadable.ok
    BY DEF Unreadable
  <2>2. Possible(t) /\ off.ok /\ p = Second(at - off.secs)
    BY <2>1 DEF ParseIso
  <2> QED BY <2>2 DEF Possible
<1>3. \/ t.tz.sign = "Z" /\ off = Second(0)
      \/ t.tz.sign \in {"+", "-"} /\ t.tz.hh <= 23 /\ t.tz.mm <= 59 /\ off = Second((IF t.tz.sign = "+" THEN 1 ELSE -1) * away)
  <2>1. ~ Unreadable.ok
    BY DEF Unreadable
  <2> QED BY <1>2, <2>1 DEF ParseTzOffset
<1>4. away \in Int /\ 0 <= away
  BY SMT, <1>1
<1>5. off.secs = (IF t.tz.sign = "Z" THEN 0 ELSE IF t.tz.sign = "+" THEN away ELSE 0 - away)
  <2> HIDE DEF off, away
  <2>1. 1 * away = away /\ (-1) * away = 0 - away
    BY SMT, <1>4
  <2>2. \A n : Second(n).secs = n
    BY DEF Second
  <2> QED BY <1>3, <2>1, <2>2
<1>6. t.tz.sign # "Z" => away < 86400
  <2>1. t.tz.sign # "Z" => t.tz.hh <= 23 /\ t.tz.mm <= 59
    BY <1>3
  <2> QED BY SMT, <1>1, <2>1
<1>7. RealDate(t.y, t.m, t.d) /\ day \in Int
  BY <1>1, <1>2, CalendarOfEvery, DateThereAndBack
<1>8. at = day * 86400 + t.hh * 3600 + t.mi * 60 + t.ss /\ at \in Int /\ off.secs \in Int /\ p.secs = at - off.secs /\ p.secs \in Int
  <2>1. at = day * 86400 + t.hh * 3600 + t.mi * 60 + t.ss
    BY DEF Local, DaySecs
  <2>2. off.secs \in Int
    BY SMT, <1>4, <1>5
  <2> HIDE DEF at, off, day
  <2>3. at \in Int
    BY SMT, <1>1, <1>7, <2>1
  <2> HIDE DEF p
  <2> QED BY SMT, <1>2, <2>1, <2>2, <2>3 DEF Second
<1>9. ParseIso(FormatIso(p.secs)) = p
  <2> DEFINE secs == p.secs
             n == secs \div DaySecs
  <2>1. n \in Int /\ day - 2 <= n /\ n <= day + 2
    <3> DEFINE rest == t.hh * 3600 + t.mi * 60 + t.ss - off.secs
    <3>1. rest \in Int /\ -172800 <= rest /\ rest < 259200
      BY SMT, <1>1, <1>2, <1>4, <1>5, <1>6
    <3>2. secs = day * 86400 + rest
      <4> HIDE DEF day, off, at
      <4> QED BY SMT, <1>1, <1>7, <1>8
    <3> HIDE DEF rest, secs, day
    <3>3. day \in Int
      BY <1>7 DEF day
    <3> QED BY SMT, <3>1, <3>2, <3>3 DEF DaySecs
  <2> DEFINE year(i) == CivilFromDays(i)[1]
  <2>2. \A i \in Int : year(i) \in Int /\ year(i + 1) \in {year(i), year(i) + 1}
    BY NearbyYears
  <2>3. year(day) = t.y
    BY <1>7, DateThereAndBack
  <2> HIDE DEF n, day, year
  <2>4. day \in Int
    BY <1>7 DEF day
  <2>5. -999 <= year(n) /\ year(n) <= 9999 /\ year(n) \in Int
    <3> DEFINE a == year(day - 2)
               b == year(day - 1)
               c == year(day + 1)
               d == year(day + 2)
    <3>1. a \in Int /\ b \in {a, a + 1} /\ t.y \in {b, b + 1} /\ c \in {t.y, t.y + 1} /\ d \in {c, c + 1}
      <4>1. day - 2 \in Int /\ day - 1 = (day - 2) + 1 /\ day - 1 \in Int /\ day = (day - 1) + 1
            /\ day + 1 \in Int /\ day + 2 = (day + 1) + 1
        BY SMT, <2>4
      <4> QED BY <2>2, <2>3, <2>4, <4>1
    <3> HIDE DEF a, b, c, d
    <3>2. year(n) \in {a, b, t.y, c, d}
      <4>1. n \in {day - 2, day - 1, day, day + 1, day + 2}
        BY SMT, <2>1, <2>4
      <4> QED BY <2>3, <4>1 DEF a, b, c, d
    <3> QED BY SMT, <1>1, <3>1, <3>2
  <2>6. FourCharacters(CivilFromDays(secs \div DaySecs)[1])
    BY <2>5 DEF n, year, FourCharacters
  <2> HIDE DEF at, off, p
  <2>7. ParseIso(FormatIso(secs)) = Second(secs)
    BY <1>8, <2>6, WrittenIsRead
  <2> QED BY <1>2, <1>8, <2>7
<1>10. t.tz.sign # "Z" => p.secs = IF t.tz.sign = "+" THEN ParseIso(u).secs - away ELSE ParseIso(u).secs + away
  <2>1. u.y = t.y /\ u.m = t.m /\ u.d = t.d /\ u.hh = t.hh /\ u.mi = t.mi /\ u.ss = t.ss /\ u.tz = UTC
    BY DEF Written
  <2>2. ParseTzOffset(UTC) = Second(0) /\ Second(0).ok /\ Second(0).secs = 0
    BY DEF ParseTzOffset, UTC, Second
  <2> HIDE DEF u
  <2>3. Possible(u) /\ Local(u) = at
    BY <1>2, <2>1 DEF Possible, Local
  <2> HIDE DEF at, off, away, p
  <2>4. ParseIso(u) = Second(at - 0)
    BY <2>1, <2>2, <2>3 DEF ParseIso
  <2>5. ParseIso(u).secs = at
    BY SMT, <1>8, <2>4 DEF Second
  <2> QED BY SMT, <1>3, <1>4, <1>5, <1>8, <2>5
<1> QED BY <1>9, <1>10
LEMMA InstantsHold == InstantInputOK => OneInstant
  BY ReadIsOneInstant DEF InstantInputOK, OneInstant

-----------------------------------------------------------------------------
(***************************************************************************)
(* Metrics: the ledger.  A sum that clamps is a recursion over positions;  *)
(* of two such sums the smaller row has the smaller one.                   *)
(***************************************************************************)

\* A sum that clamps: one number after the other.
Clamps(f, vals) == f[0] = 0 /\ \A i \in 1..Len(vals) : f[i] = SatAdd(f[i - 1], vals[i])
LEMMA SumSteps ==
  ASSUME NEW vals \in Seq(Nat)
  PROVE  \E f \in [0..Len(vals) -> Nat] : Clamps(f, vals) /\ SaturatingSum(vals) = f[Len(vals)]
<1> DEFINE n == Len(vals)
           Run(g) == g = [s \in SUBSET (1..n) |-> IF s = {} THEN 0 ELSE SatAdd(g[s \ {Max(s)}], vals[Max(s)])]
           step == [p \in (1..n) \X Nat |-> SatAdd(p[2], vals[p[1]])]
           c == Top(n)
<1>1. n \in Nat /\ DOMAIN vals = 1..n /\ \A i \in 1..n : vals[i] \in Nat
  OBVIOUS
<1>2. \A a, b \in Nat : SatAdd(a, b) \in Nat
  BY MaxU64Assumption DEF SatAdd
<1>3. step \in [(1..n) \X Nat -> Nat]
  BY <1>1, <1>2
<1> HIDE DEF n
<1>4. IsFiniteSet(1..n) /\ Picks(c, 1..n) /\ \A i \in 1..n : Max(1..i) = i /\ (1..i) \ {i} = 1..(i - 1) /\ 1..i # {}
  BY <1>1, TopPicks
<1>5. PICK g \in [SUBSET (1..n) -> Nat] : Folds(g, 1..n, 0, c, step)
  <2> HIDE DEF c, step
  <2> QED BY <1>3, <1>4, FoldDefines
<1>6. Run(g)
  <2>1. ASSUME NEW s \in SUBSET (1..n), s # {}
        PROVE  g[s] = SatAdd(g[s \ {Max(s)}], vals[Max(s)])
    <3>1. c[s] = Max(s) /\ Max(s) \in 1..n
      BY <1>4, <2>1 DEF Top, Picks
    <3>2. g[s] = step[<<c[s], g[s \ {c[s]}]>>] /\ g[s \ {c[s]}] \in Nat
      BY <1>5, <2>1 DEF Folds
    <3> QED BY <3>1, <3>2
  <2>2. g[{}] = 0
    BY <1>5 DEF Folds
  <2> HIDE DEF c, step
  <2> QED BY <1>5, <2>1, <2>2
<1> DEFINE h == CHOOSE f : Run(f)
<1>7. Run(h)
  <2> HIDE DEF Run
  <2> QED BY <1>6
<1>8. SaturatingSum(vals) = h[1..n]
  BY <1>1 DEF SaturatingSum, FoldLeft, MapThenFoldSet
<1> HIDE DEF h
<1>9. h[{}] = 0 /\ \A i \in 1..n : h[1..i] = SatAdd(h[1..(i - 1)], vals[i])
  <2>1. {} \in SUBSET (1..n)
    OBVIOUS
  <2>2. ASSUME NEW i \in 1..n PROVE h[1..i] = SatAdd(h[1..(i - 1)], vals[i])
    <3>1. 1..i \in SUBSET (1..n) /\ 1..i # {} /\ Max(1..i) = i /\ (1..i) \ {i} = 1..(i - 1)
      BY <1>1, <1>4
    <3> QED BY <1>7, <3>1
  <2> QED BY <1>7, <2>1, <2>2
<1> DEFINE f == [i \in 0..n |-> h[1..i]]
<1>10. f[0] = 0 /\ \A i \in 1..n : f[i] = SatAdd(f[i - 1], vals[i])
  <2>1. 1..0 = {}
    OBVIOUS
  <2> QED BY <1>1, <1>9, <2>1
<1> DEFINE T == {i \in 0..n : f[i] \in Nat}
<1>11. 0 \in T
  BY <1>1, <1>10
<1>12. \A i \in 0..(n - 1) : i \in T => i + 1 \in T
  <2> TAKE i \in 0..(n - 1)
  <2> HAVE i \in T
  <2>1. i + 1 \in 1..n /\ (i + 1) - 1 = i /\ i + 1 \in 0..n
    BY <1>1
  <2>2. f[i + 1] = SatAdd(f[i], vals[i + 1]) /\ f[i] \in Nat /\ vals[i + 1] \in Nat
    BY <1>1, <1>10, <2>1
  <2> HIDE DEF f
  <2> QED BY <1>2, <2>1, <2>2
<1> HIDE DEF T
<1>13. \A i \in 0..n : i \in T
  BY <1>1, <1>11, <1>12, UpTo
<1>14. f \in [0..n -> Nat] /\ f[n] = h[1..n]
  BY <1>1, <1>13 DEF T
<1> HIDE DEF f
<1> QED BY <1>1, <1>8, <1>10, <1>14 DEF Clamps, n

\* Of two rows of numbers, the one that is nowhere larger has no larger sum.
LEMMA SumsInOrder ==
  ASSUME NEW a \in Seq(Nat), NEW b \in Seq(Nat), Len(a) = Len(b), \A i \in 1..Len(a) : a[i] <= b[i]
  PROVE  SaturatingSum(a) \in Nat /\ SaturatingSum(b) \in Nat /\ SaturatingSum(a) <= SaturatingSum(b)
<1> DEFINE n == Len(a)
<1>1. PICK f \in [0..n -> Nat] : Clamps(f, a) /\ SaturatingSum(a) = f[n]
  BY SumSteps
<1>2. PICK g \in [0..n -> Nat] : Clamps(g, b) /\ SaturatingSum(b) = g[n]
  BY SumSteps
<1> DEFINE T == {i \in 0..n : f[i] <= g[i]}
<1>3. n \in Nat /\ \A i \in 1..n : a[i] \in Nat /\ b[i] \in Nat /\ a[i] <= b[i]
  OBVIOUS
<1>4. 0 \in T
  BY <1>1, <1>2, <1>3 DEF Clamps
<1> HIDE DEF n
<1>5. \A i \in 0..(n - 1) : i \in T => i + 1 \in T
  <2> TAKE i \in 0..(n - 1)
  <2> HAVE i \in T
  <2>1. i + 1 \in 1..n /\ (i + 1) - 1 = i /\ i \in 0..n
    BY <1>3
  <2>2. f[i + 1] = SatAdd(f[i], a[i + 1]) /\ g[i + 1] = SatAdd(g[i], b[i + 1])
    BY <1>1, <1>2, <2>1 DEF Clamps, n
  <2>3. \A x, y, u, v \in Nat : x <= y /\ u <= v => SatAdd(x, u) <= SatAdd(y, v)
    BY MaxU64Assumption DEF SatAdd
  <2>4. f[i] \in Nat /\ g[i] \in Nat /\ a[i + 1] \in Nat /\ b[i + 1] \in Nat /\ a[i + 1] <= b[i + 1] /\ f[i] <= g[i]
    BY <1>3, <2>1
  <2>5. f[i + 1] <= g[i + 1]
    BY <2>2, <2>3, <2>4
  <2> QED BY <1>3, <2>1, <2>5
<1> HIDE DEF T
<1>6. \A i \in 0..n : i \in T
  BY <1>3, <1>4, <1>5, UpTo
<1>7. n \in 0..n
  BY <1>3
<1> QED BY <1>1, <1>2, <1>6, <1>7 DEF T

\* Buckets that claim no more than they were measured against; adding keeps that.
Fair(b) == b = Bucket(b.saved, b.baseline) /\ b.saved \in Nat /\ b.baseline \in Nat /\ b.saved <= b.baseline
LEMMA FairBucket ==
  ASSUME NEW x \in Nat, NEW y \in Nat, x <= y
  PROVE  Fair(Bucket(x, y))
<1>1. Bucket(x, y).saved = x /\ Bucket(x, y).baseline = y
  BY DEF Bucket
<1> QED BY <1>1 DEF Fair

\* Adding keeps that.
LEMMA FairAdds ==
  ASSUME NEW a, NEW b, Fair(a), Fair(b)
  PROVE  Fair(AddBucket(a, b)) /\ Fair(NoBucket) /\ AddBucket(AddBucket(NoBucket, b), b) = AddBucket(b, b)
<1>1. \A x, y \in Nat : SatAdd(x, y) \in Nat
  BY MaxU64Assumption DEF SatAdd
<1>2. \A x, y, u, v \in Nat : x <= y /\ u <= v => SatAdd(x, u) <= SatAdd(y, v)
  BY MaxU64Assumption DEF SatAdd
<1>3. \A x \in Nat : SatAdd(SatAdd(0, x), x) = SatAdd(x, x)
  BY MaxU64Assumption DEF SatAdd
<1>4. \A x, y : Bucket(x, y).saved = x /\ Bucket(x, y).baseline = y
  BY DEF Bucket
<1>5. Fair(NoBucket)
  BY <1>4 DEF Fair, NoBucket
<1>6. a.saved \in Nat /\ a.baseline \in Nat /\ a.saved <= a.baseline /\ b.saved \in Nat /\ b.baseline \in Nat /\ b.saved <= b.baseline
  BY DEF Fair
<1>7. Fair(AddBucket(a, b))
  BY <1>1, <1>2, <1>6, FairBucket DEF AddBucket
<1>8. AddBucket(AddBucket(NoBucket, b), b) = AddBucket(b, b)
  BY <1>3, <1>4, <1>6 DEF AddBucket, NoBucket
<1> QED BY <1>5, <1>7, <1>8

\* Of any search: its three buckets are fair, clamped or not.
LEMMA RecordIsFair ==
  ASSUME NEW F, NEW results \in Seq([file : F, full : Nat, compact : Nat]), NEW D, NEW tokens \in [D -> Nat],
         NEW detail, NEW compact \in Nat, NEW verbose \in Nat
  PROVE  LET r == BuildSearchRecord(results, tokens, detail, compact, verbose)
         IN Fair(Bucket(r.saved, r.baseline)) /\ Fair(r.chunk) /\ Fair(r.grammar)
<1> DEFINE n == Len(results)
<1>0. n \in Nat /\ DOMAIN results = 1..n /\ \A i \in 1..n : results[i] \in [file : F, full : Nat, compact : Nat]
  <2> DEFINE S == [file : F, full : Nat, compact : Nat]
  <2>1. results \in Seq(S)
    OBVIOUS
  <2> HIDE DEF S
  <2>2. n \in Nat /\ DOMAIN results = 1..n /\ \A i \in 1..n : results[i] \in S
    BY <2>1
  <2> QED BY <2>2 DEF S
<1> DEFINE files == Field(results, "file")
           full == Field(results, "full")
           less == [i \in DOMAIN results |-> SatSub(results[i].full, results[i].compact)]
           baseline == BaselineTokens(results, tokens)
           served == Plain(full)
           r == BuildSearchRecord(results, tokens, detail, compact, verbose)
<1>1. n \in Nat /\ DOMAIN results = 1..n /\ \A i \in 1..n : results[i].full \in Nat /\ results[i].compact \in Nat
  <2> HIDE DEF n
  <2> QED BY <1>0
<1>2. \A x, y \in Nat : SatSub(x, y) \in Nat /\ SatSub(x, y) <= x
  BY DEF SatSub
<1>3. \A x, y : Bucket(x, y).saved = x /\ Bucket(x, y).baseline = y
  BY DEF Bucket
<1>4. full \in [1..n -> Nat] /\ full \in Seq(Nat) /\ Len(full) = n /\ \A i \in 1..n : full[i] = results[i].full
  <2>1. full = [i \in 1..n |-> results[i]["full"]]
    BY <1>1 DEF Field
  <2> HIDE DEF n, full
  <2> QED BY <1>1, <2>1
<1>5. less \in Seq(Nat) /\ Len(less) = n /\ \A i \in 1..n : less[i] <= full[i]
  <2>1. less = [i \in 1..n |-> SatSub(results[i].full, results[i].compact)]
    BY <1>1
  <2>2. \A i \in 1..n : SatSub(results[i].full, results[i].compact) \in Nat
                        /\ SatSub(results[i].full, results[i].compact) <= full[i]
    <3> HIDE DEF n, full
    <3> QED BY <1>1, <1>2, <1>4
  <2> HIDE DEF n, full, less
  <2>3. less \in [1..n -> Nat] /\ \A i \in 1..n : less[i] <= full[i]
    BY <2>1, <2>2
  <2> QED BY <1>1, <2>3
<1> HIDE DEF n, full, less
<1>6. IsFiniteSet(1..n)
  BY <1>1, FS_Interval
<1>7. served \in Nat
  <2>1. DOMAIN full = 1..n
    BY <1>4
  <2> QED BY <1>4, <1>6, <2>1, TotalAdds DEF Plain
<1>8. baseline \in Nat
  <2> DEFINE S == ToSet(files)
             w == [f \in S |-> IF f \in DOMAIN tokens THEN tokens[f] ELSE 0]
  <2>1. w \in [S -> Nat]
    OBVIOUS
  <2>2. IsFiniteSet(S)
    <3>1. S = {files[i] : i \in 1..n} /\ files \in [1..n -> S]
      BY <1>1 DEF ToSet, Field
    <3> HIDE DEF files, S
    <3>2. files \in Surjection(1..n, S)
      BY <3>1 DEF Surjection
    <3> QED BY <1>6, <3>2, FS_Surjection
  <2>3. baseline = Total(w, S)
    BY DEF BaselineTokens
  <2> HIDE DEF S, w
  <2> QED BY <2>1, <2>2, <2>3, TotalAdds
<1>9. /\ r.saved = SatSub(baseline, served) /\ r.baseline = baseline
      /\ r.chunk = ChunkSavings(results, detail) /\ r.grammar = GrammarSavings(results, compact, verbose)
  BY DEF BuildSearchRecord, full
<1> HIDE DEF baseline, served, r
<1>10. Fair(Bucket(r.saved, r.baseline))
  BY <1>2, <1>7, <1>8, <1>9, FairBucket
<1>11. Fair(r.chunk)
  <2>1. ChunkSavings(results, detail) \in {NoBucket, Bucket(SaturatingSum(less), SaturatingSum(full))}
    BY DEF ChunkSavings, less, full
  <2>2. SaturatingSum(less) \in Nat /\ SaturatingSum(full) \in Nat /\ SaturatingSum(less) <= SaturatingSum(full)
    BY <1>4, <1>5, SumsInOrder
  <2>3. Fair(NoBucket)
    BY <1>3 DEF Fair, NoBucket
  <2>4. Fair(Bucket(SaturatingSum(less), SaturatingSum(full)))
    BY <2>2, FairBucket
  <2> QED BY <1>9, <2>1, <2>3, <2>4
<1>12. Fair(r.grammar)
  <2>1. Fair(NoBucket)
    BY <1>3 DEF Fair, NoBucket
  <2>2. Fair(Bucket(SatSub(verbose, compact), verbose))
    BY <1>2, FairBucket
  <2> QED BY <1>9, <2>1, <2>2 DEF GrammarSavings
<1> QED BY <1>10, <1>11, <1>12 DEF r

\* Keeping every position keeps the sequence.
LEMMA PickedAll ==
  ASSUME NEW n \in Nat, NEW s, s = [i \in 1..n |-> s[i]]
  PROVE  Picked(s, 1..n) = s
<1>1. IsFiniteSet(1..n) /\ Cardinality(1..n) = n
  BY FS_Interval
<1>2. ASSUME NEW k \in 1..n PROVE Ranked(1..n, <)[k] = k
  <2>0. \A m \in Nat : Cardinality(1..m) = m
    BY FS_Interval
  <2>1. \A x \in 1..n : Cardinality({y \in 1..n : y < x}) = x - 1
    <3> TAKE x \in 1..n
    <3>1. {y \in 1..n : y < x} = 1..(x - 1) /\ x - 1 \in Nat
      OBVIOUS
    <3>2. Cardinality(1..(x - 1)) = x - 1
      BY <2>0, <3>1
    <3> QED BY <3>1, <3>2
  <2>2. Ranked(1..n, <)[k] = CHOOSE x \in 1..n : Cardinality({y \in 1..n : y < x}) = k - 1
    BY <1>1 DEF Ranked
  <2>3. \A x \in 1..n : Cardinality({y \in 1..n : y < x}) = k - 1 <=> x = k
    BY <2>1
  <2> QED BY <2>2, <2>3
<1>3. Picked(s, 1..n) = [k \in 1..n |-> s[Ranked(1..n, <)[k]]]
  BY <1>1 DEF Picked
<1> QED BY <1>2, <1>3

\* A search that was logged is read back with its savings.
LEMMA LoggedIsRead ==
  ASSUME NEW r, NEW n, NEW id, NEW source
  PROVE  LET o == LogSearch(r, Second(n), id, source)
         IN Readable(o) /\ EventOf(o).kind = "search" /\ EventOf(o).savings = LayersOf(r)
<1> DEFINE o == LogSearch(r, Second(n), id, source)
<1>1. o.form = "object" /\ o.event = "search" /\ o.ts = Second(n) /\ ~ o.old /\ o.layers = LayersOf(r)
  BY DEF LogSearch, Object
<1>2. Second(n).ok
  BY DEF Second
<1> HIDE DEF o
<1>3. Readable(o)
  BY <1>1, <1>2 DEF Readable
<1>4. FromEvent(o) = LayersOf(r)
  BY <1>1 DEF FromEvent
<1>5. EventOf(o).kind = "search" /\ EventOf(o).savings = FromEvent(o)
  BY <1>1 DEF EventOf
<1> QED BY <1>3, <1>4, <1>5 DEF o

\* Two lines that are read as searches are both found, in order.
LEMMA TwoLogged ==
  ASSUME NEW a, NEW b, Readable(a), Readable(b), EventOf(a).kind = "search", EventOf(b).kind = "search"
  PROVE  Field(Searches(ParseLog(<<a, b>>).events), "savings") = <<EventOf(a).savings, EventOf(b).savings>>
<1> DEFINE lines == <<a, b>>
           events == <<EventOf(a), EventOf(b)>>
<1>1. {i \in DOMAIN lines : Readable(lines[i])} = 1..2 /\ lines = [i \in 1..2 |-> lines[i]]
  OBVIOUS
<1>2. Picked(lines, 1..2) = lines
  BY <1>1, PickedAll
<1>3. ParseLog(lines).events = [i \in 1..2 |-> EventOf(lines[i])]
  BY <1>1, <1>2 DEF ParseLog
<1>4. ParseLog(lines).events = events
  BY <1>3
<1>5. {i \in DOMAIN events : events[i].kind = "search"} = 1..2 /\ events = [i \in 1..2 |-> events[i]]
  OBVIOUS
<1>6. Picked(events, 1..2) = events
  BY <1>5, PickedAll
<1>7. Searches(events) = events
  BY <1>5, <1>6 DEF Searches
<1>8. Field(events, "savings") = <<EventOf(a).savings, EventOf(b).savings>>
  BY DEF Field
<1> QED BY <1>4, <1>7, <1>8

\* The ledger of the same layers twice.
LEMMA TwoSummed ==
  ASSUME NEW c \in [Layers -> [saved : Nat, baseline : Nat]], \A l \in Layers : Fair(c[l])
  PROVE  \A l \in Layers : SumByLayer(<<c, c>>).layers[l] = AddBucket(c[l], c[l])
<1> DEFINE q == <<c, c>>
           add(a, b) == [l \in Layers |-> AddBucket(a[l], b[l])]
           Run(g) == g = [s \in SUBSET (1..2) |-> IF s = {} THEN NoLayers ELSE add(g[s \ {Max(s)}], q[Max(s)])]
<1>1. IsFiniteSet(1..2) /\ \A i \in 1..2 : Max(1..i) = i /\ (1..i) \ {i} = 1..(i - 1) /\ 1..i # {}
  BY TopPicks
<1>2. \E g : Run(g)
  <2> DEFINE one == add(NoLayers, c)
             two == add(one, c)
             g == [s \in SUBSET (1..2) |-> IF s = {} THEN NoLayers ELSE IF s = {1, 2} THEN two ELSE one]
  <2>1. SUBSET (1..2) = {{}, {1}, {2}, {1, 2}}
    OBVIOUS
  <2>2. Max({1}) = 1 /\ Max({2}) = 2 /\ Max({1, 2}) = 2
    BY DEF Max
  <2>3. q[1] = c /\ q[2] = c /\ {1} \ {1} = {} /\ {2} \ {2} = {} /\ {1, 2} \ {2} = {1}
    OBVIOUS
  <2>4. g[{}] = NoLayers /\ g[{1}] = one /\ g[{2}] = one /\ g[{1, 2}] = two
    <3> HIDE DEF one, two
    <3>1. {1} # {} /\ {2} # {} /\ {1, 2} # {} /\ {1} # {1, 2} /\ {2} # {1, 2} /\ {} # {1, 2}
      <4>1. 1 \in {1} /\ 2 \in {2} /\ 1 \in {1, 2} /\ 2 \in {1, 2} /\ 2 \notin {1} /\ 1 \notin {2}
        OBVIOUS
      <4> QED BY <4>1
    <3> QED BY <2>1, <3>1
  <2>5. \A s \in SUBSET (1..2) : g[s] = IF s = {} THEN NoLayers ELSE add(g[s \ {Max(s)}], q[Max(s)])
    <3>1. g[{1}] = add(g[{1} \ {Max({1})}], q[Max({1})])
      BY <2>2, <2>3, <2>4
    <3>2. g[{2}] = add(g[{2} \ {Max({2})}], q[Max({2})])
      <4>1. q[Max({2})] = c /\ {2} \ {Max({2})} = {}
        BY <2>2, <2>3
      <4> HIDE DEF g, q, add
      <4>2. g[{2} \ {Max({2})}] = NoLayers
        BY <2>4, <4>1
      <4> QED BY <2>4, <4>1, <4>2
    <3>3. g[{1, 2}] = add(g[{1, 2} \ {Max({1, 2})}], q[Max({1, 2})])
      <4>1. q[Max({1, 2})] = c /\ {1, 2} \ {Max({1, 2})} = {1}
        BY <2>2, <2>3
      <4> HIDE DEF g, q, add, one
      <4>2. g[{1, 2} \ {Max({1, 2})}] = one
        BY <2>4, <4>1
      <4> QED BY <2>4, <4>1, <4>2
    <3> HIDE DEF g, add, q
    <3>4. {1} # {} /\ {2} # {} /\ {1, 2} # {}
      OBVIOUS
    <3> QED BY <2>1, <2>4, <3>1, <3>2, <3>3, <3>4
  <2>6. g = [s \in SUBSET (1..2) |-> g[s]]
    OBVIOUS
  <2> HIDE DEF g, add, q
  <2>7. Run(g)
    BY <2>5, <2>6
  <2> QED BY <2>7
<1> DEFINE h == CHOOSE g : Run(g)
<1>3. Run(h)
  <2> HIDE DEF Run
  <2> QED BY <1>2
<1>4. SumByLayer(q).layers = h[1..2]
  BY DEF SumByLayer, FoldLeft, MapThenFoldSet
<1> HIDE DEF h
<1>5. h[{}] = NoLayers /\ h[1..1] = add(h[1..0], c) /\ h[1..2] = add(h[1..1], c) /\ 1..0 = {}
  <2>1. {} \in SUBSET (1..2) /\ 1..1 \in SUBSET (1..2) /\ 1..2 \in SUBSET (1..2) /\ 1 \in 1..2 /\ 2 \in 1..2
    OBVIOUS
  <2>2. h[{}] = NoLayers
    BY <1>3, <2>1
  <2>3. h[1..1] = add(h[(1..1) \ {1}], q[1]) /\ h[1..2] = add(h[(1..2) \ {2}], q[2])
    <3> HIDE DEF add, q
    <3> QED BY <1>1, <1>3, <2>1
  <2>4. (1..1) \ {1} = 1..0 /\ (1..2) \ {2} = 1..1 /\ q[1] = c /\ q[2] = c /\ 1..0 = {}
    OBVIOUS
  <2> HIDE DEF q, add
  <2> QED BY <2>2, <2>3, <2>4
<1>6. \A l \in Layers : h[1..2][l] = AddBucket(AddBucket(NoLayers[l], c[l]), c[l])
  BY <1>5
<1>7. \A l \in Layers : NoLayers[l] = NoBucket
  BY DEF NoLayers
<1> QED BY <1>4, <1>6, <1>7, FairAdds

\* A search of results with their tokens, of files with theirs.
LedgerInputOK ==
  For("ledger") =>
    \E F : /\ input.results \in Seq([file : F, full : Nat, compact : Nat])
           /\ input.tokens \in [DOMAIN input.tokens -> Nat]
           /\ input.compact \in Nat /\ input.verbose \in Nat

\* Every layer of a recorded search is fair: three are measured, the others are empty.
LEMMA LayersAreFair ==
  ASSUME NEW r, Fair(Bucket(r.saved, r.baseline)), Fair(r.chunk), Fair(r.grammar)
  PROVE  /\ LayersOf(r) \in [Layers -> [saved : Nat, baseline : Nat]]
         /\ \A l \in Layers : Fair(LayersOf(r)[l])
         /\ "retrieval" \in Layers /\ LayersOf(r)["retrieval"] = Bucket(r.saved, r.baseline)
<1>1. \A l \in Layers : LayersOf(r)[l] \in {Bucket(r.saved, r.baseline), NoBucket, r.chunk, r.grammar}
  BY DEF LayersOf, RetrievalOnly
<1>2. LayersOf(r) = [l \in Layers |-> LayersOf(r)[l]]
  BY DEF LayersOf, RetrievalOnly
<1>3. "retrieval" \in Layers /\ LayersOf(r)["retrieval"] = Bucket(r.saved, r.baseline)
  BY DEF LayersOf, RetrievalOnly, Layers
<1>4. Fair(NoBucket)
  BY FairAdds
<1>5. \A l \in Layers : Fair(LayersOf(r)[l])
  BY <1>1, <1>4
<1>6. \A b : Fair(b) => b \in [saved : Nat, baseline : Nat]
  BY DEF Fair, Bucket
<1> HIDE DEF Fair
<1>7. \A l \in Layers : LayersOf(r)[l] \in [saved : Nat, baseline : Nat]
  BY <1>5, <1>6
<1> QED BY <1>2, <1>3, <1>5, <1>7

\* Logged twice and read back, a record is in the ledger twice, layer by layer.
LogTwice(r, one, two) == <<LogSearch(r, Second(one), "q", "cli"), LogSearch(r, Second(two), "q", "mcp")>>
LedgerOf(lines) == SumByLayer(Field(Searches(ParseLog(lines).events), "savings")).layers
LEMMA RecordedTwice ==
  ASSUME NEW r, NEW one, NEW two, Fair(Bucket(r.saved, r.baseline)), Fair(r.chunk), Fair(r.grammar)
  PROVE  /\ \A l \in Layers : LedgerOf(LogTwice(r, one, two))[l].saved \in 0..LedgerOf(LogTwice(r, one, two))[l].baseline
         /\ LedgerOf(LogTwice(r, one, two))["retrieval"] = AddBucket(Bucket(r.saved, r.baseline), Bucket(r.saved, r.baseline))
<1> DEFINE a == LogSearch(r, Second(one), "q", "cli")
           b == LogSearch(r, Second(two), "q", "mcp")
           c == LayersOf(r)
           ledger == LedgerOf(LogTwice(r, one, two))
<1>1. Readable(a) /\ EventOf(a).kind = "search" /\ EventOf(a).savings = c
  BY LoggedIsRead
<1>2. Readable(b) /\ EventOf(b).kind = "search" /\ EventOf(b).savings = c
  BY LoggedIsRead
<1>3. /\ c \in [Layers -> [saved : Nat, baseline : Nat]] /\ \A l \in Layers : Fair(c[l])
      /\ "retrieval" \in Layers /\ c["retrieval"] = Bucket(r.saved, r.baseline)
  BY LayersAreFair
<1>0. LogTwice(r, one, two) = <<a, b>>
  BY DEF LogTwice
<1> HIDE DEF a, b, c
<1>4. Field(Searches(ParseLog(<<a, b>>).events), "savings") = <<c, c>>
  BY <1>1, <1>2, TwoLogged
<1>5. \A l \in Layers : SumByLayer(<<c, c>>).layers[l] = AddBucket(c[l], c[l])
  BY <1>3, TwoSummed
<1>6. \A l \in Layers : ledger[l] = AddBucket(c[l], c[l])
  BY <1>0, <1>4, <1>5 DEF LedgerOf
<1> HIDE DEF ledger
<1>7. \A l \in Layers : ledger[l].saved \in 0..ledger[l].baseline
  <2> TAKE l \in Layers
  <2>1. Fair(AddBucket(c[l], c[l]))
    BY <1>3, FairAdds
  <2>2. Fair(ledger[l])
    BY <1>6, <2>1
  <2> QED BY <2>2 DEF Fair
<1>8. ledger["retrieval"] = AddBucket(Bucket(r.saved, r.baseline), Bucket(r.saved, r.baseline))
  BY <1>3, <1>6
<1> QED BY <1>7, <1>8 DEF ledger

\* The ledger's promise, of any search.
LEMMA LedgerHolds == LedgerInputOK => LedgerWithinBaseline
<1> SUFFICES ASSUME LedgerInputOK, For("ledger") PROVE LedgerWithinBaseline
  BY DEF LedgerWithinBaseline
<1> DEFINE r == BuildSearchRecord(input.results, input.tokens, input.detail, input.compact, input.verbose)
<1>1. PICK F : /\ input.results \in Seq([file : F, full : Nat, compact : Nat])
               /\ input.tokens \in [DOMAIN input.tokens -> Nat]
               /\ input.compact \in Nat /\ input.verbose \in Nat
  BY DEF LedgerInputOK
<1>2. Fair(Bucket(r.saved, r.baseline)) /\ Fair(r.chunk) /\ Fair(r.grammar)
  BY <1>1, RecordIsFair
<1> HIDE DEF r
<1>3. /\ \A l \in Layers : LedgerOf(LogTwice(r, 1, 2))[l].saved \in 0..LedgerOf(LogTwice(r, 1, 2))[l].baseline
      /\ LedgerOf(LogTwice(r, 1, 2))["retrieval"] = AddBucket(Bucket(r.saved, r.baseline), Bucket(r.saved, r.baseline))
  BY <1>2, RecordedTwice
<1> QED BY <1>3 DEF LedgerWithinBaseline, LedgerOf, LogTwice, r

\* An event keeps its instant and its savings on the way through the log: for every date, for
\* every instant whose year (with one to spare for its zone) is written in four characters, and
\* for a search of any results, whatever the sums clamp at.
MetricsInputOK == DateInputOK /\ InstantInputOK /\ LedgerInputOK
THEOREM LedgerIsExact == MetricsInputOK => LedgerExact
  BY CalendarHolds, InstantsHold, LedgerHolds DEF MetricsInputOK, LedgerExact

(***************************************************************************)
(* The settings: sequences joined, and their picks in order.               *)
(***************************************************************************)

\* There is one way to put a finite set in order.
LEMMA OneOrder ==
  ASSUME NEW S, IsFiniteSet(S), NEW R, TotalOrder(R, S), NEW p, NEW q, InOrder(p, S, R), InOrder(q, S, R)
  PROVE  p = q
<1> DEFINE n == Cardinality(S)
           bad == {k \in 1..n : p[k] # q[k]}
<1>1. n \in Nat
  BY FS_CardinalityType
<1>2. p \in [1..n -> S] /\ q \in [1..n -> S]
  BY DEF InOrder
<1> SUFFICES ASSUME p # q PROVE FALSE
  OBVIOUS
<1>0. bad \in SUBSET Nat /\ bad # {}
  <2>1. SUFFICES ASSUME \A k \in 1..n : p[k] = q[k] PROVE FALSE
    BY <1>1
  <2>2. p = [k \in 1..n |-> p[k]] /\ q = [k \in 1..n |-> q[k]]
    BY <1>2
  <2> HIDE DEF n
  <2> QED BY <2>1, <2>2
<1>3. PICK k \in bad : \A j \in bad : k <= j
  <2> HIDE DEF bad
  <2> QED BY <1>0, LeastNumber
<1>4. k \in 1..n /\ p[k] # q[k] /\ \A j \in 1..n : j < k => p[j] = q[j]
  BY <1>1, <1>3
<1>5. ASSUME NEW u, NEW v, InOrder(u, S, R), InOrder(v, S, R), \A j \in 1..n : j < k => u[j] = v[j], u[k] # v[k]
      PROVE  <<u[k], v[k]>> \in R
  <2>1. u[k] \in S /\ v[k] \in S
    BY <1>4, <1>5 DEF InOrder
  <2>2. PICK j \in 1..n : u[j] = v[k]
    BY <1>5, <2>1 DEF InOrder
  <2>3. j # k
    BY <1>5, <2>2
  <2>4. ~ (j < k)
    <3> SUFFICES ASSUME j < k PROVE FALSE
      OBVIOUS
    <3>1. v[j] = v[k]
      BY <1>5, <2>2
    <3>2. <<v[j], v[k]>> \in R
      BY <1>4, <1>5 DEF InOrder
    <3> QED BY <2>1, <3>1, <3>2 DEF TotalOrder
  <2>5. k < j
    BY <1>1, <1>4, <2>3, <2>4
  <2> QED BY <1>4, <1>5, <2>2, <2>5 DEF InOrder
<1>6. <<p[k], q[k]>> \in R /\ <<q[k], p[k]>> \in R
  BY <1>4, <1>5
<1> QED BY <1>2, <1>4, <1>6 DEF TotalOrder

\* Two sequences have the same lines picked if the places picked match in order.
Matches(f, A, B, s, t) ==
  /\ f \in [A -> B] /\ \A y \in B : \E x \in A : f[x] = y
  /\ \A x, y \in A : x < y => f[x] < f[y]
  /\ \A x \in A : s[x] = t[f[x]]

\* The places picked in order, where the chosen items of two sequences match one to one.
LEMMA SamePicks ==
  ASSUME NEW A \in SUBSET Int, NEW B \in SUBSET Int, IsFiniteSet(A), NEW s, NEW t, NEW f, Matches(f, A, B, s, t)
  PROVE  Picked(s, A) = Picked(t, B)
<1> DEFINE n == Cardinality(A)
           p == Ranked(A, <)
           q == Ranked(B, <)
           u == [k \in 1..n |-> f[p[k]]]
<1>1. IsFiniteSet(B) /\ Cardinality(B) = n
  <2>1. \A x, y \in A : f[x] = f[y] => x = y
    <3> TAKE x, y \in A
    <3>1. x \in Int /\ y \in Int /\ f[x] \in Int /\ f[y] \in Int
      BY DEF Matches
    <3>2. x = y \/ x < y \/ y < x
      BY <3>1
    <3> QED BY <3>1, <3>2 DEF Matches
  <2>2. f \in Bijection(A, B)
    BY <2>1 DEF Matches, Bijection, Injection, Surjection, IsInjective
  <2> QED BY <2>2, FS_Bijection DEF ExistsBijection
<1>2. n \in Nat /\ InOrder(p, A, Below(A)) /\ InOrder(q, B, Below(B))
  BY <1>1, PositionsInOrder, FS_CardinalityType
<1> HIDE DEF n, p, q
<1>3. u \in [1..n -> B] /\ p \in [1..n -> A]
  BY <1>2 DEF InOrder, Matches, n
<1>4. InOrder(u, B, Below(B))
  <2>1. \A i, j \in 1..n : i < j => <<u[i], u[j]>> \in Below(B)
    BY <1>2, <1>3 DEF InOrder, Below, Matches, n
  <2>2. ASSUME NEW y \in B PROVE \E i \in 1..n : u[i] = y
    <3>1. PICK x \in A : f[x] = y
      BY DEF Matches
    <3>2. PICK i \in 1..n : p[i] = x
      BY <1>2 DEF InOrder, n
    <3> QED BY <3>1, <3>2
  <2> HIDE DEF u
  <2> QED BY <1>1, <1>3, <2>1, <2>2 DEF InOrder
<1>5. TotalOrder(Below(B), B)
  BY DEF TotalOrder, Below
<1> HIDE DEF u
<1>6. u = q
  BY <1>1, <1>2, <1>4, <1>5, OneOrder
<1>7. \A k \in 1..n : s[p[k]] = t[q[k]]
  <2>1. \A k \in 1..n : u[k] = f[p[k]]
    BY DEF u
  <2> QED BY <1>3, <1>6, <2>1 DEF Matches
<1>8. Picked(s, A) = [k \in 1..n |-> s[p[k]]] /\ Picked(t, B) = [k \in 1..n |-> t[q[k]]]
  BY <1>1 DEF Picked, p, q, n
<1> QED BY <1>7, <1>8

\* One text after another.
IsJoined(m, a, b) ==
  /\ Len(m) = Len(a) + Len(b)
  /\ \A i \in 1..Len(a) : m[i] = a[i]
  /\ \A j \in 1..Len(b) : m[Len(a) + j] = b[j]

\* A joined sequence is the one, then the other.
LEMMA Joined ==
  ASSUME NEW L, NEW a \in Seq(L), NEW b \in Seq(L), NEW m, m = a \o b
  PROVE  m \in Seq(L) /\ IsJoined(m, a, b)
  BY DEF IsJoined

\* The guidance file's two forms of a new text.
LEMMA Appended ==
  ASSUME NEW L, NEW level, {Blank, "begin", "end", level} \subseteq L, NEW l \in Seq(L)
  PROVE  LET m == l \o <<Blank>> \o ClaudeBlock(level)
             n == Len(l)
         IN /\ m \in Seq(L) /\ Len(m) = n + 4 /\ \A i \in 1..n : m[i] = l[i]
            /\ m[n + 1] = Blank /\ m[n + 2] = "begin" /\ m[n + 3] = level /\ m[n + 4] = "end"
<1> DEFINE n == Len(l)
           m == l \o <<Blank>> \o ClaudeBlock(level)
<1>1. n \in Nat
  OBVIOUS
<1>2. Blank \in L /\ "begin" \in L /\ "end" \in L /\ level \in L
  OBVIOUS
<1>3. (l \o <<Blank>>) \in Seq(L) /\ Len(l \o <<Blank>>) = n + 1 /\ (l \o <<Blank>>)[n + 1] = Blank /\ \A i \in 1..n : (l \o <<Blank>>)[i] = l[i]
  OBVIOUS
<1>4. ClaudeBlock(level) \in Seq(L) /\ Len(ClaudeBlock(level)) = 3 /\ ClaudeBlock(level)[1] = "begin"
      /\ ClaudeBlock(level)[2] = level /\ ClaudeBlock(level)[3] = "end"
  BY DEF ClaudeBlock
<1> DEFINE a == l \o <<Blank>>
           b == ClaudeBlock(level)
<1> HIDE DEF a, b
<1>5. m = a \o b
  BY DEF a, b
<1>6. a \in Seq(L) /\ Len(a) = n + 1 /\ a[n + 1] = Blank /\ (\A i \in 1..n : a[i] = l[i])
      /\ b \in Seq(L) /\ Len(b) = 3 /\ b[1] = "begin" /\ b[2] = level /\ b[3] = "end"
  BY <1>3, <1>4 DEF a, b
<1> HIDE DEF m, n
<1>7. m \in Seq(L) /\ IsJoined(m, a, b)
  BY <1>5, <1>6, Joined
<1> USE DEF IsJoined
<1>8. \A i \in 1..n : m[i] = l[i]
  BY <1>1, <1>6, <1>7
<1>9. m[n + 1] = Blank /\ m[n + 2] = "begin" /\ m[n + 3] = level /\ m[n + 4] = "end"
  <2>1. m[n + 1] = a[n + 1] /\ m[(n + 1) + 1] = b[1] /\ m[(n + 1) + 2] = b[2] /\ m[(n + 1) + 3] = b[3]
    BY <1>1, <1>6, <1>7
  <2>2. (n + 1) + 1 = n + 2 /\ (n + 1) + 2 = n + 3 /\ (n + 1) + 3 = n + 4
    BY <1>1
  <2> QED BY <1>6, <2>1, <2>2
<1>10. m \in Seq(L) /\ Len(m) = n + 4
  BY <1>1, <1>6, <1>7
<1> QED BY <1>8, <1>9, <1>10 DEF m, n
Replacement(l, x, y, level) == SubSeq(l, 1, x - 1) \o ClaudeBlock(level) \o SubSeq(l, y + 1, Len(l))
IsReplaced(m, l, x, y, level) ==
  /\ Len(m) = Len(l) - y + x + 2 /\ \A i \in 1..(x - 1) : m[i] = l[i]
  /\ m[x] = "begin" /\ m[x + 1] = level /\ m[x + 2] = "end"
  /\ \A i \in (x + 3)..Len(m) : m[i] = l[i - x - 2 + y]

\* Text with one block of lines put in the place of another.
LEMMA ReplacedText ==
  ASSUME NEW L, NEW level, {Blank, "begin", "end", level} \subseteq L, NEW l \in Seq(L), NEW x \in 1..Len(l), NEW y \in 1..Len(l), x < y
  PROVE  Replacement(l, x, y, level) \in Seq(L) /\ IsReplaced(Replacement(l, x, y, level), l, x, y, level)
<1> DEFINE n == Len(l)
           a == SubSeq(l, 1, x - 1)
           b == ClaudeBlock(level)
           c == SubSeq(l, y + 1, Len(l))
           m == a \o b \o c
<1>1. n \in Nat /\ x \in Nat /\ y \in Nat /\ 1 <= x /\ x < y /\ y <= n
  OBVIOUS
<1>2. a \in Seq(L) /\ Len(a) = x - 1 /\ \A i \in 1..(x - 1) : a[i] = l[i]
  OBVIOUS
<1>3. c \in Seq(L) /\ Len(c) = n - y /\ \A i \in 1..(n - y) : c[i] = l[y + i]
  OBVIOUS
<1>4. b \in Seq(L) /\ Len(b) = 3 /\ b[1] = "begin" /\ b[2] = level /\ b[3] = "end"
  BY DEF ClaudeBlock
<1> HIDE DEF a, b, c, n
<1> DEFINE ab == a \o b
<1>6. ab = a \o b /\ m = ab \o c
  OBVIOUS
<1> HIDE DEF ab, m
<1>5. ab \in Seq(L) /\ IsJoined(ab, a, b)
  BY <1>2, <1>4, <1>6, Joined
<1>7. m \in Seq(L) /\ IsJoined(m, ab, c)
  BY <1>3, <1>5, <1>6, Joined
<1> USE DEF IsJoined
<1>8. \A i \in 1..(x - 1) : m[i] = l[i]
  BY <1>1, <1>2, <1>4, <1>5, <1>7
<1>9. m[x] = "begin" /\ m[x + 1] = level /\ m[x + 2] = "end"
  <2>1. ab[(x - 1) + 1] = b[1] /\ ab[(x - 1) + 2] = b[2] /\ ab[(x - 1) + 3] = b[3]
    BY <1>1, <1>2, <1>4, <1>5
  <2>2. (x - 1) + 1 = x /\ (x - 1) + 2 = x + 1 /\ (x - 1) + 3 = x + 2
    BY <1>1
  <2>3. m[x] = ab[x] /\ m[x + 1] = ab[x + 1] /\ m[x + 2] = ab[x + 2]
    BY <1>1, <1>2, <1>4, <1>5, <1>7
  <2> QED BY <1>4, <2>1, <2>2, <2>3
<1>10. ASSUME NEW i \in (x + 3)..(n - y + x + 2) PROVE m[i] = l[i - x - 2 + y]
  <2> DEFINE j == i - (x + 2)
  <2>1. j \in 1..(n - y) /\ (x + 2) + j = i /\ y + j = i - x - 2 + y
    BY <1>1
  <2> HIDE DEF j
  <2>2. m[(x + 2) + j] = c[j]
    BY <1>1, <1>2, <1>3, <1>4, <1>5, <1>7, <2>1
  <2> QED BY <1>3, <2>1, <2>2
<1>11. m \in Seq(L) /\ Len(m) = n - y + x + 2
  BY <1>1, <1>2, <1>3, <1>4, <1>5, <1>7
<1>12. Replacement(l, x, y, level) = m
  BY DEF Replacement, m, a, b, c
<1> QED BY <1>8, <1>9, <1>10, <1>11, <1>12 DEF IsReplaced, n

(***************************************************************************)
(* The guidance file: the block, and the user's own lines.                 *)
(***************************************************************************)

\* The levels of guidance; lines that are not the user's; a text with one block.
LevelSet == {"off", "lite", "standard", "max"}
Wording == {Blank, "title", "begin", "end"} \cup LevelSet
Placed(m, x, level) ==
  /\ x \in 1..Len(m) /\ x + 2 <= Len(m) /\ m[x + 1] = level
  /\ \A i \in 1..Len(m) : (m[i] = "begin" <=> i = x) /\ (m[i] = "end" <=> i = x + 2)
\* The positions of the user's own lines.
UsersLines(l) ==
  {i \in DOMAIN l : l[i] \notin {Blank, "title"} /\ ~ \E x, y \in DOMAIN l : l[x] = "begin" /\ l[y] = "end" /\ x <= i /\ i <= y}

\* The user's lines, picked.
LEMMA OwnLines == ASSUME NEW f PROVE UsersOwn(f) = Picked(f.lines, UsersLines(f.lines))
<1> DEFINE b == {i \in DOMAIN f.lines : f.lines[i] = "begin"}
           e == {i \in DOMAIN f.lines : f.lines[i] = "end"}
           inside(i) == \E x \in b, y \in e : x <= i /\ i <= y
<1>1. \A i : inside(i) <=> \E x, y \in DOMAIN f.lines : f.lines[x] = "begin" /\ f.lines[y] = "end" /\ x <= i /\ i <= y
  OBVIOUS
<1> HIDE DEF inside
<1>2. {i \in DOMAIN f.lines : ~ inside(i) /\ f.lines[i] \notin {Blank, "title"}} = UsersLines(f.lines)
  BY <1>1 DEF UsersLines
<1>3. UsersOwn(f) = Picked(f.lines, {i \in DOMAIN f.lines : ~ inside(i) /\ f.lines[i] \notin {Blank, "title"}})
  BY DEF UsersOwn, inside
<1> QED BY <1>2, <1>3

\* A block set at the end of a file without markers leaves the user's lines as they are, and
LEMMA OwnAppended ==
  ASSUME NEW L, Wording \subseteq L, NEW l \in Seq(L), NEW level \in LevelSet,
         \A i \in 1..Len(l) : l[i] # "begin" /\ l[i] # "end"
  PROVE  LET m == l \o <<Blank>> \o ClaudeBlock(level)
         IN m \in Seq(L) /\ Placed(m, Len(l) + 2, level) /\ Picked(m, UsersLines(m)) = Picked(l, UsersLines(l))
<1> DEFINE n == Len(l)
           m == l \o <<Blank>> \o ClaudeBlock(level)
<1>0. Blank # "begin" /\ Blank # "end" /\ level # "begin" /\ level # "end"
  BY DEF Blank, LevelSet
<1>1. n \in Nat /\ DOMAIN l = 1..n
  OBVIOUS
<1>2. {Blank, "begin", "end", level} \subseteq L
  BY DEF Wording
<1>3. /\ m \in Seq(L) /\ Len(m) = n + 4 /\ \A i \in 1..n : m[i] = l[i]
      /\ m[n + 1] = Blank /\ m[n + 2] = "begin" /\ m[n + 3] = level /\ m[n + 4] = "end"
  BY <1>2, Appended
<1> HIDE DEF n, m
<1>4. DOMAIN m = 1..(n + 4)
  BY <1>3
<1>5. \A i \in 1..(n + 4) : i \in 1..n \/ i = n + 1 \/ i = n + 2 \/ i = n + 3 \/ i = n + 4
  BY <1>1
<1>6. \A i \in 1..(n + 4) : (m[i] = "begin" <=> i = n + 2) /\ (m[i] = "end" <=> i = n + 4)
  <2>1. \A i \in 1..n : m[i] # "begin" /\ m[i] # "end" /\ i # n + 2 /\ i # n + 4
    BY <1>1, <1>3 DEF n
  <2>2. n + 1 # n + 2 /\ n + 1 # n + 4 /\ n + 3 # n + 2 /\ n + 3 # n + 4 /\ n + 2 # n + 4
    BY <1>1
  <2> QED BY <1>0, <1>3, <1>5, <2>1, <2>2
<1>7. Placed(m, n + 2, level)
  <2>1. n + 2 \in 1..(n + 4) /\ (n + 2) + 2 <= n + 4 /\ (n + 2) + 1 = n + 3 /\ (n + 2) + 2 = n + 4
    BY <1>1
  <2> QED BY <1>3, <1>6, <2>1 DEF Placed
<1>8. UsersLines(l) = {i \in 1..n : l[i] \notin {Blank, "title"}}
  BY <1>1 DEF UsersLines, n
<1>9. UsersLines(m) = UsersLines(l)
  <2>1. ASSUME NEW i \in 1..(n + 4) PROVE i \in UsersLines(m) <=> i \in UsersLines(l)
    <3>1. i \in UsersLines(m) <=> m[i] \notin {Blank, "title"} /\ ~ (n + 2 <= i /\ i <= n + 4)
      <4>1. n + 2 \in DOMAIN m /\ n + 4 \in DOMAIN m
        BY <1>1, <1>4
      <4>2. (\E x, y \in DOMAIN m : m[x] = "begin" /\ m[y] = "end" /\ x <= i /\ i <= y) <=> (n + 2 <= i /\ i <= n + 4)
        BY <1>4, <1>6, <4>1
      <4> QED BY <1>4, <4>2 DEF UsersLines
    <3>2. CASE i \in 1..n
      BY <1>1, <1>3, <1>8, <3>1, <3>2
    <3>3. CASE i \notin 1..n
      <4>1. i \notin UsersLines(l)
        BY <1>8, <3>3
      <4>2. i = n + 1 \/ (n + 2 <= i /\ i <= n + 4)
        BY <1>1, <3>3
      <4> QED BY <1>3, <3>1, <4>1, <4>2
    <3> QED BY <3>2, <3>3
  <2>2. UsersLines(m) \subseteq 1..(n + 4) /\ UsersLines(l) \subseteq 1..(n + 4)
    BY <1>1, <1>4, <1>8 DEF UsersLines
  <2> QED BY <2>1, <2>2
<1>10. Picked(m, UsersLines(m)) = Picked(l, UsersLines(l))
  <2> DEFINE A == UsersLines(l)
             f == [i \in A |-> i]
  <2>1. A \in SUBSET Int /\ IsFiniteSet(A) /\ \A i \in A : m[i] = l[i]
    <3>1. IsFiniteSet(1..n) /\ A \in SUBSET (1..n)
      BY <1>1, <1>8, FS_Interval
    <3> QED BY <1>1, <1>3, <3>1, FS_Subset
  <2> HIDE DEF A
  <2>2. Matches(f, A, A, m, l)
    BY <2>1 DEF Matches
  <2> HIDE DEF f
  <2>3. Picked(m, A) = Picked(l, A)
    BY <2>1, <2>2, SamePicks
  <2> QED BY <1>9, <2>3 DEF A
<1> QED BY <1>3, <1>7, <1>10 DEF n, m

\* so does one that replaces the block between a pair of markers.
LEMMA OwnReplaced ==
  ASSUME NEW L, Wording \subseteq L, NEW l \in Seq(L), NEW level \in LevelSet, NEW p \in 1..Len(l), NEW q \in 1..Len(l), p < q,
         \A i \in 1..Len(l) : (l[i] = "begin" <=> i = p) /\ (l[i] = "end" <=> i = q)
  PROVE  LET m == Replacement(l, p, q, level)
         IN m \in Seq(L) /\ Placed(m, p, level) /\ Picked(m, UsersLines(m)) = Picked(l, UsersLines(l))
<1> DEFINE n == Len(l)
           m == Replacement(l, p, q, level)
           z == n - q + p + 2
<1>0. level # "begin" /\ level # "end"
  BY DEF LevelSet
<1>1. n \in Nat /\ DOMAIN l = 1..n /\ p \in Nat /\ q \in Nat /\ 1 <= p /\ p < q /\ q <= n
  OBVIOUS
<1>2. {Blank, "begin", "end", level} \subseteq L
  BY DEF Wording
<1>3. /\ m \in Seq(L) /\ Len(m) = z /\ \A i \in 1..(p - 1) : m[i] = l[i]
      /\ m[p] = "begin" /\ m[p + 1] = level /\ m[p + 2] = "end"
      /\ \A i \in (p + 3)..Len(m) : m[i] = l[i - p - 2 + q]
  <2>1. m \in Seq(L) /\ IsReplaced(m, l, p, q, level)
    BY <1>2, ReplacedText
  <2> HIDE DEF m
  <2> QED BY <2>1 DEF IsReplaced
<1> HIDE DEF m
<1>4. DOMAIN m = 1..z /\ z \in Nat
  BY <1>1, <1>3
<1>5. \A i \in 1..z : (m[i] = "begin" <=> i = p) /\ (m[i] = "end" <=> i = p + 2)
  <2> TAKE i \in 1..z
  <2>0. "begin" # "end"
    OBVIOUS
  <2>1. CASE i \in 1..(p - 1)
    <3>1. i \in 1..n /\ i # p /\ i # q /\ i # p + 2
      BY <1>1, <2>1
    <3> QED BY <1>3, <2>1, <3>1 DEF n
  <2>2. CASE i \in {p, p + 1, p + 2}
    <3>1. p # p + 1 /\ p + 1 # p + 2 /\ p # p + 2
      BY <1>1
    <3> QED BY <1>0, <1>3, <2>0, <2>2, <3>1
  <2>3. CASE i \in (p + 3)..z
    <3> DEFINE j == i - p - 2 + q
    <3>1. j \in 1..n /\ j # p /\ j # q /\ i # p /\ i # p + 2
      BY <1>1, <2>3
    <3>2. m[i] = l[j]
      BY <1>3, <2>3
    <3> HIDE DEF j
    <3> QED BY <3>1, <3>2 DEF n
  <2>4. i \in 1..(p - 1) \/ i \in {p, p + 1, p + 2} \/ i \in (p + 3)..z
    BY <1>1, <1>4
  <2> QED BY <2>1, <2>2, <2>3, <2>4
<1>6. Placed(m, p, level)
  <2>1. p \in 1..z /\ p + 2 <= z
    BY <1>1, <1>4
  <2> QED BY <1>3, <1>5, <2>1 DEF Placed
<1>7. \A i \in 1..n : i \in UsersLines(l) <=> l[i] \notin {Blank, "title"} /\ (i < p \/ q < i)
  <2> TAKE i \in 1..n
  <2>1. (\E x, y \in DOMAIN l : l[x] = "begin" /\ l[y] = "end" /\ x <= i /\ i <= y) <=> (p <= i /\ i <= q)
    BY <1>1 DEF n
  <2>2. ~ (p <= i /\ i <= q) <=> (i < p \/ q < i)
    BY <1>1
  <2> QED BY <1>1, <2>1, <2>2 DEF UsersLines
<1>8. \A i \in 1..z : i \in UsersLines(m) <=> m[i] \notin {Blank, "title"} /\ (i < p \/ p + 2 < i)
  <2> TAKE i \in 1..z
  <2>0. p \in 1..z /\ p + 2 \in 1..z
    BY <1>1, <1>4
  <2>1. (\E x, y \in DOMAIN m : m[x] = "begin" /\ m[y] = "end" /\ x <= i /\ i <= y) <=> (p <= i /\ i <= p + 2)
    BY <1>4, <1>5, <2>0
  <2>2. ~ (p <= i /\ i <= p + 2) <=> (i < p \/ p + 2 < i)
    BY <1>1, <1>4
  <2> QED BY <1>4, <2>1, <2>2 DEF UsersLines
<1>9. UsersLines(l) \in SUBSET (1..n) /\ UsersLines(m) \in SUBSET (1..z)
  BY <1>1, <1>4 DEF UsersLines
<1>10. Picked(l, UsersLines(l)) = Picked(m, UsersLines(m))
  <2> DEFINE A == UsersLines(l)
             B == UsersLines(m)
             f == [i \in A |-> IF i < p THEN i ELSE i - q + p + 2]
  <2>1. A \in SUBSET Int /\ B \in SUBSET Int /\ IsFiniteSet(A)
    <3>1. IsFiniteSet(1..n)
      BY <1>1, FS_Interval
    <3>2. 1..n \subseteq Int /\ 1..z \subseteq Int
      BY <1>1, <1>4
    <3> QED BY <1>9, <3>1, <3>2, FS_Subset
  <2>2. ASSUME NEW i \in A
        PROVE  f[i] \in B /\ l[i] = m[f[i]] /\ (i < p => f[i] = i) /\ (q < i => f[i] = i - q + p + 2) /\ i \in 1..n /\ (i < p \/ q < i)
    <3>1. i \in 1..n /\ l[i] \notin {Blank, "title"} /\ (i < p \/ q < i)
      BY <1>7, <1>9
    <3>2. CASE i < p
      <4>1. i \in 1..(p - 1) /\ i \in 1..z /\ f[i] = i /\ ~ (q < i)
        BY <1>1, <1>4, <3>1, <3>2
      <4> QED BY <1>3, <1>8, <3>1, <3>2, <4>1
    <3>3. CASE q < i
      <4> DEFINE j == i - q + p + 2
      <4>1. j \in (p + 3)..z /\ j \in 1..z /\ j - p - 2 + q = i /\ p + 2 < j /\ f[i] = j /\ ~ (i < p)
        BY <1>1, <1>4, <3>1, <3>3
      <4> HIDE DEF j
      <4>2. m[j] = l[i]
        BY <1>3, <4>1
      <4>3. j \in B
        BY <1>8, <3>1, <4>1, <4>2
      <4> QED BY <3>1, <3>3, <4>1, <4>2, <4>3 DEF j
    <3> QED BY <3>1, <3>2, <3>3
  <2>3. ASSUME NEW k \in B PROVE \E i \in A : f[i] = k
    <3>1. k \in 1..z /\ m[k] \notin {Blank, "title"} /\ (k < p \/ p + 2 < k)
      BY <1>8, <1>9
    <3>2. CASE k < p
      <4>1. k \in 1..(p - 1) /\ k \in 1..n
        BY <1>1, <1>4, <3>1, <3>2
      <4>2. k \in A
        BY <1>3, <1>7, <3>1, <3>2, <4>1
      <4> QED BY <3>2, <4>2
    <3>3. CASE p + 2 < k
      <4> DEFINE j == k - p - 2 + q
      <4>1. j \in 1..n /\ k \in (p + 3)..z /\ q < j /\ j - q + p + 2 = k /\ ~ (j < p)
        BY <1>1, <1>4, <3>1, <3>3
      <4>2. m[k] = l[j]
        BY <1>3, <4>1
      <4> HIDE DEF j
      <4>3. j \in A
        BY <1>7, <3>1, <4>1, <4>2
      <4>4. f[j] = k
        BY <4>1, <4>3
      <4> QED BY <4>3, <4>4
    <3> QED BY <3>1, <3>2, <3>3
  <2>4. f \in [A -> B]
    BY <2>2
  <2>5. \A x, y \in A : x < y => f[x] < f[y]
    <3> TAKE x, y \in A
    <3> HIDE DEF f, A, B
    <3> QED BY <1>1, <1>4, <2>2
  <2> HIDE DEF A, B, f
  <2>6. Matches(f, A, B, l, m)
    BY <2>2, <2>3, <2>4, <2>5 DEF Matches
  <2>7. Picked(l, A) = Picked(m, B)
    BY <2>1, <2>6, SamePicks
  <2> QED BY <2>7 DEF A, B
<1> QED BY <1>3, <1>6, <1>10 DEF m

\* A file of lines of L, which hold the wording.
GuideFile(f, L) == f = [state |-> f.state, lines |-> f.lines, nl |-> f.nl] /\ f.lines \in Seq(L) /\ Wording \subseteq L
                /\ (f.state = "absent" => f.lines = <<>>)

\* A new file has the one block, and no line of the user's.
LEMMA FreshBlock ==
  ASSUME NEW L, Wording \subseteq L, NEW level \in LevelSet
  PROVE  LET m == <<"title", Blank>> \o ClaudeBlock(level)
         IN m \in Seq(L) /\ Placed(m, 3, level) /\ UsersLines(m) = {}
<1> DEFINE a == <<"title", Blank>>
           b == ClaudeBlock(level)
           m == a \o b
<1>0. Blank # "begin" /\ Blank # "end" /\ level # "begin" /\ level # "end" /\ "title" # "begin" /\ "title" # "end" /\ "begin" # "end"
  BY DEF Blank, LevelSet
<1>1. "title" \in L /\ Blank \in L /\ "begin" \in L /\ "end" \in L /\ level \in L
  BY DEF Wording
<1>2. a \in Seq(L) /\ Len(a) = 2 /\ a[1] = "title" /\ a[2] = Blank
  BY <1>1
<1>3. b \in Seq(L) /\ Len(b) = 3 /\ b[1] = "begin" /\ b[2] = level /\ b[3] = "end"
  BY <1>1 DEF ClaudeBlock
<1> HIDE DEF a, b
<1>4. m = a \o b
  OBVIOUS
<1> HIDE DEF m
<1>5. m \in Seq(L) /\ IsJoined(m, a, b)
  BY <1>2, <1>3, <1>4, Joined
<1>6. Len(m) = 5 /\ m[1] = "title" /\ m[2] = Blank /\ m[3] = "begin" /\ m[4] = level /\ m[5] = "end"
  BY <1>2, <1>3, <1>5 DEF IsJoined
<1>7. DOMAIN m = 1..5 /\ \A i \in 1..5 : i = 1 \/ i = 2 \/ i = 3 \/ i = 4 \/ i = 5
  BY <1>5, <1>6
<1>8. \A i \in 1..5 : (m[i] = "begin" <=> i = 3) /\ (m[i] = "end" <=> i = 5)
  BY <1>0, <1>6, <1>7
<1>9. Placed(m, 3, level)
  BY <1>6, <1>8 DEF Placed
<1>10. UsersLines(m) = {}
  <2>1. ASSUME NEW i \in 1..5 PROVE i \notin UsersLines(m)
    <3>1. 3 \in DOMAIN m /\ 5 \in DOMAIN m /\ m[3] = "begin" /\ m[5] = "end"
      BY <1>6, <1>7
    <3>2. CASE i = 1 \/ i = 2
      BY <1>6, <3>2 DEF UsersLines
    <3>3. CASE 3 <= i /\ i <= 5
      BY <3>1, <3>3 DEF UsersLines
    <3> QED BY <1>7, <3>2, <3>3
  <2> QED BY <1>7, <2>1 DEF UsersLines
<1> QED BY <1>5, <1>9, <1>10 DEF m, a, b

\* The lines with a marker are those that are the marker.
LEMMA MarkersOf ==
  ASSUME NEW l, NEW w
  PROVE  MarkerLineOffsets(l, w) = {i \in DOMAIN l : l[i] = w}
  BY DEF MarkerLineOffsets, IsMarker

\* Without markers the block goes to the end.
LEMMA WhenThereIsNoBlock ==
  ASSUME NEW f, NEW level, NEW b, NEW e, b = {}, e = {}, Cardinality(b) = 0
 PROVE ReplaceBlock(f, b, e, level).file = TextFile(f.lines \o <<Blank>> \o ClaudeBlock(level), TRUE)
<1> DEFINE x == TextFile(f.lines \o <<Blank>> \o ClaudeBlock(level), TRUE)
           y == TextFile(SubSeq(f.lines, 1, Max(b) - 1) \o ClaudeBlock(level)
                                           \o SubSeq(f.lines, Max(e) + 1, Len(f.lines)), f.nl)
<1>1. ReplaceBlock(f, b, e, level) = CASE b = {} /\ e = {} -> [ok |-> TRUE, file |-> x]
    [] Cardinality(b) = 1 /\ Cardinality(e) = 1 /\ Max(b) < Max(e) -> [ok |-> TRUE, file |-> y]
    [] OTHER -> Refuses(f)
  BY DEF ReplaceBlock
<1> HIDE DEF x, y
<1>2. ReplaceBlock(f, b, e, level) = [ok |-> TRUE, file |-> x]
  BY <1>1
<1>3. ReplaceBlock(f, b, e, level).file = x
  BY <1>2
<1> QED BY <1>3, Zenon DEF x

\* A written guidance file has one block, and the user's lines as they were.
LEMMA BlockWritten ==
  ASSUME NEW L, NEW f, GuideFile(f, L), NEW level \in LevelSet, WriteClaudeMd(f, level).ok
  PROVE  LET g == WriteClaudeMd(f, level).file
         IN GuideFile(g, L) /\ g.state = "text" /\ (\E x : Placed(g.lines, x, level)) /\ UsersOwn(g) = UsersOwn(f)
<1> DEFINE l == f.lines
           g == WriteClaudeMd(f, level).file
           begins == MarkerLineOffsets(l, "begin")
           ends == MarkerLineOffsets(l, "end")
<1>1. l \in Seq(L) /\ Wording \subseteq L /\ Len(l) \in Nat /\ DOMAIN l = 1..Len(l)
  BY DEF GuideFile
<1>2. \A s \in Seq(L) : \A nl : LET t == TextFile(s, nl) IN t.state = "text" /\ t.lines = s /\ GuideFile(t, L)
  BY <1>1 DEF TextFile, GuideFile
<1>3. begins = {i \in 1..Len(l) : l[i] = "begin"} /\ ends = {i \in 1..Len(l) : l[i] = "end"}
  BY <1>1, MarkersOf
<1>4. IsFiniteSet(begins) /\ IsFiniteSet(ends)
  <2>1. IsFiniteSet(1..Len(l)) /\ begins \in SUBSET (1..Len(l)) /\ ends \in SUBSET (1..Len(l))
    BY <1>1, <1>3, FS_Interval
  <2> QED BY <2>1, FS_Subset
<1>5. CASE f.state = "absent"
  <2> DEFINE m == <<"title", Blank>> \o ClaudeBlock(level)
  <2>1. g = TextFile(m, TRUE)
    BY <1>5 DEF WriteClaudeMd
  <2>2. m \in Seq(L) /\ Placed(m, 3, level) /\ UsersLines(m) = {}
    BY <1>1, FreshBlock
  <2> HIDE DEF m, g
  <2>3. g.lines = m /\ GuideFile(g, L) /\ g.state = "text"
    BY <1>2, <2>1, <2>2
  <2>4. l = <<>> /\ UsersLines(l) = {}
    BY <1>5 DEF GuideFile, UsersLines
  <2>5. Picked(m, {}) = Picked(l, {})
    <3>1. Cardinality({}) = 0 /\ 1..0 = {}
      BY FS_EmptySet
    <3>2. \A s : Picked(s, {}) = [k \in {} |-> s[Ranked({}, <)[k]]]
      BY <3>1 DEF Picked
    <3> QED BY <3>2
  <2>6. UsersOwn(g) = UsersOwn(f)
    BY <2>2, <2>3, <2>4, <2>5, OwnLines
  <2> QED BY <2>2, <2>3, <2>6 DEF g
<1>6. CASE f.state # "absent"
  <2>0. WriteClaudeMd(f, level) = ReplaceBlock(f, begins, ends, level)
    BY <1>6 DEF WriteClaudeMd, Refuses
  <2> HIDE DEF begins, ends
  <2>1. CASE begins = {} /\ ends = {}
    <3> DEFINE m == l \o <<Blank>> \o ClaudeBlock(level)
    <3>1. g = TextFile(m, TRUE)
      <4>0. Cardinality({}) = 0
        BY FS_EmptySet
      <4>1. ReplaceBlock(f, begins, ends, level).file = TextFile(l \o <<Blank>> \o ClaudeBlock(level), TRUE)
        BY <2>1, <4>0, WhenThereIsNoBlock
      <4> HIDE DEF m
      <4> QED BY <2>0, <4>1 DEF m
    <3>2. \A i \in 1..Len(l) : l[i] # "begin" /\ l[i] # "end"
      BY <1>3, <2>1
    <3>3. m \in Seq(L) /\ Placed(m, Len(l) + 2, level) /\ Picked(m, UsersLines(m)) = Picked(l, UsersLines(l))
      BY <1>1, <3>2, OwnAppended
    <3> HIDE DEF m, g
    <3>4. g.lines = m /\ GuideFile(g, L) /\ g.state = "text"
      BY <1>2, <3>1, <3>3
    <3> QED BY <3>3, <3>4, OwnLines DEF g
  <2>2. CASE ~ (begins = {} /\ ends = {})
    <3>1. Cardinality(begins) = 1 /\ Cardinality(ends) = 1 /\ Max(begins) < Max(ends)
      BY <2>0, <2>2 DEF ReplaceBlock, Refuses
    <3>2. PICK p, q : begins = {p} /\ ends = {q}
      <4>1. \A S : IsFiniteSet(S) => (Cardinality(S) = 1 <=> \E x: S = {x})
        BY FS_Singleton
      <4>2. \E p : begins = {p}
        BY <1>4, <3>1, <4>1, Zenon
      <4>3. \E q : ends = {q}
        BY <1>4, <3>1, <4>1, Zenon
      <4> QED BY <4>2, <4>3, Zenon
    <3>3. p \in 1..Len(l) /\ q \in 1..Len(l) /\ \A i \in 1..Len(l) : (l[i] = "begin" <=> i = p) /\ (l[i] = "end" <=> i = q)
      BY <1>3, <3>2
    <3>4. \A i \in Int : Max({i}) = i
      BY DEF Max
    <3>5. Max(begins) = p /\ Max(ends) = q /\ p < q
      BY <1>1, <3>1, <3>2, <3>3, <3>4
    <3> DEFINE m == Replacement(l, p, q, level)
    <3>6. g = TextFile(m, f.nl)
      BY <2>0, <2>2, <3>1, <3>5 DEF ReplaceBlock, Replacement
    <3>7. m \in Seq(L) /\ Placed(m, p, level) /\ Picked(m, UsersLines(m)) = Picked(l, UsersLines(l))
      BY <1>1, <3>3, <3>5, OwnReplaced
    <3> HIDE DEF m, g
    <3>8. g.lines = m /\ GuideFile(g, L) /\ g.state = "text"
      BY <1>2, <3>6, <3>7
    <3> QED BY <3>7, <3>8, OwnLines DEF g
  <2> QED BY <2>1, <2>2
<1> QED BY <1>5, <1>6

\* A block written twice at the same level is written once.
LEMMA BlockRewritten ==
  ASSUME NEW L, NEW f, GuideFile(f, L), f.state = "text", NEW level \in LevelSet, NEW x, Placed(f.lines, x, level)
  PROVE  WriteClaudeMd(f, level) = [ok |-> TRUE, file |-> f]
<1> DEFINE l == f.lines
           begins == MarkerLineOffsets(l, "begin")
           ends == MarkerLineOffsets(l, "end")
           m == Replacement(l, x, x + 2, level)
<1>1. l \in Seq(L) /\ Wording \subseteq L /\ Len(l) \in Nat /\ DOMAIN l = 1..Len(l)
  BY DEF GuideFile
<1>2. x \in 1..Len(l) /\ x + 2 \in 1..Len(l) /\ x < x + 2
  BY <1>1 DEF Placed
<1>3. begins = {x} /\ ends = {x + 2}
  <2>1. begins = {i \in 1..Len(l) : l[i] = "begin"} /\ ends = {i \in 1..Len(l) : l[i] = "end"}
    BY <1>1, MarkersOf
  <2> HIDE DEF begins, ends
  <2> QED BY <1>1, <1>2, <2>1 DEF Placed
<1>4. \A i \in Int : Max({i}) = i
  BY DEF Max
<1>5. Cardinality(begins) = 1 /\ Cardinality(ends) = 1 /\ Max(begins) = x /\ Max(ends) = x + 2 /\ begins # {}
  <2>1. Cardinality({x}) = 1 /\ Cardinality({x + 2}) = 1
    BY FS_Singleton
  <2>2. x \in Int /\ x + 2 \in Int
    BY <1>2
  <2> HIDE DEF begins, ends
  <2> QED BY <1>3, <1>4, <2>1, <2>2
<1>6. WriteClaudeMd(f, level) = ReplaceBlock(f, begins, ends, level)
  BY DEF WriteClaudeMd
<1> HIDE DEF begins, ends
<1>7. WriteClaudeMd(f, level) = [ok |-> TRUE, file |-> TextFile(m, f.nl)]
  BY <1>2, <1>5, <1>6 DEF ReplaceBlock, Replacement
<1>8. /\ m \in Seq(L) /\ Len(m) = Len(l) - (x + 2) + x + 2 /\ \A i \in 1..(x - 1) : m[i] = l[i]
      /\ m[x] = "begin" /\ m[x + 1] = level /\ m[x + 2] = "end"
      /\ \A i \in (x + 3)..Len(m) : m[i] = l[i - x - 2 + (x + 2)]
  <2>1. {Blank, "begin", "end", level} \subseteq L
    BY <1>1 DEF Wording
  <2>2. m \in Seq(L) /\ IsReplaced(m, l, x, x + 2, level)
    BY <1>1, <1>2, <2>1, ReplacedText
  <2> HIDE DEF m
  <2> QED BY <2>2 DEF IsReplaced
<1> HIDE DEF m
<1>9. m = l
  <2>1. Len(m) = Len(l)
    BY <1>1, <1>2, <1>8
  <2>2. ASSUME NEW i \in 1..Len(l) PROVE m[i] = l[i]
    <3>1. CASE i \in 1..(x - 1)
      BY <1>8, <3>1
    <3>2. CASE i \in (x + 3)..Len(m)
      <4>1. i - x - 2 + (x + 2) = i
        BY <1>1, <1>2
      <4> QED BY <1>8, <3>2, <4>1
    <3>3. l[x] = "begin" /\ l[x + 1] = level /\ l[x + 2] = "end"
      BY <1>1, <1>2 DEF Placed
    <3>4. i \in 1..(x - 1) \/ i \in (x + 3)..Len(m) \/ i = x \/ i = x + 1 \/ i = x + 2
      BY <1>1, <1>2, <2>1
    <3> QED BY <1>8, <3>1, <3>2, <3>3, <3>4
  <2> QED BY <1>1, <1>8, <2>1, <2>2
<1>10. TextFile(l, f.nl) = f
  BY DEF TextFile, GuideFile
<1> QED BY <1>7, <1>9, <1>10

(***************************************************************************)
(* The settings of the sync section, and the mistakes in the others.       *)
(***************************************************************************)

\* The sync settings: five keys, of which four are texts; a list of them as the loaders give it.
SyncKeys == {"remote", "lfs", "repo_id", "ref", "retention"}
SyncShape(c) == c = [k \in SyncKeys |-> c[k]] /\ ParseRetention(c["retention"]) = c["retention"]

\* The sync section reads the file's values of its own keys.
LEMMA SyncSection ==
  /\ OfSection("sync") = SyncKeys /\ DOMAIN SyncDefault = SyncKeys
  /\ \A k \in SyncKeys : k \in DOMAIN Keys
  /\ \A k \in SyncKeys \ {"lfs"} : "str" \in Keys[k].types
  /\ "bool" \in Keys["lfs"].types
<1>1. DOMAIN SyncDefault = SyncKeys
  BY DEF SyncDefault, SyncKeys
<1>2. DOMAIN Keys = {"detail", "level", "memory", "auto_tokens", "footer", "section_tokens", "knowledge", "source",
                     "remote", "lfs", "repo_id", "ref", "retention", "corpus_id"}
  BY DEF Keys
<1>3. /\ Keys["detail"].section = "retrieval" /\ Keys["level"].section = "output" /\ Keys["memory"].section = "memory"
      /\ Keys["auto_tokens"].section = "summarization" /\ Keys["footer"].section = "mcp"
      /\ Keys["section_tokens"].section = "markdown" /\ Keys["knowledge"].section = "knowledge"
      /\ Keys["source"].section = "knowledge" /\ Keys["corpus_id"].section = "knowledge.sync"
  BY DEF Keys
<1>4. \A k \in SyncKeys \ {"lfs"} : Keys[k].section = "sync" /\ Keys[k].types = Texts
  BY DEF Keys, SyncKeys
<1>5. Keys["lfs"].section = "sync" /\ Keys["lfs"].types = {"bool"}
  BY DEF Keys
<1>6. \A k \in DOMAIN Keys : Keys[k].section = "sync" <=> k \in SyncKeys
  BY <1>2, <1>3, <1>4, <1>5 DEF SyncKeys
<1>7. SyncKeys \subseteq DOMAIN Keys
  BY <1>2 DEF SyncKeys
<1>8. OfSection("sync") = SyncKeys
  BY <1>6, <1>7 DEF OfSection
<1> QED BY <1>1, <1>4, <1>5, <1>7, <1>8 DEF Texts

\* What is loaded has every key, whatever the files hold.
LEMMA Loaded ==
  ASSUME NEW p, NEW g
  PROVE  SyncShape(SyncLoad(p, g))
<1>0. \A x : ParseRetention(ParseRetention(x)) = ParseRetention(x)
  BY DEF ParseRetention
<1>1. SyncShape(SyncDefault)
  <2>1. ParseRetention(SyncDefault["retention"]) = SyncDefault["retention"]
    BY DEF SyncDefault, ParseRetention
  <2>2. SyncDefault = [k \in SyncKeys |-> SyncDefault[k]]
    BY SyncSection DEF SyncDefault
  <2> QED BY <2>1, <2>2 DEF SyncShape
<1>2. \A raw : SyncShape(SyncOf(raw).cfg)
  <2> TAKE raw
  <2> DEFINE at(k) == CASE k \notin DOMAIN raw.at -> SyncDefault[k]
                        [] k \in DOMAIN raw.at /\ k = "retention" -> ParseRetention(raw.at[k])
                        [] OTHER -> raw.at[k]
             c == [k \in SyncKeys |-> at(k)]
  <2>1. SyncOf(raw).cfg = c
    BY SyncSection DEF SyncOf
  <2>2. "retention" \in SyncKeys
    BY DEF SyncKeys
  <2>3. at("retention") \in {SyncDefault["retention"], ParseRetention(raw.at["retention"])}
    BY Zenon
  <2>4. ParseRetention(at("retention")) = at("retention")
    BY <1>0, <1>1, <2>3 DEF SyncShape
  <2> HIDE DEF at
  <2> QED BY <2>1, <2>2, <2>4 DEF SyncShape
<1>3. \A c, r : SyncShape(c) => SyncShape([c EXCEPT !.remote = r])
  <2> TAKE c, r
  <2> HAVE SyncShape(c)
  <2>0. "remote" \in SyncKeys /\ "retention" \in SyncKeys /\ "remote" # "retention"
    BY DEF SyncKeys
  <2> DEFINE e == [c EXCEPT !.remote = r]
  <2>1. e = [k \in SyncKeys |-> e[k]]
    BY DEF SyncShape
  <2>2. e["retention"] = c["retention"]
    BY <2>0 DEF SyncShape
  <2> HIDE DEF e
  <2> QED BY <2>1, <2>2 DEF SyncShape, e
<1>4. \A q, h : SyncShape(q.cfg) => SyncShape(Merged(q, h))
  BY <1>3 DEF Merged
<1>5. SyncLoad(p, g) \in {SyncDefault, SyncFromYaml(g).cfg, Merged(SyncFromYaml(p), SyncFromYaml(g)), Merged(SyncFromYaml(p), [ok |-> FALSE])}
  BY DEF SyncLoad, LoadFrom, SyncDefault
<1>6. SyncShape(SyncFromYaml(p).cfg) /\ SyncShape(SyncFromYaml(g).cfg)
  BY <1>2 DEF SyncFromYaml
<1> QED BY <1>1, <1>4, <1>5, <1>6

\* What was saved is loaded, whatever the global file says, if it names a remote.
LEMMA SavedIsLoaded ==
  ASSUME NEW c, SyncShape(c), c["remote"] # Unset, NEW g
  PROVE  SyncLoad(SyncSave(c), g) = c
<1> DEFINE f == SyncSave(c)
           D == {"remote", "repo_id", "lfs", "retention"} \cup (IF c["ref"] = Unset THEN {} ELSE {"ref"})
           raw == Raw(f, "sync")
<1>1. f.yaml /\ f.there /\ f.at = SyncToYaml(c)
  BY DEF SyncSave
<1>2. f.at = [k \in D |-> IF k = "lfs" THEN Bool(c[k]) ELSE Str(c[k])]
  BY <1>1 DEF SyncToYaml
<1> HIDE DEF f
<1>3. D \subseteq SyncKeys /\ DOMAIN f.at = D /\ D \cap SyncKeys = D
  BY <1>2 DEF SyncKeys
<1>4. \A k \in D : f.at[k].v = c[k] /\ f.at[k].t = IF k = "lfs" THEN "bool" ELSE "str"
  BY <1>2 DEF Bool, Str
<1> HIDE DEF D
<1>5. Typed(f, "sync")
  BY <1>3, <1>4, SyncSection DEF Typed
<1>6. raw.ok /\ raw.at = [k \in D |-> c[k]]
  <2>1. raw = [ok |-> TRUE, at |-> [k \in DOMAIN f.at \cap OfSection("sync") |-> f.at[k].v]]
    BY <1>1, <1>5 DEF Raw
  <2>2. DOMAIN f.at \cap OfSection("sync") = D
    BY <1>3, SyncSection
  <2> QED BY <1>4, <2>1, <2>2
<1> HIDE DEF raw
<1>7. SyncOf(raw).ok /\ SyncOf(raw).cfg = c
  <2> DEFINE at(k) == CASE k \notin DOMAIN raw.at -> SyncDefault[k]
                        [] k \in DOMAIN raw.at /\ k = "retention" -> ParseRetention(raw.at[k])
                        [] OTHER -> raw.at[k]
  <2>1. SyncOf(raw).ok /\ SyncOf(raw).cfg = [k \in SyncKeys |-> at(k)]
    BY <1>6, SyncSection DEF SyncOf
  <2>2. ASSUME NEW k \in SyncKeys PROVE at(k) = c[k]
    <3>1. CASE k \notin D
      <4>1. k = "ref" /\ c["ref"] = Unset
        BY <3>1 DEF D, SyncKeys
      <4>2. SyncDefault["ref"] = Unset
        BY DEF SyncDefault
      <4> QED BY <1>6, <3>1, <4>1, <4>2
    <3>2. CASE k \in D /\ k = "retention"
      BY <1>6, <3>2 DEF SyncShape
    <3>3. CASE k \in D /\ k # "retention"
      BY <1>6, <3>3
    <3> QED BY <3>1, <3>2, <3>3
  <2> HIDE DEF at
  <2> QED BY <2>1, <2>2 DEF SyncShape
<1>8. \A h : LoadFrom(SyncFromYaml(f), h, FALSE) = c
  BY <1>7 DEF LoadFrom, SyncFromYaml, Merged, raw
<1>9. NotThere(f) = FALSE
  BY <1>1 DEF NotThere
<1>10. SyncLoad(f, g) = c
  BY <1>8, <1>9 DEF SyncLoad
<1> QED BY <1>10 DEF f

\* Settling twice is settling once.
LEMMA SettledTwice ==
  ASSUME NEW c, SyncShape(c), NEW url, url # Unset, NEW lfs, NEW id, NEW origin, origin # Unset
  PROVE  LET s == Settled(c, url, lfs, id, origin)
         IN /\ SyncShape(s) /\ s["remote"] = url /\ s["lfs"] = lfs /\ s["ref"] = c["ref"] /\ s["retention"] = c["retention"]
            /\ s["repo_id"] = IF id # Unset THEN id ELSE IF c["repo_id"] # Unset THEN c["repo_id"] ELSE origin
            /\ Settled(s, url, lfs, id, origin) = s
<1> DEFINE repo(x) == IF id # Unset THEN id ELSE IF x["repo_id"] # Unset THEN x["repo_id"] ELSE origin
           S(x) == Settled(x, url, lfs, id, origin)
<1>0. "remote" \in SyncKeys /\ "lfs" \in SyncKeys /\ "repo_id" \in SyncKeys /\ "ref" \in SyncKeys /\ "retention" \in SyncKeys
  BY DEF SyncKeys
<1>1. ASSUME NEW x, x = [k \in SyncKeys |-> x[k]]
      PROVE  S(x) = [k \in SyncKeys |-> IF k = "remote" THEN url ELSE IF k = "lfs" THEN lfs ELSE IF k = "repo_id" THEN repo(x) ELSE x[k]]
  BY <1>0, <1>1 DEF Settled
<1> HIDE DEF S
<1>2. S(c) = [k \in SyncKeys |-> IF k = "remote" THEN url ELSE IF k = "lfs" THEN lfs ELSE IF k = "repo_id" THEN repo(c) ELSE c[k]]
  BY <1>1 DEF SyncShape
<1>3. S(c)["remote"] = url /\ S(c)["lfs"] = lfs /\ S(c)["ref"] = c["ref"] /\ S(c)["retention"] = c["retention"] /\ S(c)["repo_id"] = repo(c)
  BY <1>0, <1>2
<1>4. S(c) = [k \in SyncKeys |-> S(c)[k]]
  BY <1>2
<1>5. repo(S(c)) = repo(c)
  BY <1>3
<1>6. S(S(c)) = S(c)
  <2>1. S(S(c)) = [k \in SyncKeys |-> IF k = "remote" THEN url ELSE IF k = "lfs" THEN lfs ELSE IF k = "repo_id" THEN repo(S(c)) ELSE S(c)[k]]
    BY <1>1, <1>4
  <2> HIDE DEF repo
  <2> QED BY <1>0, <1>3, <1>4, <1>5, <2>1
<1> QED BY <1>3, <1>4, <1>6 DEF S, SyncShape

\* What `sync init` settles is what every later command reads: of any input.
LEMMA SyncSettles == SyncInitSettles
<1> SUFFICES ASSUME For("config") PROVE SyncInitSettles
  BY DEF SyncInitSettles
<1> DEFINE c == SyncLoad(input.file, input.global)
           no == FALSE
           s == Settled(c, "url2", no, input.id, "origin")
           saved == SyncInit(input.file, input.global, "url2", FALSE, input.id, "origin")
<1>0. "url2" # Unset /\ "origin" # Unset
  BY DEF Unset
<1>1. SyncShape(c)
  BY Loaded
<1>2. saved = SyncSave(s)
  BY DEF SyncInit
<1> HIDE DEF c, saved, no
<1>3. /\ SyncShape(s) /\ s["remote"] = "url2" /\ s["lfs"] = no /\ s["ref"] = c["ref"] /\ s["retention"] = c["retention"]
      /\ s["repo_id"] = IF input.id # Unset THEN input.id ELSE IF c["repo_id"] # Unset THEN c["repo_id"] ELSE "origin"
  BY <1>0, <1>1, SettledTwice
<1> HIDE DEF s
<1>4. \A g : SyncLoad(saved, g) = s
  BY <1>0, <1>2, <1>3, SavedIsLoaded
<1> QED BY <1>3, <1>4 DEF SyncInitSettles, c, saved, no

\* What the loaders of the other sections read in two files is the same.
ReadAlike(f, g, sec) == Raw(f, sec) = Raw(g, sec) /\ \A x \in DOMAIN Raw(f, sec).at : f.at[x] = g.at[x]
RestAlike(f, g) == \A sec \in {"retrieval", "output", "memory", "summarization", "mcp", "markdown", "knowledge", "knowledge.sync"} :
                      ReadAlike(f, g, sec)

\* A loader reads the same from two files that are alike in its section.
LEMMA LoadersAlike ==
  ASSUME NEW f, NEW w, RestAlike(f, w)
  PROVE  /\ RetrievalConfig(f) = RetrievalConfig(w) /\ OutputConfig(f) = OutputConfig(w)
         /\ MemoryConfig(f) = MemoryConfig(w) /\ SummarizationConfig(f) = SummarizationConfig(w)
         /\ McpConfig(f) = McpConfig(w) /\ MarkdownConfig(f) = MarkdownConfig(w)
         /\ KnowledgeConfig(f) = KnowledgeConfig(w) /\ KnowledgeSyncConfig(f) = KnowledgeSyncConfig(w)
<1>2. /\ ReadAlike(f, w, "retrieval") /\ ReadAlike(f, w, "output") /\ ReadAlike(f, w, "memory") /\ ReadAlike(f, w, "summarization")
      /\ ReadAlike(f, w, "mcp") /\ ReadAlike(f, w, "markdown") /\ ReadAlike(f, w, "knowledge") /\ ReadAlike(f, w, "knowledge.sync")
  BY DEF RestAlike
<1>1. /\ Raw(f, "retrieval") = Raw(w, "retrieval") /\ Raw(f, "output") = Raw(w, "output") /\ Raw(f, "memory") = Raw(w, "memory")
      /\ Raw(f, "summarization") = Raw(w, "summarization") /\ Raw(f, "mcp") = Raw(w, "mcp") /\ Raw(f, "markdown") = Raw(w, "markdown")
      /\ Raw(f, "knowledge") = Raw(w, "knowledge") /\ Raw(f, "knowledge.sync") = Raw(w, "knowledge.sync")
  BY <1>2 DEF ReadAlike
<1>3. RetrievalConfig(f) = RetrievalConfig(w)
  BY <1>1 DEF RetrievalConfig, Setting
<1>4. OutputConfig(f) = OutputConfig(w)
  BY <1>1 DEF OutputConfig, Setting
<1>5. MemoryConfig(f) = MemoryConfig(w)
  <2>1. \A g : MemoryConfig(g) = IF "memory" \in DOMAIN Raw(g, "memory").at THEN Raw(g, "memory").at["memory"] ELSE TRUE
    BY DEF MemoryConfig, Setting
  <2>2. Raw(f, "memory") = Raw(w, "memory")
    BY <1>1
  <2> QED BY <2>1, <2>2, Zenon
<1>6. SummarizationConfig(f) = SummarizationConfig(w)
  BY <1>1 DEF SummarizationConfig, Setting
<1>7. McpConfig(f) = McpConfig(w)
  <2>1. Raw(f, "mcp") = Raw(w, "mcp") /\ ("footer" \in DOMAIN Raw(w, "mcp").at => f.at["footer"] = w.at["footer"])
    <3>1. ReadAlike(f, w, "mcp")
      BY <1>2
    <3> QED BY <3>1 DEF ReadAlike
  <2> DEFINE mode(g) == IF "footer" \notin DOMAIN Raw(g, "mcp").at THEN "none"
                        ELSE CASE g.at["footer"].t = "bool" -> IF Raw(g, "mcp").at["footer"] THEN "on" ELSE "off"
                               [] g.at["footer"].t = "str" -> Raw(g, "mcp").at["footer"]
                               [] OTHER -> "none"
  <2>2. \A g : McpConfig(g) = IF mode(g) \in {"on", "true"} THEN "on" ELSE IF mode(g) = "session" THEN "session" ELSE "off"
    BY DEF McpConfig
  <2>3. mode(f) = mode(w)
    <3>1. CASE "footer" \notin DOMAIN Raw(w, "mcp").at
      BY <2>1, <3>1
    <3>2. CASE "footer" \in DOMAIN Raw(w, "mcp").at
      <4>1. Raw(f, "mcp") = Raw(w, "mcp") /\ f.at["footer"] = w.at["footer"]
        BY <2>1, <3>2
      <4> QED BY <4>1, Zenon
    <3> QED BY <3>1, <3>2
  <2> HIDE DEF mode
  <2> QED BY <2>2, <2>3
<1>8. MarkdownConfig(f) = MarkdownConfig(w)
  BY <1>1 DEF MarkdownConfig, Setting
<1>9. KnowledgeConfig(f) = KnowledgeConfig(w)
  <2>1. \A g : KnowledgeConfig(g) =
          [enabled |-> IF "knowledge" \in DOMAIN Raw(g, "knowledge").at THEN Raw(g, "knowledge").at["knowledge"] ELSE TRUE,
           source |-> Setting(g, "knowledge", "source", "both", LAMBDA v : v \in {"code", "knowledge", "both"})]
    BY DEF KnowledgeConfig, Setting
  <2> DEFINE source(g) == Setting(g, "knowledge", "source", "both", LAMBDA v : v \in {"code", "knowledge", "both"})
  <2>2. source(f) = source(w)
    BY <1>1 DEF Setting
  <2>3. \A g : KnowledgeConfig(g) =
          [enabled |-> IF "knowledge" \in DOMAIN Raw(g, "knowledge").at THEN Raw(g, "knowledge").at["knowledge"] ELSE TRUE,
           source |-> source(g)]
    BY <2>1
  <2> HIDE DEF source
  <2>4. Raw(f, "knowledge") = Raw(w, "knowledge") /\ source(f) = source(w)
    BY <1>1, <2>2
  <2> QED BY <2>3, <2>4, Zenon
<1>10. KnowledgeSyncConfig(f) = KnowledgeSyncConfig(w)
  BY <1>1 DEF KnowledgeSyncConfig, Setting
<1> QED BY <1>3, <1>4, <1>5, <1>6, <1>7, <1>8, <1>9, <1>10

\* A file that was saved has the sync keys only.
LEMMA SavedKeys == ASSUME NEW c PROVE SyncSave(c).yaml /\ DOMAIN SyncSave(c).at \subseteq SyncKeys
<1>1. SyncSave(c).yaml /\ SyncSave(c).at = SyncToYaml(c)
  BY DEF SyncSave
<1>2. DOMAIN SyncToYaml(c) \subseteq SyncKeys
  BY DEF SyncToYaml, SyncKeys
<1> QED BY <1>1, <1>2

\* Every other section of it is read as that of an empty file: of any input.
LEMMA SyncDrops == SyncInitDropsTheRest
<1> SUFFICES ASSUME For("config") PROVE SyncInitDropsTheRest
  BY DEF SyncInitDropsTheRest
<1> DEFINE f == SyncInit(input.file, input.global, "url2", FALSE, input.id, "origin")
           g == [there |-> TRUE, yaml |-> TRUE, at |-> <<>>]
<1>1. f.yaml /\ DOMAIN f.at \subseteq SyncKeys
  BY SavedKeys DEF SyncInit
<1>2. g.yaml /\ DOMAIN g.at = {}
  OBVIOUS
<1> HIDE DEF f, g
<1>3. ASSUME NEW sec, sec # "sync" PROVE ReadAlike(f, g, sec)
  <2>1. OfSection(sec) \cap SyncKeys = {}
    BY <1>3, SyncSection DEF OfSection
  <2>2. DOMAIN f.at \cap OfSection(sec) = {} /\ DOMAIN g.at \cap OfSection(sec) = {}
    BY <1>1, <1>2, <2>1
  <2>3. Typed(f, sec) /\ Typed(g, sec)
    BY <2>2 DEF Typed
  <2>4. [k \in DOMAIN f.at \cap OfSection(sec) |-> f.at[k].v] = [k \in DOMAIN g.at \cap OfSection(sec) |-> g.at[k].v]
    BY <2>2
  <2>5. Raw(f, sec) = Raw(g, sec)
    BY <1>1, <1>2, <2>3, <2>4 DEF Raw
  <2>6. DOMAIN Raw(f, sec).at = {}
    BY <2>2 DEF Raw
  <2> QED BY <2>5, <2>6 DEF ReadAlike
<1>4. RestAlike(f, g)
  BY <1>3 DEF RestAlike
<1>5. /\ RetrievalConfig(f) = RetrievalConfig(g) /\ OutputConfig(f) = OutputConfig(g)
      /\ MemoryConfig(f) = MemoryConfig(g) /\ SummarizationConfig(f) = SummarizationConfig(g)
      /\ McpConfig(f) = McpConfig(g) /\ MarkdownConfig(f) = MarkdownConfig(g)
      /\ KnowledgeConfig(f) = KnowledgeConfig(g) /\ KnowledgeSyncConfig(f) = KnowledgeSyncConfig(g)
  BY <1>4, LoadersAlike
<1> QED BY <1>5 DEF SyncInitDropsTheRest, f, g

(***************************************************************************)
(* The three files `cce init` writes.                                      *)
(***************************************************************************)

\* What a writer does: it refuses and leaves the file, or writes what it would write again.
Refused(w, f) == w.ok = FALSE /\ w.file = f
Took(w) == w.ok = TRUE
McpFile(f) ==
  /\ f = [state |-> f.state, servers |-> f.servers]
  /\ f.state \in {"object", "absent", "unreadable", "invalid", "not-object", "servers-not-object"}

\* The entry in .mcp.json: written once, beside the others.
LEMMA McpWritten ==
  ASSUME NEW f, McpFile(f), NEW ws
  PROVE  LET w == WriteMcpJson(f, ws)
         IN /\ f.state \in {"object", "absent"} =>
                 /\ Took(w) /\ McpFile(w.file) /\ w.file.state = "object" /\ WriteMcpJson(w.file, ws) = w
                 /\ \A s \in DOMAIN f.servers \ {"cce"} : w.file.servers[s] = f.servers[s]
            /\ f.state \notin {"object", "absent"} => Refused(w, f)
<1> DEFINE w == WriteMcpJson(f, ws)
           srv(g) == [s \in DOMAIN g.servers \cup {"cce"} |-> IF s = "cce" THEN McpEntry(ws) ELSE g.servers[s]]
<1>1. CASE f.state \in {"object", "absent"}
  <2>1. w = [ok |-> TRUE, file |-> [state |-> "object", servers |-> srv(f)]]
    BY <1>1 DEF WriteMcpJson
  <2>2. w.ok = TRUE /\ w.file = [state |-> "object", servers |-> srv(f)]
    BY <2>1
  <2>3. w.file.state = "object" /\ w.file.servers = srv(f)
    BY <2>2
  <2>4. McpFile(w.file)
    BY <2>2, <2>3 DEF McpFile
  <2>5. srv(w.file) = srv(f)
    <3>1. DOMAIN srv(f) = DOMAIN f.servers \cup {"cce"} /\ \A s \in DOMAIN f.servers \cup {"cce"} : srv(f)[s] = IF s = "cce" THEN McpEntry(ws) ELSE f.servers[s]
      OBVIOUS
    <3> QED BY <2>3, <3>1
  <2>6. WriteMcpJson(w.file, ws) = [ok |-> TRUE, file |-> [state |-> "object", servers |-> srv(w.file)]]
    <3>1. \A g : g.state = "object" => WriteMcpJson(g, ws) = [ok |-> TRUE, file |-> [state |-> "object", servers |-> srv(g)]]
      BY DEF WriteMcpJson
    <3> QED BY <2>3, <3>1
  <2>7. \A s \in DOMAIN f.servers \ {"cce"} : w.file.servers[s] = f.servers[s]
    BY <2>3
  <2> HIDE DEF w
  <2> QED BY <1>1, <2>1, <2>2, <2>3, <2>4, <2>5, <2>6, <2>7 DEF Took, w
<1>2. CASE f.state \notin {"object", "absent"}
  BY <1>2 DEF WriteMcpJson, McpFile, Refused
<1> QED BY <1>1, <1>2

\* The guidance file: whether it is refused depends on its markers alone.

\* Whether the guidance file is accepted depends on the file alone, not on the level.
LEMMA ClaudeAccepts ==
  ASSUME NEW f, NEW level, NEW other
  PROVE  /\ WriteClaudeMd(f, level).ok \in BOOLEAN
         /\ WriteClaudeMd(f, level).ok = WriteClaudeMd(f, other).ok
         /\ ~ WriteClaudeMd(f, level).ok => Refused(WriteClaudeMd(f, level), f)
<1>1. ASSUME NEW b, NEW e
      PROVE  /\ ReplaceBlock(f, b, e, level).ok \in BOOLEAN
             /\ ReplaceBlock(f, b, e, level).ok = ReplaceBlock(f, b, e, other).ok
             /\ ~ ReplaceBlock(f, b, e, level).ok => Refused(ReplaceBlock(f, b, e, level), f)
  <2>0. ~ (Cardinality({}) = 1)
    <3>1. Cardinality({}) = 0 /\ ~ (0 = 1)
      BY FS_EmptySet
    <3> QED BY <3>1
  <2>1. CASE b = {} /\ e = {}
    <3>1. \A l : ReplaceBlock(f, b, e, l).ok = TRUE
      BY <2>0, <2>1 DEF ReplaceBlock
    <3> QED BY <3>1
  <2>2. CASE ~ (b = {} /\ e = {}) /\ Cardinality(b) = 1 /\ Cardinality(e) = 1 /\ Max(b) < Max(e)
    <3>1. \A l : ReplaceBlock(f, b, e, l).ok = TRUE
      BY <2>2 DEF ReplaceBlock
    <3> QED BY <3>1
  <2>3. CASE ~ (b = {} /\ e = {}) /\ ~ (Cardinality(b) = 1 /\ Cardinality(e) = 1 /\ Max(b) < Max(e))
    <3>1. \A l : ReplaceBlock(f, b, e, l) = Refuses(f)
      BY <2>3 DEF ReplaceBlock
    <3>2. Refuses(f).ok = FALSE /\ Refuses(f).file = f
      BY DEF Refuses
    <3> QED BY <3>1, <3>2 DEF Refused
  <2> QED BY <2>1, <2>2, <2>3
<1>2. CASE f.state = "absent"
  <2>1. \A l : WriteClaudeMd(f, l).ok = TRUE
    BY <1>2 DEF WriteClaudeMd
  <2> QED BY <2>1
<1>3. CASE f.state = "unreadable"
  <2>1. \A l : WriteClaudeMd(f, l) = Refuses(f)
    BY <1>3 DEF WriteClaudeMd
  <2>2. Refuses(f).ok = FALSE /\ Refuses(f).file = f
    BY DEF Refuses
  <2> QED BY <2>1, <2>2 DEF Refused
<1>4. CASE f.state \notin {"absent", "unreadable"}
  <2>1. \A l : WriteClaudeMd(f, l) = ReplaceBlock(f, MarkerLineOffsets(f.lines, "begin"), MarkerLineOffsets(f.lines, "end"), l)
    BY <1>4 DEF WriteClaudeMd
  <2> QED BY <1>1, <2>1
<1> QED BY <1>2, <1>3, <1>4

\* The guidance file that is accepted: the user's lines kept, one block, and the same when it is written again.
LEMMA ClaudeWritten ==
  ASSUME NEW L, NEW f, GuideFile(f, L), NEW level \in LevelSet
  PROVE  LET w == WriteClaudeMd(f, level)
         IN /\ w.ok => /\ Took(w) /\ GuideFile(w.file, L) /\ UsersOwn(w.file) = UsersOwn(f) /\ WriteClaudeMd(w.file, level) = w
                       /\ Cardinality({i \in DOMAIN w.file.lines : w.file.lines[i] = "begin"}) = 1
            /\ ~ w.ok => Refused(w, f)
<1> DEFINE w == WriteClaudeMd(f, level)
<1>1. w.ok \in BOOLEAN /\ (~ w.ok => Refused(w, f))
  BY ClaudeAccepts
<1>2. ASSUME w.ok
      PROVE  /\ Took(w) /\ GuideFile(w.file, L) /\ UsersOwn(w.file) = UsersOwn(f) /\ WriteClaudeMd(w.file, level) = w
             /\ Cardinality({i \in DOMAIN w.file.lines : w.file.lines[i] = "begin"}) = 1
  <2>1. w.ok = TRUE
    BY <1>1, <1>2
  <2>2. PICK x : GuideFile(w.file, L) /\ w.file.state = "text" /\ Placed(w.file.lines, x, level) /\ UsersOwn(w.file) = UsersOwn(f)
    BY <1>2, BlockWritten
  <2>3. WriteClaudeMd(w.file, level) = [ok |-> TRUE, file |-> w.file]
    BY <2>2, BlockRewritten
  <2>4. w = [ok |-> w.ok, file |-> w.file]
    <3>1. \A b, e : \E k, g : ReplaceBlock(f, b, e, level) = [ok |-> k, file |-> g]
      BY DEF ReplaceBlock, Refuses
    <3>2. \E k, g : w = [ok |-> k, file |-> g]
      BY <3>1 DEF WriteClaudeMd, Refuses
    <3> HIDE DEF w
    <3> QED BY <3>2
  <2> HIDE DEF w
  <2>5. DOMAIN w.file.lines = 1..Len(w.file.lines)
    BY <2>2 DEF GuideFile
  <2>6. {i \in DOMAIN w.file.lines : w.file.lines[i] = "begin"} = {x}
    BY <2>2, <2>5 DEF Placed
  <2>7. Cardinality({x}) = 1
    BY FS_Singleton
  <2> QED BY <2>1, <2>2, <2>3, <2>4, <2>6, <2>7 DEF Took
<1> QED BY <1>1, <1>2

\* .gitignore.
LEMMA PrefixOf ==
  ASSUME NEW L, NEW a \in Seq(L), NEW m \in Seq(L), Len(a) <= Len(m), \A i \in 1..Len(a) : m[i] = a[i]
  PROVE  IsPrefix(a, m)
<1>1. SubSeq(a, 1, Len(a)) = SubSeq(m, 1, Len(a))
  OBVIOUS
<1> QED BY <1>1 DEF IsPrefix

\* A sequence begins with itself.
LEMMA Prefixed ==
  ASSUME NEW L, NEW a \in Seq(L)
  PROVE  IsPrefix(a, a) /\ IsPrefix(<<>>, a)
<1>1. SubSeq(<<>>, 1, 0) = SubSeq(a, 1, 0)
  OBVIOUS
<1> QED BY <1>1 DEF IsPrefix
Spelled(f) == \E i \in DOMAIN f.lines : f.lines[i] \in {".cce/*", ".cce", ".cce/", "/.cce", "/.cce/"}
IgnoreFile(f, L) == GuideFile(f, L) /\ {"comment", ".cce/*", "!.cce/workspace.yml"} \subseteq L

\* The .gitignore: what was there stays at its front, and the block is written once.
LEMMA IgnoreWritten ==
  ASSUME NEW L, NEW f, IgnoreFile(f, L), NEW git \in BOOLEAN
  PROVE  LET w == EnsureCceGitignored(git, f)
         IN /\ ~ (git /\ f.state = "unreadable") =>
                 Took(w) /\ IgnoreFile(w.file, L) /\ EnsureCceGitignored(git, w.file) = w /\ IsPrefix(f.lines, w.file.lines)
                 /\ (f.state # "unreadable" => w.file.state # "unreadable")
            /\ git /\ f.state = "unreadable" => Refused(w, f) /\ IsPrefix(f.lines, f.lines)
<1> DEFINE w == EnsureCceGitignored(git, f)
           a == IF f.lines = <<>> THEN <<>> ELSE f.lines \o <<Blank>>
           m == a \o GitignoreBlock
<1>0. f.lines \in Seq(L) /\ IsPrefix(f.lines, f.lines)
  BY Prefixed DEF IgnoreFile, GuideFile
<1>1. CASE git /\ f.state = "unreadable"
  BY <1>0, <1>1 DEF EnsureCceGitignored, Refused
<1>2. CASE ~ git \/ (f.state # "unreadable" /\ Spelled(f))
  <2>1. w = [ok |-> TRUE, file |-> f]
    BY <1>2 DEF EnsureCceGitignored, Spelled
  <2>2. w.ok = TRUE /\ w.file = f
    BY <2>1
  <2> QED BY <1>0, <1>2, <2>2 DEF Took
<1>3. CASE git /\ f.state # "unreadable" /\ ~ Spelled(f)
  <2>1. w = [ok |-> TRUE, file |-> TextFile(m, TRUE)]
    BY <1>3 DEF EnsureCceGitignored, Spelled
  <2>2. GitignoreBlock \in Seq(L) /\ Len(GitignoreBlock) = 3 /\ GitignoreBlock[2] = ".cce/*"
    <3>1. "comment" \in L /\ ".cce/*" \in L /\ "!.cce/workspace.yml" \in L
      BY DEF IgnoreFile
    <3> QED BY <3>1 DEF GitignoreBlock
  <2>3. a \in Seq(L) /\ <<Blank>> \in Seq(L)
    <3>1. Blank \in L
      BY DEF IgnoreFile, GuideFile, Wording
    <3> QED BY <1>0, <3>1
  <2> DEFINE k == GitignoreBlock
  <2>4. m = a \o k
    OBVIOUS
  <2> HIDE DEF a, m, k
  <2>6. m \in Seq(L) /\ IsJoined(m, a, k)
    BY <2>2, <2>3, <2>4, Joined DEF k
  <2>5. IsPrefix(f.lines, m)
    <3>1. CASE f.lines = <<>>
      BY <2>6, <3>1, Prefixed
    <3>2. CASE f.lines # <<>>
      <4>1. a = f.lines \o <<Blank>> /\ <<Blank>> \in Seq(L)
        BY <2>3, <3>2 DEF a
      <4>2. IsJoined(a, f.lines, <<Blank>>)
        BY <1>0, <4>1, Joined
      <4>3. Len(<<Blank>>) = 1 /\ Len(k) = 3
        BY <2>2 DEF k
      <4>4. Len(f.lines) <= Len(m) /\ \A i \in 1..Len(f.lines) : m[i] = f.lines[i]
        <5>1. Len(a) = Len(f.lines) + 1 /\ Len(m) = Len(a) + 3 /\ Len(f.lines) \in Nat
          BY <1>0, <2>6, <4>2, <4>3 DEF IsJoined
        <5>2. \A i \in 1..Len(f.lines) : i \in 1..Len(a)
          BY <5>1
        <5>3. (\A i \in 1..Len(f.lines) : a[i] = f.lines[i]) /\ \A i \in 1..Len(a) : m[i] = a[i]
          BY <2>6, <4>2 DEF IsJoined
        <5> HIDE DEF a, m
        <5>4. Len(f.lines) <= Len(m)
          BY <5>1
        <5> QED BY <5>2, <5>3, <5>4
      <4> QED BY <1>0, <2>6, <4>4, PrefixOf
    <3> QED BY <3>1, <3>2
  <2>7. Len(a) + 2 \in DOMAIN m /\ m[Len(a) + 2] = ".cce/*"
    BY <2>2, <2>3, <2>6 DEF IsJoined, k
  <2>8. w.ok = TRUE /\ w.file = TextFile(m, TRUE)
    BY <2>1
  <2>9. w.file.state = "text" /\ w.file.lines = m /\ GuideFile(w.file, L)
    BY <2>6, <2>8 DEF TextFile, GuideFile, IgnoreFile
  <2>10. Spelled(w.file)
    BY <2>7, <2>9 DEF Spelled
  <2>11. \A g : g.state # "unreadable" /\ Spelled(g) => EnsureCceGitignored(git, g) = [ok |-> TRUE, file |-> g]
    BY DEF EnsureCceGitignored, Spelled
  <2>12. EnsureCceGitignored(git, w.file) = [ok |-> TRUE, file |-> w.file]
    BY <2>9, <2>10, <2>11
  <2>13. w = [ok |-> TRUE, file |-> w.file]
    BY <2>1, <2>8
  <2> HIDE DEF w
  <2> QED BY <1>3, <2>5, <2>8, <2>9, <2>12, <2>13 DEF Took, IgnoreFile, w
<1> QED BY <1>1, <1>2, <1>3

(***************************************************************************)
(* A run of `cce init`, from the settings to the last file.                *)
(***************************************************************************)

\* A project, and what a run asks for and meets.
ProjectOf(st) == st = [config |-> st.config, index |-> st.index, mcp |-> st.mcp, claude |-> st.claude, gitignore |-> st.gitignore]
Asked(o, e) ==
  /\ o.remote \in BOOLEAN
  /\ e.dir \in BOOLEAN /\ e.workspace \in BOOLEAN /\ e.git \in BOOLEAN
  /\ e.opens \in BOOLEAN /\ e.pulls \in BOOLEAN /\ e.builds \in BOOLEAN
TargetOf(c, o, e) == IF o.remote THEN SyncInit(c, e.global, "url2", TRUE, Unset, "origin") ELSE c
Wants(c, o, e) == o.remote \/ SyncLoad(c, e.global).remote # Unset
CanIndex(c, o, e) == IF o.remote THEN e.opens /\ e.pulls ELSE (Wants(c, o, e) /\ e.pulls) \/ e.builds
IndexMade(c, o, e) == IF Wants(c, o, e) /\ e.pulls THEN "pulled" ELSE "built"

\* Settings settled twice are settled once.
LEMMA TargetTwice ==
  ASSUME NEW c, NEW o, NEW e
  PROVE  TargetOf(TargetOf(c, o, e), o, e) = TargetOf(c, o, e)
<1> DEFINE yes == TRUE
           s == Settled(SyncLoad(c, e.global), "url2", yes, Unset, "origin")
           I(x) == SyncInit(x, e.global, "url2", yes, Unset, "origin")
<1>0. "url2" # Unset /\ "origin" # Unset
  BY DEF Unset
<1>1. \A x : I(x) = SyncSave(Settled(SyncLoad(x, e.global), "url2", yes, Unset, "origin"))
  BY DEF SyncInit
<1>2. \A x : TargetOf(x, o, e) = IF o.remote THEN I(x) ELSE x
  BY DEF TargetOf
<1> HIDE DEF yes, I
<1>3. SyncShape(s) /\ s["remote"] = "url2" /\ Settled(s, "url2", yes, Unset, "origin") = s
  BY <1>0, Loaded, SettledTwice
<1> HIDE DEF s
<1>4. I(c) = SyncSave(s)
  BY <1>1 DEF s
<1>5. SyncLoad(I(c), e.global) = s
  BY <1>0, <1>3, <1>4, SavedIsLoaded
<1>6. I(I(c)) = I(c)
  BY <1>1, <1>3, <1>4, <1>5
<1> QED BY <1>2, <1>6

\* Settings written again keep what a command read of the sync section.
LEMMA ConfigKeeps ==
  ASSUME NEW c, NEW o, NEW e
  PROVE  ConfigKept(c, TargetOf(c, o, e), o, e.global)
<1> DEFINE yes == TRUE
           x == SyncLoad(c, e.global)
           s == Settled(x, "url2", yes, Unset, "origin")
           t == TargetOf(c, o, e)
<1>1. CASE ~ o.remote
  BY <1>1 DEF TargetOf, ConfigKept
<1>2. CASE o.remote
  <2>0. "url2" # Unset /\ "origin" # Unset
    BY DEF Unset
  <2>1. t = SyncSave(s)
    BY <1>2 DEF TargetOf, SyncInit
  <2>2. SyncShape(x)
    BY Loaded
  <2> HIDE DEF t, x, yes
  <2>3. /\ SyncShape(s) /\ s["remote"] = "url2" /\ s["ref"] = x["ref"] /\ s["retention"] = x["retention"]
        /\ s["repo_id"] = IF x["repo_id"] # Unset THEN x["repo_id"] ELSE "origin"
    BY <2>0, <2>2, SettledTwice
  <2> HIDE DEF s
  <2>4. SyncLoad(t, e.global) = s
    BY <2>0, <2>1, <2>3, SavedIsLoaded
  <2>5. DOMAIN t.at \subseteq OfSection("sync")
    BY <2>1, SavedKeys, SyncSection
  <2> QED BY <1>2, <2>3, <2>4, <2>5 DEF ConfigKept, t, x
<1> QED BY <1>1, <1>2

\* The index: the project but for its settings and its index is as it was.
SameFiles(x, y) == ProjectOf(y) /\ y.mcp = x.mcp /\ y.claude = x.claude /\ y.gitignore = x.gitignore
IndexedTo(r, st, o, e, config, wants) ==
  /\ r = [ok |-> r.ok, st |-> r.st]
  /\ SameFiles(st, r.st) /\ r.st.config = config
  /\ IF IF o.remote THEN e.opens /\ e.pulls ELSE (wants /\ e.pulls) \/ e.builds
     THEN r.ok = TRUE /\ r.st.index = IF wants /\ e.pulls THEN "pulled" ELSE "built"
     ELSE r.ok = FALSE

\* Of given settings, and
LEMMA IndexedFrom ==
  ASSUME NEW st, ProjectOf(st), NEW o, NEW e, Asked(o, e), NEW config, NEW wants \in BOOLEAN,
         o.remote => wants, ~ o.remote => config = st.config
  PROVE  IndexedTo(EnsureFrom(st, config, wants, o, e), st, o, e, config, wants)
<1> DEFINE r == EnsureFrom(st, config, wants, o, e)
<1>0. ASSUME NEW i PROVE LET t == [st EXCEPT !.config = config, !.index = i] IN SameFiles(st, t) /\ t.config = config /\ t.index = i
  <2> DEFINE t == [st EXCEPT !.config = config, !.index = i]
             u == [st EXCEPT !.config = config]
  <2>0. u = [config |-> config, index |-> st.index, mcp |-> st.mcp, claude |-> st.claude, gitignore |-> st.gitignore]
    BY DEF ProjectOf
  <2>00. t = [u EXCEPT !.index = i]
    OBVIOUS
  <2>1. t = [config |-> config, index |-> i, mcp |-> st.mcp, claude |-> st.claude, gitignore |-> st.gitignore]
    <3> HIDE DEF t, u
    <3> QED BY <2>0, <2>00
  <2>2. t.config = config /\ t.index = i /\ t.mcp = st.mcp /\ t.claude = st.claude /\ t.gitignore = st.gitignore
    BY <2>1
  <2> HIDE DEF t
  <2>3. ProjectOf(t)
    BY <2>1, <2>2 DEF ProjectOf
  <2> QED BY <2>2, <2>3 DEF SameFiles, t
<1>1. LET t == [st EXCEPT !.config = config] IN SameFiles(st, t) /\ t.config = config
  <2> DEFINE t == [st EXCEPT !.config = config]
  <2>1. t = [config |-> config, index |-> st.index, mcp |-> st.mcp, claude |-> st.claude, gitignore |-> st.gitignore]
    BY DEF ProjectOf
  <2>2. t.config = config /\ t.index = st.index /\ t.mcp = st.mcp /\ t.claude = st.claude /\ t.gitignore = st.gitignore
    BY <2>1
  <2> HIDE DEF t
  <2>3. ProjectOf(t)
    BY <2>1, <2>2 DEF ProjectOf
  <2> QED BY <2>2, <2>3 DEF SameFiles, t
<1>2. ASSUME NEW i PROVE LET t == [st EXCEPT !.index = i] IN SameFiles(st, t) /\ t.config = st.config /\ t.index = i
  <2> DEFINE t == [st EXCEPT !.index = i]
  <2>1. t = [config |-> st.config, index |-> i, mcp |-> st.mcp, claude |-> st.claude, gitignore |-> st.gitignore]
    BY DEF ProjectOf
  <2>2. t.config = st.config /\ t.index = i /\ t.mcp = st.mcp /\ t.claude = st.claude /\ t.gitignore = st.gitignore
    BY <2>1
  <2> HIDE DEF t
  <2>3. ProjectOf(t)
    BY <2>1, <2>2 DEF ProjectOf
  <2> QED BY <2>2, <2>3 DEF SameFiles, t
<1>3. CASE o.remote /\ ~ (e.opens /\ e.pulls)
  <2>1. r = [ok |-> FALSE, st |-> [st EXCEPT !.config = config]]
    BY <1>3 DEF EnsureFrom, Asked
  <2>2. r.ok = FALSE /\ r.st = [st EXCEPT !.config = config] /\ r = [ok |-> r.ok, st |-> r.st]
    BY <2>1
  <2> HIDE DEF r
  <2> QED BY <1>1, <1>3, <2>2 DEF r, IndexedTo
<1>4. CASE (~ o.remote \/ e.opens) /\ wants /\ e.pulls
  <2>1. r = [ok |-> TRUE, st |-> [st EXCEPT !.config = config, !.index = "pulled"]]
    BY <1>4 DEF EnsureFrom, Asked
  <2>2. r.ok = TRUE /\ r.st = [st EXCEPT !.config = config, !.index = "pulled"] /\ r = [ok |-> r.ok, st |-> r.st]
    BY <2>1
  <2> HIDE DEF r
  <2>3. SameFiles(st, r.st) /\ r.st.config = config /\ r.st.index = "pulled"
    BY <1>0, <2>2
  <2>4. IF o.remote THEN e.opens /\ e.pulls ELSE (wants /\ e.pulls) \/ e.builds
    BY <1>4
  <2>5. (IF wants /\ e.pulls THEN "pulled" ELSE "built") = "pulled"
    BY <1>4
  <2>6. IndexedTo(r, st, o, e, config, wants)
    BY <2>2, <2>3, <2>4, <2>5 DEF IndexedTo
  <2> QED BY <2>6 DEF r
<1>5. CASE ~ o.remote /\ ~ (wants /\ e.pulls)
  <2>1. r = BuiltHere(st, BuildIndex(st, e))
    BY <1>5 DEF EnsureFrom, Asked
  <2>2. PICK i : BuildIndex(st, e) = [ok |-> e.builds, index |-> i] /\ (e.builds => i = "built")
    <3>1. \E i : BuildWorkspaceIndex(e) = [ok |-> e.builds, index |-> i] /\ (e.builds => i = "built")
      BY DEF BuildWorkspaceIndex
    <3> QED BY <3>1 DEF BuildIndex
  <2>3. r.ok = e.builds /\ r.st = [st EXCEPT !.index = i] /\ r = [ok |-> r.ok, st |-> r.st]
    BY <2>1, <2>2 DEF BuiltHere
  <2> HIDE DEF r
  <2> QED BY <1>2, <1>5, <2>2, <2>3 DEF Asked, r, IndexedTo
<1> QED BY <1>3, <1>4, <1>5
Indexes(r, st, o, e) ==
  /\ r = [ok |-> r.ok, st |-> r.st]
  /\ SameFiles(st, r.st) /\ r.st.config = TargetOf(st.config, o, e)
  /\ CanIndex(st.config, o, e) => r.ok = TRUE /\ r.st.index = IndexMade(st.config, o, e)
  /\ ~ CanIndex(st.config, o, e) => r.ok = FALSE

\* of those a run works with.
LEMMA Indexed ==
  ASSUME NEW st, ProjectOf(st), NEW o, NEW e, Asked(o, e)
  PROVE  Indexes(EnsureIndex(st, o, e), st, o, e)
<1> DEFINE config == TargetOf(st.config, o, e)
           wants == Wants(st.config, o, e)
<1>1. EnsureIndex(st, o, e) = EnsureFrom(st, config, wants, o, e)
  BY DEF EnsureIndex, TargetOf, Wants
<1>2. wants \in BOOLEAN /\ (o.remote => wants) /\ (~ o.remote => config = st.config)
  BY DEF Wants, TargetOf
<1> HIDE DEF config, wants
<1> DEFINE r == EnsureFrom(st, config, wants, o, e)
           can == IF o.remote THEN e.opens /\ e.pulls ELSE (wants /\ e.pulls) \/ e.builds
<1>6. IndexedTo(r, st, o, e, config, wants)
  BY <1>2, IndexedFrom
<1>3. /\ r = [ok |-> r.ok, st |-> r.st]
      /\ SameFiles(st, r.st) /\ r.st.config = config
      /\ can => r.ok = TRUE /\ r.st.index = IF wants /\ e.pulls THEN "pulled" ELSE "built"
      /\ ~ can => r.ok = FALSE
  BY <1>6 DEF IndexedTo
<1>4. can <=> CanIndex(st.config, o, e)
  BY DEF CanIndex, wants
<1>5. IndexMade(st.config, o, e) = IF wants /\ e.pulls THEN "pulled" ELSE "built"
  BY DEF IndexMade, wants
<1> HIDE DEF can, r
<1> QED BY <1>1, <1>3, <1>4, <1>5 DEF config, r, Indexes

\* The whole command, file by file.
LevelOf(c, o, e) == OutputConfig(TargetOf(c, o, e))
McpOf(st, o, e) == WriteMcpJson(st.mcp, e.workspace)
ClaudeOf(st, o, e) == WriteClaudeMd(st.claude, LevelOf(st.config, o, e))
IgnoreOf(st, o, e) == EnsureCceGitignored(e.git, st.gitignore)
\* As far as each step got.
ToMcp(st, o, e) == CanIndex(st.config, o, e)
ToClaude(st, o, e) == ToMcp(st, o, e) /\ McpOf(st, o, e).ok
ToIgnore(st, o, e) == ToClaude(st, o, e) /\ ClaudeOf(st, o, e).ok
ToEnd(st, o, e) == ToIgnore(st, o, e) /\ IgnoreOf(st, o, e).ok
Reached(r, st, o, e) ==
  /\ r = [ok |-> r.ok, st |-> r.st] /\ ProjectOf(r.st)
  /\ r.st.config = TargetOf(st.config, o, e)
  /\ r.st.mcp = IF ToMcp(st, o, e) THEN McpOf(st, o, e).file ELSE st.mcp
  /\ r.st.claude = IF ToClaude(st, o, e) THEN ClaudeOf(st, o, e).file ELSE st.claude
  /\ r.st.gitignore = IF ToIgnore(st, o, e) THEN IgnoreOf(st, o, e).file ELSE st.gitignore
  /\ ToEnd(st, o, e) => r.ok = TRUE /\ r.st.index = IndexMade(st.config, o, e)
  /\ ~ ToEnd(st, o, e) => r.ok = FALSE
WritersAnswer(st, o, e) == McpOf(st, o, e).ok \in BOOLEAN /\ ClaudeOf(st, o, e).ok \in BOOLEAN /\ IgnoreOf(st, o, e).ok \in BOOLEAN

\* A run goes as far as its first failing step, and leaves what the steps before wrote.
LEMMA RunReaches ==
  ASSUME NEW st, ProjectOf(st), NEW o, NEW e, Asked(o, e), WritersAnswer(st, o, e), o.agent = "claude", e.dir
  PROVE  Reached(InitRun(st, o, e), st, o, e)
<1> DEFINE a == EnsureIndex(st, o, e)
           b == ThenMcpJson(a, e)
           c == ThenClaudeMd(b)
           d == ThenGitignore(c, e)
<1>0. InitRun(st, o, e) = d
  BY DEF InitRun
<1>1. /\ a = [ok |-> a.ok, st |-> a.st] /\ ProjectOf(a.st) /\ a.st.mcp = st.mcp /\ a.st.claude = st.claude /\ a.st.gitignore = st.gitignore
      /\ a.st.config = TargetOf(st.config, o, e)
      /\ ToMcp(st, o, e) => a.ok = TRUE /\ a.st.index = IndexMade(st.config, o, e)
      /\ ~ ToMcp(st, o, e) => a.ok = FALSE
  <2>1. Indexes(a, st, o, e)
    BY Indexed
  <2> HIDE DEF a
  <2> QED BY <2>1 DEF Indexes, SameFiles, ToMcp
<1> HIDE DEF a
\* A step that writes file `name`: what it keeps and changes.
<1>2. b = IF a.ok THEN [ok |-> McpOf(st, o, e).ok, st |-> [a.st EXCEPT !["mcp"] = McpOf(st, o, e).file]] ELSE a
  BY <1>1 DEF ThenMcpJson, WithFile, McpOf
<1>3. /\ b = [ok |-> b.ok, st |-> b.st] /\ ProjectOf(b.st) /\ b.st.claude = st.claude /\ b.st.gitignore = st.gitignore
      /\ b.st.config = TargetOf(st.config, o, e) /\ b.st.index = a.st.index
      /\ b.st.mcp = IF ToMcp(st, o, e) THEN McpOf(st, o, e).file ELSE st.mcp
      /\ ToClaude(st, o, e) => b.ok = TRUE
      /\ ~ ToClaude(st, o, e) => b.ok = FALSE
  <2>1. CASE ToMcp(st, o, e)
    <3>1. b = [ok |-> McpOf(st, o, e).ok, st |-> [a.st EXCEPT !["mcp"] = McpOf(st, o, e).file]]
      BY <1>1, <1>2, <2>1
    <3>2. b.ok = McpOf(st, o, e).ok /\ b.st = [a.st EXCEPT !["mcp"] = McpOf(st, o, e).file] /\ b = [ok |-> b.ok, st |-> b.st]
      BY <3>1
    <3>3. b.st = [config |-> a.st.config, index |-> a.st.index, mcp |-> McpOf(st, o, e).file, claude |-> a.st.claude, gitignore |-> a.st.gitignore]
      BY <1>1, <3>2 DEF ProjectOf
    <3> HIDE DEF b
    <3>4. b.st.mcp = McpOf(st, o, e).file /\ b.st.config = a.st.config /\ b.st.index = a.st.index /\ b.st.claude = a.st.claude /\ b.st.gitignore = a.st.gitignore
      BY <3>3
    <3>5. ProjectOf(b.st)
      BY <3>3, <3>4 DEF ProjectOf
    <3> QED BY <1>1, <2>1, <3>2, <3>4, <3>5 DEF ToClaude, WritersAnswer
  <2>2. CASE ~ ToMcp(st, o, e)
    <3>1. b = a
      BY <1>1, <1>2, <2>2
    <3> HIDE DEF b
    <3> QED BY <1>1, <2>2, <3>1 DEF ToClaude
  <2> QED BY <2>1, <2>2
<1> HIDE DEF b
<1>4. c = IF b.ok THEN [ok |-> ClaudeOf(st, o, e).ok, st |-> [b.st EXCEPT !["claude"] = ClaudeOf(st, o, e).file]] ELSE b
  BY <1>3 DEF ThenClaudeMd, WithFile, ClaudeOf, LevelOf
<1>5. /\ c = [ok |-> c.ok, st |-> c.st] /\ ProjectOf(c.st) /\ c.st.gitignore = st.gitignore
      /\ c.st.config = TargetOf(st.config, o, e) /\ c.st.index = a.st.index /\ c.st.mcp = b.st.mcp
      /\ c.st.claude = IF ToClaude(st, o, e) THEN ClaudeOf(st, o, e).file ELSE st.claude
      /\ ToIgnore(st, o, e) => c.ok = TRUE
      /\ ~ ToIgnore(st, o, e) => c.ok = FALSE
  <2>1. CASE ToClaude(st, o, e)
    <3>1. c = [ok |-> ClaudeOf(st, o, e).ok, st |-> [b.st EXCEPT !["claude"] = ClaudeOf(st, o, e).file]]
      BY <1>3, <1>4, <2>1
    <3>2. c.ok = ClaudeOf(st, o, e).ok /\ c.st = [b.st EXCEPT !["claude"] = ClaudeOf(st, o, e).file] /\ c = [ok |-> c.ok, st |-> c.st]
      BY <3>1
    <3>3. c.st = [config |-> b.st.config, index |-> b.st.index, mcp |-> b.st.mcp, claude |-> ClaudeOf(st, o, e).file, gitignore |-> b.st.gitignore]
      BY <1>3, <3>2 DEF ProjectOf
    <3> HIDE DEF c
    <3>4. c.st.mcp = b.st.mcp /\ c.st.config = b.st.config /\ c.st.index = b.st.index /\ c.st.claude = ClaudeOf(st, o, e).file /\ c.st.gitignore = b.st.gitignore
      BY <3>3
    <3>5. ProjectOf(c.st)
      BY <3>3, <3>4 DEF ProjectOf
    <3> QED BY <1>3, <2>1, <3>2, <3>4, <3>5 DEF ToIgnore, WritersAnswer
  <2>2. CASE ~ ToClaude(st, o, e)
    <3>1. c = b
      BY <1>3, <1>4, <2>2
    <3> HIDE DEF c
    <3> QED BY <1>3, <2>2, <3>1 DEF ToIgnore
  <2> QED BY <2>1, <2>2
<1> HIDE DEF c
<1>6. d = IF c.ok THEN [ok |-> IgnoreOf(st, o, e).ok, st |-> [c.st EXCEPT !["gitignore"] = IgnoreOf(st, o, e).file]] ELSE c
  BY <1>5 DEF ThenGitignore, WithFile, IgnoreOf
<1>7. /\ d = [ok |-> d.ok, st |-> d.st] /\ ProjectOf(d.st)
      /\ d.st.config = TargetOf(st.config, o, e) /\ d.st.index = a.st.index /\ d.st.mcp = b.st.mcp /\ d.st.claude = c.st.claude
      /\ d.st.gitignore = IF ToIgnore(st, o, e) THEN IgnoreOf(st, o, e).file ELSE st.gitignore
      /\ ToEnd(st, o, e) => d.ok = TRUE
      /\ ~ ToEnd(st, o, e) => d.ok = FALSE
  <2>1. CASE ToIgnore(st, o, e)
    <3>1. d = [ok |-> IgnoreOf(st, o, e).ok, st |-> [c.st EXCEPT !["gitignore"] = IgnoreOf(st, o, e).file]]
      BY <1>5, <1>6, <2>1
    <3>2. d.ok = IgnoreOf(st, o, e).ok /\ d.st = [c.st EXCEPT !["gitignore"] = IgnoreOf(st, o, e).file] /\ d = [ok |-> d.ok, st |-> d.st]
      BY <3>1
    <3>3. d.st = [config |-> c.st.config, index |-> c.st.index, mcp |-> c.st.mcp, claude |-> c.st.claude, gitignore |-> IgnoreOf(st, o, e).file]
      BY <1>5, <3>2 DEF ProjectOf
    <3> HIDE DEF d
    <3>4. d.st.mcp = c.st.mcp /\ d.st.config = c.st.config /\ d.st.index = c.st.index /\ d.st.claude = c.st.claude /\ d.st.gitignore = IgnoreOf(st, o, e).file
      BY <3>3
    <3>5. ProjectOf(d.st)
      BY <3>3, <3>4 DEF ProjectOf
    <3> QED BY <1>5, <2>1, <3>2, <3>4, <3>5 DEF ToEnd, WritersAnswer
  <2>2. CASE ~ ToIgnore(st, o, e)
    <3>1. d = c
      BY <1>5, <1>6, <2>2
    <3> HIDE DEF d
    <3> QED BY <1>5, <2>2, <3>1 DEF ToEnd
  <2> QED BY <2>1, <2>2
<1> HIDE DEF d
<1>8. Reached(d, st, o, e)
  <2>1. ToEnd(st, o, e) => ToMcp(st, o, e)
    BY DEF ToEnd, ToIgnore, ToClaude
  <2> QED BY <1>1, <1>3, <1>5, <1>7, <2>1 DEF Reached
<1> QED BY <1>0, <1>8 DEF d

\* The three files of a project, each in any of the states it can be found in.
FilesOf(st, L) ==
  /\ ProjectOf(st) /\ McpFile(st.mcp) /\ GuideFile(st.claude, L) /\ IgnoreFile(st.gitignore, L)

\* The level is one of the four.
LEMMA LevelIsOne == ASSUME NEW c, NEW o, NEW e PROVE LevelOf(c, o, e) \in LevelSet
<1>1. \A f : OutputConfig(f) \in LevelSet
  BY DEF OutputConfig, Setting, LevelSet
<1> QED BY <1>1 DEF LevelOf
\* Each writer on such a project.
McpGood(st) == st.mcp.state \in {"object", "absent"}
IgnoreGood(st, e) == ~ (e.git /\ st.gitignore.state = "unreadable")
WritersDo(st, L, o, e) ==
  /\ McpGood(st) =>
       /\ Took(McpOf(st, o, e)) /\ McpFile(McpOf(st, o, e).file) /\ McpOf(st, o, e).file.state = "object"
       /\ WriteMcpJson(McpOf(st, o, e).file, e.workspace) = McpOf(st, o, e)
       /\ \A s \in DOMAIN st.mcp.servers \ {"cce"} : McpOf(st, o, e).file.servers[s] = st.mcp.servers[s]
  /\ ~ McpGood(st) => Refused(McpOf(st, o, e), st.mcp)
  /\ ClaudeOf(st, o, e).ok \in BOOLEAN
  /\ ClaudeOf(st, o, e).ok =>
       /\ Took(ClaudeOf(st, o, e)) /\ GuideFile(ClaudeOf(st, o, e).file, L) /\ UsersOwn(ClaudeOf(st, o, e).file) = UsersOwn(st.claude)
       /\ WriteClaudeMd(ClaudeOf(st, o, e).file, LevelOf(st.config, o, e)) = ClaudeOf(st, o, e)
       /\ Cardinality({i \in DOMAIN ClaudeOf(st, o, e).file.lines : ClaudeOf(st, o, e).file.lines[i] = "begin"}) = 1
  /\ ~ ClaudeOf(st, o, e).ok => Refused(ClaudeOf(st, o, e), st.claude)
  /\ IgnoreGood(st, e) =>
       /\ Took(IgnoreOf(st, o, e)) /\ IgnoreFile(IgnoreOf(st, o, e).file, L)
       /\ EnsureCceGitignored(e.git, IgnoreOf(st, o, e).file) = IgnoreOf(st, o, e)
       /\ (st.gitignore.state # "unreadable" => IgnoreOf(st, o, e).file.state # "unreadable")
       /\ IsPrefix(st.gitignore.lines, IgnoreOf(st, o, e).file.lines)
  /\ ~ IgnoreGood(st, e) => Refused(IgnoreOf(st, o, e), st.gitignore)
  /\ IsPrefix(st.gitignore.lines, st.gitignore.lines)

\* Each of the three writers keeps what is the user's, and repeats itself.
LEMMA WritersWrite ==
  ASSUME NEW L, NEW st, FilesOf(st, L), NEW o, NEW e, Asked(o, e)
  PROVE  WritersDo(st, L, o, e) /\ WritersAnswer(st, o, e)
<1>1. /\ McpGood(st) =>
           /\ Took(McpOf(st, o, e)) /\ McpFile(McpOf(st, o, e).file) /\ McpOf(st, o, e).file.state = "object"
           /\ WriteMcpJson(McpOf(st, o, e).file, e.workspace) = McpOf(st, o, e)
           /\ \A s \in DOMAIN st.mcp.servers \ {"cce"} : McpOf(st, o, e).file.servers[s] = st.mcp.servers[s]
      /\ ~ McpGood(st) => Refused(McpOf(st, o, e), st.mcp)
  BY McpWritten DEF McpGood, McpOf, FilesOf
<1>2. /\ ClaudeOf(st, o, e).ok \in BOOLEAN
      /\ ClaudeOf(st, o, e).ok =>
           /\ Took(ClaudeOf(st, o, e)) /\ GuideFile(ClaudeOf(st, o, e).file, L) /\ UsersOwn(ClaudeOf(st, o, e).file) = UsersOwn(st.claude)
           /\ WriteClaudeMd(ClaudeOf(st, o, e).file, LevelOf(st.config, o, e)) = ClaudeOf(st, o, e)
           /\ Cardinality({i \in DOMAIN ClaudeOf(st, o, e).file.lines : ClaudeOf(st, o, e).file.lines[i] = "begin"}) = 1
      /\ ~ ClaudeOf(st, o, e).ok => Refused(ClaudeOf(st, o, e), st.claude)
  BY LevelIsOne, ClaudeWritten, ClaudeAccepts DEF ClaudeOf, FilesOf
<1>3. /\ IgnoreGood(st, e) =>
           /\ Took(IgnoreOf(st, o, e)) /\ IgnoreFile(IgnoreOf(st, o, e).file, L)
           /\ EnsureCceGitignored(e.git, IgnoreOf(st, o, e).file) = IgnoreOf(st, o, e)
           /\ (st.gitignore.state # "unreadable" => IgnoreOf(st, o, e).file.state # "unreadable")
           /\ IsPrefix(st.gitignore.lines, IgnoreOf(st, o, e).file.lines)
      /\ ~ IgnoreGood(st, e) => Refused(IgnoreOf(st, o, e), st.gitignore)
  BY IgnoreWritten DEF IgnoreGood, IgnoreOf, FilesOf, Asked
<1>4. IsPrefix(st.gitignore.lines, st.gitignore.lines)
  BY Prefixed DEF FilesOf, IgnoreFile, GuideFile
<1>5. WritersDo(st, L, o, e)
  BY <1>1, <1>2, <1>3, <1>4 DEF WritersDo
<1>6. McpOf(st, o, e).ok \in BOOLEAN /\ IgnoreOf(st, o, e).ok \in BOOLEAN
  BY <1>1, <1>3 DEF Took, Refused
<1> QED BY <1>2, <1>5, <1>6 DEF WritersAnswer

\* A run keeps the user's.
LEMMA RunKeeps ==
  ASSUME NEW L, NEW st, FilesOf(st, L), NEW o, NEW e, Asked(o, e)
  PROVE  KeptFrom(st, InitRun(st, o, e).st, InitRun(st, o, e).ok)
<1> DEFINE r == InitRun(st, o, e)
<1>1. WritersDo(st, L, o, e) /\ WritersAnswer(st, o, e)
  BY WritersWrite
<1>2. CASE o.agent # "claude" \/ ~ e.dir
  <2>1. r = [ok |-> FALSE, st |-> st]
    BY <1>2 DEF InitRun
  <2>2. r.ok = FALSE /\ r.st = st
    BY <2>1
  <2> HIDE DEF r
  <2> QED BY <1>1, <2>2 DEF KeptFrom, WritersDo, r
<1>3. CASE o.agent = "claude" /\ e.dir
  <2>1. Reached(r, st, o, e)
    BY <1>1, <1>3, RunReaches DEF FilesOf
  <2> HIDE DEF r
  <2>2. UsersOwn(r.st.claude) = UsersOwn(st.claude)
    <3>1. r.st.claude \in {st.claude, ClaudeOf(st, o, e).file}
      BY <2>1 DEF Reached
    <3> QED BY <1>1, <3>1 DEF WritersDo, Refused
  <2>3. r.ok => Cardinality({i \in DOMAIN r.st.claude.lines : r.st.claude.lines[i] = "begin"}) = 1
    <3>1. r.ok => ToEnd(st, o, e)
      BY <2>1 DEF Reached
    <3>2. ToEnd(st, o, e) => ClaudeOf(st, o, e).ok /\ r.st.claude = ClaudeOf(st, o, e).file
      BY <2>1 DEF Reached, ToEnd, ToIgnore
    <3> QED BY <1>1, <3>1, <3>2 DEF WritersDo
  <2>4. IsPrefix(st.gitignore.lines, r.st.gitignore.lines)
    <3>1. r.st.gitignore \in {st.gitignore, IgnoreOf(st, o, e).file}
      BY <2>1 DEF Reached
    <3> QED BY <1>1, <3>1 DEF WritersDo, Refused
  <2>5. McpGood(st) => \A s \in DOMAIN st.mcp.servers \ {"cce"} : r.st.mcp.servers[s] = st.mcp.servers[s]
    <3>1. r.st.mcp \in {st.mcp, McpOf(st, o, e).file}
      BY <2>1 DEF Reached
    <3> QED BY <1>1, <3>1 DEF WritersDo
  <2>6. ~ McpGood(st) => r.st.mcp = st.mcp /\ ~ r.ok
    <3>1. r.st.mcp \in {st.mcp, McpOf(st, o, e).file}
      BY <2>1 DEF Reached
    <3>2. ~ McpGood(st) => ~ McpOf(st, o, e).ok /\ McpOf(st, o, e).file = st.mcp
      BY <1>1 DEF WritersDo, Refused
    <3>3. ~ McpOf(st, o, e).ok => ~ ToEnd(st, o, e)
      BY DEF ToEnd, ToIgnore, ToClaude
    <3> QED BY <2>1, <3>1, <3>2, <3>3 DEF Reached
  <2> QED BY <2>2, <2>3, <2>4, <2>5, <2>6 DEF KeptFrom, McpGood, r
<1> QED BY <1>2, <1>3

\* A project is what its files are.
LEMMA SameProject ==
  ASSUME NEW x, NEW y, ProjectOf(x), ProjectOf(y), x.config = y.config, x.index = y.index, x.mcp = y.mcp,
         x.claude = y.claude, x.gitignore = y.gitignore
  PROVE  x = y
  BY DEF ProjectOf
\* What the files hold when a run ends, whether or not it got there.
LEMMA FilesAfter ==
  ASSUME NEW L, NEW st, FilesOf(st, L), NEW o, NEW e, Asked(o, e)
  PROVE  LET r == InitRun(st, o, e)
         IN /\ FilesOf(r.st, L) /\ r.st.config \in {st.config, TargetOf(st.config, o, e)}
            /\ r.st.mcp \in {st.mcp, McpOf(st, o, e).file}
            /\ r.st.claude \in {st.claude, ClaudeOf(st, o, e).file}
            /\ r.st.gitignore \in {st.gitignore, IgnoreOf(st, o, e).file}
            /\ r.ok => o.agent = "claude" /\ e.dir
<1> DEFINE r == InitRun(st, o, e)
<1>1. WritersDo(st, L, o, e) /\ WritersAnswer(st, o, e)
  BY WritersWrite
<1>2. McpFile(McpOf(st, o, e).file) /\ GuideFile(ClaudeOf(st, o, e).file, L) /\ IgnoreFile(IgnoreOf(st, o, e).file, L)
  BY <1>1 DEF WritersDo, Refused, FilesOf
<1>3. CASE o.agent # "claude" \/ ~ e.dir
  <2>1. r = [ok |-> FALSE, st |-> st]
    BY <1>3 DEF InitRun
  <2>2. r.ok = FALSE /\ r.st = st
    BY <2>1
  <2> HIDE DEF r
  <2> QED BY <2>2 DEF r
<1>4. CASE o.agent = "claude" /\ e.dir
  <2>1. Reached(r, st, o, e)
    BY <1>1, <1>4, RunReaches DEF FilesOf
  <2> HIDE DEF r
  <2>2. /\ r.st.config = TargetOf(st.config, o, e) /\ ProjectOf(r.st)
        /\ r.st.mcp \in {st.mcp, McpOf(st, o, e).file}
        /\ r.st.claude \in {st.claude, ClaudeOf(st, o, e).file}
        /\ r.st.gitignore \in {st.gitignore, IgnoreOf(st, o, e).file}
    BY <2>1 DEF Reached
  <2>3. FilesOf(r.st, L)
    BY <1>2, <2>2 DEF FilesOf
  <2> QED BY <1>4, <2>2, <2>3 DEF r
<1> QED BY <1>3, <1>4

\* A run is the same run on settings it has already settled.
LEMMA TargetSame ==
  ASSUME NEW c, NEW d, NEW o, NEW e, d \in {c, TargetOf(c, o, e)}
  PROVE  TargetOf(d, o, e) = TargetOf(c, o, e) /\ Wants(d, o, e) = Wants(c, o, e)
<1>1. TargetOf(d, o, e) = TargetOf(c, o, e)
  BY TargetTwice
<1>2. ~ o.remote => d = c
  BY DEF TargetOf
<1>3. o.remote => Wants(d, o, e) = TRUE /\ Wants(c, o, e) = TRUE
  BY DEF Wants
<1> QED BY <1>1, <1>2, <1>3

\* A run that succeeded changes nothing when it is repeated.
LEMMA RunAgain ==
  ASSUME NEW L, NEW st, FilesOf(st, L), NEW o, NEW e, Asked(o, e), InitRun(st, o, e).ok
  PROVE  InitRun(InitRun(st, o, e).st, o, e) = InitRun(st, o, e)
<1> DEFINE r == InitRun(st, o, e)
           t == r.st
           q == InitRun(t, o, e)
<1>1. o.agent = "claude" /\ e.dir /\ FilesOf(t, L) /\ r.ok
  BY FilesAfter
<1>2. WritersDo(st, L, o, e) /\ WritersAnswer(st, o, e) /\ ProjectOf(st)
  BY WritersWrite DEF FilesOf
<1>3. Reached(r, st, o, e)
  BY <1>1, <1>2, RunReaches
<1> HIDE DEF r
<1>4. WritersAnswer(t, o, e) /\ ProjectOf(t)
  BY <1>1, WritersWrite DEF FilesOf
<1>5. Reached(q, t, o, e)
  BY <1>1, <1>4, RunReaches
<1> HIDE DEF q
<1>6. ToEnd(st, o, e)
  BY <1>1, <1>3 DEF Reached
<1>7. /\ r = [ok |-> r.ok, st |-> t] /\ r.ok = TRUE
      /\ t.config = TargetOf(st.config, o, e) /\ t.mcp = McpOf(st, o, e).file
      /\ t.claude = ClaudeOf(st, o, e).file /\ t.gitignore = IgnoreOf(st, o, e).file
      /\ t.index = IndexMade(st.config, o, e)
  BY <1>3, <1>6 DEF Reached, ToEnd, ToIgnore, ToClaude
<1> HIDE DEF t
<1>8. /\ TargetOf(t.config, o, e) = t.config /\ Wants(t.config, o, e) = Wants(st.config, o, e)
      /\ LevelOf(t.config, o, e) = LevelOf(st.config, o, e)
  BY <1>7, TargetSame DEF LevelOf
<1>9. CanIndex(t.config, o, e) = CanIndex(st.config, o, e) /\ IndexMade(t.config, o, e) = IndexMade(st.config, o, e)
  BY <1>8 DEF CanIndex, IndexMade
<1>10. McpGood(st) /\ ClaudeOf(st, o, e).ok /\ IgnoreGood(st, e)
  BY <1>2, <1>6 DEF ToEnd, ToIgnore, ToClaude, WritersDo, Refused
<1>11. McpOf(t, o, e) = McpOf(st, o, e)
  BY <1>2, <1>7, <1>10 DEF WritersDo, McpOf
<1>12. ClaudeOf(t, o, e) = ClaudeOf(st, o, e)
  BY <1>2, <1>7, <1>8, <1>10 DEF WritersDo, ClaudeOf
<1>13. IgnoreOf(t, o, e) = IgnoreOf(st, o, e)
  BY <1>2, <1>7, <1>10 DEF WritersDo, IgnoreOf
<1>14. ToEnd(t, o, e) /\ ToIgnore(t, o, e) /\ ToClaude(t, o, e) /\ ToMcp(t, o, e)
  BY <1>6, <1>9, <1>11, <1>12, <1>13 DEF ToEnd, ToIgnore, ToClaude, ToMcp
<1>15. /\ q = [ok |-> q.ok, st |-> q.st] /\ q.ok = TRUE /\ ProjectOf(q.st)
       /\ q.st.config = t.config /\ q.st.mcp = t.mcp /\ q.st.claude = t.claude /\ q.st.gitignore = t.gitignore
       /\ q.st.index = t.index
  BY <1>5, <1>7, <1>8, <1>9, <1>11, <1>12, <1>13, <1>14 DEF Reached
<1>16. q.st = t
  BY <1>4, <1>15, SameProject
<1> QED BY <1>7, <1>15, <1>16 DEF q, r, t

\* What is left to be mended, and a run that meets nothing but what it needs.
Able(o, e, p, g) ==
  /\ Asked(p, g) /\ p.agent = "claude" /\ p.remote = o.remote
  /\ g.dir /\ g.opens /\ g.pulls /\ g.builds
  /\ g.global = e.global /\ g.workspace = e.workspace /\ g.git = e.git

\* A mended project, file by file.
McpMended(f) == IF f.state \in {"object", "absent"} THEN f ELSE [state |-> "object", servers |-> <<>>]
ClaudeMended(f) == IF WriteClaudeMd(f, "max").ok THEN f ELSE TextFile(<<"user1">>, TRUE)
IgnoreMended(f) == IF f.state = "unreadable" THEN TextFile(<<"target">>, FALSE) ELSE f
LEMMA MendedIs ==
  ASSUME NEW st, ProjectOf(st)
  PROVE  Mended(st) = [config |-> st.config, index |-> st.index, mcp |-> McpMended(st.mcp), claude |-> ClaudeMended(st.claude),
                       gitignore |-> IgnoreMended(st.gitignore)]
<1> DEFINE mcp == McpMended(st.mcp)
           cla == ClaudeMended(st.claude)
           ign == IgnoreMended(st.gitignore)
           u == [st EXCEPT !.mcp = mcp]
           v == [u EXCEPT !.claude = cla]
<1>1. Mended(st) = [v EXCEPT !.gitignore = ign]
  BY DEF Mended, McpMended, ClaudeMended, IgnoreMended
<1>2. u = [config |-> st.config, index |-> st.index, mcp |-> mcp, claude |-> st.claude, gitignore |-> st.gitignore]
  BY DEF ProjectOf
<1> HIDE DEF u, mcp, cla, ign
<1>3. v = [config |-> st.config, index |-> st.index, mcp |-> mcp, claude |-> cla, gitignore |-> st.gitignore]
  BY <1>2
<1> HIDE DEF v
<1> QED BY <1>1, <1>3 DEF mcp, cla, ign

\* A mended project: its files are good, and the ones that were good are as they were.
LEMMA MendedFiles ==
  ASSUME NEW L, {"user1", "target"} \subseteq L, NEW st, FilesOf(st, L), NEW e
  PROVE  LET m == Mended(st)
         IN /\ FilesOf(m, L) /\ m.config = st.config
            /\ McpGood(m) /\ (McpGood(st) => m.mcp = st.mcp)
            /\ WriteClaudeMd(m.claude, "max").ok /\ (WriteClaudeMd(st.claude, "max").ok => m.claude = st.claude)
            /\ IgnoreGood(m, e) /\ (st.gitignore.state # "unreadable" => m.gitignore = st.gitignore)
<1> DEFINE m == Mended(st)
           mcp == IF st.mcp.state \in {"object", "absent"} THEN st.mcp ELSE [state |-> "object", servers |-> <<>>]
           cla == IF WriteClaudeMd(st.claude, "max").ok THEN st.claude ELSE TextFile(<<"user1">>, TRUE)
           ign == IF st.gitignore.state = "unreadable" THEN TextFile(<<"target">>, FALSE) ELSE st.gitignore
<1>1. m = [config |-> st.config, index |-> st.index, mcp |-> mcp, claude |-> cla, gitignore |-> ign]
  BY MendedIs DEF FilesOf, McpMended, ClaudeMended, IgnoreMended
<1> HIDE DEF mcp, cla, ign
<1>2. m.config = st.config /\ m.index = st.index /\ m.mcp = mcp /\ m.claude = cla /\ m.gitignore = ign
  BY <1>1
<1> HIDE DEF m
<1>3. ProjectOf(m)
  BY <1>1, <1>2 DEF ProjectOf
<1>4. McpFile(mcp) /\ mcp.state \in {"object", "absent"} /\ (McpGood(st) => mcp = st.mcp)
  BY DEF mcp, McpFile, McpGood, FilesOf
<1>5. GuideFile(cla, L) /\ WriteClaudeMd(cla, "max").ok
  <2>1. CASE WriteClaudeMd(st.claude, "max").ok
    BY <2>1 DEF cla, FilesOf
  <2>2. CASE ~ WriteClaudeMd(st.claude, "max").ok
    <3> DEFINE l == <<"user1">>
               f == TextFile(l, TRUE)
    <3>1. l \in Seq(L) /\ DOMAIN l = 1..1 /\ l[1] = "user1" /\ \A i \in 1..1 : i = 1
      OBVIOUS
    <3>2. MarkerLineOffsets(l, "begin") = {} /\ MarkerLineOffsets(l, "end") = {}
      BY <3>1, MarkersOf
    <3> HIDE DEF l
    <3>3. GuideFile(f, L) /\ f.lines = l /\ f.state = "text"
      BY <3>1 DEF TextFile, GuideFile, FilesOf
    <3>4. cla = f
      BY <2>2 DEF cla, l
    <3> HIDE DEF f
    <3>5. WriteClaudeMd(f, "max") = ReplaceBlock(f, {}, {}, "max")
      BY <3>2, <3>3 DEF WriteClaudeMd
    <3>6. Cardinality({}) = 0 /\ ~ (0 = 1)
      BY FS_EmptySet
    <3>7. ReplaceBlock(f, {}, {}, "max").ok = TRUE
      BY <3>6 DEF ReplaceBlock
    <3> QED BY <3>3, <3>4, <3>5, <3>7
  <2> QED BY <2>1, <2>2
<1>6. WriteClaudeMd(st.claude, "max").ok => cla = st.claude
  BY DEF cla
<1>7. IgnoreFile(ign, L) /\ ign.state # "unreadable" /\ (st.gitignore.state # "unreadable" => ign = st.gitignore)
  <2>1. <<"target">> \in Seq(L)
    OBVIOUS
  <2> QED BY <2>1 DEF ign, TextFile, IgnoreFile, GuideFile, FilesOf
<1> QED BY <1>2, <1>3, <1>4, <1>5, <1>6, <1>7 DEF FilesOf, McpGood, IgnoreGood, m

\* A file that cannot be read is left.
LEMMA UnreadableStays ==
  ASSUME NEW git \in BOOLEAN, NEW f, f.state = "unreadable"
  PROVE  EnsureCceGitignored(git, f).file = f
<1>1. EnsureCceGitignored(git, f) = [ok |-> TRUE, file |-> f] \/ EnsureCceGitignored(git, f) = [ok |-> FALSE, file |-> f]
  BY DEF EnsureCceGitignored
<1> QED BY <1>1

\* Where a run that meets nothing but what it needs leads to, from a project a run has left behind.
MendedRun(b, st, o, e, p, g) ==
  /\ b = [ok |-> b.ok, st |-> b.st] /\ b.ok = TRUE /\ ProjectOf(b.st)
  /\ b.st.config = TargetOf(st.config, o, e) /\ b.st.index = IndexMade(st.config, p, g)
  /\ b.st.mcp = WriteMcpJson(Mended(st).mcp, e.workspace).file
  /\ b.st.claude = WriteClaudeMd(Mended(st).claude, LevelOf(st.config, o, e)).file
  /\ b.st.gitignore = EnsureCceGitignored(e.git, Mended(st).gitignore).file

\* It gets there from a project that a run has left, as from the one it began with.
LEMMA AbleReaches ==
  ASSUME NEW L, {"user1", "target"} \subseteq L, NEW st, FilesOf(st, L), NEW o, NEW e, NEW p, NEW g, Asked(o, e), Able(o, e, p, g),
         NEW x, FilesOf(x, L), x.config \in {st.config, TargetOf(st.config, o, e)}, x.mcp \in {st.mcp, McpOf(st, o, e).file},
         x.claude \in {st.claude, ClaudeOf(st, o, e).file}, x.gitignore \in {st.gitignore, IgnoreOf(st, o, e).file}
  PROVE  MendedRun(InitRun(Mended(x), p, g), st, o, e, p, g)
<1> DEFINE m == Mended(st)
           y == Mended(x)
           b == InitRun(y, p, g)
           lev == LevelOf(st.config, o, e)
<1>0. WritersDo(st, L, o, e)
  BY WritersWrite
<1>1. /\ FilesOf(m, L) /\ McpGood(m) /\ (McpGood(st) => m.mcp = st.mcp)
      /\ WriteClaudeMd(m.claude, "max").ok /\ (WriteClaudeMd(st.claude, "max").ok => m.claude = st.claude)
      /\ (st.gitignore.state # "unreadable" => m.gitignore = st.gitignore)
  BY MendedFiles
<1>2. /\ FilesOf(y, L) /\ McpGood(y) /\ y.config = x.config /\ (McpGood(x) => y.mcp = x.mcp)
      /\ WriteClaudeMd(y.claude, "max").ok /\ (WriteClaudeMd(x.claude, "max").ok => y.claude = x.claude)
      /\ IgnoreGood(y, g) /\ (x.gitignore.state # "unreadable" => y.gitignore = x.gitignore)
  BY MendedFiles
<1>3. (x.mcp = st.mcp => y.mcp = m.mcp) /\ (x.claude = st.claude => y.claude = m.claude) /\ (x.gitignore = st.gitignore => y.gitignore = m.gitignore)
  <2>1. \A s : ProjectOf(s) => /\ Mended(s).mcp = McpMended(s.mcp) /\ Mended(s).claude = ClaudeMended(s.claude)
                              /\ Mended(s).gitignore = IgnoreMended(s.gitignore)
    BY MendedIs
  <2>2. ProjectOf(st) /\ ProjectOf(x)
    BY DEF FilesOf
  <2> QED BY <2>1, <2>2
<1>4. Asked(p, g) /\ p.agent = "claude" /\ g.dir
  BY DEF Able
<1> HIDE DEF m, y
<1>5. WritersAnswer(y, p, g) /\ WritersDo(y, L, p, g) /\ ProjectOf(y)
  BY <1>2, <1>4, WritersWrite DEF FilesOf
<1>6. Reached(b, y, p, g)
  BY <1>4, <1>5, RunReaches
<1> HIDE DEF b
<1>7. \A c : TargetOf(c, p, g) = TargetOf(c, o, e) /\ Wants(c, p, g) = Wants(c, o, e)
  BY DEF TargetOf, Wants, Able
<1>8. /\ TargetOf(y.config, p, g) = TargetOf(st.config, o, e) /\ Wants(y.config, p, g) = Wants(st.config, p, g)
      /\ LevelOf(y.config, p, g) = lev
  BY <1>2, <1>7, TargetSame DEF LevelOf
<1>9. IndexMade(y.config, p, g) = IndexMade(st.config, p, g) /\ CanIndex(y.config, p, g)
  BY <1>8 DEF IndexMade, CanIndex, Able
<1>10. McpOf(y, p, g).ok /\ IgnoreOf(y, p, g).ok
  BY <1>2, <1>5 DEF WritersDo, Took
<1>11. ClaudeOf(y, p, g).ok
  BY <1>2, ClaudeAccepts DEF ClaudeOf
<1>12. ToEnd(y, p, g) /\ ToIgnore(y, p, g) /\ ToClaude(y, p, g) /\ ToMcp(y, p, g)
  BY <1>9, <1>10, <1>11 DEF ToEnd, ToIgnore, ToClaude, ToMcp
<1>13. /\ b = [ok |-> b.ok, st |-> b.st] /\ b.ok = TRUE /\ ProjectOf(b.st)
       /\ b.st.config = TargetOf(st.config, o, e) /\ b.st.index = IndexMade(st.config, p, g)
       /\ b.st.mcp = McpOf(y, p, g).file /\ b.st.claude = ClaudeOf(y, p, g).file /\ b.st.gitignore = IgnoreOf(y, p, g).file
  BY <1>6, <1>8, <1>9, <1>12 DEF Reached
<1>14. McpOf(y, p, g) = WriteMcpJson(m.mcp, e.workspace)
  <2>0. \A s : McpOf(s, p, g) = WriteMcpJson(s.mcp, e.workspace) /\ McpOf(s, o, e) = WriteMcpJson(s.mcp, e.workspace)
    BY DEF McpOf, Able
  <2>1. CASE x.mcp = st.mcp
    BY <1>3, <2>0, <2>1
  <2>2. CASE x.mcp # st.mcp
    <3>1. McpGood(st)
      BY <1>0, <2>2 DEF WritersDo, Refused
    <3>2. x.mcp = McpOf(st, o, e).file /\ McpGood(x) /\ WriteMcpJson(x.mcp, e.workspace) = McpOf(st, o, e)
      BY <1>0, <2>2, <3>1 DEF WritersDo, McpGood
    <3> QED BY <1>1, <1>2, <2>0, <3>1, <3>2
  <2> QED BY <2>1, <2>2
<1>15. ClaudeOf(y, p, g) = WriteClaudeMd(m.claude, lev)
  <2>0. ClaudeOf(y, p, g) = WriteClaudeMd(y.claude, lev) /\ ClaudeOf(st, o, e) = WriteClaudeMd(st.claude, lev)
    BY <1>8 DEF ClaudeOf
  <2>1. CASE x.claude = st.claude
    BY <1>3, <2>0, <2>1
  <2>2. CASE x.claude # st.claude
    <3>1. ClaudeOf(st, o, e).ok
      BY <1>0, <2>2 DEF WritersDo, Refused
    <3>2. x.claude = ClaudeOf(st, o, e).file /\ WriteClaudeMd(x.claude, lev) = ClaudeOf(st, o, e)
      BY <1>0, <2>2, <3>1 DEF WritersDo
    <3>3. WriteClaudeMd(x.claude, "max").ok /\ WriteClaudeMd(st.claude, "max").ok
      BY <2>0, <3>1, <3>2, ClaudeAccepts
    <3> QED BY <1>1, <1>2, <2>0, <3>2, <3>3
  <2> QED BY <2>1, <2>2
<1>16. IgnoreOf(y, p, g) = EnsureCceGitignored(e.git, m.gitignore)
  <2>0. \A s : IgnoreOf(s, p, g) = EnsureCceGitignored(e.git, s.gitignore) /\ IgnoreOf(s, o, e) = EnsureCceGitignored(e.git, s.gitignore)
    BY DEF IgnoreOf, Able
  <2>1. CASE x.gitignore = st.gitignore
    BY <1>3, <2>0, <2>1
  <2>2. CASE x.gitignore # st.gitignore
    <3>1. st.gitignore.state # "unreadable"
      BY <2>0, <2>2, UnreadableStays DEF Asked
    <3>2. IgnoreGood(st, e)
      BY <3>1 DEF IgnoreGood
    <3>3. /\ x.gitignore = IgnoreOf(st, o, e).file /\ x.gitignore.state # "unreadable"
          /\ EnsureCceGitignored(e.git, x.gitignore) = IgnoreOf(st, o, e)
      BY <1>0, <2>2, <3>1, <3>2 DEF WritersDo
    <3> QED BY <1>1, <1>2, <2>0, <3>1, <3>3
  <2> QED BY <2>1, <2>2
<1> QED BY <1>13, <1>14, <1>15, <1>16 DEF m, y, b, MendedRun

\* A run that stopped half way leads, once mended, where a run on good files leads.
LEMMA RunMended ==
  ASSUME NEW L, {"user1", "target"} \subseteq L, NEW st, FilesOf(st, L), NEW o, NEW e, NEW p, NEW g, Asked(o, e), Able(o, e, p, g)
  PROVE  LET again == InitRun(Mended(InitRun(st, o, e).st), p, g)
         IN again.ok /\ again = InitRun(Mended(st), p, g)
<1> DEFINE x == InitRun(st, o, e).st
           a == InitRun(Mended(x), p, g)
           b == InitRun(Mended(st), p, g)
<1>1. /\ FilesOf(x, L) /\ x.config \in {st.config, TargetOf(st.config, o, e)} /\ x.mcp \in {st.mcp, McpOf(st, o, e).file}
      /\ x.claude \in {st.claude, ClaudeOf(st, o, e).file} /\ x.gitignore \in {st.gitignore, IgnoreOf(st, o, e).file}
  BY FilesAfter
<1> HIDE DEF x
<1>2. MendedRun(a, st, o, e, p, g)
  BY <1>1, AbleReaches
<1>3. MendedRun(b, st, o, e, p, g)
  BY AbleReaches
<1> HIDE DEF a, b
<1>4. a.st = b.st
  BY <1>2, <1>3, SameProject DEF MendedRun
<1>5. a = b /\ a.ok
  BY <1>2, <1>3, <1>4 DEF MendedRun
<1> QED BY <1>5 DEF a, b, x

\* What a project holds when a user asks for a run, and what that run asks for and meets.
InitInputOK ==
  For("init") =>
    /\ \E L : {"user1", "target"} \subseteq L /\ FilesOf(input.st, L)
    /\ Asked(input.opts, input.env)
    /\ input.opts = [remote |-> input.opts.remote, agent |-> input.opts.agent]
    /\ input.env = [dir |-> input.env.dir, global |-> input.env.global, workspace |-> input.env.workspace, git |-> input.env.git,
                    opens |-> input.env.opens, pulls |-> input.env.pulls, builds |-> input.env.builds]

\* `cce init` keeps what is the user's: of any project.
LEMMA InitKeeps == InitInputOK => InitKeepsTheUsers
<1> SUFFICES ASSUME InitInputOK, For("init") PROVE InitKeepsTheUsers
  BY DEF InitKeepsTheUsers
<1> DEFINE st == input.st
           o == input.opts
           e == input.env
           r == InitRun(st, o, e)
<1>1. PICK L : {"user1", "target"} \subseteq L /\ FilesOf(st, L)
  BY DEF InitInputOK
<1>2. Asked(o, e)
  BY DEF InitInputOK
<1>3. KeptFrom(st, r.st, r.ok)
  BY <1>1, <1>2, RunKeeps
<1>4. r.st.config = st.config \/ r.st.config = TargetOf(st.config, o, e)
  BY <1>1, <1>2, FilesAfter
<1> HIDE DEF r
<1>5. ConfigKept(st.config, r.st.config, o, e.global)
  <2>1. CASE r.st.config = st.config
    BY <2>1 DEF ConfigKept
  <2>2. CASE r.st.config = TargetOf(st.config, o, e)
    BY <2>2, ConfigKeeps
  <2> QED BY <1>4, <2>1, <2>2
<1> QED BY <1>3, <1>5 DEF InitKeepsTheUsers, r

\* The run that meets nothing but what it needs is such a run.
LEMMA AbleOnes ==
  ASSUME NEW o, NEW e, Asked(o, e), o = [remote |-> o.remote, agent |-> o.agent],
         e = [dir |-> e.dir, global |-> e.global, workspace |-> e.workspace, git |-> e.git,
              opens |-> e.opens, pulls |-> e.pulls, builds |-> e.builds]
  PROVE  Able(o, e, [o EXCEPT !.agent = "claude"], [e EXCEPT !.dir = TRUE, !.opens = TRUE, !.pulls = TRUE, !.builds = TRUE])
<1> DEFINE yes == TRUE
           p == [o EXCEPT !.agent = "claude"]
           R(d, x, y, z) == [dir |-> d, global |-> e.global, workspace |-> e.workspace, git |-> e.git, opens |-> x, pulls |-> y, builds |-> z]
           g1 == [e EXCEPT !.dir = yes]
           g2 == [g1 EXCEPT !.opens = yes]
           g3 == [g2 EXCEPT !.pulls = yes]
           g == [g3 EXCEPT !.builds = yes]
<1>1. p.remote = o.remote /\ p.agent = "claude"
  OBVIOUS
<1>6. g = [e EXCEPT !.dir = TRUE, !.opens = TRUE, !.pulls = TRUE, !.builds = TRUE]
  OBVIOUS
<1>0. yes = TRUE
  OBVIOUS
<1> HIDE DEF yes, p
<1>2. g1 = R(yes, e.opens, e.pulls, e.builds)
  OBVIOUS
<1> HIDE DEF g1
<1>3. g2 = R(yes, yes, e.pulls, e.builds)
  BY <1>2
<1> HIDE DEF g2
<1>4. g3 = R(yes, yes, yes, e.builds)
  BY <1>3
<1> HIDE DEF g3
<1>5. g = R(yes, yes, yes, yes)
  BY <1>4
<1> HIDE DEF g
<1>7. /\ g.dir = yes /\ g.opens = yes /\ g.pulls = yes /\ g.builds = yes
      /\ g.global = e.global /\ g.workspace = e.workspace /\ g.git = e.git
  BY <1>5
<1>8. Able(o, e, p, g)
  BY <1>0, <1>1, <1>7 DEF Able, Asked
<1> QED BY <1>6, <1>8 DEF p

\* `cce init` may be repeated, and finishes once its files are mended: of any project.
LEMMA InitFinishes == InitInputOK => InitFinishesWhenMended
<1> SUFFICES ASSUME InitInputOK, For("init") PROVE InitFinishesWhenMended
  BY DEF InitFinishesWhenMended
<1> DEFINE st == input.st
           o == input.opts
           e == input.env
           p == [input.opts EXCEPT !.agent = "claude"]
           g == [input.env EXCEPT !.dir = TRUE, !.opens = TRUE, !.pulls = TRUE, !.builds = TRUE]
           r == InitRun(st, o, e)
<1>1. PICK L : {"user1", "target"} \subseteq L /\ FilesOf(input.st, L)
  BY DEF InitInputOK
<1>2. Asked(o, e)
  BY DEF InitInputOK
<1>3. Able(o, e, p, g)
  BY <1>2, AbleOnes DEF InitInputOK
<1>4. \A x : AbleRun(x) = InitRun(Mended(x), p, g)
  BY DEF AbleRun
<1> HIDE DEF p, g
<1>5. r.ok => InitRun(r.st, o, e) = r
  BY <1>1, <1>2, RunAgain
<1>6. InitRun(Mended(InitRun(st, o, e).st), p, g).ok /\ InitRun(Mended(InitRun(st, o, e).st), p, g) = InitRun(Mended(st), p, g)
  BY <1>1, <1>2, <1>3, RunMended
<1>7. AbleRun(r.st).ok /\ AbleRun(r.st) = AbleRun(input.st)
  BY <1>4, <1>6
<1> HIDE DEF r
<1> QED BY <1>5, <1>7 DEF InitFinishesWhenMended, r

\* What set-up settles, keeps and costs, of any input.
THEOREM SettingsAreKept == InitInputOK => SettingsKept
  BY SyncSettles, SyncDrops, InitKeeps, InitFinishes DEF SettingsKept

(***************************************************************************)
(* The artifacts: their bytes, their shape and what reads them.            *)
(***************************************************************************)

\* Bytes on the wire: lines, the first of which is there, and whether the last one ends.
OnWire(b) == /\ b = [lines |-> b.lines, nl |-> b.nl]
             /\ b.lines = [i \in DOMAIN b.lines |-> b.lines[i]] /\ 1 \in DOMAIN b.lines
FirstBlanked(x) == [x EXCEPT !.manifest = [x.manifest EXCEPT !.checksum = <<>>]]

\* What blanking leaves: the bytes, their first line without its checksum.
LEMMA BlankedIs ==
  ASSUME NEW b, OnWire(b)
  PROVE  /\ Blanked(b) = [lines |-> Blanked(b).lines, nl |-> b.nl]
         /\ Blanked(b).lines = [i \in DOMAIN b.lines |-> IF i = 1 THEN FirstBlanked(b.lines[1]) ELSE b.lines[i]]
<1> DEFINE m == [b.lines EXCEPT ![1] = FirstBlanked(b.lines[1])]
<1>1. Blanked(b) = [b EXCEPT !.lines = m]
  BY DEF Blanked, FirstBlanked
<1>2. m = [i \in DOMAIN b.lines |-> IF i = 1 THEN FirstBlanked(b.lines[1]) ELSE b.lines[i]]
  BY DEF OnWire
<1> HIDE DEF m
<1>3. Blanked(b) = [lines |-> m, nl |-> b.nl]
  BY <1>1 DEF OnWire
<1>4. Blanked(b).lines = m
  BY <1>3
<1> QED BY <1>2, <1>3, <1>4

\* Two with the same first line that are the same but for their checksums are the same.
LEMMA Unblanked ==
  ASSUME NEW b, NEW l, OnWire(b), OnWire(l), b.lines[1] = l.lines[1], Blanked(b) = Blanked(l)
  PROVE  b = l
<1>0. ASSUME NEW x, OnWire(x) PROVE Blanked(x).nl = x.nl
  <2> DEFINE y == Blanked(x)
  <2>1. y = [lines |-> y.lines, nl |-> x.nl]
    BY <1>0, BlankedIs
  <2> HIDE DEF y
  <2> QED BY <2>1 DEF y
<1>1. b.nl = l.nl
  BY <1>0
<1>2. DOMAIN b.lines = DOMAIN l.lines
  <2>1. DOMAIN Blanked(b).lines = DOMAIN b.lines /\ DOMAIN Blanked(l).lines = DOMAIN l.lines
    BY BlankedIs
  <2> QED BY <2>1
<1>3. \A i \in DOMAIN b.lines : b.lines[i] = l.lines[i]
  <2> TAKE i \in DOMAIN b.lines
  <2>1. CASE i = 1
    BY <2>1
  <2>2. CASE i # 1
    <3>1. Blanked(b).lines[i] = b.lines[i]
      BY <2>2, BlankedIs
    <3>2. Blanked(l).lines[i] = l.lines[i]
      BY <1>2, <2>2, BlankedIs
    <3> QED BY <3>1, <3>2
  <2> QED BY <2>1, <2>2
<1>4. b.lines = l.lines
  BY <1>2, <1>3 DEF OnWire
<1> QED BY <1>1, <1>4 DEF OnWire

\* A manifest line, and what its blanking leaves.
LEMMA BlankedManifest ==
  ASSUME NEW m, NEW x, x = ManifestLine(m)
  PROVE  /\ x.t = "manifest" /\ x.sp = FALSE /\ x.manifest = m
         /\ FirstBlanked(x) = ManifestLine([m EXCEPT !.checksum = <<>>])
<1> DEFINE no == FALSE
           w == [m EXCEPT !.checksum = <<>>]
<1>0. no = FALSE
  OBVIOUS
<1>1. \A y : ManifestLine(y) = [t |-> "manifest", sp |-> no, manifest |-> y]
  BY DEF ManifestLine
<1> HIDE DEF no
<1>2. x.t = "manifest" /\ x.sp = no /\ x.manifest = m
  BY <1>1
<1>3. FirstBlanked(x) = [x EXCEPT !.manifest = w]
  BY <1>2 DEF FirstBlanked
<1> HIDE DEF w
<1>4. FirstBlanked(x) = [t |-> "manifest", sp |-> no, manifest |-> w]
  BY <1>1, <1>3
<1> QED BY <1>0, <1>1, <1>2, <1>4 DEF w

\* The lines of an artifact.
Headed(m, h, cs, n) == m = [i \in 1..(n + 1) |-> m[i]] /\ Len(m) = n + 1 /\ m[1] = h /\ \A i \in 1..n : m[i + 1] = cs[i]
Framed(m, h, cs, z, n) ==
  m = [i \in 1..(n + 2) |-> m[i]] /\ Len(m) = n + 2 /\ m[1] = h /\ (\A i \in 1..n : m[i + 1] = cs[i]) /\ m[n + 2] = z

\* Three pieces put together, line by line.
LEMMA LinesOf ==
  ASSUME NEW n \in Nat, NEW h, NEW cs, cs = [i \in 1..n |-> cs[i]], NEW z
  PROVE  Headed(<<h>> \o cs, h, cs, n) /\ Framed(<<h>> \o cs \o <<z>>, h, cs, z, n)
<1> DEFINE L == {cs[i] : i \in 1..n} \cup {h, z}
<1>1. cs \in Seq(L) /\ Len(cs) = n
  <2>1. cs \in [1..n -> L]
    <3> HIDE DEF L
    <3>1. \A i \in 1..n : cs[i] \in L
      BY DEF L
    <3> QED BY <3>1
  <2> HIDE DEF L
  <2> QED BY <2>1
<1>2. <<h>> \in Seq(L) /\ <<z>> \in Seq(L)
  OBVIOUS
<1> HIDE DEF L
<1> DEFINE m1 == <<h>> \o cs
           m2 == m1 \o <<z>>
<1>3. m1 \in Seq(L) /\ IsJoined(m1, <<h>>, cs)
  BY <1>1, <1>2, Joined
<1> HIDE DEF m1
<1>4. m2 \in Seq(L) /\ IsJoined(m2, m1, <<z>>)
  BY <1>2, <1>3, Joined
<1> HIDE DEF m2
<1>5. Len(m1) = n + 1 /\ m1[1] = h /\ \A i \in 1..n : m1[i + 1] = cs[i]
  BY <1>1, <1>3 DEF IsJoined
<1>6. Len(m2) = n + 2 /\ m2[n + 2] = z /\ \A i \in 1..(n + 1) : m2[i] = m1[i]
  BY <1>4, <1>5 DEF IsJoined
<1>7. m2[1] = h /\ \A i \in 1..n : m2[i + 1] = cs[i]
  BY <1>5, <1>6
<1>8. m1 = [i \in 1..(n + 1) |-> m1[i]] /\ m2 = [i \in 1..(n + 2) |-> m2[i]]
  BY <1>3, <1>4, <1>5, <1>6
<1> QED BY <1>5, <1>6, <1>7, <1>8 DEF m1, m2, Headed, Framed

\* The shape of the lines: their kinds, one by one.
LEMMA ShapeHead ==
  ASSUME NEW n \in Nat, NEW ls
  PROVE  /\ Shape(ls, <<"manifest">> \o [i \in 1..n |-> "chunk"])
              <=> Len(ls) = n + 1 /\ ls[1].t = "manifest" /\ \A i \in 1..n : ls[i + 1].t = "chunk"
         /\ Shape(ls, <<"manifest">> \o [i \in 1..n |-> "chunk"] \o <<"graph">>)
              <=> Len(ls) = n + 2 /\ ls[1].t = "manifest" /\ (\A i \in 1..n : ls[i + 1].t = "chunk") /\ ls[n + 2].t = "graph"
<1> DEFINE cs == [i \in 1..n |-> "chunk"]
           k1 == <<"manifest">> \o cs
           k2 == k1 \o <<"graph">>
<1>1. cs = [i \in 1..n |-> cs[i]] /\ \A i \in 1..n : cs[i] = "chunk"
  OBVIOUS
<1> HIDE DEF cs
<1>2. Headed(k1, "manifest", cs, n) /\ Framed(k2, "manifest", cs, "graph", n)
  BY <1>1, LinesOf
<1> HIDE DEF k1, k2
<1>3. Shape(ls, k1) <=> Len(ls) = n + 1 /\ ls[1].t = "manifest" /\ \A i \in 1..n : ls[i + 1].t = "chunk"
  <2>1. DOMAIN k1 = 1..(n + 1)
    BY <1>2 DEF Headed, Framed
  <2>2. \A i \in 1..(n + 1) : i = 1 \/ (i - 1 \in 1..n /\ (i - 1) + 1 = i)
    OBVIOUS
  <2>3. (\A i \in 1..(n + 1) : ls[i].t = k1[i]) <=> ls[1].t = "manifest" /\ \A i \in 1..n : ls[i + 1].t = "chunk"
    <3>1. \A i \in 1..n : i + 1 \in 1..(n + 1)
      OBVIOUS
    <3>2. 1 \in 1..(n + 1)
      OBVIOUS
    <3>3. ASSUME \A i \in 1..(n + 1) : ls[i].t = k1[i] PROVE ls[1].t = "manifest" /\ \A i \in 1..n : ls[i + 1].t = "chunk"
      BY <1>1, <1>2, <3>1, <3>2, <3>3 DEF Headed
    <3>4. ASSUME ls[1].t = "manifest" /\ \A i \in 1..n : ls[i + 1].t = "chunk" PROVE \A i \in 1..(n + 1) : ls[i].t = k1[i]
      <4> TAKE i \in 1..(n + 1)
      <4>1. CASE i = 1
        BY <1>2, <3>4, <4>1 DEF Headed
      <4>2. CASE i - 1 \in 1..n /\ (i - 1) + 1 = i
        <5>1. ls[i].t = "chunk" /\ k1[i] = cs[i - 1] /\ cs[i - 1] = "chunk"
          BY <1>1, <1>2, <3>4, <4>2 DEF Headed
        <5> QED BY <5>1
      <4> QED BY <2>2, <4>1, <4>2
    <3> QED BY <3>3, <3>4
  <2> QED BY <1>2, <2>1, <2>3 DEF Shape, Headed
<1>4. Shape(ls, k2) <=> Len(ls) = n + 2 /\ ls[1].t = "manifest" /\ (\A i \in 1..n : ls[i + 1].t = "chunk") /\ ls[n + 2].t = "graph"
  <2>1. DOMAIN k2 = 1..(n + 2)
    BY <1>2 DEF Headed, Framed
  <2>2. \A i \in 1..(n + 2) : i = 1 \/ i = n + 2 \/ (i - 1 \in 1..n /\ (i - 1) + 1 = i)
    OBVIOUS
  <2>3. (\A i \in 1..(n + 2) : ls[i].t = k2[i]) <=> ls[1].t = "manifest" /\ (\A i \in 1..n : ls[i + 1].t = "chunk") /\ ls[n + 2].t = "graph"
    <3>1. \A i \in 1..n : i + 1 \in 1..(n + 2)
      OBVIOUS
    <3>2. 1 \in 1..(n + 2) /\ n + 2 \in 1..(n + 2)
      OBVIOUS
    <3>3. ASSUME \A i \in 1..(n + 2) : ls[i].t = k2[i]
          PROVE  ls[1].t = "manifest" /\ (\A i \in 1..n : ls[i + 1].t = "chunk") /\ ls[n + 2].t = "graph"
      BY <1>1, <1>2, <3>1, <3>2, <3>3 DEF Framed
    <3>4. ASSUME ls[1].t = "manifest" /\ (\A i \in 1..n : ls[i + 1].t = "chunk") /\ ls[n + 2].t = "graph"
          PROVE  \A i \in 1..(n + 2) : ls[i].t = k2[i]
      BY <1>1, <1>2, <2>2, <3>4 DEF Framed
    <3> QED BY <3>3, <3>4
  <2> QED BY <1>2, <2>1, <2>3 DEF Shape, Framed
<1> QED BY <1>3, <1>4 DEF k1, k2, cs

\* Any first line of bytes on the wire that is read: which it must be.
LEMMA Recognised ==
  ASSUME NEW b, FromBytes(b).ok
  PROVE  /\ b.lines[1].t = "manifest" /\ ~ Len(b.lines) < 2
         /\ ChecksumOverReceived(b, b) = b.lines[1].manifest.checksum
<1> DEFINE lines == b.lines
           n == lines[1].manifest.count
           a == [manifest |-> lines[1].manifest, chunks |-> [i \in 1..n |-> lines[i + 1].chunk], imports |-> ImportsFromGraph(lines[n + 2])]
           shape == Shape(lines, <<"manifest">> \o [i \in 1..n |-> "chunk"] \o <<"graph">>)
<1>1. FromBytes(b) = IF Len(lines) < 2 \/ lines[1].t # "manifest" THEN Err
                     ELSE IF ~ shape THEN Err
                     ELSE IF ChecksumOverReceived(b, a) # a.manifest.checksum THEN Err
                     ELSE [ok |-> TRUE, of |-> a]
  BY DEF FromBytes
<1>2. Err.ok = FALSE
  BY DEF Err
<1>3. a.manifest = lines[1].manifest
  OBVIOUS
<1>4. ChecksumOverReceived(b, a) = ChecksumOverReceived(b, b)
  BY DEF ChecksumOverReceived
<1> HIDE DEF a, shape
<1>5. ~ Len(lines) < 2 /\ lines[1].t = "manifest" /\ ChecksumOverReceived(b, a) = a.manifest.checksum
  BY <1>1, <1>2
<1> QED BY <1>3, <1>4, <1>5

\* Bytes that are read as a knowledge artifact: what their first line must be.
LEMMA KRecognised ==
  ASSUME NEW b, KFromBytes(b).ok
  PROVE  LET n == b.lines[1].manifest.count
             a == [manifest |-> b.lines[1].manifest, chunks |-> [i \in 1..n |-> b.lines[i + 1].chunk]]
         IN /\ b.lines[1].t = "manifest" /\ KComputedChecksum(a) = b.lines[1].manifest.checksum /\ KFromBytes(b).of = a
            /\ ~ Len(b.lines) < 1
<1> DEFINE lines == b.lines
           n == lines[1].manifest.count
           a == [manifest |-> lines[1].manifest, chunks |-> [i \in 1..n |-> lines[i + 1].chunk]]
           shape == Shape(lines, <<"manifest">> \o [i \in 1..n |-> "chunk"])
<1>1. KFromBytes(b) = IF Len(lines) < 1 \/ lines[1].t # "manifest" THEN Err
                      ELSE IF ~ shape THEN Err
                      ELSE IF KComputedChecksum(a) # a.manifest.checksum THEN Err
                      ELSE [ok |-> TRUE, of |-> a]
  BY DEF KFromBytes
<1>2. Err.ok = FALSE
  BY DEF Err
<1>3. a.manifest = lines[1].manifest
  OBVIOUS
<1> HIDE DEF a, shape
<1>5. ~ Len(lines) < 1 /\ lines[1].t = "manifest" /\ KComputedChecksum(a) = a.manifest.checksum /\ KFromBytes(b) = [ok |-> TRUE, of |-> a]
  BY <1>1, <1>2
<1>6. KFromBytes(b).of = a
  BY <1>5
<1> QED BY <1>3, <1>5, <1>6 DEF a

\* What a damage does to the first line.
HeadKept(b, l) == OnWire(b) /\ b.lines[1] = l.lines[1]
Headless(b) == b.lines[1].t # "manifest" \/ b.lines = <<>>
Respaced(b, l) == b.lines[1].sp = TRUE /\ b.lines[1].manifest = l.lines[1].manifest
Recounted(b, l) == OnWire(b) /\ \E c \in Nat : /\ c # l.lines[1].manifest.count
                                              /\ b.lines[1] = ManifestLine([l.lines[1].manifest EXCEPT !.count = c])
Unsigned(b) == OnWire(b) /\ b.lines[1].sp = FALSE /\ b.lines[1].manifest.checksum = <<>>

\* Bytes with other lines.
LEMMA WithLines ==
  ASSUME NEW l, OnWire(l), NEW m
  PROVE  LET b == [l EXCEPT !.lines = m] IN b = [lines |-> m, nl |-> l.nl] /\ b.lines = m /\ b.nl = l.nl
<1> DEFINE b == [l EXCEPT !.lines = m]
<1>1. b = [lines |-> m, nl |-> l.nl]
  BY DEF OnWire
<1> HIDE DEF b
<1>2. b.lines = m /\ b.nl = l.nl
  BY <1>1
<1> QED BY <1>1, <1>2 DEF b

\* A sequence of n elements, the first of them x.
Starting(m, n, x) == m = [i \in 1..n |-> m[i]] /\ (n > 0 => m[1] = x)

\* A function on 1..n is a sequence.
LEMMA InSeq ==
  ASSUME NEW n \in Nat, NEW ls, ls = [i \in 1..n |-> ls[i]], NEW L, L = {ls[i] : i \in 1..n}
  PROVE  ls \in Seq(L) /\ Len(ls) = n
<1>1. ls \in [1..n -> L]
  <2>1. \A i \in 1..n : ls[i] \in L
    OBVIOUS
  <2> QED BY <2>1
<1> QED BY <1>1

\* Lines cut short begin with the same line.
LEMMA CutShort ==
  ASSUME NEW n \in Nat, NEW ls, ls = [i \in 1..n |-> ls[i]], NEW k \in 1..n
  PROVE  Starting(SubSeq(ls, 1, k), k, ls[1])
<1> DEFINE m == SubSeq(ls, 1, k)
<1>0. PICK L : L = {ls[i] : i \in 1..n}
  OBVIOUS
<1>1. ls \in Seq(L) /\ Len(ls) = n
  BY <1>0, InSeq
<1>2. m \in Seq(L) /\ Len(m) = k /\ \A i \in 1..k : m[i] = ls[i]
  BY <1>1
<1> HIDE DEF m
<1>3. m = [i \in 1..k |-> m[i]]
  BY <1>2
<1>4. 1 \in 1..k
  OBVIOUS
<1>5. m[1] = ls[1]
  BY <1>2, <1>4
<1> QED BY <1>3, <1>5 DEF Starting, m

\* With one line lost, they begin with the same line, or with the second.
LEMMA CutOut ==
  ASSUME NEW n \in Nat, NEW ls, ls = [i \in 1..n |-> ls[i]], NEW k \in 1..n
  PROVE  Starting(RemoveAt(ls, k), n - 1, IF k = 1 THEN ls[2] ELSE ls[1])
<1> DEFINE a == SubSeq(ls, 1, k - 1)
           z == SubSeq(ls, k + 1, n)
           m == a \o z
<1>0. PICK L : L = {ls[i] : i \in 1..n}
  OBVIOUS
<1>1. ls \in Seq(L) /\ Len(ls) = n
  BY <1>0, InSeq
<1>2. a \in Seq(L) /\ Len(a) = k - 1 /\ \A i \in 1..(k - 1) : a[i] = ls[i]
  BY <1>1
<1>3. z \in Seq(L) /\ Len(z) = n - k /\ \A i \in 1..(n - k) : z[i] = ls[k + i]
  BY <1>1
<1>4. m = RemoveAt(ls, k)
  BY <1>1 DEF RemoveAt
<1> HIDE DEF a, z
<1>5. m \in Seq(L) /\ IsJoined(m, a, z)
  BY <1>2, <1>3, Joined
<1> HIDE DEF m
<1>6. m = [i \in 1..(n - 1) |-> m[i]]
  <2>1. Len(m) = n - 1
    BY <1>2, <1>3, <1>5 DEF IsJoined
  <2> QED BY <1>5, <2>1
<1>7. ASSUME n > 1, k = 1 PROVE m[1] = ls[2]
  <2>0. Len(a) = 0 /\ 1 \in 1..(n - k) /\ k + 1 = 2 /\ Len(z) = n - k
    BY <1>2, <1>3, <1>7
  <2>1. m[0 + 1] = z[1]
    BY <1>5, <2>0 DEF IsJoined
  <2>2. z[1] = ls[k + 1]
    BY <1>3, <2>0
  <2> QED BY <2>0, <2>1, <2>2
<1>8. ASSUME k # 1 PROVE m[1] = ls[1]
  <2>1. 1 \in 1..(k - 1) /\ Len(a) = k - 1
    BY <1>2, <1>8
  <2>2. m[1] = a[1]
    BY <1>5, <2>1 DEF IsJoined
  <2> QED BY <1>2, <2>1, <2>2
<1>9. n - 1 > 0 => n > 1
  OBVIOUS
<1>10. Starting(m, n - 1, IF k = 1 THEN ls[2] ELSE ls[1])
  BY <1>6, <1>7, <1>8, <1>9 DEF Starting
<1> QED BY <1>4, <1>10

\* With one line doubled, they begin with the same line.
LEMMA CutTwice ==
  ASSUME NEW n \in Nat, NEW ls, ls = [i \in 1..n |-> ls[i]], NEW k \in 1..n
  PROVE  Starting(SubSeq(ls, 1, k) \o SubSeq(ls, k, n), n + 1, ls[1])
<1> DEFINE a == SubSeq(ls, 1, k)
           z == SubSeq(ls, k, n)
           m == a \o z
<1>0. PICK L : L = {ls[i] : i \in 1..n}
  OBVIOUS
<1>1. ls \in Seq(L) /\ Len(ls) = n
  BY <1>0, InSeq
<1>2. a \in Seq(L) /\ Len(a) = k /\ \A i \in 1..k : a[i] = ls[i]
  BY <1>1
<1>3. z \in Seq(L) /\ Len(z) = n - k + 1
  BY <1>1
<1> HIDE DEF a, z
<1>5. m \in Seq(L) /\ IsJoined(m, a, z)
  BY <1>2, <1>3, Joined
<1> HIDE DEF m
<1>6. m = [i \in 1..(n + 1) |-> m[i]]
  <2>1. Len(m) = n + 1
    BY <1>2, <1>3, <1>5 DEF IsJoined
  <2> QED BY <1>5, <2>1
<1>7. m[1] = ls[1]
  <2>1. 1 \in 1..k /\ Len(a) = k
    BY <1>2
  <2>2. m[1] = a[1]
    BY <1>5, <2>1 DEF IsJoined
  <2> QED BY <1>2, <2>1, <2>2
<1> QED BY <1>6, <1>7 DEF Starting, m, a, z

(***************************************************************************)
(* The artifacts: what any damage does to the manifest line.               *)
(***************************************************************************)

\* One line put in the place of another.
PutLine(l, k, x) == [l EXCEPT !.lines = [l.lines EXCEPT ![k] = x]]

\* That line aside, they are the same.
LEMMA PutLineIs ==
  ASSUME NEW l, OnWire(l), NEW k \in DOMAIN l.lines, NEW x
  PROVE  OnWire(PutLine(l, k, x)) /\ (k # 1 => HeadKept(PutLine(l, k, x), l)) /\ (k = 1 => PutLine(l, k, x).lines[1] = x)
<1> DEFINE m == [l.lines EXCEPT ![k] = x]
           b == [l EXCEPT !.lines = m]
<1>1. m = [i \in DOMAIN l.lines |-> m[i]] /\ DOMAIN m = DOMAIN l.lines /\ m[k] = x /\ \A i \in DOMAIN l.lines : i # k => m[i] = l.lines[i]
  BY DEF OnWire
<1>2. 1 \in DOMAIN l.lines
  BY DEF OnWire
<1> HIDE DEF m
<1>3. b = [lines |-> m, nl |-> l.nl] /\ b.lines = m /\ b.nl = l.nl
  BY WithLines
<1>4. b = PutLine(l, k, x)
  BY DEF PutLine, m
<1> HIDE DEF b
<1>5. OnWire(b)
  BY <1>1, <1>2, <1>3 DEF OnWire
<1>6. ASSUME k # 1 PROVE HeadKept(b, l)
  BY <1>1, <1>2, <1>3, <1>5, <1>6 DEF HeadKept
<1>7. ASSUME k = 1 PROVE b.lines[1] = x
  BY <1>1, <1>3, <1>7
<1> QED BY <1>4, <1>5, <1>6, <1>7

\* The damages, one kind each.
Manifested(l, m, n) ==
  /\ OnWire(l) /\ n \in Nat /\ n > 0 /\ Len(l.lines) = n /\ DOMAIN l.lines = 1..n /\ l.lines[1] = ManifestLine(m)
  /\ (n > 1 => l.lines[2].t # "manifest") /\ m = [x \in DOMAIN m |-> m[x]] /\ "count" \in DOMAIN m /\ "checksum" \in DOMAIN m
Hurt(b, l) == HeadKept(b, l) \/ Headless(b) \/ Respaced(b, l) \/ Recounted(b, l) \/ Unsigned(b)

\* Lines lost or doubled.
LEMMA HurtPieces ==
  ASSUME NEW l, NEW m, NEW n, Manifested(l, m, n)
  PROVE  /\ \A k \in 1..(n - 1) : Hurt([l EXCEPT !.lines = SubSeq(l.lines, 1, k)], l)
         /\ \A k \in 1..n : Hurt([l EXCEPT !.lines = RemoveAt(l.lines, k)], l)
         /\ \A k \in 1..n : Hurt([l EXCEPT !.lines = SubSeq(l.lines, 1, k) \o SubSeq(l.lines, k, n)], l)
<1> DEFINE ls == l.lines
<1>0. ls = [i \in 1..n |-> ls[i]] /\ n \in Nat /\ n = Len(ls) /\ OnWire(l) /\ DOMAIN ls = 1..n
  BY DEF Manifested, OnWire
<1>01. n \in Nat /\ n > 0
  BY DEF Manifested
<1>1. ASSUME NEW p, NEW j \in Nat, Starting(p, j, ls[1]), j > 0 PROVE Hurt([l EXCEPT !.lines = p], l)
  <2>1. p = [i \in DOMAIN p |-> p[i]] /\ 1 \in DOMAIN p /\ p[1] = ls[1]
    BY <1>1 DEF Starting
  <2> DEFINE b == [l EXCEPT !.lines = p]
  <2>2. b = [lines |-> p, nl |-> l.nl] /\ b.lines = p /\ b.nl = l.nl
    BY <1>0, WithLines
  <2> HIDE DEF b
  <2>3. HeadKept(b, l)
    BY <2>1, <2>2 DEF HeadKept, OnWire
  <2> QED BY <2>3 DEF Hurt, b
<1>2. ASSUME NEW k \in 1..(n - 1) PROVE Hurt([l EXCEPT !.lines = SubSeq(ls, 1, k)], l)
  <2>1. k \in 1..n /\ k \in Nat /\ k > 0
    BY <1>01
  <2>2. Starting(SubSeq(ls, 1, k), k, ls[1])
    BY <1>0, <2>1, CutShort
  <2> HIDE DEF ls
  <2> QED BY <1>1, <2>1, <2>2
<1>3. ASSUME NEW k \in 1..n PROVE Hurt([l EXCEPT !.lines = RemoveAt(ls, k)], l)
  <2> DEFINE p == RemoveAt(ls, k)
             b == [l EXCEPT !.lines = p]
  <2>1. Starting(p, n - 1, IF k = 1 THEN ls[2] ELSE ls[1])
    BY <1>0, CutOut
  <2>2. n - 1 \in Nat
    BY <1>01
  <2> HIDE DEF p, ls
  <2>3. b = [lines |-> p, nl |-> l.nl] /\ b.lines = p /\ b.nl = l.nl
    BY <1>0, WithLines
  <2>4. CASE n = 1
    <3>1. p = <<>>
      BY <2>1, <2>4 DEF Starting
    <3> HIDE DEF b
    <3>2. Hurt(b, l)
      BY <2>3, <3>1 DEF Headless, Hurt
    <3> QED BY <3>2 DEF b, p
  <2>5. CASE k # 1 /\ n > 1
    <3>1. Starting(p, n - 1, ls[1]) /\ n - 1 > 0
      BY <1>01, <2>1, <2>5
    <3>2. Hurt([l EXCEPT !.lines = p], l)
      BY <1>1, <2>2, <3>1
    <3> QED BY <3>2 DEF p
  <2>6. CASE k = 1 /\ n > 1
    <3>1. p[1] = ls[2]
      BY <1>01, <2>1, <2>6 DEF Starting
    <3>2. ls[2].t # "manifest"
      BY <2>6 DEF Manifested, ls
    <3> HIDE DEF b
    <3>3. Hurt(b, l)
      BY <2>3, <3>1, <3>2 DEF Headless, Hurt
    <3> QED BY <3>3 DEF b, p
  <2>7. n = 1 \/ (k # 1 /\ n > 1) \/ (k = 1 /\ n > 1)
    BY <1>01
  <2> QED BY <2>4, <2>5, <2>6, <2>7 DEF p
<1>4. ASSUME NEW k \in 1..n PROVE Hurt([l EXCEPT !.lines = SubSeq(ls, 1, k) \o SubSeq(ls, k, n)], l)
  <2>1. Starting(SubSeq(ls, 1, k) \o SubSeq(ls, k, n), n + 1, ls[1])
    BY <1>0, CutTwice
  <2>2. n + 1 \in Nat /\ n + 1 > 0
    BY <1>01
  <2> HIDE DEF ls
  <2> QED BY <1>1, <2>1, <2>2
<1> QED BY <1>2, <1>3, <1>4

\* The end of the last line lost, or two lines swapped.
LEMMA HurtEnds ==
  ASSUME NEW l, NEW m, NEW n, Manifested(l, m, n)
  PROVE  /\ Hurt([l EXCEPT !.nl = FALSE], l)
         /\ \A k \in 1..(n - 1) : Hurt([l EXCEPT !.lines[k] = l.lines[k + 1], !.lines[k + 1] = l.lines[k]], l)
<1> DEFINE ls == l.lines
<1>0. OnWire(l) /\ DOMAIN ls = 1..n
  BY DEF Manifested
<1>01. n \in Nat /\ n > 0
  BY DEF Manifested
<1>1. Hurt([l EXCEPT !.nl = FALSE], l)
  <2> DEFINE no == FALSE
             b == [l EXCEPT !.nl = no]
  <2> HIDE DEF no
  <2>1. b = [lines |-> l.lines, nl |-> no]
    BY <1>0 DEF OnWire
  <2> HIDE DEF b
  <2>2. b.lines = l.lines /\ b.nl = no
    BY <2>1
  <2>3. OnWire(b)
    BY <1>0, <2>1, <2>2 DEF OnWire
  <2>4. Hurt(b, l)
    BY <2>2, <2>3 DEF Hurt, HeadKept
  <2> QED BY <2>4 DEF b, no
<1>2. ASSUME NEW k \in 1..(n - 1)
      PROVE  Hurt([l EXCEPT !.lines[k] = l.lines[k + 1], !.lines[k + 1] = l.lines[k]], l)
  <2> DEFINE b1 == PutLine(l, k, ls[k + 1])
             b2 == PutLine(b1, k + 1, ls[k])
  <2>1. k \in 1..n /\ k + 1 \in 1..n /\ k + 1 # 1
    BY <1>01
  <2>2. OnWire(b1) /\ (k # 1 => HeadKept(b1, l)) /\ (k = 1 => b1.lines[1] = ls[k + 1]) /\ DOMAIN b1.lines = 1..n
    <3>1. OnWire(b1) /\ (k # 1 => HeadKept(b1, l)) /\ (k = 1 => b1.lines[1] = ls[k + 1])
      <4>1. k \in DOMAIN l.lines
        BY <1>0, <2>1
      <4> QED BY <1>0, <4>1, PutLineIs
    <3>2. b1.lines = [ls EXCEPT ![k] = ls[k + 1]]
      <4> DEFINE w == [ls EXCEPT ![k] = ls[k + 1]]
      <4> HIDE DEF w
      <4>1. [l EXCEPT !.lines = w].lines = w
        BY <1>0, WithLines
      <4> QED BY <4>1 DEF w, PutLine
    <3> HIDE DEF b1, ls
    <3> QED BY <1>0, <3>1, <3>2
  <2>4. b2 = [l EXCEPT !.lines[k] = l.lines[k + 1], !.lines[k + 1] = l.lines[k]]
    BY DEF PutLine
  <2> HIDE DEF b1
  <2>3. OnWire(b2) /\ HeadKept(b2, b1)
    BY <2>1, <2>2, PutLineIs
  <2> HIDE DEF b2
  <2>5. ASSUME k # 1 PROVE Hurt(b2, l)
    BY <2>2, <2>3, <2>5 DEF Hurt, HeadKept
  <2>6. ASSUME k = 1 PROVE Hurt(b2, l)
    <3>1. b2.lines[1] = ls[2] /\ ls[2].t # "manifest"
      <4>1. b2.lines[1] = ls[k + 1] /\ k + 1 = 2
        BY <2>2, <2>3, <2>6 DEF HeadKept
      <4>2. n > 1
        BY <1>01, <2>6
      <4> QED BY <4>1, <4>2 DEF Manifested
    <3> QED BY <3>1 DEF Hurt, Headless
  <2>7. Hurt(b2, l)
    BY <2>5, <2>6
  <2> QED BY <2>4, <2>7
<1> QED BY <1>1, <1>2

\* A line respaced or torn, or a chunk changed.
LEMMA HurtLines ==
  ASSUME NEW l, NEW m, NEW n, Manifested(l, m, n)
  PROVE  /\ \A k \in 1..n : Hurt([l EXCEPT !.lines[k].sp = TRUE], l)
         /\ \A k \in 1..n : Hurt([l EXCEPT !.lines[k].t = "torn"], l)
         /\ \A k \in 1..n : l.lines[k].t = "chunk" => Hurt([l EXCEPT !.lines[k].chunk.id = 99], l)
<1> DEFINE ls == l.lines
           no == FALSE
           yes == TRUE
<1>0. OnWire(l) /\ DOMAIN ls = 1..n
  BY DEF Manifested
<1>01. n \in Nat /\ n > 0
  BY DEF Manifested
<1>02. ls[1] = [t |-> "manifest", sp |-> no, manifest |-> m]
  BY DEF Manifested, ManifestLine
<1> HIDE DEF ls, no
<1>03. ls[1].t = "manifest" /\ ls[1].manifest = m
  BY <1>02
<1>04. ASSUME NEW k \in 1..n, NEW x PROVE OnWire(PutLine(l, k, x)) /\ (k # 1 => HeadKept(PutLine(l, k, x), l)) /\ (k = 1 => PutLine(l, k, x).lines[1] = x)
  BY <1>0, PutLineIs DEF ls
<1>1. ASSUME NEW k \in 1..n PROVE Hurt([l EXCEPT !.lines[k].sp = TRUE], l)
  <2> DEFINE x == [ls[k] EXCEPT !.sp = yes]
             b == PutLine(l, k, x)
  <2>1. b = [l EXCEPT !.lines[k].sp = TRUE]
    BY DEF PutLine, ls
  <2>2. ASSUME k = 1 PROVE x.sp = yes /\ x.manifest = m
    <3> HIDE DEF yes
    <3>1. x = [t |-> "manifest", sp |-> yes, manifest |-> m]
      BY <1>02, <2>2
    <3> HIDE DEF x
    <3> QED BY <3>1
  <2> HIDE DEF x, yes
  <2>3. OnWire(b) /\ (k # 1 => HeadKept(b, l)) /\ (k = 1 => b.lines[1] = x)
    BY <1>04
  <2> HIDE DEF b
  <2>4. ASSUME k = 1 PROVE Hurt(b, l)
    <3>1. b.lines[1].sp = yes /\ b.lines[1].manifest = l.lines[1].manifest
      BY <1>03, <2>2, <2>3, <2>4 DEF ls
    <3> QED BY <3>1 DEF Hurt, Respaced, yes
  <2>5. ASSUME k # 1 PROVE Hurt(b, l)
    BY <2>3, <2>5 DEF Hurt
  <2>6. Hurt(b, l)
    BY <2>4, <2>5
  <2> QED BY <2>1, <2>6
<1>2. ASSUME NEW k \in 1..n PROVE Hurt([l EXCEPT !.lines[k].t = "torn"], l)
  <2> DEFINE x == [ls[k] EXCEPT !.t = "torn"]
             b == PutLine(l, k, x)
  <2>1. b = [l EXCEPT !.lines[k].t = "torn"]
    BY DEF PutLine, ls
  <2>2. ASSUME k = 1 PROVE x.t = "torn"
    <3>1. x = [t |-> "torn", sp |-> no, manifest |-> m]
      BY <1>02, <2>2
    <3> HIDE DEF x
    <3> QED BY <3>1
  <2> HIDE DEF x
  <2>3. OnWire(b) /\ (k # 1 => HeadKept(b, l)) /\ (k = 1 => b.lines[1] = x)
    BY <1>04
  <2> HIDE DEF b
  <2>4. ASSUME k = 1 PROVE Hurt(b, l)
    <3>1. b.lines[1].t = "torn"
      BY <2>2, <2>3, <2>4
    <3> QED BY <3>1 DEF Hurt, Headless
  <2>5. ASSUME k # 1 PROVE Hurt(b, l)
    BY <2>3, <2>5 DEF Hurt
  <2>6. Hurt(b, l)
    BY <2>4, <2>5
  <2> QED BY <2>1, <2>6
<1>3. ASSUME NEW k \in 1..n, ls[k].t = "chunk" PROVE Hurt([l EXCEPT !.lines[k].chunk.id = 99], l)
  <2> DEFINE x == [ls[k] EXCEPT !.chunk.id = 99]
             b == PutLine(l, k, x)
  <2>1. b = [l EXCEPT !.lines[k].chunk.id = 99]
    BY DEF PutLine, ls
  <2> HIDE DEF x
  <2>2. OnWire(b) /\ (k # 1 => HeadKept(b, l))
    BY <1>04
  <2>3. k # 1
    BY <1>03, <1>3
  <2> HIDE DEF b
  <2>4. Hurt(b, l)
    BY <2>2, <2>3 DEF Hurt
  <2> QED BY <2>1, <2>4
<1> QED BY <1>1, <1>2, <1>3 DEF ls

\* The manifest's count changed, or its checksum removed.
LEMMA HurtManifest ==
  ASSUME NEW l, NEW m, NEW n, Manifested(l, m, n)
  PROVE  /\ \A c \in Nat : c # l.lines[1].manifest.count => Hurt([l EXCEPT !.lines[1].manifest.count = c], l)
         /\ Hurt([l EXCEPT !.lines[1].manifest.checksum = <<>>], l)
<1> DEFINE ls == l.lines
           no == FALSE
           Line(w) == [t |-> "manifest", sp |-> no, manifest |-> w]
<1>0. OnWire(l) /\ DOMAIN ls = 1..n
  BY DEF Manifested
<1>01. n \in Nat /\ n > 0
  BY DEF Manifested
<1>02. ls[1] = Line(m)
  BY DEF Manifested, ManifestLine
<1>03. m = [f \in DOMAIN m |-> m[f]] /\ "count" \in DOMAIN m /\ "checksum" \in DOMAIN m
  BY DEF Manifested
<1> HIDE DEF ls, no
<1>04. 1 \in 1..n
  BY <1>01
<1>05. ls[1].manifest = m
  BY <1>02
<1>1. ASSUME NEW w
      PROVE  LET b == PutLine(l, 1, [ls[1] EXCEPT !.manifest = w])
             IN OnWire(b) /\ b.lines[1].manifest = w /\ b.lines[1].sp = no /\ b.lines[1] = ManifestLine(w)
  <2> DEFINE x == [ls[1] EXCEPT !.manifest = w]
  <2>1. x = Line(w)
    BY <1>02
  <2>2. x.manifest = w /\ x.sp = no /\ x = ManifestLine(w)
    BY <2>1 DEF ManifestLine, no
  <2> HIDE DEF x
  <2>3. OnWire(PutLine(l, 1, x)) /\ PutLine(l, 1, x).lines[1] = x
    BY <1>0, <1>04, PutLineIs DEF ls
  <2>4. /\ OnWire(PutLine(l, 1, x)) /\ PutLine(l, 1, x).lines[1].manifest = w /\ PutLine(l, 1, x).lines[1].sp = no
        /\ PutLine(l, 1, x).lines[1] = ManifestLine(w)
    BY <2>2, <2>3
  <2> QED BY <2>4 DEF x
<1>2. ASSUME NEW c \in Nat, c # ls[1].manifest.count PROVE Hurt([l EXCEPT !.lines[1].manifest.count = c], l)
  <2> DEFINE w == [ls[1].manifest EXCEPT !.count = c]
             b == PutLine(l, 1, [ls[1] EXCEPT !.manifest = w])
  <2>1. b = [l EXCEPT !.lines[1].manifest.count = c]
    BY DEF PutLine, ls
  <2> HIDE DEF w
  <2>2. OnWire(b) /\ b.lines[1] = ManifestLine(w)
    BY <1>1
  <2> HIDE DEF b
  <2>3. Recounted(b, l)
    BY <1>2, <2>2 DEF Recounted, w, ls
  <2> QED BY <2>1, <2>3 DEF Hurt
<1>3. Hurt([l EXCEPT !.lines[1].manifest.checksum = <<>>], l)
  <2> DEFINE w == [ls[1].manifest EXCEPT !.checksum = <<>>]
             b == PutLine(l, 1, [ls[1] EXCEPT !.manifest = w])
  <2>1. b = [l EXCEPT !.lines[1].manifest.checksum = <<>>]
    BY DEF PutLine, ls
  <2>2. w.checksum = <<>>
    BY <1>03, <1>05
  <2> HIDE DEF w
  <2>3. OnWire(b) /\ b.lines[1].manifest = w /\ b.lines[1].sp = no
    BY <1>1
  <2> HIDE DEF b
  <2>4. Unsigned(b)
    BY <2>2, <2>3 DEF Unsigned, no
  <2> QED BY <2>1, <2>4 DEF Hurt
<1> QED BY <1>2, <1>3 DEF ls

\* Any damage keeps, loses, respaces, recounts or unsigns the manifest line.
LEMMA DamageHurts ==
  ASSUME NEW l, NEW m, NEW n, Manifested(l, m, n), NEW b \in Damaged(l)
  PROVE  Hurt(b, l)
<1>0. Len(l.lines) = n
  BY DEF Manifested
<1>1. /\ Hurt([l EXCEPT !.nl = FALSE], l)
      /\ \A k \in 1..(n - 1) : Hurt([l EXCEPT !.lines[k] = l.lines[k + 1], !.lines[k + 1] = l.lines[k]], l)
  BY HurtEnds
<1>2. /\ \A k \in 1..(n - 1) : Hurt([l EXCEPT !.lines = SubSeq(l.lines, 1, k)], l)
      /\ \A k \in 1..n : Hurt([l EXCEPT !.lines = RemoveAt(l.lines, k)], l)
      /\ \A k \in 1..n : Hurt([l EXCEPT !.lines = SubSeq(l.lines, 1, k) \o SubSeq(l.lines, k, n)], l)
  BY HurtPieces
<1>3. /\ \A k \in 1..n : Hurt([l EXCEPT !.lines[k].sp = TRUE], l)
      /\ \A k \in 1..n : Hurt([l EXCEPT !.lines[k].t = "torn"], l)
      /\ \A k \in 1..n : l.lines[k].t = "chunk" => Hurt([l EXCEPT !.lines[k].chunk.id = 99], l)
  BY HurtLines
<1>4. /\ \A c \in Nat : c # l.lines[1].manifest.count => Hurt([l EXCEPT !.lines[1].manifest.count = c], l)
      /\ Hurt([l EXCEPT !.lines[1].manifest.checksum = <<>>], l)
  BY HurtManifest
<1> DEFINE ls == l.lines
<1>5. \/ b \in {[l EXCEPT !.nl = FALSE]}
      \/ b \in {[l EXCEPT !.lines = SubSeq(ls, 1, k)] : k \in 1..(n - 1)}
      \/ b \in {[l EXCEPT !.lines = RemoveAt(ls, k)] : k \in 1..n}
      \/ b \in {[l EXCEPT !.lines = SubSeq(ls, 1, k) \o SubSeq(ls, k, n)] : k \in 1..n}
      \/ b \in {[l EXCEPT !.lines[k] = ls[k + 1], !.lines[k + 1] = ls[k]] : k \in 1..(n - 1)}
      \/ b \in {[l EXCEPT !.lines[k].sp = TRUE] : k \in 1..n}
      \/ b \in {[l EXCEPT !.lines[k].t = "torn"] : k \in 1..n}
      \/ b \in {[l EXCEPT !.lines[k].chunk.id = 99] : k \in {j \in 1..n : ls[j].t = "chunk"}}
      \/ b \in {[l EXCEPT !.lines[1].manifest.count = c] : c \in (0..n) \ {l.lines[1].manifest.count}}
      \/ b \in {[l EXCEPT !.lines[1].manifest.checksum = <<>>]}
  BY <1>0, Zenon DEF Damaged
<1>6. CASE b \in {[l EXCEPT !.nl = FALSE]}
  BY <1>1, <1>6, Zenon
<1>7. CASE b \in {[l EXCEPT !.lines = SubSeq(ls, 1, k)] : k \in 1..(n - 1)}
  BY <1>2, <1>7, Zenon
<1>8. CASE b \in {[l EXCEPT !.lines = RemoveAt(ls, k)] : k \in 1..n}
  BY <1>2, <1>8, Zenon
<1>9. CASE b \in {[l EXCEPT !.lines = SubSeq(ls, 1, k) \o SubSeq(ls, k, n)] : k \in 1..n}
  BY <1>2, <1>9, Zenon
<1>10. CASE b \in {[l EXCEPT !.lines[k] = ls[k + 1], !.lines[k + 1] = ls[k]] : k \in 1..(n - 1)}
  BY <1>1, <1>10, Zenon
<1>11. CASE b \in {[l EXCEPT !.lines[k].sp = TRUE] : k \in 1..n}
  BY <1>3, <1>11, Zenon
<1>12. CASE b \in {[l EXCEPT !.lines[k].t = "torn"] : k \in 1..n}
  BY <1>3, <1>12, Zenon
<1>13. CASE b \in {[l EXCEPT !.lines[k].chunk.id = 99] : k \in {j \in 1..n : ls[j].t = "chunk"}}
  BY <1>3, <1>13, Zenon
<1>14. CASE b \in {[l EXCEPT !.lines[1].manifest.count = c] : c \in (0..n) \ {l.lines[1].manifest.count}}
  <2>1. \A c \in 0..n : c \in Nat
    BY DEF Manifested
  <2> QED BY <1>4, <1>14, <2>1, Zenon
<1>15. CASE b \in {[l EXCEPT !.lines[1].manifest.checksum = <<>>]}
  BY <1>4, <1>15, Zenon
<1> QED BY <1>5, <1>6, <1>7, <1>8, <1>9, <1>10, <1>11, <1>12, <1>13, <1>14, <1>15

(***************************************************************************)
(* The artifacts: the seal, the manifest's digest of all that it is sent   *)
(* with.                                                                   *)
(***************************************************************************)

\* Two that are the same but for the manifests' checksums have one digest.
LEMMA BlankedAlike ==
  ASSUME NEW b, NEW l, OnWire(b), OnWire(l), b.nl = l.nl, DOMAIN b.lines = DOMAIN l.lines,
         \A i \in DOMAIN l.lines : i # 1 => b.lines[i] = l.lines[i],
         FirstBlanked(b.lines[1]) = FirstBlanked(l.lines[1])
  PROVE  Blanked(b) = Blanked(l)
<1>1. Blanked(b) = [lines |-> Blanked(b).lines, nl |-> b.nl] /\ Blanked(l) = [lines |-> Blanked(l).lines, nl |-> l.nl]
  BY BlankedIs
<1>2. /\ Blanked(b).lines = [i \in DOMAIN l.lines |-> IF i = 1 THEN FirstBlanked(b.lines[1]) ELSE b.lines[i]]
      /\ Blanked(l).lines = [i \in DOMAIN l.lines |-> IF i = 1 THEN FirstBlanked(l.lines[1]) ELSE l.lines[i]]
  BY BlankedIs
<1>3. Blanked(b).lines = Blanked(l).lines
  BY <1>2
<1> QED BY <1>1, <1>3

CodeArtifact(cs, im, m) == [chunks |-> cs, imports |-> im, manifest |-> m]
ChunkLines(cs) == [i \in DOMAIN cs |-> ChunkLine(cs[i])]

\* The bytes of an artifact: manifest, chunks, graph.
LEMMA WireIs ==
  ASSUME NEW n \in Nat, NEW cs, cs = [i \in 1..n |-> cs[i]], NEW im, NEW m, NEW l, l = ToBytes(CodeArtifact(cs, im, m))
  PROVE  /\ OnWire(l) /\ l.nl = TRUE
         /\ Framed(l.lines, ManifestLine(m), ChunkLines(cs), GraphLine(im, m.tokens), n)
<1> DEFINE a == CodeArtifact(cs, im, m)
           yes == TRUE
           h == ManifestLine(m)
           z == GraphLine(im, m.tokens)
           ks == ChunkLines(cs)
           s == <<h>> \o ks \o <<z>>
<1>0. a.chunks = cs /\ a.imports = im /\ a.manifest = m
  BY DEF CodeArtifact
<1> HIDE DEF a, yes
<1>1. ks = [i \in 1..n |-> ks[i]]
  <2>1. DOMAIN cs = 1..n
    OBVIOUS
  <2> QED BY <2>1 DEF ChunkLines
<1>2. Stream(a) = s
  <2> HIDE DEF h, z
  <2>1. ks = [i \in DOMAIN a.chunks |-> ChunkLine(a.chunks[i])]
    BY <1>0 DEF ChunkLines
  <2> HIDE DEF ks
  <2>2. h = ManifestLine(a.manifest) /\ z = GraphLine(a.imports, a.manifest.tokens)
    BY <1>0 DEF h, z
  <2> QED BY <2>1, <2>2 DEF Stream
<1> HIDE DEF h, z, ks
<1>3. Framed(s, h, ks, z, n)
  BY <1>1, LinesOf
<1> HIDE DEF s
<1>4. l = [lines |-> s, nl |-> yes]
  BY <1>2 DEF ToBytes, a, yes
<1>5. l.lines = s /\ l.nl = yes
  BY <1>4
<1>6. s = [i \in DOMAIN s |-> s[i]] /\ 1 \in DOMAIN s
  BY <1>3 DEF Framed
<1>7. OnWire(l)
  BY <1>4, <1>5, <1>6 DEF OnWire
<1> QED BY <1>3, <1>5, <1>7 DEF yes, h, z, ks

\* A manifest that holds the digest of its own bytes, its checksum left out.
Sealed(l, m) == m.checksum = <<Blanked(l)>>

\* Such is the manifest that FromIndex makes.
LEMMA WireSealed ==
  ASSUME NEW n \in Nat, NEW cs, cs = [i \in 1..n |-> cs[i]], NEW im, NEW m, m = [f \in DOMAIN m |-> m[f]],
         {"checksum", "tokens", "count"} \subseteq DOMAIN m, m.checksum = <<>>,
         NEW w, w = [m EXCEPT !.checksum = <<Blanked(ToBytes(CodeArtifact(cs, im, m)))>>]
  PROVE  Sealed(ToBytes(CodeArtifact(cs, im, w)), w) /\ w = [f \in DOMAIN m |-> w[f]] /\ w.tokens = m.tokens /\ w.count = m.count
<1> DEFINE l0 == ToBytes(CodeArtifact(cs, im, m))
           l == ToBytes(CodeArtifact(cs, im, w))
           y == <<Blanked(l0)>>
<1> HIDE DEF y
<1>1. w = [m EXCEPT !.checksum = y]
  BY DEF y
<1>2. w = [f \in DOMAIN m |-> w[f]] /\ w.checksum = y /\ w.tokens = m.tokens /\ w.count = m.count
  BY <1>1
<1>3. [w EXCEPT !.checksum = <<>>] = m /\ [m EXCEPT !.checksum = <<>>] = m
  BY <1>1
<1> HIDE DEF l, l0
<1>4. OnWire(l0) /\ l0.nl = TRUE /\ Framed(l0.lines, ManifestLine(m), ChunkLines(cs), GraphLine(im, m.tokens), n)
  BY WireIs DEF l0
<1>5. OnWire(l) /\ l.nl = TRUE /\ Framed(l.lines, ManifestLine(w), ChunkLines(cs), GraphLine(im, w.tokens), n)
  BY WireIs DEF l
<1>6. FirstBlanked(l.lines[1]) = FirstBlanked(l0.lines[1])
  <2>1. l.lines[1] = ManifestLine(w) /\ l0.lines[1] = ManifestLine(m)
    BY <1>4, <1>5 DEF Framed
  <2>2. FirstBlanked(ManifestLine(w)) = ManifestLine([w EXCEPT !.checksum = <<>>])
    BY BlankedManifest
  <2>3. FirstBlanked(ManifestLine(m)) = ManifestLine([m EXCEPT !.checksum = <<>>])
    BY BlankedManifest
  <2> QED BY <1>3, <2>1, <2>2, <2>3
<1>7. DOMAIN l.lines = 1..(n + 2) /\ DOMAIN l0.lines = 1..(n + 2)
  BY <1>4, <1>5 DEF Framed
<1>8. \A i \in 1..(n + 2) : i # 1 => l.lines[i] = l0.lines[i]
  <2> TAKE i \in 1..(n + 2)
  <2> HAVE i # 1
  <2>1. CASE i = n + 2
    BY <1>2, <1>4, <1>5, <2>1 DEF Framed
  <2>2. CASE i - 1 \in 1..n /\ (i - 1) + 1 = i
    <3>1. l.lines[(i - 1) + 1] = ChunkLines(cs)[i - 1] /\ l0.lines[(i - 1) + 1] = ChunkLines(cs)[i - 1]
      BY <1>4, <1>5, <2>2 DEF Framed
    <3> QED BY <2>2, <3>1
  <2>3. i = n + 2 \/ (i - 1 \in 1..n /\ (i - 1) + 1 = i)
    OBVIOUS
  <2> QED BY <2>1, <2>2, <2>3
<1>9. Blanked(l) = Blanked(l0)
  BY <1>4, <1>5, <1>6, <1>7, <1>8, BlankedAlike
<1>10. Sealed(l, w)
  BY <1>2, <1>9 DEF Sealed, y
<1> QED BY <1>2, <1>10 DEF l

\* Damaged bytes under a seal, with the checksum they are read with: the published bytes.
LEMMA SealedOrRefused ==
  ASSUME NEW l, NEW m, NEW n, Manifested(l, m, n), Sealed(l, m), NEW b, Hurt(b, l), FromBytes(b).ok
  PROVE  b = l
<1>1. /\ b.lines[1].t = "manifest" /\ ~ Len(b.lines) < 2
      /\ ChecksumOverReceived(b, b) = b.lines[1].manifest.checksum
  BY Recognised
<1>2. OnWire(l) /\ l.lines[1] = ManifestLine(m) /\ m = [x \in DOMAIN m |-> m[x]] /\ "count" \in DOMAIN m /\ "checksum" \in DOMAIN m
  BY DEF Manifested
<1>3. l.lines[1].sp = FALSE /\ l.lines[1].manifest = m
  BY <1>2, BlankedManifest
<1>4. m.checksum = <<Blanked(l)>>
  BY DEF Sealed
<1>5. Blanked(l).lines[1] = ManifestLine([m EXCEPT !.checksum = <<>>])
  <2>1. Blanked(l).lines[1] = FirstBlanked(l.lines[1])
    BY <1>2, BlankedIs DEF OnWire
  <2> QED BY <1>2, <2>1, BlankedManifest
<1>6. ~ Headless(b)
  <2>1. Len(<<>>) = 0
    OBVIOUS
  <2>2. b.lines # <<>>
    <3> SUFFICES ASSUME b.lines = <<>> PROVE FALSE
      OBVIOUS
    <3>1. Len(b.lines) = 0
      BY <2>1
    <3>2. 0 < 2
      OBVIOUS
    <3> QED BY <1>1, <3>1, <3>2
  <2> QED BY <1>1, <2>2 DEF Headless
<1>7. ASSUME OnWire(b), b.lines[1].sp = FALSE PROVE <<Blanked(b)>> = b.lines[1].manifest.checksum
  BY <1>1, <1>7 DEF ChecksumOverReceived
<1>8. CASE HeadKept(b, l)
  <2>1. OnWire(b) /\ b.lines[1] = l.lines[1]
    BY <1>8 DEF HeadKept
  <2>2. <<Blanked(b)>> = <<Blanked(l)>>
    BY <1>3, <1>4, <1>7, <2>1
  <2>3. Blanked(b) = Blanked(l)
    BY <2>2
  <2> QED BY <1>2, <2>1, <2>3, Unblanked
<1>9. CASE Respaced(b, l)
  <2>1. <<b>> = b.lines[1].manifest.checksum
    BY <1>1, <1>9 DEF ChecksumOverReceived, Respaced
  <2>2. b.lines[1].manifest = m
    BY <1>3, <1>9 DEF Respaced
  <2>3. <<b>> = <<Blanked(l)>>
    BY <1>4, <2>1, <2>2
  <2>4. b = Blanked(l)
    BY <2>3
  <2>5. b.lines[1].sp = FALSE
    BY <1>5, <2>4, BlankedManifest
  <2> QED BY <1>9, <2>5 DEF Respaced
<1>10. CASE Recounted(b, l)
  <2>1. PICK c \in Nat : c # m.count /\ b.lines[1] = ManifestLine([m EXCEPT !.count = c])
    BY <1>3, <1>10 DEF Recounted
  <2> DEFINE w == [m EXCEPT !.count = c]
             v == [w EXCEPT !.checksum = <<>>]
             u == [m EXCEPT !.checksum = <<>>]
  <2>2. w.checksum = m.checksum /\ v.count = c /\ u.count = m.count
    BY <1>2
  <2> HIDE DEF w, v, u
  <2>3. OnWire(b) /\ b.lines[1] = ManifestLine(w)
    BY <1>10, <2>1 DEF Recounted, w
  <2>4. b.lines[1].sp = FALSE /\ b.lines[1].manifest = w /\ FirstBlanked(b.lines[1]) = ManifestLine(v)
    BY <2>3, BlankedManifest DEF v
  <2>5. <<Blanked(b)>> = <<Blanked(l)>>
    BY <1>4, <1>7, <2>2, <2>3, <2>4
  <2>6. Blanked(b) = Blanked(l)
    BY <2>5
  <2>7. Blanked(b).lines[1] = ManifestLine(v)
    BY <2>3, <2>4, BlankedIs DEF OnWire
  <2>8. ManifestLine(v).manifest = v /\ ManifestLine(u).manifest = u
    BY BlankedManifest
  <2>9. v = u
    BY <1>5, <2>6, <2>7, <2>8 DEF u
  <2> QED BY <2>1, <2>2, <2>9
<1>11. CASE Unsigned(b)
  <2>1. <<Blanked(b)>> = <<>>
    BY <1>7, <1>11 DEF Unsigned
  <2> QED BY <2>1
<1> QED BY <1>6, <1>8, <1>9, <1>10, <1>11 DEF Hurt

(***************************************************************************)
(* The code artifact: chunks in order, sent and read back.                 *)
(***************************************************************************)

CodeFile == [at : Nat \ {0}, stem : STRING, ends : SUBSET STRING]
CodeChunk == [id : Nat, file : CodeFile, start : Nat]

\* No two chunks of an index are of one line of one file and have one id.
Apart(s) == \A i, j \in DOMAIN s : i = j \/ ChunkBefore(s[i], s[j]) \/ ChunkBefore(s[j], s[i])
PlaceOrder(s) == {p \in (DOMAIN s) \X (DOMAIN s) : ChunkBefore(s[p[1]], s[p[2]])}

\* Their order is total.
LEMMA ChunksOrdered ==
  ASSUME NEW s \in Seq(CodeChunk), Apart(s)
  PROVE  TotalOrder(PlaceOrder(s), DOMAIN s)
<1>1. \A x \in DOMAIN s : s[x].file.at \in Int /\ s[x].start \in Int /\ s[x].id \in Int
  <2>1. \A x \in DOMAIN s : s[x] \in CodeChunk
    OBVIOUS
  <2>2. \A c \in CodeChunk : c.file.at \in Int /\ c.start \in Int /\ c.id \in Int
    BY DEF CodeChunk, CodeFile
  <2> QED BY <2>1, <2>2
<1>2. \A x \in DOMAIN s : ~ ChunkBefore(s[x], s[x])
  BY <1>1 DEF ChunkBefore
<1>3. ASSUME NEW x \in DOMAIN s, NEW y \in DOMAIN s, NEW z \in DOMAIN s, ChunkBefore(s[x], s[y]), ChunkBefore(s[y], s[z])
      PROVE  ChunkBefore(s[x], s[z])
  BY <1>1, <1>3 DEF ChunkBefore
<1>4. \A x, y \in DOMAIN s : <<x, y>> \in PlaceOrder(s) <=> ChunkBefore(s[x], s[y])
  BY DEF PlaceOrder
<1> HIDE DEF PlaceOrder
<1> QED BY <1>2, <1>3, <1>4 DEF TotalOrder, Apart

\* Sorting them ranks their places:
LEMMA SortedIs ==
  ASSUME NEW s \in Seq(CodeChunk), Apart(s)
  PROVE  \E p : InOrder(p, DOMAIN s, PlaceOrder(s)) /\ SortChunks(s) = [k \in DOMAIN s |-> s[p[k]]]
<1> DEFINE D == DOMAIN s
           R == PlaceOrder(s)
           p == Places(D, R)
           n == Len(s)
           Before(i, j) == ChunkBefore(s[i], s[j]) \/ (~ ChunkBefore(s[j], s[i]) /\ i < j)
<1>1. D = 1..n /\ n \in Nat
  OBVIOUS
<1>2. IsFiniteSet(D)
  BY <1>1, FS_Interval
<1>3. TotalOrder(R, D)
  BY ChunksOrdered
<1>4. InOrder(p, D, R)
  BY <1>2, <1>3, RanksOrder
<1>5. \A x, y \in D : Before(y, x) <=> <<y, x>> \in R
  <2> TAKE x, y \in D
  <2>1. <<y, x>> \in R <=> ChunkBefore(s[y], s[x])
    BY DEF PlaceOrder
  <2>2. x \in Int /\ y \in Int
    BY <1>1
  <2>3. x = y \/ ChunkBefore(s[x], s[y]) \/ ChunkBefore(s[y], s[x])
    BY DEF Apart
  <2>4. x = y => ~ (y < x)
    BY <2>2
  <2> QED BY <2>1, <2>3, <2>4
<1> HIDE DEF R
<1>6. \A x \in D : {y \in D : Before(y, x)} = {y \in D : <<y, x>> \in R}
  BY <1>5
<1>7. \A k \in 1..Cardinality(D) : (CHOOSE x \in D : Cardinality({y \in D : Before(y, x)}) = k - 1)
                                   = CHOOSE x \in D : Cardinality({y \in D : <<y, x>> \in R}) = k - 1
  BY <1>6
<1> DEFINE q == [k \in 1..Cardinality(D) |-> CHOOSE x \in D : Cardinality({y \in D : Before(y, x)}) = k - 1]
<1>8. q = p
  <2> DEFINE one(k) == CHOOSE x \in D : Cardinality({y \in D : Before(y, x)}) = k - 1
             two(k) == CHOOSE x \in D : Cardinality({y \in D : <<y, x>> \in R}) = k - 1
             m == Cardinality(D)
  <2>1. \A k \in 1..m : one(k) = two(k)
    BY <1>7
  <2>2. q = [k \in 1..m |-> one(k)] /\ p = [k \in 1..m |-> two(k)]
    BY DEF Places
  <2> HIDE DEF q, p, one, two, m
  <2> QED BY <2>1, <2>2
<1>9. Ranked(D, LAMBDA i, j : ChunkBefore(s[i], s[j]) \/ (~ ChunkBefore(s[j], s[i]) /\ i < j)) = q
  BY DEF Ranked
<1>10. SortChunks(s) = [k \in D |-> s[q[k]]]
  BY <1>9 DEF SortChunks
<1> HIDE DEF p, q
<1>11. SortChunks(s) = [k \in D |-> s[p[k]]]
  BY <1>8, <1>10
<1> QED BY <1>4, <1>11 DEF R

\* It loses none and doubles none,
LEMMA SortedOnce ==
  ASSUME NEW s \in Seq(CodeChunk), Apart(s)
  PROVE  /\ SortChunks(s) = [k \in 1..Len(s) |-> SortChunks(s)[k]] /\ ToSet(SortChunks(s)) = ToSet(s)
<1>1. PICK p : InOrder(p, DOMAIN s, PlaceOrder(s)) /\ SortChunks(s) = [k \in DOMAIN s |-> s[p[k]]]
  BY SortedIs
<1>2. DOMAIN s = 1..Len(s) /\ Cardinality(DOMAIN s) = Len(s)
  <2>1. DOMAIN s = 1..Len(s) /\ Len(s) \in Nat
    OBVIOUS
  <2>2. \A m \in Nat : Cardinality(1..m) = m
    BY FS_Interval
  <2> QED BY <2>1, <2>2
<1>3. \A k \in DOMAIN s : p[k] \in DOMAIN s
  BY <1>1, <1>2 DEF InOrder
<1>4. \A x \in DOMAIN s : \E k \in DOMAIN s : p[k] = x
  BY <1>1, <1>2 DEF InOrder
<1> DEFINE t == [k \in DOMAIN s |-> s[p[k]]]
<1>5. ToSet(t) = ToSet(s)
  BY <1>3, <1>4 DEF ToSet
<1> QED BY <1>1, <1>2, <1>5

\* and gives the same when they come in reverse.
LEMMA SortedBackwards ==
  ASSUME NEW s \in Seq(CodeChunk), Apart(s)
  PROVE  SortChunks(Reverse(s)) = SortChunks(s)
<1> DEFINE n == Len(s)
           t == Reverse(s)
<1>1. n \in Nat /\ DOMAIN s = 1..n /\ Cardinality(1..n) = n /\ IsFiniteSet(1..n)
  <2>1. DOMAIN s = 1..n /\ n \in Nat
    OBVIOUS
  <2>2. \A m \in Nat : Cardinality(1..m) = m /\ IsFiniteSet(1..m)
    BY FS_Interval
  <2> QED BY <2>1, <2>2
<1>2. t = [i \in 1..n |-> s[(n - i) + 1]]
  BY DEF Reverse
<1>3. \A i \in 1..n : (n - i) + 1 \in 1..n /\ s[(n - i) + 1] \in CodeChunk
  BY <1>1
<1> HIDE DEF n, t
<1>4. t \in Seq(CodeChunk) /\ DOMAIN t = 1..n /\ \A i \in 1..n : t[i] = s[(n - i) + 1]
  <2>1. t \in [1..n -> CodeChunk]
    BY <1>2, <1>3
  <2> QED BY <1>1, <1>2, <2>1
<1>5. Apart(t)
  <2>1. SUFFICES ASSUME NEW i \in 1..n, NEW j \in 1..n, i # j PROVE ChunkBefore(t[i], t[j]) \/ ChunkBefore(t[j], t[i])
    BY <1>4 DEF Apart
  <2>2. (n - i) + 1 # (n - j) + 1
    BY <1>1, <2>1
  <2> QED BY <1>1, <1>3, <1>4, <2>2 DEF Apart
<1>6. PICK p : InOrder(p, 1..n, PlaceOrder(s)) /\ SortChunks(s) = [k \in 1..n |-> s[p[k]]]
  BY <1>1, SortedIs
<1>7. PICK q : InOrder(q, 1..n, PlaceOrder(t)) /\ SortChunks(t) = [k \in 1..n |-> t[q[k]]]
  BY <1>4, <1>5, SortedIs
<1> DEFINE u == [k \in 1..n |-> (n - q[k]) + 1]
<1>8. q \in [1..n -> 1..n]
  BY <1>1, <1>7 DEF InOrder
<1>9. u \in [1..n -> 1..n]
  BY <1>1, <1>8
<1>10. InOrder(u, 1..n, PlaceOrder(s))
  <2>1. ASSUME NEW i \in 1..n, NEW j \in 1..n, i < j PROVE <<u[i], u[j]>> \in PlaceOrder(s)
    <3>1. <<q[i], q[j]>> \in PlaceOrder(t)
      BY <1>1, <1>7, <2>1 DEF InOrder
    <3>2. ChunkBefore(t[q[i]], t[q[j]])
      BY <3>1 DEF PlaceOrder
    <3>3. t[q[i]] = s[u[i]] /\ t[q[j]] = s[u[j]] /\ u[i] \in 1..n /\ u[j] \in 1..n
      BY <1>4, <1>8, <1>9
    <3> HIDE DEF u
    <3> QED BY <1>1, <3>2, <3>3 DEF PlaceOrder
  <2>2. ASSUME NEW x \in 1..n PROVE \E i \in 1..n : u[i] = x
    <3>1. (n - x) + 1 \in 1..n /\ n - ((n - x) + 1) + 1 = x
      BY <1>1
    <3>2. PICK i \in 1..n : q[i] = (n - x) + 1
      BY <1>1, <1>7, <3>1 DEF InOrder
    <3> QED BY <3>1, <3>2
  <2> HIDE DEF u
  <2> QED BY <1>1, <1>9, <2>1, <2>2 DEF InOrder
<1>11. TotalOrder(PlaceOrder(s), 1..n)
  BY <1>1, ChunksOrdered
<1>12. u = p
  <2> HIDE DEF u
  <2> QED BY <1>1, <1>6, <1>10, <1>11, OneOrder
<1>13. \A k \in 1..n : t[q[k]] = s[p[k]]
  <2>1. \A k \in 1..n : t[q[k]] = s[u[k]]
    BY <1>4, <1>8
  <2> QED BY <1>12, <2>1
<1> QED BY <1>6, <1>7, <1>13 DEF t
IndexOK(x) == /\ x.chunks \in Seq(CodeChunk) /\ Apart(x.chunks)
              /\ x = Assemble(x.chunks, x.imports, x.tokens)

\* What is sent of an index.
IsSent(x, m, l) ==
  LET cs == SortChunks(x.chunks)
      n == Len(x.chunks)
  IN /\ FromIndex(x, "sha") = CodeArtifact(cs, x.imports, m)
     /\ Manifested(l, m, n + 2) /\ Sealed(l, m) /\ m.count = n /\ m.tokens = x.tokens
     /\ Framed(l.lines, ManifestLine(m), ChunkLines(cs), GraphLine(x.imports, x.tokens), n)

\* The kinds of the lines.
LEMMA KindsApart ==
  /\ \A c : ChunkLine(c).t = "chunk" /\ ChunkLine(c).chunk = c
  /\ \A i, k : GraphLine(i, k).t = "graph" /\ GraphLine(i, k).edges = GraphBuild(i, k)
<1> DEFINE no == FALSE
<1> HIDE DEF no
<1>1. \A c : ChunkLine(c) = [t |-> "chunk", sp |-> no, chunk |-> c]
  BY DEF ChunkLine, no
<1>2. \A i, k : GraphLine(i, k) = [t |-> "graph", sp |-> no, nodes |-> k, edges |-> GraphBuild(i, k)]
  BY DEF GraphLine, no
<1> QED BY <1>1, <1>2

\* What FromIndex makes of an index is sent so.
LEMMA CodeSent ==
  ASSUME NEW x, IndexOK(x), NEW l, l = ToBytes(FromIndex(x, "sha"))
  PROVE  \E m : IsSent(x, m, l)
<1> DEFINE cs == SortChunks(x.chunks)
           n == Len(x.chunks)
           im == x.imports
           m0 == [sha |-> "sha", count |-> Len(cs), tokens |-> x.tokens, checksum |-> <<>>]
           y == <<Blanked(ToBytes(CodeArtifact(cs, im, m0)))>>
           m == [m0 EXCEPT !.checksum = y]
           g == GraphLine(im, x.tokens)
<1>1. n \in Nat /\ cs = [k \in 1..n |-> cs[k]] /\ Len(cs) = n
  <2>1. x.chunks \in Seq(CodeChunk) /\ Apart(x.chunks)
    BY DEF IndexOK
  <2>2. cs = [k \in 1..n |-> cs[k]]
    BY <2>1, SortedOnce
  <2>3. n \in Nat
    BY <2>1
  <2> HIDE DEF cs, n
  <2>4. Len([k \in 1..n |-> cs[k]]) = n
    BY <2>3
  <2>5. Len(cs) = n
    BY <2>2, <2>4
  <2> QED BY <2>2, <2>3, <2>5
<1>2. FromIndex(x, "sha") = CodeArtifact(cs, im, m)
  <2> DEFINE a == CodeArtifact(cs, im, m0)
  <2>1. FromIndex(x, "sha") = [a EXCEPT !.manifest.checksum = <<Blanked(ToBytes(a))>>]
    BY DEF FromIndex, CodeArtifact
  <2> HIDE DEF cs, im, m0, y
  <2>2. [a EXCEPT !.manifest.checksum = y] = CodeArtifact(cs, im, m)
    BY DEF CodeArtifact
  <2> QED BY <2>1, <2>2 DEF y
<1> HIDE DEF cs, n, im
<1>3. /\ m0 = [f \in DOMAIN m0 |-> m0[f]] /\ {"checksum", "tokens", "count"} \subseteq DOMAIN m0
      /\ m0.checksum = <<>> /\ m0.tokens = x.tokens /\ m0.count = n
  BY <1>1
<1> HIDE DEF m0
<1>4. Sealed(ToBytes(CodeArtifact(cs, im, m)), m) /\ m = [f \in DOMAIN m0 |-> m[f]] /\ m.tokens = m0.tokens /\ m.count = m0.count
  BY <1>1, <1>3, WireSealed
<1>5. l = ToBytes(CodeArtifact(cs, im, m))
  BY <1>2
<1> HIDE DEF m
<1>6. OnWire(l) /\ Framed(l.lines, ManifestLine(m), ChunkLines(cs), GraphLine(im, m.tokens), n)
  BY <1>1, <1>5, WireIs
<1>7. m.tokens = x.tokens /\ m.count = n /\ m = [f \in DOMAIN m |-> m[f]] /\ "count" \in DOMAIN m /\ "checksum" \in DOMAIN m
  BY <1>3, <1>4
<1>8. Framed(l.lines, ManifestLine(m), ChunkLines(cs), g, n)
  BY <1>6, <1>7
<1>9. l.lines[2].t # "manifest"
  <2>1. CASE n = 0
    <3>1. l.lines[2] = g
      BY <1>8, <2>1 DEF Framed
    <3> QED BY <3>1, KindsApart DEF g
  <2>2. CASE n > 0
    <3>1. l.lines[1 + 1] = ChunkLines(cs)[1] /\ 1 \in DOMAIN cs
      BY <1>1, <1>8, <2>2 DEF Framed
    <3>2. l.lines[2] = ChunkLine(cs[1])
      BY <3>1 DEF ChunkLines
    <3> QED BY <3>2, KindsApart
  <2> QED BY <1>1, <2>1, <2>2
<1>10. Manifested(l, m, n + 2)
  <2>1. Len(l.lines) = n + 2 /\ DOMAIN l.lines = 1..(n + 2) /\ l.lines[1] = ManifestLine(m)
    BY <1>6 DEF Framed
  <2>2. n + 2 \in Nat /\ n + 2 > 0
    BY <1>1
  <2> QED BY <1>6, <1>7, <1>9, <2>1, <2>2 DEF Manifested
<1>11. IsSent(x, m, l)
  BY <1>2, <1>4, <1>5, <1>7, <1>8, <1>10 DEF IsSent, cs, n, im, g
<1> QED BY <1>11

\* What is read of what was sent.
IsRead(x, m, l) ==
  LET a == FromBytes(l).of
  IN /\ FromBytes(l).ok /\ a.chunks = SortChunks(x.chunks) /\ a.manifest = m
     /\ a.imports = ImportsFromGraph(GraphLine(x.imports, x.tokens))

\* What is sent is read back.
LEMMA CodeRead ==
  ASSUME NEW x, IndexOK(x), NEW m, NEW l, IsSent(x, m, l)
  PROVE  IsRead(x, m, l)
<1> DEFINE cs == SortChunks(x.chunks)
           n == Len(x.chunks)
           g == GraphLine(x.imports, x.tokens)
           lines == l.lines
           kinds == <<"manifest">> \o [i \in 1..n |-> "chunk"] \o <<"graph">>
           a == [manifest |-> lines[1].manifest, chunks |-> [i \in 1..n |-> lines[i + 1].chunk],
                 imports |-> ImportsFromGraph(lines[n + 2])]
           yes == TRUE
<1>1. n \in Nat /\ cs = [k \in 1..n |-> cs[k]]
  BY SortedOnce DEF IndexOK
<1>2. Framed(lines, ManifestLine(m), ChunkLines(cs), g, n) /\ m.count = n /\ Sealed(l, m)
  BY DEF IsSent
<1>3. lines[1].t = "manifest" /\ lines[1].manifest = m /\ lines[1].sp = FALSE
  <2>1. lines[1] = ManifestLine(m)
    BY <1>2 DEF Framed
  <2> QED BY <2>1, BlankedManifest
<1>4. g.t = "graph"
  BY KindsApart
<1> HIDE DEF lines, cs, n, g
<1>5. \A i \in 1..n : lines[i + 1] = ChunkLine(cs[i])
  BY <1>1, <1>2 DEF Framed, ChunkLines
<1>6. \A i \in 1..n : lines[i + 1].t = "chunk" /\ lines[i + 1].chunk = cs[i]
  BY <1>5, KindsApart
<1>7. Len(lines) = n + 2 /\ lines[n + 2] = g
  BY <1>2 DEF Framed
<1>8. Shape(lines, kinds)
  BY <1>1, <1>3, <1>4, <1>6, <1>7, ShapeHead
<1>9. ~ Len(lines) < 2
  BY <1>1, <1>7
<1>10. ChecksumOverReceived(l, a) = m.checksum
  <2>1. ChecksumOverReceived(l, a) = <<Blanked(l)>>
    BY <1>3 DEF ChecksumOverReceived, lines
  <2> QED BY <1>2, <2>1 DEF Sealed
<1>11. a.manifest = m /\ a.chunks = cs /\ a.imports = ImportsFromGraph(g)
  <2>1. a.chunks = [i \in 1..n |-> lines[i + 1].chunk]
    OBVIOUS
  <2>2. a.chunks = cs
    BY <1>1, <1>6, <2>1
  <2> QED BY <1>3, <1>7, <2>2
<1>12. FromBytes(l) = IF Len(lines) < 2 \/ lines[1].t # "manifest" THEN Err
                      ELSE IF ~ Shape(lines, kinds) THEN Err
                      ELSE IF ChecksumOverReceived(l, a) # a.manifest.checksum THEN Err
                      ELSE [ok |-> yes, of |-> a]
  <2>1. n = lines[1].manifest.count
    BY <1>2, <1>3
  <2> QED BY <2>1 DEF FromBytes, lines
<1> HIDE DEF a, kinds, yes
<1>13. FromBytes(l) = [ok |-> yes, of |-> a]
  BY <1>3, <1>8, <1>9, <1>10, <1>11, <1>12
<1>14. FromBytes(l).ok = yes /\ FromBytes(l).of = a
  BY <1>13
<1> QED BY <1>11, <1>14 DEF IsRead, cs, g, yes

ArtifactInputOK == For("artifact") => IndexOK(input.index)

\* A code artifact is taken as it was sent, or refused: of any index and any damage.
LEMMA ArtifactTaken == ArtifactInputOK => ArtifactExactOrRefused
<1> SUFFICES ASSUME For("artifact"), IndexOK(input.index) PROVE ArtifactExactOrRefused
  BY DEF ArtifactInputOK, ArtifactExactOrRefused
<1> DEFINE l == ToBytes(FromIndex(input.index, "sha"))
<1>1. PICK m : IsSent(input.index, m, l)
  BY CodeSent
<1> HIDE DEF l
<1>2. FromBytes(l).ok
  BY <1>1, CodeRead DEF IsRead
<1>3. ASSUME NEW b \in Damaged(l), FromBytes(b).ok PROVE b = l
  <2>1. Manifested(l, m, Len(input.index.chunks) + 2) /\ Sealed(l, m)
    BY <1>1 DEF IsSent
  <2>2. Hurt(b, l)
    BY <2>1, DamageHurts
  <2> QED BY <1>3, <2>1, <2>2, SealedOrRefused
<1> QED BY <1>2, <1>3 DEF ArtifactExactOrRefused, l

\* An index has one artifact, in whatever order it found its chunks.
LEMMA BuildsAlike == ArtifactInputOK => SameIndexSameBytes
<1> SUFFICES ASSUME For("artifact"), IndexOK(input.index) PROVE SameIndexSameBytes
  BY DEF ArtifactInputOK, SameIndexSameBytes
<1> DEFINE x == input.index
           y == [x EXCEPT !.chunks = Reverse(@)]
<1>1. x = [chunks |-> x.chunks, imports |-> x.imports, tokens |-> x.tokens, graph |-> x.graph]
  BY DEF IndexOK, Assemble
<1>2. SortChunks(Reverse(x.chunks)) = SortChunks(x.chunks)
  BY SortedBackwards DEF IndexOK
<1> DEFINE r == Reverse(x.chunks)
<1> HIDE DEF r
<1>3. y = [x EXCEPT !.chunks = r]
  BY DEF r
<1> HIDE DEF x, y
<1>4. y.chunks = r /\ y.imports = x.imports /\ y.tokens = x.tokens
  BY <1>1, <1>3
<1>5. SortChunks(y.chunks) = SortChunks(x.chunks)
  BY <1>2, <1>4 DEF r
<1>6. FromIndex(y, "sha") = FromIndex(x, "sha")
  BY <1>4, <1>5 DEF FromIndex
<1> QED BY <1>6 DEF SameIndexSameBytes, x, y

(***************************************************************************)
(* The code artifact: its graph, pulled.                                   *)
(***************************************************************************)

\* The first of a finite set of files is one of them.
LEMMA FirstIs ==
  ASSUME NEW S \in SUBSET CodeFile, IsFiniteSet(S), S # {}
  PROVE  First(S) \in S
<1> DEFINE at == {f.at : f \in S}
<1>1. at \in SUBSET Nat /\ at # {}
  BY DEF CodeFile
<1>2. PICK k \in at : \A j \in at : k <= j
  BY <1>1, LeastNumber
<1>3. PICK f \in S : f.at = k
  BY <1>2
<1>4. \A g \in S : f.at <= g.at
  BY <1>2, <1>3
<1> QED BY <1>3, <1>4 DEF First

\* What a module's name resolves to.
LEMMA ResolvesTo ==
  ASSUME NEW S \in SUBSET CodeFile, IsFiniteSet(S), NEW name
  PROVE  /\ ResolveModule(name, S) = NoTarget \/ Answers(ResolveModule(name, S), name, S)
         /\ (\E f \in S : Answers(f, name, S)) => Answers(ResolveModule(name, S), name, S)
         /\ \A f \in S : f.stem = name =>
              ResolveModule(name, S) = First({g \in S : g.stem = name}) /\ ResolveModule(name, S) \in S /\ ResolveModule(name, S).stem = name
<1> DEFINE same == {f \in S : f.stem = name}
           suffix == {f \in S : name \in f.ends}
<1>1. IsFiniteSet(same) /\ IsFiniteSet(suffix) /\ same \in SUBSET CodeFile /\ suffix \in SUBSET CodeFile
  BY FS_Subset
<1>2. ResolveModule(name, S) = IF same # {} THEN First(same) ELSE IF suffix # {} THEN First(suffix) ELSE NoTarget
  BY DEF ResolveModule
<1>3. \A f \in same : f \in S /\ f.stem = name
  OBVIOUS
<1>4. \A f \in suffix : f \in S /\ name \in f.ends
  OBVIOUS
<1>5. \A f \in S : f.stem = name => f \in same
  OBVIOUS
<1>6. (same # {} => First(same) \in same) /\ (suffix # {} => First(suffix) \in suffix)
  BY <1>1, FirstIs
<1> HIDE DEF same, suffix
<1>7. ResolveModule(name, S) = NoTarget \/ Answers(ResolveModule(name, S), name, S)
  BY <1>2, <1>3, <1>4, <1>5, <1>6 DEF Answers
<1>9. ASSUME NEW f \in S, Answers(f, name, S) PROVE Answers(ResolveModule(name, S), name, S)
  <2>1. f \in same \/ f \in suffix
    BY <1>9 DEF Answers, same, suffix
  <2> QED BY <1>2, <1>3, <1>4, <1>5, <1>6, <2>1 DEF Answers
<1>8. \A f \in S : f.stem = name =>
              ResolveModule(name, S) = First(same) /\ ResolveModule(name, S) \in S /\ ResolveModule(name, S).stem = name
  BY <1>2, <1>3, <1>5, <1>6
<1> QED BY <1>7, <1>8, <1>9 DEF same

NotATarget == \A f \in CodeFile : f # NoTarget

\* The graph's edges lead to files.
LEMMA FilesAreTargets == NotATarget
<1>1. \A f \in CodeFile : f.at # 0
  BY DEF CodeFile
<1>2. NoTarget.at = 0
  BY DEF NoTarget
<1> QED BY <1>1, <1>2 DEF NotATarget

\* A graph's edges, over files.
EdgeOf(e, imports, files) == \E i \in imports : e = <<i[1], ResolveModule(i[2], files)>>

\* They are those of the imports.
LEMMA GraphEdges ==
  ASSUME NEW imports, NEW files, NEW e
  PROVE  e \in GraphBuild(imports, files) <=> EdgeOf(e, imports, files) /\ e[2] # NoTarget /\ e[1] # e[2]
  BY DEF GraphBuild, EdgeOf

\* The published edges, built over the files that have a chunk.
Rebuilt(sent, files) == GraphBuild({<<e[1], e[2].stem>> : e \in sent}, files)

\* An edge to a file with a name of its own is built again, any other one leads to what its
\* target's name answers to, and no other edge comes up.
RebuiltKeeps(sent, S) == \A s \in sent : OwnName(s[2], S) => s \in Rebuilt(sent, S)
RebuiltFrom(sent, S) ==
  \A e \in Rebuilt(sent, S) : e \in sent \/ \E s \in sent : /\ e[1] = s[1] /\ ~OwnName(s[2], S)
                                                            /\ Answers(e[2], s[2].stem, S)
RebuiltFate(sent, S) ==
  \A s \in sent : \/ \E e \in Rebuilt(sent, S) : e[1] = s[1] /\ Answers(e[2], s[2].stem, S)
                  \/ Answers(s[1], s[2].stem, S)
                  \/ \A f \in S : ~Answers(f, s[2].stem, S)
\* Edges of a graph: pairs of a file and another.
Edges(sent) == \A s \in sent : s = <<s[1], s[2]>> /\ s[1] # s[2]

\* Each published edge whose target's name leads anywhere but to its source is built again.
LEMMA RebuiltEdge ==
  ASSUME NEW S \in SUBSET CodeFile, IsFiniteSet(S), NEW sent, NEW s \in sent,
         Answers(ResolveModule(s[2].stem, S), s[2].stem, S), ResolveModule(s[2].stem, S) # s[1]
  PROVE  <<s[1], ResolveModule(s[2].stem, S)>> \in Rebuilt(sent, S)
<1> DEFINE imports == {<<e[1], e[2].stem>> : e \in sent}
           t == ResolveModule(s[2].stem, S)
           e == <<s[1], t>>
           i == <<s[1], s[2].stem>>
<1>1. t # NoTarget
  BY FilesAreTargets DEF NotATarget, Answers
<1>2. i \in imports /\ i[1] = s[1] /\ i[2] = s[2].stem
  OBVIOUS
<1> HIDE DEF i
<1>3. e = <<i[1], ResolveModule(i[2], S)>> /\ e[1] = s[1] /\ e[2] = t
  BY <1>2
<1> HIDE DEF e, t, imports
<1>4. EdgeOf(e, imports, S)
  BY <1>2, <1>3 DEF EdgeOf
<1>5. e[2] # NoTarget /\ e[1] # e[2]
  BY <1>1, <1>3 DEF t
<1>6. e \in Rebuilt(sent, S)
  BY <1>4, <1>5, GraphEdges DEF Rebuilt, imports
<1> QED BY <1>6 DEF e, t

\* What becomes of published edges.
LEMMA RebuiltFaithful ==
  ASSUME NEW S \in SUBSET CodeFile, IsFiniteSet(S), NEW sent, Edges(sent)
  PROVE  RebuiltKeeps(sent, S) /\ RebuiltFrom(sent, S) /\ RebuiltFate(sent, S)
<1> DEFINE imports == {<<e[1], e[2].stem>> : e \in sent}
<1>1. ASSUME NEW s \in sent, OwnName(s[2], S) PROVE ResolveModule(s[2].stem, S) = s[2]
  BY <1>1, ResolvesTo DEF OwnName
<1>2. ASSUME NEW s \in sent, OwnName(s[2], S) PROVE s \in Rebuilt(sent, S)
  <2>1. Answers(s[2], s[2].stem, S)
    BY <1>2 DEF OwnName, Answers
  <2>2. ResolveModule(s[2].stem, S) = s[2]
    BY <1>1, <1>2
  <2>3. s = <<s[1], s[2]>> /\ s[1] # s[2]
    BY DEF Edges
  <2> QED BY <2>1, <2>2, <2>3, RebuiltEdge
<1>3. ASSUME NEW e \in Rebuilt(sent, S), e \notin sent
      PROVE  \E s \in sent : e[1] = s[1] /\ ~OwnName(s[2], S) /\ Answers(e[2], s[2].stem, S)
  <2>1. EdgeOf(e, imports, S) /\ e[2] # NoTarget
    BY <1>3, GraphEdges DEF Rebuilt
  <2>2. PICK s \in sent : e = <<s[1], ResolveModule(s[2].stem, S)>>
    BY <2>1 DEF EdgeOf
  <2>3. e[2] = ResolveModule(s[2].stem, S) /\ e[1] = s[1]
    BY <2>2
  <2>4. Answers(e[2], s[2].stem, S)
    BY <2>1, <2>3, ResolvesTo
  <2>5. ASSUME OwnName(s[2], S) PROVE FALSE
    BY <1>1, <1>3, <2>2, <2>5 DEF Edges
  <2> QED BY <2>3, <2>4, <2>5
<1>4. ASSUME NEW s \in sent, ~Answers(s[1], s[2].stem, S), NEW f \in S, Answers(f, s[2].stem, S)
      PROVE  \E e \in Rebuilt(sent, S) : e[1] = s[1] /\ Answers(e[2], s[2].stem, S)
  <2> DEFINE t == ResolveModule(s[2].stem, S)
             e == <<s[1], t>>
  <2>1. Answers(t, s[2].stem, S)
    BY <1>4, ResolvesTo
  <2>2. t # s[1]
    BY <1>4, <2>1
  <2>3. e \in Rebuilt(sent, S)
    BY <2>1, <2>2, RebuiltEdge
  <2>4. e[1] = s[1] /\ e[2] = t
    OBVIOUS
  <2> HIDE DEF e, t
  <2> QED BY <2>1, <2>3, <2>4
<1>5. RebuiltKeeps(sent, S)
  BY <1>2 DEF RebuiltKeeps
<1>6. RebuiltFrom(sent, S)
  BY <1>3 DEF RebuiltFrom
<1>7. RebuiltFate(sent, S)
  BY <1>4 DEF RebuiltFate
<1> QED BY <1>5, <1>6, <1>7

\* With no two files of one name, the edges over those files are built again.
LEMMA RebuiltEqual ==
  ASSUME NEW S \in SUBSET CodeFile, IsFiniteSet(S), \A f, g \in S : f.stem = g.stem => f = g,
         NEW imports, NEW sent, sent = GraphBuild(imports, S)
  PROVE  Rebuilt(sent, S) = sent
<1> DEFINE again == {<<e[1], e[2].stem>> : e \in sent}
<1>1. ASSUME NEW s \in sent PROVE s = <<s[1], s[2]>> /\ s[2] \in S /\ s[1] # s[2] /\ s[2] # NoTarget
                                  /\ ResolveModule(s[2].stem, S) = s[2]
  <2>1. EdgeOf(s, imports, S) /\ s[2] # NoTarget /\ s[1] # s[2]
    BY <1>1, GraphEdges
  <2>2. PICK i \in imports : s = <<i[1], ResolveModule(i[2], S)>>
    BY <2>1 DEF EdgeOf
  <2>3. s = <<s[1], s[2]>> /\ s[2] = ResolveModule(i[2], S)
    BY <2>2
  <2>4. s[2] \in S
    BY <2>1, <2>3, ResolvesTo DEF Answers
  <2>5. ResolveModule(s[2].stem, S) \in S /\ ResolveModule(s[2].stem, S).stem = s[2].stem
    BY <2>4, ResolvesTo
  <2> QED BY <2>1, <2>3, <2>4, <2>5
<1>2. ASSUME NEW e, e \in Rebuilt(sent, S) PROVE e \in sent
  <2>1. EdgeOf(e, again, S)
    BY <1>2, GraphEdges DEF Rebuilt
  <2>2. PICK s \in sent : e = <<s[1], ResolveModule(s[2].stem, S)>>
    BY <2>1 DEF EdgeOf
  <2> QED BY <1>1, <2>2
<1>3. ASSUME NEW s \in sent PROVE s \in Rebuilt(sent, S)
  <2>1. EdgeOf(s, again, S)
    <3> DEFINE i == <<s[1], s[2].stem>>
    <3>1. i \in again
      OBVIOUS
    <3>2. i[1] = s[1] /\ i[2] = s[2].stem
      OBVIOUS
    <3> HIDE DEF i, again
    <3>3. s = <<i[1], ResolveModule(i[2], S)>>
      BY <1>1, <3>2
    <3> QED BY <3>1, <3>3 DEF EdgeOf
  <2> HIDE DEF again
  <2> QED BY <1>1, <2>1, GraphEdges DEF Rebuilt, again
<1> QED BY <1>2, <1>3

\* A pulled graph is the published edges where names are their targets' own, and leads by the name elsewhere: of any index.
LEMMA GraphPulled == ArtifactInputOK => PulledGraphFaithful
<1> SUFFICES ASSUME For("artifact"), IndexOK(input.index) PROVE PulledGraphFaithful
  BY DEF ArtifactInputOK, PulledGraphFaithful
<1> DEFINE x == input.index
           a == FromIndex(x, "sha")
           l == ToBytes(a)
           sent == GraphLine(a.imports, a.manifest.tokens).edges
           files == {c.file : c \in ToSet(x.chunks)}
           pulled == IntoIndex(FromBytes(l).of).graph
<1>1. PICK m : IsSent(x, m, l)
  BY CodeSent
<1>2. IsRead(x, m, l)
  BY <1>1, CodeRead
<1>3. sent = GraphBuild(x.imports, x.tokens)
  <2>1. a = CodeArtifact(SortChunks(x.chunks), x.imports, m) /\ m.tokens = x.tokens
    BY <1>1 DEF IsSent
  <2> HIDE DEF a
  <2>2. a.imports = x.imports /\ a.manifest.tokens = x.tokens
    BY <2>1 DEF CodeArtifact
  <2> QED BY <2>2, KindsApart
<1>4. x.chunks \in Seq(CodeChunk) /\ ToSet(SortChunks(x.chunks)) = ToSet(x.chunks)
  BY SortedOnce DEF IndexOK
<1>5. files \in SUBSET CodeFile /\ IsFiniteSet(files)
  <2>1. files = {x.chunks[i].file : i \in 1..Len(x.chunks)}
    BY <1>4 DEF ToSet
  <2>2. \A i \in 1..Len(x.chunks) : x.chunks[i] \in CodeChunk
    BY <1>4
  <2>3. files \in SUBSET CodeFile
    BY <2>1, <2>2 DEF CodeChunk
  <2>4. Len(x.chunks) \in Nat
    BY <1>4
  <2>5. IsFiniteSet(1..Len(x.chunks))
    BY <2>4, FS_Interval
  <2> DEFINE f == [i \in 1..Len(x.chunks) |-> x.chunks[i].file]
  <2>6. f \in Surjection(1..Len(x.chunks), files)
    BY <2>1 DEF Surjection
  <2> HIDE DEF f, files
  <2>7. IsFiniteSet(files)
    BY <2>5, <2>6, FS_Surjection
  <2> QED BY <2>3, <2>7
<1>6. pulled = Rebuilt(GraphBuild(x.imports, x.tokens), files)
  <2> DEFINE y == FromBytes(l).of
             g == GraphBuild(x.imports, x.tokens)
  <2>1. y.chunks = SortChunks(x.chunks) /\ y.imports = ImportsFromGraph(GraphLine(x.imports, x.tokens))
    BY <1>2 DEF IsRead
  <2> HIDE DEF y
  <2>2. pulled = GraphBuild(y.imports, {c.file : c \in ToSet(y.chunks)})
    BY DEF IntoIndex, Assemble, y
  <2>3. ImportsFromGraph(GraphLine(x.imports, x.tokens)) = {<<e[1], e[2].stem>> : e \in g}
    BY KindsApart DEF ImportsFromGraph
  <2> HIDE DEF pulled
  <2>4. {c.file : c \in ToSet(y.chunks)} = files
    BY <1>4, <2>1
  <2> HIDE DEF files
  <2>5. y.imports = {<<e[1], e[2].stem>> : e \in g}
    BY <2>1, <2>3
  <2> HIDE DEF g
  <2>6. pulled = GraphBuild({<<e[1], e[2].stem>> : e \in g}, files)
    BY <2>2, <2>4, <2>5
  <2> QED BY <2>6 DEF Rebuilt, g
<1>7. x.graph = GraphBuild(x.imports, files)
  <2>1. x = Assemble(x.chunks, x.imports, x.tokens)
    BY DEF IndexOK
  <2>2. Assemble(x.chunks, x.imports, x.tokens).graph = GraphBuild(x.imports, files)
    BY DEF Assemble
  <2> QED BY <2>1, <2>2
<1> HIDE DEF sent, files, pulled
<1>8. Edges(sent)
  <2>1. ASSUME NEW s \in sent PROVE s = <<s[1], s[2]>> /\ s[1] # s[2]
    <3>1. EdgeOf(s, x.imports, x.tokens) /\ s[1] # s[2]
      BY <1>3, GraphEdges
    <3>2. PICK k \in x.imports : s = <<k[1], ResolveModule(k[2], x.tokens)>>
      BY <3>1 DEF EdgeOf
    <3> QED BY <3>1, <3>2
  <2> QED BY <2>1 DEF Edges
<1>9. RebuiltKeeps(sent, files) /\ RebuiltFrom(sent, files) /\ RebuiltFate(sent, files)
  BY <1>5, <1>8, RebuiltFaithful
<1>10. pulled = Rebuilt(sent, files)
  BY <1>3, <1>6
<1>11. ASSUME \A f \in x.tokens : OwnName(f, files), files \subseteq x.tokens
       PROVE  pulled = x.graph
  <2>1. x.tokens = files /\ \A f, g \in files : f.stem = g.stem => f = g
    BY <1>11 DEF OwnName
  <2>2. pulled = GraphBuild(x.imports, x.tokens)
    BY <1>5, <1>6, <2>1, RebuiltEqual
  <2> QED BY <1>7, <2>1, <2>2
<1>12. \A s \in sent : OwnName(s[2], files) => s \in pulled
  BY <1>9, <1>10 DEF RebuiltKeeps
<1>13. \A e \in pulled : e \in sent \/ \E s \in sent : /\ e[1] = s[1] /\ ~OwnName(s[2], files)
                                                       /\ Answers(e[2], s[2].stem, files)
  BY <1>9, <1>10 DEF RebuiltFrom
<1>14. \A s \in sent : \/ \E e \in pulled : e[1] = s[1] /\ Answers(e[2], s[2].stem, files)
                       \/ Answers(s[1], s[2].stem, files)
                       \/ \A f \in files : ~Answers(f, s[2].stem, files)
  BY <1>9, <1>10 DEF RebuiltFate
<1> QED BY <1>11, <1>12, <1>13, <1>14 DEF PulledGraphFaithful, sent, files, pulled, x, a, l

(***************************************************************************)
(* The knowledge artifact: its seal, sent and read back.                   *)
(***************************************************************************)

StoreArtifact(cs, m) == [chunks |-> cs, manifest |-> m]
KWired(n, cs, m, l) ==
  OnWire(l) /\ l.nl = TRUE /\ Headed(l.lines, ManifestLine(m), ChunkLines(cs), n)

\* The bytes of a knowledge artifact: manifest, chunks.
LEMMA KWireIs ==
  ASSUME NEW n \in Nat, NEW cs, cs = [i \in 1..n |-> cs[i]], NEW m, NEW l, l = KToBytes(StoreArtifact(cs, m))
  PROVE  KWired(n, cs, m, l)
<1> DEFINE a == StoreArtifact(cs, m)
           yes == TRUE
           h == ManifestLine(m)
           ks == ChunkLines(cs)
           s == <<h>> \o ks
<1>0. a.chunks = cs /\ a.manifest = m
  BY DEF StoreArtifact
<1> HIDE DEF a, yes
<1>1. ks = [i \in 1..n |-> ks[i]]
  <2>1. DOMAIN cs = 1..n
    OBVIOUS
  <2> QED BY <2>1 DEF ChunkLines
<1>2. KStream(a) = s
  <2> HIDE DEF h
  <2>1. ks = [i \in DOMAIN a.chunks |-> ChunkLine(a.chunks[i])]
    BY <1>0 DEF ChunkLines
  <2> HIDE DEF ks
  <2>2. h = ManifestLine(a.manifest)
    BY <1>0 DEF h
  <2> QED BY <2>1, <2>2 DEF KStream
<1> HIDE DEF h, ks
<1>3. Headed(s, h, ks, n)
  BY <1>1, LinesOf
<1> HIDE DEF s
<1>4. l = [lines |-> s, nl |-> yes]
  BY <1>2 DEF KToBytes, a, yes
<1>5. l.lines = s /\ l.nl = yes
  BY <1>4
<1>6. s = [i \in DOMAIN s |-> s[i]] /\ 1 \in DOMAIN s
  BY <1>3 DEF Headed
<1>7. OnWire(l)
  BY <1>4, <1>5, <1>6 DEF OnWire
<1> QED BY <1>3, <1>5, <1>7 DEF yes, h, ks, KWired

\* The digest, its lines.
LEMMA KDigest ==
  ASSUME NEW n \in Nat, NEW cs, NEW m, NEW l, KWired(n, cs, m, l)
  PROVE  /\ Headed(Blanked(l).lines, ManifestLine([m EXCEPT !.checksum = <<>>]), ChunkLines(cs), n)
         /\ Blanked(l) = [lines |-> Blanked(l).lines, nl |-> TRUE]
<1> DEFINE q == Blanked(l).lines
           h == ManifestLine([m EXCEPT !.checksum = <<>>])
           ks == ChunkLines(cs)
<1>1. OnWire(l) /\ l.nl = TRUE /\ Headed(l.lines, ManifestLine(m), ks, n)
  BY DEF KWired
<1>2. q = [i \in DOMAIN l.lines |-> IF i = 1 THEN FirstBlanked(l.lines[1]) ELSE l.lines[i]]
  BY <1>1, BlankedIs
<1>3. FirstBlanked(l.lines[1]) = h
  <2>1. l.lines[1] = ManifestLine(m)
    BY <1>1 DEF Headed
  <2> QED BY <2>1, BlankedManifest
<1>4. DOMAIN l.lines = 1..(n + 1)
  BY <1>1 DEF Headed
<1> HIDE DEF q, h, ks
<1>5. q = [i \in 1..(n + 1) |-> IF i = 1 THEN h ELSE l.lines[i]]
  BY <1>2, <1>3, <1>4
<1>6. Len(q) = n + 1 /\ q = [i \in 1..(n + 1) |-> q[i]]
  BY <1>5
<1>7. q[1] = h
  <2>1. 1 \in 1..(n + 1)
    OBVIOUS
  <2> QED BY <1>5, <2>1
<1>8. ASSUME NEW i \in 1..n PROVE q[i + 1] = ks[i]
  <2>1. i + 1 \in 1..(n + 1) /\ i + 1 # 1
    OBVIOUS
  <2> QED BY <1>1, <1>5, <2>1 DEF Headed
<1>9. Blanked(l) = [lines |-> q, nl |-> TRUE]
  BY <1>1, BlankedIs DEF q
<1> QED BY <1>6, <1>7, <1>8, <1>9 DEF Headed, q, h, ks

\* The manifest that is sent holds the digest of what it is sent with.
LEMMA KSealed ==
  ASSUME NEW n \in Nat, NEW cs, cs = [i \in 1..n |-> cs[i]], NEW m, m = [f \in DOMAIN m |-> m[f]],
         {"checksum", "count"} \subseteq DOMAIN m, m.checksum = <<>>,
         NEW w, w = [m EXCEPT !.checksum = <<Blanked(KToBytes(StoreArtifact(cs, m)))>>]
  PROVE  Sealed(KToBytes(StoreArtifact(cs, w)), w)
<1> DEFINE l0 == KToBytes(StoreArtifact(cs, m))
           l == KToBytes(StoreArtifact(cs, w))
           y == <<Blanked(l0)>>
           h == ManifestLine(m)
<1> HIDE DEF y
<1>1. w = [m EXCEPT !.checksum = y]
  BY DEF y
<1>2. w.checksum = y
  BY <1>1
<1>3. [w EXCEPT !.checksum = <<>>] = m /\ [m EXCEPT !.checksum = <<>>] = m
  BY <1>1
<1> HIDE DEF l, l0, h
<1>4. KWired(n, cs, m, l0) /\ KWired(n, cs, w, l)
  BY KWireIs DEF l, l0
<1>5. Headed(Blanked(l).lines, h, ChunkLines(cs), n) /\ Blanked(l) = [lines |-> Blanked(l).lines, nl |-> TRUE]
  BY <1>3, <1>4, KDigest DEF h
<1>6. Headed(Blanked(l0).lines, h, ChunkLines(cs), n) /\ Blanked(l0) = [lines |-> Blanked(l0).lines, nl |-> TRUE]
  BY <1>3, <1>4, KDigest DEF h
<1>7. Blanked(l).lines = Blanked(l0).lines
  <2> DEFINE p == Blanked(l).lines
             q == Blanked(l0).lines
             ks == ChunkLines(cs)
  <2>1. p = [i \in 1..(n + 1) |-> p[i]] /\ q = [i \in 1..(n + 1) |-> q[i]] /\ p[1] = h /\ q[1] = h
        /\ \A i \in 1..n : p[i + 1] = ks[i] /\ q[i + 1] = ks[i]
    BY <1>5, <1>6 DEF Headed
  <2> HIDE DEF p, q, ks
  <2>2. ASSUME NEW i \in 1..(n + 1) PROVE p[i] = q[i]
    <3>1. CASE i = 1
      BY <2>1, <3>1
    <3>2. CASE i - 1 \in 1..n /\ (i - 1) + 1 = i
      <4>1. p[(i - 1) + 1] = ks[i - 1] /\ q[(i - 1) + 1] = ks[i - 1]
        BY <2>1, <3>2
      <4> QED BY <3>2, <4>1
    <3>3. i = 1 \/ (i - 1 \in 1..n /\ (i - 1) + 1 = i)
      OBVIOUS
    <3> QED BY <3>1, <3>2, <3>3
  <2> QED BY <2>1, <2>2 DEF p, q
<1>8. Blanked(l) = Blanked(l0)
  BY <1>5, <1>6, <1>7
<1> QED BY <1>2, <1>8 DEF Sealed, y, l

\* One digest: one manifest but for its checksum, and the same chunks.
Unsealed(m) == [m EXCEPT !.checksum = <<>>]
OneStore(w, ds, m, cs) == Unsealed(w) = Unsealed(m) /\ ds = cs

\* The digests are equal for such stores only.
LEMMA OneDigest ==
  ASSUME NEW n \in Nat, NEW cs, cs = [i \in 1..n |-> cs[i]], NEW m, NEW l, KWired(n, cs, m, l),
         NEW k \in Nat, NEW ds, ds = [i \in 1..k |-> ds[i]], NEW w, NEW b, KWired(k, ds, w, b),
         Blanked(b) = Blanked(l)
  PROVE  OneStore(w, ds, m, cs)
<1> DEFINE p == Blanked(l).lines
           v == [w EXCEPT !.checksum = <<>>]
           u == [m EXCEPT !.checksum = <<>>]
<1>1. Headed(p, ManifestLine(u), ChunkLines(cs), n)
  BY KDigest
<1>2. Headed(p, ManifestLine(v), ChunkLines(ds), k)
  <2>1. Headed(Blanked(b).lines, ManifestLine(v), ChunkLines(ds), k)
    BY KDigest
  <2> QED BY <2>1
<1> HIDE DEF p, u, v
<1>3. ManifestLine(u) = ManifestLine(v) /\ n = k
  <2>1. Len(p) = n + 1 /\ Len(p) = k + 1
    BY <1>1, <1>2 DEF Headed
  <2>2. n = k
    BY <2>1
  <2> QED BY <1>1, <1>2, <2>2 DEF Headed
<1>4. u = v
  <2>1. ManifestLine(u).manifest = u /\ ManifestLine(v).manifest = v
    BY BlankedManifest
  <2> QED BY <1>3, <2>1
<1>5. ASSUME NEW i \in 1..n PROVE cs[i] = ds[i]
  <2>1. p[i + 1] = ChunkLines(cs)[i] /\ p[i + 1] = ChunkLines(ds)[i]
    BY <1>1, <1>2, <1>3 DEF Headed
  <2>2. DOMAIN cs = 1..n /\ DOMAIN ds = 1..n
    BY <1>3
  <2>3. ChunkLines(cs)[i] = ChunkLine(cs[i]) /\ ChunkLines(ds)[i] = ChunkLine(ds[i])
    BY <2>2 DEF ChunkLines
  <2>4. ChunkLine(cs[i]).chunk = cs[i] /\ ChunkLine(ds[i]).chunk = ds[i]
    BY KindsApart
  <2> QED BY <2>1, <2>3, <2>4
<1>6. ds = cs
  BY <1>3, <1>5
<1> QED BY <1>4, <1>6 DEF u, v, OneStore, Unsealed
KArtChunk == [id : Nat, updated : Nat, embedded : BOOLEAN]
StoreOK(s) == /\ s.chunks \in Seq(KArtChunk)
              /\ s = [snapshot |-> s.snapshot, records |-> s.records, chunks |-> s.chunks]

\* What is sent of a store.
IsSentStore(s, m, l) ==
  LET n == Len(s.chunks)
      a == KFromStore(s, "corpus")
  IN /\ a.ok /\ a.of = StoreArtifact(s.chunks, m) /\ l = KToBytes(a.of)
     /\ m.snapshot = s.snapshot /\ m.records = s.records /\ m.count = n
     /\ KWired(n, s.chunks, m, l) /\ Sealed(l, m) /\ Manifested(l, m, n + 1)

\* What is made of a store is sent so.
LEMMA StoreSent ==
  ASSUME NEW s, StoreOK(s), NEW l, l = KToBytes(KFromStore(s, "corpus").of), KFromStore(s, "corpus").ok
  PROVE  \E m : IsSentStore(s, m, l)
<1> DEFINE cs == s.chunks
           n == Len(cs)
           asof == DataAsOf(cs)
           m0 == [corpus |-> "corpus", snapshot |-> s.snapshot, records |-> s.records,
                  count |-> n, asof |-> asof, checksum |-> <<>>]
           y == <<Blanked(KToBytes(StoreArtifact(cs, m0)))>>
           m == [m0 EXCEPT !.checksum = y]
           yes == TRUE
           k == KFromStore(s, "corpus")
           bare == \E c \in ToSet(cs) : ~ c.embedded
<1>1. n \in Nat /\ cs = [i \in 1..n |-> cs[i]]
  BY DEF StoreOK
<1>2. k = IF bare THEN Err ELSE [ok |-> TRUE, of |-> [StoreArtifact(cs, m0) EXCEPT !.manifest.checksum = y]]
  BY DEF KFromStore, KComputedChecksum, StoreArtifact
<1> HIDE DEF y, yes
<1>3. [StoreArtifact(cs, m0) EXCEPT !.manifest.checksum = y] = StoreArtifact(cs, m)
  <2> HIDE DEF m0, cs
  <2> QED BY DEF StoreArtifact
<1>4. k = IF bare THEN Err ELSE [ok |-> yes, of |-> StoreArtifact(cs, m)]
  BY <1>2, <1>3 DEF yes
<1> HIDE DEF cs, n, asof, bare
<1>5. /\ m0 = [f \in DOMAIN m0 |-> m0[f]] /\ {"checksum", "count", "snapshot", "records"} \subseteq DOMAIN m0
      /\ m0.checksum = <<>> /\ m0.snapshot = s.snapshot /\ m0.records = s.records /\ m0.count = n
  OBVIOUS
<1> HIDE DEF m0
<1>6. m = [f \in DOMAIN m |-> m[f]] /\ DOMAIN m = DOMAIN m0 /\ m.snapshot = s.snapshot /\ m.records = s.records /\ m.count = n
  BY <1>5
<1>7. Sealed(KToBytes(StoreArtifact(cs, m)), m)
  BY <1>1, <1>5, KSealed DEF y
<1> HIDE DEF m
<1>8. Err.ok = FALSE /\ k.ok
  BY DEF Err
<1> HIDE DEF k
<1>9. k = [ok |-> yes, of |-> StoreArtifact(cs, m)]
  BY <1>4, <1>8
<1>10. k.of = StoreArtifact(cs, m)
  BY <1>9
<1>11. l = KToBytes(StoreArtifact(cs, m))
  BY <1>10 DEF k
<1>12. KWired(n, cs, m, l)
  BY <1>1, <1>11, KWireIs
<1>13. n + 1 > 1 => l.lines[2].t # "manifest"
  <2> SUFFICES ASSUME n > 0 PROVE l.lines[2].t # "manifest"
    BY <1>1
  <2>1. l.lines[1 + 1] = ChunkLines(cs)[1] /\ 1 \in DOMAIN cs
    BY <1>1, <1>12 DEF KWired, Headed
  <2>2. l.lines[2] = ChunkLine(cs[1])
    BY <2>1 DEF ChunkLines
  <2> QED BY <2>2, KindsApart
<1>14. Manifested(l, m, n + 1)
  <2>1. Len(l.lines) = n + 1 /\ DOMAIN l.lines = 1..(n + 1) /\ l.lines[1] = ManifestLine(m) /\ OnWire(l)
    BY <1>12 DEF KWired, Headed
  <2>2. n + 1 \in Nat /\ n + 1 > 0
    BY <1>1
  <2> QED BY <1>5, <1>6, <1>13, <2>1, <2>2 DEF Manifested
<1>15. IsSentStore(s, m, l)
  BY <1>6, <1>7, <1>8, <1>10, <1>11, <1>12, <1>14 DEF IsSentStore, k, cs, n
<1> QED BY <1>15

\* Any store read under the seal is the one that was sent.
LEMMA StoreRead ==
  ASSUME NEW s, StoreOK(s), NEW m, NEW l, IsSentStore(s, m, l), NEW b, KFromBytes(b).ok, b.lines[1].manifest = m
  PROVE  IntoStore(KFromBytes(b).of) = s
<1> DEFINE n == Len(s.chunks)
           ds == [i \in 1..n |-> b.lines[i + 1].chunk]
           a == StoreArtifact(ds, m)
           r == KToBytes(a)
<1>1. n \in Nat /\ s.chunks = [i \in 1..n |-> s.chunks[i]] /\ KWired(n, s.chunks, m, l) /\ Sealed(l, m) /\ m.count = n
  BY DEF StoreOK, IsSentStore
<1>2. KComputedChecksum(a) = m.checksum /\ KFromBytes(b).of = a
  <2> DEFINE c == b.lines[1].manifest.count
             z == [manifest |-> b.lines[1].manifest, chunks |-> [i \in 1..c |-> b.lines[i + 1].chunk]]
  <2>1. KComputedChecksum(z) = b.lines[1].manifest.checksum /\ KFromBytes(b).of = z
    BY KRecognised
  <2>2. z = a
    <3>1. c = n
      BY <1>1
    <3> HIDE DEF n, c
    <3> QED BY <3>1 DEF StoreArtifact
  <2> HIDE DEF z, a
  <2> QED BY <2>1, <2>2
<1>3. <<Blanked(r)>> = <<Blanked(l)>>
  <2>1. KComputedChecksum(a) = <<Blanked(r)>>
    BY DEF KComputedChecksum
  <2> HIDE DEF r, a
  <2> QED BY <1>1, <1>2, <2>1 DEF Sealed
<1>4. Blanked(r) = Blanked(l)
  BY <1>3
<1> HIDE DEF n
<1>5. ds = [i \in 1..n |-> ds[i]]
  OBVIOUS
<1> HIDE DEF ds
<1>6. KWired(n, ds, m, r)
  BY <1>1, <1>5, KWireIs
<1>7. ds = s.chunks
  <2> DEFINE cs == s.chunks
  <2>1. cs = [i \in 1..n |-> cs[i]] /\ KWired(n, cs, m, l) /\ n \in Nat
    BY <1>1
  <2> HIDE DEF cs, r
  <2>2. OneStore(m, ds, m, cs)
    BY <1>4, <1>5, <1>6, <2>1, OneDigest
  <2> QED BY <2>2 DEF OneStore, cs
<1>8. IntoStore(a) = [snapshot |-> m.snapshot, records |-> m.records, chunks |-> s.chunks]
  BY <1>7 DEF IntoStore, StoreArtifact
<1>9. m.snapshot = s.snapshot /\ m.records = s.records
  BY DEF IsSentStore
<1> QED BY <1>2, <1>8, <1>9 DEF StoreOK

\* What is sent of a store is read back.
LEMMA StoreAccepted ==
  ASSUME NEW s, StoreOK(s), NEW m, NEW l, IsSentStore(s, m, l)
  PROVE  KFromBytes(l).ok
<1> DEFINE cs == s.chunks
           n == Len(cs)
           lines == l.lines
           kinds == <<"manifest">> \o [i \in 1..n |-> "chunk"]
           a == [manifest |-> lines[1].manifest, chunks |-> [i \in 1..n |-> lines[i + 1].chunk]]
           yes == TRUE
<1>1. n \in Nat /\ cs = [i \in 1..n |-> cs[i]] /\ KWired(n, cs, m, l) /\ Sealed(l, m) /\ m.count = n /\ l = KToBytes(StoreArtifact(cs, m))
  BY DEF StoreOK, IsSentStore
<1>2. Headed(lines, ManifestLine(m), ChunkLines(cs), n)
  BY <1>1 DEF KWired
<1>3. lines[1].t = "manifest" /\ lines[1].manifest = m
  <2>1. lines[1] = ManifestLine(m)
    BY <1>2 DEF Headed
  <2> QED BY <2>1, BlankedManifest
<1> HIDE DEF lines, cs, n
<1>5. \A i \in 1..n : lines[i + 1] = ChunkLine(cs[i])
  BY <1>1, <1>2 DEF Headed, ChunkLines
<1>6. \A i \in 1..n : lines[i + 1].t = "chunk" /\ lines[i + 1].chunk = cs[i]
  BY <1>5, KindsApart
<1>7. Len(lines) = n + 1
  BY <1>2 DEF Headed
<1>8. Shape(lines, kinds)
  BY <1>1, <1>3, <1>6, <1>7, ShapeHead
<1>9. ~ Len(lines) < 1
  BY <1>1, <1>7
<1>10. a = StoreArtifact(cs, m)
  BY <1>1, <1>3, <1>6 DEF StoreArtifact
<1>11. KComputedChecksum(a) = m.checksum
  <2>1. KComputedChecksum(StoreArtifact(cs, m)) = <<Blanked(l)>>
    BY <1>1 DEF KComputedChecksum
  <2> HIDE DEF a
  <2> QED BY <1>1, <1>10, <2>1 DEF Sealed
<1>12. KFromBytes(l) = IF Len(lines) < 1 \/ lines[1].t # "manifest" THEN Err
                       ELSE IF ~ Shape(lines, kinds) THEN Err
                       ELSE IF KComputedChecksum(a) # a.manifest.checksum THEN Err
                       ELSE [ok |-> yes, of |-> a]
  <2>1. n = lines[1].manifest.count
    BY <1>1, <1>3
  <2> QED BY <2>1 DEF KFromBytes, lines
<1>13. a.manifest = m
  BY <1>3
<1> HIDE DEF a, kinds, yes
<1>14. KFromBytes(l) = [ok |-> yes, of |-> a]
  BY <1>3, <1>8, <1>9, <1>11, <1>12, <1>13
<1>15. KFromBytes(l).ok = yes
  BY <1>14
<1> QED BY <1>15 DEF yes

\* Damaged bytes that are read are read under the seal.
LEMMA SealedStore ==
  ASSUME NEW s, StoreOK(s), NEW m, NEW l, IsSentStore(s, m, l), NEW b, Hurt(b, l), KFromBytes(b).ok
  PROVE  b.lines[1].manifest = m
<1> DEFINE n == Len(s.chunks)
           c == b.lines[1].manifest.count
           ds == [i \in 1..c |-> b.lines[i + 1].chunk]
           w == b.lines[1].manifest
           z == [manifest |-> w, chunks |-> ds]
<1>1. b.lines[1].t = "manifest" /\ KComputedChecksum(z) = w.checksum /\ ~ Len(b.lines) < 1
  BY KRecognised
<1>2. n \in Nat /\ s.chunks = [i \in 1..n |-> s.chunks[i]] /\ KWired(n, s.chunks, m, l) /\ Sealed(l, m) /\ m.count = n
  BY DEF StoreOK, IsSentStore
<1>3. l.lines[1].manifest = m /\ "count" \in DOMAIN m /\ "checksum" \in DOMAIN m /\ m = [f \in DOMAIN m |-> m[f]]
  BY BlankedManifest DEF IsSentStore, Manifested
<1>4. KComputedChecksum(z) = <<Blanked(KToBytes(StoreArtifact(ds, w)))>>
  <2>1. z = StoreArtifact(ds, w)
    BY DEF StoreArtifact
  <2> HIDE DEF z
  <2> QED BY <2>1 DEF KComputedChecksum
<1> DEFINE r == KToBytes(StoreArtifact(ds, w))
<1> HIDE DEF z, r
<1>5. ~ Headless(b)
  <2>1. Len(<<>>) = 0
    OBVIOUS
  <2>2. b.lines # <<>>
    <3> SUFFICES ASSUME b.lines = <<>> PROVE FALSE
      OBVIOUS
    <3>1. Len(b.lines) = 0
      BY <2>1
    <3>2. 0 < 1
      OBVIOUS
    <3> QED BY <1>1, <3>1, <3>2
  <2> QED BY <1>1, <2>2 DEF Headless
<1>6. CASE HeadKept(b, l)
  BY <1>3, <1>6 DEF HeadKept
<1>7. CASE Respaced(b, l)
  BY <1>3, <1>7 DEF Respaced
<1>8. CASE Recounted(b, l)
  <2>1. PICK e \in Nat : e # m.count /\ b.lines[1] = ManifestLine([m EXCEPT !.count = e])
    BY <1>3, <1>8 DEF Recounted
  <2>2. w = [m EXCEPT !.count = e]
    BY <2>1, BlankedManifest
  <2>3. w.count = e /\ w.checksum = m.checksum
    BY <1>3, <2>2
  <2>4. c = e
    BY <2>3
  <2> HIDE DEF w, c
  <2>5. ds = [i \in 1..e |-> ds[i]]
    BY <2>4
  <2> HIDE DEF ds
  <2>6. KWired(e, ds, w, r)
    BY <2>5, KWireIs DEF r
  <2>7. <<Blanked(r)>> = <<Blanked(l)>>
    BY <1>1, <1>2, <1>4, <2>3 DEF Sealed, r
  <2>8. Blanked(r) = Blanked(l)
    BY <2>7
  <2> DEFINE v == [w EXCEPT !.checksum = <<>>]
             u == [m EXCEPT !.checksum = <<>>]
  <2>9. v = u
    <3> DEFINE cs == s.chunks
    <3>1. cs = [i \in 1..n |-> cs[i]] /\ KWired(n, cs, m, l) /\ n \in Nat
      BY <1>2
    <3> HIDE DEF cs, n
    <3>2. OneStore(w, ds, m, cs)
      BY <2>5, <2>6, <2>8, <3>1, OneDigest
    <3> QED BY <3>2 DEF OneStore, Unsealed
  <2>10. v.count = e /\ u.count = m.count
    BY <1>3, <2>2
  <2> HIDE DEF v, u
  <2> QED BY <2>1, <2>9, <2>10
<1>9. CASE Unsigned(b)
  <2>1. <<Blanked(r)>> = <<>>
    BY <1>1, <1>4, <1>9 DEF Unsigned, r
  <2> QED BY <2>1
<1> QED BY <1>5, <1>6, <1>7, <1>8, <1>9 DEF Hurt

KArtifactInputOK == For("kartifact") => StoreOK(input.store)

\* A knowledge artifact is taken as it was sent, or refused: of any store and any damage.
LEMMA StoreTaken == KArtifactInputOK => KnowledgeExactOrRefused
<1> SUFFICES ASSUME For("kartifact"), StoreOK(input.store) PROVE KnowledgeExactOrRefused
  BY DEF KArtifactInputOK, KnowledgeExactOrRefused
<1> DEFINE a == KFromStore(input.store, "corpus")
           l == KToBytes(a.of)
           no == FALSE
<1>1. ASSUME ~ a.ok PROVE \E c \in ToSet(input.store.chunks) : ~ c.embedded
  <2> DEFINE bare == \E c \in ToSet(input.store.chunks) : ~ c.embedded
             d == [[chunks |-> input.store.chunks,
                    manifest |-> [corpus |-> "corpus", snapshot |-> input.store.snapshot, records |-> input.store.records,
                                  count |-> Len(input.store.chunks), asof |-> DataAsOf(input.store.chunks), checksum |-> <<>>]]
                   EXCEPT !.manifest.checksum = KComputedChecksum(
                     [chunks |-> input.store.chunks,
                      manifest |-> [corpus |-> "corpus", snapshot |-> input.store.snapshot, records |-> input.store.records,
                                    count |-> Len(input.store.chunks), asof |-> DataAsOf(input.store.chunks), checksum |-> <<>>]])]
             yes == TRUE
  <2>1. a = IF bare THEN Err ELSE [ok |-> yes, of |-> d]
    BY DEF KFromStore
  <2> HIDE DEF bare, d, yes, a
  <2>2. ASSUME ~ bare PROVE a.ok = yes
    BY <2>1, <2>2
  <2>3. bare
    BY <1>1, <2>2 DEF yes
  <2> QED BY <2>3 DEF bare
<1>2. ASSUME a.ok
      PROVE  /\ KFromBytes(l).ok
             /\ \A b \in Damaged(l) : KFromBytes(b).ok => IntoStore(KFromBytes(b).of) = input.store
  <2>1. PICK m : IsSentStore(input.store, m, l)
    BY <1>2, StoreSent
  <2> HIDE DEF l
  <2>2. KFromBytes(l).ok
    BY <2>1, StoreAccepted
  <2>3. ASSUME NEW b \in Damaged(l), KFromBytes(b).ok PROVE IntoStore(KFromBytes(b).of) = input.store
    <3>1. Manifested(l, m, Len(input.store.chunks) + 1)
      BY <2>1 DEF IsSentStore
    <3>2. Hurt(b, l)
      BY <3>1, DamageHurts
    <3>3. b.lines[1].manifest = m
      BY <2>1, <2>3, <3>2, SealedStore
    <3> QED BY <2>1, <2>3, <3>3, StoreRead
  <2> QED BY <2>2, <2>3
<1> QED BY <1>1, <1>2 DEF KnowledgeExactOrRefused, a, l

(***************************************************************************)
(* The addresses of an artifact, and the id of an origin.                  *)
(***************************************************************************)

\* One step of the way, and where a path without dots is taken.
Stepped(at, s) == CASE s = "." -> at
                 [] s = ".." -> IF at = <<>> THEN at ELSE Front(at)
                 [] OTHER -> Append(at, s)

\* A path of plain components is walked as it stands.
LEMMA WalkedPlain ==
  ASSUME NEW L, NEW path \in Seq(L), \A i \in 1..Len(path) : path[i] # "." /\ path[i] # ".."
  PROVE  Walked(path) = path
<1> DEFINE n == Len(path)
           X == Seq(L)
           Run(g) == g = [s \in SUBSET (1..n) |-> IF s = {} THEN <<>> ELSE Stepped(g[s \ {Max(s)}], path[Max(s)])]
           step == [p \in (1..n) \X X |-> Append(p[2], path[p[1]])]
           c == Top(n)
<1>1. n \in Nat /\ DOMAIN path = 1..n /\ \A i \in 1..n : path[i] \in L
  OBVIOUS
<1>2. \A a : \A i \in 1..n : Stepped(a, path[i]) = Append(a, path[i])
  BY DEF Stepped
<1>3. step \in [(1..n) \X X -> X] /\ <<>> \in X
  BY <1>1
<1> HIDE DEF n, X
<1>4. IsFiniteSet(1..n) /\ Picks(c, 1..n) /\ \A i \in 1..n : Max(1..i) = i /\ (1..i) \ {i} = 1..(i - 1) /\ 1..i # {}
  BY <1>1, TopPicks
<1>5. PICK g \in [SUBSET (1..n) -> X] : Folds(g, 1..n, <<>>, c, step)
  <2> HIDE DEF c, step
  <2> QED BY <1>3, <1>4, FoldDefines
<1>6. Run(g)
  <2>1. ASSUME NEW s \in SUBSET (1..n), s # {}
        PROVE  g[s] = Stepped(g[s \ {Max(s)}], path[Max(s)])
    <3>1. c[s] = Max(s) /\ Max(s) \in 1..n
      BY <1>4, <2>1 DEF Top, Picks
    <3>2. g[s] = step[<<c[s], g[s \ {c[s]}]>>] /\ g[s \ {c[s]}] \in X
      BY <1>5, <2>1 DEF Folds
    <3>3. g[s] = Append(g[s \ {Max(s)}], path[Max(s)])
      BY <3>1, <3>2
    <3> QED BY <1>2, <3>1, <3>3
  <2>2. g[{}] = <<>>
    BY <1>5 DEF Folds
  <2> HIDE DEF c, step
  <2> QED BY <1>5, <2>1, <2>2
<1> DEFINE h == CHOOSE f : Run(f)
<1>7. Run(h)
  <2> HIDE DEF Run
  <2> QED BY <1>6
<1>8. Walked(path) = h[1..n]
  BY <1>1 DEF Walked, FoldLeft, MapThenFoldSet, Stepped
<1> HIDE DEF h
<1>9. h[{}] = <<>> /\ \A i \in 1..n : h[1..i] = Append(h[1..(i - 1)], path[i])
  <2>1. {} \in SUBSET (1..n)
    OBVIOUS
  <2>2. ASSUME NEW i \in 1..n PROVE h[1..i] = Append(h[1..(i - 1)], path[i])
    <3>1. 1..i \in SUBSET (1..n) /\ 1..i # {} /\ Max(1..i) = i /\ (1..i) \ {i} = 1..(i - 1)
      BY <1>1, <1>4
    <3>2. h[1..i] = Stepped(h[1..(i - 1)], path[i])
      BY <1>7, <3>1
    <3> QED BY <1>2, <3>2
  <2> QED BY <1>7, <2>1, <2>2
<1> DEFINE Fore(i) == h[1..i] \in Seq(L) /\ Len(h[1..i]) = i /\ \A j \in 1..i : h[1..i][j] = path[j]
           T == {i \in 0..n : Fore(i)}
<1>10. 0 \in T
  <2>1. h[1..0] = <<>>
    <3>1. 1..0 = {}
      OBVIOUS
    <3> QED BY <1>9, <3>1
  <2>2. <<>> \in Seq(L) /\ Len(<<>>) = 0 /\ \A j : j \notin 1..0
    OBVIOUS
  <2>3. Fore(0)
    BY <2>1, <2>2
  <2> HIDE DEF Fore
  <2> QED BY <1>1, <2>3
<1>11. \A i \in 0..(n - 1) : i \in T => i + 1 \in T
  <2> TAKE i \in 0..(n - 1)
  <2> HAVE i \in T
  <2> DEFINE a == h[1..i]
             b == h[1..(i + 1)]
  <2>1. i + 1 \in 1..n /\ (i + 1) - 1 = i /\ i + 1 \in 0..n /\ i \in Nat
    BY <1>1
  <2>2. b = Append(a, path[i + 1])
    <3>1. h[1..(i + 1)] = Append(h[1..((i + 1) - 1)], path[i + 1])
      BY <1>9, <2>1
    <3> QED BY <2>1, <3>1
  <2>3. a \in Seq(L) /\ Len(a) = i /\ \A j \in 1..i : a[j] = path[j]
    OBVIOUS
  <2>4. path[i + 1] \in L
    BY <1>1, <2>1
  <2> HIDE DEF a, b
  <2>5. b \in Seq(L) /\ Len(b) = i + 1 /\ b[i + 1] = path[i + 1] /\ \A j \in 1..i : b[j] = a[j]
    BY <2>1, <2>2, <2>3, <2>4
  <2>6. \A j \in 1..(i + 1) : b[j] = path[j]
    BY <2>1, <2>3, <2>5
  <2> QED BY <2>1, <2>5, <2>6 DEF b
<1> HIDE DEF T
<1>12. \A i \in 0..n : i \in T
  BY <1>1, <1>10, <1>11, UpTo
<1>13. Fore(n)
  BY <1>1, <1>12 DEF T
<1> DEFINE w == h[1..n]
<1>14. w \in Seq(L) /\ Len(w) = n /\ \A j \in 1..n : w[j] = path[j]
  BY <1>13
<1> HIDE DEF w
<1>15. w = path
  BY <1>1, <1>14
<1> QED BY <1>8, <1>15 DEF w

\* Any id, and any others.
AddressInputOK == For("address") => \E L : input.id \in Seq(L) /\ input.others \in SUBSET Seq(L)
\* An id of one component, and the third component of its addresses.
Single(id) == id = [i \in 1..1 |-> id[i]] /\ Len(id) = 1
PlainId(id) == Single(id) /\ id[1] # "." /\ id[1] # ".."
AtHome(p, id) == Walked(p) = p /\ Len(p) > 3 /\ p[3] = id[1] /\ \E L : p \in Seq(L)

\* The paths of a plain id.
LEMMA PathOf ==
  ASSUME NEW id, PlainId(id), NEW S, "." \notin S, ".." \notin S, id[1] \in S, NEW a \in S, NEW b \in S, NEW t \in Seq(S), t # <<>>
  PROVE  AtHome(<<a, b>> \o id \o t, id)
<1> DEFINE u == <<a, b>>
           v == u \o id
           p == v \o t
<1>1. u \in Seq(S) /\ Len(u) = 2 /\ u[1] = a /\ u[2] = b
  OBVIOUS
<1>2. id \in Seq(S) /\ Len(id) = 1
  <2>1. \A i \in 1..1 : id[i] \in S
    OBVIOUS
  <2>2. id \in [1..1 -> S]
    BY <2>1 DEF PlainId, Single
  <2>3. \A n \in Nat : \A f \in [1..n -> S] : f \in Seq(S)
    OBVIOUS
  <2> QED BY <2>2, <2>3 DEF PlainId, Single
<1>3. t \in Seq(S) /\ Len(t) > 0
  OBVIOUS
<1> HIDE DEF u
<1>4. v \in Seq(S) /\ IsJoined(v, u, id)
  BY <1>1, <1>2, Joined
<1> HIDE DEF v
<1>5. p \in Seq(S) /\ IsJoined(p, v, t)
  BY <1>3, <1>4, Joined
<1> HIDE DEF p
<1>6. Len(v) = 3 /\ v[1] = a /\ v[2] = b /\ v[3] = id[1]
  <2>1. 1 \in 1..2 /\ 2 \in 1..2 /\ 1 \in 1..1
    OBVIOUS
  <2>2. v[1] = u[1] /\ v[2] = u[2] /\ v[2 + 1] = id[1] /\ Len(v) = 2 + 1
    BY <1>1, <1>2, <1>4, <2>1 DEF IsJoined
  <2> QED BY <1>1, <2>2
<1>7. Len(p) > 3 /\ p[3] = id[1]
  <2>1. 3 \in 1..3
    OBVIOUS
  <2>2. p[3] = v[3] /\ Len(p) = 3 + Len(t)
    BY <1>5, <1>6, <2>1 DEF IsJoined
  <2> QED BY <1>3, <1>6, <2>2
<1>8. \A i \in 1..Len(p) : p[i] # "." /\ p[i] # ".."
  BY <1>5
<1>9. Walked(p) = p
  BY <1>5, <1>8, WalkedPlain
<1> QED BY <1>5, <1>7, <1>9 DEF AtHome, p, v, u

\* A path is under its id's own directory, where no other id's paths are.
LEMMA HomeOf ==
  ASSUME NEW id, PlainId(id), NEW p \in Addresses(id)
  PROVE  AtHome(p, id)
<1> DEFINE S == {"hash", "version", "refs", "main", "sha", "workspace.yml", "workspace-graph.json", "knowledge", "contract",
                 "snap", "current", "corpus.json", id[1]}
           Named(a, b, t) == <<a, b>> \o id \o t
<1>0. "." \notin S /\ ".." \notin S /\ id[1] \in S
  BY DEF PlainId
<1>1. ASSUME NEW a \in S, NEW b \in S, NEW t \in Seq(S), t # <<>> PROVE AtHome(Named(a, b, t), id)
  <2> HIDE DEF S
  <2> QED BY <1>0, <1>1, PathOf
<1>2. /\ "hash" \in S /\ "version" \in S /\ "refs" \in S /\ "main" \in S /\ "sha" \in S /\ "workspace.yml" \in S
      /\ "workspace-graph.json" \in S /\ "knowledge" \in S /\ "contract" \in S /\ "snap" \in S /\ "current" \in S
      /\ "corpus.json" \in S
  OBVIOUS
<1> HIDE DEF S
<1>3. \A x \in S : <<x>> \in Seq(S) /\ <<x>> # <<>>
  OBVIOUS
<1>4. \A x, y \in S : <<x, y>> \in Seq(S) /\ <<x, y>> # <<>>
  OBVIOUS
<1>5. p \in {Named("hash", "version", <<"sha">>), Named("hash", "version", <<"refs", "main">>),
             Named("hash", "version", <<"workspace.yml">>), Named("hash", "version", <<"workspace-graph.json">>),
             Named("knowledge", "contract", <<"snap">>), Named("knowledge", "contract", <<"current">>),
             Named("knowledge", "contract", <<"corpus.json">>)}
  BY DEF Addresses, ContentAddress, PointerAddress, WorkspaceAddress, KnowledgeAddress
<1> HIDE DEF Named
<1>6. AtHome(Named("hash", "version", <<"sha">>), id)
  BY <1>1, <1>2, <1>3
<1>7. AtHome(Named("hash", "version", <<"refs", "main">>), id)
  BY <1>1, <1>2, <1>4
<1>8. AtHome(Named("hash", "version", <<"workspace.yml">>), id)
  BY <1>1, <1>2, <1>3
<1>9. AtHome(Named("hash", "version", <<"workspace-graph.json">>), id)
  BY <1>1, <1>2, <1>3
<1>10. AtHome(Named("knowledge", "contract", <<"snap">>), id)
  BY <1>1, <1>2, <1>3
<1>11. AtHome(Named("knowledge", "contract", <<"current">>), id)
  BY <1>1, <1>2, <1>3
<1>12. AtHome(Named("knowledge", "contract", <<"corpus.json">>), id)
  BY <1>1, <1>2, <1>3
<1> QED BY <1>5, <1>6, <1>7, <1>8, <1>9, <1>10, <1>11, <1>12

\* The addresses of two ids are apart: of any two ids.
LEMMA AddressesApart == AddressInputOK => AddressStaysHome
<1> SUFFICES ASSUME For("address"), IsValidIdSegment(input.id), NEW L, input.id \in Seq(L), input.others \in SUBSET Seq(L)
             PROVE  /\ \A p \in Addresses(input.id) : IsPrefix(SubSeq(p, 1, 2) \o input.id, Walked(p))
                    /\ \A other \in input.others \ {input.id} : IsValidIdSegment(other) =>
                         {Walked(p) : p \in Addresses(input.id)} \cap {Walked(p) : p \in Addresses(other)} = {}
  BY DEF AddressInputOK, AddressStaysHome
<1>1. ASSUME NEW id \in Seq(L), IsValidIdSegment(id) PROVE PlainId(id)
  <2>1. Len(id) = 1 /\ id[1] # "." /\ id[1] # ".."
    BY <1>1 DEF IsValidIdSegment
  <2>2. id = [i \in 1..1 |-> id[i]]
    BY <2>1
  <2> QED BY <2>1, <2>2 DEF PlainId, Single
<1>2. ASSUME NEW p \in Addresses(input.id) PROVE IsPrefix(SubSeq(p, 1, 2) \o input.id, Walked(p))
  <2> DEFINE id == input.id
             a == SubSeq(p, 1, 2)
             m == a \o id
  <2>0. AtHome(p, id) /\ id \in Seq(L) /\ Len(id) = 1
    BY <1>1, <1>2, HomeOf DEF PlainId, Single
  <2> HIDE DEF id
  <2>1. Walked(p) = p /\ Len(p) > 3 /\ p[3] = id[1]
    BY <2>0 DEF AtHome
  <2>01. PICK M : p \in Seq(M)
    BY <2>0 DEF AtHome
  <2>2. a \in Seq(M) /\ Len(a) = 2 /\ a[1] = p[1] /\ a[2] = p[2]
    BY <2>01, <2>1
  <2> HIDE DEF a
  <2> DEFINE U == L \cup M
  <2>02. a \in Seq(U) /\ id \in Seq(U)
    BY <2>0, <2>2
  <2> HIDE DEF U
  <2>3. m \in Seq(U) /\ IsJoined(m, a, id)
    BY <2>02, Joined
  <2>4. Len(m) = 3 /\ m[1] = p[1] /\ m[2] = p[2] /\ m[3] = p[3]
    <3>1. 1 \in 1..2 /\ 2 \in 1..2 /\ 1 \in 1..1
      OBVIOUS
    <3> HIDE DEF m
    <3>2. m[1] = a[1] /\ m[2] = a[2] /\ m[2 + 1] = id[1] /\ Len(m) = 2 + 1
      BY <2>0, <2>2, <2>3, <3>1 DEF IsJoined
    <3> QED BY <2>1, <2>2, <3>2
  <2> HIDE DEF m
  <2>5. IsPrefix(m, p)
    <3>1. \A i \in 1..3 : i = 1 \/ i = 2 \/ i = 3
      OBVIOUS
    <3>2. m = SubSeq(p, 1, 3)
      BY <2>01, <2>1, <2>3, <2>4, <3>1
    <3> QED BY <2>1, <2>4, <3>2 DEF IsPrefix
  <2> QED BY <2>1, <2>5 DEF m, a, id
<1>3. ASSUME NEW other \in input.others \ {input.id}, IsValidIdSegment(other),
             NEW p \in Addresses(input.id), NEW q \in Addresses(other), Walked(p) = Walked(q)
      PROVE  FALSE
  <2>1. AtHome(p, input.id) /\ AtHome(q, other) /\ PlainId(input.id) /\ PlainId(other)
    BY <1>1, <1>3, HomeOf
  <2>2. input.id[1] = other[1]
    BY <1>3, <2>1 DEF AtHome
  <2> DEFINE id == input.id
  <2>3. Single(id) /\ Single(other) /\ id[1] = other[1]
    BY <2>1, <2>2 DEF PlainId
  <2> HIDE DEF id
  <2>4. id = other
    BY <2>3 DEF Single
  <2> QED BY <1>3, <2>4 DEF id
<1> QED BY <1>2, <1>3

\* An origin as it is usually written: its id is the host and the path.
OriginOf(L) == [form : {"url", "scp", "path"}, user : BOOLEAN, port : BOOLEAN, abs : BOOLEAN, host : L,
                segs : Seq(L), git : BOOLEAN, slash : BOOLEAN]
UsualOrigin(o) == ~o.port /\ ~(o.git /\ o.slash) /\ o.form # "path" /\ (o.form = "scp" => (o.user \/ ~o.abs))

\* A join with nothing.
LEMMA NothingJoined ==
  ASSUME NEW L, NEW m \in Seq(L)
  PROVE  m \o <<>> = m
<1> DEFINE z == m \o <<>>
           e == <<>>
<1>1. e \in Seq(L) /\ Len(e) = 0
  OBVIOUS
<1> HIDE DEF e
<1>2. z \in Seq(L) /\ IsJoined(z, m, e)
  BY <1>1, Joined DEF e
<1>3. z \in Seq(L) /\ Len(z) = Len(m) /\ \A i \in 1..Len(m) : z[i] = m[i]
  BY <1>1, <1>2 DEF IsJoined
<1> HIDE DEF z
<1>4. z = m
  BY <1>3
<1> QED BY <1>4 DEF z

\* The id of a usual origin.
LEMMA UsualId ==
  ASSUME NEW L, NEW o \in OriginOf(L), UsualOrigin(o)
  PROVE  /\ Headed(NormalizeRepoId(o), o.host, o.segs, Len(o.segs))
         /\ Len(o.segs) \in Nat /\ o.segs = [i \in 1..Len(o.segs) |-> o.segs[i]]
<1> DEFINE segs == o.segs
           host == o.host
           n == Len(segs)
           m == <<host>> \o segs
<1>1. o.segs \in Seq(L) /\ o.host \in L /\ o.form \in {"url", "scp", "path"}
  BY DEF OriginOf
<1>2. NormalizeRepoId(o) = m \o <<>>
  <2>1. o.form = "url" \/ o.form = "scp"
    BY <1>1 DEF UsualOrigin
  <2>2. ~ (o.git /\ o.slash) /\ ~ o.port
    BY DEF UsualOrigin
  <2> DEFINE front == CASE o.form = "url" -> IF o.port THEN <<o.host, "_port">> ELSE <<o.host>>
                        [] o.form = "scp" /\ (o.user \/ ~o.abs) -> <<o.host>>
                        [] o.form = "scp" /\ ~o.user /\ o.abs -> <<o.host, "_">>
                        [] OTHER -> <<>>
             back == IF o.git /\ o.slash THEN <<".git">> ELSE <<>>
  <2>3. front = <<host>>
    <3>1. CASE o.form = "url"
      BY <2>2, <3>1
    <3>2. CASE o.form = "scp"
      <4>1. o.user \/ ~ o.abs
        BY <3>2 DEF UsualOrigin
      <4> QED BY <3>2, <4>1
    <3> QED BY <2>1, <3>1, <3>2
  <2>4. back = <<>>
    BY <2>2
  <2>5. NormalizeRepoId(o) = front \o o.segs \o back
    BY DEF NormalizeRepoId
  <2> HIDE DEF front, back
  <2> QED BY <2>3, <2>4, <2>5
<1> HIDE DEF segs, host
<1>3. segs \in Seq(L) /\ host \in L
  BY <1>1 DEF segs, host
<1>4. n \in Nat /\ segs = [i \in 1..n |-> segs[i]]
  BY <1>3
<1>5. m \in Seq(L)
  <2>1. <<host>> \in Seq(L)
    BY <1>3
  <2> QED BY <1>3, <2>1, Joined
<1> HIDE DEF n
<1>6. Headed(m, host, segs, n)
  BY <1>4, LinesOf
<1>7. m \o <<>> = m
  <2> HIDE DEF m
  <2> QED BY <1>5, NothingJoined
<1> HIDE DEF m
<1> QED BY <1>2, <1>4, <1>6, <1>7 DEF segs, host, n

OriginInputOK == For("origin") => \E L : input.a \in OriginOf(L) /\ input.b \in OriginOf(L)

\* Two usual origins with one id are of one host and one path: of any two.
LEMMA OriginsApart == OriginInputOK => SameOriginSameId
<1> SUFFICES ASSUME For("origin"), NEW L, input.a \in OriginOf(L), input.b \in OriginOf(L), UsualOrigin(input.a), UsualOrigin(input.b)
             PROVE  NormalizeRepoId(input.a) = NormalizeRepoId(input.b) <=> input.a.host = input.b.host /\ input.a.segs = input.b.segs
  BY DEF OriginInputOK, SameOriginSameId, UsualOrigin
<1> DEFINE x == input.a
           y == input.b
           p == NormalizeRepoId(x)
           q == NormalizeRepoId(y)
           n == Len(x.segs)
           k == Len(y.segs)
<1>0. x \in OriginOf(L) /\ y \in OriginOf(L) /\ UsualOrigin(x) /\ UsualOrigin(y)
  OBVIOUS
<1> HIDE DEF x, y
<1>1. Headed(p, x.host, x.segs, n) /\ Headed(q, y.host, y.segs, k)
  BY <1>0, UsualId
<1>2. n \in Nat /\ k \in Nat /\ x.segs = [i \in 1..n |-> x.segs[i]] /\ y.segs = [i \in 1..k |-> y.segs[i]]
  BY <1>0, UsualId
<1> DEFINE s == x.segs
           t == y.segs
<1> HIDE DEF x, y, p, q, n, k
<1>3. ASSUME p = q PROVE x.host = y.host /\ x.segs = y.segs
  <2>1. n = k
    <3>1. Len(p) = n + 1 /\ Len(q) = k + 1
      BY <1>1 DEF Headed
    <3> QED BY <1>2, <1>3, <3>1
  <2>2. x.host = y.host
    BY <1>1, <1>3 DEF Headed
  <2>3. \A i \in 1..n : s[i] = t[i]
    BY <1>1, <1>3, <2>1 DEF Headed
  <2>4. s = t
    BY <1>2, <2>1, <2>3
  <2> QED BY <2>2, <2>4
<1>4. ASSUME x.host = y.host, x.segs = y.segs PROVE p = q
  <2>1. n = k
    BY <1>4 DEF n, k
  <2>2. ASSUME NEW i \in 1..(n + 1) PROVE p[i] = q[i]
    <3>1. CASE i = 1
      BY <1>1, <1>4, <3>1 DEF Headed
    <3>2. CASE i - 1 \in 1..n /\ (i - 1) + 1 = i
      <4>1. p[(i - 1) + 1] = s[i - 1] /\ q[(i - 1) + 1] = t[i - 1]
        BY <1>1, <2>1, <3>2 DEF Headed
      <4> QED BY <1>4, <3>2, <4>1
    <3>3. i = 1 \/ (i - 1 \in 1..n /\ (i - 1) + 1 = i)
      BY <1>2
    <3> QED BY <3>1, <3>2, <3>3
  <2>3. p = [i \in 1..(n + 1) |-> p[i]] /\ q = [i \in 1..(n + 1) |-> q[i]]
    BY <1>1, <2>1 DEF Headed
  <2> QED BY <2>2, <2>3
<1> QED BY <1>3, <1>4 DEF x, y, p, q

\* The artifacts of any index and of any store arrive as they were sent or are refused, and
\* ids and addresses are apart.
ArtifactsInputOK == ArtifactInputOK /\ KArtifactInputOK /\ OriginInputOK /\ AddressInputOK

\* The promises of the artifacts, of their ids and of their addresses, of any input.
THEOREM ArtifactsAreFaithful == ArtifactsInputOK => ArtifactsFaithful
  BY ArtifactTaken, BuildsAlike, GraphPulled, StoreTaken, OriginsApart, AddressesApart DEF ArtifactsInputOK, ArtifactsFaithful
=============================================================================
