---------------------------- MODULE Recursion_proofs ----------------------------
(***************************************************************************)
(* Lemmas the loops of the code rest on, whatever they run over: induction *)
(* over positions, the value of a recursive function, and the positions of *)
(* the elements of a finite set that is sorted or read page by page.       *)
(***************************************************************************)
EXTENDS Integers, FiniteSets, FiniteSetTheorems, WellFoundedInduction, TLAPS

(* Every set of numbers that is finite and not empty has a least.          *)
LEMMA HasLeast ==
  ASSUME NEW S \in SUBSET Nat, IsFiniteSet(S), S # {}
  PROVE  \E a \in S : \A i \in S : a <= i
<1> DEFINE Least(X) == \E a \in X : \A i \in X : a <= i
           T == {X \in FiniteSubsetsOf(S) : X # {} /\ ~Least(X)}
<1>1. IsWellFoundedOn(StrictSubsetOrdering(S), FiniteSubsetsOf(S))
  BY FS_StrictSubsetOrderingWellFounded
<1>2. T = {}
  <2> SUFFICES ASSUME T # {} PROVE FALSE
    OBVIOUS
  <2>1. PICK X \in T : \A Y \in T : <<Y, X>> \notin StrictSubsetOrdering(S)
    <3> HIDE DEF Least
    <3>1. T \subseteq FiniteSubsetsOf(S)
      OBVIOUS
    <3> HIDE DEF T
    <3> QED BY <1>1, <3>1, WFMin
  <2>2. X \in SUBSET S /\ IsFiniteSet(X) /\ X # {} /\ ~Least(X)
    BY DEF FiniteSubsetsOf
  <2>3. PICK x \in X : TRUE
    BY <2>2
  <2>4. X \ {x} \in FiniteSubsetsOf(S) /\ <<X \ {x}, X>> \in StrictSubsetOrdering(S)
    BY <2>2, <2>3, FS_RemoveElement DEF FiniteSubsetsOf, StrictSubsetOrdering
  <2>5. X \ {x} = {} \/ Least(X \ {x})
    BY <2>1, <2>4
  <2>6. CASE X \ {x} = {}
    BY <2>2, <2>3, <2>6
  <2>7. CASE Least(X \ {x})
    <3>1. PICK a \in X \ {x} : \A i \in X \ {x} : a <= i
      BY <2>7
    <3>2. a \in Nat /\ x \in Nat /\ \A i \in X : i \in Nat
      BY <2>2, <2>3, <3>1
    <3>3. CASE a <= x
      BY <2>2, <3>1, <3>3
    <3>4. CASE x < a
      BY <2>2, <2>3, <3>1, <3>2, <3>4
    <3> QED BY <3>2, <3>3, <3>4
  <2> QED BY <2>5, <2>6, <2>7
<1>3. S \in FiniteSubsetsOf(S)
  BY DEF FiniteSubsetsOf
<1> QED BY <1>2, <1>3

(* What holds before the first step of a loop and is carried over every    *)
(* step holds after each of them.                                          *)
LEMMA Throughout ==
  ASSUME NEW n \in Nat, NEW G, 0 \in G,
         \A k \in 1..n : k - 1 \in G => k \in G
  PROVE  \A k \in 0..n : k \in G
<1> DEFINE Bad == {k \in 0..n : k \notin G}
<1> SUFFICES ASSUME Bad # {} PROVE FALSE
  OBVIOUS
<1>1. IsFiniteSet(Bad) /\ Bad \in SUBSET Nat
  <2>1. IsFiniteSet(0..n)
    BY FS_Interval
  <2> QED BY <2>1, FS_Subset
<1>2. PICK m \in Bad : \A k \in Bad : m <= k
  BY <1>1, HasLeast
<1>3. m \in 1..n /\ m - 1 \in 0..n /\ m - 1 \notin Bad
  BY <1>2
<1> QED BY <1>2, <1>3

IsRun(f, S, base, n, step) ==
  /\ f \in [0..n -> S] /\ f[0] = base
  /\ \A i \in 1..n : f[i] = step[i][f[i - 1]]

(* What a recursive definition over positions needs to mean something: its *)
(* value after every step exists.                                          *)
LEMMA Recursion ==
  ASSUME NEW S, NEW base \in S, NEW n \in Nat, NEW step \in [1..n -> [S -> S]]
  PROVE  \E f : IsRun(f, S, base, n, step)
<1> DEFINE Upto(k) == \E f \in [0..k -> S] :
                        f[0] = base /\ \A i \in 1..k : f[i] = step[i][f[i - 1]]
           G == {k \in 0..n : Upto(k)}
<1>1. 0 \in G
  <2>1. [i \in 0..0 |-> base] \in [0..0 -> S]
    OBVIOUS
  <2>2. [i \in 0..0 |-> base][0] = base /\ 1..0 = {}
    OBVIOUS
  <2>3. Upto(0)
    BY <2>1, <2>2, Zenon
  <2> HIDE DEF Upto
  <2> QED BY <2>3
<1>2. ASSUME NEW k \in 1..n, k - 1 \in G PROVE k \in G
  <2>1. PICK f \in [0..(k - 1) -> S] :
             f[0] = base /\ \A i \in 1..(k - 1) : f[i] = step[i][f[i - 1]]
    BY <1>2
  <2> DEFINE g == [i \in 0..k |-> IF i = k THEN step[k][f[k - 1]] ELSE f[i]]
  <2>2. k - 1 \in 0..(k - 1) /\ f[k - 1] \in S /\ step[k] \in [S -> S]
    BY <2>1
  <2>3. g \in [0..k -> S]
    BY <2>1, <2>2
  <2>4. g[0] = base /\ g[k] = step[k][g[k - 1]]
    BY <2>1, <2>2
  <2>5. ASSUME NEW i \in 1..(k - 1) PROVE g[i] = step[i][g[i - 1]]
    <3>1. i # k /\ i - 1 # k /\ i \in 0..k /\ i - 1 \in 0..k /\ i \in 0..(k - 1)
      OBVIOUS
    <3> QED BY <2>1, <3>1
  <2>6. \A i \in 1..k : g[i] = step[i][g[i - 1]]
    <3> HIDE DEF g
    <3> QED BY <2>4, <2>5
  <2> HIDE DEF g
  <2> QED BY <2>3, <2>4, <2>6
<1> HIDE DEF G
<1>3. \A k \in 0..n : k \in G
  BY <1>1, <1>2, Throughout
<1> QED BY <1>3 DEF G, IsRun

-----------------------------------------------------------------------------
(* Sorting: R says which element comes first. An element's position is the *)
(* number of those before it.                                              *)

Preceding(S, R, a) == {b \in S : <<b, a>> \in R}

Position(S, R, a) == Cardinality(Preceding(S, R, a))

Sorts(R, S) ==
  /\ \A a \in S : <<a, a>> \notin R
  /\ \A a, b \in S : a = b \/ <<a, b>> \in R \/ <<b, a>> \in R
  /\ \A a, b, c \in S : <<a, b>> \in R /\ <<b, c>> \in R => <<a, c>> \in R

(* The order of a finite set gives each element a position of its own, and *)
(* leaves none open.                                                       *)
LEMMA Positions ==
  ASSUME NEW S, IsFiniteSet(S), NEW R, Sorts(R, S)
  PROVE  /\ Cardinality(S) \in Nat
         /\ \A a \in S : Position(S, R, a) \in 0..(Cardinality(S) - 1)
         /\ \A a, b \in S : <<a, b>> \in R <=> Position(S, R, a) < Position(S, R, b)
         /\ \A a, b \in S : Position(S, R, a) = Position(S, R, b) => a = b
         /\ \A n \in 0..(Cardinality(S) - 1) : \E a \in S : Position(S, R, a) = n
<1> DEFINE N == Cardinality(S)
           P(a) == Preceding(S, R, a)
           p(a) == Position(S, R, a)
<1>1. N \in Nat
  BY FS_CardinalityType
<1>2. ASSUME NEW a \in S PROVE p(a) \in 0..(N - 1)
  <2>1. P(a) \subseteq S \ {a}
    BY DEF Preceding, Sorts
  <2>2. IsFiniteSet(S \ {a}) /\ Cardinality(S \ {a}) = N - 1
    BY FS_RemoveElement
  <2>3. IsFiniteSet(P(a)) /\ Cardinality(P(a)) <= N - 1
    <3> HIDE DEF P
    <3> QED BY <2>1, <2>2, FS_Subset
  <2>4. Cardinality(P(a)) \in Nat
    BY <2>3, FS_CardinalityType
  <2> QED BY <1>1, <2>3, <2>4 DEF Position
<1>3. ASSUME NEW a \in S, NEW b \in S, <<a, b>> \in R PROVE p(a) < p(b)
  <2>1. P(a) \subseteq P(b) /\ P(a) # P(b) /\ P(b) \subseteq S
    BY <1>3 DEF Preceding, Sorts
  <2>2. IsFiniteSet(P(b))
    <3> HIDE DEF P
    <3> QED BY <2>1, FS_Subset
  <2>3. Cardinality(P(a)) <= Cardinality(P(b)) /\ Cardinality(P(a)) # Cardinality(P(b))
    <3> HIDE DEF P
    <3> QED BY <2>1, <2>2, FS_Subset
  <2>4. p(a) \in Nat /\ p(b) \in Nat
    BY <1>1, <1>2
  <2> QED BY <2>3, <2>4 DEF Position
<1>n. \A a \in S : p(a) \in Nat
  BY <1>1, <1>2
<1>4. ASSUME NEW a \in S, NEW b \in S, p(a) = p(b) PROVE a = b
  <2>1. ~(p(a) < p(b)) /\ ~(p(b) < p(a))
    <3> HIDE DEF p
    <3> QED BY <1>n, <1>4
  <2>2. <<a, b>> \notin R /\ <<b, a>> \notin R
    <3> HIDE DEF p
    <3> QED BY <1>3, <2>1
  <2> QED BY <2>2 DEF Sorts
<1>5. ASSUME NEW a \in S, NEW b \in S PROVE <<a, b>> \in R <=> p(a) < p(b)
  <2>1. a = b \/ <<a, b>> \in R \/ <<b, a>> \in R
    BY DEF Sorts
  <2>2. <<a, a>> \notin R
    BY DEF Sorts
  <2> HIDE DEF p
  <2> QED BY <1>n, <1>3, <2>1, <2>2
<1>6. \A n \in 0..(N - 1) : \E a \in S : p(a) = n
  <2> DEFINE f == [a \in S |-> p(a)]
             T == 0..(N - 1)
  <2>1. f \in Injection(S, T)
    <3> HIDE DEF p
    <3> QED BY <1>2, <1>4 DEF Injection, IsInjective
  <2>2. IsFiniteSet(T) /\ Cardinality(T) = N
    BY <1>1, FS_Interval
  <2>3. f \in Surjection(S, T)
    <3> HIDE DEF f, T
    <3> QED BY <2>1, <2>2, FS_Injection
  <2> HIDE DEF p
  <2> QED BY <2>3 DEF Surjection
<1> QED BY <1>1, <1>2, <1>4, <1>5, <1>6

(* As many elements have one of the first positions as there are of these. *)
LEMMA FirstOnes ==
  ASSUME NEW S, IsFiniteSet(S), NEW R, Sorts(R, S), NEW k \in 0..Cardinality(S)
  PROVE  /\ IsFiniteSet({a \in S : Position(S, R, a) < k})
         /\ Cardinality({a \in S : Position(S, R, a) < k}) = k
<1> DEFINE N == Cardinality(S)
           F == {a \in S : Position(S, R, a) < k}
           T == 0..(k - 1)
           f == [a \in F |-> Position(S, R, a)]
<1>1. N \in Nat /\ k \in Nat /\ k <= N
  BY FS_CardinalityType
<1>2. IsFiniteSet(T) /\ Cardinality(T) = k
  <2>1. 0 \in Int /\ k - 1 \in Int /\ (k > 0 => k - 1 >= 0)
    BY <1>1
  <2>2. IsFiniteSet(T) /\ Cardinality(T) = IF 0 > k - 1 THEN 0 ELSE k - 1 - 0 + 1
    BY <2>1, FS_Interval, Zenon
  <2> HIDE DEF T
  <2> QED BY <1>1, <2>1, <2>2
<1>3. f \in [F -> T]
  BY <1>1, Positions
<1>4. f \in Injection(F, T)
  BY <1>3, Positions DEF Injection, IsInjective
<1>5. \A n \in T : \E a \in F : f[a] = n
  <2> SUFFICES ASSUME NEW n \in T PROVE \E a \in F : f[a] = n
    OBVIOUS
  <2>1. n \in 0..(N - 1) /\ n < k
    BY <1>1
  <2>2. PICK a \in S : Position(S, R, a) = n
    BY <2>1, Positions
  <2> QED BY <2>1, <2>2
<1>6. f \in Surjection(F, T)
  BY <1>3, <1>5 DEF Surjection
<1> HIDE DEF f, F, T
<1>7. IsFiniteSet(F) /\ Cardinality(F) = Cardinality(T)
  BY <1>2, <1>4, <1>6, FS_Injection
<1> QED BY <1>2, <1>7 DEF F
(* A set of numbers that is finite and not empty has a greatest, too.      *)
LEMMA HasGreatest ==
  ASSUME NEW S \in SUBSET Nat, IsFiniteSet(S), S # {}
  PROVE  \E a \in S : \A i \in S : i <= a
<1> DEFINE R == {x \in S \X S : x[1] < x[2]}
           N == Cardinality(S)
<1>1. Sorts(R, S)
  <2>1. \A a, b \in S : <<a, b>> \in R <=> a < b
    OBVIOUS
  <2>2. \A a \in S : a \in Nat
    OBVIOUS
  <2> HIDE DEF R
  <2> QED BY <2>1, <2>2 DEF Sorts
<1>2. \A a, b \in S : <<a, b>> \in R <=> a < b
  OBVIOUS
<1> HIDE DEF R
<1>3. N \in Nat /\ N > 0
  BY FS_CardinalityType, FS_EmptySet
<1>4. N - 1 \in 0..(N - 1)
  BY <1>3
<1>5. PICK a \in S : Position(S, R, a) = N - 1
  BY <1>1, <1>4, Positions
<1>6. ASSUME NEW i \in S, a < i PROVE FALSE
  <2>1. Position(S, R, a) < Position(S, R, i)
    BY <1>1, <1>2, <1>6, Positions
  <2>2. Position(S, R, i) \in 0..(N - 1)
    BY <1>1, Positions
  <2> QED BY <1>3, <1>5, <2>1, <2>2
<1>7. \A i \in S : a \in Nat /\ i \in Nat /\ ~(a < i)
  BY <1>6
<1> QED BY <1>7
=============================================================================
