-------------------------------- MODULE Sums --------------------------------
(***************************************************************************)
(* Sums over finite sets: what SumFunction of the community modules adds   *)
(* up.  Its recursion is a CHOOSE of a function over all subsets; that one *)
(* exists, and that no element is counted twice, is shown here once, by    *)
(* the smallest subset for which it would fail.                            *)
(***************************************************************************)
EXTENDS Integers, FiniteSets, Functions, FiniteSetTheorems, TLAPS

\* The element a sum takes first, and what it adds then.
First(s) == CHOOSE x \in s : TRUE
Adds(f, s, g) == IF s = {} THEN 0 ELSE f[First(s)] + g[s \ {First(s)}]

\* g adds up f over each part of S.
Summing(f, S, g) == g = [s \in SUBSET S |-> Adds(f, s, g)]

\* Of f over S, which may be a part of its domain.
Sum(f, S) == SumFunctionOnSet(f, S)

\* A set of natural numbers that holds any has a least one.
LEMMA Lowest ==
    ASSUME NEW N, N \subseteq Nat, N # {}
    PROVE  \E x \in N : \A y \in N : x <= y
  <1>1. PICK x \in N : \A y \in N : ~(<<y, x>> \in OpToRel(<, Nat))
    BY NatLessThanWellFounded, WFMin, Zenon
  <1>2. \A y \in N : ~(y < x)
    BY <1>1, Zenon DEF OpToRel
  <1>. QED  BY <1>2

\* What a finite set is left with when it loses its first element.
LEMMA Smaller ==
    ASSUME NEW s, IsFiniteSet(s), NEW x \in s
    PROVE  /\ IsFiniteSet(s \ {x})
           /\ Cardinality(s) \in Nat /\ Cardinality(s \ {x}) \in Nat
           /\ Cardinality(s \ {x}) = Cardinality(s) - 1
  BY FS_RemoveElement, FS_CardinalityType

\* It is one of the set.
LEMMA FirstIn == ASSUME NEW s, s # {} PROVE First(s) \in s
  BY DEF First

\* The recursion of a sum has a solution over a finite set.
LEMMA SumExists ==
    ASSUME NEW f, NEW S, IsFiniteSet(S)
    PROVE  \E g : Summing(f, S, g)
  <1> DEFINE Level(n) == {s \in SUBSET S : Cardinality(s) <= n}
             Solves(n, g) == g = [s \in Level(n) |-> Adds(f, s, g)]
             Without == {n \in Nat : ~\E g : Solves(n, g)}
  <1>1. \A s \in SUBSET S : IsFiniteSet(s) /\ Cardinality(s) \in Nat
    BY FS_Subset, FS_CardinalityType
  <1>2. Without = {}
    <2> SUFFICES ASSUME Without # {} PROVE FALSE
      OBVIOUS
    <2>1. PICK n \in Without : \A k \in Without : n <= k
      <3>1. Without \subseteq Nat
        OBVIOUS
      <3> HIDE DEF Without
      <3>. QED  BY <3>1, Lowest
    <2>2. n \in Nat /\ ~\E g : Solves(n, g)
      BY <2>1
    <2>3. CASE n = 0
      <3> DEFINE z == [s \in Level(0) |-> 0]
      <3>1. \A s \in Level(0) : s = {}
        BY <1>1, FS_EmptySet
      <3>2. z = [s \in Level(0) |-> Adds(f, s, z)]
        BY <3>1 DEF Adds
      <3>. QED  BY <2>2, <2>3, <3>2
    <2>4. CASE n # 0
      <3>0. n - 1 \in Nat /\ n - 1 < n
        BY <2>2, <2>4
      <3>1. n - 1 \in Nat /\ n - 1 \notin Without
        <4> HIDE DEF Without
        <4>. QED  BY <2>1, <2>2, <3>0
      <3>2. PICK g : Solves(n - 1, g)
        BY <3>1
      <3> DEFINE h == [s \in Level(n) |-> Adds(f, s, g)]
      <3>3. ASSUME NEW s \in Level(n), s # {}
            PROVE  h[s \ {First(s)}] = g[s \ {First(s)}]
        <4> DEFINE t == s \ {First(s)}
        <4>1. First(s) \in s
          BY <3>3, FirstIn
        <4>2. t \in Level(n) /\ t \in Level(n - 1)
          BY <1>1, <2>2, <4>1, Smaller
        <4> HIDE DEF t, Level
        <4>3. h[t] = Adds(f, t, g) /\ g[t] = Adds(f, t, g)
          BY <3>2, <4>2
        <4>. QED  BY <4>3 DEF t
      <3>4. \A s \in Level(n) : Adds(f, s, g) = Adds(f, s, h)
        BY <3>3 DEF Adds
      <3>5. Solves(n, h)
        BY <3>4
      <3>. QED  BY <2>2, <3>5
    <2>. QED  BY <2>3, <2>4
  <1>3. Cardinality(S) \in Nat
    BY <1>1
  <1>4. PICK g : Solves(Cardinality(S), g)
    BY <1>2, <1>3
  <1>5. Level(Cardinality(S)) = SUBSET S
    BY <1>1, FS_Subset
  <1>. QED  BY <1>4, <1>5 DEF Summing

\* Two solutions agree where both are defined.
LEMMA SumAgree ==
    ASSUME NEW f, NEW S, NEW T, IsFiniteSet(T), T \subseteq S,
           NEW g, Summing(f, S, g), NEW h, Summing(f, T, h)
    PROVE  g[T] = h[T]
  <1> DEFINE Apart == {s \in SUBSET T : g[s] # h[s]}
             Sizes == {Cardinality(s) : s \in Apart}
  <1>1. \A s \in SUBSET T : /\ IsFiniteSet(s) /\ Cardinality(s) \in Nat
                            /\ g[s] = Adds(f, s, g) /\ h[s] = Adds(f, s, h)
    BY FS_Subset, FS_CardinalityType DEF Summing
  <1>2. Apart = {}
    <2> SUFFICES ASSUME Apart # {} PROVE FALSE
      OBVIOUS
    <2>1. Sizes \subseteq Nat /\ Sizes # {}
      BY <1>1
    <2> HIDE DEF Sizes
    <2>2. PICK n \in Sizes : \A k \in Sizes : n <= k
      BY <2>1, Lowest
    <2>3. PICK s \in Apart : n = Cardinality(s)
      BY <2>2 DEF Sizes
    <2>4. s \in SUBSET T /\ s # {}
      BY <1>1, <2>3 DEF Adds
    <2> DEFINE t == s \ {First(s)}
    <2>5. t \in SUBSET T /\ Cardinality(t) \in Nat /\ Cardinality(t) = n - 1 /\ n \in Nat
      BY <1>1, <2>3, <2>4, FirstIn, Smaller
    <2>6. t \notin Apart
      BY <2>2, <2>5 DEF Sizes
    <2>7. g[t] = h[t]
      BY <2>5, <2>6
    <2>. QED  BY <1>1, <2>3, <2>4, <2>7 DEF Adds
  <1>. QED  BY <1>2

\* The library's sum is one of them.
LEMMA SumSolves ==
    ASSUME NEW f, NEW S
    PROVE  Sum(f, S) = (CHOOSE g : Summing(f, S, g))[S]
  BY DEF Sum, SumFunctionOnSet, FoldFunctionOnSet, MapThenFoldSet, Summing, Adds, First

\* The sum takes its first element off.
LEMMA SumFirst ==
    ASSUME NEW f, NEW S, IsFiniteSet(S)
    PROVE  Sum(f, S) = IF S = {} THEN 0 ELSE f[First(S)] + Sum(f, S \ {First(S)})
  <1> DEFINE of(s) == CHOOSE g : Summing(f, s, g)
             T == S \ {First(S)}
  <1>1. IsFiniteSet(T)
    BY FS_Subset
  <1>2. Summing(f, S, of(S)) /\ Summing(f, T, of(T))
    BY <1>1, SumExists
  <1>3. of(S)[S] = Adds(f, S, of(S))
    BY <1>2 DEF Summing
  <1> HIDE DEF of
  <1>4. Sum(f, S) = of(S)[S] /\ Sum(f, T) = of(T)[T]
    BY SumSolves DEF of
  <1>5. of(S)[T] = of(T)[T]
    BY <1>1, <1>2, SumAgree
  <1>. QED  BY <1>3, <1>4, <1>5 DEF Adds

\* It is an integer, and takes any element off.
LEMMA SumTakes ==
    ASSUME NEW S, IsFiniteSet(S), NEW f, \A x \in S : f[x] \in Int
    PROVE  /\ Sum(f, S) \in Int
           /\ \A x \in S : Sum(f, S) = f[x] + Sum(f, S \ {x})
  <1> DEFINE Fine(s) == /\ Sum(f, s) \in Int
                        /\ \A x \in s : Sum(f, s) = f[x] + Sum(f, s \ {x})
             Odd == {s \in SUBSET S : ~Fine(s)}
             Sizes == {Cardinality(s) : s \in Odd}
  <1>1. \A s \in SUBSET S : IsFiniteSet(s) /\ Cardinality(s) \in Nat
    BY FS_Subset, FS_CardinalityType
  <1>2. Odd = {}
    <2> SUFFICES ASSUME Odd # {} PROVE FALSE
      OBVIOUS
    <2>1. Sizes \subseteq Nat /\ Sizes # {}
      BY <1>1
    <2> HIDE DEF Sizes, Fine
    <2>2. PICK n \in Sizes : \A k \in Sizes : n <= k
      BY <2>1, Lowest
    <2>3. PICK s \in Odd : n = Cardinality(s)
      BY <2>2 DEF Sizes
    <2>4. s \in SUBSET S /\ IsFiniteSet(s) /\ ~Fine(s) /\ n \in Nat
      BY <1>1, <2>3
    <2>5. ASSUME NEW t \in SUBSET s, t # s PROVE Fine(t)
      <3>1. t \in SUBSET S /\ Cardinality(t) \in Nat /\ Cardinality(t) < n
        BY <1>1, <2>3, <2>4, <2>5, FS_Subset
      <3>2. t \notin Odd
        BY <2>2, <2>4, <3>1 DEF Sizes
      <3>. QED  BY <3>1, <3>2
    <2>6. Fine(s)
      <3>1. CASE s = {}
        <4>1. Sum(f, s) = 0
          BY <2>4, <3>1, SumFirst
        <4>. QED  BY <3>1, <4>1 DEF Fine
      <3>2. CASE s # {}
        <4> DEFINE c == First(s)
        <4>1. c \in s /\ Sum(f, s) = f[c] + Sum(f, s \ {c}) /\ f[c] \in Int
          BY <2>4, <3>2, FirstIn, SumFirst
        <4> HIDE DEF c
        <4>2. Fine(s \ {c})
          BY <2>5, <4>1
        <4>3. Sum(f, s \ {c}) \in Int /\ Sum(f, s) \in Int
          BY <4>1, <4>2 DEF Fine
        <4>4. ASSUME NEW x \in s PROVE Sum(f, s) = f[x] + Sum(f, s \ {x})
          <5>1. CASE x = c
            BY <4>1, <5>1
          <5>2. CASE x # c
            <6> DEFINE t == (s \ {x}) \ {c}
            <6>1. x \in s \ {c} /\ c \in s \ {x} /\ (s \ {c}) \ {x} = t /\ f[x] \in Int
              BY <2>4, <4>1, <5>2
            <6>2. Fine(s \ {x}) /\ Fine(t)
              BY <2>5, <4>1
            <6>3. Sum(f, s \ {c}) = f[x] + Sum(f, t)
              BY <4>2, <6>1 DEF Fine
            <6>4. Sum(f, s \ {x}) = f[c] + Sum(f, t)
              BY <6>1, <6>2 DEF Fine
            <6>5. Sum(f, t) \in Int
              BY <6>2 DEF Fine
            <6> HIDE DEF t
            <6>. QED  BY <4>1, <6>1, <6>3, <6>4, <6>5
          <5>. QED  BY <5>1, <5>2
        <4>. QED  BY <4>3, <4>4 DEF Fine
      <3>. QED  BY <3>1, <3>2
    <2>. QED  BY <2>4, <2>6
  <1>. QED  BY <1>2

\* Any solution gives it.
LEMMA SumIs ==
    ASSUME NEW f, NEW S, IsFiniteSet(S), NEW g, Summing(f, S, g)
    PROVE  Sum(f, S) = g[S]
  <1> DEFINE h == CHOOSE k : Summing(f, S, k)
  <1>1. Summing(f, S, h) /\ Sum(f, S) = h[S]
    BY SumExists, SumSolves
  <1> HIDE DEF h
  <1>. QED  BY <1>1, SumAgree

\* It depends on what f is on the set alone.
LEMMA SumCongruent ==
    ASSUME NEW f, NEW h, NEW S, IsFiniteSet(S), \A x \in S : f[x] = h[x]
    PROVE  Sum(f, S) = Sum(h, S)
  <1>1. PICK g : Summing(f, S, g)
    BY SumExists
  <1>2. \A s \in SUBSET S : Adds(f, s, g) = Adds(h, s, g)
    BY FirstIn DEF Adds
  <1>3. Summing(h, S, g)
    BY <1>1, <1>2 DEF Summing
  <1>. QED  BY <1>1, <1>3, SumIs

\* A new element adds its value.
LEMMA SumAdds ==
    ASSUME NEW S, IsFiniteSet(S), NEW x, x \notin S, NEW f, \A y \in S \cup {x} : f[y] \in Int
    PROVE  Sum(f, S \cup {x}) = Sum(f, S) + f[x] /\ Sum(f, S) \in Int
  <1> DEFINE T == S \cup {x}
  <1>1. IsFiniteSet(T) /\ x \in T /\ T \ {x} = S /\ \A y \in T : f[y] \in Int
    BY FS_AddElement
  <1> HIDE DEF T
  <1>2. Sum(f, T) = f[x] + Sum(f, S) /\ f[x] \in Int
    BY <1>1, SumTakes
  <1>3. Sum(f, S) \in Int
    BY SumTakes
  <1>. QED  BY <1>2, <1>3 DEF T

\* A lower function has no higher sum.
LEMMA SumLower ==
    ASSUME NEW S, IsFiniteSet(S), NEW f, NEW h,
           \A x \in S : f[x] \in Int /\ h[x] \in Int /\ h[x] <= f[x]
    PROVE  Sum(h, S) <= Sum(f, S)
  <1> DEFINE Odd == {s \in SUBSET S : ~(Sum(h, s) <= Sum(f, s))}
             Sizes == {Cardinality(s) : s \in Odd}
  <1>1. \A s \in SUBSET S : IsFiniteSet(s) /\ Cardinality(s) \in Nat
    BY FS_Subset, FS_CardinalityType
  <1>2. Odd = {}
    <2> SUFFICES ASSUME Odd # {} PROVE FALSE
      OBVIOUS
    <2>1. Sizes \subseteq Nat /\ Sizes # {}
      BY <1>1
    <2> HIDE DEF Sizes
    <2>2. PICK n \in Sizes : \A k \in Sizes : n <= k
      BY <2>1, Lowest
    <2>3. PICK s \in Odd : n = Cardinality(s)
      BY <2>2 DEF Sizes
    <2>4. s \in SUBSET S /\ IsFiniteSet(s) /\ n \in Nat
      BY <1>1, <2>3
    <2>5. s # {}
      <3>1. Sum(h, {}) = 0 /\ Sum(f, {}) = 0
        BY FS_EmptySet, SumFirst
      <3>. QED  BY <2>3, <3>1
    <2> DEFINE x == First(s)
               t == s \ {x}
    <2>6. x \in s /\ x \in S
      BY <2>4, <2>5, FirstIn
    <2> HIDE DEF x
    <2>7. t \in SUBSET S /\ IsFiniteSet(t) /\ Cardinality(t) = n - 1
      BY <1>1, <2>3, <2>4, <2>6, Smaller
    <2>8. Sum(h, t) <= Sum(f, t)
      <3>1. t \notin Odd
        BY <2>2, <2>4, <2>7 DEF Sizes
      <3>. QED  BY <2>7, <3>1
    <2>9. Sum(h, s) = h[x] + Sum(h, t) /\ Sum(f, s) = f[x] + Sum(f, t)
      BY <2>4, <2>6, SumTakes
    <2>10. Sum(h, t) \in Int /\ Sum(f, t) \in Int
      BY <2>7, SumTakes
    <2> HIDE DEF t
    <2>11. Sum(h, s) <= Sum(f, s)
      BY <2>6, <2>8, <2>9, <2>10
    <2>. QED  BY <2>3, <2>11
  <1>. QED  BY <1>2

\* Where f changes at one element, the sum changes by as much.
LEMMA SumChanges ==
    ASSUME NEW S, IsFiniteSet(S), NEW x \in S, NEW f, NEW h,
           \A y \in S : f[y] \in Int /\ h[y] \in Int,
           \A y \in S \ {x} : f[y] = h[y]
    PROVE  Sum(h, S) = Sum(f, S) + h[x] - f[x] /\ Sum(f, S) \in Int
  <1> DEFINE T == S \ {x}
  <1>1. IsFiniteSet(T) /\ \A y \in T : f[y] \in Int
    BY FS_Subset
  <1>2. Sum(f, T) = Sum(h, T) /\ Sum(f, T) \in Int
    BY <1>1, SumCongruent, SumTakes
  <1>3. Sum(f, S) = f[x] + Sum(f, T) /\ Sum(h, S) = h[x] + Sum(h, T)
    BY SumTakes
  <1> HIDE DEF T
  <1>. QED  BY <1>2, <1>3
=============================================================================
