----------------------------- MODULE DataLemmas -----------------------------
(* Facts about numbers and finite sets that the proofs of several components *)
(* rest on: least and greatest elements, and with them induction; sums. All  *)
(* are stated without operator parameters.                                   *)
EXTENDS Integers, FiniteSets, FiniteSetsExt, FiniteSetTheorems, WellFoundedInduction, TLAPS

\* A nonempty set of natural numbers has a least element.  Applied to the numbers
\* at which a fact fails, this is induction.
LEMMA Least ==
  ASSUME NEW S, S \subseteq Nat, S # {}
  PROVE  \E x \in S : \A y \in S : x <= y
<1> DEFINE R == OpToRel(<, Nat)
<1>1. IsWellFoundedOn(R, Nat)
  BY NatLessThanWellFounded
<1> HIDE DEF R
<1>2. PICK x \in S : \A y \in S : ~(<<y, x>> \in R)
  BY <1>1, WFMin
<1>3. \A y \in S : y < x => <<y, x>> \in R
  BY DEF R, OpToRel
<1>4. \A y \in S : ~(y < x)
  BY <1>2, <1>3
<1>5. \A y \in S : x <= y
  BY <1>4
<1> QED BY <1>5

\* A nonempty set of natural numbers up to n has a greatest element.
LEMMA Greatest ==
  ASSUME NEW n \in Nat, NEW S, S \subseteq 0 .. n, S # {}
  PROVE  \E x \in S : \A y \in S : y <= x
<1> DEFINE T == {n - x : x \in S}
<1>1. \A x \in S : x \in 0 .. n /\ n - x \in Nat
  OBVIOUS
<1>2. T \subseteq Nat
  BY <1>1
<1>3. T # {}
  <2>1. PICK x \in S : TRUE
    OBVIOUS
  <2>2. n - x \in T
    BY <2>1
  <2> QED BY <2>2
<1>4. PICK t \in T : \A u \in T : t <= u
  BY <1>2, <1>3, Least
<1>5. PICK x \in S : t = n - x
  OBVIOUS
<1>6. \A y \in S : n - x <= n - y
  BY <1>4, <1>5
<1>7. \A y \in S : y <= x
  BY <1>6, <1>1
<1> QED BY <1>7

\* Min and Max of a nonempty set of numbers are in it and bound it.
LEMMA MinAndMax ==
  ASSUME NEW n \in Nat, NEW S, S \subseteq 0 .. n, S # {}
  PROVE  /\ Min(S) \in S /\ \A x \in S : Min(S) <= x
         /\ Max(S) \in S /\ \A x \in S : x <= Max(S)
<1>1. PICK x \in S : \A y \in S : x <= y
  <2>1. S \subseteq Nat
    OBVIOUS
  <2> QED BY <2>1, Least
<1>2. PICK z \in S : \A y \in S : y <= z
  BY Greatest
<1>3. Min(S) \in S /\ \A x1 \in S : Min(S) <= x1
  BY <1>1 DEF Min
<1>4. \A y \in S : z >= y
  BY <1>2
<1>5. Max(S) \in S /\ \A x1 \in S : Max(S) >= x1
  BY <1>4 DEF Max
<1> QED BY <1>3, <1>5

-----------------------------------------------------------------------------
(* Sums over finite sets (MapThenSumSet of the community modules), of the   *)
(* values of a function                                                     *)

AnyOf(s) == CHOOSE x \in s : TRUE

\* g has the sum of f over each subset of S.
IsSum(g, f, S) == g = [s \in SUBSET S |-> IF s = {} THEN 0 ELSE f[AnyOf(s)] + g[s \ {AnyOf(s)}]]

Total(f, S) == (CHOOSE g : IsSum(g, f, S))[S]

\* Two sums of the same numbers agree.
LEMMA SumsAgree ==
  ASSUME NEW S, IsFiniteSet(S), NEW f1, NEW f2, \A x \in S : f1[x] = f2[x],
         NEW S1, NEW S2, S \subseteq S1, S \subseteq S2,
         NEW g1, IsSum(g1, f1, S1), NEW g2, IsSum(g2, f2, S2)
  PROVE  g1[S] = g2[S]
<1> DEFINE bad == {n \in Nat : \E T \in SUBSET S : Cardinality(T) = n /\ g1[T] # g2[T]}
<1>1. ASSUME bad # {} PROVE FALSE
  <2>1. PICK n \in bad : \A m \in bad : n <= m
    BY <1>1, Least
  <2>2. PICK T \in SUBSET S : Cardinality(T) = n /\ g1[T] # g2[T]
    OBVIOUS
  <2>3. T # {}
    BY <2>2 DEF IsSum
  <2>4. AnyOf(T) \in T
    BY <2>3 DEF AnyOf
  <2>5. IsFiniteSet(T \ {AnyOf(T)}) /\ Cardinality(T \ {AnyOf(T)}) = n - 1
    BY <2>2, <2>4, FS_Subset, FS_RemoveElement
  <2>6. Cardinality(T \ {AnyOf(T)}) \in Nat
    BY <2>5, FS_CardinalityType
  <2>7. g1[T \ {AnyOf(T)}] = g2[T \ {AnyOf(T)}]
    BY <2>1, <2>5, <2>6
  <2>8. g1[T] = f1[AnyOf(T)] + g1[T \ {AnyOf(T)}] /\ g2[T] = f2[AnyOf(T)] + g2[T \ {AnyOf(T)}]
    BY <2>3 DEF IsSum
  <2> QED BY <2>2, <2>4, <2>7, <2>8
<1>2. Cardinality(S) \in Nat
  BY FS_CardinalityType
<1> QED BY <1>1, <1>2

\* The sum of finitely many numbers is defined.
LEMMA SumExists ==
  ASSUME NEW S, IsFiniteSet(S), NEW f
  PROVE  IsSum(CHOOSE g : IsSum(g, f, S), f, S)
<1> DEFINE bad == {n \in Nat : \E T \in SUBSET S : Cardinality(T) = n /\ \A g : ~IsSum(g, f, T)}
<1>1. ASSUME bad # {} PROVE FALSE
  <2>1. PICK n \in bad : \A m \in bad : n <= m
    BY <1>1, Least
  <2>2. PICK T \in SUBSET S : Cardinality(T) = n /\ \A g : ~IsSum(g, f, T)
    OBVIOUS
  <2> DEFINE H(s) == CHOOSE g : IsSum(g, f, s)
             rest(s) == s \ {AnyOf(s)}
             sum == [s \in SUBSET T |-> IF s = {} THEN 0 ELSE f[AnyOf(s)] + H(rest(s))[rest(s)]]
  <2>3. ASSUME NEW s \in SUBSET T, s # {}
        PROVE  IsSum(H(rest(s)), f, rest(s)) /\ IsFiniteSet(rest(s))
    <3>1. AnyOf(s) \in s
      BY <2>3 DEF AnyOf
    <3>2. /\ IsFiniteSet(T) /\ IsFiniteSet(rest(s))
          /\ rest(s) \in SUBSET (T \ {AnyOf(s)}) /\ AnyOf(s) \in T
      BY <3>1, FS_Subset
    <3>3. Cardinality(rest(s)) <= n - 1 /\ Cardinality(rest(s)) \in Nat
      BY <2>2, <3>2, FS_Subset, FS_RemoveElement, FS_CardinalityType
    <3>4. Cardinality(rest(s)) \notin bad
      <4> DEFINE c == Cardinality(rest(s))
      <4>1. c \in bad => n <= c
        BY <2>1
      <4>2. c <= n - 1 /\ c \in Nat /\ n \in Nat
        BY <3>3
      <4> HIDE DEF c, bad
      <4>3. c \notin bad
        BY <4>1, <4>2
      <4> QED BY <4>3 DEF c
    <3>5. \E g : IsSum(g, f, rest(s))
      BY <3>2, <3>3, <3>4
    <3> QED BY <3>2, <3>5
  <2>4. ASSUME NEW s \in SUBSET T, s # {}
        PROVE  sum[rest(s)] = H(rest(s))[rest(s)]
    <3> DEFINE r == rest(s)
    <3>0. r \in SUBSET T
      OBVIOUS
    <3>1. CASE r = {}
      <4>1. IsSum(H(r), f, {})
        BY <2>3, <2>4, <3>1
      <4>2. H(r)[{}] = 0
        <5> HIDE DEF H
        <5> QED BY <4>1 DEF IsSum
      <4>3. sum[{}] = 0
        OBVIOUS
      <4> QED BY <3>1, <4>2, <4>3
    <3>2. CASE r # {}
      <4>1. IsSum(H(rest(r)), f, rest(r)) /\ IsFiniteSet(rest(r)) /\ IsSum(H(r), f, r)
        BY <2>3, <2>4, <3>0, <3>2
      <4>2. H(r)[rest(r)] = H(rest(r))[rest(r)]
        <5> HIDE DEF H
        <5>1. rest(r) \subseteq r
          OBVIOUS
        <5> HIDE DEF rest, r
        <5> QED BY <4>1, <5>1, SumsAgree
      <4>3. H(r)[r] = f[AnyOf(r)] + H(r)[rest(r)]
        BY <4>1, <3>2 DEF IsSum
      <4>4. sum[r] = f[AnyOf(r)] + H(rest(r))[rest(r)]
        BY <3>0, <3>2
      <4> QED BY <4>2, <4>3, <4>4
    <3> QED BY <3>1, <3>2
  <2>5. IsSum(sum, f, T)
    <3>1. \A s \in SUBSET T : sum[s] = IF s = {} THEN 0 ELSE f[AnyOf(s)] + sum[rest(s)]
      <4> HIDE DEF H
      <4> QED BY <2>4
    <3>2. sum = [s \in SUBSET T |-> sum[s]]
      OBVIOUS
    <3> HIDE DEF sum
    <3> QED BY <3>1, <3>2 DEF IsSum
  <2> QED BY <2>2, <2>5
<1>2. Cardinality(S) \in Nat
  BY FS_CardinalityType
<1>3. \E g : IsSum(g, f, S)
  BY <1>1, <1>2
<1> QED BY <1>3

\* A sum of numbers, and one without one of them.
LEMMA SumOf ==
  ASSUME NEW S, IsFiniteSet(S), NEW f, \A x \in S : f[x] \in Int
  PROVE  /\ Total(f, S) \in Int
         /\ \A x \in S : Total(f, S) = f[x] + Total(f, S \ {x})
<1> DEFINE g == CHOOSE h : IsSum(h, f, S)
<1>0. IsSum(g, f, S)
  BY SumExists
<1>1. \A T \in SUBSET S : Total(f, T) = g[T]
  <2> SUFFICES ASSUME NEW T \in SUBSET S PROVE Total(f, T) = g[T]
    OBVIOUS
  <2>1. IsFiniteSet(T)
    BY FS_Subset
  <2>2. IsSum(CHOOSE h : IsSum(h, f, T), f, T)
    BY <2>1, SumExists
  <2> HIDE DEF g
  <2> QED BY <1>0, <2>1, <2>2, SumsAgree DEF Total
<1> HIDE DEF g
<1> DEFINE good(T) == g[T] \in Int /\ \A x \in T : g[T] = f[x] + g[T \ {x}]
           bad == {n \in Nat : \E T \in SUBSET S : Cardinality(T) = n /\ ~good(T)}
<1>2. ASSUME bad # {} PROVE FALSE
  <2>1. PICK n \in bad : \A m \in bad : n <= m
    BY <1>2, Least
  <2>2. PICK T \in SUBSET S : Cardinality(T) = n /\ ~good(T)
    OBVIOUS
  <2>3. T # {}
    BY <1>0, <2>2 DEF IsSum
  <2>4. AnyOf(T) \in T
    BY <2>3 DEF AnyOf
  <2>5. ASSUME NEW x \in T PROVE good(T \ {x})
    <3>1. IsFiniteSet(T \ {x}) /\ Cardinality(T \ {x}) = n - 1
      BY <2>2, FS_Subset, FS_RemoveElement
    <3>2. Cardinality(T \ {x}) \in Nat
      BY <3>1, FS_CardinalityType
    <3> HIDE DEF good
    <3> QED BY <2>1, <3>1, <3>2
  <2>6. g[T] = f[AnyOf(T)] + g[T \ {AnyOf(T)}]
    BY <1>0, <2>3 DEF IsSum
  <2>7. g[T] \in Int
    <3>1. g[T \ {AnyOf(T)}] \in Int /\ f[AnyOf(T)] \in Int
      BY <2>4, <2>5
    <3> QED BY <2>6, <3>1
  <2>8. ASSUME NEW x \in T PROVE g[T] = f[x] + g[T \ {x}]
    <3>1. CASE x = AnyOf(T)
      BY <2>6, <3>1
    <3>2. CASE x # AnyOf(T)
      <4>1. g[T \ {AnyOf(T)}] = f[x] + g[(T \ {AnyOf(T)}) \ {x}]
        BY <2>4, <2>5, <3>2
      <4>2. g[T \ {x}] = f[AnyOf(T)] + g[(T \ {x}) \ {AnyOf(T)}]
        BY <2>4, <2>5, <3>2
      <4>3. (T \ {x}) \ {AnyOf(T)} = (T \ {AnyOf(T)}) \ {x}
        OBVIOUS
      <4>4. g[(T \ {x}) \ {AnyOf(T)}] \in Int
        <5>1. good((T \ {x}) \ {AnyOf(T)})
          <6>1. T \ {x} \in SUBSET S /\ (T \ {x}) \ {AnyOf(T)} \in SUBSET S
            OBVIOUS
          <6>2. IsFiniteSet((T \ {x}) \ {AnyOf(T)}) /\ Cardinality((T \ {x}) \ {AnyOf(T)}) = n - 2
            <7>1. IsFiniteSet(T \ {x}) /\ Cardinality(T \ {x}) = n - 1 /\ AnyOf(T) \in T \ {x}
              BY <2>2, <2>4, <3>2, FS_Subset, FS_RemoveElement
            <7>2. /\ IsFiniteSet((T \ {x}) \ {AnyOf(T)})
                  /\ Cardinality((T \ {x}) \ {AnyOf(T)}) = Cardinality(T \ {x}) - 1
              <8> DEFINE u == T \ {x} o == AnyOf(T)
              <8>1. IsFiniteSet(u) /\ o \in u
                BY <7>1
              <8> HIDE DEF u, o
              <8>2. IsFiniteSet(u \ {o}) /\ Cardinality(u \ {o}) = Cardinality(u) - 1
                BY <8>1, FS_RemoveElement
              <8> QED BY <8>2 DEF u, o
            <7>3. n \in Nat
              OBVIOUS
            <7> QED BY <7>1, <7>2, <7>3
          <6>3. Cardinality((T \ {x}) \ {AnyOf(T)}) \in Nat
            BY <6>2, FS_CardinalityType
          <6> HIDE DEF good
          <6> QED BY <2>1, <6>1, <6>2, <6>3
        <5> QED BY <5>1
      <4>5. f[x] \in Int /\ f[AnyOf(T)] \in Int
        BY <2>4
      <4> DEFINE a == g[T] b == f[AnyOf(T)] c == g[T \ {AnyOf(T)}] d == f[x] e == g[T \ {x}]
                 k == g[(T \ {x}) \ {AnyOf(T)}]
      <4>6. a = b + c /\ c = d + k /\ e = b + k
        BY <2>6, <4>1, <4>2, <4>3
      <4>7. b \in Int /\ d \in Int /\ k \in Int
        BY <4>4, <4>5
      <4> HIDE DEF a, b, c, d, e, k
      <4>8. a = d + e
        BY <4>6, <4>7
      <4> QED BY <4>8 DEF a, d, e
    <3> QED BY <3>1, <3>2
  <2> QED BY <2>2, <2>7, <2>8
<1>3. Cardinality(S) \in Nat
  BY FS_CardinalityType
<1>4. good(S)
  BY <1>2, <1>3
<1>5. \A x \in S : S \ {x} \in SUBSET S
  OBVIOUS
<1> QED BY <1>1, <1>4, <1>5

\* The same numbers have the same sum.
LEMMA SumSame ==
  ASSUME NEW S, IsFiniteSet(S), NEW f1, NEW f2, \A x \in S : f1[x] = f2[x]
  PROVE  Total(f1, S) = Total(f2, S)
BY SumExists, SumsAgree DEF Total

\* The sum of no numbers is zero.
LEMMA SumOfNone == ASSUME NEW f PROVE Total(f, {}) = 0
<1> DEFINE g == CHOOSE h : IsSum(h, f, {})
<1>1. IsSum(g, f, {})
  BY SumExists, FS_EmptySet
<1> HIDE DEF g
<1>2. g[{}] = 0
  BY <1>1 DEF IsSum
<1> QED BY <1>2 DEF Total, g

\* A sum of natural numbers is at least each of them.
LEMMA SumOfNat ==
  ASSUME NEW S, IsFiniteSet(S), NEW f, \A x \in S : f[x] \in Nat
  PROVE  Total(f, S) \in Nat /\ \A x \in S : f[x] <= Total(f, S)
<1> DEFINE bad == {n \in Nat : \E T \in SUBSET S : Cardinality(T) = n /\ ~(Total(f, T) \in Nat)}
<1>1. \A T \in SUBSET S : /\ IsFiniteSet(T) /\ Cardinality(T) \in Nat /\ Total(f, T) \in Int
                          /\ \A x \in T : Total(f, T) = f[x] + Total(f, T \ {x})
  BY FS_Subset, FS_CardinalityType, SumOf
<1>2. ASSUME bad # {} PROVE FALSE
  <2>1. PICK n \in bad : \A m \in bad : n <= m
    BY <1>2, Least
  <2>2. PICK T \in SUBSET S : Cardinality(T) = n /\ ~(Total(f, T) \in Nat)
    OBVIOUS
  <2>3. CASE T = {}
    <3> QED BY <2>2, <2>3, SumOfNone
  <2>4. CASE T # {}
    <3>1. PICK x \in T : TRUE
      BY <2>4
    <3>2. Cardinality(T \ {x}) = n - 1 /\ T \ {x} \in SUBSET S
      BY <1>1, <2>2, FS_RemoveElement
    <3>3. Cardinality(T \ {x}) \in Nat
      BY <1>1, <3>2
    <3>4. Total(f, T \ {x}) \in Nat
      BY <2>1, <3>2, <3>3
    <3>5. Total(f, T) = f[x] + Total(f, T \ {x}) /\ f[x] \in Nat
      BY <1>1
    <3> QED BY <2>2, <3>4, <3>5
  <2> QED BY <2>3, <2>4
<1>3. \A T \in SUBSET S : Total(f, T) \in Nat
  BY <1>1, <1>2
<1>4. ASSUME NEW x \in S PROVE f[x] <= Total(f, S)
  <2>1. S \ {x} \in SUBSET S /\ S \in SUBSET S
    OBVIOUS
  <2>2. Total(f, S) = f[x] + Total(f, S \ {x}) /\ Total(f, S \ {x}) \in Nat /\ f[x] \in Nat
    BY <1>1, <1>3, <2>1
  <2> QED BY <2>2
<1> QED BY <1>3, <1>4

\* A sum of larger numbers is no less.
LEMMA SumGrows ==
  ASSUME NEW S, IsFiniteSet(S), NEW f, NEW g,
         \A x \in S : f[x] \in Int /\ g[x] \in Int /\ f[x] <= g[x]
  PROVE  Total(f, S) <= Total(g, S)
<1> DEFINE bad == {n \in Nat : \E T \in SUBSET S : Cardinality(T) = n /\ ~(Total(f, T) <= Total(g, T))}
<1>1. \A T \in SUBSET S : IsFiniteSet(T) /\ Cardinality(T) \in Nat
  BY FS_Subset, FS_CardinalityType
<1>2. \A T \in SUBSET S : /\ Total(f, T) \in Int /\ Total(g, T) \in Int
                          /\ \A x \in T : /\ Total(f, T) = f[x] + Total(f, T \ {x})
                                          /\ Total(g, T) = g[x] + Total(g, T \ {x})
  BY <1>1, SumOf
<1>3. ASSUME bad # {} PROVE FALSE
  <2>1. PICK n \in bad : \A m \in bad : n <= m
    BY <1>3, Least
  <2>2. PICK T \in SUBSET S : Cardinality(T) = n /\ ~(Total(f, T) <= Total(g, T))
    OBVIOUS
  <2>3. CASE T = {}
    <3>1. Total(f, {}) = 0 /\ Total(g, {}) = 0
      BY SumOfNone
    <3> QED BY <2>2, <2>3, <3>1
  <2>4. CASE T # {}
    <3>1. PICK x \in T : TRUE
      BY <2>4
    <3>2. Cardinality(T \ {x}) = n - 1 /\ T \ {x} \in SUBSET S
      BY <1>1, <2>2, FS_RemoveElement
    <3>3. Cardinality(T \ {x}) \in Nat
      BY <1>1, <3>2
    <3>4. Total(f, T \ {x}) <= Total(g, T \ {x})
      BY <2>1, <3>2, <3>3
    <3>5. /\ Total(f, T) = f[x] + Total(f, T \ {x}) /\ Total(g, T) = g[x] + Total(g, T \ {x})
          /\ Total(f, T \ {x}) \in Int /\ Total(g, T \ {x}) \in Int
          /\ f[x] \in Int /\ g[x] \in Int /\ f[x] <= g[x]
      BY <1>2, <3>2
    <3> QED BY <2>2, <3>4, <3>5
  <2> QED BY <2>3, <2>4
<1> QED BY <1>3, <1>1

\* A sum moves with one of its numbers.
LEMMA SumMoves ==
  ASSUME NEW S, IsFiniteSet(S), NEW f, NEW g, NEW x \in S, NEW d \in Int, \A y \in S : f[y] \in Int,
         \A y \in S : g[y] = f[y] + (IF y = x THEN d ELSE 0)
  PROVE  Total(g, S) = Total(f, S) + d
<1> DEFINE rest == S \ {x}
<1>1. \A y \in S : g[y] \in Int
  OBVIOUS
<1>2. /\ Total(f, S) = f[x] + Total(f, rest) /\ Total(g, S) = g[x] + Total(g, rest)
  BY <1>1, SumOf
<1>3. IsFiniteSet(rest) /\ \A y \in rest : f[y] = g[y] /\ f[y] \in Int
  BY FS_Subset
<1>4. Total(f, rest) = Total(g, rest) /\ Total(f, rest) \in Int
  <2> HIDE DEF rest
  <2>1. Total(f, rest) = Total(g, rest)
    BY <1>3, SumSame
  <2>2. Total(f, rest) \in Int
    BY <1>3, SumOf
  <2> QED BY <2>1, <2>2
<1>5. g[x] = f[x] + d /\ f[x] \in Int
  OBVIOUS
<1> HIDE DEF rest
<1> QED BY <1>2, <1>4, <1>5

\* A sum over the numbers up to n is the one up to n - 1 and the last number.
LEMMA SumUpTo ==
  ASSUME NEW n \in Nat, NEW f, \A i \in 1 .. n : f[i] \in Int
  PROVE  /\ Total(f, 1 .. n) \in Int
         /\ n > 0 => Total(f, 1 .. n) = Total(f, 1 .. (n - 1)) + f[n]
<1>1. IsFiniteSet(1 .. n)
  BY FS_Interval
<1>2. Total(f, 1 .. n) \in Int /\ \A x \in 1 .. n : Total(f, 1 .. n) = f[x] + Total(f, (1 .. n) \ {x})
  BY <1>1, SumOf
<1>3. ASSUME n > 0 PROVE Total(f, 1 .. n) = Total(f, 1 .. (n - 1)) + f[n]
  <2>1. (1 .. n) \ {n} = 1 .. (n - 1) /\ n \in 1 .. n
    BY <1>3
  <2>2. IsFiniteSet(1 .. (n - 1)) /\ \A i \in 1 .. (n - 1) : f[i] \in Int
    BY <1>3, FS_Interval
  <2>3. Total(f, 1 .. (n - 1)) \in Int
    BY <2>2, SumOf
  <2>4. Total(f, 1 .. n) = f[n] + Total(f, 1 .. (n - 1)) /\ f[n] \in Int
    BY <1>2, <2>1
  <2> DEFINE a == Total(f, 1 .. n) b == Total(f, 1 .. (n - 1)) c == f[n]
  <2>5. a = c + b /\ b \in Int /\ c \in Int
    BY <2>3, <2>4
  <2> HIDE DEF a, b, c
  <2>6. a = b + c
    BY <2>5
  <2> QED BY <2>6 DEF a, b, c
<1> QED BY <1>2, <1>3

\* A sum of zeros is zero.
LEMMA SumOfZeros ==
  ASSUME NEW S, IsFiniteSet(S), NEW f, \A x \in S : f[x] = 0
  PROVE  Total(f, S) = 0
<1> DEFINE bad == {m \in Nat : \E T \in SUBSET S : Cardinality(T) = m /\ Total(f, T) # 0}
<1>1. \A T \in SUBSET S : IsFiniteSet(T) /\ Cardinality(T) \in Nat
  BY FS_Subset, FS_CardinalityType
<1>2. \A T \in SUBSET S : \A y \in T : Total(f, T) = f[y] + Total(f, T \ {y})
  <2> SUFFICES ASSUME NEW T \in SUBSET S, NEW y \in T
               PROVE  Total(f, T) = f[y] + Total(f, T \ {y})
    OBVIOUS
  <2>1. IsFiniteSet(T) /\ \A z \in T : f[z] \in Int
    BY <1>1
  <2> QED BY <2>1, SumOf
<1>3. ASSUME bad # {} PROVE FALSE
  <2>1. PICK m \in bad : \A k \in bad : m <= k
    BY <1>3, Least
  <2>2. PICK T \in SUBSET S : Cardinality(T) = m /\ Total(f, T) # 0
    OBVIOUS
  <2>3. PICK y \in T : TRUE
    BY <2>2, SumOfNone
  <2>4. Cardinality(T \ {y}) = m - 1 /\ T \ {y} \in SUBSET S
    BY <1>1, <2>2, FS_RemoveElement
  <2>5. Cardinality(T \ {y}) \in Nat
    BY <1>1, <2>4
  <2>6. Total(f, T \ {y}) = 0
    BY <2>1, <2>4, <2>5
  <2>7. Total(f, T) = f[y] + Total(f, T \ {y}) /\ f[y] = 0
    BY <1>2
  <2> QED BY <2>2, <2>6, <2>7
<1> QED BY <1>1, <1>3

-----------------------------------------------------------------------------
(* Folds over lists (FoldLeft of the community modules)                     *)

\* h is the fold of the steps over each set of places up to n, as MapThenFoldSet
\* takes them.
IsFold(h, step, base, n) ==
  \A s \in SUBSET (1 .. n) :
    h[s] = IF s = {} THEN base ELSE step[Max(s)][h[s \ {Max(s)}]]

\* The greatest place of a set, and what is left without it.
LEMMA LastPlace ==
  ASSUME NEW n \in Nat, NEW s \in SUBSET (1 .. n), s # {}
  PROVE  /\ Max(s) \in s /\ Max(s) \in 1 .. n
         /\ s \ {Max(s)} \in SUBSET (1 .. (Max(s) - 1))
<1>1. s \subseteq 0 .. n
  OBVIOUS
<1>2. Max(s) \in s /\ \A x \in s : x <= Max(s)
  BY <1>1, MinAndMax
<1> DEFINE m == Max(s)
<1>3. m \in s /\ \A x \in s : x <= m
  BY <1>2
<1> HIDE DEF m
<1>4. m \in 1 .. n /\ s \ {m} \subseteq 1 .. (m - 1)
  BY <1>3
<1> QED BY <1>3, <1>4 DEF m

\* The fold of a list is defined.
LEMMA FoldExists ==
  ASSUME NEW n \in Nat, NEW T, NEW base \in T, NEW step, \A i \in 1 .. n, t \in T : step[i][t] \in T
  PROVE  \E h \in [SUBSET (1 .. n) -> T] : IsFold(h, step, base, n)
<1> DEFINE bad == {m \in 0 .. n : ~\E h \in [SUBSET (1 .. m) -> T] : IsFold(h, step, base, m)}
<1>1. ASSUME bad # {} PROVE FALSE
  <2>1. PICK m \in bad : \A k \in bad : m <= k
    <3>1. bad \subseteq Nat
      OBVIOUS
    <3> HIDE DEF bad
    <3> QED BY <1>1, <3>1, Least
  <2>2. m \in 0 .. n /\ ~\E h \in [SUBSET (1 .. m) -> T] : IsFold(h, step, base, m)
    OBVIOUS
  <2>3. CASE m = 0
    <3> DEFINE h == [s \in SUBSET (1 .. m) |-> base]
    <3>1. 1 .. m = {}
      BY <2>3
    <3>2. IsFold(h, step, base, m)
      BY <3>1 DEF IsFold
    <3>3. h \in [SUBSET (1 .. m) -> T]
      OBVIOUS
    <3> QED BY <2>2, <3>2, <3>3
  <2>4. CASE m > 0
    <3>1. m - 1 \in 0 .. n /\ m - 1 \notin bad
      <4>1. m - 1 \in bad => m <= m - 1
        BY <2>1
      <4> HIDE DEF bad
      <4> QED BY <2>2, <2>4, <4>1
    <3>2. PICK g \in [SUBSET (1 .. (m - 1)) -> T] : IsFold(g, step, base, m - 1)
      BY <3>1
    <3> DEFINE h == [s \in SUBSET (1 .. m) |-> IF m \in s THEN step[m][g[s \ {m}]] ELSE g[s]]
    <3>3. \A s \in SUBSET (1 .. m) : /\ m \in s => s \ {m} \in SUBSET (1 .. (m - 1))
                                     /\ m \notin s => s \in SUBSET (1 .. (m - 1))
      <4> HIDE DEF bad
      <4> QED BY <2>2, <2>4
    <3>4. h \in [SUBSET (1 .. m) -> T]
      <4>1. \A s \in SUBSET (1 .. m) : h[s] \in T
        <5>1. m \in 1 .. n
          BY <2>2, <2>4
        <5> HIDE DEF bad
        <5> QED BY <3>2, <3>3, <5>1
      <4> HIDE DEF bad
      <4> QED BY <4>1
    <3>5. ASSUME NEW s \in SUBSET (1 .. m)
          PROVE  h[s] = IF s = {} THEN base ELSE step[Max(s)][h[s \ {Max(s)}]]
      <4>1. CASE m \in s
        <5>1. Max(s) = m
          <6>1. Max(s) \in 1 .. m /\ s \ {Max(s)} \in SUBSET (1 .. (Max(s) - 1))
            <7>1. m \in Nat /\ s # {}
              BY <2>2, <4>1
            <7> HIDE DEF bad
            <7> QED BY <7>1, LastPlace
          <6> DEFINE x == Max(s)
          <6>2. x \in 1 .. m /\ s \ {x} \subseteq 1 .. (x - 1)
            BY <6>1
          <6> HIDE DEF x, bad
          <6>3. x = m
            BY <6>2, <4>1, <2>2
          <6> QED BY <6>3 DEF x
        <5>2. h[s \ {m}] = g[s \ {m}]
          OBVIOUS
        <5> HIDE DEF bad
        <5> QED BY <4>1, <5>1, <5>2
      <4>2. CASE m \notin s /\ s # {}
        <5>1. s \in SUBSET (1 .. (m - 1))
          BY <3>3, <4>2
        <5>2. s \ {Max(s)} \in SUBSET (1 .. (m - 1)) /\ m \notin s \ {Max(s)}
          BY <5>1, <4>2
        <5>3. h[s] = g[s] /\ h[s \ {Max(s)}] = g[s \ {Max(s)}]
          BY <4>2, <5>2
        <5>4. g[s] = step[Max(s)][g[s \ {Max(s)}]]
          BY <3>2, <4>2, <5>1 DEF IsFold
        <5> HIDE DEF bad, h
        <5> QED BY <4>2, <5>3, <5>4
      <4>3. CASE s = {}
        <5>1. g[{}] = base
          BY <3>2 DEF IsFold
        <5> QED BY <4>3, <5>1
      <4> QED BY <4>1, <4>2, <4>3
    <3>6. IsFold(h, step, base, m)
      <4> HIDE DEF h, bad
      <4> QED BY <3>5 DEF IsFold
    <3> QED BY <2>2, <3>4, <3>6
  <2> QED BY <2>2, <2>3, <2>4
<1>2. bad = {}
  BY <1>1
<1>3. n \in 0 .. n
  OBVIOUS
<1>4. n \notin bad
  <2> HIDE DEF bad
  <2> QED BY <1>2
<1> QED BY <1>3, <1>4

\* The places up to i are those up to i - 1 and the last one, i.
LEMMA LastOfPlaces ==
  ASSUME NEW i \in Nat \ {0}
  PROVE  Max(1 .. i) = i /\ (1 .. i) \ {Max(1 .. i)} = 1 .. (i - 1)
<1> DEFINE m == Max(1 .. i)
<1>1. m \in 1 .. i /\ (1 .. i) \ {m} \subseteq 1 .. (m - 1)
  <2>1. 1 .. i \in SUBSET (1 .. i) /\ 1 .. i # {}
    OBVIOUS
  <2> QED BY <2>1, LastPlace
<1> HIDE DEF m
<1>2. m = i
  BY <1>1
<1> QED BY <1>2 DEF m
-----------------------------------------------------------------------------
(* Loops over numbers (recursive functions on 0 .. n), and parts of sums    *)

\* What holds at 0, and at each number up to n when it holds before it, holds up to n.
LEMMA StepByStep ==
  ASSUME NEW n \in Nat, NEW S, 0 \in S, \A i \in 1 .. n : i - 1 \in S => i \in S
  PROVE  \A i \in 0 .. n : i \in S
<1> DEFINE bad == (0 .. n) \ S
<1>1. ASSUME bad # {} PROVE FALSE
  <2>1. PICK m \in bad : \A k \in bad : m <= k
    <3>1. bad \subseteq Nat
      OBVIOUS
    <3> HIDE DEF bad
    <3> QED BY <1>1, <3>1, Least
  <2>2. m \in 1 .. n /\ m \notin S
    OBVIOUS
  <2>3. m - 1 \in 0 .. n /\ m - 1 \notin bad
    <3>1. m - 1 \in bad => m <= m - 1
      BY <2>1
    <3> HIDE DEF bad
    <3> QED BY <2>2, <3>1
  <2> QED BY <2>2, <2>3
<1> QED BY <1>1

\* h has the value of the loop after each step.
IsLoop(h, step, base, n) == h[0] = base /\ \A i \in 1 .. n : h[i] = step[i][h[i - 1]]

\* The values of a loop are defined.
LEMMA LoopExists ==
  ASSUME NEW n \in Nat, NEW T, NEW base \in T, NEW step, \A i \in 1 .. n, t \in T : step[i][t] \in T
  PROVE  \E h \in [0 .. n -> T] : IsLoop(h, step, base, n)
<1>1. PICK g \in [SUBSET (1 .. n) -> T] : IsFold(g, step, base, n)
  BY FoldExists
<1> DEFINE h == [i \in 0 .. n |-> g[1 .. i]]
<1>2. \A i \in 0 .. n : 1 .. i \in SUBSET (1 .. n)
  OBVIOUS
<1>3. h \in [0 .. n -> T]
  BY <1>2
<1>4. ASSUME NEW i \in 0 .. n PROVE h[i] = IF i = 0 THEN base ELSE step[i][h[i - 1]]
  <2>1. CASE i = 0
    <3>1. 1 .. i = {}
      BY <2>1
    <3> QED BY <1>1, <1>2, <2>1, <3>1 DEF IsFold
  <2>2. CASE i # 0
    <3>1. Max(1 .. i) = i /\ (1 .. i) \ {Max(1 .. i)} = 1 .. (i - 1)
      BY <2>2, LastOfPlaces
    <3>2. 1 .. i # {} /\ i - 1 \in 0 .. n
      BY <2>2
    <3>3. g[1 .. i] = step[i][g[1 .. (i - 1)]]
      BY <1>1, <1>2, <3>1, <3>2 DEF IsFold
    <3> QED BY <2>2, <3>2, <3>3
  <2> QED BY <2>1, <2>2
<1> HIDE DEF h
<1>5. 0 \in 0 .. n /\ \A i \in 1 .. n : i \in 0 .. n /\ i # 0
  OBVIOUS
<1>6. IsLoop(h, step, base, n)
  BY <1>4, <1>5 DEF IsLoop
<1> QED BY <1>3, <1>6

\* A sum is that of a part and that of the rest.
LEMMA SumOfParts ==
  ASSUME NEW S, IsFiniteSet(S), NEW f, \A x \in S : f[x] \in Int, NEW P \in SUBSET S
  PROVE  /\ Total(f, P) \in Int /\ Total(f, S \ P) \in Int
         /\ Total(f, S) = Total(f, P) + Total(f, S \ P)
<1> DEFINE good(T) == Total(f, S) = Total(f, T) + Total(f, S \ T)
           bad == {n \in Nat : \E T \in SUBSET S : Cardinality(T) = n /\ ~good(T)}
<1>1. \A T \in SUBSET S : /\ IsFiniteSet(T) /\ Cardinality(T) \in Nat /\ Total(f, T) \in Int
                          /\ \A x \in T : Total(f, T) = f[x] + Total(f, T \ {x})
  BY FS_Subset, FS_CardinalityType, SumOf
<1>2. ASSUME bad # {} PROVE FALSE
  <2>1. PICK n \in bad : \A m \in bad : n <= m
    BY <1>2, Least
  <2>2. PICK T \in SUBSET S : Cardinality(T) = n /\ ~good(T)
    OBVIOUS
  <2>3. T # {}
    <3>1. Total(f, {}) = 0 /\ S \ {} = S /\ Total(f, S) \in Int
      BY <1>1, SumOfNone
    <3> DEFINE z == Total(f, S)
    <3>2. z = 0 + z
      <4>1. z \in Int
        BY <3>1
      <4> HIDE DEF z
      <4> QED BY <4>1
    <3>3. good({})
      BY <3>1, <3>2
    <3> HIDE DEF good
    <3> QED BY <2>2, <3>3
  <2>4. PICK x \in T : TRUE
    BY <2>3
  <2> DEFINE U == T \ {x}
  <2>5. Cardinality(U) = n - 1 /\ U \in SUBSET S
    BY <1>1, <2>2, FS_RemoveElement
  <2>6. Cardinality(U) \in Nat
    BY <1>1, <2>5
  <2>7. Total(f, S) = Total(f, U) + Total(f, S \ U)
    <3>1. good(U)
      <4> HIDE DEF good, U
      <4> QED BY <2>1, <2>5, <2>6
    <3> QED BY <3>1
  <2>8. x \in S \ U /\ (S \ U) \ {x} = S \ T /\ S \ U \in SUBSET S /\ S \ T \in SUBSET S
    OBVIOUS
  <2> HIDE DEF bad
  <2>9. /\ Total(f, T) = f[x] + Total(f, U)
        /\ Total(f, S \ U) = f[x] + Total(f, S \ T)
    BY <1>1, <2>8
  <2>10. f[x] \in Int /\ Total(f, U) \in Int /\ Total(f, S \ T) \in Int
    BY <1>1, <2>5, <2>8
  <2> DEFINE a == f[x] b == Total(f, U) c == Total(f, S \ T) d == Total(f, T) e == Total(f, S \ U)
  <2>11. d = a + b /\ e = a + c /\ Total(f, S) = b + e /\ a \in Int /\ b \in Int /\ c \in Int
    BY <2>7, <2>9, <2>10
  <2> HIDE DEF a, b, c, d, e
  <2>12. Total(f, S) = d + c
    BY <2>11
  <2> QED BY <2>2, <2>12 DEF c, d
<1>3. Cardinality(P) \in Nat
  BY <1>1
<1>4. good(P)
  <2> HIDE DEF good
  <2> QED BY <1>2, <1>3
<1> QED BY <1>1, <1>4
=============================================================================
