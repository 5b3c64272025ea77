------------------------------ MODULE DataLemmas ------------------------------
(***************************************************************************)
(* Facts about numbers, finite sets and sums that the proofs share.        *)
(*                                                                         *)
(* The induction theorems of the library have an operator for a parameter. *)
(* Those below have a set instead, of what the induction is to show: they  *)
(* rest on the least elements of well-founded orders.                      *)
(***************************************************************************)
EXTENDS Integers, FiniteSets, Functions, FiniteSetTheorems, WellFoundedInduction, TLAPS

--------------------------------------------------------------------------------
(* Least elements                                                            *)

\* A set of natural numbers has a least one.
LEMMA LeastNumber ==
  ASSUME NEW T \in SUBSET Nat, T # {}
  PROVE  \E m \in T : \A k \in T : m <= k
<1> DEFINE R == {ss \in Nat \X Nat : ss[1] < ss[2]}
<1>1. IsWellFoundedOn(R, Nat)
  BY NatLessThanWellFounded DEF OpToRel
<1>2. \E x \in T : \A y \in T : ~(<<y, x>> \in R)
  <2> HIDE DEF R
  <2>. QED
    BY <1>1, WFMin
<1>3. PICK m \in T : \A k \in T : ~(<<k, m>> \in R)
  BY <1>2
<1>4. ASSUME NEW k \in T PROVE m <= k
  <2>1. k \in Nat /\ m \in Nat /\ ~(<<k, m>> \in R)
    BY <1>3
  <2>2. ~(k < m)
    BY <2>1
  <2>. QED
    BY <2>1, <2>2
<1>. QED
  BY <1>4

\* What holds of zero, and of the successor of every number it holds of.
LEMMA EveryNumber ==
  ASSUME NEW N \in SUBSET Nat, 0 \in N, \A n \in N : n + 1 \in N
  PROVE  N = Nat
<1>1. SUFFICES ASSUME Nat \ N # {} PROVE FALSE
  OBVIOUS
<1>2. PICK m \in Nat \ N : \A k \in Nat \ N : m <= k
  BY <1>1, LeastNumber
<1>3. m # 0 /\ m - 1 \in Nat /\ ~(m <= m - 1) /\ (m - 1) + 1 = m
  BY <1>2
<1>4. m - 1 \in N
  BY <1>2, <1>3
<1>. QED
  BY <1>2, <1>3, <1>4

\* What holds of a finite set as soon as it holds of it without any one of its
\* elements holds of every finite set.
LEMMA EveryFiniteSet ==
  ASSUME NEW S, IsFiniteSet(S), NEW Good \in SUBSET (SUBSET S),
         \A T \in SUBSET S : (\A x \in T : T \ {x} \in Good) => T \in Good
  PROVE  \A T \in SUBSET S : T \in Good
<1> DEFINE Bad == (SUBSET S) \ Good
           R == StrictSubsetOrdering(S)
<1>1. SUFFICES ASSUME Bad # {} PROVE FALSE
  OBVIOUS
<1>2. IsWellFoundedOn(R, FiniteSubsetsOf(S)) /\ Bad \subseteq FiniteSubsetsOf(S)
  BY FS_StrictSubsetOrderingWellFounded, FS_FiniteSubsetsOfFinite
<1>3. \E T \in Bad : \A U \in Bad : ~(<<U, T>> \in R)
  <2> HIDE DEF R, Bad
  <2>. QED
    BY <1>1, <1>2, WFMin
<1>4. PICK T \in Bad : \A U \in Bad : ~(<<U, T>> \in R)
  BY <1>3
<1>5. ASSUME NEW x \in T PROVE T \ {x} \in Good
  <2>1. T \ {x} \in SUBSET S /\ <<T \ {x}, T>> \in R
    BY <1>4 DEF StrictSubsetOrdering
  <2>. QED
    BY <1>4, <2>1
<1>. QED
  BY <1>4, <1>5

--------------------------------------------------------------------------------
(* Sums                                                                      *)

\* The recursive function that SumFunctionOnSet is defined by.
Sums(f, S) ==
  CHOOSE it : it = [s \in SUBSET S |-> IF s = {} THEN 0 ELSE LET x == CHOOSE x \in s : TRUE IN f[x] + it[s \ {x}]]

Sum(f, S) == SumFunctionOnSet(f, S)

\* One step of it.
Adds(f, it, s) == it[s] = IF s = {} THEN 0 ELSE LET x == CHOOSE x \in s : TRUE IN f[x] + it[s \ {x}]

\* There is such a function.
LEMMA SumsAre ==
  ASSUME NEW S, IsFiniteSet(S), NEW f
  PROVE  \A s \in SUBSET S : Adds(f, Sums(f, S), s)
<1> DEFINE Small(n) == {s \in SUBSET S : Cardinality(s) <= n}
           N == {n \in Nat : \E it : \A s \in Small(n) : Adds(f, it, s)}
<1>1. \A s \in SUBSET S : IsFiniteSet(s) /\ Cardinality(s) \in Nat /\ Cardinality(s) <= Cardinality(S)
  BY FS_Subset, FS_CardinalityType
<1>2. 0 \in N
  <2>1. \A s \in Small(0) : s = {}
    BY <1>1, FS_EmptySet
  <2>2. Adds(f, [s \in SUBSET S |-> 0], {})
    BY DEF Adds
  <2>3. \A s \in Small(0) : Adds(f, [t \in SUBSET S |-> 0], s)
    BY <2>1, <2>2
  <2>. QED
    BY <2>3
<1>3. ASSUME NEW n \in N PROVE n + 1 \in N
  <2>1. PICK it : \A s \in Small(n) : Adds(f, it, s)
    OBVIOUS
  <2> DEFINE Next1(s) == IF s = {} THEN 0 ELSE LET x == CHOOSE x \in s : TRUE IN f[x] + it[s \ {x}]
             more == [s \in SUBSET S |-> Next1(s)]
  <2>2. ASSUME NEW s \in Small(n) PROVE more[s] = it[s]
    BY <2>1 DEF Adds
  <2>3. ASSUME NEW s \in Small(n + 1) PROVE Adds(f, more, s)
    <3>1. CASE s = {}
      BY <3>1 DEF Adds
    <3>2. CASE s # {}
      <4> DEFINE x == CHOOSE x \in s : TRUE
      <4>1. x \in s
        BY <3>2
      <4> HIDE DEF x
      <4>2. s \ {x} \in SUBSET S /\ Cardinality(s \ {x}) = Cardinality(s) - 1
        BY <1>1, <4>1, FS_RemoveElement
      <4>3. s \ {x} \in Small(n)
        BY <1>1, <4>2
      <4>4. more[s \ {x}] = it[s \ {x}]
        BY <2>2, <4>3
      <4>5. more[s] = f[x] + it[s \ {x}]
        BY <3>2 DEF x
      <4>6. more[s] = f[x] + more[s \ {x}]
        BY <4>4, <4>5
      <4> HIDE DEF more
      <4>. QED
        BY <3>2, <4>6 DEF Adds, x
    <3>. QED
      BY <3>1, <3>2
  <2> HIDE DEF more
  <2>. QED
    BY <2>3
<1>4. Cardinality(S) \in N
  <2>1. N = Nat
    <3> HIDE DEF N
    <3>1. N \in SUBSET Nat
      BY DEF N
    <3>. QED
      BY <1>2, <1>3, <3>1, EveryNumber
  <2>. QED
    BY <2>1, FS_CardinalityType
<1>5. PICK it : \A s \in SUBSET S : Adds(f, it, s)
  BY <1>1, <1>4
<1> DEFINE whole == [s \in SUBSET S |-> it[s]]
           Step(g) == [s \in SUBSET S |-> IF s = {} THEN 0 ELSE LET x == CHOOSE x \in s : TRUE IN f[x] + g[s \ {x}]]
<1>6. whole = Step(whole)
  <2>1. ASSUME NEW s \in SUBSET S PROVE whole[s] = Step(whole)[s]
    <3> DEFINE x == CHOOSE x \in s : TRUE
    <3>1. s # {} => x \in s /\ s \ {x} \in SUBSET S /\ whole[s \ {x}] = it[s \ {x}]
      OBVIOUS
    <3>. QED
      BY <1>5, <3>1 DEF Adds
  <2>. QED
    BY <2>1
<1>7. Sums(f, S) = Step(Sums(f, S))
  BY <1>6 DEF Sums
<1>8. ASSUME NEW s \in SUBSET S PROVE Step(Sums(f, S))[s] = IF s = {} THEN 0 ELSE LET x == CHOOSE x \in s : TRUE IN f[x] + Sums(f, S)[s \ {x}]
  OBVIOUS
<1> HIDE DEF Step
<1>. QED
  BY <1>7, <1>8 DEF Adds

\* Of a part of a set it is the sum as well.
LEMMA SumsOfPart ==
  ASSUME NEW S, IsFiniteSet(S), NEW f, NEW T \in SUBSET S
  PROVE  Sums(f, S)[T] = Sums(f, T)[T]
<1> DEFINE Good == {s \in SUBSET T : Sums(f, S)[s] = Sums(f, T)[s]}
<1>1. IsFiniteSet(T) /\ \A s \in SUBSET T : s \in SUBSET S
  BY FS_Subset
<1>2. ASSUME NEW s \in SUBSET T, \A x \in s : s \ {x} \in Good PROVE s \in Good
  <2>1. Adds(f, Sums(f, S), s) /\ Adds(f, Sums(f, T), s)
    BY <1>1, SumsAre
  <2>2. CASE s = {}
    BY <2>1, <2>2 DEF Adds
  <2>3. CASE s # {}
    <3> DEFINE x == CHOOSE x \in s : TRUE
    <3>1. x \in s
      BY <2>3
    <3>2. /\ Sums(f, S)[s] = f[x] + Sums(f, S)[s \ {x}]
          /\ Sums(f, T)[s] = f[x] + Sums(f, T)[s \ {x}]
      BY <2>1, <2>3 DEF Adds
    <3> HIDE DEF x
    <3>. QED
      BY <1>2, <3>1, <3>2
  <2>. QED
    BY <2>2, <2>3
<1>3. T \in Good
  <2>1. Good \in SUBSET (SUBSET T)
    OBVIOUS
  <2> HIDE DEF Good
  <2>. QED
    BY <1>1, <1>2, <2>1, EveryFiniteSet
<1>. QED
  BY <1>3

\* A sum is that of all but one element, whichever that is, and this one.
LEMMA SumSplit ==
  ASSUME NEW S, IsFiniteSet(S), NEW f, \A x \in S : f[x] \in Int
  PROVE  /\ Sum(f, S) \in Int
         /\ S = {} => Sum(f, S) = 0
         /\ \A x \in S : Sum(f, S) = f[x] + Sum(f, S \ {x})
<1>1. \A T \in SUBSET S : IsFiniteSet(T) /\ Sum(f, T) = Sums(f, S)[T]
  <2>1. ASSUME NEW T PROVE Sum(f, T) = Sums(f, T)[T]
    BY DEF Sum, Sums, SumFunctionOnSet, FoldFunctionOnSet, MapThenFoldSet
  <2>. QED
    BY <2>1, SumsOfPart, FS_Subset
<1>2. Sum(f, {}) = 0
  BY <1>1, SumsAre DEF Adds
<1>3. ASSUME NEW T \in SUBSET S, T # {} PROVE \E c \in T : Sum(f, T) = f[c] + Sum(f, T \ {c})
  <2> DEFINE c == CHOOSE x \in T : TRUE
  <2>1. c \in T
    BY <1>3
  <2>2. Adds(f, Sums(f, S), T)
    BY SumsAre
  <2>3. Sums(f, S)[T] = f[c] + Sums(f, S)[T \ {c}]
    BY <1>3, <2>2 DEF Adds
  <2> HIDE DEF c
  <2>4. T \ {c} \in SUBSET S
    OBVIOUS
  <2>. QED
    BY <1>1, <2>1, <2>3, <2>4
<1> DEFINE Ints == {T \in SUBSET S : Sum(f, T) \in Int}
           Good  == {T \in SUBSET S : \A x \in T : Sum(f, T) = f[x] + Sum(f, T \ {x})}
<1>4. \A T \in SUBSET S : Sum(f, T) \in Int
  <2>1. ASSUME NEW T \in SUBSET S, \A x \in T : T \ {x} \in Ints PROVE T \in Ints
    <3>1. CASE T = {}
      BY <1>2, <3>1
    <3>2. CASE T # {}
      <4>1. PICK c \in T : Sum(f, T) = f[c] + Sum(f, T \ {c})
        BY <1>3, <3>2
      <4>2. f[c] \in Int /\ Sum(f, T \ {c}) \in Int
        BY <2>1
      <4>. QED
        BY <4>1, <4>2
    <3>. QED
      BY <3>1, <3>2
  <2>2. Ints \in SUBSET (SUBSET S)
    OBVIOUS
  <2>3. \A T \in SUBSET S : T \in Ints
    <3> HIDE DEF Ints
    <3>. QED
      BY <2>1, <2>2, EveryFiniteSet
  <2>. QED
    BY <2>3
<1>5. ASSUME NEW T \in SUBSET S, \A x \in T : T \ {x} \in Good PROVE T \in Good
  <2>1. CASE T = {}
    BY <1>2, <2>1
  <2>2. CASE T # {}
    <3>1. PICK c \in T : Sum(f, T) = f[c] + Sum(f, T \ {c})
      BY <1>3, <2>2
    <3>2. ASSUME NEW x \in T, x # c PROVE Sum(f, T) = f[x] + Sum(f, T \ {x})
      <4> DEFINE rest == (T \ {c}) \ {x}
      <4>1. /\ x \in T \ {c} /\ c \in T \ {x} /\ rest = (T \ {x}) \ {c}
            /\ T \ {c} \in Good /\ T \ {x} \in Good
        BY <1>5, <3>2
      <4>2. /\ Sum(f, T \ {c}) = f[x] + Sum(f, rest)
            /\ Sum(f, T \ {x}) = f[c] + Sum(f, rest)
        BY <4>1
      <4>3. Sum(f, rest) \in Int /\ f[x] \in Int /\ f[c] \in Int
        BY <1>4
      <4>. QED
        BY <3>1, <4>2, <4>3
    <3>. QED
      BY <3>1, <3>2
  <2>. QED
    BY <2>1, <2>2
<1>6. S \in Good
  <2>1. Good \in SUBSET (SUBSET S)
    OBVIOUS
  <2> HIDE DEF Good
  <2>. QED
    BY <1>5, <2>1, EveryFiniteSet
<1>. QED
  BY <1>2, <1>6, <1>4

\* The sum of natural numbers is one, and that of what is not less is not less.
LEMMA SumOrder ==
  ASSUME NEW S, IsFiniteSet(S), NEW f, NEW g, \A x \in S : f[x] \in Int /\ g[x] \in Int /\ f[x] <= g[x]
  PROVE  Sum(f, S) \in Int /\ Sum(g, S) \in Int /\ Sum(f, S) <= Sum(g, S)
<1> DEFINE Good == {T \in SUBSET S : Sum(f, T) \in Int /\ Sum(g, T) \in Int /\ Sum(f, T) <= Sum(g, T)}
<1>1. ASSUME NEW T \in SUBSET S, \A x \in T : T \ {x} \in Good PROVE T \in Good
  <2>1. IsFiniteSet(T) /\ \A x \in T : f[x] \in Int /\ g[x] \in Int /\ f[x] <= g[x]
    BY FS_Subset
  <2>2. CASE T = {}
    BY <2>1, <2>2, SumSplit
  <2>3. CASE T # {}
    <3>1. PICK x \in T : TRUE
      BY <2>3
    <3>2. Sum(f, T) = f[x] + Sum(f, T \ {x}) /\ Sum(g, T) = g[x] + Sum(g, T \ {x})
      BY <2>1, SumSplit
    <3>. QED
      BY <1>1, <2>1, <3>1, <3>2
  <2>. QED
    BY <2>2, <2>3
<1>2. S \in Good
  <2>1. Good \in SUBSET (SUBSET S)
    OBVIOUS
  <2> HIDE DEF Good
  <2>. QED
    BY <1>1, <2>1, EveryFiniteSet
<1>. QED
  BY <1>2

\* Sums are added term by term.
LEMMA SumPlus ==
  ASSUME NEW S, IsFiniteSet(S), NEW f, NEW g, NEW h,
         \A x \in S : f[x] \in Int /\ g[x] \in Int /\ h[x] = f[x] + g[x]
  PROVE  Sum(h, S) = Sum(f, S) + Sum(g, S)
<1> DEFINE Good == {T \in SUBSET S : Sum(h, T) = Sum(f, T) + Sum(g, T)}
<1>1. ASSUME NEW T \in SUBSET S, \A x \in T : T \ {x} \in Good PROVE T \in Good
  <2>1. IsFiniteSet(T) /\ \A x \in T : f[x] \in Int /\ g[x] \in Int /\ h[x] \in Int /\ h[x] = f[x] + g[x]
    BY FS_Subset
  <2>2. CASE T = {}
    BY <2>1, <2>2, SumSplit
  <2>3. CASE T # {}
    <3>1. PICK x \in T : TRUE
      BY <2>3
    <3>2. IsFiniteSet(T \ {x}) /\ \A y \in T \ {x} : f[y] \in Int /\ g[y] \in Int
      BY <2>1, FS_Subset
    <3>3. /\ Sum(f, T) = f[x] + Sum(f, T \ {x}) /\ Sum(g, T) = g[x] + Sum(g, T \ {x})
          /\ Sum(h, T) = h[x] + Sum(h, T \ {x})
          /\ Sum(f, T \ {x}) \in Int /\ Sum(g, T \ {x}) \in Int
      BY <2>1, <3>2, SumSplit
    <3>. QED
      BY <1>1, <2>1, <3>1, <3>3
  <2>. QED
    BY <2>2, <2>3
<1>2. S \in Good
  <2>1. Good \in SUBSET (SUBSET S)
    OBVIOUS
  <2> HIDE DEF Good
  <2>. QED
    BY <1>1, <2>1, EveryFiniteSet
<1>. QED
  BY <1>2

\* A part sums up to no more than the whole.
LEMMA SumGrows ==
  ASSUME NEW S, IsFiniteSet(S), NEW T \in SUBSET S, NEW f, \A x \in S : f[x] \in Nat
  PROVE  Sum(f, T) \in Nat /\ Sum(f, S) \in Nat /\ Sum(f, T) <= Sum(f, S)
<1> DEFINE Good == {U \in SUBSET S : /\ Sum(f, U \cap T) \in Nat /\ Sum(f, U) \in Nat
                                     /\ Sum(f, U \cap T) <= Sum(f, U)}
<1>1. ASSUME NEW U \in SUBSET S, \A x \in U : U \ {x} \in Good PROVE U \in Good
  <2>1. /\ IsFiniteSet(U) /\ IsFiniteSet(U \cap T)
        /\ \A x \in U : f[x] \in Int /\ f[x] >= 0
        /\ \A x \in U \cap T : f[x] \in Int
    BY FS_Subset
  <2>2. CASE U = {}
    <3>1. U \cap T = {}
      BY <2>2
    <3>. QED
      BY <2>1, <2>2, <3>1, SumSplit
  <2>3. CASE U # {}
    <3>1. PICK x \in U : TRUE
      BY <2>3
    <3>2. /\ Sum(f, U) = f[x] + Sum(f, U \ {x})
          /\ x \in T => Sum(f, U \cap T) = f[x] + Sum(f, (U \cap T) \ {x})
      BY <2>1, <3>1, SumSplit
    <3>3. /\ x \in T => (U \cap T) \ {x} = (U \ {x}) \cap T
          /\ x \notin T => U \cap T = (U \ {x}) \cap T
      OBVIOUS
    <3>4. /\ Sum(f, (U \ {x}) \cap T) \in Nat /\ Sum(f, U \ {x}) \in Nat
          /\ Sum(f, (U \ {x}) \cap T) <= Sum(f, U \ {x})
      BY <1>1, <3>1
    <3>5. f[x] \in Int /\ f[x] >= 0
      BY <2>1
    <3>6. CASE x \in T
      BY <3>2, <3>3, <3>4, <3>5, <3>6
    <3>7. CASE x \notin T
      BY <3>2, <3>3, <3>4, <3>5, <3>7
    <3>. QED
      BY <3>6, <3>7
  <2>. QED
    BY <2>2, <2>3
<1>2. S \in Good
  <2>1. Good \in SUBSET (SUBSET S)
    OBVIOUS
  <2> HIDE DEF Good
  <2>. QED
    BY <1>1, <2>1, EveryFiniteSet
<1>3. S \cap T = T
  OBVIOUS
<1>. QED
  BY <1>2, <1>3

\* A sum of numbers up to a bound is at most the bound for each of them.
LEMMA SumBound ==
  ASSUME NEW S, IsFiniteSet(S), NEW f, NEW b \in Nat, \A x \in S : f[x] \in 0..b
  PROVE  Sum(f, S) \in Nat /\ Cardinality(S) \in Nat /\ Sum(f, S) <= b * Cardinality(S)
<1> DEFINE Good == {T \in SUBSET S : Sum(f, T) \in Nat /\ Sum(f, T) <= b * Cardinality(T)}
<1>1. ASSUME NEW T \in SUBSET S, \A x \in T : T \ {x} \in Good PROVE T \in Good
  <2>1. IsFiniteSet(T) /\ \A x \in T : f[x] \in Int
    BY FS_Subset
  <2>2. CASE T = {}
    <3>1. Sum(f, T) = 0 /\ Cardinality(T) = 0
      BY <2>1, <2>2, SumSplit, FS_EmptySet
    <3>. QED
      BY <3>1
  <2>3. ASSUME NEW x \in T PROVE T \in Good
    <3>1. Sum(f, T) = f[x] + Sum(f, T \ {x})
      BY <2>1, SumSplit
    <3>2. PICK k \in Nat : k = Cardinality(T \ {x}) /\ Cardinality(T) = k + 1
      <4>1. IsFiniteSet(T \ {x}) /\ Cardinality(T \ {x}) = Cardinality(T) - 1
        BY <2>1, FS_RemoveElement
      <4>2. Cardinality(T \ {x}) \in Nat /\ Cardinality(T) \in Nat
        BY <2>1, <4>1, FS_CardinalityType
      <4>. QED
        BY <4>1, <4>2
    <3>3. PICK s \in Nat : s = Sum(f, T \ {x}) /\ s <= b * k
      BY <1>1, <3>2
    <3>4. f[x] \in 0..b
      OBVIOUS
    <3>5. b * (k + 1) = b * k + b
      OBVIOUS
    <3>. QED
      BY <3>1, <3>2, <3>3, <3>4, <3>5
  <2>. QED
    BY <2>2, <2>3
<1>2. S \in Good
  <2>1. Good \in SUBSET (SUBSET S)
    OBVIOUS
  <2> HIDE DEF Good
  <2>. QED
    BY <1>1, <2>1, EveryFiniteSet
<1>. QED
  BY <1>2, FS_CardinalityType

\* The sum of a function is a sum over where it is defined.
LEMMA SumIsSum == ASSUME NEW f PROVE SumFunction(f) = Sum(f, DOMAIN f)
  BY DEF SumFunction, Sum

\* The elements with a key.
Having(A, key, i) == {x \in A : key[x] = i}

\* The number of elements is the sum of those that each key has.
LEMMA SumOfParts ==
  ASSUME NEW S, IsFiniteSet(S), NEW A, IsFiniteSet(A), NEW key, \A x \in A : key[x] \in S,
         NEW f, \A i \in S : f[i] = Cardinality(Having(A, key, i))
  PROVE  Sum(f, S) = Cardinality(A)
<1> DEFINE Of(T) == {x \in A : key[x] \in T}
           Good  == {T \in SUBSET S : Sum(f, T) = Cardinality(Of(T))}
<1>1. ASSUME NEW i \in S PROVE IsFiniteSet(Having(A, key, i)) /\ f[i] \in Int
  <2>1. Having(A, key, i) \subseteq A
    BY DEF Having
  <2>2. IsFiniteSet(Having(A, key, i)) /\ Cardinality(Having(A, key, i)) \in Nat
    BY <2>1, FS_Subset, FS_CardinalityType
  <2>. QED
    BY <2>2
<1>2. ASSUME NEW T \in SUBSET S, \A i \in T : T \ {i} \in Good PROVE T \in Good
  <2>1. IsFiniteSet(T) /\ \A i \in T : f[i] \in Int
    BY <1>1, FS_Subset
  <2>2. CASE T = {}
    <3>1. Of(T) = {}
      BY <2>2
    <3>2. Sum(f, T) = 0
      BY <2>1, <2>2, SumSplit
    <3>. QED
      BY <3>1, <3>2, FS_EmptySet
  <2>3. CASE T # {}
    <3>1. PICK i \in T : TRUE
      BY <2>3
    <3> DEFINE one  == Having(A, key, i)
               rest == Of(T \ {i})
    <3>2. Sum(f, T) = f[i] + Sum(f, T \ {i})
      BY <2>1, SumSplit
    <3>3. Sum(f, T \ {i}) = Cardinality(rest)
      BY <1>2
    <3>4. Of(T) = one \cup rest /\ one \cap rest = {}
      BY DEF Having
    <3>5. IsFiniteSet(one) /\ IsFiniteSet(rest) /\ f[i] = Cardinality(one)
      BY <1>1, FS_Subset
    <3> HIDE DEF one, rest, Of
    <3>6. Cardinality(Of(T)) = Cardinality(one) + Cardinality(rest)
      <4>1. Cardinality(one \cup rest) = Cardinality(one) + Cardinality(rest) - Cardinality(one \cap rest)
        BY <3>5, FS_Union
      <4>2. Cardinality(one \cap rest) = 0
        BY <3>4, FS_EmptySet
      <4>3. Cardinality(one) \in Nat /\ Cardinality(rest) \in Nat
        BY <3>5, FS_CardinalityType
      <4>. QED
        BY <3>4, <4>1, <4>2, <4>3
    <3>. QED
      BY <3>2, <3>3, <3>5, <3>6 DEF Of
  <2>. QED
    BY <2>2, <2>3
<1>3. S \in Good
  <2>1. Good \in SUBSET (SUBSET S)
    OBVIOUS
  <2> HIDE DEF Good
  <2>. QED
    BY <1>2, <2>1, EveryFiniteSet
<1>4. Of(S) = A
  OBVIOUS
<1>. QED
  BY <1>3, <1>4

--------------------------------------------------------------------------------
(* Remainders                                                                *)

\* A remainder is less than what is divided by.
LEMMA ModRange == ASSUME NEW a \in Nat, NEW n \in Nat \ {0} PROVE a % n \in 0..(n - 1)
  OBVIOUS

\* A number that is so much more than a multiple has that remainder.
LEMMA ModIs ==
  ASSUME NEW a \in Nat, NEW n \in Nat \ {0}, NEW q \in Nat, NEW r \in 0..(n - 1), a = q * n + r
  PROVE  a % n = r
  BY SMTT(30)

\* A number is so much more than a multiple as its remainder says.
LEMMA ModOf ==
  ASSUME NEW a \in Nat, NEW n \in Nat \ {0}
  PROVE  (a \div n) \in Nat /\ a = (a \div n) * n + (a % n)
  BY SMTT(30)

\* The next remainder follows, or is zero.
LEMMA ModNext ==
  ASSUME NEW a \in Nat, NEW n \in Nat \ {0}
  PROVE  (a + 1) % n = IF a % n = n - 1 THEN 0 ELSE (a % n) + 1
<1> DEFINE q == a \div n
           r == a % n
<1>1. q \in Nat /\ r \in 0..(n - 1) /\ a = q * n + r
  BY ModOf, ModRange
<1> HIDE DEF q, r
<1>2. CASE r = n - 1
  <2>1. a + 1 = (q + 1) * n + 0
    BY <1>1, <1>2
  <2>2. (a + 1) % n = 0
    BY <1>1, <2>1, ModIs
  <2>. QED
    BY <1>2, <2>2 DEF r
<1>3. CASE r # n - 1
  <2>1. a + 1 = q * n + (r + 1) /\ r + 1 \in 0..(n - 1)
    BY <1>1, <1>3
  <2>2. (a + 1) % n = r + 1
    BY <1>1, <2>1, ModIs
  <2>. QED
    BY <1>3, <2>2 DEF r
<1>. QED
  BY <1>2, <1>3

\* Once around, the remainder is the same.
LEMMA ModAround ==
  ASSUME NEW a \in Nat, NEW n \in Nat \ {0}
  PROVE  (a + n) % n = a % n
<1> DEFINE q == a \div n
           r == a % n
<1>1. q \in Nat /\ r \in 0..(n - 1) /\ a = q * n + r
  BY ModOf, ModRange
<1> HIDE DEF q, r
<1>2. a + n = (q + 1) * n + r
  BY <1>1
<1>3. (a + n) % n = r
  BY <1>1, <1>2, ModIs
<1>. QED
  BY <1>3 DEF r

\* Less than once around, it is another.
LEMMA ModApart ==
  ASSUME NEW a \in Nat, NEW b \in Nat, NEW n \in Nat \ {0}, a < b, b < a + n
  PROVE  a % n # b % n
<1> DEFINE q == a \div n
           r == a % n
           d == b - a
<1>1. q \in Nat /\ r \in 0..(n - 1) /\ a = q * n + r
  BY ModOf, ModRange
<1>2. d \in 1..(n - 1) /\ b = a + d
  OBVIOUS
<1> HIDE DEF q, r, d
<1>3. CASE r + d < n
  <2>1. b = q * n + (r + d) /\ r + d \in 0..(n - 1)
    BY <1>1, <1>2, <1>3
  <2>2. b % n = r + d
    BY <1>1, <2>1, ModIs
  <2>. QED
    BY <1>1, <1>2, <2>2 DEF r
<1>4. CASE r + d >= n
  <2>1. b = (q + 1) * n + (r + d - n) /\ r + d - n \in 0..(n - 1)
    BY <1>1, <1>2, <1>4
  <2>2. b % n = r + d - n
    BY <1>1, <2>1, ModIs
  <2>. QED
    BY <1>1, <1>2, <2>2 DEF r
<1>. QED
  BY <1>1, <1>2, <1>3, <1>4
================================================================================
