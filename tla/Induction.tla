------------------------------ MODULE Induction ------------------------------
(***************************************************************************)
(* Induction without an operator as a parameter: a set of naturals that is *)
(* not empty has a least element, so a claim about all naturals is proved  *)
(* on the least one for which it would fail.  From it: a fold has a value  *)
(* for every set, two folds that build up alike agree, and sums, counts    *)
(* and extremes do not depend on the order in which rows are read.         *)
(***************************************************************************)
EXTENDS Integers, FiniteSets, FiniteSetsExt, FiniteSetTheorems, TLAPS

(* The least element of a set of naturals.  The sets of what is below each *)
(* element are finite, and strict inclusion of finite sets is well founded.*)
LEMMA LeastNatural ==
  ASSUME NEW T, T \subseteq Nat, T # {}
  PROVE  \E n \in T : \A m \in T : n <= m
<1>. DEFINE Below == {0..(n - 1) : n \in T}
<1>1. IsWellFoundedOn(StrictSubsetOrdering(Nat), FiniteSubsetsOf(Nat))
  BY FS_StrictSubsetOrderingWellFounded
<1>2. Below \subseteq FiniteSubsetsOf(Nat) /\ Below # {}
  <2>1. ASSUME NEW n \in T PROVE IsFiniteSet(0..(n - 1)) /\ 0..(n - 1) \in SUBSET Nat
    BY FS_Interval
  <2>. QED BY <2>1 DEF FiniteSubsetsOf
<1>3. PICK x \in Below : \A y \in Below : <<y, x>> \notin StrictSubsetOrdering(Nat)
  <2>. HIDE DEF Below
  <2>. QED BY <1>1, <1>2, WFMin
<1>4. PICK n \in T : x = 0..(n - 1)
  BY <1>3
<1>5. ASSUME NEW m \in T, m < n PROVE FALSE
  <2>1. 0..(m - 1) \in Below /\ 0..(m - 1) \in SUBSET Nat /\ 0..(n - 1) \in SUBSET Nat
    OBVIOUS
  <2>2. m \in 0..(n - 1) /\ m \notin 0..(m - 1)
    BY <1>5
  <2>3. 0..(m - 1) \subseteq 0..(n - 1)
    BY <1>5
  <2>4. <<0..(m - 1), 0..(n - 1)>> \in StrictSubsetOrdering(Nat)
    <3>. DEFINE A == 0..(m - 1)
                B == 0..(n - 1)
    <3>1. A \in SUBSET Nat /\ B \in SUBSET Nat /\ A \subseteq B /\ A # B
      BY <2>1, <2>2, <2>3
    <3>. HIDE DEF A, B
    <3>2. <<A, B>> \in StrictSubsetOrdering(Nat)
      BY <3>1 DEF StrictSubsetOrdering
    <3>. QED BY <3>2 DEF A, B
  <2>. QED BY <1>3, <1>4, <2>1, <2>4
<1>. QED BY <1>5

(* The greatest element of a set of naturals that has a bound.             *)
LEMMA GreatestNatural ==
  ASSUME NEW k \in Nat, NEW T, T \subseteq 0..k, T # {}
  PROVE  \E n \in T : \A m \in T : m <= n
<1>. DEFINE Left == {i \in Nat : \E n \in T : n + i = k}
<1>1. Left \subseteq Nat /\ Left # {}
  <2>1. PICK n \in T : TRUE
    OBVIOUS
  <2>2. k - n \in Nat /\ n + (k - n) = k
    BY <2>1
  <2>. QED BY <2>1, <2>2
<1>2. PICK l \in Left : \A j \in Left : l <= j
  <2>. HIDE DEF Left
  <2>. QED BY <1>1, LeastNatural
<1>3. PICK n \in T : n + l = k
  BY <1>2
<1>4. ASSUME NEW m \in T PROVE m <= n
  <2>1. k - m \in Nat /\ m + (k - m) = k /\ m \in Nat /\ n \in Nat /\ l \in Nat
    BY <1>2
  <2>2. l <= k - m
    BY <1>2, <2>1
  <2>. QED BY <1>3, <2>1, <2>2
<1>. QED BY <1>3, <1>4

(* The last place of a set of places.                                      *)
LEMMA LastPlace ==
  ASSUME NEW n \in Nat, NEW s \in SUBSET (1..n), s # {}
  PROVE  Max(s) \in s /\ (\A y \in s : y <= Max(s)) /\ s \ {Max(s)} \in SUBSET (1..(n - 1))
<1>1. \E x \in s : \A y \in s : y <= x
  <2>1. s \subseteq 0..n
    OBVIOUS
  <2>. QED BY <2>1, GreatestNatural
<1>2. \E x \in s : \A y \in s : x >= y
  BY <1>1
<1>3. Max(s) \in s /\ \A y \in s : Max(s) >= y
  BY <1>2 DEF Max
<1>4. ASSUME NEW y \in s \ {Max(s)} PROVE y \in 1..(n - 1)
  <2>1. y \in 1..n /\ Max(s) \in 1..n /\ y <= Max(s) /\ y # Max(s)
    BY <1>3
  <2>. QED BY <2>1
<1>. QED BY <1>3, <1>4

-----------------------------------------------------------------------------
(* Sums.  The verifier adds over a set, in no order; a tool adds as it     *)
(* reads.  g gives for each part of D the sum of f over it.                *)
Adds(g, f, D) ==
  /\ g \in [SUBSET D -> Int] /\ g[{}] = 0
  /\ \A s \in SUBSET D : \A x \in s : g[s] = f[x] + g[s \ {x}]

Partial(f, D) == CHOOSE g : Adds(g, f, D)

SumOf(f, D) == Partial(f, D)[D]

(* A finite set has a sum.                                                 *)
LEMMA SumsExist ==
  ASSUME NEW D, IsFiniteSet(D), NEW f \in [D -> Int]
  PROVE  Adds(Partial(f, D), f, D)
<1>. DEFINE Fails == {n \in Nat : \E S \in SUBSET D : Cardinality(S) = n /\ ~\E g : Adds(g, f, S)}
<1>1. ASSUME Fails # {} PROVE FALSE
  <2>. HIDE DEF Fails
  <2>1. PICK n \in Fails : \A m \in Fails : n <= m
    BY <1>1, LeastNatural DEF Fails
  <2>2. PICK S \in SUBSET D : Cardinality(S) = n /\ ~\E g : Adds(g, f, S)
    BY <2>1 DEF Fails
  <2>3. IsFiniteSet(S)
    BY FS_Subset
  <2>4. S # {}
    <3>. SUFFICES ASSUME S = {} PROVE \E g : Adds(g, f, S)
      BY <2>2
    <3>1. Adds([s \in SUBSET S |-> 0], f, S)
      BY DEF Adds
    <3>. QED BY <3>1
  <2>5. PICK x \in S : TRUE
    BY <2>4
  <2>6. Cardinality(S \ {x}) = n - 1 /\ Cardinality(S \ {x}) \in Nat /\ n \in Nat
    <3>1. IsFiniteSet(S \ {x}) /\ Cardinality(S \ {x}) = Cardinality(S) - 1
      BY <2>3, FS_RemoveElement
    <3>. QED BY <2>2, <2>3, <3>1, FS_CardinalityType
  <2>7. n - 1 \notin Fails
    BY <2>1, <2>6 DEF Fails
  <2>8. PICK h : Adds(h, f, S \ {x})
    BY <2>2, <2>6, <2>7 DEF Fails
  <2>. DEFINE g == [s \in SUBSET S |-> h[s \ {x}] + IF x \in s THEN f[x] ELSE 0]
  <2>9. g \in [SUBSET S -> Int] /\ g[{}] = 0
    <3>1. \A s \in SUBSET S : s \ {x} \in SUBSET (S \ {x}) /\ h[s \ {x}] \in Int
      BY <2>8 DEF Adds
    <3>2. {} \in SUBSET S /\ {} \ {x} = {}
      OBVIOUS
    <3>. QED BY <2>5, <2>8, <3>1, <3>2 DEF Adds
  <2>10. ASSUME NEW s \in SUBSET S, NEW y \in s PROVE g[s] = f[y] + g[s \ {y}]
    <3>1. s \ {x} \in SUBSET (S \ {x}) /\ s \ {y} \in SUBSET S
      OBVIOUS
    <3>2. h[s \ {x}] \in Int /\ f[y] \in Int /\ f[x] \in Int
      BY <2>8, <3>1 DEF Adds
    <3>3. /\ g[s] = h[s \ {x}] + IF x \in s THEN f[x] ELSE 0
          /\ g[s \ {y}] = h[(s \ {y}) \ {x}] + IF x \in s \ {y} THEN f[x] ELSE 0
      BY <3>1
    <3>. HIDE DEF g
    <3>4. CASE y = x
      <4>1. (s \ {y}) \ {x} = s \ {x} /\ x \notin s \ {y} /\ x \in s
        BY <3>4
      <4>2. g[s] = h[s \ {x}] + f[x]
        BY <3>3, <4>1
      <4>3. g[s \ {y}] = h[s \ {x}] + 0
        BY <3>3, <4>1, Zenon
      <4>. QED BY <3>2, <3>4, <4>2, <4>3
    <3>5. CASE y # x
      <4>. DEFINE more == IF x \in s THEN f[x] ELSE 0
      <4>1. (s \ {y}) \ {x} = (s \ {x}) \ {y} /\ y \in s \ {x} /\ (x \in s \ {y} <=> x \in s)
        BY <3>5
      <4>2. h[s \ {x}] = f[y] + h[(s \ {x}) \ {y}] /\ h[(s \ {x}) \ {y}] \in Int
        BY <2>8, <3>1, <4>1 DEF Adds
      <4>3. g[s] = h[s \ {x}] + more /\ more \in Int
        BY <3>2, <3>3
      <4>4. g[s \ {y}] = h[(s \ {x}) \ {y}] + more
        BY <3>3, <4>1, Zenon
      <4>. HIDE DEF more
      <4>. QED BY <3>2, <4>2, <4>3, <4>4
    <3>. QED BY <3>4, <3>5
  <2>11. Adds(g, f, S)
    BY <2>9, <2>10 DEF Adds
  <2>. QED BY <2>2, <2>11
<1>2. \E g : Adds(g, f, D)
  <2>1. Cardinality(D) \in Nat
    BY FS_CardinalityType
  <2>. QED BY <1>1, <2>1
<1>. QED BY <1>2 DEF Partial

(* Two ways of building up from nothing agree when some last step agrees.  *)
LEMMA FoldsAgree ==
  ASSUME NEW D, IsFiniteSet(D), NEW g, NEW h, g[{}] = h[{}],
         \A s \in SUBSET D : s # {} => \E x \in s : g[s \ {x}] = h[s \ {x}] => g[s] = h[s]
  PROVE  g[D] = h[D]
<1>. DEFINE Fails == {n \in Nat : \E s \in SUBSET D : Cardinality(s) = n /\ h[s] # g[s]}
<1>1. ASSUME Fails # {} PROVE FALSE
  <2>1. PICK n \in Fails : \A m \in Fails : n <= m
    <3>1. Fails \subseteq Nat
      OBVIOUS
    <3>. HIDE DEF Fails
    <3>. QED BY <1>1, <3>1, LeastNatural
  <2>2. PICK s \in SUBSET D : Cardinality(s) = n /\ h[s] # g[s]
    BY <2>1
  <2>3. IsFiniteSet(s) /\ s # {}
    BY <2>2, FS_Subset
  <2>4. PICK x \in s : g[s \ {x}] = h[s \ {x}] => g[s] = h[s]
    BY <2>3
  <2>5. Cardinality(s \ {x}) = n - 1 /\ Cardinality(s \ {x}) \in Nat /\ n \in Nat
    <3>1. IsFiniteSet(s \ {x}) /\ Cardinality(s \ {x}) = Cardinality(s) - 1
      BY <2>3, FS_RemoveElement
    <3>. QED BY <2>2, <2>3, <3>1, FS_CardinalityType
  <2>6. h[s \ {x}] = g[s \ {x}]
    BY <2>1, <2>5
  <2>. QED BY <2>2, <2>4, <2>6
<1>2. Cardinality(D) \in Nat /\ D \in SUBSET D
  BY FS_CardinalityType
<1>. QED BY <1>1, <1>2

(* Whatever adds f element by element, in whatever order, gives its sum.   *)
LEMMA SumsAgree ==
  ASSUME NEW D, IsFiniteSet(D), NEW f \in [D -> Int], NEW h,
         \A s \in SUBSET D : IF s = {} THEN h[s] = 0
                            ELSE \E x \in s : h[s \ {x}] \in Int => h[s] = h[s \ {x}] + f[x]
  PROVE  h[D] = SumOf(f, D) /\ SumOf(f, D) \in Int
<1>. DEFINE g == Partial(f, D)
<1>1. Adds(g, f, D)
  BY SumsExist
<1>. HIDE DEF g
<1>2. ASSUME NEW s \in SUBSET D, s # {}
      PROVE  \E x \in s : g[s \ {x}] = h[s \ {x}] => g[s] = h[s]
  <2>1. PICK x \in s : h[s \ {x}] \in Int => h[s] = h[s \ {x}] + f[x]
    BY <1>2
  <2>2. g[s] = f[x] + g[s \ {x}] /\ g[s \ {x}] \in Int /\ f[x] \in Int
    BY <1>1 DEF Adds
  <2>3. g[s \ {x}] = h[s \ {x}] => g[s] = h[s]
    BY <2>1, <2>2
  <2>. QED BY <2>3
<1>3. g[{}] = h[{}]
  BY <1>1 DEF Adds
<1>4. g[D] = h[D]
  BY <1>2, <1>3, FoldsAgree
<1>. QED BY <1>1, <1>4 DEF Adds, SumOf, g

(* The sum of numbers is a number.                                         *)
LEMMA SumIsInt ==
  ASSUME NEW D, IsFiniteSet(D), NEW f \in [D -> Int]
  PROVE  SumOf(f, D) \in Int
<1>1. Adds(Partial(f, D), f, D) /\ D \in SUBSET D
  BY SumsExist
<1>. QED BY <1>1 DEF Adds, SumOf

(* The sum of naturals is a natural.                                       *)
LEMMA SumIsNat ==
  ASSUME NEW D, IsFiniteSet(D), NEW f \in [D -> Nat]
  PROVE  SumOf(f, D) \in Nat
<1>. DEFINE g == Partial(f, D)
            h == [s \in SUBSET D |-> IF g[s] >= 0 THEN g[s] ELSE 0]
<1>1. f \in [D -> Int]
  OBVIOUS
<1>2. Adds(g, f, D)
  BY <1>1, SumsExist
<1>. HIDE DEF g
<1>3. ASSUME NEW s \in SUBSET D, s # {}
      PROVE  \E x \in s : g[s \ {x}] = h[s \ {x}] => g[s] = h[s]
  <2>1. PICK x \in s : TRUE
    BY <1>3
  <2>2. g[s] = f[x] + g[s \ {x}] /\ g[s \ {x}] \in Int /\ f[x] \in Nat /\ s \ {x} \in SUBSET D
    BY <1>2, <2>1 DEF Adds
  <2>3. g[s \ {x}] = h[s \ {x}] => g[s] = h[s]
    BY <2>2
  <2>. QED BY <2>1, <2>3
<1>4. g[{}] = h[{}]
  BY <1>2 DEF Adds
<1>5. g[D] = h[D]
  BY <1>3, <1>4, FoldsAgree
<1>6. g[D] \in Int /\ D \in SUBSET D
  BY <1>2 DEF Adds
<1>. QED BY <1>5, <1>6 DEF SumOf, g

(* The sum of two sums.                                                    *)
LEMMA SumOfSums ==
  ASSUME NEW D, IsFiniteSet(D), NEW a \in [D -> Int], NEW b \in [D -> Int], NEW c \in [D -> Int],
         \A x \in D : c[x] = a[x] + b[x]
  PROVE  SumOf(c, D) = SumOf(a, D) + SumOf(b, D)
<1>. DEFINE A == Partial(a, D)
            B == Partial(b, D)
            h == [s \in SUBSET D |-> A[s] + B[s]]
<1>1. Adds(A, a, D) /\ Adds(B, b, D)
  BY SumsExist
<1>. HIDE DEF A, B
<1>2. ASSUME NEW s \in SUBSET D
      PROVE  IF s = {} THEN h[s] = 0
             ELSE \E x \in s : h[s \ {x}] \in Int => h[s] = h[s \ {x}] + c[x]
  <2>1. CASE s = {}
    <3>1. A[s] = 0 /\ B[s] = 0
      BY <1>1, <2>1 DEF Adds
    <3>. QED BY <2>1, <3>1
  <2>2. CASE s # {}
    <3>1. PICK x \in s : TRUE
      BY <2>2
    <3>2. /\ s \ {x} \in SUBSET D /\ A[s] = a[x] + A[s \ {x}] /\ B[s] = b[x] + B[s \ {x}]
          /\ A[s \ {x}] \in Int /\ B[s \ {x}] \in Int /\ a[x] \in Int /\ b[x] \in Int
      BY <1>1 DEF Adds
    <3>3. h[s] = A[s] + B[s] /\ h[s \ {x}] = A[s \ {x}] + B[s \ {x}] /\ c[x] = a[x] + b[x]
      BY <3>2
    <3>. HIDE DEF h
    <3>4. h[s] = h[s \ {x}] + c[x]
      BY <3>2, <3>3
    <3>. QED BY <2>2, <3>4
  <2>. QED BY <2>1, <2>2
<1>3. h[D] = SumOf(c, D)
  <2>. HIDE DEF h
  <2>. QED BY <1>2, SumsAgree
<1>4. h[D] = A[D] + B[D]
  OBVIOUS
<1>. QED BY <1>3, <1>4 DEF A, B, SumOf

(* The sum over a part is the sum over all, with nothing for the rest.     *)
LEMMA SumOfPart ==
  ASSUME NEW D, IsFiniteSet(D), NEW S \in SUBSET D, NEW f \in [S -> Int], NEW c \in [D -> Int],
         \A x \in D : c[x] = IF x \in S THEN f[x] ELSE 0
  PROVE  SumOf(c, D) = SumOf(f, S)
<1>. DEFINE G == Partial(f, S)
            h == [s \in SUBSET D |-> G[s \cap S]]
<1>1. Adds(G, f, S)
  BY SumsExist, FS_Subset
<1>. HIDE DEF G
<1>2. ASSUME NEW s \in SUBSET D
      PROVE  IF s = {} THEN h[s] = 0
             ELSE \E x \in s : h[s \ {x}] \in Int => h[s] = h[s \ {x}] + c[x]
  <2>1. CASE s = {}
    <3>1. s \cap S = {}
      BY <2>1
    <3>. QED BY <1>1, <2>1, <3>1 DEF Adds
  <2>2. CASE s # {}
    <3>1. PICK x \in s : TRUE
      BY <2>2
    <3>2. s \ {x} \in SUBSET D /\ s \cap S \in SUBSET S /\ (s \ {x}) \cap S \in SUBSET S
      OBVIOUS
    <3>3. h[s] = G[s \cap S] /\ h[s \ {x}] = G[(s \ {x}) \cap S] /\ G[(s \ {x}) \cap S] \in Int
      BY <1>1, <3>2 DEF Adds
    <3>. HIDE DEF h
    <3>4. ASSUME x \in S PROVE h[s] = h[s \ {x}] + c[x]
      <4>1. (s \ {x}) \cap S = (s \cap S) \ {x} /\ x \in s \cap S
        BY <3>4
      <4>2. G[s \cap S] = f[x] + G[(s \ {x}) \cap S] /\ f[x] \in Int /\ c[x] = f[x]
        BY <1>1, <3>2, <3>4, <4>1 DEF Adds
      <4>. QED BY <3>3, <4>2
    <3>5. ASSUME x \notin S PROVE h[s] = h[s \ {x}] + c[x]
      <4>1. (s \ {x}) \cap S = s \cap S /\ c[x] = 0
        BY <3>5
      <4>. QED BY <3>3, <4>1
    <3>. QED BY <2>2, <3>4, <3>5
  <2>. QED BY <2>1, <2>2
<1>3. h[D] = SumOf(c, D)
  <2>. HIDE DEF h
  <2>. QED BY <1>2, SumsAgree
<1>4. h[D] = G[S]
  <2>1. D \cap S = S
    OBVIOUS
  <2>. QED BY <2>1
<1>. QED BY <1>3, <1>4 DEF G, SumOf

(* A sum is that over a part and that over the rest.                       *)
LEMMA SumSplits ==
  ASSUME NEW D, IsFiniteSet(D), NEW S \in SUBSET D, NEW f \in [S -> Int],
         NEW a \in [D -> Int], NEW c \in [D -> Int],
         \A x \in S : a[x] = f[x] /\ c[x] = 0, \A x \in D \ S : c[x] = a[x]
  PROVE  SumOf(a, D) = SumOf(f, S) + SumOf(c, D) /\ SumOf(f, S) \in Int /\ SumOf(c, D) \in Int
<1>. DEFINE b == [x \in D |-> IF x \in S THEN f[x] ELSE 0]
<1>1. b \in [D -> Int] /\ \A x \in D : b[x] = IF x \in S THEN f[x] ELSE 0
  OBVIOUS
<1>2. \A x \in D : a[x] = b[x] + c[x]
  OBVIOUS
<1>. HIDE DEF b
<1>3. SumOf(b, D) = SumOf(f, S)
  BY <1>1, SumOfPart
<1>4. SumOf(a, D) = SumOf(b, D) + SumOf(c, D)
  BY <1>1, <1>2, SumOfSums
<1>5. IsFiniteSet(S)
  BY FS_Subset
<1>6. SumOf(f, S) \in Int /\ SumOf(c, D) \in Int
  BY <1>5, SumIsInt
<1>. QED BY <1>3, <1>4, <1>6

(* One for each element is how many there are.                             *)
LEMMA SumOfOnes ==
  ASSUME NEW D, IsFiniteSet(D), NEW S \in SUBSET D, NEW c \in [D -> Int],
         \A x \in D : c[x] = IF x \in S THEN 1 ELSE 0
  PROVE  SumOf(c, D) = Cardinality(S)
<1>. DEFINE h == [s \in SUBSET D |-> Cardinality(s \cap S)]
<1>1. ASSUME NEW s \in SUBSET D
      PROVE  IF s = {} THEN h[s] = 0
             ELSE \E x \in s : h[s \ {x}] \in Int => h[s] = h[s \ {x}] + c[x]
  <2>1. CASE s = {}
    <3>1. s \cap S = {}
      BY <2>1
    <3>. QED BY <2>1, <3>1, FS_EmptySet
  <2>2. CASE s # {}
    <3>1. PICK x \in s : TRUE
      BY <2>2
    <3>2. s \ {x} \in SUBSET D /\ IsFiniteSet(s \cap S)
      BY FS_Subset
    <3>3. h[s] = Cardinality(s \cap S) /\ h[s \ {x}] = Cardinality((s \ {x}) \cap S)
      BY <3>2
    <3>. HIDE DEF h
    <3>4. ASSUME x \in S PROVE h[s] = h[s \ {x}] + c[x]
      <4>1. (s \ {x}) \cap S = (s \cap S) \ {x} /\ x \in s \cap S /\ c[x] = 1
        BY <3>4
      <4>2. Cardinality((s \cap S) \ {x}) = Cardinality(s \cap S) - 1 /\ Cardinality(s \cap S) \in Nat
        BY <3>2, <4>1, FS_RemoveElement, FS_CardinalityType
      <4>3. Cardinality((s \ {x}) \cap S) = Cardinality((s \cap S) \ {x})
        BY <4>1
      <4>. QED BY <3>3, <4>1, <4>2, <4>3
    <3>5. ASSUME x \notin S PROVE h[s] = h[s \ {x}] + c[x]
      <4>1. (s \ {x}) \cap S = s \cap S /\ c[x] = 0 /\ Cardinality(s \cap S) \in Nat
        BY <3>2, <3>5, FS_CardinalityType
      <4>2. Cardinality((s \ {x}) \cap S) = Cardinality(s \cap S)
        BY <4>1
      <4>. QED BY <3>3, <4>1, <4>2
    <3>. QED BY <2>2, <3>4, <3>5
  <2>. QED BY <2>1, <2>2
<1>2. h[D] = SumOf(c, D)
  <2>. HIDE DEF h
  <2>. QED BY <1>1, SumsAgree
<1>3. h[D] = Cardinality(S)
  <2>1. D \cap S = S
    OBVIOUS
  <2>. QED BY <2>1
<1>. QED BY <1>2, <1>3

(* A fold that adds what it reads, from the first row to the last.         *)
FoldOf(f, D) ==
  (CHOOSE g : g = [s \in SUBSET D |-> IF s = {} THEN 0 ELSE g[s \ {Max(s)}] + f[Max(s)]])[D]

LEMMA FoldIsSum ==
  ASSUME NEW n \in Nat, NEW f \in [1..n -> Int]
  PROVE  FoldOf(f, 1..n) = SumOf(f, 1..n)
<1>. DEFINE Unroll(g) == [s \in SUBSET (1..n) |-> IF s = {} THEN 0 ELSE g[s \ {Max(s)}] + f[Max(s)]]
            h == CHOOSE g : g = Unroll(g)
<1>1. IsFiniteSet(1..n)
  BY FS_Interval
<1>2. Partial(f, 1..n) = Unroll(Partial(f, 1..n))
  <2>. DEFINE G == Partial(f, 1..n)
  <2>1. Adds(G, f, 1..n)
    BY <1>1, SumsExist
  <2>. HIDE DEF G
  <2>2. ASSUME NEW s \in SUBSET (1..n), s # {} PROVE G[s] = G[s \ {Max(s)}] + f[Max(s)]
    <3>1. Max(s) \in s
      BY <2>2, LastPlace
    <3>2. G[s] = f[Max(s)] + G[s \ {Max(s)}] /\ G[s \ {Max(s)}] \in Int /\ f[Max(s)] \in Int
      BY <2>1, <3>1 DEF Adds
    <3>. QED BY <3>2
  <2>3. G = [s \in SUBSET (1..n) |-> G[s]] /\ G[{}] = 0
    BY <2>1 DEF Adds
  <2>. QED BY <2>2, <2>3 DEF G
<1>3. h = Unroll(h)
  <2>. HIDE DEF Unroll
  <2>. QED BY <1>2
<1>. HIDE DEF h
<1>4. ASSUME NEW s \in SUBSET (1..n)
      PROVE  IF s = {} THEN h[s] = 0
             ELSE \E x \in s : h[s \ {x}] \in Int => h[s] = h[s \ {x}] + f[x]
  <2>1. s # {} => Max(s) \in s
    BY LastPlace
  <2>2. h[s] = IF s = {} THEN 0 ELSE h[s \ {Max(s)}] + f[Max(s)]
    BY <1>3
  <2>. QED BY <2>1, <2>2
<1>5. h[1..n] = SumOf(f, 1..n)
  BY <1>1, <1>4, SumsAgree
<1>. QED BY <1>5 DEF FoldOf, h

(* A fold that counts the rows of which something holds.                   *)
CountOf(S, D) ==
  (CHOOSE g : g = [s \in SUBSET D |->
                     IF s = {} THEN 0
                     ELSE IF Max(s) \in S THEN g[s \ {Max(s)}] + 1 ELSE g[s \ {Max(s)}]])[D]

LEMMA CountIsCardinality ==
  ASSUME NEW n \in Nat, NEW S \in SUBSET (1..n)
  PROVE  CountOf(S, 1..n) = Cardinality(S)
<1>. DEFINE c == [x \in 1..n |-> IF x \in S THEN 1 ELSE 0]
            Unroll(g) == [s \in SUBSET (1..n) |->
                            IF s = {} THEN 0
                            ELSE IF Max(s) \in S THEN g[s \ {Max(s)}] + 1 ELSE g[s \ {Max(s)}]]
            h == CHOOSE g : g = Unroll(g)
<1>1. IsFiniteSet(1..n) /\ c \in [1..n -> Int]
  BY FS_Interval
<1>2. \A x \in 1..n : c[x] = IF x \in S THEN 1 ELSE 0
  OBVIOUS
<1>. HIDE DEF c
<1>3. Partial(c, 1..n) = Unroll(Partial(c, 1..n))
  <2>. DEFINE G == Partial(c, 1..n)
  <2>1. Adds(G, c, 1..n)
    BY <1>1, SumsExist
  <2>. HIDE DEF G
  <2>2. ASSUME NEW s \in SUBSET (1..n), s # {}
        PROVE  G[s] = IF Max(s) \in S THEN G[s \ {Max(s)}] + 1 ELSE G[s \ {Max(s)}]
    <3>1. Max(s) \in s
      BY <2>2, LastPlace
    <3>2. G[s] = c[Max(s)] + G[s \ {Max(s)}] /\ G[s \ {Max(s)}] \in Int
      BY <2>1, <3>1 DEF Adds
    <3>3. c[Max(s)] = IF Max(s) \in S THEN 1 ELSE 0
      BY <1>2, <3>1
    <3>. QED BY <3>2, <3>3
  <2>3. G = [s \in SUBSET (1..n) |-> G[s]] /\ G[{}] = 0
    BY <2>1 DEF Adds
  <2>. QED BY <2>2, <2>3 DEF G
<1>4. h = Unroll(h)
  <2>. HIDE DEF Unroll
  <2>. QED BY <1>3
<1>. HIDE DEF h
<1>5. ASSUME NEW s \in SUBSET (1..n)
      PROVE  IF s = {} THEN h[s] = 0
             ELSE \E x \in s : h[s \ {x}] \in Int => h[s] = h[s \ {x}] + c[x]
  <2>1. h[s] = IF s = {} THEN 0 ELSE IF Max(s) \in S THEN h[s \ {Max(s)}] + 1 ELSE h[s \ {Max(s)}]
    BY <1>4
  <2>2. ASSUME s # {}, h[s \ {Max(s)}] \in Int PROVE h[s] = h[s \ {Max(s)}] + c[Max(s)]
    <3>1. Max(s) \in s
      BY <2>2, LastPlace
    <3>2. c[Max(s)] = IF Max(s) \in S THEN 1 ELSE 0
      BY <1>2, <3>1
    <3>3. CASE Max(s) \in S
      BY <2>1, <2>2, <3>2, <3>3
    <3>4. CASE Max(s) \notin S
      <4>1. c[Max(s)] = 0
        BY <3>2, <3>4
      <4>2. h[s] = h[s \ {Max(s)}]
        BY <2>1, <2>2, <3>4, Zenon
      <4>. QED BY <2>2, <4>1, <4>2
    <3>. QED BY <3>3, <3>4
  <2>3. s # {} => Max(s) \in s
    BY LastPlace
  <2>. QED BY <2>1, <2>2, <2>3
<1>6. h[1..n] = SumOf(c, 1..n)
  BY <1>1, <1>5, SumsAgree
<1>7. SumOf(c, 1..n) = Cardinality(S)
  BY <1>1, <1>2, SumOfOnes
<1>. QED BY <1>6, <1>7 DEF CountOf, h

(* A sum over a set, in whatever order.                                    *)
PickOf(f, D) ==
  (CHOOSE g : g = [s \in SUBSET D |->
                     IF s = {} THEN 0
                     ELSE f[CHOOSE x \in s : TRUE] + g[s \ {CHOOSE x \in s : TRUE}]])[D]

LEMMA PickIsSum ==
  ASSUME NEW D, IsFiniteSet(D), NEW f \in [D -> Int]
  PROVE  PickOf(f, D) = SumOf(f, D)
<1>. DEFINE Any(s) == CHOOSE x \in s : TRUE
            Unroll(g) == [s \in SUBSET D |-> IF s = {} THEN 0 ELSE f[Any(s)] + g[s \ {Any(s)}]]
            h == CHOOSE g : g = Unroll(g)
<1>1. \A s : s # {} => Any(s) \in s
  OBVIOUS
<1>. HIDE DEF Any
<1>2. Partial(f, D) = Unroll(Partial(f, D))
  <2>. DEFINE G == Partial(f, D)
  <2>1. Adds(G, f, D)
    BY SumsExist
  <2>. HIDE DEF G
  <2>2. ASSUME NEW s \in SUBSET D, s # {} PROVE G[s] = f[Any(s)] + G[s \ {Any(s)}]
    BY <1>1, <2>1, <2>2 DEF Adds
  <2>3. G = [s \in SUBSET D |-> G[s]] /\ G[{}] = 0
    BY <2>1 DEF Adds
  <2>. QED BY <2>2, <2>3 DEF G
<1>3. h = Unroll(h)
  <2>. HIDE DEF Unroll
  <2>. QED BY <1>2
<1>. HIDE DEF h
<1>4. ASSUME NEW s \in SUBSET D
      PROVE  IF s = {} THEN h[s] = 0
             ELSE \E x \in s : h[s \ {x}] \in Int => h[s] = h[s \ {x}] + f[x]
  <2>1. h[s] = IF s = {} THEN 0 ELSE f[Any(s)] + h[s \ {Any(s)}]
    BY <1>3
  <2>2. ASSUME s # {}, h[s \ {Any(s)}] \in Int PROVE h[s] = h[s \ {Any(s)}] + f[Any(s)]
    <3>1. f[Any(s)] \in Int
      BY <1>1, <2>2
    <3>. QED BY <2>1, <2>2, <3>1
  <2>. QED BY <1>1, <2>1, <2>2
<1>5. h[D] = SumOf(f, D)
  BY <1>4, SumsAgree
<1>. QED BY <1>5 DEF PickOf, h, Any

-----------------------------------------------------------------------------
(* The best of some numbers: the least (sign 1) or the greatest (sign -1). *)
IsBest(sign, f, s, v) == /\ \E i \in s : v = f[i]
                         /\ \A i \in s : sign * v <= sign * f[i]

LEMMA BestExists ==
  ASSUME NEW sign \in {1, -1}, NEW n \in Nat, NEW f \in [1..n -> Int], NEW s \in SUBSET (1..n), s # {}
  PROVE  \E v \in Int : IsBest(sign, f, s, v)
<1>. DEFINE Fails == {m \in Nat : \E S \in SUBSET (1..n) : S # {} /\ S \subseteq 1..m
                                     /\ ~\E v \in Int : IsBest(sign, f, S, v)}
<1>1. ASSUME Fails # {} PROVE FALSE
  <2>1. PICK m \in Fails : \A k \in Fails : m <= k
    <3>1. Fails \subseteq Nat
      OBVIOUS
    <3>. HIDE DEF Fails
    <3>. QED BY <1>1, <3>1, LeastNatural
  <2>2. PICK S \in SUBSET (1..n) : S # {} /\ S \subseteq 1..m /\ ~\E v \in Int : IsBest(sign, f, S, v)
    BY <2>1
  <2>3. m \in Nat /\ m # 0
    <3>1. m \in Nat
      BY <2>1
    <3>2. 1..0 = {}
      OBVIOUS
    <3>. QED BY <2>2, <3>1, <3>2
  <2>4. m - 1 \notin Fails
    <3>. HIDE DEF Fails
    <3>. QED BY <2>1, <2>3
  <2>5. m \in S
    <3>. SUFFICES ASSUME m \notin S PROVE FALSE
      OBVIOUS
    <3>1. S \subseteq 1..(m - 1) /\ m - 1 \in Nat
      BY <2>2, <2>3
    <3>. QED BY <2>2, <2>4, <3>1
  <2>6. f[m] \in Int
    BY <2>5
  <2>7. CASE S \ {m} = {}
    <3>1. IsBest(sign, f, S, f[m])
      BY <2>5, <2>6, <2>7 DEF IsBest
    <3>. QED BY <2>2, <2>6, <3>1
  <2>8. CASE S \ {m} # {}
    <3>1. S \ {m} \in SUBSET (1..n) /\ S \ {m} \subseteq 1..(m - 1) /\ m - 1 \in Nat
      BY <2>2, <2>3
    <3>2. PICK v \in Int : IsBest(sign, f, S \ {m}, v)
      BY <2>4, <2>8, <3>1
    <3>3. \A i \in S : f[i] \in Int
      OBVIOUS
    <3>4. CASE sign * v <= sign * f[m]
      <4>1. IsBest(sign, f, S, v)
        BY <3>2, <3>4 DEF IsBest
      <4>. QED BY <2>2, <4>1
    <3>5. CASE ~(sign * v <= sign * f[m])
      <4>1. \A a, b, c \in Int : ~(sign * a <= sign * b) /\ sign * a <= sign * c => sign * b <= sign * c
        OBVIOUS
      <4>2. \A i \in S \ {m} : sign * f[m] <= sign * f[i]
        BY <2>6, <3>2, <3>3, <3>5, <4>1 DEF IsBest
      <4>3. IsBest(sign, f, S, f[m])
        BY <2>5, <2>6, <4>2 DEF IsBest
      <4>. QED BY <2>2, <2>6, <4>3
    <3>. QED BY <3>4, <3>5
  <2>. QED BY <2>7, <2>8
<1>. QED BY <1>1

LEMMA BestIsOne ==
  ASSUME NEW sign \in {1, -1}, NEW f, NEW s, NEW v \in Int, NEW w \in Int,
         IsBest(sign, f, s, v), IsBest(sign, f, s, w)
  PROVE  v = w
<1>1. sign * v <= sign * w /\ sign * w <= sign * v
  BY DEF IsBest
<1>. QED BY <1>1

(* A fold that keeps the best of what it read, from the first row on.      *)
BestOf(sign, f, D) ==
  (CHOOSE g : g = [s \in SUBSET D |->
                     IF s = {} THEN f[1]
                     ELSE IF sign * f[Max(s)] < sign * g[s \ {Max(s)}] THEN f[Max(s)]
                                                                       ELSE g[s \ {Max(s)}]])[D]

LEMMA BestOfIsBest ==
  ASSUME NEW sign \in {1, -1}, NEW n \in Nat \ {0}, NEW f \in [1..n -> Int]
  PROVE  BestOf(sign, f, 1..n) \in Int /\ IsBest(sign, f, 1..n, BestOf(sign, f, 1..n))
<1>. DEFINE Unroll(g) == [s \in SUBSET (1..n) |->
                            IF s = {} THEN f[1]
                            ELSE IF sign * f[Max(s)] < sign * g[s \ {Max(s)}] THEN f[Max(s)]
                                                                              ELSE g[s \ {Max(s)}]]
            h == CHOOSE g : g = Unroll(g)
            G == [s \in SUBSET (1..n) |-> CHOOSE v \in Int : IsBest(sign, f, s \cup {1}, v)]
<1>1. 1 \in 1..n /\ \A i \in 1..n : f[i] \in Int
  OBVIOUS
<1>2. ASSUME NEW s \in SUBSET (1..n) PROVE G[s] \in Int /\ IsBest(sign, f, s \cup {1}, G[s])
  <2>1. s \cup {1} \in SUBSET (1..n) /\ s \cup {1} # {}
    BY <1>1
  <2>2. \E v \in Int : IsBest(sign, f, s \cup {1}, v)
    BY <2>1, BestExists
  <2>. QED BY <2>2
<1>3. G = [s \in SUBSET (1..n) |-> G[s]]
  <2>. DEFINE V(s) == CHOOSE v \in Int : IsBest(sign, f, s \cup {1}, v)
  <2>1. G = [s \in SUBSET (1..n) |-> V(s)]
    OBVIOUS
  <2>. HIDE DEF V, G
  <2>. QED BY <2>1
<1>. HIDE DEF G
<1>4. ASSUME NEW s \in SUBSET (1..n)
      PROVE  G[s] = IF s = {} THEN f[1]
                    ELSE IF sign * f[Max(s)] < sign * G[s \ {Max(s)}] THEN f[Max(s)]
                                                                      ELSE G[s \ {Max(s)}]
  <2>1. CASE s = {}
    <3>1. IsBest(sign, f, s \cup {1}, f[1])
      BY <1>1, <2>1 DEF IsBest
    <3>. QED BY <1>1, <1>2, <2>1, <3>1, BestIsOne
  <2>2. CASE s # {}
    <3>. DEFINE m == Max(s)
                r == s \ {m}
    <3>1. m \in s /\ r \in SUBSET (1..n) /\ s = r \cup {m}
      BY <2>2, LastPlace
    <3>. HIDE DEF m, r
    <3>2. G[r] \in Int /\ IsBest(sign, f, r \cup {1}, G[r]) /\ f[m] \in Int
      BY <1>2, <3>1
    <3>3. ASSUME sign * f[m] < sign * G[r] PROVE IsBest(sign, f, s \cup {1}, f[m])
      <4>1. \A a, b, c \in Int : sign * a < sign * b /\ sign * b <= sign * c => sign * a <= sign * c
        OBVIOUS
      <4>2. \A i \in r \cup {1} : sign * f[m] <= sign * f[i]
        BY <1>1, <3>1, <3>2, <3>3, <4>1 DEF IsBest
      <4>. QED BY <3>1, <3>2, <4>2 DEF IsBest
    <3>4. ASSUME ~(sign * f[m] < sign * G[r]) PROVE IsBest(sign, f, s \cup {1}, G[r])
      <4>1. sign * G[r] <= sign * f[m]
        BY <3>2, <3>4
      <4>. QED BY <3>1, <3>2, <4>1 DEF IsBest
    <3>5. G[s] = IF sign * f[m] < sign * G[r] THEN f[m] ELSE G[r]
      BY <1>2, <3>2, <3>3, <3>4, BestIsOne
    <3>. QED BY <2>2, <3>5 DEF m, r
  <2>. QED BY <2>1, <2>2
<1>5. G = Unroll(G)
  BY <1>3, <1>4
<1>6. h = Unroll(h)
  <2>. HIDE DEF Unroll
  <2>. QED BY <1>5
<1>. HIDE DEF h
<1>7. ASSUME NEW s \in SUBSET (1..n), s # {}
      PROVE  \E x \in s : h[s \ {x}] = G[s \ {x}] => h[s] = G[s]
  <2>1. Max(s) \in s
    BY <1>7, LastPlace
  <2>2. h[s] = IF sign * f[Max(s)] < sign * h[s \ {Max(s)}] THEN f[Max(s)] ELSE h[s \ {Max(s)}]
    BY <1>6, <1>7
  <2>3. G[s] = IF sign * f[Max(s)] < sign * G[s \ {Max(s)}] THEN f[Max(s)] ELSE G[s \ {Max(s)}]
    BY <1>4, <1>7
  <2>. QED BY <2>1, <2>2, <2>3
<1>8. h[1..n] = G[1..n]
  <2>1. {} \in SUBSET (1..n) /\ IsFiniteSet(1..n)
    BY FS_Interval
  <2>2. h[{}] = G[{}]
    BY <1>4, <1>6, <2>1
  <2>. QED BY <1>7, <2>1, <2>2, FoldsAgree
<1>9. 1..n \in SUBSET (1..n) /\ (1..n) \cup {1} = 1..n
  BY <1>1
<1>. QED BY <1>2, <1>8, <1>9 DEF BestOf, h
=============================================================================
