-------------------------- MODULE InductionLemmas --------------------------
(***************************************************************************)
(* Induction over the natural numbers, in a form whose parameters are sets *)
(* and functions: what is to be shown of every number is that it belongs   *)
(* to a set, and what a recursive definition does in a step is a function. *)
(* The rest are facts about powers of two and quotients, which the other   *)
(* proofs use.                                                             *)
(***************************************************************************)
EXTENDS Integers, WellFoundedInduction, FiniteSetTheorems, TLAPS

(* A set of natural numbers that is not empty has a smallest element.      *)
LEMMA Smallest ==
  ASSUME NEW T \in SUBSET Nat, T # {}
  PROVE  \E n \in T : \A k \in T : n <= k
<1> DEFINE R == {p \in Nat \X Nat : p[1] < p[2]}
<1>1. IsWellFoundedOn(R, Nat)
  BY NatLessThanWellFounded DEF OpToRel
<1>2. \E x \in T : \A y \in T : ~ (<<y, x>> \in R)
  <2> HIDE DEF R
  <2>1. T \subseteq Nat OBVIOUS
  <2> QED BY <1>1, <2>1, WFMin, Zenon
<1>3. PICK n \in T : \A k \in T : ~ (<<k, n>> \in R)
  BY <1>2
<1>4. ASSUME NEW k \in T PROVE n <= k
  <2>1. <<k, n>> \in Nat \X Nat /\ ~ (<<k, n>> \in R) BY <1>3
  <2>2. ~ (k < n) BY <2>1
  <2> QED BY <2>2
<1> QED BY <1>4

LEMMA Induction ==
  ASSUME NEW S, 0 \in S, \A n \in Nat : n \in S => n + 1 \in S
  PROVE  \A n \in Nat : n \in S
<1>1. SUFFICES ASSUME NEW k \in Nat, k \notin S PROVE FALSE
  OBVIOUS
<1> DEFINE T == {n \in Nat : n \notin S}
<1>2. T # {} BY <1>1
<1>3. PICK n \in T : \A j \in T : n <= j
  BY <1>2, Smallest
<1>4. n # 0 OBVIOUS
<1>5. n - 1 \in Nat /\ n - 1 \notin T BY <1>3, <1>4
<1> QED BY <1>5

(* f begins with b, and F gives each value from the number and the value   *)
(* before.                                                                 *)
Recursive(f, m, b, F) ==
  f = [i \in 0 .. m |-> IF i = 0 THEN b ELSE F[<<i, f[i - 1]>>]]

(* What is defined by recursion exists. *)
LEMMA Recursion ==
  ASSUME NEW S, NEW m \in Nat, NEW b \in S, NEW F,
         \A i \in 1 .. m : \A s \in S : F[<<i, s>>] \in S
  PROVE  \E f \in [0 .. m -> S] : Recursive(f, m, b, F)
<1> DEFINE P(n) == \E f \in [0 .. n -> S] :
                     f = [i \in 0 .. n |-> IF i = 0 THEN b ELSE F[<<i, f[i - 1]>>]]
           G == {n \in Nat : n <= m => P(n)}
<1>1. 0 \in G
  <2>1. [i \in 0 .. 0 |-> b] \in [0 .. 0 -> S] OBVIOUS
  <2>2. [i \in 0 .. 0 |-> b] =
          [i \in 0 .. 0 |-> IF i = 0 THEN b ELSE F[<<i, [j \in 0 .. 0 |-> b][i - 1]>>]]
    OBVIOUS
  <2>3. P(0) BY <2>1, <2>2, Zenon
  <2> QED BY <2>3
<1>2. ASSUME NEW n \in Nat, n \in G PROVE n + 1 \in G
  <2>1. SUFFICES ASSUME n + 1 <= m PROVE P(n + 1)
    OBVIOUS
  <2>2. PICK f \in [0 .. n -> S] :
          f = [i \in 0 .. n |-> IF i = 0 THEN b ELSE F[<<i, f[i - 1]>>]]
    BY <1>2, <2>1
  <2> DEFINE g == [i \in 0 .. n + 1 |-> IF i = n + 1 THEN F[<<n + 1, f[n]>>] ELSE f[i]]
  <2>3. g \in [0 .. n + 1 -> S] BY <2>1
  <2>4. ASSUME NEW i \in 0 .. n + 1
        PROVE  g[i] = IF i = 0 THEN b ELSE F[<<i, g[i - 1]>>]
    <3>1. CASE i = n + 1 BY <3>1
    <3>2. CASE i # n + 1
      <4>1. i \in 0 .. n BY <3>2
      <4>2. f[i] = IF i = 0 THEN b ELSE F[<<i, f[i - 1]>>] BY <2>2, <4>1
      <4>3. i # 0 => i - 1 \in 0 .. n + 1 /\ i - 1 # n + 1 BY <4>1
      <4> QED BY <3>2, <4>1, <4>2, <4>3
    <3> QED BY <3>1, <3>2
  <2>5. g = [i \in 0 .. n + 1 |-> IF i = 0 THEN b ELSE F[<<i, g[i - 1]>>]]
    BY <2>4
  <2> QED BY <2>3, <2>5
<1>3. \A n \in Nat : n \in G
  <2> HIDE DEF G
  <2> QED BY <1>1, <1>2, Induction
<1> QED BY <1>3 DEF Recursive
---------------------------------------------------------------------------
(* Half the subsets of 1 .. n + 1 contain n + 1, half do not.              *)
LEMMA NextPowerOfTwo == ASSUME NEW n \in Nat PROVE 2^(n + 1) = 2 * 2^n
<1> DEFINE A == SUBSET (1 .. n)
           B == {T \cup {n + 1} : T \in A}
           g == [T \in A |-> T \cup {n + 1}]
<1>1. /\ IsFiniteSet(1 .. n) /\ Cardinality(1 .. n) = n
      /\ IsFiniteSet(1 .. n + 1) /\ Cardinality(1 .. n + 1) = n + 1
  BY FS_Interval
<1>2. IsFiniteSet(A) /\ Cardinality(A) = 2^n /\ Cardinality(A) \in Nat
  BY <1>1, FS_SUBSET, FS_CardinalityType
<1>3. Cardinality(SUBSET (1 .. n + 1)) = 2^(n + 1)
  BY <1>1, FS_SUBSET
<1>4. SUBSET (1 .. n + 1) = A \cup B
  <2>1. ASSUME NEW X \in SUBSET (1 .. n + 1) PROVE X \in A \cup B
    <3>1. CASE n + 1 \in X
      <4>1. X = (X \ {n + 1}) \cup {n + 1} BY <3>1
      <4>2. X \ {n + 1} \in A OBVIOUS
      <4> QED BY <4>1, <4>2
    <3>2. CASE n + 1 \notin X
      <4>1. X \in A BY <3>2
      <4> QED BY <4>1
    <3> QED BY <3>1, <3>2
  <2>2. ASSUME NEW X \in A \cup B PROVE X \in SUBSET (1 .. n + 1)
    OBVIOUS
  <2> QED BY <2>1, <2>2
<1>5. g \in Bijection(A, B)
  <2>1. g \in Surjection(A, B) BY DEF Surjection
  <2>2. g \in Injection(A, B)
    <3>1. ASSUME NEW X \in A, NEW Y \in A, g[X] = g[Y] PROVE X = Y
      <4>1. n + 1 \notin X /\ n + 1 \notin Y OBVIOUS
      <4>2. X \cup {n + 1} = Y \cup {n + 1} BY <3>1
      <4> QED BY <4>1, <4>2
    <3>2. g \in [A -> B] OBVIOUS
    <3> HIDE DEF g
    <3> QED BY <3>1, <3>2 DEF Injection, IsInjective
  <2> QED BY <2>1, <2>2 DEF Bijection
<1>6. IsFiniteSet(B) /\ Cardinality(B) = Cardinality(A)
  <2> HIDE DEF g, A, B
  <2>1. ExistsBijection(A, B) BY <1>5 DEF ExistsBijection
  <2> QED BY <1>2, <2>1, FS_Bijection
<1>7. A \cap B = {}
  <2>1. ASSUME NEW X \in A, X \in B PROVE FALSE
    <3>1. n + 1 \notin X OBVIOUS
    <3>2. n + 1 \in X BY <2>1
    <3> QED BY <3>1, <3>2
  <2> QED BY <2>1
<1> HIDE DEF A, B
<1>8. Cardinality(A \cup B) = Cardinality(A) + Cardinality(B)
  <2>1. Cardinality(A \cap B) = 0 BY <1>7, FS_EmptySet
  <2>2. Cardinality(B) \in Nat BY <1>6, <1>2
  <2> QED BY <1>2, <1>6, <2>1, <2>2, FS_Union
<1>9. Cardinality(SUBSET (1 .. n + 1)) = Cardinality(A) + Cardinality(A)
  BY <1>4, <1>6, <1>8, Zenon
<1>10. Cardinality(A) + Cardinality(A) = 2 * Cardinality(A) BY <1>2
<1> QED BY <1>2, <1>3, <1>9, <1>10, Zenon

(* A name for the power, which the provers take for a number only where    *)
(* they are told so.                                                       *)
PowerOfTwo(n) == 2^n

LEMMA PowersOfTwo ==
  /\ PowerOfTwo(0) = 1
  /\ \A n \in Nat : /\ PowerOfTwo(n) \in Nat \ {0}
                    /\ PowerOfTwo(n + 1) = 2 * PowerOfTwo(n)
<1> DEFINE G == {n \in Nat : PowerOfTwo(n) \in Nat \ {0}}
<1>1. ASSUME NEW n \in Nat PROVE PowerOfTwo(n + 1) = 2 * PowerOfTwo(n)
  BY NextPowerOfTwo DEF PowerOfTwo
<1>2. 0 \in G /\ PowerOfTwo(0) = 1 BY DEF PowerOfTwo
<1>3. \A n \in Nat : n \in G => n + 1 \in G BY <1>1
<1>4. \A n \in Nat : n \in G BY <1>2, <1>3, Induction
<1> QED BY <1>1, <1>2, <1>4

LEMMA PowerOfSum ==
  ASSUME NEW m \in Nat
  PROVE  \A n \in Nat : PowerOfTwo(m + n) = PowerOfTwo(m) * PowerOfTwo(n)
<1> DEFINE G == {n \in Nat : PowerOfTwo(m + n) = PowerOfTwo(m) * PowerOfTwo(n)}
<1>1. 0 \in G BY PowersOfTwo
<1>2. ASSUME NEW n \in Nat, n \in G PROVE n + 1 \in G
  <2>1. PowerOfTwo(m + (n + 1)) = 2 * PowerOfTwo(m + n)
    <3>1. m + (n + 1) = (m + n) + 1 /\ m + n \in Nat OBVIOUS
    <3> QED BY <3>1, PowersOfTwo
  <2>2. 2 * (PowerOfTwo(m) * PowerOfTwo(n)) = PowerOfTwo(m) * PowerOfTwo(n + 1)
    BY PowersOfTwo
  <2> QED BY <1>2, <2>1, <2>2
<1>3. \A n \in Nat : n \in G BY <1>1, <1>2, Induction
<1> QED BY <1>3

(* Quotient and remainder are determined. *)
LEMMA DivMod ==
  ASSUME NEW x \in Int, NEW p \in Nat \ {0}
  PROVE  /\ x \div p \in Int /\ x % p \in 0 .. p - 1
         /\ x = p * (x \div p) + (x % p)
OBVIOUS

LEMMA DivModUnique ==
  ASSUME NEW p \in Nat \ {0}, NEW q \in Int, NEW r \in 0 .. p - 1
  PROVE  (p * q + r) \div p = q /\ (p * q + r) % p = r
<1> DEFINE x == p * q + r
           y == x \div p
<1>1. y \in Int /\ x % p \in 0 .. p - 1 /\ x = p * y + (x % p)
  BY DivMod
<1>2. CASE y >= q + 1
  <2>1. p * y >= p * (q + 1) BY <1>1, <1>2
  <2> QED BY <1>1, <2>1
<1>3. CASE y <= q - 1
  <2>1. p * y <= p * (q - 1) BY <1>1, <1>3
  <2> QED BY <1>1, <2>1
<1>4. CASE y = q BY <1>1, <1>4
<1> QED BY <1>1, <1>2, <1>3, <1>4

(* Dividing twice is dividing by the product. *)
LEMMA DivDiv ==
  ASSUME NEW x \in Int, NEW p \in Nat \ {0}, NEW q \in Nat \ {0}
  PROVE  (x \div p) \div q = x \div (p * q)
<1> DEFINE y == x \div p
           z == y \div q
           r == x % p
           s == y % q
<1>1. /\ y \in Int /\ r \in 0 .. p - 1 /\ x = p * y + r
      /\ z \in Int /\ s \in 0 .. q - 1 /\ y = q * z + s
  BY DivMod
<1> HIDE DEF y, z, r, s
<1>2. x = (p * q) * z + (p * s + r)
  <2>1. p * (q * z + s) = (p * q) * z + p * s BY <1>1
  <2> QED BY <1>1, <2>1
<1>3. p * s + r \in 0 .. p * q - 1
  <2>1. p * s <= p * (q - 1) /\ 0 <= p * s BY <1>1
  <2>2. p * (q - 1) = p * q - p BY <1>1
  <2>3. p * s \in Int /\ p * q \in Int BY <1>1
  <2> QED BY <1>1, <2>1, <2>2, <2>3
<1>4. p * q \in Nat \ {0} OBVIOUS
<1>5. x \div (p * q) = z BY <1>1, <1>2, <1>3, <1>4, DivModUnique
<1> QED BY <1>5 DEF z, y
=============================================================================
