------------------------------ MODULE UnitProofs ------------------------------
(***************************************************************************)
(* Two units the core is built from, at every width: the ALU computes what *)
(* the instruction set says, shifts and logical functions included, and    *)
(* the byte lanes of DMem implement the byte-addressed memory.             *)
(***************************************************************************)
EXTENDS ALUSpec, WordLemmas, DMemLanes, InductionLemmas

(* Every branch and set-less-than condition is the one its function names. *)
THEOREM ComparisonsCorrect ==
  ASSUME NEW a \in Word, NEW b \in Word, NEW fn \in Comparisons
  PROVE  cmp(fn, a, b) <=> Compares(fn, a, b)
<1>0. Signed(a) \in Int /\ Signed(b) \in Int /\ a \in Nat /\ b \in Nat
  BY WordFacts DEF Signed
<1>1. CASE fn \in {"SEQ", "SNE"}
  BY <1>1 DEF cmp, isCmpI, isCmpEq, isSub, Compares
<1>2. CASE fn \in {"SLT", "SGE"}
  <2>1. slt(fn, a, b) <=> Signed(a) < Signed(b) BY <1>2, SignedLess
  <2>2. cmp(fn, a, b) <=> IF fn = "SLT" THEN Signed(a) < Signed(b)
                                        ELSE ~(Signed(a) < Signed(b))
    BY <1>2, <2>1 DEF cmp, isCmpI, isCmpEq, isSub
  <2>3. CASE fn = "SLT" BY <2>2, <2>3 DEF Compares
  <2>4. CASE fn = "SGE" BY <1>0, <2>2, <2>4 DEF Compares
  <2> QED BY <1>2, <2>3, <2>4
<1>3. CASE fn \in {"SLTU", "SGEU"}
  <2>1. slt(fn, a, b) <=> a < b BY <1>3, UnsignedLess
  <2>2. cmp(fn, a, b) <=> IF fn = "SLTU" THEN a < b ELSE ~(a < b)
    BY <1>3, <2>1 DEF cmp, isCmpI, isCmpEq, isSub
  <2>3. CASE fn = "SLTU" BY <2>2, <2>3 DEF Compares
  <2>4. CASE fn = "SGEU" BY <1>0, <2>2, <2>4 DEF Compares
  <2> QED BY <1>3, <2>3, <2>4
<1> QED BY <1>1, <1>2, <1>3 DEF Comparisons

(* The comparison and subtraction outputs are right for every operand: the *)
(* invariant TLC checks on small words, here for every width.              *)
THEOREM AluAlwaysCorrect == AluSpec => []AluCorrect
<1> DEFINE TypeInv == alu_op \in AluFns /\ in1 \in Word /\ in2 \in Word
<1>0. 0 \in Word /\ 1 \in Word BY WordFacts
<1>1. AluInit => TypeInv BY <1>0 DEF AluInit
<1>2. TypeInv /\ [AluNext]_aluVars => TypeInv'
  BY <1>0, AddWord DEF AluNext, aluVars
<1>3. TypeInv => AluCorrect
  <2> SUFFICES ASSUME TypeInv PROVE AluCorrect OBVIOUS
  <2>1. alu_op \in Comparisons =>
          (cmp(alu_op, in1, in2) <=> Compares(alu_op, in1, in2))
    BY ComparisonsCorrect
  <2>2. ASSUME alu_op \in {"SLT", "SLTU"}
        PROVE  AluOut(alu_op, in1, in2) = IF Compares(alu_op, in1, in2) THEN 1 ELSE 0
    <3>1. cmp(alu_op, in1, in2) <=> Compares(alu_op, in1, in2)
      BY <2>2, <2>1 DEF Comparisons
    <3> QED BY <2>2, <3>1 DEF AluOut
  <2>3. ASSUME alu_op = "SUB" PROVE AluOut(alu_op, in1, in2) = (in1 - in2) % WORD
    <3>1. AluOut(alu_op, in1, in2) = Sub(in1, in2) BY <2>3 DEF AluOut, Sum, isSub
    <3> QED BY <3>1, SubModulo
  <2> QED BY <2>1, <2>2, <2>3 DEF AluCorrect
<1> QED BY <1>1, <1>2, <1>3, PTL DEF AluSpec
---------------------------------------------------------------------------
(***************************************************************************)
(* The shifter and the logical functions work on sets of bits (BitsOf,     *)
(* FromBits); their meaning is about numbers.  What FromBits sums in any   *)
(* order is summed here from the lowest position up, and the bits of that  *)
(* sum are found by induction on the position.                             *)
(***************************************************************************)

(* The sum FromBits computes, set by set. *)
BitSum(f, S) ==
  f = [T \in SUBSET S |-> IF T = {} THEN 0
                          ELSE LET k == CHOOSE k \in T : TRUE IN f[T \ {k}] + 2^k]

LEMMA FromBitsDef == ASSUME NEW S PROVE FromBits(S) = (CHOOSE f : BitSum(f, S))[S]
BY DEF FromBits, FoldSet, MapThenFoldSet, BitSum

Position == 0 .. XLEN - 1

(* The same sum from the lowest position up: s[k] is what the bits of T    *)
(* below position k are worth.                                             *)
SumsUp(s, T) ==
  /\ s \in [0 .. XLEN -> Nat] /\ s[0] = 0
  /\ \A k \in Position : s[k + 1] = s[k] + Weight(k \in T, PowerOfTwo(k))

Below(T) == CHOOSE s : SumsUp(s, T)

LEMMA WidthNat ==
  /\ XLEN \in Nat /\ 0 \in 0 .. XLEN
  /\ \A k \in Position : k \in Nat /\ k + 1 \in 0 .. XLEN /\ k \in 0 .. XLEN
BY WordsAssumption DEF Position

LEMMA BelowDef == ASSUME NEW T PROVE SumsUp(Below(T), T)
<1> DEFINE F == [x \in (1 .. XLEN) \X Nat |-> x[2] + Weight(x[1] - 1 \in T, PowerOfTwo(x[1] - 1))]
<1>1. \A i \in 1 .. XLEN : \A n \in Nat :
        /\ F[<<i, n>>] = n + Weight(i - 1 \in T, PowerOfTwo(i - 1))
        /\ F[<<i, n>>] \in Nat
  <2> SUFFICES ASSUME NEW i \in 1 .. XLEN, NEW n \in Nat
               PROVE  /\ F[<<i, n>>] = n + Weight(i - 1 \in T, PowerOfTwo(i - 1))
                      /\ F[<<i, n>>] \in Nat
    OBVIOUS
  <2>1. <<i, n>> \in (1 .. XLEN) \X Nat OBVIOUS
  <2>2. F[<<i, n>>] = n + Weight(i - 1 \in T, PowerOfTwo(i - 1)) BY <2>1
  <2>3. PowerOfTwo(i - 1) \in Nat BY WidthNat, PowersOfTwo
  <2>4. Weight(i - 1 \in T, PowerOfTwo(i - 1)) \in Nat BY <2>3 DEF Weight
  <2> QED BY <2>2, <2>4
<1> HIDE DEF F
<1>2. PICK s \in [0 .. XLEN -> Nat] : Recursive(s, XLEN, 0, F)
  <2>1. 0 \in Nat OBVIOUS
  <2> QED BY <1>1, <2>1, WidthNat, Recursion
<1>3. SumsUp(s, T)
  <2>1. \A i \in 0 .. XLEN : s[i] = IF i = 0 THEN 0 ELSE F[<<i, s[i - 1]>>]
    BY <1>2 DEF Recursive
  <2>2. s[0] = 0 BY <2>1, WidthNat
  <2>3. ASSUME NEW k \in Position
        PROVE  s[k + 1] = s[k] + Weight(k \in T, PowerOfTwo(k))
    <3>1. k + 1 \in 1 .. XLEN /\ k + 1 # 0 /\ (k + 1) - 1 = k /\ s[k] \in Nat
      BY WidthNat DEF Position
    <3>2. s[k + 1] = F[<<k + 1, s[k]>>] BY <2>1, <3>1
    <3> QED BY <1>1, <3>1, <3>2
  <2> QED BY <2>2, <2>3 DEF SumsUp
<1> QED BY <1>3 DEF Below

(* What is shown of each position from the one before holds of all.        *)
LEMMA Upwards ==
  ASSUME NEW S, 0 \in S, \A k \in Position : k \in S => k + 1 \in S
  PROVE  \A k \in 0 .. XLEN : k \in S
<1> DEFINE G == {n \in Nat : n <= XLEN => n \in S}
<1>1. 0 \in G OBVIOUS
<1>2. \A n \in Nat : n \in G => n + 1 \in G BY WidthNat DEF Position
<1>3. \A n \in Nat : n \in G
  <2> HIDE DEF G
  <2> QED BY <1>1, <1>2, Induction
<1> QED BY <1>3, WidthNat

(* The bits below a position are worth less than its power. *)
LEMMA BelowBound == ASSUME NEW T PROVE \A k \in 0 .. XLEN : Below(T)[k] \in 0 .. PowerOfTwo(k) - 1
<1> DEFINE s == Below(T)
           G == {k \in 0 .. XLEN : s[k] \in 0 .. PowerOfTwo(k) - 1}
<1>1. SumsUp(s, T) BY BelowDef
<1> HIDE DEF s
<1>2. 0 \in G BY <1>1, PowersOfTwo, WidthNat DEF SumsUp
<1>3. ASSUME NEW k \in Position, k \in G PROVE k + 1 \in G
  <2>1. s[k + 1] = s[k] + Weight(k \in T, PowerOfTwo(k)) BY <1>1 DEF SumsUp
  <2>2. PowerOfTwo(k) \in Nat \ {0} /\ PowerOfTwo(k + 1) = 2 * PowerOfTwo(k)
    BY WidthNat, PowersOfTwo
  <2>3. Weight(k \in T, PowerOfTwo(k)) \in 0 .. PowerOfTwo(k) BY <2>2 DEF Weight
  <2> QED BY <1>3, <2>1, <2>2, <2>3, WidthNat
<1>4. \A k \in 0 .. XLEN : k \in G
  <2> HIDE DEF G
  <2> QED BY <1>2, <1>3, Upwards
<1> QED BY <1>4 DEF s

(* Taking a position out of the set takes its power off the sum. *)
LEMMA BelowRemove ==
  ASSUME NEW T, NEW c \in Position, c \in T
  PROVE  \A k \in 0 .. XLEN :
           Below(T)[k] = Below(T \ {c})[k] + Weight(c < k, PowerOfTwo(c))
<1> DEFINE s == Below(T)
           t == Below(T \ {c})
           G == {k \in 0 .. XLEN : s[k] = t[k] + Weight(c < k, PowerOfTwo(c))}
<1>1. SumsUp(s, T) /\ SumsUp(t, T \ {c}) BY BelowDef
<1> HIDE DEF s, t
<1>2. 0 \in G BY <1>1, WidthNat DEF SumsUp, Weight
<1>3. ASSUME NEW k \in Position, k \in G PROVE k + 1 \in G
  <2>1. /\ s[k + 1] = s[k] + Weight(k \in T, PowerOfTwo(k))
        /\ t[k + 1] = t[k] + Weight(k \in T \ {c}, PowerOfTwo(k))
        /\ t[k] \in Nat
    BY <1>1, WidthNat DEF SumsUp
  <2>2. PowerOfTwo(k) \in Nat /\ PowerOfTwo(c) \in Nat /\ k \in Nat /\ c \in Nat BY WidthNat, PowersOfTwo
  <2>3. CASE k = c
    BY <1>3, <2>1, <2>2, <2>3, WidthNat DEF Weight
  <2>4. CASE k # c
    <3>1. (k \in T) <=> (k \in T \ {c}) BY <2>4
    <3>2. (c < k) <=> (c < k + 1) BY <2>2, <2>4
    <3>3. Weight(k \in T, PowerOfTwo(k)) = Weight(k \in T \ {c}, PowerOfTwo(k))
      BY <3>1 DEF Weight
    <3>4. Weight(c < k, PowerOfTwo(c)) = Weight(c < k + 1, PowerOfTwo(c)) BY <3>2 DEF Weight
    <3>5. Weight(k \in T, PowerOfTwo(k)) \in Nat /\ Weight(c < k, PowerOfTwo(c)) \in Nat BY <2>2 DEF Weight
    <3> HIDE DEF G
    <3>6. s[k] = t[k] + Weight(c < k, PowerOfTwo(c)) BY <1>3 DEF G
    <3>7. s[k + 1] = t[k + 1] + Weight(c < k + 1, PowerOfTwo(c))
      BY <2>1, <3>3, <3>4, <3>5, <3>6
    <3> QED BY <3>7, WidthNat DEF G
  <2> QED BY <2>3, <2>4
<1>4. \A k \in 0 .. XLEN : k \in G
  <2> HIDE DEF G
  <2> QED BY <1>2, <1>3, Upwards
<1> QED BY <1>4 DEF s, t

LEMMA FromBitsValue == ASSUME NEW S \in SUBSET Position PROVE FromBits(S) = Below(S)[XLEN]
<1> DEFINE f == CHOOSE g : BitSum(g, S)
           w == [T \in SUBSET S |-> Below(T)[XLEN]]
<1>1. ASSUME NEW T \in SUBSET S, NEW c \in T
      PROVE  Below(T)[XLEN] = Below(T \ {c})[XLEN] + 2^c
  <2>1. c \in Position /\ XLEN \in 0 .. XLEN /\ c < XLEN BY WidthNat DEF Position
  <2>2. Below(T)[XLEN] = Below(T \ {c})[XLEN] + Weight(c < XLEN, PowerOfTwo(c))
    BY <2>1, BelowRemove
  <2> QED BY <2>1, <2>2 DEF Weight, PowerOfTwo
<1>2. Below({})[XLEN] = 0
  <2> DEFINE G == {k \in 0 .. XLEN : Below({})[k] = 0}
  <2>1. SumsUp(Below({}), {}) BY BelowDef
  <2>2. 0 \in G BY <2>1, WidthNat DEF SumsUp
  <2>3. \A k \in Position : k \in G => k + 1 \in G BY <2>1, WidthNat DEF SumsUp, Weight
  <2>4. XLEN \in G
    <3> HIDE DEF G
    <3> QED BY <2>2, <2>3, Upwards, WidthNat
  <2> QED BY <2>4
<1>3. BitSum(w, S)
  <2>1. ASSUME NEW T \in SUBSET S, T # {}
        PROVE  LET k == CHOOSE k \in T : TRUE IN w[T] = w[T \ {k}] + 2^k
    <3> DEFINE c == CHOOSE k \in T : TRUE
    <3>1. c \in T BY <2>1
    <3> HIDE DEF c
    <3>2. w[T] = w[T \ {c}] + 2^c BY <1>1, <3>1
    <3> QED BY <3>2 DEF c
  <2>2. {} \in SUBSET S /\ w[{}] = 0 BY <1>2
  <2> HIDE DEF w
  <2>3. w = [T \in SUBSET S |-> w[T]] BY DEF w
  <2>4. \A T \in SUBSET S : w[T] = IF T = {} THEN 0 ELSE LET k == CHOOSE k \in T : TRUE IN w[T \ {k}] + 2^k
    BY <2>1, <2>2
  <2> QED BY <2>3, <2>4, Zenon DEF BitSum
<1>4. BitSum(f, S)
  <2> HIDE DEF w
  <2> QED BY <1>3
<1> HIDE DEF f, w
<1>5. IsFiniteSet(S)
  <2>1. IsFiniteSet(Position) BY WidthNat, FS_Interval DEF Position
  <2> QED BY <2>1, FS_Subset
<1> DEFINE G == {n \in Nat : \A T \in SUBSET S : Cardinality(T) = n => f[T] = Below(T)[XLEN]}
<1>6. 0 \in G
  <2>1. ASSUME NEW T \in SUBSET S, Cardinality(T) = 0 PROVE f[T] = Below(T)[XLEN]
    <3>1. T = {} BY <1>5, <2>1, FS_Subset, FS_EmptySet
    <3> QED BY <1>2, <1>4, <3>1 DEF BitSum
  <2> QED BY <2>1
<1>7. ASSUME NEW n \in Nat, n \in G PROVE n + 1 \in G
  <2>1. ASSUME NEW T \in SUBSET S, Cardinality(T) = n + 1 PROVE f[T] = Below(T)[XLEN]
    <3> DEFINE c == CHOOSE k \in T : TRUE
    <3>1. IsFiniteSet(T) /\ T # {} BY <1>5, <2>1, FS_Subset, FS_EmptySet
    <3>2. f[T] = f[T \ {c}] + 2^c BY <1>4, <3>1 DEF BitSum
    <3>3. c \in T BY <3>1
    <3> HIDE DEF c
    <3>4. Cardinality(T \ {c}) = n
      <4>1. Cardinality(T \ {c}) = Cardinality(T) - 1 BY <3>1, <3>3, FS_RemoveElement, Zenon
      <4> QED BY <2>1, <4>1
    <3>5. f[T \ {c}] = Below(T \ {c})[XLEN] BY <1>7, <3>4
    <3> QED BY <1>1, <3>2, <3>3, <3>5
  <2> QED BY <2>1
<1>8. \A n \in Nat : n \in G
  <2> HIDE DEF G
  <2> QED BY <1>6, <1>7, Induction
<1>9. Cardinality(S) \in Nat BY <1>5, FS_CardinalityType
<1>10. f[S] = Below(S)[XLEN] BY <1>8, <1>9
<1> QED BY <1>10, FromBitsDef DEF f

(* Above a position the sum is that of the position and a multiple of the  *)
(* next one's power.                                                       *)
LEMMA BelowSplit ==
  ASSUME NEW T, NEW k \in Position
  PROVE  \E m \in Nat : Below(T)[XLEN] = Below(T)[k] + Weight(k \in T, PowerOfTwo(k))
                                         + PowerOfTwo(k) * (2 * m)
<1> DEFINE s == Below(T)
           p == PowerOfTwo(k)
           P(j) == \E m \in Nat : s[j] = s[k + 1] + p * (2 * m)
           G == {j \in 0 .. XLEN : j > k => P(j)}
<1>0. SumsUp(s, T) BY BelowDef
<1>1. p \in Nat \ {0} /\ k \in Nat /\ k + 1 \in 0 .. XLEN /\ k < XLEN /\ XLEN \in Nat
  BY WidthNat, PowersOfTwo DEF Position
<1> HIDE DEF s, p
<1>2. 0 \in G BY <1>1
<1>3. ASSUME NEW j \in Position, j \in G PROVE j + 1 \in G
  <2>1. j \in Nat /\ j + 1 \in 0 .. XLEN /\ s[j + 1] \in Nat /\ s[j] \in Nat /\ s[k + 1] \in Nat
    BY <1>0, <1>1, WidthNat DEF SumsUp
  <2>2. CASE j < k BY <1>1, <2>1, <2>2
  <2>3. CASE j = k
    <3>1. s[j + 1] = s[k + 1] + p * (2 * 0) BY <1>1, <2>1, <2>3
    <3>2. P(j + 1) BY <3>1
    <3> QED BY <2>1, <3>2
  <2>4. CASE j > k
    <3>1. PICK m \in Nat : s[j] = s[k + 1] + p * (2 * m) BY <1>3, <2>4
    <3>2. s[j + 1] = s[j] + Weight(j \in T, PowerOfTwo(j)) BY <1>0 DEF SumsUp
    <3>3. PICK d \in Nat : j = (k + 1) + d
      <4>1. j - (k + 1) \in Nat /\ j = (k + 1) + (j - (k + 1)) BY <1>1, <2>1, <2>4
      <4> QED BY <4>1
    <3>4. PowerOfTwo(j) = p * (2 * PowerOfTwo(d))
      <4>1. PowerOfTwo(j) = PowerOfTwo(k + 1) * PowerOfTwo(d) BY <1>1, <3>3, PowerOfSum
      <4>2. PowerOfTwo(k + 1) = 2 * p /\ PowerOfTwo(d) \in Nat BY <1>1, PowersOfTwo DEF p
      <4> QED BY <1>1, <4>1, <4>2
    <3>5. PowerOfTwo(d) \in Nat BY PowersOfTwo
    <3>6. CASE j \in T
      <4>1. s[j + 1] = s[k + 1] + p * (2 * m) + p * (2 * PowerOfTwo(d))
        BY <3>1, <3>2, <3>4, <3>6 DEF Weight
      <4>2. s[j + 1] = s[k + 1] + p * (2 * (m + PowerOfTwo(d)))
        BY <1>1, <2>1, <3>5, <4>1
      <4>3. m + PowerOfTwo(d) \in Nat BY <3>5
      <4>4. P(j + 1) BY <4>2, <4>3
      <4> QED BY <2>1, <4>4
    <3>7. CASE j \notin T
      <4>1. s[j + 1] = s[k + 1] + p * (2 * m) BY <2>1, <3>1, <3>2, <3>7 DEF Weight
      <4>2. P(j + 1) BY <4>1
      <4> QED BY <2>1, <4>2
    <3> QED BY <3>6, <3>7
  <2> QED BY <1>1, <2>1, <2>2, <2>3, <2>4
<1>4. XLEN \in G
  <2> HIDE DEF G
  <2> QED BY <1>2, <1>3, Upwards, WidthNat
<1>5. PICK m \in Nat : s[XLEN] = s[k + 1] + p * (2 * m) BY <1>1, <1>4
<1>6. s[k + 1] = s[k] + Weight(k \in T, p) BY <1>0 DEF SumsUp, p
<1> QED BY <1>5, <1>6 DEF s, p

(* The bits of the sum are the positions summed. *)
LEMMA BitOfFromBits ==
  ASSUME NEW T \in SUBSET Position, NEW k \in Position
  PROVE  Bit(FromBits(T), k) <=> k \in T
<1> DEFINE p == PowerOfTwo(k)
           r == Below(T)[k]
           b == Weight(k \in T, 1)
<1>1. p \in Nat \ {0} /\ r \in 0 .. p - 1
  BY BelowBound, WidthNat, PowersOfTwo DEF Position
<1>2. b \in {0, 1} /\ (b = 1 <=> k \in T) BY DEF Weight
<1>3. PICK m \in Nat : FromBits(T) = r + Weight(k \in T, p) + p * (2 * m)
  BY BelowSplit, FromBitsValue
<1>4. Weight(k \in T, p) = p * b BY <1>1 DEF Weight
<1> HIDE DEF p, r, b
<1> DEFINE q == b + 2 * m
<1>5. FromBits(T) = p * q + r /\ q \in Int BY <1>1, <1>2, <1>3, <1>4
<1>6. FromBits(T) \div p = b + 2 * m
  <2> HIDE DEF q
  <2>1. FromBits(T) \div p = q BY <1>1, <1>5, DivModUnique
  <2> QED BY <2>1 DEF q
<1>7. (b + 2 * m) % 2 = b BY <1>2
<1>8. Bit(FromBits(T), k) <=> (b + 2 * m) % 2 = 1 BY <1>6 DEF Bit, p, PowerOfTwo
<1> QED BY <1>2, <1>7, <1>8

LEMMA BitsOfFromBits ==
  ASSUME NEW T \in SUBSET Position PROVE BitsOf(FromBits(T)) = T
BY BitOfFromBits DEF BitsOf, Position

(* A remainder by a power is the bits below it. *)
LEMMA BelowOfNumber ==
  ASSUME NEW a \in Nat
  PROVE  \A k \in 0 .. XLEN : Below(BitsOf(a))[k] = a % PowerOfTwo(k)
<1> DEFINE s == Below(BitsOf(a))
           G == {k \in 0 .. XLEN : s[k] = a % PowerOfTwo(k)}
<1>1. SumsUp(s, BitsOf(a)) BY BelowDef
<1> HIDE DEF s
<1>2. 0 \in G
  <2>1. a % 1 = 0 OBVIOUS
  <2> QED BY <1>1, <2>1, PowersOfTwo, WidthNat DEF SumsUp
<1>3. ASSUME NEW k \in Position, k \in G PROVE k + 1 \in G
  <2> DEFINE p == PowerOfTwo(k)
             q == a \div p
             r == a % p
             b == q % 2
             c == q \div 2
  <2>1. p \in Nat \ {0} /\ PowerOfTwo(k + 1) = 2 * p BY WidthNat, PowersOfTwo
  <2>4. k \in BitsOf(a) <=> b = 1 BY DEF BitsOf, Bit, PowerOfTwo, Position
  <2>5. s[k] = r BY <1>3
  <2>6. s[k + 1] = s[k] + Weight(k \in BitsOf(a), p) BY <1>1 DEF SumsUp
  <2> HIDE DEF p, G
  <2>2. q \in Int /\ r \in 0 .. p - 1 /\ a = p * q + r
    <3>1. a \in Int OBVIOUS
    <3> QED BY <2>1, <3>1, DivMod, Zenon
  <2> HIDE DEF q, r
  <2>3. c \in Int /\ b \in 0 .. 1 /\ q = 2 * c + b BY <2>2
  <2> HIDE DEF b, c
  <2>7. Weight(k \in BitsOf(a), p) = p * b BY <2>1, <2>3, <2>4 DEF Weight
  <2>8. a = (2 * p) * c + (p * b + r)
    <3>1. p * (2 * c + b) = (2 * p) * c + p * b BY <2>1, <2>3
    <3> QED BY <2>1, <2>2, <2>3, <3>1
  <2>9. p * b + r \in 0 .. (2 * p) - 1
    <3>1. CASE b = 0 BY <2>1, <2>2, <3>1
    <3>2. CASE b = 1 BY <2>1, <2>2, <3>2
    <3> QED BY <2>3, <3>1, <3>2
  <2>10. 2 * p \in Nat \ {0} BY <2>1
  <2>11. a % (2 * p) = p * b + r BY <2>3, <2>8, <2>9, <2>10, DivModUnique
  <2>12. s[k + 1] = a % PowerOfTwo(k + 1)
    <3>1. s[k + 1] = r + p * b BY <2>5, <2>6, <2>7
    <3>2. r + p * b = p * b + r BY <2>1, <2>2, <2>3
    <3> QED BY <2>1, <2>11, <3>1, <3>2
  <2> QED BY <2>12, WidthNat DEF G
<1>4. \A k \in 0 .. XLEN : k \in G
  <2> HIDE DEF G
  <2> QED BY <1>2, <1>3, Upwards
<1> QED BY <1>4 DEF s

---------------------------------------------------------------------------
LEMMA WordIsBits ==
  /\ WORD = PowerOfTwo(XLEN) /\ XLEN \in Nat \ {0} /\ XLEN \in 0 .. XLEN
  /\ WORD \in Nat \ {0}
<1>1. XLEN - 1 \in Nat /\ (XLEN - 1) + 1 = XLEN /\ HALF = PowerOfTwo(XLEN - 1)
  BY WordsAssumption, SignBitAssumption DEF PowerOfTwo
<1>2. PowerOfTwo((XLEN - 1) + 1) = 2 * PowerOfTwo(XLEN - 1) BY <1>1, PowersOfTwo
<1> QED BY <1>1, <1>2, WordsAssumption, SignBitAssumption DEF WORD

(* A word and the set of its bits determine each other. *)
LEMMA FromBitsWord == ASSUME NEW T \in SUBSET Position PROVE FromBits(T) \in Word
BY FromBitsValue, BelowBound, WordIsBits DEF Word

LEMMA FromBitsOfWord == ASSUME NEW a \in Word PROVE FromBits(BitsOf(a)) = a
<1>1. a \in Nat /\ a < WORD BY WordFacts
<1>2. BitsOf(a) \in SUBSET Position BY DEF BitsOf, Position
<1>3. FromBits(BitsOf(a)) = a % WORD
  BY <1>1, <1>2, FromBitsValue, BelowOfNumber, WordIsBits
<1>4. a % WORD = a BY <1>1, WordIsBits, ModBelow
<1> QED BY <1>3, <1>4

LEMMA SameBits ==
  ASSUME NEW a \in Word, NEW T \in SUBSET Position,
         \A k \in Position : Bit(a, k) <=> k \in T
  PROVE  FromBits(T) = a
<1>1. BitsOf(a) = T BY DEF BitsOf, Position
<1> QED BY <1>1, FromBitsOfWord

LEMMA BitsOfMirrored ==
  ASSUME NEW a \in Word
  PROVE  /\ Mirrored(a) \in Word
         /\ \A k \in Position : k \in BitsOf(Mirrored(a)) <=> XLEN - 1 - k \in BitsOf(a)
<1> DEFINE T == {XLEN - 1 - k : k \in BitsOf(a)}
<1>1. T \in SUBSET Position BY WidthNat DEF BitsOf, Position
<1>2. BitsOf(Mirrored(a)) = T BY <1>1, BitsOfFromBits DEF Mirrored
<1>3. Mirrored(a) \in Word BY <1>1, FromBitsWord DEF Mirrored
<1>4. \A k \in Position : k \in T <=> XLEN - 1 - k \in BitsOf(a)
  <2>1. ASSUME NEW k \in Position, XLEN - 1 - k \in BitsOf(a) PROVE k \in T
    <3>1. k = XLEN - 1 - (XLEN - 1 - k) BY WidthNat DEF Position
    <3> QED BY <2>1, <3>1
  <2>2. ASSUME NEW k \in Position, k \in T PROVE XLEN - 1 - k \in BitsOf(a)
    <3>1. PICK j \in BitsOf(a) : k = XLEN - 1 - j BY <2>2
    <3>2. XLEN - 1 - k = j BY <3>1, WidthNat DEF BitsOf, Position
    <3> QED BY <3>2
  <2> QED BY <2>1, <2>2
<1> QED BY <1>2, <1>3, <1>4

(* Bits of quotients: a position of the quotient is one further up.        *)
LEMMA BitOfQuotient ==
  ASSUME NEW a \in Int, NEW n \in Nat, NEW k \in Nat
  PROVE  Bit(a \div PowerOfTwo(n), k) <=> Bit(a, k + n)
<1> DEFINE p == PowerOfTwo(n)
           q == PowerOfTwo(k)
<1>1. p \in Nat \ {0} /\ q \in Nat \ {0} BY PowersOfTwo
<1>2. PowerOfTwo(k + n) = p * q
  <2>1. PowerOfTwo(k + n) = q * p BY PowerOfSum
  <2> QED BY <1>1, <2>1
<1> HIDE DEF p, q
<1>3. (a \div p) \div q = a \div (p * q) BY <1>1, DivDiv
<1> QED BY <1>2, <1>3 DEF Bit, p, q, PowerOfTwo

(* A word has no bits above its width. *)
LEMMA NoBitAbove ==
  ASSUME NEW a \in Word, NEW k \in Nat, XLEN <= k
  PROVE  ~Bit(a, k)
<1>1. k - XLEN \in Nat /\ k = XLEN + (k - XLEN) BY WidthNat
<1>2. PowerOfTwo(k) = WORD * PowerOfTwo(k - XLEN) BY <1>1, PowerOfSum, WordIsBits
<1>3. WORD * PowerOfTwo(k - XLEN) >= WORD BY <1>1, PowersOfTwo, WordIsBits
<1>4. a \in Nat /\ a < PowerOfTwo(k) /\ PowerOfTwo(k) \in Nat \ {0}
  BY <1>2, <1>3, WordFacts, PowersOfTwo
<1> DEFINE p == PowerOfTwo(k)
<1> HIDE DEF p
<1>5. a \div p = 0
  <2>1. a = p * 0 + a /\ a \in 0 .. p - 1 /\ p \in Nat \ {0} BY <1>4 DEF p
  <2> QED BY <2>1, DivModUnique
<1> QED BY <1>5 DEF Bit, p, PowerOfTwo

(* A quotient of a word by a power is a word whose upper bits are zero.    *)
LEMMA QuotientWord ==
  ASSUME NEW a \in Word, NEW n \in 0 .. XLEN
  PROVE  /\ a \div PowerOfTwo(n) \in Word
         /\ a \div PowerOfTwo(n) < PowerOfTwo(XLEN - n)
         /\ PowerOfTwo(XLEN - n) \in Nat \ {0}
         /\ WORD = PowerOfTwo(n) * PowerOfTwo(XLEN - n)
<1> DEFINE p == PowerOfTwo(n)
           w == PowerOfTwo(XLEN - n)
           q == a \div p
<1>1. n \in Nat /\ XLEN - n \in Nat /\ n + (XLEN - n) = XLEN BY WidthNat
<1>2. p \in Nat \ {0} /\ w \in Nat \ {0} /\ WORD = p * w
  BY <1>1, PowersOfTwo, PowerOfSum, WordIsBits
<1> HIDE DEF p, w
<1>3. a \in Nat /\ a < WORD BY WordFacts
<1>4. q \in Int /\ a % p \in 0 .. p - 1 /\ a = p * q + (a % p) BY <1>2, <1>3, DivMod
<1> HIDE DEF q
<1>5. q >= 0
  <2>1. ASSUME q <= -1 PROVE FALSE
    <3>1. p * q <= p * (-1) BY <1>2, <1>4, <2>1
    <3> QED BY <1>2, <1>3, <1>4, <3>1
  <2> QED BY <1>4, <2>1
<1>6. q < w
  <2>1. ASSUME q >= w PROVE FALSE
    <3>1. p * q >= p * w BY <1>2, <1>4, <2>1
    <3> QED BY <1>2, <1>3, <1>4, <3>1
  <2> QED BY <1>2, <1>4, <2>1
<1>7. q <= a
  <2>1. p * q >= q BY <1>2, <1>4, <1>5
  <2> QED BY <1>2, <1>3, <1>4, <2>1
<1>8. q \in Word BY <1>3, <1>4, <1>5, <1>7, WordFacts
<1> QED BY <1>2, <1>6, <1>8 DEF q, p, w
---------------------------------------------------------------------------
(* What each shift does to the set of bits. *)
LEMMA RightBits ==
  ASSUME NEW a \in Word, NEW n \in Position
  PROVE  FromBits({k \in Position : k + n \in BitsOf(a)}) = a \div PowerOfTwo(n)
<1>1. a \in Int /\ n \in Nat /\ n \in 0 .. XLEN BY WordFacts, WidthNat DEF Position
<1>2. a \div PowerOfTwo(n) \in Word BY <1>1, QuotientWord
<1>3. ASSUME NEW k \in Position
      PROVE  Bit(a \div PowerOfTwo(n), k) <=> k + n \in BitsOf(a)
  <2>1. k \in Nat /\ k + n \in Nat BY <1>1, WidthNat
  <2>2. Bit(a \div PowerOfTwo(n), k) <=> Bit(a, k + n) BY <1>1, <2>1, BitOfQuotient
  <2>3. k + n \notin Position => ~Bit(a, k + n)
    BY <2>1, NoBitAbove, WidthNat DEF Position
  <2> QED BY <2>2, <2>3 DEF BitsOf, Position
<1> DEFINE T == {k \in Position : k + n \in BitsOf(a)}
<1>4. T \in SUBSET Position /\ \A k \in Position : Bit(a \div PowerOfTwo(n), k) <=> k \in T
  BY <1>3
<1> HIDE DEF T
<1>5. FromBits(T) = a \div PowerOfTwo(n) BY <1>2, <1>4, SameBits
<1> QED BY <1>5 DEF T

LEMMA LeftBits ==
  ASSUME NEW a \in Word, NEW n \in Position
  PROVE  FromBits({k \in Position : k - n \in BitsOf(a)}) = (a * PowerOfTwo(n)) % WORD
<1> DEFINE p == PowerOfTwo(n)
           x == a * p
           b == x % WORD
           t == x \div WORD
<1>1. a \in Nat /\ n \in Nat /\ p \in Nat \ {0} /\ WORD \in Nat \ {0}
  BY WordFacts, WidthNat, PowersOfTwo
<1> HIDE DEF p
<1>2. x \in Nat BY <1>1
<1> HIDE DEF x
<1>3. t \in Int /\ b \in 0 .. WORD - 1 /\ x = WORD * t + b
  <2>1. x \in Int BY <1>2
  <2> QED BY <1>1, <2>1, DivMod, Zenon
<1>4. b \in Word BY <1>3 DEF Word
<1> HIDE DEF b, t
<1>5. ASSUME NEW k \in Position PROVE Bit(b, k) <=> k - n \in BitsOf(a)
  <2> DEFINE q == PowerOfTwo(k)
             w == PowerOfTwo(XLEN - k - 1)
             y == x \div q
  <2>1. /\ k \in Nat /\ q \in Nat \ {0} /\ w \in Nat \ {0} /\ WORD = q * (2 * w)
        /\ XLEN - k - 1 \in Nat
    <3>1. k \in Nat /\ XLEN - k - 1 \in Nat /\ XLEN = (k + 1) + (XLEN - k - 1)
      BY WidthNat DEF Position
    <3>2. PowerOfTwo(k + 1) = 2 * q /\ q \in Nat \ {0} /\ w \in Nat \ {0}
      BY <3>1, PowersOfTwo
    <3>3. WORD = PowerOfTwo(k + 1) * w BY <3>1, PowerOfSum, WordIsBits
    <3> QED BY <3>1, <3>2, <3>3
  <2> HIDE DEF q, w
  <2>2. y \in Int /\ x % q \in 0 .. q - 1 /\ x = q * y + (x % q)
    <3>1. x \in Int BY <1>2
    <3> QED BY <2>1, <3>1, DivMod, Zenon
  <2> DEFINE r == x % q
  <2> HIDE DEF y, r
  <2>3. b = q * (y - 2 * (w * t)) + r /\ y - 2 * (w * t) \in Int
    <3>1. WORD * t = q * (2 * (w * t)) BY <1>3, <2>1
    <3>2. w * t \in Int BY <1>3, <2>1
    <3> DEFINE z == w * t
    <3> HIDE DEF z
    <3>3. q * y + r = q * (2 * z) + b BY <1>3, <2>2, <3>1 DEF r, z
    <3>4. q * (y - 2 * z) = q * y - q * (2 * z) BY <2>1, <2>2, <3>2 DEF z
    <3>5. b \in Int /\ r \in Int /\ q * y \in Int /\ q * (2 * z) \in Int
      BY <1>3, <2>1, <2>2, <3>2 DEF r, z
    <3> QED BY <2>2, <3>2, <3>3, <3>4, <3>5 DEF z
  <2>4. b \div q = y - 2 * (w * t)
    <3> DEFINE z == y - 2 * (w * t)
    <3>1. z \in Int /\ b = q * z + r /\ r \in 0 .. q - 1 BY <2>2, <2>3 DEF r
    <3> HIDE DEF z
    <3>2. b \div q = z BY <2>1, <3>1, DivModUnique
    <3> QED BY <3>2 DEF z
  <2>5. Bit(b, k) <=> y % 2 = 1
    <3>1. w * t \in Int BY <1>3, <2>1
    <3> DEFINE z == w * t
    <3> HIDE DEF z
    <3>2. (y - 2 * z) % 2 = y % 2
      <4> DEFINE c == y \div 2
                 e == y % 2
                 d == c - z
      <4>1. y \in Int /\ z \in Int BY <2>2, <3>1 DEF z
      <4>2. c \in Int /\ e \in 0 .. 1 /\ y = 2 * c + e BY <4>1
      <4> HIDE DEF c, e
      <4>3. y - 2 * z = 2 * d + e /\ d \in Int /\ e \in 0 .. 2 - 1 BY <4>1, <4>2
      <4> HIDE DEF d
      <4>4. 2 \in Nat \ {0} OBVIOUS
      <4>5. (2 * d + e) % 2 = e BY <4>3, <4>4, DivModUnique
      <4> QED BY <4>3, <4>5 DEF e
    <3> QED BY <2>4, <3>2 DEF Bit, q, PowerOfTwo, z
  <2>6. CASE k >= n
    <3> DEFINE j == k - n
               u == PowerOfTwo(j)
    <3>1. j \in Nat /\ k = n + j BY <1>1, <2>1, <2>6
    <3>2. u \in Nat \ {0} /\ q = p * u BY <1>1, <3>1, PowersOfTwo, PowerOfSum DEF p, q
    <3> HIDE DEF u
    <3>3. (x \div p) \div u = x \div (p * u)
      <4>1. x \in Int BY <1>2
      <4> QED BY <1>1, <3>2, <4>1, DivDiv, Zenon
    <3>4. x \div p = a
      <4>1. x = p * a + 0 /\ 0 \in 0 .. p - 1 /\ a \in Int BY <1>1 DEF x
      <4> QED BY <1>1, <4>1, DivModUnique
    <3>5. y = a \div u BY <3>2, <3>3, <3>4 DEF y
    <3>6. Bit(b, k) <=> Bit(a, j) BY <2>5, <3>5 DEF Bit, u, PowerOfTwo
    <3>7. j \in Position BY <1>1, <2>1, <2>6, WidthNat DEF Position
    <3> QED BY <3>6, <3>7 DEF BitsOf, Position
  <2>7. CASE k < n
    <3> DEFINE u == PowerOfTwo(n - k - 1)
    <3>1. n - k - 1 \in Nat /\ n = (k + 1) + (n - k - 1) BY <1>1, <2>1, <2>7
    <3>2. u \in Nat \ {0} /\ p = (2 * q) * u
      <4>1. PowerOfTwo(k + 1) = 2 * q BY <2>1, PowersOfTwo DEF q
      <4>2. k + 1 \in Nat BY <2>1
      <4> QED BY <3>1, <4>1, <4>2, PowersOfTwo, PowerOfSum DEF p
    <3> HIDE DEF u
    <3>3. x = q * (2 * (u * a)) + 0 BY <1>1, <2>1, <3>2 DEF x
    <3> DEFINE z == u * a
    <3>4. z \in Int BY <1>1, <3>2
    <3> HIDE DEF z
    <3>5. 2 * z \in Int /\ 0 \in 0 .. q - 1 BY <2>1, <3>4
    <3>6. y = 2 * z BY <2>1, <3>3, <3>5, DivModUnique DEF y, z
    <3>7. ~Bit(b, k) BY <2>5, <3>4, <3>6
    <3>8. k - n \notin BitsOf(a) BY <1>1, <2>1, <2>7 DEF BitsOf
    <3> QED BY <3>7, <3>8
  <2> QED BY <1>1, <2>1, <2>6, <2>7
<1> DEFINE T == {k \in Position : k - n \in BitsOf(a)}
<1>6. T \in SUBSET Position /\ \A k \in Position : Bit(b, k) <=> k \in T BY <1>5
<1> HIDE DEF T
<1>7. FromBits(T) = b BY <1>4, <1>6, SameBits
<1> QED BY <1>7 DEF T, b, x, p

(* Filled with ones from position i up. *)
LEMMA FilledBits ==
  ASSUME NEW T \in SUBSET Position, NEW i \in 0 .. XLEN,
         \A k \in T : k < i
  PROVE  FromBits(T \cup (i .. XLEN - 1)) = FromBits(T) + WORD - PowerOfTwo(i)
<1> DEFINE U == T \cup (i .. XLEN - 1)
           s == Below(T)
           u == Below(U)
           Fill(k) == IF k > i THEN PowerOfTwo(k) - PowerOfTwo(i) ELSE 0
           G == {k \in 0 .. XLEN : u[k] = s[k] + Fill(k)}
<1>1. i \in Nat /\ PowerOfTwo(i) \in Nat BY WidthNat, PowersOfTwo
<1>2. SumsUp(s, T) /\ SumsUp(u, U) BY BelowDef
<1>3. \A k \in Position : /\ k \in U <=> k \in T \/ k >= i
                          /\ k \in T => k < i
  BY <1>1, WidthNat DEF Position
<1>4. U \in SUBSET Position BY <1>1, WidthNat DEF Position
<1> HIDE DEF s, u, U
<1>5. 0 \in G BY <1>1, <1>2, WidthNat DEF SumsUp
<1>6. ASSUME NEW k \in Position, k \in G PROVE k + 1 \in G
  <2> DEFINE q == PowerOfTwo(k)
  <2>1. /\ s[k + 1] = s[k] + Weight(k \in T, q)
        /\ u[k + 1] = u[k] + Weight(k \in U, q)
        /\ s[k] \in Nat /\ u[k] \in Nat /\ k \in Nat /\ k + 1 \in 0 .. XLEN
    BY <1>2, WidthNat DEF SumsUp
  <2>2. q \in Nat /\ PowerOfTwo(k + 1) = 2 * q BY <2>1, PowersOfTwo
  <2>3. u[k] = s[k] + Fill(k) BY <1>6
  <2>4. CASE k < i
    <3>1. Fill(k) = 0 /\ Fill(k + 1) = 0 BY <1>1, <2>1, <2>4
    <3>2. (k \in T) <=> (k \in U) BY <1>1, <1>3, <2>1, <2>4
    <3>3. Weight(k \in T, q) = Weight(k \in U, q) /\ Weight(k \in T, q) \in Nat
      BY <2>2, <3>2 DEF Weight
    <3>4. u[k + 1] = s[k + 1] + Fill(k + 1)
      <4> HIDE DEF Fill
      <4> QED BY <2>1, <2>3, <3>1, <3>3
    <3> QED BY <2>1, <3>4
  <2>5. CASE k >= i
    <3>1. k \notin T /\ k \in U BY <1>1, <1>3, <2>1, <2>5
    <3>2. Weight(k \in T, q) = 0 /\ Weight(k \in U, q) = q BY <3>1 DEF Weight
    <3>3. Fill(k) = q - PowerOfTwo(i) BY <1>1, <2>1, <2>2, <2>5
    <3>4. Fill(k + 1) = 2 * q - PowerOfTwo(i) BY <1>1, <2>1, <2>2, <2>5
    <3>5. u[k + 1] = s[k + 1] + Fill(k + 1)
      <4> HIDE DEF Fill, q
      <4> QED BY <1>1, <2>1, <2>2, <2>3, <3>2, <3>3, <3>4
    <3> QED BY <2>1, <3>5
  <2> QED BY <1>1, <2>1, <2>4, <2>5
<1>7. u[XLEN] = s[XLEN] + Fill(XLEN)
  <2>1. XLEN \in G
    <3> HIDE DEF G
    <3> QED BY <1>5, <1>6, Upwards, WidthNat
  <2> QED BY <2>1
<1>8. s[XLEN] \in Nat BY <1>2, WidthNat DEF SumsUp
<1>9. Fill(XLEN) = WORD - PowerOfTwo(i)
  <2>1. CASE i = XLEN BY <1>1, <2>1, WordIsBits
  <2>2. CASE i < XLEN BY <1>1, <2>2, WordIsBits
  <2> QED BY <1>1, <2>1, <2>2, WidthNat
<1>10. FromBits(U) = u[XLEN] /\ FromBits(T) = s[XLEN] BY <1>4, FromBitsValue DEF u, s
<1> QED BY <1>1, <1>7, <1>8, <1>9, <1>10, WordIsBits DEF U

(* An arithmetic shift of a negative number. *)
LEMMA SignedQuotient ==
  ASSUME NEW a \in Word, NEW n \in Position, SignBit(a)
  PROVE  (Signed(a) \div PowerOfTwo(n)) % WORD
           = (a \div PowerOfTwo(n)) + WORD - PowerOfTwo(XLEN - n)
<1> DEFINE p == PowerOfTwo(n)
           w == PowerOfTwo(XLEN - n)
           q == a \div p
           r == a % p
<1>1. n \in 0 .. XLEN /\ n \in Nat /\ a \in Int /\ WORD \in Nat \ {0}
  BY WidthNat, WordFacts DEF Position
<1>2. q \in Word /\ q < w /\ w \in Nat \ {0} /\ WORD = p * w BY <1>1, QuotientWord
<1>3. p \in Nat \ {0} BY <1>1, PowersOfTwo
<1> HIDE DEF p, w
<1>4. q \in Int /\ r \in 0 .. p - 1 /\ a = p * q + r BY <1>1, <1>3, DivMod, Zenon
<1> HIDE DEF q, r
<1>5. Signed(a) = p * (q - w) + r
  <2>1. Signed(a) = a - WORD BY DEF Signed
  <2>2. p * (q - w) = p * q - p * w BY <1>2, <1>3, <1>4
  <2>3. p * q \in Int /\ p * w \in Int BY <1>2, <1>3, <1>4
  <2> QED BY <1>1, <1>2, <1>4, <2>1, <2>2, <2>3
<1>6. q - w \in Int /\ -WORD <= q - w /\ q - w < 0
  <2>1. w <= WORD
    <3>1. p * w >= w BY <1>2, <1>3
    <3> QED BY <1>2, <3>1
  <2> QED BY <1>1, <1>2, <1>4, <2>1, WordFacts
<1>7. Signed(a) \div p = q - w
  <2> DEFINE z == q - w
  <2>1. z \in Int /\ Signed(a) = p * z + r BY <1>5, <1>6
  <2> HIDE DEF z
  <2>2. Signed(a) \div p = z BY <1>3, <1>4, <2>1, DivModUnique
  <2> QED BY <2>2 DEF z
<1>8. (q - w) % WORD = q - w + WORD BY <1>1, <1>6, ModNegative
<1>9. q - w + WORD = q + WORD - w BY <1>1, <1>2, <1>4
<1> QED BY <1>7, <1>8, <1>9 DEF q, p, w

(***************************************************************************)
(* The one right shifter shifts each way (ALU.scala 52-55).                *)
(***************************************************************************)
LEMMA ShiftAmount == ASSUME NEW b \in Word PROVE shamt(b) \in Position
<1>1. b \in Int BY WordFacts
<1> QED BY <1>1, WordIsBits, ModRange DEF shamt, Position

LEMMA ShiftRightLogical ==
  ASSUME NEW a \in Word, NEW b \in Word
  PROVE  shift_r("SRL", a, b) = a \div PowerOfTwo(shamt(b))
<1>1. shift_r("SRL", a, b) = FromBits({k \in Position : k + shamt(b) \in BitsOf(a)})
  BY DEF shift_r, shin, isSub, Position
<1> QED BY <1>1, ShiftAmount, RightBits

LEMMA ShiftLeft ==
  ASSUME NEW a \in Word, NEW b \in Word
  PROVE  shift_l("SLL", a, b) = (a * PowerOfTwo(shamt(b))) % WORD
<1> DEFINE n == shamt(b)
           m == Mirrored(a)
           T == {k \in Position : k + n \in BitsOf(m)}
           U == {k \in Position : k - n \in BitsOf(a)}
<1>1. n \in Position BY ShiftAmount
<1>2. shift_r("SLL", a, b) = FromBits(T)
  BY DEF shift_r, shin, isSub, Position
<1>3. FromBits(T) \in Word /\ BitsOf(FromBits(T)) = T
  <2>1. T \in SUBSET Position OBVIOUS
  <2> HIDE DEF T
  <2> QED BY <2>1, FromBitsWord, BitsOfFromBits
<1>4. \A k \in Position : k \in BitsOf(m) <=> XLEN - 1 - k \in BitsOf(a)
  BY BitsOfMirrored
<1> HIDE DEF n, m
<1>5. ASSUME NEW k \in Position PROVE XLEN - 1 - k \in T <=> k \in U
  <2>1. XLEN - 1 - k \in Position /\ n \in Nat /\ k \in Nat
    BY <1>1, WidthNat DEF Position
  <2>2. XLEN - 1 - k \in T <=> (XLEN - 1 - k) + n \in BitsOf(m) BY <2>1
  <2>3. CASE (XLEN - 1 - k) + n \in Position
    <3>1. XLEN - 1 - ((XLEN - 1 - k) + n) = k - n BY <2>1, WidthNat
    <3> QED BY <1>4, <2>2, <2>3, <3>1
  <2>4. CASE (XLEN - 1 - k) + n \notin Position
    <3>1. k - n \notin Position BY <1>1, <2>1, <2>4, WidthNat DEF Position
    <3> QED BY <2>2, <2>4, <3>1 DEF BitsOf, Position
  <2> QED BY <2>3, <2>4
<1>6. {XLEN - 1 - k : k \in T} = U
  <2>1. ASSUME NEW k \in U PROVE k \in {XLEN - 1 - j : j \in T}
    <3>1. k \in Position /\ XLEN - 1 - k \in T BY <1>5
    <3>2. k = XLEN - 1 - (XLEN - 1 - k) BY <3>1, WidthNat
    <3> QED BY <3>1, <3>2
  <2>2. ASSUME NEW j \in T PROVE XLEN - 1 - j \in U
    <3>1. j \in Position /\ XLEN - 1 - j \in Position BY WidthNat DEF Position
    <3>2. XLEN - 1 - (XLEN - 1 - j) = j BY <3>1, WidthNat
    <3> QED BY <1>5, <3>1, <3>2
  <2> HIDE DEF T, U
  <2> QED BY <2>1, <2>2
<1>7. shift_l("SLL", a, b) = FromBits(U)
  BY <1>2, <1>3, <1>6 DEF shift_l, Mirrored
<1> QED BY <1>1, <1>7, LeftBits DEF n

LEMMA ShiftRightArithmetic ==
  ASSUME NEW a \in Word, NEW b \in Word
  PROVE  shift_r("SRA", a, b) = (Signed(a) \div PowerOfTwo(shamt(b))) % WORD
<1> DEFINE n == shamt(b)
           T == {k \in Position : k + n \in BitsOf(a)}
           S == {k \in Position : k + n \in BitsOf(a) \cup
                                   (IF XLEN - 1 \in BitsOf(a) THEN XLEN .. 2 * XLEN ELSE {})}
<1>1. n \in Position /\ n \in Nat /\ n \in 0 .. XLEN /\ n < XLEN
  BY ShiftAmount, WidthNat DEF Position
<1>2. shift_r("SRA", a, b) = FromBits(S)
  BY DEF shift_r, shin, isSub, Position
<1>3. FromBits(T) = a \div PowerOfTwo(n) BY <1>1, RightBits
<1>4. XLEN - 1 \in BitsOf(a) <=> SignBit(a)
  <2>1. XLEN - 1 \in Nat /\ XLEN - 1 \in Position BY WordIsBits DEF Position
  <2>2. PowerOfTwo(XLEN - 1) = HALF BY SignBitAssumption DEF PowerOfTwo
  <2>3. a \in Nat /\ a < 2 * HALF /\ HALF \in Nat \ {0} BY WordFacts
  <2>4. CASE a >= HALF
    <3>1. a = HALF * 1 + (a - HALF) /\ a - HALF \in 0 .. HALF - 1 BY <2>3, <2>4
    <3>2. a \div HALF = 1 BY <2>3, <3>1, DivModUnique
    <3> QED BY <2>1, <2>2, <2>4, <3>2 DEF BitsOf, Bit, SignBit, PowerOfTwo, Position
  <2>5. CASE a < HALF
    <3>1. a = HALF * 0 + a /\ a \in 0 .. HALF - 1 BY <2>3, <2>5
    <3>2. a \div HALF = 0 BY <2>3, <3>1, DivModUnique
    <3> QED BY <2>1, <2>2, <2>3, <2>5, <3>2 DEF BitsOf, Bit, SignBit, PowerOfTwo, Position
  <2> QED BY <2>3, <2>4, <2>5
<1> HIDE DEF n
<1>5. CASE SignBit(a)
  <2>1. S = T \cup ((XLEN - n) .. (XLEN - 1))
    <3>1. ASSUME NEW k \in Position PROVE k \in S <=> k \in T \/ k >= XLEN - n
      <4>1. k \in Nat /\ k < XLEN BY WidthNat DEF Position
      <4>2. k + n \in XLEN .. 2 * XLEN <=> k >= XLEN - n BY <1>1, <4>1, WidthNat
      <4> QED BY <1>4, <1>5, <4>2
    <3>2. \A k \in (XLEN - n) .. (XLEN - 1) : k \in Position /\ k >= XLEN - n
      BY <1>1, WidthNat DEF Position
    <3>3. \A k \in Position : k >= XLEN - n => k \in (XLEN - n) .. (XLEN - 1)
      BY <1>1, WidthNat DEF Position
    <3>4. S \subseteq Position /\ T \subseteq Position OBVIOUS
    <3> HIDE DEF S, T
    <3> QED BY <3>1, <3>2, <3>3, <3>4
  <2>2. \A k \in T : k < XLEN - n BY <1>1, WidthNat DEF BitsOf, Position
  <2>3. T \in SUBSET Position /\ XLEN - n \in 0 .. XLEN BY <1>1, WidthNat
  <2> HIDE DEF T, S
  <2>4. FromBits(S) = FromBits(T) + WORD - PowerOfTwo(XLEN - n)
    BY <2>1, <2>2, <2>3, FilledBits
  <2> QED BY <1>1, <1>2, <1>3, <1>5, <2>4, SignedQuotient DEF n
<1>6. CASE ~SignBit(a)
  <2>1. S = T BY <1>4, <1>6
  <2>2. Signed(a) = a BY <1>6 DEF Signed
  <2>3. a \div PowerOfTwo(n) \in Word BY <1>1, QuotientWord
  <2>4. (a \div PowerOfTwo(n)) % WORD = a \div PowerOfTwo(n)
    <3> DEFINE q == a \div PowerOfTwo(n)
    <3> HIDE DEF q
    <3>1. q \in Int /\ 0 <= q /\ q < WORD /\ WORD \in Nat \ {0} BY <2>3, WordFacts DEF q
    <3>2. q % WORD = q BY <3>1, ModBelow
    <3> QED BY <3>2 DEF q
  <2> QED BY <1>2, <1>3, <2>1, <2>2, <2>4 DEF n
<1> QED BY <1>5, <1>6

(***************************************************************************)
(* The one right shifter, mirrored operands and filled signs included,     *)
(* shifts each way as the instruction set says, and AND, OR and XOR work   *)
(* bit by bit: the invariant TLC checks on 4-bit words, for every width.   *)
(***************************************************************************)
THEOREM ShiftsAlwaysCorrect == AluSpec => []ShiftsCorrect
<1> DEFINE TypeInv == alu_op \in AluFns /\ in1 \in Word /\ in2 \in Word
<1>0. 0 \in Word /\ 1 \in Word BY WordFacts
<1>1. AluInit => TypeInv BY <1>0 DEF AluInit
<1>2. TypeInv /\ [AluNext]_aluVars => TypeInv'
  BY <1>0, AddWord DEF AluNext, aluVars
<1>3. TypeInv => ShiftsCorrect
  <2> SUFFICES ASSUME TypeInv PROVE ShiftsCorrect OBVIOUS
  <2>1. PowerOfTwo(shamt(in2)) = 2^(in2 % XLEN) BY DEF PowerOfTwo, shamt
  <2>2. ASSUME alu_op = "SLL" PROVE AluOut(alu_op, in1, in2) = (in1 * 2^(in2 % XLEN)) % WORD
    <3>1. AluOut(alu_op, in1, in2) = shift_l("SLL", in1, in2) BY <2>2 DEF AluOut
    <3> QED BY <2>1, <3>1, ShiftLeft
  <2>3. ASSUME alu_op = "SRL" PROVE AluOut(alu_op, in1, in2) = in1 \div 2^(in2 % XLEN)
    <3>1. AluOut(alu_op, in1, in2) = shift_r("SRL", in1, in2) BY <2>3 DEF AluOut
    <3> QED BY <2>1, <3>1, ShiftRightLogical
  <2>4. ASSUME alu_op = "SRA" PROVE AluOut(alu_op, in1, in2) = (Signed(in1) \div 2^(in2 % XLEN)) % WORD
    <3>1. AluOut(alu_op, in1, in2) = shift_r("SRA", in1, in2) BY <2>4 DEF AluOut
    <3> QED BY <2>1, <3>1, ShiftRightArithmetic
  <2> DEFINE A == BitsOf(in1)
             B == BitsOf(in2)
  <2>5. A \in SUBSET Position /\ B \in SUBSET Position BY DEF BitsOf, Position
  <2>6. \A k \in Position : (k \in A <=> Bit(in1, k)) /\ (k \in B <=> Bit(in2, k))
    BY DEF BitsOf, Position
  <2>7. ASSUME alu_op = "AND"
        PROVE  \A k \in Position : Bit(AluOut(alu_op, in1, in2), k) <=> (Bit(in1, k) /\ Bit(in2, k))
    <3>1. AluOut(alu_op, in1, in2) = FromBits(A \cap B) BY <2>7 DEF AluOut
    <3> HIDE DEF A, B
    <3>2. A \cap B \in SUBSET Position BY <2>5
    <3> QED BY <2>6, <3>1, <3>2, BitOfFromBits
  <2>8. ASSUME alu_op = "OR"
        PROVE  \A k \in Position : Bit(AluOut(alu_op, in1, in2), k) <=> (Bit(in1, k) \/ Bit(in2, k))
    <3>1. AluOut(alu_op, in1, in2) = FromBits(A \cup B) BY <2>8 DEF AluOut
    <3> HIDE DEF A, B
    <3>2. A \cup B \in SUBSET Position BY <2>5
    <3> QED BY <2>6, <3>1, <3>2, BitOfFromBits
  <2>9. ASSUME alu_op = "XOR"
        PROVE  \A k \in Position : Bit(AluOut(alu_op, in1, in2), k) <=> (Bit(in1, k) # Bit(in2, k))
    <3>1. AluOut(alu_op, in1, in2) = FromBits((A \cup B) \ (A \cap B)) BY <2>9 DEF AluOut
    <3> HIDE DEF A, B
    <3>2. (A \cup B) \ (A \cap B) \in SUBSET Position BY <2>5
    <3>3. \A k \in Position : Bit(AluOut(alu_op, in1, in2), k) <=> ~(k \in A <=> k \in B)
      BY <3>1, <3>2, BitOfFromBits
    <3>4. \A k : Bit(in1, k) \in BOOLEAN /\ Bit(in2, k) \in BOOLEAN BY DEF Bit
    <3> QED BY <2>6, <3>3, <3>4, Zenon
  <2> QED BY <2>2, <2>3, <2>4, <2>7, <2>8, <2>9, Zenon DEF ShiftsCorrect, Position
<1> QED BY <1>1, <1>2, <1>3, PTL DEF AluSpec
---------------------------------------------------------------------------
LanesOK == lanes \in [Lane -> [Index -> Byte]] /\ reg \in Value

(* A byte address is a word index and a lane. *)
LEMMA Split ==
  ASSUME NEW b \in Bytes!Address
  PROVE  /\ b % 4 \in Lane /\ b \div 4 \in Index
         /\ b = 4 * (b \div 4) + (b % 4)
  BY LanesAssumption, SMT DEF Bytes!Address, Lane, Index

LEMMA Join ==
  ASSUME NEW i \in Index, NEW off \in Lane
  PROVE  /\ 4 * i + off \in Bytes!Address
         /\ (4 * i + off) % 4 = off /\ (4 * i + off) \div 4 = i
  BY LanesAssumption, SMT DEF Bytes!Address, Lane, Index

(* What a load and a store are aligned to is what valid asks. *)
LEMMA ValidAligned ==
  ASSUME NEW i \in Index, NEW off \in Lane, NEW mask \in Bytes!LoadMasks
  PROVE  /\ valid(mask, off) <=> Bytes!Aligned(mask, 4 * i + off)
         /\ valid(mask, off) => off + Bytes!Size(mask) <= 4
  BY LanesAssumption, SMT
     DEF valid, Bytes!Aligned, Bytes!Size, Bytes!LoadMasks, Lane, Index

(* What is driven and what is returned are words. *)
LEMMA Words4 ==
  ASSUME LanesOK, NEW mask, NEW off \in Lane, NEW d \in Value
  PROVE  /\ wdata(mask, off, d) \in Value
         /\ valid(mask, off) => dmem_data(mask, off, d) \in Value
  BY LanesAssumption, SMT
     DEF LanesOK, wdata, shifted, dmem_data, fill, valid, Value, Lane, Byte

(* A store keeps the types. *)
LEMMA StoreType ==
  ASSUME LanesOK, NEW i \in Index, NEW off \in Lane,
         NEW mask \in Bytes!StoreMasks, Store(mask, i, off)
  PROVE  LanesOK'
  <1>1. wdata(mask, off, reg) \in Value
    BY Words4 DEF LanesOK
  <1> QED BY <1>1 DEF LanesOK, Store, Value

(* A load keeps the types. *)
LEMMA LoadType ==
  ASSUME LanesOK, NEW i \in Index, NEW off \in Lane,
         NEW mask \in Bytes!LoadMasks, Load(mask, i, off)
  PROVE  LanesOK'
  <1>1. [k \in Lane |-> lanes[k][i]] \in Value
    BY DEF LanesOK, Value
  <1> QED BY <1>1, Words4 DEF LanesOK, Load

(***************************************************************************)
(* A store changes the bytes of its address and size and no other          *)
(* (core.scala 453-497, DMem.scala).                                       *)
(***************************************************************************)
LEMMA StoreExact ==
  ASSUME LanesOK, NEW i \in Index, NEW off \in Lane,
         NEW mask \in Bytes!StoreMasks, Store(mask, i, off)
  PROVE  Bytes!StoreBytes(mask, 4 * i + off)
  <1> DEFINE a == 4 * i + off
             S == a .. a + Bytes!Size(mask) - 1
  <1>1. valid(mask, off) /\ mask \in Bytes!LoadMasks
    BY DEF Store, Bytes!StoreMasks, Bytes!LoadMasks
  <1>2. Bytes!Aligned(mask, a) /\ off + Bytes!Size(mask) <= 4
    BY <1>1, ValidAligned
  <1>3. ASSUME NEW b \in Bytes!Address
        PROVE  bytesOf'[b] = IF b \in S THEN reg[b - a] ELSE bytesOf[b]
    <2> DEFINE k == b % 4
               j == b \div 4
    <2>1. k \in Lane /\ j \in Index /\ b = 4 * j + k
      BY Split
    <2>2. bytesOf[b] = lanes[k][j] /\ bytesOf'[b] = lanes'[k][j]
      BY <1>3 DEF bytesOf, Bytes!Address
    <2>3. lanes'[k][j] = IF j = i /\ k \in byteenable(mask, off)
                         THEN wdata(mask, off, reg)[k] ELSE lanes[k][j]
      BY <2>1 DEF Store, LanesOK
    <2>4. b \in S <=> j = i /\ k \in off .. off + Bytes!Size(mask) - 1
      <3>1. Bytes!Size(mask) \in 1 .. 4 /\ off \in 0 .. 3 /\ k \in 0 .. 3
        BY <2>1, SMT DEF Bytes!Size, Lane
      <3> HIDE DEF k, j
      <3> QED BY <1>2, <2>1, <3>1, LanesAssumption, SMT DEF Index
    <2>5. k \in byteenable(mask, off) <=> k \in off .. off + Bytes!Size(mask) - 1
      BY <1>1, <2>1, SMT
         DEF byteenable, Bytes!Size, Bytes!StoreMasks, valid, Lane
    <2>6. ASSUME b \in S
          PROVE  wdata(mask, off, reg)[k] = reg[b - a]
      <3>1. b - a = k - off /\ k >= off
        BY <2>1, <2>4, <2>6, SMT DEF Lane, Index, Bytes!Size
      <3>2. CASE mask = "W"
        <4>1. off = 0 BY <1>1, <3>2 DEF valid
        <4> QED BY <3>1, <3>2, <4>1, <2>1, SMT DEF wdata, Lane
      <3>3. CASE mask # "W"
        <4>1. wdata(mask, off, reg) = shifted(reg, off)
          BY <3>3 DEF wdata
        <4> QED BY <3>1, <4>1, <2>1 DEF shifted
      <3> QED BY <3>2, <3>3
    <2> QED BY <2>2, <2>3, <2>4, <2>5, <2>6
  <1>4. bytesOf' = [b \in Bytes!Address |-> IF b \in S THEN reg[b - a] ELSE bytesOf[b]]
    BY <1>3 DEF bytesOf, Bytes!Address
  <1> QED BY <1>2, <1>4 DEF Bytes!StoreBytes, Store

(***************************************************************************)
(* A load returns the bytes of its address and size, extended as its mask  *)
(* says (core.scala 515-580).                                              *)
(***************************************************************************)
LEMMA LoadExact ==
  ASSUME LanesOK, NEW i \in Index, NEW off \in Lane,
         NEW mask \in Bytes!LoadMasks, Load(mask, i, off)
  PROVE  Bytes!LoadBytes(mask, 4 * i + off)
  <1> DEFINE a == 4 * i + off
             d == [k \in Lane |-> lanes[k][i]]
  <1>1. valid(mask, off) BY DEF Load
  <1>2. Bytes!Aligned(mask, a) /\ off + Bytes!Size(mask) <= 4
    BY <1>1, ValidAligned
  <1>3. ASSUME NEW k \in 0 .. 3, off + k \in Lane
        PROVE  bytesOf[a + k] = d[off + k]
    <2>1. a + k = 4 * i + (off + k)
      BY SMT DEF Lane, Index
    <2>2. /\ a + k \in Bytes!Address
          /\ (a + k) % 4 = off + k /\ (a + k) \div 4 = i
      BY <1>3, <2>1, Join
    <2> QED BY <1>3, <2>2 DEF bytesOf, Bytes!Address
  <1>4. reg' = [k \in Lane |-> IF k < Bytes!Size(mask) THEN bytesOf[a + k]
                   ELSE Bytes!Extension(mask, bytesOf[a + Bytes!Size(mask) - 1])]
    <2>1. reg' = dmem_data(mask, off, d) BY DEF Load
    <2>2. \A b : fill(mask, b) = Bytes!Extension(mask, b)
      BY DEF fill, Bytes!Extension
    <2>3. CASE mask \in {"B", "BU"}
      <3>1. Bytes!Size(mask) = 1 BY <2>3 DEF Bytes!Size
      <3>2. bytesOf[a + 0] = d[off + 0] BY <1>3, SMT DEF Lane
      <3>3. a + 0 = a /\ off + 0 = off /\ a + 1 - 1 = a BY SMT DEF Lane, Index
      <3>4. bytesOf[a] = d[off] BY <3>2, <3>3
      <3>5. dmem_data(mask, off, d) =
              [k \in Lane |-> IF k = 0 THEN d[off] ELSE fill(mask, d[off])]
        BY <2>3 DEF dmem_data
      <3>6. ASSUME NEW k \in Lane
            PROVE  (IF k = 0 THEN d[off] ELSE fill(mask, d[off])) =
                   IF k < 1 THEN bytesOf[a + k]
                   ELSE Bytes!Extension(mask, bytesOf[a + 1 - 1])
        <4>1. k < 1 <=> k = 0 BY SMT DEF Lane
        <4>2. CASE k = 0 BY <3>3, <3>4, <4>1, <4>2
        <4>3. CASE k # 0 BY <2>2, <3>3, <3>4, <4>1, <4>3
        <4> QED BY <4>2, <4>3
      <3> QED BY <2>1, <3>1, <3>5, <3>6
    <2>4. CASE mask \in {"H", "HU"}
      <3>1. Bytes!Size(mask) = 2 BY <2>4 DEF Bytes!Size
      <3>2. bytesOf[a + 0] = d[off + 0] /\ bytesOf[a + 1] = d[off + 1]
        BY <1>2, <1>3, <3>1, SMT DEF Lane
      <3>3. a + 2 - 1 = a + 1 BY SMT DEF Lane, Index
      <3>4. dmem_data(mask, off, d) =
              [k \in Lane |-> IF k < 2 THEN d[off + k] ELSE fill(mask, d[off + 1])]
        BY <2>4 DEF dmem_data
      <3>5. ASSUME NEW k \in Lane
            PROVE  (IF k < 2 THEN d[off + k] ELSE fill(mask, d[off + 1])) =
                   IF k < 2 THEN bytesOf[a + k]
                   ELSE Bytes!Extension(mask, bytesOf[a + 2 - 1])
        <4>1. k < 2 => k = 0 \/ k = 1 BY SMT DEF Lane
        <4>2. CASE k < 2 BY <3>2, <4>1, <4>2
        <4>3. CASE ~(k < 2) BY <2>2, <3>2, <3>3, <4>3
        <4> QED BY <4>2, <4>3
      <3> QED BY <2>1, <3>1, <3>4, <3>5
    <2>5. CASE mask = "W"
      <3>1. Bytes!Size(mask) = 4 /\ off = 0
        BY <1>1, <2>5 DEF Bytes!Size, valid
      <3>2. dmem_data(mask, off, d) = d
        BY <2>5 DEF dmem_data
      <3>3. ASSUME NEW k \in Lane
            PROVE  k < 4 /\ bytesOf[a + k] = d[k]
        <4>1. k \in 0 .. 3 /\ k < 4 /\ off + k = k /\ off + k \in Lane
          BY <3>1, SMT DEF Lane
        <4> QED BY <1>3, <4>1
      <3> QED BY <2>1, <3>1, <3>2, <3>3
    <2> QED BY <2>3, <2>4, <2>5 DEF Bytes!LoadMasks
  <1>5. UNCHANGED bytesOf BY DEF Load, bytesOf
  <1>6. Bytes!Lane = Lane BY DEF Lane, Bytes!Lane
  <1> QED BY <1>2, <1>4, <1>5, <1>6 DEF Bytes!LoadBytes

(***************************************************************************)
(* LanesCorrect: for every byte size and every memory, the four lanes, the *)
(* byte enables and the extension in WB implement the byte memory.         *)
(***************************************************************************)
THEOREM LanesCorrect == LanesSpec => ImplementsBytes
  <1> DEFINE Exact ==
        \A i \in Index, off \in Lane :
          /\ \A mask \in Bytes!StoreMasks :
                Store(mask, i, off) => Bytes!StoreBytes(mask, 4 * i + off)
          /\ \A mask \in Bytes!LoadMasks :
                Load(mask, i, off) => Bytes!LoadBytes(mask, 4 * i + off)
  <1>1. LanesInit => LanesOK
    BY DEF LanesInit, LanesOK
  <1>2. LanesOK /\ [LanesNext]_laneVars => LanesOK'
    <2>1. ASSUME LanesOK, LanesNext PROVE LanesOK'
      BY <2>1, StoreType, LoadType DEF LanesNext, Bytes!StoreMasks, Bytes!LoadMasks
    <2>2. ASSUME LanesOK, UNCHANGED laneVars PROVE LanesOK'
      BY <2>2 DEF LanesOK, laneVars
    <2> QED BY <2>1, <2>2
  <1>3. LanesOK => Exact
    BY StoreExact, LoadExact
  <1>4. LanesInit => Bytes!ByteInit
    <2>1. ASSUME LanesOK PROVE bytesOf \in [Bytes!Address -> Bytes!Byte]
      BY <2>1, Split DEF LanesOK, bytesOf, Bytes!Address, Bytes!Byte, Byte
    <2>2. Value = Bytes!Value
      BY DEF Value, Lane, Byte, Bytes!Value, Bytes!Lane, Bytes!Byte
    <2> QED BY <1>1, <2>1, <2>2 DEF LanesOK, Bytes!ByteInit
  <1> QED BY <1>1, <1>2, <1>3, <1>4, PTL DEF LanesSpec, ImplementsBytes
=============================================================================
