----------------------------- MODULE WordLemmas -----------------------------
(***************************************************************************)
(* Facts about words of any width and the adder they are computed with,    *)
(* for the other proofs.                                                   *)
(***************************************************************************)
EXTENDS ALU, TLAPS

(* What the proofs use of the words. *)
LEMMA WordFacts == /\ HALF \in Nat \ {0}
                   /\ WORD \in Nat \ {0} /\ WORD = 2 * HALF
                   /\ \A a \in Word : a \in Nat /\ a < WORD
                   /\ \A a \in Nat : a < WORD => a \in Word
BY WordsAssumption DEF WORD, Word

(* Remainders with a modulus that is not a numeral. *)
LEMMA ModBelow == ASSUME NEW m \in Nat \ {0}, NEW n \in Int, 0 <= n, n < m
                  PROVE  n % m = n
OBVIOUS

LEMMA ModAbove == ASSUME NEW m \in Nat \ {0}, NEW n \in Int, m <= n, n < 2 * m
                  PROVE  n % m = n - m
OBVIOUS

LEMMA ModNegative == ASSUME NEW m \in Nat \ {0}, NEW n \in Int, -m <= n, n < 0
                     PROVE  n % m = n + m
OBVIOUS

LEMMA ModRange == ASSUME NEW m \in Nat \ {0}, NEW n \in Int
                  PROVE  n % m \in 0 .. m - 1
OBVIOUS

(* The adder with ~op2 and a carry in subtracts: no borrow when a >= b. *)
LEMMA SubValue == ASSUME NEW a \in Word, NEW b \in Word
                  PROVE  Sub(a, b) = IF a >= b THEN a - b ELSE a - b + WORD
<1>1. a \in Nat /\ b \in Nat /\ a < WORD /\ b < WORD /\ WORD \in Nat \ {0}
  BY WordFacts
<1>2. Sub(a, b) = (a - b + WORD) % WORD
  BY <1>1 DEF Sub
<1>3. CASE a >= b
  <2>1. a - b + WORD \in Int /\ WORD <= a - b + WORD /\ a - b + WORD < 2 * WORD
    BY <1>1, <1>3
  <2>2. (a - b + WORD) % WORD = (a - b + WORD) - WORD
    BY <1>1, <2>1, ModAbove
  <2> QED BY <1>1, <1>2, <1>3, <2>2
<1>4. CASE a < b
  <2>1. a - b + WORD \in Int /\ 0 <= a - b + WORD /\ a - b + WORD < WORD
    BY <1>1, <1>4
  <2>2. (a - b + WORD) % WORD = a - b + WORD
    BY <1>1, <2>1, ModBelow
  <2> QED BY <1>1, <1>2, <1>4, <2>2
<1> QED BY <1>1, <1>3, <1>4

LEMMA SubWord == ASSUME NEW a \in Word, NEW b \in Word PROVE Sub(a, b) \in Word
BY WordFacts, SubValue

LEMMA AddWord == ASSUME NEW a \in Word, NEW b \in Word PROVE Add(a, b) \in Word
<1>1. a + b \in Int /\ WORD \in Nat \ {0} BY WordFacts
<1>2. (a + b) % WORD \in 0 .. WORD - 1 BY <1>1, ModRange
<1> QED BY <1>1, <1>2, WordFacts DEF Add

(* The adder's difference is the difference modulo the number of words.    *)
LEMMA SubModulo == ASSUME NEW a \in Word, NEW b \in Word
                   PROVE  Sub(a, b) = (a - b) % WORD
<1>1. a \in Nat /\ b \in Nat /\ a < WORD /\ b < WORD /\ WORD \in Nat \ {0}
  BY WordFacts
<1>2. a - b \in Int BY <1>1
<1>3. CASE a >= b
  <2>1. 0 <= a - b /\ a - b < WORD BY <1>1, <1>3
  <2>2. (a - b) % WORD = a - b BY <1>1, <1>2, <2>1, ModBelow
  <2> QED BY <1>3, <2>2, SubValue
<1>4. CASE a < b
  <2>1. -WORD <= a - b /\ a - b < 0 BY <1>1, <1>4
  <2>2. (a - b) % WORD = a - b + WORD BY <1>1, <1>2, <2>1, ModNegative
  <2> QED BY <1>1, <1>4, <2>2, SubValue
<1> QED BY <1>1, <1>3, <1>4

(***************************************************************************)
(* The comparator (ALU.scala, slt and cmp): reading the sign of the        *)
(* difference and correcting it when the operands' signs differ orders     *)
(* words as two's complement numbers, or as naturals for the unsigned      *)
(* functions, whatever the subtraction overflows to.                       *)
(***************************************************************************)
THEOREM SignedLess ==
  ASSUME NEW a \in Word, NEW b \in Word, NEW fn \in {"SLT", "SGE"}
  PROVE  slt(fn, a, b) <=> Signed(a) < Signed(b)
<1>1. a \in Nat /\ b \in Nat /\ a < WORD /\ b < WORD /\ WORD = 2 * HALF /\ HALF \in Nat \ {0}
  BY WordFacts
<1>2. Sum(fn, a, b) = IF a >= b THEN a - b ELSE a - b + WORD
  BY SubValue DEF Sum, isSub
<1>3. ~isCmpU(fn) BY DEF isCmpU
<1> QED BY <1>1, <1>2, <1>3 DEF slt, Signed, SignBit

(* The same reading of the difference, corrected by op2's sign, orders     *)
(* words as naturals (slt, SLTU and SGEU).                                 *)
THEOREM UnsignedLess ==
  ASSUME NEW a \in Word, NEW b \in Word, NEW fn \in {"SLTU", "SGEU"}
  PROVE  slt(fn, a, b) <=> a < b
<1>1. a \in Nat /\ b \in Nat /\ a < WORD /\ b < WORD /\ WORD = 2 * HALF /\ HALF \in Nat \ {0}
  BY WordFacts
<1>2. Sum(fn, a, b) = IF a >= b THEN a - b ELSE a - b + WORD
  BY SubValue DEF Sum, isSub
<1>3. isCmpU(fn) BY DEF isCmpU
<1> QED BY <1>1, <1>2, <1>3 DEF slt, SignBit
=============================================================================
