--------------------------- MODULE FirmwareProofs ---------------------------
(***************************************************************************)
(* The firmware's sequential parts do what they promise: the memory test   *)
(* for every size of memory, the time-out code for every time-out, the     *)
(* output for every format, number and width of the numbers, and delays    *)
(* and time-outs, which are never short unless a reading is torn and never *)
(* longer than a reading more, for every width of the counter, clock       *)
(* frequency and delay asked for.                                          *)
(***************************************************************************)
EXTENDS SdramTest, TimeoutCode, Xprintf, KrvTime, InductionLemmas, SequenceTheorems, TLAPS

(***************************************************************************)
(* sdram_test.  A word once written keeps its value as long as no other    *)
(* address shares its cell and the cell is not stuck; a word once checked  *)
(* keeps it because reading changes nothing.                               *)
(***************************************************************************)
SdramSound == Distinct /\ \A i \in Offsets : wired[i] \notin stuck

SdramInv ==
  /\ spc \in {"write", "read", "done"}
  /\ k \in Offsets
  /\ verdict \in {0, -1}
  /\ spc # "done" => verdict = 0
  /\ wired \in [Offsets -> Cells]
  /\ contents \in [Cells -> Offsets]
  /\ SdramSound /\ spc = "write" => \A i \in Offsets : i < k => contents[wired[i]] = i
  /\ SdramSound /\ spc # "write" => \A i \in Offsets : contents[wired[i]] = i
  /\ spc = "read" => \A i \in Offsets : i < k => contents[wired[i]] = i
  /\ spc = "done" /\ verdict = 0 => \A i \in Offsets : contents[wired[i]] = i
  /\ spc = "done" /\ verdict # 0 => ~SdramSound

LEMMA LastWordTested ==
  ASSUME k \in Offsets
  PROVE  /\ last => k = WORDS - 1
         /\ ~last => k + 1 \in Offsets
BY SdramAssumption DEF last, length, Offsets

LEMMA SdramInductive == SdramInv /\ [SdramNext]_sdramVars => SdramInv'
<1> SUFFICES ASSUME SdramInv, [SdramNext]_sdramVars PROVE SdramInv'
  OBVIOUS
<1> USE DEF SdramInv
<1>k. /\ last => k = WORDS - 1
      /\ ~last => k + 1 \in Offsets
      /\ 0 \in Offsets
      /\ \A i \in Offsets : i \in Nat /\ i <= WORDS - 1
  BY LastWordTested, SdramAssumption DEF Offsets
<1>1. CASE WriteWord
  <2>1. SdramSound' = SdramSound
    BY <1>1 DEF WriteWord, SdramSound, Distinct
  <2>2. contents' \in [Cells -> Offsets]
    BY <1>1 DEF WriteWord, put32
  <2>3. ASSUME SdramSound, NEW i \in Offsets, i <= k
        PROVE  contents'[wired[i]] = i
    BY <1>1, <1>k, <2>3 DEF WriteWord, put32, SdramSound, Distinct
  <2>4. CASE last
    <3>1. spc' = "read" /\ k' = 0 /\ verdict' = verdict /\ verdict = 0 /\ wired' = wired
      BY <1>1, <2>4 DEF WriteWord
    <3>2. SdramSound => \A i \in Offsets : contents'[wired[i]] = i
      BY <1>k, <2>3, <2>4
    <3> QED BY <1>k, <2>1, <2>2, <3>1, <3>2
  <2>5. CASE ~last
    <3>1. spc' = "write" /\ k' = k + 1 /\ verdict' = verdict /\ wired' = wired
      BY <1>1, <2>5 DEF WriteWord
    <3>2. k \in Nat /\ \A i \in Offsets : i < k + 1 => i <= k
      BY <1>k
    <3>3. SdramSound => \A i \in Offsets : i < k + 1 => contents'[wired[i]] = i
      BY <2>3, <3>2
    <3>4. k + 1 \in Offsets
      BY <1>k, <2>5
    <3>5. spc = "write" /\ verdict = 0 /\ wired \in [Offsets -> Cells]
      BY <1>1, <2>5 DEF SdramInv, WriteWord
    <3> QED BY <2>1, <2>2, <3>1, <3>3, <3>4, <3>5 DEF SdramInv
  <2> QED BY <2>4, <2>5
<1>2. CASE ReadWord
  <2>1. SdramSound' = SdramSound
    BY <1>2 DEF ReadWord, SdramSound, Distinct
  <2>2. CASE contents[wired[k]] # k
    BY <1>2, <1>k, <2>1, <2>2 DEF ReadWord
  <2>3. CASE contents[wired[k]] = k
    BY <1>2, <1>k, <2>1, <2>3 DEF ReadWord
  <2> QED BY <2>2, <2>3
<1>3. CASE UNCHANGED sdramVars
  BY <1>3 DEF sdramVars, SdramSound, Distinct
<1> QED BY <1>1, <1>2, <1>3 DEF SdramNext

(* SdramVerdict for a memory of any size, wired in any way (main.c 15-35). *)
THEOREM SdramVerdictCorrect == SdramSpec => []SdramVerdict
<1>1. SdramInit => SdramInv
  BY SdramAssumption DEF SdramInit, SdramInv, Offsets
<1>2. SdramInv => SdramVerdict
  BY DEF SdramInv, SdramVerdict, SdramSound, Distinct
<1> QED BY <1>1, <1>2, SdramInductive, PTL DEF SdramSpec

(***************************************************************************)
(* VL53L1X_encodeTimeout.  What is left of the number, shifted back, is    *)
(* the number but for the bits shifted out, which are worth less than one  *)
(* unit of the exponent.                                                   *)
(***************************************************************************)
remaining == IF timeout_mclks > 0 THEN timeout_mclks - 1 ELSE 0

CodeInv ==
  /\ epc \in {"shift", "encoded"}
  /\ timeout_mclks \in Nat /\ ls_byte \in Nat /\ ms_byte \in Nat
  /\ weight2 \in Nat \ {0}
  /\ ls_byte * weight2 <= remaining
  /\ remaining < ls_byte * weight2 + weight2
  /\ ms_byte > 0 => 2 * ls_byte >= LSB
  /\ epc = "encoded" => ls_byte < LSB

LEMMA CodeInductive == CodeInv /\ [CodeNext]_codeVars => CodeInv'
<1> SUFFICES ASSUME CodeInv, [CodeNext]_codeVars PROVE CodeInv'
  OBVIOUS
<1> USE CodeAssumption DEF CodeInv, remaining
<1>1. CASE Shift
  <2> DEFINE half == ls_byte \div 2
  <2>1. /\ half \in Nat
        /\ ls_byte = 2 * half \/ ls_byte = 2 * half + 1
    OBVIOUS
  <2>2. /\ half * (2 * weight2) = (2 * half) * weight2
        /\ (2 * half + 1) * weight2 = (2 * half) * weight2 + weight2
    BY <2>1
  <2>3. ls_byte' = half /\ weight2' = 2 * weight2 /\ ms_byte' = ms_byte + 1
        /\ UNCHANGED <<epc, timeout_mclks>> /\ epc = "shift" /\ ls_byte >= LSB
    BY <1>1 DEF Shift, tooWide
  <2> HIDE DEF half
  <2>4. /\ ls_byte' * weight2' <= remaining'
        /\ remaining' < ls_byte' * weight2' + weight2'
    <3>1. CASE ls_byte = 2 * half
      BY <2>1, <2>2, <2>3, <3>1
    <3>2. CASE ls_byte = 2 * half + 1
      BY <2>1, <2>2, <2>3, <3>2
    <3> QED BY <2>1, <3>1, <3>2
  <2>5. 2 * ls_byte' >= LSB
    BY <2>1, <2>3
  <2> QED BY <2>1, <2>3, <2>4, <2>5
<1>2. CASE Encoded
  BY <1>2 DEF Encoded, tooWide
<1>3. CASE UNCHANGED codeVars
  BY <1>3 DEF codeVars
<1> QED BY <1>1, <1>2, <1>3 DEF CodeNext

(* CodeCorrect for every time-out and every width of the byte.             *)
THEOREM CodeAlwaysCorrect == CodeSpec => []CodeCorrect
<1>1. CodeInit => CodeInv
  BY CodeAssumption DEF CodeInit, CodeInv, remaining
<1>2. CodeInv => CodeCorrect
  BY CodeAssumption DEF CodeInv, CodeCorrect, Decoded, remaining
<1> QED BY <1>1, <1>2, CodeInductive, PTL DEF CodeSpec
---------------------------------------------------------------------------
(***************************************************************************)
(* xprintf.  The digit loop of xvfprintf keeps the number, in every base   *)
(* and for numbers of every size.                                          *)
(***************************************************************************)
(* A digit moves from what is left to what is made without loss.           *)
LEMMA DigitMoves ==
  ASSUME NEW d \in Nat, NEW w \in Nat, NEW x \in Nat, NEW r \in Nat \ {0}
  PROVE  /\ x \div r \in Nat
         /\ (d + w * (x % r)) + (w * r) * (x \div r) = d + w * x
         /\ d + w * (x % r) \in Nat /\ w * r \in Nat
<1> DEFINE q == x \div r
           m == x % r
<1>1. q \in Int /\ q >= 0 /\ m \in 0 .. r - 1
  OBVIOUS
<1>2. x = r * q + m
  OBVIOUS
<1> HIDE DEF q, m
<1>3. w * x = w * (r * q) + w * m
  BY <1>1, <1>2
<1>4. w * (r * q) = (w * r) * q
  BY <1>1
<1>5. w * m \in Nat /\ w * r \in Nat /\ w * x \in Nat /\ (w * r) * q \in Nat
  BY <1>1
<1>6. (d + w * m) + (w * r) * q = d + w * x
  BY <1>3, <1>4, <1>5
<1> QED BY <1>1, <1>5, <1>6 DEF q, m

ConsoleInv ==
  /\ fmt \in Seq(Item)
  /\ xpc # "item" => fmt # <<>>
  /\ v \in Nat /\ weight \in Nat /\ done \in Nat
  /\ radix \in Nat \ {0}
  /\ DigitsKeepValue

LEMMA HeadTail ==
  ASSUME NEW f \in Seq(Item), f # <<>>
  PROVE  Head(f) \in Item /\ Tail(f) \in Seq(Item)
OBVIOUS

LEMMA ArgumentInt ==
  ASSUME NEW item \in Item
  PROVE  Argument(item) \in Int
<1>1. item.bits \in Nat /\ INTS \in Nat /\ LLONGS \in Nat
  BY XprintfAssumption DEF Item
<1> QED BY <1>1 DEF Argument, signedOf

LEMMA ConsoleInductive == ConsoleInv /\ [ConsoleNext]_consoleVars => ConsoleInv'
<1> SUFFICES ASSUME ConsoleInv, [ConsoleNext]_consoleVars PROVE ConsoleInv'
  OBVIOUS
<1>0. /\ fmt \in Seq(Item) /\ v \in Nat /\ weight \in Nat /\ done \in Nat
      /\ radix \in Nat \ {0} /\ value = done + weight * v
      /\ xpc # "item" => fmt # <<>>
  BY DEF ConsoleInv, DigitsKeepValue
<1>1. ASSUME UNCHANGED <<fmt, numeral>>, xpc' # "item" => fmt # <<>>
      PROVE  ConsoleInv'
  BY <1>0, <1>1 DEF ConsoleInv, DigitsKeepValue, numeral
<1>2. CASE BeginNumber
  <2>1. fmt # <<>> /\ fmt' = fmt /\ Head(fmt).type \in Numbers
    BY <1>2 DEF BeginNumber
  <2>2. Argument(Head(fmt)) \in Int
    BY <1>0, <2>1, HeadTail, ArgumentInt
  <2>3. v' \in Nat
    <3>1. /\ neg' = (Argument(Head(fmt)) < 0)
          /\ v' = IF neg' THEN -Argument(Head(fmt)) ELSE Argument(Head(fmt))
      BY <1>2 DEF BeginNumber
    <3>2. CASE Argument(Head(fmt)) < 0
      <4>1. v' = -Argument(Head(fmt))
        BY <3>1, <3>2
      <4> QED BY <2>2, <3>2, <4>1
    <3>3. CASE ~(Argument(Head(fmt)) < 0)
      <4>1. v' = Argument(Head(fmt))
        BY <3>1, <3>3
      <4> QED BY <2>2, <3>3, <4>1
    <3> QED BY <3>2, <3>3
  <2>4. radix' \in Nat \ {0}
    BY <1>2, <2>1 DEF BeginNumber, radixOf, Numbers
  <2>5. value' = v' /\ weight' = 1 /\ done' = 0
    BY <1>2 DEF BeginNumber
  <2>6. value' = done' + weight' * v'
    <3>1. \A n \in Nat : n = 0 + 1 * n
      OBVIOUS
    <3>2. v' = 0 + 1 * v'
      BY <2>3, <3>1
    <3> QED BY <2>5, <3>2
  <2>7. fmt' \in Seq(Item) /\ fmt' # <<>> /\ weight' \in Nat /\ done' \in Nat
    BY <1>0, <2>1, <2>5
  <2> QED BY <2>3, <2>4, <2>6, <2>7 DEF ConsoleInv, DigitsKeepValue
<1>3. CASE MakeDigit
  <2>1. /\ v' = v \div radix /\ done' = done + weight * (v % radix)
        /\ weight' = weight * radix /\ UNCHANGED <<fmt, radix, value>>
        /\ xpc = "digit"
    BY <1>3 DEF MakeDigit, Rest
  <2>2. /\ v' \in Nat /\ done' \in Nat /\ weight' \in Nat
        /\ done' + weight' * v' = done + weight * v
    <3>1. /\ v \div radix \in Nat
          /\ (done + weight * (v % radix)) + (weight * radix) * (v \div radix)
               = done + weight * v
          /\ done + weight * (v % radix) \in Nat /\ weight * radix \in Nat
      BY <1>0, DigitMoves
    <3> QED BY <2>1, <3>1
  <2>3. fmt' \in Seq(Item) /\ fmt' # <<>> /\ radix' \in Nat \ {0}
    BY <1>0, <2>1
  <2>4. value' = done' + weight' * v'
    BY <1>0, <2>1, <2>2
  <2> QED BY <2>2, <2>3, <2>4 DEF ConsoleInv, DigitsKeepValue
<1>4. CASE NextItem
  <2>1. xpc = "put" /\ xpc' = "item" /\ fmt' = Tail(fmt) /\ UNCHANGED numeral
    BY <1>4 DEF NextItem
  <2>2. fmt' \in Seq(Item)
    BY <1>0, <2>1, HeadTail
  <2> QED BY <1>0, <2>1, <2>2 DEF ConsoleInv, DigitsKeepValue, numeral
<1>5. CASE PutPlain \/ PutChar \/ PutLf \/ UartLoad \/ UartSend
  <2>1. UNCHANGED <<fmt, numeral>> /\ (xpc' # "item" => fmt # <<>>)
    BY <1>0, <1>5 DEF PutPlain, PutChar, PutLf, UartLoad, UartSend
  <2> QED BY <1>1, <2>1
<1>6. CASE UNCHANGED consoleVars
  <2>1. UNCHANGED <<fmt, numeral>> /\ (xpc' # "item" => fmt # <<>>)
    BY <1>0, <1>6 DEF consoleVars, numeral
  <2> QED BY <1>1, <2>1
<1> QED BY <1>2, <1>3, <1>4, <1>5, <1>6 DEF ConsoleNext

(* DigitsKeepValue for every number and base (xprintf.c 350-355).          *)
THEOREM DigitsAlwaysKeepValue == ConsoleSpec => []DigitsKeepValue
<1>1. ConsoleInit => ConsoleInv
  BY XprintfAssumption DEF ConsoleInit, ConsoleInv, DigitsKeepValue
<1>2. ConsoleInv => DigitsKeepValue
  BY DEF ConsoleInv
<1> QED BY <1>1, <1>2, ConsoleInductive, PTL DEF ConsoleSpec
---------------------------------------------------------------------------
(***************************************************************************)
(* What leaves the UART.  A field is the text of its item, padded; the     *)
(* format's output is the fields one after the other, and of each item     *)
(* under way is known what has been put and what is to come.  The first    *)
(* lemmas are about powers and the number of digits, the next about lines  *)
(* joined to one another.                                                  *)
(***************************************************************************)

(* Powers. *)
IsPower(g, r, m) == g = [i \in 0 .. m |-> IF i = 0 THEN 1 ELSE r * g[i - 1]]

LEMMA PowerDef == ASSUME NEW r, NEW m PROVE Power(r, m) = (CHOOSE g : IsPower(g, r, m))[m]
BY DEF Power, IsPower

LEMMA PowerExists ==
  ASSUME NEW r \in Nat, NEW m \in Nat
  PROVE  \E f \in [0 .. m -> Nat] : IsPower(f, r, m)
<1> DEFINE F == [p \in Nat \X Nat |-> r * p[2]]
<1>1. \A i \in 1 .. m : \A s \in Nat : F[<<i, s>>] = r * s /\ F[<<i, s>>] \in Nat
  <2>1. \A i \in Nat, s \in Nat : r * s \in Nat /\ <<i, s>> \in Nat \X Nat OBVIOUS
  <2>2. \A p \in Nat \X Nat : F[p] = r * p[2] OBVIOUS
  <2> HIDE DEF F
  <2> TAKE i \in 1 .. m
  <2> TAKE s \in Nat
  <2>3. i \in Nat OBVIOUS
  <2>4. F[<<i, s>>] = r * s BY <2>1, <2>2, <2>3
  <2> QED BY <2>1, <2>3, <2>4
<1> HIDE DEF F
<1>2. PICK f \in [0 .. m -> Nat] : Recursive(f, m, 1, F)
  <2>1. 1 \in Nat OBVIOUS
  <2>2. \A i \in 1 .. m : \A s \in Nat : F[<<i, s>>] \in Nat BY <1>1
  <2> QED BY <2>1, <2>2, Recursion
<1>3. f = [i \in 0 .. m |-> IF i = 0 THEN 1 ELSE F[<<i, f[i - 1]>>]] BY <1>2 DEF Recursive
<1>4. ASSUME NEW i \in 0 .. m PROVE f[i] = IF i = 0 THEN 1 ELSE r * f[i - 1]
  <2>1. f[i] = IF i = 0 THEN 1 ELSE F[<<i, f[i - 1]>>] BY <1>3
  <2>2. i # 0 => i \in 1 .. m /\ f[i - 1] \in Nat BY <1>2
  <2> QED BY <1>1, <2>1, <2>2
<1>5. f = [i \in 0 .. m |-> IF i = 0 THEN 1 ELSE r * f[i - 1]] BY <1>4
<1> QED BY <1>5 DEF IsPower

LEMMA PowerUnique ==
  ASSUME NEW r, NEW m \in Nat, NEW n \in Nat, n <= m, NEW f, IsPower(f, r, m), NEW g, IsPower(g, r, n)
  PROVE  \A i \in 0 .. n : f[i] = g[i]
<1> DEFINE G == {i \in Nat : i <= n => f[i] = g[i]}
<1>1. \A i \in 0 .. m : f[i] = IF i = 0 THEN 1 ELSE r * f[i - 1] BY DEF IsPower
<1>2. \A i \in 0 .. n : g[i] = IF i = 0 THEN 1 ELSE r * g[i - 1] BY DEF IsPower
<1>3. 0 \in G
  <2>1. 0 \in 0 .. m /\ 0 \in 0 .. n OBVIOUS
  <2> QED BY <1>1, <1>2, <2>1
<1>4. ASSUME NEW i \in Nat, i \in G PROVE i + 1 \in G
  <2> SUFFICES ASSUME i + 1 <= n PROVE f[i + 1] = g[i + 1] OBVIOUS
  <2>1. i + 1 \in 0 .. m /\ i + 1 \in 0 .. n /\ (i + 1) - 1 = i /\ i + 1 # 0 OBVIOUS
  <2>2. f[i] = g[i] BY <1>4
  <2> QED BY <1>1, <1>2, <2>1, <2>2
<1>5. \A i \in Nat : i \in G
  <2> HIDE DEF G
  <2> QED BY <1>3, <1>4, Induction
<1> QED BY <1>5

LEMMA PowerIs ==
  ASSUME NEW r \in Nat, NEW m \in Nat
  PROVE  \E f \in [0 .. m -> Nat] : IsPower(f, r, m) /\ \A i \in 0 .. m : f[i] = Power(r, i)
<1>1. PICK f \in [0 .. m -> Nat] : IsPower(f, r, m) BY PowerExists
<1>2. ASSUME NEW i \in 0 .. m PROVE f[i] = Power(r, i)
  <2>1. \E g : IsPower(g, r, i)
    <3>1. i \in Nat OBVIOUS
    <3> QED BY <3>1, PowerExists
  <2> DEFINE g == CHOOSE g : IsPower(g, r, i)
  <2>2. IsPower(g, r, i) BY <2>1
  <2>3. Power(r, i) = g[i] BY PowerDef
  <2> HIDE DEF g
  <2>4. i \in Nat /\ i <= m /\ i \in 0 .. i OBVIOUS
  <2>5. f[i] = g[i] BY <1>1, <2>2, <2>4, PowerUnique
  <2> QED BY <2>3, <2>5
<1> QED BY <1>1, <1>2

LEMMA Powers ==
  ASSUME NEW r \in Nat
  PROVE  /\ Power(r, 0) = 1
         /\ \A n \in Nat : Power(r, n) \in Nat /\ Power(r, n + 1) = r * Power(r, n)
<1>1. ASSUME NEW n \in Nat
      PROVE  Power(r, 0) = 1 /\ Power(r, n) \in Nat /\ Power(r, n + 1) = r * Power(r, n)
  <2>1. n + 1 \in Nat OBVIOUS
  <2>2. PICK f \in [0 .. n + 1 -> Nat] : IsPower(f, r, n + 1) /\ \A i \in 0 .. n + 1 : f[i] = Power(r, i)
    BY <2>1, PowerIs
  <2>3. \A i \in 0 .. n + 1 : f[i] = IF i = 0 THEN 1 ELSE r * f[i - 1] BY <2>2 DEF IsPower
  <2>4. 0 \in 0 .. n + 1 /\ n \in 0 .. n + 1 /\ n + 1 \in 0 .. n + 1 /\ (n + 1) - 1 = n /\ n + 1 # 0 OBVIOUS
  <2>5. f[0] = 1 /\ f[n] \in Nat /\ f[n + 1] = r * f[n] BY <2>3, <2>4
  <2> QED BY <2>2, <2>4, <2>5
<1> QED BY <1>1

(* A quotient is zero where the power is larger, and not elsewhere. *)
LEMMA QuotientZero ==
  ASSUME NEW n \in Nat, NEW p \in Nat \ {0}
  PROVE  /\ n \div p \in Nat /\ n % p \in 0 .. p - 1
         /\ n \div p = 0 <=> n < p
<1>1. n \div p \in Int /\ n % p \in 0 .. p - 1 /\ n = p * (n \div p) + (n % p) BY DivMod
<1> DEFINE q == n \div p
           m == n % p
<1>2. q \in Int /\ m \in 0 .. p - 1 /\ n = p * q + m BY <1>1
<1> HIDE DEF q, m
<1>3. q >= 0
  <2>1. CASE q <= -1
    <3>1. p * q <= p * (-1) BY <1>2, <2>1
    <3> QED BY <1>2, <3>1
  <2> QED BY <1>2, <2>1
<1>4. q = 0 => n < p BY <1>2
<1>5. ASSUME q # 0 PROVE n >= p
  <2>1. q >= 1 BY <1>2, <1>3, <1>5
  <2>2. p * q >= p * 1 BY <1>2, <2>1
  <2> QED BY <1>2, <2>2
<1>6. q \in Nat /\ (q = 0 <=> n < p) BY <1>2, <1>3, <1>4, <1>5
<1> QED BY <1>1, <1>6 DEF q

(* Powers grow. *)
LEMMA PowersGrow ==
  ASSUME NEW r \in Nat, r >= 2
  PROVE  /\ \A n \in Nat : Power(r, n) >= n + 1 /\ Power(r, n) \in Nat \ {0}
         /\ \A m, n \in Nat : m <= n => Power(r, m) <= Power(r, n)
<1>1. Power(r, 0) = 1 /\ \A n \in Nat : Power(r, n) \in Nat /\ Power(r, n + 1) = r * Power(r, n) BY Powers
<1> DEFINE G == {n \in Nat : Power(r, n) >= n + 1}
<1>2. 0 \in G BY <1>1
<1>3. \A p \in Nat : r * p >= 2 * p
  <2> TAKE p \in Nat
  <2>1. r - 2 \in Nat OBVIOUS
  <2>2. (r - 2) * p >= 0 BY <2>1
  <2>3. (r - 2) * p = r * p - 2 * p OBVIOUS
  <2>4. r * p \in Nat OBVIOUS
  <2> QED BY <2>2, <2>3, <2>4
<1>4. ASSUME NEW n \in Nat, n \in G PROVE n + 1 \in G
  <2>1. r * Power(r, n) >= 2 * Power(r, n) BY <1>1, <1>3
  <2> QED BY <1>1, <1>4, <2>1
<1>5. \A n \in Nat : n \in G
  <2> HIDE DEF G
  <2> QED BY <1>2, <1>4, Induction
<1>6. \A n \in Nat : Power(r, n) >= n + 1 /\ Power(r, n) \in Nat \ {0} BY <1>1, <1>5
<1>7. ASSUME NEW m \in Nat PROVE \A n \in Nat : m <= n => Power(r, m) <= Power(r, n)
  <2> DEFINE H == {n \in Nat : m <= n => Power(r, m) <= Power(r, n)}
  <2>1. 0 \in H BY <1>1
  <2>2. ASSUME NEW n \in Nat, n \in H PROVE n + 1 \in H
    <3>1. Power(r, n) <= Power(r, n + 1)
      <4>1. r * Power(r, n) >= 2 * Power(r, n) BY <1>1, <1>3
      <4> QED BY <1>1, <4>1
    <3>2. Power(r, n) \in Nat /\ Power(r, n + 1) \in Nat /\ Power(r, m) \in Nat BY <1>1
    <3>3. CASE m <= n
      <4>1. Power(r, m) <= Power(r, n) BY <2>2, <3>3
      <4> QED BY <3>1, <3>2, <4>1
    <3>4. CASE m > n
      <4>1. m <= n + 1 => m = n + 1 BY <3>4
      <4> QED BY <3>2, <4>1
    <3> QED BY <3>3, <3>4
  <2>3. \A n \in Nat : n \in H
    <3> HIDE DEF H
    <3> QED BY <2>1, <2>2, Induction
  <2> QED BY <2>3
<1> QED BY <1>6, <1>7

(* The number of places, said with a set. *)
LEMMA PlacesIs ==
  ASSUME NEW r \in Nat, r >= 2, NEW n \in Nat
  PROVE  /\ Places(n, r) \in Nat \ {0}
         /\ n < Power(r, Places(n, r))
         /\ Places(n, r) = 1 \/ n >= Power(r, Places(n, r) - 1)
<1> DEFINE T == {m \in Nat \ {0} : n < Power(r, m)}
<1>1. n + 1 \in T
  <2>1. n + 1 \in Nat \ {0} /\ n + 1 \in Nat OBVIOUS
  <2>2. Power(r, n + 1) >= (n + 1) + 1 /\ Power(r, n + 1) \in Nat BY <2>1, PowersGrow
  <2> QED BY <2>1, <2>2
<1>2. T \in SUBSET Nat /\ T # {} BY <1>1
<1>3. PICK m \in T : \A j \in T : m <= j
  <2> HIDE DEF T
  <2> QED BY <1>2, Smallest
<1>4. m \in 1 .. n + 1 /\ n < Power(r, m) BY <1>1, <1>3
<1>5. m = 1 \/ n >= Power(r, m - 1)
  <2> SUFFICES ASSUME m # 1 PROVE n >= Power(r, m - 1) OBVIOUS
  <2>1. m - 1 \in Nat \ {0} /\ m - 1 \in Nat /\ ~(m <= m - 1) BY <1>4
  <2>2. ~(n < Power(r, m - 1)) BY <1>3, <2>1
  <2>3. Power(r, m - 1) \in Nat BY <2>1, PowersGrow
  <2> QED BY <2>2, <2>3
<1>6. \E i \in 1 .. n + 1 : n < Power(r, i) /\ (i = 1 \/ n >= Power(r, i - 1)) BY <1>4, <1>5
<1> DEFINE p == CHOOSE i \in 1 .. n + 1 : n < Power(r, i) /\ (i = 1 \/ n >= Power(r, i - 1))
<1>7. p \in 1 .. n + 1 /\ n < Power(r, p) /\ (p = 1 \/ n >= Power(r, p - 1)) BY <1>6
<1>8. Places(n, r) = p BY DEF Places
<1> HIDE DEF p
<1>9. p \in Nat \ {0} BY <1>7
<1> QED BY <1>7, <1>8, <1>9

LEMMA PlacesUnique ==
  ASSUME NEW r \in Nat, r >= 2, NEW n \in Nat, NEW m \in Nat \ {0}
  PROVE  /\ m = 1 \/ n >= Power(r, m - 1) => m <= Places(n, r)
         /\ n < Power(r, m) => Places(n, r) <= m
<1> DEFINE p == Places(n, r)
<1>1. p \in Nat \ {0} /\ n < Power(r, p) /\ (p = 1 \/ n >= Power(r, p - 1)) BY PlacesIs
<1> HIDE DEF p
<1>2. /\ \A i \in Nat : Power(r, i) \in Nat
      /\ \A i, j \in Nat : i <= j => Power(r, i) <= Power(r, j)
  BY PowersGrow
<1>3. ASSUME m = 1 \/ n >= Power(r, m - 1), ~(m <= p) PROVE FALSE
  <2>1. p \in Nat /\ m - 1 \in Nat /\ p <= m - 1 BY <1>1, <1>3
  <2>2. Power(r, p) <= Power(r, m - 1) /\ Power(r, p) \in Nat /\ Power(r, m - 1) \in Nat BY <1>2, <2>1
  <2>3. m # 1 BY <1>1, <2>1
  <2> QED BY <1>1, <1>3, <2>2, <2>3
<1>4. ASSUME n < Power(r, m), ~(p <= m) PROVE FALSE
  <2>1. m \in Nat /\ p - 1 \in Nat /\ m <= p - 1 /\ p # 1 BY <1>1, <1>4
  <2>2. Power(r, m) <= Power(r, p - 1) /\ Power(r, m) \in Nat /\ Power(r, p - 1) \in Nat BY <1>2, <2>1
  <2> QED BY <1>1, <1>4, <2>1, <2>2
<1>5. /\ m = 1 \/ n >= Power(r, m - 1) => m <= p
      /\ n < Power(r, m) => p <= m
  BY <1>3, <1>4
<1> QED BY <1>5 DEF p

(* All characters; the ones the program itself has are listed for the     *)
(* provers, which do not know them for strings.                            *)
Chars == STRING \cup {CR, LF, SPACE, MINUS, "0", "1", "2", "3", "4", "5", "6", "7", "8", "9",
                      "a", "b", "c", "d", "e", "f", "A", "B", "C", "D", "E", "F"}

Lines == Seq(Chars)

LEMMA Joining ==
  ASSUME NEW p \in Lines, NEW q \in Lines
  PROVE  /\ p \o q \in Lines /\ Len(p) \in Nat /\ Len(q) \in Nat /\ Len(p \o q) = Len(p) + Len(q)
         /\ \A i \in 1 .. Len(p) : (p \o q)[i] = p[i]
         /\ \A i \in 1 .. Len(q) : (p \o q)[Len(p) + i] = q[i]
<1>0. p \in Seq(Chars) /\ q \in Seq(Chars) BY DEF Lines
<1>5. Len(p) \in Nat /\ Len(q) \in Nat BY <1>0
<1> DEFINE r == p \o q
<1>1. /\ r \in Seq(Chars) /\ Len(r) = Len(p) + Len(q)
      /\ \A i \in 1 .. Len(p) + Len(q) : r[i] = IF i <= Len(p) THEN p[i] ELSE q[i - Len(p)]
  BY <1>0, ConcatProperties, Zenon
<1> HIDE DEF r
<1>2. ASSUME NEW i \in 1 .. Len(p) PROVE r[i] = p[i] BY <1>1, <1>5
<1>3. ASSUME NEW i \in 1 .. Len(q) PROVE r[Len(p) + i] = q[i]
  <2>1. Len(p) + i \in 1 .. Len(p) + Len(q) /\ ~(Len(p) + i <= Len(p)) /\ (Len(p) + i) - Len(p) = i BY <1>5
  <2> QED BY <1>1, <2>1
<1>4. r \in Lines BY <1>1 DEF Lines
<1> QED BY <1>1, <1>2, <1>3, <1>4, <1>5 DEF r

LEMMA Regrouping == \A p, q, r \in Lines : (p \o q) \o r = p \o (q \o r)
BY ConcatAssociative DEF Lines

(* The same under a name, for where the provers would go on regrouping. *)
Associates(p, q, r) == (p \o q) \o r = p \o (q \o r)

LEMMA Regroups == \A p, q, r \in Lines : Associates(p, q, r)
BY Regrouping DEF Associates

LEMMA Nothing ==
  /\ <<>> \in Lines /\ Len(<<>>) = 0
  /\ \A p \in Lines : /\ Len(p) \in Nat /\ p \o <<>> = p /\ <<>> \o p = p
                      /\ Len(p) = 0 <=> p = <<>>
<1>1. <<>> \in Lines /\ Len(<<>>) = 0 BY EmptySeq DEF Lines
<1>2. ASSUME NEW p \in Lines
      PROVE  Len(p) \in Nat /\ p \o <<>> = p /\ <<>> \o p = p /\ (Len(p) = 0 <=> p = <<>>)
  <2>1. p \in Seq(Chars) BY DEF Lines
  <2>2. p \o <<>> = p /\ <<>> \o p = p BY <2>1, ConcatEmptySeq
  <2>3. p # <<>> => Len(p) \in Nat \ {0} BY <2>1, EmptySeq
  <2> QED BY <1>1, <2>1, <2>2, <2>3
<1> QED BY <1>1, <1>2

LEMMA SameLine ==
  ASSUME NEW p \in Lines, NEW q \in Lines, Len(p) = Len(q), \A i \in 1 .. Len(p) : p[i] = q[i]
  PROVE  p = q
BY SeqEqual DEF Lines

(* The lines of q one after the other: E[i] is the first i of them.        *)
Sums(E, q) ==
  /\ E \in [0 .. Len(q) -> Lines] /\ E[0] = <<>>
  /\ \A i \in 1 .. Len(q) : E[i] = E[i - 1] \o q[i]

LEMMA SumsExist ==
  ASSUME NEW q \in Seq(Lines)
  PROVE  \E E : Sums(E, q)
<1> DEFINE n == Len(q)
           F == [p \in (1 .. n) \X Lines |-> p[2] \o q[p[1]]]
<1>1. n \in Nat /\ \A i \in 1 .. n : q[i] \in Lines OBVIOUS
<1> HIDE DEF n
<1>2. ASSUME NEW i \in 1 .. n, NEW s \in Lines
      PROVE  F[<<i, s>>] = s \o q[i] /\ F[<<i, s>>] \in Lines
  <2>1. F[<<i, s>>] = s \o q[i]
    <3>1. <<i, s>> \in (1 .. n) \X Lines /\ <<i, s>>[1] = i /\ <<i, s>>[2] = s OBVIOUS
    <3> QED BY <3>1
  <2>2. q[i] \in Lines BY <1>1
  <2>3. s \o q[i] \in Lines BY <2>2, Joining
  <2> QED BY <2>1, <2>3
<1> HIDE DEF F
<1>3. PICK E \in [0 .. n -> Lines] : Recursive(E, n, <<>>, F)
  <2>1. <<>> \in Lines BY Nothing
  <2>2. \A i \in 1 .. n : \A s \in Lines : F[<<i, s>>] \in Lines BY <1>2
  <2> QED BY <1>1, <2>1, <2>2, Recursion
<1>4. E = [i \in 0 .. n |-> IF i = 0 THEN <<>> ELSE F[<<i, E[i - 1]>>]] BY <1>3 DEF Recursive
<1>5. E[0] = <<>>
  <2>1. 0 \in 0 .. n BY <1>1
  <2> QED BY <1>4, <2>1
<1>6. ASSUME NEW i \in 1 .. n PROVE E[i] = E[i - 1] \o q[i]
  <2>1. i \in 0 .. n /\ i # 0 /\ i - 1 \in 0 .. n BY <1>1
  <2>2. E[i] = F[<<i, E[i - 1]>>] BY <1>4, <2>1
  <2>3. E[i - 1] \in Lines BY <1>3, <2>1
  <2> QED BY <1>2, <2>2, <2>3
<1> QED BY <1>3, <1>5, <1>6 DEF Sums, n

IsFlat(g, q) == g = [i \in 1 .. Len(q) |-> IF i = 1 THEN q[i] ELSE g[i - 1] \o q[i]]

LEMMA FlatDef ==
  ASSUME NEW q, Len(q) # 0
  PROVE  Seqs!FlattenSeq(q) = (CHOOSE g : IsFlat(g, q))[Len(q)]
BY DEF Seqs!FlattenSeq, IsFlat

LEMMA FlatIs ==
  ASSUME NEW q \in Seq(Lines), NEW E, Sums(E, q)
  PROVE  Seqs!FlattenSeq(q) = E[Len(q)]
<1> DEFINE n == Len(q)
<1>1. n \in Nat /\ \A i \in 1 .. n : q[i] \in Lines OBVIOUS
<1>2. /\ E \in [0 .. n -> Lines] /\ E[0] = <<>>
      /\ \A i \in 1 .. n : E[i] = E[i - 1] \o q[i]
  BY DEF Sums
<1>3. CASE n = 0
  <2>1. q = <<>> BY <1>3, EmptySeq
  <2>2. Seqs!FlattenSeq(q) = q BY <1>3 DEF Seqs!FlattenSeq
  <2> QED BY <1>2, <1>3, <2>1, <2>2
<1>4. CASE n # 0
  <2> DEFINE h == [i \in 1 .. n |-> E[i]]
             g == CHOOSE g : IsFlat(g, q)
  <2>1. IsFlat(h, q)
    <3>1. ASSUME NEW i \in 1 .. n PROVE h[i] = IF i = 1 THEN q[i] ELSE h[i - 1] \o q[i]
      <4>1. h[i] = E[i - 1] \o q[i] BY <1>2
      <4>2. CASE i = 1
        <5>1. q[i] \in Lines /\ E[i - 1] = <<>> BY <1>1, <1>2, <4>2
        <5>2. <<>> \o q[i] = q[i] BY <5>1, Nothing
        <5> QED BY <4>1, <4>2, <5>1, <5>2
      <4>3. CASE i # 1
        <5>1. i - 1 \in 1 .. n BY <1>1, <4>3
        <5>2. h[i - 1] = E[i - 1] BY <5>1
        <5> QED BY <4>1, <4>3, <5>2
      <4> QED BY <4>2, <4>3
    <3> HIDE DEF n
    <3>2. h = [i \in 1 .. n |-> IF i = 1 THEN q[i] ELSE h[i - 1] \o q[i]] BY <3>1
    <3> QED BY <3>2 DEF IsFlat, n
  <2>2. IsFlat(g, q) BY <2>1
  <2>3. Seqs!FlattenSeq(q) = g[n] BY <1>4, FlatDef
  <2> HIDE DEF g, n
  <2>4. \A i \in 1 .. n : g[i] = IF i = 1 THEN q[i] ELSE g[i - 1] \o q[i] BY <2>2 DEF IsFlat, n
  <2> DEFINE G == {i \in Nat : i \in 1 .. n => g[i] = E[i]}
  <2>5. 0 \in G OBVIOUS
  <2>6. ASSUME NEW i \in Nat, i \in G, i + 1 \in 1 .. n PROVE g[i + 1] = E[i + 1]
    <3>1. g[i + 1] = IF i + 1 = 1 THEN q[i + 1] ELSE g[(i + 1) - 1] \o q[i + 1] BY <2>4, <2>6
    <3>2. E[i + 1] = E[(i + 1) - 1] \o q[i + 1] BY <1>2, <2>6
    <3>3. (i + 1) - 1 = i OBVIOUS
    <3>4. CASE i = 0
      <4>1. q[i + 1] \in Lines BY <1>1, <2>6
      <4>2. <<>> \o q[i + 1] = q[i + 1] BY <4>1, Nothing
      <4>3. i + 1 = 1 /\ E[(i + 1) - 1] = <<>> BY <1>2, <3>4
      <4>4. g[i + 1] = q[i + 1] BY <3>1, <4>3
      <4>5. E[i + 1] = <<>> \o q[i + 1] BY <3>2, <4>3
      <4> QED BY <4>2, <4>4, <4>5
    <3>5. CASE i # 0
      <4>1. i \in 1 .. n /\ i + 1 # 1 BY <1>1, <2>6, <3>5
      <4>2. g[i] = E[i] BY <2>6, <4>1
      <4> QED BY <3>1, <3>2, <3>3, <4>1, <4>2
    <3> QED BY <3>4, <3>5
  <2>10. \A i \in Nat : i \in G => i + 1 \in G BY <2>6
  <2>7. \A i \in Nat : i \in G
    <3> HIDE DEF G
    <3> QED BY <2>5, <2>10, Induction
  <2>8. n \in Nat /\ n \in 1 .. n BY <1>1, <1>4
  <2>9. g[n] = E[n] BY <2>7, <2>8
  <2> QED BY <2>3, <2>9 DEF n
<1> QED BY <1>3, <1>4

(* Earlier sums are the beginnings of later ones. *)
Grows(E, q) == \A j \in 0 .. Len(q) : \A i \in j .. Len(q) : \E t \in Lines : E[i] = E[j] \o t

LEMMA SumsGrow ==
  ASSUME NEW q \in Seq(Lines), NEW E, Sums(E, q)
  PROVE  Grows(E, q)
<1> SUFFICES ASSUME NEW j \in 0 .. Len(q)
             PROVE  \A i \in j .. Len(q) : \E t \in Lines : E[i] = E[j] \o t
  BY DEF Grows
<1> DEFINE n == Len(q)
<1>1. n \in Nat /\ \A i \in 1 .. n : q[i] \in Lines OBVIOUS
<1>2. /\ E \in [0 .. n -> Lines] /\ \A i \in 1 .. n : E[i] = E[i - 1] \o q[i] BY DEF Sums
<1>8. j \in 0 .. n OBVIOUS
<1> HIDE DEF n
<1>7. E[j] \in Lines BY <1>2, <1>8
<1> DEFINE G == {i \in Nat : i \in j .. n => \E t \in Lines : E[i] = E[j] \o t}
<1>3. ASSUME NEW i \in Nat, i = j PROVE i \in G
  <2>1. E[j] = E[j] \o <<>> /\ <<>> \in Lines BY <1>7, Nothing
  <2> QED BY <1>3, <2>1
<1>4. 0 \in G
  <2>1. CASE j = 0 BY <1>3, <2>1
  <2>2. CASE j # 0 BY <1>1, <2>2, <1>8
  <2> QED BY <2>1, <2>2
<1>5. ASSUME NEW i \in Nat, i \in G PROVE i + 1 \in G
  <2>1. CASE i + 1 = j BY <1>3, <2>1
  <2>2. CASE i + 1 \in j .. n /\ i + 1 # j
    <3>1. i \in j .. n /\ i + 1 \in 1 .. n /\ (i + 1) - 1 = i BY <1>1, <1>8, <2>2
    <3>2. PICK t \in Lines : E[i] = E[j] \o t BY <1>5, <3>1
    <3>3. E[i + 1] = E[i] \o q[i + 1] /\ q[i + 1] \in Lines BY <1>1, <1>2, <3>1
    <3>6. PICK a, b \in Lines : a = E[j] /\ b = q[i + 1] BY <1>7, <3>3
    <3>7. E[i + 1] = (a \o t) \o b BY <3>2, <3>3, <3>6
    <3>4. (a \o t) \o b = a \o (t \o b)
      <4>1. Associates(a, t, b) BY Regroups
      <4> QED BY <4>1 DEF Associates
    <3>5. t \o b \in Lines BY Joining
    <3>8. E[i + 1] = E[j] \o (t \o b) BY <3>4, <3>6, <3>7
    <3>9. \E u \in Lines : E[i + 1] = E[j] \o u BY <3>5, <3>8
    <3> QED BY <3>9
  <2>3. CASE i + 1 \notin j .. n BY <2>3
  <2> QED BY <2>1, <2>2, <2>3
<1>6. \A i \in Nat : i \in G
  <2> HIDE DEF G
  <2> QED BY <1>4, <1>5, Induction
<1>9. \A i \in j .. n : i \in Nat BY <1>1, <1>8
<1> QED BY <1>6, <1>9 DEF n

(* The sums without the first line. *)
FirstRemoved(p, q) == Len(q) = Len(p) + 1 /\ \A i \in 1 .. Len(p) : p[i] = q[i + 1]

FirstJoined(E, q, D, p) == E[Len(q)] = q[1] \o D[Len(p)]

LEMMA SumsTail ==
  ASSUME NEW q \in Seq(Lines), NEW p \in Seq(Lines), FirstRemoved(p, q),
         NEW E, Sums(E, q), NEW D, Sums(D, p)
  PROVE  FirstJoined(E, q, D, p)
<1>0. Len(q) = Len(p) + 1 /\ \A i \in 1 .. Len(p) : p[i] = q[i + 1] BY DEF FirstRemoved
<1> DEFINE n == Len(p)
<1>1. n \in Nat /\ \A i \in 1 .. n + 1 : q[i] \in Lines BY <1>0
<1>2. /\ E \in [0 .. n + 1 -> Lines] /\ E[0] = <<>> /\ \A i \in 1 .. n + 1 : E[i] = E[i - 1] \o q[i]
      /\ D \in [0 .. n -> Lines] /\ D[0] = <<>> /\ \A i \in 1 .. n : D[i] = D[i - 1] \o q[i + 1]
  BY <1>0 DEF Sums
<1> HIDE DEF n
<1>3. PICK h \in Lines : h = q[1] BY <1>1
<1> DEFINE G == {i \in Nat : i <= n => E[i + 1] = h \o D[i]}
<1>4. 0 \in G
  <2>1. 1 \in 1 .. n + 1 /\ 1 - 1 = 0 BY <1>1
  <2>2. E[1] = E[0] \o h BY <1>2, <1>3, <2>1
  <2>3. <<>> \o h = h /\ h \o <<>> = h BY Nothing
  <2>4. E[0 + 1] = h \o D[0] BY <1>2, <2>2, <2>3
  <2> QED BY <2>4
<1>5. ASSUME NEW i \in Nat, i \in G, i + 1 <= n PROVE E[(i + 1) + 1] = h \o D[i + 1]
  <2>1. i + 1 \in 1 .. n /\ (i + 1) + 1 \in 1 .. n + 1 /\ ((i + 1) + 1) - 1 = i + 1 /\ (i + 1) - 1 = i /\ i <= n /\ i \in 0 .. n
    BY <1>1, <1>5
  <2>2. E[(i + 1) + 1] = E[i + 1] \o q[(i + 1) + 1] BY <1>2, <2>1
  <2>3. D[i + 1] = D[i] \o q[(i + 1) + 1] BY <1>2, <2>1
  <2>4. E[i + 1] = h \o D[i] BY <1>5, <2>1
  <2>5. PICK a, b \in Lines : a = D[i] /\ b = q[(i + 1) + 1] BY <1>1, <1>2, <2>1
  <2>6. (h \o a) \o b = h \o (a \o b)
    <3>1. Associates(h, a, b) BY Regroups
    <3> QED BY <3>1 DEF Associates
  <2> QED BY <2>2, <2>3, <2>4, <2>5, <2>6
<1>6. ASSUME NEW i \in Nat, i \in G PROVE i + 1 \in G
  <2>1. i + 1 <= n => E[(i + 1) + 1] = h \o D[i + 1]
    <3> HIDE DEF G
    <3> QED BY <1>5, <1>6
  <2> QED BY <2>1
<1>7. \A i \in Nat : i \in G
  <2> HIDE DEF G
  <2> QED BY <1>4, <1>6, Induction
<1>8. E[n + 1] = h \o D[n] BY <1>1, <1>7
<1> QED BY <1>0, <1>3, <1>8 DEF n, FirstJoined

(* A character as it is put. *)
OnTheWire(c) == IF c = LF THEN <<CR, LF>> ELSE <<c>>

LEMMA ShortSeqs ==
  ASSUME NEW S, NEW a \in S, NEW b \in S
  PROVE  /\ <<a>> \in Seq(S) /\ <<a, b>> \in Seq(S) /\ Len(<<a>>) = 1 /\ Len(<<a, b>>) = 2
         /\ <<a>> \o <<b>> = <<a, b>>
<1>1. /\ <<a>> \in Seq(S) /\ <<b>> \in Seq(S) /\ <<a, b>> \in Seq(S)
      /\ Len(<<a>>) = 1 /\ Len(<<b>>) = 1 /\ Len(<<a, b>>) = 2
  OBVIOUS
<1>2. <<a>> \o <<b>> \in Seq(S) /\ Len(<<a>> \o <<b>>) = Len(<<a>>) + Len(<<b>>) BY <1>1, ConcatProperties
<1>3. \A i \in 1 .. Len(<<a>>) + Len(<<b>>) :
        (<<a>> \o <<b>>)[i] = IF i <= Len(<<a>>) THEN <<a>>[i] ELSE <<b>>[i - Len(<<a>>)]
  BY <1>1, ConcatProperties
<1>4. (<<a>> \o <<b>>)[1] = a /\ (<<a>> \o <<b>>)[2] = b BY <1>1, <1>3
<1>5. \A i \in 1 .. 2 : i = 1 \/ i = 2 OBVIOUS
<1>6. \A i \in 1 .. 2 : (<<a>> \o <<b>>)[i] = <<a, b>>[i] BY <1>4, <1>5
<1>7. Len(<<a>> \o <<b>>) = 2 BY <1>1, <1>2
<1> QED BY <1>1, <1>2, <1>6, <1>7, SeqEqual

LEMMA Characters ==
  ASSUME NEW c \in Chars
  PROVE  OnTheWire(c) \in Lines /\ <<c>> \in Lines
<1>1. <<c>> \in Lines BY ShortSeqs, Zenon DEF Lines
<1>2. CR \in Chars /\ LF \in Chars BY DEF Chars
<1>3. <<CR, LF>> \in Lines BY <1>2, ShortSeqs, Zenon DEF Lines
<1> QED BY <1>1, <1>3 DEF OnTheWire

LEMMA WireLines ==
  ASSUME NEW s \in Lines
  PROVE  \E q \in Seq(Lines) : /\ Len(q) = Len(s) /\ \A i \in 1 .. Len(s) : q[i] = OnTheWire(s[i])
                               /\ Crlf(s) = Seqs!FlattenSeq(q)
<1> DEFINE q == [i \in DOMAIN s |-> OnTheWire(s[i])]
<1>1. s \in Seq(Chars) /\ Len(s) \in Nat /\ DOMAIN s = 1 .. Len(s) /\ \A i \in 1 .. Len(s) : s[i] \in Chars
  BY DEF Lines
<1>2. \A i \in 1 .. Len(s) : OnTheWire(s[i]) \in Lines BY <1>1, Characters
<1>3. q = [i \in 1 .. Len(s) |-> OnTheWire(s[i])] BY <1>1
<1>4. q \in [1 .. Len(s) -> Lines] BY <1>2, <1>3
<1>5. q \in Seq(Lines) /\ Len(q) = Len(s) /\ \A i \in 1 .. Len(s) : q[i] = OnTheWire(s[i])
  <2>1. \A i \in 1 .. Len(s) : q[i] = OnTheWire(s[i]) BY <1>3
  <2> HIDE DEF q
  <2> QED BY <1>1, <1>4, <2>1
<1>6. Crlf(s) = Seqs!FlattenSeq(q) BY DEF Crlf, OnTheWire
<1> HIDE DEF q
<1> QED BY <1>5, <1>6

LEMMA CrlfIs ==
  ASSUME NEW s \in Lines
  PROVE  /\ Crlf(s) \in Lines
         /\ s = <<>> => Crlf(s) = <<>>
         /\ s # <<>> => /\ Head(s) \in Chars /\ Tail(s) \in Lines
                        /\ Crlf(s) = OnTheWire(Head(s)) \o Crlf(Tail(s))
<1>1. PICK q \in Seq(Lines) : /\ Len(q) = Len(s) /\ \A i \in 1 .. Len(s) : q[i] = OnTheWire(s[i])
                              /\ Crlf(s) = Seqs!FlattenSeq(q)
  BY WireLines
<1>2. PICK E : Sums(E, q) BY SumsExist
<1>3. Crlf(s) = E[Len(q)] BY <1>1, <1>2, FlatIs
<1>4. Len(q) \in Nat OBVIOUS
<1>5. Crlf(s) \in Lines
  <2>1. E \in [0 .. Len(q) -> Lines] BY <1>2 DEF Sums
  <2>2. Len(q) \in 0 .. Len(q) BY <1>4
  <2> QED BY <1>3, <2>1, <2>2
<1>6. ASSUME s = <<>> PROVE Crlf(s) = <<>>
  <2>1. Len(q) = 0 BY <1>1, <1>6, Nothing
  <2>2. E[0] = <<>> BY <1>2 DEF Sums
  <2> QED BY <1>3, <2>1, <2>2
<1>7. ASSUME s # <<>>
      PROVE  /\ Head(s) \in Chars /\ Tail(s) \in Lines
             /\ Crlf(s) = OnTheWire(Head(s)) \o Crlf(Tail(s))
  <2>1. s \in Seq(Chars) BY DEF Lines
  <2>2. /\ Head(s) \in Chars /\ Tail(s) \in Seq(Chars) /\ Len(Tail(s)) = Len(s) - 1
        /\ \A i \in 1 .. Len(Tail(s)) : Tail(s)[i] = s[i + 1]
    BY <1>7, <2>1, HeadTailProperties
  <2>3. Head(s) = s[1] BY <1>7, <2>1
  <2>4. PICK t \in Lines : t = Tail(s) BY <2>2 DEF Lines
  <2>5. PICK p \in Seq(Lines) : /\ Len(p) = Len(t) /\ \A i \in 1 .. Len(t) : p[i] = OnTheWire(t[i])
                                /\ Crlf(t) = Seqs!FlattenSeq(p)
    BY WireLines
  <2>6. PICK D : Sums(D, p) BY SumsExist
  <2>7. Crlf(t) = D[Len(p)] BY <2>5, <2>6, FlatIs
  <2>8. Len(s) \in Nat \ {0} BY <1>7, <2>1, EmptySeq
  <2>9. Len(q) = Len(p) + 1 BY <1>1, <2>2, <2>4, <2>5, <2>8
  <2>10. \A i \in 1 .. Len(p) : p[i] = q[i + 1]
    <3> TAKE i \in 1 .. Len(p)
    <3>1. i + 1 \in 1 .. Len(s) /\ i \in 1 .. Len(t) BY <1>1, <2>5, <2>8, <2>9
    <3>2. t[i] = s[i + 1] BY <2>2, <2>4, <3>1
    <3> QED BY <1>1, <2>5, <3>1, <3>2
  <2>13. FirstRemoved(p, q) BY <2>9, <2>10 DEF FirstRemoved
  <2>14. FirstJoined(E, q, D, p) BY <1>2, <2>6, <2>13, SumsTail
  <2>11. E[Len(q)] = q[1] \o D[Len(p)] BY <2>14 DEF FirstJoined
  <2>12. q[1] = OnTheWire(Head(s)) BY <1>1, <2>3, <2>8
  <2> QED BY <1>3, <2>2, <2>4, <2>7, <2>11, <2>12
<1> QED BY <1>5, <1>6, <1>7

LEMMA ExpectedIs ==
  ASSUME NEW f \in Seq(Item), \A i \in 1 .. Len(f) : Field(f[i]) \in Lines
  PROVE  \E q \in Seq(Lines) : /\ Len(q) = Len(f) /\ \A i \in 1 .. Len(f) : q[i] = Crlf(Field(f[i]))
                               /\ Expected(f) = Seqs!FlattenSeq(q)
<1> DEFINE q == [i \in DOMAIN f |-> Crlf(Field(f[i]))]
<1>1. Len(f) \in Nat /\ DOMAIN f = 1 .. Len(f) OBVIOUS
<1>2. \A i \in 1 .. Len(f) : Crlf(Field(f[i])) \in Lines BY CrlfIs
<1>3. q = [i \in 1 .. Len(f) |-> Crlf(Field(f[i]))] BY <1>1
<1>4. q \in [1 .. Len(f) -> Lines] BY <1>2, <1>3
<1>5. q \in Seq(Lines) /\ Len(q) = Len(f) /\ \A i \in 1 .. Len(f) : q[i] = Crlf(Field(f[i]))
  <2>1. \A i \in 1 .. Len(f) : q[i] = Crlf(Field(f[i])) BY <1>3
  <2> HIDE DEF q
  <2> QED BY <1>1, <1>4, <2>1
<1>6. Expected(f) = Seqs!FlattenSeq(q) BY DEF Expected
<1> HIDE DEF q
<1> QED BY <1>5, <1>6

LEMMA FunctionLine ==
  ASSUME NEW n \in Nat, NEW f, f \in [1 .. n -> Chars]
  PROVE  f \in Lines /\ Len(f) = n
BY DEF Lines

LEMMA Repeats ==
  ASSUME NEW c \in Chars, NEW n \in Nat
  PROVE  Repeat(c, n) \in Lines /\ Len(Repeat(c, n)) = n /\ (n = 0 => Repeat(c, n) = <<>>)
<1>1. Repeat(c, n) \in [1 .. n -> Chars] BY DEF Repeat
<1>2. Repeat(c, n) \in Lines /\ Len(Repeat(c, n)) = n BY <1>1, FunctionLine
<1> QED BY <1>2, Nothing

LEMMA ItemIs ==
  ASSUME NEW item \in Item
  PROVE  /\ item.width \in Int /\ item.prec \in Int /\ item.bits \in Nat
         /\ item.text \in Lines /\ item.text \in Seq(STRING)
         /\ minWidth(item) \in Int /\ padChar(item) \in Chars
<1>1. item.width \in Int /\ item.prec \in Int /\ item.bits \in Nat /\ item.text \in Seq(STRING)
  BY DEF Item
<1>2. item.text \in Seq(Chars)
  <2>1. STRING \subseteq Chars BY DEF Chars
  <2> QED BY <1>1, <2>1, SeqMonotonic, Zenon
<1>3. minWidth(item) \in Int BY <1>1 DEF minWidth
<1>4. padChar(item) \in Chars BY DEF padChar, Chars
<1> QED BY <1>1, <1>2, <1>3, <1>4 DEF Lines

LEMMA MissingIs ==
  ASSUME NEW item \in Item, NEW n \in Nat
  PROVE  Missing(item, n) \in Nat
BY ItemIs DEF Missing

LEMMA PaddedIs ==
  ASSUME NEW item \in Item, NEW n \in Nat, NEW t \in Lines
  PROVE  /\ Padded(item, n, t) \in Lines
         /\ isLeft(item) => Padded(item, n, t) = t \o Repeat(SPACE, Missing(item, n))
         /\ ~isLeft(item) => Padded(item, n, t) = Repeat(padChar(item), Missing(item, n)) \o t
<1>1. Missing(item, n) \in Nat BY MissingIs
<1>2. PICK m \in Nat : m = Missing(item, n) BY <1>1
<1>3. SPACE \in Chars BY DEF Chars
<1>4. padChar(item) \in Chars BY ItemIs
<1>5. PICK a, b \in Lines : a = Repeat(padChar(item), m) /\ b = Repeat(SPACE, m)
  BY <1>3, <1>4, Repeats
<1>6. CASE isLeft(item)
  <2>1. LeftPad(item, n) = <<>> /\ RightPad(item, n) = b BY <1>2, <1>5, <1>6 DEF LeftPad, RightPad
  <2>2. Padded(item, n, t) = (<<>> \o t) \o b BY <2>1 DEF Padded
  <2>3. <<>> \o t = t BY Nothing
  <2>4. t \o b \in Lines BY Joining
  <2> QED BY <1>2, <1>5, <1>6, <2>2, <2>3, <2>4
<1>7. CASE ~isLeft(item)
  <2>1. LeftPad(item, n) = a /\ RightPad(item, n) = <<>> BY <1>2, <1>5, <1>7 DEF LeftPad, RightPad
  <2>2. Padded(item, n, t) = (a \o t) \o <<>> BY <2>1 DEF Padded
  <2>4. PICK x \in Lines : x = a \o t BY Joining
  <2>3. x \o <<>> = x BY Nothing
  <2> QED BY <1>2, <1>5, <1>7, <2>2, <2>3, <2>4
<1> QED BY <1>6, <1>7

(* A field is its text, padded when it is a number's or a string's. *)
LEMMA FieldIs ==
  ASSUME NEW item \in Item, Text(item) \in Lines
  PROVE  /\ Field(item) \in Lines
         /\ item.type = "s" => Field(item) = Padded(item, Len(item.text), Text(item))
         /\ item.type \in Numbers => Field(item) = Padded(item, Len(Text(item)), Text(item))
         /\ item.type \notin Numbers \cup {"s"} => Field(item) = Text(item)
<1> DEFINE n == IF item.type = "s" THEN Len(item.text) ELSE Len(Text(item))
           m == IF item.type \in Numbers \cup {"s"} /\ n < minWidth(item) THEN minWidth(item) - n ELSE 0
<1>1. PICK t \in Lines : t = Text(item) OBVIOUS
<1>2. Len(item.text) \in Nat /\ Len(t) \in Nat BY ItemIs DEF Lines
<1>3. n \in Nat BY <1>1, <1>2
<1>4. item.type \in Numbers \cup {"s"} => m = Missing(item, n) BY DEF Missing
<1>5. item.type \notin Numbers \cup {"s"} => m = 0 OBVIOUS
<1>6. Field(item) = IF isLeft(item) THEN t \o Repeat(SPACE, m) ELSE Repeat(padChar(item), m) \o t
  BY <1>1 DEF Field, isLeft, Repeat, padChar, minWidth
<1>7. n = IF item.type = "s" THEN Len(item.text) ELSE Len(t) BY <1>1
<1> HIDE DEF n, m
<1>8. ASSUME item.type \in Numbers \cup {"s"}
      PROVE  Field(item) = Padded(item, n, t) /\ Padded(item, n, t) \in Lines
  <2>1. m = Missing(item, n) BY <1>4, <1>8
  <2>2. /\ Padded(item, n, t) \in Lines
        /\ isLeft(item) => Padded(item, n, t) = t \o Repeat(SPACE, Missing(item, n))
        /\ ~isLeft(item) => Padded(item, n, t) = Repeat(padChar(item), Missing(item, n)) \o t
    BY <1>3, PaddedIs
  <2>3. CASE isLeft(item) BY <1>6, <2>1, <2>2, <2>3, Zenon
  <2>4. CASE ~isLeft(item) BY <1>6, <2>1, <2>2, <2>4, Zenon
  <2> QED BY <2>3, <2>4
<1>9. ASSUME item.type \notin Numbers \cup {"s"} PROVE Field(item) = t
  <2>1. padChar(item) \in Chars /\ SPACE \in Chars BY ItemIs DEF Chars
  <2>2. Repeat(SPACE, m) = <<>> /\ Repeat(padChar(item), m) = <<>>
    <3>1. m = 0 /\ m \in Nat BY <1>5, <1>9
    <3> QED BY <2>1, <3>1, Repeats
  <2>3. t \o <<>> = t /\ <<>> \o t = t BY Nothing
  <2> QED BY <1>6, <2>2, <2>3
<1>10. "s" \notin Numbers BY DEF Numbers
<1> QED BY <1>1, <1>7, <1>8, <1>9, <1>10

(* What a precision leaves of a text. *)
LEMMA CutIs ==
  ASSUME NEW s \in Lines, NEW prec \in Int
  PROVE  /\ Cut(s, prec) \in Lines
         /\ Cut(s, prec) = [i \in {j \in DOMAIN s : prec < 0 \/ j <= prec} |-> s[i]]
<1> DEFINE D == {j \in DOMAIN s : prec < 0 \/ j <= prec}
<1>1. s \in Seq(Chars) /\ Len(s) \in Nat /\ DOMAIN s = 1 .. Len(s) BY DEF Lines
<1>2. CASE prec < 0 \/ prec > Len(s)
  <2>1. D = 1 .. Len(s) BY <1>1, <1>2
  <2>2. s = [i \in 1 .. Len(s) |-> s[i]] BY <1>1
  <2>3. Cut(s, prec) = s BY <1>2 DEF Cut
  <2> QED BY <2>1, <2>2, <2>3
<1>3. CASE ~(prec < 0 \/ prec > Len(s))
  <2>1. D = 1 .. prec BY <1>1, <1>3
  <2>2. \A i \in 1 .. prec : s[i] \in Chars BY <1>1, <1>3
  <2> DEFINE c == SubSeq(s, 1, prec)
  <2>3. c \in Seq(Chars) /\ Len(c) = prec /\ \A i \in 1 .. prec : c[i] = s[i]
    <3>1. 1 \in Int /\ prec \in Int OBVIOUS
    <3>2. /\ c \in Seq(Chars) /\ Len(c) = IF 1 <= prec THEN prec - 1 + 1 ELSE 0
          /\ \A i \in 1 .. prec - 1 + 1 : c[i] = s[1 + i - 1]
      BY <2>2, <3>1, SubSeqProperties
    <3> HIDE DEF c
    <3> QED BY <1>3, <3>2
  <2>4. Cut(s, prec) = c BY <1>3 DEF Cut
  <2> HIDE DEF c
  <2>5. DOMAIN c = 1 .. prec /\ c = [i \in DOMAIN c |-> c[i]] BY <2>3
  <2>6. c = [i \in 1 .. prec |-> s[i]] BY <2>3, <2>5
  <2> QED BY <2>1, <2>3, <2>4, <2>6 DEF Lines
<1> QED BY <1>2, <1>3

LEMMA RadixIs ==
  ASSUME NEW type \in Numbers
  PROVE  radixOf(type) \in 2 .. 16
<1>1. \/ type = "b" \/ type = "o" \/ type \in {"d", "u"} \/ type \in {"x", "X"}
  BY DEF Numbers
<1>2. CASE type = "b" BY <1>2 DEF radixOf
<1>3. CASE type = "o" BY <1>3 DEF radixOf
<1>4. CASE type \in {"d", "u"} BY <1>4 DEF radixOf
<1>5. CASE type \in {"x", "X"} BY <1>5 DEF radixOf
<1> QED BY <1>1, <1>2, <1>3, <1>4, <1>5

LEMMA GlyphIs ==
  ASSUME NEW d \in 0 .. 15, NEW type
  PROVE  glyph(d, type) \in Chars
<1>1. CASE d \in 0 .. 9 BY <1>1 DEF glyph, Chars
<1>2. CASE d \in 10 .. 15 BY <1>2 DEF glyph, Chars
<1> QED BY <1>1, <1>2

LEMMA DigitIs ==
  ASSUME NEW n \in Nat, NEW r \in 2 .. 16, NEW i \in Nat, NEW type
  PROVE  /\ (n \div Power(r, i)) \in Nat
         /\ (n \div Power(r, i)) % r \in 0 .. 15
         /\ glyph((n \div Power(r, i)) % r, type) \in Chars
<1>0. r \in Nat /\ r >= 2 OBVIOUS
<1>1. PICK p \in Nat \ {0} : p = Power(r, i) BY <1>0, PowersGrow
<1>2. PICK q \in Nat : q = n \div p BY QuotientZero
<1>3. q % r \in 0 .. r - 1 BY QuotientZero
<1>4. q % r \in 0 .. 15 BY <1>3
<1>5. glyph(q % r, type) \in Chars BY <1>4, GlyphIs
<1> QED BY <1>1, <1>2, <1>4, <1>5

(* The digits of n, highest first. *)
Digits(n, r, p, type) == [i \in 1 .. p |-> glyph((n \div Power(r, p - i)) % r, type)]

LEMMA DigitsLine ==
  ASSUME NEW n \in Nat, NEW r \in 2 .. 16, NEW p \in Nat, NEW type
  PROVE  Digits(n, r, p, type) \in Lines /\ Len(Digits(n, r, p, type)) = p
<1>1. \A i \in 1 .. p : p - i \in Nat OBVIOUS
<1>2. \A i \in 1 .. p : glyph((n \div Power(r, p - i)) % r, type) \in Chars BY <1>1, DigitIs
<1>3. Digits(n, r, p, type) \in [1 .. p -> Chars] BY <1>2 DEF Digits
<1> QED BY <1>3, FunctionLine

LEMMA NumeralIs ==
  ASSUME NEW n \in Nat, NEW type \in Numbers
  PROVE  \E p \in Nat \ {0} : /\ p <= SZB_OUTPUT /\ p <= Places(n, radixOf(type))
                              /\ p = SZB_OUTPUT \/ p = Places(n, radixOf(type))
                              /\ Numeral(n, type) = Digits(n, radixOf(type), p, type)
                              /\ Numeral(n, type) \in Lines
<1> DEFINE p == IF Places(n, radixOf(type)) > SZB_OUTPUT THEN SZB_OUTPUT ELSE Places(n, radixOf(type))
<1>1. PICK r \in 2 .. 16 : r = radixOf(type) BY RadixIs
<1>2. PICK m \in Nat \ {0} : m = Places(n, r) BY PlacesIs
<1>3. SZB_OUTPUT \in Nat \ {0} BY XprintfAssumption
<1>4. /\ p \in Nat \ {0} /\ p <= SZB_OUTPUT /\ p <= Places(n, radixOf(type))
      /\ p = SZB_OUTPUT \/ p = Places(n, radixOf(type))
  BY <1>1, <1>2, <1>3
<1>5. Numeral(n, type) = Digits(n, radixOf(type), p, type) BY DEF Numeral, Digits
<1> HIDE DEF p
<1>6. Digits(n, r, p, type) \in Lines BY <1>4, DigitsLine
<1> QED BY <1>1, <1>4, <1>5, <1>6

LEMMA ReverseIs ==
  ASSUME NEW s \in Lines
  PROVE  /\ Seqs!Reverse(s) \in Lines /\ Len(Seqs!Reverse(s)) = Len(s)
         /\ \A i \in 1 .. Len(s) : Seqs!Reverse(s)[i] = s[(Len(s) - i) + 1]
<1>1. Len(s) \in Nat /\ \A i \in 1 .. Len(s) : s[i] \in Chars BY DEF Lines
<1>2. \A i \in 1 .. Len(s) : (Len(s) - i) + 1 \in 1 .. Len(s) BY <1>1
<1>3. Seqs!Reverse(s) \in [1 .. Len(s) -> Chars] BY <1>1, <1>2 DEF Seqs!Reverse
<1>4. \A i \in 1 .. Len(s) : Seqs!Reverse(s)[i] = s[(Len(s) - i) + 1] BY DEF Seqs!Reverse
<1> QED BY <1>1, <1>3, <1>4, FunctionLine

(* The digits made, the lowest first, turned round are the numeral. *)
DigitsMade(s, n, r, type) ==
  \A i \in 1 .. Len(s) : s[i] = glyph((n \div Power(r, i - 1)) % r, type)

LEMMA NumeralMade ==
  ASSUME NEW n \in Nat, NEW type \in Numbers, NEW s \in Lines,
         DigitsMade(s, n, radixOf(type), type), Len(s) # 0, Len(s) <= SZB_OUTPUT,
         Len(s) = 1 \/ n \div Power(radixOf(type), Len(s) - 1) # 0,
         Len(s) = SZB_OUTPUT \/ n \div Power(radixOf(type), Len(s)) = 0
  PROVE  Seqs!Reverse(s) = Numeral(n, type)
<1>1. PICK r \in 2 .. 16 : r = radixOf(type) BY RadixIs
<1>2. r \in Nat /\ r >= 2 OBVIOUS
<1>3. PICK p \in Nat \ {0} : /\ p <= SZB_OUTPUT /\ p <= Places(n, r)
                             /\ p = SZB_OUTPUT \/ p = Places(n, r)
                             /\ Numeral(n, type) = Digits(n, r, p, type)
  BY <1>1, NumeralIs
<1>4. PICK m \in Nat \ {0} : m = Len(s) BY DEF Lines
<1>5. PICK z \in Nat \ {0} : z = Places(n, r) BY <1>2, PlacesIs
<1>6. m <= z
  <2>1. m = 1 \/ n >= Power(r, m - 1)
    <3>1. CASE m = 1 BY <3>1
    <3>2. CASE m # 1
      <4>1. m - 1 \in Nat OBVIOUS
      <4>2. PICK w \in Nat \ {0} : w = Power(r, m - 1) BY <1>2, <4>1, PowersGrow
      <4>3. n \div w # 0 BY <1>1, <1>4, <3>2, <4>2
      <4>4. ~(n < w) BY <4>3, QuotientZero
      <4> QED BY <4>2, <4>4
    <3> QED BY <3>1, <3>2
  <2> QED BY <1>2, <1>5, <2>1, PlacesUnique
<1>7. m = SZB_OUTPUT \/ z <= m
  <2>1. CASE m = SZB_OUTPUT BY <2>1
  <2>2. CASE m # SZB_OUTPUT
    <3>1. m \in Nat OBVIOUS
    <3>2. PICK w \in Nat \ {0} : w = Power(r, m) BY <1>2, <3>1, PowersGrow
    <3>3. n \div w = 0 BY <1>1, <1>4, <2>2, <3>2
    <3>4. n < w BY <3>3, QuotientZero
    <3>5. n < Power(r, m) BY <3>2, <3>4
    <3>6. Places(n, r) <= m BY <1>2, <3>5, PlacesUnique
    <3> QED BY <1>5, <3>6
  <2> QED BY <2>1, <2>2
<1>8. SZB_OUTPUT \in Nat /\ m <= SZB_OUTPUT BY <1>4, XprintfAssumption
<1>9. m = p BY <1>3, <1>5, <1>6, <1>7, <1>8
<1>10. Digits(n, r, p, type) \in Lines /\ Len(Digits(n, r, p, type)) = p BY DigitsLine
<1>11. PICK t \in Lines : t = Seqs!Reverse(s) BY ReverseIs
<1>12. Len(t) = p /\ \A i \in 1 .. p : t[i] = s[(p - i) + 1]
  <2>1. Len(s) = p BY <1>4, <1>9
  <2>2. Len(t) = Len(s) /\ \A i \in 1 .. Len(s) : t[i] = s[(Len(s) - i) + 1] BY <1>11, ReverseIs, Zenon
  <2> QED BY <2>1, <2>2
<1>13. ASSUME NEW i \in 1 .. p PROVE t[i] = Digits(n, r, p, type)[i]
  <2>1. (p - i) + 1 \in 1 .. Len(s) /\ ((p - i) + 1) - 1 = p - i BY <1>4, <1>9
  <2>2. s[(p - i) + 1] = glyph((n \div Power(r, ((p - i) + 1) - 1)) % r, type) BY <1>1, <2>1 DEF DigitsMade
  <2>3. Digits(n, r, p, type)[i] = glyph((n \div Power(r, p - i)) % r, type) BY DEF Digits
  <2> QED BY <1>12, <2>1, <2>2, <2>3
<1>14. t = Digits(n, r, p, type) BY <1>10, <1>12, <1>13, SameLine
<1> QED BY <1>3, <1>11, <1>14

(* A digit more. *)
LEMMA DigitAdded ==
  ASSUME NEW n \in Nat, NEW r \in 2 .. 16, NEW type, NEW s \in Lines, DigitsMade(s, n, r, type),
         NEW v0, v0 = n \div Power(r, Len(s))
  PROVE  LET t == Append(s, glyph(v0 % r, type))
         IN /\ t \in Lines /\ Len(t) = Len(s) + 1 /\ DigitsMade(t, n, r, type)
            /\ v0 \div r = n \div Power(r, Len(t)) /\ v0 = n \div Power(r, Len(t) - 1)
<1>1. PICK m \in Nat : m = Len(s) BY DEF Lines
<1>2. r \in Nat /\ r >= 2 /\ r \in Nat \ {0} OBVIOUS
<1>3. PICK w \in Nat \ {0} : w = Power(r, m) BY <1>2, PowersGrow
<1>4. PICK g \in Chars : g = glyph(v0 % r, type) BY <1>1, DigitIs
<1>5. PICK t : t = Append(s, g) OBVIOUS
<1>6. t \in Lines /\ Len(t) = m + 1 /\ (\A i \in 1 .. m : t[i] = s[i]) /\ t[m + 1] = g
  <2>1. s \in Seq(Chars) BY DEF Lines
  <2>2. /\ Append(s, g) \in Seq(Chars) /\ Len(Append(s, g)) = Len(s) + 1
        /\ \A i \in 1 .. Len(s) : Append(s, g)[i] = s[i]
        /\ Append(s, g)[Len(s) + 1] = g
    BY <2>1, AppendProperties
  <2> QED BY <1>1, <1>5, <2>2 DEF Lines
<1>7. DigitsMade(t, n, r, type)
  <2>1. ASSUME NEW i \in 1 .. Len(t) PROVE t[i] = glyph((n \div Power(r, i - 1)) % r, type)
    <3>1. CASE i \in 1 .. m
      <4>1. t[i] = s[i] BY <1>6, <3>1
      <4>2. s[i] = glyph((n \div Power(r, i - 1)) % r, type) BY <1>1, <3>1 DEF DigitsMade
      <4> QED BY <4>1, <4>2
    <3>2. CASE i = m + 1
      <4>1. i - 1 = m BY <3>2
      <4> QED BY <1>1, <1>4, <1>6, <3>2, <4>1
    <3> QED BY <1>6, <3>1, <3>2
  <2> QED BY <2>1 DEF DigitsMade
<1>8. v0 \div r = n \div Power(r, m + 1)
  <2>1. Power(r, m + 1) = r * w BY <1>2, <1>3, Powers
  <2>2. r * w = w * r OBVIOUS
  <2>3. n \in Int OBVIOUS
  <2>4. (n \div w) \div r = n \div (w * r) BY <1>2, <2>3, DivDiv
  <2> QED BY <1>1, <1>3, <2>1, <2>2, <2>4
<1>9. (m + 1) - 1 = m OBVIOUS
<1> QED BY <1>1, <1>4, <1>5, <1>6, <1>7, <1>8, <1>9

LEMMA ArgumentIs ==
  ASSUME NEW item \in Item
  PROVE  /\ Argument(item) \in Int
         /\ Argument(item) < 0 => item.type = "d" /\ -Argument(item) < LLONGS
<1>1. item.bits \in Nat BY ItemIs
<1>2. INTS \in Nat /\ LLONGS \in Nat /\ INTS <= LLONGS BY XprintfAssumption
<1>3. ASSUME NEW b \in Nat, NEW n \in Nat, n <= LLONGS
      PROVE  signedOf(b, n) \in Int /\ (signedOf(b, n) < 0 => -signedOf(b, n) < LLONGS)
  BY <1>2, <1>3 DEF signedOf
<1> QED BY <1>1, <1>2, <1>3 DEF Argument

(* The text of an item. *)
LEMMA TextIs ==
  ASSUME NEW item \in Item
  PROVE  /\ Text(item) \in Lines
         /\ item.type = "s" => Text(item) = Cut(item.text, item.prec)
         /\ item.type \notin Numbers \cup {"s"} => Text(item) = item.text
         /\ item.type \in Numbers /\ Argument(item) < 0 =>
              Text(item) = <<MINUS>> \o Numeral(-Argument(item), item.type)
         /\ item.type \in Numbers /\ ~(Argument(item) < 0) => Text(item) = Numeral(Argument(item), item.type)
<1>1. item.text \in Lines /\ item.prec \in Int BY ItemIs
<1>2. "s" \notin Numbers BY DEF Numbers
<1>3. CASE item.type = "s"
  <2>1. Text(item) = Cut(item.text, item.prec) /\ Cut(item.text, item.prec) \in Lines
    BY <1>1, <1>3, CutIs DEF Text
  <2> QED BY <1>2, <1>3, <2>1
<1>4. CASE item.type \notin Numbers \cup {"s"} BY <1>1, <1>4 DEF Text
<1>5. CASE item.type \in Numbers
  <2>1. PICK a \in Int : a = Argument(item) BY ArgumentIs
  <2>2. CASE a < 0
    <3>1. -a \in Nat BY <2>2
    <3>2. Numeral(-a, item.type) \in Lines BY <1>5, <3>1, NumeralIs
    <3>3. <<MINUS>> \in Lines
      <4>1. MINUS \in Chars BY DEF Chars
      <4> QED BY <4>1, ShortSeqs, Zenon DEF Lines
    <3>4. <<MINUS>> \o Numeral(-a, item.type) \in Lines BY <3>2, <3>3, Joining
    <3>5. Text(item) = <<MINUS>> \o Numeral(-a, item.type) BY <1>2, <1>5, <2>1, <2>2 DEF Text
    <3> QED BY <1>2, <1>5, <2>1, <2>2, <3>4, <3>5
  <2>3. CASE ~(a < 0)
    <3>1. a \in Nat BY <2>3
    <3>2. Numeral(a, item.type) \in Lines BY <1>5, <3>1, NumeralIs
    <3>3. Text(item) = Numeral(a, item.type) BY <1>2, <1>5, <2>1, <2>3 DEF Text
    <3> QED BY <1>2, <1>5, <2>1, <2>3, <3>2, <3>3
  <2> QED BY <2>2, <2>3
<1> QED BY <1>3, <1>4, <1>5

(* The sign, put behind the digits, comes to stand before them. *)
LEMMA SignTurned ==
  ASSUME NEW s \in Lines
  PROVE  /\ Append(s, MINUS) \in Lines
         /\ Seqs!Reverse(Append(s, MINUS)) = <<MINUS>> \o Seqs!Reverse(s)
<1>0. MINUS \in Chars BY DEF Chars
<1>1. PICK c \in Chars : c = MINUS BY <1>0
<1>2. PICK m \in Nat : m = Len(s) BY DEF Lines
<1>3. PICK t : t = Append(s, c) OBVIOUS
<1>4. t \in Lines /\ Len(t) = m + 1 /\ (\A i \in 1 .. m : t[i] = s[i]) /\ t[m + 1] = c
  <2>1. s \in Seq(Chars) BY DEF Lines
  <2>2. /\ Append(s, c) \in Seq(Chars) /\ Len(Append(s, c)) = Len(s) + 1
        /\ \A i \in 1 .. Len(s) : Append(s, c)[i] = s[i]
        /\ Append(s, c)[Len(s) + 1] = c
    BY <2>1, AppendProperties
  <2> QED BY <1>2, <1>3, <2>2 DEF Lines
<1>5. PICK a \in Lines : a = Seqs!Reverse(t) BY <1>4, ReverseIs
<1>6. Len(a) = m + 1 /\ \A i \in 1 .. m + 1 : a[i] = t[((m + 1) - i) + 1] BY <1>4, <1>5, ReverseIs
<1>7. PICK b \in Lines : b = Seqs!Reverse(s) BY ReverseIs
<1>8. Len(b) = m /\ \A i \in 1 .. m : b[i] = s[(m - i) + 1] BY <1>2, <1>7, ReverseIs
<1>9. PICK d \in Lines : d = <<c>> /\ Len(d) = 1 /\ d[1] = c
  <2>1. <<c>> \in Lines /\ Len(<<c>>) = 1 BY ShortSeqs, Zenon DEF Lines
  <2>2. <<c>>[1] = c OBVIOUS
  <2> QED BY <2>1, <2>2
<1>10. PICK e \in Lines : e = d \o b BY Joining
<1>11. Len(e) = 1 + m /\ e[1] = c /\ \A i \in 1 .. m : e[1 + i] = b[i]
  <2>1. /\ Len(d \o b) = Len(d) + Len(b) /\ \A i \in 1 .. Len(d) : (d \o b)[i] = d[i]
        /\ \A i \in 1 .. Len(b) : (d \o b)[Len(d) + i] = b[i]
    BY Joining
  <2> QED BY <1>8, <1>9, <1>10, <2>1
<1>12. ASSUME NEW i \in 1 .. m + 1 PROVE a[i] = e[i]
  <2>1. CASE i = 1
    <3>1. ((m + 1) - i) + 1 = m + 1 BY <2>1
    <3> QED BY <1>4, <1>6, <1>11, <2>1, <3>1
  <2>2. CASE i # 1
    <3>1. PICK h \in 1 .. m : i = 1 + h
      <4>1. i - 1 \in 1 .. m /\ i = 1 + (i - 1) BY <2>2
      <4> QED BY <4>1
    <3>2. ((m + 1) - i) + 1 = (m - h) + 1 /\ (m - h) + 1 \in 1 .. m BY <3>1
    <3>3. a[i] = s[(m - h) + 1] BY <1>4, <1>6, <3>2
    <3>4. e[i] = s[(m - h) + 1] BY <1>8, <1>11, <3>1
    <3> QED BY <3>3, <3>4
  <2> QED BY <2>1, <2>2
<1>13. a = e
  <2>1. Len(a) = Len(e) /\ \A i \in 1 .. Len(a) : a[i] = e[i] BY <1>6, <1>11, <1>12
  <2>2. a \in Lines /\ e \in Lines OBVIOUS
  <2> QED BY <2>1, <2>2, SameLine, Zenon
<1> QED BY <1>1, <1>3, <1>4, <1>5, <1>7, <1>9, <1>10, <1>13

(* What a format prints, item after item. *)
Beginning(E, f) ==
  /\ E \in [0 .. Len(f) -> Lines] /\ E[0] = <<>>
  /\ \A i \in 1 .. Len(f) : E[i] = E[i - 1] \o Crlf(Field(f[i]))
  /\ E[Len(f)] = Expected(f)
  /\ \A j \in 0 .. Len(f) : \E t \in Lines : Expected(f) = E[j] \o t

Beginnings(f) == CHOOSE E : Beginning(E, f)

LEMMA BeginningsAre ==
  ASSUME NEW f \in Seq(Item)
  PROVE  Beginning(Beginnings(f), f)
<1>1. ASSUME NEW i \in 1 .. Len(f) PROVE Field(f[i]) \in Lines
  <2>1. PICK item \in Item : item = f[i] OBVIOUS
  <2>2. Text(item) \in Lines BY TextIs
  <2> QED BY <2>1, <2>2, FieldIs
<1>2. PICK q \in Seq(Lines) : /\ Len(q) = Len(f) /\ \A i \in 1 .. Len(f) : q[i] = Crlf(Field(f[i]))
                              /\ Expected(f) = Seqs!FlattenSeq(q)
  BY <1>1, ExpectedIs
<1>3. PICK E : Sums(E, q) BY SumsExist
<1>4. Expected(f) = E[Len(q)] BY <1>2, <1>3, FlatIs
<1>5. \A j \in 0 .. Len(q) : \E t \in Lines : E[Len(q)] = E[j] \o t
  <2>1. Grows(E, q) BY <1>3, SumsGrow
  <2>2. \A j \in 0 .. Len(q) : Len(q) \in j .. Len(q) OBVIOUS
  <2> QED BY <2>1, <2>2 DEF Grows
<1>6. Beginning(E, f)
  <2>1. /\ E \in [0 .. Len(q) -> Lines] /\ E[0] = <<>>
        /\ \A i \in 1 .. Len(q) : E[i] = E[i - 1] \o q[i]
    BY <1>3 DEF Sums
  <2> QED BY <1>2, <1>4, <1>5, <2>1 DEF Beginning
<1> QED BY <1>6 DEF Beginnings

(* What a text is joined to is a prefix. *)
LEMMA PrefixIs ==
  ASSUME NEW s \in Lines, NEW t \in Lines
  PROVE  Seqs!IsPrefix(s, s \o t)
<1>1. Len(s) \in Nat /\ Len(s \o t) = Len(s) + Len(t) /\ Len(t) \in Nat BY Joining
<1>2. SubSeq(s, 1, Len(s)) = SubSeq(s \o t, 1, Len(s))
  <2>1. CASE Len(s) = 0
    <3>1. 1 \in Int /\ Len(s) \in Int /\ Len(s) < 1 BY <2>1
    <3>2. \A u : SubSeq(u, 1, Len(s)) = <<>> BY <3>1, SubSeqEmpty
    <3> QED BY <3>2
  <2>2. CASE Len(s) # 0
    <3>1. 1 \in 1 .. Len(s) /\ Len(s) \in 1 .. Len(s) BY <1>1, <2>2
    <3>2. s \in Seq(Chars) /\ t \in Seq(Chars) BY DEF Lines
    <3> QED BY <3>1, <3>2, SubSeqOfConcat1
  <2> QED BY <2>1, <2>2
<1> QED BY <1>1, <1>2 DEF Seqs!IsPrefix

(* What has been put: sent, being shifted and held. *)
Out == (line \o shifter) \o txdata
Position == Len(call) - Len(fmt)

LineTypes ==
  /\ call \in Seq(Item) /\ fmt \in Seq(Item)
  /\ line \in Lines /\ shifter \in Lines /\ txdata \in Lines /\ todo \in Lines /\ str \in Lines
  /\ xpc \in {"item", "digit", "put", "lf"} /\ neg \in BOOLEAN

(* The items left are the last of the format. *)
AtItem ==
  /\ Len(fmt) <= Len(call)
  /\ \A i \in 1 .. Len(fmt) : fmt[i] = call[Position + i]

(* What has been put and what is still to be put of the item under way are *)
(* what the format says up to the end of the item.                         *)
PutSoFar ==
  /\ xpc \in {"item", "digit"} => Out = Beginnings(call)[Position]
  /\ xpc = "put" => fmt # <<>> /\ Out \o Crlf(todo) = Beginnings(call)[Position + 1]
  /\ xpc = "lf" => /\ fmt # <<>> /\ todo # <<>> /\ Head(todo) = LF
                   /\ Out \o (<<LF>> \o Crlf(Tail(todo))) = Beginnings(call)[Position + 1]

(* In the digit loop the digits made are the lowest of the number, which   *)
(* is the argument without its sign, and v is what dividing leaves of it;  *)
(* more are made only while something is left.                             *)
InDigits ==
  xpc = "digit" =>
    /\ fmt # <<>> /\ Head(fmt).type \in Numbers /\ radix = radixOf(Head(fmt).type)
    /\ neg = (Argument(Head(fmt)) < 0)
    /\ value = IF Argument(Head(fmt)) < 0 THEN -Argument(Head(fmt)) ELSE Argument(Head(fmt))
    /\ Len(str) < SZB_OUTPUT /\ (Len(str) = 0 \/ v # 0)
    /\ DigitsMade(str, value, radix, Head(fmt).type) /\ v = value \div Power(radix, Len(str))

SignFits == neg => Len(str) < SZB_OUTPUT

LineInv == LineTypes /\ AtItem /\ PutSoFar /\ InDigits /\ SignFits

LEMMA OutRegrouped ==
  ASSUME LineTypes
  PROVE  Out = line \o (shifter \o txdata)
<1>1. PICK x, y, z \in Lines : x = line /\ y = shifter /\ z = txdata BY DEF LineTypes
<1>2. (x \o y) \o z = x \o (y \o z)
  <2>1. Associates(x, y, z) BY Regroups
  <2> QED BY <2>1 DEF Associates
<1> QED BY <1>1, <1>2 DEF Out

LEMMA LineStart == ConsoleInit => LineInv
<1> SUFFICES ASSUME ConsoleInit PROVE LineInv OBVIOUS
<1> USE DEF ConsoleInit
<1>1. <<>> \in Lines /\ Len(<<>>) = 0 BY Nothing
<1>2. call \in Seq(Item) /\ fmt = call BY XprintfAssumption
<1>3. LineTypes BY <1>1, <1>2 DEF LineTypes
<1>4. AtItem
  <2>1. Position = 0 /\ Len(call) \in Nat BY <1>2 DEF Position
  <2> QED BY <1>2, <2>1 DEF AtItem
<1>5. PutSoFar
  <2>1. Position = 0 BY <1>2 DEF Position
  <2>2. Beginnings(call)[0] = <<>> BY <1>2, BeginningsAre DEF Beginning
  <2>3. <<>> \o <<>> = <<>> BY <1>1, Nothing
  <2>4. Out = <<>> BY <2>3 DEF Out
  <2> QED BY <2>1, <2>2, <2>4 DEF PutSoFar
<1>6. InDigits BY DEF InDigits
<1>7. SignFits BY DEF SignFits
<1> QED BY <1>3, <1>4, <1>5, <1>6, <1>7 DEF LineInv

LEMMA LineFollows == LineInv => LineCorrect
<1> SUFFICES ASSUME LineInv PROVE LineCorrect OBVIOUS
<1> USE DEF LineInv
<1>1. call \in Seq(Item) /\ fmt \in Seq(Item) /\ line \in Lines /\ shifter \in Lines /\ txdata \in Lines /\ todo \in Lines
  BY DEF LineTypes
<1>2. PICK E : E = Beginnings(call) OBVIOUS
<1>3. Beginning(E, call) BY <1>1, <1>2, BeginningsAre
<1>4. Len(call) \in Nat /\ Len(fmt) \in Nat /\ Len(fmt) <= Len(call) BY <1>1 DEF AtItem
<1>5. PICK p : p = Position OBVIOUS
<1>6. p \in 0 .. Len(call) /\ (fmt # <<>> => p + 1 \in 0 .. Len(call))
  <2>1. fmt # <<>> => Len(fmt) # 0 BY <1>1, EmptySeq
  <2> QED BY <1>4, <1>5, <2>1 DEF Position
<1>7. PICK o \in Lines : o = Out
  <2>1. line \o shifter \in Lines BY <1>1, Joining
  <2>2. (line \o shifter) \o txdata \in Lines BY <1>1, <2>1, Joining
  <2> QED BY <2>2 DEF Out
<1>8. \E u \in Lines : Expected(call) = o \o u
  <2>1. xpc \in {"item", "digit"} \/ xpc = "put" \/ xpc = "lf" BY DEF LineTypes
  <2>2. CASE xpc \in {"item", "digit"}
    <3>1. o = E[p] BY <1>2, <1>5, <1>7, <2>2 DEF PutSoFar
    <3> QED BY <1>3, <1>6, <3>1 DEF Beginning
  <2>3. ASSUME NEW x \in Lines, fmt # <<>>, o \o x = E[p + 1] PROVE \E u \in Lines : Expected(call) = o \o u
    <3>1. PICK t \in Lines : Expected(call) = E[p + 1] \o t BY <1>3, <1>6, <2>3 DEF Beginning
    <3>2. (o \o x) \o t = o \o (x \o t)
      <4>1. Associates(o, x, t) BY Regroups
      <4> QED BY <4>1 DEF Associates
    <3>3. x \o t \in Lines BY Joining
    <3>4. Expected(call) = o \o (x \o t) BY <2>3, <3>1, <3>2
    <3> QED BY <3>3, <3>4
  <2>4. CASE xpc = "put"
    <3>1. Crlf(todo) \in Lines BY <1>1, CrlfIs
    <3>2. fmt # <<>> /\ o \o Crlf(todo) = E[p + 1] BY <1>2, <1>5, <1>7, <2>4 DEF PutSoFar
    <3> QED BY <2>3, <3>1, <3>2
  <2>5. CASE xpc = "lf"
    <3>1. /\ fmt # <<>> /\ todo # <<>> /\ o \o (<<LF>> \o Crlf(Tail(todo))) = E[p + 1]
      BY <1>2, <1>5, <1>7, <2>5 DEF PutSoFar
    <3>2. Tail(todo) \in Lines BY <1>1, <3>1, CrlfIs
    <3>3. Crlf(Tail(todo)) \in Lines BY <3>2, CrlfIs
    <3>4. <<LF>> \in Lines
      <4>1. LF \in Chars BY DEF Chars
      <4> QED BY <4>1, Characters
    <3>5. <<LF>> \o Crlf(Tail(todo)) \in Lines BY <3>3, <3>4, Joining
    <3> QED BY <2>3, <3>1, <3>5
  <2> QED BY <2>1, <2>2, <2>4, <2>5
<1>9. Seqs!IsPrefix(line, Expected(call))
  <2>1. PICK u \in Lines : Expected(call) = o \o u BY <1>8
  <2>2. PICK a, b \in Lines : a = line \o shifter /\ b = shifter \o txdata BY <1>1, Joining
  <2>3. o = line \o b
    <3>1. Out = line \o (shifter \o txdata) BY OutRegrouped
    <3> QED BY <1>7, <2>2, <3>1
  <2>4. (line \o b) \o u = line \o (b \o u)
    <3>1. PICK x \in Lines : x = line BY <1>1
    <3>2. (x \o b) \o u = x \o (b \o u)
      <4>1. Associates(x, b, u) BY Regroups
      <4> QED BY <4>1 DEF Associates
    <3> QED BY <3>1, <3>2
  <2>5. b \o u \in Lines BY Joining
  <2>6. Expected(call) = line \o (b \o u) BY <2>1, <2>3, <2>4
  <2>7. Seqs!IsPrefix(line, line \o (b \o u)) BY <1>1, <2>5, PrefixIs
  <2> QED BY <2>6, <2>7
<1>10. fmt = <<>> /\ TMT => line = Expected(call)
  <2> SUFFICES ASSUME fmt = <<>>, TMT PROVE line = Expected(call) OBVIOUS
  <2>1. xpc \in {"item", "digit"} BY DEF LineTypes, PutSoFar
  <2>2. o = E[p] BY <1>2, <1>5, <1>7, <2>1 DEF PutSoFar
  <2>3. p = Len(call)
    <3>1. Len(fmt) = 0 BY Nothing
    <3> QED BY <1>4, <1>5, <3>1 DEF Position
  <2>4. line \o <<>> = line BY <1>1, Nothing
  <2>5. o = line BY <1>7, <2>4 DEF Out, TMT
  <2> QED BY <1>3, <2>2, <2>3, <2>5 DEF Beginning
<1>11. neg => Len(str) < SZB_OUTPUT BY DEF SignFits
<1> QED BY <1>9, <1>10, <1>11 DEF LineCorrect

LEMMA PositionIs ==
  ASSUME LineTypes, AtItem
  PROVE  /\ Position \in 0 .. Len(call)
         /\ fmt # <<>> => /\ Position + 1 \in 1 .. Len(call) /\ (Position + 1) - 1 = Position
                          /\ Head(fmt) = call[Position + 1] /\ Head(fmt) \in Item
                          /\ Field(Head(fmt)) \in Lines
                          /\ Beginnings(call)[Position] \in Lines
                          /\ Beginnings(call)[Position + 1] = Beginnings(call)[Position] \o Crlf(Field(Head(fmt)))
<1>1. call \in Seq(Item) /\ fmt \in Seq(Item) BY DEF LineTypes
<1>2. Len(call) \in Nat /\ Len(fmt) \in Nat /\ Len(fmt) <= Len(call) BY <1>1 DEF AtItem
<1>3. Position \in 0 .. Len(call) BY <1>2 DEF Position
<1>4. ASSUME fmt # <<>>
      PROVE  /\ Position + 1 \in 1 .. Len(call) /\ (Position + 1) - 1 = Position
             /\ Head(fmt) = call[Position + 1] /\ Head(fmt) \in Item
             /\ Field(Head(fmt)) \in Lines
             /\ Beginnings(call)[Position] \in Lines
             /\ Beginnings(call)[Position + 1] = Beginnings(call)[Position] \o Crlf(Field(Head(fmt)))
  <2>1. Len(fmt) # 0 BY <1>1, <1>4, EmptySeq
  <2>2. Position + 1 \in 1 .. Len(call) /\ (Position + 1) - 1 = Position BY <1>2, <2>1 DEF Position
  <2>3. Head(fmt) = fmt[1] /\ Head(fmt) \in Item BY <1>1, <1>4
  <2>4. fmt[1] = call[Position + 1] BY <1>2, <2>1 DEF AtItem
  <2>5. Field(Head(fmt)) \in Lines BY <2>3, TextIs, FieldIs
  <2>6. PICK p, E : p = Position /\ E = Beginnings(call) OBVIOUS
  <2>7. Beginning(E, call) BY <1>1, <2>6, BeginningsAre
  <2>8. E[p] \in Lines BY <1>3, <2>6, <2>7 DEF Beginning
  <2>9. E[p + 1] = E[p] \o Crlf(Field(call[p + 1])) BY <2>2, <2>6, <2>7 DEF Beginning
  <2> QED BY <2>2, <2>3, <2>4, <2>5, <2>6, <2>8, <2>9
<1> QED BY <1>3, <1>4

LEMMA OutIs ==
  ASSUME LineTypes
  PROVE  Out \in Lines
<1>1. line \in Lines /\ shifter \in Lines /\ txdata \in Lines BY DEF LineTypes
<1>2. line \o shifter \in Lines BY <1>1, Joining
<1>3. (line \o shifter) \o txdata \in Lines BY <1>1, <1>2, Joining
<1> QED BY <1>3 DEF Out

(* A character written while nothing is held or shifted comes last. *)
LEMMA OutGrows ==
  ASSUME LineTypes, TMT, NEW c \in Lines, txdata' = c, UNCHANGED <<line, shifter>>
  PROVE  Out' = Out \o c
<1>1. line \in Lines /\ shifter = <<>> /\ txdata = <<>> BY DEF LineTypes, TMT
<1>2. line \o <<>> = line BY <1>1, Nothing
<1> QED BY <1>1, <1>2 DEF Out

(* A step that begins to put the text of an item. *)
LEMMA ItemPut ==
  ASSUME LineInv, xpc \in {"item", "digit"}, fmt # <<>>,
         xpc' = "put", todo' = Field(Head(fmt)), str' \in Lines, UNCHANGED neg,
         neg => Len(str') < SZB_OUTPUT,
         UNCHANGED <<fmt, call, line, shifter, txdata>>
  PROVE  LineInv'
<1> USE DEF LineInv
<1>1. LineTypes'
  <2>1. todo' \in Lines BY PositionIs
  <2> QED BY <2>1 DEF LineTypes
<1>2. AtItem' /\ Position' = Position BY DEF AtItem, Position
<1>3. Out' = Out BY DEF Out
<1>4. PutSoFar'
  <2>1. Out = Beginnings(call)[Position] BY DEF PutSoFar
  <2>2. Beginnings(call)[Position + 1] = Beginnings(call)[Position] \o Crlf(Field(Head(fmt))) BY PositionIs
  <2>3. fmt' # <<>> /\ Out' \o Crlf(todo') = Beginnings(call')[Position' + 1] BY <1>2, <1>3, <2>1, <2>2
  <2>4. xpc' = "put" OBVIOUS
  <2> QED BY <2>3, <2>4 DEF PutSoFar
<1>5. InDigits' BY DEF InDigits
<1>6. SignFits' BY DEF SignFits
<1> QED BY <1>1, <1>2, <1>4, <1>5, <1>6

LEMMA PutPlainKeeps == ASSUME LineInv, PutPlain PROVE LineInv'
<1> USE DEF LineInv
<1>1. /\ xpc = "item" /\ fmt # <<>> /\ Head(fmt).type \notin Numbers /\ xpc' = "put"
      /\ todo' = IF Head(fmt).type = "s"
                 THEN Padded(Head(fmt), Len(Head(fmt).text), Cut(Head(fmt).text, Head(fmt).prec))
                 ELSE Head(fmt).text
      /\ UNCHANGED <<fmt, call, line, shifter, txdata, str, neg>>
  BY DEF PutPlain, uartUnchanged, numeral
<1>2. Head(fmt) \in Item BY <1>1, PositionIs
<1>3. PICK item \in Item : item = Head(fmt) BY <1>2
<1>4. Text(item) \in Lines BY TextIs
<1>5. todo' = Field(item)
  <2>1. CASE item.type = "s" BY <1>1, <1>3, <1>4, <2>1, TextIs, FieldIs
  <2>2. CASE item.type # "s"
    <3>1. item.type \notin Numbers \cup {"s"} BY <1>1, <1>3, <2>2
    <3> QED BY <1>1, <1>3, <1>4, <2>2, <3>1, TextIs, FieldIs
  <2> QED BY <2>1, <2>2
<1>6. str' \in Lines /\ (neg => Len(str') < SZB_OUTPUT) BY <1>1 DEF LineTypes, SignFits
<1> QED BY <1>1, <1>3, <1>5, <1>6, ItemPut

LEMMA BeginNumberKeeps == ASSUME LineInv, BeginNumber PROVE LineInv'
<1> USE DEF LineInv
<1>1. /\ xpc = "item" /\ fmt # <<>> /\ Head(fmt).type \in Numbers /\ xpc' = "digit"
      /\ neg' = (Argument(Head(fmt)) < 0)
      /\ v' = IF neg' THEN -Argument(Head(fmt)) ELSE Argument(Head(fmt))
      /\ radix' = radixOf(Head(fmt).type) /\ str' = <<>> /\ value' = v'
      /\ UNCHANGED <<fmt, call, line, shifter, txdata, todo>>
  BY DEF BeginNumber, uartUnchanged
<1>2. Head(fmt) \in Item BY <1>1, PositionIs
<1>3. PICK a \in Int : a = Argument(Head(fmt)) BY <1>2, ArgumentIs
<1>4. v' = IF a < 0 THEN -a ELSE a BY <1>1, <1>3
<1>5. <<>> \in Lines /\ Len(<<>>) = 0 BY Nothing
<1>6. LineTypes'
  <2>1. neg' \in BOOLEAN BY <1>1
  <2> QED BY <1>1, <1>5, <2>1 DEF LineTypes
<1>7. AtItem' /\ Position' = Position BY <1>1 DEF AtItem, Position
<1>8. PutSoFar'
  <2>1. Out = Beginnings(call)[Position] BY <1>1 DEF PutSoFar
  <2>2. Out' = Out BY <1>1 DEF Out
  <2>3. Out' = Beginnings(call')[Position'] BY <1>1, <1>7, <2>1, <2>2
  <2> QED BY <1>1, <2>3 DEF PutSoFar
<1>9. InDigits'
  <2>1. Len(str') = 0 /\ Len(str') < SZB_OUTPUT BY <1>1, <1>5, XprintfAssumption
  <2>2. PICK r \in 2 .. 16 : r = radix' BY <1>1, RadixIs
  <2>3. Power(r, 0) = 1
    <3>1. r \in Nat OBVIOUS
    <3> QED BY <3>1, Powers
  <2>4. v' \in Nat BY <1>3, <1>4
  <2>5. v' = value' \div Power(radix', Len(str'))
    <3>2. PICK x \in Nat : x = v' BY <2>4
    <3>3. x \div 1 = x OBVIOUS
    <3>1. v' \div 1 = v' BY <3>2, <3>3
    <3> QED BY <1>1, <2>1, <2>2, <2>3, <3>1
  <2>6. DigitsMade(str', value', radix', Head(fmt).type) BY <2>1 DEF DigitsMade
  <2> QED BY <1>1, <1>3, <1>4, <2>1, <2>5, <2>6 DEF InDigits
<1>10. SignFits' BY <1>1, <1>5, XprintfAssumption DEF SignFits
<1> QED BY <1>6, <1>7, <1>8, <1>9, <1>10

(* The digits of a negative number leave room for its sign. *)
LEMMA SignHasRoom ==
  ASSUME NEW n \in Nat \ {0}, n < LLONGS, NEW m \in Nat \ {0},
         m = 1 \/ n \div Power(10, m - 1) # 0
  PROVE  m < SZB_OUTPUT
<1>1. /\ SZB_OUTPUT - 1 \in Nat /\ m - 1 \in Nat /\ SZB_OUTPUT \in Nat /\ LLONGS \in Nat
      /\ LLONGS <= Power(10, SZB_OUTPUT - 1)
  BY XprintfAssumption
<1>2. PICK w \in Nat \ {0} : w = Power(10, m - 1) BY <1>1, PowersGrow
<1>3. PICK z \in Nat \ {0} : z = Power(10, SZB_OUTPUT - 1) BY <1>1, PowersGrow
<1>4. w <= n
  <2>1. CASE m = 1
    <3>1. w = 1 BY <1>2, <2>1, Powers
    <3> QED BY <3>1
  <2>2. CASE m # 1 BY <1>2, <2>2, QuotientZero
  <2> QED BY <2>1, <2>2
<1>5. w < z BY <1>1, <1>3, <1>4
<1>6. ASSUME SZB_OUTPUT <= m PROVE FALSE
  <2>1. SZB_OUTPUT - 1 <= m - 1 BY <1>1, <1>6
  <2>2. z <= w BY <1>1, <1>2, <1>3, <2>1, PowersGrow
  <2> QED BY <1>5, <2>2
<1> QED BY <1>1, <1>6

LEMMA MakeDigitKeeps == ASSUME LineInv, MakeDigit PROVE LineInv'
<1> USE DEF LineInv
<1>1. /\ xpc = "digit" /\ str' = Append(str, glyph(v % radix, Head(fmt).type)) /\ v' = v \div radix
      /\ UNCHANGED <<fmt, call, line, shifter, txdata, radix, neg, value>>
  BY DEF MakeDigit, Rest, uartUnchanged
<1>2. /\ fmt # <<>> /\ Head(fmt).type \in Numbers /\ radix = radixOf(Head(fmt).type)
      /\ neg = (Argument(Head(fmt)) < 0)
      /\ value = IF Argument(Head(fmt)) < 0 THEN -Argument(Head(fmt)) ELSE Argument(Head(fmt))
      /\ Len(str) < SZB_OUTPUT /\ (Len(str) = 0 \/ v # 0)
      /\ DigitsMade(str, value, radix, Head(fmt).type) /\ v = value \div Power(radix, Len(str))
  BY <1>1 DEF InDigits
<1>3. PICK item \in Item : item = Head(fmt) BY <1>2, PositionIs
<1>4. PICK a \in Int : a = Argument(item) BY ArgumentIs
<1>5. PICK n \in Nat : n = value BY <1>2, <1>3, <1>4
<1>6. PICK r \in 2 .. 16 : r = radix BY <1>2, RadixIs
<1>7. PICK s \in Lines : s = str BY DEF LineTypes
<1>8. PICK x : x = v OBVIOUS
<1>9. PICK type \in Numbers : type = item.type BY <1>2, <1>3
<1>10. DigitsMade(s, n, r, type) /\ x = n \div Power(r, Len(s))
  BY <1>2, <1>3, <1>5, <1>6, <1>7, <1>8, <1>9
<1>11. PICK t : t = Append(s, glyph(x % r, type)) OBVIOUS
<1>12. /\ t \in Lines /\ Len(t) = Len(s) + 1 /\ DigitsMade(t, n, r, type)
       /\ x \div r = n \div Power(r, Len(t)) /\ x = n \div Power(r, Len(t) - 1)
  BY <1>10, <1>11, DigitAdded
<1>13. str' = t BY <1>1, <1>3, <1>6, <1>7, <1>8, <1>9, <1>11
<1>14. v' = n \div Power(r, Len(t)) BY <1>1, <1>6, <1>8, <1>12
<1>15. PICK m \in Nat \ {0} : m = Len(t)
  <2>1. Len(s) \in Nat BY Nothing
  <2> QED BY <1>12, <2>1
<1>16. m = Len(s) + 1 /\ Len(s) \in Nat /\ m <= SZB_OUTPUT /\ SZB_OUTPUT \in Nat
  <2>1. Len(s) \in Nat /\ Len(s) < SZB_OUTPUT /\ SZB_OUTPUT \in Nat BY <1>2, <1>7, Nothing, XprintfAssumption
  <2> QED BY <1>12, <1>15, <2>1
<1>17. m = 1 \/ n \div Power(r, m - 1) # 0
  <2>1. Len(s) = 0 \/ x # 0 BY <1>2, <1>7, <1>8
  <2> QED BY <1>12, <1>15, <1>16, <2>1
<1>18. neg => m < SZB_OUTPUT
  <2> SUFFICES ASSUME neg PROVE m < SZB_OUTPUT OBVIOUS
  <2>1. a < 0 BY <1>2, <1>3, <1>4
  <2>2. n = -a BY <1>2, <1>3, <1>4, <1>5, <2>1
  <2>3. item.type = "d" /\ -a < LLONGS BY <1>4, <2>1, ArgumentIs
  <2>4. r = 10
    <3>1. radixOf("d") = 10 BY DEF radixOf
    <3> QED BY <1>2, <1>3, <1>6, <2>3, <3>1
  <2>5. n \in Nat \ {0} /\ n < LLONGS BY <2>1, <2>2, <2>3
  <2>6. m = 1 \/ n \div Power(10, m - 1) # 0 BY <1>17, <2>4
  <2> QED BY <2>5, <2>6, SignHasRoom
<1>19. CASE MoreDigits
  <2>1. v' # 0 /\ Len(t) < SZB_OUTPUT BY <1>13, <1>19 DEF MoreDigits
  <2>2. xpc' = xpc /\ todo' = todo BY <1>19 DEF MakeDigit
  <2>3. LineTypes' BY <1>1, <1>12, <1>13, <2>2 DEF LineTypes
  <2>4. AtItem' /\ Position' = Position BY <1>1 DEF AtItem, Position
  <2>5. PutSoFar'
    <3>1. Out = Beginnings(call)[Position] BY <1>1 DEF PutSoFar
    <3>2. Out' = Out BY <1>1 DEF Out
    <3>3. Out' = Beginnings(call')[Position'] BY <1>1, <2>4, <3>1, <3>2
    <3> QED BY <1>1, <2>2, <3>3 DEF PutSoFar
  <2>6. InDigits'
    <3>1. /\ fmt' # <<>> /\ Head(fmt').type \in Numbers /\ radix' = radixOf(Head(fmt').type)
          /\ neg' = (Argument(Head(fmt')) < 0)
          /\ value' = IF Argument(Head(fmt')) < 0 THEN -Argument(Head(fmt')) ELSE Argument(Head(fmt'))
      BY <1>1, <1>2
    <3>2. Len(str') < SZB_OUTPUT /\ v' # 0 BY <1>13, <2>1
    <3>3. DigitsMade(str', value', radix', Head(fmt').type)
      BY <1>1, <1>3, <1>5, <1>6, <1>9, <1>12, <1>13
    <3>4. v' = value' \div Power(radix', Len(str')) BY <1>1, <1>5, <1>6, <1>13, <1>14
    <3> QED BY <3>1, <3>2, <3>3, <3>4 DEF InDigits
  <2>7. SignFits' BY <1>1, <1>13, <1>15, <1>18 DEF SignFits
  <2> QED BY <2>3, <2>4, <2>5, <2>6, <2>7
<1>20. CASE ~MoreDigits
  <2>1. n \div Power(r, m) = 0 \/ m = SZB_OUTPUT
    <3>1. ~(v' # 0 /\ m < SZB_OUTPUT) BY <1>13, <1>15, <1>20 DEF MoreDigits
    <3> QED BY <1>14, <1>15, <1>16, <3>1
  <2>2. Seqs!Reverse(t) = Numeral(n, type)
    <3>1. r = radixOf(type) BY <1>2, <1>3, <1>6, <1>9
    <3>2. /\ DigitsMade(t, n, radixOf(type), type) /\ Len(t) # 0 /\ Len(t) <= SZB_OUTPUT
          /\ Len(t) = 1 \/ n \div Power(radixOf(type), Len(t) - 1) # 0
          /\ Len(t) = SZB_OUTPUT \/ n \div Power(radixOf(type), Len(t)) = 0
      BY <1>12, <1>15, <1>16, <1>17, <2>1, <3>1
    <3> QED BY <1>12, <3>2, NumeralMade
  <2>3. PICK signed : signed = IF neg THEN Append(t, MINUS) ELSE t OBVIOUS
  <2>4. xpc' = "put" /\ todo' = Padded(item, Len(signed), Seqs!Reverse(signed))
    BY <1>3, <1>13, <1>20, <2>3 DEF MakeDigit
  <2>5. signed \in Lines /\ Seqs!Reverse(signed) = Text(item)
    <3>1. CASE neg
      <4>1. a < 0 BY <1>2, <1>3, <1>4, <3>1
      <4>2. n = -a BY <1>2, <1>3, <1>4, <1>5, <4>1
      <4>3. Text(item) = <<MINUS>> \o Numeral(n, type) BY <1>4, <1>9, <4>1, <4>2, TextIs
      <4>4. Append(t, MINUS) \in Lines /\ Seqs!Reverse(Append(t, MINUS)) = <<MINUS>> \o Seqs!Reverse(t)
        BY <1>12, SignTurned
      <4> QED BY <2>2, <2>3, <3>1, <4>3, <4>4
    <3>2. CASE ~neg
      <4>1. ~(a < 0) BY <1>2, <1>3, <1>4, <3>2
      <4>2. n = a BY <1>2, <1>3, <1>4, <1>5, <4>1
      <4>3. Text(item) = Numeral(n, type) BY <1>4, <1>9, <4>1, <4>2, TextIs
      <4> QED BY <1>12, <2>2, <2>3, <3>2, <4>3
    <3> QED BY <3>1, <3>2
  <2>6. Len(signed) = Len(Text(item)) BY <2>5, ReverseIs
  <2>7. todo' = Field(item) BY <1>9, <2>4, <2>5, <2>6, TextIs, FieldIs
  <2>8. str' \in Lines /\ (neg => Len(str') < SZB_OUTPUT) BY <1>12, <1>13, <1>15, <1>18
  <2>9. /\ xpc \in {"item", "digit"} /\ fmt # <<>> /\ todo' = Field(Head(fmt))
        /\ UNCHANGED <<fmt, call, line, shifter, txdata>> /\ UNCHANGED neg
    BY <1>1, <1>2, <1>3, <2>7
  <2> QED BY <2>4, <2>8, <2>9, ItemPut
<1> QED BY <1>19, <1>20

(* Of two characters the first has been put. *)
FirstPut(o, x, y, w) == o \o ((x \o y) \o w) = (o \o x) \o (y \o w)

LEMMA FirstOfTwo == \A o, x, y, w \in Lines : FirstPut(o, x, y, w)
<1>1. ASSUME NEW o \in Lines, NEW x \in Lines, NEW y \in Lines, NEW w \in Lines
      PROVE  FirstPut(o, x, y, w)
  <2>1. (x \o y) \o w = x \o (y \o w)
    <3>1. Associates(x, y, w) BY Regroups
    <3> QED BY <3>1 DEF Associates
  <2>2. PICK z \in Lines : z = y \o w BY Joining
  <2>3. (o \o x) \o z = o \o (x \o z)
    <3>1. Associates(o, x, z) BY Regroups
    <3> QED BY <3>1 DEF Associates
  <2> QED BY <2>1, <2>2, <2>3 DEF FirstPut
<1> QED BY <1>1

(* A step that puts a character. *)
LEMMA PutCharKeeps == ASSUME LineInv, PutChar PROVE LineInv'
<1> USE DEF LineInv
<1>1. xpc = "put" /\ todo # <<>> /\ TMT /\ UNCHANGED <<fmt, call, line, shifter, str, neg>>
  BY DEF PutChar, StatusReady, numeral
<1>2. todo \in Lines BY DEF LineTypes
<1>3. PICK c \in Chars, t \in Lines : c = Head(todo) /\ t = Tail(todo) BY <1>1, <1>2, CrlfIs
<1>4. PICK w \in Lines : w = Crlf(t) BY CrlfIs
<1>5. Crlf(todo) = OnTheWire(c) \o w BY <1>1, <1>2, <1>3, <1>4, CrlfIs
<1>6. PICK o \in Lines : o = Out BY OutIs
<1>7. fmt # <<>> /\ o \o (OnTheWire(c) \o w) = Beginnings(call)[Position + 1]
  BY <1>1, <1>5, <1>6 DEF PutSoFar
<1>8. AtItem' /\ Position' = Position BY <1>1 DEF AtItem, Position
<1>9. SignFits' BY <1>1 DEF SignFits
<1>10. CR \in Chars /\ LF \in Chars BY DEF Chars
<1>11. CASE c = LF
  <2>1. txdata' = <<CR>> /\ xpc' = "lf" /\ todo' = todo BY <1>3, <1>11 DEF PutChar
  <2>2. PICK x, y \in Lines : x = <<CR>> /\ y = <<LF>> BY <1>10, Characters
  <2>3. OnTheWire(c) = x \o y
    <3>1. <<CR>> \o <<LF>> = <<CR, LF>> BY <1>10, ShortSeqs
    <3> QED BY <1>11, <2>2, <3>1 DEF OnTheWire
  <2>4. o \o ((x \o y) \o w) = (o \o x) \o (y \o w)
    <3>1. FirstPut(o, x, y, w) BY FirstOfTwo
    <3> QED BY <3>1 DEF FirstPut
  <2>7. (o \o x) \o (y \o w) = Beginnings(call)[Position + 1] BY <1>7, <2>3, <2>4
  <2>8. Out' = o \o x
    <3>1. txdata' = x BY <2>1, <2>2
    <3> QED BY <1>1, <1>6, <3>1, OutGrows
  <2>9. Out' \o (<<LF>> \o Crlf(Tail(todo'))) = Beginnings(call')[Position' + 1]
    BY <1>1, <1>3, <1>4, <1>8, <2>1, <2>2, <2>7, <2>8
  <2>10. PutSoFar' BY <1>1, <1>3, <1>7, <1>11, <2>1, <2>9 DEF PutSoFar
  <2>11. LineTypes' BY <1>1, <2>1, <2>2 DEF LineTypes
  <2>12. InDigits' BY <2>1 DEF InDigits
  <2> QED BY <1>8, <1>9, <2>10, <2>11, <2>12
<1>12. CASE c # LF
  <2>1. txdata' = <<c>> /\ todo' = t /\ xpc' = "put" BY <1>1, <1>3, <1>12 DEF PutChar
  <2>2. PICK x \in Lines : x = <<c>> BY Characters
  <2>3. OnTheWire(c) = x BY <1>12, <2>2 DEF OnTheWire
  <2>4. (o \o x) \o w = o \o (x \o w)
    <3>1. Associates(o, x, w) BY Regroups
    <3> QED BY <3>1 DEF Associates
  <2>5. Out' = o \o x
    <3>1. txdata' = x BY <2>1, <2>2
    <3> QED BY <1>1, <1>6, <3>1, OutGrows
  <2>6. Out' \o Crlf(todo') = Beginnings(call')[Position' + 1]
    BY <1>1, <1>4, <1>7, <1>8, <2>1, <2>3, <2>4, <2>5
  <2>7. PutSoFar' BY <1>1, <1>7, <2>1, <2>6 DEF PutSoFar
  <2>8. LineTypes' BY <1>1, <2>1, <2>2 DEF LineTypes
  <2>9. InDigits' BY <2>1 DEF InDigits
  <2> QED BY <1>8, <1>9, <2>7, <2>8, <2>9
<1> QED BY <1>11, <1>12

LEMMA PutLfKeeps == ASSUME LineInv, PutLf PROVE LineInv'
<1> USE DEF LineInv
<1>1. /\ xpc = "lf" /\ TMT /\ txdata' = <<LF>> /\ todo' = Tail(todo) /\ xpc' = "put"
      /\ UNCHANGED <<fmt, call, line, shifter, str, neg>>
  BY DEF PutLf, StatusReady, numeral
<1>2. /\ fmt # <<>> /\ todo # <<>>
      /\ Out \o (<<LF>> \o Crlf(Tail(todo))) = Beginnings(call)[Position + 1]
  BY <1>1 DEF PutSoFar
<1>3. PICK t \in Lines : t = Tail(todo)
  <2>1. todo \in Lines BY DEF LineTypes
  <2> QED BY <1>2, <2>1, CrlfIs
<1>4. PICK w \in Lines : w = Crlf(t) BY CrlfIs
<1>5. PICK o \in Lines : o = Out BY OutIs
<1>6. PICK x \in Lines : x = <<LF>>
  <2>1. LF \in Chars BY DEF Chars
  <2> QED BY <2>1, Characters
<1>7. (o \o x) \o w = o \o (x \o w)
  <2>1. Associates(o, x, w) BY Regroups
  <2> QED BY <2>1 DEF Associates
<1>8. Out' = o \o x
  <2>1. txdata' = x BY <1>1, <1>6
  <2> QED BY <1>1, <1>5, <2>1, OutGrows
<1>9. AtItem' /\ Position' = Position BY <1>1 DEF AtItem, Position
<1>10. Out' \o Crlf(todo') = Beginnings(call')[Position' + 1]
  BY <1>1, <1>2, <1>3, <1>4, <1>5, <1>6, <1>7, <1>8, <1>9
<1>11. PutSoFar' BY <1>1, <1>2, <1>10 DEF PutSoFar
<1>12. LineTypes' BY <1>1, <1>3, <1>6 DEF LineTypes
<1>13. InDigits' BY <1>1 DEF InDigits
<1>14. SignFits' BY <1>1 DEF SignFits
<1> QED BY <1>9, <1>11, <1>12, <1>13, <1>14

LEMMA NextItemKeeps == ASSUME LineInv, NextItem PROVE LineInv'
<1> USE DEF LineInv
<1>1. /\ xpc = "put" /\ todo = <<>> /\ fmt' = Tail(fmt) /\ xpc' = "item"
      /\ UNCHANGED <<call, line, shifter, txdata, str, neg, todo>>
  BY DEF NextItem, numeral, uartUnchanged
<1>2. fmt # <<>> /\ Out \o Crlf(todo) = Beginnings(call)[Position + 1] BY <1>1 DEF PutSoFar
<1>3. call \in Seq(Item) /\ fmt \in Seq(Item) BY DEF LineTypes
<1>4. /\ Tail(fmt) \in Seq(Item) /\ Len(Tail(fmt)) = Len(fmt) - 1
      /\ \A i \in 1 .. Len(Tail(fmt)) : Tail(fmt)[i] = fmt[i + 1]
  BY <1>2, <1>3, HeadTailProperties
<1>5. Len(fmt) \in Nat /\ Len(call) \in Nat /\ Len(fmt) <= Len(call) BY <1>3 DEF AtItem
<1>6. Position' = Position + 1 BY <1>1, <1>4, <1>5 DEF Position
<1>7. AtItem'
  <2>1. Len(fmt') <= Len(call') BY <1>1, <1>4, <1>5
  <2>2. ASSUME NEW i \in 1 .. Len(fmt') PROVE fmt'[i] = call'[Position' + i]
    <3>1. i + 1 \in 1 .. Len(fmt) /\ i \in 1 .. Len(Tail(fmt)) BY <1>1, <1>4, <1>5
    <3>2. fmt'[i] = fmt[i + 1] BY <1>1, <1>4, <3>1
    <3>3. fmt[i + 1] = call[Position + (i + 1)] BY <3>1 DEF AtItem
    <3>4. Position + (i + 1) = (Position + 1) + i BY <1>5 DEF Position
    <3> QED BY <1>1, <1>6, <3>2, <3>3, <3>4
  <2> QED BY <2>1, <2>2 DEF AtItem
<1>8. PutSoFar'
  <2>1. PICK o \in Lines : o = Out BY OutIs
  <2>2. Crlf(todo) = <<>>
    <3>1. todo \in Lines BY DEF LineTypes
    <3> QED BY <1>1, <3>1, CrlfIs
  <2>3. o \o <<>> = o BY Nothing
  <2>4. Out' = Out BY <1>1 DEF Out
  <2>5. Out' = Beginnings(call')[Position'] BY <1>1, <1>2, <1>6, <2>1, <2>2, <2>3, <2>4
  <2> QED BY <1>1, <2>5 DEF PutSoFar
<1>9. LineTypes' BY <1>1, <1>4 DEF LineTypes
<1>10. InDigits' BY <1>1 DEF InDigits
<1>11. SignFits' BY <1>1 DEF SignFits
<1> QED BY <1>7, <1>8, <1>9, <1>10, <1>11

(* The UART only moves what has been put, and so does a step of nothing.   *)
LEMMA UartKeeps ==
  ASSUME LineInv, Out' = Out, line' \in Lines, shifter' \in Lines, txdata' \in Lines,
         UNCHANGED <<fmt, xpc, numeral, todo, call>>
  PROVE  LineInv'
<1> USE DEF LineInv
<1>1. UNCHANGED <<fmt, xpc, v, radix, neg, str, value, todo, call>> BY DEF numeral
<1>2. LineTypes' BY <1>1 DEF LineTypes
<1>3. AtItem' /\ Position' = Position BY <1>1 DEF AtItem, Position
<1>4. PutSoFar' BY <1>1, <1>3 DEF PutSoFar
<1>5. InDigits' BY <1>1 DEF InDigits
<1>6. SignFits' BY <1>1 DEF SignFits
<1> QED BY <1>2, <1>3, <1>4, <1>5, <1>6

LEMMA LineStep == ASSUME LineInv, [ConsoleNext]_consoleVars PROVE LineInv'
<1>1. line \in Lines /\ shifter \in Lines /\ txdata \in Lines BY DEF LineInv, LineTypes
<1>2. <<>> \in Lines BY Nothing
<1>3. PICK x, y, z \in Lines : x = line /\ y = shifter /\ z = txdata BY <1>1
<1>4. PICK w \in Lines : w = x \o y BY Joining
<1>5. w \o <<>> = w /\ x \o <<>> = x BY Nothing
<1>6. CASE UartLoad
  <2>1. shifter = <<>> /\ shifter' = txdata /\ txdata' = <<>> /\ UNCHANGED <<fmt, xpc, numeral, todo, line, call>>
    BY <1>6 DEF UartLoad
  <2>2. PICK u \in Lines : u = x \o z BY Joining
  <2>3. u \o <<>> = u BY Nothing
  <2>4. Out' = (x \o z) \o <<>> BY <1>3, <2>1 DEF Out
  <2>5. Out = (x \o <<>>) \o z BY <1>3, <2>1 DEF Out
  <2>6. Out' = Out BY <1>5, <2>2, <2>3, <2>4, <2>5
  <2> QED BY <1>1, <1>2, <2>1, <2>6, UartKeeps
<1>7. CASE UartSend
  <2>1. line' = w /\ shifter' = <<>> /\ UNCHANGED <<fmt, xpc, numeral, todo, txdata, call>>
    BY <1>3, <1>4, <1>7 DEF UartSend
  <2>2. Out' = (w \o <<>>) \o z BY <1>3, <2>1 DEF Out
  <2>3. Out = w \o z BY <1>3, <1>4 DEF Out
  <2>4. Out' = Out BY <1>5, <2>2, <2>3
  <2> QED BY <1>1, <1>2, <2>1, <2>4, UartKeeps
<1>8. CASE UNCHANGED consoleVars
  <2>1. UNCHANGED <<fmt, xpc, numeral, todo, call>> /\ UNCHANGED <<line, shifter, txdata>>
    BY <1>8 DEF consoleVars, numeral
  <2>2. Out' = Out BY <2>1 DEF Out
  <2> QED BY <1>1, <2>1, <2>2, UartKeeps
<1> QED BY <1>6, <1>7, <1>8, PutPlainKeeps, BeginNumberKeeps, MakeDigitKeeps, PutCharKeeps, PutLfKeeps,
           NextItemKeeps DEF ConsoleNext

(* LineCorrect for every format and every width of the numbers: what leaves  *)
(* the UART is what the format says, character by character, and a numeral   *)
(* with its sign never runs over its buffer (xprintf.c 164-176, 229-361;     *)
(* krv_utils.c 36-45).                                                       *)
THEOREM LineAlwaysCorrect == ConsoleSpec => []LineCorrect
<1>1. ConsoleInit => LineInv BY LineStart
<1>2. LineInv /\ [ConsoleNext]_consoleVars => LineInv' BY LineStep
<1>3. LineInv => LineCorrect BY LineFollows
<1> QED BY <1>1, <1>2, <1>3, PTL DEF ConsoleSpec
---------------------------------------------------------------------------
(***************************************************************************)
(* Delays and time-outs.                                                   *)
(***************************************************************************)

(* A remainder is no larger than the number, which a wrapped difference    *)
(* can therefore only underestimate.                                       *)
LEMMA ModBelow ==
  ASSUME NEW x \in Nat, NEW m \in Nat \ {0}
  PROVE  x % m <= x /\ x % m \in 0 .. m - 1
OBVIOUS

LEMMA ModSplit ==
  ASSUME NEW x \in Nat, NEW m \in Nat \ {0}
  PROVE  /\ x \div m \in Nat /\ x % m \in 0 .. m - 1
         /\ x = m * (x \div m) + (x % m)
<1>1. x \div m \in Int /\ x \div m >= 0
  OBVIOUS
<1>2. x = m * (x \div m) + (x % m)
  OBVIOUS
<1> QED BY <1>1, <1>2, ModBelow

(* The difference of two times of which only the low part is kept.         *)
LEMMA WrappedDifference ==
  ASSUME NEW a \in Nat, NEW b \in Nat, NEW m \in Nat \ {0}, a <= b
  PROVE  ((b % m) - (a % m)) % m <= b - a
<1> DEFINE qa == a \div m
           qb == b \div m
           ra == a % m
           rb == b % m
<1>1. /\ qa \in Nat /\ ra \in 0 .. m - 1 /\ a = m * qa + ra
      /\ qb \in Nat /\ rb \in 0 .. m - 1 /\ b = m * qb + rb
  BY ModSplit
<1> HIDE DEF qa, qb, ra, rb
<1> SUFFICES (rb - ra) % m <= b - a
  BY DEF ra, rb
<1>2. \A n \in Int : n >= 0 => m * n >= 0
  OBVIOUS
<1>3. m * qb - m * qa = m * (qb - qa) /\ m * (qa - qb) = m * qa - m * qb
  BY <1>1
<1>4. qa <= qb
  <2> SUFFICES ASSUME qb < qa PROVE FALSE
    BY <1>1
  <2>1. m * (qa - qb) >= m
    <3>1. m * (qa - qb - 1) >= 0 BY <1>1, <1>2
    <3>2. m * (qa - qb - 1) = m * (qa - qb) - m BY <1>1
    <3> QED BY <1>1, <3>1, <3>2
  <2> QED BY <1>1, <1>3, <2>1
<1>5. CASE ra <= rb
  <2>1. (rb - ra) % m = rb - ra
    BY <1>1, <1>5
  <2>2. m * (qb - qa) >= 0
    BY <1>1, <1>2, <1>4
  <2> QED BY <1>1, <1>3, <2>1, <2>2
<1>6. CASE rb < ra
  <2>1. (rb - ra) % m = rb - ra + m
    BY <1>1, <1>6
  <2>2. qa # qb
    BY <1>1, <1>6
  <2>3. m * (qb - qa) >= m
    <3>1. m * (qb - qa - 1) >= 0 BY <1>1, <1>2, <1>4, <2>2
    <3>2. m * (qb - qa - 1) = m * (qb - qa) - m BY <1>1
    <3> QED BY <1>1, <3>1, <3>2
  <2> QED BY <1>1, <1>3, <2>1, <2>3
<1> QED BY <1>1, <1>5, <1>6

(* Milliseconds that have begun since then: one less has passed.           *)
LEMMA MillisecondsPassed ==
  ASSUME NEW a \in Nat, NEW b \in Nat, NEW f \in Nat \ {0}, NEW n \in Nat,
         a <= b, (b \div f) - (a \div f) > n
  PROVE  b - a > n * f
<1> DEFINE qa == a \div f
           qb == b \div f
<1>1. /\ qa \in Nat /\ a % f \in 0 .. f - 1 /\ a = f * qa + (a % f)
      /\ qb \in Nat /\ b % f \in 0 .. f - 1 /\ b = f * qb + (b % f)
  BY ModSplit
<1>2. qb - qa - 1 >= n
  BY <1>1
<1> HIDE DEF qa, qb
<1>3. f * (qb - qa - 1 - n) >= 0
  BY <1>1, <1>2
<1>4. f * (qb - qa - 1 - n) = f * qb - f * qa - f - n * f
  BY <1>1
<1> QED BY <1>1, <1>3, <1>4
---------------------------------------------------------------------------
(***************************************************************************)
(* While no reading is torn, the counter is what it was at the start plus  *)
(* the clocks elapsed, and start is that moment as the call keeps it.      *)
(***************************************************************************)
Waiting == {"wait.now.h", "wait.now.l"}
Polling == {"poll.ready", "poll.now.h", "poll.now.l"}

TimeTypes ==
  /\ time \in Half /\ timeh \in Half /\ hi \in Half
  /\ tpc \in WaitCode \cup PollCode \cup Outcomes
  /\ elapsed \in Nat /\ limit \in Nat
  /\ start \in Nat

Reference ==
  /\ ~torn /\ tpc \in Waiting => start = count - elapsed
  /\ ~torn /\ tpc \in Polling => count >= elapsed /\ start = ms16(count - elapsed)

TimeInv == TimeTypes /\ Reference /\ NeverEarly

LEMMA CountTypes ==
  ASSUME TimeTypes
  PROVE  /\ count \in Nat /\ reading \in Nat
         /\ hi = timeh => reading = count
         /\ HALFTIME * HALFTIME \in Nat \ {0}
         /\ \A t \in Nat : ms16(t) \in Nat
<1>1. /\ time \in Nat /\ timeh \in Nat /\ hi \in Nat
      /\ HALFTIME \in Nat \ {0} /\ XTAL_FREQ_KHZ \in Nat \ {0} /\ MSWORD \in Nat \ {0}
  BY TimeAssumption DEF TimeTypes, Half
<1>2. \A x, y \in Nat : x * y \in Nat /\ (x # 0 /\ y # 0 => x * y # 0)
  OBVIOUS
<1>3. \A t \in Nat : t \div XTAL_FREQ_KHZ \in Nat
  BY <1>1, ModSplit
<1>4. \A t \in Nat : t % MSWORD \in Nat
  BY <1>1, ModSplit
<1> QED BY <1>1, <1>2, <1>3, <1>4 DEF count, reading, ms16

(* One clock adds one to the 64-bit count, carry included.                 *)
LEMMA TickCounts == TimeTypes /\ Tick => count' = count + 1 /\ time' \in Half /\ timeh' \in Half
<1> SUFFICES ASSUME TimeTypes, Tick PROVE count' = count + 1 /\ time' \in Half /\ timeh' \in Half
  OBVIOUS
<1>1. time \in Half /\ timeh \in Half /\ HALFTIME \in Nat \ {0}
  BY TimeAssumption DEF TimeTypes
<1>2. CASE time = HALFTIME - 1
  <2>1. time' = 0 /\ timeh' = timeh + 1
    BY <1>1, <1>2 DEF Tick, Half
  <2>2. (timeh + 1) * HALFTIME = timeh * HALFTIME + HALFTIME
    BY <1>1 DEF Half
  <2> QED BY <1>1, <1>2, <2>1, <2>2 DEF count, Tick, Half
<1>3. CASE time # HALFTIME - 1
  <2>1. time' = time + 1 /\ timeh' = timeh
    BY <1>1, <1>3 DEF Tick, Half
  <2>2. timeh * HALFTIME \in Nat
    BY <1>1 DEF Half
  <2> QED BY <1>1, <1>3, <2>1, <2>2 DEF count, Half
<1> QED BY <1>2, <1>3

THEOREM TimeInductive == TimeInv /\ [TimeNext]_timeVars => TimeInv'
<1> SUFFICES ASSUME TimeInv, [TimeNext]_timeVars PROVE TimeInv'
  OBVIOUS
<1>0. TimeTypes /\ Reference /\ NeverEarly
  BY DEF TimeInv
<1>a. /\ count \in Nat /\ reading \in Nat
      /\ hi = timeh => reading = count
      /\ HALFTIME * HALFTIME \in Nat \ {0}
      /\ \A t \in Nat : ms16(t) \in Nat
  BY <1>0, CountTypes
<1>1. CASE Tick
  <2>1. count' = count + 1 /\ time' \in Half /\ timeh' \in Half
    BY <1>0, <1>1, TickCounts
  <2>2. CASE tpc \in Outcomes
    BY <1>0, <1>1, <2>1, <2>2
       DEF TimeInv, TimeTypes, Reference, NeverEarly, Tick, Waiting, Polling, Outcomes
  <2>3. CASE tpc \notin Outcomes
    <3>1. elapsed' = elapsed + 1 /\ UNCHANGED <<tpc, hi, start, limit, torn>>
      BY <1>1, <2>3 DEF Tick
    <3>2. TimeTypes'
      BY <1>0, <2>1, <3>1 DEF TimeTypes
    <3>3. count' - elapsed' = count - elapsed
      BY <1>0, <1>a, <2>1, <3>1 DEF TimeTypes
    <3>4. Reference'
      BY <1>0, <1>a, <2>1, <3>1, <3>3 DEF TimeTypes, Reference, ms16
    <3>5. NeverEarly'
      BY <1>0, <2>3, <3>1 DEF NeverEarly, Outcomes
    <3> QED BY <3>2, <3>4, <3>5 DEF TimeInv
  <2> QED BY <2>2, <2>3
<1>2. CASE Call
  <2>1. ASSUME NEW msec \in Delays, CallWait(msec) PROVE TimeInv'
    <3>1. XTAL_FREQ_KHZ * msec \in Nat
      BY TimeAssumption
    <3> QED BY <1>0, <2>1, <3>1
            DEF TimeInv, TimeTypes, Reference, NeverEarly, CallWait, Goto, Waiting, Polling,
                WaitCode, Outcomes
  <2>2. CASE CallPoll
    BY <1>0, <2>2
       DEF TimeInv, TimeTypes, Reference, NeverEarly, CallPoll, Goto, Waiting, Polling,
           PollCode, Outcomes
  <2> QED BY <1>2, <2>1, <2>2 DEF Call
<1>3. CASE ReadHigh
  <2>1. /\ tpc \in High /\ tpc' = AfterHigh(tpc) /\ hi' = timeh
        /\ UNCHANGED <<time, timeh, start, limit, elapsed, torn>>
    BY <1>3 DEF ReadHigh, Goto
  <2>2. /\ tpc' \in {"wait.old.l", "wait.now.l", "poll.start.l", "poll.now.l"}
        /\ tpc' \in Waiting <=> tpc \in Waiting
        /\ tpc' \in Polling <=> tpc \in Polling
    BY <2>1 DEF High, AfterHigh, Waiting, Polling
  <2>3. count' = count
    BY <2>1 DEF count
  <2>4. TimeTypes'
    BY <1>0, <2>1, <2>2 DEF TimeTypes, WaitCode, PollCode
  <2>5. Reference'
    BY <1>0, <2>1, <2>2, <2>3 DEF Reference, ms16
  <2>6. NeverEarly'
    BY <2>2 DEF NeverEarly
  <2> QED BY <2>4, <2>5, <2>6 DEF TimeInv
<1>4. CASE ReadStart
  <2>1. elapsed' = 0 /\ UNCHANGED <<time, timeh, hi, limit>>
    BY <1>4 DEF ReadStart, Goto
  <2>0. ~torn' => hi = timeh
    BY <1>4 DEF ReadStart
  <2>2. count' = count
    BY <2>1 DEF count
  <2>3. CASE tpc = "wait.old.l"
    <3>1. tpc' = "wait.now.h" /\ start' = reading
      BY <1>4, <2>3 DEF ReadStart, Goto
    <3>2. TimeTypes'
      BY <1>0, <1>a, <2>1, <3>1 DEF TimeTypes, WaitCode
    <3>3. ~torn' => start' = count' - elapsed'
      BY <1>a, <2>0, <2>1, <2>2, <3>1
    <3>4. Reference' /\ NeverEarly'
      BY <3>1, <3>3 DEF Reference, NeverEarly, Waiting, Polling
    <3> QED BY <3>2, <3>4 DEF TimeInv
  <2>4. CASE tpc = "poll.start.l"
    <3>1. tpc' = "poll.ready" /\ start' = ms16(reading)
      BY <1>4, <2>4 DEF ReadStart, Goto
    <3>2. TimeTypes'
      BY <1>0, <1>a, <2>1, <3>1 DEF TimeTypes, PollCode
    <3>3. ~torn' => count' - elapsed' = reading /\ count' >= elapsed'
      BY <1>a, <2>0, <2>1, <2>2
    <3>4. ~torn' => count' >= elapsed' /\ start' = ms16(count' - elapsed')
      BY <3>1, <3>3
    <3>5. Reference' /\ NeverEarly'
      BY <3>1, <3>4 DEF Reference, NeverEarly, Waiting, Polling, ms16
    <3> QED BY <3>2, <3>5 DEF TimeInv
  <2> QED BY <1>4, <2>3, <2>4 DEF ReadStart, First
<1>5. CASE DataReady
  <2>1. /\ tpc = "poll.ready" /\ tpc' \in {"ready", "poll.now.h"}
        /\ UNCHANGED <<time, timeh, hi, start, limit, elapsed, torn>>
    BY <1>5 DEF DataReady, Goto
  <2>2. count' = count
    BY <2>1 DEF count
  <2> QED BY <1>0, <2>1, <2>2
          DEF TimeInv, TimeTypes, Reference, NeverEarly, Waiting, Polling, PollCode, Outcomes, ms16
<1>6. CASE CheckWait
  <2>1. /\ tpc = "wait.now.l" /\ torn' = (torn \/ hi # timeh)
        /\ tpc' = IF waitOver(reading) THEN "waited" ELSE "wait.now.h"
        /\ UNCHANGED <<time, timeh, hi, start, limit, elapsed>>
    BY <1>6 DEF CheckWait, Goto
  <2>2. count' = count
    BY <2>1 DEF count
  <2>3. ~torn' /\ waitOver(reading) => elapsed > limit
    <3> SUFFICES ASSUME ~torn', waitOver(reading) PROVE elapsed > limit
      OBVIOUS
    <3>0. start = count - elapsed /\ reading = count
      BY <1>0, <1>a, <2>1 DEF Reference, Waiting, TimeTypes
    <3>1. reading - start = elapsed
      BY <1>0, <1>a, <3>0 DEF TimeTypes
    <3>2. elapsed % (HALFTIME * HALFTIME) <= elapsed
      BY <1>0, <1>a, ModBelow DEF TimeTypes
    <3>3. elapsed % (HALFTIME * HALFTIME) > limit
      BY <3>1 DEF waitOver
    <3>4. elapsed \in Nat /\ limit \in Nat /\ elapsed % (HALFTIME * HALFTIME) \in Int
      BY <1>0, <1>a DEF TimeTypes
    <3> HIDE DEF waitOver
    <3> QED BY <3>2, <3>3, <3>4
  <2>4. TimeTypes'
    BY <1>0, <2>1 DEF TimeTypes, WaitCode, Outcomes
  <2>5. Reference'
    BY <1>0, <2>1, <2>2 DEF Reference, Waiting, Polling
  <2>6. NeverEarly'
    BY <2>1, <2>3 DEF NeverEarly
  <2> QED BY <2>4, <2>5, <2>6 DEF TimeInv
<1>7. CASE CheckTimeout
  <2>1. /\ tpc = "poll.now.l" /\ torn' = (torn \/ hi # timeh)
        /\ tpc' = IF checkTimeoutExpired(reading) THEN "timeout" ELSE "poll.ready"
        /\ UNCHANGED <<time, timeh, hi, start, limit, elapsed>>
    BY <1>7 DEF CheckTimeout, Goto
  <2>2. count' = count
    BY <2>1 DEF count
  <2>3. ~torn' /\ checkTimeoutExpired(reading) => elapsed > io_timeout * XTAL_FREQ_KHZ
    <3> SUFFICES ASSUME ~torn', checkTimeoutExpired(reading)
                 PROVE  elapsed > io_timeout * XTAL_FREQ_KHZ
      OBVIOUS
    <3> DEFINE old == count - elapsed
               a == old \div XTAL_FREQ_KHZ
               b == count \div XTAL_FREQ_KHZ
    <3>1. elapsed \in Nat /\ count >= elapsed /\ start = ms16(old) /\ reading = count
      BY <1>0, <1>a, <2>1 DEF Reference, Polling, TimeTypes
    <3>2. old \in Nat /\ old <= count /\ count \in Nat
      BY <1>a, <3>1
    <3>3. XTAL_FREQ_KHZ \in Nat \ {0} /\ MSWORD \in Nat \ {0} /\ io_timeout \in Nat
      BY TimeAssumption
    <3> HIDE DEF old
    <3>4. a \in Nat /\ b \in Nat
      BY <3>2, <3>3, ModSplit
    <3>5. a <= b
      BY <3>2, <3>3
    <3>6. ((b % MSWORD) - (a % MSWORD)) % MSWORD > io_timeout
      BY <3>1 DEF checkTimeoutExpired, ms16
    <3>7. ((b % MSWORD) - (a % MSWORD)) % MSWORD <= b - a
      BY <3>3, <3>4, <3>5, WrappedDifference
    <3>8. b - a > io_timeout
      <4>1. ((b % MSWORD) - (a % MSWORD)) % MSWORD \in Int
        BY <3>3, <3>4
      <4> HIDE DEF a, b
      <4> QED BY <3>3, <3>4, <3>6, <3>7, <4>1
    <3>9. count - old > io_timeout * XTAL_FREQ_KHZ
      BY <3>2, <3>3, <3>8, MillisecondsPassed
    <3> QED BY <1>a, <3>1, <3>9 DEF old
  <2>4. TimeTypes'
    BY <1>0, <2>1 DEF TimeTypes, PollCode, Outcomes
  <2>5. Reference'
    BY <1>0, <2>1, <2>2 DEF Reference, Waiting, Polling, ms16
  <2>6. NeverEarly'
    BY <2>1, <2>3 DEF NeverEarly
  <2> QED BY <2>4, <2>5, <2>6 DEF TimeInv
<1>8. CASE UNCHANGED timeVars
  BY <1>0, <1>8 DEF timeVars, TimeInv, TimeTypes, Reference, NeverEarly, count, ms16
<1> QED BY <1>1, <1>2, <1>3, <1>4, <1>5, <1>6, <1>7, <1>8 DEF TimeNext

(* NeverEarly at every width of the counter and every clock frequency:     *)
(* wait_ms and the sensor's time-out never end before their time unless a  *)
(* carry tears one of their readings (krv_utils.c 15-26, VL53L1X.c 29-31). *)
THEOREM NeverEarlyAlways == TimeSpec => []NeverEarly
<1>1. TimeInit => TimeInv
  <2>1. 0 \in Half
    BY TimeAssumption DEF Half
  <2>2. TimeInit => TimeTypes
    BY <2>1 DEF TimeInit, TimeTypes, Outcomes
  <2>3. TimeInit => Reference /\ NeverEarly
    BY DEF TimeInit, Reference, NeverEarly, Waiting, Polling
  <2> QED BY <2>2, <2>3 DEF TimeInv
<1>2. TimeInv => NeverEarly
  BY DEF TimeInv
<1> QED BY <1>1, <1>2, TimeInductive, PTL DEF TimeSpec
---------------------------------------------------------------------------
(***************************************************************************)
(* How late an end can be.  A reading is torn only when a carry falls      *)
(* between its halves, and there is no second carry for half a counter: a  *)
(* check that was torn is followed by one that is not, and a start that    *)
(* was torn makes the first check end the call.  LateInv says which of     *)
(* the two the program is in, at each place of its two loops.              *)
(***************************************************************************)
(* No carry, but one less than n steps and this wait ago; no more than n   *)
(* steps and this wait since b clocks had passed.                          *)
Carried(n) == time < gap + n * MaxGap
Within(b, n) == elapsed <= b + n * MaxGap + gap

Low == {"wait.old.l", "wait.now.l", "poll.start.l", "poll.now.l"}
PollTime == (io_timeout + 1) * XTAL_FREQ_KHZ - 1

Whole == start = ms16(count - elapsed)
TornStart == count - elapsed >= HALFTIME /\ start = ms16(count - elapsed - HALFTIME)

(* The last check but one, or the last, came in time; in the second case   *)
(* it was torn, and the next one will not be.  If it was the start that    *)
(* was torn, the first check ends the wait.                                *)
NowHigh == Within(limit, 0) \/ (Within(limit, 2) /\ Carried(1))
NowLow == Within(limit, 1) \/ (Within(limit, 3) /\ Carried(2) /\ hi = timeh)

PollReady ==
  \/ Whole /\ (Within(PollTime, 0) \/ (Within(PollTime, 3) /\ Carried(1)))
  \/ TornStart /\ Within(0, 0) /\ Carried(1)
PollHigh ==
  \/ Whole /\ (Within(PollTime, 1) \/ (Within(PollTime, 4) /\ Carried(2)))
  \/ TornStart /\ Within(0, 1) /\ Carried(2)
PollLow ==
  \/ Whole /\ (Within(PollTime, 2) \/ (Within(PollTime, 5) /\ Carried(3) /\ hi = timeh))
  \/ TornStart /\ Within(0, 2) /\ Carried(3) /\ hi = timeh

HighRead == hi <= timeh /\ (hi = timeh \/ (hi + 1 = timeh /\ time < gap))

LateInv ==
  /\ tpc \notin Outcomes => gap \in 0 .. MaxGap
  /\ tpc \in Low => HighRead
  /\ tpc \in {"wait.old.h", "poll.start.h"} => Within(0, 0)
  /\ tpc \in {"wait.old.l", "poll.start.l"} => Within(0, 1)
  /\ tpc \in Waiting => start + elapsed <= count
  /\ tpc = "wait.now.h" => NowHigh
  /\ tpc = "wait.now.l" => NowLow
  /\ tpc \in Polling => elapsed <= count
  /\ tpc = "poll.ready" => PollReady
  /\ tpc = "poll.now.h" => PollHigh
  /\ tpc = "poll.now.l" => PollLow

(* A difference that fits the bits kept of it is exact.                    *)
LEMMA ExactDifference ==
  ASSUME NEW a \in Nat, NEW b \in Nat, NEW m \in Nat \ {0}, a <= b, b - a < m
  PROVE  ((b % m) - (a % m)) % m = b - a
<1> DEFINE qa == a \div m
           qb == b \div m
           ra == a % m
           rb == b % m
<1>1. /\ qa \in Nat /\ ra \in 0 .. m - 1 /\ a = m * qa + ra
      /\ qb \in Nat /\ rb \in 0 .. m - 1 /\ b = m * qb + rb
  BY ModSplit
<1> HIDE DEF qa, qb, ra, rb
<1> SUFFICES (rb - ra) % m = b - a
  BY DEF ra, rb
<1>2. \A n \in Int : n >= 0 => m * n >= 0
  OBVIOUS
<1>3. m * qb - m * qa = m * (qb - qa) /\ m * (qa - qb) = m * qa - m * qb
  BY <1>1
<1>4. qa <= qb
  <2> SUFFICES ASSUME qb < qa PROVE FALSE BY <1>1
  <2>1. m * (qa - qb - 1) >= 0 BY <1>1, <1>2
  <2>2. m * (qa - qb - 1) = m * (qa - qb) - m BY <1>1
  <2> QED BY <1>1, <1>3, <2>1, <2>2
<1>5. qb <= qa + 1
  <2> SUFFICES ASSUME qb > qa + 1 PROVE FALSE BY <1>1
  <2>1. m * (qb - qa - 2) >= 0 BY <1>1, <1>2
  <2>2. m * (qb - qa - 2) = m * (qb - qa) - 2 * m BY <1>1
  <2> QED BY <1>1, <1>3, <2>1, <2>2
<1>6. CASE qb = qa
  <2>1. rb - ra = b - a /\ rb - ra >= 0 /\ rb - ra < m BY <1>1, <1>6
  <2> QED BY <1>1, <2>1
<1>7. CASE qb = qa + 1
  <2>1. m * (qb - qa) = m BY <1>1, <1>7
  <2>2. rb - ra + m = b - a BY <1>1, <1>3, <2>1
  <2>3. rb - ra < 0 BY <1>1, <2>2
  <2>4. (rb - ra) % m = rb - ra + m BY <1>1, <2>3
  <2> QED BY <2>2, <2>4
<1> QED BY <1>1, <1>4, <1>5, <1>6, <1>7

(* As many milliseconds begin between two times as pass, or one more.      *)
LEMMA MillisecondsBegun ==
  ASSUME NEW a \in Nat, NEW b \in Nat, NEW f \in Nat \ {0}, a <= b
  PROVE  LET d == (b \div f) - (a \div f)
         IN d \in Int /\ (b - a) \div f <= d /\ d <= ((b - a) \div f) + 1
<1> DEFINE qa == a \div f
           qb == b \div f
           q == (b - a) \div f
           ra == a % f
           rb == b % f
           r == (b - a) % f
<1>0. b - a \in Nat OBVIOUS
<1>1. /\ qa \in Nat /\ ra \in 0 .. f - 1 /\ a = f * qa + ra
      /\ qb \in Nat /\ rb \in 0 .. f - 1 /\ b = f * qb + rb
      /\ q \in Nat /\ r \in 0 .. f - 1 /\ b - a = f * q + r
  BY <1>0, ModSplit
<1> HIDE DEF qa, qb, q, ra, rb, r
<1>2. \A n \in Int : n >= 0 => f * n >= 0
  OBVIOUS
<1>3. f * (qb - qa - q) = f * qb - f * qa - f * q BY <1>1
<1>4. f * (qb - qa - q) = ra + r - rb BY <1>1, <1>3
<1>5. qb - qa - q >= 0
  <2> SUFFICES ASSUME qb - qa - q < 0 PROVE FALSE BY <1>1
  <2>1. f * (-1 - (qb - qa - q)) >= 0 BY <1>1, <1>2
  <2>2. f * (-1 - (qb - qa - q)) = -f - f * (qb - qa - q) BY <1>1
  <2> QED BY <1>1, <1>4, <2>1, <2>2
<1>6. qb - qa - q <= 1
  <2> SUFFICES ASSUME qb - qa - q > 1 PROVE FALSE BY <1>1
  <2>1. f * ((qb - qa - q) - 2) >= 0 BY <1>1, <1>2
  <2>2. f * ((qb - qa - q) - 2) = f * (qb - qa - q) - 2 * f BY <1>1
  <2> QED BY <1>1, <1>4, <2>1, <2>2
<1>7. qb - qa \in Int /\ q <= qb - qa /\ qb - qa <= q + 1 BY <1>1, <1>5, <1>6
<1> QED BY <1>7 DEF qa, qb, q

LEMMA QuotientBelow ==
  ASSUME NEW x \in Nat, NEW f \in Nat \ {0}, NEW n \in Nat
  PROVE  /\ x < n * f => x \div f < n
         /\ x \div f < n => x < n * f
<1> DEFINE q == x \div f
           r == x % f
<1>1. q \in Nat /\ r \in 0 .. f - 1 /\ x = f * q + r BY ModSplit
<1> HIDE DEF q, r
<1>2. \A m \in Int : m >= 0 => f * m >= 0 OBVIOUS
<1>3. q >= n => x >= n * f
  <2> SUFFICES ASSUME q >= n PROVE x >= n * f OBVIOUS
  <2>1. f * (q - n) >= 0 BY <1>1, <1>2
  <2>2. f * (q - n) = f * q - n * f BY <1>1
  <2> QED BY <1>1, <2>1, <2>2
<1>4. q < n => x < n * f
  <2> SUFFICES ASSUME q < n PROVE x < n * f OBVIOUS
  <2>1. f * (n - q - 1) >= 0 BY <1>1, <1>2
  <2>2. f * (n - q - 1) = n * f - f * q - f BY <1>1
  <2>3. n * f \in Int /\ f * q \in Int BY <1>1
  <2> QED BY <1>1, <2>1, <2>2, <2>3
<1>5. n * f \in Int OBVIOUS
<1>6. /\ x < n * f => q < n
      /\ q < n => x < n * f
  BY <1>1, <1>3, <1>4, <1>5
<1> QED BY <1>6 DEF q

(* When VL53L1X_read gives up, in terms of two readings not torn.          *)
LEMMA Expiry ==
  ASSUME NEW old \in Nat, NEW now \in Nat, old <= now,
         ((now - old) \div XTAL_FREQ_KHZ) + 1 < MSWORD
  PROVE  /\ (now - old) \div XTAL_FREQ_KHZ > io_timeout
              => (ms16(now) - ms16(old)) % MSWORD > io_timeout
         /\ (ms16(now) - ms16(old)) % MSWORD <= io_timeout
              => (now - old) \div XTAL_FREQ_KHZ <= io_timeout
<1> DEFINE a == old \div XTAL_FREQ_KHZ
           b == now \div XTAL_FREQ_KHZ
           q == (now - old) \div XTAL_FREQ_KHZ
<1>1. XTAL_FREQ_KHZ \in Nat \ {0} /\ MSWORD \in Nat \ {0} /\ io_timeout \in Nat
  BY TimeAssumption
<1>2. a \in Nat /\ b \in Nat /\ q \in Nat
  <2>1. now - old \in Nat OBVIOUS
  <2> QED BY <1>1, <2>1, ModSplit
<1>3. q <= b - a /\ b - a <= q + 1
  BY <1>1, MillisecondsBegun
<1>4. a <= b /\ b - a < MSWORD
  <2> HIDE DEF a, b
  <2>1. q + 1 < MSWORD OBVIOUS
  <2> HIDE DEF q
  <2> QED BY <1>1, <1>2, <1>3, <2>1
<1> HIDE DEF a, b, q
<1>5. ((b % MSWORD) - (a % MSWORD)) % MSWORD = b - a
  BY <1>1, <1>2, <1>4, ExactDifference
<1>6. /\ q > io_timeout => ((b % MSWORD) - (a % MSWORD)) % MSWORD > io_timeout
      /\ ((b % MSWORD) - (a % MSWORD)) % MSWORD <= io_timeout => q <= io_timeout
  BY <1>1, <1>2, <1>3, <1>5
<1> QED BY <1>6 DEF ms16, a, b, q

(* A clock: the time since the last carry grows with the wait, unless a    *)
(* carry makes it 0.                                                       *)
LEMMA TickRelations ==
  ASSUME TimeTypes, gap \in Nat, tpc \notin Outcomes, Tick
  PROVE  /\ tpc' = tpc /\ UNCHANGED <<hi, start, limit>>
         /\ elapsed' = elapsed + 1 /\ gap' = gap + 1 /\ gap < MaxGap
         /\ count' = count + 1
         /\ \/ time' = time + 1 /\ timeh' = timeh
            \/ time = HALFTIME - 1 /\ time' = 0 /\ timeh' = timeh + 1
<1>1. /\ tpc' = tpc /\ UNCHANGED <<hi, start, limit>>
      /\ elapsed' = elapsed + 1 /\ gap' = gap + 1 /\ gap < MaxGap
  BY DEF Tick
<1>2. count' = count + 1 BY TickCounts
<1>3. time \in Half /\ timeh \in Half /\ HALFTIME \in Nat \ {0}
  BY TimeAssumption DEF TimeTypes
<1>4. \/ time' = time + 1 /\ timeh' = timeh
      \/ time = HALFTIME - 1 /\ time' = 0 /\ timeh' = timeh + 1
  <2>1. CASE time = HALFTIME - 1
    BY <1>3, <2>1 DEF Tick, Half
  <2>2. CASE time # HALFTIME - 1
    BY <1>3, <2>2 DEF Tick, Half
  <2> QED BY <2>1, <2>2
<1> QED BY <1>1, <1>2, <1>4

LEMMA LateTick ==
  ASSUME Timely, TimeTypes, LateInv, Tick
  PROVE  LateInv'
<1>1. CASE tpc \in Outcomes
  <2>1. tpc' = tpc BY <1>1 DEF Tick
  <2> QED BY <1>1, <2>1 DEF LateInv, Outcomes, Low, Waiting, Polling
<1>2. CASE tpc \notin Outcomes
  <2>0. gap \in Nat BY <1>2, TimeAssumption DEF LateInv
  <2>1. /\ tpc' = tpc /\ UNCHANGED <<hi, start, limit>>
        /\ elapsed' = elapsed + 1 /\ gap' = gap + 1 /\ gap < MaxGap
        /\ count' = count + 1
        /\ \/ time' = time + 1 /\ timeh' = timeh
           \/ time = HALFTIME - 1 /\ time' = 0 /\ timeh' = timeh + 1
    BY <1>2, <2>0, TickRelations
  <2>2. /\ MaxGap \in Nat /\ HALFTIME \in Nat \ {0} /\ 4 * MaxGap <= HALFTIME
        /\ time \in 0 .. HALFTIME - 1 /\ timeh \in Nat /\ hi \in Nat /\ elapsed \in Nat
        /\ start \in Nat /\ limit \in Nat /\ count \in Nat /\ PollTime \in Int
    <3>1. PollTime \in Int BY TimeAssumption DEF PollTime
    <3> QED BY <3>1, TimeAssumption, CountTypes DEF Timely, TimeTypes, Half
  <2>3. count' - elapsed' = count - elapsed
    BY <2>0, <2>1, <2>2
  <2>4. Whole' = Whole /\ TornStart' = TornStart
    BY <2>1, <2>3 DEF Whole, TornStart, ms16
  <2>5. PollTime' = PollTime BY DEF PollTime
  <2>6. /\ (Within(PollTime, 0) => Within(PollTime, 0)') /\ (Within(PollTime, 1) => Within(PollTime, 1)')
        /\ (Within(PollTime, 2) => Within(PollTime, 2)') /\ (Within(PollTime, 3) => Within(PollTime, 3)')
        /\ (Within(PollTime, 4) => Within(PollTime, 4)') /\ (Within(PollTime, 5) => Within(PollTime, 5)')
    BY <2>0, <2>1, <2>2, <2>5 DEF Within
  <2>7. /\ (Carried(1) => Carried(1)') /\ (Carried(2) => Carried(2)') /\ (Carried(3) => Carried(3)')
    BY <2>0, <2>1, <2>2 DEF Carried
  <2>8. /\ Carried(2) /\ hi = timeh => (hi = timeh)'
        /\ Carried(3) /\ hi = timeh => (hi = timeh)'
    BY <2>0, <2>1, <2>2 DEF Carried
  <2>9. HighRead => HighRead'
    BY <2>0, <2>1, <2>2 DEF HighRead
  <2>10. /\ start + elapsed <= count => (start + elapsed <= count)'
         /\ elapsed <= count => (elapsed <= count)'
         /\ (gap \in 0 .. MaxGap)'
    BY <1>2, <2>0, <2>1, <2>2 DEF LateInv
  <2>11. /\ (Within(0, 0) => Within(0, 0)') /\ (Within(0, 1) => Within(0, 1)')
         /\ Within(0, 2) => Within(0, 2)'
    BY <2>0, <2>1, <2>2 DEF Within
  <2>12. /\ (Within(limit, 0) => Within(limit, 0)') /\ (Within(limit, 1) => Within(limit, 1)')
         /\ (Within(limit, 2) => Within(limit, 2)') /\ (Within(limit, 3) => Within(limit, 3)')
    BY <2>0, <2>1, <2>2 DEF Within
  <2>13. (NowHigh => NowHigh') /\ (NowLow => NowLow')
    BY <2>7, <2>8, <2>12 DEF NowHigh, NowLow
  <2>14. PollReady => PollReady' BY <2>4, <2>6, <2>7, <2>11 DEF PollReady
  <2>15. PollHigh => PollHigh' BY <2>4, <2>6, <2>7, <2>11 DEF PollHigh
  <2>16. PollLow => PollLow' BY <2>4, <2>6, <2>7, <2>8, <2>11 DEF PollLow
  <2> QED BY <2>1, <2>9, <2>10, <2>11, <2>13, <2>14, <2>15, <2>16 DEF LateInv
<1> QED BY <1>1, <1>2

(* A step of the program ends its wait: gap counts from 0 again.           *)
LEMMA StepFacts ==
  ASSUME TimeTypes, Timely
  PROVE  /\ MaxGap \in Nat /\ HALFTIME \in Nat \ {0} /\ 4 * MaxGap <= HALFTIME
         /\ time \in 0 .. HALFTIME - 1 /\ timeh \in Nat /\ hi \in Nat /\ elapsed \in Nat
         /\ start \in Nat /\ limit \in Nat /\ count \in Nat /\ PollTime \in Nat
<1>1. /\ MaxGap \in Nat /\ HALFTIME \in Nat \ {0} /\ XTAL_FREQ_KHZ \in Nat \ {0}
      /\ io_timeout \in Nat /\ 4 * MaxGap <= HALFTIME
  BY TimeAssumption DEF Timely
<1>2. PollTime \in Nat
  <2>1. io_timeout * XTAL_FREQ_KHZ \in Nat BY <1>1
  <2>2. PollTime = io_timeout * XTAL_FREQ_KHZ + XTAL_FREQ_KHZ - 1 BY <1>1 DEF PollTime
  <2> QED BY <1>1, <2>1, <2>2
<1> QED BY <1>1, <1>2, CountTypes DEF TimeTypes, Half

LEMMA LateCall ==
  ASSUME Timely, TimeTypes, LateInv, Call
  PROVE  LateInv'
<1>1. /\ tpc' \in {"wait.old.h", "poll.start.h"} /\ gap' = 0 /\ elapsed' = 0
  BY DEF Call, CallWait, CallPoll, Goto
<1>2. Within(0, 0)' /\ (gap \in 0 .. MaxGap)'
  BY <1>1, StepFacts DEF Within
<1> QED BY <1>1, <1>2 DEF LateInv, Low, Waiting, Polling

LEMMA LateReadHigh ==
  ASSUME Timely, TimeTypes, LateInv, ReadHigh
  PROVE  LateInv'
<1>1. /\ tpc \in High /\ tpc' = AfterHigh(tpc) /\ hi' = timeh /\ gap' = 0
      /\ UNCHANGED <<time, timeh, start, limit, elapsed>>
  BY DEF ReadHigh, Goto
<1>2. count' = count /\ Whole' = Whole /\ TornStart' = TornStart
  BY <1>1 DEF count, Whole, TornStart, ms16
<1>3. gap \in 0 .. MaxGap
  BY <1>1 DEF LateInv, High, Outcomes
<1>4. /\ (gap \in 0 .. MaxGap)' /\ HighRead'
  BY <1>1, StepFacts DEF HighRead
<1>5. /\ Within(0, 0) => Within(0, 1)'
      /\ Within(0, 1) => Within(0, 2)'
      /\ Within(limit, 0) => Within(limit, 1)'
      /\ Within(limit, 2) => Within(limit, 3)'
      /\ Within(PollTime, 1) => Within(PollTime, 2)'
      /\ Within(PollTime, 4) => Within(PollTime, 5)'
      /\ Carried(1) => Carried(2)'
      /\ Carried(2) => Carried(3)'
  <2>1. PollTime' = PollTime BY DEF PollTime
  <2> QED BY <1>1, <1>3, <2>1, StepFacts DEF Within, Carried
<1>6. CASE tpc \in {"wait.old.h", "poll.start.h"}
  <2>1. tpc' \in {"wait.old.l", "poll.start.l"} BY <1>1, <1>6 DEF AfterHigh
  <2> QED BY <1>4, <1>5, <1>6, <2>1 DEF LateInv, Low, Waiting, Polling
<1>7. CASE tpc = "wait.now.h"
  <2>1. tpc' = "wait.now.l" BY <1>1, <1>7 DEF AfterHigh
  <2>2. NowLow' BY <1>1, <1>5, <1>7 DEF LateInv, NowHigh, NowLow
  <2>3. (start + elapsed <= count)' BY <1>1, <1>2, <1>7 DEF LateInv, Waiting
  <2> QED BY <1>4, <2>1, <2>2, <2>3 DEF LateInv, Low, Waiting, Polling
<1>8. CASE tpc = "poll.now.h"
  <2>1. tpc' = "poll.now.l" BY <1>1, <1>8 DEF AfterHigh
  <2>2. PollLow' BY <1>1, <1>2, <1>5, <1>8 DEF LateInv, PollHigh, PollLow
  <2>3. (elapsed <= count)' BY <1>1, <1>2, <1>8 DEF LateInv, Polling
  <2> QED BY <1>4, <2>1, <2>2, <2>3 DEF LateInv, Low, Waiting, Polling
<1> QED BY <1>1, <1>6, <1>7, <1>8 DEF High

(* A reading is the count, or half a counter less.                         *)
LEMMA ReadingTorn ==
  ASSUME Timely, TimeTypes, HighRead
  PROVE  /\ reading \in Nat /\ reading <= count
         /\ hi = timeh => reading = count
         /\ hi # timeh => count >= HALFTIME /\ reading = count - HALFTIME
<1>1. CASE hi = timeh
  BY <1>1, CountTypes
<1>2. CASE hi + 1 = timeh
  <2>1. timeh * HALFTIME = hi * HALFTIME + HALFTIME
    BY <1>2, StepFacts
  <2>2. hi * HALFTIME \in Nat BY StepFacts
  <2> QED BY <1>2, <2>1, <2>2, StepFacts DEF count, reading
<1> QED BY <1>1, <1>2 DEF HighRead

LEMMA LateReadStart ==
  ASSUME Timely, TimeTypes, LateInv, ReadStart
  PROVE  LateInv'
<1>1. /\ tpc \in First /\ gap' = 0 /\ elapsed' = 0
      /\ tpc' = (IF tpc = "wait.old.l" THEN "wait.now.h" ELSE "poll.ready")
      /\ start' = (IF tpc = "wait.old.l" THEN reading ELSE ms16(reading))
      /\ UNCHANGED <<time, timeh, hi, limit>>
  BY DEF ReadStart, Goto
<1>2. HighRead /\ gap \in 0 .. MaxGap
  BY <1>1 DEF LateInv, First, Low, Outcomes
<1>3. count' = count /\ count' - elapsed' = count /\ (elapsed <= count)'
  BY <1>1, StepFacts DEF count
<1>4. (gap \in 0 .. MaxGap)' BY <1>1, StepFacts
<1>5. CASE tpc = "wait.old.l"
  <2>1. start' = reading /\ tpc' = "wait.now.h" BY <1>1, <1>5
  <2>2. (start + elapsed <= count)'
    BY <1>1, <1>2, <1>3, <2>1, ReadingTorn, StepFacts
  <2>3. Within(limit, 0)' BY <1>1, StepFacts DEF Within
  <2> QED BY <1>4, <2>1, <2>2, <2>3 DEF LateInv, NowHigh, Low, Waiting, Polling
<1>6. CASE tpc = "poll.start.l"
  <2>1. start' = ms16(reading) /\ tpc' = "poll.ready" BY <1>1, <1>6
  <2>2. PollReady'
    <3>1. CASE hi = timeh
      <4>1. Whole'
        BY <1>2, <1>3, <2>1, <3>1, ReadingTorn DEF Whole, ms16
      <4>2. Within(PollTime, 0)'
        <5>1. PollTime' = PollTime BY DEF PollTime
        <5> QED BY <1>1, <5>1, StepFacts DEF Within
      <4> QED BY <4>1, <4>2 DEF PollReady
    <3>2. CASE hi # timeh
      <4>1. TornStart'
        BY <1>2, <1>3, <2>1, <3>2, ReadingTorn DEF TornStart, ms16
      <4>2. Within(0, 0)' BY <1>1, StepFacts DEF Within
      <4>3. Carried(1)'
        BY <1>1, <1>2, <3>2, StepFacts DEF HighRead, Carried
      <4> QED BY <4>1, <4>2, <4>3 DEF PollReady
    <3> QED BY <3>1, <3>2
  <2> QED BY <1>3, <1>4, <2>1, <2>2 DEF LateInv, Low, Waiting, Polling
<1> QED BY <1>1, <1>5, <1>6 DEF First

LEMMA LateDataReady ==
  ASSUME Timely, TimeTypes, LateInv, DataReady
  PROVE  LateInv'
<1>1. /\ tpc = "poll.ready" /\ tpc' \in {"ready", "poll.now.h"} /\ gap' = 0
      /\ UNCHANGED <<time, timeh, hi, start, limit, elapsed>>
  BY DEF DataReady, Goto
<1>2. count' = count /\ Whole' = Whole /\ TornStart' = TornStart
  BY <1>1 DEF count, Whole, TornStart, ms16
<1>3. gap \in 0 .. MaxGap
  BY <1>1 DEF LateInv, Outcomes
<1>4. (gap \in 0 .. MaxGap)' /\ (elapsed <= count)'
  BY <1>1, <1>2, StepFacts DEF LateInv, Polling
<1>5. /\ Within(0, 0) => Within(0, 1)'
      /\ Within(PollTime, 0) => Within(PollTime, 1)'
      /\ Within(PollTime, 3) => Within(PollTime, 4)'
      /\ Carried(1) => Carried(2)'
  <2>1. PollTime' = PollTime BY DEF PollTime
  <2> QED BY <1>1, <1>3, <2>1, StepFacts DEF Within, Carried
<1>6. PollHigh'
  BY <1>1, <1>2, <1>5 DEF LateInv, PollReady, PollHigh
<1> QED BY <1>1, <1>4, <1>6 DEF LateInv, Outcomes, Low, Waiting, Polling

LEMMA LateCheckWait ==
  ASSUME Timely, TimeTypes, LateInv, CheckWait
  PROVE  LateInv'
<1>1. /\ tpc = "wait.now.l" /\ gap' = 0
      /\ tpc' = (IF waitOver(reading) THEN "waited" ELSE "wait.now.h")
      /\ UNCHANGED <<time, timeh, hi, start, limit, elapsed>>
  BY DEF CheckWait, Goto
<1>2. HighRead /\ gap \in 0 .. MaxGap /\ start + elapsed <= count /\ NowLow
  BY <1>1 DEF LateInv, Low, Outcomes, Waiting
<1>3. count' = count BY <1>1 DEF count
<1>4. CASE waitOver(reading)
  BY <1>1, <1>4 DEF LateInv, Outcomes, Low, Waiting, Polling
<1>5. CASE ~waitOver(reading)
  <2>1. ASSUME hi = timeh PROVE NowHigh'
    <3>1. count - start < HALFTIME * HALFTIME /\ count - start >= elapsed
      <4>1. timeh * HALFTIME <= (HALFTIME - 1) * HALFTIME
        <5>1. HALFTIME - 1 - timeh \in Nat BY StepFacts DEF TimeTypes, Half
        <5>2. (HALFTIME - 1 - timeh) * HALFTIME >= 0 BY <5>1, StepFacts
        <5>3. (HALFTIME - 1 - timeh) * HALFTIME = (HALFTIME - 1) * HALFTIME - timeh * HALFTIME
          BY StepFacts
        <5>4. (HALFTIME - 1) * HALFTIME \in Int /\ timeh * HALFTIME \in Int BY StepFacts
        <5> QED BY <5>2, <5>3, <5>4
      <4>2. (HALFTIME - 1) * HALFTIME = HALFTIME * HALFTIME - HALFTIME BY StepFacts
      <4>3. HALFTIME * HALFTIME \in Nat /\ timeh * HALFTIME \in Nat BY StepFacts
      <4>4. count < HALFTIME * HALFTIME BY <4>1, <4>2, <4>3, StepFacts DEF count
      <4> QED BY <1>2, <4>3, <4>4, StepFacts
    <3>2. (count - start) % (HALFTIME * HALFTIME) = count - start
      <4> DEFINE N == HALFTIME * HALFTIME
                 d == count - start
      <4>1. N \in Nat /\ d \in Int /\ d >= 0 /\ d < N BY <3>1, StepFacts
      <4> HIDE DEF N, d
      <4>2. d % N = d BY <4>1
      <4> QED BY <4>2 DEF N, d
    <3>3. reading = count BY <1>2, <2>1, ReadingTorn
    <3>4. ~(count - start > limit)
      <4>1. ~((reading - start) % (HALFTIME * HALFTIME) > limit) BY <1>5 DEF waitOver
      <4> QED BY <3>2, <3>3, <4>1
    <3>5. elapsed <= limit BY <3>1, <3>4, StepFacts
    <3>6. Within(limit, 0)' BY <1>1, <3>5, StepFacts DEF Within
    <3> QED BY <3>6 DEF NowHigh
  <2>2. ASSUME hi # timeh PROVE NowHigh'
    <3>1. time < gap /\ Within(limit, 1) BY <1>2, <2>2 DEF HighRead, NowLow
    <3>2. Within(limit, 2)' BY <1>1, <1>2, <3>1, StepFacts DEF Within
    <3>3. Carried(1)' BY <1>1, <1>2, <3>1, StepFacts DEF Carried
    <3> QED BY <3>2, <3>3 DEF NowHigh
  <2>3. NowHigh' BY <2>1, <2>2
  <2>4. (gap \in 0 .. MaxGap)' BY <1>1, StepFacts
  <2> QED BY <1>1, <1>2, <1>3, <1>5, <2>3, <2>4 DEF LateInv, Low, Waiting, Polling
<1> QED BY <1>4, <1>5

LEMMA LateCheckTimeout ==
  ASSUME Timely, TimeTypes, LateInv, CheckTimeout
  PROVE  LateInv'
<1> DEFINE X == XTAL_FREQ_KHZ
<1>0. X \in Nat \ {0} /\ MSWORD \in Nat \ {0} /\ io_timeout \in Nat
  BY TimeAssumption
<1>1. /\ tpc = "poll.now.l" /\ gap' = 0
      /\ tpc' = (IF checkTimeoutExpired(reading) THEN "timeout" ELSE "poll.ready")
      /\ UNCHANGED <<time, timeh, hi, start, limit, elapsed>>
  BY DEF CheckTimeout, Goto
<1>2. HighRead /\ gap \in 0 .. MaxGap /\ elapsed <= count /\ PollLow
  BY <1>1 DEF LateInv, Low, Outcomes, Polling
<1>3. count' = count /\ Whole' = Whole
  BY <1>1 DEF count, Whole, ms16
<1>4. CASE checkTimeoutExpired(reading)
  BY <1>1, <1>4 DEF LateInv, Outcomes, Low, Waiting, Polling
<1>5. CASE ~checkTimeoutExpired(reading)
  <2>0. hi = timeh => ~((ms16(count) - start) % MSWORD > io_timeout)
    BY <1>2, <1>5, ReadingTorn DEF checkTimeoutExpired
  <2>1. ~(TornStart /\ Within(0, 2) /\ hi = timeh)
    <3> SUFFICES ASSUME TornStart, Within(0, 2), hi = timeh PROVE FALSE
      OBVIOUS
    <3> DEFINE old == count - elapsed - HALFTIME
    <3>1. old \in Nat /\ start = ms16(old) BY StepFacts DEF TornStart
    <3>2. count - old = elapsed + HALFTIME /\ old <= count BY StepFacts
    <3> HIDE DEF old
    <3>3. (count - old) \div X > io_timeout
      <4>1. (HALFTIME \div X) > io_timeout BY DEF Timely
      <4>2. HALFTIME \div X \in Nat BY <1>0, StepFacts, ModSplit
      <4>3. HALFTIME >= (io_timeout + 1) * X
        <5>1. ~(HALFTIME \div X < io_timeout + 1) BY <1>0, <4>1, <4>2
        <5>0. io_timeout + 1 \in Nat BY <1>0
        <5>2. ~(HALFTIME < (io_timeout + 1) * X) BY <1>0, <5>0, <5>1, StepFacts, QuotientBelow
        <5>3. (io_timeout + 1) * X \in Nat BY <1>0
        <5> QED BY <5>2, <5>3, StepFacts
      <4>4. (io_timeout + 1) * X \in Nat /\ count - old \in Nat BY <1>0, <3>2, StepFacts
      <4>5. ~(count - old < (io_timeout + 1) * X) BY <3>2, <4>3, <4>4, StepFacts
      <4>6. ~((count - old) \div X < io_timeout + 1) BY <1>0, <4>4, <4>5, QuotientBelow
      <4>7. (count - old) \div X \in Nat BY <1>0, <4>4, ModSplit
      <4> QED BY <1>0, <4>6, <4>7
    <3>4. ((count - old) \div X) + 1 < MSWORD
      <4>1. count - old <= HALFTIME + 3 * MaxGap /\ count - old \in Nat
        BY <1>2, <3>2, StepFacts DEF Within
      <4>2. HALFTIME + 3 * MaxGap \in Nat BY StepFacts
      <4>3. (count - old) \div X <= (HALFTIME + 3 * MaxGap) \div X
        <5> DEFINE e == HALFTIME + 3 * MaxGap
                   n == (e \div X) + 1
        <5>1. e \div X \in Nat BY <1>0, <4>2, ModSplit
        <5>2. n \in Nat /\ e \div X < n BY <5>1
        <5>3. e < n * X BY <1>0, <4>2, <5>2, QuotientBelow
        <5>4. n * X \in Nat BY <1>0, <5>2
        <5> HIDE DEF n
        <5>5. count - old < n * X BY <4>1, <4>2, <5>3, <5>4
        <5>6. (count - old) \div X < n BY <1>0, <4>1, <5>2, <5>5, QuotientBelow
        <5>7. (count - old) \div X \in Nat BY <1>0, <4>1, ModSplit
        <5> QED BY <5>1, <5>6, <5>7 DEF n
      <4>4. (HALFTIME + 3 * MaxGap) \div X + 1 < MSWORD BY DEF Timely
      <4>5. (count - old) \div X \in Nat /\ (HALFTIME + 3 * MaxGap) \div X \in Nat
        BY <1>0, <4>1, <4>2, ModSplit
      <4> HIDE DEF X
      <4> QED BY <1>0, <4>3, <4>4, <4>5 DEF X
    <3>5. (ms16(count) - ms16(old)) % MSWORD > io_timeout
      BY <3>1, <3>2, <3>3, <3>4, StepFacts, Expiry
    <3> QED BY <2>0, <3>1, <3>5
  <2>2. Whole BY <1>2, <2>1 DEF PollLow
  <2>3. ASSUME hi # timeh PROVE PollReady'
    <3>1. time < gap /\ Within(PollTime, 2) BY <1>2, <2>1, <2>3 DEF HighRead, PollLow
    <3>2. Within(PollTime, 3)'
      <4>1. PollTime' = PollTime BY DEF PollTime
      <4> QED BY <1>1, <1>2, <3>1, <4>1, StepFacts DEF Within
    <3>3. Carried(1)' BY <1>1, <1>2, <3>1, StepFacts DEF Carried
    <3> QED BY <1>3, <2>2, <3>2, <3>3 DEF PollReady
  <2>4. ASSUME hi = timeh PROVE PollReady'
    <3> DEFINE old == count - elapsed
    <3>1. old \in Nat /\ start = ms16(old) /\ old <= count /\ count - old = elapsed
      BY <1>2, <2>2, StepFacts DEF Whole
    <3> HIDE DEF old
    <3>2. elapsed <= PollTime + 6 * MaxGap
      BY <1>2, <2>1, <2>4, StepFacts DEF PollLow, Within
    <3>3. (elapsed \div X) + 1 < MSWORD
      <4>1. (io_timeout + 2) * X + 6 * MaxGap <= MSWORD * X BY DEF Timely
      <4>2. /\ (io_timeout + 2) * X = (io_timeout + 1) * X + X
            /\ (MSWORD - 1) * X = MSWORD * X - X
            /\ (io_timeout + 1) * X \in Nat /\ MSWORD * X \in Nat
        BY <1>0
      <4>3. PollTime = (io_timeout + 1) * X - 1 BY DEF PollTime
      <4>4. elapsed < (MSWORD - 1) * X BY <1>0, <3>2, <4>1, <4>2, <4>3, StepFacts
      <4>5. MSWORD - 1 \in Nat BY <1>0
      <4>6. elapsed \div X < MSWORD - 1 BY <1>0, <4>4, <4>5, StepFacts, QuotientBelow
      <4>7. elapsed \div X \in Nat BY <1>0, StepFacts, ModSplit
      <4> QED BY <1>0, <4>6, <4>7
    <3>4. (ms16(count) - ms16(old)) % MSWORD <= io_timeout
      <4>1. ms16(count) \in Nat /\ ms16(old) \in Nat BY <3>1, CountTypes
      <4>2. (ms16(count) - ms16(old)) % MSWORD \in Int BY <1>0, <4>1
      <4>3. ~((ms16(count) - ms16(old)) % MSWORD > io_timeout) BY <2>0, <2>4, <3>1
      <4> HIDE DEF ms16
      <4> QED BY <1>0, <4>2, <4>3
    <3>5. elapsed \div X <= io_timeout
      BY <3>1, <3>3, <3>4, StepFacts, Expiry
    <3>6. elapsed <= PollTime
      <4>1. elapsed \div X \in Nat BY <1>0, StepFacts, ModSplit
      <4>2. elapsed \div X < io_timeout + 1 BY <1>0, <3>5, <4>1
      <4>0. io_timeout + 1 \in Nat BY <1>0
      <4>3. elapsed < (io_timeout + 1) * X BY <1>0, <4>0, <4>2, StepFacts, QuotientBelow
      <4>4. (io_timeout + 1) * X \in Nat BY <1>0
      <4> QED BY <4>3, <4>4, StepFacts DEF PollTime
    <3>7. Within(PollTime, 0)'
      <4>1. PollTime' = PollTime BY DEF PollTime
      <4> QED BY <1>1, <3>6, <4>1, StepFacts DEF Within
    <3> QED BY <1>3, <2>2, <3>7 DEF PollReady
  <2>5. PollReady' BY <2>3, <2>4
  <2>6. (gap \in 0 .. MaxGap)' /\ (elapsed <= count)' BY <1>1, <1>2, <1>3, StepFacts
  <2> QED BY <1>1, <1>5, <2>5, <2>6 DEF LateInv, Low, Waiting, Polling
<1> QED BY <1>4, <1>5

LEMMA LateInductive ==
  ASSUME Timely, TimeTypes, LateInv, [TimeNext]_timeVars
  PROVE  LateInv'
<1>1. CASE Tick BY <1>1, LateTick
<1>2. CASE Call BY <1>2, LateCall
<1>3. CASE ReadHigh BY <1>3, LateReadHigh
<1>4. CASE ReadStart BY <1>4, LateReadStart
<1>5. CASE DataReady BY <1>5, LateDataReady
<1>6. CASE CheckWait BY <1>6, LateCheckWait
<1>7. CASE CheckTimeout BY <1>7, LateCheckTimeout
<1>8. CASE UNCHANGED timeVars
  BY <1>8 DEF timeVars, LateInv, HighRead, NowHigh, NowLow, PollReady, PollHigh, PollLow,
              Within, Carried, Whole, TornStart, PollTime, count, ms16
<1> QED BY <1>1, <1>2, <1>3, <1>4, <1>5, <1>6, <1>7, <1>8 DEF TimeNext

LEMMA LateEnough ==
  ASSUME Timely, TimeTypes, LateInv
  PROVE  NeverLate
<1>0. PollTime + 1 = (io_timeout + 1) * XTAL_FREQ_KHZ
  <2>1. (io_timeout + 1) * XTAL_FREQ_KHZ \in Int BY TimeAssumption
  <2> QED BY <2>1 DEF PollTime
<1>1. CASE tpc \in WaitCode
  <2>1. gap \in 0 .. MaxGap BY <1>1 DEF LateInv, WaitCode, Outcomes
  <2>2. CASE tpc = "wait.old.h"
    <3>1. Within(0, 0) BY <2>2 DEF LateInv
    <3> QED BY <2>1, <2>2, <3>1, StepFacts DEF Within, NeverLate, PollCode
  <2>3. CASE tpc = "wait.old.l"
    <3>1. Within(0, 1) BY <2>3 DEF LateInv
    <3> QED BY <2>1, <2>3, <3>1, StepFacts DEF Within, NeverLate, PollCode
  <2>4. CASE tpc = "wait.now.h"
    <3>1. Within(limit, 0) \/ Within(limit, 2) BY <2>4 DEF LateInv, NowHigh
    <3> QED BY <2>1, <2>4, <3>1, StepFacts DEF Within, NeverLate, PollCode
  <2>5. CASE tpc = "wait.now.l"
    <3>1. Within(limit, 1) \/ Within(limit, 3) BY <2>5 DEF LateInv, NowLow
    <3> QED BY <2>1, <2>5, <3>1, StepFacts DEF Within, NeverLate, PollCode
  <2> QED BY <1>1, <2>2, <2>3, <2>4, <2>5 DEF WaitCode
<1>2. CASE tpc \in PollCode
  <2>1. gap \in 0 .. MaxGap BY <1>2 DEF LateInv, PollCode, Outcomes
  <2>2. elapsed <= PollTime + 6 * MaxGap
    <3>1. CASE tpc = "poll.start.h"
      <4>1. Within(0, 0) BY <3>1 DEF LateInv
      <4> QED BY <2>1, <4>1, StepFacts DEF Within
    <3>2. CASE tpc = "poll.start.l"
      <4>1. Within(0, 1) BY <3>2 DEF LateInv
      <4> QED BY <2>1, <4>1, StepFacts DEF Within
    <3>3. CASE tpc = "poll.ready"
      <4>1. Within(PollTime, 0) \/ Within(PollTime, 3) \/ Within(0, 0)
        BY <3>3 DEF LateInv, Polling, PollReady
      <4> QED BY <2>1, <4>1, StepFacts DEF Within
    <3>4. CASE tpc = "poll.now.h"
      <4>1. Within(PollTime, 1) \/ Within(PollTime, 4) \/ Within(0, 1)
        BY <3>4 DEF LateInv, Polling, PollHigh
      <4> QED BY <2>1, <4>1, StepFacts DEF Within
    <3>5. CASE tpc = "poll.now.l"
      <4>1. Within(PollTime, 2) \/ Within(PollTime, 5) \/ Within(0, 2)
        BY <3>5 DEF LateInv, Polling, PollLow
      <4> QED BY <2>1, <4>1, StepFacts DEF Within
    <3> QED BY <1>2, <3>1, <3>2, <3>3, <3>4, <3>5 DEF PollCode
  <2>3. elapsed < (io_timeout + 1) * XTAL_FREQ_KHZ + 6 * MaxGap
    BY <1>0, <2>2, StepFacts
  <2> QED BY <1>2, <2>3 DEF NeverLate, PollCode, WaitCode
<1> QED BY <1>1, <1>2 DEF NeverLate

(* NeverLate at every width of the counter and every clock frequency that  *)
(* Timely admits: wherever a carry tears a reading, wait_ms and the        *)
(* sensor's time-out end no more than a reading after their time           *)
(* (krv_utils.c 15-26, VL53L1X.c 29-31 and 402-409).                       *)
THEOREM NeverLateAlways == ASSUME Timely PROVE TimeSpec => []NeverLate
<1>1. TimeInit => TimeInv
  <2>1. 0 \in Half
    BY TimeAssumption DEF Half
  <2>2. TimeInit => TimeTypes
    BY <2>1 DEF TimeInit, TimeTypes, Outcomes
  <2>3. TimeInit => Reference /\ NeverEarly
    BY DEF TimeInit, Reference, NeverEarly, Waiting, Polling
  <2> QED BY <2>2, <2>3 DEF TimeInv
<1>2. TimeInit => LateInv
  BY TimeAssumption DEF TimeInit, LateInv, Outcomes, Low, Waiting, Polling
<1>3. TimeInv => TimeTypes
  BY DEF TimeInv
<1>4. LateInv /\ TimeInv /\ [TimeNext]_timeVars => LateInv'
  BY <1>3, LateInductive
<1>5. LateInv /\ TimeInv => NeverLate
  BY <1>3, LateEnough
<1> QED BY <1>1, <1>2, <1>4, <1>5, TimeInductive, PTL DEF TimeSpec
=============================================================================
