------------------------------ MODULE Xprintf ------------------------------
(***************************************************************************)
(* Formatted output to the console: xvfprintf turns a format and its       *)
(* arguments into characters, xfputc puts a carriage return before every   *)
(* line feed, and uart_putc polls the UART and writes one character.  The  *)
(* UART shifts characters out while the program runs on.                   *)
(*                                                                         *)
(* A format is a sequence of items: a character to be passed through, or a *)
(* conversion with its argument.                                           *)
(***************************************************************************)
EXTENDS Integers, Sequences

Seqs == INSTANCE SequencesExt

CONSTANTS
  INTS,       \* number of values of an int and of a long (2^32)
  LLONGS,     \* number of values of a long long (2^64)
  SZB_OUTPUT, \* characters in the buffer of a numeral (32)
  Formats     \* the formats the program prints

(* A conversion: flag "", "0" or "-", width (an argument's may be          *)
(* negative), precision (-1 when there is none), size prefix "", "l" or    *)
(* "ll", type, and its argument: the bits of a number, or the characters   *)
(* of %s; of %c, of an unknown type and of a character passed through, the *)
(* one character.                                                          *)
Item == [flag : {"", "0", "-"}, width : Int, prec : Int, size : {"", "l", "ll"},
         type : STRING, bits : Nat, text : Seq(STRING)]

(* r to the k-th, written out: the prover knows nothing of ^.              *)
Power(r, k) ==
  LET upTo[i \in 0 .. k] == IF i = 0 THEN 1 ELSE r * upTo[i - 1] IN upTo[k]

(* A number with a sign and its MINUS fit the buffer.                      *)
ASSUME XprintfAssumption ==
  /\ INTS \in Nat \ {0} /\ LLONGS \in Nat \ {0} /\ INTS <= LLONGS
  /\ SZB_OUTPUT \in Nat \ {0} /\ LLONGS <= Power(10, SZB_OUTPUT - 1)
  /\ Formats \subseteq Seq(Item)

VARIABLES
  fmt,        \* items not yet begun
  xpc,        \* "item", "digit" or "put"
  v, radix,   \* vs and r: what is left of the number, and its base
  neg,        \* the argument is negative (f & 1)
  str,        \* the numeral so far, lowest digit first
  todo,       \* characters of the current item not yet put
  txdata, shifter,  \* the UART's holding and shift registers
  line,       \* what has left the UART
  call,       \* history: the format printed
  value, weight, done \* history: the number, the weight of the next digit,
                    \* and what the digits made so far are worth

consoleVars == <<fmt, xpc, v, radix, neg, str, todo, txdata, shifter, line,
                 call, value, weight, done>>
numeral == <<v, radix, neg, str, value, weight, done>>

CR == "\r"
LF == "\n"
SPACE == " "
MINUS == "-"

signedOf(bits, n) == IF 2 * bits >= n THEN bits - n ELSE bits

(* va_arg: an int argument is widened to long long with or without sign.   *)
Argument(item) ==
  IF item.type # "d" THEN item.bits
  ELSE signedOf(item.bits, IF item.size = "ll" THEN LLONGS ELSE INTS)

isLeft(item) == item.flag = "-" \/ item.width < 0
minWidth(item) == IF item.width < 0 THEN -item.width ELSE item.width
padChar(item) == IF item.flag = "0" THEN "0" ELSE SPACE

radixOf(type) == CASE type = "b" -> 2
                   [] type = "o" -> 8
                   [] type \in {"d", "u"} -> 10
                   [] type \in {"x", "X"} -> 16

Numbers == {"b", "o", "d", "u", "x", "X"}

glyph(d, type) ==
  IF d < 10 THEN <<"0", "1", "2", "3", "4", "5", "6", "7", "8", "9">>[d + 1]
  ELSE IF type = "x" THEN <<"a", "b", "c", "d", "e", "f">>[d - 9]
  ELSE <<"A", "B", "C", "D", "E", "F">>[d - 9]

Repeat(c, n) == [k \in 1 .. n |-> c]

(* The padding of a text of n characters, which may be cut by a precision  *)
(* afterwards; on the right it is always spaces.                           *)
Missing(item, n) == IF n < minWidth(item) THEN minWidth(item) - n ELSE 0
LeftPad(item, n)  == IF isLeft(item) THEN <<>> ELSE Repeat(padChar(item), Missing(item, n))
RightPad(item, n) == IF isLeft(item) THEN Repeat(SPACE, Missing(item, n)) ELSE <<>>
Padded(item, n, text) == LeftPad(item, n) \o text \o RightPad(item, n)

(* A precision counted down from below zero never runs out. *)
Cut(s, prec) == IF prec < 0 \/ prec > Len(s) THEN s ELSE SubSeq(s, 1, prec)
---------------------------------------------------------------------------
ConsoleInit ==
  /\ fmt \in Formats /\ call = fmt
  /\ xpc = "item" /\ v = 0 /\ radix = 10 /\ neg = FALSE /\ str = <<>>
  /\ value = 0 /\ weight = 1 /\ done = 0
  /\ todo = <<>> /\ txdata = <<>> /\ shifter = <<>> /\ line = <<>>

uartUnchanged == UNCHANGED <<txdata, shifter, line, call>>

(* An item that is put as it is: a character, %c, an unknown type, or %s.  *)
PutPlain ==
  /\ xpc = "item" /\ fmt # <<>>
  /\ LET item == Head(fmt) IN
     /\ item.type \notin Numbers
     /\ todo' = IF item.type = "s"
                THEN Padded(item, Len(item.text), Cut(item.text, item.prec))
                ELSE item.text
  /\ xpc' = "put"
  /\ UNCHANGED <<fmt, numeral>> /\ uartUnchanged

BeginNumber ==
  /\ xpc = "item" /\ fmt # <<>>
  /\ LET item == Head(fmt) IN
     /\ item.type \in Numbers
     /\ neg' = (Argument(item) < 0)
     /\ v' = IF neg' THEN -Argument(item) ELSE Argument(item)
     /\ radix' = radixOf(item.type)
  /\ str' = <<>> /\ value' = v' /\ weight' = 1 /\ done' = 0
  /\ xpc' = "digit"
  /\ UNCHANGED <<fmt, todo>> /\ uartUnchanged

(* Mutant: the loop stops at the last digit but one. *)
MoreDigitsShort == v' >= radix /\ Len(str') < SZB_OUTPUT

MoreDigits == v' # 0 /\ Len(str') < SZB_OUTPUT

(* Mutant: the base is taken to be ten. *)
RestDecimal == v \div 10

Rest == v \div radix

(* do { str[i++] = vs % r; vs /= r; } while (vs != 0 && i < sizeof str)    *)
MakeDigit ==
  /\ xpc = "digit"
  /\ str' = Append(str, glyph(v % radix, Head(fmt).type))
  /\ v' = Rest
  /\ done' = done + weight * (v % radix) /\ weight' = weight * radix
  /\ IF MoreDigits THEN UNCHANGED <<xpc, todo>>
     ELSE LET signed == IF neg THEN Append(str', MINUS) ELSE str' IN
          /\ xpc' = "put"
          /\ todo' = Padded(Head(fmt), Len(signed), Seqs!Reverse(signed))
  /\ UNCHANGED <<fmt, radix, neg, value>> /\ uartUnchanged

(* Bit 5 of the UART's status: nothing is held and nothing is shifted.     *)
TMT == txdata = <<>> /\ shifter = <<>>

(* Mutant: the status is not looked at. *)
StatusIgnored == TRUE

StatusReady == TMT

(* uart_putc with its polling loop left: the character is written.  A line *)
(* feed is preceded by a carriage return, put the same way.                *)
PutChar ==
  /\ xpc = "put" /\ todo # <<>>
  /\ StatusReady
  /\ IF Head(todo) = LF THEN txdata' = <<CR>> /\ xpc' = "lf" /\ UNCHANGED todo
     ELSE txdata' = <<Head(todo)>> /\ todo' = Tail(todo) /\ UNCHANGED xpc
  /\ UNCHANGED <<fmt, numeral, shifter, line, call>>

PutLf ==
  /\ xpc = "lf"
  /\ StatusReady
  /\ txdata' = <<LF>> /\ todo' = Tail(todo) /\ xpc' = "put"
  /\ UNCHANGED <<fmt, numeral, shifter, line, call>>

NextItem ==
  /\ xpc = "put" /\ todo = <<>>
  /\ fmt' = Tail(fmt) /\ xpc' = "item"
  /\ UNCHANGED <<numeral, todo>> /\ uartUnchanged

(* The UART: a character written while another is held replaces it.        *)
UartLoad ==
  /\ txdata # <<>> /\ shifter = <<>>
  /\ shifter' = txdata /\ txdata' = <<>>
  /\ UNCHANGED <<fmt, xpc, numeral, todo, line, call>>

UartSend ==
  /\ shifter # <<>>
  /\ line' = line \o shifter /\ shifter' = <<>>
  /\ UNCHANGED <<fmt, xpc, numeral, todo, txdata, call>>

ConsoleNext == \/ PutPlain \/ BeginNumber \/ MakeDigit \/ PutChar \/ PutLf
               \/ NextItem \/ UartLoad \/ UartSend

ConsoleSpec == ConsoleInit /\ [][ConsoleNext]_consoleVars
---------------------------------------------------------------------------
(***************************************************************************)
(* DigitsKeepValue: at every turn of the digit loop the digits made and    *)
(* what is left to convert are together the number, in every base          *)
(* (xprintf.c 350-355): no digit is lost, doubled or out of its place.     *)
(***************************************************************************)
DigitsKeepValue == value = done + weight * v

(* What a format is to print, said without the loops.                      *)
Places(n, r) ==
  CHOOSE k \in 1 .. n + 1 : n < Power(r, k) /\ (k = 1 \/ n >= Power(r, k - 1))

(* The positional numeral of n, its low digits only when it is longer than *)
(* the buffer.                                                             *)
Numeral(n, type) ==
  LET r == radixOf(type)
      p == IF Places(n, r) > SZB_OUTPUT THEN SZB_OUTPUT ELSE Places(n, r)
  IN [k \in 1 .. p |-> glyph((n \div Power(r, p - k)) % r, type)]

Text(item) ==
  IF item.type = "s" THEN [k \in {j \in DOMAIN item.text : item.prec < 0 \/ j <= item.prec} |-> item.text[k]]
  ELSE IF item.type \notin Numbers THEN item.text
  ELSE IF Argument(item) < 0 THEN <<MINUS>> \o Numeral(-Argument(item), item.type)
  ELSE Numeral(Argument(item), item.type)

(* The field: at least as wide as asked for, a string's width measured     *)
(* before the precision cuts it.                                           *)
Field(item) ==
  LET t == Text(item)
      n == IF item.type = "s" THEN Len(item.text) ELSE Len(t)
      w == IF item.width < 0 THEN -item.width ELSE item.width
      missing == IF item.type \in Numbers \cup {"s"} /\ n < w THEN w - n ELSE 0
  IN IF item.flag = "-" \/ item.width < 0 THEN t \o [k \in 1 .. missing |-> SPACE]
     ELSE [k \in 1 .. missing |-> IF item.flag = "0" THEN "0" ELSE SPACE] \o t

Crlf(s) == Seqs!FlattenSeq([k \in DOMAIN s |-> IF s[k] = LF THEN <<CR, LF>> ELSE <<s[k]>>])

Expected(f) == Seqs!FlattenSeq([k \in DOMAIN f |-> Crlf(Field(f[k]))])

(***************************************************************************)
(* LineCorrect: what has left the UART is the beginning of what the format *)
(* says, and all of it in the end; and a numeral with its sign fits the    *)
(* buffer.  Digits made backwards, padding on either side, the carriage    *)
(* returns and the polled register all have a part in it                   *)
(* (xprintf.c 164-176, 229-361; krv_utils.c 36-45).                        *)
(***************************************************************************)
LineCorrect ==
  /\ Seqs!IsPrefix(line, Expected(call))
  /\ fmt = <<>> /\ TMT => line = Expected(call)
  /\ neg => Len(str) < SZB_OUTPUT
=============================================================================
