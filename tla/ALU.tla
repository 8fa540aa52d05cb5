-------------------------------- MODULE ALU --------------------------------
(***************************************************************************)
(* Class ALU (ALU.scala).  One adder serves ADD, SUB and the comparisons:  *)
(* a comparison reads the sign of the difference and corrects it when the  *)
(* operands' signs differ.  One right shifter serves all shifts: a left    *)
(* shift mirrors the operand before it and the result behind it.           *)
(***************************************************************************)
EXTENDS Words

AluFns == {"ADD", "SLL", "SEQ", "SNE", "XOR", "SRL", "OR", "AND", "COPY1", "COPY2",
           "SUB", "SRA", "SLT", "SGE", "SLTU", "SGEU"}

(* op(3): the functions numbered 8..15 feed ~op2 and a carry to the adder. *)
isSub(fn)   == fn \in {"COPY1", "COPY2", "SUB", "SRA", "SLT", "SGE", "SLTU", "SGEU"}
isCmpU(fn)  == fn \in {"SLTU", "SGEU"}
isCmpI(fn)  == fn \in {"SLL", "SNE", "SRL", "AND", "COPY2", "SRA", "SGE", "SGEU"}
isCmpEq(fn) == ~isSub(fn)

Sum(fn, op1, op2) == IF isSub(fn) THEN Sub(op1, op2) ELSE Add(op1, op2)

(* Mutant: the sign of the difference alone decides. *)
sltNoOverflow(fn, op1, op2) == SignBit(Sum(fn, op1, op2))

slt(fn, op1, op2) ==
  IF SignBit(op1) <=> SignBit(op2)
  THEN SignBit(Sum(fn, op1, op2))
  ELSE IF isCmpU(fn) THEN SignBit(op2) ELSE SignBit(op1)

cmp(fn, op1, op2) ==
  LET holds == IF isCmpEq(fn) THEN op1 = op2 ELSE slt(fn, op1, op2)
  IN  IF isCmpI(fn) THEN ~holds ELSE holds

(* op2(4,0): five bits for a word of 32. *)
shamt(op2) == op2 % XLEN

Mirrored(a) == FromBits({XLEN - 1 - k : k \in BitsOf(a)})

(* Mutant: a logical right shift is mirrored too. *)
shinSraOnly(fn, op1) == IF fn = "SRA" THEN op1 ELSE Mirrored(op1)

shin(fn, op1) == IF fn \in {"SRA", "SRL"} THEN op1 ELSE Mirrored(op1)

(* The sign fills the word from above when op(3) is set. *)
shift_r(fn, op1, op2) ==
  LET in == BitsOf(shin(fn, op1))
      above == IF isSub(fn) /\ XLEN - 1 \in in THEN XLEN .. 2 * XLEN ELSE {}
  IN FromBits({k \in 0 .. XLEN - 1 : k + shamt(op2) \in in \cup above})

shift_l(fn, op1, op2) == Mirrored(shift_r(fn, op1, op2))

(* w_out; SEQ, SNE, SGE, SGEU and COPY2 fall through to op2. *)
AluOut(fn, op1, op2) ==
  CASE fn \in {"ADD", "SUB"}  -> Sum(fn, op1, op2)
    [] fn \in {"SLT", "SLTU"} -> IF cmp(fn, op1, op2) THEN 1 ELSE 0
    [] fn \in {"SRA", "SRL"}  -> shift_r(fn, op1, op2)
    [] fn = "SLL"             -> shift_l(fn, op1, op2)
    [] fn = "AND"             -> FromBits(BitsOf(op1) \cap BitsOf(op2))
    [] fn = "OR"              -> FromBits(BitsOf(op1) \cup BitsOf(op2))
    [] fn = "XOR"             -> FromBits((BitsOf(op1) \cup BitsOf(op2))
                                          \ (BitsOf(op1) \cap BitsOf(op2)))
    [] fn = "COPY1"           -> op1
    [] OTHER                  -> op2
=============================================================================
