----------------------------- MODULE ByteMemory -----------------------------
(***************************************************************************)
(* What loads and stores mean: a memory of bytes, little-endian, with sign *)
(* or zero extension of what is shorter than a word.  A word is its four   *)
(* bytes, the least significant first.                                     *)
(***************************************************************************)
EXTENDS Integers

CONSTANTS BYTE,       \* number of values of a byte (256 in the source)
          LastWord    \* index of the last word of the memory

VARIABLES bytes,      \* the memory
          reg         \* the register loads write and stores read

Byte    == 0 .. BYTE - 1
Lane    == 0 .. 3
Value   == [Lane -> Byte]
Address == 0 .. 4 * LastWord + 3
StoreMasks == {"B", "H", "W"}
LoadMasks  == {"B", "BU", "H", "HU", "W"}

Size(mask) == CASE mask \in {"B", "BU"} -> 1
                [] mask \in {"H", "HU"} -> 2
                [] OTHER                -> 4

Aligned(mask, a) == a % Size(mask) = 0

Extension(mask, top) ==
  IF mask \in {"B", "H"} /\ 2 * top >= BYTE THEN BYTE - 1 ELSE 0

ByteInit == bytes \in [Address -> Byte] /\ reg \in Value

StoreBytes(mask, a) ==
  /\ Aligned(mask, a)
  /\ bytes' = [b \in Address |-> IF b \in a .. a + Size(mask) - 1
                                 THEN reg[b - a] ELSE bytes[b]]
  /\ UNCHANGED reg

LoadBytes(mask, a) ==
  /\ Aligned(mask, a)
  /\ reg' = [k \in Lane |-> IF k < Size(mask) THEN bytes[a + k]
                            ELSE Extension(mask, bytes[a + Size(mask) - 1])]
  /\ UNCHANGED bytes

ByteNext ==
  \/ \E mask \in StoreMasks, a \in Address : StoreBytes(mask, a)
  \/ \E mask \in LoadMasks, a \in Address : LoadBytes(mask, a)

ByteSpec == ByteInit /\ [][ByteNext]_<<bytes, reg>>
=============================================================================
