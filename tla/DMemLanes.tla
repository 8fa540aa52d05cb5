------------------------------ MODULE DMemLanes ------------------------------
(***************************************************************************)
(* Loads and stores of bytes and halfwords: the byte enables and the       *)
(* shifted data the MEM stage drives, the four byte-wide memories of DMem, *)
(* and the selection and extension in WB.  One operation per step; how the *)
(* pipeline schedules them is in KyogenRVCpu.  An operation whose address  *)
(* is not aligned to its size traps in EX and never reaches MEM.           *)
(***************************************************************************)
EXTENDS Integers

CONSTANTS
  BYTE,       \* number of values of a byte (256 in the source)
  LastWord    \* index of the last word of each memory

ASSUME LanesAssumption == BYTE \in Nat \ {0} /\ LastWord \in Nat

VARIABLES lanes,      \* mem_0 .. mem_3: lane and word index to byte
          reg         \* the register loads write and stores read

laneVars == <<lanes, reg>>

(* Byte addresses; addr(1,0) selects the lane, addr >> 2 the word. *)
bytesOf == [a \in 0 .. 4 * LastWord + 3 |-> lanes[a % 4][a \div 4]]

Bytes == INSTANCE ByteMemory WITH bytes <- bytesOf

Byte  == 0 .. BYTE - 1
Lane  == 0 .. 3
Index == 0 .. LastWord
Value == [Lane -> Byte]

(* laddrInvalid and saddrInvalid, negated. *)
valid(mask, off) ==
  /\ mask = "W" => off = 0
  /\ mask \in {"H", "HU"} => off % 2 = 0

byteenable(mask, off) ==
  CASE mask = "B" -> {off}
    [] mask = "H" -> IF off = 0 THEN {0, 1} ELSE {2, 3}
    [] OTHER      -> Lane

(* mem_rs(1) << 8 * off *)
shifted(v, off) == [k \in Lane |-> IF k >= off THEN v[k - off] ELSE 0]

wdata(mask, off, v) == IF mask = "W" THEN v ELSE shifted(v, off)

(* Mutant: every short load extends its sign. *)
fillSigned(mask, b) == IF 2 * b >= BYTE THEN BYTE - 1 ELSE 0

(* Fill(n, sign bit) for a signed load, zeros for the others. *)
fill(mask, b) == IF mask \in {"B", "H"} /\ 2 * b >= BYTE THEN BYTE - 1 ELSE 0

dmem_data(mask, off, d) ==
  CASE mask \in {"B", "BU"} ->
         [k \in Lane |-> IF k = 0 THEN d[off] ELSE fill(mask, d[off])]
    [] mask \in {"H", "HU"} ->
         [k \in Lane |-> IF k < 2 THEN d[off + k] ELSE fill(mask, d[off + 1])]
    [] OTHER -> d
---------------------------------------------------------------------------
LanesInit == lanes \in [Lane -> [Index -> Byte]] /\ reg \in Value

Store(mask, i, off) ==
  /\ valid(mask, off)
  /\ lanes' = [k \in Lane |->
                 IF k \in byteenable(mask, off)
                 THEN [lanes[k] EXCEPT ![i] = wdata(mask, off, reg)[k]]
                 ELSE lanes[k]]
  /\ UNCHANGED reg

Load(mask, i, off) ==
  /\ valid(mask, off)
  /\ reg' = dmem_data(mask, off, [k \in Lane |-> lanes[k][i]])
  /\ UNCHANGED lanes

LanesNext ==
  \E i \in Index, off \in Lane :
    \/ \E mask \in {"B", "H", "W"} : Store(mask, i, off)
    \/ \E mask \in {"B", "BU", "H", "HU", "W"} : Load(mask, i, off)

LanesSpec == LanesInit /\ [][LanesNext]_laneVars

(***************************************************************************)
(* ImplementsBytes: the lanes behave as the byte-addressed memory loads    *)
(* and stores are defined on, each load and store as the one of its size   *)
(* at its address: no store touches a neighbouring byte, and every load    *)
(* finds its bytes and extends them by its own sign.                       *)
(***************************************************************************)
ImplementsBytes ==
  /\ Bytes!ByteInit
  /\ [][laneVars' # laneVars =>
          \A i \in Index, off \in Lane :
          /\ \A mask \in Bytes!StoreMasks :
                Store(mask, i, off) => Bytes!StoreBytes(mask, 4 * i + off)
          /\ \A mask \in Bytes!LoadMasks :
                Load(mask, i, off) => Bytes!LoadBytes(mask, 4 * i + off)]_laneVars
=============================================================================
