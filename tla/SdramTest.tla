------------------------------ MODULE SdramTest ------------------------------
(***************************************************************************)
(* The firmware's memory test: write every word's own offset, then read    *)
(* every word back and compare.  The memory under test may be wired wrong: *)
(* several addresses may reach one cell, and a cell may be stuck.          *)
(***************************************************************************)
EXTENDS Integers

CONSTANTS
  WORDS,      \* words from SDRAM_0_BASE to SDRAM_0_END (2^21)
  Cells       \* memory cells an address may reach

ASSUME SdramAssumption == WORDS \in Nat \ {0}

VARIABLES
  spc,        \* "write", "read" or "done"
  k,          \* word under test
  verdict,    \* what sdram_test returns: 0 or -1
  contents,   \* what the cells hold
  wired,      \* external: the cell an address reaches
  stuck       \* external: cells that keep what they hold

sdramVars == <<spc, k, verdict, contents, wired, stuck>>

Offsets == 0 .. WORDS - 1

(* length is SDRAM_0_END - SDRAM_0_BASE, in bytes. *)
length == 4 * WORDS - 1

SdramInit ==
  /\ spc = "write" /\ k = 0 /\ verdict = 0
  /\ contents \in [Cells -> Offsets]
  /\ wired \in [Offsets -> Cells]
  /\ stuck \in SUBSET Cells

(* put32, as the wiring carries it out. *)
put32 ==
  contents' = [contents EXCEPT ![wired[k]] = IF wired[k] \in stuck THEN @ ELSE k]

(* Mutant: the last word is not tested. *)
lastShort == 4 * (k + 2) >= length

last == 4 * (k + 1) >= length

WriteWord ==
  /\ spc = "write"
  /\ put32
  /\ IF last THEN k' = 0 /\ spc' = "read" ELSE k' = k + 1 /\ UNCHANGED spc
  /\ UNCHANGED <<verdict, wired, stuck>>

(* The first word that differs ends the test. *)
ReadWord ==
  /\ spc = "read"
  /\ IF contents[wired[k]] # k
     THEN spc' = "done" /\ verdict' = -1 /\ UNCHANGED k
     ELSE /\ UNCHANGED verdict
          /\ IF last THEN spc' = "done" /\ UNCHANGED k
             ELSE k' = k + 1 /\ UNCHANGED spc
  /\ UNCHANGED <<contents, wired, stuck>>

SdramNext == WriteWord \/ ReadWord

SdramSpec == SdramInit /\ [][SdramNext]_sdramVars
---------------------------------------------------------------------------
Distinct == \A i, j \in Offsets : wired[i] = wired[j] => i = j

(***************************************************************************)
(* SdramVerdict: the test passes only a memory whose every word holds what *)
(* was written to it, each in a cell of its own, and rejects a memory only *)
(* if it has a stuck cell or two addresses for one cell (main.c 15-35).    *)
(***************************************************************************)
SdramVerdict ==
  spc = "done" =>
    /\ verdict = 0 => Distinct /\ \A i \in Offsets : contents[wired[i]] = i
    /\ verdict # 0 => ~Distinct \/ \E i \in Offsets : wired[i] \in stuck
=============================================================================
