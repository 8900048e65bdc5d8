------------------------------- MODULE Flash --------------------------------
(***************************************************************************)
(* The internal flash (src/src/peripherals/flash.rs): the controller's     *)
(* lock and its sector erase, the mapped memory with its alias, and the    *)
(* file that keeps a range of it from one run to the next.                 *)
(*                                                                         *)
(* Memory is observed at a few places, each an offset in KiB; what is      *)
(* there is Erased or a word the firmware programmed.  ACR and OPTCR are   *)
(* only stored by the code.                                                *)
(***************************************************************************)
EXTENDS Integers

CONSTANTS
  Places,         (* offsets that are observed, in KiB                     *)
  Persistent      (* the ones inside the persistent range                  *)

ASSUME FlashAssumption == Places \subseteq 0..2047 /\ Persistent \subseteq Places

Erased == 0
AllErased == [k \in Places |-> Erased]

\* new, and initialize_memory: locked and filled with 0xff.
FlashInit == [main |-> AllErased, alias |-> AllErased, locked |-> TRUE, key_stage |-> 0,
              operr |-> FALSE]

\* write_key
WriteKey(f, key) ==
  CASE f.key_stage = 0 /\ key = 1 -> [f EXCEPT !.key_stage = 1]
    [] f.key_stage = 1 /\ key = 2 -> [f EXCEPT !.key_stage = 0, !.locked = FALSE]
    [] OTHER -> [f EXCEPT !.key_stage = 0]

\* A table that takes the fifth sector for a large one.
SectorRangeWideFour(register) ==
  LET s == register % 16
      first == IF s <= 3 THEN 16 * s ELSE IF s = 4 THEN 64 ELSE 128 + 128 * (s - 5)
  IN  IF s > 11 THEN {} ELSE (1024 * (register \div 16) + first)
                             .. (1024 * (register \div 16) + first + (IF s <= 3 THEN 15 ELSE 127))

\* sector_range: the KiB of a sector's register value, none if there is no such sector.
SectorRange(register) ==
  LET s == register % 16
      size == IF s <= 3 THEN 16 ELSE IF s = 4 THEN 64 ELSE 128
      first == 1024 * (register \div 16)
               + (IF s <= 3 THEN 16 * s ELSE IF s = 4 THEN 64 ELSE 128 + 128 * (s - 5))
  IN  IF s > 11 THEN {} ELSE first .. (first + size - 1)

\* erase_sector, of the main mapping and of the alias.
EraseSector(f, register) ==
  LET after(mem) == [k \in Places |-> IF k \in SectorRange(register) THEN Erased ELSE mem[k]]
  IN  IF SectorRange(register) = {} THEN [f EXCEPT !.operr = TRUE]
      ELSE [f EXCEPT !.main = after(@), !.alias = after(@)]

\* write_control with STRT and SER for a sector, and without LOCK.
StartErase(f, register) == IF f.locked THEN f ELSE EraseSector(f, register)

\* The firmware stores a word through the main mapping; the alias does not follow.
Program(f, k, word) == [f EXCEPT !.main[k] = word]

\* The persistent range as persist reads it.
KeptRange(f) == [k \in Persistent |-> f.main[k]]

\* load_persistent, of a file of the right length.
LoadRange(f, contents) ==
  LET after(mem) == [k \in Places |-> IF k \in Persistent THEN contents[k] ELSE mem[k]]
  IN  [f EXCEPT !.main = after(@), !.alias = after(@)]

-----------------------------------------------------------------------------
(* The sectors as the reference manual's table has them: in each bank of    *)
(* 1 MiB four of 16 KiB, one of 64 KiB, seven of 128 KiB.                   *)
SectorOf(k) ==
  LET b == k % 1024
      s == IF b < 64 THEN b \div 16 ELSE IF b < 128 THEN 4 ELSE 4 + b \div 128
  IN  16 * (k \div 1024) + s
=============================================================================
