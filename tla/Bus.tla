-------------------------------- MODULE Bus --------------------------------
(***************************************************************************)
(* The address decoding of src/peripherals/mod.rs: which slot an access    *)
(* reaches, which byte lanes of its word, and what the bit-band alias does.*)
(* A 32-bit word is the set of its one bits, so that & is \cap, | is \cup  *)
(* and a shift moves bit numbers.                                          *)
(***************************************************************************)
EXTENDS Integers, Sequences, FiniteSets

Shl(w, n) == {b + n : b \in w} \cap (0 .. 31)

Shr(w, n) == {b - n : b \in {c \in w : c >= n}}

(* write_mask: the bits of the bytes offset .. offset + size - 1. *)
LaneMask(offset, size) == 8 * offset .. 8 * (offset + size) - 1

(***************************************************************************)
(* get_peripheral over slots sorted by start.  binary_search_by_key may    *)
(* return any of the slots that start exactly at the address (the standard *)
(* library promises no more); otherwise the slot before the insertion      *)
(* point, i.e. the last that starts below.  `end` is compared inclusively. *)
(***************************************************************************)
Reached(slots, addr) ==
  LET exact == {i \in DOMAIN slots : slots[i].start = addr}
      below == {i \in DOMAIN slots : slots[i].start < addr}
      found == IF exact # {} THEN exact
               ELSE {i \in below : \A j \in below : j <= i}
  IN {i \in found : addr <= slots[i].end}

(* Peripherals::read of size bytes at offset in a word whose peripheral    *)
(* returns value: shifted down, the bytes above the access not masked off. *)
LoadLanes(value, offset) == Shr(value, 8 * offset)

(* The word a part store would make if the rest were taken as zero. *)
StoreLanesAlone(old, offset, size, value) ==
  Shl(value, 8 * offset) \cap LaneMask(offset, size)

(* Peripherals::write: the word a store hands to the peripheral, old being *)
(* what Peripherals::read(addr, 4) returned for a store of a part.         *)
StoreLanes(old, offset, size, value) ==
  IF size = 4 THEN value
  ELSE LET mask == LaneMask(offset, size)
       IN (old \ mask) \cup (Shl(value, 8 * offset) \cap mask)

(* bitbanding: the byte and the bit an alias address stands for, both       *)
(* relative to the bases of the two regions.                               *)
BitBand(alias) == [addr |-> alias \div 32, bit |-> (alias % 32) \div 4]

(* The byte a bit-band store writes back, from the byte it read.  The code *)
(* keeps only the addressed bit of the byte (v &= 1 << bit) before it sets *)
(* it from the value, where clearing it was meant.                         *)
BitBandByte(byte, bit, one) == (byte \cap {bit}) \cup (IF one THEN {bit} ELSE {})
=============================================================================
