-------------------------------- MODULE Adc --------------------------------
(***************************************************************************)
(* One ADC (src/peripherals/adc.rs).  Every read of DR converts the next   *)
(* channel of the regular sequence on the spot; SWSTART starts the         *)
(* sequence again, a write of the sequence registers does not.             *)
(***************************************************************************)
EXTENDS Integers, Sequences

(* sequence is SQR1..SQR3: the channels to convert, one to sixteen of them. *)
NewAdc == [sequence |-> <<0>>, index |-> 0, eoc |-> FALSE, cr2 |-> FALSE]

(* millivolts_to_counts *)
Counts(mv) ==
  LET clamped == IF mv < 0 THEN 0 ELSE IF mv > 3300 THEN 3300 ELSE mv
  IN (clamped * 4095) \div 3300

NumChannels(a) == Len(a.sequence)

(* next_conversion_value: channels above fifteen have no pin and read 0. *)
ChannelNow(a) == a.sequence[(a.index % NumChannels(a)) + 1]

Converted(a, mv) == IF ChannelNow(a) < 16 THEN Counts(mv[ChannelNow(a)]) ELSE Counts(0)

(* A step that does not come back to the first channel. *)
SteppedLate(a) == [a EXCEPT !.index = (@ + 1) % (NumChannels(a) + 1)]

Stepped(a) == [a EXCEPT !.index = (@ + 1) % NumChannels(a)]

(* register_read of DR; a DMA read of two bytes does not set EOC. *)
ReadDr(a) == [Stepped(a) EXCEPT !.eoc = TRUE]

(* register_write of CR2, SR and the sequence registers. *)
WriteCr2(a, swstart) == [a EXCEPT !.cr2 = swstart, !.index = IF swstart THEN 0 ELSE @]

ClearSr(a) == [a EXCEPT !.eoc = FALSE]

WriteSequence(a, sequence) == [a EXCEPT !.sequence = sequence]

(* dma_read_bytes of one sample, least significant byte first. *)
DmaBytes(value) == <<value % 256, (value \div 256) % 256>>
=============================================================================
