--------------------------- MODULE MCPeripherals ---------------------------
(* Peripherals with an eight-byte flash chip and a three by two panel. *)
EXTENDS Peripherals
MCJedec == <<0, 239, 64, 22>>
MCMessages == {<<159, 0, 0, 0, 0, 0>>, <<3, 0, 0, 6, 255, 255, 0, 0>>, <<3, 0, 0, 9, 0, 0>>}
MCIdReply == <<1, 2>>
MCSvd == <<[start |-> 1, end |-> 4], [start |-> 30, end |-> 45],
           [start |-> 4, end |-> 6], [start |-> 10, end |-> 12]>>
=============================================================================
