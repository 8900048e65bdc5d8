------------------------------ MODULE MCEcuIo -------------------------------
(* EcuIo on a small instance: both pins on lines of the shared interrupt 23. *)
EXTENDS EcuIo
TwoLines == [din |-> 7, wheel |-> 6]
OnePort == [din |-> 2, wheel |-> 2]
TwoOutputs == {"ls1", "ign1"}
Speeds == {0, 2}
=============================================================================
