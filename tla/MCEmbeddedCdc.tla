---------------------------- MODULE MCEmbeddedCdc ---------------------------
(* EmbeddedCdc on a small instance.                                         *)
EXTENDS EmbeddedCdc
CONSTANTS t1, t2
TwoReaders == {t1, t2}
=============================================================================
