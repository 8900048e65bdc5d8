---------------------------- MODULE MCEmulation -----------------------------
(* Emulation on a small instance: places in sectors 4, 5 and 16. *)
EXTENDS Emulation
ThreePlaces == {100, 128, 1024}
OnePersistent == {128}
Sectors == {4, 5, 12}
=============================================================================
