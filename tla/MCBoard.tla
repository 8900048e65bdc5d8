------------------------------ MODULE MCBoard -------------------------------
(* Values for the constants of Board that a .cfg cannot write as they stand. *)
EXTENDS Board

\* Two streams of DMA2; the lower one has the interrupt of higher priority.
TwoStreams == {4, 6}
=============================================================================
