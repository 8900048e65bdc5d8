------------------------------- MODULE MCDma --------------------------------
(* Values for the constants of Dma that a .cfg cannot write as they stand.  *)
EXTENDS Dma

\* One stream of each status register: stream 1 has the lowest reachable CR,
\* stream 6 lies beyond the reserved bits of HISR.
TwoStreams == {1, 6}
LastStream == {6}
StreamZero == {0}
Reads == {"read"}
Both == {"read", "write"}
=============================================================================
