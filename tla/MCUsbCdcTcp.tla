---------------------------- MODULE MCUsbCdcTcp -----------------------------
(* UsbCdcTcp on small instances.                                            *)
EXTENDS UsbCdcTcp
CONSTANTS c1, c2
TwoClients == {c1, c2}
=============================================================================
