----------------------------- MODULE MCUsbStack -----------------------------
(* UsbStack on a small instance; its constants need no definitions.         *)
EXTENDS UsbStack
=============================================================================
