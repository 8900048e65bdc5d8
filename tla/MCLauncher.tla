----------------------------- MODULE MCLauncher -----------------------------
(* Launcher on a small instance. *)
EXTENDS Launcher
=============================================================================
