---------------------------- MODULE MCAppMonitor ----------------------------
(* Small instances of AppMonitor for TLC. *)
EXTENDS AppMonitor, TLC
=============================================================================
