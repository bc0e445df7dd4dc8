-------------------------- MODULE MCConfiguration --------------------------
(* Small instances of Configuration for TLC. *)
EXTENDS Configuration, TLC
=============================================================================
