------------------------------ MODULE MCGuided ------------------------------
(* Small instances of Guided for TLC. *)
EXTENDS Guided
=============================================================================
