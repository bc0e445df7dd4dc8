---------------------- MODULE MCModbusClientRefinement ----------------------
(* Small instances of ModbusClientRefinement for TLC. *)
EXTENDS ModbusClientRefinement, TLC

OwnerSymmetry == Permutations(Owners)
=============================================================================
