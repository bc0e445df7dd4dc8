------------------------ MODULE MCSerialModbusClient ------------------------
(* Small instances of SerialModbusClient for TLC. *)
EXTENDS SerialModbusClient, TLC

OwnerSymmetry == Permutations(Owners)
=============================================================================
