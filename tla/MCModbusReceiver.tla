-------------------------- MODULE MCModbusReceiver --------------------------
(* Small instances of ModbusReceiver for TLC. *)
EXTENDS ModbusReceiver, TLC

\* One that fits MaxADU = 3, and one that does not.
Lengths == {2, 4}

\* With MaxADU = 2: a full chunk, an interrupt for the rest, and an overflow.
LongLengths == {3}
=============================================================================
