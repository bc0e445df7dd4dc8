----------------------------- MODULE MCFirmware -----------------------------
(* Small instances of Firmware for TLC. *)
EXTENDS Firmware

SmallThresholds == [c \in Channels |-> 3]
SmallOffsets == [c \in Channels |-> c]
=============================================================================
