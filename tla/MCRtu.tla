------------------------------- MODULE MCRtu -------------------------------
(* Small instances of Rtu for TLC. *)
EXTENDS Rtu

MCThresholds == [c \in Channels |-> IF c = Ambient THEN 400 ELSE 600]
\* The smallest temperature there is, in the registers FE70.
Frost == -400
ColdestMinusOne == -401
\* The five blocks, and a read across a gap.
MCReads == {<<0, 5>>, <<9, 4>>, <<19, 2>>, <<29, 3>>, <<39, 2>>, <<4, 2>>}
MCWrites == {<<10, 600>>, <<10, Frost>>, <<10, ColdestMinusOne>>, <<4, 600>>}
MCSamples == {<<1, Frost>>}
MCVersion == <<0, 2>>
=============================================================================
