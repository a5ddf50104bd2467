---------------------------- MODULE MCSpiHandler ----------------------------
(* A small instance of SpiHandler: room for a Golay block and a byte more on the wireless *)
(* side, buffers of two bytes on the device side.                                         *)
EXTENDS SpiHandler

BothSides(w, d) == [s \in Slaves |-> IF s = Wireless THEN w ELSE d]

SmallFifos == BothSides(7, 2)
SmallQueues == BothSides(8, 3)
MixedLoads == {BothSides(4, 0), BothSides(0, 5), BothSides(2, 2)}

\* After the first cut Golay block nothing is known of the bytes any more.
BlocksWhole == ~misaligned

=============================================================================
