------------------------- MODULE MCRingAccumulator -------------------------
(* RingAccumulator on small instances: values for the set constants. *)
EXTENDS RingAccumulator

MCPausesWithZero == {0, 2}
MCOnePause == {1}
MCRoundings == {-1, 0}
MCExact == {0}
=============================================================================
