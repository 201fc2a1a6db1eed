------------------------------ MODULE MCMetrics ------------------------------
(* Two bounds; durations on and next to a bound, beyond both, and beyond a  *)
(* word of four bits.                                                       *)
EXTENDS Metrics

MCBounds == <<2, 5>>
MCDurations == {2, 3, 6, 20}
=============================================================================
