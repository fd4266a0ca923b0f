---------------------------- MODULE MCProcessStats ----------------------------
(* Durations, samples and processor times for checking ProcessStats with TLC. *)
EXTENDS ProcessStats

MCSetDurations == {0}
\* A step may stall for longer than Uint32 microseconds.
MCStallDurations == {0, 1, 21}
MCSamples == {1}
MCUsedBefore == {11}
=============================================================================
