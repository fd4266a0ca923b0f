---------------------------- MODULE MCSQLiteBench ----------------------------
(* Durations and samples for checking SQLiteBench with TLC. *)
EXTENDS SQLiteBench

MCSetDurations == {1}
MCStepDurations == {0, 1}
MCSamples == {1}
=============================================================================
