---------------------------- MODULE MCRocksDBBench ----------------------------
(* Durations and samples for checking RocksDBBench with TLC. *)
EXTENDS RocksDBBench

MCSetDurations == {1}
MCStepDurations == {0}
MCSamples == {1}
=============================================================================
