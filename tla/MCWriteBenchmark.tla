--------------------------- MODULE MCWriteBenchmark ---------------------------
(* Durations and samples for checking WriteBenchmark with TLC. *)
EXTENDS WriteBenchmark

MCSetDurations == {0, 1}
\* Every step is instantaneous or takes one tick, half a microsecond.
MCSteadyDurations == {0, 1}
MCMemorySamples == {1, 2}
MCDiskSamples == {1}
=============================================================================
