----------------------------- MODULE MCJellyBench -----------------------------
(* Durations, samples and symmetry for checking JellyBench with TLC. *)
EXTENDS JellyBench, TLC

MCSetDurations == {0, 1}
MCStepDurations == {0}
MCSamples == {1}

\* No property tells one address, or one WAL, from another.
Symmetry == Permutations(Request) \cup Permutations(WAL)
=============================================================================
