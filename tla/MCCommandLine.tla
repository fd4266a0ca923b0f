---------------------------- MODULE MCCommandLine ----------------------------
(* Texts for checking CommandLine with TLC: " -1" begins with a blank. *)
EXTENDS CommandLine

MCText == {"blob_key_count", "write_backend", "write_run_seconds",
           "compression_method", "sqlite", "20000", " -1"}

\* 0 for a text that is no number.
MCatoi ==
  [t \in MCText |->
     CASE t = " -1" -> -1 [] t = "20000" -> 20000 [] OTHER -> 0]
=============================================================================
