---------------------------- MODULE MCCyclicRemove ----------------------------
(* A size_t just wide enough for the vectors that TLC enumerates. *)
EXTENDS CyclicRemove

MCSizeModulus == MaxRequests + 2
=============================================================================
