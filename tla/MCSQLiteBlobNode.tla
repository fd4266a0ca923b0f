--------------------------- MODULE MCSQLiteBlobNode ---------------------------
(* Sequence numbers for checking SQLiteBlobNode with TLC. *)
EXTENDS SQLiteBlobNode

MCSeqNo == 0 .. 2
=============================================================================
