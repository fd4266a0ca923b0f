-------------------------- MODULE MCRocksDBBlobNode --------------------------
(* Sequence numbers for checking RocksDBBlobNode with TLC. *)
EXTENDS RocksDBBlobNode

MCSeqNo == 0 .. 1
=============================================================================
