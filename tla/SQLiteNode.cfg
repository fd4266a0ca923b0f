\* Every caller: any key with any sequence number in any order.
CONSTANTS
  Key = {k1, k2}
  Blob = {b1, b2}
  None = None
  SeqNo <- MCSeqNo
SPECIFICATION Spec
INVARIANTS
  TypeOK
  TransactionsPair
  LatestBlobWins
PROPERTY ImplementsBlobStore
