\* Every caller: any key with any sequence number in any order, three accepted
\* writes in a run, and the process or the machine may go down at any step.
CONSTANTS
  Key = {k1, k2}
  Blob = {b1, b2}
  SeqNo <- MCSeqNo
  None = None
  MaxSets = 3
  Compression = "none"
  DefaultCompression = "snappy"
SPECIFICATION Spec
INVARIANTS
  TypeOK
  OpensWhateverWasLeft
  TornAtMostOnce
PROPERTY TwoPutStoreUntilReadFails
