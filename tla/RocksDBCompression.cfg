\* Compression disabled, in a build whose RocksDB has snappy: the default of
\* ColumnFamilyOptions is then snappy.
CONSTANTS
  Key = {k1}
  Blob = {b1}
  SeqNo <- MCSeqNo
  None = None
  MaxSets = 1
  Compression = "none"
  DefaultCompression = "snappy"
SPECIFICATION Spec
INVARIANT CompressionAsConfigured
