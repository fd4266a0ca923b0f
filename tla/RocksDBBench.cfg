\* A second is seven microseconds of two ticks, a sleep one microsecond,
\* the run one second; every Set takes a tick.  Four writes of two blobs to two
\* keys fall due, several flushes, each of which may fail, and a wrap-around of
\* numWrites with writes dropped after it.
CONSTANTS
  WriteRate = 5
  RunSeconds = 1
  MicrosPerSecond = 7
  TicksPerMicro = 2
  Uint32 = 3
  SleepTicks = 2
  StatsTicks = 100
  DiskTicks = 12
  BlobKeyCount = 2
  MinBlobSize = 1
  MaxBlobSize = 2
  BlobCacheSize = 2
  FlushTicks = 3
  None = None
  MaxSets = 16
  Compression = "none"
  DefaultCompression = "snappy"
  SetDurations <- MCSetDurations
  StepDurations <- MCStepDurations
  MemorySamples <- MCSamples
  DiskSamples <- MCSamples
SPECIFICATION BenchSpec
INVARIANTS
  PrefixButOneBlob
  LogicalBytesArePut
  LossWindow
CHECK_DEADLOCK FALSE
