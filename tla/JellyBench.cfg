\* As RocksDBBench.cfg: numWrites wraps around, and the period of the timer is
\* longer than one iteration and shorter than two.
CONSTANTS
  WriteRate = 2
  RunSeconds = 2
  MicrosPerSecond = 4
  TicksPerMicro = 2
  Uint32 = 3
  SleepTicks = 2
  StatsTicks = 100
  DiskTicks = 10
  BlobKeyCount = 2
  MinBlobSize = 1
  MaxBlobSize = 1
  BlobCacheSize = 1
  ProcessTicks = 3
  None = None
  Request = {r1, r2, r3, r4}
  WAL = {w1, w2}
  SetDurations <- MCSetDurations
  StepDurations <- MCStepDurations
  MemorySamples <- MCSamples
  DiskSamples <- MCSamples
SPECIFICATION BenchSpec
SYMMETRY Symmetry
INVARIANTS
  OutdatedOnlyAfterWrap
  HandedOverInTime
  ReleasedInTime
CHECK_DEADLOCK FALSE
