\* A second is four microseconds of two ticks, a sleep one microsecond, the
\* flush period three ticks; the run is long enough for several flushes, for
\* numWrites to wrap around and for LossWindow's bound to be exceeded.
CONSTANTS
  WriteRate = 2
  RunSeconds = 3
  MicrosPerSecond = 4
  TicksPerMicro = 2
  Uint32 = 4
  SleepTicks = 2
  StatsTicks = 100
  DiskTicks = 20
  BlobKeyCount = 2
  MinBlobSize = 1
  MaxBlobSize = 1
  BlobCacheSize = 1
  FlushTicks = 3
  None = None
  SetDurations <- MCSetDurations
  StepDurations <- MCStepDurations
  MemorySamples <- MCSamples
  DiskSamples <- MCSamples
SPECIFICATION BenchSpec
INVARIANTS
  StaleOnlyAfterWrap
  LossWindow
  FileIsPrefix
CHECK_DEADLOCK FALSE
