\* A second is four microseconds of two ticks, a sleep two microseconds, so
\* truncation and catch-up happen; numWrites wraps around, a stalled step and
\* the elapsed time of a stalled run do, that of another run does not.
CONSTANTS
  WriteRate = 6
  RunSeconds = 2
  MicrosPerSecond = 4
  TicksPerMicro = 2
  Uint32 = 10
  SleepTicks = 4
  StatsTicks = 200
  DiskTicks = 200
  BlobKeyCount = 1
  MinBlobSize = 1
  MaxBlobSize = 1
  BlobCacheSize = 1
  MicrosPerClkTck = 2
  Threads = 1
  UsedBefore <- MCUsedBefore
  SetDurations <- MCSetDurations
  StepDurations <- MCStallDurations
  MemorySamples <- MCSamples
  DiskSamples <- MCSamples
SPECIFICATION StatsSpec
INVARIANTS
  NeverAheadOfRate
  CpuWithinElapsed
CHECK_DEADLOCK FALSE
