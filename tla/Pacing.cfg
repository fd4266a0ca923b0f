\* A second is four microseconds of two ticks, a sleep two microseconds, so
\* truncation and catch-up happen.  Uint32 is large enough that
\* NoCounterWrapped holds throughout and nothing is excused by it; only the
\* printed elapsed can wrap around, at the end of a late last iteration.
CONSTANTS
  WriteRate = 3
  RunSeconds = 3
  MicrosPerSecond = 4
  TicksPerMicro = 2
  Uint32 = 16
  SleepTicks = 4
  StatsTicks = 5
  DiskTicks = 9
  BlobKeyCount = 1
  MinBlobSize = 1
  MaxBlobSize = 1
  BlobCacheSize = 1
  SetDurations <- MCSetDurations
  StepDurations <- MCSteadyDurations
  MemorySamples <- MCMemorySamples
  DiskSamples <- MCDiskSamples
SPECIFICATION FairSpec
INVARIANTS
  TypeOK
  DriftBounded
  IterationBounded
  MemorySampled
  ReportedRateHonest
PROPERTY Termination
CHECK_DEADLOCK FALSE
