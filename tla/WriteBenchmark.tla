---------------------------- MODULE WriteBenchmark ----------------------------
(***************************************************************************)
(* The write benchmark (Write/WriteBenchmark.cpp): one thread that paces   *)
(* calls of IWriteBackend::Set to a configured rate, gives the backend     *)
(* time in IWriteBackend::Update, samples memory and disk usage on two     *)
(* timers, sleeps a millisecond, and reports when the run time is over.    *)
(*                                                                         *)
(* Time is counted in ticks of std::chrono::steady_clock with the origin   *)
(* at startTime.  Every step of the loop takes a time drawn from           *)
(* StepDurations (SetDurations for a call of Set), so a step may be        *)
(* instantaneous, slow, or stalled, as the constants say.  pending is a    *)
(* double counting writes in the code; here it counts 1/MicrosPerSecond-th *)
(* parts of a write and is exact.                                          *)
(*                                                                         *)
(* The module says nothing of what the backend does: the modules that      *)
(* compose the loop with a backend conjoin IssueWrite, UpdateBackend and   *)
(* SampleDisk with the backend's own handlers.                             *)
(***************************************************************************)
EXTENDS Integers, Timer

CONSTANTS
  WriteRate,        \* m_writeRate, blobs per second
  RunSeconds,       \* m_writeRunSeconds
  MicrosPerSecond,  \* 1000000
  TicksPerMicro,    \* clock ticks per microsecond (1000 for nanoseconds)
  Uint32,           \* 2^32, the modulus of uint32_t
  SleepTicks,       \* sleep_for(milliseconds(1))
  StatsTicks,       \* statsTimer(100)
  DiskTicks,        \* diskUsageTimer(1000)
  BlobKeyCount,     \* m_blobKeyCount
  MinBlobSize,      \* m_minBlobSize
  MaxBlobSize,      \* m_maxBlobSize
  BlobCacheSize,    \* m_randomBlobCacheSize
  SetDurations,     \* ticks a call of Set may take
  StepDurations,    \* ticks any other step of the loop may take
  MemorySamples,    \* what GetCurrentMemoryUsage may return
  DiskSamples       \* what GetDiskSpaceUsed may return

PosInt == Nat \ {0}

(***************************************************************************)
(* The configurations under which the program is defined: a zero key count *)
(* divides by zero, an empty blob cache or an inverted size range is       *)
(* undefined behaviour of uniform_int_distribution, and the address of the *)
(* first byte of an empty blob does not exist.                             *)
(***************************************************************************)
ASSUME ConfigAssumption ==
  /\ WriteRate \in Nat /\ RunSeconds \in Nat
  /\ BlobKeyCount \in PosInt /\ BlobCacheSize \in PosInt
  /\ MinBlobSize \in PosInt /\ MaxBlobSize \in Nat
  /\ MinBlobSize <= MaxBlobSize

ASSUME ClockAssumption ==
  /\ MicrosPerSecond \in PosInt /\ TicksPerMicro \in PosInt
  /\ Uint32 \in PosInt
  /\ SleepTicks \in PosInt /\ StatsTicks \in PosInt /\ DiskTicks \in PosInt
  /\ SetDurations \subseteq Nat /\ StepDurations \subseteq Nat
  /\ MemorySamples \subseteq Nat /\ DiskSamples \subseteq Nat

\* Every call returns: there is a longest Set, and a longest of the other steps.
ASSUME DurationAssumption ==
  /\ \E d \in SetDurations : \A e \in SetDurations : e <= d
  /\ \E d \in StepDurations : \A e \in StepDurations : e <= d

VARIABLES
  pc,              \* the statement of the loop that runs next
  now,             \* steady_clock::now()
  prevTime,        \* clock value of the last iteration that was accounted
  pending,         \* writes owed, in 1/MicrosPerSecond-ths of a write
  numWrites,       \* uint32_t: calls of Set so far, and the next aSeq
  statsTimer,
  diskUsageTimer,
  blobs,           \* RandomBlobCache::m_blobs, each blob by its size
  startMemory,
  maxMemoryUsage,
  maxDiskUsage,
  report           \* what is printed at the end

loopVars == <<pc, now, prevTime, pending, numWrites, statsTimer,
              diskUsageTimer, blobs, startMemory, maxMemoryUsage,
              maxDiskUsage, report>>

-----------------------------------------------------------------------------
BlobKey == 0 .. BlobKeyCount - 1

BlobSize == MinBlobSize .. MaxBlobSize

RandomBlob == {blobs[i] : i \in 1 .. BlobCacheSize}

endTime == RunSeconds * MicrosPerSecond * TicksPerMicro

(***************************************************************************)
(* duration_cast<microseconds> truncates to whole microseconds; the cast   *)
(* to uint32_t then keeps the low 32 bits.                                 *)
(***************************************************************************)
Microseconds(ticks) == ticks \div TicksPerMicro

\* Mutants of MicrosSince: round up; forget that prevTime advances; count
\* whole milliseconds (the sleep is one) instead of microseconds.
MicrosSinceRoundsUp(t) == (Microseconds(now - t) + 1) % Uint32
MicrosSinceStart(t) == Microseconds(now) % Uint32
MicrosSinceInMillis(t) ==
  (((now - t) \div SleepTicks) * Microseconds(SleepTicks)) % Uint32

MicrosSince(t) == Microseconds(now - t) % Uint32

MaxOf(a, b) == IF a >= b THEN a ELSE b

NoReport == [elapsed |-> 0, numWrites |-> 0, maxMem |-> 0, maxDisk |-> 0]

-----------------------------------------------------------------------------
Init ==
  /\ pc = "loop"
  /\ now \in StepDurations
  /\ prevTime = 0
  /\ pending = 0
  /\ numWrites = 0
  /\ statsTimer = now + StatsTicks
  /\ diskUsageTimer = now + DiskTicks
  /\ blobs \in [1 .. BlobCacheSize -> BlobSize]
  /\ startMemory \in MemorySamples
  /\ maxMemoryUsage = 0
  /\ maxDiskUsage = 0
  /\ report = NoReport

(***************************************************************************)
(* The head of the loop: leave it once the run time is over, otherwise     *)
(* turn the time since the last iteration into writes that are owed.       *)
(***************************************************************************)
\* Mutant of RunOver: the loop ends only when it hits endTime exactly.
RunOverExactly(d) ==
  /\ pc = "loop"
  /\ now = endTime
  /\ pc' = "report"
  /\ now' = now + d
  /\ UNCHANGED <<prevTime, pending, numWrites, statsTimer, diskUsageTimer,
                 blobs, startMemory, maxMemoryUsage, maxDiskUsage, report>>

RunOver(d) ==
  /\ pc = "loop"
  /\ now >= endTime
  /\ pc' = "report"
  /\ now' = now + d
  /\ UNCHANGED <<prevTime, pending, numWrites, statsTimer, diskUsageTimer,
                 blobs, startMemory, maxMemoryUsage, maxDiskUsage, report>>

Account(d) ==
  /\ pc = "loop"
  /\ now < endTime
  /\ pc' = "writes"
  /\ prevTime' = now
  /\ pending' = pending + MicrosSince(prevTime) * WriteRate
  /\ now' = now + d
  /\ UNCHANGED <<numWrites, statsTimer, diskUsageTimer, blobs, startMemory,
                 maxMemoryUsage, maxDiskUsage, report>>

(***************************************************************************)
(* One turn of the catch-up loop, with the call of Set inside it.  Neither *)
(* the deadline nor the backend's timer is looked at between two writes.   *)
(***************************************************************************)
IssueWrite(d) ==
  /\ pc = "writes"
  /\ pending > 0
  /\ pending' = pending - MicrosPerSecond
  /\ numWrites' = (numWrites + 1) % Uint32
  /\ now' = now + d
  /\ UNCHANGED <<pc, prevTime, statsTimer, diskUsageTimer, blobs, startMemory,
                 maxMemoryUsage, maxDiskUsage, report>>

UpdateBackend(d) ==
  /\ pc = "writes"
  /\ pending <= 0
  /\ pc' = "stats"
  /\ now' = now + d
  /\ UNCHANGED <<prevTime, pending, numWrites, statsTimer, diskUsageTimer,
                 blobs, startMemory, maxMemoryUsage, maxDiskUsage, report>>

(***************************************************************************)
(* statsTimer and diskUsageTimer: the maxima are kept.                     *)
(***************************************************************************)
\* Mutant of SampleMemory: std::min for std::max.
SampleMemoryMin(d) ==
  /\ pc = "stats"
  /\ pc' = "disk"
  /\ \/ /\ HasExpired(statsTimer, now)
        /\ statsTimer' \in Rearmed(statsTimer, now, StatsTicks)
        /\ \E m \in MemorySamples :
             maxMemoryUsage' = IF m < maxMemoryUsage THEN m ELSE maxMemoryUsage
     \/ /\ ~HasExpired(statsTimer, now)
        /\ UNCHANGED <<statsTimer, maxMemoryUsage>>
  /\ now' = now + d
  /\ UNCHANGED <<prevTime, pending, numWrites, diskUsageTimer, blobs,
                 startMemory, maxDiskUsage, report>>

SampleMemory(d) ==
  /\ pc = "stats"
  /\ pc' = "disk"
  /\ \/ /\ HasExpired(statsTimer, now)
        /\ statsTimer' \in Rearmed(statsTimer, now, StatsTicks)
        /\ \E m \in MemorySamples : maxMemoryUsage' = MaxOf(maxMemoryUsage, m)
     \/ /\ ~HasExpired(statsTimer, now)
        /\ UNCHANGED <<statsTimer, maxMemoryUsage>>
  /\ now' = now + d
  /\ UNCHANGED <<prevTime, pending, numWrites, diskUsageTimer, blobs,
                 startMemory, maxDiskUsage, report>>

SampleDisk(diskUsage, d) ==
  /\ pc = "disk"
  /\ HasExpired(diskUsageTimer, now)
  /\ pc' = "sleep"
  /\ diskUsageTimer' \in Rearmed(diskUsageTimer, now, DiskTicks)
  /\ maxDiskUsage' = MaxOf(maxDiskUsage, diskUsage)
  /\ now' = now + d
  /\ UNCHANGED <<prevTime, pending, numWrites, statsTimer, blobs, startMemory,
                 maxMemoryUsage, report>>

SkipDisk(d) ==
  /\ pc = "disk"
  /\ ~HasExpired(diskUsageTimer, now)
  /\ pc' = "sleep"
  /\ now' = now + d
  /\ UNCHANGED <<prevTime, pending, numWrites, statsTimer, diskUsageTimer,
                 blobs, startMemory, maxMemoryUsage, maxDiskUsage, report>>

\* sleep_for blocks for at least the millisecond it is given.
Sleep(d) ==
  /\ pc = "sleep"
  /\ pc' = "loop"
  /\ now' = now + SleepTicks + d
  /\ UNCHANGED <<prevTime, pending, numWrites, statsTimer, diskUsageTimer,
                 blobs, startMemory, maxMemoryUsage, maxDiskUsage, report>>

(***************************************************************************)
(* The summary.  maxMemoryUsage - startMemory is a size_t difference that  *)
(* is cast to uint32_t, so a negative one wraps around.                    *)
(***************************************************************************)
\* Mutant of Report: the difference is cast to a signed int.
ReportSigned ==
  /\ pc = "report"
  /\ pc' = "done"
  /\ report' = [elapsed   |-> MicrosSince(0),
                numWrites |-> numWrites,
                maxMem    |-> maxMemoryUsage - startMemory,
                maxDisk   |-> maxDiskUsage % Uint32]
  /\ UNCHANGED <<now, prevTime, pending, numWrites, statsTimer,
                 diskUsageTimer, blobs, startMemory, maxMemoryUsage,
                 maxDiskUsage>>

Report ==
  /\ pc = "report"
  /\ pc' = "done"
  /\ report' = [elapsed   |-> MicrosSince(0),
                numWrites |-> numWrites,
                maxMem    |-> (maxMemoryUsage - startMemory) % Uint32,
                maxDisk   |-> maxDiskUsage % Uint32]
  /\ UNCHANGED <<now, prevTime, pending, numWrites, statsTimer,
                 diskUsageTimer, blobs, startMemory, maxMemoryUsage,
                 maxDiskUsage>>

Next ==
  \/ \E d \in SetDurations : IssueWrite(d)
  \/ \E d \in StepDurations :
       \/ RunOver(d)
       \/ Account(d)
       \/ UpdateBackend(d)
       \/ SampleMemory(d)
       \/ \E diskUsage \in DiskSamples : SampleDisk(diskUsage, d)
       \/ SkipDisk(d)
       \/ Sleep(d)
  \/ Report

Spec == Init /\ [][Next]_loopVars

(***************************************************************************)
(* The loop is a single thread that never blocks on anything but the sleep *)
(* and calls that return: it always takes its next step.                   *)
(***************************************************************************)
FairSpec == Spec /\ WF_loopVars(Next)
-----------------------------------------------------------------------------
(***************************************************************************)
(* Properties                                                              *)
(***************************************************************************)
\* Every loop variable holds a value its C++ type and the loop allow.
TypeOK ==
  /\ pc \in {"loop", "writes", "stats", "disk", "sleep", "report", "done"}
  /\ now \in Nat
  /\ prevTime \in Nat
  /\ pending \in Int
  /\ numWrites \in 0 .. Uint32 - 1
  /\ statsTimer \in Nat
  /\ diskUsageTimer \in Nat
  /\ blobs \in [1 .. BlobCacheSize -> BlobSize]
  /\ startMemory \in Nat
  /\ maxMemoryUsage \in Nat
  /\ maxDiskUsage \in Nat
  /\ report \in [{"elapsed", "numWrites", "maxMem", "maxDisk"}
                  -> 0 .. Uint32 - 1]

\* The writes issued and still owed, in the unit of pending.
Accounted == numWrites * MicrosPerSecond + pending

(***************************************************************************)
(* The loop never runs ahead of the configured rate: what has been issued  *)
(* or is owed is at most the rate times the time accounted, whatever the   *)
(* calls cost, however the clock is truncated and wherever uint32_t wraps. *)
(* (pending is above minus one write: the loop issues at most one write    *)
(* early.)  The accounting lines of the loop head and of the catch-up loop *)
(* have to agree for this.                                                 *)
(***************************************************************************)
NeverAheadOfRate ==
  /\ prevTime <= now
  /\ -MicrosPerSecond < pending
  /\ TicksPerMicro * Accounted <= WriteRate * prevTime

\* The run is still too short for numWrites to have wrapped around.
BeforeWrap ==
  WriteRate * prevTime <= (Uint32 - 1) * MicrosPerSecond * TicksPerMicro

\* Nor has a uint32_t count of microseconds.
NoCounterWrapped ==
  /\ prevTime < Uint32 * TicksPerMicro
  /\ BeforeWrap

(***************************************************************************)
(* The steady rate of the README: each iteration drops the fraction of a   *)
(* microsecond that duration_cast truncates, but since it also sleeps, the *)
(* shortfall of writes is at most that fraction of a sleep, however long   *)
(* the run is.                                                             *)
(***************************************************************************)
DriftBounded ==
  NoCounterWrapped =>
    SleepTicks * (WriteRate * prevTime - TicksPerMicro * Accounted)
      <= WriteRate * (TicksPerMicro - 1) * (prevTime + SleepTicks)

Longest(durations) == CHOOSE d \in durations : \A e \in durations : e <= d

SetTime == Longest(SetDurations)

StepTime == Longest(StepDurations)

Second == MicrosPerSecond * TicksPerMicro

\* The ticks of a second that are left when the writes it owes are made.
Headroom == Second - SetTime * WriteRate

\* An iteration has five steps beside the writes and the sleep, and one write
\* more than it owes.
OwnTime == 5 * StepTime + SleepTicks + SetTime

(***************************************************************************)
(* If the backend's Set is fast enough to sustain the rate, t is at most n *)
(* iterations long, with (W + S) / (1 - S * rate) for one of them, where S *)
(* is the cost of a Set and W that of everything else in an iteration.     *)
(***************************************************************************)
WithinIterations(n, t) ==
  Headroom > 0 => t * Headroom <= n * (OwnTime * Second)

(***************************************************************************)
(* If the backend's Set is fast enough to sustain the rate, catching up    *)
(* never snowballs: the time between two loop heads stays bounded.         *)
(***************************************************************************)
IterationBounded == pc = "loop" => WithinIterations(1, now - prevTime)

(***************************************************************************)
(* The rate a reader computes from the printed num_writes and elapsed is   *)
(* never above the configured one by more than the write issued early, as  *)
(* long as the elapsed microseconds fit the uint32_t they are printed as.  *)
(***************************************************************************)
ReportedRateHonest ==
  pc = "done" /\ now < Uint32 * TicksPerMicro =>
    (report.numWrites - 1) * MicrosPerSecond < WriteRate * report.elapsed

(***************************************************************************)
(* A run whose last iteration began after the first period of statsTimer   *)
(* has sampled the memory: maxMemoryUsage is a sample and not its initial  *)
(* zero, from which the printed max_mem would wrap around.                 *)
(***************************************************************************)
MemorySampled ==
  /\ pc \in {"report", "done"}
  /\ prevTime >= StepTime + StatsTicks
  => maxMemoryUsage \in MemorySamples

\* The benchmark ends: the catch-up loop and the run itself terminate.
Termination == <>(pc = "done")
=============================================================================
