----------------------------- MODULE ProcessStats -----------------------------
(***************************************************************************)
(* The process statistics in the report of the write benchmark             *)
(* (ProcessMonitor.cpp, Write/WriteBenchmark.cpp): GetStats is called once *)
(* after startTime and once before the elapsed time is taken, and the      *)
(* report shows the differences.                                           *)
(*                                                                         *)
(* times() counts processor time in whole units of 1/_SC_CLK_TCK seconds,  *)
(* kernel and user time apart.  Here the process uses a share of every     *)
(* step of the loop, on up to Threads processors, in the kernel or out of  *)
(* it, and has used some before startTime.  The counters of writes are     *)
(* left out: they are differences of the same two readings.                *)
(***************************************************************************)
EXTENDS WriteBenchmark

CONSTANTS
  MicrosPerClkTck,  \* 1000000 / sysconf(_SC_CLK_TCK)
  Threads,          \* threads of the process that run at the same time
  UsedBefore        \* ticks of processor time the process may have used before

ASSUME StatsAssumption ==
  /\ MicrosPerClkTck \in PosInt
  /\ Threads \in PosInt
  /\ UsedBefore \subseteq Nat

VARIABLES
  kernelTime,  \* processor time of the process, in ticks of the clock
  userTime,
  startStats,
  endStats,
  cpuReport    \* the printed kernel and user

statsVars == <<kernelTime, userTime, startStats, endStats, cpuReport>>

-----------------------------------------------------------------------------
\* Microseconds of processor time as times() counts it.
Counted(ticks) ==
  (Microseconds(ticks) \div MicrosPerClkTck) * MicrosPerClkTck

GetStats(kernel, user) == [kernel |-> Counted(kernel), user |-> Counted(user)]

NoStats == [kernel |-> 0, user |-> 0]

\* What the process may have used of a time of t ticks.
Used(t) == {<<0, 0>>, <<0, Threads * t>>, <<Threads * t, 0>>}

(***************************************************************************)
(* startStats is read before the loop, at a time between startTime and     *)
(* the first statement of the loop.                                        *)
(***************************************************************************)
\* Mutant of StartStats: the counters of the whole process are reported.
StartStatsZero(kernel, user) == startStats = NoStats

StartStats(kernel, user) == startStats = GetStats(kernel, user)

StatsInit ==
  /\ Init
  /\ kernelTime \in UsedBefore /\ userTime \in UsedBefore
  /\ StartStats(kernelTime, userTime)
  /\ endStats = NoStats
  /\ cpuReport = NoStats

\* Time passes in a step of the loop, and the process uses some of it.
UsesTime ==
  \E used \in Used(now' - now) :
    /\ kernelTime' = kernelTime + used[1]
    /\ userTime' = userTime + used[2]

\* Every step of the loop but the last two.
Run ==
  /\ pc # "report"
  /\ \/ \E d \in SetDurations : IssueWrite(d)
     \/ \E d \in StepDurations :
          \/ Account(d)
          \/ UpdateBackend(d)
          \/ SampleMemory(d)
          \/ \E diskUsage \in DiskSamples : SampleDisk(diskUsage, d)
          \/ SkipDisk(d)
          \/ Sleep(d)
  /\ UsesTime
  /\ UNCHANGED <<startStats, endStats, cpuReport>>

\* The loop ends and endStats is read, before the clock is for the last time.
LeaveLoop ==
  /\ \E d \in StepDurations : RunOver(d)
  /\ UsesTime
  /\ endStats' = GetStats(kernelTime', userTime')
  /\ UNCHANGED <<startStats, cpuReport>>

\* The differences, as uint32_t.
PrintReport ==
  /\ Report
  /\ cpuReport' = [c \in {"kernel", "user"} |->
                     (endStats[c] - startStats[c]) % Uint32]
  /\ UNCHANGED <<kernelTime, userTime, startStats, endStats>>

StatsNext ==
  \/ Run
  \/ LeaveLoop
  \/ PrintReport

StatsSpec == StatsInit /\ [][StatsNext]_<<loopVars, statsVars>>
-----------------------------------------------------------------------------
(***************************************************************************)
(* Properties                                                              *)
(***************************************************************************)
(***************************************************************************)
(* The report charges the run with no more processor time than its threads *)
(* can have used while it lasted: "total" is at most "elapsed" for each of *)
(* them, but for the unit of times() that either counter may round up and  *)
(* the truncated microsecond, and what the process used before does not    *)
(* count.  The order of the readings at both ends of the run has to fit    *)
(* for this.                                                               *)
(***************************************************************************)
CpuWithinElapsed ==
  pc = "done" /\ now < Uint32 * TicksPerMicro =>
    cpuReport.kernel + cpuReport.user
      < Threads * (report.elapsed + 1) + 2 * MicrosPerClkTck
=============================================================================
