------------------------- MODULE WriteBenchmarkProofs -------------------------
(***************************************************************************)
(* Proofs about the pacing loop of WriteBenchmark, for every configuration *)
(* and all durations that its assumptions allow.                           *)
(***************************************************************************)
EXTENDS WriteBenchmark, TLAPS

(***************************************************************************)
(* Arithmetic                                                              *)
(***************************************************************************)
\* Integer division by a positive number: the quotient and its remainder.
LEMMA Quotient ==
  ASSUME NEW a \in Int, NEW t \in PosInt
  PROVE  /\ a \div t \in Int
         /\ t * (a \div t) <= a
         /\ a <= t * (a \div t) + (t - 1)
BY DEF PosInt

\* A non-negative dividend has a non-negative quotient.
LEMMA QuotientNat ==
  ASSUME NEW a \in Nat, NEW t \in PosInt
  PROVE  a \div t \in Nat
BY DEF PosInt

\* What uint32_t keeps of a number lies in its range.
LEMMA Wrapped ==
  ASSUME NEW a \in Int, NEW u \in PosInt
  PROVE  a % u \in 0 .. u - 1
BY DEF PosInt

\* It never exceeds a natural number, and keeps one that is in range.
LEMMA WrappedNat ==
  ASSUME NEW a \in Nat, NEW u \in PosInt
  PROVE  /\ a % u \in Nat
         /\ a % u <= a
         /\ a < u => a % u = a
BY DEF PosInt

\* Multiplication by a natural number is monotonic.
LEMMA Monotonic ==
  ASSUME NEW a \in Int, NEW b \in Int, NEW c \in Nat, a <= b
  PROVE  c * a <= c * b
OBVIOUS

\* A positive factor can be cancelled.
LEMMA Cancel ==
  ASSUME NEW a \in Int, NEW b \in Int, NEW c \in PosInt
  PROVE  /\ c * a <= c * b => a <= b
         /\ c * a < c * b => a < b
BY DEF PosInt

\* Truncating two intervals loses at least as much as truncating their sum.
LEMMA QuotientSuperadditive ==
  ASSUME NEW a \in Int, NEW b \in Int, NEW t \in PosInt
  PROVE  (a \div t) + (b \div t) <= (a + b) \div t
<1>1. /\ a \div t \in Int /\ b \div t \in Int /\ (a + b) \div t \in Int
      /\ t * (a \div t) <= a /\ t * (b \div t) <= b
      /\ a + b <= t * ((a + b) \div t) + (t - 1)
  BY Quotient
<1>2. t \in Int /\ t * ((a \div t) + (b \div t)) = t * (a \div t) + t * (b \div t)
  BY <1>1 DEF PosInt
<1>3. t * ((a \div t) + (b \div t)) < t * ((a + b) \div t + 1)
  BY <1>1, <1>2 DEF PosInt
<1>4. (a \div t) + (b \div t) < (a + b) \div t + 1
  BY <1>1, <1>3, Cancel
<1> QED BY <1>1, <1>4

-----------------------------------------------------------------------------
(***************************************************************************)
(* Type correctness                                                        *)
(***************************************************************************)
USE DEF PosInt

\* Truncated and wrapped intervals are uint32_t values.
LEMMA MicrosType ==
  ASSUME now \in Nat, NEW t \in Nat
  PROVE  MicrosSince(t) \in 0 .. Uint32 - 1
<1>1. Microseconds(now - t) \in Int
  BY ClockAssumption, Quotient DEF Microseconds
<1> QED BY <1>1, ClockAssumption, Wrapped DEF MicrosSince

\* A timer that is re-armed expires at a time again.
LEMMA RearmedType ==
  ASSUME NEW deadline \in Nat, NEW t \in Nat, NEW timeout \in Nat
  PROVE  Rearmed(deadline, t, timeout) \subseteq Nat
BY DEF Rearmed

LEMMA InitType == Init => TypeOK
<1> SUFFICES ASSUME Init PROVE TypeOK
  OBVIOUS
<1>1. /\ now \in Nat /\ prevTime \in Nat /\ pending \in Int
      /\ statsTimer \in Nat /\ diskUsageTimer \in Nat
      /\ startMemory \in Nat /\ maxMemoryUsage \in Nat /\ maxDiskUsage \in Nat
  BY ClockAssumption DEF Init
<1>2. numWrites \in 0 .. Uint32 - 1
  BY ClockAssumption DEF Init
<1>3. report \in [{"elapsed", "numWrites", "maxMem", "maxDisk"} -> 0 .. Uint32 - 1]
  BY ClockAssumption DEF Init, NoReport
<1> QED BY <1>1, <1>2, <1>3 DEF Init, TypeOK

LEMMA NextType == TypeOK /\ [Next]_loopVars => TypeOK'
<1> SUFFICES ASSUME TypeOK, [Next]_loopVars PROVE TypeOK'
  OBVIOUS
<1> USE ClockAssumption DEF TypeOK
<1>1. ASSUME NEW d \in SetDurations, IssueWrite(d) PROVE TypeOK'
  <2>1. now' \in Nat /\ pending' \in Int
    BY <1>1 DEF IssueWrite
  <2>2. numWrites' \in 0 .. Uint32 - 1
    BY <1>1, Wrapped DEF IssueWrite
  <2> QED BY <1>1, <2>1, <2>2 DEF IssueWrite
<1>2. ASSUME NEW d \in StepDurations, RunOver(d) PROVE TypeOK'
  BY <1>2 DEF RunOver
<1>3. ASSUME NEW d \in StepDurations, Account(d) PROVE TypeOK'
  <2>1. MicrosSince(prevTime) \in Int
    BY MicrosType
  <2>2. MicrosSince(prevTime) * WriteRate \in Int
    BY <2>1, ConfigAssumption
  <2>3. now' \in Nat /\ prevTime' \in Nat /\ pending' \in Int
    BY <1>3, <2>2 DEF Account
  <2> QED BY <1>3, <2>3 DEF Account
<1>4. ASSUME NEW d \in StepDurations, UpdateBackend(d) PROVE TypeOK'
  BY <1>4 DEF UpdateBackend
<1>5. ASSUME NEW d \in StepDurations, SampleMemory(d) PROVE TypeOK'
  <2>1. now' \in Nat
    BY <1>5 DEF SampleMemory
  <2>2. statsTimer' \in Nat /\ maxMemoryUsage' \in Nat
    BY <1>5, RearmedType DEF SampleMemory, MaxOf
  <2> QED BY <1>5, <2>1, <2>2 DEF SampleMemory
<1>6. ASSUME NEW d \in StepDurations, NEW u \in DiskSamples, SampleDisk(u, d)
      PROVE TypeOK'
  <2>1. now' \in Nat
    BY <1>6 DEF SampleDisk
  <2>2. diskUsageTimer' \in Nat /\ maxDiskUsage' \in Nat
    BY <1>6, RearmedType DEF SampleDisk, MaxOf
  <2> QED BY <1>6, <2>1, <2>2 DEF SampleDisk
<1>7. ASSUME NEW d \in StepDurations, SkipDisk(d) PROVE TypeOK'
  BY <1>7 DEF SkipDisk
<1>8. ASSUME NEW d \in StepDurations, Sleep(d) PROVE TypeOK'
  BY <1>8 DEF Sleep
<1>9. CASE Report
  <2>1. MicrosSince(0) \in 0 .. Uint32 - 1
    BY MicrosType
  <2>2. (maxMemoryUsage - startMemory) % Uint32 \in 0 .. Uint32 - 1
    BY Wrapped
  <2>3. maxDiskUsage % Uint32 \in 0 .. Uint32 - 1
    BY Wrapped
  <2>4. report' \in [{"elapsed", "numWrites", "maxMem", "maxDisk"}
                       -> 0 .. Uint32 - 1]
    BY <1>9, <2>1, <2>2, <2>3 DEF Report
  <2> QED BY <1>9, <2>4 DEF Report
<1>10. CASE UNCHANGED loopVars
  BY <1>10 DEF loopVars
<1> QED
  BY <1>1, <1>2, <1>3, <1>4, <1>5, <1>6, <1>7, <1>8, <1>9, <1>10 DEF Next

(***************************************************************************)
(* Every reachable state of the loop is type correct.                      *)
(***************************************************************************)
THEOREM TypeCorrect == Spec => []TypeOK
BY InitType, NextType, PTL DEF Spec

-----------------------------------------------------------------------------
(***************************************************************************)
(* The rate is never exceeded                                              *)
(***************************************************************************)
(***************************************************************************)
(* NeverAheadOfRate is not inductive for the rate that is reported: the    *)
(* microseconds must be counted whole.  Each iteration accounts the whole  *)
(* microseconds since the last one, and these add up to no more than the   *)
(* whole microseconds since the start.                                     *)
(***************************************************************************)
PaceInv ==
  /\ prevTime <= now
  /\ -MicrosPerSecond < pending
  /\ Accounted <= WriteRate * Microseconds(prevTime)

\* Counting whole microseconds drops less than one.
LEMMA MicrosecondsTruncates ==
  ASSUME NEW t \in Nat
  PROVE  /\ Microseconds(t) \in Nat
         /\ TicksPerMicro * Microseconds(t) <= t
         /\ t <= TicksPerMicro * Microseconds(t) + (TicksPerMicro - 1)
<1>1. t \in Int /\ TicksPerMicro \in PosInt
  BY ClockAssumption
<1> QED BY <1>1, Quotient, QuotientNat DEF Microseconds

LEMMA AccountedType == ASSUME TypeOK PROVE Accounted \in Int
<1>1. numWrites * MicrosPerSecond \in Int
  BY ClockAssumption DEF TypeOK
<1> QED BY <1>1 DEF Accounted, TypeOK

\* Nothing but the loop head, a write and the sleep matters for the pace.
LEMMA PaceUnchanged ==
  ASSUME TypeOK, PaceInv, UNCHANGED <<prevTime, pending, numWrites>>,
         now' \in Nat, now <= now'
  PROVE  PaceInv'
BY DEF PaceInv, Accounted, TypeOK, Microseconds

\* The clock never runs backwards, and the sleep takes at least SleepTicks.
LEMMA ClockAdvances ==
  ASSUME TypeOK, [Next]_loopVars
  PROVE  /\ now' \in Nat
         /\ now <= now'
         /\ pc = "sleep" /\ pc' # "sleep" => now + SleepTicks <= now'
<1> USE ClockAssumption DEF TypeOK
<1>1. ASSUME NEW d \in SetDurations, IssueWrite(d)
      PROVE  now' = now + d /\ pc' = pc
  BY <1>1 DEF IssueWrite
<1>2. ASSUME NEW d \in StepDurations,
             \/ RunOver(d) \/ Account(d) \/ UpdateBackend(d) \/ SampleMemory(d)
             \/ \E u \in DiskSamples : SampleDisk(u, d)
             \/ SkipDisk(d)
      PROVE  now' = now + d /\ pc # "sleep"
  BY <1>2 DEF RunOver, Account, UpdateBackend, SampleMemory, SampleDisk, SkipDisk
<1>3. ASSUME NEW d \in StepDurations, Sleep(d)
      PROVE  now' = now + SleepTicks + d
  BY <1>3 DEF Sleep
<1>4. CASE Report \/ UNCHANGED loopVars
  BY <1>4 DEF Report, loopVars
<1>5. CASE \E d \in SetDurations : IssueWrite(d)
  BY <1>5, <1>1
<1>6. CASE \E d \in StepDurations :
             \/ RunOver(d) \/ Account(d) \/ UpdateBackend(d) \/ SampleMemory(d)
             \/ \E u \in DiskSamples : SampleDisk(u, d)
             \/ SkipDisk(d)
  BY <1>6, <1>2
<1>7. CASE \E d \in StepDurations : Sleep(d)
  BY <1>7, <1>3
<1> QED BY <1>4, <1>5, <1>6, <1>7 DEF Next

\* A step that is neither the loop head nor a write leaves the account alone.
LEMMA OtherSteps ==
  ASSUME [Next]_loopVars
  PROVE  \/ \E d \in SetDurations : IssueWrite(d)
         \/ \E d \in StepDurations : Account(d)
         \/ UNCHANGED <<prevTime, pending, numWrites>>
BY DEF Next, RunOver, UpdateBackend, SampleMemory, SampleDisk, SkipDisk, Sleep,
       Report, loopVars

\* What uint32_t microseconds count is at most the whole microseconds that passed.
LEMMA PassedBound ==
  ASSUME TypeOK, NEW t \in Nat, t <= now
  PROVE  /\ MicrosSince(t) \in Nat
         /\ MicrosSince(t) <= Microseconds(now - t)
         /\ now - t < Uint32 * TicksPerMicro
              => MicrosSince(t) = Microseconds(now - t)
<1> DEFINE gap == now - t
           m == Microseconds(gap)
<1>1. gap \in Nat
  BY DEF TypeOK
<1>2. m \in Nat
  BY <1>1, MicrosecondsTruncates
<1>3. TicksPerMicro * m <= gap
  BY <1>1, MicrosecondsTruncates
<1>4. gap < Uint32 * TicksPerMicro => m < Uint32
  <2> SUFFICES ASSUME gap < Uint32 * TicksPerMicro PROVE m < Uint32
    OBVIOUS
  <2>1. TicksPerMicro * m < TicksPerMicro * Uint32
    BY <1>1, <1>2, <1>3, ClockAssumption
  <2> QED BY <2>1, <1>2, ClockAssumption, Cancel
<1> HIDE DEF m
<1>5. /\ m % Uint32 \in Nat
      /\ m % Uint32 <= m
      /\ m < Uint32 => m % Uint32 = m
  BY <1>2, ClockAssumption, WrappedNat
<1> QED BY <1>4, <1>5 DEF MicrosSince, m

LEMMA PaceAccount ==
  ASSUME TypeOK, PaceInv, NEW d \in StepDurations, Account(d)
  PROVE  PaceInv'
<1> USE ClockAssumption
<1> DEFINE gap == now - prevTime
           passed == MicrosSince(prevTime)
<1>1. gap \in Nat /\ gap \in Int /\ prevTime \in Nat /\ prevTime \in Int
      /\ prevTime + gap = now /\ Accounted \in Int
  BY AccountedType DEF PaceInv, TypeOK
<1>2. passed \in Nat /\ passed <= Microseconds(gap)
  BY <1>1, PassedBound DEF PaceInv
<1>3. Accounted' = Accounted + WriteRate * passed
  <2>1. /\ numWrites' = numWrites
        /\ pending' = pending + passed * WriteRate
    BY DEF Account
  <2>2. numWrites * MicrosPerSecond \in Int /\ pending \in Int
        /\ passed * WriteRate \in Int /\ passed * WriteRate = WriteRate * passed
    BY <1>2, ConfigAssumption DEF TypeOK
  <2> HIDE DEF passed
  <2> QED BY <2>1, <2>2 DEF Accounted
<1> HIDE DEF passed
<1>4. Microseconds(prevTime) + Microseconds(gap) <= Microseconds(now)
  BY <1>1, QuotientSuperadditive DEF Microseconds
<1>5. /\ Microseconds(prevTime) \in Nat /\ Microseconds(gap) \in Nat
      /\ Microseconds(now) \in Nat
  BY <1>1, MicrosecondsTruncates DEF TypeOK
<1> HIDE DEF gap
<1>6. WriteRate * (Microseconds(prevTime) + passed)
        <= WriteRate * Microseconds(now)
  BY <1>2, <1>4, <1>5, ConfigAssumption, Monotonic
<1>7. Accounted' <= WriteRate * Microseconds(now)
  <2>1. Accounted <= WriteRate * Microseconds(prevTime)
    BY DEF PaceInv
  <2>2. WriteRate * (Microseconds(prevTime) + passed)
          = WriteRate * Microseconds(prevTime) + WriteRate * passed
    BY <1>2, <1>5, ConfigAssumption
  <2>3. WriteRate * Microseconds(prevTime) \in Int /\ WriteRate * passed \in Int
        /\ WriteRate * Microseconds(now) \in Int
    BY <1>2, <1>5, ConfigAssumption
  <2> QED BY <1>1, <1>3, <1>6, <2>1, <2>2, <2>3
<1>8. -MicrosPerSecond < pending'
  <2>1. pending' = pending + passed * WriteRate
    BY DEF Account, passed
  <2>2. passed * WriteRate \in Nat
    BY <1>2, ConfigAssumption
  <2> QED BY <2>1, <2>2 DEF PaceInv, TypeOK
<1>9. prevTime' = now /\ prevTime' <= now'
  BY DEF Account, TypeOK
<1> QED BY <1>7, <1>8, <1>9 DEF PaceInv, Microseconds

LEMMA PaceWrite ==
  ASSUME TypeOK, PaceInv, NEW d \in SetDurations, IssueWrite(d)
  PROVE  PaceInv'
<1> USE ClockAssumption
<1>1. /\ numWrites' \in Nat /\ numWrites' <= numWrites + 1
      /\ numWrites \in Nat
  <2> DEFINE n == numWrites + 1
  <2>1. numWrites \in Nat /\ n \in Nat
    BY DEF TypeOK
  <2>2. numWrites' = n % Uint32
    BY DEF IssueWrite
  <2> HIDE DEF n
  <2>3. n % Uint32 \in Nat /\ n % Uint32 <= n
    BY <2>1, WrappedNat
  <2> QED BY <2>1, <2>2, <2>3 DEF n
<1>2. numWrites' * MicrosPerSecond <= numWrites * MicrosPerSecond + MicrosPerSecond
  <2>1. /\ numWrites' \in Int /\ numWrites + 1 \in Int
        /\ MicrosPerSecond \in Nat /\ numWrites' <= numWrites + 1
    BY <1>1
  <2>2. MicrosPerSecond * numWrites' <= MicrosPerSecond * (numWrites + 1)
    BY <2>1, Monotonic
  <2>3. /\ MicrosPerSecond * numWrites' = numWrites' * MicrosPerSecond
        /\ MicrosPerSecond * (numWrites + 1)
              = numWrites * MicrosPerSecond + MicrosPerSecond
    BY <1>1
  <2> QED BY <2>2, <2>3
<1>3. pending' = pending - MicrosPerSecond /\ pending > 0 /\ pending \in Int
  BY DEF IssueWrite, TypeOK
<1>4. Accounted' <= Accounted
  <2>1. /\ numWrites' * MicrosPerSecond \in Int
        /\ numWrites * MicrosPerSecond \in Int
    BY <1>1
  <2> QED BY <1>2, <1>3, <2>1 DEF Accounted
<1>5. prevTime' = prevTime /\ prevTime <= now'
  BY DEF IssueWrite, PaceInv, TypeOK
<1>6. Accounted' \in Int /\ Accounted \in Int
      /\ WriteRate * Microseconds(prevTime) \in Int
  <2>1. Microseconds(prevTime) \in Nat
    BY MicrosecondsTruncates DEF TypeOK
  <2>2. numWrites' * MicrosPerSecond \in Int /\ pending' \in Int
    BY <1>1, <1>3
  <2> QED BY <2>1, <2>2, AccountedType, ConfigAssumption DEF Accounted
<1> QED BY <1>3, <1>4, <1>5, <1>6 DEF PaceInv, Microseconds

LEMMA NextPace == TypeOK /\ PaceInv /\ [Next]_loopVars => PaceInv'
<1> SUFFICES ASSUME TypeOK, PaceInv, [Next]_loopVars PROVE PaceInv'
  OBVIOUS
<1>1. CASE \E d \in SetDurations : IssueWrite(d)
  BY <1>1, PaceWrite
<1>2. CASE \E d \in StepDurations : Account(d)
  BY <1>2, PaceAccount
<1>3. CASE UNCHANGED <<prevTime, pending, numWrites>>
  BY <1>3, ClockAdvances, PaceUnchanged
<1> QED BY <1>1, <1>2, <1>3, OtherSteps

LEMMA InitPace == Init => PaceInv
<1> SUFFICES ASSUME Init PROVE PaceInv
  OBVIOUS
<1>1. prevTime = 0 /\ prevTime <= now /\ pending = 0 /\ numWrites = 0
  BY ClockAssumption DEF Init
<1>2. Accounted = 0
  BY <1>1, ClockAssumption DEF Accounted
<1>3. Microseconds(0) \in Nat
  BY MicrosecondsTruncates
<1>4. WriteRate * Microseconds(prevTime) \in Nat
  BY <1>1, <1>3, ConfigAssumption
<1> QED BY <1>1, <1>2, <1>4, ClockAssumption DEF PaceInv

THEOREM PaceInvariant == Spec => [](TypeOK /\ PaceInv)
BY InitType, NextType, InitPace, NextPace, PTL DEF Spec

\* The rate times the whole microseconds is at most the rate times the time.
LEMMA RateOfMicroseconds ==
  ASSUME NEW t \in Nat
  PROVE  /\ WriteRate * Microseconds(t) \in Nat
         /\ TicksPerMicro * (WriteRate * Microseconds(t)) <= WriteRate * t
<1> DEFINE m == Microseconds(t)
<1>1. m \in Nat /\ TicksPerMicro * m <= t
  BY MicrosecondsTruncates
<1> HIDE DEF m
<1>2. TicksPerMicro * m \in Int /\ t \in Int /\ WriteRate \in Nat
      /\ TicksPerMicro \in Int
  BY <1>1, ClockAssumption, ConfigAssumption
<1>3. WriteRate * (TicksPerMicro * m) <= WriteRate * t
  BY <1>1, <1>2, Monotonic
<1>4. WriteRate * (TicksPerMicro * m) = TicksPerMicro * (WriteRate * m)
  BY <1>1, <1>2
<1>5. WriteRate * m \in Nat
  BY <1>1, <1>2
<1> QED BY <1>3, <1>4, <1>5 DEF m

(***************************************************************************)
(* The loop never runs ahead of the configured rate, whatever the steps of *)
(* an iteration cost, however often the count of microseconds or of writes *)
(* wraps around.                                                           *)
(***************************************************************************)
THEOREM RateNeverExceeded == Spec => []NeverAheadOfRate
<1>1. ASSUME TypeOK, PaceInv PROVE NeverAheadOfRate
  <2>1. prevTime \in Nat /\ Accounted \in Int /\ TicksPerMicro \in Nat
    BY <1>1, AccountedType, ClockAssumption DEF TypeOK
  <2>2. /\ WriteRate * Microseconds(prevTime) \in Nat
        /\ TicksPerMicro * (WriteRate * Microseconds(prevTime))
             <= WriteRate * prevTime
    BY <2>1, RateOfMicroseconds
  <2>3. Accounted <= WriteRate * Microseconds(prevTime)
    BY <1>1 DEF PaceInv
  <2>4. TicksPerMicro * Accounted
          <= TicksPerMicro * (WriteRate * Microseconds(prevTime))
    BY <2>1, <2>2, <2>3, Monotonic
  <2>5. /\ TicksPerMicro * Accounted \in Int
        /\ TicksPerMicro * (WriteRate * Microseconds(prevTime)) \in Int
        /\ WriteRate * prevTime \in Int
    BY <2>1, <2>2, ConfigAssumption
  <2> QED BY <1>1, <2>2, <2>4, <2>5 DEF PaceInv, NeverAheadOfRate
<1> QED BY <1>1, PaceInvariant, PTL

-----------------------------------------------------------------------------
(***************************************************************************)
(* The reported rate                                                       *)
(***************************************************************************)
LEMMA ReportHonest ==
  ASSUME TypeOK, PaceInv, Report PROVE ReportedRateHonest'
<1> USE ClockAssumption
<1>1. SUFFICES ASSUME now < Uint32 * TicksPerMicro
               PROVE  (numWrites - 1) * MicrosPerSecond < WriteRate * MicrosSince(0)
  BY DEF Report, ReportedRateHonest
<1>2. now \in Nat /\ prevTime \in Nat /\ pending \in Int /\ numWrites \in Nat
      /\ prevTime <= now /\ now - 0 = now
  BY DEF TypeOK, PaceInv
<1>3. MicrosSince(0) = Microseconds(now)
  BY <1>1, <1>2, PassedBound
<1>4. Microseconds(prevTime) \in Nat /\ Microseconds(now) \in Nat
  BY <1>2, MicrosecondsTruncates
<1>5. Microseconds(prevTime) <= Microseconds(now)
  <2> DEFINE gap == now - prevTime
  <2>1. gap \in Nat /\ gap \in Int /\ prevTime \in Int /\ prevTime + gap = now
    BY <1>2
  <2>2. Microseconds(gap) \in Nat
    BY <2>1, MicrosecondsTruncates
  <2>3. Microseconds(prevTime) + Microseconds(gap) <= Microseconds(now)
    BY <2>1, QuotientSuperadditive DEF Microseconds
  <2> HIDE DEF gap
  <2> QED BY <1>4, <2>2, <2>3
<1>6. WriteRate * Microseconds(prevTime) <= WriteRate * Microseconds(now)
  BY <1>4, <1>5, ConfigAssumption, Monotonic
<1>7. /\ WriteRate * Microseconds(prevTime) \in Int
      /\ WriteRate * Microseconds(now) \in Int
      /\ numWrites * MicrosPerSecond \in Int
      /\ (numWrites - 1) * MicrosPerSecond = numWrites * MicrosPerSecond - MicrosPerSecond
  BY <1>2, <1>4, ConfigAssumption
<1>8. numWrites * MicrosPerSecond + pending <= WriteRate * Microseconds(prevTime)
      /\ -MicrosPerSecond < pending
  BY DEF PaceInv, Accounted
<1> QED BY <1>2, <1>3, <1>6, <1>7, <1>8

\* Once the report is printed nothing changes any more, and only Report prints it.
LEMMA DoneSteps ==
  ASSUME [Next]_loopVars, pc' = "done"
  PROVE  Report \/ UNCHANGED loopVars
BY DEF Next, IssueWrite, RunOver, Account, UpdateBackend, SampleMemory,
       SampleDisk, SkipDisk, Sleep

(***************************************************************************)
(* The rate that the report shows is never above the configured one by     *)
(* more than the one write that is issued early.                           *)
(***************************************************************************)
THEOREM ReportIsHonest == Spec => []ReportedRateHonest
<1>1. Init => ReportedRateHonest
  BY DEF Init, ReportedRateHonest
<1>2. ASSUME TypeOK, PaceInv, ReportedRateHonest, [Next]_loopVars
      PROVE  ReportedRateHonest'
  <2>1. CASE pc' # "done"
    BY <2>1 DEF ReportedRateHonest
  <2>2. CASE Report
    BY <1>2, <2>2, ReportHonest
  <2>3. CASE UNCHANGED loopVars
    BY <1>2, <2>3 DEF ReportedRateHonest, loopVars
  <2> QED BY <1>2, <2>1, <2>2, <2>3, DoneSteps
<1> QED BY <1>1, <1>2, PaceInvariant, PTL DEF Spec

-----------------------------------------------------------------------------
(***************************************************************************)
(* The steady rate                                                         *)
(***************************************************************************)
(***************************************************************************)
(* DriftBounded is kept by the loop head because the time since the last   *)
(* one is at least a sleep, over which the fraction of a microsecond that  *)
(* is dropped is spread.  Only the first iteration has not slept, and it   *)
(* has nothing to make up for.                                             *)
(***************************************************************************)
Slept ==
  pc = "loop" =>
    \/ prevTime + SleepTicks <= now
    \/ prevTime = 0 /\ Accounted = 0

DriftInv == Slept /\ DriftBounded

LEMMA SleptAlways == TypeOK /\ PaceInv /\ Slept /\ [Next]_loopVars => Slept'
<1> SUFFICES ASSUME TypeOK, PaceInv, Slept, [Next]_loopVars, pc' = "loop"
             PROVE  \/ prevTime' + SleepTicks <= now'
                    \/ prevTime' = 0 /\ Accounted' = 0
  BY DEF Slept
<1>1. CASE \E d \in StepDurations : Sleep(d)
  <2>1. pc = "sleep" /\ prevTime' = prevTime
    BY <1>1 DEF Sleep
  <2>2. now + SleepTicks <= now' /\ now' \in Nat
    BY <2>1, ClockAdvances
  <2> QED BY <2>1, <2>2, ClockAssumption DEF PaceInv, TypeOK
<1>2. CASE UNCHANGED loopVars
  <2>1. UNCHANGED <<pc, now, prevTime, pending, numWrites>>
    BY <1>2 DEF loopVars
  <2> QED BY <2>1 DEF Slept, Accounted
<1>3. \/ \E d \in StepDurations : Sleep(d)
      \/ UNCHANGED loopVars
  BY DEF Next, IssueWrite, RunOver, Account, UpdateBackend, SampleMemory,
         SampleDisk, SkipDisk, Report
<1> QED BY <1>1, <1>2, <1>3

\* A wrap-around cannot be undone by a step.
LEMMA WrapStays ==
  ASSUME TypeOK, PaceInv, [Next]_loopVars
  PROVE  /\ BeforeWrap' => BeforeWrap
         /\ NoCounterWrapped' => NoCounterWrapped
<1>1. prevTime \in Nat /\ prevTime' \in Nat /\ prevTime <= prevTime'
  <2>1. CASE \E d \in StepDurations : Account(d)
    BY <2>1 DEF Account, PaceInv, TypeOK
  <2>2. CASE \E d \in SetDurations : IssueWrite(d)
    BY <2>2 DEF IssueWrite, TypeOK
  <2>3. CASE UNCHANGED <<prevTime, pending, numWrites>>
    BY <2>3 DEF TypeOK
  <2> QED BY <2>1, <2>2, <2>3, OtherSteps
<1>2. WriteRate * prevTime <= WriteRate * prevTime'
  <2>1. prevTime \in Int /\ prevTime' \in Int /\ WriteRate \in Nat
    BY <1>1, ConfigAssumption
  <2> QED BY <1>1, <2>1, Monotonic
<1>3. WriteRate * prevTime \in Int /\ WriteRate * prevTime' \in Int
      /\ Uint32 * TicksPerMicro \in Int
      /\ (Uint32 - 1) * MicrosPerSecond * TicksPerMicro \in Int
  BY <1>1, ConfigAssumption, ClockAssumption
<1> QED BY <1>1, <1>2, <1>3 DEF NoCounterWrapped, BeforeWrap

\* Accounting an interval costs at most the fraction of a microsecond.
LEMMA Shortfall ==
  ASSUME TypeOK, PaceInv, NEW d \in StepDurations, Account(d), NoCounterWrapped'
  PROVE  WriteRate * prevTime' - TicksPerMicro * Accounted'
           <= WriteRate * prevTime - TicksPerMicro * Accounted
                + WriteRate * (TicksPerMicro - 1)
<1> DEFINE gap == now - prevTime
           m == Microseconds(gap)
<1>1. gap \in Nat /\ prevTime \in Nat /\ now = prevTime + gap /\ prevTime <= now
  BY DEF PaceInv, TypeOK
<1>2. prevTime' = now
  BY DEF Account
<1>3. gap < Uint32 * TicksPerMicro
  <2>1. now < Uint32 * TicksPerMicro /\ Uint32 * TicksPerMicro \in Int
    BY <1>2, ClockAssumption DEF NoCounterWrapped
  <2> QED BY <1>1, <2>1 DEF TypeOK
<1>4. MicrosSince(prevTime) = m
  BY <1>1, <1>3, PassedBound
<1>5. m \in Nat /\ gap <= TicksPerMicro * m + (TicksPerMicro - 1)
  BY <1>1, MicrosecondsTruncates
<1>6. Accounted' = Accounted + WriteRate * m
  <2>1. numWrites' = numWrites /\ pending' = pending + m * WriteRate
    BY <1>4 DEF Account
  <2>2. numWrites * MicrosPerSecond \in Int /\ pending \in Int
        /\ m * WriteRate \in Int /\ m * WriteRate = WriteRate * m
    BY <1>5, ConfigAssumption, ClockAssumption DEF TypeOK
  <2> HIDE DEF m
  <2> QED BY <2>1, <2>2 DEF Accounted
<1> HIDE DEF gap, m
<1> DEFINE w == WriteRate * m
<1>7. WriteRate * gap <= TicksPerMicro * w + WriteRate * (TicksPerMicro - 1)
  <2>1. /\ gap \in Int /\ WriteRate \in Nat
        /\ TicksPerMicro * m + (TicksPerMicro - 1) \in Int
    BY <1>1, <1>5, ConfigAssumption, ClockAssumption
  <2>2. WriteRate * gap <= WriteRate * (TicksPerMicro * m + (TicksPerMicro - 1))
    BY <2>1, <1>5, Monotonic
  <2>3. WriteRate * (TicksPerMicro * m + (TicksPerMicro - 1))
          = TicksPerMicro * (WriteRate * m) + WriteRate * (TicksPerMicro - 1)
    BY <1>5, ConfigAssumption, ClockAssumption
  <2> QED BY <2>2, <2>3
<1>8. WriteRate * prevTime' = WriteRate * prevTime + WriteRate * gap
  BY <1>1, <1>2, ConfigAssumption
<1>9. w \in Int
  BY <1>5, ConfigAssumption
<1>10. Accounted' = Accounted + w
  BY <1>6
<1> HIDE DEF w
<1>11. TicksPerMicro * Accounted' = TicksPerMicro * Accounted + TicksPerMicro * w
  BY <1>9, <1>10, AccountedType, ClockAssumption
<1>12. /\ WriteRate * prevTime \in Int /\ WriteRate * gap \in Int
       /\ TicksPerMicro * Accounted \in Int /\ TicksPerMicro * w \in Int
       /\ WriteRate * (TicksPerMicro - 1) \in Int
  BY <1>1, <1>9, AccountedType, ConfigAssumption, ClockAssumption
<1> QED BY <1>7, <1>8, <1>11, <1>12

LEMMA DriftAccount ==
  ASSUME TypeOK, PaceInv, DriftInv, NEW d \in StepDurations, Account(d)
  PROVE  DriftBounded'
<1> SUFFICES ASSUME NoCounterWrapped'
             PROVE  SleepTicks * (WriteRate * prevTime' - TicksPerMicro * Accounted')
                      <= WriteRate * (TicksPerMicro - 1) * (prevTime' + SleepTicks)
  BY DEF DriftBounded
<1> DEFINE D == WriteRate * prevTime - TicksPerMicro * Accounted
           E == WriteRate * prevTime' - TicksPerMicro * Accounted'
           k == WriteRate * (TicksPerMicro - 1)
<1>1. /\ prevTime \in Nat /\ now \in Nat /\ Accounted \in Int
      /\ prevTime' = now /\ prevTime <= now /\ pc = "loop"
  BY AccountedType DEF Account, PaceInv, TypeOK
<1>2. SleepTicks \in Nat /\ SleepTicks > 0
  BY ClockAssumption
<1>3. D \in Int /\ k \in Nat
  BY <1>1, ConfigAssumption, ClockAssumption
<1>4. E \in Int
  <2>1. numWrites' \in Int /\ pending' \in Int
    <3>1. MicrosSince(prevTime) \in Nat
      BY <1>1, PassedBound
    <3>2. MicrosSince(prevTime) * WriteRate \in Int
      BY <3>1, ConfigAssumption
    <3> QED BY <3>2 DEF Account, TypeOK
  <2>2. Accounted' \in Int
    BY <2>1, ClockAssumption DEF Accounted
  <2> QED BY <1>1, <2>2, ConfigAssumption, ClockAssumption
<1>5. E <= D + k
  BY Shortfall
<1>6. CASE prevTime + SleepTicks <= now
  <2>1. NoCounterWrapped
    <3>1. [Next]_loopVars
      BY DEF Next
    <3> QED BY <3>1, WrapStays
  <2>2. SleepTicks * D <= k * (prevTime + SleepTicks)
    BY <2>1 DEF DriftInv, DriftBounded
  <2> HIDE DEF D, E, k
  <2>3. SleepTicks * E <= SleepTicks * (D + k)
    BY <1>2, <1>3, <1>4, <1>5, Monotonic
  <2>4. SleepTicks * (D + k) = SleepTicks * D + k * SleepTicks
    BY <1>2, <1>3
  <2>5. k * (prevTime + 2 * SleepTicks) <= k * (now + SleepTicks)
    <3>1. prevTime + 2 * SleepTicks \in Int /\ now + SleepTicks \in Int
          /\ prevTime + 2 * SleepTicks <= now + SleepTicks
      BY <1>1, <1>2, <1>6
    <3> QED BY <3>1, <1>3, Monotonic
  <2>6. k * (prevTime + 2 * SleepTicks) = k * (prevTime + SleepTicks) + k * SleepTicks
    BY <1>1, <1>2, <1>3
  <2>7. /\ SleepTicks * D \in Int /\ SleepTicks * E \in Int /\ k * SleepTicks \in Int
        /\ k * (prevTime + SleepTicks) \in Int /\ k * (now + SleepTicks) \in Int
    BY <1>1, <1>2, <1>3, <1>4
  <2>8. SleepTicks * E <= k * (now + SleepTicks)
    BY <2>2, <2>3, <2>4, <2>5, <2>6, <2>7
  <2> QED BY <2>8, <1>1 DEF E, k
<1>7. CASE prevTime = 0 /\ Accounted = 0
  <2>1. D = 0
    BY <1>7, ConfigAssumption, ClockAssumption
  <2> HIDE DEF D, E, k
  <2>2. SleepTicks * E <= SleepTicks * k
    BY <1>2, <1>3, <1>4, <1>5, <2>1, Monotonic
  <2>3. k * SleepTicks <= k * (now + SleepTicks)
    BY <1>1, <1>2, <1>3, Monotonic
  <2>4. /\ SleepTicks * k = k * SleepTicks
        /\ SleepTicks * E \in Int /\ k * SleepTicks \in Int
        /\ k * (now + SleepTicks) \in Int
    BY <1>1, <1>2, <1>3, <1>4
  <2>5. SleepTicks * E <= k * (now + SleepTicks)
    BY <2>2, <2>3, <2>4
  <2> QED BY <2>5, <1>1 DEF E, k
<1> QED BY <1>1, <1>6, <1>7 DEF DriftInv, Slept

\* Until numWrites has wrapped around, a write adds one to it.
LEMMA NextNumber ==
  ASSUME TypeOK, PaceInv, BeforeWrap, NEW d \in SetDurations, IssueWrite(d)
  PROVE  numWrites \in Nat /\ numWrites' = numWrites + 1
<1>1. /\ prevTime \in Nat /\ numWrites \in Nat /\ pending \in Int /\ pending > 0
      /\ numWrites' = (numWrites + 1) % Uint32
  BY ClockAssumption DEF IssueWrite, TypeOK
<1>2. MicrosPerSecond \in PosInt /\ TicksPerMicro \in PosInt /\ Uint32 \in PosInt
  BY ClockAssumption
<1>3. numWrites + 1 < Uint32
  <2> DEFINE limit == (Uint32 - 1) * MicrosPerSecond
             w == WriteRate * Microseconds(prevTime)
  <2>1. w \in Nat /\ TicksPerMicro * w <= WriteRate * prevTime
    BY <1>1, RateOfMicroseconds
  <2>2. limit \in Int
    BY <1>2
  <2>3. WriteRate * prevTime <= TicksPerMicro * limit
    <3>1. (Uint32 - 1) * MicrosPerSecond * TicksPerMicro = TicksPerMicro * limit
      BY <1>2
    <3> QED BY <3>1 DEF BeforeWrap
  <2>4. numWrites * MicrosPerSecond + pending <= w
    BY DEF PaceInv, Accounted
  <2> HIDE DEF w
  <2>5. TicksPerMicro * w <= TicksPerMicro * limit
    <3>1. /\ TicksPerMicro * w \in Int /\ WriteRate * prevTime \in Int
          /\ TicksPerMicro * limit \in Int
      BY <1>1, <1>2, <2>1, <2>2, ConfigAssumption
    <3> HIDE DEF limit
    <3> QED BY <2>1, <2>3, <3>1
  <2>6. w <= limit
    <3> HIDE DEF limit
    <3> QED BY <1>2, <2>1, <2>2, <2>5, Cancel
  <2>7. MicrosPerSecond * numWrites < MicrosPerSecond * (Uint32 - 1)
    <3>1. /\ MicrosPerSecond * numWrites = numWrites * MicrosPerSecond
          /\ MicrosPerSecond * (Uint32 - 1) = limit
          /\ numWrites * MicrosPerSecond \in Int
      BY <1>1, <1>2
    <3> HIDE DEF limit
    <3> QED BY <1>1, <2>1, <2>2, <2>4, <2>6, <3>1
  <2>8. numWrites < Uint32 - 1
    <3>1. numWrites \in Int /\ Uint32 - 1 \in Int
      BY <1>1, <1>2
    <3> QED BY <1>2, <2>7, <3>1, Cancel
  <2> QED BY <1>1, <1>2, <2>8
<1>4. numWrites' = numWrites + 1
  <2>1. numWrites + 1 \in Nat
    BY <1>1
  <2> QED BY <1>1, <1>2, <1>3, <2>1, WrappedNat
<1> QED BY <1>1, <1>4

\* While no counter has wrapped, a write that is issued stays accounted.
LEMMA DriftWrite ==
  ASSUME TypeOK, PaceInv, DriftInv, NEW d \in SetDurations, IssueWrite(d)
  PROVE  DriftBounded'
<1> SUFFICES ASSUME NoCounterWrapped PROVE DriftBounded'
  BY DEF DriftBounded, NoCounterWrapped, BeforeWrap, IssueWrite
<1>1. /\ pending \in Int /\ pending' = pending - MicrosPerSecond
      /\ prevTime' = prevTime
  BY DEF IssueWrite, TypeOK
<1>2. numWrites \in Nat /\ numWrites' = numWrites + 1
  BY NextNumber DEF NoCounterWrapped
<1>3. Accounted' = Accounted
  <2>1. (numWrites + 1) * MicrosPerSecond = numWrites * MicrosPerSecond + MicrosPerSecond
        /\ numWrites * MicrosPerSecond \in Int
    BY <1>2, ClockAssumption
  <2> QED BY <1>1, <1>2, <2>1, ClockAssumption DEF Accounted
<1> QED BY <1>1, <1>3 DEF DriftInv, DriftBounded, NoCounterWrapped, BeforeWrap

LEMMA InitDrift == Init => DriftInv
<1> SUFFICES ASSUME Init PROVE DriftInv
  OBVIOUS
<1>1. prevTime = 0 /\ Accounted = 0
  BY ClockAssumption DEF Init, Accounted
<1>2. /\ SleepTicks * (WriteRate * 0 - TicksPerMicro * 0) = 0
      /\ WriteRate * (TicksPerMicro - 1) * (0 + SleepTicks) \in Nat
  BY ConfigAssumption, ClockAssumption
<1> QED BY <1>1, <1>2 DEF DriftInv, Slept, DriftBounded

(***************************************************************************)
(* The writes issued and owed fall short of the rate by at most the        *)
(* fraction of a microsecond per sleep that truncation drops, for every    *)
(* rate, clock and length of a run until a counter wraps around.           *)
(***************************************************************************)
THEOREM SteadyRate == Spec => []DriftBounded
<1>1. ASSUME TypeOK, PaceInv, DriftInv, [Next]_loopVars PROVE DriftInv'
  <2>1. Slept'
    BY <1>1, SleptAlways DEF DriftInv
  <2>2. CASE \E d \in StepDurations : Account(d)
    BY <1>1, <2>1, <2>2, DriftAccount DEF DriftInv
  <2>3. CASE \E d \in SetDurations : IssueWrite(d)
    BY <1>1, <2>1, <2>3, DriftWrite DEF DriftInv
  <2>4. CASE UNCHANGED <<prevTime, pending, numWrites>>
    BY <1>1, <2>1, <2>4 DEF DriftInv, DriftBounded, NoCounterWrapped, BeforeWrap, Accounted
  <2> QED BY <1>1, <2>2, <2>3, <2>4, OtherSteps
<1>2. DriftInv => DriftBounded
  BY DEF DriftInv
<1> QED BY <1>1, <1>2, InitDrift, PaceInvariant, PTL DEF Spec
-----------------------------------------------------------------------------
(***************************************************************************)
(* The length of an iteration                                              *)
(***************************************************************************)
(***************************************************************************)
(* IterationBounded speaks of the loop head only; the invariant follows an *)
(* iteration through its steps.  Times are multiplied by Headroom, so that *)
(* the bound, a quotient, becomes a product.  While the writes are made, a *)
(* time and the time that the writes still owed will take are bounded      *)
(* together: each write moves its cost from the second to the first.       *)
(***************************************************************************)
\* z is a time, own what the steps may have contributed to it so far.
CatchingUp(z, own) ==
  z * Second + SetTime * (TicksPerMicro * pending) * Headroom
    <= (own * Headroom + SetTime * WriteRate * OwnTime) * Second

CaughtUp(z, own) ==
  z <= (own + SetTime) * Headroom + SetTime * WriteRate * OwnTime

\* The time since the last loop head.
Elapsed == (now - prevTime) * Headroom

IterInv ==
  /\ pc \in {"loop", "stats", "disk", "sleep"} => pending <= 0
  /\ Headroom > 0 =>
       /\ pc = "loop" => Elapsed <= OwnTime * Second
       /\ pc = "writes" => CatchingUp(Elapsed, StepTime)
       /\ pc = "stats" => CaughtUp(Elapsed, 2 * StepTime)
       /\ pc = "disk" => CaughtUp(Elapsed, 3 * StepTime)
       /\ pc = "sleep" => CaughtUp(Elapsed, 4 * StepTime)

\* No duration exceeds the longest one.
LEMMA DurationTypes ==
  /\ SetTime \in Nat /\ \A d \in SetDurations : d \in Nat /\ d <= SetTime
  /\ StepTime \in Nat /\ \A d \in StepDurations : d \in Nat /\ d <= StepTime
<1>1. ASSUME NEW D, D \subseteq Nat, \E d \in D : \A e \in D : e <= d
      PROVE  Longest(D) \in D /\ \A e \in D : e <= Longest(D)
  <2> DEFINE P(d) == d \in D /\ \A e \in D : e <= d
  <2>1. \E d : P(d)
    BY <1>1
  <2>2. Longest(D) = CHOOSE d : P(d)
    BY DEF Longest
  <2> HIDE DEF P
  <2>3. P(Longest(D))
    BY <2>1, <2>2
  <2> QED BY <2>3 DEF P
<1>2. SetTime \in SetDurations /\ \A e \in SetDurations : e <= SetTime
  BY <1>1, ClockAssumption, DurationAssumption DEF SetTime
<1>3. StepTime \in StepDurations /\ \A e \in StepDurations : e <= StepTime
  BY <1>1, ClockAssumption, DurationAssumption DEF StepTime
<1> QED BY <1>2, <1>3, ClockAssumption

LEMMA TimeTypes ==
  /\ Second \in Nat /\ Second > 0
  /\ SetTime * WriteRate \in Nat
  /\ Headroom \in Int /\ Headroom + SetTime * WriteRate = Second
  /\ OwnTime \in Nat /\ OwnTime = 5 * StepTime + SleepTicks + SetTime
<1>1. Second \in Nat /\ Second > 0
  BY ClockAssumption DEF Second
<1>2. SetTime * WriteRate \in Nat
  BY DurationTypes, ConfigAssumption
<1>3. OwnTime \in Nat
  BY DurationTypes, ClockAssumption DEF OwnTime
<1> QED BY <1>1, <1>2, <1>3 DEF Headroom, OwnTime

(***************************************************************************)
(* The four steps of the argument, for a time z and T * pending = p, with  *)
(* D for Headroom, P for Second, S for SetTime and X for OwnTime.          *)
(***************************************************************************)
\* The writes owed for a gap take their share of it.
LEMMA CatchUpStarts ==
  ASSUME NEW S \in Nat, NEW r \in Nat, NEW D \in Nat, NEW P \in Nat, NEW X \in Nat,
         NEW gap \in Nat, NEW p \in Int, NEW z \in Int, NEW own \in Nat,
         p <= r * gap, gap * D <= X * P, z <= own * D
  PROVE  z * P + S * p * D <= (own * D + S * r * X) * P
<1>1. P * z <= P * (own * D)
  <2>1. own * D \in Int
    OBVIOUS
  <2> QED BY <2>1, Monotonic
<1>2. S * D \in Nat /\ S * r \in Nat /\ r * gap \in Int /\ gap * D \in Int /\ X * P \in Int
  OBVIOUS
<1>3. (S * D) * p <= (S * D) * (r * gap)
  BY <1>2, Monotonic
<1>4. (S * r) * (gap * D) <= (S * r) * (X * P)
  BY <1>2, Monotonic
<1>5. (S * D) * (r * gap) = (S * r) * (gap * D) /\ (S * D) * p = S * p * D
  OBVIOUS
<1>6. (own * D + S * r * X) * P = P * (own * D) + (S * r) * (X * P)
  OBVIOUS
<1>7. P * z = z * P
  OBVIOUS
<1>8. /\ z * P \in Int /\ P * (own * D) \in Int /\ S * p * D \in Int
      /\ (S * r) * (gap * D) \in Int /\ (S * r) * (X * P) \in Int
  OBVIOUS
<1> QED BY <1>1, <1>3, <1>4, <1>5, <1>6, <1>7, <1>8

\* A write costs no more than what it takes off the writes that are owed.
LEMMA CatchUpGoesOn ==
  ASSUME NEW S \in Nat, NEW D \in Nat, NEW P \in Nat, NEW p \in Int,
         NEW z \in Int, NEW d \in Nat, NEW bound \in Int,
         d <= S, z * P + S * p * D <= bound
  PROVE  (z + d * D) * P + S * (p - P) * D <= bound
<1>1. (z + d * D) * P + S * (p - P) * D = z * P + S * p * D + ((P * D) * d - (P * D) * S)
  OBVIOUS
<1>2. P * D \in Nat
  OBVIOUS
<1>3. (P * D) * d <= (P * D) * S
  BY <1>2, Monotonic
<1>4. /\ z * P + S * p * D \in Int
      /\ (P * D) * d \in Int /\ (P * D) * S \in Int
  OBVIOUS
<1> QED BY <1>1, <1>3, <1>4

\* At most one write is made early.
LEMMA CatchUpEnds ==
  ASSUME NEW S \in Nat, NEW r \in Nat, NEW D \in Nat, NEW P \in PosInt, NEW X \in Nat,
         NEW p \in Int, NEW z \in Int, NEW own \in Nat,
         -P <= p, z * P + S * p * D <= (own * D + S * r * X) * P
  PROVE  z <= (own + S) * D + S * r * X
<1>1. P \in Int /\ -P \in Int /\ S * D \in Nat
  OBVIOUS
<1>2. (S * D) * (-P) <= (S * D) * p
  BY <1>1, Monotonic
<1>3. (S * D) * (-P) = -(P * (S * D)) /\ (S * D) * p = S * p * D
  BY <1>1
<1>4. (own * D + S * r * X) * P + P * (S * D) = P * ((own + S) * D + S * r * X)
  BY <1>1
<1>5. /\ z * P \in Int /\ S * p * D \in Int /\ P * (S * D) \in Int
      /\ (own * D + S * r * X) * P \in Int /\ z * P = P * z
      /\ (own + S) * D + S * r * X \in Int
  BY <1>1
<1>6. P * z <= P * ((own + S) * D + S * r * X)
  BY <1>2, <1>3, <1>4, <1>5
<1> QED BY <1>5, <1>6, Cancel

\* The whole iteration.
LEMMA WholeIteration ==
  ASSUME Headroom > 0
  PROVE  /\ (5 * StepTime + SleepTicks + SetTime) * Headroom
              + SetTime * WriteRate * OwnTime = OwnTime * Second
         /\ OwnTime * Headroom <= OwnTime * Second
<1>1. /\ OwnTime \in Nat /\ Headroom \in Nat /\ Second \in Nat
      /\ SetTime * WriteRate \in Nat /\ Headroom + SetTime * WriteRate = Second
      /\ OwnTime = 5 * StepTime + SleepTicks + SetTime
  BY TimeTypes
<1> DEFINE c == SetTime * WriteRate
<1>2. c \in Nat /\ Headroom + c = Second
  BY <1>1
<1> HIDE DEF c
<1>3. OwnTime * Headroom + c * OwnTime = OwnTime * Second /\ c * OwnTime \in Nat
      /\ OwnTime * Headroom \in Int
  BY <1>1, <1>2
<1> QED BY <1>1, <1>3 DEF c

\* A time that a step has made longer.
LEMMA Longer ==
  ASSUME NEW a \in Int, NEW b \in Int, NEW c \in Nat, NEW e \in Nat, c <= e, Headroom > 0
  PROVE  /\ (a + c - b) * Headroom = (a - b) * Headroom + c * Headroom
         /\ c * Headroom \in Nat /\ e * Headroom \in Nat
         /\ c * Headroom <= e * Headroom
<1>1. Headroom \in Nat
  BY TimeTypes
<1>2. Headroom * c <= Headroom * e
  BY <1>1, Monotonic
<1> QED BY <1>1, <1>2

\* The loop head turns the time since the last one into writes that are owed.
LEMMA AccountCatchesUp ==
  ASSUME TypeOK, PaceInv, IterInv, Headroom > 0, NEW d \in StepDurations, Account(d),
         NEW z \in Int, NEW own \in Nat, z <= own * Headroom
  PROVE  CatchingUp(z, own)'
<1> DEFINE gap == now - prevTime
           m == MicrosSince(prevTime)
           p == TicksPerMicro * pending'
<1>1. gap \in Nat /\ prevTime \in Nat /\ prevTime <= now /\ pending \in Int /\ pending <= 0
      /\ gap * Headroom <= OwnTime * Second
  BY DEF TypeOK, PaceInv, IterInv, Account, Elapsed
<1>2. m \in Nat /\ TicksPerMicro * m <= gap /\ TicksPerMicro * m \in Nat
  <2>1. m \in Nat /\ m <= Microseconds(gap)
    BY <1>1, PassedBound
  <2>2. Microseconds(gap) \in Nat /\ TicksPerMicro * Microseconds(gap) <= gap
    BY <1>1, MicrosecondsTruncates
  <2> HIDE DEF m, gap
  <2>3. TicksPerMicro * m <= TicksPerMicro * Microseconds(gap)
    BY <2>1, <2>2, ClockAssumption, Monotonic
  <2>4. TicksPerMicro * m \in Nat /\ TicksPerMicro * Microseconds(gap) \in Int
    BY <2>1, <2>2, ClockAssumption
  <2> QED BY <1>1, <2>1, <2>2, <2>3, <2>4
<1>3. pending' = pending + m * WriteRate
  BY DEF Account
<1> HIDE DEF m, gap
<1>4. p \in Int /\ p <= WriteRate * gap
  <2>1. WriteRate * (TicksPerMicro * m) <= WriteRate * gap
    BY <1>1, <1>2, ConfigAssumption, Monotonic
  <2>2. TicksPerMicro * pending <= 0 /\ TicksPerMicro * pending \in Int
    BY <1>1, ClockAssumption
  <2>3. p = TicksPerMicro * pending + WriteRate * (TicksPerMicro * m)
    BY <1>1, <1>2, <1>3, ClockAssumption, ConfigAssumption
  <2>4. WriteRate * (TicksPerMicro * m) \in Int /\ WriteRate * gap \in Int
    BY <1>1, <1>2, ConfigAssumption
  <2> HIDE DEF p
  <2> QED BY <2>1, <2>2, <2>3, <2>4
<1> HIDE DEF p
<1>5. z * Second + SetTime * p * Headroom
        <= (own * Headroom + SetTime * WriteRate * OwnTime) * Second
  BY <1>1, <1>4, DurationTypes, TimeTypes, ConfigAssumption, CatchUpStarts
<1> QED BY <1>5 DEF CatchingUp, p

\* A write takes no more time than it takes off the writes that are owed.
LEMMA WriteCatchesUp ==
  ASSUME TypeOK, Headroom > 0, NEW d \in SetDurations, IssueWrite(d),
         NEW z \in Int, NEW own \in Nat, CatchingUp(z, own)
  PROVE  CatchingUp(z + d * Headroom, own)'
<1> DEFINE p == TicksPerMicro * pending
           bound == (own * Headroom + SetTime * WriteRate * OwnTime) * Second
<1>1. p \in Int /\ TicksPerMicro * pending' = p - Second
  <2>1. pending' = pending - MicrosPerSecond /\ pending \in Int
    BY DEF TypeOK, IssueWrite
  <2> QED BY <2>1, ClockAssumption DEF Second
<1>2. bound \in Int
  BY TimeTypes
<1>3. z * Second + SetTime * p * Headroom <= bound
  BY DEF CatchingUp
<1> HIDE DEF p, bound
<1>4. d \in Nat /\ d <= SetTime /\ SetTime \in Nat /\ Headroom \in Nat /\ Second \in Nat
  BY DurationTypes, TimeTypes
<1>5. (z + d * Headroom) * Second + SetTime * (p - Second) * Headroom <= bound
  BY <1>1, <1>2, <1>3, <1>4, CatchUpGoesOn
<1> QED BY <1>1, <1>5 DEF CatchingUp, bound

\* When the writes are made, at most one was made early.
LEMMA WritesEnd ==
  ASSUME TypeOK, PaceInv, Headroom > 0, NEW z \in Int, NEW own \in Nat, CatchingUp(z, own)
  PROVE  CaughtUp(z, own)
<1> DEFINE p == TicksPerMicro * pending
<1>1. pending \in Int /\ -MicrosPerSecond <= pending
  BY ClockAssumption DEF TypeOK, PaceInv
<1>2. p \in Int /\ -Second <= p
  <2>1. TicksPerMicro * (-MicrosPerSecond) <= TicksPerMicro * pending
    BY <1>1, ClockAssumption, Monotonic
  <2> QED BY <1>1, <2>1, ClockAssumption DEF Second
<1>3. z * Second + SetTime * p * Headroom
        <= (own * Headroom + SetTime * WriteRate * OwnTime) * Second
  BY DEF CatchingUp
<1> HIDE DEF p
<1>4. Second \in PosInt /\ OwnTime \in Nat /\ Headroom \in Nat
      /\ SetTime \in Nat /\ WriteRate \in Nat
  BY DurationTypes, TimeTypes, ConfigAssumption
<1>5. z <= (own + SetTime) * Headroom + SetTime * WriteRate * OwnTime
  BY <1>2, <1>3, <1>4, CatchUpEnds
<1> QED BY <1>5 DEF CaughtUp

\* A step makes a time longer by at most StepTime, the sleep by its ticks as well.
LEMMA CaughtUpLonger ==
  ASSUME Headroom > 0, NEW z \in Int, NEW own \in Nat, NEW c \in Nat, NEW e \in Nat,
         c <= e
  PROVE  /\ CaughtUp(z, own) => CaughtUp(z + c * Headroom, own + e)
         /\ z <= own * Headroom => z + c * Headroom <= (own + e) * Headroom
         /\ z + c * Headroom \in Int
<1> DEFINE share == SetTime * WriteRate * OwnTime
<1>1. Headroom \in Nat /\ SetTime \in Nat /\ share \in Nat
  BY DurationTypes, TimeTypes
<1> HIDE DEF share
<1>2. c * Headroom <= e * Headroom /\ c * Headroom \in Nat /\ e * Headroom \in Nat
  BY Longer, 0 \in Int
<1>3. (own + e + SetTime) * Headroom = (own + SetTime) * Headroom + e * Headroom
      /\ (own + e) * Headroom = own * Headroom + e * Headroom
      /\ (own + SetTime) * Headroom \in Int /\ own * Headroom \in Int
  BY <1>1
<1> QED BY <1>1, <1>2, <1>3 DEF CaughtUp, share

\* The clock and the account, step by step.
LEMMA IterationSteps ==
  ASSUME TypeOK, [Next]_loopVars
  PROVE  \/ \E d \in SetDurations : IssueWrite(d)
         \/ \E d \in StepDurations : Account(d)
         \/ /\ UNCHANGED <<prevTime, pending, numWrites>>
            /\ \E d \in StepDurations :
                 \/ pc = "writes" /\ pc' = "stats" /\ now' = now + d
                 \/ pc = "stats" /\ pc' = "disk" /\ now' = now + d
                 \/ pc = "disk" /\ pc' = "sleep" /\ now' = now + d
                 \/ pc = "sleep" /\ pc' = "loop" /\ now' = now + SleepTicks + d
            /\ pc = "writes" => pending <= 0
         \/ /\ UNCHANGED <<prevTime, pending, numWrites>>
            /\ pc' \in {"report", "done"}
         \/ UNCHANGED <<pc, now, prevTime, pending, numWrites>>
BY DEF Next, RunOver, UpdateBackend, SampleMemory, SampleDisk, SkipDisk, Sleep,
       Report, loopVars

LEMMA NextIter == TypeOK /\ PaceInv /\ IterInv /\ [Next]_loopVars => IterInv'
<1> SUFFICES ASSUME TypeOK, PaceInv, IterInv, [Next]_loopVars PROVE IterInv'
  OBVIOUS
<1>1. /\ now \in Nat /\ prevTime \in Nat /\ prevTime <= now /\ pending \in Int
      /\ StepTime \in Nat /\ SleepTicks \in Nat /\ Headroom \in Int
  BY DurationTypes, TimeTypes, ClockAssumption DEF TypeOK, PaceInv
<1>2. Elapsed \in Int
  BY <1>1 DEF Elapsed
<1>3. ASSUME NEW d \in SetDurations, IssueWrite(d) PROVE IterInv'
  <2>1. pc = "writes" /\ pc' = "writes" /\ now' = now + d /\ prevTime' = prevTime
    BY <1>3 DEF IssueWrite
  <2>2. ASSUME Headroom > 0 PROVE CatchingUp(Elapsed, StepTime)'
    <3>1. CatchingUp(Elapsed, StepTime)
      BY <2>1, <2>2 DEF IterInv
    <3>2. PICK z \in Int : z = Elapsed
      BY <1>2
    <3>3. Elapsed' = z + d * Headroom
      BY <1>1, <2>1, <2>2, <3>2, DurationTypes, Longer DEF Elapsed
    <3>4. CatchingUp(z + d * Headroom, StepTime)'
      BY <1>1, <1>3, <2>2, <3>1, <3>2, WriteCatchesUp
    <3> QED BY <3>3, <3>4 DEF CatchingUp
  <2> QED BY <2>1, <2>2 DEF IterInv
<1>4. ASSUME NEW d \in StepDurations, Account(d) PROVE IterInv'
  <2>1. pc' = "writes" /\ now' = now + d /\ prevTime' = now
    BY <1>4 DEF Account
  <2>2. ASSUME Headroom > 0 PROVE CatchingUp(Elapsed, StepTime)'
    <3>1. /\ d * Headroom \in Int /\ d * Headroom <= StepTime * Headroom
          /\ Elapsed' = d * Headroom
      BY <1>1, <2>1, <2>2, DurationTypes, Longer DEF Elapsed
    <3>2. CatchingUp(d * Headroom, StepTime)'
      BY <1>1, <1>4, <2>2, <3>1, AccountCatchesUp
    <3> QED BY <3>1, <3>2 DEF CatchingUp
  <2> QED BY <2>1, <2>2 DEF IterInv
<1>5. ASSUME UNCHANGED <<prevTime, pending, numWrites>>, NEW d \in StepDurations,
             pc = "writes" => pending <= 0,
             \/ pc = "writes" /\ pc' = "stats" /\ now' = now + d
             \/ pc = "stats" /\ pc' = "disk" /\ now' = now + d
             \/ pc = "disk" /\ pc' = "sleep" /\ now' = now + d
             \/ pc = "sleep" /\ pc' = "loop" /\ now' = now + SleepTicks + d
      PROVE  IterInv'
  <2>1. pending' <= 0
    BY <1>5 DEF IterInv
  <2>2. ASSUME Headroom > 0
        PROVE  /\ pc' = "loop" => Elapsed' <= OwnTime * Second
               /\ pc' = "stats" => CaughtUp(Elapsed, 2 * StepTime)'
               /\ pc' = "disk" => CaughtUp(Elapsed, 3 * StepTime)'
               /\ pc' = "sleep" => CaughtUp(Elapsed, 4 * StepTime)'
    <3>1. d \in Nat /\ d <= StepTime /\ StepTime + StepTime = 2 * StepTime
          /\ 2 * StepTime + StepTime = 3 * StepTime
          /\ 3 * StepTime + StepTime = 4 * StepTime
          /\ 4 * StepTime + (StepTime + SleepTicks) = 5 * StepTime + SleepTicks
          /\ 2 * StepTime \in Nat /\ 3 * StepTime \in Nat /\ 4 * StepTime \in Nat
          /\ d + SleepTicks \in Nat /\ d + SleepTicks <= StepTime + SleepTicks
          /\ StepTime + SleepTicks \in Nat
      BY <1>1, DurationTypes
    <3>2. CASE pc = "writes"
      <4>1. CaughtUp(Elapsed, StepTime)
        BY <1>1, <1>2, <2>2, <3>2, WritesEnd DEF IterInv
      <4>2. Elapsed' = Elapsed + d * Headroom
        BY <1>1, <1>5, <2>2, <3>1, <3>2, Longer DEF Elapsed
      <4>3. CaughtUp(Elapsed + d * Headroom, 2 * StepTime)
        BY <1>1, <1>2, <2>2, <3>1, <4>1, CaughtUpLonger
      <4> QED BY <1>5, <3>2, <4>2, <4>3 DEF CaughtUp
    <3>3. CASE pc = "stats"
      <4>1. Elapsed' = Elapsed + d * Headroom
        BY <1>1, <1>5, <2>2, <3>1, <3>3, Longer DEF Elapsed
      <4>2. CaughtUp(Elapsed + d * Headroom, 3 * StepTime)
        BY <1>1, <1>2, <2>2, <3>1, <3>3, CaughtUpLonger DEF IterInv
      <4> QED BY <1>5, <3>3, <4>1, <4>2 DEF CaughtUp
    <3>4. CASE pc = "disk"
      <4>1. Elapsed' = Elapsed + d * Headroom
        BY <1>1, <1>5, <2>2, <3>1, <3>4, Longer DEF Elapsed
      <4>2. CaughtUp(Elapsed + d * Headroom, 4 * StepTime)
        BY <1>1, <1>2, <2>2, <3>1, <3>4, CaughtUpLonger DEF IterInv
      <4> QED BY <1>5, <3>4, <4>1, <4>2 DEF CaughtUp
    <3>5. CASE pc = "sleep"
      <4> DEFINE c == d + SleepTicks
      <4>1. Elapsed' = Elapsed + c * Headroom
        <5>1. c \in Nat /\ now' = now + c
          BY <1>1, <1>5, <3>1, <3>5
        <5> HIDE DEF c
        <5> QED BY <1>1, <1>5, <2>2, <5>1, Longer DEF Elapsed
      <4>2. CaughtUp(Elapsed + c * Headroom, 5 * StepTime + SleepTicks)
        BY <1>1, <1>2, <2>2, <3>1, <3>5, CaughtUpLonger DEF IterInv
      <4> HIDE DEF c
      <4>3. Elapsed' <= OwnTime * Second
        BY <2>2, <4>1, <4>2, WholeIteration DEF CaughtUp
      <4> QED BY <1>5, <3>5, <4>3
    <3> QED BY <1>5, <3>2, <3>3, <3>4, <3>5
  <2> QED BY <1>5, <2>1, <2>2 DEF IterInv
<1>6. CASE UNCHANGED <<prevTime, pending, numWrites>> /\ pc' \in {"report", "done"}
  BY <1>6 DEF IterInv
<1>7. CASE UNCHANGED <<pc, now, prevTime, pending, numWrites>>
  BY <1>7 DEF IterInv, Elapsed, CatchingUp, CaughtUp
<1> QED BY <1>3, <1>4, <1>5, <1>6, <1>7, IterationSteps

LEMMA InitIter == Init => IterInv
<1> SUFFICES ASSUME Init PROVE IterInv
  OBVIOUS
<1>1. pc = "loop" /\ pending <= 0 /\ now \in StepDurations /\ prevTime = 0
  BY DEF Init
<1>2. ASSUME Headroom > 0 PROVE Elapsed <= OwnTime * Second
  <2>1. now \in Nat /\ now <= OwnTime
    BY <1>1, DurationTypes, TimeTypes, ClockAssumption
  <2>2. now * Headroom <= OwnTime * Headroom /\ OwnTime * Headroom <= OwnTime * Second
    BY <1>2, <2>1, TimeTypes, Longer, WholeIteration, 0 \in Int
  <2>3. Elapsed = now * Headroom /\ Elapsed \in Int /\ OwnTime * Headroom \in Int
        /\ OwnTime * Second \in Int
    BY <1>1, <2>1, TimeTypes DEF Elapsed
  <2> QED BY <2>2, <2>3
<1> QED BY <1>1, <1>2 DEF IterInv

THEOREM IterInvariant == Spec => [](TypeOK /\ PaceInv /\ IterInv)
BY InitIter, NextIter, PaceInvariant, PTL DEF Spec

(***************************************************************************)
(* Catching up never snowballs: if the backend's Set is fast enough for    *)
(* the rate, the time between two loop heads is at most that of the steps  *)
(* of an iteration and one write over the share of the second that Set     *)
(* leaves - for every rate, clock and durations, stalls of other steps     *)
(* included.                                                               *)
(***************************************************************************)
THEOREM IterationsStayShort == Spec => []IterationBounded
<1>1. ASSUME TypeOK, IterInv PROVE IterationBounded
  BY <1>1, TimeTypes DEF IterInv, IterationBounded, WithinIterations, Elapsed
<1> QED BY <1>1, IterInvariant, PTL

-----------------------------------------------------------------------------
(***************************************************************************)
(* Deadlines                                                               *)
(***************************************************************************)
(***************************************************************************)
(* The backends look at their timers once in an iteration, when the writes *)
(* are made.  If a deadline had not passed then, it is no further behind   *)
(* now than the steps since, and so by the next time no further than an    *)
(* iteration.  A deadline A, like the times of IterInv, is multiplied by   *)
(* Headroom.                                                               *)
(***************************************************************************)
Late(A) ==
  LET z == now * Headroom - A
  IN  /\ pc = "stats" => z <= StepTime * Headroom
      /\ pc = "disk" => z <= 2 * StepTime * Headroom
      /\ pc = "sleep" => z <= 3 * StepTime * Headroom
      /\ pc = "loop" => z <= (4 * StepTime + SleepTicks) * Headroom
      /\ pc = "writes" => CatchingUp(z, 5 * StepTime + SleepTicks)

\* A deadline that has not passed while the writes are made.
LEMMA NotYetLate ==
  ASSUME TypeOK, PaceInv, IterInv, Headroom > 0, pc = "writes",
         NEW A \in Int, now * Headroom <= A
  PROVE  Late(A)
<1> DEFINE z == now * Headroom - A
           bound(own) == (own * Headroom + SetTime * WriteRate * OwnTime) * Second
           owed == SetTime * (TicksPerMicro * pending) * Headroom
<1>1. /\ now \in Nat /\ Headroom \in Nat /\ z \in Int /\ z <= 0
      /\ Elapsed \in Nat /\ Second \in Nat /\ owed \in Int
      /\ StepTime \in Nat /\ SleepTicks \in Nat /\ SetTime * WriteRate * OwnTime \in Nat
  BY TimeTypes, DurationTypes, ClockAssumption DEF TypeOK, PaceInv, Elapsed
<1>2. Elapsed * Second + owed <= bound(StepTime)
  BY DEF IterInv, CatchingUp
<1>3. bound(StepTime) <= bound(5 * StepTime + SleepTicks)
      /\ bound(StepTime) \in Int /\ bound(5 * StepTime + SleepTicks) \in Int
  <2> DEFINE share == SetTime * WriteRate * OwnTime
             more == 4 * StepTime + SleepTicks
  <2>1. share \in Nat /\ more \in Nat /\ 5 * StepTime + SleepTicks = StepTime + more
    BY <1>1
  <2> HIDE DEF share, more
  <2>2. ((StepTime + more) * Headroom + share) * Second
           = (StepTime * Headroom + share) * Second + more * Headroom * Second
        /\ more * Headroom * Second \in Nat
        /\ (StepTime * Headroom + share) * Second \in Int
    BY <1>1, <2>1
  <2> QED BY <2>1, <2>2 DEF share
<1>4. z * Second <= Elapsed * Second /\ z * Second \in Int /\ Elapsed * Second \in Int
  <2> HIDE DEF z
  <2>1. Second * z <= Second * Elapsed
    BY <1>1, Monotonic
  <2> QED BY <1>1, <2>1
<1> HIDE DEF bound, owed
<1>5. z * Second + owed <= bound(5 * StepTime + SleepTicks)
  <2> HIDE DEF z
  <2> QED BY <1>1, <1>2, <1>3, <1>4
<1> QED BY <1>5 DEF Late, CatchingUp, bound, owed

\* Each step of the loop leaves a deadline as late as it may be; the one that
\* looks at the timers has to find that it has not passed.
LEMMA LateNext ==
  ASSUME TypeOK, PaceInv, IterInv, Headroom > 0, [Next]_loopVars,
         NEW A \in Int, Late(A),
         pc = "writes" /\ pc' = "stats" => now * Headroom <= A
  PROVE  Late(A)'
<1> DEFINE z == now * Headroom - A
<1>1. /\ now \in Nat /\ StepTime \in Nat /\ SleepTicks \in Nat /\ Headroom \in Int
      /\ z \in Int
  BY DurationTypes, TimeTypes, ClockAssumption DEF TypeOK
<1>2. ASSUME NEW c \in Nat, now' = now + c
      PROVE  now' * Headroom - A = z + c * Headroom /\ c * Headroom \in Int
  BY <1>1, <1>2
<1>3. ASSUME NEW d \in SetDurations, IssueWrite(d) PROVE Late(A)'
  <2>1. pc = "writes" /\ pc' = "writes" /\ now' = now + d /\ d \in Nat
    BY <1>3, DurationTypes DEF IssueWrite
  <2>2. PICK y \in Int : y = z
    BY <1>1
  <2>3. CatchingUp(y, 5 * StepTime + SleepTicks) /\ 5 * StepTime + SleepTicks \in Nat
    BY <1>1, <2>1, <2>2 DEF Late
  <2>4. now' * Headroom - A = y + d * Headroom
    BY <1>2, <2>1, <2>2
  <2>5. CatchingUp(y + d * Headroom, 5 * StepTime + SleepTicks)'
    BY <1>3, <2>3, WriteCatchesUp
  <2> QED BY <2>1, <2>4, <2>5 DEF Late, CatchingUp
<1>4. ASSUME NEW d \in StepDurations, Account(d) PROVE Late(A)'
  <2>1. pc = "loop" /\ pc' = "writes" /\ now' = now + d /\ d \in Nat /\ d <= StepTime
    BY <1>4, DurationTypes DEF Account
  <2>2. PICK y \in Int : y = z
    BY <1>1
  <2>3. y <= (4 * StepTime + SleepTicks) * Headroom
    BY <2>1, <2>2 DEF Late
  <2>4. now' * Headroom - A = y + d * Headroom /\ d * Headroom \in Int
    BY <1>2, <2>1, <2>2
  <2>5. y + d * Headroom <= (4 * StepTime + SleepTicks + StepTime) * Headroom
    BY <1>1, <2>1, <2>3, CaughtUpLonger
  <2>6. 4 * StepTime + SleepTicks + StepTime = 5 * StepTime + SleepTicks
        /\ 5 * StepTime + SleepTicks \in Nat
    BY <1>1
  <2>7. y + d * Headroom \in Int
    BY <2>4
  <2>8. CatchingUp(y + d * Headroom, 5 * StepTime + SleepTicks)'
    BY <1>4, <2>5, <2>6, <2>7, AccountCatchesUp
  <2> QED BY <2>1, <2>4, <2>8 DEF Late, CatchingUp
<1>5. ASSUME NEW d \in StepDurations,
             \/ pc = "writes" /\ pc' = "stats" /\ now' = now + d
             \/ pc = "stats" /\ pc' = "disk" /\ now' = now + d
             \/ pc = "disk" /\ pc' = "sleep" /\ now' = now + d
             \/ pc = "sleep" /\ pc' = "loop" /\ now' = now + SleepTicks + d
      PROVE  Late(A)'
  <2>1. d \in Nat /\ d <= StepTime /\ 0 + StepTime = StepTime
        /\ StepTime + StepTime = 2 * StepTime
        /\ 2 * StepTime + StepTime = 3 * StepTime
        /\ 3 * StepTime + (StepTime + SleepTicks) = 4 * StepTime + SleepTicks
        /\ 2 * StepTime \in Nat /\ 3 * StepTime \in Nat
        /\ d + SleepTicks \in Nat /\ d + SleepTicks <= StepTime + SleepTicks
        /\ StepTime + SleepTicks \in Nat /\ 0 * Headroom = 0
    BY <1>1, DurationTypes
  <2>2. CASE pc = "writes"
    <3>1. now' * Headroom - A = z + d * Headroom /\ z <= 0 * Headroom
      BY <1>1, <1>2, <1>5, <2>1, <2>2
    <3> HIDE DEF z
    <3>2. z + d * Headroom <= StepTime * Headroom
      BY <1>1, <2>1, <3>1, CaughtUpLonger
    <3> QED BY <1>5, <2>2, <3>1, <3>2 DEF Late
  <2>3. CASE pc = "stats"
    <3>1. now' * Headroom - A = z + d * Headroom /\ z <= StepTime * Headroom
      BY <1>1, <1>2, <1>5, <2>1, <2>3 DEF Late
    <3> HIDE DEF z
    <3>2. z + d * Headroom <= 2 * StepTime * Headroom
      BY <1>1, <2>1, <3>1, CaughtUpLonger
    <3> QED BY <1>5, <2>3, <3>1, <3>2 DEF Late
  <2>4. CASE pc = "disk"
    <3>1. now' * Headroom - A = z + d * Headroom /\ z <= 2 * StepTime * Headroom
      BY <1>1, <1>2, <1>5, <2>1, <2>4 DEF Late
    <3> HIDE DEF z
    <3>2. z + d * Headroom <= 3 * StepTime * Headroom
      BY <1>1, <2>1, <3>1, CaughtUpLonger
    <3> QED BY <1>5, <2>4, <3>1, <3>2 DEF Late
  <2>5. CASE pc = "sleep"
    <3> DEFINE c == d + SleepTicks
    <3>1. c \in Nat /\ c <= StepTime + SleepTicks /\ now' = now + c
      BY <1>1, <1>5, <2>1, <2>5
    <3> HIDE DEF c
    <3>2. now' * Headroom - A = z + c * Headroom
      BY <1>2, <3>1
    <3>3. z <= 3 * StepTime * Headroom
      BY <2>5 DEF Late
    <3> HIDE DEF z
    <3>4. z + c * Headroom <= (4 * StepTime + SleepTicks) * Headroom
      BY <1>1, <2>1, <3>1, <3>3, CaughtUpLonger
    <3> QED BY <1>5, <2>5, <3>2, <3>4 DEF Late
  <2> QED BY <1>5, <2>2, <2>3, <2>4, <2>5
<1>6. CASE pc' \in {"report", "done"}
  BY <1>6 DEF Late
<1>7. CASE UNCHANGED <<pc, now, prevTime, pending, numWrites>>
  BY <1>7 DEF Late, CatchingUp
<1> QED BY <1>3, <1>4, <1>5, <1>6, <1>7, IterationSteps

\* However late a deadline may be, that is no longer than an iteration.
LEMMA LateByAnIteration ==
  ASSUME TypeOK, PaceInv, Headroom > 0, pc \notin {"report", "done"},
         NEW A \in Int, Late(A)
  PROVE  now * Headroom - A <= OwnTime * Second
<1> DEFINE z == now * Headroom - A
<1>1. /\ z \in Int /\ Headroom \in Nat /\ StepTime \in Nat /\ SleepTicks \in Nat
      /\ SetTime \in Nat /\ OwnTime \in Nat /\ OwnTime * Headroom \in Int
      /\ OwnTime * Second \in Int /\ OwnTime = 5 * StepTime + SleepTicks + SetTime
  BY DurationTypes, TimeTypes, ClockAssumption DEF TypeOK
<1> HIDE DEF z
<1>2. ASSUME NEW own \in Nat, own <= OwnTime, z <= own * Headroom
      PROVE  z <= OwnTime * Second
  <2>1. own * Headroom <= OwnTime * Headroom /\ own * Headroom \in Nat
    BY <1>1, <1>2, Longer, 0 \in Int
  <2>2. OwnTime * Headroom <= OwnTime * Second
    BY WholeIteration
  <2> QED BY <1>1, <1>2, <2>1, <2>2
<1>3. CASE pc = "writes"
  <2>1. CatchingUp(z, 5 * StepTime + SleepTicks) /\ 5 * StepTime + SleepTicks \in Nat
    BY <1>1, <1>3 DEF Late, z
  <2>2. CaughtUp(z, 5 * StepTime + SleepTicks)
    BY <1>1, <2>1, WritesEnd
  <2>3. z <= OwnTime * Second
    BY <2>2, WholeIteration DEF CaughtUp
  <2> QED BY <2>3 DEF z
<1>4. CASE pc = "stats"
  BY <1>1, <1>2, <1>4 DEF Late, z
<1>5. CASE pc = "disk"
  BY <1>1, <1>2, <1>5 DEF Late, z
<1>6. CASE pc = "sleep"
  BY <1>1, <1>2, <1>6 DEF Late, z
<1>7. CASE pc = "loop"
  <2> DEFINE own == 4 * StepTime + SleepTicks
  <2>1. own \in Nat /\ own <= OwnTime
    BY <1>1
  <2>2. z <= own * Headroom
    BY <1>7 DEF Late, z
  <2> HIDE DEF own
  <2>3. z <= OwnTime * Second
    BY <1>2, <2>1, <2>2
  <2> QED BY <2>3 DEF z
<1> QED BY <1>3, <1>4, <1>5, <1>6, <1>7 DEF TypeOK

-----------------------------------------------------------------------------
(***************************************************************************)
(* The memory samples                                                      *)
(***************************************************************************)
(***************************************************************************)
(* Until a sample is taken, statsTimer keeps its first deadline, and every *)
(* iteration that was polled began before it.                              *)
(***************************************************************************)
MemoryInv ==
  \/ maxMemoryUsage \in MemorySamples
  \/ /\ maxMemoryUsage = 0
     /\ statsTimer <= StepTime + StatsTicks
     /\ pc \notin {"writes", "stats"} => prevTime < statsTimer

LEMMA InitMemory == Init => MemoryInv
BY DurationTypes, ClockAssumption DEF Init, MemoryInv

LEMMA NextMemory == TypeOK /\ PaceInv /\ MemoryInv /\ [Next]_loopVars => MemoryInv'
<1> SUFFICES ASSUME TypeOK, PaceInv, MemoryInv, [Next]_loopVars PROVE MemoryInv'
  OBVIOUS
<1> USE DEF MemoryInv
<1>1. ASSUME NEW d \in StepDurations, SampleMemory(d) PROVE MemoryInv'
  <2>1. CASE HasExpired(statsTimer, now)
    <3>1. PICK m \in MemorySamples : maxMemoryUsage' = MaxOf(maxMemoryUsage, m)
      BY <1>1, <2>1 DEF SampleMemory
    <3>2. m \in Nat
      BY ClockAssumption
    <3>3. maxMemoryUsage' \in MemorySamples
      BY <3>1, <3>2 DEF MaxOf
    <3> QED BY <3>3
  <2>2. CASE ~HasExpired(statsTimer, now)
    <3>1. UNCHANGED <<statsTimer, maxMemoryUsage, prevTime>>
      BY <1>1, <2>2 DEF SampleMemory
    <3>2. prevTime < statsTimer
      BY <2>2 DEF HasExpired, PaceInv, TypeOK
    <3> QED BY <3>1, <3>2
  <2> QED BY <2>1, <2>2
<1>2. ASSUME NEW d \in StepDurations, Account(d) PROVE MemoryInv'
  BY <1>2 DEF Account
<1>3. CASE /\ UNCHANGED <<maxMemoryUsage, statsTimer, prevTime>>
           /\ pc \in {"writes", "stats"} => pc' \in {"writes", "stats"}
  BY <1>3
<1>4. \/ \E d \in StepDurations : SampleMemory(d) \/ Account(d)
      \/ /\ UNCHANGED <<maxMemoryUsage, statsTimer, prevTime>>
         /\ pc \in {"writes", "stats"} => pc' \in {"writes", "stats"}
  BY DEF Next, IssueWrite, RunOver, UpdateBackend, SampleDisk, SkipDisk, Sleep, Report,
         loopVars
<1> QED BY <1>1, <1>2, <1>3, <1>4

(***************************************************************************)
(* A run whose last iteration began after the first period of statsTimer   *)
(* reports a memory usage that was sampled, never the initial zero.        *)
(***************************************************************************)
THEOREM MemoryIsSampled == Spec => []MemorySampled
<1>1. ASSUME TypeOK, MemoryInv PROVE MemorySampled
  <2>1. prevTime \in Nat /\ statsTimer \in Nat /\ StepTime \in Nat /\ StatsTicks \in Nat
    BY <1>1, DurationTypes, ClockAssumption DEF TypeOK
  <2> QED BY <1>1, <2>1 DEF MemoryInv, MemorySampled
<1> QED BY <1>1, InitMemory, NextMemory, PaceInvariant, PTL DEF Spec
=============================================================================
