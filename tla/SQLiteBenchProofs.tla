-------------------------- MODULE SQLiteBenchProofs --------------------------
(***************************************************************************)
(* Proofs about SQLiteBench: what the loop and the node guarantee together *)
(* that neither does alone, for every configuration, all durations and     *)
(* whatever an earlier run left in the file.  The lemmas about the loop    *)
(* are those of WriteBenchmarkProofs, those about the node are             *)
(* SQLiteBlobNodeProofs' of the node as it is composed here.               *)
(***************************************************************************)
EXTENDS SQLiteBench, WriteBenchmarkProofs

NodeProofs == INSTANCE SQLiteBlobNodeProofs
                WITH Key <- BlobKey, Blob <- BlobSize, SeqNo <- 0 .. Uint32 - 1

USE DEF PosInt

-----------------------------------------------------------------------------
(***************************************************************************)
(* The composition                                                         *)
(***************************************************************************)
\* What the node assumes of its constants.
LEMMA NodeAssumptions ==
  /\ 0 .. Uint32 - 1 \subseteq Nat
  /\ None \notin NodeProofs!Version \cup BlobSize
BY FlushAssumption DEF NodeProofs!Version

\* A step of the composition is a step of the loop, or leaves the loop alone.
LEMMA LoopSteps == ASSUME TypeOK, [BenchNext]_benchVars PROVE [Next]_loopVars
<1>1. ASSUME NEW k, NEW b, NEW d \in SetDurations, Write(k, b, d) PROVE Next
  BY <1>1 DEF Write, Next
<1>2. ASSUME NEW d \in StepDurations, Update(d) \/ Proceed(d) PROVE Next
  BY <1>2 DEF Update, Proceed, Next
<1>3. CASE \/ Start \/ StartThrows
           \/ \E k \in BlobKey, b \in RandomBlob : WriteAborts(k, b)
           \/ UpdateAborts \/ Finish \/ Kill
  BY <1>3 DEF Start, StartThrows, WriteAborts, UpdateAborts, Finish, Kill
<1>4. CASE UNCHANGED benchVars
  BY <1>4 DEF benchVars
<1> QED BY <1>1, <1>2, <1>3, <1>4 DEF BenchNext

\* What is proved of the loop holds of the composition.
LEMMA LoopAlways == BenchSpec => [](TypeOK /\ PaceInv /\ IterInv)
<1>1. BenchInit => TypeOK /\ PaceInv /\ IterInv
  BY InitType, InitPace, InitIter DEF BenchInit
<1>2. TypeOK /\ PaceInv /\ IterInv /\ [BenchNext]_benchVars
        => (TypeOK /\ PaceInv /\ IterInv)'
  BY LoopSteps, NextType, NextPace, NextIter
<1> QED BY <1>1, <1>2, PTL DEF BenchSpec

\* The node of an earlier run may have left anything; once it is constructed
\* its own invariant holds.
NodeOK ==
  IF started THEN NodeProofs!NodeInv
  ELSE /\ process # "running" /\ failure \in {"none", "remove"}
       /\ ~inTransaction /\ written = {} /\ flushed = {}

(***************************************************************************)
(* What a step of the composition does to the node and the timer.          *)
(***************************************************************************)
Writes ==
  \E k \in BlobKey, b \in BlobSize, d \in SetDurations :
    /\ IssueWrite(d)
    /\ written' = written \cup {<<k, [seq |-> numWrites, blob |-> b]>>}
    /\ inTransaction'
    /\ dirtySince' = IF inTransaction THEN dirtySince ELSE now
    /\ UNCHANGED <<committed, flushed, failure, flushTimer>>

Flushes ==
  \E d \in StepDurations :
    /\ UpdateBackend(d)
    /\ HasExpired(flushTimer, now)
    /\ flushTimer' \in Rearmed(flushTimer, now, FlushTicks)
    /\ ~inTransaction'
    /\ flushed' = written
    /\ UNCHANGED <<written, failure>>

Waits ==
  /\ [Next]_loopVars
  /\ pc = "writes" /\ pc' = "stats" => ~HasExpired(flushTimer, now)
  /\ pc # "writes" \/ pc' # "writes" \/ UNCHANGED loopVars
  /\ UNCHANGED <<inTransaction, written, flushed, committed, failure, flushTimer, dirtySince>>

Ends ==
  /\ UNCHANGED <<loopVars, flushTimer>>
  /\ ~inTransaction'
  /\ \/ UNCHANGED <<written, flushed>>
     \/ written' = {} /\ flushed' = {}
  /\ \/ failure' # "constraint"
     \/ UNCHANGED failure
     \/ \E w \in written : w[2].seq >= numWrites

\* The actions of the node are those its proofs are about.
LEMMA NodeActions ==
  /\ Node!Open => NodeProofs!Open
  /\ Node!OpenAborts => NodeProofs!OpenAborts
  /\ \A k \in BlobKey : \A s, b : Node!Set(k, s, b) => NodeProofs!Set(k, s, b)
  /\ \A k \in BlobKey : \A s, b : Node!SetAborts(k, s, b) => NodeProofs!SetAborts(k, s, b)
  /\ Node!Flush => NodeProofs!Flush
  /\ Node!FlushAborts => NodeProofs!FlushAborts
  /\ Node!Close => NodeProofs!Close
  /\ Node!Crash => NodeProofs!Crash
<1> USE DEF Node!BeginFails, NodeProofs!BeginFails, Node!CommitFails, NodeProofs!CommitFails,
            Node!Upserted, NodeProofs!Upserted, Node!ConstraintFails,
            NodeProofs!ConstraintFails, Node!Disconnected, NodeProofs!Disconnected,
            Node!Abort, NodeProofs!Abort, Node!Empty, NodeProofs!Empty,
            Node!Removed, NodeProofs!Removed
<1>1. /\ Node!Open => NodeProofs!Open
      /\ Node!OpenAborts => NodeProofs!OpenAborts
  BY DEF Node!Open, NodeProofs!Open, Node!OpenAborts, NodeProofs!OpenAborts
<1>2. \A k \in BlobKey : \A s, b : Node!Set(k, s, b) => NodeProofs!Set(k, s, b)
  BY DEF Node!Set, NodeProofs!Set
<1>3. \A k \in BlobKey : \A s, b : Node!SetAborts(k, s, b) => NodeProofs!SetAborts(k, s, b)
  BY DEF Node!SetAborts, NodeProofs!SetAborts
<1>4. Node!Flush => NodeProofs!Flush
  BY DEF Node!Flush, NodeProofs!Flush
<1>5. Node!FlushAborts => NodeProofs!FlushAborts
  BY DEF Node!FlushAborts, NodeProofs!FlushAborts
<1>6. (Node!Close => NodeProofs!Close) /\ (Node!Crash => NodeProofs!Crash)
  BY DEF Node!Close, NodeProofs!Close, Node!Crash, NodeProofs!Crash
<1> QED BY <1>1, <1>2, <1>3, <1>4, <1>5, <1>6

\* Whatever ends the process, the batch is gone; and only a number that is not
\* newer than an earlier one of the run violates the constraint.
LEMMA EndSteps ==
  ASSUME TypeOK, NodeProofs!NodeInv, UNCHANGED <<loopVars, flushTimer>>,
         \/ \E k \in BlobKey, b \in RandomBlob : Node!SetAborts(k, numWrites, b)
         \/ Node!FlushAborts \/ Node!Close \/ Node!Crash
  PROVE  Ends /\ NodeProofs!NodeInv'
<1>1. \A b \in RandomBlob : b \in BlobSize
  BY DEF TypeOK, RandomBlob
<1>2. numWrites \in 0 .. Uint32 - 1
  BY DEF TypeOK
<1>3. NodeProofs!NodeInv' /\ NodeProofs!Disconnected
  <2>1. \/ \E k \in BlobKey, s \in 0 .. Uint32 - 1, b \in BlobSize : NodeProofs!SetAborts(k, s, b)
        \/ NodeProofs!FlushAborts \/ NodeProofs!Close \/ NodeProofs!Crash
    BY <1>1, <1>2, NodeActions
  <2> QED BY <2>1, NodeAssumptions, NodeProofs!EndInv
<1>4. ~inTransaction' /\ UNCHANGED <<written, flushed>>
  BY <1>3 DEF NodeProofs!Disconnected
<1>5. ASSUME NEW k \in BlobKey, NEW b \in BlobSize, Node!SetAborts(k, numWrites, b)
      PROVE  \/ failure' # "constraint"
             \/ \E w \in written : w[2].seq >= numWrites
  <2> SUFFICES ASSUME failure' = "constraint"
               PROVE  \E w \in written : w[2].seq >= numWrites
    OBVIOUS
  <2>1. Node!ConstraintFails(working[k], numWrites, b)
    BY <1>5 DEF Node!SetAborts, Node!Abort
  <2>2. working[k] # None /\ ~(numWrites > working[k].seq)
    BY <2>1, NodeAssumptions DEF Node!ConstraintFails, Node!Upserted
  <2>3. process = "running"
    BY <1>5 DEF Node!SetAborts
  <2>4. <<k, working[k]>> \in written
    BY <2>2, <2>3 DEF NodeProofs!NodeInv, NodeProofs!LatestBlobWins, NodeProofs!IsLatest
  <2>5. working[k].seq \in Nat
    BY <2>4, NodeAssumptions DEF NodeProofs!NodeInv, NodeProofs!TypeOK, NodeProofs!Version
  <2> QED BY <1>2, <2>2, <2>4, <2>5
<1>6. \/ failure' # "constraint"
      \/ UNCHANGED failure
      \/ \E w \in written : w[2].seq >= numWrites
  BY <1>1, <1>5 DEF Node!FlushAborts, Node!Close, Node!Crash, Node!Abort
<1> QED BY <1>3, <1>4, <1>6 DEF Ends

LEMMA BenchSteps ==
  ASSUME TypeOK, NodeOK, [BenchNext]_benchVars
  PROVE  NodeOK' /\ (Writes \/ Flushes \/ Waits \/ Ends)
<1>1. ASSUME NEW k \in BlobKey, NEW b \in RandomBlob, NEW d \in SetDurations, Write(k, b, d)
      PROVE  NodeOK' /\ Writes
  <2>1. b \in BlobSize /\ numWrites \in 0 .. Uint32 - 1
    BY DEF TypeOK, RandomBlob
  <2>2. NodeProofs!NodeInv /\ started' = started /\ started
    BY <1>1 DEF NodeOK, Write, Node!Set
  <2>3. NodeProofs!Set(k, numWrites, b)
    BY <1>1, NodeActions DEF Write
  <2>4. NodeProofs!NodeInv'
    BY <2>1, <2>2, <2>3, NodeAssumptions, NodeProofs!SetInv
  <2>5. /\ written' = written \cup {<<k, [seq |-> numWrites, blob |-> b]>>}
        /\ inTransaction'
        /\ UNCHANGED <<failure, committed, flushed>>
    BY <2>1, <2>2, <2>3, NodeAssumptions, NodeProofs!SetEffect
  <2> QED BY <1>1, <2>1, <2>2, <2>4, <2>5 DEF NodeOK, Writes, Write
<1>2. ASSUME NEW d \in StepDurations, Update(d), HasExpired(flushTimer, now)
      PROVE  NodeOK' /\ Flushes
  <2>1. NodeProofs!NodeInv /\ started' = started /\ started /\ NodeProofs!Flush
    BY <1>2, NodeActions DEF NodeOK, Update
  <2>2. NodeProofs!NodeInv'
    BY <2>1, NodeAssumptions, NodeProofs!FlushInv
  <2>3. ~inTransaction' /\ flushed' = written /\ UNCHANGED <<written, failure>>
    BY <2>1, NodeAssumptions, NodeProofs!FlushEffect
  <2> QED BY <1>2, <2>1, <2>2, <2>3 DEF NodeOK, Flushes, Update
<1>3. ASSUME UNCHANGED <<nodeVars, backendVars>>, [Next]_loopVars,
             pc = "writes" /\ pc' = "stats" => ~HasExpired(flushTimer, now),
             pc # "writes" \/ pc' # "writes" \/ UNCHANGED loopVars
      PROVE  NodeOK' /\ Waits
  BY <1>3 DEF NodeOK, Waits, nodeVars, backendVars, NodeProofs!NodeInv,
              NodeProofs!TypeOK, NodeProofs!InStep, NodeProofs!TransactionsPair,
              NodeProofs!FileLagsBehind, NodeProofs!LatestBlobWins
<1>4. ASSUME NEW d \in StepDurations, Update(d), ~HasExpired(flushTimer, now)
      PROVE  NodeOK' /\ Waits
  <2>1. UNCHANGED <<nodeVars, backendVars>> /\ UpdateBackend(d)
    BY <1>4 DEF Update, backendVars
  <2>2. [Next]_loopVars /\ pc' = "stats"
    BY <2>1 DEF Next, UpdateBackend
  <2> QED BY <1>3, <1>4, <2>1, <2>2
<1>5. ASSUME NEW d \in StepDurations, Proceed(d)
      PROVE  NodeOK' /\ Waits
  <2>1. UNCHANGED <<nodeVars, backendVars>> /\ [Next]_loopVars
    BY <1>5 DEF Proceed, Next
  <2>2. pc # "writes"
    BY <1>5 DEF Proceed, RunOver, Account, SampleMemory, SampleDisk, SkipDisk, Sleep, Report
  <2> QED BY <1>3, <2>1, <2>2
<1>6. CASE UNCHANGED benchVars
  <2>1. UNCHANGED <<nodeVars, backendVars>> /\ UNCHANGED loopVars /\ pc' = pc
    BY <1>6 DEF benchVars, loopVars
  <2> QED BY <1>3, <2>1
<1>7. CASE Start
  <2>1. NodeProofs!Open \/ NodeProofs!OpenAborts
    BY <1>7, NodeActions DEF Start
  <2>2. NodeProofs!NodeInv'
    BY <2>1, NodeAssumptions, NodeProofs!OpenInv
  <2>3. /\ failure' # "constraint" /\ ~inTransaction'
        /\ written' = {} /\ flushed' = {}
    BY <2>1 DEF NodeProofs!Open, NodeProofs!OpenAborts, NodeProofs!Removed
  <2> QED BY <1>7, <2>2, <2>3 DEF Start, NodeOK, Ends
<1>9. CASE StartThrows
  <2>1. /\ process' # "running" /\ failure' = "remove"
        /\ ~inTransaction' /\ UNCHANGED <<written, flushed>>
    BY <1>9 DEF StartThrows, Node!RemoveThrows, Node!Abort, Node!Disconnected
  <2>2. ~started /\ started' = started /\ UNCHANGED <<loopVars, flushTimer>>
    BY <1>9 DEF StartThrows, backendVars
  <2> QED BY <2>1, <2>2 DEF NodeOK, Ends
<1>8. CASE \/ \E k \in BlobKey, b \in RandomBlob : WriteAborts(k, b)
           \/ UpdateAborts \/ Finish \/ Kill
  <2>1. /\ UNCHANGED <<loopVars, backendVars>>
        /\ \/ \E k \in BlobKey, b \in RandomBlob : Node!SetAborts(k, numWrites, b)
           \/ Node!FlushAborts \/ Node!Close \/ Node!Crash
    BY <1>8 DEF WriteAborts, UpdateAborts, Finish, Kill
  <2>2. started
    BY <2>1 DEF NodeOK, Node!SetAborts, Node!FlushAborts, Node!Close, Node!Crash
  <2>3. started' = started /\ UNCHANGED <<loopVars, flushTimer>>
    BY <2>1 DEF backendVars
  <2> QED BY <2>1, <2>2, <2>3, EndSteps DEF NodeOK
<1> QED BY <1>1, <1>2, <1>4, <1>5, <1>6, <1>7, <1>8, <1>9 DEF BenchNext

LEMMA NodeAlways == BenchSpec => []NodeOK
<1>1. BenchInit => NodeOK
  BY DEF BenchInit, NodeOK
<1>2. TypeOK /\ NodeOK /\ [BenchNext]_benchVars => NodeOK'
  BY BenchSteps
<1> QED BY <1>1, <1>2, LoopAlways, PTL DEF BenchSpec

-----------------------------------------------------------------------------
(***************************************************************************)
(* Numbers                                                                 *)
(***************************************************************************)
(***************************************************************************)
(* Until numWrites wraps around, the numbers of the run are below it, and  *)
(* what is durable are the writes below some number.                       *)
(***************************************************************************)
Numbered ==
  /\ \A w \in written : w[2].seq \in Nat /\ w[2].seq < numWrites
  /\ failure # "constraint"
  /\ \E n \in Nat : n <= numWrites /\ flushed = {w \in written : w[2].seq < n}

NumbersInv == BeforeWrap => Numbered

LEMMA NextNumbers ==
  ASSUME TypeOK, PaceInv, NodeOK, NumbersInv, [BenchNext]_benchVars
  PROVE  NumbersInv'
<1> SUFFICES ASSUME BeforeWrap' PROVE Numbered'
  BY DEF NumbersInv
<1>1. BeforeWrap
  BY LoopSteps, WrapStays
<1>2. Numbered
  BY <1>1 DEF NumbersInv
<1>3. numWrites \in Nat
  BY DEF TypeOK
<1>4. PICK n \in Nat : n <= numWrites /\ flushed = {w \in written : w[2].seq < n}
  BY <1>2 DEF Numbered
<1>5. CASE Writes
  <2>1. PICK k \in BlobKey, b \in BlobSize, d \in SetDurations :
          /\ IssueWrite(d)
          /\ written' = written \cup {<<k, [seq |-> numWrites, blob |-> b]>>}
          /\ UNCHANGED <<flushed, failure>>
    BY <1>5 DEF Writes
  <2>2. numWrites' = numWrites + 1
    BY <1>1, <2>1, NextNumber
  <2>3. \A w \in written' : w[2].seq \in Nat /\ w[2].seq < numWrites'
    BY <1>2, <1>3, <2>1, <2>2 DEF Numbered
  <2>4. {w \in written' : w[2].seq < n} = {w \in written : w[2].seq < n}
    BY <1>3, <1>4, <2>1
  <2>5. n <= numWrites'
    BY <1>3, <1>4, <2>2
  <2> QED BY <1>2, <1>4, <2>1, <2>3, <2>4, <2>5 DEF Numbered
<1>6. CASE Flushes
  <2>1. numWrites' = numWrites /\ flushed' = written /\ UNCHANGED <<written, failure>>
    BY <1>6 DEF Flushes, UpdateBackend
  <2>2. written = {w \in written : w[2].seq < numWrites}
    BY <1>2 DEF Numbered
  <2> QED BY <1>2, <1>3, <2>1, <2>2 DEF Numbered
<1>7. CASE Waits
  <2>1. numWrites' = numWrites
    BY <1>7 DEF Waits, Next, IssueWrite, RunOver, Account, UpdateBackend, SampleMemory,
                SampleDisk, SkipDisk, Sleep, Report, loopVars
  <2> QED BY <1>2, <1>7, <2>1 DEF Waits, Numbered
<1>8. CASE Ends
  <2>1. numWrites' = numWrites
    BY <1>8 DEF Ends, loopVars
  <2>2. failure' # "constraint"
    BY <1>2, <1>3, <1>8 DEF Ends, Numbered
  <2>3. CASE UNCHANGED <<written, flushed>>
    BY <1>2, <2>1, <2>2, <2>3 DEF Numbered
  <2>4. CASE written' = {} /\ flushed' = {}
    BY <1>3, <2>1, <2>2, <2>4 DEF Numbered
  <2> QED BY <1>8, <2>3, <2>4 DEF Ends
<1> QED BY <1>5, <1>6, <1>7, <1>8, BenchSteps

LEMMA NumbersAlways == BenchSpec => []NumbersInv
<1>1. BenchInit => NumbersInv
  BY DEF BenchInit, Init, NumbersInv, Numbered
<1>2. TypeOK /\ PaceInv /\ NodeOK /\ NumbersInv /\ [BenchNext]_benchVars => NumbersInv'
  BY NextNumbers
<1> QED BY <1>1, <1>2, LoopAlways, NodeAlways, PTL DEF BenchSpec

(***************************************************************************)
(* The loop numbers its writes so that the upsert's constraint ends no     *)
(* process before numWrites has wrapped around, whatever was in the file.  *)
(***************************************************************************)
THEOREM NoStaleWrite == BenchSpec => []StaleOnlyAfterWrap
<1>1. NumbersInv => StaleOnlyAfterWrap
  BY DEF NumbersInv, Numbered, StaleOnlyAfterWrap
<1> QED BY <1>1, NumbersAlways, PTL

(***************************************************************************)
(* What a crash leaves in the file is a prefix of the run, and nothing of  *)
(* an earlier one: the newest blob of each key among the first n writes.   *)
(* FileIsPrefix claims this only while no uint32_t counter has wrapped.    *)
(***************************************************************************)
THEOREM CrashLeavesPrefix == BenchSpec => []FileIsPrefix
<1>1. ASSUME TypeOK, NodeOK, NumbersInv PROVE FileIsPrefix
  <2> SUFFICES ASSUME started, NoCounterWrapped
               PROVE  \E n \in 0 .. Uint32 : \A k \in BlobKey :
                        Node!IsLatest(committed[k], {w \in written : w[2].seq < n}, k)
    BY DEF FileIsPrefix
  <2>1. PICK n \in Nat : n <= numWrites /\ flushed = {w \in written : w[2].seq < n}
    BY <1>1 DEF NumbersInv, Numbered, NoCounterWrapped
  <2>2. n \in 0 .. Uint32
    BY <1>1, <2>1, ClockAssumption DEF TypeOK
  <2>3. \A k \in BlobKey : NodeProofs!IsLatest(committed[k], flushed, k)
    BY <1>1 DEF NodeOK, NodeProofs!NodeInv, NodeProofs!LatestBlobWins
  <2>4. \A k \in BlobKey : Node!IsLatest(committed[k], flushed, k)
    BY <2>3 DEF Node!IsLatest, NodeProofs!IsLatest, Node!Version, NodeProofs!Version
  <2> QED BY <2>1, <2>2, <2>4
<1> QED BY <1>1, LoopAlways, NodeAlways, NumbersAlways, PTL

-----------------------------------------------------------------------------
(***************************************************************************)
(* The time until a write is durable                                       *)
(***************************************************************************)
\* The timer expires within a period of time t.
DueWithin(timer, t) == timer \in Nat /\ timer <= t + FlushTicks

LEMMA TimerDue ==
  ASSUME NEW timer, NEW t \in Nat, DueWithin(timer, t)
  PROVE  /\ \A u \in Nat : t <= u => DueWithin(timer, u)
         /\ HasExpired(timer, t)
              => \A r \in Rearmed(timer, t, FlushTicks) : DueWithin(r, t)
         /\ \A u \in Nat : ~HasExpired(timer, u) => u <= t + FlushTicks
BY FlushAssumption DEF DueWithin, HasExpired, Rearmed

(***************************************************************************)
(* While a batch is open the timer is due within a period of its first     *)
(* write, which is therefore never later than WriteBenchmarkProofs' Late   *)
(* allows: no Update has found the timer expired since.                    *)
(***************************************************************************)
FlushesInTime ==
  /\ DueWithin(flushTimer, now)
  /\ inTransaction =>
       /\ dirtySince \in Nat
       /\ DueWithin(flushTimer, dirtySince)
       /\ Headroom > 0 => Late((dirtySince + FlushTicks) * Headroom)

\* A time before the deadline, multiplied by Headroom.
LEMMA InTime ==
  ASSUME NEW t \in Nat, NEW a \in Nat, t <= a, Headroom > 0
  PROVE  a * Headroom \in Int /\ t * Headroom <= a * Headroom
<1>1. Headroom \in Nat
  BY TimeTypes
<1>2. Headroom * t <= Headroom * a
  BY <1>1, Monotonic
<1> QED BY <1>1, <1>2

LEMMA NextFlushesInTime ==
  ASSUME TypeOK, PaceInv, IterInv, NodeOK, FlushesInTime, [BenchNext]_benchVars
  PROVE  FlushesInTime'
<1>1. [Next]_loopVars
  BY LoopSteps
<1>2. now \in Nat /\ now' \in Nat /\ now <= now' /\ FlushTicks \in Nat
  BY <1>1, ClockAdvances, FlushAssumption DEF TypeOK
<1>7. DueWithin(flushTimer, now) /\ \A u : u = now' => DueWithin(flushTimer, u)
  BY <1>2, TimerDue DEF FlushesInTime
<1>3. CASE Writes
  <2>1. PICK d \in SetDurations :
          /\ IssueWrite(d)
          /\ dirtySince' = IF inTransaction THEN dirtySince ELSE now
          /\ flushTimer' = flushTimer
    BY <1>3 DEF Writes
  <2>2. pc = "writes" /\ pc' = "writes"
    BY <2>1 DEF IssueWrite
  <2>3. PICK t \in Nat : t = dirtySince'
    BY <1>2, <2>1 DEF FlushesInTime
  <2>4. DueWithin(flushTimer', t)
    BY <1>7, <2>1, <2>3 DEF FlushesInTime
  <2>5. ASSUME Headroom > 0 PROVE Late((t + FlushTicks) * Headroom)'
    <3>1. t + FlushTicks \in Nat /\ (t + FlushTicks) * Headroom \in Int
      BY <1>2, TimeTypes
    <3>2. Late((t + FlushTicks) * Headroom)
      <4>1. CASE inTransaction
        BY <2>1, <2>3, <2>5, <4>1 DEF FlushesInTime
      <4>2. CASE ~inTransaction
        <5>1. now * Headroom <= (t + FlushTicks) * Headroom
          BY <1>2, <2>1, <2>3, <2>5, <3>1, <4>2, InTime
        <5> QED BY <2>2, <2>5, <3>1, <5>1, NotYetLate
      <4> QED BY <4>1, <4>2
    <3> QED BY <1>1, <2>2, <2>5, <3>1, <3>2, LateNext
  <2>6. DueWithin(flushTimer, now)'
    BY <1>7, <2>1 DEF DueWithin
  <2> QED BY <2>3, <2>4, <2>5, <2>6 DEF FlushesInTime
<1>4. CASE Flushes
  <2>1. PICK d \in StepDurations :
          /\ UpdateBackend(d)
          /\ flushTimer' \in Rearmed(flushTimer, now, FlushTicks)
          /\ HasExpired(flushTimer, now)
    BY <1>4 DEF Flushes
  <2>2. DueWithin(flushTimer, now)'
    <3>1. PICK r, u : r = flushTimer' /\ u = now'
      OBVIOUS
    <3>2. DueWithin(r, now)
      BY <1>2, <1>7, <2>1, <3>1, TimerDue
    <3>3. DueWithin(r, u)
      BY <1>2, <3>1, <3>2, TimerDue
    <3> QED BY <3>1, <3>3 DEF DueWithin
  <2>3. ~inTransaction'
    BY <1>4 DEF Flushes
  <2> QED BY <2>2, <2>3 DEF FlushesInTime
<1>5. CASE Waits
  <2>1. UNCHANGED <<inTransaction, flushTimer, dirtySince>>
    BY <1>5 DEF Waits
  <2>2. ASSUME inTransaction, Headroom > 0
        PROVE  Late((dirtySince + FlushTicks) * Headroom)'
    <3>1. PICK t \in Nat : t = dirtySince
      BY <2>2 DEF FlushesInTime
    <3>2. t + FlushTicks \in Nat /\ (t + FlushTicks) * Headroom \in Int
      BY <1>2, TimeTypes
    <3>3. Late((t + FlushTicks) * Headroom)
      BY <2>2, <3>1 DEF FlushesInTime
    <3>4. pc = "writes" /\ pc' = "stats" => now * Headroom <= (t + FlushTicks) * Headroom
      <4> SUFFICES ASSUME pc = "writes", pc' = "stats"
                   PROVE  now * Headroom <= (t + FlushTicks) * Headroom
        OBVIOUS
      <4>1. now <= t + FlushTicks
        BY <1>2, <1>5, <2>2, <3>1, TimerDue DEF Waits, FlushesInTime
      <4> QED BY <1>2, <2>2, <3>2, <4>1, InTime
    <3>5. Late((t + FlushTicks) * Headroom)'
      BY <1>1, <2>2, <3>2, <3>3, <3>4, LateNext
    <3> QED BY <2>1, <3>1, <3>5
  <2>3. DueWithin(flushTimer, now)'
    BY <1>7, <2>1 DEF DueWithin
  <2>4. inTransaction => dirtySince \in Nat /\ DueWithin(flushTimer, dirtySince)
    BY DEF FlushesInTime
  <2> QED BY <2>1, <2>2, <2>3, <2>4 DEF FlushesInTime, DueWithin
<1>6. CASE Ends
  <2>1. UNCHANGED <<now, flushTimer>> /\ ~inTransaction'
    BY <1>6 DEF Ends, loopVars
  <2> QED BY <1>7, <2>1 DEF FlushesInTime, DueWithin
<1> QED BY <1>3, <1>4, <1>5, <1>6, BenchSteps

(***************************************************************************)
(* The oldest write that a crash would lose is younger than the flush      *)
(* period plus an iteration of the loop, if Set is fast enough for the     *)
(* rate: whenever a batch began and however the timer is re-armed.         *)
(***************************************************************************)
THEOREM LossIsBounded == BenchSpec => []LossWindow
<1>1. BenchInit => FlushesInTime
  BY ClockAssumption, FlushAssumption DEF BenchInit, Init, FlushesInTime, DueWithin
<1>2. TypeOK /\ PaceInv /\ IterInv /\ NodeOK /\ FlushesInTime /\ [BenchNext]_benchVars
        => FlushesInTime'
  BY NextFlushesInTime
<1>3. ASSUME TypeOK, PaceInv, FlushesInTime PROVE LossWindow
  <2> SUFFICES ASSUME inTransaction, pc \notin {"report", "done"}, Headroom > 0
               PROVE  (now - dirtySince - FlushTicks) * Headroom <= 1 * (OwnTime * Second)
    BY DEF LossWindow, WithinIterations
  <2>1. now \in Nat /\ FlushTicks \in Nat /\ Headroom \in Int /\ OwnTime * Second \in Int
    <3>1. Headroom \in Int /\ OwnTime \in Nat /\ Second \in Nat
      BY TimeTypes
    <3>2. OwnTime * Second \in Int
      BY <3>1
    <3>3. now \in Nat /\ FlushTicks \in Nat
      BY <1>3, FlushAssumption DEF TypeOK
    <3> QED BY <3>1, <3>2, <3>3
  <2>2. PICK t \in Nat : t = dirtySince
    BY <1>3 DEF FlushesInTime
  <2>3. Late((t + FlushTicks) * Headroom)
    BY <1>3, <2>2 DEF FlushesInTime
  <2>4. (t + FlushTicks) * Headroom \in Int
    BY <2>1
  <2>5. now * Headroom - (t + FlushTicks) * Headroom <= OwnTime * Second
    BY <1>3, <2>3, <2>4, LateByAnIteration
  <2>6. (now - t - FlushTicks) * Headroom = now * Headroom - (t + FlushTicks) * Headroom
    BY <2>1
  <2> QED BY <2>1, <2>2, <2>5, <2>6
<1> QED BY <1>1, <1>2, <1>3, LoopAlways, NodeAlways, PTL DEF BenchSpec
=============================================================================
