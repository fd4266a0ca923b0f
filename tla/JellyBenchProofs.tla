--------------------------- MODULE JellyBenchProofs ---------------------------
(***************************************************************************)
(* Proofs about JellyBench: what the loop and the backend guarantee        *)
(* together that neither does alone, for every configuration, all          *)
(* durations and any number of requests and WALs.  The lemmas about the    *)
(* loop are those of WriteBenchmarkProofs, those about the backend are     *)
(* JellyWriteProofs' of the backend as it is composed here.  The last      *)
(* section is about ProcessStats, the statistics that main prints of the   *)
(* same run.                                                               *)
(***************************************************************************)
EXTENDS JellyBench, ProcessStats, WriteBenchmarkProofs

BackendProofs == INSTANCE JellyWriteProofs
                   WITH Key <- BlobKey, Blob <- BlobSize, MaxSeq <- Uint32 - 1,
                        pc <- backendPc, pending <- walPending

USE DEF PosInt

-----------------------------------------------------------------------------
(***************************************************************************)
(* The composition                                                         *)
(***************************************************************************)
\* What the backend assumes of its constants.
LEMMA BackendAssumptions ==
  /\ Uint32 - 1 \in Nat
  /\ None \notin BackendProofs!Version \cup BackendProofs!Item
<1>1. Uint32 - 1 \in Nat
  BY ClockAssumption
<1>2. BackendProofs!Version = [seq : 0 .. Uint32 - 1, blob : BlobSize]
  BY DEF BackendProofs!Version, BackendProofs!SeqNo
<1>3. BackendProofs!Item = BlobKey \X BackendProofs!Version
  BY DEF BackendProofs!Item
<1> HIDE DEF BackendProofs!Version
<1> QED BY <1>1, <1>2, <1>3, ProcessAssumption

\* A step of the composition is a step of the loop, or leaves the loop alone.
LEMMA LoopSteps == ASSUME TypeOK, [BenchNext]_benchVars PROVE [Next]_loopVars
<1>1. ASSUME NEW d \in SetDurations, \E k, b : Write(k, b, d) PROVE Next
  BY <1>1 DEF Write, Next
<1>2. ASSUME NEW d \in StepDurations, EndUpdate(d) \/ Proceed(d) PROVE Next
  BY <1>2 DEF EndUpdate, Proceed, Next
<1>3. CASE Start \/ BeginUpdate \/ Housekeep \/ Finish \/ Kill
  BY <1>3 DEF Start, BeginUpdate, Housekeep, Finish, Kill
<1>4. CASE UNCHANGED benchVars
  BY <1>4 DEF benchVars
<1> QED BY <1>1, <1>2, <1>3, <1>4 DEF BenchNext

\* What is proved of the loop holds of the composition.
LEMMA LoopAlways == BenchSpec => [](TypeOK /\ PaceInv /\ IterInv)
<1>1. BenchInit => TypeOK /\ PaceInv /\ IterInv
  BY InitType, InitPace, InitIter DEF BenchInit
<1>2. TypeOK /\ PaceInv /\ IterInv /\ [BenchNext]_benchVars
        => (TypeOK /\ PaceInv /\ IterInv)'
  BY LoopSteps, NextType, NextPace, NextIter
<1> QED BY <1>1, <1>2, PTL DEF BenchSpec

\* What the node makes of its queue.
LEMMA QueueContent ==
  /\ Backend!Outdated = BackendProofs!Outdated
  /\ \A v, R, k : Backend!Newest(v, R, k) = BackendProofs!Newest(v, R, k)
  /\ Backend!Processed = BackendProofs!Processed
<1>1. \A j : Backend!OutdatedAt(j) = BackendProofs!OutdatedAt(j)
  BY Zenon DEF Backend!OutdatedAt, BackendProofs!OutdatedAt, Backend!Older,
               BackendProofs!Older
<1>2. Backend!Outdated = BackendProofs!Outdated
  BY <1>1, Zenon DEF Backend!Outdated, BackendProofs!Outdated
<1>3. \A v, R, k : Backend!Newest(v, R, k) = BackendProofs!Newest(v, R, k)
  BY Zenon DEF Backend!Newest, BackendProofs!Newest, Backend!Older, BackendProofs!Older
<1>4. Backend!Processed = BackendProofs!Processed
  BY <1>2, <1>3, Zenon DEF Backend!Processed, BackendProofs!Processed, Backend!ToSet,
                           BackendProofs!ToSet
<1> QED BY <1>2, <1>3, <1>4

\* The operations of the backend are those its proofs are about.
LEMMA BackendActions ==
  /\ Backend!Open => BackendProofs!Open
  /\ \A k, v : Backend!Set(k, v) => BackendProofs!Set(k, v)
  /\ Backend!UpdateExpired => BackendProofs!UpdateExpired
  /\ Backend!UpdateEarly => BackendProofs!UpdateEarly
  /\ \A w : Backend!FlushWAL(w) => BackendProofs!FlushWAL(w)
  /\ Backend!FlushStore => BackendProofs!FlushStore
  /\ Backend!RewriteFiles => BackendProofs!RewriteFiles
  /\ Backend!UpdateReturns => BackendProofs!UpdateReturns
  /\ Backend!Close => BackendProofs!Close
  /\ Backend!DestroyMembers => BackendProofs!DestroyMembers
  /\ Backend!Crash => BackendProofs!Crash
<1>1. Backend!Open => BackendProofs!Open
  BY Zenon DEF Backend!Open, BackendProofs!Open, Backend!Empty, BackendProofs!Empty
<1>2. \A k, v : Backend!Set(k, v) => BackendProofs!Set(k, v)
  BY QueueContent, Zenon DEF Backend!Set, BackendProofs!Set, Backend!Older,
                             BackendProofs!Older
<1>3. Backend!UpdateExpired => BackendProofs!UpdateExpired
  BY QueueContent, Zenon
  DEF Backend!UpdateExpired, BackendProofs!UpdateExpired, Backend!ProcessRequests,
      BackendProofs!ProcessRequests, Backend!UpdateRequests, BackendProofs!UpdateRequests,
      Backend!Released, BackendProofs!Released, Backend!ToSet, BackendProofs!ToSet
<1>4. \A w : Backend!FlushWAL(w) => BackendProofs!FlushWAL(w)
  BY QueueContent, Zenon DEF Backend!FlushWAL, BackendProofs!FlushWAL,
                             Backend!FlushPendingWAL, BackendProofs!FlushPendingWAL
<1>5. /\ Backend!UpdateEarly => BackendProofs!UpdateEarly
      /\ Backend!FlushStore => BackendProofs!FlushStore
      /\ Backend!RewriteFiles => BackendProofs!RewriteFiles
      /\ Backend!UpdateReturns => BackendProofs!UpdateReturns
  BY Zenon DEF Backend!UpdateEarly, BackendProofs!UpdateEarly, Backend!FlushStore,
               BackendProofs!FlushStore, Backend!RewriteFiles, BackendProofs!RewriteFiles,
               Backend!jellyVars, BackendProofs!jellyVars, Backend!UpdateReturns,
               BackendProofs!UpdateReturns
<1>6. /\ Backend!Close => BackendProofs!Close
      /\ Backend!DestroyMembers => BackendProofs!DestroyMembers
      /\ Backend!Crash => BackendProofs!Crash
  BY Zenon DEF Backend!Close, BackendProofs!Close, Backend!DestroyMembers,
               BackendProofs!DestroyMembers, Backend!Crash, BackendProofs!Crash,
               Backend!NodeGone, BackendProofs!NodeGone, Backend!Released,
               BackendProofs!Released
<1> QED BY <1>1, <1>2, <1>3, <1>4, <1>5, <1>6, Zenon

-----------------------------------------------------------------------------
(***************************************************************************)
(* What a step of the composition does                                     *)
(***************************************************************************)
Running == backendPc \in {"ready", "housekeeping"}

Starts ==
  /\ ~started /\ started'
  /\ BackendProofs!Open
  /\ UNCHANGED <<loopVars, processRequestsTimer, historyVars>>

Writes ==
  \E k \in BlobKey, v \in BackendProofs!Version, d \in SetDurations :
    /\ IssueWrite(d) /\ v.seq = numWrites
    /\ BackendProofs!Set(k, v)
    /\ queuedSince' = IF queue = << >> THEN now ELSE queuedSince
    /\ UNCHANGED <<started, processRequestsTimer, completedSince>>

Polls ==
  /\ pc = "writes"
  /\ \/ /\ HasExpired(processRequestsTimer, now)
        /\ processRequestsTimer' \in Rearmed(processRequestsTimer, now, ProcessTicks)
        /\ BackendProofs!UpdateExpired
     \/ /\ ~HasExpired(processRequestsTimer, now)
        /\ UNCHANGED processRequestsTimer
        /\ BackendProofs!UpdateEarly
  /\ queue' # << >> => queuedSince' = queuedSince
  /\ completed' # {} => completedSince' = completedSince
  /\ UNCHANGED <<loopVars, started>>

Housekeeps ==
  /\ \/ \E w \in WAL : BackendProofs!FlushWAL(w)
     \/ BackendProofs!FlushStore
     \/ BackendProofs!RewriteFiles
  /\ completedSince' =
       IF completed = {} /\ completed' # {} THEN now ELSE completedSince
  /\ UNCHANGED <<loopVars, started, processRequestsTimer, queuedSince>>

Returns ==
  /\ BackendProofs!UpdateReturns
  /\ pc = "writes" /\ pc' = "stats" /\ [Next]_loopVars
  /\ UNCHANGED <<numWrites, started, processRequestsTimer, historyVars>>

Goes ==
  /\ [Next]_loopVars
  /\ pc' # pc => backendPc = "ready" /\ pc # "writes"
  /\ UNCHANGED loopVars \/ backendPc = "ready"
  /\ UNCHANGED <<numWrites, jellyVars, started, processRequestsTimer, historyVars>>

Ends ==
  /\ \/ BackendProofs!Close /\ pc = "done"
     \/ BackendProofs!DestroyMembers
     \/ BackendProofs!Crash
  /\ UNCHANGED <<loopVars, started, processRequestsTimer>>

\* Every step is one of these.
LEMMA BenchSteps ==
  ASSUME TypeOK, [BenchNext]_benchVars
  PROVE  Starts \/ Writes \/ Polls \/ Housekeeps \/ Returns \/ Goes \/ Ends
<1>1. CASE Start
  BY <1>1, BackendActions DEF Start, Starts
<1>2. ASSUME NEW k \in BlobKey, NEW b \in RandomBlob, NEW d \in SetDurations,
             Write(k, b, d)
      PROVE  Writes
  <2> DEFINE v == [seq |-> numWrites, blob |-> b]
  <2>1. v \in BackendProofs!Version /\ v.seq = numWrites
    BY DEF TypeOK, RandomBlob, BackendProofs!Version, BackendProofs!SeqNo
  <2>2. BackendProofs!Set(k, v)
    BY <1>2, BackendActions DEF Write
  <2> HIDE DEF v
  <2> QED BY <1>2, <2>1, <2>2 DEF Write, Writes
<1>3. CASE BeginUpdate
  <2>1. /\ queue' # << >> => queuedSince' = queuedSince
        /\ completed' # {} => completedSince' = completedSince
    BY <1>3 DEF BeginUpdate
  <2> QED BY <1>3, <2>1, BackendActions DEF BeginUpdate, Polls
<1>4. CASE Housekeep
  BY <1>4, BackendActions DEF Housekeep, Housekeeps
<1>5. ASSUME NEW d \in StepDurations, EndUpdate(d) PROVE Returns
  BY <1>5, BackendActions DEF EndUpdate, UpdateBackend, Next, Returns
<1>6. ASSUME NEW d \in StepDurations, Proceed(d) PROVE Goes
  <2>1. pc # "writes" /\ numWrites' = numWrites
    BY <1>6 DEF Proceed, RunOver, Account, SampleMemory, SampleDisk, SkipDisk, Sleep, Report
  <2>2. Next
    BY <1>6 DEF Proceed, Next
  <2> QED BY <1>6, <2>1, <2>2 DEF Proceed, Goes
<1>7. CASE Finish \/ Kill
  BY <1>7, BackendActions DEF Finish, Kill, Ends
<1>8. CASE UNCHANGED benchVars
  <2>1. UNCHANGED <<loopVars, jellyVars, started, processRequestsTimer, historyVars>>
    BY <1>8 DEF benchVars
  <2>2. pc' = pc /\ numWrites' = numWrites
    BY <2>1 DEF loopVars
  <2> QED BY <2>1, <2>2 DEF Goes
<1> QED BY <1>1, <1>2, <1>3, <1>4, <1>5, <1>6, <1>7, <1>8 DEF BenchNext

\* Each request that the node knows stays owned and in one place.
LEMMA OwnAlways == BenchSpec => [](TypeOK /\ PaceInv /\ IterInv /\ BackendProofs!OwnInv)
<1>1. BenchInit => BackendProofs!OwnInv
  <2> SUFFICES ASSUME BenchInit PROVE BackendProofs!OwnInv
    OBVIOUS
  <2>1. queue \in Seq(Request) /\ Len(queue) = 0 /\ BackendProofs!ToSet(queue) = {}
    BY DEF BenchInit, BackendProofs!ToSet
  <2>2. BackendProofs!Waiting = {}
    BY <2>1 DEF BenchInit, BackendProofs!Waiting
  <2>3. durable \in BackendProofs!Table /\ table \in BackendProofs!Table
    BY Zenon DEF BenchInit, Backend!Table, BackendProofs!Table, Backend!Version,
                 BackendProofs!Version, Backend!SeqNo, BackendProofs!SeqNo
  <2>4. BackendProofs!TypeOK
    BY <2>1, <2>3 DEF BenchInit, BackendProofs!TypeOK
  <2>5. BackendProofs!OnePlace
    BY <2>1, <2>2 DEF BenchInit, BackendProofs!OnePlace, BackendProofs!QueuedOnce
  <2> QED BY <2>2, <2>4, <2>5 DEF BackendProofs!OwnInv, BackendProofs!NoDanglingRequest
<1>2. ASSUME TypeOK, BackendProofs!OwnInv, [BenchNext]_benchVars
      PROVE  BackendProofs!OwnInv'
  <2>1. ASSUME UNCHANGED jellyVars PROVE UNCHANGED BackendProofs!jellyVars
    BY <2>1 DEF jellyVars, BackendProofs!jellyVars
  <2>2. [BackendProofs!Next]_(BackendProofs!jellyVars)
    BY <1>2, <2>1, BenchSteps DEF Starts, Writes, Polls, Housekeeps, Returns, Goes, Ends,
                                  BackendProofs!Next
  <2> QED BY <1>2, <2>2, BackendAssumptions, BackendProofs!OwnNext
<1> QED BY <1>1, <1>2, LoopAlways, PTL DEF BenchSpec

-----------------------------------------------------------------------------
(***************************************************************************)
(* No outdated request                                                     *)
(***************************************************************************)
QueuedSeq(j) == fields[queue[j]][2].seq

(***************************************************************************)
(* Until numWrites wraps around, the numbers in the queue grow from front  *)
(* to back, above everything the node's table holds and below the number   *)
(* of the next write.                                                      *)
(***************************************************************************)
NumbersGrow ==
  /\ \A j \in 1 .. Len(queue) : QueuedSeq(j) < numWrites
  /\ \A i, j \in 1 .. Len(queue) : i < j => QueuedSeq(i) < QueuedSeq(j)
  /\ \A k \in BlobKey : table[k] # None =>
       /\ table[k].seq < numWrites
       /\ \A j \in 1 .. Len(queue) : table[k].seq < QueuedSeq(j)

\* Without a node nothing is queued; a database of an earlier run is deleted.
Numbered ==
  /\ ~started => backendPc = "off"
  /\ ~Running => Len(queue) = 0
  /\ Running /\ BeforeWrap => NumbersGrow

LEMMA QueueTypes ==
  ASSUME BackendProofs!OwnInv
  PROVE  /\ Len(queue) \in Nat
         /\ \A j \in 1 .. Len(queue) : /\ fields[queue[j]][1] \in BlobKey
                                       /\ fields[queue[j]][2] \in BackendProofs!Version
                                       /\ QueuedSeq(j) \in Nat
         /\ \A k \in BlobKey : table[k] # None => table[k].seq \in Nat
<1> USE BackendAssumptions
<1>1. /\ Len(queue) \in Nat
      /\ \A j \in 1 .. Len(queue) : queue[j] \in BackendProofs!Waiting
  BY BackendProofs!QueueElements DEF BackendProofs!Waiting
<1>2. \A j \in 1 .. Len(queue) : /\ fields[queue[j]][1] \in BlobKey
                                 /\ fields[queue[j]][2] \in BackendProofs!Version
  BY <1>1, BackendProofs!WaitingIsItem
<1>3. \A x \in BackendProofs!Version : x.seq \in Nat
  BY DEF BackendProofs!Version, BackendProofs!SeqNo
<1>4. \A k \in BlobKey : table[k] # None => table[k] \in BackendProofs!Version
  BY DEF BackendProofs!OwnInv, BackendProofs!TypeOK, BackendProofs!Table
<1> QED BY <1>1, <1>2, <1>3, <1>4 DEF QueuedSeq

\* Numbers that grow leave nothing outdated.
LEMMA NothingOutdated ==
  ASSUME BackendProofs!OwnInv, NumbersGrow PROVE Backend!Outdated = {}
<1>1. ASSUME NEW j \in 1 .. Len(queue), BackendProofs!OutdatedAt(j) PROVE FALSE
  <2> DEFINE k == fields[queue[j]][1]
             v == fields[queue[j]][2]
  <2>1. k \in BlobKey /\ v.seq = QueuedSeq(j)
    BY QueueTypes DEF QueuedSeq
  <2>2. CASE ~BackendProofs!Older(table[k], v)
    <3>1. table[k] # None /\ ~(table[k].seq < v.seq)
      BY <2>2 DEF BackendProofs!Older
    <3> QED BY <2>1, <3>1 DEF NumbersGrow
  <2>3. CASE \E i \in 1 .. j - 1 : /\ fields[queue[i]][1] = k
                                   /\ ~BackendProofs!Older(fields[queue[i]][2], v)
    <3>1. PICK i \in 1 .. j - 1 : ~BackendProofs!Older(fields[queue[i]][2], v)
      BY <2>3
    <3>2. i \in 1 .. Len(queue) /\ i < j
      BY QueueTypes
    <3>3. ~(QueuedSeq(i) < QueuedSeq(j))
      BY <3>1 DEF BackendProofs!Older, QueuedSeq
    <3> QED BY <3>2, <3>3 DEF NumbersGrow
  <2> QED BY <1>1, <2>2, <2>3 DEF BackendProofs!OutdatedAt
<1>2. BackendProofs!Outdated = {}
  BY <1>1 DEF BackendProofs!Outdated
<1> QED BY <1>2, QueueContent

\* A write takes the next number and goes to the back of the queue.
LEMMA WriteNumbered ==
  ASSUME TypeOK, PaceInv, BackendProofs!OwnInv, BeforeWrap, NumbersGrow,
         NEW k \in BlobKey, NEW v \in BackendProofs!Version, NEW d \in SetDurations,
         IssueWrite(d), v.seq = numWrites, BackendProofs!Set(k, v)
  PROVE  NumbersGrow'
<1>1. numWrites \in Nat /\ numWrites' = numWrites + 1
  BY NextNumber
<1>2. table' = table
  BY DEF BackendProofs!Set
<1>3. /\ Len(queue') = Len(queue) + 1 /\ Len(queue) \in Nat
      /\ \A j \in 1 .. Len(queue) : fields'[queue'[j]] = fields[queue[j]]
      /\ fields'[queue'[Len(queue) + 1]] = <<k, v>>
  BY BackendAssumptions, BackendProofs!SetKeepsOutdated
<1> DEFINE n == Len(queue) + 1
           seq(j) == fields'[queue'[j]][2].seq
<1>4. /\ 1 .. n = (1 .. Len(queue)) \cup {n} /\ n \in Nat
      /\ \A j \in 1 .. Len(queue) : seq(j) = QueuedSeq(j) /\ j < n
      /\ seq(n) = numWrites
  BY <1>3 DEF QueuedSeq
<1>5. \A j \in 1 .. Len(queue) : QueuedSeq(j) \in Nat /\ QueuedSeq(j) < numWrites
  BY QueueTypes DEF NumbersGrow
<1>6. \A q \in BlobKey : table[q] # None =>
        /\ table[q].seq \in Nat /\ table[q].seq < numWrites
        /\ \A j \in 1 .. Len(queue) : table[q].seq < QueuedSeq(j)
  BY QueueTypes DEF NumbersGrow
<1> HIDE DEF n, seq
<1>7. \A j \in 1 .. n : seq(j) < numWrites'
  BY <1>1, <1>4, <1>5
<1>8. ASSUME NEW i \in 1 .. n, NEW j \in 1 .. n, i < j PROVE seq(i) < seq(j)
  <2>1. i \in 1 .. Len(queue)
    BY <1>3, <1>4, <1>8 DEF n
  <2>2. CASE j = n
    BY <1>4, <1>5, <2>1, <2>2
  <2>3. CASE j \in 1 .. Len(queue)
    BY <1>4, <1>8, <2>1, <2>3 DEF NumbersGrow
  <2> QED BY <1>4, <2>2, <2>3
<1>9. \A q \in BlobKey : table[q] # None =>
        /\ table[q].seq < numWrites'
        /\ \A j \in 1 .. n : table[q].seq < seq(j)
  BY <1>1, <1>4, <1>6
<1> QED BY <1>2, <1>3, <1>7, <1>8, <1>9 DEF NumbersGrow, QueuedSeq, n, seq

\* What the node takes from the queue bears a number that has been given.
LEMMA ProcessedNumbered ==
  ASSUME BackendProofs!OwnInv, NumbersGrow, BackendProofs!UpdateExpired, TypeOK,
         numWrites' = numWrites
  PROVE  NumbersGrow'
<1>1. Len(queue') = 0 /\ table' = BackendProofs!Processed
  BY DEF BackendProofs!UpdateExpired, BackendProofs!ProcessRequests
<1>2. ASSUME NEW k \in BlobKey, table'[k] # None
      PROVE  table'[k].seq < numWrites'
  <2> DEFINE p == BackendProofs!Processed[k]
  <2>1. p # table[k] => \E j \in 1 .. Len(queue) : fields[queue[j]] = <<k, p>>
    BY BackendAssumptions, BackendProofs!ProcessedEffect
  <2>2. CASE p = table[k]
    BY <1>1, <1>2, <2>2 DEF NumbersGrow
  <2>3. CASE p # table[k]
    <3>1. PICK j \in 1 .. Len(queue) : fields[queue[j]] = <<k, p>>
      BY <2>1, <2>3
    <3>2. p.seq = QueuedSeq(j)
      BY <3>1 DEF QueuedSeq
    <3> QED BY <1>1, <3>2 DEF NumbersGrow
  <2> QED BY <2>2, <2>3
<1> QED BY <1>1, <1>2 DEF NumbersGrow

LEMMA NextNumbered ==
  ASSUME TypeOK, PaceInv, BackendProofs!OwnInv, Numbered, [BenchNext]_benchVars
  PROVE  Numbered'
<1>1. BeforeWrap' => BeforeWrap
  BY LoopSteps, WrapStays
<1>2. CASE Starts
  <2>1. /\ backendPc = "off" /\ Len(queue') = 0 /\ started'
        /\ backendPc' = "ready" /\ \A k \in BlobKey : table'[k] = None
    BY <1>2 DEF Starts, Numbered, Running, BackendProofs!Open, BackendProofs!Empty
  <2> QED BY <2>1 DEF Numbered, NumbersGrow
<1>3. CASE Writes
  <2>1. PICK k \in BlobKey, v \in BackendProofs!Version, d \in SetDurations :
          /\ IssueWrite(d) /\ v.seq = numWrites
          /\ BackendProofs!Set(k, v) /\ started' = started
    BY <1>3 DEF Writes
  <2>2. backendPc = "ready" /\ backendPc' = "ready"
    BY <2>1 DEF BackendProofs!Set
  <2> QED BY <1>1, <2>1, <2>2, WriteNumbered DEF Numbered, Running
<1>4. CASE UNCHANGED numWrites /\ BackendProofs!UpdateExpired /\ UNCHANGED started
  <2>1. backendPc = "ready" /\ backendPc' = "housekeeping"
    BY <1>4 DEF BackendProofs!UpdateExpired
  <2> QED BY <1>1, <1>4, <2>1, ProcessedNumbered DEF Numbered, Running
<1>5. CASE /\ UNCHANGED <<numWrites, queue, table, fields, started>>
           /\ Running' => Running
           /\ ~Running' => ~Running
           /\ ~started => backendPc' = backendPc
  <2>1. NumbersGrow' = NumbersGrow
    BY <1>5 DEF NumbersGrow, QueuedSeq
  <2> QED BY <1>1, <1>5, <2>1 DEF Numbered
<1>6. CASE Polls
  <2>1. numWrites' = numWrites /\ started' = started
    BY <1>6 DEF Polls, loopVars
  <2>2. CASE BackendProofs!UpdateExpired
    BY <1>4, <2>1, <2>2
  <2>3. CASE BackendProofs!UpdateEarly
    <3>1. UNCHANGED <<queue, table, fields>> /\ Running /\ Running' /\ started
      BY <2>3 DEF BackendProofs!UpdateEarly, Running, Numbered
    <3> QED BY <1>5, <2>1, <3>1
  <2> QED BY <1>6, <2>2, <2>3 DEF Polls
<1>7. CASE Housekeeps
  <2>1. UNCHANGED <<queue, table, fields, numWrites, started, backendPc>>
    BY <1>7 DEF Housekeeps, loopVars, BackendProofs!FlushWAL, BackendProofs!FlushPendingWAL,
                BackendProofs!FlushStore, BackendProofs!RewriteFiles, BackendProofs!jellyVars
  <2> QED BY <1>5, <2>1 DEF Running
<1>8. CASE Returns
  <2>1. /\ UNCHANGED <<queue, table, fields, numWrites, started>>
        /\ Running /\ Running' /\ started
    BY <1>8 DEF Returns, BackendProofs!UpdateReturns, Running, Numbered
  <2> QED BY <1>5, <2>1
<1>9. CASE Goes
  <2>1. UNCHANGED <<queue, table, fields, numWrites, started, backendPc>>
    BY <1>9 DEF Goes, jellyVars
  <2> QED BY <1>5, <2>1 DEF Running
<1>10. CASE Ends
  <2>1. Len(queue') = 0 /\ backendPc' \in {"off", "closing"} /\ backendPc # "off"
        /\ started' = started
    BY <1>10 DEF Ends, BackendProofs!Close, BackendProofs!DestroyMembers,
                 BackendProofs!Crash, BackendProofs!NodeGone
  <2> QED BY <2>1 DEF Numbered, Running
<1> QED BY <1>2, <1>3, <1>6, <1>7, <1>8, <1>9, <1>10, BenchSteps

(***************************************************************************)
(* As long as numWrites has not wrapped around no queued request is        *)
(* outdated, whatever an earlier run left in the files: the numbers that   *)
(* the loop gives, the constructor that deletes the files and the order of *)
(* the queue fit together.                                                 *)
(***************************************************************************)
THEOREM NoStaleRequest == BenchSpec => []OutdatedOnlyAfterWrap
<1>1. BenchInit => Numbered
  BY DEF BenchInit, Numbered, Running
<1>2. TypeOK /\ PaceInv /\ BackendProofs!OwnInv /\ Numbered /\ [BenchNext]_benchVars
        => Numbered'
  BY NextNumbered
<1>3. ASSUME BackendProofs!OwnInv, Numbered PROVE OutdatedOnlyAfterWrap
  <2> SUFFICES ASSUME BeforeWrap PROVE Backend!Outdated = {}
    BY DEF OutdatedOnlyAfterWrap
  <2>1. CASE Running
    BY <1>3, <2>1, NothingOutdated DEF Numbered
  <2>2. CASE ~Running
    <3>1. BackendProofs!Outdated = {}
      BY <1>3, <2>2 DEF Numbered, BackendProofs!Outdated
    <3> QED BY <3>1, QueueContent
  <2> QED BY <2>1, <2>2
<1> QED BY <1>1, <1>2, <1>3, OwnAlways, PTL DEF BenchSpec

-----------------------------------------------------------------------------
(***************************************************************************)
(* Handed over and released in time                                        *)
(***************************************************************************)
\* The timer expires at or before a period after t.
DueWithin(timer, t) == timer \in Nat /\ t \in Nat /\ timer <= t + ProcessTicks

Passed(t) == t + ProcessTicks < now

\* The end of the period that begins at t, multiplied by Headroom.
Deadline(t) == (t + ProcessTicks) * Headroom

\* What began at t is no later than WriteBenchmarkProofs' Late allows.
OnTime(t) ==
  /\ DueWithin(processRequestsTimer, t)
  /\ Headroom > 0 => Late(Deadline(t))
  /\ backendPc = "housekeeping" => ~Passed(t)

(***************************************************************************)
(* What waits for the timer waits from a time after which the timer is due *)
(* within a period, and once Update has looked at the timer the end of the *)
(* period has not passed: until Update returns, no time does.              *)
(***************************************************************************)
ReleasesInTime ==
  /\ DueWithin(processRequestsTimer, now)
  /\ ~started => backendPc = "off"
  /\ ~Running => Len(queue) = 0
  /\ backendPc = "off" => completed = {}
  /\ backendPc = "closing" => pc = "done"
  /\ backendPc = "housekeeping" => pc = "writes"
  /\ queue # << >> => OnTime(queuedSince)
  /\ completed # {} /\ Running => OnTime(completedSince)

LEMMA DeadlineType ==
  ASSUME NEW t \in Nat
  PROVE  /\ Deadline(t) \in Int
         /\ \A u \in Nat : Headroom > 0 /\ u <= t + ProcessTicks
              => u * Headroom <= Deadline(t)
<1>1. ProcessTicks \in Nat /\ Headroom \in Int
  BY ProcessAssumption, TimeTypes
<1>2. Deadline(t) \in Int
  BY <1>1 DEF Deadline
<1>3. ASSUME NEW u \in Nat, Headroom > 0, u <= t + ProcessTicks
      PROVE  u * Headroom <= Deadline(t)
  <2>1. Headroom \in Nat /\ t + ProcessTicks \in Nat
    BY <1>1, <1>3
  <2>2. Headroom * u <= Headroom * (t + ProcessTicks)
    BY <1>3, <2>1, Monotonic
  <2> QED BY <2>1, <2>2 DEF Deadline
<1> QED BY <1>2, <1>3

LEMMA TimerDue ==
  ASSUME NEW timer, NEW t, DueWithin(timer, t)
  PROVE  /\ \A u \in Nat : t <= u => DueWithin(timer, u)
         /\ HasExpired(timer, t)
              => \A r \in Rearmed(timer, t, ProcessTicks) : DueWithin(r, t)
         /\ TypeOK /\ ~HasExpired(timer, now) => ~Passed(t)
BY ProcessAssumption DEF DueWithin, HasExpired, Rearmed, TypeOK, Passed

\* What waits stays on time in a step that leaves the timer alone.
LEMMA StaysOnTime ==
  ASSUME TypeOK, PaceInv, IterInv, [Next]_loopVars, NEW t, OnTime(t),
         UNCHANGED processRequestsTimer,
         pc = "writes" /\ pc' = "stats" => ~Passed(t),
         backendPc' = "housekeeping" => UNCHANGED now /\ ~Passed(t)
  PROVE  OnTime(t)'
<1>1. DueWithin(processRequestsTimer, t) /\ t \in Nat
  BY DEF OnTime, DueWithin
<1>2. ASSUME Headroom > 0 PROVE Late(Deadline(t))'
  <2>1. PICK A \in Int : A = Deadline(t) /\ Late(A)
    BY <1>1, <1>2, DeadlineType DEF OnTime
  <2>2. pc = "writes" /\ pc' = "stats" => now * Headroom <= A
    BY <1>1, <1>2, <2>1, DeadlineType, ProcessAssumption DEF Passed, TypeOK
  <2>3. Late(A)'
    BY <1>2, <2>1, <2>2, LateNext
  <2> QED BY <2>1, <2>3 DEF Deadline, Late, CatchingUp, Headroom, OwnTime, Second, SetTime,
                            StepTime, Longest
<1>3. Headroom' = Headroom
  BY DEF Headroom, Second, SetTime, Longest
<1> QED BY <1>1, <1>2, <1>3 DEF OnTime, DueWithin, Passed

\* What begins while the writes are made is on time.
LEMMA BeginsOnTime ==
  ASSUME TypeOK, PaceInv, IterInv, pc = "writes", DueWithin(processRequestsTimer, now)
  PROVE  \A t : t = now => OnTime(t)
<1>1. now \in Nat /\ now <= now + ProcessTicks /\ ~Passed(now)
  BY ProcessAssumption DEF TypeOK, Passed
<1>2. ASSUME Headroom > 0 PROVE Late(Deadline(now))
  BY <1>1, <1>2, DeadlineType, NotYetLate
<1> QED BY <1>1, <1>2 DEF OnTime

LEMMA NextReleasesInTime ==
  ASSUME TypeOK, PaceInv, IterInv, BackendProofs!OwnInv, ReleasesInTime,
         [BenchNext]_benchVars
  PROVE  ReleasesInTime'
<1>1. /\ [Next]_loopVars
      /\ now \in Nat /\ now' \in Nat /\ now <= now'
      /\ \A u : u = now' => DueWithin(processRequestsTimer, u)
  <2>1. [Next]_loopVars
    BY LoopSteps
  <2>2. now \in Nat /\ now' \in Nat /\ now <= now'
    BY <2>1, ClockAdvances DEF TypeOK
  <2> QED BY <2>1, <2>2, TimerDue DEF ReleasesInTime
<1>2. DueWithin(processRequestsTimer, now)'
        <=> \A u : u = now' => DueWithin(processRequestsTimer', u)
  BY DEF DueWithin
<1>3. queue = << >> <=> Len(queue) = 0
  BY BackendAssumptions, BackendProofs!QueueElements
\* Steps that leave the timer, the clock of what waits and the lists alone.
<1>4. ASSUME UNCHANGED <<processRequestsTimer, queue, completed, started>>,
             queue # << >> => UNCHANGED queuedSince,
             completed # {} => UNCHANGED completedSince,
             Running, Running',
             backendPc' = "housekeeping" => pc' = "writes",
             \A t : OnTime(t) =>
               /\ pc = "writes" /\ pc' = "stats" => ~Passed(t)
               /\ backendPc' = "housekeeping" => UNCHANGED now /\ ~Passed(t)
      PROVE  ReleasesInTime'
  <2>1. \A t : OnTime(t) => OnTime(t)'
    BY <1>1, <1>4, StaysOnTime
  <2>2. queue' # << >> => OnTime(queuedSince)'
    <3> SUFFICES ASSUME queue' # << >> PROVE OnTime(queuedSince)'
      OBVIOUS
    <3>1. PICK t : t = queuedSince /\ OnTime(t)
      BY <1>4 DEF ReleasesInTime
    <3>2. OnTime(t)' /\ t = queuedSince'
      BY <1>4, <2>1, <3>1
    <3> QED BY <3>2
  <2>3. completed' # {} => OnTime(completedSince)'
    <3> SUFFICES ASSUME completed' # {} PROVE OnTime(completedSince)'
      OBVIOUS
    <3>1. PICK t : t = completedSince /\ OnTime(t)
      BY <1>4 DEF ReleasesInTime
    <3>2. OnTime(t)' /\ t = completedSince'
      BY <1>4, <2>1, <3>1
    <3> QED BY <3>2
  <2>4. started' /\ backendPc' \in {"ready", "housekeeping"}
    BY <1>4 DEF ReleasesInTime, Running
  <2> QED BY <1>1, <1>2, <1>4, <2>2, <2>3, <2>4 DEF ReleasesInTime
<1>5. CASE Starts
  <2>1. /\ backendPc = "off" /\ Len(queue) = 0 /\ completed = {} /\ started'
        /\ queue' = queue /\ completed' = completed
        /\ backendPc' = "ready" /\ UNCHANGED <<now, processRequestsTimer>>
    BY <1>5 DEF Starts, ReleasesInTime, Running, BackendProofs!Open, loopVars
  <2> QED BY <1>1, <1>2, <1>3, <2>1 DEF ReleasesInTime
<1>6. CASE Writes
  <2>1. PICK k \in BlobKey, v \in BackendProofs!Version, d \in SetDurations :
          /\ IssueWrite(d)
          /\ BackendProofs!Set(k, v)
          /\ queuedSince' = IF queue = << >> THEN now ELSE queuedSince
          /\ UNCHANGED <<started, processRequestsTimer, completedSince>>
    BY <1>6 DEF Writes
  <2>2. /\ pc = "writes" /\ pc' = "writes" /\ started' /\ completed' = completed
        /\ backendPc = "ready" /\ backendPc' = "ready"
    BY <2>1 DEF IssueWrite, BackendProofs!Set, ReleasesInTime
  <2>3. \A t : OnTime(t) => OnTime(t)'
    BY <1>1, <2>1, <2>2, StaysOnTime
  <2>4. OnTime(queuedSince)'
    <3>1. PICK t : t = queuedSince' /\ OnTime(t)
      BY <2>1, <2>2, BeginsOnTime DEF ReleasesInTime
    <3> QED BY <2>3, <3>1
  <2>5. completed' # {} => OnTime(completedSince)'
    <3> SUFFICES ASSUME completed' # {} PROVE OnTime(completedSince)'
      OBVIOUS
    <3>1. PICK t : t = completedSince /\ OnTime(t)
      BY <2>2 DEF ReleasesInTime, Running
    <3>2. OnTime(t)' /\ t = completedSince'
      BY <2>1, <2>3, <3>1
    <3> QED BY <3>2
  <2> QED BY <1>1, <1>2, <2>1, <2>2, <2>4, <2>5 DEF ReleasesInTime, Running
<1>7. CASE Polls
  <2>1. /\ pc = "writes" /\ pc' = pc /\ now' = now /\ started' = started
        /\ [Next]_loopVars
    BY <1>7 DEF Polls, loopVars
  <2>2. CASE /\ HasExpired(processRequestsTimer, now)
             /\ processRequestsTimer' \in Rearmed(processRequestsTimer, now, ProcessTicks)
             /\ BackendProofs!UpdateExpired
    <3>1. /\ queue' = << >> /\ completed' = {}
          /\ backendPc = "ready" /\ backendPc' = "housekeeping"
      BY <2>2 DEF BackendProofs!UpdateExpired, BackendProofs!ProcessRequests,
                  BackendProofs!UpdateRequests
    <3>2. DueWithin(processRequestsTimer, now)'
      <4>1. PICK r : r = processRequestsTimer' /\ DueWithin(r, now)
        BY <2>2, TimerDue DEF ReleasesInTime
      <4> QED BY <1>2, <2>1, <4>1
    <3>3. started'
      BY <2>1, <3>1 DEF ReleasesInTime
    <3> QED BY <2>1, <3>1, <3>2, <3>3 DEF ReleasesInTime, Running
  <2>3. CASE /\ ~HasExpired(processRequestsTimer, now)
             /\ UNCHANGED processRequestsTimer
             /\ BackendProofs!UpdateEarly
    <3>1. /\ UNCHANGED <<queue, completed>>
          /\ backendPc = "ready" /\ backendPc' = "housekeeping"
      BY <2>3 DEF BackendProofs!UpdateEarly
    <3>2. \A t : OnTime(t) => ~Passed(t)
      BY <2>3, TimerDue DEF OnTime
    <3>3. /\ queue # << >> => queuedSince' = queuedSince
          /\ completed # {} => completedSince' = completedSince
      BY <1>7, <3>1 DEF Polls
    <3> QED BY <1>4, <2>1, <2>3, <3>1, <3>2, <3>3 DEF Running
  <2> QED BY <1>7, <2>2, <2>3 DEF Polls
<1>8. CASE Housekeeps
  <2>1. /\ UNCHANGED <<loopVars, now, pc, started, processRequestsTimer, queuedSince>>
        /\ UNCHANGED <<queue, backendPc>> /\ backendPc = "housekeeping"
    BY <1>8 DEF Housekeeps, loopVars, BackendProofs!FlushWAL, BackendProofs!FlushPendingWAL,
                BackendProofs!FlushStore, BackendProofs!RewriteFiles, BackendProofs!jellyVars
  <2>2. /\ completedSince' =
             IF completed = {} /\ completed' # {} THEN now ELSE completedSince
        /\ pc = "writes" /\ Running /\ Running' /\ started
    BY <1>8, <2>1 DEF Housekeeps, ReleasesInTime, Running
  <2>3. \A t : OnTime(t) => OnTime(t)'
    <3>1. \A t : OnTime(t) => ~Passed(t)
      BY <2>1 DEF OnTime
    <3> QED BY <1>1, <2>1, <2>2, <3>1, StaysOnTime
  <2>4. queue' # << >> => OnTime(queuedSince)'
    <3> SUFFICES ASSUME queue' # << >> PROVE OnTime(queuedSince)'
      OBVIOUS
    <3>1. PICK t : t = queuedSince /\ OnTime(t)
      BY <2>1 DEF ReleasesInTime
    <3>2. OnTime(t)' /\ t = queuedSince'
      BY <2>1, <2>3, <3>1
    <3> QED BY <3>2
  <2>5. completed' # {} => OnTime(completedSince)'
    <3> SUFFICES ASSUME completed' # {} PROVE OnTime(completedSince)'
      OBVIOUS
    <3>1. PICK t : t = completedSince' /\ OnTime(t)
      BY <2>2, BeginsOnTime DEF ReleasesInTime
    <3> QED BY <2>3, <3>1
  <2> QED BY <1>1, <1>2, <2>1, <2>2, <2>4, <2>5 DEF ReleasesInTime, Running
<1>9. CASE Returns
  <2>1. /\ UNCHANGED <<processRequestsTimer, queue, completed, started>>
        /\ UNCHANGED <<queuedSince, completedSince>>
        /\ backendPc = "housekeeping" /\ backendPc' = "ready"
    BY <1>9 DEF Returns, historyVars, BackendProofs!UpdateReturns
  <2>2. \A t : OnTime(t) => ~Passed(t)
    BY <2>1 DEF OnTime
  <2> QED BY <1>4, <2>1, <2>2 DEF Running
<1>10. CASE Goes
  <2>1. /\ UNCHANGED <<processRequestsTimer, queue, completed, started, backendPc>>
        /\ UNCHANGED <<queuedSince, completedSince>>
        /\ pc' # pc => backendPc = "ready" /\ pc # "writes"
    BY <1>10 DEF Goes, historyVars, jellyVars
  <2>2. CASE backendPc = "ready"
    BY <1>4, <2>1, <2>2 DEF Running
  <2>3. CASE UNCHANGED loopVars
    <3>1. now' = now /\ pc' = pc
      BY <2>3 DEF loopVars
    <3>2. CASE Running
      <4>1. \A t : OnTime(t) => (backendPc = "housekeeping" => ~Passed(t))
        BY DEF OnTime
      <4>2. backendPc' = "housekeeping" => pc' = "writes"
        BY <2>1, <3>1 DEF ReleasesInTime
      <4> QED BY <1>4, <2>1, <3>1, <3>2, <4>1, <4>2 DEF Running
    <3>3. CASE ~Running
      BY <1>1, <1>2, <1>3, <2>1, <3>1, <3>3 DEF ReleasesInTime, Running
    <3> QED BY <3>2, <3>3
  <2> QED BY <1>10, <2>2, <2>3 DEF Goes
<1>11. CASE Ends
  <2>1. /\ UNCHANGED <<now, pc, started, processRequestsTimer>>
        /\ queue' = << >> /\ backendPc # "off"
        /\ \/ backendPc' = "off" /\ completed' = {}
           \/ backendPc' = "closing" /\ pc = "done"
    BY <1>11 DEF Ends, loopVars, BackendProofs!Close, BackendProofs!DestroyMembers,
                 BackendProofs!Crash, BackendProofs!NodeGone
  <2> QED BY <1>1, <1>2, <2>1 DEF ReleasesInTime, Running
<1> QED BY <1>5, <1>6, <1>7, <1>8, <1>9, <1>10, <1>11, BenchSteps

\* What is on time is within a period and an iteration.
LEMMA OnTimeWithinPeriod ==
  ASSUME TypeOK, PaceInv, NEW t, OnTime(t), Looping
  PROVE  WithinPeriod(t)
<1>1. t \in Nat /\ now \in Nat /\ ProcessTicks \in Nat /\ Headroom \in Int
      /\ OwnTime * Second \in Int
  BY ProcessAssumption, TimeTypes DEF OnTime, DueWithin, TypeOK
<1> DEFINE own == OwnTime * Second
<1>2. SUFFICES ASSUME Headroom > 0 PROVE (now - t - ProcessTicks) * Headroom <= 1 * own
  BY DEF WithinPeriod, WithinIterations
<1>3. PICK A \in Int : A = Deadline(t) /\ Late(A)
  BY <1>1, <1>2, DeadlineType DEF OnTime
<1>4. now * Headroom - A <= own
  BY <1>2, <1>3, LateByAnIteration DEF Looping
<1> HIDE DEF own
<1>5. (now - t - ProcessTicks) * Headroom = now * Headroom - (t + ProcessTicks) * Headroom
  BY <1>1
<1> QED BY <1>1, <1>3, <1>4, <1>5 DEF Deadline, own

\* ReleasesInTime holds in every state the program reaches.
LEMMA ReleasesAlways ==
  BenchSpec => [](TypeOK /\ PaceInv /\ BackendProofs!OwnInv /\ ReleasesInTime)
<1>1. BenchInit => ReleasesInTime
  <2> SUFFICES ASSUME BenchInit PROVE ReleasesInTime
    OBVIOUS
  <2>1. now \in Nat /\ processRequestsTimer \in 0 .. ProcessTicks
    BY ClockAssumption DEF BenchInit, Init
  <2>2. DueWithin(processRequestsTimer, now)
    BY <2>1, ProcessAssumption DEF DueWithin
  <2> QED BY <2>2 DEF BenchInit, ReleasesInTime, Running
<1>2. TypeOK /\ PaceInv /\ IterInv /\ BackendProofs!OwnInv /\ ReleasesInTime
        /\ [BenchNext]_benchVars => ReleasesInTime'
  BY NextReleasesInTime
<1> QED BY <1>1, <1>2, OwnAlways, PTL DEF BenchSpec

(***************************************************************************)
(* A write reaches the node within the period of m_processRequestsTimer    *)
(* and one iteration of its Set, if Set is fast enough for the rate:       *)
(* however the batches of the catch-up loop fall between the polls, and    *)
(* however the timer re-arms.                                              *)
(***************************************************************************)
THEOREM WritesAreHandedOver == BenchSpec => []HandedOverInTime
<1>1. ASSUME TypeOK, PaceInv, ReleasesInTime PROVE HandedOverInTime
  BY <1>1, OnTimeWithinPeriod DEF ReleasesInTime, HandedOverInTime
<1> QED BY <1>1, ReleasesAlways, PTL

(***************************************************************************)
(* A request is released within that time of its completion, although it   *)
(* completes after the requests were looked at and the timer was re-armed. *)
(***************************************************************************)
THEOREM RequestsAreReleased == BenchSpec => []ReleasedInTime
<1>1. ASSUME TypeOK, PaceInv, BackendProofs!OwnInv, ReleasesInTime PROVE ReleasedInTime
  <2>1. completed # {} /\ Looping => Running
    BY <1>1 DEF ReleasesInTime, Looping, Running, BackendProofs!OwnInv, BackendProofs!TypeOK
  <2> QED BY <1>1, <2>1, OnTimeWithinPeriod DEF ReleasesInTime, ReleasedInTime
<1> QED BY <1>1, ReleasesAlways, PTL

-----------------------------------------------------------------------------
(***************************************************************************)
(* The statistics of the process                                           *)
(***************************************************************************)
\* A step of the statistics is a step of the loop.
LEMMA StatsLoopSteps == ASSUME [StatsNext]_<<loopVars, statsVars>> PROVE [Next]_loopVars
<1>1. ASSUME NEW d \in SetDurations, IssueWrite(d) PROVE Next
  BY <1>1 DEF Next
<1>2. ASSUME NEW d \in StepDurations,
             \/ RunOver(d) \/ Account(d) \/ UpdateBackend(d) \/ SampleMemory(d)
             \/ \E diskUsage \in DiskSamples : SampleDisk(diskUsage, d)
             \/ SkipDisk(d) \/ Sleep(d)
      PROVE  Next
  BY <1>2 DEF Next
<1>3. CASE Run
  BY <1>1, <1>2, <1>3 DEF Run
<1>4. CASE LeaveLoop
  BY <1>2, <1>4 DEF LeaveLoop
<1>5. CASE PrintReport
  BY <1>5 DEF PrintReport, Next
<1> QED BY <1>3, <1>4, <1>5 DEF StatsNext

\* The process has run for the ticks k and u of a time t, k0 and u0 before it.
RanFor(k0, u0, t) ==
  /\ k0 \in Nat /\ u0 \in Nat
  /\ kernelTime \in Nat /\ userTime \in Nat
  /\ k0 <= kernelTime /\ u0 <= userTime
  /\ (kernelTime - k0) + (userTime - u0) <= Threads * t

(***************************************************************************)
(* What startStats counted was used before the clock started, everything   *)
(* since then fits into the time since then, and endStats counts it all.   *)
(***************************************************************************)
StatsInv ==
  \E k0, u0 \in Nat :
    /\ startStats = GetStats(k0, u0)
    /\ RanFor(k0, u0, now)
    /\ pc = "report" => endStats = GetStats(kernelTime, userTime)

\* A step of the loop uses no more than its time.
LEMMA RunsOn ==
  ASSUME TypeOK, [Next]_loopVars, UsesTime, NEW k0, NEW u0, RanFor(k0, u0, now)
  PROVE  RanFor(k0, u0, now)'
<1>1. /\ now \in Nat /\ now' \in Nat /\ now <= now' /\ Threads \in Nat
  BY ClockAdvances, StatsAssumption DEF TypeOK
<1>2. PICK t \in Nat : now' = now + t /\ t = now' - now
  <2>1. \A n, m \in Nat : n <= m => m - n \in Nat /\ m = n + (m - n)
    OBVIOUS
  <2> QED BY <1>1, <2>1, Zenon
<1> DEFINE x == Threads * t
           y == Threads * now
<1>3. x \in Nat /\ y \in Nat /\ Threads * now' = y + x
  BY <1>1, <1>2
<1>4. PICK used \in Used(t) : kernelTime' = kernelTime + used[1] /\ userTime' = userTime + used[2]
  BY <1>2 DEF UsesTime
<1>5. used[1] \in Nat /\ used[2] \in Nat /\ used[1] + used[2] <= x
  BY <1>3 DEF Used
<1> HIDE DEF x, y
<1>6. (kernelTime - k0) + (userTime - u0) <= y
  BY DEF RanFor, y
<1>7. (kernelTime' - k0) + (userTime' - u0) <= y + x
  BY <1>3, <1>4, <1>5, <1>6 DEF RanFor
<1> QED BY <1>3, <1>4, <1>5, <1>7 DEF RanFor

\* What times() counts of an interval is at most the interval and one unit.
LEMMA CountedOfInterval ==
  ASSUME NEW a \in Nat, NEW b \in Nat, a <= b
  PROVE  \E m \in Nat : /\ Counted(b) - Counted(a) \in Nat
                        /\ Counted(b) - Counted(a) <= m + (MicrosPerClkTck - 1)
                        /\ TicksPerMicro * m <= b - a + (TicksPerMicro - 1)
<1> DEFINE M == MicrosPerClkTck
           ma == Microseconds(a)
           mb == Microseconds(b)
           ca == ma \div M
           cb == mb \div M
<1>1. M \in PosInt /\ TicksPerMicro \in PosInt
  BY StatsAssumption, ClockAssumption
<1>2. /\ ma \in Nat /\ TicksPerMicro * ma <= a /\ a <= TicksPerMicro * ma + (TicksPerMicro - 1)
      /\ mb \in Nat /\ TicksPerMicro * mb <= b /\ b <= TicksPerMicro * mb + (TicksPerMicro - 1)
  BY MicrosecondsTruncates
<1>3. /\ ca \in Nat /\ M * ca <= ma /\ ma <= M * ca + (M - 1)
      /\ cb \in Nat /\ M * cb <= mb /\ mb <= M * cb + (M - 1)
  <2> HIDE DEF ma, mb, M
  <2>1. ma \in Int /\ mb \in Int
    BY <1>2
  <2> QED BY <1>1, <1>2, <2>1, Quotient, QuotientNat
<1>4. ma <= mb
  <2> HIDE DEF ma, mb
  <2>1. TicksPerMicro * ma < TicksPerMicro * (mb + 1)
    <3>1. TicksPerMicro * (mb + 1) = TicksPerMicro * mb + TicksPerMicro
          /\ TicksPerMicro * ma \in Int /\ TicksPerMicro * mb \in Int
      BY <1>1, <1>2
    <3> QED BY <1>1, <1>2, <3>1
  <2>2. ma < mb + 1
    BY <1>1, <1>2, <2>1, Cancel
  <2> QED BY <1>2, <2>2
<1>5. Counted(a) = ca * M /\ Counted(b) = cb * M
  BY DEF Counted
<1> HIDE DEF ma, mb
<1>6. M * ca < M * (cb + 1)
  <2> HIDE DEF ca, cb, M
  <2>1. M * (cb + 1) = M * cb + M /\ M * ca \in Int /\ M * cb \in Int
    BY <1>1, <1>3
  <2> QED BY <1>1, <1>2, <1>3, <1>4, <2>1
<1> HIDE DEF ca, cb, M
<1>7. ca <= cb
  <2>1. ca < cb + 1
    BY <1>1, <1>3, <1>6, Cancel
  <2> QED BY <1>3, <2>1
<1>8. /\ ca * M \in Nat /\ cb * M \in Nat /\ ca * M <= cb * M
      /\ ca * M = M * ca /\ cb * M = M * cb
  <2>1. M * ca <= M * cb
    BY <1>1, <1>3, <1>7, Monotonic
  <2> QED BY <1>1, <1>3, <2>1
<1> DEFINE m == mb - ma
<1>9. m \in Nat /\ cb * M - ca * M <= m + (M - 1)
  BY <1>1, <1>2, <1>3, <1>4, <1>8
<1>10. TicksPerMicro * m <= b - a + (TicksPerMicro - 1)
  <2>1. TicksPerMicro * m = TicksPerMicro * mb - TicksPerMicro * ma
        /\ TicksPerMicro * mb \in Int /\ TicksPerMicro * ma \in Int
    BY <1>1, <1>2
  <2> HIDE DEF m
  <2> QED BY <1>1, <1>2, <2>1
<1> QED BY <1>5, <1>8, <1>9, <1>10 DEF M

\* The report shows no more than the process used, and a unit of each counter.
LEMMA ReportWithinElapsed ==
  ASSUME TypeOK, StatsInv, PrintReport PROVE CpuWithinElapsed'
<1>0. PICK k0 \in Nat, u0 \in Nat :
        /\ startStats = GetStats(k0, u0)
        /\ RanFor(k0, u0, now)
        /\ endStats = GetStats(kernelTime, userTime)
  BY DEF StatsInv, PrintReport, Report
<1>1. /\ TicksPerMicro \in PosInt /\ Uint32 \in PosInt /\ MicrosPerClkTck \in PosInt
      /\ Threads \in PosInt /\ now \in Nat
  BY ClockAssumption, StatsAssumption DEF TypeOK
<1> DEFINE T == TicksPerMicro
           e == Microseconds(now)
           dk == Counted(kernelTime) - Counted(k0)
           du == Counted(userTime) - Counted(u0)
<1>2. SUFFICES ASSUME now < Uint32 * T
               PROVE  cpuReport'.kernel + cpuReport'.user
                        < Threads * (report'.elapsed + 1) + 2 * MicrosPerClkTck
  BY DEF CpuWithinElapsed, PrintReport, Report
<1>3. report'.elapsed = e
  <2>1. MicrosSince(0) = Microseconds(now)
    BY <1>1, <1>2, PassedBound
  <2> QED BY <2>1 DEF PrintReport, Report
<1>4. e \in Nat /\ now <= T * e + (T - 1)
  BY <1>1, MicrosecondsTruncates
<1>5. /\ k0 <= kernelTime /\ u0 <= userTime /\ kernelTime \in Nat /\ userTime \in Nat
      /\ (kernelTime - k0) + (userTime - u0) <= Threads * now
  BY <1>0 DEF RanFor
<1>6. PICK mk \in Nat : /\ dk \in Nat /\ dk <= mk + (MicrosPerClkTck - 1)
                        /\ T * mk <= kernelTime - k0 + (T - 1)
  BY <1>0, <1>5, CountedOfInterval, Zenon
<1>7. PICK mu \in Nat : /\ du \in Nat /\ du <= mu + (MicrosPerClkTck - 1)
                        /\ T * mu <= userTime - u0 + (T - 1)
  BY <1>0, <1>5, CountedOfInterval, Zenon
<1>8. /\ cpuReport'.kernel \in Nat /\ cpuReport'.kernel <= dk
      /\ cpuReport'.user \in Nat /\ cpuReport'.user <= du
  <2>1. cpuReport'.kernel = dk % Uint32 /\ cpuReport'.user = du % Uint32
    BY <1>0 DEF PrintReport, GetStats
  <2> HIDE DEF dk, du
  <2> QED BY <1>1, <1>6, <1>7, <2>1, WrappedNat
<1> HIDE DEF dk, du, e
<1>9. mk + mu < Threads * (e + 1) + 2
  <2> DEFINE c == Threads * (e + 1)
  <2>1. c \in Nat /\ T * c \in Nat /\ T * (c + 2) = T * c + 2 * T /\ T * (mk + mu) = T * mk + T * mu
    BY <1>1, <1>4, <1>6, <1>7
  <2>2. Threads * now <= T * c - Threads
    <3>1. Threads * now <= Threads * (T * e + (T - 1))
      BY <1>1, <1>4, Monotonic
    <3>2. Threads * (T * e + (T - 1)) = T * c - Threads
      BY <1>1, <1>4
    <3> QED BY <3>1, <3>2
  <2>3. Threads * now \in Nat /\ T * mk \in Nat /\ T * mu \in Nat
    BY <1>1, <1>6, <1>7
  <2> HIDE DEF c
  <2>4. T * (mk + mu) < T * (c + 2)
    BY <1>1, <1>5, <1>6, <1>7, <2>1, <2>2, <2>3
  <2> QED BY <1>1, <1>6, <1>7, <2>1, <2>4, Cancel DEF c
<1> DEFINE c == Threads * (e + 1)
<1>10. c \in Nat
  BY <1>1, <1>4
<1> HIDE DEF c
<1>11. cpuReport'.kernel + cpuReport'.user < c + 2 * MicrosPerClkTck
  BY <1>1, <1>6, <1>7, <1>8, <1>9, <1>10 DEF c
<1> QED BY <1>3, <1>11 DEF c

(***************************************************************************)
(* The report charges the run with no more processor time than its threads *)
(* can have used while it lasted, up to the units of times() and the       *)
(* truncated microsecond: the counters are read after the clock at the     *)
(* start of the run and before it at the end.                              *)
(***************************************************************************)
THEOREM CpuIsWithinElapsed == StatsSpec => []CpuWithinElapsed
<1>1. StatsInit => TypeOK /\ StatsInv /\ CpuWithinElapsed
  <2> SUFFICES ASSUME StatsInit PROVE TypeOK /\ StatsInv /\ CpuWithinElapsed
    OBVIOUS
  <2>1. TypeOK /\ pc = "loop" /\ now \in Nat
    BY InitType DEF StatsInit, Init, TypeOK
  <2>2. kernelTime \in Nat /\ userTime \in Nat
    BY StatsAssumption DEF StatsInit
  <2>3. 0 <= Threads * now
    BY <2>1, StatsAssumption
  <2>4. RanFor(kernelTime, userTime, now)
    BY <2>2, <2>3 DEF RanFor
  <2>5. startStats = GetStats(kernelTime, userTime)
    BY DEF StatsInit, StartStats
  <2> QED BY <2>1, <2>2, <2>4, <2>5 DEF StatsInv, CpuWithinElapsed
<1>2. ASSUME TypeOK, StatsInv, CpuWithinElapsed, [StatsNext]_<<loopVars, statsVars>>
      PROVE  TypeOK' /\ StatsInv' /\ CpuWithinElapsed'
  <2>1. [Next]_loopVars /\ TypeOK'
    BY <1>2, StatsLoopSteps, NextType
  <2>2. PICK k0 \in Nat, u0 \in Nat :
          /\ startStats = GetStats(k0, u0)
          /\ RanFor(k0, u0, now)
          /\ pc = "report" => endStats = GetStats(kernelTime, userTime)
    BY <1>2 DEF StatsInv
  <2>3. CASE Run
    <3>1. UsesTime /\ startStats' = startStats
      BY <2>3 DEF Run
    <3>2. pc' \notin {"report", "done"}
      BY <2>3 DEF Run, IssueWrite, Account, UpdateBackend, SampleMemory, SampleDisk,
                  SkipDisk, Sleep
    <3>3. RanFor(k0, u0, now)'
      BY <1>2, <2>1, <2>2, <3>1, RunsOn
    <3>4. startStats' = GetStats(k0, u0)
      BY <2>2, <3>1
    <3>5. GetStats(k0, u0)' = GetStats(k0, u0)
      BY DEF GetStats, Counted, Microseconds
    <3> QED BY <2>1, <3>2, <3>3, <3>4, <3>5 DEF StatsInv, CpuWithinElapsed
  <2>4. CASE LeaveLoop
    <3>1. /\ UsesTime /\ startStats' = startStats /\ pc' = "report"
          /\ endStats' = GetStats(kernelTime', userTime')
      BY <2>4 DEF LeaveLoop, RunOver
    <3>2. RanFor(k0, u0, now)'
      BY <1>2, <2>1, <2>2, <3>1, RunsOn
    <3> QED BY <2>1, <2>2, <3>1, <3>2
            DEF StatsInv, CpuWithinElapsed, GetStats, Counted, Microseconds
  <2>5. CASE PrintReport
    <3>1. UNCHANGED <<kernelTime, userTime, startStats, endStats, now>> /\ pc' = "done"
      BY <2>5 DEF PrintReport, Report
    <3>2. StatsInv'
      BY <2>2, <3>1 DEF StatsInv, RanFor, GetStats, Counted, Microseconds
    <3> QED BY <1>2, <2>1, <2>5, <3>2, ReportWithinElapsed
  <2>6. CASE UNCHANGED <<loopVars, statsVars>>
    <3>1. UNCHANGED <<kernelTime, userTime, startStats, endStats, cpuReport, now, pc, report>>
      BY <2>6 DEF loopVars, statsVars
    <3>2. StatsInv'
      BY <2>2, <3>1 DEF StatsInv, RanFor, GetStats, Counted, Microseconds
    <3>3. CpuWithinElapsed'
      BY <1>2, <3>1 DEF CpuWithinElapsed
    <3> QED BY <2>1, <3>2, <3>3
  <2> QED BY <1>2, <2>3, <2>4, <2>5, <2>6 DEF StatsNext
<1> QED BY <1>1, <1>2, PTL DEF StatsSpec
=============================================================================
